--------------------------------- MODULE Certs --------------------------------
(***************************************************************************)
(* Certificates: the DER reader of kernel/x509.c, the anchors of trust.c,  *)
(* and what tls.c concludes from a Certificate message.                    *)
(*                                                                         *)
(* A DER element is a record of its tag and its contents, a sequence of    *)
(* elements or a plain value; the tag "BROKEN" is an element whose length  *)
(* leads past its surroundings.  A certificate is given by what its maker  *)
(* means it to say, [form, issuer, subject, sans, alg, key, sigalg,        *)
(* signer], and read as he encodes it.  Names are sequences of labels.  A  *)
(* signature is the key that made it over these very bytes; rsa.c,         *)
(* rsa_pss.c and ecdsa.c are in the modules Rsa and Ecdsa.                 *)
(***************************************************************************)
EXTENDS Integers, Sequences, FiniteSets, FiniteSetsExt

CONSTANTS
    Anchors,        \* the certificates that may be offered to trust_add
    Lists,          \* what a Certificate message may hold: sequences of [cert, fits]
    Hosts,          \* names that tls_connect is called with
    Lower,          \* a label in small letters: a function on the labels that have others
    TRUST_MAX, X509_SAN_MAX, CHAIN_MAX

VARIABLES
    store,          \* trust.c: the anchors, parsed
    leaf,           \* chain_certs[0], which is static; the others are written before they are read
    ctx,            \* what tls_ctx_t says of the server's certificates, and its hostname
    shown           \* the list of the last message that was read to its end (history)

certVars == <<store, leaf, ctx, shown>>

\* The certificates at hand.
Known == Anchors \cup UNION {{list[i].cert : i \in DOMAIN list} : list \in Lists}
Forms == {"v3", "v1", "critical", "ids", "unsigned", "keyless", "broken"}
IsSeq(s) == s \in Seq({s[i] : i \in DOMAIN s})

\* Certificates are as their makers make them; "none" is no key.
ASSUME CertsAssumption ==
    /\ TRUST_MAX \in Nat /\ X509_SAN_MAX \in Nat /\ CHAIN_MAX \in Nat \ {0}
    /\ \A list \in Lists : IsSeq(list)
    /\ \A host \in Hosts : IsSeq(host)
    /\ \A d \in Known :
          /\ d.form \in Forms /\ d.key # "none"
          /\ IsSeq(d.subject) /\ IsSeq(d.sans) /\ \A i \in DOMAIN d.sans : IsSeq(d.sans[i])

----------------------------------------------------------------------------
(* The makers of certificates (external).  The forms: "v3" has everything, *)
(* "v1" neither a version nor extensions, "critical" marks its names with  *)
(* the flag, after another extension, "ids" has an identifier before them, *)
(* "unsigned" lacks the signature, "keyless" ends behind the subject,      *)
(* "broken" has a length that leads out of the extensions.                 *)
E(tag, val) == [tag |-> tag, val |-> val]
Seq1(val) == E("SEQUENCE", val)
NameOf(cn) == Seq1(<<E("SET", <<Seq1(<<E("OID", "O"), E("UTF8STRING", <<"vyro">>)>>)>>),
                     E("SET", <<Seq1(<<E("OID", "CN"), E("PRINTSTRING", cn)>>)>>)>>)
SanOf(d) == LET names == Seq1([i \in DOMAIN d.sans |-> E("DNS", d.sans[i])])
            IN  Seq1(<<E("OID", "SAN")>> \o (IF d.form = "critical" THEN <<E("BOOLEAN", TRUE)>> ELSE <<>>)
                         \o <<E("OCTETSTRING", <<names>>)>>)
Extensions(d) ==
    CASE d.form = "v1" -> <<>>
      [] d.form = "broken" -> <<E("BROKEN", <<>>)>>
      [] d.form = "critical" ->
           <<E("CTX3", <<Seq1(<<Seq1(<<E("OID", "usage"), E("OCTETSTRING", <<>>)>>), SanOf(d)>>)>>)>>
      [] d.form = "ids" -> <<E("CTX1", <<>>), E("CTX3", <<Seq1(<<SanOf(d)>>)>>)>>
      [] OTHER -> <<E("CTX3", <<Seq1(<<SanOf(d)>>)>>)>>
Version(d) == IF d.form = "v1" THEN <<>> ELSE <<E("CTX0", <<>>)>>
Times == Seq1(<<E("UTCTIME", 1), E("UTCTIME", 2)>>)
Spki(d) == Seq1(<<Seq1(<<E("OID", d.alg)>>), E("BITSTRING", d.key)>>)
Tbs(d) ==
    Version(d)
       \o <<E("INTEGER", 1), Seq1(<<E("OID", d.sigalg)>>), NameOf(d.issuer), Times, NameOf(d.subject)>>
       \o (IF d.form = "keyless" THEN <<>> ELSE <<Spki(d)>> \o Extensions(d))
Encoded(d) ==
    Seq1(<<Seq1(Tbs(d)), Seq1(<<E("OID", d.sigalg)>>)>>
            \o (IF d.form = "unsigned" THEN <<>> ELSE <<E("BITSTRING", d.signer)>>))

----------------------------------------------------------------------------
(* der_tlv and der_expect at the element of s with the number i: both move *)
(* on to the next one, also when it has another tag.                       *)
Reads(s, i) == i \in DOMAIN s /\ s[i].tag # "BROKEN"
Expect(s, i, tag) == Reads(s, i) /\ s[i].tag = tag

\* The first element of s that can be read and satisfies Fits(_), before any that
\* Stops(_): 0 if there is none.
FirstWith(s, Fits(_), Stops(_)) ==
    LET at == {i \in DOMAIN s : Fits(s[i]) /\ \A j \in 1..i : ~Stops(s[j])}
    IN  IF at = {} THEN 0 ELSE Min(at)

\* The n-th of a set of numbers, in their order.
Nth(S, n) == CHOOSE i \in S : Cardinality({j \in S : j <= i}) = n

\* extract_cn_from_name: the first common name that has a type it knows.
IsCn(atv) ==
    /\ Expect(atv.val, 1, "OID") /\ atv.val[1].val = "CN"
    /\ Reads(atv.val, 2) /\ atv.val[2].tag \in {"UTF8STRING", "PRINTSTRING", "IA5STRING"}
NotSequence(e) == e.tag # "SEQUENCE"
CnIn(rdn) == FirstWith(rdn.val, IsCn, NotSequence)
HasCn(rdn) == rdn.tag = "SET" /\ CnIn(rdn) # 0
EndsRdns(rdn) ==
    \/ rdn.tag # "SET"
    \/ \E i \in DOMAIN rdn.val : NotSequence(rdn.val[i]) /\ \A j \in 1..i - 1 : ~IsCn(rdn.val[j])
CnRdn(name) == FirstWith(name, HasCn, EndsRdns)
CommonName(name) ==
    LET r == CnRdn(name) IN IF r = 0 THEN <<>> ELSE name[r].val[CnIn(name[r])].val[2].val

\* Where the octets of an extension are: behind the flag "critical", if it is there.
OctetsAt(ext) == IF Expect(ext, 2, "BOOLEAN") THEN 3 ELSE 2
IsSan(ext) ==
    /\ Expect(ext.val, 1, "OID") /\ ext.val[1].val = "SAN"
    /\ Expect(ext.val, OctetsAt(ext.val), "OCTETSTRING")

\* extract_san: the DNS names of the first such extension, up to X509_SAN_MAX.
GeneralNames(exts) ==
    LET i == FirstWith(exts, IsSan, NotSequence)
        wrap == exts[i].val[OctetsAt(exts[i].val)].val
    IN  IF i = 0 \/ ~Expect(wrap, 1, "SEQUENCE") THEN <<>> ELSE wrap[1].val
DnsNames(names) ==
    LET dns == {e \in DOMAIN names : names[e].tag = "DNS" /\ \A before \in 1..e : Reads(names, before)}
    IN  [n \in 1..Min({Cardinality(dns), X509_SAN_MAX}) |-> names[Nth(dns, n)].val]
AltNames(exts) == DnsNames(GeneralNames(exts))

NoCert == [issuer |-> <<>>, subject |-> <<>>, sans |-> <<>>, pkey_alg |-> "UNKNOWN", key |-> "none",
           sig_alg |-> "UNKNOWN", sig |-> "none", ok |-> FALSE]

\* The key: the BITSTRING behind the algorithm.  The test for an RSA key has read
\* it when the test for an EC key looks for another one behind it.
KeyOf(spki, alg) ==
    IF Expect(spki, 2, "BITSTRING") /\ alg = "RSA" THEN spki[2].val
    ELSE IF Expect(spki, 3, "BITSTRING") /\ alg = "EC" THEN spki[3].val
    ELSE "none"

KnownKeyAlg(oid) == IF oid \in {"RSA", "EC"} THEN oid ELSE "UNKNOWN"
KnownSigAlg(oid) ==
    IF oid \in {"SHA256_RSA", "SHA384_RSA", "SHA512_RSA", "ECDSA_SHA256", "ECDSA_SHA384", "RSA_PSS"}
    THEN oid ELSE "UNKNOWN"

\* x509_parse at der, its contents c, those of the body t, with the number o of
\* elements before the serial number and the place ext of the extensions: what is
\* asked for at the front, of the dates and the subject, of the key, of the
\* extensions and of the signature's algorithm.
FrontIsThere(der, c, t, o) ==
    /\ der.tag = "SEQUENCE" /\ Expect(c, 1, "SEQUENCE")
    /\ Expect(t, o + 1, "INTEGER") /\ Expect(t, o + 2, "SEQUENCE") /\ Expect(t, o + 3, "SEQUENCE")
DatesAreThere(t, o) ==
    /\ Expect(t, o + 4, "SEQUENCE")
    /\ \A i \in 1..2 : Reads(t[o + 4].val, i) /\ t[o + 4].val[i].tag \in {"UTCTIME", "GENTIME"}
    /\ Expect(t, o + 5, "SEQUENCE")
KeyIsThere(t, o) ==
    /\ Expect(t, o + 6, "SEQUENCE") /\ Expect(t[o + 6].val, 1, "SEQUENCE")
    /\ Expect(t[o + 6].val[1].val, 1, "OID")
ExtensionsAreRight(t, o, ext) ==
    IF ext > o + 6 THEN (\A i \in o + 7..ext : t[i].tag # "BROKEN") /\ Expect(t[ext].val, 1, "SEQUENCE")
    ELSE \A i \in o + 7..Len(t) : t[i].tag # "BROKEN"
AlgorithmIsThere(c) == Expect(c, 2, "SEQUENCE") /\ Expect(c[2].val, 1, "OID")

\* The number of the first check that fails, or 6.
FirstFailure(der, c, t, o, ext) ==
    Min({6} \cup {k \in 1..5 : \/ k = 1 /\ ~FrontIsThere(der, c, t, o)
                               \/ k = 2 /\ ~DatesAreThere(t, o)
                               \/ k = 3 /\ ~KeyIsThere(t, o)
                               \/ k = 4 /\ ~ExtensionsAreRight(t, o, ext)
                               \/ k = 5 /\ ~AlgorithmIsThere(c)})

\* The fields are filled in the order of the checks, those before the first check
\* that fails also when the certificate is refused.
Filled(c, t, o, ext, fails) ==
    LET alg == KnownKeyAlg(t[o + 6].val[1].val[1].val)
    IN  [issuer   |-> IF fails > 1 THEN CommonName(t[o + 3].val) ELSE <<>>,
         subject  |-> IF fails > 2 THEN CommonName(t[o + 5].val) ELSE <<>>,
         pkey_alg |-> IF fails > 3 THEN alg ELSE "UNKNOWN",
         key      |-> IF fails > 3 THEN KeyOf(t[o + 6].val, alg) ELSE "none",
         sans     |-> IF fails > 4 /\ ext > o + 6 THEN AltNames(t[ext].val[1].val) ELSE <<>>,
         sig_alg  |-> IF fails > 5 THEN KnownSigAlg(c[2].val[1].val) ELSE "UNKNOWN",
         sig      |-> IF fails > 5 /\ Expect(c, 3, "BITSTRING") THEN c[3].val ELSE "none",
         ok       |-> fails = 6]

IsExtensions(e) == e.tag = "CTX3"
ExtensionsAt(t) == FirstWith(t, IsExtensions, LAMBDA e : FALSE)
ParseBody(der, c, t, o) ==
    LET ext == ExtensionsAt(t)
    IN  Filled(c, t, o, ext, FirstFailure(der, c, t, o, ext))
ParseVersion(der, c, t) == ParseBody(der, c, t, IF Len(t) > 0 /\ t[1].tag = "CTX0" THEN 1 ELSE 0)
ParseDer(der, c) == ParseVersion(der, c, IF c = <<>> THEN <<>> ELSE c[1].val)
Parse(d) == LET der == Encoded(d) IN ParseDer(der, der.val)

\* The certificates at hand, parsed once.
Parsed == [d \in Known |-> Parse(d)]

\* x509_verify_signature.
VerifySignature(child, parent) ==
    /\ \/ child.sig_alg \in {"SHA256_RSA", "RSA_PSS"} /\ parent.pkey_alg = "RSA"
       \/ child.sig_alg = "ECDSA_SHA256" /\ parent.pkey_alg = "EC"
    /\ parent.key # "none" /\ child.sig = parent.key

----------------------------------------------------------------------------
(* trust.c                                                                 *)
Small(label) == IF label \in DOMAIN Lower THEN Lower[label] ELSE label
SameName(a, b) == Len(a) = Len(b) /\ \A i \in DOMAIN a : Small(a[i]) = Small(b[i])

TrustAdd(d) ==
    /\ Len(store) < TRUST_MAX
    /\ Parsed[d].ok
    /\ store' = Append(store, Parsed[d])
    /\ UNCHANGED <<leaf, ctx, shown>>

TrustAddFails(d) ==
    /\ Len(store) >= TRUST_MAX \/ ~Parsed[d].ok
    /\ UNCHANGED certVars

\* trust_find_by_subject_cn: the first anchor of that name, or none.
Anchor(name) ==
    LET at == {i \in DOMAIN store : SameName(store[i].subject, name)}
    IN  IF name = <<>> \/ at = {} THEN NoCert ELSE store[Min(at)]

----------------------------------------------------------------------------
(* tls.c                                                                   *)

\* hostname_eq: a star stands for the first label.
HostEq(pat, host) ==
    IF Len(pat) >= 2 /\ pat[1] = "*"
    THEN Len(host) >= 2 /\ SameName(Tail(pat), Tail(host))
    ELSE SameName(pat, host)

HostnameMatches(cert, host) ==
    \/ \E i \in DOMAIN cert.sans : HostEq(cert.sans[i], host)
    \/ cert.subject # <<>> /\ HostEq(cert.subject, host)

\* Mutant of WalkChain: the last certificate is looked up, not verified.
WalkChainByName(certs) ==
    /\ certs # <<>>
    /\ \A i \in 1..Len(certs) - 1 : VerifySignature(certs[i], certs[i + 1])
    /\ Anchor(certs[Len(certs)].issuer) # NoCert

WalkChain(certs) ==
    /\ certs # <<>>
    /\ \A i \in 1..Len(certs) - 1 : VerifySignature(certs[i], certs[i + 1])
    /\ LET last == certs[Len(certs)] IN VerifySignature(last, Anchor(last.issuer))

NothingShown == <<[fits |-> "none"]>>
NoCtx == [host |-> <<>>, saw |-> FALSE, parse_ok |-> FALSE, chain_len |-> 0, self_sign_ok |-> FALSE,
          chain_verified |-> FALSE, match_ok |-> FALSE]

\* tls_connect on a context full of zeros.
ConnectTo(host) ==
    /\ ctx' = [NoCtx EXCEPT !.host = host]
    /\ shown' = NothingShown
    /\ UNCHANGED <<store, leaf>>

\* The entries that the loop of process_certificate_msg takes.
Taken(list) == SubSeq(list, 1, Min({Len(list), CHAIN_MAX}))
Spoilt(item) == item.fits # "yes" \/ ~Parsed[item.cert].ok

\* process_certificate_msg: with an entry that does not fit its list, or that is
\* refused, it returns and leaves what an earlier message has concluded.
CertificateSpoilt(list) ==
    /\ ctx.host # <<>>
    /\ \E i \in DOMAIN Taken(list) : Spoilt(list[i])
    /\ ctx' = [ctx EXCEPT !.saw = TRUE]
    /\ leaf' = IF list[1].fits = "cert" THEN leaf ELSE Parsed[list[1].cert]
    /\ UNCHANGED <<store, shown>>

Certificate(list) ==
    /\ ctx.host # <<>>
    /\ \A i \in DOMAIN Taken(list) : ~Spoilt(list[i])
    /\ LET certs == [i \in DOMAIN Taken(list) |-> Parsed[list[i].cert]]
           first == IF certs = <<>> THEN leaf ELSE certs[1]
       IN  /\ leaf' = first
           /\ ctx' = [ctx EXCEPT
                 !.saw = TRUE, !.parse_ok = TRUE, !.chain_len = Len(certs),
                 !.self_sign_ok = IF <<first.sig_alg, first.pkey_alg>> \in
                                       {<<"SHA256_RSA", "RSA">>, <<"ECDSA_SHA256", "EC">>}
                                  THEN VerifySignature(first, first) ELSE @,
                 !.chain_verified = WalkChain(certs),
                 !.match_ok = HostnameMatches(first, ctx.host)]
    /\ shown' = list
    /\ UNCHANGED store

CertsInit == store = <<>> /\ leaf = NoCert /\ ctx = NoCtx /\ shown = NothingShown
CertsNext ==
    \/ \E d \in Anchors : ctx = NoCtx /\ (TrustAdd(d) \/ TrustAddFails(d))
    \/ \E host \in Hosts : ConnectTo(host)
    \/ \E list \in Lists : CertificateSpoilt(list) \/ Certificate(list)
CertsSpec == CertsInit /\ [][CertsNext]_certVars

----------------------------------------------------------------------------
\* b's key has made a's signature in a way that the kernel knows.
SignedBy(a, b) ==
    /\ a.form # "unsigned" /\ a.signer = b.key
    /\ b.alg = "RSA" /\ a.sigalg \in {"SHA256_RSA", "RSA_PSS"}

\* The same for elliptic curves, which the documentation names too.
SignedByCurve(a, b) ==
    /\ a.form # "unsigned" /\ a.signer = b.key
    /\ b.alg = "EC" /\ a.sigalg = "ECDSA_SHA256"

ChainTo(list, Link(_, _)) ==
    LET certs == Taken(list)
        n == Len(certs)
        Names(a) == certs[n].cert.issuer # <<>> /\ SameName(a.subject, certs[n].cert.issuer)
    IN  /\ n > 0
        /\ \A i \in 1..n - 1 : Link(certs[i].cert, certs[i + 1].cert)
        /\ \E a \in Anchors :
              /\ Link(certs[n].cert, a) /\ Names(a)
              /\ \E i \in DOMAIN store :
                    /\ store[i] = Parsed[a]
                    /\ \A j \in 1..i - 1 : ~SameName(store[j].subject, certs[n].cert.issuer)

\* What the certificates say is what is concluded from them: a chain counts as
\* verified exactly if each certificate is signed by the next one and the last one
\* by the first anchor with its issuer's name, all with RSA; and the name matches
\* exactly if one of the names of the leaf stands for the host.
Covers(pat, host) ==
    \/ SameName(pat, host)
    \/ Len(pat) > 1 /\ pat[1] = "*" /\ Len(host) = Len(pat) /\ SameName(Tail(pat), Tail(host))
ChainTrusted ==
    shown # NothingShown =>
        /\ ctx.chain_verified <=> ChainTo(shown, SignedBy)
        /\ shown # <<>> =>
              LET d == shown[1].cert
                  sans == IF d.form = "v1" THEN {} ELSE {d.sans[i] : i \in 1..Min({Len(d.sans), X509_SAN_MAX})}
              IN  ctx.match_ok <=> \E pat \in sans \cup {d.subject} : Covers(pat, ctx.host)

\* docs/CHANGELOG.md:12: "EC pubkey extraction, chain validation with trust anchors
\* (2 built-in: ECDSA test cert ...)".  A chain of ECDSA certificates that ends in
\* an anchor is verified as one of RSA certificates is.
CurveChains ==
    shown # NothingShown => (ChainTo(shown, SignedByCurve) => ctx.chain_verified)
=============================================================================
