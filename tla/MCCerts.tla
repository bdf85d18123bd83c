------------------------------- MODULE MCCerts -------------------------------
(* Certificates, lists of them and names for TLC. *)
EXTENDS Certs

MCLower == [l \in {"TEST", "WWW"} |-> IF l = "TEST" THEN "test" ELSE "www"]
Site == <<"www", "test">>
Star == <<"*", "test">>
RootName == <<"root">>
Cert(form, issuer, subject, sans, alg, key, sigalg, signer) ==
    [form |-> form, issuer |-> issuer, subject |-> subject, sans |-> sans, alg |-> alg, key |-> key,
     sigalg |-> sigalg, signer |-> signer]
RootA   == Cert("v1", RootName, RootName, <<>>, "RSA", "ka", "SHA256_RSA", "ka")
RootB   == Cert("v3", RootName, RootName, <<>>, "RSA", "kb", "SHA256_RSA", "kb")
RootE   == Cert("v3", <<"curve">>, <<"curve">>, <<>>, "EC", "ke", "ECDSA_SHA256", "ke")
NoKey   == Cert("keyless", RootName, RootName, <<>>, "RSA", "ka", "SHA256_RSA", "ka")
MCAnchors == {RootA, RootB, RootE, NoKey}
LeafA   == Cert("critical", RootName, <<"x">>, <<Star, <<"y">>, Site>>, "RSA", "k1", "SHA256_RSA", "ka")
LeafI   == Cert("ids", <<"mid">>, <<"WWW", "TEST">>, <<Site>>, "RSA", "k2", "RSA_PSS", "ki")
Mid     == Cert("v3", RootName, <<"mid">>, <<>>, "RSA", "ki", "SHA256_RSA", "kb")
LeafE   == Cert("v3", <<"curve">>, <<"www", "TEST">>, <<>>, "EC", "k3", "ECDSA_SHA256", "ke")
LeafU   == Cert("unsigned", RootName, Star, <<>>, "RSA", "k4", "SHA256_RSA", "ka")
Leaf3   == Cert("v3", RootName, <<"x">>, <<<<"y">>, <<"y">>, Site>>, "RSA", "k5", "SHA384_RSA", "ka")
Broken  == Cert("broken", RootName, Site, <<Site>>, "RSA", "k6", "SHA256_RSA", "ka")
Short   == Cert("keyless", RootName, Site, <<>>, "RSA", "k6", "SHA256_RSA", "ka")
Item(d) == [cert |-> d, fits |-> "yes"]
MCLists ==
    {<<>>, <<Item(LeafI), Item(Mid), Item(RootB)>>, <<[cert |-> LeafA, fits |-> "cert"]>>,
     <<[cert |-> LeafA, fits |-> "ext"]>>}
    \cup {<<Item(d)>> : d \in {RootA, LeafA, LeafI, Mid, LeafE, LeafU, Leaf3, Broken, Short}}
    \cup {<<Item(d), Item(e)>> : d \in {LeafA, LeafI, RootA}, e \in {Mid, RootA, LeafE, Short}}
MCHosts == {Site, <<"test">>, <<"ftp", "test">>}
==============================================================================
