-------------------------------- MODULE Tls ---------------------------------
(***************************************************************************)
(* kernel/tls.c over the byte stream of TCP: tls_connect and tls_recv      *)
(* with a conformant server, tls_accept with a conformant client.          *)
(*                                                                         *)
(* The stream is a sequence of parts; a record has one or more, the first  *)
(* with its header, so that the length is known.  tcp_recv gives any       *)
(* number of the parts that have arrived.  A transcript is the sequence of *)
(* the messages hashed, a key is named by the transcript it was derived    *)
(* from, and a sealed record opens only under its own key and sequence     *)
(* number (aead.c, hkdf.c and sha256.c without collisions).  Byte k of the *)
(* server's application data is the number k; a record's `at', which       *)
(* nothing reads, is how many of them went before it.                      *)
(***************************************************************************)
EXTENDS Integers, Sequences

CONSTANTS
    TlsRoles,     \* which side the kernel plays: "client", "server"
    RxMax,        \* TLS_RX_BUF_MAX, in parts
    Flights,      \* what servers send between ServerHello and Finished: sequences of
                  \* [msgs, parts], one for each record, the last of which ends with Finished
    ServerWrites, \* the records of application data servers send: [inner, len, parts]
    MaxRecords,   \* bound on those records
    Asked         \* the sizes of the callers' buffers in tls_recv

\* Handshake messages and the ends of split ones; a transcript is the sequence of
\* their types.
MessageTypes == {"CH", "CH body", "CH without ChaCha20", "SH", "EE", "CERT", "CV", "FIN", "BEGIN", "END", "JUNK"}
Transcripts == Seq(MessageTypes)
Keys == {<<>>} \cup ({"client", "server"} \X {"hs", "ap"} \X Transcripts)
Macs == {<<>>} \cup (Keys \X Transcripts)
Messages == [type : MessageTypes, mac : Macs, whole : BOOLEAN]

ASSUME TlsAssumption ==
    /\ TlsRoles \subseteq {"client", "server"}
    /\ RxMax \in Nat /\ MaxRecords \in Nat /\ Asked \subseteq Nat
    /\ \A f \in Flights :
          /\ f # <<>>
          /\ f \in Seq([msgs : Seq([type : MessageTypes, mac : {<<>>}, whole : BOOLEAN]), parts : Nat \ {0}])
    /\ ServerWrites \subseteq [inner : {"app", "handshake", "alert"}, len : Nat, parts : Nat \ {0}]
    /\ \A w \in ServerWrites : w.inner # "app" => w.len = 0

VARIABLES
    role,         \* the side the kernel plays
    job,          \* the function at work: "none", "connect", "accept", "open", "recv", "failed"
    tls,          \* ctx: state, transcript, keys, sequence numbers, flags
    rx,           \* ctx->rx_buf
    line,         \* parts on their way to the kernel
    sent,         \* records that the kernel has sent
    peer,         \* the other side (external)
    reading,      \* the tls_recv at work: max and what it has copied to out
    returned,     \* what earlier calls of tls_recv returned, one after the other
    cut           \* a call has returned with its buffer full

tlsVars == <<role, job, tls, rx, line, sent, peer, reading, returned, cut>>

Part(rec, i) == [rec |-> rec, part |-> i]
Parts(rec) == [i \in 1..rec.parts |-> Part(rec, i)]
Plain(type, msg) == [type |-> type, key |-> <<>>, seq |-> 0, inner |-> "none", msgs |-> msg, parts |-> 1,
                     data |-> <<>>, at |-> 0]
Sealed(key, seq, inner, msgs, parts) ==
    [type |-> "app", key |-> key, seq |-> seq, inner |-> inner, msgs |-> msgs, parts |-> parts,
     data |-> <<>>, at |-> 0]

\* tls_derive_handshake_keys and the application keys of finalize_handshake.
Key(side, phase, transcript) == <<side, phase, transcript>>

\* A handshake message: whole, or a piece of one that is split over two records.
Msg(type) == [type |-> type, mac |-> <<>>, whole |-> TRUE]
\* The Finished message of a side whose transcript is t, under the keys of t0.
FinishedMsg(side, t0, t) == [type |-> "FIN", mac |-> <<Key(side, "hs", t0), t>>, whole |-> TRUE]

\* The records and messages that tls_build_... write.
ClientHelloRecord == Plain("handshake", <<Msg("CH")>>)
ServerHelloRecord == Plain("handshake", <<Msg("SH")>>)
CertificateMsg == Msg("CERT")

Upto(s, n) == SubSeq(s, 1, n)
From(s, n) == SubSeq(s, n, Len(s))
Least(S) == CHOOSE n \in S : \A m \in S : n <= m
Types(msgs) == [i \in DOMAIN msgs |-> msgs[i].type]

NoRead == [max |-> 0, out |-> <<>>]

TlsInit ==
    /\ role \in TlsRoles
    /\ job = "none"
    /\ tls = [state |-> "INIT", transcript |-> <<>>, hs |-> <<>>, seq |-> 0, ap |-> <<>>, mac_ok |-> FALSE]
    /\ rx = <<>> /\ line = <<>> /\ sent = <<>>
    /\ peer = [stage |-> "start", hs |-> <<>>, transcript |-> <<>>, seq |-> 0, wrote |-> 0, records |-> 0,
               flight |-> <<>>]
    /\ reading = NoRead /\ returned = <<>> /\ cut = FALSE

----------------------------------------------------------------------------
(* Records in the receive buffer.                                          *)

WholeRecord == rx # <<>> /\ Len(rx) >= rx[1].rec.parts
Rec == rx[1].rec
Consume == rx' = From(rx, Rec.parts + 1)

\* tcp_recv into the free space of rx_buf.
TcpRecv ==
    \E n \in 0..Len(line) :
        /\ n <= RxMax - Len(rx)
        /\ rx' = rx \o Upto(line, n)
        /\ line' = From(line, n + 1)

\* decrypt_record.
Opens(rec, key, seq) == rec.key = key /\ rec.seq = seq

----------------------------------------------------------------------------
(* tls_connect.                                                            *)

Connect ==
    /\ role = "client" /\ job = "none"
    /\ job' = "connect"
    /\ sent' = Append(sent, ClientHelloRecord)
    /\ tls' = [tls EXCEPT !.state = "CH_SENT", !.transcript = <<"CH">>]
    /\ UNCHANGED <<role, rx, line, peer, reading, returned, cut>>

Settled == tls.state \in {"FINISHED_OK", "ERROR"}

ConnectRecv ==
    /\ job = "connect" /\ ~Settled /\ ~WholeRecord
    /\ TcpRecv
    /\ UNCHANGED <<role, job, tls, sent, peer, reading, returned, cut>>

\* process_handshake_payload: messages up to Finished, or up to the first that is
\* not whole in this record.  The beginning of a split message is dropped; its end,
\* in the next record, is read as if it began a message: junk, or nothing.
MacUnseen(msg, t) == TRUE      \* mutant: the MAC is not compared
MacRight(msg, t) == msg.mac = <<Key("server", "hs", tls.hs), t>>
Ends(msgs) == {i \in DOMAIN msgs : ~msgs[i].whole \/ msgs[i].type = "FIN"}
Payload(msgs) ==
    LET e  == Least(Ends(msgs) \cup {Len(msgs) + 1})
        t  == tls.transcript \o Types(Upto(msgs, e - 1))
        ok == MacRight(msgs[e], t)
        Read(transcript) == [tls EXCEPT !.transcript = transcript, !.seq = @ + 1]
    IN  IF e > Len(msgs) \/ msgs[e].type = "BEGIN" THEN {Read(t)}
        ELSE IF msgs[e].type = "END" THEN {Read(t), Read(Append(t, "JUNK"))}
        ELSE {[Read(Append(t, "FIN")) EXCEPT !.mac_ok = ok,
                                             !.state = IF ok THEN "FINISHED_OK" ELSE "ERROR"]}

\* process_one_record.
ServerHello ==
    /\ Rec.type = "handshake" /\ tls.state = "CH_SENT"
    /\ tls' = IF Rec.msgs[1].type = "SH"
              THEN [tls EXCEPT !.transcript = Append(@, "SH"), !.hs = Append(tls.transcript, "SH"),
                               !.seq = 0, !.state = "SH_RECEIVED"]
              ELSE [tls EXCEPT !.state = "ERROR"]

Protected ==
    /\ Rec.type = "app" /\ tls.state = "SH_RECEIVED"
    /\ tls' \in IF ~Opens(Rec, Key("server", "hs", tls.hs), tls.seq) THEN {[tls EXCEPT !.state = "ERROR"]}
                ELSE IF Rec.inner = "handshake" THEN Payload(Rec.msgs)
                ELSE {[tls EXCEPT !.seq = @ + 1]}

PlainAlert == Rec.type = "alert" /\ tls' = [tls EXCEPT !.state = "ERROR"]

Ignored ==      \* ChangeCipherSpec, and what does not fit the state
    /\ Rec.type = "ccs" \/ (Rec.type = "handshake" /\ tls.state # "CH_SENT")
                        \/ (Rec.type = "app" /\ tls.state # "SH_RECEIVED")
    /\ UNCHANGED tls

ConnectRecord ==
    /\ job = "connect" /\ ~Settled /\ WholeRecord
    /\ ServerHello \/ Protected \/ PlainAlert \/ Ignored
    /\ Consume
    /\ UNCHANGED <<role, job, line, sent, peer, reading, returned, cut>>

\* finalize_handshake; what is left in rx_buf stays there for tls_recv.
Finalize ==
    /\ job = "connect" /\ tls.state = "FINISHED_OK"
    /\ job' = "open"
    /\ sent' = Append(sent, Sealed(Key("client", "hs", tls.hs), 0, "handshake",
                                   <<FinishedMsg("client", tls.hs, tls.transcript)>>, 1))
    /\ tls' = [tls EXCEPT !.ap = tls.transcript, !.seq = 0]
    /\ UNCHANGED <<role, rx, line, peer, reading, returned, cut>>

\* The deadline has passed, or the state is ERROR: the callers close the connection.
ConnectFails ==
    /\ job = "connect" /\ tls.state # "FINISHED_OK" /\ (tls.state = "ERROR" \/ ~WholeRecord)
    /\ job' = "failed"
    /\ UNCHANGED <<role, tls, rx, line, sent, peer, reading, returned, cut>>

----------------------------------------------------------------------------
(* tls_recv.                                                               *)

RecvCall(max) ==
    /\ job = "open"
    /\ job' = "recv"
    /\ reading' = [max |-> max, out |-> <<>>]
    /\ UNCHANGED <<role, tls, rx, line, sent, peer, returned, cut>>

RecvTake ==
    /\ job = "recv" /\ ~WholeRecord /\ Len(reading.out) < reading.max
    /\ TcpRecv
    /\ UNCHANGED <<role, job, tls, sent, peer, reading, returned, cut>>

RecvEnds(out) ==
    /\ job' = "open"
    /\ reading' = NoRead
    /\ returned' = returned \o out
    /\ cut' = (cut \/ Len(out) = reading.max)

\* The bytes of a record go behind those of the records before it.
JoinedAtFront(out, more) == more \o From(out, Len(more) + 1)   \* mutant: memcpy to out itself
Joined(out, more) == out \o more

\* Every whole record in rx_buf is taken out, also when the caller's buffer is full.
RecvRecord ==
    LET opens == Rec.type = "app" /\ Opens(Rec, Key("server", "ap", tls.ap), tls.seq)
        room  == reading.max - Len(reading.out)
    IN  /\ job = "recv" /\ WholeRecord
        /\ Consume
        /\ tls' = IF opens THEN [tls EXCEPT !.seq = @ + 1] ELSE tls
        /\ \/ /\ opens /\ Rec.inner = "app"
              /\ reading' = [reading EXCEPT !.out =
                    Joined(@, Upto(Rec.data, IF Len(Rec.data) < room THEN Len(Rec.data) ELSE room))]
              /\ UNCHANGED <<job, returned, cut>>
           \/ /\ opens /\ Rec.inner = "alert"
              /\ RecvEnds(reading.out)
           \/ /\ ~opens \/ Rec.inner = "handshake"
              /\ UNCHANGED <<job, reading, returned, cut>>
        /\ UNCHANGED <<role, line, sent, peer>>

\* The buffer is full, or the deadline has passed.
RecvReturn ==
    /\ job = "recv" /\ ~WholeRecord
    /\ RecvEnds(reading.out)
    /\ UNCHANGED <<role, tls, rx, line, sent, peer>>

----------------------------------------------------------------------------
(* tls_accept.                                                             *)

Accept ==
    /\ role = "server" /\ job = "none"
    /\ job' = "accept"
    /\ UNCHANGED <<role, tls, rx, line, sent, peer, reading, returned, cut>>

AcceptRecv ==
    /\ job = "accept" /\ ~WholeRecord
    /\ TcpRecv
    /\ UNCHANGED <<role, job, tls, sent, peer, reading, returned, cut>>

\* tls_parse_client_hello: a key share and ChaCha20 are offered.
HelloUsable(rec) == rec.type = "handshake" /\ rec.msgs[1].type = "CH"

\* The ClientHello: the transcript takes its body (from rx_buf[9] on), then
\* ServerHello, EncryptedExtensions, Certificate and Finished.
Answered == sent # <<>>
AcceptHello ==
    LET hs == <<"CH body", "SH">>
        t  == hs \o <<"EE", "CERT">>
    IN  /\ job = "accept" /\ WholeRecord /\ ~Answered
        /\ HelloUsable(Rec)
        /\ rx' = <<>>
        /\ sent' = <<ServerHelloRecord,
                     Sealed(Key("server", "hs", hs), 0, "handshake",
                            <<Msg("EE"), CertificateMsg, FinishedMsg("server", hs, t)>>, 1)>>
        /\ tls' = [tls EXCEPT !.hs = hs, !.transcript = Append(t, "FIN")]
        /\ UNCHANGED <<role, job, line, peer, reading, returned, cut>>

\* The client's Finished, which must be the next record.
AcceptFinished ==
    LET ok == /\ Rec.type = "app"
              /\ Opens(Rec, Key("client", "hs", tls.hs), 0)
              /\ Rec.inner = "handshake"
              /\ Rec.msgs[1] = FinishedMsg("client", tls.hs, tls.transcript)
    IN  /\ job = "accept" /\ WholeRecord /\ Answered
        /\ job' = IF ok THEN "open" ELSE "failed"
        /\ tls' = [tls EXCEPT !.mac_ok = ok, !.state = IF ok THEN "FINISHED_OK" ELSE "ERROR"]
        /\ UNCHANGED <<role, rx, line, sent, peer, reading, returned, cut>>

\* The deadline passes, or the ClientHello is of no use.
AcceptFails ==
    /\ job = "accept"
    /\ ~WholeRecord \/ (WholeRecord /\ ~Answered /\ ~HelloUsable(Rec))
    /\ job' = "failed"
    /\ tls' = [tls EXCEPT !.state = "ERROR"]
    /\ UNCHANGED <<role, rx, line, sent, peer, reading, returned, cut>>

----------------------------------------------------------------------------
(* The other side (external): RFC 8446 as far as the kernel's part needs.  *)

Deliver(records) == line' = line \o records

\* A message split in two, the beginning of which ends a record, is hashed once,
\* where it ends.
Hashed(types) ==
    IF types # <<>> /\ types[Len(types)] = "BEGIN" THEN Upto(types, Len(types) - 1) ELSE types

\* The answer to ClientHello: ServerHello, and for old middleboxes a ChangeCipherSpec.
ServerHelloSent(f) ==
    /\ role = "client" /\ sent # <<>> /\ peer.stage = "start"
    /\ \E compat \in BOOLEAN :
          Deliver(Parts(ServerHelloRecord) \o (IF compat THEN Parts(Plain("ccs", <<>>)) ELSE <<>>))
    /\ peer' = [peer EXCEPT !.stage = "flying", !.hs = <<"CH", "SH">>, !.transcript = <<"CH", "SH">>,
                            !.flight = f]
    /\ UNCHANGED <<role, job, tls, rx, sent, reading, returned, cut>>

\* The next record of the flight, sealed in order; the transcript grows over all of
\* them, and Finished, which ends the last one, is the MAC of it.
ServerFlight ==
    LET r     == Head(peer.flight)
        sofar == peer.transcript \o Hashed(Types(r.msgs))
        last  == Len(peer.flight) = 1
        key   == Key("server", "hs", peer.hs)
        msgs  == IF last THEN Append(r.msgs, FinishedMsg("server", peer.hs, sofar)) ELSE r.msgs
    IN  /\ role = "client" /\ peer.stage = "flying"
        /\ Deliver(Parts(Sealed(key, peer.seq, "handshake", msgs, r.parts)))
        /\ peer' = [peer EXCEPT !.stage = IF last THEN "flown" ELSE @,
                                !.transcript = IF last THEN Append(sofar, "FIN") ELSE sofar,
                                !.seq = IF last THEN 0 ELSE @ + 1,
                                !.flight = Tail(@)]
        /\ UNCHANGED <<role, job, tls, rx, sent, reading, returned, cut>>

\* A record under the application keys: data, a ticket, or an alert at the end.
ServerRecord(w) ==
    /\ role = "client" /\ peer.stage = "flown" /\ peer.records < MaxRecords
    /\ Deliver(Parts([Sealed(Key("server", "ap", peer.transcript), peer.seq, w.inner, <<>>, w.parts)
                      EXCEPT !.data = [i \in 1..w.len |-> peer.wrote + i], !.at = peer.wrote]))
    /\ peer' = [peer EXCEPT !.seq = @ + 1, !.wrote = @ + w.len, !.records = @ + 1,
                            !.stage = IF w.inner = "alert" THEN "over" ELSE @]
    /\ UNCHANGED <<role, job, tls, rx, sent, reading, returned, cut>>

\* A server that gives up on the handshake.
ServerRefuses ==
    /\ role = "client" /\ sent # <<>> /\ peer.stage = "start"
    /\ Deliver(Parts(Plain("alert", <<>>)))
    /\ peer' = [peer EXCEPT !.stage = "over"]
    /\ UNCHANGED <<role, job, tls, rx, sent, reading, returned, cut>>

ClientHello ==
    /\ role = "server" /\ peer.stage = "start"
    /\ \E n \in 1..2, hello \in {"CH", "CH without ChaCha20"} :
          Deliver(Parts([Plain("handshake", <<Msg(hello)>>) EXCEPT !.parts = n]))
    /\ peer' = [peer EXCEPT !.stage = "hello", !.hs = <<"CH", "SH">>]
    /\ UNCHANGED <<role, job, tls, rx, sent, reading, returned, cut>>

\* The client opens the server's flight and answers, or refuses it with an alert.
ClientFinished ==
    LET t == peer.hs \o <<"EE", "CERT">>
        flight == sent[2]
    IN  /\ role = "server" /\ peer.stage = "hello" /\ sent # <<>>
        /\ IF /\ Opens(flight, Key("server", "hs", peer.hs), 0)
              /\ flight.msgs[3] = FinishedMsg("server", peer.hs, t)
           THEN Deliver(Parts(Sealed(Key("client", "hs", peer.hs), 0, "handshake",
                                     <<FinishedMsg("client", peer.hs, Append(t, "FIN"))>>, 1)))
           ELSE Deliver(Parts(Plain("alert", <<>>)))
        /\ peer' = [peer EXCEPT !.stage = "over"]
        /\ UNCHANGED <<role, job, tls, rx, sent, reading, returned, cut>>

TlsNext ==
    \/ Connect \/ ConnectRecv \/ ConnectRecord \/ Finalize \/ ConnectFails
    \/ \E max \in Asked : RecvCall(max)
    \/ RecvTake \/ RecvRecord \/ RecvReturn
    \/ Accept \/ AcceptRecv \/ AcceptHello \/ AcceptFinished \/ AcceptFails
    \/ (\E f \in Flights : ServerHelloSent(f)) \/ ServerFlight
    \/ \E w \in ServerWrites : ServerRecord(w)
    \/ ServerRefuses \/ ClientHello \/ ClientFinished

TlsSpec == TlsInit /\ [][TlsNext]_tlsVars

----------------------------------------------------------------------------
(* Properties.                                                             *)

\* A handshake that the kernel reports done (FINISHED_OK) is the one the other
\* side made: same messages in the same order, however they were grouped into
\* records and cut by tcp_recv; hence the same application keys.
HandshakeAgreed ==
    tls.state = "FINISHED_OK" => tls.mac_ok /\ (role = "client" => tls.transcript = peer.transcript)

\* What tls_recv returns is the server's data in order without a repetition; a
\* call's bytes have no gap; and until a call fills its buffer (the rest of the
\* record and of rx_buf is then lost) nothing at all is missing.
Returned == returned \o reading.out
ReadsInOrder ==
    /\ \A i \in 1..Len(Returned) - 1 : Returned[i] < Returned[i + 1]
    /\ \A i \in 1..Len(reading.out) - 1 : reading.out[i + 1] = reading.out[i] + 1
    /\ ~cut => \A i \in DOMAIN Returned : Returned[i] = i
=============================================================================
