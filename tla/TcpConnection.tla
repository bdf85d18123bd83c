--------------------------- MODULE TcpConnection ----------------------------
(***************************************************************************)
(* One TCP connection of kernel/tcp.c: a client TCB and the child TCB that *)
(* a listener creates for it, both running the handlers of the kernel,     *)
(* over a network that loses, duplicates and reorders segments.            *)
(*                                                                         *)
(* Byte k of the stream a host writes is modelled by the number k, so a    *)
(* lost, repeated or misplaced byte shows in the receiver's sequence.      *)
(* Time is abstracted: a timer whose condition is armed may fire at any    *)
(* tcp_tick.  A TCB in state CLOSED is the code's inactive slot.           *)
(*                                                                         *)
(* Sequence numbers are uint32_t in the code.  SeqMod is 2^32 there and a  *)
(* small power of two in the runs, so that the wrap-around happens within  *)
(* the checked behaviours.                                                 *)
(***************************************************************************)
EXTENDS Integers, Sequences, FiniteSets

CONSTANTS
    SeqMod,           \* the number of sequence numbers
    Client, Server,   \* the two hosts: Client calls tcp_connect, Server listens
    MSS,              \* TCP_MSS
    BUF,              \* TCP_BUF_SIZE
    InitSsthresh,     \* TCP_INIT_SSTHRESH
    DupAckThresh,     \* TCP_DUP_ACK_THRESH
    SynRetryMax,      \* SYN_RETRY_MAX
    U8,               \* number of values of the uint8_t dup_acks counter
    Isn,              \* [Host -> Seqs]: timer_uptime_ms() when the TCB was made
    MaxWrite,         \* [Host -> Nat]: bound on the bytes a host's application writes
    Closers,          \* the hosts whose application may call tcp_close
    NetCap            \* bound on the segments in transit

ASSUME SeqModAssumption == SeqMod \in Nat \ {0}

\* Sequence numbers; a + n and a - b in uint32_t; (int32_t)(a - b) > 0.
Seqs == 0 .. SeqMod - 1
Plus(a, n)  == (a + n) % SeqMod
Minus(a, b) == (a - b) % SeqMod
After(a, b) == Minus(a, b) # 0 /\ 2 * Minus(a, b) < SeqMod

Host == {Client, Server}

ASSUME ConnAssumption ==
    /\ Client # Server
    /\ MSS \in Nat \ {0}
    /\ BUF \in Nat \ {0}
    /\ InitSsthresh \in Nat
    /\ DupAckThresh \in Nat \ {0}
    /\ SynRetryMax \in Nat
    /\ U8 \in Nat \ {0}
    /\ Isn \in [Host -> Seqs]
    /\ MaxWrite \in [Host -> Nat]
    /\ \A h \in Host : 2 * (MaxWrite[h] + 3) < SeqMod
    /\ Closers \subseteq Host
    /\ NetCap \in Nat

Peer(h) == IF h = Client THEN Server ELSE Client

NoProbe == -1        \* rtt_in_flight = 0

States == {"CLOSED", "SYN_SENT", "SYN_RECEIVED", "ESTABLISHED", "FIN_WAIT_1",
           "FIN_WAIT_2", "CLOSE_WAIT", "LAST_ACK", "TIME_WAIT"}

Flags == {"SYN", "ACK", "FIN", "RST"}

Segment == [dst : Host, flags : SUBSET Flags, seq : Seqs, ack : Seqs, data : Seq(Nat)]

VARIABLES
    state, opened, retries,               \* connection: state; a TCB was made; SYN retries
    snd_una, snd_nxt, snd_buf, armed,     \* send side; armed: snd_oldest_ms # 0
    dup_acks, last_ack_recv,              \* duplicate-ACK detection
    cwnd, ssthresh,                       \* congestion control
    probe,                                \* rtt_probe_seq, or NoProbe
    rcv_nxt, rcv_buf, ooo_seq, ooo_buf,   \* receive side and the out-of-order slot
    net,                                  \* segments in transit
    \* History variables, read by properties only.
    written,                              \* bytes tcp_send has accepted
    read,                                 \* bytes tcp_recv has returned
    resent,                               \* the segment under the probe was sent again
    ambiguous                             \* an RTT sample was taken from such a segment

connVars == <<state, opened, retries>>
sndVars  == <<snd_una, snd_nxt, snd_buf, armed>>
ccVars   == <<dup_acks, last_ack_recv, cwnd, ssthresh>>
rttVars  == <<probe, resent, ambiguous>>
rcvVars  == <<rcv_nxt, rcv_buf, ooo_seq, ooo_buf>>
appVars  == <<written, read>>
vars     == <<connVars, sndVars, ccVars, rttVars, rcvVars, net, appVars>>

----------------------------------------------------------------------------
(* Segments and the network.                                               *)

MinOf(a, b) == IF a < b THEN a ELSE b
MaxOf(a, b) == IF a > b THEN a ELSE b

\* build_and_send, build_and_send_data: the segment host h puts on the wire.
Seg(h, flags, seq, ack, data) ==
    [dst |-> Peer(h), flags |-> flags, seq |-> seq, ack |-> ack, data |-> data]

\* Whatever is handed to the NIC and whatever was in transit may be lost; a
\* segment that stays in transit after its delivery is a duplicate.
Put(segs) ==
    net' \in {s \in SUBSET (net \cup segs) : Cardinality(s) <= NetCap}

----------------------------------------------------------------------------
(* The send side.                                                          *)

InFlight(h) == Minus(snd_nxt[h], snd_una[h])

\* try_emit: how many queued bytes may go out, given the send buffer, the
\* bytes in flight and the congestion window.
EmitLen(buf, inflight, cw) ==
    IF inflight >= Len(buf) \/ cw <= inflight THEN 0
    ELSE MinOf(Len(buf) - inflight, cw - inflight)

\* The MSS-sized chunks of the n bytes of buf from offset from, as segments;
\* una is the sequence number of buf[1].
DataSegs(h, una, buf, from, n, ack) ==
    {Seg(h, {"ACK"}, Plus(una, o), ack, SubSeq(buf, o + 1, MinOf(o + MSS, from + n))) :
        o \in {x \in from .. from + n - 1 : (x - from) % MSS = 0}}

\* arm_rtt_probe, called by try_emit before the first of the n bytes goes out.
ArmProbe(h, cur, n) == IF n > 0 /\ cur = NoProbe THEN snd_nxt[h] ELSE cur

Halved(h) == MaxOf(cwnd[h] \div 2, 2 * MSS)

----------------------------------------------------------------------------
(* The calls of the application.                                           *)

\* tcp_connect: the one active open of the client's port.
Connect(h) ==
    /\ h = Client
    /\ ~opened[h]
    /\ state'   = [state   EXCEPT ![h] = "SYN_SENT"]
    /\ opened'  = [opened  EXCEPT ![h] = TRUE]
    /\ retries' = [retries EXCEPT ![h] = 0]
    /\ snd_nxt' = [snd_nxt EXCEPT ![h] = Plus(Isn[h], 1)]
    /\ Put({Seg(h, {"SYN"}, Isn[h], 0, <<>>)})
    /\ UNCHANGED <<snd_una, snd_buf, armed, ccVars, rttVars, rcvVars, appVars>>

\* tcp_send of n bytes, of which the caller is told that all were accepted
\* (the code truncates n to the free space first).
Send(h, n) ==
    LET buf == snd_buf[h] \o [i \in 1 .. n |-> written[h] + i]
        k   == EmitLen(buf, InFlight(h), cwnd[h])
        p   == ArmProbe(h, probe[h], k)
    IN
    /\ state[h] = "ESTABLISHED"
    /\ n <= BUF - Len(snd_buf[h])
    /\ written[h] + n <= MaxWrite[h]
    /\ snd_buf' = [snd_buf EXCEPT ![h] = buf]
    /\ armed'   = [armed   EXCEPT ![h] = TRUE]
    /\ written' = [written EXCEPT ![h] = @ + n]
    /\ snd_nxt' = [snd_nxt EXCEPT ![h] = Plus(@, k)]
    /\ probe'   = [probe   EXCEPT ![h] = p]
    /\ resent'  = [resent  EXCEPT ![h] = @ /\ p = probe[h]]
    /\ Put(DataSegs(h, snd_una[h], buf, InFlight(h), k, rcv_nxt[h]))
    /\ UNCHANGED <<connVars, snd_una, ccVars, ambiguous, rcvVars, read>>

\* tcp_recv of n bytes.
Recv(h, n) ==
    /\ state[h] # "CLOSED"
    /\ n <= Len(rcv_buf[h])
    /\ read'    = [read    EXCEPT ![h] = @ \o SubSeq(rcv_buf[h], 1, n)]
    /\ rcv_buf' = [rcv_buf EXCEPT ![h] = SubSeq(@, n + 1, Len(@))]
    /\ UNCHANGED <<connVars, sndVars, ccVars, rttVars, rcv_nxt, ooo_seq, ooo_buf, net, written>>

\* Mutant of SendFin: the FIN goes out, and the TCB does not take note of it.
SendFinForgotten(h, next) ==
    /\ Put({Seg(h, {"FIN", "ACK"}, snd_nxt[h], rcv_nxt[h], <<>>)})
    /\ UNCHANGED <<state, snd_nxt>>

\* tcp_close's FIN: it goes out at once, behind what is in flight and before
\* what is still queued.
SendFin(h, next) ==
    /\ state'   = [state   EXCEPT ![h] = next]
    /\ snd_nxt' = [snd_nxt EXCEPT ![h] = Plus(@, 1)]
    /\ Put({Seg(h, {"FIN", "ACK"}, snd_nxt[h], rcv_nxt[h], <<>>)})

\* tcp_close: a FIN from ESTABLISHED and CLOSE_WAIT, otherwise the slot is
\* freed at once and nothing is sent.
Close(h) ==
    /\ h \in Closers
    /\ state[h] # "CLOSED"
    /\ \/ state[h] = "ESTABLISHED" /\ SendFin(h, "FIN_WAIT_1")
       \/ state[h] = "CLOSE_WAIT" /\ SendFin(h, "LAST_ACK")
       \/ /\ state[h] \notin {"ESTABLISHED", "CLOSE_WAIT"}
          /\ state' = [state EXCEPT ![h] = "CLOSED"]
          /\ UNCHANGED <<snd_nxt, net>>
    /\ UNCHANGED <<opened, retries, snd_una, snd_buf, armed, ccVars, rttVars, rcvVars, appVars>>

----------------------------------------------------------------------------
(* tcp_input in ESTABLISHED: the ACK field.                                *)

\* seg_ack - snd_una in uint32_t: an old ACK gives a huge number.
NewlyAcked(h, m) == Minus(m.ack, snd_una[h])

\* Mutant of Acks: acknowledgements of bytes that were never sent count too.
AcksUnbounded(h, m) ==
    "ACK" \in m.flags /\ NewlyAcked(h, m) # 0 /\ snd_buf[h] # <<>>

Acks(h, m) ==
    "ACK" \in m.flags /\ NewlyAcked(h, m) \in 1 .. Len(snd_buf[h])

IsDupAck(h, m) ==
    /\ "ACK" \in m.flags
    /\ NewlyAcked(h, m) = 0
    /\ snd_buf[h] # <<>>
    /\ m.data = <<>>
    /\ m.flags \cap {"SYN", "FIN"} = {}

DupCount(h, m) == IF m.ack = last_ack_recv[h] THEN (dup_acks[h] + 1) % U8 ELSE 1

IsFastRetransmit(h, m) == IsDupAck(h, m) /\ DupCount(h, m) = DupAckThresh

\* The fast retransmit sends the first chunk of snd_buf, from snd_una on;
\* the probed segment may start in it.
FirstChunk(h)   == MinOf(MSS, Len(snd_buf[h]))
ProbeInFirst(h) == probe[h] # NoProbe /\ Minus(probe[h], snd_una[h]) < FirstChunk(h)

\* slide_snd_window
Slid(h, m) == SubSeq(snd_buf[h], NewlyAcked(h, m) + 1, Len(snd_buf[h]))

\* Slow start below ssthresh, congestion avoidance above it.
Grown(h) ==
    cwnd[h] + (IF cwnd[h] < ssthresh[h] THEN MSS ELSE MaxOf(1, (MSS * MSS) \div cwnd[h]))

\* What try_emit finds in flight, and sends, once the window has slid.
FlightAfter(h, m) == Minus(snd_nxt[h], m.ack)
EmitNothing(h, m) == 0      \* mutant of EmitAfter: the slid window sends nothing
EmitAfter(h, m)   == EmitLen(Slid(h, m), FlightAfter(h, m), Grown(h))

\* (int32_t)(seg_ack - rtt_probe_seq) > 0: the ACK answers the probe.
TakesSample(h, m) == probe[h] # NoProbe /\ After(m.ack, probe[h])

AckAdvance(h, m) ==
    LET p == ArmProbe(h, IF TakesSample(h, m) THEN NoProbe ELSE probe[h], EmitAfter(h, m))
    IN
    /\ Acks(h, m)
    /\ snd_buf'       = [snd_buf EXCEPT ![h] = Slid(h, m)]
    /\ armed'         = [armed   EXCEPT ![h] = Slid(h, m) # <<>>]
    /\ snd_una'       = [snd_una EXCEPT ![h] = m.ack]
    /\ snd_nxt'       = [snd_nxt EXCEPT ![h] = Plus(@, EmitAfter(h, m))]
    /\ dup_acks'      = [dup_acks EXCEPT ![h] = 0]
    /\ last_ack_recv' = [last_ack_recv EXCEPT ![h] = m.ack]
    /\ cwnd'          = [cwnd EXCEPT ![h] = Grown(h)]
    /\ probe'         = [probe EXCEPT ![h] = p]
    /\ resent'        = [resent EXCEPT ![h] = @ /\ p = probe[h]]
    /\ ambiguous'     = [ambiguous EXCEPT ![h] = @ \/ (TakesSample(h, m) /\ resent[h])]
    /\ UNCHANGED ssthresh

AckDuplicate(h, m) ==
    /\ IsDupAck(h, m)
    /\ dup_acks'      = [dup_acks EXCEPT ![h] = DupCount(h, m)]
    /\ last_ack_recv' = [last_ack_recv EXCEPT ![h] = m.ack]
    /\ IF IsFastRetransmit(h, m)
       THEN /\ ssthresh' = [ssthresh EXCEPT ![h] = Halved(h)]
            /\ cwnd'     = [cwnd     EXCEPT ![h] = Halved(h)]
            /\ resent'   = [resent   EXCEPT ![h] = @ \/ ProbeInFirst(h)]
       ELSE UNCHANGED <<ssthresh, cwnd, resent>>
    /\ UNCHANGED <<sndVars, probe, ambiguous>>

AckIgnored(h, m) ==
    /\ ~Acks(h, m) /\ ~IsDupAck(h, m)
    /\ UNCHANGED <<sndVars, ccVars, rttVars>>

\* What the ACK field makes the host send; the segments carry the rcv_nxt of
\* before the payload is looked at.
AckSegs(h, m) ==
    IF Acks(h, m)
    THEN DataSegs(h, m.ack, Slid(h, m), FlightAfter(h, m), EmitAfter(h, m), rcv_nxt[h])
    ELSE IF IsFastRetransmit(h, m)
    THEN DataSegs(h, snd_una[h], snd_buf[h], 0, FirstChunk(h), rcv_nxt[h])
    ELSE {}

----------------------------------------------------------------------------
(* tcp_input in ESTABLISHED: the payload and the FIN flag.                 *)

InOrder(h, m) == m.data # <<>> /\ m.seq = rcv_nxt[h]

\* Payload bytes that fit in the receive buffer, and then the bytes of the
\* out-of-order slot if the payload has closed the gap.
Taken(h, m) ==
    IF InOrder(h, m) THEN SubSeq(m.data, 1, MinOf(Len(m.data), BUF - Len(rcv_buf[h]))) ELSE <<>>

ClosesGap(h, m) ==
    /\ InOrder(h, m)
    /\ ooo_buf[h] # <<>>
    /\ ooo_seq[h] = Plus(rcv_nxt[h], Len(Taken(h, m)))

\* Mutant of Drained: whatever the slot holds is taken for the next bytes.
DrainedBlindly(h, m) ==
    IF InOrder(h, m) /\ ooo_buf[h] # <<>>
    THEN SubSeq(ooo_buf[h], 1, MinOf(Len(ooo_buf[h]), BUF - Len(rcv_buf[h]) - Len(Taken(h, m))))
    ELSE <<>>

Drained(h, m) ==
    IF ClosesGap(h, m)
    THEN SubSeq(ooo_buf[h], 1, MinOf(Len(ooo_buf[h]), BUF - Len(rcv_buf[h]) - Len(Taken(h, m))))
    ELSE <<>>

\* One slot: it is overwritten only by a segment with a smaller raw sequence
\* number (the code compares seg_seq < ooo_seq without wrap-around).
KeepsOoo(h, m) ==
    /\ m.data # <<>>
    /\ After(m.seq, rcv_nxt[h])
    /\ Len(m.data) <= MSS
    /\ ooo_buf[h] = <<>> \/ m.seq < ooo_seq[h]

RcvAfterData(h, m) == Plus(rcv_nxt[h], Len(Taken(h, m)) + Len(Drained(h, m)))

\* A FIN moves rcv_nxt behind itself, whether or not the gap before it is filled.
RcvAfterFin(h, m) ==
    IF "FIN" \in m.flags THEN Plus(m.seq, Len(m.data) + 1) ELSE RcvAfterData(h, m)

TakeData(h, m) ==
    /\ rcv_buf' = [rcv_buf EXCEPT ![h] = @ \o Taken(h, m) \o Drained(h, m)]
    /\ rcv_nxt' = [rcv_nxt EXCEPT ![h] = RcvAfterFin(h, m)]
    /\ ooo_seq' = [ooo_seq EXCEPT ![h] = IF KeepsOoo(h, m) THEN m.seq ELSE @]
    /\ ooo_buf' = [ooo_buf EXCEPT ![h] = IF ClosesGap(h, m) THEN <<>>
                                         ELSE IF KeepsOoo(h, m) THEN m.data ELSE @]
    /\ state'   = [state   EXCEPT ![h] = IF "FIN" \in m.flags THEN "CLOSE_WAIT" ELSE @]

\* The acknowledgements of the payload and of the FIN.
RcvSegs(h, m) ==
    (IF m.data # <<>> THEN {Seg(h, {"ACK"}, snd_nxt'[h], RcvAfterData(h, m), <<>>)} ELSE {})
    \cup (IF "FIN" \in m.flags THEN {Seg(h, {"ACK"}, snd_nxt'[h], RcvAfterFin(h, m), <<>>)} ELSE {})

InEstablished(h, m) ==
    /\ state[h] = "ESTABLISHED"
    /\ "RST" \notin m.flags
    /\ AckAdvance(h, m) \/ AckDuplicate(h, m) \/ AckIgnored(h, m)
    /\ TakeData(h, m)
    /\ Put(AckSegs(h, m) \cup RcvSegs(h, m))
    /\ UNCHANGED <<opened, retries, appVars>>

----------------------------------------------------------------------------
(* tcp_input in the other states.                                          *)

\* send_rst_reply
RstReply(h, m) ==
    IF "ACK" \in m.flags
    THEN Seg(h, {"RST"}, m.ack, 0, <<>>)
    ELSE Seg(h, {"RST", "ACK"}, 0,
             Plus(m.seq, Len(m.data) + Cardinality(m.flags \cap {"SYN", "FIN"})), <<>>)

\* No TCB, a SYN, and a listener with a free slot: the child TCB.  Each
\* host's half of the connection is made once, so that a SYN that arrives
\* after the child is gone finds no listener: the application has closed it.
PassiveOpen(h, m) ==
    /\ state[h] = "CLOSED" /\ h = Server /\ ~opened[h]
    /\ m.flags \cap {"SYN", "ACK", "RST"} = {"SYN"}
    /\ state'   = [state   EXCEPT ![h] = "SYN_RECEIVED"]
    /\ opened'  = [opened  EXCEPT ![h] = TRUE]
    /\ rcv_nxt' = [rcv_nxt EXCEPT ![h] = Plus(m.seq, 1)]
    /\ snd_nxt' = [snd_nxt EXCEPT ![h] = Plus(Isn[h], 1)]
    /\ Put({Seg(h, {"SYN", "ACK"}, Isn[h], Plus(m.seq, 1), <<>>)})
    /\ UNCHANGED <<retries, snd_una, snd_buf, armed, ccVars, rttVars,
                   rcv_buf, ooo_seq, ooo_buf, appVars>>

\* No TCB and no listener for the segment.
InClosed(h, m) ==
    /\ state[h] = "CLOSED"
    /\ ~(h = Server /\ ~opened[h] /\ m.flags \cap {"SYN", "ACK", "RST"} = {"SYN"})
    /\ Put(IF "RST" \in m.flags THEN {} ELSE {RstReply(h, m)})
    /\ UNCHANGED <<connVars, sndVars, ccVars, rttVars, rcvVars, appVars>>

\* A RST for an active TCB frees it, whatever its sequence number.
InReset(h, m) ==
    /\ state[h] # "CLOSED"
    /\ "RST" \in m.flags
    /\ state' = [state EXCEPT ![h] = "CLOSED"]
    /\ Put({})
    /\ UNCHANGED <<opened, retries, sndVars, ccVars, rttVars, rcvVars, appVars>>

\* The segment acknowledges everything sent, a SYN or FIN at the end included.
AcksSomething(h, m) == "ACK" \in m.flags      \* mutant of AcksAll
AcksAll(h, m) == "ACK" \in m.flags /\ m.ack = snd_nxt[h]

\* The ACK of the SYN establishes; its payload and FIN are dropped.
InSynReceived(h, m) ==
    LET done == AcksAll(h, m)
    IN
    /\ state[h] = "SYN_RECEIVED"
    /\ "RST" \notin m.flags
    /\ state'   = [state   EXCEPT ![h] = IF done THEN "ESTABLISHED" ELSE @]
    /\ snd_una' = [snd_una EXCEPT ![h] = IF done THEN m.ack ELSE @]
    /\ Put(IF ~done /\ "SYN" \in m.flags
           THEN {Seg(h, {"SYN", "ACK"}, snd_una[h], rcv_nxt[h], <<>>)} ELSE {})
    /\ UNCHANGED <<opened, retries, snd_nxt, snd_buf, armed, ccVars, rttVars, rcvVars, appVars>>

\* A SYN|ACK of our SYN establishes; another acknowledgement, or a bare SYN,
\* is answered with a RST and the slot is freed.
InSynSent(h, m) ==
    LET done == "SYN" \in m.flags /\ AcksAll(h, m)
        bad  == "SYN" \in m.flags /\ ~done
    IN
    /\ state[h] = "SYN_SENT"
    /\ "RST" \notin m.flags
    /\ state'   = [state   EXCEPT ![h] = IF done THEN "ESTABLISHED"
                                         ELSE IF bad THEN "CLOSED" ELSE @]
    /\ snd_una' = [snd_una EXCEPT ![h] = IF done THEN m.ack ELSE @]
    /\ rcv_nxt' = [rcv_nxt EXCEPT ![h] = IF done THEN Plus(m.seq, 1) ELSE @]
    /\ Put(IF done THEN {Seg(h, {"ACK"}, snd_nxt[h], Plus(m.seq, 1), <<>>)}
           ELSE IF bad THEN {Seg(h, {"RST"}, IF "ACK" \in m.flags THEN m.ack ELSE snd_nxt[h], 0, <<>>)}
           ELSE {})
    /\ UNCHANGED <<opened, retries, snd_nxt, snd_buf, armed, ccVars, rttVars,
                   rcv_buf, ooo_seq, ooo_buf, appVars>>

\* Both FIN_WAIT states: the payload is dropped, a FIN is acknowledged.
InFinWait(h, m) ==
    /\ state[h] \in {"FIN_WAIT_1", "FIN_WAIT_2"}
    /\ "RST" \notin m.flags
    /\ state' = [state EXCEPT ![h] =
                    IF "FIN" \in m.flags THEN "TIME_WAIT"
                    ELSE IF AcksAll(h, m) THEN "FIN_WAIT_2" ELSE @]
    /\ snd_una' = [snd_una EXCEPT ![h] =
                    IF state[h] = "FIN_WAIT_1" /\ "ACK" \in m.flags THEN m.ack ELSE @]
    /\ rcv_nxt' = [rcv_nxt EXCEPT ![h] = IF "FIN" \in m.flags THEN Plus(m.seq, 1) ELSE @]
    /\ Put(IF "FIN" \in m.flags THEN {Seg(h, {"ACK"}, snd_nxt[h], Plus(m.seq, 1), <<>>)} ELSE {})
    /\ UNCHANGED <<opened, retries, snd_nxt, snd_buf, armed, ccVars, rttVars,
                   rcv_buf, ooo_seq, ooo_buf, appVars>>

\* The ACK of our FIN frees the slot.
InLastAck(h, m) ==
    /\ state[h] = "LAST_ACK"
    /\ "RST" \notin m.flags
    /\ state' = [state EXCEPT ![h] =
                    IF AcksAll(h, m) THEN "CLOSED" ELSE @]
    /\ Put({})
    /\ UNCHANGED <<opened, retries, sndVars, ccVars, rttVars, rcvVars, appVars>>

\* CLOSE_WAIT and TIME_WAIT ignore every segment.
InIgnored(h, m) ==
    /\ state[h] \in {"CLOSE_WAIT", "TIME_WAIT"}
    /\ "RST" \notin m.flags
    /\ Put({})
    /\ UNCHANGED <<connVars, sndVars, ccVars, rttVars, rcvVars, appVars>>

Input(h, m) ==
    /\ m.dst = h
    /\ \/ PassiveOpen(h, m) \/ InClosed(h, m) \/ InReset(h, m)
       \/ InSynReceived(h, m) \/ InSynSent(h, m) \/ InEstablished(h, m)
       \/ InFinWait(h, m) \/ InLastAck(h, m) \/ InIgnored(h, m)

----------------------------------------------------------------------------
(* tcp_tick: the timers.                                                   *)

SynTimeout(h) ==
    /\ state[h] = "SYN_SENT"
    /\ IF retries[h] >= SynRetryMax
       THEN /\ state' = [state EXCEPT ![h] = "CLOSED"]
            /\ UNCHANGED <<retries, net>>
       ELSE /\ retries' = [retries EXCEPT ![h] = @ + 1]
            /\ Put({Seg(h, {"SYN"}, snd_una[h], 0, <<>>)})
            /\ UNCHANGED state
    /\ UNCHANGED <<opened, sndVars, ccVars, rttVars, rcvVars, appVars>>

TimeWaitTimeout(h) ==
    /\ state[h] = "TIME_WAIT"
    /\ state' = [state EXCEPT ![h] = "CLOSED"]
    /\ UNCHANGED <<opened, retries, sndVars, ccVars, rttVars, rcvVars, net, appVars>>

\* Mutant of RtoSegs: the last byte in flight is not sent again.
RtoAllButLast(h) == DataSegs(h, snd_una[h], snd_buf[h], 0, InFlight(h) - 1, rcv_nxt[h])

RtoSegs(h) == DataSegs(h, snd_una[h], snd_buf[h], 0, InFlight(h), rcv_nxt[h])

\* The retransmission timeout: everything in flight is sent again, the RTT
\* probe is void, the window collapses.
Timeout(h) ==
    /\ state[h] = "ESTABLISHED" /\ snd_buf[h] # <<>> /\ armed[h]
    /\ Put(RtoSegs(h))
    /\ probe'    = [probe    EXCEPT ![h] = NoProbe]
    /\ resent'   = [resent   EXCEPT ![h] = FALSE]
    /\ ssthresh' = [ssthresh EXCEPT ![h] = Halved(h)]
    /\ cwnd'     = [cwnd     EXCEPT ![h] = MSS]
    /\ UNCHANGED <<connVars, sndVars, dup_acks, last_ack_recv, ambiguous, rcvVars, appVars>>

----------------------------------------------------------------------------
(* tcp_connect and the child's creation set every field of the TCB; before *)
(* that the slot is CLOSED and its fields are not looked at.               *)
Init ==
    /\ state   = [h \in Host |-> "CLOSED"]
    /\ opened  = [h \in Host |-> FALSE]
    /\ retries = [h \in Host |-> 0]
    /\ snd_una = Isn
    /\ snd_nxt = Isn
    /\ snd_buf = [h \in Host |-> <<>>]
    /\ armed   = [h \in Host |-> FALSE]
    /\ dup_acks      = [h \in Host |-> 0]
    /\ last_ack_recv = [h \in Host |-> 0]
    /\ cwnd     = [h \in Host |-> MSS]
    /\ ssthresh = [h \in Host |-> InitSsthresh]
    /\ probe     = [h \in Host |-> NoProbe]
    /\ resent    = [h \in Host |-> FALSE]
    /\ ambiguous = [h \in Host |-> FALSE]
    /\ rcv_nxt = [h \in Host |-> 0]
    /\ rcv_buf = [h \in Host |-> <<>>]
    /\ ooo_seq = [h \in Host |-> 0]
    /\ ooo_buf = [h \in Host |-> <<>>]
    /\ net     = {}
    /\ written = [h \in Host |-> 0]
    /\ read    = [h \in Host |-> <<>>]

App(h) ==
    \/ Connect(h)
    \/ \E n \in 1 .. BUF : Send(h, n)
    \/ \E n \in 1 .. BUF : Recv(h, n)
    \/ Close(h)

Tick(h) == SynTimeout(h) \/ TimeWaitTimeout(h) \/ Timeout(h)

Next == \E h \in Host : App(h) \/ Tick(h) \/ \E m \in net : Input(h, m)

Spec == Init /\ [][Next]_vars

----------------------------------------------------------------------------
(* Fairness.  net_pump_run polls the NIC and, every 100 ms, runs tcp_tick, *)
(* so a timer that stays armed fires and a segment that keeps arriving is  *)
(* processed; the application keeps reading.  Of the network it is assumed *)
(* that it does not lose every transmission of what is sent again and      *)
(* again, and the same of the answer to it.                                *)

Reads(h) == \E n \in 1 .. BUF : Recv(h, n)

\* An RTO whose segments all survive.
Resends(h) == Timeout(h) /\ RtoSegs(h) \subseteq net'

\* The deliveries that matter: of the handshake, of a payload whose
\* acknowledgement survives, of an acknowledgement.
Establishes(h) == \E m \in net : InSynReceived(h, m) /\ m.dst = h /\ state'[h] = "ESTABLISHED"
TakesNext(h)   == \E m \in net : Input(h, m) /\ rcv_nxt'[h] # rcv_nxt[h] /\ RcvSegs(h, m) \subseteq net'
Reanswers(h)   == \E m \in net : InEstablished(h, m) /\ m.dst = h /\ m.data # <<>>
                                 /\ After(rcv_nxt[h], m.seq) /\ RcvSegs(h, m) \subseteq net'
Advances(h)    == \E m \in net : Input(h, m) /\ snd_una'[h] # snd_una[h]

FairSpec ==
    /\ Spec
    /\ \A h \in Host :
           /\ WF_vars(Reads(h))
           /\ SF_vars(Resends(h))
           /\ SF_vars(Establishes(h))
           /\ SF_vars(TakesNext(h))
           /\ SF_vars(Reanswers(h))
           /\ SF_vars(Advances(h))
           /\ WF_vars(TimeWaitTimeout(h))

----------------------------------------------------------------------------
(* Properties.                                                             *)

\* What has arrived at h of its peer's stream.
Arrived(h) == read[h] \o rcv_buf[h]

\* Every field has its type, and neither buffer outgrows TCP_BUF_SIZE.
TypeOK ==
    /\ state \in [Host -> States]
    /\ opened \in [Host -> BOOLEAN]
    /\ retries \in [Host -> 0 .. SynRetryMax]
    /\ snd_una \in [Host -> Seqs]
    /\ snd_nxt \in [Host -> Seqs]
    /\ snd_buf \in [Host -> Seq(Nat)]
    /\ armed \in [Host -> BOOLEAN]
    /\ dup_acks \in [Host -> Nat]
    /\ last_ack_recv \in [Host -> Nat]
    /\ cwnd \in [Host -> Nat]
    /\ ssthresh \in [Host -> Nat]
    /\ probe \in [Host -> Seqs \cup {NoProbe}]
    /\ resent \in [Host -> BOOLEAN]
    /\ ambiguous \in [Host -> BOOLEAN]
    /\ rcv_nxt \in [Host -> Seqs]
    /\ rcv_buf \in [Host -> Seq(Nat)]
    /\ ooo_seq \in [Host -> Seqs]
    /\ ooo_buf \in [Host -> Seq(Nat)]
    /\ net \subseteq Segment
    /\ written \in [Host -> Nat]
    /\ read \in [Host -> Seq(Nat)]
    /\ \A h \in Host : Len(snd_buf[h]) <= BUF /\ Len(rcv_buf[h]) <= BUF

\* Whatever is lost, repeated or reordered, and however the out-of-order slot,
\* the partial acceptance by a full receive buffer, the retransmissions and
\* the wrap-around of the sequence numbers interact: the bytes tcp_recv has
\* returned, and those it will return next, are the first bytes the peer's
\* tcp_send accepted, in order, none missing and none twice.
StreamIntegrity ==
    \A h \in Host :
        /\ Len(Arrived(h)) <= written[Peer(h)]
        /\ \A i \in 1 .. Len(Arrived(h)) : Arrived(h)[i] = i

\* While a connection is established, the sender's buffer only lets go of a
\* byte (slide_snd_window) when the receiver holds it: no old, duplicate or
\* wrapped acknowledgement frees a byte that may have to be sent again.
AckedIsDelivered ==
    \A h \in Host :
        state[h] = "ESTABLISHED" => written[h] - Len(snd_buf[h]) <= Len(Arrived(Peer(h)))

\* What is in flight is always a part of snd_buf, which the RTO walks
\* (tcp.c:690-701), and always its first MSS bytes at least, which the fast
\* retransmit sends without looking at snd_nxt (tcp.c:572-577); and no byte
\* waits with the RTO disarmed.
SenderWindow ==
    \A h \in Host :
        state[h] = "ESTABLISHED" =>
            /\ InFlight(h) <= Len(snd_buf[h])
            /\ InFlight(h) >= MinOf(Len(snd_buf[h]), MSS)
            /\ snd_buf[h] # <<>> => armed[h]

\* A host that believes its peer has finished (it has seen a FIN) is right:
\* the peer has called tcp_close, or is gone.  No reordered, repeated or
\* belated segment is taken for a FIN.
EofMeansClosed ==
    \A h \in Host :
        state[h] \in {"CLOSE_WAIT", "LAST_ACK", "TIME_WAIT"} =>
            state[Peer(h)] \in {"FIN_WAIT_1", "FIN_WAIT_2", "LAST_ACK", "TIME_WAIT", "CLOSED"}

\* A host in FIN_WAIT_2 knows that its FIN has arrived: the peer does not
\* wait for more data (tcp.c:634-637 compares the ACK with snd_nxt only).
FinAcked ==
    \A h \in Host : state[h] = "FIN_WAIT_2" => state[Peer(h)] \notin {"SYN_SENT", "SYN_RECEIVED", "ESTABLISHED"}

\* The connection implements the pipes of ByteStream, one per host: no step
\* takes back a byte that has arrived, been read or been confirmed.
Streams == INSTANCE ByteStream WITH
    Pipe      <- Host,
    sent      <- written,
    got       <- [h \in Host |-> Arrived(Peer(h))],
    confirmed <- [h \in Host |-> written[h] - Len(snd_buf[h])],
    taken     <- [h \in Host |-> Len(read[Peer(h)])]

\* ByteStream's specification, under that mapping.
StreamSpec == Streams!StreamSpec

\* Karn's algorithm as docs/CHANGELOG.md:221 states it: a retransmitted
\* segment is never used as an RTT sample.
KarnRule == \A h \in Host : ~ambiguous[h]

\* The FIN comes after the data: a host that has seen it has received all
\* that the peer's tcp_send accepted.
CompleteAtEof ==
    \A h \in Host :
        state[h] = "CLOSE_WAIT" => Len(Arrived(h)) = written[Peer(h)]

\* Every byte tcp_send accepted is eventually returned by the peer's tcp_recv,
\* while nobody closes.
Delivery ==
    \A h \in Host : \A n \in 1 .. MaxWrite[h] :
        (written[h] >= n) ~> (Len(read[Peer(h)]) >= n)

\* The FIN exchange gets under way: a host that has called tcp_close learns
\* that its FIN has arrived, or is closed.
Teardown == \A h \in Host : (state[h] = "FIN_WAIT_1") ~> (state[h] # "FIN_WAIT_1")
=============================================================================
