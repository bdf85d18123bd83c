------------------------ MODULE TcpConnectionProofs -------------------------
(***************************************************************************)
(* The invariant IInv of TcpConnection is inductive, for every value of    *)
(* the constants.  A step changes the TCB of one host, the actor.  For the *)
(* other host, and for the segments in transit, it is enough that the      *)
(* actor only moves forward (Forward): the lemmas QuietHost and Transit    *)
(* say so, and what remains of each action is what it does to its own TCB  *)
(* and what it sends.                                                      *)
(***************************************************************************)
EXTENDS TcpLemmas

Left == {"CLOSED", "FIN_WAIT_1", "FIN_WAIT_2", "LAST_ACK", "TIME_WAIT"}

LEMMA StatesSplit ==
  /\ States = Sending \cup {"CLOSE_WAIT"} \cup Left
  /\ \A x \in Left : x \notin Sending \cup {"CLOSE_WAIT"}
  /\ \A x \in Handshake : x \in Sending
  /\ "CLOSE_WAIT" \notin Sending /\ "ESTABLISHED" \in Sending
  BY DEF States, Sending, Handshake, Left

LEMMA HostTypes ==
  ASSUME TypeOK, NEW h \in Host
  PROVE  /\ state[h] \in States /\ opened[h] \in BOOLEAN /\ retries[h] \in 0 .. SynRetryMax
         /\ snd_una[h] \in Seqs /\ snd_nxt[h] \in Seqs /\ snd_buf[h] \in Seq(Nat)
         /\ armed[h] \in BOOLEAN /\ dup_acks[h] \in Nat /\ last_ack_recv[h] \in Nat
         /\ cwnd[h] \in Nat /\ ssthresh[h] \in Nat /\ probe[h] \in Seqs \cup {NoProbe}
         /\ resent[h] \in BOOLEAN /\ ambiguous[h] \in BOOLEAN
         /\ rcv_nxt[h] \in Seqs /\ rcv_buf[h] \in Seq(Nat)
         /\ ooo_seq[h] \in Seqs /\ ooo_buf[h] \in Seq(Nat)
         /\ written[h] \in Nat /\ read[h] \in Seq(Nat)
         /\ Len(snd_buf[h]) <= BUF /\ Len(rcv_buf[h]) <= BUF
  BY DEF TypeOK

LEMMA ArrivedType ==
  ASSUME TypeOK, NEW h \in Host
  PROVE  Arrived(h) \in Seq(Nat) /\ Len(Arrived(h)) \in Nat
                                 /\ Len(Arrived(h)) = Len(read[h]) + Len(rcv_buf[h])
  <1>1. read[h] \in Seq(Nat) /\ rcv_buf[h] \in Seq(Nat)
    BY HostTypes
  <1>2. Arrived(h) \in Seq(Nat)
    BY <1>1 DEF Arrived
  <1>3. Len(Arrived(h)) = Len(read[h]) + Len(rcv_buf[h])
    BY <1>1 DEF Arrived
  <1>4. Len(Arrived(h)) \in Nat
    BY <1>2
  <1>5. QED
    BY <1>2, <1>3, <1>4

LEMMA NothingArrived ==
  ASSUME TypeOK, NEW h \in Host, read[h] = <<>>, rcv_buf[h] = <<>>
  PROVE  Len(Arrived(h)) = 0
  <1>1. Len(read[h]) = 0 /\ Len(rcv_buf[h]) = 0
    BY HostTypes, EmptyLen
  <1>2. Len(Arrived(h)) = Len(read[h]) + Len(rcv_buf[h])
    BY ArrivedType
  <1>3. Len(read[h]) + Len(rcv_buf[h]) = 0
    BY <1>1
  <1>4. QED
    BY <1>2, <1>3

LEMMA Bounds ==
  ASSUME NEW h \in Host PROVE MaxWrite[h] \in Nat /\ 2 * (MaxWrite[h] + 3) < SeqMod
  BY ConnAssumption

----------------------------------------------------------------------------
(* Steps of one host seen by the other and by the network.                 *)

\* The step leaves g's TCB alone.
Quiet(g) ==
    /\ state'[g] = state[g] /\ opened'[g] = opened[g]
    /\ snd_una'[g] = snd_una[g] /\ snd_nxt'[g] = snd_nxt[g] /\ snd_buf'[g] = snd_buf[g]
    /\ armed'[g] = armed[g] /\ cwnd'[g] = cwnd[g]
    /\ rcv_nxt'[g] = rcv_nxt[g] /\ rcv_buf'[g] = rcv_buf[g]
    /\ ooo_seq'[g] = ooo_seq[g] /\ ooo_buf'[g] = ooo_buf[g]
    /\ written'[g] = written[g] /\ read'[g] = read[g]

\* The step moves h's connection forward only.
Forward(h) ==
    /\ opened[h] => opened'[h]
    /\ opened'[h] /\ ~opened[h] => 1 <= Off(h, snd_nxt'[h])
    /\ opened[h] /\ state'[h] \in Sending => state[h] \in Sending
    /\ opened[h] /\ state[h] \notin Sending \cup {"CLOSE_WAIT"} => state'[h] \notin Sending \cup {"CLOSE_WAIT"}
    /\ Off(h, snd_nxt[h]) <= Off(h, snd_nxt'[h]) /\ snd_nxt'[h] \in Seqs
    /\ written[h] <= written'[h] /\ written'[h] \in Nat
    /\ Len(Arrived(h)) <= Len(Arrived(h)') /\ Len(Arrived(h)') \in Nat

LEMMA QuietForward ==
  ASSUME TypeOK, NEW g \in Host, Quiet(g)
  PROVE  Forward(g)
  <1>1. Off(g, snd_nxt[g]) \in Nat
    BY HostTypes, OffNat
  <1>2. Len(Arrived(g)) \in Nat /\ Arrived(g)' = Arrived(g)
    BY ArrivedType DEF Arrived, Quiet
  <1>3. QED
    BY <1>1, <1>2, HostTypes DEF Quiet, Forward

LEMMA GenuineForward ==
  ASSUME TypeOK, NEW h \in Host, Forward(h),
         NEW sq \in Seqs, NEW d \in Seq(Nat), Genuine(h, sq, d)
  PROVE  Slice(h, sq, d, MinOf(Off(h, snd_nxt'[h]), written'[h] + 1))
  <1> DEFINE lim  == MinOf(Off(h, snd_nxt[h]), written[h] + 1)
             limn == MinOf(Off(h, snd_nxt'[h]), written'[h] + 1)
  <1>1. lim \in Nat /\ limn \in Nat /\ lim <= limn
    <2>1. Off(h, snd_nxt[h]) \in Nat /\ Off(h, snd_nxt'[h]) \in Nat /\ written[h] \in Nat
      BY HostTypes, OffNat DEF Forward
    <2>2. QED
      BY <2>1 DEF Forward, MinOf
  <1>2. Slice(h, sq, d, lim)
    BY DEF Genuine
  <1>3. Off(h, sq) \in Nat /\ Len(d) \in Nat
    BY OffNat
  <1> HIDE DEF lim, limn
  <1>4. Slice(h, sq, d, limn)
    BY <1>1, <1>2, <1>3 DEF Slice
  <1>5. QED
    BY <1>4 DEF limn

\* The TCB of the host that does not act keeps its invariant.
LEMMA QuietHost ==
  ASSUME IInv, NEW h \in Host, NEW g \in Host, g = Peer(h), Quiet(g), Forward(h)
  PROVE  TcbInv(g)'
  <1>1. Peer(g) = h /\ TypeOK /\ TcbInv(g) /\ TcbInv(h)
    BY HostPeer DEF IInv
  <1>2. FreshInv(g)'
    BY <1>1 DEF TcbInv, FreshInv, Quiet
  <1>3. OpenInv(g)'
    BY <1>1 DEF TcbInv, OpenInv, Quiet, Forward
  <1>4. SendInv(g)'
    <2>1. Off(g, snd_una[g]) \in Nat /\ Len(Arrived(h)) \in Nat
      BY <1>1, HostTypes, OffNat, ArrivedType
    <2>2. SendInv(g)
      BY <1>1 DEF TcbInv
    <2>3. QED
      BY <1>1, <2>1, <2>2 DEF SendInv, Quiet, Forward
  <1>5. RecvInv(g)'
    <2>1. Len(Arrived(g)) \in Nat /\ Arrived(g)' = Arrived(g)
      BY <1>1, ArrivedType DEF Arrived, Quiet
    <2>2. written[h] \in Nat /\ Off(h, snd_nxt[h]) \in Nat /\ Off(h, snd_nxt'[h]) \in Nat
      BY <1>1, HostTypes, OffNat DEF Forward
    <2>3. RecvInv(g)
      BY <1>1 DEF TcbInv
    <2>4. ~opened[h] => Len(Arrived(g)) = 0
      BY <1>1, <2>1, <2>3 DEF RecvInv, TcbInv, FreshInv
    <2>5. ooo_buf[g] # <<>> => Slice(h, ooo_seq[g], ooo_buf[g], MinOf(Off(h, snd_nxt'[h]), written'[h] + 1))
      BY <1>1, <2>3, HostTypes, GenuineForward DEF RecvInv
    <2>6. ooo_buf'[g] # <<>> => Genuine(h, ooo_seq[g], ooo_buf[g])'
      BY <2>5 DEF Genuine, Quiet
    <2>7. Len(Arrived(g)') <= written'[h]
      BY <1>1, <2>1, <2>2, <2>3 DEF RecvInv, Forward
    <2>8. opened'[h] => Len(Arrived(g)') < Off(h, snd_nxt'[h])
      BY <1>1, <2>1, <2>2, <2>3, <2>4 DEF RecvInv, Forward
    <2>9. \A i \in 1 .. Len(Arrived(g)') : Arrived(g)'[i] = i
      BY <2>1, <2>3 DEF RecvInv
    <2>10. state'[g] = "ESTABLISHED" => opened'[h] /\ Off(h, rcv_nxt'[g]) = Len(Arrived(g)') + 1
      BY <1>1, <2>1, <2>3 DEF RecvInv, Quiet, Forward
    <2>11. QED
      BY <1>1, <2>6, <2>7, <2>8, <2>9, <2>10 DEF RecvInv
  <1>6. EofInv(g)'
    BY <1>1 DEF TcbInv, EofInv, Quiet, Forward
  <1>7. CwndInv(g)'
    BY <1>1 DEF TcbInv, CwndInv, Quiet
  <1>8. QED
    BY <1>2, <1>3, <1>4, <1>5, <1>6, <1>7 DEF TcbInv

LEMMA SegForward ==
  ASSUME TypeOK, NEW x \in Host, Forward(x), Forward(Peer(x)),
         NEW m \in Segment, SegOk(x, m)
  PROVE  SegOk(x, m)'
  <1>1. m.seq \in Seqs /\ m.ack \in Seqs /\ m.data \in Seq(Nat)
    BY DEF Segment
  <1>2. Peer(x) \in Host
    BY HostPeer
  <1>3. m.data # <<>> => Genuine(x, m.seq, m.data)'
    BY <1>1, GenuineForward DEF SegOk, Genuine
  <1>4. Len(Arrived(x)) \in Nat /\ Off(Peer(x), m.ack) \in Nat
    BY <1>1, <1>2, ArrivedType, OffNat
  <1>5. opened'[x] /\ ("ACK" \in m.flags => opened'[Peer(x)])
    BY DEF SegOk, Forward
  <1>6. "FIN" \in m.flags => m.data = <<>> /\ state'[x] \notin Sending \cup {"CLOSE_WAIT"}
    BY DEF SegOk, Forward
  <1>7. ASSUME "ACK" \in m.flags, state'[Peer(x)] \in Sending
        PROVE  1 <= Off(Peer(x), m.ack) /\ Off(Peer(x), m.ack) <= Len(Arrived(x)') + 1
    <2>1. state[Peer(x)] \in Sending
      BY <1>7 DEF SegOk, Forward
    <2>2. QED
      BY <1>4, <1>7, <2>1 DEF SegOk, Forward
  <1>8. QED
    BY <1>3, <1>5, <1>6, <1>7 DEF SegOk

\* The segments in transit stay good, and so does what h puts among them.
LEMMA Transit ==
  ASSUME IInv, NEW h \in Host, NEW g \in Host, g = Peer(h), Quiet(g), Forward(h),
         \A m \in net' \ net : m.dst = g /\ ("RST" \notin m.flags => SegOk(h, m)')
  PROVE  NetInv(h)' /\ NetInv(g)'
  <1>1. TypeOK /\ Peer(g) = h /\ h # g /\ NetInv(h) /\ NetInv(g) /\ net \subseteq Segment /\ Forward(g)
    BY HostPeer, QuietForward DEF IInv, TypeOK
  <1>2. ASSUME NEW m \in net', m.dst = g, "RST" \notin m.flags PROVE SegOk(h, m)'
    <2>1. CASE m \in net
      BY <1>1, <1>2, <2>1, SegForward DEF NetInv
    <2>2. CASE m \notin net
      BY <1>2, <2>2
    <2>3. QED
      BY <2>1, <2>2
  <1>3. ASSUME NEW m \in net', m.dst = h, "RST" \notin m.flags PROVE SegOk(g, m)'
    <2>1. m \in net
      BY <1>1, <1>3
    <2>2. QED
      BY <1>1, <1>3, <2>1, SegForward DEF NetInv
  <1>4. QED
    BY <1>1, <1>2, <1>3 DEF NetInv

\* What a step of host h has to show.
LEMMA StepOf ==
  ASSUME IInv, NEW h \in Host, TypeOK', Quiet(Peer(h)), Forward(h), TcbInv(h)',
         \A m \in net' \ net : m.dst = Peer(h) /\ ("RST" \notin m.flags => SegOk(h, m)')
  PROVE  IInv'
  <1> DEFINE g == Peer(h)
  <1>1. g \in Host /\ \A x \in Host : x = h \/ x = g
    BY HostPeer
  <1>2. TcbInv(g)'
    BY <1>1, QuietHost
  <1>3. NetInv(h)' /\ NetInv(g)'
    BY <1>1, Transit
  <1>4. QED
    BY <1>1, <1>2, <1>3 DEF IInv

----------------------------------------------------------------------------
(* The initial states.                                                     *)

LEMMA InitInv == Init => IInv
  <1> SUFFICES ASSUME Init PROVE IInv
    OBVIOUS
  <1>1. Isn \in [Host -> Seqs] /\ MSS \in Nat /\ InitSsthresh \in Nat /\ BUF \in Nat /\ 0 \in Seqs
        /\ SynRetryMax \in Nat /\ MaxWrite \in [Host -> Nat]
    BY ConnAssumption, SeqModAssumption DEF Seqs
  <1>2. TypeOK
    BY <1>1 DEF Init, TypeOK, States, NoProbe
  <1>3. ASSUME NEW h \in Host PROVE TcbInv(h) /\ NetInv(h)
    <2>1. Off(h, snd_nxt[h]) = 0 /\ Peer(h) \in Host /\ MaxWrite[h] \in Nat
      BY <1>1, OffIsn, HostPeer DEF Init
    <2>2. Arrived(h) = <<>> /\ Len(Arrived(h)) = 0
      BY DEF Arrived, Init
    <2>3. FreshInv(h) /\ SendInv(h) /\ EofInv(h) /\ CwndInv(h) /\ NetInv(h)
      BY <1>1, <2>1 DEF Init, FreshInv, SendInv, EofInv, CwndInv, NetInv, Handshake
    <2>4. OpenInv(h)
      BY <1>1, <2>1 DEF Init, OpenInv, Handshake
    <2>5. RecvInv(h)
      BY <1>1, <2>1, <2>2 DEF Init, RecvInv
    <2>6. QED
      BY <2>3, <2>4, <2>5 DEF TcbInv
  <1>4. QED
    BY <1>2, <1>3 DEF IInv

----------------------------------------------------------------------------
(* Steps that change nothing but the state of the connection.              *)

LEMMA StateStep ==
  ASSUME IInv, NEW h \in Host, NEW x \in {state[h], "CLOSED"},
         state' = [state EXCEPT ![h] = x], retries' \in [Host -> 0 .. SynRetryMax],
         UNCHANGED <<opened, sndVars, ccVars, rttVars, rcvVars, appVars>>,
         \A m \in net' \ net :
             m \in Segment /\ m.dst = Peer(h) /\ ("RST" \notin m.flags => SegOk(h, m)')
  PROVE  IInv'
  <1>1. TypeOK /\ TcbInv(h) /\ Peer(h) \in Host /\ Peer(h) # h
    BY HostPeer DEF IInv
  <1>2. TypeOK'
    BY <1>1 DEF TypeOK, States, sndVars, ccVars, rttVars, rcvVars, appVars
  <1>3. state'[h] = x /\ state'[Peer(h)] = state[Peer(h)]
    BY <1>1 DEF TypeOK
  <1>4. Quiet(Peer(h))
    BY <1>3 DEF Quiet, sndVars, ccVars, rcvVars, appVars
  <1>5. Len(Arrived(h)) \in Nat /\ Arrived(h)' = Arrived(h) /\ Arrived(Peer(h))' = Arrived(Peer(h))
    BY <1>1, ArrivedType DEF Arrived, rcvVars, appVars
  <1>6. Forward(h)
    <2>1. Off(h, snd_nxt[h]) \in Nat /\ written[h] \in Nat /\ snd_nxt[h] \in Seqs
      BY <1>1, HostTypes, OffNat
    <2>2. QED
      BY <1>1, <1>3, <1>5, <2>1 DEF Forward, Sending, Handshake, sndVars, appVars
  <1>7. TcbInv(h)'
    <2>1. FreshInv(h)' /\ OpenInv(h)' /\ EofInv(h)' /\ CwndInv(h)'
      BY <1>1, <1>3 DEF TcbInv, FreshInv, OpenInv, EofInv, CwndInv, Handshake,
                        sndVars, ccVars, rcvVars, appVars
    <2>2. SendInv(h)'
      BY <1>1, <1>3, <1>5 DEF TcbInv, SendInv, sndVars, appVars
    <2>3. ooo_buf[h] # <<>> => Genuine(Peer(h), ooo_seq[h], ooo_buf[h])'
      BY <1>1 DEF TcbInv, RecvInv, Genuine, sndVars, appVars, rcvVars
    <2>4. RecvInv(h)'
      BY <1>1, <1>3, <1>5, <2>3 DEF TcbInv, RecvInv, sndVars, rcvVars, appVars
    <2>5. QED
      BY <2>1, <2>2, <2>4 DEF TcbInv
  <1>8. QED
    BY <1>1, <1>2, <1>4, <1>6, <1>7, StepOf

LEMMA InResetInv ==
  ASSUME IInv, NEW h \in Host, NEW m \in net, InReset(h, m) PROVE IInv'
  <1>1. net' \subseteq net /\ retries' \in [Host -> 0 .. SynRetryMax]
    BY PutNet DEF InReset, IInv, TypeOK
  <1>2. QED
    BY <1>1, StateStep DEF InReset

LEMMA InLastAckInv ==
  ASSUME IInv, NEW h \in Host, NEW m \in net, InLastAck(h, m) PROVE IInv'
  <1>1. net' \subseteq net /\ retries' \in [Host -> 0 .. SynRetryMax]
    BY PutNet DEF InLastAck, IInv, TypeOK
  <1>2. PICK x \in {state[h], "CLOSED"} : state' = [state EXCEPT ![h] = x]
    BY DEF InLastAck
  <1>3. QED
    BY <1>1, <1>2, StateStep DEF InLastAck

LEMMA InIgnoredInv ==
  ASSUME IInv, NEW h \in Host, NEW m \in net, InIgnored(h, m) PROVE IInv'
  <1>1. net' \subseteq net /\ retries' \in [Host -> 0 .. SynRetryMax]
    BY PutNet DEF InIgnored, IInv, TypeOK, connVars
  <1>2. state' = [state EXCEPT ![h] = state[h]]
    BY DEF InIgnored, IInv, TypeOK, connVars
  <1>3. QED
    BY <1>1, <1>2, StateStep DEF InIgnored, connVars

LEMMA RstReplyType ==
  ASSUME NEW h \in Host, NEW m \in Segment
  PROVE  RstReply(h, m) \in Segment /\ RstReply(h, m).dst = Peer(h) /\ "RST" \in RstReply(h, m).flags
  <1>1. m.seq \in Seqs /\ m.ack \in Seqs /\ m.data \in Seq(Nat) /\ m.flags \in SUBSET Flags
    BY DEF Segment
  <1>2. 0 \in Seqs /\ <<>> \in Seq(Nat) /\ {"RST"} \in SUBSET Flags /\ {"RST", "ACK"} \in SUBSET Flags
    BY SeqModAssumption DEF Seqs, Flags
  <1>3. Cardinality(m.flags \cap {"SYN", "FIN"}) \in Nat
    <2>1. IsFiniteSet({"SYN", "FIN"})
      <3>1. {"SYN", "FIN"} = ({} \cup {"SYN"}) \cup {"FIN"}
        OBVIOUS
      <3>2. IsFiniteSet({} \cup {"SYN"})
        BY FS_EmptySet, FS_AddElement
      <3>3. IsFiniteSet(({} \cup {"SYN"}) \cup {"FIN"})
        BY <3>2, FS_AddElement
      <3>4. QED
        BY <3>1, <3>3
    <2>2. IsFiniteSet(m.flags \cap {"SYN", "FIN"})
      BY <2>1, FS_Subset
    <2>3. QED
      BY <2>2, FS_CardinalityType
  <1>4. Plus(m.seq, Len(m.data) + Cardinality(m.flags \cap {"SYN", "FIN"})) \in Seqs
    <2>1. m.seq \in Int
      <3>1. m.seq \in Seqs
        BY <1>1
      <3>2. m.seq \in Nat
        BY ONLY <3>1, SeqsNat, Zenon
      <3>3. QED
        BY ONLY <3>2
    <2>2. Len(m.data) \in Nat
      BY <1>1, LenProperties
    <2>3. QED
      BY <1>3, <2>1, <2>2, PlusType
  <1>5. RstReply(h, m) \in Segment
    BY <1>1, <1>2, <1>4, SegType DEF RstReply
  <1>6. QED
    BY <1>5 DEF RstReply, Seg

LEMMA InClosedInv ==
  ASSUME IInv, NEW h \in Host, NEW m \in net, InClosed(h, m) PROVE IInv'
  <1> DEFINE segs == IF "RST" \in m.flags THEN {} ELSE {RstReply(h, m)}
  <1>1. m \in Segment /\ TypeOK
    BY DEF IInv, TypeOK
  <1>2. segs \in SUBSET Segment /\ \A s \in segs : s.dst = Peer(h) /\ "RST" \in s.flags
    BY <1>1, RstReplyType
  <1>3. net' \subseteq net \cup segs
    BY PutNet DEF InClosed
  <1>4. state' = [state EXCEPT ![h] = state[h]] /\ retries' \in [Host -> 0 .. SynRetryMax]
    BY <1>1 DEF InClosed, TypeOK, connVars
  <1> HIDE DEF segs
  <1>5. QED
    BY <1>2, <1>3, <1>4, StateStep DEF InClosed, connVars

LEMMA TimeWaitTimeoutInv ==
  ASSUME IInv, NEW h \in Host, TimeWaitTimeout(h) PROVE IInv'
  <1>1. net' \subseteq net /\ retries' \in [Host -> 0 .. SynRetryMax]
    BY DEF TimeWaitTimeout, IInv, TypeOK
  <1>2. QED
    BY <1>1, StateStep DEF TimeWaitTimeout

LEMMA SynTimeoutInv ==
  ASSUME IInv, NEW h \in Host, SynTimeout(h) PROVE IInv'
  <1>1. TypeOK /\ TcbInv(h) /\ Peer(h) \in Host
    BY HostPeer DEF IInv
  <1>2. retries' \in [Host -> 0 .. SynRetryMax]
    <2>1. retries[h] \in 0 .. SynRetryMax /\ SynRetryMax \in Nat /\ retries \in [Host -> 0 .. SynRetryMax]
      BY <1>1, ConnAssumption DEF TypeOK
    <2>2. CASE retries[h] >= SynRetryMax
      BY <2>1, <2>2 DEF SynTimeout
    <2>3. CASE ~(retries[h] >= SynRetryMax)
      <3>1. retries' = [retries EXCEPT ![h] = retries[h] + 1] /\ retries[h] + 1 \in 0 .. SynRetryMax
        BY <2>1, <2>3 DEF SynTimeout
      <3>2. QED
        BY <2>1, <3>1
    <2>4. QED
      BY <2>2, <2>3
  <1>3. PICK x \in {state[h], "CLOSED"} : state' = [state EXCEPT ![h] = x]
    <2>1. state = [state EXCEPT ![h] = state[h]]
      BY <1>1 DEF TypeOK
    <2>2. QED
      BY <2>1 DEF SynTimeout
  <1>4. PICK m : m = Seg(h, {"SYN"}, snd_una[h], 0, <<>>)
    OBVIOUS
  <1>5. net' \subseteq net \cup {m}
    BY <1>4, PutNet DEF SynTimeout
  <1>6. m \in Segment /\ m.dst = Peer(h) /\ m.flags = {"SYN"} /\ m.seq = snd_una[h] /\ m.data = <<>>
    <2>1. snd_una[h] \in Seqs /\ 0 \in Seqs /\ {"SYN"} \in SUBSET Flags /\ <<>> \in Seq(Nat)
      BY <1>1, HostTypes, SeqModAssumption DEF Seqs, Flags
    <2>2. QED
      BY <1>4, <2>1, SegType DEF Seg
  <1>7. snd_una[h] = Isn[h] /\ opened'[h]
    BY <1>1 DEF SynTimeout, TcbInv, FreshInv, OpenInv, Handshake
  <1>8. SegOk(h, m)'
    BY <1>6, <1>7 DEF SegOk
  <1>9. QED
    BY <1>2, <1>3, <1>5, <1>6, <1>8, StateStep DEF SynTimeout

----------------------------------------------------------------------------
(* tcp_recv, tcp_connect and the passive open.                             *)

LEMMA RecvStep ==
  ASSUME IInv, NEW h \in Host, NEW n \in 1 .. BUF, Recv(h, n) PROVE IInv'
  <1> DEFINE g == Peer(h)
  <1>1. TypeOK /\ TcbInv(h) /\ g \in Host /\ g # h
    BY HostPeer DEF IInv
  <1>2. /\ rcv_buf[h] \in Seq(Nat) /\ read[h] \in Seq(Nat) /\ n \in Nat /\ n <= Len(rcv_buf[h]) /\ 1 <= n
        /\ Len(rcv_buf[h]) <= BUF /\ BUF \in Nat /\ Len(rcv_buf[h]) \in Nat
    BY <1>1, HostTypes, ConnAssumption DEF Recv
  <1>3. read'[h] = read[h] \o SubSeq(rcv_buf[h], 1, n) /\ read'[g] = read[g]
    BY <1>1 DEF Recv, TypeOK
  <1>4. rcv_buf'[h] = SubSeq(rcv_buf[h], n + 1, Len(rcv_buf[h])) /\ rcv_buf'[g] = rcv_buf[g]
    BY <1>1 DEF Recv, TypeOK
  <1>5. Arrived(h)' = Arrived(h) /\ Arrived(g)' = Arrived(g)
    <2>1. (read[h] \o SubSeq(rcv_buf[h], 1, n)) \o SubSeq(rcv_buf[h], n + 1, Len(rcv_buf[h]))
          = read[h] \o rcv_buf[h]
      BY <1>2, ConcatMove
    <2>2. QED
      BY <1>3, <1>4, <2>1 DEF Arrived
  <1>6. SubSeq(rcv_buf[h], 1, n) \in Seq(Nat) /\ SubSeq(rcv_buf[h], n + 1, Len(rcv_buf[h])) \in Seq(Nat)
        /\ Len(SubSeq(rcv_buf[h], n + 1, Len(rcv_buf[h]))) <= BUF
    BY <1>2
  <1>7. TypeOK'
    <2>1. read' \in [Host -> Seq(Nat)] /\ rcv_buf' \in [Host -> Seq(Nat)]
      <3>1. PICK r \in Seq(Nat) : r = read[h] \o SubSeq(rcv_buf[h], 1, n)
        BY <1>2, <1>6, ConcatFacts
      <3>2. read' = [read EXCEPT ![h] = r]
        BY <3>1 DEF Recv
      <3>3. PICK b \in Seq(Nat) : b = SubSeq(rcv_buf[h], n + 1, Len(rcv_buf[h]))
        BY <1>6
      <3>4. rcv_buf' = [rcv_buf EXCEPT ![h] = b]
        BY <3>3 DEF Recv
      <3>5. read \in [Host -> Seq(Nat)] /\ rcv_buf \in [Host -> Seq(Nat)]
        BY <1>1 DEF TypeOK
      <3>6. QED
        BY <3>2, <3>4, <3>5
    <2>2. \A x \in Host : Len(rcv_buf'[x]) <= BUF
      BY <1>1, <1>4, <1>6, HostPeer DEF TypeOK
    <2>3. QED
      BY <1>1, <2>1, <2>2 DEF Recv, TypeOK, connVars, sndVars, ccVars, rttVars
  <1>8. Quiet(g)
    BY <1>3, <1>4 DEF Quiet, Recv, connVars, sndVars, ccVars, rttVars
  <1>9. Forward(h)
    <2>1. Off(h, snd_nxt[h]) \in Nat /\ written[h] \in Nat /\ snd_nxt[h] \in Seqs /\ Len(Arrived(h)) \in Nat
      BY <1>1, HostTypes, OffNat, ArrivedType
    <2>2. QED
      BY <1>5, <2>1 DEF Forward, Recv, connVars, sndVars
  <1>10. TcbInv(h)'
    <2>1. OpenInv(h)' /\ EofInv(h)' /\ CwndInv(h)'
      BY <1>1 DEF TcbInv, OpenInv, EofInv, CwndInv, Recv, connVars, sndVars, ccVars
    <2>2. FreshInv(h)'
      <3>1. rcv_buf[h] # <<>>
        BY <1>2
      <3>2. QED
        BY <1>1, <3>1 DEF TcbInv, FreshInv, Recv, connVars
    <2>3. SendInv(h)'
      BY <1>1, <1>5 DEF TcbInv, SendInv, Recv, connVars, sndVars
    <2>4. ooo_buf[h] # <<>> => Genuine(g, ooo_seq[h], ooo_buf[h])'
      BY <1>1 DEF TcbInv, RecvInv, Genuine, Recv, sndVars
    <2>5. RecvInv(h)'
      BY <1>1, <1>5, <2>4 DEF TcbInv, RecvInv, Recv, connVars, sndVars
    <2>6. QED
      BY <2>1, <2>2, <2>3, <2>5 DEF TcbInv
  <1>11. net' \ net = {}
    BY DEF Recv
  <1>12. QED
    BY <1>1, <1>7, <1>8, <1>9, <1>10, <1>11, StepOf

\* What a SYN's sequence number makes of snd_nxt.
LEMMA SynOff ==
  ASSUME NEW h \in Host
  PROVE  Isn[h] \in Seqs /\ Plus(Isn[h], 1) \in Seqs /\ Off(h, Plus(Isn[h], 1)) = 1
  <1>1. MaxWrite[h] \in Nat /\ 2 * (MaxWrite[h] + 3) < SeqMod /\ SeqMod \in Nat
    BY Bounds, SeqModAssumption
  <1>2. Isn[h] \in Seqs /\ Off(h, Isn[h]) = 0
    BY OffIsn, ConnAssumption
  <1>3. 0 + 1 < SeqMod
    BY <1>1
  <1>4. QED
    BY <1>2, <1>3, OffPlus

LEMMA ConnectInv ==
  ASSUME IInv, NEW h \in Host, Connect(h) PROVE IInv'
  <1> DEFINE g == Peer(h)
  <1>1. TypeOK /\ TcbInv(h) /\ g \in Host /\ g # h
    BY HostPeer DEF IInv
  <1>2. PICK m : m = Seg(h, {"SYN"}, Isn[h], 0, <<>>)
    OBVIOUS
  <1>3. net' \subseteq net \cup {m}
    BY <1>2, PutNet DEF Connect
  <1>4. m \in Segment /\ m.dst = g /\ m.flags = {"SYN"} /\ m.seq = Isn[h] /\ m.data = <<>>
    <2>1. 0 \in Seqs /\ {"SYN"} \in SUBSET Flags /\ <<>> \in Seq(Nat)
      BY SeqModAssumption DEF Seqs, Flags
    <2>2. QED
      BY <1>2, <2>1, SynOff, SegType DEF Seg
  <1>5. TypeOK'
    <2>1. 0 \in 0 .. SynRetryMax /\ "SYN_SENT" \in States
      BY ConnAssumption DEF States
    <2>2. QED
      BY <1>1, <1>3, <1>4, <2>1, SynOff DEF TypeOK, Connect, ccVars, rttVars, rcvVars, appVars
  <1>6. state'[h] = "SYN_SENT" /\ opened'[h] /\ snd_nxt'[h] = Plus(Isn[h], 1) /\ ~opened[h]
    BY <1>1 DEF TypeOK, Connect
  <1>7. Quiet(g)
    BY <1>1 DEF Quiet, TypeOK, Connect, ccVars, rcvVars, appVars
  <1>8. Arrived(h)' = Arrived(h) /\ Arrived(g)' = Arrived(g)
    BY DEF Arrived, Connect, rcvVars, appVars
  <1>9. state[h] = "CLOSED" /\ snd_nxt[h] = Isn[h] /\ written[h] = 0 /\ Off(h, snd_nxt[h]) = 0
    BY <1>1, <1>6, OffIsn DEF TcbInv, OpenInv, FreshInv
  <1>10. Forward(h)
    <2>1. Len(Arrived(h)) \in Nat
      BY <1>1, ArrivedType
    <2>2. QED
      BY <1>6, <1>8, <1>9, <2>1, SynOff DEF Forward, Connect, appVars
  <1>11. TcbInv(h)'
    <2>1. FreshInv(h)' /\ SendInv(h)' /\ EofInv(h)' /\ CwndInv(h)'
      BY <1>1, <1>6 DEF TcbInv, FreshInv, SendInv, EofInv, CwndInv, Connect, ccVars, rcvVars, appVars
    <2>2. OpenInv(h)'
      BY <1>1, <1>6, <1>9, SynOff, Bounds DEF OpenInv, Connect, appVars, Handshake
    <2>3. ooo_buf[h] = <<>>
      BY <1>1, <1>6 DEF TcbInv, FreshInv
    <2>4. RecvInv(h)'
      BY <1>1, <1>6, <1>7, <1>8, <2>3 DEF TcbInv, RecvInv, Connect, rcvVars, appVars, Quiet
    <2>5. QED
      BY <2>1, <2>2, <2>4 DEF TcbInv
  <1>12. SegOk(h, m)'
    BY <1>4, <1>6 DEF SegOk
  <1>13. QED
    BY <1>1, <1>3, <1>4, <1>5, <1>7, <1>10, <1>11, <1>12, StepOf

\* The segment a handler is given.
LEMMA InSeg ==
  ASSUME IInv, NEW h \in Host, NEW m \in net, m.dst = h
  PROVE  /\ m \in Segment /\ m.seq \in Seqs /\ m.ack \in Seqs /\ m.data \in Seq(Nat)
         /\ m.flags \in SUBSET Flags
         /\ "RST" \notin m.flags => SegOk(Peer(h), m)
  <1>1. m \in Segment
    BY DEF IInv, TypeOK
  <1>2. NetInv(Peer(h)) /\ Peer(Peer(h)) = h
    BY HostPeer DEF IInv
  <1>3. QED
    BY <1>1, <1>2 DEF Segment, NetInv

LEMMA PassiveOpenInv ==
  ASSUME IInv, NEW h \in Host, NEW m \in net, m.dst = h, PassiveOpen(h, m) PROVE IInv'
  <1> DEFINE g == Peer(h)
  <1>1. TypeOK /\ TcbInv(h) /\ g \in Host /\ g # h /\ Peer(g) = h
    BY HostPeer DEF IInv
  <1>2. m.seq = Isn[g] /\ opened[g]
    <2>1. "SYN" \in m.flags /\ "RST" \notin m.flags
      BY DEF PassiveOpen
    <2>2. QED
      BY <1>1, <2>1, InSeg DEF SegOk
  <1>3. PICK s : s = Seg(h, {"SYN", "ACK"}, Isn[h], Plus(m.seq, 1), <<>>)
    OBVIOUS
  <1>4. net' \subseteq net \cup {s}
    BY <1>3, PutNet DEF PassiveOpen
  <1>5. Plus(m.seq, 1) \in Seqs /\ Off(g, Plus(m.seq, 1)) = 1
    BY <1>1, <1>2, SynOff
  <1>6. s \in Segment /\ s.dst = g /\ s.flags = {"SYN", "ACK"} /\ s.seq = Isn[h] /\ s.data = <<>>
        /\ s.ack = Plus(m.seq, 1)
    <2>1. {"SYN", "ACK"} \in SUBSET Flags /\ <<>> \in Seq(Nat)
      BY DEF Flags
    <2>2. QED
      BY <1>3, <1>5, <2>1, SynOff, SegType DEF Seg
  <1>7. TypeOK'
    <2>1. "SYN_RECEIVED" \in States
      BY DEF States
    <2>2. QED
      BY <1>1, <1>4, <1>5, <1>6, <2>1, SynOff DEF TypeOK, PassiveOpen, ccVars, rttVars, appVars
  <1>8. state'[h] = "SYN_RECEIVED" /\ opened'[h] /\ snd_nxt'[h] = Plus(Isn[h], 1) /\ ~opened[h]
        /\ rcv_nxt'[h] = Plus(Isn[g], 1) /\ opened'[g]
    BY <1>1, <1>2 DEF TypeOK, PassiveOpen
  <1>9. Quiet(g)
    BY <1>1 DEF Quiet, TypeOK, PassiveOpen, ccVars, appVars
  <1>10. Arrived(h)' = Arrived(h) /\ Len(Arrived(h)) \in Nat
    BY <1>1, ArrivedType DEF Arrived, PassiveOpen, appVars
  <1>11. state[h] = "CLOSED" /\ snd_nxt[h] = Isn[h] /\ written[h] = 0 /\ Off(h, snd_nxt[h]) = 0
    BY <1>1, <1>8, OffIsn DEF TcbInv, OpenInv, FreshInv
  <1>12. Forward(h)
    BY <1>8, <1>10, <1>11, SynOff DEF Forward, PassiveOpen, appVars
  <1>13. TcbInv(h)'
    <2>1. FreshInv(h)' /\ SendInv(h)' /\ EofInv(h)' /\ CwndInv(h)'
      BY <1>1, <1>8 DEF TcbInv, FreshInv, SendInv, EofInv, CwndInv, PassiveOpen, ccVars, appVars
    <2>2. OpenInv(h)'
      BY <1>1, <1>8, <1>11, SynOff, Bounds DEF OpenInv, PassiveOpen, appVars, Handshake
    <2>3. ooo_buf[h] = <<>>
      BY <1>1, <1>8 DEF TcbInv, FreshInv
    <2>4. RecvInv(h)'
      BY <1>1, <1>8, <1>9, <1>10, <2>3 DEF TcbInv, RecvInv, PassiveOpen, appVars, Quiet
    <2>5. QED
      BY <2>1, <2>2, <2>4 DEF TcbInv
  <1>14. SegOk(h, s)'
    BY <1>5, <1>6, <1>8, <1>10 DEF SegOk
  <1>15. QED
    BY <1>1, <1>4, <1>6, <1>7, <1>9, <1>12, <1>13, <1>14, StepOf

----------------------------------------------------------------------------
(* The rest of the handshake.                                              *)

\* The connection is established: nothing sent, nothing received yet.
LEMMA Established ==
  ASSUME NEW h \in Host, TypeOK, FreshInv(h), OpenInv(h), state[h] \in Handshake,
         state'[h] = "ESTABLISHED", opened'[h] = opened[h],
         snd_una'[h] = snd_nxt[h], snd_nxt'[h] = snd_nxt[h], snd_buf'[h] = snd_buf[h],
         armed'[h] = armed[h], written'[h] = written[h], Len(Arrived(Peer(h))') \in Nat
  PROVE  FreshInv(h)' /\ SendInv(h)' /\ OpenInv(h)' /\ EofInv(h)'
  <1>1. opened[h] /\ Off(h, snd_nxt[h]) = 1 /\ snd_buf[h] = <<>> /\ written[h] = 0 /\ ~armed[h]
        /\ armed[h] \in BOOLEAN
    BY SynOff, HostTypes DEF FreshInv, OpenInv, Handshake
  <1>2. FreshInv(h)'
    BY <1>1 DEF FreshInv, Handshake
  <1>3. OpenInv(h)'
    BY <1>1, Bounds DEF OpenInv, Handshake
  <1>4. SendInv(h)'
    <2>1. Len(<<>>) = 0 /\ MSS \in Nat
      BY ConnAssumption
    <2>2. QED
      BY <1>1, <2>1 DEF SendInv, MinOf
  <1>5. EofInv(h)'
    BY DEF EofInv
  <1>6. QED
    BY <1>2, <1>3, <1>4, <1>5

LEMMA InSynReceivedInv ==
  ASSUME IInv, NEW h \in Host, NEW m \in net, m.dst = h, InSynReceived(h, m) PROVE IInv'
  <1> DEFINE g == Peer(h)
  <1>1. TypeOK /\ TcbInv(h) /\ g \in Host /\ g # h /\ Peer(g) = h
    BY HostPeer DEF IInv
  <1>2. /\ opened[h] /\ opened[g] /\ rcv_nxt[h] = Plus(Isn[g], 1) /\ snd_una[h] = Isn[h]
        /\ Len(Arrived(h)) = 0 /\ ooo_buf[h] = <<>>
    <2>1. state[h] = "SYN_RECEIVED" /\ FreshInv(h) /\ OpenInv(h)
      BY <1>1 DEF InSynReceived, TcbInv
    <2>2. read[h] = <<>> /\ rcv_buf[h] = <<>> /\ snd_una[h] = Isn[h] /\ ooo_buf[h] = <<>>
      BY <2>1 DEF FreshInv, Handshake
    <2>3. QED
      BY <1>1, <2>1, <2>2, NothingArrived DEF OpenInv
  <1>3. CASE AcksAll(h, m)
    <2>1. m.ack = snd_nxt[h] /\ m.ack \in Seqs
      BY <1>3, InSeg DEF AcksAll
    <2>2. /\ state' = [state EXCEPT ![h] = "ESTABLISHED"]
          /\ snd_una' = [snd_una EXCEPT ![h] = snd_nxt[h]]
          /\ net' \subseteq net
      BY <1>3, <2>1, PutNet DEF InSynReceived
    <2>3. state'[h] = "ESTABLISHED" /\ snd_una'[h] = snd_nxt[h]
      BY <1>1, <2>2 DEF TypeOK
    <2>4. TypeOK'
      <3>1. state' \in [Host -> States] /\ snd_una' \in [Host -> Seqs] /\ net' \subseteq Segment
        BY <1>1, <2>1, <2>2 DEF TypeOK, States
      <3>2. QED
        BY <1>1, <3>1 DEF TypeOK, InSynReceived, ccVars, rttVars, rcvVars, appVars
    <2>5. Quiet(g)
      BY <1>1, <2>2 DEF Quiet, TypeOK, InSynReceived, ccVars, rcvVars, appVars
    <2>6. Arrived(h)' = Arrived(h) /\ Arrived(g)' = Arrived(g) /\ Len(Arrived(g)) \in Nat
      BY <1>1, ArrivedType DEF Arrived, InSynReceived, rcvVars, appVars
    <2>7. Forward(h)
      <3>1. Off(h, snd_nxt[h]) \in Nat /\ written[h] \in Nat /\ snd_nxt[h] \in Seqs
        BY <1>1, HostTypes, OffNat
      <3>2. QED
        BY <1>2, <2>3, <2>6, <3>1 DEF Forward, InSynReceived, appVars, Sending, Handshake
    <2>8. FreshInv(h)' /\ SendInv(h)' /\ OpenInv(h)' /\ EofInv(h)'
      BY <1>1, <2>3, <2>6, Established DEF InSynReceived, TcbInv, Handshake, appVars
    <2>9. CwndInv(h)'
      BY <1>1 DEF TcbInv, CwndInv, InSynReceived, ccVars
    <2>10. RecvInv(h)'
      BY <1>1, <1>2, <2>3, <2>6, SynOff DEF TcbInv, RecvInv, InSynReceived, rcvVars, appVars
    <2>11. QED
      BY <1>1, <2>2, <2>4, <2>5, <2>7, <2>8, <2>9, <2>10, StepOf DEF TcbInv
  <1>4. CASE ~AcksAll(h, m)
    <2>1. PICK s : s = Seg(h, {"SYN", "ACK"}, snd_una[h], rcv_nxt[h], <<>>)
      OBVIOUS
    <2>2. /\ state' = [state EXCEPT ![h] = state[h]]
          /\ UNCHANGED sndVars
          /\ net' \subseteq net \cup {s}
      BY SMTT(60), <1>1, <1>4, <2>1, PutNet DEF InSynReceived, TypeOK, sndVars
    <2>3. s \in Segment /\ s.dst = g /\ s.flags = {"SYN", "ACK"} /\ s.seq = Isn[h] /\ s.data = <<>>
          /\ s.ack = Plus(Isn[g], 1)
      <3>1. {"SYN", "ACK"} \in SUBSET Flags /\ <<>> \in Seq(Nat)
        BY DEF Flags
      <3>2. QED
        BY <1>1, <1>2, <2>1, <3>1, SynOff, SegType DEF Seg
    <2>4. Len(Arrived(h)') = 0 /\ opened'[h] /\ opened'[g]
      BY <1>2 DEF Arrived, InSynReceived, rcvVars, appVars
    <2>5. SegOk(h, s)'
      BY <1>1, <2>3, <2>4, SynOff DEF SegOk
    <2>6. retries' \in [Host -> 0 .. SynRetryMax]
      BY <1>1 DEF InSynReceived, TypeOK
    <2>7. QED
      BY ZenonT(60), <2>2, <2>3, <2>5, <2>6, StateStep DEF InSynReceived
  <1>5. QED
    BY <1>3, <1>4

LEMMA InSynSentInv ==
  ASSUME IInv, NEW h \in Host, NEW m \in net, m.dst = h, InSynSent(h, m) PROVE IInv'
  <1> DEFINE g == Peer(h)
  <1>1. TypeOK /\ TcbInv(h) /\ g \in Host /\ g # h /\ Peer(g) = h
    BY HostPeer DEF IInv
  <1>2. opened[h] /\ Len(Arrived(h)) = 0 /\ ooo_buf[h] = <<>>
    <2>1. state[h] = "SYN_SENT" /\ FreshInv(h) /\ OpenInv(h)
      BY <1>1 DEF InSynSent, TcbInv
    <2>2. read[h] = <<>> /\ rcv_buf[h] = <<>> /\ ooo_buf[h] = <<>>
      BY <2>1 DEF FreshInv, Handshake
    <2>3. QED
      BY <1>1, <2>1, <2>2, NothingArrived DEF OpenInv
  <1>3. CASE "SYN" \in m.flags /\ AcksAll(h, m)
    <2>1. m.ack = snd_nxt[h] /\ m.ack \in Seqs /\ m.seq = Isn[g] /\ opened[g]
      BY <1>3, InSeg DEF AcksAll, InSynSent, SegOk
    <2>2. PICK s : s = Seg(h, {"ACK"}, snd_nxt[h], Plus(m.seq, 1), <<>>)
      OBVIOUS
    <2>3. /\ state' = [state EXCEPT ![h] = "ESTABLISHED"]
          /\ snd_una' = [snd_una EXCEPT ![h] = snd_nxt[h]]
          /\ rcv_nxt' = [rcv_nxt EXCEPT ![h] = Plus(Isn[g], 1)]
          /\ net' \subseteq net \cup {s}
      BY <1>3, <2>1, <2>2, PutNet DEF InSynSent
    <2>4. state'[h] = "ESTABLISHED" /\ snd_una'[h] = snd_nxt[h] /\ rcv_nxt'[h] = Plus(Isn[g], 1)
      BY <1>1, <2>3 DEF TypeOK
    <2>5. Plus(Isn[g], 1) \in Seqs /\ Off(g, Plus(Isn[g], 1)) = 1
      BY <1>1, SynOff
    <2>6. s \in Segment /\ s.dst = g /\ s.flags = {"ACK"} /\ s.data = <<>> /\ s.ack = Plus(Isn[g], 1)
      <3>1. {"ACK"} \in SUBSET Flags /\ <<>> \in Seq(Nat) /\ snd_nxt[h] \in Seqs
        BY <1>1, HostTypes DEF Flags
      <3>2. QED
        BY <2>1, <2>2, <2>5, <3>1, SegType DEF Seg
    <2>7. TypeOK'
      <3>1. state' \in [Host -> States] /\ snd_una' \in [Host -> Seqs] /\ rcv_nxt' \in [Host -> Seqs]
            /\ net' \subseteq Segment
        BY <1>1, <2>1, <2>3, <2>5, <2>6 DEF TypeOK, States
      <3>2. QED
        BY <1>1, <3>1 DEF TypeOK, InSynSent, ccVars, rttVars, appVars
    <2>8. Quiet(g)
      BY <1>1, <2>3 DEF Quiet, TypeOK, InSynSent, ccVars, appVars
    <2>9. Arrived(h)' = Arrived(h) /\ Arrived(g)' = Arrived(g) /\ Len(Arrived(g)) \in Nat
      BY <1>1, ArrivedType DEF Arrived, InSynSent, appVars
    <2>10. Forward(h)
      <3>1. Off(h, snd_nxt[h]) \in Nat /\ written[h] \in Nat /\ snd_nxt[h] \in Seqs
        BY <1>1, HostTypes, OffNat
      <3>2. QED
        BY <1>2, <2>4, <2>9, <3>1 DEF Forward, InSynSent, appVars, Sending, Handshake
    <2>11. FreshInv(h)' /\ SendInv(h)' /\ OpenInv(h)' /\ EofInv(h)'
      BY <1>1, <2>4, <2>9, Established DEF InSynSent, TcbInv, Handshake, appVars
    <2>12. CwndInv(h)'
      BY <1>1 DEF TcbInv, CwndInv, InSynSent, ccVars
    <2>13. RecvInv(h)'
      BY <1>1, <1>2, <2>1, <2>4, <2>5, <2>9 DEF TcbInv, RecvInv, InSynSent, appVars
    <2>14. SegOk(h, s)'
      BY <1>1, <1>2, <2>1, <2>5, <2>6, <2>9 DEF SegOk, InSynSent
    <2>15. QED
      BY <1>1, <2>3, <2>6, <2>7, <2>8, <2>10, <2>11, <2>12, <2>13, <2>14, StepOf DEF TcbInv
  <1>4. CASE ~("SYN" \in m.flags /\ AcksAll(h, m))
    <2>1. PICK s : s = Seg(h, {"RST"}, IF "ACK" \in m.flags THEN m.ack ELSE snd_nxt[h], 0, <<>>)
      OBVIOUS
    <2>2. net' \subseteq net \cup {s} /\ UNCHANGED <<sndVars, rcvVars>>
      BY SMTT(60), <1>1, <1>4, <2>1, PutNet DEF InSynSent, TypeOK, sndVars, rcvVars
    <2>3. PICK x \in {state[h], "CLOSED"} : state' = [state EXCEPT ![h] = x]
      BY <1>1, <1>4 DEF InSynSent, TypeOK
    <2>4. s \in Segment /\ s.dst = g /\ "RST" \in s.flags
      <3>1. {"RST"} \in SUBSET Flags /\ <<>> \in Seq(Nat) /\ snd_nxt[h] \in Seqs /\ m.ack \in Seqs /\ 0 \in Seqs
        BY <1>1, HostTypes, InSeg, SeqModAssumption DEF Flags, Seqs
      <3>2. QED
        BY <2>1, <3>1, SegType DEF Seg
    <2>5. retries' \in [Host -> 0 .. SynRetryMax]
      BY <1>1 DEF InSynSent, TypeOK
    <2>6. QED
      BY <2>2, <2>3, <2>4, <2>5, StateStep DEF InSynSent
  <1>5. QED
    BY <1>3, <1>4

----------------------------------------------------------------------------
(* tcp_close and the closing states.                                       *)

LEMMA FinStep ==
  ASSUME IInv, NEW h \in Host, NEW next \in Left,
         (state[h] = "ESTABLISHED" /\ next = "FIN_WAIT_1") \/ (state[h] = "CLOSE_WAIT" /\ next = "LAST_ACK"),
         SendFin(h, next),
         UNCHANGED <<opened, retries, snd_una, snd_buf, armed, ccVars, rttVars, rcvVars, appVars>>
  PROVE  IInv'
  <1> DEFINE g == Peer(h)
  <1>1. TypeOK /\ TcbInv(h) /\ g \in Host /\ g # h /\ Peer(g) = h
    BY HostPeer DEF IInv
  <1>2. PICK s : s = Seg(h, {"FIN", "ACK"}, snd_nxt[h], rcv_nxt[h], <<>>)
    OBVIOUS
  <1>3. /\ state' = [state EXCEPT ![h] = next]
        /\ snd_nxt' = [snd_nxt EXCEPT ![h] = Plus(snd_nxt[h], 1)]
        /\ net' \subseteq net \cup {s}
    BY <1>2, PutNet DEF SendFin
  <1>4. snd_nxt[h] \in Seqs /\ rcv_nxt[h] \in Seqs /\ written[h] \in Nat /\ snd_una[h] \in Seqs
        /\ Len(snd_buf[h]) \in Nat
    BY <1>1, HostTypes
  <1>5. Off(h, snd_nxt[h]) \in Nat /\ Off(h, snd_nxt[h]) <= written[h] + 1 /\ written[h] <= MaxWrite[h]
    <2>1. Off(h, snd_nxt[h]) \in Nat /\ Off(h, snd_una[h]) \in Nat
      BY <1>4, OffNat
    <2>2. state[h] = "ESTABLISHED" => Off(h, snd_nxt[h]) <= written[h] + 1
      BY <1>1, <1>4, <2>1 DEF TcbInv, SendInv
    <2>3. QED
      BY <1>1, <2>1, <2>2 DEF TcbInv, OpenInv
  <1>6. Plus(snd_nxt[h], 1) \in Seqs /\ Off(h, Plus(snd_nxt[h], 1)) = Off(h, snd_nxt[h]) + 1
    <2>1. Off(h, snd_nxt[h]) + 1 < SeqMod
      BY <1>4, <1>5, Bounds, SeqModAssumption
    <2>2. QED
      BY <1>4, <2>1, OffPlus
  <1>7. s \in Segment /\ s.dst = g /\ s.flags = {"FIN", "ACK"} /\ s.data = <<>> /\ s.ack = rcv_nxt[h]
    <2>1. {"FIN", "ACK"} \in SUBSET Flags /\ <<>> \in Seq(Nat)
      BY DEF Flags
    <2>2. QED
      BY <1>2, <1>4, <2>1, SegType DEF Seg
  <1>8. state'[h] = next /\ snd_nxt'[h] = Plus(snd_nxt[h], 1)
    BY <1>1, <1>3 DEF TypeOK
  <1>9. TypeOK'
    <2>1. state' \in [Host -> States] /\ snd_nxt' \in [Host -> Seqs] /\ net' \subseteq Segment
      BY <1>1, <1>3, <1>6, <1>7 DEF TypeOK, States, Left
    <2>2. QED
      BY <1>1, <2>1 DEF TypeOK, ccVars, rttVars, rcvVars, appVars
  <1>10. Quiet(g)
    BY <1>1, <1>3 DEF Quiet, TypeOK, ccVars, rcvVars, appVars
  <1>11. Arrived(h)' = Arrived(h) /\ Arrived(g)' = Arrived(g) /\ Len(Arrived(h)) \in Nat
    BY <1>1, ArrivedType DEF Arrived, rcvVars, appVars
  <1>12. next \notin Sending \cup {"CLOSE_WAIT"} /\ opened[h]
    BY <1>1, StatesSplit DEF TcbInv, OpenInv
  <1>13. Forward(h)
    BY <1>4, <1>5, <1>6, <1>8, <1>11, <1>12 DEF Forward, appVars
  <1>14. TcbInv(h)'
    <2>1. FreshInv(h)' /\ SendInv(h)' /\ CwndInv(h)'
      BY <1>1, <1>8, <1>12 DEF TcbInv, FreshInv, SendInv, CwndInv, Sending, ccVars, rcvVars, appVars
    <2>2. OpenInv(h)'
      BY <1>1, <1>4, <1>5, <1>6, <1>8, <1>12 DEF TcbInv, OpenInv, Sending, appVars
    <2>3. EofInv(h)'
      BY <1>1, <1>8, <1>10 DEF TcbInv, EofInv, Quiet
    <2>4. ooo_buf[h] # <<>> => Genuine(g, ooo_seq[h], ooo_buf[h])'
      BY <1>1, <1>10 DEF TcbInv, RecvInv, Genuine, Quiet, rcvVars
    <2>5. RecvInv(h)'
      BY <1>1, <1>8, <1>10, <1>11, <1>12, <2>4 DEF TcbInv, RecvInv, Sending, Quiet, rcvVars
    <2>6. QED
      BY <2>1, <2>2, <2>3, <2>5 DEF TcbInv
  <1>15. SegOk(h, s)'
    <2>1. state[h] = "ESTABLISHED" => opened[g] /\ Off(g, rcv_nxt[h]) = Len(Arrived(h)) + 1
      BY <1>1 DEF TcbInv, RecvInv
    <2>2. state[h] = "CLOSE_WAIT" => opened[g] /\ state[g] \notin Sending
      BY <1>1 DEF TcbInv, EofInv
    <2>3. QED
      BY <1>1, <1>7, <1>8, <1>10, <1>11, <1>12, <2>1, <2>2 DEF SegOk, Quiet
  <1>16. QED
    BY <1>1, <1>3, <1>7, <1>9, <1>10, <1>13, <1>14, <1>15, StepOf

LEMMA CloseInv ==
  ASSUME IInv, NEW h \in Host, Close(h) PROVE IInv'
  <1>1. TypeOK /\ UNCHANGED <<opened, retries, snd_una, snd_buf, armed, ccVars, rttVars, rcvVars, appVars>>
    BY DEF IInv, Close
  <1>2. CASE state[h] = "ESTABLISHED"
    <2>1. PICK next \in Left : next = "FIN_WAIT_1" /\ SendFin(h, next)
      BY <1>2 DEF Close, Left
    <2>2. (state[h] = "ESTABLISHED" /\ next = "FIN_WAIT_1") \/ (state[h] = "CLOSE_WAIT" /\ next = "LAST_ACK")
      BY <1>2, <2>1
    <2>3. QED
      BY <1>1, <2>1, <2>2, FinStep
  <1>3. CASE state[h] = "CLOSE_WAIT"
    <2>1. PICK next \in Left : next = "LAST_ACK" /\ SendFin(h, next)
      BY <1>3 DEF Close, Left
    <2>2. QED
      BY <1>1, <1>3, <2>1, FinStep
  <1>4. CASE state[h] \notin {"ESTABLISHED", "CLOSE_WAIT"}
    <2>1. state' = [state EXCEPT ![h] = "CLOSED"] /\ UNCHANGED <<snd_nxt, net>>
      BY <1>4 DEF Close
    <2>2. net' \ net = {} /\ retries' \in [Host -> 0 .. SynRetryMax]
      BY <1>1, <2>1 DEF Close, TypeOK
    <2>3. UNCHANGED sndVars
      BY <2>1 DEF Close, sndVars
    <2>4. QED
      BY <2>1, <2>2, <2>3, StateStep DEF Close
  <1>5. QED
    BY <1>2, <1>3, <1>4

LEMMA InFinWaitInv ==
  ASSUME IInv, NEW h \in Host, NEW m \in net, m.dst = h, InFinWait(h, m) PROVE IInv'
  <1> DEFINE g == Peer(h)
  <1>1. TypeOK /\ TcbInv(h) /\ g \in Host /\ g # h /\ Peer(g) = h
    BY HostPeer DEF IInv
  <1>2. PICK s : s = Seg(h, {"ACK"}, snd_nxt[h], Plus(m.seq, 1), <<>>)
    OBVIOUS
  <1>3. net' \subseteq net \cup {s} /\ ("FIN" \notin m.flags => net' \subseteq net)
    BY <1>2, PutNet DEF InFinWait
  <1>4. m.seq \in Seqs /\ m.ack \in Seqs /\ Plus(m.seq, 1) \in Seqs
        /\ ("FIN" \in m.flags => opened[g] /\ state[g] \notin Sending \cup {"CLOSE_WAIT"})
    <2>1. m.seq \in Seqs /\ m.ack \in Seqs /\ SegOk(g, m)
      BY InSeg DEF InFinWait
    <2>2. m.seq \in Int
      BY <2>1, SeqModAssumption DEF Seqs
    <2>3. QED
      BY <2>1, <2>2, PlusType DEF SegOk
  <1>5. PICK x \in Left : /\ state' = [state EXCEPT ![h] = x]
                          /\ x \in {"FIN_WAIT_1", "FIN_WAIT_2"} \/ "FIN" \in m.flags
    BY DEF InFinWait, Left
  <1>6. PICK u \in Seqs : snd_una' = [snd_una EXCEPT ![h] = u]
    <2>1. snd_una[h] \in Seqs
      BY <1>1, HostTypes
    <2>2. QED
      BY <1>4, <2>1 DEF InFinWait
  <1>7. PICK r \in Seqs : rcv_nxt' = [rcv_nxt EXCEPT ![h] = r]
    <2>1. rcv_nxt[h] \in Seqs
      BY <1>1, HostTypes
    <2>2. QED
      BY <1>4, <2>1 DEF InFinWait
  <1>8. s \in Segment /\ s.dst = g /\ s.flags = {"ACK"} /\ s.data = <<>>
    <2>1. {"ACK"} \in SUBSET Flags /\ <<>> \in Seq(Nat) /\ snd_nxt[h] \in Seqs
      BY <1>1, HostTypes DEF Flags
    <2>2. QED
      BY <1>2, <1>4, <2>1, SegType DEF Seg
  <1>9. state'[h] = x /\ x \notin Sending \cup {"CLOSE_WAIT"} /\ x \in States /\ opened[h]
    BY <1>1, <1>5, StatesSplit DEF TypeOK, InFinWait, TcbInv, OpenInv
  <1>10. TypeOK'
    <2>1. state' \in [Host -> States] /\ snd_una' \in [Host -> Seqs] /\ rcv_nxt' \in [Host -> Seqs]
          /\ net' \subseteq Segment
      BY <1>1, <1>3, <1>5, <1>6, <1>7, <1>8, <1>9 DEF TypeOK
    <2>2. QED
      BY <1>1, <2>1 DEF TypeOK, InFinWait, ccVars, rttVars, appVars
  <1>11. Quiet(g)
    BY <1>1, <1>5, <1>6, <1>7 DEF Quiet, TypeOK, InFinWait, ccVars, appVars
  <1>12. Arrived(h)' = Arrived(h) /\ Len(Arrived(h)) \in Nat
    BY <1>1, ArrivedType DEF Arrived, InFinWait, appVars
  <1>13. Forward(h)
    <2>1. Off(h, snd_nxt[h]) \in Nat /\ written[h] \in Nat /\ snd_nxt[h] \in Seqs
      BY <1>1, HostTypes, OffNat
    <2>2. QED
      BY <1>9, <1>12, <2>1 DEF Forward, InFinWait, appVars
  <1>14. TcbInv(h)'
    <2>1. FreshInv(h)' /\ SendInv(h)' /\ CwndInv(h)'
      BY <1>1, <1>9 DEF TcbInv, FreshInv, SendInv, CwndInv, Sending, InFinWait, ccVars, appVars
    <2>2. OpenInv(h)'
      BY <1>1, <1>9 DEF TcbInv, OpenInv, Sending, InFinWait, appVars
    <2>3. EofInv(h)'
      BY <1>4, <1>5, <1>9, <1>11 DEF EofInv, Quiet
    <2>4. ooo_buf[h] # <<>> => Genuine(g, ooo_seq[h], ooo_buf[h])'
      BY <1>1, <1>11 DEF TcbInv, RecvInv, Genuine, Quiet, InFinWait
    <2>5. RecvInv(h)'
      BY <1>1, <1>9, <1>11, <1>12, <2>4 DEF TcbInv, RecvInv, Sending, Quiet, InFinWait
    <2>6. QED
      BY <2>1, <2>2, <2>3, <2>5 DEF TcbInv
  <1>15. "FIN" \in m.flags => SegOk(h, s)'
    BY <1>1, <1>4, <1>8, <1>9, <1>11 DEF SegOk, Quiet, InFinWait
  <1>16. QED
    BY <1>1, <1>3, <1>8, <1>10, <1>11, <1>13, <1>14, <1>15, StepOf

----------------------------------------------------------------------------
(* Steps of an established connection.                                     *)

LEMMA EstFacts ==
  ASSUME IInv, NEW h \in Host, state[h] = "ESTABLISHED"
  PROVE  /\ opened[h] /\ opened[Peer(h)]
         /\ WinOk(h, snd_una[h], snd_nxt[h], snd_buf[h], written[h])
         /\ written[h] <= MaxWrite[h]
         /\ Off(h, snd_nxt[h]) >= Off(h, snd_una[h]) + MinOf(Len(snd_buf[h]), MSS)
         /\ armed[h] = (snd_buf[h] # <<>>)
         /\ Off(h, snd_una[h]) <= Len(Arrived(Peer(h))) + 1
         /\ Off(Peer(h), rcv_nxt[h]) = Len(Arrived(h)) + 1
         /\ cwnd[h] >= MSS
  <1>1. TypeOK /\ FreshInv(h) /\ OpenInv(h) /\ SendInv(h) /\ RecvInv(h) /\ CwndInv(h)
    BY DEF IInv, TcbInv
  <1>2. opened[h] \in BOOLEAN
    BY <1>1, HostTypes
  <1>3. WinOk(h, snd_una[h], snd_nxt[h], snd_buf[h], written[h])
    BY <1>1 DEF SendInv, WinOk
  <1>4. opened[h]
    BY <1>1, <1>2 DEF OpenInv
  <1>5. QED
    BY <1>1, <1>3, <1>4 DEF OpenInv, SendInv, RecvInv, CwndInv

\* A good window after the step is all the send side has to show.
LEMMA EstSend ==
  ASSUME IInv, NEW h \in Host, state[h] = "ESTABLISHED",
         state'[h] \in {"ESTABLISHED", "CLOSE_WAIT"}, opened'[h] = opened[h],
         snd_una'[h] \in Seqs, snd_nxt'[h] \in Seqs, snd_buf'[h] \in Seq(Nat), written'[h] \in Nat,
         WinOk(h, snd_una'[h], snd_nxt'[h], snd_buf'[h], written'[h]),
         written'[h] <= MaxWrite[h],
         Off(h, snd_nxt'[h]) >= Off(h, snd_una'[h]) + MinOf(Len(snd_buf'[h]), MSS),
         armed'[h] = (snd_buf'[h] # <<>>),
         Off(h, snd_una'[h]) <= Len(Arrived(Peer(h))') + 1
  PROVE  FreshInv(h)' /\ OpenInv(h)' /\ SendInv(h)'
  <1>1. opened'[h]
    BY EstFacts
  <1>2. FreshInv(h)'
    BY <1>1 DEF FreshInv, Handshake
  <1>3. Off(h, snd_una'[h]) \in Nat /\ Off(h, snd_nxt'[h]) \in Nat /\ Len(snd_buf'[h]) \in Nat
    BY OffNat
  <1>4. Off(h, snd_nxt'[h]) <= written'[h] + 1
    BY <1>3 DEF WinOk
  <1>5. OpenInv(h)'
    BY <1>1, <1>3, <1>4 DEF OpenInv, Handshake
  <1>6. SendInv(h)'
    BY DEF SendInv, WinOk
  <1>7. QED
    BY <1>2, <1>5, <1>6

\* A step that leaves the receive side of h alone.
LEMMA RecvSame ==
  ASSUME IInv, NEW h \in Host, state[h] = "ESTABLISHED", state'[h] = "ESTABLISHED",
         Quiet(Peer(h)), UNCHANGED <<rcvVars, read>>
  PROVE  RecvInv(h)' /\ EofInv(h)' /\ Arrived(h)' = Arrived(h) /\ Arrived(Peer(h))' = Arrived(Peer(h))
  <1>1. Arrived(h)' = Arrived(h) /\ Arrived(Peer(h))' = Arrived(Peer(h))
    BY DEF Arrived, rcvVars
  <1>2. RecvInv(h)
    BY DEF IInv, TcbInv
  <1>3. ooo_buf[h] # <<>> => Genuine(Peer(h), ooo_seq[h], ooo_buf[h])'
    BY <1>2 DEF RecvInv, Genuine, rcvVars, Quiet
  <1>4. RecvInv(h)'
    BY <1>1, <1>2, <1>3 DEF RecvInv, rcvVars, Quiet
  <1>5. EofInv(h)'
    BY DEF EofInv
  <1>6. QED
    BY <1>1, <1>4, <1>5

\* The data segments such a step sends, and the acknowledgements.
LEMMA DataSegOk ==
  ASSUME NEW h \in Host, opened'[h], opened'[Peer(h)], NEW ak \in Seqs,
         state'[Peer(h)] \in Sending =>
             1 <= Off(Peer(h), ak) /\ Off(Peer(h), ak) <= Len(Arrived(h)') + 1,
         NEW m, DataSeg(h, m, snd_nxt'[h], written'[h], ak)
  PROVE  m \in Segment /\ m.dst = Peer(h) /\ SegOk(h, m)'
  <1>1. m \in Segment /\ m.dst = Peer(h) /\ m.flags = {"ACK"} /\ m.ack = ak /\ m.data # <<>>
    BY DEF DataSeg
  <1>2. Genuine(h, m.seq, m.data)'
    BY DEF DataSeg, Genuine
  <1>3. SegOk(h, m)'
    BY <1>1, <1>2 DEF SegOk
  <1>4. QED
    BY <1>1, <1>3

LEMMA AckSegOk ==
  ASSUME NEW h \in Host, opened'[h], opened'[Peer(h)], NEW ak \in Seqs, snd_nxt'[h] \in Seqs,
         state'[Peer(h)] \in Sending =>
             1 <= Off(Peer(h), ak) /\ Off(Peer(h), ak) <= Len(Arrived(h)') + 1,
         NEW m, m = Seg(h, {"ACK"}, snd_nxt'[h], ak, <<>>)
  PROVE  m \in Segment /\ m.dst = Peer(h) /\ SegOk(h, m)'
  <1>1. {"ACK"} \in SUBSET Flags /\ <<>> \in Seq(Nat)
    BY DEF Flags
  <1>2. m \in Segment /\ m.dst = Peer(h) /\ m.flags = {"ACK"} /\ m.ack = ak /\ m.data = <<>>
    BY <1>1, SegType DEF Seg
  <1>3. SegOk(h, m)'
    BY <1>2 DEF SegOk
  <1>4. QED
    BY <1>2, <1>3

LEMMA ArmProbeType ==
  ASSUME TypeOK, NEW h \in Host, NEW cur \in Seqs \cup {NoProbe}, NEW n
  PROVE  ArmProbe(h, cur, n) \in Seqs \cup {NoProbe}
  BY HostTypes DEF ArmProbe

LEMMA SendStep ==
  ASSUME IInv, NEW h \in Host, NEW n \in 1 .. BUF, Send(h, n) PROVE IInv'
  <1> DEFINE g == Peer(h)
  <1>1. TypeOK /\ TcbInv(h) /\ g \in Host /\ g # h /\ state[h] = "ESTABLISHED" /\ n \in Nat
    BY HostPeer, ConnAssumption DEF IInv, Send
  <1>2. /\ snd_una[h] \in Seqs /\ snd_nxt[h] \in Seqs /\ snd_buf[h] \in Seq(Nat) /\ written[h] \in Nat
        /\ cwnd[h] \in Nat /\ rcv_nxt[h] \in Seqs /\ Len(snd_buf[h]) \in Nat
        /\ probe[h] \in Seqs \cup {NoProbe} /\ resent[h] \in BOOLEAN
    BY <1>1, HostTypes
  <1>3. PICK b : b = snd_buf[h] \o [i \in 1 .. n |-> written[h] + i]
    OBVIOUS
  <1>4. PICK k : k = EmitLen(b, Minus(snd_nxt[h], snd_una[h]), cwnd[h])
    OBVIOUS
  <1>5. PICK p : p = ArmProbe(h, probe[h], k)
    OBVIOUS
  <1>6. PICK segs : segs = DataSegs(h, snd_una[h], b, Minus(snd_nxt[h], snd_una[h]), k, rcv_nxt[h])
    OBVIOUS
  <1>7. PICK w : w = written[h] + n
    OBVIOUS
  <1>8. /\ snd_buf' = [snd_buf EXCEPT ![h] = b]
        /\ armed'   = [armed   EXCEPT ![h] = TRUE]
        /\ written' = [written EXCEPT ![h] = w]
        /\ snd_nxt' = [snd_nxt EXCEPT ![h] = Plus(snd_nxt[h], k)]
        /\ probe'   = [probe   EXCEPT ![h] = p]
        /\ resent'  = [resent  EXCEPT ![h] = resent[h] /\ p = probe[h]]
        /\ net' \subseteq net \cup segs
        /\ n <= BUF - Len(snd_buf[h]) /\ w <= MaxWrite[h]
    BY <1>3, <1>4, <1>5, <1>6, <1>7, PutNet DEF Send, InFlight
  <1>9. /\ b \in Seq(Nat) /\ Len(b) = Len(snd_buf[h]) + n
        /\ WinOk(h, snd_una[h], snd_nxt[h], b, w)
    BY SMTT(60), <1>1, <1>2, <1>3, <1>7, EstFacts, AppendWin
  <1>10. /\ k \in Nat /\ Plus(snd_nxt[h], k) \in Seqs
         /\ WinOk(h, snd_una[h], Plus(snd_nxt[h], k), b, w)
         /\ Off(h, snd_nxt[h]) <= Off(h, Plus(snd_nxt[h], k))
         /\ Off(h, Plus(snd_nxt[h], k)) >= Off(h, snd_una[h]) + MinOf(Len(b), MSS)
         /\ \A m \in segs : DataSeg(h, m, Plus(snd_nxt[h], k), w, rcv_nxt[h])
    <2>1. w \in Nat /\ w <= MaxWrite[h]
      BY <1>1, <1>2, <1>7, <1>8
    <2>2. MSS <= cwnd[h]
      BY <1>1, <1>2, EstFacts, ConnAssumption
    <2>3. /\ k \in Nat /\ Plus(snd_nxt[h], k) \in Seqs
          /\ WinOk(h, snd_una[h], Plus(snd_nxt[h], k), b, w)
          /\ Off(h, snd_nxt[h]) <= Off(h, Plus(snd_nxt[h], k))
          /\ Off(h, Plus(snd_nxt[h], k)) >= Off(h, snd_una[h]) + MinOf(Len(b), MSS)
          /\ Off(h, Plus(snd_nxt[h], k)) <= w + 1
          /\ \A m \in DataSegs(h, snd_una[h], b, Minus(snd_nxt[h], snd_una[h]), k, rcv_nxt[h]) :
                 DataSeg(h, m, Plus(snd_nxt[h], k), w, rcv_nxt[h])
      <3>1. PICK u \in Seqs, x \in Seqs, c \in Nat, ak \in Seqs :
              u = snd_una[h] /\ x = snd_nxt[h] /\ c = cwnd[h] /\ ak = rcv_nxt[h]
        BY <1>2
      <3>2. b \in Seq(Nat) /\ WinOk(h, u, x, b, w) /\ MSS <= c /\ k = EmitLen(b, Minus(x, u), c)
        BY <1>4, <1>9, <2>2, <3>1
      <3>3. /\ k \in Nat /\ Plus(x, k) \in Seqs
            /\ WinOk(h, u, Plus(x, k), b, w)
            /\ Off(h, x) <= Off(h, Plus(x, k))
            /\ Off(h, Plus(x, k)) >= Off(h, u) + MinOf(Len(b), MSS)
            /\ Off(h, Plus(x, k)) <= w + 1
            /\ \A m \in DataSegs(h, u, b, Minus(x, u), k, ak) : DataSeg(h, m, Plus(x, k), w, ak)
        BY <2>1, <3>2, Emit
      <3>4. QED
        BY <3>1, <3>3
    <2>4. QED
      BY <1>6, <2>3
  <1>11. /\ snd_buf'[h] = b /\ armed'[h] = TRUE /\ written'[h] = w /\ w \in Nat
         /\ snd_nxt'[h] = Plus(snd_nxt[h], k)
         /\ state' = state /\ opened' = opened /\ snd_una' = snd_una
    <2>1. w \in Nat
      BY <1>1, <1>2, <1>7
    <2>2. /\ snd_buf'[h] = b /\ armed'[h] = TRUE /\ written'[h] = w
          /\ snd_nxt'[h] = Plus(snd_nxt[h], k)
      BY <1>1, <1>8 DEF TypeOK
    <2>3. state' = state /\ opened' = opened /\ snd_una' = snd_una
      BY DEF Send, connVars
    <2>4. QED
      BY <2>1, <2>2, <2>3
  <1>12. TypeOK'
    <2>1. p \in Seqs \cup {NoProbe}
      BY <1>1, <1>2, <1>5, ArmProbeType
    <2>2. /\ snd_buf' \in [Host -> Seq(Nat)] /\ armed' \in [Host -> BOOLEAN]
          /\ written' \in [Host -> Nat] /\ snd_nxt' \in [Host -> Seqs]
      BY <1>1, <1>8, <1>9, <1>10, <1>11 DEF TypeOK
    <2>3. probe' \in [Host -> Seqs \cup {NoProbe}] /\ resent' \in [Host -> BOOLEAN]
      BY <1>1, <1>2, <1>8, <2>1 DEF TypeOK
    <2>4. net' \subseteq Segment
      BY <1>1, <1>8, <1>10 DEF TypeOK, DataSeg
    <2>5. Len(b) <= BUF
      BY <1>1, <1>2, <1>8, <1>9, ConnAssumption
    <2>6. \A x \in Host : Len(snd_buf'[x]) <= BUF
      BY <1>1, <1>8, <2>5 DEF TypeOK
    <2>7. QED
      BY <1>1, <2>2, <2>3, <2>4, <2>6 DEF TypeOK, Send, connVars, ccVars, rcvVars
  <1>13. Quiet(g)
    BY <1>1, <1>8 DEF Quiet, TypeOK, Send, connVars, ccVars, rcvVars
  <1>14. RecvInv(h)' /\ EofInv(h)' /\ Arrived(h)' = Arrived(h) /\ Arrived(g)' = Arrived(g)
    <2>1. state'[h] = "ESTABLISHED"
      BY <1>1, <1>11
    <2>2. UNCHANGED <<rcvVars, read>>
      BY DEF Send
    <2>3. QED
      BY <1>1, <1>13, <2>1, <2>2, RecvSame
  <1>15. Forward(h)
    <2>1. Off(h, snd_nxt[h]) \in Nat /\ Len(Arrived(h)) \in Nat
      BY <1>1, <1>2, OffNat, ArrivedType
    <2>2. written[h] <= w
      BY <1>1, <1>2, <1>7
    <2>3. QED
      BY <1>10, <1>11, <1>14, <2>1, <2>2 DEF Forward
  <1>16. TcbInv(h)'
    <2>1. b # <<>>
      <3>1. Len(b) # 0
        BY <1>1, <1>2, <1>9
      <3>2. QED
        BY <1>9, <3>1, EmptyLen
    <2>2. Off(h, snd_una'[h]) <= Len(Arrived(g)') + 1
      BY <1>1, <1>11, <1>14, EstFacts
    <2>3. FreshInv(h)' /\ OpenInv(h)' /\ SendInv(h)'
      BY <1>1, <1>2, <1>8, <1>9, <1>10, <1>11, <2>1, <2>2, EstSend
    <2>4. CwndInv(h)'
      BY <1>1 DEF TcbInv, CwndInv, Send, ccVars
    <2>5. QED
      BY <1>14, <2>3, <2>4 DEF TcbInv
  <1>17. ASSUME NEW m \in net' \ net PROVE m.dst = g /\ SegOk(h, m)'
    <2>1. DataSeg(h, m, snd_nxt'[h], written'[h], rcv_nxt[h])
      BY <1>8, <1>10, <1>11
    <2>2. opened'[h] /\ opened'[g]
      BY <1>1, <1>11, EstFacts
    <2>3. 1 <= Off(g, rcv_nxt[h]) /\ Off(g, rcv_nxt[h]) <= Len(Arrived(h)') + 1
      <3>1. Off(g, rcv_nxt[h]) = Len(Arrived(h)) + 1 /\ Len(Arrived(h)) \in Nat
        BY <1>1, EstFacts, ArrivedType
      <3>2. QED
        BY <1>14, <3>1
    <2>4. QED
      BY <1>2, <2>1, <2>2, <2>3, DataSegOk
  <1>18. QED
    BY <1>1, <1>12, <1>13, <1>15, <1>16, <1>17, StepOf

LEMMA HalvedType ==
  ASSUME TypeOK, NEW h \in Host PROVE Halved(h) \in Nat /\ Halved(h) >= MSS
  <1>1. cwnd[h] \in Nat /\ MSS \in Nat
    BY HostTypes, ConnAssumption
  <1>2. PICK c \in Nat : c = cwnd[h] \div 2
    BY <1>1
  <1>3. Halved(h) = MaxOf(c, 2 * MSS)
    BY <1>2 DEF Halved
  <1>4. QED
    BY <1>1, <1>3 DEF MaxOf

LEMMA TimeoutInv ==
  ASSUME IInv, NEW h \in Host, Timeout(h) PROVE IInv'
  <1> DEFINE g == Peer(h)
  <1>1. TypeOK /\ TcbInv(h) /\ g \in Host /\ g # h /\ state[h] = "ESTABLISHED"
    BY HostPeer DEF IInv, Timeout
  <1>2. /\ snd_una[h] \in Seqs /\ snd_nxt[h] \in Seqs /\ snd_buf[h] \in Seq(Nat) /\ written[h] \in Nat
        /\ rcv_nxt[h] \in Seqs
    BY <1>1, HostTypes
  <1>3. PICK n : n = Minus(snd_nxt[h], snd_una[h])
    OBVIOUS
  <1>4. PICK segs : segs = DataSegs(h, snd_una[h], snd_buf[h], 0, n, rcv_nxt[h])
    OBVIOUS
  <1>5. net' \subseteq net \cup segs /\ UNCHANGED <<connVars, sndVars, rcvVars, appVars>>
    BY <1>3, <1>4, PutNet DEF Timeout, RtoSegs, InFlight
  <1>6. \A m \in segs : DataSeg(h, m, snd_nxt[h], written[h], rcv_nxt[h])
    <2>1. /\ WinOk(h, snd_una[h], snd_nxt[h], snd_buf[h], written[h]) /\ written[h] <= MaxWrite[h]
      BY <1>1, EstFacts
    <2>2. n \in Nat /\ n = Off(h, snd_nxt[h]) - Off(h, snd_una[h])
          /\ Off(h, snd_nxt[h]) \in Nat /\ Off(h, snd_una[h]) \in Nat
      BY <1>2, <1>3, <2>1, WinFacts
    <2>3. Off(h, snd_una[h]) + n <= Off(h, snd_nxt[h])
      BY <2>2
    <2>4. QED
      BY <1>2, <1>4, <2>1, <2>2, <2>3, Resend
  <1>7. /\ cwnd' = [cwnd EXCEPT ![h] = MSS] /\ ssthresh' = [ssthresh EXCEPT ![h] = Halved(h)]
        /\ probe' = [probe EXCEPT ![h] = NoProbe] /\ resent' = [resent EXCEPT ![h] = FALSE]
        /\ Halved(h) \in Nat /\ MSS \in Nat
    BY <1>1, HalvedType, ConnAssumption DEF Timeout
  <1>8. TypeOK'
    <2>1. /\ cwnd' \in [Host -> Nat] /\ ssthresh' \in [Host -> Nat]
          /\ probe' \in [Host -> Seqs \cup {NoProbe}] /\ resent' \in [Host -> BOOLEAN]
      BY <1>1, <1>7 DEF TypeOK
    <2>2. net' \subseteq Segment
      BY <1>1, <1>5, <1>6 DEF TypeOK, DataSeg
    <2>3. QED
      BY <1>1, <1>5, <2>1, <2>2 DEF TypeOK, Timeout, connVars, sndVars, rcvVars, appVars
  <1>9. Quiet(g)
    BY <1>1, <1>5, <1>7 DEF Quiet, TypeOK, connVars, sndVars, rcvVars, appVars
  <1>10. RecvInv(h)' /\ EofInv(h)' /\ Arrived(h)' = Arrived(h) /\ Arrived(g)' = Arrived(g)
    <2>1. state'[h] = "ESTABLISHED" /\ UNCHANGED <<rcvVars, read>>
      BY <1>1, <1>5 DEF connVars, appVars
    <2>2. QED
      BY <1>1, <1>9, <2>1, RecvSame
  <1>11. Forward(h)
    <2>1. Off(h, snd_nxt[h]) \in Nat /\ Len(Arrived(h)) \in Nat
      BY <1>1, <1>2, OffNat, ArrivedType
    <2>2. QED
      BY <1>2, <1>5, <1>10, <2>1 DEF Forward, connVars, sndVars, appVars
  <1>12. TcbInv(h)'
    <2>1. CwndInv(h)'
      BY <1>1, <1>7 DEF CwndInv, TypeOK
    <2>2. FreshInv(h)' /\ OpenInv(h)'
      BY <1>1, <1>5 DEF TcbInv, FreshInv, OpenInv, connVars, sndVars, rcvVars, appVars
    <2>3. SendInv(h)'
      BY <1>1, <1>5, <1>10 DEF TcbInv, SendInv, connVars, sndVars, appVars
    <2>4. QED
      BY <1>10, <2>1, <2>2, <2>3 DEF TcbInv
  <1>13. ASSUME NEW m \in net' \ net PROVE m.dst = g /\ SegOk(h, m)'
    <2>1. DataSeg(h, m, snd_nxt'[h], written'[h], rcv_nxt[h])
      BY <1>5, <1>6 DEF sndVars, appVars
    <2>2. opened'[h] /\ opened'[g]
      BY <1>1, <1>5, EstFacts DEF connVars
    <2>3. 1 <= Off(g, rcv_nxt[h]) /\ Off(g, rcv_nxt[h]) <= Len(Arrived(h)') + 1
      <3>1. Off(g, rcv_nxt[h]) = Len(Arrived(h)) + 1 /\ Len(Arrived(h)) \in Nat
        BY <1>1, EstFacts, ArrivedType
      <3>2. QED
        BY <1>10, <3>1
    <2>4. QED
      BY <1>2, <2>1, <2>2, <2>3, DataSegOk
  <1>14. QED
    BY <1>1, <1>8, <1>9, <1>11, <1>12, <1>13, StepOf

----------------------------------------------------------------------------
(* A segment for an established connection: the ACK field.                 *)

SndTyped ==
    /\ snd_una \in [Host -> Seqs] /\ snd_nxt \in [Host -> Seqs]
    /\ snd_buf \in [Host -> Seq(Nat)] /\ armed \in [Host -> BOOLEAN]
    /\ dup_acks \in [Host -> Nat] /\ last_ack_recv \in [Host -> Nat]
    /\ cwnd \in [Host -> Nat] /\ ssthresh \in [Host -> Nat]
    /\ probe \in [Host -> Seqs \cup {NoProbe}]
    /\ resent \in [Host -> BOOLEAN] /\ ambiguous \in [Host -> BOOLEAN]
    /\ \A h \in Host : Len(snd_buf[h]) <= BUF

SndQuiet(g) ==
    /\ snd_una'[g] = snd_una[g] /\ snd_nxt'[g] = snd_nxt[g] /\ snd_buf'[g] = snd_buf[g]
    /\ armed'[g] = armed[g] /\ cwnd'[g] = cwnd[g]

\* What the ACK field of m has done to h when the payload is looked at.
AckDone(h, m) ==
    /\ SndTyped'
    /\ SndQuiet(Peer(h))
    /\ WinOk(h, snd_una'[h], snd_nxt'[h], snd_buf'[h], written[h])
    /\ Off(h, snd_nxt'[h]) >= Off(h, snd_una'[h]) + MinOf(Len(snd_buf'[h]), MSS)
    /\ armed'[h] = (snd_buf'[h] # <<>>)
    /\ cwnd'[h] >= MSS
    /\ Off(h, snd_nxt[h]) <= Off(h, snd_nxt'[h])
    /\ Off(h, snd_una'[h]) <= Len(Arrived(Peer(h))) + 1
    /\ \A s \in AckSegs(h, m) : DataSeg(h, s, snd_nxt'[h], written[h], rcv_nxt[h])

LEMMA GrownType ==
  ASSUME TypeOK, NEW h \in Host, cwnd[h] >= MSS PROVE Grown(h) \in Nat /\ Grown(h) >= MSS
  <1>1. cwnd[h] \in Nat \ {0} /\ MSS \in Nat /\ ssthresh[h] \in Nat
    BY HostTypes, ConnAssumption
  <1>2. PICK q \in Nat : q = MSS * MSS
    BY <1>1
  <1>3. PICK c \in Nat : c = q \div cwnd[h]
    BY <1>1
  <1>4. PICK d \in Nat : d = IF cwnd[h] < ssthresh[h] THEN MSS ELSE MaxOf(1, c)
    BY <1>1 DEF MaxOf
  <1>5. Grown(h) = cwnd[h] + d
    BY <1>2, <1>3, <1>4 DEF Grown
  <1>6. QED
    BY <1>1, <1>5

LEMMA AckIgnoredDone ==
  ASSUME IInv, NEW h \in Host, NEW m \in net, state[h] = "ESTABLISHED", AckIgnored(h, m)
  PROVE  AckDone(h, m)
  <1>1. TypeOK /\ AckSegs(h, m) = {}
    BY DEF IInv, AckIgnored, AckSegs, IsFastRetransmit
  <1>2. SndTyped' /\ SndQuiet(Peer(h))
    BY <1>1 DEF TypeOK, SndTyped, SndQuiet, AckIgnored, sndVars, ccVars, rttVars
  <1>3. Off(h, snd_nxt[h]) \in Nat
    BY <1>1, HostTypes, OffNat
  <1>4. QED
    BY <1>1, <1>2, <1>3, EstFacts DEF AckDone, AckIgnored, sndVars, ccVars

LEMMA AckDuplicateDone ==
  ASSUME IInv, NEW h \in Host, NEW m \in net, m.dst = h, state[h] = "ESTABLISHED", AckDuplicate(h, m)
  PROVE  AckDone(h, m)
  <1>1. TypeOK /\ m.ack \in Nat /\ Peer(h) # h /\ Peer(h) \in Host
    BY InSeg, HostPeer, SeqsNat DEF IInv
  <1>2. /\ snd_una[h] \in Seqs /\ snd_nxt[h] \in Seqs /\ snd_buf[h] \in Seq(Nat) /\ written[h] \in Nat
        /\ rcv_nxt[h] \in Seqs /\ Off(h, snd_nxt[h]) \in Nat /\ Off(h, snd_una[h]) \in Nat
        /\ Len(snd_buf[h]) \in Nat /\ MSS \in Nat
    <2>1. snd_una[h] \in Seqs /\ snd_nxt[h] \in Seqs /\ snd_buf[h] \in Seq(Nat) /\ written[h] \in Nat
          /\ rcv_nxt[h] \in Seqs
      BY <1>1, HostTypes
    <2>2. Len(snd_buf[h]) \in Nat
      BY <2>1
    <2>3. QED
      BY <2>1, <2>2, OffNat, ConnAssumption
  <1>3. PICK c \in Nat : cwnd' = [cwnd EXCEPT ![h] = c] /\ c >= MSS
    <2>1. CASE IsFastRetransmit(h, m)
      BY <1>1, <2>1, HalvedType DEF AckDuplicate
    <2>2. CASE ~IsFastRetransmit(h, m)
      <3>1. cwnd' = [cwnd EXCEPT ![h] = cwnd[h]] /\ cwnd[h] \in Nat
        BY <1>1, <2>2 DEF AckDuplicate, TypeOK
      <3>2. QED
        BY <3>1, EstFacts
    <2>3. QED
      BY <2>1, <2>2
  <1>4. SndTyped'
    <2>1. cwnd' \in [Host -> Nat]
      BY <1>1, <1>3 DEF TypeOK
    <2>2. ssthresh' \in [Host -> Nat] /\ resent' \in [Host -> BOOLEAN]
      <3>1. CASE IsFastRetransmit(h, m)
        <4>1. PICK r \in BOOLEAN : r = (resent[h] \/ ProbeInFirst(h))
          OBVIOUS
        <4>2. resent' = [resent EXCEPT ![h] = r]
          BY <3>1, <4>1 DEF AckDuplicate
        <4>3. QED
          BY ZenonT(60), <1>1, <3>1, <4>2, HalvedType DEF AckDuplicate, TypeOK
      <3>2. CASE ~IsFastRetransmit(h, m)
        BY <1>1, <3>2 DEF AckDuplicate, TypeOK
      <3>3. QED
        BY <3>1, <3>2
    <2>3. DupCount(h, m) \in Nat
      <3>1. dup_acks[h] \in Nat /\ U8 \in Nat \ {0}
        BY <1>1, HostTypes, ConnAssumption
      <3>2. (dup_acks[h] + 1) % U8 \in Nat
        BY <3>1
      <3>3. QED
        BY <3>2 DEF DupCount
    <2>4. dup_acks' \in [Host -> Nat] /\ last_ack_recv' \in [Host -> Nat]
      BY <1>1, <2>3 DEF AckDuplicate, TypeOK
    <2>5. QED
      BY <1>1, <2>1, <2>2, <2>4 DEF AckDuplicate, TypeOK, SndTyped, sndVars
  <1>5. SndQuiet(Peer(h)) /\ cwnd'[h] = c
    BY <1>1, <1>3 DEF AckDuplicate, TypeOK, SndQuiet, sndVars
  <1>6. ASSUME NEW s \in AckSegs(h, m) PROVE DataSeg(h, s, snd_nxt[h], written[h], rcv_nxt[h])
    <2>1. ~Acks(h, m)
      BY DEF AckDuplicate, IsDupAck, Acks
    <2>2. PICK n : n = MinOf(MSS, Len(snd_buf[h]))
      OBVIOUS
    <2>3. s \in DataSegs(h, snd_una[h], snd_buf[h], 0, n, rcv_nxt[h])
      BY <2>1, <2>2 DEF AckSegs, FirstChunk
    <2>4. n \in Nat /\ n = MinOf(Len(snd_buf[h]), MSS)
      BY <1>2, <2>2 DEF MinOf
    <2>5. /\ WinOk(h, snd_una[h], snd_nxt[h], snd_buf[h], written[h]) /\ written[h] <= MaxWrite[h]
          /\ Off(h, snd_nxt[h]) >= Off(h, snd_una[h]) + n
      BY <2>4, EstFacts
    <2>6. Off(h, snd_una[h]) + n <= Off(h, snd_nxt[h])
      BY <1>2, <2>4, <2>5
    <2>7. QED
      BY <1>2, <2>3, <2>4, <2>5, <2>6, Resend
  <1>7. QED
    BY <1>2, <1>3, <1>4, <1>5, <1>6, EstFacts DEF AckDone, AckDuplicate, sndVars

\* An ACK that counts acknowledges bytes that are in flight, and have arrived.
LEMMA AckOff ==
  ASSUME IInv, NEW h \in Host, NEW m \in net, m.dst = h, state[h] = "ESTABLISHED",
         "RST" \notin m.flags, Acks(h, m)
  PROVE  /\ NewlyAcked(h, m) \in Nat /\ NewlyAcked(h, m) <= Len(snd_buf[h])
         /\ Off(h, m.ack) = Off(h, snd_una[h]) + NewlyAcked(h, m)
         /\ Off(h, m.ack) <= Off(h, snd_nxt[h])
         /\ Off(h, m.ack) <= Len(Arrived(Peer(h))) + 1
  <1> DEFINE g == Peer(h)
  <1>1. TypeOK /\ g \in Host /\ Peer(g) = h /\ SegOk(g, m) /\ m.ack \in Seqs
    BY InSeg, HostPeer DEF IInv
  <1>2. /\ snd_una[h] \in Seqs /\ snd_nxt[h] \in Seqs /\ snd_buf[h] \in Seq(Nat) /\ written[h] \in Nat
    BY <1>1, HostTypes
  <1>3. PICK a \in Nat, u \in Nat, x \in Nat, l \in Nat, r \in Nat, n \in {NewlyAcked(h, m)} :
          /\ a = Off(h, m.ack) /\ u = Off(h, snd_una[h]) /\ x = Off(h, snd_nxt[h])
          /\ l = Len(snd_buf[h]) /\ r = Len(Arrived(g)) /\ n = NewlyAcked(h, m)
    <2>1. Off(h, m.ack) \in Nat /\ Off(h, snd_una[h]) \in Nat /\ Off(h, snd_nxt[h]) \in Nat
      BY <1>1, <1>2, OffNat
    <2>2. Len(snd_buf[h]) \in Nat /\ Len(Arrived(g)) \in Nat
      BY <1>1, <1>2, ArrivedType
    <2>3. QED
      BY <2>1, <2>2
  <1>4. a <= r + 1
    BY <1>1, <1>3 DEF SegOk, Sending, Acks
  <1>5. r < x
    <2>1. opened[h] /\ RecvInv(g)
      BY <1>1, EstFacts DEF IInv, TcbInv
    <2>2. QED
      BY <1>1, <1>3, <2>1 DEF RecvInv
  <1>6. u + l < SeqMod
    <2>1. WinOk(h, snd_una[h], snd_nxt[h], snd_buf[h], written[h]) /\ written[h] <= MaxWrite[h]
      BY EstFacts
    <2>2. Off(h, snd_una[h]) + Len(snd_buf[h]) < SeqMod
      BY <1>2, <2>1, WinFacts
    <2>3. QED
      BY <1>3, <2>2
  <1>7. n = IF a >= u THEN a - u ELSE a - u + SeqMod
    BY <1>1, <1>2, <1>3, MinusOff DEF NewlyAcked
  <1>8. n \in 1 .. l
    BY <1>3 DEF Acks
  <1>9. n \in Nat /\ n <= l /\ a = u + n /\ a <= x
    <2>1. SeqMod \in Nat
      BY SeqModAssumption
    <2>2. CASE a >= u
      BY <1>4, <1>5, <1>7, <1>8, <2>2
    <2>3. CASE ~(a >= u)
      BY <1>6, <1>7, <1>8, <2>1, <2>3
    <2>4. QED
      BY <2>2, <2>3
  <1>10. QED
    BY <1>3, <1>4, <1>9

LEMMA AckAdvanceDone ==
  ASSUME IInv, NEW h \in Host, NEW m \in net, m.dst = h, state[h] = "ESTABLISHED",
         "RST" \notin m.flags, AckAdvance(h, m)
  PROVE  AckDone(h, m)
  <1>1. TypeOK /\ Peer(h) # h /\ Peer(h) \in Host /\ Acks(h, m)
    BY HostPeer DEF IInv, AckAdvance
  <1>2. PICK u \in Seqs, x \in Seqs, buf \in Seq(Nat), w \in Nat, ak \in Seqs, a \in Seqs :
          /\ u = snd_una[h] /\ x = snd_nxt[h] /\ buf = snd_buf[h] /\ w = written[h]
          /\ ak = rcv_nxt[h] /\ a = m.ack
    BY <1>1, InSeg, HostTypes
  <1>3. WinOk(h, u, x, buf, w) /\ w <= MaxWrite[h]
    BY <1>2, EstFacts
  <1>4. PICK n \in Nat : n = NewlyAcked(h, m)
    BY <1>1, AckOff
  <1>5. n <= Len(buf) /\ Off(h, a) = Off(h, u) + n /\ Off(h, a) <= Off(h, x)
    BY <1>1, <1>2, <1>4, AckOff
  <1>6. PICK t : t = SubSeq(buf, n + 1, Len(buf))
    OBVIOUS
  <1>7. t \in Seq(Nat) /\ Len(t) = Len(buf) - n /\ WinOk(h, a, x, t, w)
    BY <1>3, <1>5, <1>6, SlideWin
  <1>8. Slid(h, m) = t
    BY <1>2, <1>4, <1>6 DEF Slid
  <1>9. PICK c \in Nat : c = Grown(h) /\ c >= MSS
    BY <1>1, EstFacts, GrownType
  <1>10. MSS <= c
    BY <1>9, ConnAssumption
  <1>11. PICK k : k = EmitLen(t, Minus(x, a), c)
    OBVIOUS
  <1>12. EmitAfter(h, m) = k /\ FlightAfter(h, m) = Minus(x, a)
    BY <1>2, <1>8, <1>9, <1>11 DEF EmitAfter, FlightAfter
  <1>13. /\ k \in Nat /\ Plus(x, k) \in Seqs
         /\ WinOk(h, a, Plus(x, k), t, w)
         /\ Off(h, x) <= Off(h, Plus(x, k))
         /\ Off(h, Plus(x, k)) >= Off(h, a) + MinOf(Len(t), MSS)
         /\ Off(h, Plus(x, k)) <= w + 1
         /\ \A s \in DataSegs(h, a, t, Minus(x, a), k, ak) : DataSeg(h, s, Plus(x, k), w, ak)
    BY <1>3, <1>7, <1>10, <1>11, Emit
  <1>14. PICK p : p = ArmProbe(h, IF TakesSample(h, m) THEN NoProbe ELSE probe[h], k)
    OBVIOUS
  <1>15. p \in Seqs \cup {NoProbe}
    <2>1. (IF TakesSample(h, m) THEN NoProbe ELSE probe[h]) \in Seqs \cup {NoProbe}
      BY <1>1, HostTypes
    <2>2. QED
      BY <1>1, <1>14, <2>1, ArmProbeType
  <1>16. /\ snd_buf'   = [snd_buf EXCEPT ![h] = t]
         /\ armed'     = [armed   EXCEPT ![h] = (t # <<>>)]
         /\ snd_una'   = [snd_una EXCEPT ![h] = a]
         /\ snd_nxt'   = [snd_nxt EXCEPT ![h] = Plus(x, k)]
         /\ dup_acks'  = [dup_acks EXCEPT ![h] = 0]
         /\ last_ack_recv' = [last_ack_recv EXCEPT ![h] = a]
         /\ cwnd'      = [cwnd EXCEPT ![h] = c]
         /\ probe'     = [probe EXCEPT ![h] = p]
         /\ resent'    = [resent EXCEPT ![h] = (@ /\ p = probe[h])]
         /\ ambiguous' = [ambiguous EXCEPT ![h] = (@ \/ (TakesSample(h, m) /\ resent[h]))]
         /\ ssthresh'  = ssthresh
    BY <1>2, <1>8, <1>9, <1>12, <1>14 DEF AckAdvance
  <1>17. SndTyped'
    <2>1. snd_una' \in [Host -> Seqs] /\ snd_nxt' \in [Host -> Seqs] /\ snd_buf' \in [Host -> Seq(Nat)]
          /\ probe' \in [Host -> Seqs \cup {NoProbe}] /\ cwnd' \in [Host -> Nat]
      BY <1>1, <1>7, <1>13, <1>15, <1>16 DEF TypeOK
    <2>2. dup_acks' \in [Host -> Nat] /\ last_ack_recv' \in [Host -> Nat] /\ ssthresh' \in [Host -> Nat]
      BY <1>1, <1>16, SeqsNat DEF TypeOK
    <2>3. armed' \in [Host -> BOOLEAN] /\ resent' \in [Host -> BOOLEAN] /\ ambiguous' \in [Host -> BOOLEAN]
      <3>1. PICK b1 \in BOOLEAN, b2 \in BOOLEAN, b3 \in BOOLEAN :
              /\ b1 = (t # <<>>) /\ b2 = (resent[h] /\ p = probe[h])
              /\ b3 = (ambiguous[h] \/ (TakesSample(h, m) /\ resent[h]))
        OBVIOUS
      <3>2. /\ armed' = [armed EXCEPT ![h] = b1] /\ resent' = [resent EXCEPT ![h] = b2]
            /\ ambiguous' = [ambiguous EXCEPT ![h] = b3]
        BY <1>16, <3>1
      <3>3. QED
        BY <1>1, <3>2 DEF TypeOK
    <2>4. Len(t) <= BUF
      <3>1. Len(buf) <= BUF /\ Len(buf) \in Nat /\ BUF \in Nat
        BY <1>1, <1>2, HostTypes, ConnAssumption
      <3>2. QED
        BY <1>5, <1>7, <3>1
    <2>5. \A y \in Host : Len(snd_buf'[y]) <= BUF
      BY <1>1, <1>16, <2>4 DEF TypeOK
    <2>6. QED
      BY <2>1, <2>2, <2>3, <2>5 DEF SndTyped
  <1>18. SndQuiet(Peer(h))
    BY <1>1, <1>16 DEF SndQuiet, TypeOK
  <1>19. snd_una'[h] = a /\ snd_nxt'[h] = Plus(x, k) /\ snd_buf'[h] = t /\ cwnd'[h] = c
         /\ armed'[h] = (t # <<>>)
    BY <1>1, <1>16 DEF TypeOK
  <1>20. AckSegs(h, m) = DataSegs(h, a, t, Minus(x, a), k, ak)
    BY <1>1, <1>2, <1>8, <1>12 DEF AckSegs
  <1>21. Off(h, a) <= Len(Arrived(Peer(h))) + 1
    BY <1>1, <1>2, AckOff
  <1>22. QED
    BY <1>2, <1>9, <1>13, <1>17, <1>18, <1>19, <1>20, <1>21 DEF AckDone

----------------------------------------------------------------------------
(* A segment for an established connection: the payload.                   *)

\* The offset below which g's stream has been written and sent.
SentLim(g) == MinOf(Off(g, snd_nxt[g]), written[g] + 1)

LEMMA RecvFacts ==
  ASSUME IInv, NEW h \in Host, state[h] = "ESTABLISHED"
  PROVE  /\ Len(Arrived(h)) \in Nat /\ SentLim(Peer(h)) \in Nat
         /\ Len(Arrived(h)) + 1 <= SentLim(Peer(h))
         /\ SentLim(Peer(h)) < SeqMod
  <1> DEFINE g == Peer(h)
  <1>1. TypeOK /\ g \in Host /\ RecvInv(h) /\ OpenInv(g) /\ opened[g]
    BY HostPeer, EstFacts DEF IInv, TcbInv
  <1>2. written[g] \in Nat /\ Off(g, snd_nxt[g]) \in Nat /\ Off(g, snd_nxt[g]) < SeqMod
        /\ Len(Arrived(h)) \in Nat
    BY <1>1, HostTypes, OffNat, ArrivedType
  <1>3. Len(Arrived(h)) <= written[g] /\ Len(Arrived(h)) < Off(g, snd_nxt[g])
    BY <1>1 DEF RecvInv
  <1>4. QED
    BY <1>2, <1>3, SeqModAssumption DEF SentLim, MinOf

\* The payload bytes taken are the next ones of the peer's stream, and below
\* whatever bounds the payload.
LEMMA TakenBelow ==
  ASSUME IInv, NEW h \in Host, NEW m \in net, m.dst = h, "RST" \notin m.flags, state[h] = "ESTABLISHED",
         NEW lim \in Nat, Len(Arrived(h)) + 1 <= lim,
         m.data # <<>> => Slice(Peer(h), m.seq, m.data, lim)
  PROVE  /\ Taken(h, m) \in Seq(Nat) /\ Len(Taken(h, m)) \in Nat
         /\ Len(rcv_buf[h]) + Len(Taken(h, m)) <= BUF
         /\ \A i \in 1 .. Len(Taken(h, m)) : Taken(h, m)[i] = Len(Arrived(h)) + i
         /\ Len(Arrived(h)) + 1 + Len(Taken(h, m)) <= lim
  <1> DEFINE g == Peer(h)
  <1>1. TypeOK /\ g \in Host /\ m.data \in Seq(Nat) /\ m.seq \in Seqs /\ SegOk(g, m)
    BY InSeg, HostPeer DEF IInv
  <1>2. Len(rcv_buf[h]) \in Nat /\ Len(rcv_buf[h]) <= BUF /\ BUF \in Nat /\ Len(m.data) \in Nat
    BY <1>1, HostTypes, ConnAssumption
  <1>3. CASE InOrder(h, m)
    <2>1. PICK r \in Nat : r = Len(Arrived(h)) /\ Off(g, m.seq) = r + 1
      BY <1>1, <1>3, RecvFacts, EstFacts DEF InOrder
    <2>2. m.data # <<>> /\ Slice(g, m.seq, m.data, lim)
      BY <1>3 DEF InOrder
    <2>3. r + 1 + Len(m.data) <= lim /\ \A i \in 1 .. Len(m.data) : m.data[i] = r + 1 + i - 1
      BY <2>1, <2>2 DEF Slice
    <2>4. PICK b \in Nat, l \in Nat : b = Len(rcv_buf[h]) /\ l = Len(m.data) /\ b <= BUF
      BY <1>2
    <2>5. PICK n \in Nat : n = MinOf(l, BUF - b)
      BY <1>2, <2>4 DEF MinOf
    <2>6. n <= l /\ n <= BUF - b
      <3>1. BUF \in Nat /\ b <= BUF
        BY <1>2, <2>4
      <3>2. QED
        BY <2>5, <3>1 DEF MinOf
    <2>7. PICK t : t = SubSeq(m.data, 1, n)
      OBVIOUS
    <2>8. t \in Seq(Nat) /\ Len(t) = n /\ \A i \in 1 .. n : t[i] = m.data[i]
      BY <1>1, <2>4, <2>6, <2>7
    <2>9. Taken(h, m) = t
      BY <1>3, <2>4, <2>5, <2>7 DEF Taken
    <2>10. \A i \in 1 .. n : t[i] = r + i
      <3> SUFFICES ASSUME NEW i \in 1 .. n PROVE t[i] = r + i
        OBVIOUS
      <3>1. i \in 1 .. Len(m.data)
        BY <2>4, <2>6
      <3>2. t[i] = r + 1 + i - 1
        BY <2>3, <2>8, <3>1
      <3>3. QED
        BY <3>2
    <2>11. b + n <= BUF /\ r + 1 + n <= lim
      <3>1. r + 1 + l <= lim
        BY <2>3, <2>4
      <3>2. BUF \in Nat
        BY <1>2
      <3>3. QED
        BY <2>6, <3>1, <3>2
    <2>12. QED
      BY <2>1, <2>4, <2>8, <2>9, <2>10, <2>11
  <1>4. CASE ~InOrder(h, m)
    <2>1. Taken(h, m) = <<>>
      BY <1>4 DEF Taken
    <2>2. <<>> \in Seq(Nat) /\ Len(<<>>) = 0
      OBVIOUS
    <2>3. QED
      BY <1>2, <2>1, <2>2, RecvFacts
  <1>5. QED
    BY <1>3, <1>4

LEMMA TakenNext ==
  ASSUME IInv, NEW h \in Host, NEW m \in net, m.dst = h, "RST" \notin m.flags, state[h] = "ESTABLISHED"
  PROVE  /\ Taken(h, m) \in Seq(Nat) /\ Len(Taken(h, m)) \in Nat
         /\ Len(rcv_buf[h]) + Len(Taken(h, m)) <= BUF
         /\ \A i \in 1 .. Len(Taken(h, m)) : Taken(h, m)[i] = Len(Arrived(h)) + i
         /\ Len(Arrived(h)) + 1 + Len(Taken(h, m)) <= SentLim(Peer(h))
  <1>1. SegOk(Peer(h), m)
    BY InSeg
  <1>2. m.data # <<>> => Slice(Peer(h), m.seq, m.data, SentLim(Peer(h)))
    BY <1>1 DEF SegOk, Genuine, SentLim
  <1>3. QED
    BY <1>2, RecvFacts, TakenBelow

\* And so are the bytes drained from the out-of-order slot after them.
LEMMA DrainedBelow ==
  ASSUME IInv, NEW h \in Host, NEW m \in net, m.dst = h, "RST" \notin m.flags, state[h] = "ESTABLISHED",
         NEW lim \in Nat, lim < SeqMod, Len(Arrived(h)) + 1 <= lim,
         m.data # <<>> => Slice(Peer(h), m.seq, m.data, lim),
         ooo_buf[h] # <<>> => Slice(Peer(h), ooo_seq[h], ooo_buf[h], lim)
  PROVE  LET l == Len(Arrived(h)) + Len(Taken(h, m)) IN
         /\ Drained(h, m) \in Seq(Nat) /\ Len(Drained(h, m)) \in Nat
         /\ Len(rcv_buf[h]) + Len(Taken(h, m)) + Len(Drained(h, m)) <= BUF
         /\ \A i \in 1 .. Len(Drained(h, m)) : Drained(h, m)[i] = l + i
         /\ l + 1 + Len(Drained(h, m)) <= lim
  <1> DEFINE g == Peer(h)
  <1>1. TypeOK /\ g \in Host /\ RecvInv(h) /\ rcv_nxt[h] \in Seqs /\ ooo_buf[h] \in Seq(Nat)
        /\ ooo_seq[h] \in Seqs
    BY HostTypes, HostPeer DEF IInv, TcbInv
  <1>2. PICK b \in Nat, r \in Nat, k \in Nat :
          /\ b = Len(rcv_buf[h]) /\ r = Len(Arrived(h)) /\ k = Len(Taken(h, m))
    <2>1. Len(rcv_buf[h]) \in Nat
      BY <1>1, HostTypes
    <2>2. QED
      BY <2>1, TakenNext, RecvFacts
  <1>3. b + k <= BUF /\ r + 1 + k <= lim /\ lim < SeqMod /\ BUF \in Nat /\ SeqMod \in Nat
    BY <1>2, TakenBelow, ConnAssumption, SeqModAssumption
  <1>4. CASE ClosesGap(h, m)
    <2>1. PICK o \in Seq(Nat) : o = ooo_buf[h] /\ o # <<>>
      BY <1>1, <1>4 DEF ClosesGap
    <2>2. Off(g, ooo_seq[h]) = r + 1 + k
      <3>1. Off(g, rcv_nxt[h]) = r + 1
        BY <1>2, EstFacts
      <3>2. Off(g, rcv_nxt[h]) + k < SeqMod
        BY <1>3, <3>1
      <3>3. ooo_seq[h] = Plus(rcv_nxt[h], k)
        BY <1>2, <1>4 DEF ClosesGap
      <3>4. QED
        <4>1. rcv_nxt[h] \in Seqs /\ g \in Host
          BY <1>1
        <4>2. Off(g, Plus(rcv_nxt[h], k)) = Off(g, rcv_nxt[h]) + k
          BY <3>2, <4>1, OffPlus
        <4>3. QED
          BY <3>1, <3>3, <4>2
    <2>3. Slice(g, ooo_seq[h], o, lim)
      BY <2>1
    <2>4. r + 1 + k + Len(o) <= lim /\ \A i \in 1 .. Len(o) : o[i] = r + 1 + k + i - 1
      BY <2>2, <2>3 DEF Slice
    <2>5. PICK n \in Nat : n = MinOf(Len(o), BUF - b - k)
      BY <1>3 DEF MinOf
    <2>6. n <= Len(o) /\ n <= BUF - b - k /\ Len(o) \in Nat
      BY <1>3, <2>5 DEF MinOf
    <2>7. PICK t : t = SubSeq(o, 1, n)
      OBVIOUS
    <2>8. t \in Seq(Nat) /\ Len(t) = n /\ \A i \in 1 .. n : t[i] = o[i]
      BY <2>6, <2>7
    <2>9. Drained(h, m) = t
      BY <1>2, <1>4, <2>1, <2>5, <2>7 DEF Drained
    <2>10. \A i \in 1 .. n : t[i] = r + k + i
      <3> SUFFICES ASSUME NEW i \in 1 .. n PROVE t[i] = r + k + i
        OBVIOUS
      <3>1. i \in 1 .. Len(o)
        BY <2>6
      <3>2. t[i] = r + 1 + k + i - 1
        BY <2>4, <2>8, <3>1
      <3>3. QED
        BY <3>2
    <2>11. b + k + n <= BUF /\ r + k + 1 + n <= lim
      BY <1>3, <2>4, <2>6
    <2>12. QED
      BY <1>2, <2>8, <2>9, <2>10, <2>11
  <1>5. CASE ~ClosesGap(h, m)
    <2>1. Drained(h, m) = <<>>
      BY <1>5 DEF Drained
    <2>2. <<>> \in Seq(Nat) /\ Len(<<>>) = 0
      OBVIOUS
    <2>3. b + k + 0 <= BUF /\ r + k + 1 + 0 <= lim
      BY <1>3
    <2>4. QED
      BY <1>2, <2>1, <2>2, <2>3
  <1>6. QED
    BY <1>4, <1>5

LEMMA DrainedNext ==
  ASSUME IInv, NEW h \in Host, NEW m \in net, m.dst = h, "RST" \notin m.flags, state[h] = "ESTABLISHED"
  PROVE  LET l == Len(Arrived(h)) + Len(Taken(h, m)) IN
         /\ Drained(h, m) \in Seq(Nat) /\ Len(Drained(h, m)) \in Nat
         /\ Len(rcv_buf[h]) + Len(Taken(h, m)) + Len(Drained(h, m)) <= BUF
         /\ \A i \in 1 .. Len(Drained(h, m)) : Drained(h, m)[i] = l + i
         /\ l + 1 + Len(Drained(h, m)) <= SentLim(Peer(h))
  <1>1. SegOk(Peer(h), m) /\ RecvInv(h)
    BY InSeg DEF IInv, TcbInv
  <1>2. m.data # <<>> => Slice(Peer(h), m.seq, m.data, SentLim(Peer(h)))
    BY <1>1 DEF SegOk, Genuine, SentLim
  <1>3. ooo_buf[h] # <<>> => Slice(Peer(h), ooo_seq[h], ooo_buf[h], SentLim(Peer(h)))
    BY <1>1 DEF RecvInv, Genuine, SentLim
  <1>4. QED
    BY <1>2, <1>3, RecvFacts, DrainedBelow

\* What has arrived at h after the payload of m.
LEMMA ArrivedNext ==
  ASSUME IInv, NEW h \in Host, NEW m \in net, m.dst = h, "RST" \notin m.flags, state[h] = "ESTABLISHED",
         TakeData(h, m), read' = read
  PROVE  /\ rcv_buf'[h] \in Seq(Nat) /\ Len(rcv_buf'[h]) <= BUF
         /\ Len(Arrived(h)') = Len(Arrived(h)) + Len(Taken(h, m)) + Len(Drained(h, m))
         /\ \A i \in 1 .. Len(Arrived(h)') : Arrived(h)'[i] = i
  <1>1. TypeOK /\ RecvInv(h)
    BY DEF IInv, TcbInv
  <1>2. PICK r \in Seq(Nat), b \in Seq(Nat), t \in Seq(Nat), d \in Seq(Nat), a \in Seq(Nat) :
          /\ r = read[h] /\ b = rcv_buf[h] /\ t = Taken(h, m) /\ d = Drained(h, m) /\ a = Arrived(h)
    BY <1>1, HostTypes, TakenNext, DrainedNext, ArrivedType
  <1>3. rcv_buf'[h] = (b \o t) \o d
    BY <1>1, <1>2 DEF TakeData, TypeOK
  <1>4. b \o t \in Seq(Nat) /\ Len(b \o t) = Len(b) + Len(t)
    OBVIOUS
  <1>5. (b \o t) \o d \in Seq(Nat) /\ Len((b \o t) \o d) = Len(b) + Len(t) + Len(d)
    BY <1>4
  <1>6. a = r \o b
    BY <1>2 DEF Arrived
  <1>7. Arrived(h)' = (a \o t) \o d
    <2>1. Arrived(h)' = r \o ((b \o t) \o d)
      BY <1>2, <1>3 DEF Arrived
    <2>2. PICK q \in Seq(Nat) : q = b \o t
      BY <1>4
    <2>3. (r \o q) \o d = r \o (q \o d)
      BY ZenonT(60), ConcatAssoc
    <2>4. (r \o b) \o t = r \o (b \o t)
      BY ZenonT(60), ConcatAssoc
    <2>5. QED
      BY <1>6, <2>1, <2>2, <2>3, <2>4
  <1>8. /\ \A i \in 1 .. Len(a) : a[i] = i
        /\ \A i \in 1 .. Len(t) : t[i] = Len(a) + i
        /\ \A i \in 1 .. Len(d) : d[i] = Len(a) + Len(t) + i
    BY ZenonT(60), <1>1, <1>2, TakenNext, DrainedNext DEF RecvInv
  <1>9. PICK at : at = a \o t
    OBVIOUS
  <1>10. at \in Seq(Nat) /\ Len(at) = Len(a) + Len(t) /\ \A i \in 1 .. Len(at) : at[i] = i
    BY <1>8, <1>9, ConcatPrefix
  <1>11. \A i \in 1 .. Len(d) : d[i] = Len(at) + i
    BY <1>8, <1>10
  <1>12. Len(at \o d) = Len(at) + Len(d) /\ \A i \in 1 .. Len(at \o d) : (at \o d)[i] = i
    BY <1>10, <1>11, ConcatPrefix
  <1>13. Arrived(h)' = at \o d
    BY <1>7, <1>9
  <1>14. Len(Arrived(h)') = Len(a) + Len(t) + Len(d)
    BY <1>10, <1>12, <1>13
  <1>15. Len(b) + Len(t) + Len(d) <= BUF
    BY <1>1, <1>2, DrainedNext
  <1>16. QED
    BY <1>2, <1>3, <1>5, <1>12, <1>13, <1>14, <1>15

LEMMA TakeDataDone ==
  ASSUME IInv, NEW h \in Host, NEW m \in net, m.dst = h, "RST" \notin m.flags, state[h] = "ESTABLISHED",
         TakeData(h, m), UNCHANGED <<opened, appVars>>, snd_nxt'[Peer(h)] = snd_nxt[Peer(h)]
  PROVE  /\ state' \in [Host -> States] /\ rcv_nxt' \in [Host -> Seqs] /\ rcv_buf' \in [Host -> Seq(Nat)]
         /\ ooo_seq' \in [Host -> Seqs] /\ ooo_buf' \in [Host -> Seq(Nat)]
         /\ \A x \in Host : Len(rcv_buf'[x]) <= BUF
         /\ \A x \in Host \ {h} : /\ state'[x] = state[x] /\ rcv_nxt'[x] = rcv_nxt[x]
                                  /\ rcv_buf'[x] = rcv_buf[x] /\ ooo_seq'[x] = ooo_seq[x]
                                  /\ ooo_buf'[x] = ooo_buf[x]
         /\ state'[h] \in {"ESTABLISHED", "CLOSE_WAIT"}
         /\ Len(Arrived(h)) <= Len(Arrived(h)') /\ Len(Arrived(h)') \in Nat
         /\ RecvInv(h)' /\ EofInv(h)'
         /\ RcvAfterData(h, m) \in Seqs /\ RcvAfterFin(h, m) \in Seqs
         /\ Off(Peer(h), RcvAfterData(h, m)) = Len(Arrived(h)') + 1
         /\ "FIN" \in m.flags => state[Peer(h)] \notin Sending
  <1> DEFINE g == Peer(h)
  <1>1. TypeOK /\ g \in Host /\ g # h /\ Peer(g) = h /\ RecvInv(h) /\ SegOk(g, m) /\ opened[g]
        /\ m.seq \in Seqs /\ m.data \in Seq(Nat) /\ rcv_nxt[h] \in Seqs /\ read' = read
    BY InSeg, HostPeer, HostTypes, EstFacts DEF IInv, TcbInv, appVars
  <1>2. PICK r \in Nat, k \in Nat, n \in Nat, lim \in Nat :
          /\ r = Len(Arrived(h)) /\ k = Len(Taken(h, m)) /\ n = Len(Drained(h, m)) /\ lim = SentLim(g)
    BY <1>1, ArrivedType, RecvFacts, TakenNext, DrainedNext
  <1>3. /\ rcv_buf'[h] \in Seq(Nat) /\ Len(rcv_buf'[h]) <= BUF
        /\ Len(Arrived(h)') = r + k + n
        /\ \A i \in 1 .. Len(Arrived(h)') : Arrived(h)'[i] = i
    BY <1>1, <1>2, ArrivedNext
  <1>4. r + k + 1 + n <= lim /\ lim < SeqMod /\ SeqMod \in Nat
    BY <1>2, DrainedNext, RecvFacts, SeqModAssumption
  <1>5. PICK q : q = RcvAfterData(h, m)
    OBVIOUS
  <1>6. q \in Seqs /\ Off(g, q) = r + k + n + 1
    <2>1. Off(g, rcv_nxt[h]) = r + 1
      BY <1>2, EstFacts
    <2>2. PICK z \in Nat : z = k + n
      OBVIOUS
    <2>3. q = Plus(rcv_nxt[h], z)
      BY <1>2, <1>5, <2>2 DEF RcvAfterData
    <2>4. Off(g, rcv_nxt[h]) + z < SeqMod
      BY <1>4, <2>1, <2>2
    <2>5. q \in Seqs /\ Off(g, q) = r + 1 + z
      <3>1. /\ Plus(rcv_nxt[h], z) \in Seqs
            /\ Off(g, Plus(rcv_nxt[h], z)) = Off(g, rcv_nxt[h]) + z
        BY <1>1, <2>4, OffPlus
      <3>2. QED
        BY <2>1, <2>3, <3>1
    <2>6. QED
      BY <2>2, <2>5
  <1>7. PICK f : f = RcvAfterFin(h, m)
    OBVIOUS
  <1>8. f \in Seqs
    <2>1. m.seq \in Int /\ Len(m.data) + 1 \in Int
      <3>1. Len(m.data) \in Nat
        BY <1>1
      <3>2. m.seq \in Nat
        BY <1>1, SeqsNat
      <3>3. QED
        BY <3>1, <3>2
    <2>2. Plus(m.seq, Len(m.data) + 1) \in Seqs
      BY <2>1, PlusType
    <2>3. QED
      BY <1>5, <1>6, <1>7, <2>2 DEF RcvAfterFin
  <1>9. "FIN" \in m.flags => state[g] \notin Sending \cup {"CLOSE_WAIT"}
    BY <1>1 DEF SegOk
  <1>10. PICK x \in States, os \in Seqs, ob \in Seq(Nat) :
           /\ x = (IF "FIN" \in m.flags THEN "CLOSE_WAIT" ELSE state[h])
           /\ os = (IF KeepsOoo(h, m) THEN m.seq ELSE ooo_seq[h])
           /\ ob = (IF ClosesGap(h, m) THEN <<>> ELSE IF KeepsOoo(h, m) THEN m.data ELSE ooo_buf[h])
    <2>1. "CLOSE_WAIT" \in States /\ <<>> \in Seq(Nat)
      BY DEF States
    <2>2. QED
      BY <1>1, <2>1, HostTypes
  <1>11. PICK b \in Seq(Nat) : b = rcv_buf'[h]
    BY <1>3
  <1>12. /\ state' = [state EXCEPT ![h] = x] /\ rcv_nxt' = [rcv_nxt EXCEPT ![h] = f]
         /\ ooo_seq' = [ooo_seq EXCEPT ![h] = os] /\ ooo_buf' = [ooo_buf EXCEPT ![h] = ob]
    BY <1>1, <1>7, <1>10 DEF TakeData, TypeOK
  <1>13. rcv_buf' = [rcv_buf EXCEPT ![h] = b]
    BY <1>1, <1>11 DEF TakeData, TypeOK
  <1>14. /\ state' \in [Host -> States] /\ rcv_nxt' \in [Host -> Seqs] /\ rcv_buf' \in [Host -> Seq(Nat)]
         /\ ooo_seq' \in [Host -> Seqs] /\ ooo_buf' \in [Host -> Seq(Nat)]
         /\ \A y \in Host : Len(rcv_buf'[y]) <= BUF
    <2>1. /\ state' \in [Host -> States] /\ rcv_nxt' \in [Host -> Seqs] /\ rcv_buf' \in [Host -> Seq(Nat)]
          /\ ooo_seq' \in [Host -> Seqs] /\ ooo_buf' \in [Host -> Seq(Nat)]
      BY <1>1, <1>8, <1>12, <1>13 DEF TypeOK
    <2>2. \A y \in Host : Len(rcv_buf'[y]) <= BUF
      BY <1>1, <1>3, <1>11, <1>13 DEF TypeOK
    <2>3. QED
      BY <2>1, <2>2
  <1>15. \A y \in Host \ {h} : /\ state'[y] = state[y] /\ rcv_nxt'[y] = rcv_nxt[y]
                               /\ rcv_buf'[y] = rcv_buf[y] /\ ooo_seq'[y] = ooo_seq[y]
                               /\ ooo_buf'[y] = ooo_buf[y]
    BY <1>1, <1>12, <1>13 DEF TypeOK
  <1>16. state'[h] = x /\ rcv_nxt'[h] = f /\ ooo_seq'[h] = os /\ ooo_buf'[h] = ob
    BY <1>1, <1>12 DEF TypeOK
  <1>17. x \in {"ESTABLISHED", "CLOSE_WAIT"} /\ (x = "CLOSE_WAIT" <=> "FIN" \in m.flags)
         /\ ("FIN" \notin m.flags => f = q)
    BY <1>5, <1>7, <1>10 DEF RcvAfterFin
  <1>18. RecvInv(h)'
    <2>1. Len(Arrived(h)') <= written[g] /\ Len(Arrived(h)') < Off(g, snd_nxt[g])
      <3>1. written[g] \in Nat /\ Off(g, snd_nxt[g]) \in Nat
        BY <1>1, HostTypes, OffNat
      <3>2. lim <= written[g] + 1 /\ lim <= Off(g, snd_nxt[g])
        BY <1>2, <3>1 DEF SentLim, MinOf
      <3>3. QED
        BY <1>3, <1>4, <3>1, <3>2
    <2>2. ob # <<>> => Genuine(g, os, ob)
      <3>1. CASE ClosesGap(h, m)
        BY <1>10, <3>1
      <3>2. CASE ~ClosesGap(h, m) /\ KeepsOoo(h, m)
        BY <1>1, <1>10, <3>2 DEF SegOk
      <3>3. CASE ~ClosesGap(h, m) /\ ~KeepsOoo(h, m)
        BY <1>1, <1>10, <3>3 DEF RecvInv
      <3>4. QED
        BY <3>1, <3>2, <3>3
    <2>3. ooo_buf'[h] # <<>> => Genuine(g, ooo_seq[h], ooo_buf[h])'
      BY <1>16, <2>2 DEF Genuine, appVars
    <2>4. state'[h] = "ESTABLISHED" => opened'[g] /\ Off(g, rcv_nxt'[h]) = Len(Arrived(h)') + 1
      BY <1>1, <1>3, <1>6, <1>16, <1>17
    <2>5. QED
      BY <1>1, <1>3, <2>1, <2>3, <2>4 DEF RecvInv, appVars
  <1>19. EofInv(h)'
    <2>1. state'[h] \in {"CLOSE_WAIT", "LAST_ACK", "TIME_WAIT"} => "FIN" \in m.flags
      BY <1>16, <1>17
    <2>2. QED
      BY <1>1, <1>9, <1>15, <2>1 DEF EofInv
  <1>20. Len(Arrived(h)) <= Len(Arrived(h)') /\ Len(Arrived(h)') \in Nat
    BY <1>2, <1>3
  <1>21. QED
    BY <1>3, <1>5, <1>6, <1>7, <1>8, <1>9, <1>14, <1>15, <1>16, <1>17, <1>18, <1>19, <1>20

----------------------------------------------------------------------------
(* A segment for an established connection: the whole of tcp_input.        *)

LEMMA InEstablishedInv ==
  ASSUME IInv, NEW h \in Host, NEW m \in net, m.dst = h, InEstablished(h, m) PROVE IInv'
  <1> DEFINE g == Peer(h)
  <1>1. TypeOK /\ g \in Host /\ g # h /\ Peer(g) = h /\ state[h] = "ESTABLISHED" /\ "RST" \notin m.flags
        /\ opened[h] /\ opened[g] /\ rcv_nxt[h] \in Seqs /\ snd_nxt[h] \in Seqs
    BY HostPeer, EstFacts, HostTypes DEF IInv, InEstablished
  <1>2. AckDone(h, m)
    BY <1>1, AckAdvanceDone, AckDuplicateDone, AckIgnoredDone DEF InEstablished
  <1>3. SndTyped' /\ SndQuiet(g)
    BY <1>2 DEF AckDone
  <1>4. UNCHANGED <<opened, retries, appVars>> /\ snd_nxt'[g] = snd_nxt[g] /\ TakeData(h, m)
    BY <1>3 DEF InEstablished, SndQuiet
  <1>5. /\ state' \in [Host -> States] /\ rcv_nxt' \in [Host -> Seqs] /\ rcv_buf' \in [Host -> Seq(Nat)]
        /\ ooo_seq' \in [Host -> Seqs] /\ ooo_buf' \in [Host -> Seq(Nat)]
        /\ \A x \in Host : Len(rcv_buf'[x]) <= BUF
        /\ \A x \in Host \ {h} : /\ state'[x] = state[x] /\ rcv_nxt'[x] = rcv_nxt[x]
                                 /\ rcv_buf'[x] = rcv_buf[x] /\ ooo_seq'[x] = ooo_seq[x]
                                 /\ ooo_buf'[x] = ooo_buf[x]
        /\ state'[h] \in {"ESTABLISHED", "CLOSE_WAIT"}
        /\ Len(Arrived(h)) <= Len(Arrived(h)') /\ Len(Arrived(h)') \in Nat
        /\ RecvInv(h)' /\ EofInv(h)'
        /\ RcvAfterData(h, m) \in Seqs /\ RcvAfterFin(h, m) \in Seqs
        /\ Off(g, RcvAfterData(h, m)) = Len(Arrived(h)') + 1
        /\ "FIN" \in m.flags => state[g] \notin Sending
    BY <1>1, <1>4, TakeDataDone
  <1>6. snd_nxt'[h] \in Seqs /\ snd_una'[h] \in Seqs /\ snd_buf'[h] \in Seq(Nat)
    BY <1>3 DEF SndTyped
  <1>7. ASSUME NEW m2 \in net' \ net PROVE m2 \in Segment /\ m2.dst = g /\ SegOk(h, m2)'
    <2>1. m2 \in AckSegs(h, m) \cup RcvSegs(h, m)
      BY PutNet DEF InEstablished
    <2>2. opened'[h] /\ opened'[g] /\ state'[g] = state[g] /\ written'[h] = written[h]
      BY <1>1, <1>4, <1>5 DEF appVars
    <2>3. CASE m2 \in AckSegs(h, m)
      <3>1. DataSeg(h, m2, snd_nxt'[h], written'[h], rcv_nxt[h])
        BY <1>2, <2>2, <2>3 DEF AckDone
      <3>2. 1 <= Off(g, rcv_nxt[h]) /\ Off(g, rcv_nxt[h]) <= Len(Arrived(h)') + 1
        <4>1. Off(g, rcv_nxt[h]) = Len(Arrived(h)) + 1 /\ Len(Arrived(h)) \in Nat
          BY <1>1, EstFacts, ArrivedType
        <4>2. QED
          BY <1>5, <4>1
      <3>3. QED
        BY <1>1, <2>2, <3>1, <3>2, DataSegOk
    <2>4. CASE m2 = Seg(h, {"ACK"}, snd_nxt'[h], RcvAfterData(h, m), <<>>)
      <3>1. 1 <= Off(g, RcvAfterData(h, m)) /\ Off(g, RcvAfterData(h, m)) <= Len(Arrived(h)') + 1
        BY <1>5
      <3>2. QED
        BY <1>5, <1>6, <2>2, <2>4, <3>1, AckSegOk
    <2>5. CASE "FIN" \in m.flags /\ m2 = Seg(h, {"ACK"}, snd_nxt'[h], RcvAfterFin(h, m), <<>>)
      <3>1. state'[g] \notin Sending
        BY <1>5, <2>2, <2>5
      <3>2. QED
        BY <1>5, <1>6, <2>2, <2>5, <3>1, AckSegOk
    <2>6. QED
      BY <2>1, <2>3, <2>4, <2>5 DEF RcvSegs
  <1>8. TypeOK'
    <2>1. net' \subseteq Segment
      BY <1>1, <1>7 DEF TypeOK
    <2>2. QED
      BY <1>1, <1>3, <1>4, <1>5, <2>1 DEF TypeOK, SndTyped, appVars
  <1>9. Quiet(g)
    BY <1>1, <1>3, <1>4, <1>5 DEF Quiet, SndQuiet, appVars
  <1>10. Arrived(g)' = Arrived(g)
    BY <1>9 DEF Arrived, Quiet
  <1>11. Forward(h)
    <2>1. opened'[h] = opened[h] /\ written'[h] = written[h] /\ written[h] \in Nat
      BY <1>1, <1>4, HostTypes DEF appVars
    <2>2. Off(h, snd_nxt[h]) <= Off(h, snd_nxt'[h])
      BY <1>2 DEF AckDone
    <2>3. QED
      BY <1>1, <1>5, <1>6, <2>1, <2>2 DEF Forward, Sending
  <1>12. TcbInv(h)'
    <2>1. written'[h] = written[h] /\ written[h] \in Nat /\ opened'[h] = opened[h]
      BY <1>1, <1>4, HostTypes DEF appVars
    <2>2. /\ WinOk(h, snd_una'[h], snd_nxt'[h], snd_buf'[h], written'[h])
          /\ Off(h, snd_nxt'[h]) >= Off(h, snd_una'[h]) + MinOf(Len(snd_buf'[h]), MSS)
          /\ armed'[h] = (snd_buf'[h] # <<>>)
          /\ Off(h, snd_una'[h]) <= Len(Arrived(g)') + 1
          /\ written'[h] <= MaxWrite[h] /\ written'[h] \in Nat
      BY <1>1, <1>2, <1>10, <2>1, EstFacts DEF AckDone
    <2>3. FreshInv(h)' /\ OpenInv(h)' /\ SendInv(h)'
      BY <1>1, <1>5, <1>6, <2>1, <2>2, EstSend
    <2>4. CwndInv(h)'
      BY <1>2 DEF CwndInv, AckDone
    <2>5. QED
      BY <1>5, <2>3, <2>4 DEF TcbInv
  <1>13. QED
    BY <1>1, <1>7, <1>8, <1>9, <1>11, <1>12, StepOf

----------------------------------------------------------------------------
(* The invariant.                                                          *)

LEMMA InputInv ==
  ASSUME IInv, NEW h \in Host, NEW m \in net, Input(h, m) PROVE IInv'
  <1>1. m.dst = h
    BY DEF Input
  <1>2. CASE PassiveOpen(h, m)
    BY <1>1, <1>2, PassiveOpenInv
  <1>3. CASE InClosed(h, m)
    BY <1>1, <1>3, InClosedInv
  <1>4. CASE InReset(h, m)
    BY <1>4, InResetInv
  <1>5. CASE InSynReceived(h, m)
    BY <1>1, <1>5, InSynReceivedInv
  <1>6. CASE InSynSent(h, m)
    BY <1>1, <1>6, InSynSentInv
  <1>7. CASE InEstablished(h, m)
    BY <1>1, <1>7, InEstablishedInv
  <1>8. CASE InFinWait(h, m)
    BY <1>1, <1>8, InFinWaitInv
  <1>9. CASE InLastAck(h, m)
    BY <1>9, InLastAckInv
  <1>10. CASE InIgnored(h, m)
    BY <1>10, InIgnoredInv
  <1>11. QED
    BY <1>2, <1>3, <1>4, <1>5, <1>6, <1>7, <1>8, <1>9, <1>10 DEF Input

LEMMA StutterInv == ASSUME IInv, UNCHANGED vars PROVE IInv'
  <1>1. TypeOK'
    BY DEF IInv, TypeOK, vars, connVars, sndVars, ccVars, rttVars, rcvVars, appVars
  <1>2. PICK h \in Host : TRUE
    BY DEF Host
  <1>3. state' = [state EXCEPT ![h] = state[h]] /\ retries' \in [Host -> 0 .. SynRetryMax]
    BY DEF IInv, TypeOK, vars, connVars
  <1>4. QED
    BY <1>3, StateStep DEF vars, connVars

LEMMA NextInv == IInv /\ [Next]_vars => IInv'
  <1> SUFFICES ASSUME IInv, [Next]_vars PROVE IInv'
    OBVIOUS
  <1>1. ASSUME NEW h \in Host, Connect(h) PROVE IInv'
    BY <1>1, ConnectInv
  <1>2. ASSUME NEW h \in Host, NEW n \in 1 .. BUF, Send(h, n) PROVE IInv'
    BY <1>2, SendStep
  <1>3. ASSUME NEW h \in Host, NEW n \in 1 .. BUF, Recv(h, n) PROVE IInv'
    BY <1>3, RecvStep
  <1>4. ASSUME NEW h \in Host, Close(h) PROVE IInv'
    BY <1>4, CloseInv
  <1>5. ASSUME NEW h \in Host, SynTimeout(h) PROVE IInv'
    BY <1>5, SynTimeoutInv
  <1>6. ASSUME NEW h \in Host, TimeWaitTimeout(h) PROVE IInv'
    BY <1>6, TimeWaitTimeoutInv
  <1>7. ASSUME NEW h \in Host, Timeout(h) PROVE IInv'
    BY <1>7, TimeoutInv
  <1>8. ASSUME NEW h \in Host, NEW m \in net, Input(h, m) PROVE IInv'
    BY <1>8, InputInv
  <1>9. CASE UNCHANGED vars
    BY <1>9, StutterInv
  <1>10. QED
    BY <1>1, <1>2, <1>3, <1>4, <1>5, <1>6, <1>7, <1>8, <1>9 DEF Next, App, Tick

\* The invariant holds in every reachable state, whatever the window sizes, the
\* buffer sizes, the initial sequence numbers and the number of bytes, as long
\* as the stream is shorter than half the sequence space.
THEOREM Invariance == Spec => []IInv
  <1>1. Init => IInv
    BY InitInv
  <1>2. IInv /\ [Next]_vars => IInv'
    BY NextInv
  <1>3. QED
    BY <1>1, <1>2, PTL DEF Spec

\* Every field of both TCBs keeps its type, and no buffer outgrows TCP_BUF_SIZE.
THEOREM TypeCorrect == Spec => []TypeOK
  <1>1. IInv => TypeOK
    BY DEF IInv
  <1>2. QED
    BY <1>1, Invariance, PTL

\* What the application of a host has been given by tcp_recv, and will be given
\* next, is a prefix of what the peer's application has written (tcp.c:156-167,
\* 584-620).
THEOREM StreamIsPrefix == Spec => []StreamIntegrity
  <1>1. IInv => StreamIntegrity
    BY DEF IInv, TcbInv, RecvInv, StreamIntegrity
  <1>2. QED
    BY <1>1, Invariance, PTL

\* slide_snd_window lets go of a byte only when the peer holds it
\* (tcp.c:169-179, 538-560).
THEOREM FreedIsDelivered == Spec => []AckedIsDelivered
  <1>1. ASSUME IInv PROVE AckedIsDelivered
    <2>1. SUFFICES ASSUME NEW h \in Host, state[h] = "ESTABLISHED"
                   PROVE  written[h] - Len(snd_buf[h]) <= Len(Arrived(Peer(h)))
      BY DEF AckedIsDelivered
    <2>2. TypeOK /\ Peer(h) \in Host
      BY <1>1, HostPeer DEF IInv
    <2>3. Off(h, snd_una[h]) \in Nat /\ written[h] \in Nat /\ Len(Arrived(Peer(h))) \in Nat
          /\ snd_buf[h] \in Seq(Nat)
      BY <2>2, HostTypes, OffNat, ArrivedType
    <2>4. Len(snd_buf[h]) \in Nat
      BY <2>3
    <2>5. Off(h, snd_una[h]) <= Len(Arrived(Peer(h))) + 1
      BY <1>1, <2>1, EstFacts
    <2>6. Off(h, snd_una[h]) + Len(snd_buf[h]) = written[h] + 1
      BY <1>1, <2>1, EstFacts DEF WinOk
    <2>7. QED
      BY <2>3, <2>4, <2>5, <2>6
  <1>2. QED
    BY <1>1, Invariance, PTL

\* The retransmissions never walk past the send buffer, always cover its head,
\* and no unacknowledged byte is left without a timer (tcp.c:572-577, 686-712).
THEOREM WindowInBuffer == Spec => []SenderWindow
  <1>1. ASSUME IInv PROVE SenderWindow
    <2>1. SUFFICES ASSUME NEW h \in Host, state[h] = "ESTABLISHED"
                   PROVE  /\ InFlight(h) <= Len(snd_buf[h])
                          /\ InFlight(h) >= MinOf(Len(snd_buf[h]), MSS)
                          /\ snd_buf[h] # <<>> => armed[h]
      BY DEF SenderWindow
    <2>2. /\ snd_una[h] \in Seqs /\ snd_nxt[h] \in Seqs /\ snd_buf[h] \in Seq(Nat)
          /\ written[h] \in Nat /\ MSS \in Nat
      BY <1>1, HostTypes, ConnAssumption DEF IInv
    <2>3. /\ WinOk(h, snd_una[h], snd_nxt[h], snd_buf[h], written[h]) /\ written[h] <= MaxWrite[h]
          /\ Off(h, snd_nxt[h]) >= Off(h, snd_una[h]) + MinOf(Len(snd_buf[h]), MSS)
          /\ armed[h] = (snd_buf[h] # <<>>)
      BY <1>1, <2>1, EstFacts
    <2>4. /\ Off(h, snd_una[h]) \in Nat /\ Off(h, snd_nxt[h]) \in Nat /\ Len(snd_buf[h]) \in Nat
          /\ InFlight(h) = Off(h, snd_nxt[h]) - Off(h, snd_una[h])
          /\ InFlight(h) <= Len(snd_buf[h])
      BY <2>2, <2>3, WinFacts DEF InFlight
    <2>5. MinOf(Len(snd_buf[h]), MSS) \in Nat
      BY <2>2, <2>4 DEF MinOf
    <2>6. InFlight(h) >= MinOf(Len(snd_buf[h]), MSS)
      BY <2>3, <2>4, <2>5
    <2>7. QED
      BY <2>3, <2>4, <2>6
  <1>2. QED
    BY <1>1, Invariance, PTL

\* A host that has seen a FIN has a peer that has closed (tcp.c:621-625,
\* 629-648).
THEOREM EofIsTrue == Spec => []EofMeansClosed
  <1>1. ASSUME IInv PROVE EofMeansClosed
    <2>1. SUFFICES ASSUME NEW h \in Host, state[h] \in {"CLOSE_WAIT", "LAST_ACK", "TIME_WAIT"}
                   PROVE  state[Peer(h)] \in {"FIN_WAIT_1", "FIN_WAIT_2", "LAST_ACK", "TIME_WAIT", "CLOSED"}
      BY DEF EofMeansClosed
    <2>2. Peer(h) \in Host /\ state[Peer(h)] \in States
      BY <1>1, HostPeer, HostTypes DEF IInv
    <2>3. state[Peer(h)] \notin Sending \cup {"CLOSE_WAIT"}
      BY <1>1, <2>1 DEF IInv, TcbInv, EofInv
    <2>4. QED
      BY <2>2, <2>3, StatesSplit DEF Left
  <1>2. QED
    BY <1>1, Invariance, PTL

----------------------------------------------------------------------------
(* FIN_WAIT_2: FinsInv is inductive beside IInv.                           *)

FinOff(g) == Off(g, snd_nxt[g]) - 1

LEMMA FinOffFacts ==
  ASSUME IInv, NEW g \in Host, FinAhead(g)
  PROVE  /\ FinOff(g) \in Nat /\ 1 <= FinOff(g) /\ FinOff(g) < SeqMod
         /\ Len(Arrived(Peer(g))) \in Nat /\ Len(Arrived(Peer(g))) + 1 <= FinOff(g)
  <1>1. TypeOK /\ Peer(g) \in Host
    BY HostPeer DEF IInv
  <1>2. Off(g, snd_nxt[g]) \in Nat /\ Off(g, snd_nxt[g]) < SeqMod /\ Len(Arrived(Peer(g))) \in Nat
    BY <1>1, HostTypes, OffNat, ArrivedType
  <1>3. QED
    BY <1>2, SeqModAssumption DEF FinAhead, FinOff

\* A step of g that leaves its peer, its FIN and the network as they are.
LEMMA FinKept ==
  ASSUME NEW g \in Host, FinAhead(g), Quiet(Peer(g)), snd_nxt'[g] = snd_nxt[g], net' \subseteq net
  PROVE  FinAhead(g)'
  <1>1. Arrived(Peer(g))' = Arrived(Peer(g))
    BY DEF Arrived, Quiet
  <1>2. QED
    BY <1>1 DEF FinAhead, Quiet

\* tcp_close: whatever the peer holds, is offered or has acknowledged lies
\* before the FIN.
LEMMA FinSent ==
  ASSUME IInv, NEW g \in Host, state[g] = "ESTABLISHED", SendFin(g, "FIN_WAIT_1"),
         UNCHANGED <<opened, retries, snd_una, snd_buf, armed, ccVars, rttVars, rcvVars, appVars>>
  PROVE  FinInv(g)'
  <1> DEFINE h == Peer(g)
             f == Off(g, snd_nxt[g])
  <1>1. TypeOK /\ h \in Host /\ h # g /\ Peer(h) = g /\ opened[h] /\ RecvInv(h) /\ opened[g]
        /\ WinOk(g, snd_una[g], snd_nxt[g], snd_buf[g], written[g]) /\ written[g] <= MaxWrite[g]
    BY HostPeer, EstFacts DEF IInv, TcbInv
  <1>2. /\ snd_nxt[g] \in Seqs /\ snd_una[g] \in Seqs /\ snd_buf[g] \in Seq(Nat) /\ written[g] \in Nat
        /\ Len(Arrived(h)) \in Nat /\ f \in Nat
    BY <1>1, HostTypes, OffNat, ArrivedType
  <1>3. f + 1 < SeqMod
    <2>1. f <= written[g] + 1
      <3>1. Off(g, snd_una[g]) \in Nat /\ Len(snd_buf[g]) \in Nat
        BY <1>1, <1>2, OffNat
      <3>2. QED
        BY <1>1, <1>2, <3>1 DEF WinOk
    <2>2. MaxWrite[g] \in Nat /\ 2 * (MaxWrite[g] + 3) < SeqMod /\ SeqMod \in Nat
      BY Bounds, SeqModAssumption
    <2>3. QED
      BY <1>1, <1>2, <2>1, <2>2
  <1>4. snd_nxt'[g] = Plus(snd_nxt[g], 1) /\ Off(g, snd_nxt'[g]) = f + 1
    BY <1>1, <1>2, <1>3, OffPlus DEF SendFin, TypeOK
  <1>5. Arrived(h)' = Arrived(h) /\ Len(Arrived(h)) + 1 <= f
    <2>1. Arrived(h)' = Arrived(h)
      BY DEF Arrived, rcvVars, appVars
    <2>2. Len(Arrived(h)) < f
      BY <1>1 DEF RecvInv
    <2>3. QED
      BY <1>2, <2>1, <2>2
  <1>6. Off(g, snd_nxt'[g]) - 1 = f
    BY <1>2, <1>4
  <1>7. MinOf(f, written[g] + 1) <= f
    BY <1>2 DEF MinOf
  <1>8. ASSUME NEW sq \in Seqs, NEW d \in Seq(Nat), Genuine(g, sq, d) PROVE Slice(g, sq, d, f)
    <2>1. Off(g, sq) \in Nat /\ Len(d) \in Nat
      BY <1>8, OffNat
    <2>2. MinOf(f, written[g] + 1) \in Nat
      BY <1>2 DEF MinOf
    <2>3. QED
      BY <1>2, <1>7, <1>8, <2>1, <2>2 DEF Genuine, Slice
  <1>9. ooo_buf'[h] # <<>> => Slice(g, ooo_seq'[h], ooo_buf'[h], f)
    BY <1>1, <1>8, HostTypes DEF RecvInv, rcvVars
  <1>10. ASSUME NEW m \in net', "RST" \notin m.flags
         PROVE  /\ m.dst = h /\ m.data # <<>> => Slice(g, m.seq, m.data, f)
                /\ m.dst = g /\ "ACK" \in m.flags => Off(g, m.ack) <= f
    <2>1. m = Seg(g, {"FIN", "ACK"}, snd_nxt[g], rcv_nxt[g], <<>>) \/ m \in net
      BY PutNet DEF SendFin
    <2>2. CASE m \in net
      <3>1. m.dst = h => m \in Segment /\ SegOk(g, m)
        BY <1>1, <1>10, <2>2, InSeg
      <3>2. m.dst = h /\ m.data # <<>> => Slice(g, m.seq, m.data, f)
        BY <3>1, <1>8 DEF Segment, SegOk
      <3>3. m.dst = g => SegOk(h, m) /\ m.ack \in Seqs
        BY <1>10, <2>2, InSeg
      <3>4. m.dst = g /\ "ACK" \in m.flags => Off(g, m.ack) <= Len(Arrived(h)) + 1
        BY <1>1, <3>3 DEF SegOk, Sending
      <3>5. m.dst = g /\ "ACK" \in m.flags => Off(g, m.ack) <= f
        <4>1. m.dst = g => Off(g, m.ack) \in Nat
          BY <3>3, OffNat
        <4>2. QED
          BY <1>2, <1>5, <3>4, <4>1
      <3>6. QED
        BY <3>2, <3>5
    <2>3. CASE m = Seg(g, {"FIN", "ACK"}, snd_nxt[g], rcv_nxt[g], <<>>)
      BY <1>1, <2>3 DEF Seg
    <2>4. QED
      BY <2>1, <2>2, <2>3
  <1>11. FinAhead(g)'
    BY <1>5, <1>6, <1>9, <1>10 DEF FinAhead
  <1>12. state'[g] = "FIN_WAIT_1" /\ opened'[h]
    BY <1>1 DEF SendFin, TypeOK
  <1>13. QED
    BY <1>11, <1>12 DEF FinInv

\* What the peer's step has to show while g's FIN is under way.
LEMMA FinPeer ==
  ASSUME IInv, NEW g \in Host, FinAhead(g), Quiet(g),
         Len(Arrived(Peer(g))') + 1 <= FinOff(g),
         ooo_buf'[Peer(g)] # <<>> => Slice(g, ooo_seq'[Peer(g)], ooo_buf'[Peer(g)], FinOff(g)),
         \A m \in net' \ net : /\ m.dst = g
                               /\ "RST" \notin m.flags /\ "ACK" \in m.flags => Off(g, m.ack) <= FinOff(g)
  PROVE  FinAhead(g)'
  <1>1. Peer(g) # g
    BY HostPeer
  <1>2. Off(g, snd_nxt'[g]) - 1 = FinOff(g)
    BY DEF Quiet, FinOff
  <1>3. ASSUME NEW m \in net', "RST" \notin m.flags
        PROVE  /\ m.dst = Peer(g) /\ m.data # <<>> => Slice(g, m.seq, m.data, FinOff(g))
               /\ m.dst = g /\ "ACK" \in m.flags => Off(g, m.ack) <= FinOff(g)
    <2>1. CASE m \in net
      BY <1>3, <2>1 DEF FinAhead, FinOff
    <2>2. CASE m \notin net
      BY <1>1, <1>3, <2>2
    <2>3. QED
      BY <2>1, <2>2
  <1>4. QED
    BY <1>2, <1>3 DEF FinAhead

\* A step of the peer that receives nothing: what it sends has the offset of
\* the next byte in its ACK field, if it has one.
LEMMA FinPeerSends ==
  ASSUME IInv, NEW g \in Host, FinAhead(g), Quiet(g), UNCHANGED <<ooo_seq, ooo_buf>>,
         Arrived(Peer(g))' = Arrived(Peer(g)),
         \A m \in net' \ net :
             /\ m.dst = g
             /\ "RST" \notin m.flags /\ "ACK" \in m.flags =>
                    Off(g, m.ack) \in {1, Len(Arrived(Peer(g))) + 1}
  PROVE  FinAhead(g)'
  <1>1. /\ FinOff(g) \in Nat /\ 1 <= FinOff(g)
        /\ Len(Arrived(Peer(g))) \in Nat /\ Len(Arrived(Peer(g))) + 1 <= FinOff(g)
    BY FinOffFacts
  <1>2. \A m \in net' \ net : m.dst = g /\ ("RST" \notin m.flags /\ "ACK" \in m.flags =>
                                                Off(g, m.ack) <= FinOff(g))
    BY <1>1
  <1>3. ooo_buf'[Peer(g)] # <<>> => Slice(g, ooo_seq'[Peer(g)], ooo_buf'[Peer(g)], FinOff(g))
    BY DEF FinAhead, FinOff
  <1>4. QED
    BY <1>1, <1>2, <1>3, FinPeer

LEMMA DataSegsFields ==
  ASSUME NEW h \in Host, NEW una, NEW buf, NEW from, NEW n, NEW ak,
         NEW m \in DataSegs(h, una, buf, from, n, ak)
  PROVE  m.dst = Peer(h) /\ m.ack = ak
  BY DEF DataSegs, Seg

\* tcp_send and the RTO: data segments with the rcv_nxt of the moment.
LEMMA FinPeerData ==
  ASSUME IInv, NEW h \in Host, FinAhead(Peer(h)), state[h] = "ESTABLISHED", Quiet(Peer(h)),
         UNCHANGED <<rcvVars, read>>,
         NEW una, NEW buf, NEW from, NEW n, Put(DataSegs(h, una, buf, from, n, rcv_nxt[h]))
  PROVE  FinAhead(Peer(h))'
  <1>1. Peer(h) \in Host /\ Peer(Peer(h)) = h
    BY HostPeer
  <1>2. Arrived(h)' = Arrived(h) /\ UNCHANGED <<ooo_seq, ooo_buf>>
    BY DEF Arrived, rcvVars
  <1>3. Off(Peer(h), rcv_nxt[h]) = Len(Arrived(h)) + 1
    BY EstFacts
  <1>4. \A m \in net' \ net : m.dst = Peer(h) /\ m.ack = rcv_nxt[h]
    BY PutNet, DataSegsFields
  <1>5. QED
    BY <1>1, <1>2, <1>3, <1>4, FinPeerSends

\* The peer in the handshake acknowledges g's SYN and nothing else.
LEMMA FinPeerSyn ==
  ASSUME IInv, NEW h \in Host, NEW m \in net, m.dst = h, FinAhead(Peer(h)), state'[h] \in Sending,
         opened[h], InSynReceived(h, m) \/ InSynSent(h, m)
  PROVE  FinAhead(Peer(h))'
  <1> DEFINE g == Peer(h)
  <1>1. TypeOK /\ TcbInv(h) /\ g \in Host /\ g # h /\ Peer(g) = h
    BY HostPeer DEF IInv
  <1>2. Quiet(g)
    <2>1. CASE InSynReceived(h, m)
      BY <1>1, <2>1 DEF Quiet, InSynReceived, TypeOK, ccVars, rcvVars, appVars
    <2>2. CASE InSynSent(h, m)
      BY <1>1, <2>2 DEF Quiet, InSynSent, TypeOK, ccVars, rcvVars, appVars
    <2>3. QED
      BY <2>1, <2>2
  <1>3. Arrived(h)' = Arrived(h) /\ UNCHANGED <<ooo_seq, ooo_buf>>
    BY DEF Arrived, InSynReceived, InSynSent, rcvVars, appVars
  <1>4. ASSUME NEW s \in net' \ net
        PROVE  s.dst = g /\ ("RST" \notin s.flags /\ "ACK" \in s.flags => s.ack = Plus(Isn[g], 1))
    <2>1. CASE InSynReceived(h, m)
      <3>1. s = Seg(h, {"SYN", "ACK"}, snd_una[h], rcv_nxt[h], <<>>)
        BY <2>1, <1>4, PutNet DEF InSynReceived
      <3>2. rcv_nxt[h] = Plus(Isn[g], 1)
        BY <2>1, <1>1 DEF InSynReceived, TcbInv, OpenInv
      <3>3. QED
        BY <3>1, <3>2 DEF Seg
    <2>2. CASE InSynSent(h, m)
      <3> DEFINE done == "SYN" \in m.flags /\ AcksAll(h, m)
                 bad  == "SYN" \in m.flags /\ ~done
                 rst  == Seg(h, {"RST"}, IF "ACK" \in m.flags THEN m.ack ELSE snd_nxt[h], 0, <<>>)
      <3>1. (done /\ s = Seg(h, {"ACK"}, snd_nxt[h], Plus(m.seq, 1), <<>>)) \/ s = rst
        BY <2>2, <1>4, PutNet DEF InSynSent
      <3>2. done => m.seq = Isn[g]
        BY <2>2, InSeg DEF InSynSent, SegOk
      <3>3. QED
        BY <3>1, <3>2 DEF Seg
    <2>3. QED
      BY <2>1, <2>2
  <1>5. Off(g, Plus(Isn[g], 1)) = 1
    BY <1>1, SynOff
  <1>6. QED
    BY <1>1, <1>2, <1>3, <1>4, <1>5, FinPeerSends

\* The peer in ESTABLISHED: payload and out-of-order slot end before the FIN.
LEMMA FinPeerTakes ==
  ASSUME IInv, NEW h \in Host, NEW m \in net, m.dst = h, FinAhead(Peer(h)), InEstablished(h, m),
         state'[h] \in Sending
  PROVE  FinAhead(Peer(h))'
  <1> DEFINE g == Peer(h)
             f == FinOff(g)
  <1>1. TypeOK /\ g \in Host /\ g # h /\ Peer(g) = h /\ state[h] = "ESTABLISHED" /\ "RST" \notin m.flags
    BY HostPeer DEF IInv, InEstablished
  <1>2. AckDone(h, m)
    BY <1>1, AckAdvanceDone, AckDuplicateDone, AckIgnoredDone DEF InEstablished
  <1>3. UNCHANGED <<opened, appVars>> /\ snd_nxt'[g] = snd_nxt[g] /\ TakeData(h, m) /\ read' = read
    BY <1>2 DEF InEstablished, AckDone, SndQuiet, appVars
  <1>4. /\ \A x \in Host \ {h} : /\ state'[x] = state[x] /\ rcv_nxt'[x] = rcv_nxt[x]
                                 /\ rcv_buf'[x] = rcv_buf[x] /\ ooo_seq'[x] = ooo_seq[x]
                                 /\ ooo_buf'[x] = ooo_buf[x]
        /\ Len(Arrived(h)) <= Len(Arrived(h)') /\ Len(Arrived(h)') \in Nat
        /\ Off(g, RcvAfterData(h, m)) = Len(Arrived(h)') + 1
    BY <1>1, <1>3, TakeDataDone
  <1>5. Quiet(g)
    BY <1>1, <1>2, <1>3, <1>4 DEF Quiet, AckDone, SndQuiet, appVars
  <1>6. /\ f \in Nat /\ f < SeqMod /\ Len(Arrived(h)) + 1 <= f /\ Len(Arrived(h)) \in Nat
    BY <1>1, FinOffFacts
  <1>7. /\ m.data # <<>> => Slice(g, m.seq, m.data, f)
        /\ ooo_buf[h] # <<>> => Slice(g, ooo_seq[h], ooo_buf[h], f)
    BY <1>1 DEF FinAhead, FinOff
  <1>8. Len(Arrived(h)') + 1 <= f
    <2>1. Len(Arrived(h)') = Len(Arrived(h)) + Len(Taken(h, m)) + Len(Drained(h, m))
      BY <1>1, <1>3, ArrivedNext
    <2>2. Len(Arrived(h)) + Len(Taken(h, m)) + 1 + Len(Drained(h, m)) <= f
      BY <1>1, <1>6, <1>7, DrainedBelow
    <2>3. Len(Taken(h, m)) \in Nat /\ Len(Drained(h, m)) \in Nat
      BY <1>1, TakenNext, DrainedNext
    <2>4. QED
      BY <1>6, <2>1, <2>2, <2>3
  <1>9. ooo_buf'[h] # <<>> => Slice(g, ooo_seq'[h], ooo_buf'[h], f)
    <2>1. KeepsOoo(h, m) => m.data # <<>>
      BY DEF KeepsOoo
    <2>2. /\ ooo_seq'[h] = IF KeepsOoo(h, m) THEN m.seq ELSE ooo_seq[h]
          /\ ooo_buf'[h] = IF ClosesGap(h, m) THEN <<>> ELSE IF KeepsOoo(h, m) THEN m.data ELSE ooo_buf[h]
      BY <1>1, <1>3 DEF TakeData, TypeOK
    <2>3. QED
      BY <1>7, <2>1, <2>2
  <1>10. "FIN" \notin m.flags
    BY <1>1, <1>3 DEF TakeData, TypeOK, Sending, Handshake
  <1>11. ASSUME NEW s \in net' \ net PROVE s.dst = g /\ Off(g, s.ack) <= f
    <2>1. s \in AckSegs(h, m) \/ s = Seg(h, {"ACK"}, snd_nxt'[h], RcvAfterData(h, m), <<>>)
      BY <1>10, <1>11, PutNet DEF InEstablished, RcvSegs
    <2>2. CASE s \in AckSegs(h, m)
      <3>1. s.dst = g /\ s.ack = rcv_nxt[h]
        BY <1>2, <2>2 DEF AckDone, DataSeg
      <3>2. QED
        BY <1>1, <1>6, <3>1, EstFacts
    <2>3. CASE s = Seg(h, {"ACK"}, snd_nxt'[h], RcvAfterData(h, m), <<>>)
      <3>1. s.dst = g /\ s.ack = RcvAfterData(h, m)
        BY <2>3 DEF Seg
      <3>2. QED
        BY <1>4, <1>8, <3>1
    <2>4. QED
      BY <2>1, <2>2, <2>3
  <1>12. QED
    BY <1>1, <1>5, <1>8, <1>9, <1>11, FinPeer

\* A connection once made does not go back to the handshake, and a step of h
\* is none of its peer's.
LEMMA PeerMoves ==
  ASSUME IInv, NEW h \in Host, App(h) \/ Tick(h) \/ \E m \in net : Input(h, m)
  PROVE  /\ state'[Peer(h)] = state[Peer(h)]
         /\ opened[h] => opened'[h]
         /\ opened[h] /\ state'[h] \in Sending => state[h] \in Sending
  <1>1. TypeOK /\ Peer(h) \in Host /\ Peer(h) # h
    BY HostPeer DEF IInv
  <1>2. state \in [Host -> States] /\ opened \in [Host -> BOOLEAN]
    BY <1>1 DEF TypeOK
  <1>3. CASE App(h)
    <2>1. ASSUME NEW n \in 1 .. BUF, Send(h, n) \/ Recv(h, n) PROVE UNCHANGED connVars
      BY <2>1 DEF Send, Recv
    <2>2. CASE Connect(h)
      BY <1>1, <1>2, <2>2 DEF Connect
    <2>3. CASE Close(h)
      BY <1>1, <1>2, <2>3 DEF Close, SendFin, Sending, Handshake
    <2>4. QED
      BY <1>3, <2>1, <2>2, <2>3 DEF App, connVars
  <1>4. CASE Tick(h)
    <2>1. CASE SynTimeout(h)
      BY <1>1, <1>2, <2>1 DEF SynTimeout, Sending, Handshake
    <2>2. CASE TimeWaitTimeout(h)
      BY <1>1, <1>2, <2>2 DEF TimeWaitTimeout, Sending, Handshake
    <2>3. CASE Timeout(h)
      BY <2>3 DEF Timeout, connVars
    <2>4. QED
      BY <1>4, <2>1, <2>2, <2>3 DEF Tick
  <1>5. ASSUME NEW m \in net, Input(h, m)
        PROVE  /\ state'[Peer(h)] = state[Peer(h)]
               /\ opened[h] => opened'[h]
               /\ opened[h] /\ state'[h] \in Sending => state[h] \in Sending
    <2>1. CASE PassiveOpen(h, m)
      BY <1>1, <1>2, <2>1 DEF PassiveOpen
    <2>2. CASE InClosed(h, m) \/ InIgnored(h, m)
      BY <2>2 DEF InClosed, InIgnored, connVars
    <2>3. CASE InReset(h, m) \/ InLastAck(h, m)
      BY <1>1, <1>2, <2>3 DEF InReset, InLastAck, Sending, Handshake
    <2>4. CASE InSynReceived(h, m) \/ InSynSent(h, m)
      BY <1>1, <1>2, <2>4 DEF InSynReceived, InSynSent, Sending, Handshake
    <2>5. CASE InFinWait(h, m)
      BY <1>1, <1>2, <2>5 DEF InFinWait, Sending, Handshake
    <2>6. CASE InEstablished(h, m)
      BY <1>1, <1>2, <2>6 DEF InEstablished, TakeData, Sending, Handshake
    <2>7. QED
      BY <1>5, <2>1, <2>2, <2>3, <2>4, <2>5, <2>6 DEF Input
  <1>6. QED
    BY <1>3, <1>4, <1>5

\* A step of the peer, for the host that waits for the ACK of its FIN.
LEMMA FinPeerStep ==
  ASSUME IInv, NEW h \in Host, App(h) \/ Tick(h) \/ \E m \in net : Input(h, m), FinInv(Peer(h))
  PROVE  FinInv(Peer(h))'
  <1> DEFINE g == Peer(h)
  <1>1. TypeOK /\ g \in Host /\ g # h /\ Peer(g) = h
    BY HostPeer DEF IInv
  <1>2. /\ state'[g] = state[g]
        /\ opened[h] => opened'[h]
        /\ opened[h] /\ state'[h] \in Sending => state[h] \in Sending
    BY PeerMoves
  <1>3. ASSUME opened[h], state'[h] \in Sending, FinAhead(g) PROVE FinAhead(g)'
    <2>1. state[h] \in Sending /\ state[h] \in States
      BY <1>1, <1>2, <1>3, HostTypes
    <2>2. ASSUME NEW n \in 1 .. BUF, Send(h, n) PROVE FinAhead(g)'
      <3>1. Quiet(g) /\ UNCHANGED <<rcvVars, read>> /\ state[h] = "ESTABLISHED"
        BY <1>1, <2>2 DEF Quiet, Send, TypeOK, connVars, ccVars, rcvVars
      <3>2. PICK una, buf, from, k : Put(DataSegs(h, una, buf, from, k, rcv_nxt[h]))
        BY <2>2 DEF Send
      <3>3. QED
        BY <1>3, <3>1, <3>2, FinPeerData
    <2>3. ASSUME Timeout(h) PROVE FinAhead(g)'
      <3>1. Quiet(g) /\ UNCHANGED <<rcvVars, read>> /\ state[h] = "ESTABLISHED"
        BY <1>1, <2>3 DEF Quiet, Timeout, TypeOK, connVars, sndVars, rcvVars, appVars
      <3>2. Put(DataSegs(h, snd_una[h], snd_buf[h], 0, InFlight(h), rcv_nxt[h]))
        BY <2>3 DEF Timeout, RtoSegs
      <3>3. QED
        BY <1>3, <3>1, <3>2, FinPeerData
    <2>4. ASSUME NEW n \in 1 .. BUF, Recv(h, n) PROVE FinAhead(g)'
      <3>1. Quiet(g) /\ UNCHANGED <<ooo_seq, ooo_buf, net>>
        BY <1>1, <2>4 DEF Quiet, Recv, TypeOK, connVars, sndVars, ccVars
      <3>2. PICK r \in Seq(Nat), b \in Seq(Nat) : r = read[h] /\ b = rcv_buf[h]
        BY <1>1, HostTypes
      <3>3. read'[h] = r \o SubSeq(b, 1, n) /\ rcv_buf'[h] = SubSeq(b, n + 1, Len(b)) /\ n <= Len(b)
        BY <1>1, <2>4, <3>2 DEF Recv, TypeOK
      <3>4. (r \o SubSeq(b, 1, n)) \o SubSeq(b, n + 1, Len(b)) = r \o b
        <4>1. n \in Nat /\ n <= Len(b)
          BY <3>3
        <4>2. QED
          BY <3>2, <4>1, ConcatMove
      <3>5. Arrived(h)' = Arrived(h)
        BY <3>2, <3>3, <3>4 DEF Arrived
      <3>6. QED
        BY <1>1, <1>3, <3>1, <3>5, FinPeerSends
    <2>5. ASSUME SynTimeout(h) PROVE FinAhead(g)'
      <3>1. Quiet(g) /\ UNCHANGED <<ooo_seq, ooo_buf>> /\ Arrived(h)' = Arrived(h)
        BY <1>1, <2>5 DEF Quiet, SynTimeout, TypeOK, Arrived, sndVars, ccVars, rcvVars, appVars
      <3>2. \A s \in net' \ net : s.dst = g /\ "ACK" \notin s.flags
        BY <2>5, PutNet DEF SynTimeout, Seg
      <3>3. QED
        BY <1>1, <1>3, <3>1, <3>2, FinPeerSends
    <2>6. ASSUME NEW m \in net, Input(h, m) PROVE FinAhead(g)'
      <3>1. m.dst = h
        BY <2>6 DEF Input
      <3>2. CASE InSynReceived(h, m) \/ InSynSent(h, m)
        BY <1>3, <3>1, <3>2, FinPeerSyn
      <3>3. CASE InEstablished(h, m)
        BY <1>3, <3>1, <3>3, FinPeerTakes
      <3>4. QED
        <4>1. state[h] \notin {"CLOSED", "FIN_WAIT_1", "FIN_WAIT_2", "LAST_ACK", "CLOSE_WAIT", "TIME_WAIT"}
          BY <2>1 DEF Sending, Handshake
        <4>2. ~InReset(h, m)
          <5>1. SUFFICES ASSUME InReset(h, m) PROVE state'[h] = "CLOSED"
            BY <1>3 DEF Sending, Handshake
          <5>2. QED
            BY <1>1, <5>1 DEF InReset, TypeOK
        <4>3. InSynReceived(h, m) \/ InSynSent(h, m) \/ InEstablished(h, m)
          BY <2>6, <4>1, <4>2 DEF Input, PassiveOpen, InClosed, InFinWait, InLastAck, InIgnored
        <4>4. QED
          BY <3>2, <3>3, <4>3
    <2>7. ~Connect(h) /\ ~Close(h) /\ ~TimeWaitTimeout(h)
      <3>1. ~Connect(h)
        BY <1>3 DEF Connect
      <3>2. ~Close(h) /\ ~TimeWaitTimeout(h)
        BY <1>1, <1>3 DEF Close, SendFin, TimeWaitTimeout, TypeOK, Sending, Handshake
      <3>3. QED
        BY <3>1, <3>2
    <2>8. QED
      BY <2>2, <2>3, <2>4, <2>5, <2>6, <2>7 DEF App, Tick
  <1>4. QED
    BY <1>1, <1>2, <1>3 DEF FinInv

\* A step of the host that waits, or starts to.
LEMMA FinOwnStep ==
  ASSUME IInv, NEW g \in Host, App(g) \/ Tick(g) \/ \E m \in net : Input(g, m), FinInv(g)
  PROVE  FinInv(g)'
  <1> DEFINE h == Peer(g)
  <1>1. TypeOK /\ h \in Host /\ h # g /\ Peer(h) = g
    BY HostPeer DEF IInv
  <1>2. CASE state'[g] \notin {"FIN_WAIT_1", "FIN_WAIT_2"}
    BY <1>2 DEF FinInv
  <1>3. ASSUME UNCHANGED connVars, Quiet(h), snd_nxt'[g] = snd_nxt[g], net' \subseteq net PROVE FinInv(g)'
    BY <1>1, <1>3, FinKept DEF FinInv, connVars
  <1>4. ASSUME NEW n \in 1 .. BUF, Recv(g, n) PROVE FinInv(g)'
    <2>1. Quiet(h) /\ UNCHANGED connVars /\ snd_nxt'[g] = snd_nxt[g] /\ net' \subseteq net
      BY <1>1, <1>4 DEF Recv, Quiet, TypeOK, connVars, sndVars, ccVars
    <2>2. QED
      BY <1>3, <2>1
  <1>5. ASSUME Close(g), state'[g] \in {"FIN_WAIT_1", "FIN_WAIT_2"} PROVE FinInv(g)'
    <2>1. state[g] = "ESTABLISHED" /\ SendFin(g, "FIN_WAIT_1")
      BY <1>1, <1>5 DEF Close, SendFin, TypeOK
    <2>2. QED
      BY <1>5, <2>1, FinSent DEF Close
  <1>6. ASSUME NEW m \in net, m.dst = g, InFinWait(g, m), state'[g] \in {"FIN_WAIT_1", "FIN_WAIT_2"}
        PROVE  FinInv(g)'
    <2>1. "FIN" \notin m.flags
      BY <1>1, <1>6 DEF InFinWait, TypeOK
    <2>2. net' \subseteq net /\ snd_nxt' = snd_nxt /\ opened' = opened /\ "RST" \notin m.flags
      BY <1>6, <2>1, PutNet DEF InFinWait
    <2>3. Quiet(h)
      BY <1>1, <1>6 DEF InFinWait, Quiet, TypeOK, ccVars, rcvVars, appVars
    <2>4. state'[g] = IF AcksAll(g, m) THEN "FIN_WAIT_2" ELSE state[g]
      BY <1>1, <1>6, <2>1 DEF InFinWait, TypeOK
    <2>5. opened[h] /\ (AcksAll(g, m) => state[h] \notin Sending)
      <3>1. state[g] \in {"FIN_WAIT_1", "FIN_WAIT_2"}
        BY <1>6 DEF InFinWait
      <3>2. ASSUME AcksAll(g, m), state[h] \in Sending PROVE FALSE
        <4>1. FinAhead(g)
          BY <3>1, <3>2 DEF FinInv
        <4>2. "ACK" \in m.flags /\ m.ack = snd_nxt[g]
          BY <3>2 DEF AcksAll
        <4>3. Off(g, snd_nxt[g]) <= Off(g, snd_nxt[g]) - 1
          BY <1>6, <2>2, <4>1, <4>2 DEF FinAhead
        <4>4. Off(g, snd_nxt[g]) \in Nat
          BY <1>1, HostTypes, OffNat
        <4>5. QED
          BY <4>3, <4>4
      <3>3. QED
        BY <3>1, <3>2 DEF FinInv
    <2>6. CASE AcksAll(g, m)
      BY <1>1, <2>2, <2>3, <2>4, <2>5, <2>6 DEF FinInv, Quiet
    <2>7. CASE ~AcksAll(g, m)
      BY <1>1, <2>2, <2>3, <2>4, <2>7, FinKept DEF FinInv, Quiet
    <2>8. QED
      BY <2>6, <2>7
  <1>7. ASSUME NEW n \in 1 .. BUF, Send(g, n) PROVE state'[g] \notin {"FIN_WAIT_1", "FIN_WAIT_2"}
    BY <1>7 DEF Send, connVars
  <1>8. Connect(g) => state'[g] \notin {"FIN_WAIT_1", "FIN_WAIT_2"}
    BY <1>1 DEF Connect, TypeOK
  <1>9. Tick(g) => state'[g] \notin {"FIN_WAIT_1", "FIN_WAIT_2"}
    BY <1>1 DEF Tick, SynTimeout, TimeWaitTimeout, Timeout, connVars, TypeOK
  <1>10. ASSUME NEW m \in net, Input(g, m), ~InFinWait(g, m) PROVE state'[g] \notin {"FIN_WAIT_1", "FIN_WAIT_2"}
    <2>1. CASE PassiveOpen(g, m) \/ InReset(g, m)
      BY <1>1, <2>1 DEF PassiveOpen, InReset, TypeOK
    <2>2. CASE InClosed(g, m) \/ InIgnored(g, m)
      BY <2>2 DEF InClosed, InIgnored, connVars
    <2>3. CASE InSynReceived(g, m) \/ InSynSent(g, m)
      BY <1>1, <2>3 DEF InSynReceived, InSynSent, TypeOK
    <2>4. CASE InLastAck(g, m) \/ InEstablished(g, m)
      BY <1>1, <2>4 DEF InLastAck, InEstablished, TakeData, TypeOK
    <2>5. QED
      BY <1>10, <2>1, <2>2, <2>3, <2>4 DEF Input
  <1>11. QED
    BY <1>2, <1>4, <1>5, <1>6, <1>7, <1>8, <1>9, <1>10 DEF App, Input

LEMMA FinsStep == IInv /\ FinsInv /\ [Next]_vars => FinsInv'
  <1> SUFFICES ASSUME IInv, FinsInv, [Next]_vars PROVE FinsInv'
    OBVIOUS
  <1>1. CASE UNCHANGED vars
    <2>1. \A g \in Host : FinAhead(g) => FinAhead(g)'
      BY <1>1 DEF FinAhead, Arrived, vars, connVars, sndVars, rcvVars, appVars
    <2>2. QED
      BY <1>1, <2>1 DEF FinsInv, FinInv, vars, connVars
  <1>2. ASSUME NEW h \in Host, App(h) \/ Tick(h) \/ \E m \in net : Input(h, m) PROVE FinsInv'
    <2>1. Peer(h) \in Host /\ \A g \in Host : g = h \/ g = Peer(h)
      BY HostPeer
    <2>2. FinInv(h)' /\ FinInv(Peer(h))'
      BY <1>2, <2>1, FinOwnStep, FinPeerStep DEF FinsInv
    <2>3. QED
      BY <2>1, <2>2 DEF FinsInv
  <1>3. QED
    BY <1>1, <1>2 DEF Next

\* A host in FIN_WAIT_2 has a peer that has left the sending states: no old,
\* repeated or belated ACK is taken for the ACK of its FIN (tcp.c:629-648).
THEOREM FinIsAcked == Spec => []FinAcked
  <1>1. Init => FinsInv
    BY DEF Init, FinsInv, FinInv
  <1>2. IInv /\ FinsInv /\ [Next]_vars => FinsInv'
    BY FinsStep
  <1>3. FinsInv => FinAcked
    BY DEF FinsInv, FinInv, FinAcked, Sending, Handshake
  <1>4. QED
    BY <1>1, <1>2, <1>3, Invariance, PTL DEF Spec

----------------------------------------------------------------------------
(* The connection implements the pipes of ByteStream.  The pipe of h runs  *)
(* from h's send buffer to its peer's reader.                              *)

\* Nothing happens to the pipe of h.
LEMMA PipeIdle ==
  ASSUME NEW h \in Host, written'[h] = written[h], Len(snd_buf'[h]) = Len(snd_buf[h]),
         read'[Peer(h)] = read[Peer(h)], Arrived(Peer(h))' = Arrived(Peer(h))
  PROVE  Streams!Idle(h)
  BY DEF Streams!Idle

\* The next bytes arrive.
LEMMA PipeDeliver ==
  ASSUME TypeOK, NEW h \in Host, written'[h] = written[h], snd_buf'[h] = snd_buf[h],
         read'[Peer(h)] = read[Peer(h)],
         NEW a \in Seq(Nat), NEW b \in Seq(Nat), a = Arrived(Peer(h)), b = Arrived(Peer(h))',
         Len(a) <= Len(b), Len(b) <= written[h],
         \A i \in 1 .. Len(a) : a[i] = i,
         \A i \in 1 .. Len(b) : b[i] = i
  PROVE  Streams!Deliver(h) \/ Streams!Idle(h)
  <1>1. CASE Len(a) = Len(b)
    <2>1. a = b
      BY <1>1
    <2>2. QED
      BY <2>1, PipeIdle
  <1>2. CASE Len(a) # Len(b)
    <2>1. Len(a) \in Nat /\ Len(b) \in Nat /\ written[h] \in Nat
      BY HostTypes
    <2>2. Len(b) \in Len(a) + 1 .. written[h]
      BY <1>2, <2>1
    <2>3. PICK n \in Nat : n = Len(b) - Len(a)
      BY <2>1
    <2>4. PICK c \in Seq(Nat) : c = [i \in 1 .. n |-> Len(a) + i]
      <3>1. [i \in 1 .. n |-> Len(a) + i] \in [1 .. n -> Nat]
        BY <2>1
      <3>2. [1 .. n -> Nat] \subseteq Seq(Nat)
        OBVIOUS
      <3>3. QED
        BY <3>1, <3>2
    <2>5. Len(c) = n /\ \A i \in 1 .. n : c[i] = Len(a) + i
      BY <2>4
    <2>6. /\ a \o c \in Seq(Nat) /\ Len(a \o c) = Len(a) + Len(c)
          /\ \A i \in 1 .. Len(a \o c) : (a \o c)[i] = i
      BY <2>5, ConcatPrefix
    <2>7. PICK ac \in Seq(Nat) : ac = a \o c
      BY <2>6
    <2>8. Len(ac) = Len(b) /\ \A i \in 1 .. Len(b) : ac[i] = b[i]
      <3>1. Len(ac) = Len(b)
        BY <2>1, <2>3, <2>5, <2>6, <2>7
      <3>2. QED
        BY <2>6, <2>7, <3>1
    <2>9. ac = b
      BY ONLY <2>8, <2>1, SeqEqual, ac \in Seq(Nat), b \in Seq(Nat)
    <2>10. b = a \o [i \in 1 .. Len(b) - Len(a) |-> Len(a) + i]
      BY <2>3, <2>4, <2>7, <2>9
    <2>11. [x \in Host |-> Arrived(Peer(x))]'[h] = b /\ [x \in Host |-> Arrived(Peer(x))][h] = a
      OBVIOUS
    <2>12. [x \in Host |-> written[x] - Len(snd_buf[x])]'[h] = [x \in Host |-> written[x] - Len(snd_buf[x])][h]
           /\ [x \in Host |-> Len(read[Peer(x)])]'[h] = [x \in Host |-> Len(read[Peer(x)])][h]
      OBVIOUS
    <2>13. Streams!Deliver(h)
      BY <2>2, <2>10, <2>11, <2>12 DEF Streams!Deliver
    <2>14. QED
      BY <2>13
  <1>3. QED
    BY <1>1, <1>2

\* The send buffer lets go of n bytes.
LEMMA PipeConfirm ==
  ASSUME TypeOK, NEW h \in Host, written'[h] = written[h], read'[Peer(h)] = read[Peer(h)],
         Arrived(Peer(h))' = Arrived(Peer(h)),
         NEW n \in Nat, snd_buf'[h] \in Seq(Nat), Len(snd_buf'[h]) = Len(snd_buf[h]) - n,
         written[h] - Len(snd_buf'[h]) <= Len(Arrived(Peer(h)))
  PROVE  Streams!Confirm(h) \/ Streams!Idle(h)
  <1>1. written[h] \in Nat /\ Len(snd_buf[h]) \in Nat /\ Len(snd_buf'[h]) \in Nat
        /\ Len(Arrived(Peer(h))) \in Nat
    BY HostTypes, HostPeer, ArrivedType
  <1>2. CASE n = 0
    BY <1>1, <1>2, PipeIdle
  <1>3. CASE n # 0
    <2>1. written[h] - Len(snd_buf'[h]) \in written[h] - Len(snd_buf[h]) + 1 .. Len(Arrived(Peer(h)))
      BY <1>1, <1>3
    <2>2. [x \in Host |-> written[x] - Len(snd_buf[x])]'[h] = written[h] - Len(snd_buf'[h])
      OBVIOUS
    <2>3. QED
      BY <2>1, <2>2 DEF Streams!Confirm
  <1>4. QED
    BY <1>2, <1>3

\* tcp_send writes to h's pipe.
LEMMA StreamSend ==
  ASSUME IInv, NEW h \in Host, NEW n \in 1 .. BUF, Send(h, n)
  PROVE  Streams!Write(h) /\ Streams!Idle(Peer(h))
  <1> DEFINE g == Peer(h)
  <1>1. TypeOK /\ g \in Host /\ g # h /\ Peer(g) = h /\ n \in Nat /\ n > 0
    BY HostPeer, ConnAssumption DEF IInv
  <1>2. PICK w \in Nat, b \in Seq(Nat), c \in Seq(Nat) :
          w = written[h] /\ b = snd_buf[h] /\ c = [i \in 1 .. n |-> w + i]
    <2>1. written[h] \in Nat /\ snd_buf[h] \in Seq(Nat)
      BY <1>1, HostTypes
    <2>2. [i \in 1 .. n |-> written[h] + i] \in [1 .. n -> Nat] /\ [1 .. n -> Nat] \subseteq Seq(Nat)
      BY <1>1, <2>1
    <2>3. QED
      BY <2>1, <2>2
  <1>3. Len(c) = n
    BY <1>1, <1>2
  <1>4. Len(b \o c) = Len(b) + n
    BY <1>3, ConcatFacts
  <1>5. written'[h] = w + n /\ snd_buf'[h] = b \o c /\ written'[g] = written[g] /\ snd_buf'[g] = snd_buf[g]
    BY <1>1, <1>2 DEF Send, TypeOK
  <1>6. read' = read /\ rcv_buf' = rcv_buf
    BY DEF Send, rcvVars
  <1>7. Arrived(g)' = Arrived(g) /\ Arrived(h)' = Arrived(h)
    BY <1>6 DEF Arrived
  <1>8. written'[h] - Len(snd_buf'[h]) = written[h] - Len(snd_buf[h])
    <2>1. Len(b) \in Nat /\ Len(snd_buf'[h]) = Len(b) + n
      BY <1>4, <1>5
    <2>2. QED
      BY <1>1, <1>2, <1>5, <2>1
  <1>9. written'[h] > written[h]
    BY <1>1, <1>2, <1>5
  <1>10. [x \in Host |-> written[x] - Len(snd_buf[x])]'[h] = [x \in Host |-> written[x] - Len(snd_buf[x])][h]
    BY <1>8
  <1>11. Streams!Write(h)
    BY <1>6, <1>7, <1>9, <1>10 DEF Streams!Write
  <1>12. Streams!Idle(g)
    BY <1>1, <1>5, <1>6, <1>7, PipeIdle
  <1>13. QED
    BY <1>11, <1>12

\* tcp_recv takes from the pipe of h's peer.
LEMMA StreamRecv ==
  ASSUME IInv, NEW h \in Host, NEW n \in 1 .. BUF, Recv(h, n)
  PROVE  Streams!Take(Peer(h)) /\ Streams!Idle(h)
  <1> DEFINE g == Peer(h)
  <1>1. TypeOK /\ g \in Host /\ g # h /\ Peer(g) = h /\ n \in Nat /\ n > 0
    BY HostPeer, ConnAssumption DEF IInv
  <1>2. PICK r \in Seq(Nat), b \in Seq(Nat) : r = read[h] /\ b = rcv_buf[h]
    BY <1>1, HostTypes
  <1>3. PICK t \in Seq(Nat), u \in Seq(Nat) :
          /\ t = SubSeq(b, 1, n) /\ u = SubSeq(b, n + 1, Len(b)) /\ Len(t) = n /\ n <= Len(b)
          /\ (r \o t) \o u = r \o b
    <2>1. n <= Len(b)
      BY <1>2 DEF Recv
    <2>2. SubSeq(b, 1, n) \in Seq(Nat) /\ Len(SubSeq(b, 1, n)) = n /\ SubSeq(b, n + 1, Len(b)) \in Seq(Nat)
      BY <1>1, <2>1
    <2>3. (r \o SubSeq(b, 1, n)) \o SubSeq(b, n + 1, Len(b)) = r \o b
      BY <1>1, <2>1, ConcatMove
    <2>4. QED
      BY <2>1, <2>2, <2>3
  <1>4. read'[h] = r \o t /\ rcv_buf'[h] = u /\ read'[g] = read[g] /\ rcv_buf'[g] = rcv_buf[g]
    BY <1>1, <1>2, <1>3 DEF Recv, TypeOK
  <1>5. Arrived(h)' = Arrived(h) /\ Arrived(g)' = Arrived(g)
    BY <1>2, <1>3, <1>4 DEF Arrived
  <1>6. written' = written /\ snd_buf' = snd_buf
    BY DEF Recv, sndVars
  <1>7. Len(r \o t) = Len(r) + n
    BY <1>3, ConcatFacts
  <1>8. Len(Arrived(h)) = Len(r) + Len(b)
    BY <1>1, <1>2, ArrivedType
  <1>9. Len(read'[h]) \in Len(read[h]) + 1 .. Len(Arrived(h))
    <2>1. Len(r) \in Nat /\ Len(b) \in Nat /\ Len(read'[h]) = Len(r) + n /\ Len(read[h]) = Len(r)
      BY <1>2, <1>4, <1>7
    <2>2. QED
      BY <1>1, <1>3, <1>8, <2>1
  <1>10. Streams!Take(g)
    BY <1>1, <1>5, <1>6, <1>9 DEF Streams!Take
  <1>11. Streams!Idle(h)
    BY <1>1, <1>4, <1>5, <1>6, PipeIdle
  <1>12. QED
    BY <1>10, <1>11

\* tcp_input in ESTABLISHED: the ACK field confirms bytes of h's pipe, the
\* payload is delivered to the pipe of its peer.
LEMMA StreamInput ==
  ASSUME IInv, IInv', NEW h \in Host, NEW m \in net, m.dst = h, InEstablished(h, m)
  PROVE  /\ Streams!Confirm(h) \/ Streams!Idle(h)
         /\ Streams!Deliver(Peer(h)) \/ Streams!Idle(Peer(h))
  <1> DEFINE g == Peer(h)
  <1>1. TypeOK /\ TypeOK' /\ g \in Host /\ g # h /\ Peer(g) = h /\ state[h] = "ESTABLISHED"
        /\ "RST" \notin m.flags
    BY HostPeer DEF IInv, InEstablished
  <1>2. AckDone(h, m) /\ TakeData(h, m) /\ written' = written /\ read' = read
    BY <1>1, AckAdvanceDone, AckDuplicateDone, AckIgnoredDone DEF InEstablished, appVars
  <1>3. snd_buf'[g] = snd_buf[g] /\ rcv_buf'[g] = rcv_buf[g]
    BY <1>1, <1>2 DEF AckDone, SndQuiet, TakeData, TypeOK
  <1>4. Arrived(g)' = Arrived(g)
    BY <1>2, <1>3 DEF Arrived
  <1>5. snd_buf[h] \in Seq(Nat) /\ snd_buf'[h] \in Seq(Nat) /\ written[h] \in Nat
        /\ Len(snd_buf[h]) \in Nat /\ Len(snd_buf'[h]) \in Nat
    <2>1. snd_buf[h] \in Seq(Nat) /\ written[h] \in Nat
      BY <1>1, HostTypes
    <2>2. snd_buf' \in [Host -> Seq(Nat)]
      BY <1>1 DEF TypeOK
    <2>3. QED
      BY <2>1, <2>2
  <1>6. /\ Off(h, snd_una'[h]) + Len(snd_buf'[h]) = written[h] + 1
        /\ Off(h, snd_una'[h]) <= Len(Arrived(g)) + 1
        /\ Off(h, snd_una'[h]) \in Nat /\ Len(Arrived(g)) \in Nat
    BY <1>1, <1>2, OffNat, ArrivedType DEF AckDone, WinOk, TypeOK
  <1>7. written[h] - Len(snd_buf'[h]) <= Len(Arrived(g))
    BY <1>5, <1>6
  <1>8. \E n \in Nat : Len(snd_buf'[h]) = Len(snd_buf[h]) - n
    <2>1. CASE Acks(h, m)
      <3>1. NewlyAcked(h, m) \in Nat /\ NewlyAcked(h, m) <= Len(snd_buf[h])
        BY <1>1, <2>1, AckOff
      <3>2. AckAdvance(h, m)
        BY <2>1 DEF InEstablished, AckDuplicate, AckIgnored, IsDupAck, Acks
      <3>3. snd_buf'[h] = SubSeq(snd_buf[h], NewlyAcked(h, m) + 1, Len(snd_buf[h]))
        BY <1>1, <3>2 DEF AckAdvance, Slid, TypeOK
      <3>4. Len(snd_buf'[h]) = Len(snd_buf[h]) - NewlyAcked(h, m)
        BY <1>5, <3>1, <3>3
      <3>5. QED
        BY <3>1, <3>4
    <2>2. CASE ~Acks(h, m)
      <3>1. snd_buf' = snd_buf
        BY <2>2 DEF InEstablished, AckAdvance, AckDuplicate, AckIgnored, sndVars
      <3>2. QED
        BY <3>1, Len(snd_buf'[h]) = Len(snd_buf[h]) - 0, 0 \in Nat, <1>5
    <2>3. QED
      BY <2>1, <2>2
  <1>9. Streams!Confirm(h) \/ Streams!Idle(h)
    BY <1>1, <1>2, <1>4, <1>5, <1>7, <1>8, PipeConfirm
  <1>10. PICK a \in Seq(Nat), b \in Seq(Nat) : a = Arrived(h) /\ b = Arrived(h)'
    <2>1. Arrived(h) \in Seq(Nat)
      BY <1>1, ArrivedType
    <2>2. read' \in [Host -> Seq(Nat)] /\ rcv_buf' \in [Host -> Seq(Nat)]
      BY <1>1 DEF TypeOK
    <2>3. Arrived(h)' \in Seq(Nat)
      BY <2>2 DEF Arrived
    <2>4. QED
      BY <2>1, <2>3
  <1>11. /\ \A i \in 1 .. Len(a) : a[i] = i
         /\ \A i \in 1 .. Len(b) : b[i] = i
         /\ Len(b) <= written[g]
    BY <1>1, <1>2, <1>10 DEF IInv, TcbInv, RecvInv
  <1>12. Len(a) <= Len(b)
    <2>1. Len(Arrived(h)') = Len(Arrived(h)) + Len(Taken(h, m)) + Len(Drained(h, m))
      BY <1>1, <1>2, ArrivedNext
    <2>2. Len(Taken(h, m)) \in Nat /\ Len(Drained(h, m)) \in Nat
      BY <1>1, TakenNext, DrainedNext
    <2>3. QED
      BY <1>10, <2>1, <2>2
  <1>13. Streams!Deliver(g) \/ Streams!Idle(g)
    BY <1>1, <1>2, <1>3, <1>10, <1>11, <1>12, PipeDeliver
  <1>14. QED
    BY <1>9, <1>13

\* Every other step leaves both pipes alone.
LEMMA StreamSame ==
  ASSUME UNCHANGED <<written, snd_buf, read, rcv_buf>>
  PROVE  \A h \in Host : Streams!Idle(h)
  BY PipeIdle DEF Arrived

LEMMA StreamStep == IInv /\ IInv' /\ [Next]_vars => [Streams!StreamNext]_(Streams!pipeVars)
  <1> SUFFICES ASSUME IInv, IInv', [Next]_vars PROVE Streams!StreamNext
    OBVIOUS
  <1>1. ASSUME UNCHANGED <<written, snd_buf, read, rcv_buf>> PROVE Streams!StreamNext
    BY <1>1, StreamSame DEF Streams!StreamNext
  <1>2. ASSUME NEW h \in Host,
               \/ Streams!Write(h) \/ Streams!Deliver(h) \/ Streams!Confirm(h) \/ Streams!Take(h)
               \/ Streams!Idle(h),
               \/ Streams!Write(Peer(h)) \/ Streams!Deliver(Peer(h)) \/ Streams!Confirm(Peer(h))
               \/ Streams!Take(Peer(h)) \/ Streams!Idle(Peer(h))
        PROVE  Streams!StreamNext
    BY <1>2, HostPeer DEF Streams!StreamNext
  <1>3. ASSUME NEW h \in Host, App(h) PROVE Streams!StreamNext
    <2>1. ASSUME NEW n \in 1 .. BUF, Send(h, n) PROVE Streams!StreamNext
      BY <2>1, StreamSend, <1>2
    <2>2. ASSUME NEW n \in 1 .. BUF, Recv(h, n) PROVE Streams!StreamNext
      BY <2>2, StreamRecv, <1>2
    <2>3. CASE Connect(h) \/ Close(h)
      BY <1>1, <2>3 DEF Connect, Close, rcvVars, appVars
    <2>4. QED
      BY <1>3, <2>1, <2>2, <2>3 DEF App
  <1>4. ASSUME NEW h \in Host, Tick(h) PROVE Streams!StreamNext
    BY <1>1, <1>4 DEF Tick, SynTimeout, TimeWaitTimeout, Timeout, sndVars, rcvVars, appVars
  <1>5. ASSUME NEW h \in Host, NEW m \in net, Input(h, m) PROVE Streams!StreamNext
    <2>1. CASE InEstablished(h, m)
      <3>1. /\ Streams!Confirm(h) \/ Streams!Idle(h)
            /\ Streams!Deliver(Peer(h)) \/ Streams!Idle(Peer(h))
        BY <1>5, <2>1, StreamInput DEF Input
      <3>2. QED
        BY <3>1, <1>2
    <2>2. CASE ~InEstablished(h, m)
      <3>1. UNCHANGED <<written, snd_buf, read, rcv_buf>>
        BY <1>5, <2>2 DEF Input, PassiveOpen, InClosed, InReset, InSynReceived, InSynSent, InFinWait,
                          InLastAck, InIgnored, sndVars, rcvVars, appVars
      <3>2. QED
        BY <1>1, <3>1
    <2>3. QED
      BY <2>1, <2>2
  <1>6. CASE UNCHANGED vars
    BY <1>1, <1>6 DEF vars, sndVars, rcvVars, appVars
  <1>7. QED
    BY <1>3, <1>4, <1>5, <1>6 DEF Next

\* The connection implements ByteStream: in each direction every step writes,
\* delivers the next bytes, confirms bytes that have arrived, or hands over
\* bytes, and none takes any of that back (tcp.c:385-450, 512-625).
THEOREM ImplementsStreams == Spec => StreamSpec
  <1>1. Init => Streams!StreamInit
    <2> SUFFICES ASSUME Init PROVE Streams!StreamInit
      OBVIOUS
    <2>1. \A h \in Host : Arrived(h) = <<>> /\ Peer(h) \in Host
      BY HostPeer DEF Init, Arrived
    <2>2. written = [h \in Host |-> 0]
      BY DEF Init
    <2>3. [h \in Host |-> Arrived(Peer(h))] = [h \in Host |-> <<>>]
      BY <2>1
    <2>4. \A h \in Host : written[h] - Len(snd_buf[h]) = 0 /\ Len(read[Peer(h)]) = 0
      BY <2>1 DEF Init
    <2>5. QED
      BY <2>2, <2>3, <2>4 DEF Streams!StreamInit
  <1>2. IInv /\ IInv' /\ [Next]_vars => [Streams!StreamNext]_(Streams!pipeVars)
    BY StreamStep
  <1>3. QED
    BY <1>1, <1>2, Invariance, PTL DEF Spec, StreamSpec, Streams!StreamSpec

=============================================================================
