----------------------------- MODULE TcpLemmas ------------------------------
(***************************************************************************)
(* Facts about the operators TcpConnection is built from: sequence numbers *)
(* and their offsets, sequences of bytes, segments.                        *)
(***************************************************************************)
EXTENDS TcpConnectionInv, SequenceTheorems, FiniteSetTheorems, TLAPS

----------------------------------------------------------------------------
(* Sequence numbers.                                                       *)

LEMMA SeqsNat == Seqs \subseteq Nat /\ SeqMod \in Nat /\ \A n \in Nat : n < SeqMod => n \in Seqs
  BY SeqModAssumption DEF Seqs

LEMMA PlusType == ASSUME NEW a \in Int, NEW n \in Int PROVE Plus(a, n) \in Seqs
  BY SeqModAssumption DEF Plus, Seqs

LEMMA MinusType == ASSUME NEW a \in Int, NEW b \in Int PROVE Minus(a, b) \in Seqs
  BY SeqModAssumption DEF Minus, Seqs

\* On sequence numbers both operations wrap around at most once.
LEMMA PlusCase ==
  ASSUME NEW a \in Seqs, NEW n \in Seqs
  PROVE  Plus(a, n) = IF a + n < SeqMod THEN a + n ELSE a + n - SeqMod
  BY SeqModAssumption DEF Plus, Seqs

LEMMA MinusCase ==
  ASSUME NEW a \in Seqs, NEW b \in Seqs
  PROVE  Minus(a, b) = IF a >= b THEN a - b ELSE a - b + SeqMod
  BY SeqModAssumption DEF Minus, Seqs

LEMMA HostPeer ==
  ASSUME NEW h \in Host
  PROVE  /\ Peer(h) \in Host /\ Peer(h) # h /\ Peer(Peer(h)) = h
         /\ \A g \in Host : g = h \/ g = Peer(h)
  BY ConnAssumption DEF Host, Peer

LEMMA OffType == ASSUME NEW h \in Host, NEW x \in Seqs PROVE Off(h, x) \in Seqs /\ Isn[h] \in Seqs
  <1>1. Isn[h] \in Seqs
    BY ConnAssumption
  <1>2. x \in Int /\ Isn[h] \in Int
    BY <1>1, SeqModAssumption DEF Seqs
  <1>3. QED
    BY <1>1, <1>2, MinusType DEF Off

LEMMA OffNat ==
  ASSUME NEW h \in Host, NEW x \in Seqs PROVE Off(h, x) \in Nat /\ Off(h, x) < SeqMod
  BY OffType, SeqModAssumption DEF Seqs

LEMMA OffIsn == ASSUME NEW h \in Host PROVE Off(h, Isn[h]) = 0
  <1>1. Isn[h] \in Seqs
    BY ConnAssumption
  <1>2. QED
    BY <1>1, MinusCase, SeqModAssumption DEF Off, Seqs

LEMMA OffPlus ==
  ASSUME NEW h \in Host, NEW x \in Seqs, NEW n \in Nat, Off(h, x) + n < SeqMod
  PROVE  Plus(x, n) \in Seqs /\ Off(h, Plus(x, n)) = Off(h, x) + n
  <1>1. Isn[h] \in Seqs /\ Off(h, x) \in Seqs
    BY OffType
  <1>2. n \in Seqs
    BY <1>1, SeqModAssumption DEF Seqs
  <1>3. Plus(x, n) \in Seqs
    BY <1>2, PlusType, SeqModAssumption DEF Seqs
  <1>4. Off(h, x) = IF x >= Isn[h] THEN x - Isn[h] ELSE x - Isn[h] + SeqMod
    BY <1>1, MinusCase DEF Off
  <1>5. Off(h, Plus(x, n)) = IF Plus(x, n) >= Isn[h] THEN Plus(x, n) - Isn[h]
                             ELSE Plus(x, n) - Isn[h] + SeqMod
    BY <1>1, <1>3, MinusCase DEF Off
  <1>6. Plus(x, n) = IF x + n < SeqMod THEN x + n ELSE x + n - SeqMod
    BY <1>2, PlusCase
  <1>7. QED
    BY <1>1, <1>2, <1>3, <1>4, <1>5, <1>6, SeqModAssumption DEF Seqs

\* A difference of sequence numbers is the difference of their offsets.
LEMMA MinusOff ==
  ASSUME NEW h \in Host, NEW a \in Seqs, NEW b \in Seqs
  PROVE  Minus(a, b) = IF Off(h, a) >= Off(h, b) THEN Off(h, a) - Off(h, b)
                       ELSE Off(h, a) - Off(h, b) + SeqMod
  <1>1. Isn[h] \in Seqs
    BY ConnAssumption
  <1>2. Off(h, a) = IF a >= Isn[h] THEN a - Isn[h] ELSE a - Isn[h] + SeqMod
    BY <1>1, MinusCase DEF Off
  <1>3. Off(h, b) = IF b >= Isn[h] THEN b - Isn[h] ELSE b - Isn[h] + SeqMod
    BY <1>1, MinusCase DEF Off
  <1>4. QED
    BY <1>1, <1>2, <1>3, MinusCase, SeqModAssumption DEF Seqs

----------------------------------------------------------------------------
(* Sequences.                                                              *)

LEMMA SubSeqFacts ==
  ASSUME NEW s \in Seq(Nat), NEW a \in Nat \ {0}, NEW b \in Nat, a <= b + 1, b <= Len(s)
  PROVE  /\ SubSeq(s, a, b) \in Seq(Nat)
         /\ Len(SubSeq(s, a, b)) = b + 1 - a
         /\ \A i \in 1 .. b + 1 - a : SubSeq(s, a, b)[i] = s[a + i - 1]
  OBVIOUS

LEMMA ConcatFacts ==
  ASSUME NEW s \in Seq(Nat), NEW t \in Seq(Nat)
  PROVE  /\ s \o t \in Seq(Nat)
         /\ Len(s \o t) = Len(s) + Len(t)
         /\ \A i \in 1 .. Len(s) : (s \o t)[i] = s[i]
         /\ \A i \in 1 .. Len(t) : (s \o t)[Len(s) + i] = t[i]
  OBVIOUS

\* Appending the next bytes to a prefix of the stream gives a prefix again.
LEMMA ConcatPrefix ==
  ASSUME NEW s \in Seq(Nat), NEW t \in Seq(Nat),
         \A i \in 1 .. Len(s) : s[i] = i,
         \A i \in 1 .. Len(t) : t[i] = Len(s) + i
  PROVE  /\ s \o t \in Seq(Nat)
         /\ Len(s \o t) = Len(s) + Len(t)
         /\ \A i \in 1 .. Len(s \o t) : (s \o t)[i] = i
  OBVIOUS

LEMMA ConcatElem ==
  ASSUME NEW s \in Seq(Nat), NEW t \in Seq(Nat), NEW i \in 1 .. Len(s) + Len(t)
  PROVE  (s \o t)[i] = IF i <= Len(s) THEN s[i] ELSE t[i - Len(s)]
  OBVIOUS

\* A sequence cut in two is the concatenation of its parts.
LEMMA CutSeq ==
  ASSUME NEW b \in Seq(Nat), NEW n \in Nat, n <= Len(b)
  PROVE  SubSeq(b, 1, n) \o SubSeq(b, n + 1, Len(b)) = b
  <1> DEFINE s == SubSeq(b, 1, n)
             t == SubSeq(b, n + 1, Len(b))
  <1>1. s \in Seq(Nat) /\ Len(s) = n
    OBVIOUS
  <1>2. t \in Seq(Nat) /\ Len(t) = Len(b) - n
    OBVIOUS
  <1>3. \A i \in 1 .. Len(b) : i <= n => s[i] = b[i]
    OBVIOUS
  <1>4. \A i \in 1 .. Len(b) : i > n => t[i - n] = b[i]
    OBVIOUS
  <1> HIDE DEF s, t
  <1>5. s \o t \in Seq(Nat) /\ Len(s \o t) = Len(b)
    BY <1>1, <1>2
  <1>6. ASSUME NEW i \in 1 .. Len(b) PROVE (s \o t)[i] = b[i]
    <2>1. (s \o t)[i] = IF i <= Len(s) THEN s[i] ELSE t[i - Len(s)]
      BY <1>1, <1>2, ConcatElem
    <2>2. QED
      BY <1>1, <1>3, <1>4, <2>1
  <1>7. s \o t = b
    BY <1>5, <1>6, SeqEqual
  <1>8. QED
    BY <1>7 DEF s, t

LEMMA ConcatAssoc ==
  ASSUME NEW r \in Seq(Nat), NEW s \in Seq(Nat), NEW t \in Seq(Nat)
  PROVE  (r \o s) \o t = r \o (s \o t)
  OBVIOUS

\* Moving bytes from the receive buffer to the reader changes nothing.
LEMMA ConcatMove ==
  ASSUME NEW r \in Seq(Nat), NEW b \in Seq(Nat), NEW n \in Nat, n <= Len(b)
  PROVE  (r \o SubSeq(b, 1, n)) \o SubSeq(b, n + 1, Len(b)) = r \o b
  <1>1. SubSeq(b, 1, n) \o SubSeq(b, n + 1, Len(b)) = b
    BY CutSeq
  <1>2. SubSeq(b, 1, n) \in Seq(Nat) /\ SubSeq(b, n + 1, Len(b)) \in Seq(Nat)
    OBVIOUS
  <1>3. (r \o SubSeq(b, 1, n)) \o SubSeq(b, n + 1, Len(b))
        = r \o (SubSeq(b, 1, n) \o SubSeq(b, n + 1, Len(b)))
    BY <1>2, ConcatAssoc
  <1>4. QED
    BY <1>1, <1>3

LEMMA EmptyLen == ASSUME NEW s \in Seq(Nat) PROVE s = <<>> <=> Len(s) = 0
  OBVIOUS

----------------------------------------------------------------------------
(* Segments.                                                               *)

LEMMA SegType ==
  ASSUME NEW h \in Host, NEW f \in SUBSET Flags, NEW sq \in Seqs, NEW ak \in Seqs, NEW d \in Seq(Nat)
  PROVE  Seg(h, f, sq, ak, d) \in Segment
  BY HostPeer DEF Seg, Segment

\* A part of a send buffer is a slice of the stream.
LEMMA ChunkSlice ==
  ASSUME NEW h \in Host, NEW una \in Seqs, NEW buf \in Seq(Nat), NEW o \in Nat, NEW e \in Nat,
         o < e, e <= Len(buf),
         1 <= Off(h, una),
         Off(h, una) + Len(buf) < SeqMod,
         \A i \in 1 .. Len(buf) : buf[i] = Off(h, una) + i - 1
  PROVE  /\ SubSeq(buf, o + 1, e) \in Seq(Nat)
         /\ Len(SubSeq(buf, o + 1, e)) = e - o
         /\ Plus(una, o) \in Seqs
         /\ Slice(h, Plus(una, o), SubSeq(buf, o + 1, e), Off(h, una) + e)
  <1>1. SubSeq(buf, o + 1, e) \in Seq(Nat)
    OBVIOUS
  <1>2. Len(SubSeq(buf, o + 1, e)) = e - o
    OBVIOUS
  <1>3. Off(h, una) \in Nat /\ Off(h, una) + o < SeqMod
    <2>1. Off(h, una) \in Nat
      BY OffNat
    <2>2. Len(buf) \in Nat /\ SeqMod \in Nat
      BY SeqModAssumption
    <2>3. QED
      BY <2>1, <2>2
  <1>4. Plus(una, o) \in Seqs /\ Off(h, Plus(una, o)) = Off(h, una) + o
    BY <1>3, OffPlus
  <1>5. ASSUME NEW i \in 1 .. e - o
        PROVE  SubSeq(buf, o + 1, e)[i] = Off(h, una) + o + i - 1
    <2>1. SubSeq(buf, o + 1, e)[i] = buf[o + i]
      OBVIOUS
    <2>2. o + i \in 1 .. Len(buf)
      OBVIOUS
    <2>3. buf[o + i] = Off(h, una) + (o + i) - 1
      BY <2>2
    <2>4. QED
      BY <1>3, <2>1, <2>3
  <1>6. QED
    BY <1>1, <1>2, <1>3, <1>4, <1>5 DEF Slice

\* The chunks that try_emit and the retransmissions cut out of a send buffer.
LEMMA DataSegsSlice ==
  ASSUME NEW h \in Host, NEW una \in Seqs, NEW buf \in Seq(Nat), NEW from \in Nat, NEW n \in Nat,
         NEW ak \in Seqs,
         from + n <= Len(buf),
         1 <= Off(h, una),
         Off(h, una) + Len(buf) < SeqMod,
         \A i \in 1 .. Len(buf) : buf[i] = Off(h, una) + i - 1,
         NEW m \in DataSegs(h, una, buf, from, n, ak)
  PROVE  /\ m \in Segment
         /\ m.dst = Peer(h) /\ m.flags = {"ACK"} /\ m.ack = ak /\ m.data # <<>>
         /\ Slice(h, m.seq, m.data, Off(h, una) + from + n)
  <1>1. PICK o \in from .. from + n - 1 :
          m = Seg(h, {"ACK"}, Plus(una, o), ak, SubSeq(buf, o + 1, MinOf(o + MSS, from + n)))
    BY DEF DataSegs
  <1> DEFINE e == MinOf(o + MSS, from + n)
  <1>2. o \in Nat /\ e \in Nat /\ o < e /\ e <= from + n /\ e <= Len(buf)
    BY ConnAssumption DEF MinOf
  <1> HIDE DEF e
  <1>3. /\ SubSeq(buf, o + 1, e) \in Seq(Nat)
        /\ Len(SubSeq(buf, o + 1, e)) = e - o
        /\ Plus(una, o) \in Seqs
        /\ Slice(h, Plus(una, o), SubSeq(buf, o + 1, e), Off(h, una) + e)
    BY <1>2, ChunkSlice
  <1>4. m = Seg(h, {"ACK"}, Plus(una, o), ak, SubSeq(buf, o + 1, e))
    BY <1>1 DEF e
  <1>5. m \in Segment
    <2>1. {"ACK"} \in SUBSET Flags
      BY DEF Flags
    <2>2. QED
      BY <1>3, <1>4, <2>1, SegType
  <1>6. /\ m.dst = Peer(h) /\ m.flags = {"ACK"} /\ m.ack = ak
        /\ m.seq = Plus(una, o) /\ m.data = SubSeq(buf, o + 1, e)
    BY <1>4 DEF Seg
  <1>7. m.data # <<>>
    <2>1. Len(SubSeq(buf, o + 1, e)) # 0
      BY <1>2, <1>3
    <2>2. QED
      BY <1>3, <1>6, <2>1, EmptyLen
  <1>8. Slice(h, m.seq, m.data, Off(h, una) + from + n)
    <2>1. Off(h, una) \in Nat
      BY OffNat
    <2>2. Off(h, Plus(una, o)) + Len(SubSeq(buf, o + 1, e)) <= Off(h, una) + from + n
      <3>1. Off(h, Plus(una, o)) + Len(SubSeq(buf, o + 1, e)) <= Off(h, una) + e
        BY <1>3 DEF Slice
      <3>2. PICK x \in Nat : x = Off(h, Plus(una, o))
        BY <1>3, OffNat
      <3>3. PICK l \in {e - o} : l = Len(SubSeq(buf, o + 1, e))
        BY <1>3
      <3>4. x + l <= Off(h, una) + e
        BY <3>1, <3>2, <3>3
      <3>5. QED
        BY <1>2, <2>1, <3>2, <3>3, <3>4
    <2>3. QED
      BY <1>3, <1>6, <2>2 DEF Slice
  <1>9. QED
    BY <1>5, <1>6, <1>7, <1>8

\* Put keeps only segments that were in transit or are sent now.
LEMMA PutNet == ASSUME NEW segs, Put(segs) PROVE net' \subseteq net \cup segs
  BY DEF Put

----------------------------------------------------------------------------
(* The send window: w bytes have been written, the last Len(buf) of them   *)
(* are in the buffer, those from una up to nxt are in flight.              *)

WinOk(h, una, nxt, buf, w) ==
    /\ 1 <= Off(h, una)
    /\ Off(h, una) <= Off(h, nxt)
    /\ Off(h, nxt) <= Off(h, una) + Len(buf)
    /\ Off(h, una) + Len(buf) = w + 1
    /\ \A i \in 1 .. Len(buf) : buf[i] = Off(h, una) + i - 1

\* A segment that carries bytes of h's stream below nxt.
DataSeg(h, m, nxt, w, ak) ==
    /\ m \in Segment /\ m.dst = Peer(h) /\ m.flags = {"ACK"} /\ m.ack = ak /\ m.data # <<>>
    /\ Slice(h, m.seq, m.data, MinOf(Off(h, nxt), w + 1))

LEMMA WinFacts ==
  ASSUME NEW h \in Host, NEW una \in Seqs, NEW nxt \in Seqs, NEW buf \in Seq(Nat), NEW w \in Nat,
         WinOk(h, una, nxt, buf, w), w <= MaxWrite[h]
  PROVE  /\ Off(h, una) \in Nat /\ Off(h, nxt) \in Nat /\ Len(buf) \in Nat
         /\ Off(h, una) + Len(buf) < SeqMod /\ Off(h, nxt) + Len(buf) < SeqMod
         /\ Minus(nxt, una) = Off(h, nxt) - Off(h, una)
         /\ Minus(nxt, una) \in Nat /\ Minus(nxt, una) <= Len(buf)
  <1>1. Off(h, una) \in Nat /\ Off(h, nxt) \in Nat /\ Len(buf) \in Nat
    BY OffNat
  <1>2. MaxWrite[h] \in Nat /\ 2 * (MaxWrite[h] + 3) < SeqMod /\ SeqMod \in Nat
    BY ConnAssumption, SeqModAssumption
  <1>3. Off(h, una) + Len(buf) < SeqMod /\ Off(h, nxt) + Len(buf) < SeqMod
    BY <1>1, <1>2 DEF WinOk
  <1>4. Minus(nxt, una) = Off(h, nxt) - Off(h, una)
    BY <1>1, MinusOff DEF WinOk
  <1>5. QED
    BY <1>1, <1>3, <1>4 DEF WinOk

\* Segments cut from the first n bytes of the buffer, all of them in flight.
LEMMA Resend ==
  ASSUME NEW h \in Host, NEW una \in Seqs, NEW nxt \in Seqs, NEW buf \in Seq(Nat), NEW w \in Nat,
         WinOk(h, una, nxt, buf, w), w <= MaxWrite[h],
         NEW n \in Nat, Off(h, una) + n <= Off(h, nxt), NEW ak \in Seqs,
         NEW m \in DataSegs(h, una, buf, 0, n, ak)
  PROVE  DataSeg(h, m, nxt, w, ak)
  <1>1. /\ Off(h, una) \in Nat /\ Off(h, nxt) \in Nat /\ Len(buf) \in Nat
        /\ Off(h, una) + Len(buf) < SeqMod
    BY WinFacts
  <1>2. 0 + n <= Len(buf) /\ Off(h, una) + 0 + n <= MinOf(Off(h, nxt), w + 1)
    BY <1>1 DEF WinOk, MinOf
  <1>3. 1 <= Off(h, una) /\ \A i \in 1 .. Len(buf) : buf[i] = Off(h, una) + i - 1
    BY DEF WinOk
  <1>4. /\ m \in Segment
        /\ m.dst = Peer(h) /\ m.flags = {"ACK"} /\ m.ack = ak /\ m.data # <<>>
        /\ Slice(h, m.seq, m.data, Off(h, una) + 0 + n)
    BY <1>1, <1>2, <1>3, DataSegsSlice
  <1>5. Off(h, m.seq) \in Nat /\ Len(m.data) \in Nat
    BY <1>4, OffNat DEF Segment
  <1>6. MinOf(Off(h, nxt), w + 1) \in Nat
    BY <1>1 DEF MinOf
  <1>7. QED
    BY <1>1, <1>2, <1>4, <1>5, <1>6 DEF Slice, DataSeg

\* What try_emit does to the window, and what it sends.
LEMMA Emit ==
  ASSUME NEW h \in Host, NEW una \in Seqs, NEW nxt \in Seqs, NEW buf \in Seq(Nat), NEW w \in Nat,
         WinOk(h, una, nxt, buf, w), w <= MaxWrite[h],
         NEW cw \in Nat, MSS <= cw, NEW ak \in Seqs,
         NEW k, k = EmitLen(buf, Minus(nxt, una), cw)
  PROVE  /\ k \in Nat /\ Plus(nxt, k) \in Seqs
         /\ WinOk(h, una, Plus(nxt, k), buf, w)
         /\ Off(h, nxt) <= Off(h, Plus(nxt, k))
         /\ Off(h, Plus(nxt, k)) >= Off(h, una) + MinOf(Len(buf), MSS)
         /\ Off(h, Plus(nxt, k)) <= w + 1
         /\ \A m \in DataSegs(h, una, buf, Minus(nxt, una), k, ak) : DataSeg(h, m, Plus(nxt, k), w, ak)
  <1>1. /\ Off(h, una) \in Nat /\ Off(h, nxt) \in Nat /\ Len(buf) \in Nat
        /\ Off(h, una) + Len(buf) < SeqMod /\ Off(h, nxt) + Len(buf) < SeqMod
        /\ Minus(nxt, una) = Off(h, nxt) - Off(h, una)
        /\ Minus(nxt, una) \in Nat /\ Minus(nxt, una) <= Len(buf)
    BY WinFacts
  <1>2. MSS \in Nat
    BY ConnAssumption
  <1>3. PICK i \in Nat : i = Minus(nxt, una)
    BY <1>1
  <1>4. Len(buf) \in Nat /\ i <= Len(buf) /\ Off(h, nxt) = Off(h, una) + i
    BY <1>1, <1>3
  <1>5. k = EmitLen(buf, i, cw)
    BY <1>3
  <1>6. /\ k \in Nat /\ i + k <= Len(buf)
        /\ i + k >= MinOf(Len(buf), MSS)
    <2>1. CASE i >= Len(buf) \/ cw <= i
      <3>1. k = 0
        BY <1>5, <2>1 DEF EmitLen
      <3>2. QED
        BY <1>2, <1>4, <2>1, <3>1 DEF MinOf
    <2>2. CASE ~(i >= Len(buf) \/ cw <= i)
      <3>1. k = MinOf(Len(buf) - i, cw - i)
        BY <1>5, <2>2 DEF EmitLen
      <3>2. QED
        BY <1>2, <1>4, <2>2, <3>1 DEF MinOf
    <2>3. QED
      BY <2>1, <2>2
  <1>7. MinOf(Len(buf), MSS) \in Nat
    BY <1>1, <1>2 DEF MinOf
  <1>8. /\ 1 <= Off(h, una) /\ Off(h, una) + Len(buf) = w + 1
        /\ \A j \in 1 .. Len(buf) : buf[j] = Off(h, una) + j - 1
    BY DEF WinOk
  <1>9. PICK u \in Nat, y \in Nat, l \in Nat, low \in Nat :
          u = Off(h, una) /\ y = Off(h, nxt) /\ l = Len(buf) /\ low = MinOf(Len(buf), MSS)
    BY <1>1, <1>7
  <1>10. /\ y + k < SeqMod
         /\ y <= y + k /\ y + k >= u + low /\ y + k <= w + 1 /\ u <= y + k /\ y + k <= u + l
         /\ u + i + k = MinOf(y + k, w + 1)
    <2>1. u + l = w + 1
      BY <1>8, <1>9
    <2>2. Off(h, una) + Len(buf) < SeqMod
      BY <1>1
    <2>3. y = u + i
      BY <1>4, <1>9
    <2>4. k \in Nat /\ i + k <= l /\ i + k >= low
      BY <1>6, <1>9
    <2>5. u + l < SeqMod /\ SeqMod \in Nat
      BY <1>9, <2>2, SeqModAssumption
    <2>6. QED
      BY <2>1, <2>3, <2>4, <2>5 DEF MinOf
  <1>11. Plus(nxt, k) \in Seqs /\ Off(h, Plus(nxt, k)) = y + k
    BY <1>6, <1>9, <1>10, OffPlus
  <1>12. WinOk(h, una, Plus(nxt, k), buf, w)
    BY <1>8, <1>9, <1>10, <1>11 DEF WinOk
  <1>13. ASSUME NEW m \in DataSegs(h, una, buf, i, k, ak)
         PROVE  DataSeg(h, m, Plus(nxt, k), w, ak)
    <2>1. /\ m \in Segment
          /\ m.dst = Peer(h) /\ m.flags = {"ACK"} /\ m.ack = ak /\ m.data # <<>>
          /\ Slice(h, m.seq, m.data, Off(h, una) + i + k)
      <3>1. k \in Nat /\ i + k <= Len(buf)
        BY <1>6
      <3>2. 1 <= Off(h, una)
        BY <1>8
      <3>3. Off(h, una) + Len(buf) < SeqMod
        BY <1>1
      <3>4. \A j \in 1 .. Len(buf) : buf[j] = Off(h, una) + j - 1
        BY <1>8
      <3>5. QED
        BY <3>1, <3>2, <3>3, <3>4, DataSegsSlice
    <2>2. Off(h, una) + i + k = MinOf(Off(h, Plus(nxt, k)), w + 1)
      BY <1>9, <1>10, <1>11
    <2>3. QED
      BY <2>1, <2>2 DEF DataSeg
  <1>14. QED
    BY <1>3, <1>6, <1>9, <1>10, <1>11, <1>12, <1>13

\* What tcp_send does to the window.
LEMMA AppendWin ==
  ASSUME NEW h \in Host, NEW una \in Seqs, NEW nxt \in Seqs, NEW buf \in Seq(Nat), NEW w \in Nat,
         WinOk(h, una, nxt, buf, w), NEW n \in Nat
  PROVE  /\ buf \o [i \in 1 .. n |-> w + i] \in Seq(Nat)
         /\ Len(buf \o [i \in 1 .. n |-> w + i]) = Len(buf) + n
         /\ WinOk(h, una, nxt, buf \o [i \in 1 .. n |-> w + i], w + n)
  <1> DEFINE t == [i \in 1 .. n |-> w + i]
  <1>1. t \in Seq(Nat) /\ Len(t) = n
    OBVIOUS
  <1>2. \A i \in 1 .. n : t[i] = w + i
    OBVIOUS
  <1> HIDE DEF t
  <1>3. buf \o t \in Seq(Nat) /\ Len(buf \o t) = Len(buf) + n
    BY <1>1
  <1>4. Off(h, una) \in Nat /\ Off(h, nxt) \in Nat /\ Len(buf) \in Nat
    BY OffNat
  <1>5. ASSUME NEW i \in 1 .. Len(buf) + n PROVE (buf \o t)[i] = Off(h, una) + i - 1
    <2>1. Off(h, una) + Len(buf) = w + 1 /\ \A j \in 1 .. Len(buf) : buf[j] = Off(h, una) + j - 1
      BY DEF WinOk
    <2>2. (buf \o t)[i] = IF i <= Len(buf) THEN buf[i] ELSE t[i - Len(buf)]
      BY <1>1, ConcatElem
    <2>3. CASE i <= Len(buf)
      <3>1. i \in 1 .. Len(buf)
        BY <1>4, <2>3
      <3>2. QED
        BY <2>1, <2>2, <2>3, <3>1
    <2>4. CASE ~(i <= Len(buf))
      <3>1. i - Len(buf) \in 1 .. n
        BY <1>4, <2>4
      <3>2. (buf \o t)[i] = w + (i - Len(buf))
        BY <1>2, <2>2, <2>4, <3>1
      <3>3. w + (i - Len(buf)) = Off(h, una) + i - 1
        <4>1. Off(h, una) + Len(buf) = w + 1
          BY <2>1
        <4>2. i \in Int /\ Off(h, una) \in Nat /\ Len(buf) \in Nat
          BY <1>4
        <4>3. QED
          BY <4>1, <4>2
      <3>4. QED
        BY <3>2, <3>3
    <2>5. QED
      BY <2>3, <2>4
  <1>6. PICK b : b = buf \o t
    OBVIOUS
  <1>7. Len(b) = Len(buf) + n /\ \A i \in 1 .. Len(buf) + n : b[i] = Off(h, una) + i - 1
    BY <1>3, <1>5, <1>6
  <1>8. WinOk(h, una, nxt, b, w + n)
    <2>1. /\ 1 <= Off(h, una) /\ Off(h, una) <= Off(h, nxt)
          /\ Off(h, nxt) <= Off(h, una) + Len(buf) /\ Off(h, una) + Len(buf) = w + 1
      BY DEF WinOk
    <2>2. Len(b) = Len(buf) + n
      BY <1>7
    <2>3. Off(h, nxt) <= Off(h, una) + (Len(buf) + n) /\ Off(h, una) + (Len(buf) + n) = (w + n) + 1
      BY <1>4, <2>1
    <2>4. QED
      BY <1>7, <2>1, <2>2, <2>3 DEF WinOk
  <1>9. QED
    BY <1>3, <1>6, <1>8 DEF t

\* What slide_snd_window does to it, when n bytes are acknowledged.
LEMMA SlideWin ==
  ASSUME NEW h \in Host, NEW una \in Seqs, NEW nxt \in Seqs, NEW buf \in Seq(Nat), NEW w \in Nat,
         WinOk(h, una, nxt, buf, w), w <= MaxWrite[h],
         NEW n \in Nat, n <= Len(buf), NEW a \in Seqs,
         Off(h, a) = Off(h, una) + n, Off(h, a) <= Off(h, nxt)
  PROVE  /\ SubSeq(buf, n + 1, Len(buf)) \in Seq(Nat)
         /\ Len(SubSeq(buf, n + 1, Len(buf))) = Len(buf) - n
         /\ WinOk(h, a, nxt, SubSeq(buf, n + 1, Len(buf)), w)
  <1> DEFINE t == SubSeq(buf, n + 1, Len(buf))
  <1>1. t \in Seq(Nat) /\ Len(t) = Len(buf) - n
    OBVIOUS
  <1>2. \A i \in 1 .. Len(buf) - n : t[i] = buf[n + i]
    OBVIOUS
  <1> HIDE DEF t
  <1>3. Off(h, una) \in Nat /\ Off(h, nxt) \in Nat /\ Len(buf) \in Nat
    BY OffNat
  <1>4. ASSUME NEW i \in 1 .. Len(buf) - n PROVE t[i] = Off(h, a) + i - 1
    <2>1. buf[n + i] = Off(h, una) + (n + i) - 1
      BY <1>3 DEF WinOk
    <2>2. QED
      BY <1>2, <1>3, <2>1
  <1>5. WinOk(h, a, nxt, t, w)
    BY <1>1, <1>3, <1>4 DEF WinOk
  <1>6. QED
    BY <1>1, <1>5 DEF t
=============================================================================
