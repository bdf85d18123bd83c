----------------------------- MODULE KernelProofs -----------------------------
(***************************************************************************)
(* What moves between the kernel and its users in rings and slots: pipes   *)
(* are queues and the mailbox gives every letter out once; the keyboard's  *)
(* ring keeps what was typed in order; the mouse's packets move a pointer  *)
(* that stays on the screen; the applications of the kernel's desktop show *)
(* what they were given; the two readers of the firmware's list of         *)
(* processors agree; and the padding of an RSA signature is read strictly. *)
(* For every number and size of them.                                      *)
(***************************************************************************)
EXTENDS Ipc, Devices, Apps, Rsa, SequenceTheorems, FiniteSetTheorems, WellFoundedInduction, TLAPS

Pipe == [in_use : BOOLEAN, buf : [0..PIPE_BUF_SIZE - 1 -> PipeByte],
         read_pos : 0..PIPE_BUF_SIZE - 1, write_pos : 0..PIPE_BUF_SIZE - 1, count : 0..PIPE_BUF_SIZE]

\* The three fields that say where the bytes of a pipe are agree.
Agrees(b) == b.write_pos = (b.read_pos + b.count) % PIPE_BUF_SIZE

IpcInv ==
    /\ pipes \in [0..MAX_PIPES - 1 -> Pipe]
    /\ \A p \in 0..MAX_PIPES - 1 : Agrees(pipes[p])
    /\ mq \in [0..MAX_MSGS - 1 -> Payload \cup {Vacant}]

USE IpcAssumption

----------------------------------------------------------------------------
(* The ring of a pipe.                                                     *)

\* Positions wrap once at most.
LEMMA Wrapped ==
    ASSUME NEW x \in 0..2 * PIPE_BUF_SIZE - 1
    PROVE  x % PIPE_BUF_SIZE = IF x < PIPE_BUF_SIZE THEN x ELSE x - PIPE_BUF_SIZE
OBVIOUS

LEMMA WrappedBelow ==
    ASSUME NEW x \in 1 - PIPE_BUF_SIZE..-1
    PROVE  x % PIPE_BUF_SIZE = x + PIPE_BUF_SIZE
OBVIOUS

LEMMA SlotInRing ==
    ASSUME NEW x \in Int
    PROVE  x % PIPE_BUF_SIZE \in 0..PIPE_BUF_SIZE - 1
OBVIOUS

\* The slot of the byte i of a ring that begins at r.
SlotAt(r, i) == (r + i - 1) % PIPE_BUF_SIZE

LEMMA SlotAtType ==
    ASSUME NEW r \in Nat, NEW i \in Nat
    PROVE  SlotAt(r, i) \in 0..PIPE_BUF_SIZE - 1
<1>1. r + i - 1 \in Int
  OBVIOUS
<1> QED BY <1>1, SlotInRing DEF SlotAt

LEMMA BehindType ==
    ASSUME NEW s \in Int, NEW w \in Int
    PROVE  Behind(s, w) \in Nat
BY SlotInRing DEF Behind

\* pipe_write behind the last of c bytes: the slots it writes are those of its own
\* bytes, in their order, and none of the bytes that wait.
LEMMA WrittenSlots ==
    ASSUME NEW r \in 0..PIPE_BUF_SIZE - 1, NEW c \in 0..PIPE_BUF_SIZE, NEW n \in Nat,
           c + n <= PIPE_BUF_SIZE,
           NEW i \in 1..c + n
    PROVE  LET k == Behind(SlotAt(r, i), SlotAt(r, c + 1))
           IN  IF i <= c THEN k >= n ELSE k < n /\ k + 1 = i - c
<1> DEFINE w == SlotAt(r, c + 1)
           s == SlotAt(r, i)
<1>1. w = IF r + c < PIPE_BUF_SIZE THEN r + c ELSE r + c - PIPE_BUF_SIZE
  <2>1. r + c \in 0..2 * PIPE_BUF_SIZE - 1 /\ r + (c + 1) - 1 = r + c
    OBVIOUS
  <2> QED BY <2>1, Wrapped DEF SlotAt
<1>2. s = IF r + i - 1 < PIPE_BUF_SIZE THEN r + i - 1 ELSE r + i - 1 - PIPE_BUF_SIZE
  <2>1. r + i - 1 \in 0..2 * PIPE_BUF_SIZE - 1
    OBVIOUS
  <2> QED BY <2>1, Wrapped DEF SlotAt
<1> HIDE DEF w, s
<1>3. s - w \in 1 - PIPE_BUF_SIZE..PIPE_BUF_SIZE - 1
  BY <1>1, <1>2
<1>4. Behind(s, w) = IF s - w >= 0 THEN s - w ELSE s - w + PIPE_BUF_SIZE
  BY <1>3, Wrapped, WrappedBelow DEF Behind
<1>5. LET k == Behind(s, w) IN IF i <= c THEN k >= n ELSE k < n /\ k + 1 = i - c
  BY <1>1, <1>2, <1>3, <1>4
<1> QED BY <1>5 DEF s, w

\* pipe_read of m bytes: the ring begins that much later.
LEMMA ReadSlots ==
    ASSUME NEW r \in 0..PIPE_BUF_SIZE - 1, NEW m \in 0..PIPE_BUF_SIZE, NEW i \in Nat \ {0},
           m + i <= PIPE_BUF_SIZE
    PROVE  SlotAt(SlotAt(r, m + 1), i) = SlotAt(r, m + i)
<1>1. SlotAt(r, m + 1) = IF r + m < PIPE_BUF_SIZE THEN r + m ELSE r + m - PIPE_BUF_SIZE
  <2>1. r + m \in 0..2 * PIPE_BUF_SIZE - 1 /\ r + (m + 1) - 1 = r + m
    OBVIOUS
  <2> QED BY <2>1, Wrapped DEF SlotAt
<1>2. SlotAt(r, m + i) = IF r + (m + i) - 1 < PIPE_BUF_SIZE THEN r + (m + i) - 1 ELSE r + (m + i) - 1 - PIPE_BUF_SIZE
  <2>1. r + (m + i) - 1 \in 0..2 * PIPE_BUF_SIZE - 1
    OBVIOUS
  <2> QED BY <2>1, Wrapped DEF SlotAt
<1> PICK q : q = SlotAt(r, m + 1)
  OBVIOUS
<1>3. q + i - 1 \in 0..2 * PIPE_BUF_SIZE - 1
  BY <1>1
<1>4. SlotAt(q, i) = IF q + i - 1 < PIPE_BUF_SIZE THEN q + i - 1 ELSE q + i - 1 - PIPE_BUF_SIZE
  BY <1>3, Wrapped DEF SlotAt
<1>5. SlotAt(q, i) = SlotAt(r, m + i)
  BY <1>1, <1>2, <1>4
<1> QED BY <1>5

\* A ring holds c bytes, each in its slot.
LEMMA RingBytes ==
    ASSUME NEW f \in [0..PIPE_BUF_SIZE - 1 -> PipeByte], NEW r \in Nat, NEW c \in Nat
    PROVE  /\ Ring(f, r, c) \in Seq(PipeByte) /\ Len(Ring(f, r, c)) = c
           /\ \A i \in 1..c : Ring(f, r, c)[i] = f[SlotAt(r, i)]
<1>1. Ring(f, r, c) \in [1..c -> PipeByte]
  <2>1. ASSUME NEW i \in 1..c
        PROVE  f[SlotAt(r, i)] \in PipeByte
    <3>1. i \in Nat
      OBVIOUS
    <3>2. SlotAt(r, i) \in 0..PIPE_BUF_SIZE - 1
      BY <3>1, SlotAtType
    <3> QED BY <3>2
  <2> QED BY <2>1 DEF Ring, SlotAt
<1>2. Ring(f, r, c) \in Seq(PipeByte)
  BY <1>1, SeqDef
<1>3. Len(Ring(f, r, c)) = c
  BY <1>1, <1>2, LenProperties
<1> QED BY <1>2, <1>3 DEF Ring, SlotAt

\* The first n elements of a sequence.
LEMMA FirstOf ==
    ASSUME NEW data \in Seq(PipeByte), NEW n \in Nat, n <= Len(data)
    PROVE  /\ SubSeq(data, 1, n) \in Seq(PipeByte) /\ Len(SubSeq(data, 1, n)) = n
           /\ \A i \in 1..n : SubSeq(data, 1, n)[i] = data[i] /\ data[i] \in PipeByte
<1>1. Len(data) \in Nat /\ \A i \in 1..Len(data) : data[i] \in PipeByte
  BY ElementOfSeq, LenProperties
<1>2. \A i \in 1..n : data[i] \in PipeByte
  BY <1>1
<1> QED BY <1>1, <1>2, SubSeqProperties

\* The first n bytes of data go into f behind the c that wait from r on, which makes e bytes in g.
Appended(f, r, c, data, n, w, g, e) ==
    /\ f \in [0..PIPE_BUF_SIZE - 1 -> PipeByte]
    /\ r \in 0..PIPE_BUF_SIZE - 1 /\ c \in 0..PIPE_BUF_SIZE
    /\ data \in Seq(PipeByte) /\ n \in Nat /\ n <= Len(data) /\ c + n <= PIPE_BUF_SIZE
    /\ w = SlotAt(r, c + 1) /\ g = Overwritten(f, w, data, n) /\ e = c + n

\* Bytes that are written come behind those that wait.
Queued(f, r, c, data, n, g, e) ==
    /\ g \in [0..PIPE_BUF_SIZE - 1 -> PipeByte]
    /\ Ring(g, r, e) = Ring(f, r, c) \o SubSeq(data, 1, n)

LEMMA RingAppend ==
    ASSUME NEW f, NEW r, NEW c, NEW data, NEW n, NEW w, NEW g, NEW e, Appended(f, r, c, data, n, w, g, e)
    PROVE  Queued(f, r, c, data, n, g, e)
<1> USE DEF Appended
<1> DEFINE old == Ring(f, r, c)
           new == Ring(g, r, c + n)
           first == SubSeq(data, 1, n)
<1>0. r \in Nat /\ c \in Nat /\ c + n \in Nat /\ w \in Int
  <2>1. r \in Nat /\ c \in Nat /\ c + 1 \in Nat
    OBVIOUS
  <2> QED BY <2>1, SlotAtType
<1>1. /\ first \in Seq(PipeByte) /\ Len(first) = n
      /\ \A i \in 1..n : first[i] = data[i] /\ data[i] \in PipeByte
  BY FirstOf
<1>2. g \in [0..PIPE_BUF_SIZE - 1 -> PipeByte]
  <2> SUFFICES ASSUME NEW s \in 0..PIPE_BUF_SIZE - 1, Behind(s, w) < n
               PROVE  data[Behind(s, w) + 1] \in PipeByte
    BY DEF Overwritten
  <2>1. Behind(s, w) \in Nat
    BY <1>0, BehindType
  <2> QED BY <1>1, <2>1
<1>4. /\ old \in Seq(PipeByte) /\ Len(old) = c
      /\ \A i \in 1..c : old[i] = f[SlotAt(r, i)]
  BY <1>0, RingBytes
<1>5. /\ new \in Seq(PipeByte) /\ Len(new) = c + n
      /\ \A i \in 1..c + n : new[i] = g[SlotAt(r, i)]
  BY <1>0, <1>2, RingBytes
<1> HIDE DEF old, new, first
<1>6. /\ old \o first \in Seq(PipeByte) /\ Len(old \o first) = c + n
      /\ \A i \in 1..c + n : (old \o first)[i] = IF i <= c THEN old[i] ELSE first[i - c]
  <2>1. old \in Seq(PipeByte) /\ first \in Seq(PipeByte) /\ Len(old) = c /\ Len(first) = n
    BY <1>1, <1>4
  <2> QED BY ONLY <2>1, ConcatProperties
<1>7. ASSUME NEW i \in 1..c + n
      PROVE  new[i] = (old \o first)[i]
  <2> DEFINE k == Behind(SlotAt(r, i), w)
  <2>0. i \in Nat
    BY <1>0
  <2>1. SlotAt(r, i) \in 0..PIPE_BUF_SIZE - 1
    BY <1>0, <2>0, SlotAtType
  <2>2. k \in Nat
    BY <1>0, <2>1, BehindType
  <2>3. IF i <= c THEN k >= n ELSE k < n /\ k + 1 = i - c
    BY WrittenSlots
  <2>4. new[i] = IF k < n THEN data[k + 1] ELSE f[SlotAt(r, i)]
    BY <1>5, <2>1 DEF Overwritten
  <2> HIDE DEF k
  <2>5. CASE i <= c
    BY <1>0, <1>4, <1>6, <2>2, <2>3, <2>4, <2>5
  <2>6. CASE ~(i <= c)
    BY <1>0, <1>1, <1>6, <2>2, <2>3, <2>4, <2>6, SMTT(30)
  <2> QED BY <2>5, <2>6
<1>8. new = old \o first
  BY <1>5, <1>6, <1>7, SeqEqual
<1> QED BY <1>2, <1>8 DEF old, new, first, Queued

\* Bytes that are read are the first ones, and the others stay.
LEMMA RingDrop ==
    ASSUME NEW f \in [0..PIPE_BUF_SIZE - 1 -> PipeByte],
           NEW r \in 0..PIPE_BUF_SIZE - 1, NEW c \in 0..PIPE_BUF_SIZE, NEW m \in 0..c
    PROVE  /\ Ring(f, r, m) = SubSeq(Ring(f, r, c), 1, m)
           /\ Ring(f, SlotAt(r, m + 1), c - m) = SubSeq(Ring(f, r, c), m + 1, c)
<1> DEFINE old == Ring(f, r, c)
           q == SlotAt(r, m + 1)
<1>0. r \in Nat /\ c \in Nat /\ m \in Nat /\ m + 1 \in Nat /\ c - m \in Nat
  OBVIOUS
<1>1. q \in Nat
  <2>1. q \in 0..PIPE_BUF_SIZE - 1
    BY <1>0, SlotAtType
  <2> QED BY <2>1
<1>2. /\ old \in Seq(PipeByte) /\ Len(old) = c
      /\ \A i \in 1..c : old[i] = f[SlotAt(r, i)] /\ old[i] \in PipeByte
  <2>1. /\ old \in Seq(PipeByte) /\ Len(old) = c
        /\ \A i \in 1..c : old[i] = f[SlotAt(r, i)]
    BY <1>0, RingBytes
  <2> HIDE DEF old
  <2>2. \A i \in 1..c : old[i] \in PipeByte
    BY <2>1, ElementOfSeq
  <2> QED BY <2>1, <2>2
<1>3. /\ Ring(f, r, m) \in Seq(PipeByte) /\ Len(Ring(f, r, m)) = m
      /\ \A i \in 1..m : Ring(f, r, m)[i] = f[SlotAt(r, i)]
  BY <1>0, RingBytes
<1>4. /\ Ring(f, q, c - m) \in Seq(PipeByte) /\ Len(Ring(f, q, c - m)) = c - m
      /\ \A i \in 1..c - m : Ring(f, q, c - m)[i] = f[SlotAt(q, i)]
  BY <1>0, <1>1, RingBytes
<1> HIDE DEF old
<1>5. /\ SubSeq(old, 1, m) \in Seq(PipeByte) /\ Len(SubSeq(old, 1, m)) = m
      /\ \A i \in 1..m : SubSeq(old, 1, m)[i] = old[i]
  <2>1. \A i \in 1..m : old[i] \in PipeByte
    BY <1>0, <1>2
  <2> QED BY <1>0, <2>1, SubSeqProperties
<1>6. /\ SubSeq(old, m + 1, c) \in Seq(PipeByte) /\ Len(SubSeq(old, m + 1, c)) = c - m
      /\ \A i \in 1..c - m : SubSeq(old, m + 1, c)[i] = old[m + i]
  <2>1. \A i \in m + 1..c : old[i] \in PipeByte
    BY <1>0, <1>2
  <2>2. /\ SubSeq(old, m + 1, c) \in Seq(PipeByte)
        /\ Len(SubSeq(old, m + 1, c)) = IF m + 1 <= c THEN c - (m + 1) + 1 ELSE 0
        /\ \A i \in 1..c - (m + 1) + 1 : SubSeq(old, m + 1, c)[i] = old[m + 1 + i - 1]
    BY <1>0, <2>1, SubSeqProperties
  <2>3. c - (m + 1) + 1 = c - m /\ \A i \in 1..c - m : m + 1 + i - 1 = m + i
    BY <1>0
  <2> QED BY <1>0, <2>2, <2>3
<1>7. Ring(f, r, m) = SubSeq(old, 1, m)
  <2>1. \A i \in 1..m : i \in 1..c
    BY <1>0
  <2> QED BY <1>2, <1>3, <1>5, <2>1, SeqEqual
<1>8. ASSUME NEW i \in 1..c - m
      PROVE  Ring(f, q, c - m)[i] = SubSeq(old, m + 1, c)[i]
  <2>1. m + i \in 1..c /\ i \in Nat \ {0} /\ m + i <= PIPE_BUF_SIZE /\ m \in 0..PIPE_BUF_SIZE
    BY <1>0
  <2>2. SlotAt(q, i) = SlotAt(r, m + i)
    BY <2>1, ReadSlots
  <2>3. Ring(f, q, c - m)[i] = f[SlotAt(q, i)]
    BY <1>4
  <2>4. SubSeq(old, m + 1, c)[i] = old[m + i]
    BY <1>6
  <2>5. old[m + i] = f[SlotAt(r, m + i)]
    BY <1>2, <2>1
  <2> QED BY ONLY <2>2, <2>3, <2>4, <2>5
<1>9. Ring(f, q, c - m) = SubSeq(old, m + 1, c)
  BY <1>4, <1>6, <1>8, SeqEqual
<1> QED BY <1>7, <1>9 DEF old

----------------------------------------------------------------------------
(* The pipes.                                                              *)

LEMMA PipeParts ==
    ASSUME NEW b \in Pipe
    PROVE  /\ b.in_use \in BOOLEAN /\ b.buf \in [0..PIPE_BUF_SIZE - 1 -> PipeByte]
           /\ b.read_pos \in 0..PIPE_BUF_SIZE - 1 /\ b.write_pos \in 0..PIPE_BUF_SIZE - 1
           /\ b.count \in 0..PIPE_BUF_SIZE
           /\ Held(b) = Ring(b.buf, b.read_pos, b.count)
           /\ b.count \in Nat /\ b.read_pos \in Nat
           /\ Held(b) \in Seq(PipeByte) /\ Len(Held(b)) = b.count
<1>1. /\ b.in_use \in BOOLEAN /\ b.buf \in [0..PIPE_BUF_SIZE - 1 -> PipeByte]
      /\ b.read_pos \in 0..PIPE_BUF_SIZE - 1 /\ b.write_pos \in 0..PIPE_BUF_SIZE - 1
      /\ b.count \in 0..PIPE_BUF_SIZE
  BY DEF Pipe
<1>2. b.count \in Nat /\ b.read_pos \in Nat
  BY <1>1
<1>3. Held(b) = Ring(b.buf, b.read_pos, b.count)
  BY DEF Held
<1>4. Ring(b.buf, b.read_pos, b.count) \in Seq(PipeByte) /\ Len(Ring(b.buf, b.read_pos, b.count)) = b.count
  BY <1>1, <1>2, RingBytes
<1> QED BY <1>1, <1>2, <1>3, <1>4

LEMMA AgreesSlot ==
    ASSUME NEW b \in Pipe
    PROVE  Agrees(b) <=> b.write_pos = SlotAt(b.read_pos, b.count + 1)
<1>1. b.read_pos + (b.count + 1) - 1 = b.read_pos + b.count
  BY PipeParts
<1> QED BY <1>1 DEF Agrees, SlotAt

\* The position behind n more bytes.
LEMMA SlotAfter ==
    ASSUME NEW r \in 0..PIPE_BUF_SIZE - 1, NEW c \in 0..PIPE_BUF_SIZE, NEW n \in Nat, c + n <= PIPE_BUF_SIZE
    PROVE  (SlotAt(r, c + 1) + n) % PIPE_BUF_SIZE = SlotAt(r, c + n + 1)
<1>1. SlotAt(r, c + 1) = IF r + c < PIPE_BUF_SIZE THEN r + c ELSE r + c - PIPE_BUF_SIZE
  <2>1. r + c \in 0..2 * PIPE_BUF_SIZE - 1 /\ r + (c + 1) - 1 = r + c
    OBVIOUS
  <2> QED BY <2>1, Wrapped DEF SlotAt
<1>2. SlotAt(r, c + n + 1) = IF r + c + n < PIPE_BUF_SIZE THEN r + c + n ELSE r + c + n - PIPE_BUF_SIZE
  <2>1. r + c + n \in 0..2 * PIPE_BUF_SIZE - 1 /\ r + (c + n + 1) - 1 = r + c + n
    OBVIOUS
  <2> QED BY <2>1, Wrapped DEF SlotAt
<1> PICK w : w = SlotAt(r, c + 1)
  OBVIOUS
<1>3. w + n \in 0..2 * PIPE_BUF_SIZE - 1
  BY <1>1
<1>4. (w + n) % PIPE_BUF_SIZE = IF w + n < PIPE_BUF_SIZE THEN w + n ELSE w + n - PIPE_BUF_SIZE
  <2> PICK x : x = w + n
    OBVIOUS
  <2>1. x \in 0..2 * PIPE_BUF_SIZE - 1
    BY <1>3
  <2>2. x % PIPE_BUF_SIZE = IF x < PIPE_BUF_SIZE THEN x ELSE x - PIPE_BUF_SIZE
    BY <2>1, Wrapped
  <2> QED BY <1>1, <2>2
<1>5. (w + n) % PIPE_BUF_SIZE = SlotAt(r, c + n + 1)
  BY <1>1, <1>2, <1>4
<1> QED BY <1>5

LEMMA WrittenPipe ==
    ASSUME NEW b \in Pipe, Agrees(b), NEW data \in Seq(PipeByte),
           NEW n \in Nat, n <= Len(data), b.count + n <= PIPE_BUF_SIZE
    PROVE  /\ Written(b, data, n) \in Pipe /\ Agrees(Written(b, data, n))
           /\ Written(b, data, n).in_use = b.in_use
           /\ Held(Written(b, data, n)) = Held(b) \o SubSeq(data, 1, n)
<1> PICK f, r, c, u, w : f = b.buf /\ r = b.read_pos /\ c = b.count /\ u = b.in_use /\ w = b.write_pos
  OBVIOUS
<1>1. /\ f \in [0..PIPE_BUF_SIZE - 1 -> PipeByte] /\ r \in 0..PIPE_BUF_SIZE - 1
      /\ c \in 0..PIPE_BUF_SIZE /\ u \in BOOLEAN /\ Held(b) = Ring(f, r, c) /\ c + n <= PIPE_BUF_SIZE
  BY PipeParts
<1>2. w = SlotAt(r, c + 1)
  BY AgreesSlot
<1> DEFINE g == Overwritten(f, w, data, n)
           d == Written(b, data, n)
<1>3. g \in [0..PIPE_BUF_SIZE - 1 -> PipeByte] /\ Ring(g, r, c + n) = Ring(f, r, c) \o SubSeq(data, 1, n)
  <2> PICK h, e : h = g /\ e = c + n
    OBVIOUS
  <2>1. h = Overwritten(f, w, data, n)
    OBVIOUS
  <2> HIDE DEF g
  <2>2. Appended(f, r, c, data, n, w, h, e)
    BY <1>1, <1>2, <2>1 DEF Appended
  <2>3. Queued(f, r, c, data, n, h, e)
    BY <2>2, RingAppend
  <2> QED BY <2>3 DEF Queued
<1>4. d = [in_use |-> u, buf |-> g, read_pos |-> r, write_pos |-> (w + n) % PIPE_BUF_SIZE, count |-> c + n]
  <2>1. b = [in_use |-> u, buf |-> f, read_pos |-> r, write_pos |-> w, count |-> c]
    BY DEF Pipe
  <2>2. d = [b EXCEPT !.buf = g, !.write_pos = (w + n) % PIPE_BUF_SIZE, !.count = c + n]
    BY DEF Written
  <2> HIDE DEF g, d
  <2> QED BY <2>1, <2>2
<1> HIDE DEF g, d
<1>5. (w + n) % PIPE_BUF_SIZE = SlotAt(r, c + n + 1)
  BY <1>1, <1>2, SlotAfter
<1>6. SlotAt(r, c + n + 1) \in 0..PIPE_BUF_SIZE - 1
  <2>1. r \in Nat /\ c + n + 1 \in Nat
    BY <1>1
  <2> QED BY <2>1, SlotAtType
<1>7. c + n \in 0..PIPE_BUF_SIZE
  BY <1>1
<1>8. d \in Pipe /\ d.in_use = u /\ d.buf = g /\ d.read_pos = r /\ d.count = c + n
      /\ d.write_pos = SlotAt(r, c + n + 1)
  BY <1>1, <1>3, <1>4, <1>5, <1>6, <1>7 DEF Pipe
<1>9. Held(d) = Ring(g, r, c + n)
  BY <1>8, PipeParts
<1>10. Agrees(d)
  BY <1>8, AgreesSlot
<1> QED BY <1>1, <1>3, <1>8, <1>9, <1>10 DEF d

LEMMA ReadPipe ==
    ASSUME NEW b \in Pipe, Agrees(b), NEW m \in 0..b.count
    PROVE  /\ ReadFrom(b, m) \in Pipe /\ Agrees(ReadFrom(b, m))
           /\ ReadFrom(b, m).in_use = b.in_use
           /\ Held(ReadFrom(b, m)) = SubSeq(Held(b), m + 1, Len(Held(b)))
           /\ Ring(b.buf, b.read_pos, m) = SubSeq(Held(b), 1, m)
<1> PICK f, r, c, u, w : f = b.buf /\ r = b.read_pos /\ c = b.count /\ u = b.in_use /\ w = b.write_pos
  OBVIOUS
<1>1. /\ f \in [0..PIPE_BUF_SIZE - 1 -> PipeByte] /\ r \in 0..PIPE_BUF_SIZE - 1 /\ w \in 0..PIPE_BUF_SIZE - 1
      /\ c \in 0..PIPE_BUF_SIZE /\ u \in BOOLEAN /\ Held(b) = Ring(f, r, c) /\ Len(Held(b)) = c /\ m \in 0..c
  BY PipeParts
<1>2. w = SlotAt(r, c + 1)
  BY AgreesSlot
<1> DEFINE d == ReadFrom(b, m)
           q == SlotAt(r, m + 1)
<1>3. r + (m + 1) - 1 = r + m
  BY <1>1
<1>4. d = [in_use |-> u, buf |-> f, read_pos |-> q, write_pos |-> w, count |-> c - m]
  <2>1. b = [in_use |-> u, buf |-> f, read_pos |-> r, write_pos |-> w, count |-> c]
    BY DEF Pipe
  <2>2. q = (r + m) % PIPE_BUF_SIZE
    BY <1>3 DEF SlotAt
  <2>3. d = [b EXCEPT !.read_pos = (r + m) % PIPE_BUF_SIZE, !.count = c - m]
    BY DEF ReadFrom
  <2> HIDE DEF q, d
  <2> QED BY <2>1, <2>2, <2>3
<1>5. q \in 0..PIPE_BUF_SIZE - 1
  <2>1. r \in Nat /\ m + 1 \in Nat
    BY <1>1
  <2> QED BY <2>1, SlotAtType
<1>6. SlotAt(q, c - m + 1) = w
  <2>1. CASE m + (c - m + 1) <= PIPE_BUF_SIZE
    <3>1. m \in 0..PIPE_BUF_SIZE /\ c - m + 1 \in Nat \ {0} /\ m + (c - m + 1) = c + 1
      <4>1. c \in 0..PIPE_BUF_SIZE
        BY <1>1
      <4> QED BY ONLY <4>1, m \in 0..c, IpcAssumption
    <3> QED BY <1>1, <1>2, <2>1, <3>1, ReadSlots
  <2>2. CASE ~(m + (c - m + 1) <= PIPE_BUF_SIZE)
    <3>1. c = PIPE_BUF_SIZE
      BY <1>1, <2>2
    <3>2. m \in 0..PIPE_BUF_SIZE /\ PIPE_BUF_SIZE - m \in 0..PIPE_BUF_SIZE /\ 0 \in 0..PIPE_BUF_SIZE
          /\ m + (PIPE_BUF_SIZE - m) <= PIPE_BUF_SIZE /\ PIPE_BUF_SIZE - m \in Nat
      BY <1>1, <3>1
    <3>3. (SlotAt(r, m + 1) + (PIPE_BUF_SIZE - m)) % PIPE_BUF_SIZE = SlotAt(r, m + (PIPE_BUF_SIZE - m) + 1)
      BY <1>1, <3>2, SlotAfter
    <3>4. m + (PIPE_BUF_SIZE - m) + 1 = c + 1 /\ q + (c - m + 1) - 1 = q + (PIPE_BUF_SIZE - m)
      BY <1>1, <1>5, <3>1
    <3> QED BY <1>2, <3>3, <3>4 DEF SlotAt
  <2> QED BY <2>1, <2>2
<1> HIDE DEF d, q
<1>7. d \in Pipe /\ d.in_use = u /\ d.buf = f /\ d.read_pos = q /\ d.count = c - m /\ d.write_pos = w
  BY <1>1, <1>4, <1>5 DEF Pipe
<1>8. Held(d) = Ring(f, q, c - m) /\ Agrees(d)
  BY <1>6, <1>7, PipeParts, AgreesSlot
<1>9. Ring(f, r, m) = SubSeq(Ring(f, r, c), 1, m) /\ Ring(f, q, c - m) = SubSeq(Ring(f, r, c), m + 1, c)
  <2>1. Ring(f, r, m) = SubSeq(Ring(f, r, c), 1, m)
        /\ Ring(f, SlotAt(r, m + 1), c - m) = SubSeq(Ring(f, r, c), m + 1, c)
    <3>1. f \in [0..PIPE_BUF_SIZE - 1 -> PipeByte] /\ r \in 0..PIPE_BUF_SIZE - 1 /\ c \in 0..PIPE_BUF_SIZE
      BY <1>1
    <3> QED BY ONLY <3>1, m \in 0..c, RingDrop
  <2> QED BY <2>1 DEF q
<1> QED BY <1>1, <1>7, <1>8, <1>9 DEF d

----------------------------------------------------------------------------
(* The tables: what a change of one entry does to what Channels sees.      *)

OpenPipes == {p \in DOMAIN pipes : pipes[p].in_use}
Inside == [p \in DOMAIN pipes |-> Held(pipes[p])]
Slots(x) == {i \in DOMAIN mq : mq[i] = x}
FullSlots == {i \in DOMAIN mq : mq[i] # Vacant}

LEMMA PipeChanged ==
    ASSUME IpcInv, NEW p \in 0..MAX_PIPES - 1, NEW d \in Pipe, Agrees(d),
           pipes' = [pipes EXCEPT ![p] = d], mq' = mq
    PROVE  /\ IpcInv'
           /\ Inside' = [Inside EXCEPT ![p] = Held(d)]
           /\ d.in_use = pipes[p].in_use => OpenPipes' = OpenPipes
           /\ d.in_use => OpenPipes' = OpenPipes \cup {p}
<1> USE DEF IpcInv
<1>1. /\ pipes' \in [0..MAX_PIPES - 1 -> Pipe] /\ pipes'[p] = d
      /\ \A q \in 0..MAX_PIPES - 1 : q # p => pipes'[q] = pipes[q]
  OBVIOUS
<1>2. \A q \in 0..MAX_PIPES - 1 : Agrees(pipes'[q])
  BY <1>1
<1>3. IpcInv'
  BY <1>1, <1>2 DEF Agrees
<1>4. Inside' = [Inside EXCEPT ![p] = Held(d)]
  <2>1. \A q \in 0..MAX_PIPES - 1 : Held(pipes'[q]) = IF q = p THEN Held(d) ELSE Held(pipes[q])
    BY <1>1
  <2>2. Inside' = [q \in 0..MAX_PIPES - 1 |-> Held(pipes'[q])]
    BY <1>1 DEF Inside, Held
  <2>3. Inside = [q \in 0..MAX_PIPES - 1 |-> Held(pipes[q])]
    BY DEF Inside
  <2> QED BY <2>1, <2>2, <2>3
<1>5. d.in_use = pipes[p].in_use => OpenPipes' = OpenPipes
  BY <1>1 DEF OpenPipes
<1>6. d.in_use => OpenPipes' = OpenPipes \cup {p}
  BY <1>1 DEF OpenPipes
<1> QED BY <1>3, <1>4, <1>5, <1>6

LEMMA SlotsFinite ==
    ASSUME IpcInv
    PROVE  /\ \A x \in Payload : IsFiniteSet(Slots(x)) /\ Cardinality(Slots(x)) \in Nat
           /\ IsFiniteSet(FullSlots) /\ Cardinality(FullSlots) \in Nat
           /\ FullSlots # 0..MAX_MSGS - 1 => Cardinality(FullSlots) < MAX_MSGS
<1>1. MAX_MSGS \in Nat /\ 0 \in Int /\ MAX_MSGS - 1 \in Int
  OBVIOUS
<1>2. /\ IsFiniteSet(0..MAX_MSGS - 1)
      /\ Cardinality(0..MAX_MSGS - 1) = IF 0 > MAX_MSGS - 1 THEN 0 ELSE (MAX_MSGS - 1) - 0 + 1
  BY <1>1, FS_Interval
<1>3. \A x : Slots(x) \in SUBSET (0..MAX_MSGS - 1)
  BY DEF IpcInv, Slots
<1>4. FullSlots \in SUBSET (0..MAX_MSGS - 1)
  BY DEF IpcInv, FullSlots
<1>5. \A x : IsFiniteSet(Slots(x))
  BY <1>2, <1>3, FS_Subset
<1>6. IsFiniteSet(FullSlots) /\ Cardinality(FullSlots) <= Cardinality(0..MAX_MSGS - 1)
      /\ (Cardinality(FullSlots) = Cardinality(0..MAX_MSGS - 1) => FullSlots = 0..MAX_MSGS - 1)
  BY <1>2, <1>4, FS_Subset
<1>7. Cardinality(FullSlots) \in Nat /\ \A x : Cardinality(Slots(x)) \in Nat
  BY <1>5, <1>6, FS_CardinalityType
<1>8. Cardinality(0..MAX_MSGS - 1) = MAX_MSGS
  BY <1>1, <1>2
<1>9. FullSlots # 0..MAX_MSGS - 1 => Cardinality(FullSlots) < MAX_MSGS
  BY <1>1, <1>6, <1>7, <1>8
<1> QED BY <1>5, <1>6, <1>7, <1>9

----------------------------------------------------------------------------
(* The steps.                                                              *)

LEMMA IpcBegins == IpcInit => IpcInv
<1> SUFFICES ASSUME IpcInit PROVE IpcInv
  OBVIOUS
<1>1. PICK b \in PipeByte :
          pipes = [p \in 0..MAX_PIPES - 1 |->
                     [in_use |-> FALSE, buf |-> [s \in 0..PIPE_BUF_SIZE - 1 |-> b],
                      read_pos |-> 0, write_pos |-> 0, count |-> 0]]
  BY DEF IpcInit
<1>2. 0 \in 0..PIPE_BUF_SIZE - 1 /\ 0 \in 0..PIPE_BUF_SIZE /\ (0 + 0) % PIPE_BUF_SIZE = 0
  OBVIOUS
<1> QED BY <1>1, <1>2 DEF IpcInit, IpcInv, Pipe, Agrees

\* pipe_create: an empty pipe more.
LEMMA CreateStep ==
    ASSUME IpcInv, NEW p \in DOMAIN pipes, PipeCreate(p)
    PROVE  IpcInv' /\ C!Open
<1>1. p \in 0..MAX_PIPES - 1 /\ pipes[p] \in Pipe
  BY DEF IpcInv
<1> PICK f : f = pipes[p].buf
  OBVIOUS
<1> DEFINE d == [in_use |-> TRUE, buf |-> f, read_pos |-> 0, write_pos |-> 0, count |-> 0]
<1>3. pipes' = [pipes EXCEPT ![p] = d] /\ mq' = mq /\ got' = got /\ received' = received /\ ~pipes[p].in_use
  BY DEF PipeCreate
<1>4. d \in Pipe /\ Agrees(d) /\ d.in_use
  <2>1. 0 \in 0..PIPE_BUF_SIZE - 1 /\ 0 \in 0..PIPE_BUF_SIZE /\ (0 + 0) % PIPE_BUF_SIZE = 0
    OBVIOUS
  <2> QED BY <1>1, <2>1 DEF Pipe, Agrees
<1>5. Held(d) = <<>>
  <2>1. Held(d) \in Seq(PipeByte) /\ Len(Held(d)) = 0
    BY <1>4, PipeParts
  <2> QED BY <2>1, EmptySeq
<1> HIDE DEF d
<1>6. IpcInv' /\ Inside' = [Inside EXCEPT ![p] = <<>>] /\ OpenPipes' = OpenPipes \cup {p}
  BY <1>1, <1>3, <1>4, <1>5, PipeChanged
<1>7. p \in 0..MAX_PIPES - 1 /\ p \notin OpenPipes
  BY <1>1, <1>3 DEF OpenPipes
<1>8. C!Open
  BY <1>3, <1>6, <1>7 DEF C!Open, OpenPipes, Inside
<1> QED BY <1>6, <1>8

\* pipe_write: the first bytes of the data, as many as there is room for.
LEMMA WriteStep ==
    ASSUME IpcInv, NEW p \in DOMAIN pipes, NEW k \in Nat, NEW data \in [1..k -> PipeByte], PipeWrite(p, data)
    PROVE  IpcInv' /\ \E n \in 0..PIPE_BUF_SIZE + 1 : \E first \in [1..n -> PipeByte] : C!Write(p, first)
<1>1. p \in 0..MAX_PIPES - 1 /\ pipes[p] \in Pipe /\ Agrees(pipes[p])
  BY DEF IpcInv
<1> PICK b, c : b = pipes[p] /\ c = b.count
  OBVIOUS
<1> DEFINE n == Writable(b, Len(data))
           d == Written(b, data, n)
           first == SubSeq(data, 1, n)
<1>2. data \in Seq(PipeByte) /\ Len(data) = k
  BY SeqDef, LenProperties
<1>3. c \in 0..PIPE_BUF_SIZE /\ Held(b) \in Seq(PipeByte) /\ Len(Held(b)) = c
  BY <1>1, PipeParts
<1>4. n \in Nat /\ n <= Len(data) /\ c + n <= PIPE_BUF_SIZE
  BY <1>2, <1>3 DEF Writable, Smaller
<1>5. pipes[p].in_use /\ pipes' = [pipes EXCEPT ![p] = d] /\ mq' = mq /\ got' = got /\ received' = received
  BY DEF PipeWrite
<1> HIDE DEF n
<1>6. d \in Pipe /\ Agrees(d) /\ d.in_use = b.in_use /\ Held(d) = Held(b) \o first
  BY <1>1, <1>2, <1>4, WrittenPipe
<1> HIDE DEF d
<1>7. /\ first \in Seq(PipeByte) /\ Len(first) = n
      /\ \A i \in 1..n : first[i] = data[i] /\ data[i] \in PipeByte
  BY <1>2, <1>4, FirstOf
<1> HIDE DEF first
<1>8. first \in [1..n -> PipeByte]
  <2>1. \A i \in 1..n : first[i] \in PipeByte
    BY <1>7
  <2>2. first \in [1..Len(first) -> PipeByte]
    BY <1>7, LenProperties
  <2> QED BY <1>7, <2>2
<1>9. SubSeq(first, 1, n) = first
  <2>1. n <= Len(first) /\ n \in Nat
    BY <1>4, <1>7
  <2>2. /\ SubSeq(first, 1, n) \in Seq(PipeByte) /\ Len(SubSeq(first, 1, n)) = n
        /\ \A i \in 1..n : SubSeq(first, 1, n)[i] = first[i]
    BY <1>7, <2>1, FirstOf
  <2> QED BY <1>7, <2>2, SeqEqual
<1>10. IpcInv' /\ Inside' = [Inside EXCEPT ![p] = Held(b) \o first] /\ OpenPipes' = OpenPipes
  BY <1>1, <1>5, <1>6, PipeChanged
<1>11. Inside[p] = Held(b) /\ p \in OpenPipes
  BY <1>1, <1>5 DEF Inside, OpenPipes
<1>12. n \in 0..PIPE_BUF_SIZE + 1 /\ C!Some(Len(first), PIPE_BUF_SIZE - Len(Inside[p])) = n
  BY <1>3, <1>4, <1>7, <1>11 DEF C!Some
<1>13. C!Write(p, first)
  <2>1. Inside' = [Inside EXCEPT ![p] = Inside[p] \o SubSeq(first, 1, C!Some(Len(first), PIPE_BUF_SIZE - Len(Inside[p])))]
    BY <1>9, <1>10, <1>11, <1>12
  <2> QED BY <1>5, <1>10, <1>11, <2>1 DEF C!Write, Inside, OpenPipes
<1> QED BY <1>8, <1>10, <1>12, <1>13

\* pipe_read: the first bytes that wait.
LEMMA ReadStep ==
    ASSUME IpcInv, NEW p \in DOMAIN pipes, NEW k \in Nat, PipeRead(p, k)
    PROVE  IpcInv' /\ \E m \in 0..PIPE_BUF_SIZE + 1 : C!Read(p, m)
<1>1. p \in 0..MAX_PIPES - 1 /\ pipes[p] \in Pipe /\ Agrees(pipes[p])
  BY DEF IpcInv
<1> PICK b, c, m : b = pipes[p] /\ c = b.count /\ m = Smaller(k, c)
  OBVIOUS
<1> DEFINE d == ReadFrom(b, m)
<1>2. c \in 0..PIPE_BUF_SIZE /\ Held(b) \in Seq(PipeByte) /\ Len(Held(b)) = c
  BY <1>1, PipeParts
<1>3. m \in 0..c
  BY <1>2 DEF Smaller
<1>4. /\ pipes[p].in_use /\ pipes' = [pipes EXCEPT ![p] = d] /\ mq' = mq /\ received' = received
      /\ got' = Ring(b.buf, b.read_pos, m)
  BY DEF PipeRead
<1>5. /\ d \in Pipe /\ Agrees(d) /\ d.in_use = b.in_use
      /\ Held(d) = SubSeq(Held(b), m + 1, Len(Held(b)))
      /\ Ring(b.buf, b.read_pos, m) = SubSeq(Held(b), 1, m)
  BY <1>1, <1>3, ReadPipe
<1> HIDE DEF d
<1>6. IpcInv' /\ Inside' = [Inside EXCEPT ![p] = Held(d)] /\ OpenPipes' = OpenPipes
  BY <1>1, <1>4, <1>5, PipeChanged
<1>7. Inside[p] = Held(b) /\ p \in OpenPipes
  BY <1>1, <1>4 DEF Inside, OpenPipes
<1>8. m \in 0..PIPE_BUF_SIZE + 1 /\ C!Some(m, Len(Inside[p])) = m
  BY <1>2, <1>3, <1>7 DEF C!Some
<1>9. C!Read(p, m)
  <2>1. /\ got' = SubSeq(Inside[p], 1, C!Some(m, Len(Inside[p])))
        /\ Inside' = [Inside EXCEPT ![p] = SubSeq(Inside[p], C!Some(m, Len(Inside[p])) + 1, Len(Inside[p]))]
    BY <1>4, <1>5, <1>6, <1>7, <1>8
  <2> QED BY <1>4, <1>6, <1>7, <2>1 DEF C!Read, Inside, OpenPipes
<1> QED BY <1>6, <1>8, <1>9

LEMMA QueueChanged ==
    ASSUME IpcInv, NEW i \in DOMAIN mq, NEW v \in Payload \cup {Vacant},
           mq' = [mq EXCEPT ![i] = v], pipes' = pipes
    PROVE  /\ IpcInv'
           /\ \A x \in Payload : Slots(x)' = IF x = v THEN Slots(x) \cup {i} ELSE Slots(x) \ {i}
           /\ FullSlots' = IF v = Vacant THEN FullSlots \ {i} ELSE FullSlots \cup {i}
<1> USE DEF IpcInv
<1>1. /\ i \in 0..MAX_MSGS - 1
      /\ mq' \in [0..MAX_MSGS - 1 -> Payload \cup {Vacant}] /\ mq'[i] = v
      /\ \A j \in 0..MAX_MSGS - 1 : j # i => mq'[j] = mq[j]
  OBVIOUS
<1>2. \A x \in Payload : Slots(x)' = IF x = v THEN Slots(x) \cup {i} ELSE Slots(x) \ {i}
  BY <1>1 DEF Slots
<1>3. FullSlots' = IF v = Vacant THEN FullSlots \ {i} ELSE FullSlots \cup {i}
  BY <1>1 DEF FullSlots
<1> QED BY <1>1, <1>2, <1>3 DEF Agrees

Mail == [x \in Payload |-> Cardinality(Slots(x))]
Waiting == Cardinality(FullSlots)

\* mq_send: one letter more, which is possible as long as a slot is free.
LEMMA SendStep ==
    ASSUME IpcInv, NEW i \in DOMAIN mq, NEW payload \in Payload, MqSend(i, payload)
    PROVE  IpcInv' /\ C!Post(payload)
<1>1. /\ mq[i] = Vacant /\ mq' = [mq EXCEPT ![i] = payload]
      /\ pipes' = pipes /\ got' = got /\ received' = received /\ i \in 0..MAX_MSGS - 1
  BY DEF MqSend, IpcInv
<1>2. payload # Vacant
  OBVIOUS
<1>3. /\ IpcInv'
      /\ \A x \in Payload : Slots(x)' = IF x = payload THEN Slots(x) \cup {i} ELSE Slots(x) \ {i}
      /\ FullSlots' = FullSlots \cup {i}
  BY <1>1, <1>2, QueueChanged
<1>4. /\ i \notin FullSlots /\ FullSlots # 0..MAX_MSGS - 1
      /\ \A x \in Payload : i \notin Slots(x)
  BY <1>1 DEF Slots, FullSlots
<1>5. /\ \A x \in Payload : IsFiniteSet(Slots(x)) /\ Cardinality(Slots(x)) \in Nat
      /\ IsFiniteSet(FullSlots) /\ Waiting < MAX_MSGS
  BY <1>4, SlotsFinite DEF Waiting
<1>6. Waiting' = Waiting + 1
  BY <1>3, <1>4, <1>5, FS_AddElement DEF Waiting
<1>7. Mail' = [Mail EXCEPT ![payload] = Mail[payload] + 1]
  <2>1. Cardinality(Slots(payload) \cup {i}) = Cardinality(Slots(payload)) + 1
    BY <1>4, <1>5, FS_AddElement
  <2>2. \A x \in Payload : Slots(x)' = IF x = payload THEN Slots(x) \cup {i} ELSE Slots(x)
    BY <1>3, <1>4
  <2>3. \A x \in Payload : Mail'[x] = IF x = payload THEN Mail[x] + 1 ELSE Mail[x]
    BY <2>1, <2>2 DEF Mail
  <2> QED BY <2>3 DEF Mail
<1>8. C!Post(payload)
  BY <1>1, <1>5, <1>6, <1>7 DEF C!Post, Mail, Waiting, Slots, FullSlots
<1> QED BY <1>3, <1>8

\* mq_recv: the letter that is handed out is in no slot any more.
LEMMA RecvStep ==
    ASSUME IpcInv, NEW i \in DOMAIN mq, MqRecv(i)
    PROVE  IpcInv' /\ \E x \in Payload : C!Collect(x)
<1> PICK y : y = mq[i]
  OBVIOUS
<1>1. /\ y \in Payload /\ y # Vacant /\ received' = y /\ mq' = [mq EXCEPT ![i] = Vacant]
      /\ pipes' = pipes /\ got' = got /\ i \in 0..MAX_MSGS - 1
  BY DEF MqRecv, IpcInv
<1>2. /\ IpcInv'
      /\ \A x \in Payload : Slots(x)' = Slots(x) \ {i}
      /\ FullSlots' = FullSlots \ {i}
  BY <1>1, QueueChanged
<1>3. /\ i \in FullSlots /\ i \in Slots(y)
      /\ \A x \in Payload : x # y => i \notin Slots(x)
  BY <1>1 DEF Slots, FullSlots
<1>4. /\ \A x \in Payload : IsFiniteSet(Slots(x)) /\ Cardinality(Slots(x)) \in Nat
      /\ IsFiniteSet(FullSlots)
  BY SlotsFinite
<1>5. Waiting' = Waiting - 1
  BY <1>2, <1>3, <1>4, FS_RemoveElement DEF Waiting
<1>6. Cardinality(Slots(y) \ {i}) = Cardinality(Slots(y)) - 1
  BY <1>1, <1>3, <1>4, FS_RemoveElement
<1>7. Mail' = [Mail EXCEPT ![y] = Mail[y] - 1]
  <2>1. \A x \in Payload : Slots(x)' = IF x = y THEN Slots(x) \ {i} ELSE Slots(x)
    BY <1>2, <1>3
  <2>2. \A x \in Payload : Mail'[x] = IF x = y THEN Mail[x] - 1 ELSE Mail[x]
    BY <1>6, <2>1 DEF Mail
  <2> QED BY <2>2 DEF Mail
<1>8. Mail[y] > 0
  <2>1. Cardinality(Slots(y) \ {i}) \in Nat
    <3>1. IsFiniteSet(Slots(y) \ {i})
      BY <1>1, <1>4, FS_RemoveElement
    <3> QED BY <3>1, FS_CardinalityType
  <2> QED BY <1>1, <1>4, <1>6, <2>1 DEF Mail
<1>9. C!Collect(y)
  BY <1>1, <1>5, <1>7, <1>8 DEF C!Collect, Mail, Waiting, Slots, FullSlots
<1> QED BY <1>1, <1>2, <1>9

----------------------------------------------------------------------------
(* The theorems.                                                           *)

LEMMA IpcStep ==
    ASSUME IpcInv, IpcNext
    PROVE  IpcInv' /\ C!ChannelNext
<1>0. DOMAIN pipes = 0..MAX_PIPES - 1
  BY DEF IpcInv
<1>1. CASE \E p \in DOMAIN pipes : PipeCreate(p)
  BY <1>1, CreateStep DEF C!ChannelNext
<1>2. CASE \E p \in DOMAIN pipes, n \in 0..MostBytes : PipeRead(p, n)
  <2> PICK p \in DOMAIN pipes, n \in 0..MostBytes : PipeRead(p, n)
    BY <1>2
  <2>1. n \in Nat
    OBVIOUS
  <2>2. IpcInv' /\ \E m \in 0..PIPE_BUF_SIZE + 1 : C!Read(p, m)
    BY <2>1, ReadStep
  <2> QED BY <1>0, <2>2 DEF C!ChannelNext
<1>3. CASE \E p \in DOMAIN pipes, n \in 0..MostBytes : \E data \in [1..n -> PipeByte] : PipeWrite(p, data)
  <2> PICK p \in DOMAIN pipes, n \in 0..MostBytes : \E data \in [1..n -> PipeByte] : PipeWrite(p, data)
    BY <1>3
  <2> PICK data \in [1..n -> PipeByte] : PipeWrite(p, data)
    OBVIOUS
  <2>1. n \in Nat
    OBVIOUS
  <2>2. IpcInv' /\ \E m \in 0..PIPE_BUF_SIZE + 1 : \E first \in [1..m -> PipeByte] : C!Write(p, first)
    BY <2>1, WriteStep
  <2> QED BY <1>0, <2>2 DEF C!ChannelNext
<1>4. CASE \E i \in DOMAIN mq : MqRecv(i)
  BY <1>4, RecvStep DEF C!ChannelNext
<1>5. CASE \E i \in DOMAIN mq : \E payload \in Payload : MqSend(i, payload)
  BY <1>5, SendStep DEF C!ChannelNext
<1> QED BY <1>1, <1>2, <1>3, <1>4, <1>5 DEF IpcNext

LEMMA IpcStutter ==
    ASSUME IpcInv, UNCHANGED ipcVars
    PROVE  IpcInv' /\ UNCHANGED C!channelVars
<1>1. IpcInv'
  BY DEF IpcInv, ipcVars, Agrees
<1>2. UNCHANGED C!channelVars
  BY DEF ipcVars, C!channelVars, Held, Ring
<1> QED BY <1>1, <1>2

LEMMA IpcBeginsEmpty == IpcInit => C!ChannelInit
<1> SUFFICES ASSUME IpcInit PROVE C!ChannelInit
  OBVIOUS
<1>1. IpcInv
  BY IpcBegins
<1>2. /\ DOMAIN pipes = 0..MAX_PIPES - 1 /\ mq = [i \in 0..MAX_MSGS - 1 |-> Vacant] /\ got = <<>>
      /\ \A p \in DOMAIN pipes : ~pipes[p].in_use /\ pipes[p].count = 0
  BY DEF IpcInit
<1>3. \A p \in DOMAIN pipes : Held(pipes[p]) = <<>>
  <2> SUFFICES ASSUME NEW p \in DOMAIN pipes PROVE Held(pipes[p]) = <<>>
    OBVIOUS
  <2>1. Held(pipes[p]) \in Seq(PipeByte) /\ Len(Held(pipes[p])) = 0
    BY <1>1, <1>2, PipeParts DEF IpcInv
  <2> QED BY <2>1, EmptySeq
<1>4. FullSlots = {} /\ \A x \in Payload : Slots(x) = {}
  BY <1>2 DEF FullSlots, Slots
<1>5. Cardinality({}) = 0
  BY FS_EmptySet
<1>6. Mail = [x \in Payload |-> 0] /\ Waiting = 0
  BY <1>4, <1>5 DEF Mail, Waiting
<1> QED BY <1>2, <1>3, <1>6 DEF C!ChannelInit, Mail, Waiting, Slots, FullSlots

\* Every pipe's positions and count stay in bounds and agree, and a slot of the
\* message queue holds a message or none.
THEOREM IpcInvariance == IpcSpec => []IpcInv
<1>1. IpcInit => IpcInv
  BY IpcBegins
<1>2. IpcInv /\ [IpcNext]_ipcVars => IpcInv'
  BY IpcStep, IpcStutter
<1> QED BY <1>1, <1>2, PTL DEF IpcSpec

\* pipe_write and pipe_read lose, add and reorder no byte, over any number of turns
\* round the ring, and mq_recv gives out each message that mq_send took, once.
THEOREM ImplementsChannels == IpcSpec => ChannelSpec
<1>1. IpcInit => C!ChannelInit
  BY IpcBeginsEmpty
<1>2. IpcInv /\ [IpcNext]_ipcVars => [C!ChannelNext]_C!channelVars
  BY IpcStep, IpcStutter
<1> QED BY <1>1, <1>2, IpcInvariance, PTL DEF IpcSpec, ChannelSpec, C!ChannelSpec

----------------------------------------------------------------------------
(* The keyboard.                                                           *)

HIDE IpcAssumption

USE KeyboardAssumption

KeySlots == 0..KB_BUFFER_SIZE - 1
Chars == Char \cup {Blank}

\* The slot n places after slot p.
Around(p, n) == IF p + n < KB_BUFFER_SIZE THEN p + n ELSE p + n - KB_BUFFER_SIZE

\* The characters that wait are in the ring, in the order typed.
RingHolds ==
    /\ Unread <= KB_BUFFER_SIZE
    /\ kb_write_pos = Around(kb_read_pos, Unread)
    /\ \A i \in 1..Unread : kb_buffer[Around(kb_read_pos, i - 1)] = pushed[Len(fetched) + i]
    /\ \A i \in 1..Len(fetched) : fetched[i] = pushed[i]

KeyInv ==
    /\ kb_buffer \in [KeySlots -> Chars]
    /\ kb_read_pos \in KeySlots /\ kb_write_pos \in KeySlots
    /\ kb_count \in 0..KB_BUFFER_SIZE /\ kb_count <= Unread
    /\ loaded \in {-1} \cup 1..kb_count
    /\ pushed \in Seq(Chars) /\ fetched \in Seq(Chars)
    /\ raced \in BOOLEAN /\ lapped \in BOOLEAN
    /\ ~lapped => RingHolds
    /\ ~raced => ~lapped /\ kb_count = Unread /\ loaded \in {-1, kb_count}

LEMMA NextAround ==
    ASSUME NEW p \in KeySlots
    PROVE  NextPos(p) = Around(p, 1) /\ NextPos(p) \in KeySlots
BY DEF NextPos, Around, KeySlots

LEMMA PushKeeps ==
    ASSUME KeyInv, NEW c \in Chars, Push(c), UNCHANGED readVars
    PROVE  KeyInv'
<1>1. CASE Room
  <2>1. /\ kb_buffer' = [kb_buffer EXCEPT ![kb_write_pos] = c]
        /\ kb_write_pos' = NextPos(kb_write_pos) /\ kb_count' = kb_count + 1
        /\ pushed' = Append(pushed, c)
        /\ raced' = (raced \/ loaded # -1) /\ lapped' = (lapped \/ Unread = KB_BUFFER_SIZE)
        /\ kb_read_pos' = kb_read_pos /\ loaded' = loaded /\ fetched' = fetched
    BY <1>1 DEF Push, readVars
  <2>2. kb_count < KB_BUFFER_SIZE
    BY <1>1 DEF Room
  <2>3. PICK n \in Nat, u \in Nat, m \in Nat : n = Len(pushed) /\ m = Len(fetched) /\ u = n - m /\ u = Unread
    BY DEF KeyInv, Unread
  <2>4. /\ pushed' \in Seq(Chars) /\ Len(pushed') = n + 1 /\ pushed'[n + 1] = c
        /\ \A i \in 1..n : pushed'[i] = pushed[i]
    BY <2>1, <2>3 DEF KeyInv
  <2>5. Unread' = u + 1
    BY <2>1, <2>3, <2>4 DEF Unread
  <2>6. /\ kb_buffer' \in [KeySlots -> Chars] /\ kb_write_pos' \in KeySlots
        /\ kb_count' \in 0..KB_BUFFER_SIZE /\ kb_count' <= Unread' /\ loaded' \in {-1} \cup 1..kb_count'
        /\ raced' \in BOOLEAN /\ lapped' \in BOOLEAN
    BY <2>1, <2>2, <2>3, <2>5, NextAround DEF KeyInv
  <2>7. ASSUME ~lapped' PROVE RingHolds'
    <3>1. ~lapped /\ u # KB_BUFFER_SIZE
      BY <2>1, <2>3, <2>7
    <3>2. RingHolds /\ u < KB_BUFFER_SIZE
      <4>1. RingHolds
        BY <3>1 DEF KeyInv
      <4>2. u <= KB_BUFFER_SIZE
        BY <2>3, <4>1 DEF RingHolds
      <4> QED BY ONLY <3>1, <4>1, <4>2, u \in Nat, KeyboardAssumption
    <3>3. PICK r \in KeySlots, w \in KeySlots : r = kb_read_pos /\ w = kb_write_pos
      BY DEF KeyInv
    <3>4. w = Around(r, u)
      BY <2>3, <3>2, <3>3 DEF RingHolds
    <3>5. kb_write_pos' = Around(r, u + 1)
      <4>1. kb_write_pos' = Around(w, 1)
        BY <2>1, <3>3, NextAround
      <4>2. Around(w, 1) = Around(r, u + 1)
        BY ONLY <3>2, <3>4, u \in Nat, r \in KeySlots, KeyboardAssumption DEF Around, KeySlots
      <4> QED BY <4>1, <4>2
    <3>6. \A i \in 1..u : Around(r, i - 1) # w /\ Around(r, i - 1) \in KeySlots
      BY <2>3, <3>2, <3>4 DEF Around, KeySlots
    <3>7. ASSUME NEW i \in 1..u + 1 PROVE kb_buffer'[Around(r, i - 1)] = pushed'[m + i]
      <4>1. CASE i = u + 1
        <5>1. Around(r, i - 1) = w /\ m + i = n + 1
          BY <2>3, <3>4, <4>1
        <5> QED BY <2>1, <2>4, <3>3, <5>1 DEF KeyInv
      <4>2. CASE i # u + 1
        <5>1. i \in 1..u /\ m + i \in 1..n
          BY <2>3, <4>2
        <5>2. kb_buffer'[Around(r, i - 1)] = kb_buffer[Around(r, i - 1)]
          BY <2>1, <3>3, <3>6, <5>1 DEF KeyInv
        <5>3. kb_buffer[Around(r, i - 1)] = pushed[m + i]
          BY <2>3, <3>2, <3>3, <5>1 DEF RingHolds
        <5> QED BY <2>4, <5>1, <5>2, <5>3
      <4> QED BY <4>1, <4>2
    <3>8. ASSUME NEW i \in 1..m PROVE fetched[i] = pushed'[i]
      <4>1. i \in 1..n
        BY <2>3
      <4> QED BY <2>3, <2>4, <3>2, <4>1 DEF RingHolds
    <3>9. u + 1 <= KB_BUFFER_SIZE
      BY <3>2
    <3>10. Unread' = u + 1 /\ kb_read_pos' = r /\ Len(fetched)' = m /\ fetched' = fetched
      BY <2>1, <2>3, <2>5, <3>3
    <3> QED BY <3>5, <3>7, <3>8, <3>9, <3>10 DEF RingHolds
  <2>8. ASSUME ~raced' PROVE ~lapped' /\ kb_count' = Unread' /\ loaded' \in {-1, kb_count'}
    <3>1. ~raced /\ loaded = -1
      BY <2>1, <2>8
    <3>2. ~lapped /\ kb_count = u
      BY <2>3, <3>1 DEF KeyInv
    <3>3. u # KB_BUFFER_SIZE
      BY <2>2, <3>2
    <3>4. ~lapped'
      BY <2>1, <2>3, <3>2, <3>3
    <3> QED BY <2>1, <2>5, <3>1, <3>2, <3>4
  <2> QED BY <2>1, <2>4, <2>6, <2>7, <2>8 DEF KeyInv
<1>2. CASE ~Room
  BY <1>2 DEF Push, KeyInv, RingHolds, Unread, ringVars, readVars
<1> QED BY <1>1, <1>2

LEMMA StoreKeeps ==
    ASSUME KeyInv, Store PROVE KeyInv'
<1>1. /\ loaded # -1 /\ kb_count' = loaded - 1
      /\ fetched' = Append(fetched, kb_buffer[kb_read_pos]) /\ kb_read_pos' = NextPos(kb_read_pos)
      /\ loaded' = -1
      /\ kb_buffer' = kb_buffer /\ kb_write_pos' = kb_write_pos /\ pushed' = pushed
      /\ raced' = raced /\ lapped' = lapped
  BY DEF Store
<1>2. PICK n \in Nat, m \in Nat, u \in Nat : n = Len(pushed) /\ m = Len(fetched) /\ u = n - m /\ u = Unread
  BY DEF KeyInv, Unread
<1>3. loaded \in 1..kb_count /\ kb_count \in 0..KB_BUFFER_SIZE /\ kb_count <= u /\ u >= 1
  BY <1>1, <1>2 DEF KeyInv
<1>4. PICK r \in KeySlots : r = kb_read_pos /\ kb_read_pos' = Around(r, 1) /\ kb_read_pos' \in KeySlots
  BY <1>1, NextAround DEF KeyInv
<1>5. kb_buffer[r] \in Chars
  BY <1>4 DEF KeyInv
<1>6. /\ fetched' \in Seq(Chars) /\ Len(fetched') = m + 1 /\ fetched'[m + 1] = kb_buffer[r]
      /\ \A i \in 1..m : fetched'[i] = fetched[i]
  BY <1>1, <1>2, <1>4, <1>5 DEF KeyInv
<1>7. Unread' = u - 1
  BY <1>1, <1>2, <1>6 DEF Unread
<1>8. kb_count' \in 0..KB_BUFFER_SIZE /\ kb_count' <= Unread'
  BY <1>1, <1>2, <1>3, <1>7
<1>9. ASSUME ~lapped PROVE RingHolds'
  <2>1. RingHolds /\ u <= KB_BUFFER_SIZE
    BY <1>2, <1>9 DEF KeyInv, RingHolds
  <2>2. kb_write_pos' = Around(kb_read_pos', u - 1)
    <3>1. kb_write_pos' = Around(r, u)
      BY <1>1, <1>2, <1>4, <2>1 DEF RingHolds
    <3>2. Around(r, u) = Around(Around(r, 1), u - 1)
      BY <1>3, <2>1 DEF Around, KeySlots
    <3> QED BY <1>4, <3>1, <3>2
  <2>3. ASSUME NEW i \in 1..u - 1 PROVE kb_buffer[Around(kb_read_pos', i - 1)] = pushed[m + 1 + i]
    <3>1. Around(kb_read_pos', i - 1) = Around(r, i)
      BY <1>3, <1>4, <2>1 DEF Around, KeySlots
    <3>2. i + 1 \in 1..u /\ (i + 1) - 1 = i /\ m + (i + 1) = m + 1 + i
      BY <1>2
    <3>3. kb_buffer[Around(r, (i + 1) - 1)] = pushed[m + (i + 1)]
      BY <1>2, <1>4, <2>1, <3>2 DEF RingHolds
    <3> QED BY <3>1, <3>2, <3>3
  <2>4. kb_buffer[r] = pushed[m + 1]
    <3>1. Around(r, 1 - 1) = r /\ 1 \in 1..u
      BY <1>3 DEF Around, KeySlots
    <3> QED BY <1>2, <1>4, <2>1, <3>1 DEF RingHolds
  <2>5. \A i \in 1..m + 1 : fetched'[i] = pushed[i]
    <3>1. \A i \in 1..m : fetched[i] = pushed[i]
      BY <1>2, <2>1 DEF RingHolds
    <3> QED BY <1>2, <1>6, <2>4, <3>1
  <2>6. /\ Unread' = u - 1 /\ Len(fetched)' = m + 1 /\ u - 1 <= KB_BUFFER_SIZE
        /\ kb_buffer' = kb_buffer /\ pushed' = pushed
    BY <1>1, <1>2, <1>6, <1>7, <2>1
  <2> QED BY <2>2, <2>3, <2>5, <2>6 DEF RingHolds
<1>10. ~raced => ~lapped /\ kb_count' = Unread'
  BY <1>1, <1>2, <1>3, <1>7 DEF KeyInv
<1> QED BY <1>1, <1>4, <1>6, <1>8, <1>9, <1>10 DEF KeyInv

LEMMA KeyKeeps == KeyInv /\ [KeyNext]_keyVars => KeyInv'
<1> SUFFICES ASSUME KeyInv, [KeyNext]_keyVars PROVE KeyInv'
  OBVIOUS
<1>1. ASSUME UNCHANGED ringVars, UNCHANGED readVars PROVE KeyInv'
  BY <1>1 DEF KeyInv, RingHolds, Unread, ringVars, readVars
<1>2. CASE Prefix
  BY <1>1, <1>2 DEF Prefix
<1>3. ASSUME NEW key, Release(key) PROVE KeyInv'
  BY <1>1, <1>3 DEF Release
<1>4. ASSUME NEW key, ExtendedPress(key) PROVE KeyInv'
  <2>1. key \in Arrows => [key |-> key, upper |-> FALSE] \in Chars
    BY DEF Char, Chars
  <2> QED BY <1>1, <1>4, <2>1, PushKeeps DEF ExtendedPress
<1>5. ASSUME NEW key, Modifier(key) PROVE KeyInv'
  BY <1>1, <1>5 DEF Modifier
<1>6. ASSUME NEW key \in Printable, Press(key) PROVE KeyInv'
  <2>1. [key |-> key, upper |-> key \in Printable /\ shift_held # caps_lock] \in Chars
    BY DEF Char, Chars
  <2> QED BY <1>6, <2>1, PushKeeps DEF Press
<1>7. CASE GetEmpty \/ UNCHANGED keyVars
  BY <1>1, <1>7 DEF GetEmpty, keyVars, ringVars, readVars
<1>8. CASE Load
  BY <1>8 DEF Load, KeyInv, RingHolds, Unread, ringVars
<1> QED BY <1>2, <1>3, <1>4, <1>5, <1>6, <1>7, <1>8, StoreKeeps DEF KeyNext

\* What the shell has read is the beginning of what was typed, each character once, as
\* long as none was written over; kb_count never claims more than there is, and without a
\* race of keyboard_getchar with the interrupt it is exact.  For every size of the ring.
THEOREM KeysAreInOrder == KeySpec => []KeysInOrder
<1>1. KeyInit => KeyInv
  <2> SUFFICES ASSUME KeyInit PROVE KeyInv
    OBVIOUS
  <2>1. Blank \in Chars
    BY DEF Chars
  <2>2. /\ kb_buffer = [i \in KeySlots |-> Blank] /\ kb_read_pos = 0 /\ kb_write_pos = 0 /\ kb_count = 0
        /\ loaded = -1 /\ pushed = <<>> /\ fetched = <<>> /\ ~raced /\ ~lapped /\ raced \in BOOLEAN /\ lapped \in BOOLEAN
    BY DEF KeyInit, KeySlots
  <2>3. Unread = 0 /\ Around(0, 0) = 0 /\ 0 \in KeySlots
    BY <2>2 DEF Unread, Around, KeySlots
  <2>4. RingHolds
    BY <2>2, <2>3 DEF RingHolds
  <2>5. kb_buffer \in [KeySlots -> Chars] /\ pushed \in Seq(Chars) /\ fetched \in Seq(Chars)
    BY <2>1, <2>2
  <2> QED BY <2>2, <2>3, <2>4, <2>5 DEF KeyInv
<1>2. KeyInv => KeysInOrder
  <2> SUFFICES ASSUME KeyInv PROVE KeysInOrder
    OBVIOUS
  <2>1. PICK n \in Nat, m \in Nat : n = Len(pushed) /\ m = Len(fetched) /\ Unread = n - m /\ m <= n
    BY DEF KeyInv, Unread
  <2>2. ASSUME ~lapped PROVE fetched = SubSeq(pushed, 1, Len(fetched))
    <3>1. \A i \in 1..m : fetched[i] = pushed[i]
      BY <2>1, <2>2 DEF KeyInv, RingHolds
    <3>2. SubSeq(pushed, 1, m) = [i \in 1..m |-> pushed[i]]
      BY <2>1 DEF KeyInv
    <3>3. fetched = [i \in 1..m |-> fetched[i]]
      BY <2>1 DEF KeyInv
    <3> QED BY <2>1, <3>1, <3>2, <3>3
  <2> QED BY <2>1, <2>2 DEF KeyInv, KeysInOrder
<1> QED BY <1>1, <1>2, KeyKeeps, PTL DEF KeySpec

----------------------------------------------------------------------------
(* The mouse.                                                              *)

HIDE KeyboardAssumption

LEMMA ScreenSizes == FB_WIDTH \in Nat \ {0} /\ FB_HEIGHT \in Nat \ {0}
BY MouseAssumption

USE ScreenSizes

LEMMA PartOf ==
    ASSUME NEW S, NEW s \in Seq(S), NEW i \in 1..Len(s) PROVE s[i] \in S
OBVIOUS

MouseSaid == [dx : -256..255, dy : -256..255, buttons : 0..7]
Byte == 0..255
Columns == 0..FB_WIDTH - 1
Rows == 0..FB_HEIGHT - 1
Buttons == 0..7
\* Records with these fields, whatever they are.
IsMouse(m) == m = [x |-> m.x, y |-> m.y, buttons |-> m.buttons, packet |-> m.packet]
IsMoved(v) == v = [x |-> v.x, y |-> v.y, buttons |-> v.buttons, lost |-> v.lost, move |-> v.move]

\* Without a loss, what is in mouse.packet and on the cable is the packet of the move
\* at work, and the pointer is where the whole packets have put it.
MouseInv ==
    /\ IsMouse(mouse) /\ mouse.x \in Columns /\ mouse.y \in Rows /\ mouse.buttons \in Buttons
    /\ mouse.packet \in Seq(Byte) /\ Len(mouse.packet) <= 2
    /\ cable \in Seq(Byte) /\ Len(cable) <= 3
    /\ IsMoved(moved) /\ moved.x \in Int /\ moved.y \in Int /\ moved.buttons \in Int
    /\ moved.lost \in BOOLEAN /\ moved.move \in MouseSaid
    /\ ~moved.lost =>
         /\ mouse.x = moved.x /\ mouse.y = moved.y /\ mouse.buttons = moved.buttons
         /\ \/ mouse.packet = <<>> /\ cable = <<>>
            \/ mouse.packet \o cable = Packet(moved.move) /\ cable # <<>>

LEMMA WithinRange ==
    ASSUME NEW v \in Int, NEW limit \in Nat \ {0}
    PROVE  Within(v, limit) \in 0..limit - 1
<1>1. PICK a \in Int : a = Min({v, limit - 1}) /\ (a = v \/ a = limit - 1) /\ a <= limit - 1
  <2>1. \E x \in {v, limit - 1} : \A y \in {v, limit - 1} : x <= y
    <3>1. CASE v <= limit - 1
      BY <3>1
    <3>2. CASE ~ (v <= limit - 1)
      BY <3>2
    <3> QED BY <3>1, <3>2
  <2>2. /\ Min({v, limit - 1}) \in {v, limit - 1}
        /\ \A y \in {v, limit - 1} : Min({v, limit - 1}) <= y
    BY <2>1 DEF Min
  <2> QED BY <2>2
<1>2. \E x \in {0, a} : \A y \in {0, a} : x >= y
  <2>1. CASE a <= 0
    BY <2>1
  <2>2. CASE ~ (a <= 0)
    BY <2>2
  <2> QED BY <2>1, <2>2
<1>3. Max({0, a}) \in {0, a} /\ \A y \in {0, a} : Max({0, a}) >= y
  BY <1>2 DEF Max
<1> QED BY <1>1, <1>3 DEF Within

LEMMA SignedInt ==
    ASSUME NEW b \in Byte, NEW first, NEW bit PROVE Signed(b, first, bit) \in Int
<1>1. b \in Int /\ b - 256 \in Int /\ b - 0 \in Int
  BY DEF Byte
<1>2. CASE HasBit(first, bit)
  BY <1>1, <1>2 DEF Signed
<1>3. CASE ~HasBit(first, bit)
  BY <1>1, <1>3 DEF Signed
<1> QED BY <1>2, <1>3

\* The handler reads from a packet what the mouse has put into it.
LEMMA PacketRead ==
    ASSUME NEW m \in MouseSaid
    PROVE  /\ Packet(m) \in Seq(Byte) /\ Len(Packet(m)) = 3
           /\ HasBit(Packet(m)[1], 8) /\ Packet(m)[1] % 8 = m.buttons
           /\ Signed(Packet(m)[2], Packet(m)[1], 16) = m.dx
           /\ Signed(Packet(m)[3], Packet(m)[1], 32) = m.dy
<1>1. m.dx \in -256..255 /\ m.dy \in -256..255 /\ m.buttons \in 0..7
  BY DEF MouseSaid
<1>2. PICK dx \in -256..255, dy \in -256..255, n \in 0..7 : dx = m.dx /\ dy = m.dy /\ n = m.buttons
  BY <1>1
<1>3. PICK a : a = n + 8 + (IF dx < 0 THEN 16 ELSE 0) + (IF dy < 0 THEN 32 ELSE 0)
  OBVIOUS
<1>4. /\ a \in Byte /\ HasBit(a, 8) /\ a % 8 = n
      /\ HasBit(a, 16) <=> dx < 0
      /\ HasBit(a, 32) <=> dy < 0
  BY <1>3 DEF Byte, HasBit
<1>5. /\ dx % 256 \in Byte /\ dx % 256 = IF dx < 0 THEN dx + 256 ELSE dx
      /\ dy % 256 \in Byte /\ dy % 256 = IF dy < 0 THEN dy + 256 ELSE dy
  <2>1. \A d \in -256..255 : d % 256 \in 0..255 /\ d % 256 = IF d < 0 THEN d + 256 ELSE d
    OBVIOUS
  <2> QED BY <2>1 DEF Byte
<1>6. Packet(m) = <<a, dx % 256, dy % 256>>
  BY <1>2, <1>3 DEF Packet
<1> QED BY <1>2, <1>4, <1>5, <1>6 DEF Signed

LEMMA MovedType ==
    ASSUME NEW m, IsMouse(m), m.x \in Columns, m.y \in Rows,
           NEW p \in Seq(Byte), Len(p) = 3
    PROVE  /\ IsMouse(Moved(m, p)) /\ Moved(m, p).packet = <<>>
           /\ Moved(m, p).x \in Columns /\ Moved(m, p).y \in Rows /\ Moved(m, p).buttons \in Buttons
           /\ Moved(m, p).buttons = p[1] % 8
           /\ Moved(m, p).x = Within(m.x + Signed(p[2], p[1], 16), FB_WIDTH)
           /\ Moved(m, p).y = Within(m.y - Signed(p[3], p[1], 32), FB_HEIGHT)
<1>1. p[1] \in Byte /\ p[2] \in Byte /\ p[3] \in Byte
  <2>1. 1 \in 1..Len(p) /\ 2 \in 1..Len(p) /\ 3 \in 1..Len(p)
    OBVIOUS
  <2> QED BY <2>1, PartOf
<1>2. PICK a \in Int, b \in Int, n \in Int : a = p[1] /\ b = Signed(p[2], a, 16) /\ n = Signed(p[3], a, 32)
  <2>1. p[1] \in Int /\ Signed(p[2], p[1], 16) \in Int /\ Signed(p[3], p[1], 32) \in Int
    <3>1. Signed(p[2], p[1], 16) \in Int /\ Signed(p[3], p[1], 32) \in Int
      BY <1>1, SignedInt
    <3>2. p[1] \in Int
      <4>1. \A b \in Byte : b \in Int
        BY DEF Byte
      <4> QED BY <1>1, <4>1, Zenon
    <3> QED BY <3>1, <3>2
  <2> QED BY <2>1
<1>3. m.x + b \in Int /\ m.y - n \in Int /\ a % 8 \in Buttons
  <2>1. m.x \in Int /\ m.y \in Int
    BY DEF Columns, Rows
  <2>2. a % 8 \in 0..7
    BY ONLY a \in Int
  <2> QED BY <2>1, <2>2 DEF Buttons
<1>4. PICK x \in Columns, y \in Rows, k \in Buttons :
          x = Within(m.x + b, FB_WIDTH) /\ y = Within(m.y - n, FB_HEIGHT) /\ k = a % 8
  BY <1>3, WithinRange DEF Columns, Rows
<1>5. Moved(m, p) = [m EXCEPT !.buttons = k, !.packet = <<>>, !.x = x, !.y = y]
  BY <1>2, <1>4 DEF Moved
<1>6. Moved(m, p) = [x |-> x, y |-> y, buttons |-> k, packet |-> <<>>]
  BY <1>5 DEF IsMouse
<1> QED BY <1>2, <1>4, <1>6 DEF IsMouse

\* What joins to a packet of three bytes: the handler's bytes and the rest of the cable.
LEMMA NextByte ==
    ASSUME NEW q \in Seq(Byte), NEW c \in Seq(Byte), NEW s \in Seq(Byte),
           c # <<>>, q \o c = s, Len(s) = 3
    PROVE  /\ Len(q) + Len(c) = 3
           /\ Append(q, Head(c)) \o Tail(c) = s
           /\ \A i \in 1..Len(q) + 1 : Append(q, Head(c))[i] = s[i]
<1>1. PICK a \in Nat, b \in Nat : a = Len(q) /\ b = Len(c) /\ b >= 1
  OBVIOUS
<1>2. Len(s) = a + b
  BY <1>1, ConcatProperties
<1>3. Head(c) = c[1] /\ Head(c) \in Byte /\ Tail(c) \in Seq(Byte) /\ Len(Tail(c)) = b - 1
  BY <1>1
<1>4. PICK p \in Seq(Byte) : p = Append(q, Head(c)) /\ Len(p) = a + 1 /\ p[a + 1] = c[1]
                              /\ \A i \in 1..a : p[i] = q[i]
  <2>1. PICK h \in Byte : h = Head(c) /\ h = c[1]
    BY <1>3
  <2>2. /\ Append(q, h) \in Seq(Byte) /\ Len(Append(q, h)) = a + 1 /\ Append(q, h)[a + 1] = h
        /\ \A i \in 1..a : Append(q, h)[i] = q[i]
    BY <1>1
  <2> QED BY <2>1, <2>2
<1>5. \A i \in 1..a + b : s[i] = IF i <= a THEN q[i] ELSE c[i - a]
  BY <1>1, ConcatProperties
<1>6. \A i \in 1..a + 1 : p[i] = s[i]
  BY <1>1, <1>4, <1>5
<1>7. p \o Tail(c) = s
  <2>1. p \o Tail(c) \in Seq(Byte) /\ Len(p \o Tail(c)) = a + b
    BY <1>1, <1>3, <1>4, ConcatProperties
  <2>2. ASSUME NEW i \in 1..a + b PROVE (p \o Tail(c))[i] = s[i]
    <3>1. CASE i <= a + 1
      BY <1>1, <1>3, <1>4, <1>6, <3>1, ConcatProperties
    <3>2. CASE ~ (i <= a + 1)
      <4>1. (p \o Tail(c))[i] = Tail(c)[i - (a + 1)]
        BY <1>1, <1>3, <1>4, <3>2, ConcatProperties
      <4>2. Tail(c)[i - (a + 1)] = c[i - a]
        <5>1. i - (a + 1) \in 1..Len(Tail(c)) /\ (i - (a + 1)) + 1 = i - a
          BY <1>1, <1>3, <3>2
        <5> QED BY <5>1
      <4>3. s[i] = c[i - a]
        <5>1. ~ (i <= a)
          BY <3>2
        <5> QED BY <1>5, <5>1
      <4> QED BY <4>1, <4>2, <4>3
    <3> QED BY <3>1, <3>2
  <2> QED BY <1>2, <2>1, <2>2, SeqEqual
<1> QED BY <1>1, <1>2, <1>4, <1>6, <1>7

LEMMA HandlerKeeps ==
    ASSUME MouseInv, MouseHandler PROVE MouseInv'
<1>1. /\ cable \in Seq(Byte) /\ cable # <<>> /\ Len(cable) <= 3
      /\ mouse.packet \in Seq(Byte) /\ Len(mouse.packet) <= 2
      /\ IsMouse(mouse) /\ mouse.x \in Columns /\ mouse.y \in Rows /\ mouse.buttons \in Buttons
      /\ IsMoved(moved) /\ moved.x \in Int /\ moved.y \in Int /\ moved.buttons \in Int
      /\ moved.lost \in BOOLEAN /\ moved.move \in MouseSaid
  BY DEF MouseInv, MouseHandler
<1>2. PICK c \in Seq(Byte), q \in Seq(Byte), l \in Nat, n \in Nat :
          c = cable /\ q = mouse.packet /\ l = Len(c) /\ n = Len(q) /\ l \in 1..3 /\ n \in 0..2
  BY <1>1
<1>3. PICK p \in Seq(Byte) : p = Append(q, Head(c)) /\ Len(p) = n + 1
  <2>1. Head(c) \in Byte
    BY <1>1, <1>2
  <2>2. Append(q, Head(c)) \in Seq(Byte) /\ Len(Append(q, Head(c))) = n + 1
    BY <1>2, <2>1
  <2> QED BY <2>2
<1>4. /\ mouse' = IF n + 1 = 3 THEN Moved(mouse, p)
                  ELSE IF n + 1 = 1 /\ ~HasBit(p[1], 8) THEN mouse
                  ELSE [mouse EXCEPT !.packet = p]
      /\ cable' = Tail(c)
      /\ moved' = IF moved.lost \/ l > 1 THEN moved
                  ELSE [moved EXCEPT !.x = Within(moved.x + moved.move.dx, FB_WIDTH),
                                     !.y = Within(moved.y - moved.move.dy, FB_HEIGHT),
                                     !.buttons = moved.move.buttons]
  BY <1>2, <1>3 DEF MouseHandler
<1>5. cable' \in Seq(Byte) /\ Len(cable') = l - 1
  BY <1>2, <1>4
<1>6. /\ IsMouse(mouse') /\ mouse'.x \in Columns /\ mouse'.y \in Rows /\ mouse'.buttons \in Buttons
      /\ mouse'.packet \in Seq(Byte) /\ Len(mouse'.packet) <= 2
  <2>1. CASE n = 2
    <3>1. mouse' = Moved(mouse, p) /\ Len(p) = 3
      BY <1>3, <1>4, <2>1
    <3>2. <<>> \in Seq(Byte) /\ Len(<<>>) = 0
      OBVIOUS
    <3>3. Moved(mouse, p).packet = <<>>
      BY <1>1, <3>1, MovedType
    <3> QED BY <1>1, <3>1, <3>2, <3>3, MovedType
  <2>2. CASE mouse' = mouse
    BY <1>1, <2>2
  <2>3. CASE n # 2 /\ mouse' = [mouse EXCEPT !.packet = p]
    <3>1. mouse' = [x |-> mouse.x, y |-> mouse.y, buttons |-> mouse.buttons, packet |-> p]
      BY <1>1, <2>3 DEF IsMouse
    <3>2. Len(p) <= 2
      <4>1. n \in 0..2 /\ n # 2 /\ Len(p) = n + 1
        BY ONLY <1>2, <1>3, <2>3
      <4>2. n = 0 \/ n = 1
        BY ONLY <4>1
      <4> QED BY ONLY <4>1, <4>2
    <3>3. /\ mouse'.x = mouse.x /\ mouse'.y = mouse.y
          /\ mouse'.buttons = mouse.buttons /\ mouse'.packet = p
      BY ONLY <3>1
    <3>4. IsMouse(mouse')
      BY ONLY <3>1, <3>3 DEF IsMouse
    <3> QED BY ONLY <1>1, <3>2, <3>3, <3>4, p \in Seq(Byte)
  <2>4. n = 2 \/ mouse' = mouse \/ (n # 2 /\ mouse' = [mouse EXCEPT !.packet = p])
    <3>1. n = 2 \/ n + 1 # 3
      BY ONLY n \in Nat
    <3>2. n = 2 \/ n # 2
      OBVIOUS
    <3>3. CASE n # 2
      <4>1. n + 1 # 3
        BY ONLY <3>1, <3>3
      <4>2. mouse' = IF n + 1 = 1 /\ ~HasBit(p[1], 8) THEN mouse ELSE [mouse EXCEPT !.packet = p]
        BY ONLY <1>4, <4>1
      <4>3. CASE n + 1 = 1 /\ ~HasBit(p[1], 8)
        BY ONLY <4>2, <4>3
      <4>4. CASE ~(n + 1 = 1 /\ ~HasBit(p[1], 8))
        BY ONLY <4>2, <4>4, <3>3
      <4> QED BY ONLY <4>3, <4>4
    <3> QED BY ONLY <3>2, <3>3
  <2> QED BY ONLY <2>1, <2>2, <2>3, <2>4
<1>7. PICK dx \in Int, dy \in Int, k \in Int : dx = moved.move.dx /\ dy = moved.move.dy /\ k = moved.move.buttons
  <2>1. \A m \in MouseSaid : m.dx \in Int /\ m.dy \in Int /\ m.buttons \in Int
    <3>1. \A m \in MouseSaid : m.dx \in -256..255 /\ m.dy \in -256..255 /\ m.buttons \in 0..7
      BY DEF MouseSaid
    <3>2. (\A d \in -256..255 : d \in Int) /\ (\A d \in 0..7 : d \in Int)
      OBVIOUS
    <3> QED BY <3>1, <3>2, Zenon
  <2> QED BY <1>1, <2>1
<1>8. PICK x \in Int, y \in Int : x = Within(moved.x + dx, FB_WIDTH) /\ y = Within(moved.y - dy, FB_HEIGHT)
  <2>1. moved.x + dx \in Int /\ moved.y - dy \in Int
    BY <1>1
  <2>2. Within(moved.x + dx, FB_WIDTH) \in 0..FB_WIDTH - 1 /\ Within(moved.y - dy, FB_HEIGHT) \in 0..FB_HEIGHT - 1
    BY <2>1, WithinRange
  <2> QED BY <2>2
<1>9. \/ (moved.lost \/ l > 1) /\ moved' = moved
      \/ /\ ~moved.lost /\ l = 1
         /\ moved' = [x |-> x, y |-> y, buttons |-> k, lost |-> moved.lost, move |-> moved.move]
  <2>1. CASE moved.lost \/ l > 1
    BY <1>4, <2>1
  <2>2. CASE ~ (moved.lost \/ l > 1)
    <3>1. moved' = [moved EXCEPT !.x = x, !.y = y, !.buttons = k]
      BY <1>4, <1>7, <1>8, <2>2
    <3>2. l = 1
      BY <1>2, <2>2
    <3> QED BY <1>1, <2>2, <3>1, <3>2 DEF IsMoved
  <2> QED BY <2>1, <2>2
<1>10. /\ IsMoved(moved') /\ moved'.x \in Int /\ moved'.y \in Int /\ moved'.buttons \in Int
       /\ moved'.lost = moved.lost /\ moved'.move = moved.move
  <2>1. CASE moved' = moved
    BY <1>1, <2>1
  <2>2. CASE moved' = [x |-> x, y |-> y, buttons |-> k, lost |-> moved.lost, move |-> moved.move]
    <3>1. /\ moved'.x = x /\ moved'.y = y /\ moved'.buttons = k
          /\ moved'.lost = moved.lost /\ moved'.move = moved.move
      BY <2>2
    <3> QED BY <2>2, <3>1 DEF IsMoved
  <2> QED BY <1>9, <2>1, <2>2
<1>11. ASSUME ~moved.lost
       PROVE  /\ mouse'.x = moved'.x /\ mouse'.y = moved'.y /\ mouse'.buttons = moved'.buttons
              /\ \/ mouse'.packet = <<>> /\ cable' = <<>>
                 \/ mouse'.packet \o cable' = Packet(moved'.move) /\ cable' # <<>>
  <2>1. PICK s \in Seq(Byte) :
            /\ s = Packet(moved.move) /\ Len(s) = 3
            /\ HasBit(s[1], 8) /\ s[1] % 8 = k
            /\ Signed(s[2], s[1], 16) = dx
            /\ Signed(s[3], s[1], 32) = dy
    BY <1>1, <1>7, PacketRead
  <2>2. /\ q \o c = s /\ c # <<>>
        /\ mouse.x = moved.x /\ mouse.y = moved.y /\ mouse.buttons = moved.buttons
    BY <1>1, <1>2, <1>11, <2>1 DEF MouseInv
  <2>3. n + l = 3 /\ p \o Tail(c) = s /\ \A i \in 1..n + 1 : p[i] = s[i]
    <3>1. /\ Len(q) + Len(c) = 3 /\ Append(q, Head(c)) \o Tail(c) = s
          /\ \A i \in 1..Len(q) + 1 : Append(q, Head(c))[i] = s[i]
      BY <2>1, <2>2, NextByte
    <3>2. n = Len(q) /\ l = Len(c) /\ p = Append(q, Head(c))
      BY <1>2, <1>3
    <3> QED BY ONLY <3>1, <3>2
  <2>4. p[1] = s[1]
    <3>1. 1 \in 1..n + 1
      BY ONLY n \in Nat
    <3> QED BY <2>3, <3>1
  <2>0. n + l = 3
    BY <2>3
  <2>5. CASE l > 1
    <3>1. n # 2 /\ cable' # <<>>
      <4>1. n # 2
        BY ONLY <2>0, <2>5, n \in Nat, l \in Nat
      <4>2. l - 1 # 0
        BY ONLY <2>5, l \in Nat
      <4>3. Len(<<>>) = 0
        OBVIOUS
      <4> QED BY <1>5, <4>1, <4>2, <4>3
    <3>2. mouse' = [mouse EXCEPT !.packet = p]
      <4>1. n + 1 # 3
        BY ONLY <3>1, n \in Nat
      <4>2. HasBit(p[1], 8)
        BY <2>1, <2>4
      <4> QED BY <1>4, <4>1, <4>2
    <3>3. mouse' = [x |-> mouse.x, y |-> mouse.y, buttons |-> mouse.buttons, packet |-> p]
      BY <1>1, <3>2 DEF IsMouse
    <3>4. mouse'.x = mouse.x /\ mouse'.y = mouse.y /\ mouse'.buttons = mouse.buttons /\ mouse'.packet = p
      BY <3>3
    <3>5. moved' = moved
      BY <1>2, <1>9, <2>5
    <3> QED BY <1>4, <2>1, <2>2, <2>3, <3>1, <3>4, <3>5
  <2>6. CASE l = 1
    <3>1. n = 2
      BY ONLY <2>0, <2>6, n \in Nat, l \in Nat
    <3>2. mouse' = Moved(mouse, p) /\ Len(p) = 3
      BY <1>3, <1>4, <3>1
    <3>3. p[2] = s[2] /\ p[3] = s[3]
      BY <2>3, <3>1
    <3>4. /\ mouse'.packet = <<>> /\ mouse'.buttons = k
          /\ mouse'.x = Within(mouse.x + dx, FB_WIDTH) /\ mouse'.y = Within(mouse.y - dy, FB_HEIGHT)
      BY <1>1, <2>1, <2>4, <3>2, <3>3, MovedType, SMTT(30)
    <3>5. moved'.x = x /\ moved'.y = y /\ moved'.buttons = k
      BY <1>2, <1>9, <1>11, <2>6
    <3>6. cable' = <<>>
      BY <1>5, <2>6
    <3> QED BY <1>8, <2>2, <3>4, <3>5, <3>6
  <2>7. l = 1 \/ l > 1
    <3>1. l \in 1..3
      BY <1>2
    <3> QED BY ONLY <3>1
  <2> QED BY <2>5, <2>6, <2>7
<1>12. Len(cable') <= 3
  <2>1. l \in 1..3
    BY <1>2
  <2>2. l - 1 <= 3
    BY ONLY <2>1
  <2> QED BY <1>5, <2>2
<1>13. moved'.lost \in BOOLEAN /\ moved'.move \in MouseSaid /\ (~moved'.lost => ~moved.lost)
  BY <1>1, <1>10
<1> QED BY <1>5, <1>6, <1>10, <1>11, <1>12, <1>13 DEF MouseInv

LEMMA MouseKeeps == MouseInv /\ [MouseNext]_mouseVars => MouseInv'
<1> SUFFICES ASSUME MouseInv, [MouseNext]_mouseVars PROVE MouseInv'
  OBVIOUS
<1>1. ASSUME NEW m \in Moves, Report(m) PROVE MouseInv'
  <2>1. m \in MouseSaid
    BY MouseAssumption DEF MouseSaid
  <2>2. PICK s \in Seq(Byte) : s = Packet(m) /\ Len(s) = 3
    BY <2>1, PacketRead
  <2>3. /\ cable = <<>> /\ cable' = s /\ mouse' = mouse
        /\ moved' = IF moved.lost THEN moved ELSE [moved EXCEPT !.move = m]
    BY <1>1, <2>2 DEF Report
  <2>4. s # <<>> /\ Len(s) <= 3
    BY <2>2
  <2>5. CASE moved.lost
    BY <2>3, <2>4, <2>5 DEF MouseInv
  <2>6. CASE ~moved.lost
    <3>1. moved' = [x |-> moved.x, y |-> moved.y, buttons |-> moved.buttons, lost |-> moved.lost, move |-> m]
      BY <2>3, <2>6 DEF MouseInv, IsMoved
    <3>2. /\ IsMoved(moved') /\ moved'.x = moved.x /\ moved'.y = moved.y /\ moved'.buttons = moved.buttons
          /\ moved'.lost = moved.lost /\ moved'.move = m
      BY <3>1 DEF IsMoved
    <3>3. mouse.packet = <<>>
      BY <2>3, <2>6 DEF MouseInv
    <3>4. <<>> \o s = s
      BY ConcatEmptySeq
    <3> QED BY <2>1, <2>2, <2>3, <2>4, <2>6, <3>2, <3>3, <3>4 DEF MouseInv
  <2> QED BY <2>5, <2>6
<1>2. CASE LoseByte
  <2>1. cable \in Seq(Byte) /\ cable # <<>> /\ Len(cable) <= 3 /\ cable' = Tail(cable) /\ moved' = Unknown /\ mouse' = mouse
    BY <1>2 DEF LoseByte, MouseInv
  <2>2. cable' \in Seq(Byte) /\ Len(cable') <= 3
    BY <2>1
  <2>3. Still \in MouseSaid
    BY DEF Still, MouseSaid
  <2>4. IsMoved(Unknown) /\ Unknown.x \in Int /\ Unknown.y \in Int /\ Unknown.buttons \in Int /\ Unknown.lost /\ Unknown.lost \in BOOLEAN
        /\ Unknown.move = Still
    BY DEF Unknown, IsMoved
  <2> QED BY <2>1, <2>2, <2>3, <2>4 DEF MouseInv
<1>3. CASE UNCHANGED mouseVars
  BY <1>3 DEF mouseVars, MouseInv
<1> QED BY <1>1, <1>2, <1>3, HandlerKeeps DEF MouseNext

\* The pointer is on the screen whatever is lost, and without a loss it is the one of the
\* whole packets (mouse_handler), for every size of the screen.
THEOREM PointerIsRight == MouseSpec => []PointerRight
<1>1. MouseInit => MouseInv
  <2> SUFFICES ASSUME MouseInit PROVE MouseInv
    OBVIOUS
  <2>1. PICK x \in Columns, y \in Rows : x = FB_WIDTH \div 2 /\ y = FB_HEIGHT \div 2
    BY DEF Columns, Rows
  <2>2. Still \in MouseSaid
    BY DEF Still, MouseSaid
  <2>3. /\ mouse = [x |-> x, y |-> y, buttons |-> 0, packet |-> <<>>] /\ cable = <<>>
        /\ moved = [x |-> x, y |-> y, buttons |-> 0, lost |-> FALSE, move |-> Still]
    BY <2>1 DEF MouseInit
  <2>4. /\ IsMouse(mouse) /\ mouse.x = x /\ mouse.y = y /\ mouse.buttons = 0 /\ mouse.packet = <<>>
        /\ IsMoved(moved) /\ moved.x = x /\ moved.y = y /\ moved.buttons = 0 /\ moved.lost = FALSE /\ moved.move = Still
    BY <2>3 DEF IsMouse, IsMoved
  <2>5. x \in Int /\ y \in Int /\ 0 \in Buttons /\ 0 \in Int
    BY DEF Columns, Rows, Buttons
  <2>6. <<>> \in Seq(Byte) /\ Len(<<>>) = 0
    OBVIOUS
  <2> QED BY <2>2, <2>3, <2>4, <2>5, <2>6 DEF MouseInv
<1>2. MouseInv => PointerRight
  <2> SUFFICES ASSUME MouseInv PROVE PointerRight
    OBVIOUS
  <2>1. ASSUME ~moved.lost PROVE Len(mouse.packet) = (3 - Len(cable)) % 3
    <3>1. CASE mouse.packet = <<>> /\ cable = <<>>
      <4>1. Len(mouse.packet) = 0 /\ Len(cable) = 0 /\ (3 - 0) % 3 = 0
        BY <3>1
      <4> QED BY <4>1
    <3>2. CASE mouse.packet \o cable = Packet(moved.move) /\ cable # <<>>
      <4>1. PICK q \in Seq(Byte), c \in Seq(Byte), s \in Seq(Byte) :
                q = mouse.packet /\ c = cable /\ s = q \o c /\ c # <<>> /\ Len(s) = 3
        BY <3>2, PacketRead DEF MouseInv
      <4>2. PICK a \in Nat, b \in Nat : a = Len(q) /\ b = Len(c) /\ b >= 1 /\ a + b = 3
        BY <4>1, NextByte, SMTT(30)
      <4>3. a = 3 - b /\ (b = 1 \/ b = 2 \/ b = 3)
        BY ONLY <4>2, a \in Nat, b \in Nat
      <4>4. (3 - 1) % 3 = 2 /\ (3 - 2) % 3 = 1 /\ (3 - 3) % 3 = 0
        OBVIOUS
      <4>5. a = (3 - b) % 3
        BY ONLY <4>3, <4>4
      <4> QED BY <4>1, <4>2, <4>5
    <3> QED BY <2>1, <3>1, <3>2 DEF MouseInv
  <2>2. mouse.x \in 0..FB_WIDTH - 1 /\ mouse.y \in 0..FB_HEIGHT - 1
    BY DEF MouseInv, Columns, Rows
  <2>3. ~moved.lost => <<mouse.x, mouse.y, mouse.buttons>> = <<moved.x, moved.y, moved.buttons>>
    BY DEF MouseInv
  <2> QED BY <2>1, <2>2, <2>3 DEF PointerRight
<1> QED BY <1>1, <1>2, MouseKeeps, PTL DEF MouseSpec

HIDE ScreenSizes

----------------------------------------------------------------------------
(* The browser.                                                            *)

Addresses == Builtin \cup Web
Tabbed(b) ==
    /\ b \in [tabs : Seq(Addresses), cur : Nat, url : Addresses, focus : BOOLEAN, page : Addresses \cup {"none"}]
    /\ b.cur \in 1..Len(b.tabs)
PageOf(u) == IF u \in Builtin THEN "none" ELSE u
BrowserOk(b) == Tabbed(b) /\ b.page = PageOf(b.tabs[b.cur])

\* A page that is fetched is that of the current tab, whatever was drawn before.
LEMMA NavigateOk ==
    ASSUME NEW b, Tabbed(b), NEW u \in Addresses
    PROVE  BrowserOk(Navigate(b, u))
<1> DEFINE ts == [b.tabs EXCEPT ![b.cur] = u]
           n  == [b EXCEPT !.tabs = ts, !.url = u, !.page = PageOf(u)]
<1>1. Navigate(b, u) = n
  BY DEF Navigate, PageOf, Tabbed
<1>2. ts \in Seq(Addresses) /\ Len(ts) = Len(b.tabs) /\ ts[b.cur] = u
  BY ExceptSeq DEF Tabbed
<1>3. PageOf(u) \in Addresses \cup {"none"}
  BY DEF PageOf
<1> HIDE DEF ts
<1>4. /\ n \in [tabs : Seq(Addresses), cur : Nat, url : Addresses, focus : BOOLEAN, page : Addresses \cup {"none"}]
      /\ n.tabs = ts /\ n.cur = b.cur /\ n.page = PageOf(u)
  BY <1>2, <1>3 DEF Tabbed
<1> QED BY <1>1, <1>2, <1>4 DEF BrowserOk, Tabbed

LEMMA SwitchOk ==
    ASSUME NEW b, NEW ts \in Seq(Addresses), NEW i \in 1..Len(ts),
           b \in [tabs : Seq(Addresses), cur : Nat, url : Addresses, focus : BOOLEAN, page : Addresses \cup {"none"}]
    PROVE  BrowserOk(Navigate([[b EXCEPT !.tabs = ts] EXCEPT !.cur = i], ts[i]))
<1> DEFINE m == [b EXCEPT !.tabs = ts]
           n == [m EXCEPT !.cur = i]
           R == [tabs : Seq(Addresses), cur : Nat, url : Addresses, focus : BOOLEAN, page : Addresses \cup {"none"}]
<1>0. Len(ts) \in Nat /\ i \in Nat
  BY LenProperties
<1>3. m \in R /\ m.tabs = ts
  OBVIOUS
<1> HIDE DEF m
<1>4. n \in R /\ n.tabs = ts /\ n.cur = i
  BY <1>0, <1>3
<1>1. Tabbed(n)
  BY <1>4 DEF Tabbed
<1>2. ts[i] \in Addresses
  BY ElementOfSeq
<1> QED BY <1>1, <1>2, NavigateOk DEF m

LEMMA TabRemoved ==
    ASSUME NEW ts \in Seq(Addresses), NEW i \in 1..Len(ts)
    PROVE  Without(ts, i) \in Seq(Addresses) /\ Len(Without(ts, i)) = Len(ts) - 1
<1> DEFINE l == SubSeq(ts, 1, i - 1)
           r == SubSeq(ts, i + 1, Len(ts))
<1>0. Len(ts) \in Nat
  BY LenProperties
<1>1. l \in Seq(Addresses) /\ Len(l) = i - 1
  BY <1>0, SubSeqProperties
<1>2. r \in Seq(Addresses) /\ Len(r) = Len(ts) - i
  BY <1>0, SubSeqProperties
<1> HIDE DEF l, r
<1>3. l \o r \in Seq(Addresses) /\ Len(l \o r) = Len(l) + Len(r)
  BY <1>1, <1>2, ConcatProperties
<1>4. Len(l) + Len(r) = Len(ts) - 1
  BY <1>0, <1>1, <1>2
<1> QED BY <1>3, <1>4 DEF l, r, Without

LEMMA Focused ==
    ASSUME NEW b, BrowserOk(b), NEW f \in BOOLEAN
    PROVE  BrowserOk([b EXCEPT !.focus = f])
BY DEF BrowserOk, Tabbed

LEMMA BrowserClickOk ==
    ASSUME NEW b, BrowserOk(b), NEW c \in BrowserClicks
    PROVE  BrowserOk(BrowserClick(b, c))
<1>0. Tabbed(b) /\ b.tabs \in Seq(Addresses) /\ Len(b.tabs) \in Nat /\ b.cur \in 1..Len(b.tabs)
  BY LenProperties DEF BrowserOk, Tabbed
<1>1. c.item \in Nat /\ (c.on \in {"tab", "close"} => c.item >= 1)
  BY DEF BrowserClicks, ClickOn, ItemOf
<1> DEFINE rest == Without(b.tabs, c.item)
           left == IF b.cur > Len(rest) THEN Len(rest) ELSE b.cur
           b1 == CASE c.on = "tab" /\ c.item <= Len(b.tabs) -> SwitchTo(b, c.item)
                   [] c.on = "close" /\ c.item <= Len(b.tabs) /\ Len(b.tabs) > 1 ->
                         SwitchTo([b EXCEPT !.tabs = rest], left)
                   [] c.on = "new" /\ Len(b.tabs) < MAX_TABS ->
                         Navigate([b EXCEPT !.tabs = Append(@, HomeUrl), !.cur = Len(b.tabs) + 1], HomeUrl)
                   [] c.on = "reload" -> Navigate(b, b.url)
                   [] OTHER -> b
<1>2. BrowserClick(b, c) = IF c = NoClick THEN b1 ELSE [b1 EXCEPT !.focus = (c.on = "bar")]
  BY DEF BrowserClick
<1>3. ASSUME c.on = "tab", c.item <= Len(b.tabs)
      PROVE  BrowserOk(SwitchTo(b, c.item))
  <2>1. [b EXCEPT !.tabs = b.tabs] = b
    BY <1>0 DEF Tabbed
  <2>2. c.item \in 1..Len(b.tabs)
    BY <1>0, <1>1, <1>3
  <2> QED BY <1>0, <2>1, <2>2, SwitchOk DEF SwitchTo, Tabbed
<1>4. ASSUME c.on = "close", c.item <= Len(b.tabs), Len(b.tabs) > 1
      PROVE  BrowserOk(SwitchTo([b EXCEPT !.tabs = rest], left))
  <2>1. rest \in Seq(Addresses) /\ Len(rest) = Len(b.tabs) - 1
    BY <1>0, <1>1, <1>4, TabRemoved
  <2>2. left \in 1..Len(rest)
    BY <1>0, <1>4, <2>1
  <2>3. [b EXCEPT !.tabs = rest].tabs = rest
    BY <1>0 DEF Tabbed
  <2> HIDE DEF rest, left
  <2> QED BY <1>0, <2>1, <2>2, <2>3, SwitchOk DEF SwitchTo, Tabbed
<1>5. BrowserOk(Navigate([b EXCEPT !.tabs = Append(@, HomeUrl), !.cur = Len(b.tabs) + 1], HomeUrl))
  <2> DEFINE ts == Append(b.tabs, HomeUrl)
  <2>0. HomeUrl \in Addresses
    BY AppsAssumption DEF Addresses
  <2>1. ts \in Seq(Addresses) /\ Len(ts) = Len(b.tabs) + 1
    BY <1>0, <2>0, AppendProperties
  <2> HIDE DEF ts
  <2>2. Tabbed([b EXCEPT !.tabs = ts, !.cur = Len(b.tabs) + 1])
    <3> DEFINE i == Len(b.tabs) + 1
               n == [b EXCEPT !.tabs = ts, !.cur = i]
    <3>1. i \in Nat /\ i \in 1..Len(ts)
      BY <1>0, <2>1
    <3> HIDE DEF i
    <3>2. /\ n \in [tabs : Seq(Addresses), cur : Nat, url : Addresses, focus : BOOLEAN, page : Addresses \cup {"none"}]
          /\ n.tabs = ts /\ n.cur = i
      BY <1>0, <2>1, <3>1 DEF Tabbed
    <3> HIDE DEF n
    <3>3. Tabbed(n)
      BY <3>1, <3>2 DEF Tabbed
    <3> QED BY <3>3 DEF n, i
  <2>3. [b EXCEPT !.tabs = Append(@, HomeUrl), !.cur = Len(b.tabs) + 1] = [b EXCEPT !.tabs = ts, !.cur = Len(b.tabs) + 1]
    BY DEF ts
  <2> QED BY <2>0, <2>2, <2>3, NavigateOk
<1>6. BrowserOk(Navigate(b, b.url))
  BY <1>0, NavigateOk DEF Tabbed
<1>7. BrowserOk(b1)
  <2> HIDE DEF rest, left
  <2> QED BY <1>3, <1>4, <1>5, <1>6
<1> HIDE DEF b1
<1> QED BY <1>2, <1>7, Focused

LEMMA BrowserKeeps ==
    ASSUME BrowserOk(browser), NEW c \in BrowserClicks, NEW key \in {"none", "enter", "other"},
           BrowserFrame(c, key)
    PROVE  BrowserOk(browser')
<1> DEFINE b == BrowserClick(browser, c)
<1>1. BrowserOk(b)
  BY BrowserClickOk
<1> HIDE DEF b
<1>2. browser' \in BrowserKey(b, key)
  BY DEF BrowserFrame, b
<1>3. CASE ~ b.focus \/ key = "none"
  BY <1>1, <1>2, <1>3 DEF BrowserKey
<1>4. CASE b.focus /\ key = "enter"
  <2>1. browser' = [Navigate(b, b.url) EXCEPT !.focus = FALSE]
    BY <1>2, <1>4 DEF BrowserKey
  <2>2. BrowserOk(Navigate(b, b.url))
    BY <1>1, NavigateOk DEF BrowserOk, Tabbed
  <2> QED BY <2>1, <2>2, Focused
<1>5. CASE b.focus /\ key = "other"
  <2>1. PICK u \in Addresses : browser' = [b EXCEPT !.url = u]
    BY <1>2, <1>5 DEF BrowserKey, Addresses
  <2> QED BY <1>1, <2>1 DEF BrowserOk, Tabbed
<1> QED BY <1>3, <1>4, <1>5

LEMMA BrowserStarts == BrowserOk(BrowserInit)
<1>1. HomeUrl \in Addresses /\ HomeUrl \in Builtin
  BY AppsAssumption DEF Addresses
<1>2. <<HomeUrl>> \in Seq(Addresses) /\ Len(<<HomeUrl>>) = 1
  BY <1>1
<1> QED BY <1>1, <1>2 DEF BrowserOk, Tabbed, BrowserInit, PageOf

LEMMA BrowserShows == BrowserOk(browser) => PageShown
BY LenProperties DEF BrowserOk, Tabbed, PageShown, PageOf

----------------------------------------------------------------------------
(* The calendar and the stopwatch.                                         *)

LEMMA SevenSum ==
    ASSUME NEW x \in Int, NEW d \in Int
    PROVE  ((((x % 7) + 6) % 7) + d) % 7 = (((x + d) % 7) + 6) % 7
OBVIOUS

LEMMA SevenShift ==
    ASSUME NEW x \in Int, NEW z \in Int, NEW n \in Int, x = z + 7 * n
    PROVE  ((x % 7) + 6) % 7 = ((z % 7) + 6) % 7
OBVIOUS

Century(y) == (y % 100) + (y % 100) \div 4 + (y \div 100) \div 4 + 5 * (y \div 100)

LEMMA Hundreds ==
    ASSUME NEW y \in Int, NEW j \in Int, NEW k \in 0..99, y = 100 * j + k
    PROVE  y \div 100 = j /\ y % 100 = k
OBVIOUS

LEMMA Fours ==
    ASSUME NEW y \in Int, NEW n \in Int, NEW k \in Int, y = 4 * n + k
    PROVE  y % 4 = k % 4
OBVIOUS

LEMMA CenturyInt == ASSUME NEW y \in Int PROVE Century(y) \in Int
BY DEF Century

\* From one year to the next the days move on by one, and by two after a leap day.
LEMMA YearMoves ==
    ASSUME NEW y \in Int
    PROVE  \E n \in Int : Century(y) = Century(y - 1) + 1 + (IF Leap(y) THEN 1 ELSE 0) + 7 * n
<1>1. PICK j \in Int, k \in 0..99 : y = 100 * j + k /\ y \div 100 = j /\ y % 100 = k
  <2>1. y \div 100 \in Int /\ y % 100 \in 0..99 /\ y = 100 * (y \div 100) + (y % 100)
    OBVIOUS
  <2> QED BY <2>1
<1>2. CASE k # 0
  <2>1. (y - 1) \div 100 = j /\ (y - 1) % 100 = k - 1
    <3>1. k - 1 \in 0..99 /\ y - 1 \in Int /\ y - 1 = 100 * j + (k - 1)
      BY <1>1, <1>2
    <3> QED BY ONLY <3>1, j \in Int, Hundreds
  <2>2. y % 4 = k % 4
    <3>1. 25 * j \in Int /\ y = 4 * (25 * j) + k /\ k \in Int
      BY <1>1
    <3> QED BY ONLY <3>1, y \in Int, Fours
  <2>3. y % 400 # 0
    BY ONLY y \in Int, j \in Int, k \in 0..99, <1>1, <1>2
  <2>4. k \div 4 = (k - 1) \div 4 + (IF k % 4 = 0 THEN 1 ELSE 0)
    BY ONLY k \in 0..99, <1>2
  <2>5. Leap(y) <=> k % 4 = 0
    BY <1>1, <1>2, <2>2, <2>3 DEF Leap
  <2>6. Century(y) = Century(y - 1) + 1 + (IF Leap(y) THEN 1 ELSE 0) + 7 * 0
    BY <1>1, <2>1, <2>4, <2>5 DEF Century
  <2> QED BY <2>6
<1>3. CASE k = 0
  <2>1. (y - 1) \div 100 = j - 1 /\ (y - 1) % 100 = 99
    BY ONLY y \in Int, j \in Int, <1>1, <1>3
  <2>2. y % 400 = 0 <=> j % 4 = 0
    BY ONLY y \in Int, j \in Int, <1>1, <1>3
  <2>4. j \div 4 = (j - 1) \div 4 + (IF j % 4 = 0 THEN 1 ELSE 0)
    BY ONLY j \in Int
  <2>5. Leap(y) <=> j % 4 = 0
    BY <1>1, <1>3, <2>2 DEF Leap
  <2>6. Century(y) = Century(y - 1) + 1 + (IF Leap(y) THEN 1 ELSE 0) + 7 * (-17)
    BY <1>1, <1>3, <2>1, <2>4, <2>5 DEF Century
  <2> QED BY <2>6
<1> QED BY <1>2, <1>3

\* dow_of of the first of a month.
LEMMA FirstDay ==
    ASSUME NEW y \in Int, NEW m \in 1..12
    PROVE  DowOf(y, m, 1) = IF m < 3 THEN (((1 + (13 * (m + 13)) \div 5 + Century(y - 1)) % 7) + 6) % 7
                                     ELSE (((1 + (13 * (m + 1)) \div 5 + Century(y)) % 7) + 6) % 7
<1>1. CASE m < 3
  BY <1>1 DEF DowOf, Century
<1>2. CASE ~ (m < 3)
  BY <1>2 DEF DowOf, Century
<1> QED BY <1>1, <1>2

From(x) == ((x % 7) + 6) % 7

Ahead(a, b, d, n) == a \in Int /\ b \in Int /\ d \in Int /\ n \in Int /\ a + d = b + 7 * n

LEMMA Meet ==
    ASSUME NEW a, NEW b, NEW d, NEW n, Ahead(a, b, d, n)
    PROVE  (From(a) + d) % 7 = From(b)
<1>1. (From(a) + d) % 7 = From(a + d)
  BY SevenSum DEF From, Ahead
<1>2. From(a + d) = From(b)
  BY SevenShift DEF From, Ahead
<1> QED BY <1>1, <1>2

LEMMA FourInt == 4 \in Int
OBVIOUS

\* From March on the length of a month makes up for what the formula adds from each to the next.
LEMMA MonthShift ==
    ASSUME NEW m \in 3..12, NEW y
    PROVE  DaysInMonth(m, y) \in Int /\ (13 * (m + 1)) \div 5 + DaysInMonth(m, y) = (13 * (m + 2)) \div 5 + 28
<1>1. DaysInMonth(m, y) = <<31, 28, 31, 30, 31, 30, 31, 31, 30, 31, 30, 31>>[m]
  BY DEF DaysInMonth
<1>2. m = 3 \/ m = 4 \/ m = 5 \/ m = 6 \/ m = 7 \/ m = 8 \/ m = 9 \/ m = 10 \/ m = 11 \/ m = 12
  OBVIOUS
<1>3. DaysInMonth(m, y) = IF m \in {4, 6, 9, 11} THEN 30 ELSE 31
  BY <1>1, <1>2
<1>4. (13 * (m + 1)) \div 5 + (IF m \in {4, 6, 9, 11} THEN 30 ELSE 31) = (13 * (m + 2)) \div 5 + 28
  <2>1. CASE m \in {3, 5, 7, 8, 10, 12}
    <3>1. m = 3 \/ m = 5 \/ m = 7 \/ m = 8 \/ m = 10 \/ m = 12
      BY <2>1
    <3>2. (13 * (m + 1)) \div 5 + 31 = (13 * (m + 2)) \div 5 + 28
      BY ONLY <3>1
    <3> QED BY <3>1, <3>2
  <2>2. CASE m \in {4, 6, 9, 11}
    <3>1. m = 4 \/ m = 6 \/ m = 9 \/ m = 11
      BY <2>2
    <3>2. (13 * (m + 1)) \div 5 + 30 = (13 * (m + 2)) \div 5 + 28
      BY ONLY <3>1
    <3> QED BY <2>2, <3>2
  <2> QED BY <1>2, <2>1, <2>2
<1> QED BY <1>3, <1>4

\* The grid of the next month begins where this one ends.
LEMMA MonthsMeet ==
    ASSUME NEW y \in Int, NEW m \in 1..12
    PROVE  LET v == [m |-> m, y |-> y]
           IN  (DowOf(y, m, 1) + DaysInMonth(m, y)) % 7 = DowOf(After(v).y, After(v).m, 1)
<1> DEFINE d == DaysInMonth(m, y)
           v == [m |-> m, y |-> y]
<1>1. Century(y) \in Int /\ Century(y - 1) \in Int /\ y + 1 - 1 = y /\ y - 1 \in Int /\ y + 1 \in Int
  <2>1. y + 1 - 1 = y /\ y - 1 \in Int /\ y + 1 \in Int
    OBVIOUS
  <2> QED BY <2>1, CenturyInt
<1>2. CASE m = 12
  <2>1. After(v).m = 1 /\ After(v).y = y + 1
    BY <1>2 DEF After
  <2>2. DowOf(y, 12, 1) = From(1 + (13 * 13) \div 5 + Century(y))
    BY FirstDay DEF From
  <2>3. DowOf(y + 1, 1, 1) = From(1 + (13 * 14) \div 5 + Century(y))
    <3>1. DowOf(y + 1, 1, 1) = From(1 + (13 * (1 + 13)) \div 5 + Century(y + 1 - 1))
      BY <1>1, FirstDay DEF From
    <3> QED BY <1>1, <3>1
  <2>4. d \in Int /\ (13 * 13) \div 5 + d = (13 * 14) \div 5 + 28
    BY <1>2, MonthShift
  <2>5. /\ 1 + (13 * 13) \div 5 + Century(y) + d = 1 + (13 * 14) \div 5 + Century(y) + 7 * 4
        /\ 1 + (13 * 13) \div 5 + Century(y) \in Int /\ 1 + (13 * 14) \div 5 + Century(y) \in Int
    BY <1>1, <2>4
  <2>6. (From(1 + (13 * 13) \div 5 + Century(y)) + d) % 7 = From(1 + (13 * 14) \div 5 + Century(y))
    <3>1. Ahead(1 + (13 * 13) \div 5 + Century(y), 1 + (13 * 14) \div 5 + Century(y), d, 4)
      BY <2>4, <2>5, FourInt DEF Ahead
    <3> QED BY ONLY <3>1, Meet
  <2> QED BY <1>2, <2>1, <2>2, <2>3, <2>6
<1>3. CASE m = 1
  <2>1. After(v).m = 2 /\ After(v).y = y
    BY <1>3 DEF After
  <2>2. DowOf(y, 1, 1) = From(1 + (13 * 14) \div 5 + Century(y - 1))
    BY FirstDay DEF From
  <2>3. DowOf(y, 2, 1) = From(1 + (13 * 15) \div 5 + Century(y - 1))
    BY FirstDay DEF From
  <2>4. d = 31 /\ d \in Int
    BY <1>3 DEF DaysInMonth
  <2>5. /\ 1 + (13 * 14) \div 5 + Century(y - 1) + d = 1 + (13 * 15) \div 5 + Century(y - 1) + 7 * 4
        /\ 1 + (13 * 14) \div 5 + Century(y - 1) \in Int /\ 1 + (13 * 15) \div 5 + Century(y - 1) \in Int
    BY <1>1, <2>4
  <2>6. (From(1 + (13 * 14) \div 5 + Century(y - 1)) + d) % 7 = From(1 + (13 * 15) \div 5 + Century(y - 1))
    <3>1. Ahead(1 + (13 * 14) \div 5 + Century(y - 1), 1 + (13 * 15) \div 5 + Century(y - 1), d, 4)
      BY <2>4, <2>5, FourInt DEF Ahead
    <3> QED BY ONLY <3>1, Meet
  <2> QED BY <1>3, <2>1, <2>2, <2>3, <2>6
<1>4. CASE m = 2
  <2> DEFINE b == IF Leap(y) THEN 1 ELSE 0
  <2>1. After(v).m = 3 /\ After(v).y = y
    BY <1>4 DEF After
  <2>2. DowOf(y, 2, 1) = From(1 + (13 * 15) \div 5 + Century(y - 1))
    BY FirstDay DEF From
  <2>3. DowOf(y, 3, 1) = From(1 + (13 * 4) \div 5 + Century(y))
    BY FirstDay DEF From
  <2>4. d = 28 + b
    BY <1>4 DEF DaysInMonth
  <2>5. PICK n \in Int : Century(y) = Century(y - 1) + 1 + b + 7 * n
    BY YearMoves
  <2>6. /\ 1 + (13 * 15) \div 5 + Century(y - 1) + d = 1 + (13 * 4) \div 5 + Century(y) + 7 * (8 - n)
        /\ 1 + (13 * 15) \div 5 + Century(y - 1) \in Int /\ 1 + (13 * 4) \div 5 + Century(y) \in Int
        /\ d \in Int /\ 8 - n \in Int
    BY <1>1, <2>4, <2>5
  <2>7. (From(1 + (13 * 15) \div 5 + Century(y - 1)) + d) % 7 = From(1 + (13 * 4) \div 5 + Century(y))
    <3>1. Ahead(1 + (13 * 15) \div 5 + Century(y - 1), 1 + (13 * 4) \div 5 + Century(y), d, 8 - n)
      BY <2>6 DEF Ahead
    <3> QED BY ONLY <3>1, Meet
  <2> QED BY <1>4, <2>1, <2>2, <2>3, <2>7
<1>5. CASE m \in 3..11
  <2>1. After(v).m = m + 1 /\ After(v).y = y
    BY <1>5 DEF After
  <2>2. DowOf(y, m, 1) = From(1 + (13 * (m + 1)) \div 5 + Century(y))
    BY <1>5, FirstDay DEF From
  <2>3. DowOf(y, m + 1, 1) = From(1 + (13 * (m + 2)) \div 5 + Century(y))
    <3>1. m + 1 \in 1..12 /\ ~ (m + 1 < 3) /\ m + 1 + 1 = m + 2
      BY <1>5
    <3>2. DowOf(y, m + 1, 1) = From(1 + (13 * (m + 1 + 1)) \div 5 + Century(y))
      BY <3>1, FirstDay DEF From
    <3> QED BY <3>1, <3>2
  <2>4. d \in Int /\ (13 * (m + 1)) \div 5 + d = (13 * (m + 2)) \div 5 + 28
    BY <1>5, MonthShift
  <2>5. /\ 1 + (13 * (m + 1)) \div 5 + Century(y) + d = 1 + (13 * (m + 2)) \div 5 + Century(y) + 7 * 4
        /\ 1 + (13 * (m + 1)) \div 5 + Century(y) \in Int /\ 1 + (13 * (m + 2)) \div 5 + Century(y) \in Int
    <3> HIDE DEF d
    <3> QED BY <1>1, <2>4
  <2>6. (From(1 + (13 * (m + 1)) \div 5 + Century(y)) + d) % 7 = From(1 + (13 * (m + 2)) \div 5 + Century(y))
    <3>1. Ahead(1 + (13 * (m + 1)) \div 5 + Century(y), 1 + (13 * (m + 2)) \div 5 + Century(y), d, 4)
      BY <2>4, <2>5, FourInt DEF Ahead
    <3> QED BY ONLY <3>1, Meet
  <2> QED BY <2>1, <2>2, <2>3, <2>6
<1> QED BY <1>2, <1>3, <1>4, <1>5

Month(v) == v.m \in 1..12 /\ v.y \in Int /\ v = [m |-> v.m, y |-> v.y]
CalendarOk(cal) ==
    /\ cal = [view |-> cal.view, sel |-> cal.sel]
    /\ Month(cal.view) /\ cal.sel <= DaysInMonth(cal.view.m, cal.view.y)

LEMMA SomeYear == Years # {}
BY AppsAssumption

LEMMA MonthFacts == \A v \in Months : Month(v) /\ 0 <= DaysInMonth(v.m, v.y)
<1> SUFFICES ASSUME NEW v \in Months PROVE Month(v) /\ 0 <= DaysInMonth(v.m, v.y)
  OBVIOUS
<1>1. PICK m \in 1..12, y \in Years : v = [m |-> m, y |-> y]
  BY DEF Months
<1>2. Month(v)
  BY <1>1, AppsAssumption DEF Month
<1>3. m = 1 \/ m = 2 \/ m = 3 \/ m = 4 \/ m = 5 \/ m = 6 \/ m = 7 \/ m = 8 \/ m = 9 \/ m = 10 \/ m = 11 \/ m = 12
  OBVIOUS
<1>4. 0 <= DaysInMonth(m, y)
  BY <1>3 DEF DaysInMonth
<1> QED BY <1>1, <1>2, <1>4

LEMMA TodayOk == \A t \in Dates : CalendarOk([view |-> t.month, sel |-> t.day]) /\ t.month \in Months
BY MonthFacts DEF Dates, CalendarOk

LEMMA YearsThere == Dates # {}
<1>1. PICK y \in Years : TRUE
  BY SomeYear
<1> DEFINE t == [month |-> [m |-> 1, y |-> y], day |-> 1]
<1>2. t.month \in Months /\ DaysInMonth(t.month.m, t.month.y) = 31
  BY <1>1 DEF Months, DaysInMonth
<1>3. t \in [month : Months, day : {1, 28, 29, 31}]
  BY <1>2
<1>4. t \in Dates
  BY <1>2, <1>3 DEF Dates
<1> QED BY <1>4

LEMMA CalendarKeeps ==
    ASSUME CalendarOk(calendar), NEW c \in CalendarClicks, NEW today \in Dates, CalendarFrame(c, today)
    PROVE  CalendarOk(calendar')
<1> DEFINE turned == CASE c.on = "prev"  -> [view |-> MonthBefore(calendar.view), sel |-> 0]
                      [] c.on = "next"  -> [view |-> After(calendar.view), sel |-> 0]
                      [] c.on = "today" -> [view |-> today.month, sel |-> today.day]
                      [] OTHER -> calendar
<1>1. /\ turned.view \in Months
      /\ calendar' = IF c.on = "day" /\ c.item <= DaysInMonth(turned.view.m, turned.view.y)
                     THEN [turned EXCEPT !.sel = c.item] ELSE turned
  BY DEF CalendarFrame
<1>2. CalendarOk(turned)
  <2>1. CASE c.on = "prev"
    <3>1. turned = [view |-> MonthBefore(calendar.view), sel |-> 0]
      BY <2>1
    <3> HIDE DEF turned
    <3> QED BY <1>1, <3>1, MonthFacts DEF CalendarOk
  <2>2. CASE c.on = "next"
    <3>1. turned = [view |-> After(calendar.view), sel |-> 0]
      BY <2>2
    <3> HIDE DEF turned
    <3> QED BY <1>1, <3>1, MonthFacts DEF CalendarOk
  <2>3. CASE c.on = "today"
    <3>1. turned = [view |-> today.month, sel |-> today.day]
      BY <2>3
    <3> QED BY <3>1, TodayOk
  <2>4. CASE c.on \notin {"prev", "next", "today"}
    <3>1. turned = calendar
      BY <2>4
    <3> QED BY <3>1
  <2> QED BY <2>1, <2>2, <2>3, <2>4
<1> HIDE DEF turned
<1>3. CASE c.on = "day" /\ c.item <= DaysInMonth(turned.view.m, turned.view.y)
  <2>1. calendar' = [turned EXCEPT !.sel = c.item]
    BY <1>1, <1>3
  <2>2. [turned EXCEPT !.sel = c.item] = [view |-> turned.view, sel |-> c.item]
    BY <1>2 DEF CalendarOk
  <2> QED BY <1>2, <1>3, <2>1, <2>2 DEF CalendarOk
<1>4. CASE ~ (c.on = "day" /\ c.item <= DaysInMonth(turned.view.m, turned.view.y))
  BY <1>1, <1>2, <1>4
<1> QED BY <1>3, <1>4

LEMMA CalendarShows == CalendarOk(calendar) => MonthRight
<1> SUFFICES ASSUME CalendarOk(calendar) PROVE MonthRight
  OBVIOUS
<1>1. PICK m \in 1..12, y \in Int : calendar.view = [m |-> m, y |-> y]
  BY DEF CalendarOk, Month
<1>2. (DowOf(y, m, 1) + DaysInMonth(m, y)) % 7 = DowOf(After([m |-> m, y |-> y]).y, After([m |-> m, y |-> y]).m, 1)
  BY MonthsMeet
<1>3. calendar.view.m = m /\ calendar.view.y = y
  BY <1>1
<1> QED BY <1>1, <1>2, <1>3 DEF MonthRight, CalendarOk

WatchOk(w) ==
    /\ w \in [running : BOOLEAN, start : Int, elapsed : Int, now : Int, ran : Int]
    /\ w.running = TRUE => w.elapsed + w.now - w.start = w.ran
    /\ w.running = FALSE => w.elapsed = w.ran

LEMMA Clock == MaxTime \in Nat
BY AppsAssumption

LEMMA WatchKeeps ==
    ASSUME WatchOk(watch), NEW c, NEW now \in 0..MaxTime, WatchFrame(c, now)
    PROVE  WatchOk(watch')
<1> DEFINE w == IF watch.running THEN [watch EXCEPT !.ran = @ + now - watch.now] ELSE watch
           v == CASE c.on = "toggle" /\ w.running -> [w EXCEPT !.elapsed = @ + now - w.start, !.running = FALSE]
                  [] c.on = "toggle" /\ ~w.running -> [w EXCEPT !.start = now, !.running = TRUE]
                  [] c.on = "reset" -> [w EXCEPT !.running = FALSE, !.elapsed = 0, !.start = 0, !.ran = 0]
                  [] OTHER -> w
           Watches == [running : BOOLEAN, start : Int, elapsed : Int, now : Int, ran : Int]
<1>1. watch' = [v EXCEPT !.now = now]
  BY DEF WatchFrame
<1>2. now \in Int
  BY Clock
<1>3. /\ w \in Watches
      /\ w.running = TRUE => w.elapsed + now - w.start = w.ran
      /\ w.running = FALSE => w.elapsed = w.ran
  <2>1. CASE watch.running = TRUE
    <3>1. w = [watch EXCEPT !.ran = watch.ran + now - watch.now]
      BY <2>1
    <3> HIDE DEF w
    <3> QED BY <1>2, <2>1, <3>1 DEF WatchOk
  <2>2. CASE watch.running = FALSE
    BY <1>2, <2>2 DEF WatchOk
  <2> QED BY <2>1, <2>2 DEF WatchOk
<1> HIDE DEF w
<1>4. /\ v \in Watches
      /\ v.running = TRUE => v.elapsed + now - v.start = v.ran
      /\ v.running = FALSE => v.elapsed = v.ran
  <2>1. CASE c.on = "toggle" /\ w.running = TRUE
    <3>1. v = [w EXCEPT !.elapsed = w.elapsed + now - w.start, !.running = FALSE]
      BY <2>1
    <3> HIDE DEF v
    <3> QED BY <1>2, <1>3, <2>1, <3>1
  <2>2. CASE c.on = "toggle" /\ w.running = FALSE
    <3>1. v = [w EXCEPT !.start = now, !.running = TRUE]
      BY <2>2
    <3> HIDE DEF v
    <3>2. v \in Watches /\ v.running = TRUE /\ v.start = now /\ v.elapsed = w.elapsed /\ v.ran = w.ran
      BY <1>2, <1>3, <3>1
    <3>3. w.elapsed \in Int /\ w.elapsed + now - now = w.elapsed
      BY <1>2, <1>3
    <3> QED BY <1>3, <2>2, <3>2, <3>3
  <2>3. CASE c.on = "reset"
    <3>1. v = [w EXCEPT !.running = FALSE, !.elapsed = 0, !.start = 0, !.ran = 0]
      BY <2>3
    <3> HIDE DEF v
    <3>2. v = [running |-> FALSE, start |-> 0, elapsed |-> 0, now |-> w.now, ran |-> 0] /\ w.now \in Int
      BY <1>3, <3>1
    <3> QED BY <3>2
  <2>4. CASE c.on \notin {"toggle", "reset"}
    BY <1>3, <2>4
  <2> QED BY <1>3, <2>1, <2>2, <2>3, <2>4
<1> HIDE DEF v
<1> QED BY <1>1, <1>2, <1>4 DEF WatchOk

LEMMA WatchShows == WatchOk(watch) => StopwatchExact
BY DEF WatchOk, StopwatchExact
----------------------------------------------------------------------------
(* Notes.                                                                  *)

LEMMA NoteSizes == MAX_NOTES \in Nat \ {0} /\ Seeded \in Nat /\ Untitled \in Nat /\ SeededBody \in Nat
BY AppsAssumption

LEMMA LeastOf ==
    ASSUME NEW S, S \subseteq Nat, S # {}
    PROVE  \E x \in S : \A y \in S : x <= y
<1>1. PICK x \in S : \A y \in S : ~ (<<y, x>> \in OpToRel(<, Nat))
  BY NatLessThanWellFounded, WFMin
<1>2. \A y \in S : ~ (y < x)
  BY <1>1 DEF OpToRel
<1> QED BY <1>2

Note == [used : BOOLEAN, title : Nat, body : Nat]
NoteBook == [all : [1..MAX_NOTES -> Note], selected : 1..MAX_NOTES, titling : BOOLEAN]
NotesOk(n) == n \in NoteBook /\ (Used(n) # {} => n.selected \in Used(n))

LEMMA FirstNoteIn ==
    ASSUME NEW S, S \subseteq Nat, S # {}
    PROVE  FirstNote(S) \in S
BY LeastOf DEF FirstNote

\* A change to the selected note that keeps it, or leaves it, unused.
LEMMA NoteChanged ==
    ASSUME NEW n, NotesOk(n), NEW x \in Note, x.used = n.all[n.selected].used
    PROVE  NotesOk([n EXCEPT !.all = [n.all EXCEPT ![n.selected] = x]])
<1> DEFINE a == [n.all EXCEPT ![n.selected] = x]
           m == [n EXCEPT !.all = a]
<1>1. n.all \in [1..MAX_NOTES -> Note] /\ n.selected \in 1..MAX_NOTES
  BY DEF NotesOk, NoteBook
<1>2. a \in [1..MAX_NOTES -> Note] /\ \A i \in 1..MAX_NOTES : a[i].used = n.all[i].used
  BY <1>1
<1> HIDE DEF a
<1>3. m \in NoteBook /\ m.all = a /\ m.selected = n.selected
  BY <1>2 DEF NotesOk, NoteBook
<1> HIDE DEF m
<1>4. Used(m) = Used(n)
  BY <1>2, <1>3 DEF Used
<1>5. NotesOk(m)
  BY <1>3, <1>4 DEF NotesOk
<1> QED BY <1>5 DEF m, a

LEMMA Titled ==
    ASSUME NEW n, NotesOk(n), NEW f \in BOOLEAN
    PROVE  NotesOk([n EXCEPT !.titling = f])
<1> DEFINE m == [n EXCEPT !.titling = f]
<1>1. m \in NoteBook /\ m.all = n.all /\ m.selected = n.selected
  BY DEF NotesOk, NoteBook
<1> HIDE DEF m
<1>2. NotesOk(m)
  BY <1>1 DEF NotesOk, Used
<1> QED BY <1>2 DEF m

LEMMA NewNoteOk == ASSUME NEW n, NotesOk(n) PROVE NotesOk(NewNote(n))
<1> DEFINE i == FirstNote(1..MAX_NOTES \ Used(n))
           a == [n.all EXCEPT ![i] = NewNoteOf(0)]
           m == [all |-> a, selected |-> i, titling |-> FALSE]
<1>1. CASE Used(n) = 1..MAX_NOTES
  BY <1>1 DEF NewNote
<1>2. CASE Used(n) # 1..MAX_NOTES
  <2>1. i \in 1..MAX_NOTES
    <3>1. 1..MAX_NOTES \ Used(n) \subseteq Nat /\ 1..MAX_NOTES \ Used(n) # {}
      BY <1>2 DEF Used
    <3> QED BY <3>1, FirstNoteIn
  <2>2. NewNote(n) = m
    BY <1>2 DEF NewNote
  <2>3. NewNoteOf(0) \in Note /\ NewNoteOf(0).used = TRUE
    BY NoteSizes DEF NewNoteOf, Note
  <2> HIDE DEF i
  <2>4. a \in [1..MAX_NOTES -> Note] /\ a[i].used = TRUE
    BY <2>1, <2>3 DEF NotesOk, NoteBook
  <2> HIDE DEF a
  <2>5. m \in NoteBook /\ i \in Used(m)
    BY <2>1, <2>4 DEF NoteBook, Used
  <2> QED BY <2>2, <2>5 DEF NotesOk
<1> QED BY <1>1, <1>2

LEMMA DeleteNoteOk == ASSUME NEW n, NotesOk(n) PROVE NotesOk(DeleteNote(n))
<1> DEFINE x == [n.all[n.selected] EXCEPT !.used = FALSE]
           a == [n.all EXCEPT ![n.selected] = x]
           m == [n EXCEPT !.all = a, !.titling = FALSE]
<1>1. n.all \in [1..MAX_NOTES -> Note] /\ n.selected \in 1..MAX_NOTES /\ n.all[n.selected] \in Note
  BY DEF NotesOk, NoteBook
<1>2. x \in Note
  BY <1>1 DEF Note
<1>3. [n EXCEPT !.all[n.selected].used = FALSE, !.titling = FALSE] = m
  BY DEF NotesOk, NoteBook
<1> HIDE DEF x
<1>4. a \in [1..MAX_NOTES -> Note]
  BY <1>1, <1>2
<1> HIDE DEF a
<1>5. m \in NoteBook
  BY <1>4 DEF NotesOk, NoteBook
<1> HIDE DEF m
<1>6. DeleteNote(n) = IF Used(m) = {} THEN m ELSE [m EXCEPT !.selected = FirstNote(Used(m))]
  BY <1>3 DEF DeleteNote
<1>7. CASE Used(m) = {}
  BY <1>5, <1>6, <1>7 DEF NotesOk
<1>8. CASE Used(m) # {}
  <2> DEFINE i == FirstNote(Used(m))
             k == [m EXCEPT !.selected = i]
  <2>1. i \in Used(m) /\ i \in 1..MAX_NOTES
    <3>1. Used(m) \subseteq Nat /\ Used(m) \subseteq 1..MAX_NOTES
      BY DEF Used
    <3> QED BY <1>8, <3>1, FirstNoteIn
  <2> HIDE DEF i
  <2>2. k \in NoteBook /\ k.selected = i /\ k.all = m.all
    BY <1>5, <2>1 DEF NoteBook
  <2> HIDE DEF k
  <2>3. NotesOk(k)
    BY <2>1, <2>2 DEF NotesOk, Used
  <2> QED BY <1>6, <1>8, <2>3 DEF k, i
<1> QED BY <1>7, <1>8

LEMMA NoteKeyOk == ASSUME NEW n, NotesOk(n), NEW key PROVE NotesOk(NoteKey(n, key))
<1> DEFINE s == n.selected
           x == n.all[s]
           t(v) == [x EXCEPT !.title = v]
           b(v) == [x EXCEPT !.body = v]
<1>1. x \in Note /\ s \in 1..MAX_NOTES
  BY DEF NotesOk, NoteBook
<1>2. ASSUME NEW v \in Nat PROVE NotesOk([n EXCEPT !.all[s].title = v]) /\ NotesOk([n EXCEPT !.all[s].body = v])
  <2>1. t(v) \in Note /\ t(v).used = x.used /\ b(v) \in Note /\ b(v).used = x.used
    BY <1>1 DEF Note
  <2>2. /\ [n EXCEPT !.all[s].title = v] = [n EXCEPT !.all = [n.all EXCEPT ![s] = t(v)]]
        /\ [n EXCEPT !.all[s].body = v] = [n EXCEPT !.all = [n.all EXCEPT ![s] = b(v)]]
    BY <1>1 DEF NotesOk, NoteBook
  <2> HIDE DEF t, b
  <2> QED BY <2>1, <2>2, NoteChanged
<1>3. x.title \in Nat /\ x.body \in Nat
  BY <1>1 DEF Note
<1> HIDE DEF x
<1>4. CASE n.titling /\ key = "back" /\ n.all[s].title > 0
  <2>1. NoteKey(n, key) = [n EXCEPT !.all[s].title = x.title - 1]
    BY <1>4 DEF NoteKey, x
  <2>2. x.title - 1 \in Nat
    BY <1>3, <1>4 DEF x
  <2> QED BY <1>2, <2>1, <2>2
<1>5. CASE n.titling /\ key = "newline"
  <2>1. NoteKey(n, key) = [n EXCEPT !.titling = FALSE]
    BY <1>5 DEF NoteKey
  <2> QED BY <2>1, Titled
<1>6. CASE n.titling /\ key = "letter" /\ n.all[s].title < TITLE_MAX - 1
  <2>1. NoteKey(n, key) = [n EXCEPT !.all[s].title = x.title + 1]
    BY <1>6 DEF NoteKey, x
  <2>2. x.title + 1 \in Nat
    BY <1>3
  <2> QED BY <1>2, <2>1, <2>2
<1>7. CASE ~n.titling /\ key = "back" /\ n.all[s].body > 0
  <2>1. NoteKey(n, key) = [n EXCEPT !.all[s].body = x.body - 1]
    BY <1>7 DEF NoteKey, x
  <2>2. x.body - 1 \in Nat
    BY <1>3, <1>7 DEF x
  <2> QED BY <1>2, <2>1, <2>2
<1>8. CASE ~n.titling /\ key \in {"letter", "newline"} /\ n.all[s].body < BODY_MAX - 1
  <2>1. NoteKey(n, key) = [n EXCEPT !.all[s].body = x.body + 1]
    BY <1>8 DEF NoteKey, x
  <2>2. x.body + 1 \in Nat
    BY <1>3
  <2> QED BY <1>2, <2>1, <2>2
<1>9. CASE /\ ~ (n.titling /\ key = "back" /\ n.all[s].title > 0)
           /\ ~ (n.titling /\ key = "newline")
           /\ ~ (n.titling /\ key = "letter" /\ n.all[s].title < TITLE_MAX - 1)
           /\ ~ (~n.titling /\ key = "back" /\ n.all[s].body > 0)
           /\ ~ (~n.titling /\ key \in {"letter", "newline"} /\ n.all[s].body < BODY_MAX - 1)
  <2>1. NoteKey(n, key) = n
    BY <1>9, Zenon DEF NoteKey
  <2> QED BY <2>1
<1> QED BY <1>4, <1>5, <1>6, <1>7, <1>8, <1>9

LEMMA NotesKeep ==
    ASSUME NotesOk(notes), NEW c, NEW key, NotesFrame(c, key)
    PROVE  NotesOk(notes')
<1> DEFINE n == CASE c.on = "new" -> NewNote(notes)
                  [] c.on = "note" /\ c.item \in Used(notes) ->
                        [notes EXCEPT !.selected = c.item, !.titling = FALSE]
                  [] OTHER -> notes
           f == n.titling \/ c.on = "title"
<1>1. notes' = IF ~n.all[n.selected].used THEN n
               ELSE IF c.on = "delete" THEN DeleteNote(n)
               ELSE NoteKey([n EXCEPT !.titling = @ \/ c.on = "title"], key)
  BY DEF NotesFrame
<1>2. NotesOk(n)
  <2>1. CASE c.on = "new"
    BY <2>1, NewNoteOk
  <2>2. CASE c.on # "new" /\ c.on = "note" /\ c.item \in Used(notes)
    <3> DEFINE m == [notes EXCEPT !.selected = c.item, !.titling = FALSE]
    <3>1. n = m
      BY <2>2
    <3>2. c.item \in 1..MAX_NOTES
      BY <2>2 DEF Used
    <3>3. m \in NoteBook /\ m.all = notes.all /\ m.selected = c.item
      BY <3>2 DEF NotesOk, NoteBook
    <3> HIDE DEF n, m
    <3> QED BY <2>2, <3>1, <3>3 DEF NotesOk, Used
  <2>3. CASE c.on # "new" /\ ~ (c.on = "note" /\ c.item \in Used(notes))
    BY <2>3
  <2> QED BY <2>1, <2>2, <2>3
<1> HIDE DEF n
<1>3. NotesOk([n EXCEPT !.titling = f])
  <2>1. f \in BOOLEAN
    OBVIOUS
  <2> QED BY <1>2, <2>1, Titled
<1>4. [n EXCEPT !.titling = @ \/ c.on = "title"] = [n EXCEPT !.titling = f]
  BY <1>2 DEF NotesOk, NoteBook
<1> HIDE DEF f
<1> QED BY <1>1, <1>2, <1>3, <1>4, DeleteNoteOk, NoteKeyOk

LEMMA NotesStart == NotesOk(NotesInit)
<1>1. /\ \A body \in Nat : NewNoteOf(body) \in Note /\ NewNoteOf(body).used = TRUE
      /\ BlankNote \in Note /\ BlankNote.used = FALSE
  BY NoteSizes DEF NewNoteOf, BlankNote, Note
<1>2. /\ NotesInit.all = [i \in 1..MAX_NOTES |-> IF i <= Seeded THEN NewNoteOf(SeededBody) ELSE BlankNote]
      /\ NotesInit.selected = 1 /\ NotesInit = [all |-> NotesInit.all, selected |-> 1, titling |-> FALSE]
  BY DEF NotesInit
<1>3. NotesInit.all \in [1..MAX_NOTES -> Note]
  BY <1>1, <1>2, NoteSizes
<1>4. NotesInit \in NoteBook
  <2>1. PICK a \in [1..MAX_NOTES -> Note] : NotesInit = [all |-> a, selected |-> 1, titling |-> FALSE]
    BY <1>2, <1>3
  <2>2. 1 \in 1..MAX_NOTES
    BY NoteSizes
  <2> QED BY <2>1, <2>2 DEF NoteBook
<1>5. ASSUME Used(NotesInit) # {} PROVE 1 \in Used(NotesInit)
  <2>1. PICK i \in 1..MAX_NOTES : NotesInit.all[i].used
    BY <1>5 DEF Used
  <2>2. i <= Seeded
    BY <1>1, <1>2, <2>1
  <2>3. 1 <= Seeded /\ 1 \in 1..MAX_NOTES
    BY <2>2, NoteSizes
  <2>4. NotesInit.all[1] = NewNoteOf(SeededBody)
    BY <1>2, <2>3
  <2> QED BY <1>1, <2>3, <2>4, NoteSizes DEF Used
<1> QED BY <1>2, <1>4, <1>5 DEF NotesOk

LEMMA NotesShow == NotesOk(notes) => NoteSelected
BY DEF NotesOk, NoteSelected

----------------------------------------------------------------------------
(* Files and the store.                                                    *)

Viewed(f) == DOMAIN f = {"cwd", "fat", "selected", "chosen"}
FilesOk(f) == Viewed(f) /\ (f.selected # 0 => Listed(f)[f.selected] = f.chosen)

LEMMA Unselected == ASSUME NEW f, Viewed(f) PROVE FilesOk(Unselect(f))
<1> DEFINE g == Unselect(f)
<1>1. Viewed(g) /\ g.selected = 0
  BY DEF Viewed, Unselect
<1> HIDE DEF g
<1>2. FilesOk(g)
  BY <1>1 DEF FilesOk
<1> QED BY <1>2 DEF g

LEMMA FilesKeep ==
    ASSUME FilesOk(fileView), NEW c \in FilesClicks, FilesFrame(c)
    PROVE  FilesOk(fileView')
<1> DEFINE f == fileView
           name == Listed(f)[c.item]
<1>1. /\ \A d : Viewed([f EXCEPT !.cwd = d])
      /\ Viewed([f EXCEPT !.fat = FALSE, !.cwd = RootDir])
      /\ Viewed([f EXCEPT !.fat = TRUE])
      /\ Viewed([f EXCEPT !.cwd = ParentOf(@)])
  BY DEF FilesOk, Viewed
<1>3. CASE c.on = "home"
  <2>1. fileView' = Unselect([f EXCEPT !.fat = FALSE, !.cwd = RootDir])
    BY <1>3 DEF FilesFrame
  <2> QED BY <1>1, <2>1, Unselected
<1>4. CASE c.on = "fat"
  <2>1. fileView' = Unselect([f EXCEPT !.fat = TRUE])
    BY <1>4 DEF FilesFrame
  <2> QED BY <1>1, <2>1, Unselected
<1>5. CASE c.on = "up"
  <2>1. fileView' = IF f.fat THEN f ELSE Unselect([f EXCEPT !.cwd = ParentOf(@)])
    BY <1>5 DEF FilesFrame
  <2> QED BY <1>1, <2>1, Unselected
<1>6. CASE c.on = "row"
  <2>1. CASE ~f.fat /\ name \in DOMAIN Tree
    <3>1. fileView' = Unselect([f EXCEPT !.cwd = name])
      BY <1>6, <2>1 DEF FilesFrame
    <3> QED BY <1>1, <3>1, Unselected
  <2>2. CASE ~ (~f.fat /\ name \in DOMAIN Tree)
    <3>1. fileView' = [f EXCEPT !.selected = c.item, !.chosen = name]
      BY <1>6, <2>2 DEF FilesFrame
    <3> HIDE DEF name
    <3>2. /\ Viewed(fileView') /\ fileView'.cwd = f.cwd /\ fileView'.fat = f.fat
          /\ fileView'.selected = c.item /\ fileView'.chosen = name
      BY <3>1 DEF FilesOk, Viewed
    <3>3. Listed(fileView') = Listed(f)
      BY <3>2 DEF Listed
    <3> QED BY <3>2, <3>3 DEF FilesOk, name
  <2> QED BY <2>1, <2>2
<1>7. c.on \in {"home", "fat", "up", "row"}
  BY DEF FilesClicks, ClickOn, ItemOf
<1> QED BY <1>3, <1>4, <1>5, <1>6, <1>7

LEMMA FilesStart == FilesOk(FilesInit)
<1> DEFINE f == FilesInit
<1>1. Viewed(f) /\ f.selected = 0
  BY DEF Viewed, FilesInit
<1> QED BY <1>1 DEF FilesOk

LEMMA StoreSizes ==
    "" \in Searches /\ (\A s \in Searches : Packages[s] \in Nat) /\ Cards \subseteq Nat \ {0}
BY AppsAssumption DEF Searches

Shops == [search : Searches, focus : BOOLEAN, scroll : Nat]
StoreOk(s) == s \in Shops /\ (Packages[s.search] > 0 => s.scroll < Packages[s.search])

LEMMA ShopKeeps ==
    ASSUME StoreOk(shop), NEW c, NEW key \in BOOLEAN, NEW cards \in Cards, StoreFrame(c, key, cards)
    PROVE  StoreOk(shop')
<1> DEFINE s1 == IF c.on = "none" THEN shop ELSE [shop EXCEPT !.focus = (c.on = "search")]
           s2 == IF c.on = "category" THEN [s1 EXCEPT !.scroll = 0] ELSE s1
<1>1. StoreOk(s1)
  BY DEF StoreOk, Shops
<1> HIDE DEF s1
<1>2. StoreOk(s2)
  BY <1>1 DEF StoreOk, Shops
<1> HIDE DEF s2
<1>3. PICK text \in IF s2.focus /\ key THEN Searches ELSE {s2.search} :
              LET s3 == [s2 EXCEPT !.search = text, !.scroll = IF s2.focus /\ key THEN 0 ELSE @]
                  most == Packages[text] - cards
              IN  shop' = IF Packages[text] <= 4 THEN s3
                           ELSE IF c.on = "up" /\ s3.scroll > 0 THEN [s3 EXCEPT !.scroll = @ - 1]
                           ELSE IF c.on = "down" /\ s3.scroll < most THEN [s3 EXCEPT !.scroll = @ + 1]
                           ELSE s3
  BY DEF StoreFrame, s1, s2
<1> DEFINE s3 == [s2 EXCEPT !.search = text, !.scroll = IF s2.focus /\ key THEN 0 ELSE @]
<1>4. StoreOk(s3) /\ s3.search = text
  <2>1. CASE s2.focus /\ key
    <3>1. s3 = [s2 EXCEPT !.search = text, !.scroll = 0] /\ text \in Searches
      BY <1>3, <2>1
    <3> HIDE DEF s3
    <3>2. s3 \in Shops /\ s3.search = text /\ s3.scroll = 0
      BY <1>2, <3>1 DEF StoreOk, Shops
    <3> QED BY <3>2 DEF StoreOk
  <2>2. CASE ~ (s2.focus /\ key)
    <3>1. text = s2.search
      BY <1>3, <2>2
    <3>2. s3 = s2
      BY <1>2, <2>2, <3>1 DEF StoreOk, Shops
    <3> QED BY <1>2, <3>1, <3>2
  <2> QED BY <2>1, <2>2
<1>5. shop' = IF Packages[text] <= 4 THEN s3
              ELSE IF c.on = "up" /\ s3.scroll > 0 THEN [s3 EXCEPT !.scroll = s3.scroll - 1]
              ELSE IF c.on = "down" /\ s3.scroll < Packages[text] - cards THEN [s3 EXCEPT !.scroll = s3.scroll + 1]
              ELSE s3
  BY <1>3
<1> HIDE DEF s3
<1>6. Packages[text] \in Nat /\ cards \in Nat \ {0} /\ s3.scroll \in Nat
  BY <1>4, StoreSizes DEF StoreOk, Shops
<1>7. ASSUME NEW z \in Nat, z < Packages[text] PROVE StoreOk([s3 EXCEPT !.scroll = z])
  BY <1>4, <1>7 DEF StoreOk, Shops
<1>8. CASE Packages[text] <= 4
  BY <1>4, <1>5, <1>8
<1>9. CASE ~ (Packages[text] <= 4) /\ c.on = "up" /\ s3.scroll > 0
  <2>1. s3.scroll - 1 \in Nat /\ s3.scroll - 1 < Packages[text]
    BY <1>4, <1>6, <1>9 DEF StoreOk
  <2> QED BY <1>5, <1>7, <1>9, <2>1
<1>10. CASE ~ (Packages[text] <= 4) /\ ~ (c.on = "up" /\ s3.scroll > 0) /\ c.on = "down" /\ s3.scroll < Packages[text] - cards
  <2>1. s3.scroll + 1 \in Nat /\ s3.scroll + 1 < Packages[text] + 0
    BY <1>6, <1>10
  <2> QED BY <1>5, <1>6, <1>7, <1>10, <2>1
<1>11. CASE /\ ~ (Packages[text] <= 4) /\ ~ (c.on = "up" /\ s3.scroll > 0)
            /\ ~ (c.on = "down" /\ s3.scroll < Packages[text] - cards)
  BY <1>4, <1>5, <1>11
<1> QED BY <1>8, <1>9, <1>10, <1>11

LEMMA StoreStarts == StoreOk(StoreInit)
BY StoreSizes DEF StoreOk, Shops, StoreInit

----------------------------------------------------------------------------
(* The terminal.                                                           *)

LEMMA HistorySizeNat == HIST_SIZE \in Nat \ {0}
BY AppsAssumption

TermKeys == {"a", "b"}
Line == Seq(TermKeys)
Terms == [inp : Line, hist : Seq(Line), pos : Nat, entered : Seq(Line)]
TermOk(t) == t \in Terms /\ t.hist = LastOnes(t.entered, HIST_SIZE) /\ t.pos <= Len(t.hist)

Tails(h, e, n) ==
    /\ Len(h) = IF Len(e) > n THEN n ELSE Len(e)
    /\ \A i \in 1..Len(h) : h[i] = e[Len(e) - Len(h) + i]

\* What the history holds, position by position.
LEMMA LastOnesAt ==
    ASSUME NEW S, NEW e \in Seq(S), NEW n \in Nat
    PROVE  LastOnes(e, n) \in Seq(S) /\ Tails(LastOnes(e, n), e, n)
<1> DEFINE l == Len(e)
           m == IF l > n THEN l - n + 1 ELSE 1
           h == SubSeq(e, m, l)
<1>1. l \in Nat /\ m \in Int /\ m >= 1
  BY LenProperties
<1>2. \A i \in m..l : e[i] \in S
  BY <1>1, ElementOfSeq
<1>3. LastOnes(e, n) = h
  BY DEF LastOnes
<1>4. h \in Seq(S) /\ Len(h) = (IF m <= l THEN l - m + 1 ELSE 0) /\ \A i \in 1..l - m + 1 : h[i] = e[m + i - 1]
  <2> HIDE DEF m, l
  <2> QED BY <1>1, <1>2, SubSeqProperties
<1> HIDE DEF h
<1>5. Len(h) = IF l > n THEN n ELSE l
  <2>1. CASE l > n
    <3>1. m = l - n + 1
      BY <2>1
    <3> HIDE DEF m, l
    <3> QED BY <1>1, <1>4, <2>1, <3>1
  <2>2. CASE ~ (l > n)
    <3>1. m = 1
      BY <2>2
    <3> HIDE DEF m, l
    <3> QED BY <1>1, <1>4, <2>2, <3>1
  <2> QED BY <2>1, <2>2
<1>6. ASSUME NEW i \in 1..Len(h) PROVE h[i] = e[l - Len(h) + i]
  <2>1. i \in 1..l - m + 1 /\ m + i - 1 = l - Len(h) + i
    BY <1>1, <1>5
  <2> HIDE DEF m, l
  <2> QED BY <1>4, <2>1
<1> QED BY <1>3, <1>4, <1>5, <1>6 DEF Tails

LEMMA LastOnesIs ==
    ASSUME NEW S, NEW e \in Seq(S), NEW n \in Nat, NEW h \in Seq(S), Tails(h, e, n)
    PROVE  h = LastOnes(e, n)
<1> DEFINE g == LastOnes(e, n)
<1>1. g \in Seq(S) /\ Tails(g, e, n)
  BY LastOnesAt
<1> HIDE DEF g
<1>2. Len(h) = Len(g) /\ \A i \in 1..Len(h) : h[i] = g[i]
  BY <1>1 DEF Tails
<1>3. h = g
  BY <1>1, <1>2, SeqEqual
<1> QED BY <1>3 DEF g

\* A full history gives up its oldest entry for the new one.
LEMMA HistoryGrows ==
    ASSUME NEW S, NEW e \in Seq(S), NEW n \in Nat \ {0}, NEW x \in S, NEW h \in Seq(S), Tails(h, e, n)
    PROVE  LET k == Append(IF Len(h) < n THEN h ELSE Tail(h), x)
           IN  k \in Seq(S) /\ Tails(k, Append(e, x), n)
<1> DEFINE r == IF Len(h) < n THEN h ELSE Tail(h)
           k == Append(r, x)
           f == Append(e, x)
<1>1. Len(e) \in Nat /\ Len(h) \in Nat /\ Len(h) = IF Len(e) > n THEN n ELSE Len(e)
  BY LenProperties DEF Tails
<1>2. /\ Len(f) = Len(e) + 1 /\ f[Len(e) + 1] = x
      /\ \A i \in 1..Len(e) : f[i] = e[i]
  BY AppendProperties
<1>3. /\ r \in Seq(S) /\ Len(r) = (IF Len(e) < n THEN Len(e) ELSE n - 1)
      /\ \A i \in 1..Len(r) : r[i] = e[Len(e) - Len(r) + i]
  <2>1. CASE Len(h) < n
    <3>1. r = h /\ Len(h) = Len(e) /\ Len(e) < n
      BY <1>1, <2>1
    <3>2. \A i \in 1..Len(h) : h[i] = e[Len(e) - Len(h) + i]
      BY DEF Tails
    <3> HIDE DEF r
    <3> QED BY <3>1, <3>2
  <2>2. CASE ~ (Len(h) < n)
    <3>1. h # <<>> /\ r = Tail(h) /\ Len(h) = n /\ Len(e) >= n
      BY <1>1, <2>2
    <3> HIDE DEF r
    <3>2. r \in Seq(S) /\ Len(r) = n - 1 /\ \A i \in 1..Len(r) : r[i] = h[i + 1]
      BY <3>1, HeadTailProperties
    <3>3. ASSUME NEW i \in 1..Len(r) PROVE r[i] = e[Len(e) - Len(r) + i]
      <4>1. i + 1 \in 1..Len(h) /\ Len(e) - Len(h) + (i + 1) = Len(e) - Len(r) + i
        <5>1. PICK a \in Nat, b \in Nat, d \in Nat : a = Len(e) /\ b = Len(h) /\ d = Len(r) /\ d = b - 1
          BY <1>1, <3>1, <3>2
        <5> QED BY <5>1
      <4> QED BY <3>2, <4>1 DEF Tails
    <3> QED BY <1>1, <3>1, <3>2, <3>3
  <2> QED BY <2>1, <2>2
<1> HIDE DEF r
<1>4. /\ k \in Seq(S) /\ Len(k) = Len(r) + 1 /\ k[Len(r) + 1] = x
      /\ \A i \in 1..Len(r) : k[i] = r[i]
  BY <1>3, AppendProperties
<1> HIDE DEF k, f
<1>5. Len(k) = IF Len(f) > n THEN n ELSE Len(f)
  BY <1>1, <1>2, <1>3, <1>4
<1>6. ASSUME NEW i \in 1..Len(k) PROVE k[i] = f[Len(f) - Len(k) + i]
  <2>0. Len(r) \in Nat /\ Len(r) <= Len(e)
    BY <1>1, <1>3
  <2>1. CASE i = Len(k)
    <3>1. Len(f) - Len(k) + i = Len(e) + 1 /\ i = Len(r) + 1
      BY <1>1, <1>2, <1>4, <2>0, <2>1
    <3> QED BY <1>2, <1>4, <3>1
  <2>2. CASE i # Len(k)
    <3>1. /\ i \in 1..Len(r) /\ Len(f) - Len(k) + i = Len(e) - Len(r) + i
          /\ Len(e) - Len(r) + i \in 1..Len(e)
      BY <1>1, <1>2, <1>4, <2>0, <2>2
    <3> QED BY <1>2, <1>3, <1>4, <3>1
  <2> QED BY <2>1, <2>2
<1> QED BY <1>4, <1>5, <1>6 DEF Tails, k, f, r

LEMMA RunOk == ASSUME NEW t, TermOk(t) PROVE TermOk(Run(t))
<1>1. CASE t.inp = <<>>
  <2> DEFINE s == [t EXCEPT !.pos = 0]
  <2>1. s \in Terms /\ s.hist = t.hist /\ s.entered = t.entered /\ s.pos = 0 /\ Len(t.hist) \in Nat
    BY LenProperties DEF TermOk, Terms
  <2> HIDE DEF s
  <2>2. TermOk(s)
    BY <2>1 DEF TermOk
  <2> QED BY <1>1, <2>2 DEF Run, s
<1>2. CASE t.inp # <<>>
  <2> DEFINE h == Append(IF Len(t.hist) < HIST_SIZE THEN t.hist ELSE Tail(t.hist), t.inp)
             e == Append(t.entered, t.inp)
             s == [inp |-> <<>>, pos |-> 0, entered |-> e, hist |-> h]
  <2>1. t.inp \in Line /\ t.hist \in Seq(Line) /\ t.entered \in Seq(Line)
    BY DEF TermOk, Terms
  <2>2. Tails(t.hist, t.entered, HIST_SIZE)
    BY <2>1, LastOnesAt, HistorySizeNat DEF TermOk
  <2>3. h \in Seq(Line) /\ Tails(h, e, HIST_SIZE)
    BY <2>1, <2>2, HistoryGrows, HistorySizeNat
  <2>4. e \in Seq(Line) /\ <<>> \in Line
    BY <2>1, AppendProperties DEF Line
  <2> HIDE DEF h, e
  <2>5. h = LastOnes(e, HIST_SIZE)
    BY <2>3, <2>4, LastOnesIs, HistorySizeNat
  <2>6. s \in Terms /\ s.pos = 0 /\ s.hist = h /\ s.entered = e /\ Len(h) \in Nat
    BY <2>3, <2>4, LenProperties DEF Terms
  <2> HIDE DEF s
  <2>7. TermOk(s)
    BY <2>5, <2>6 DEF TermOk
  <2> QED BY <1>2, <2>7 DEF Run, s, h, e
<1> QED BY <1>1, <1>2

\* A line typed or recalled.
LEMMA LineSet ==
    ASSUME NEW t, TermOk(t), NEW l \in Line
    PROVE  TermOk([t EXCEPT !.inp = l])
<1> DEFINE s == [t EXCEPT !.inp = l]
<1>1. s \in Terms /\ s.hist = t.hist /\ s.entered = t.entered /\ s.pos = t.pos
  BY DEF TermOk, Terms
<1> HIDE DEF s
<1>2. TermOk(s)
  BY <1>1 DEF TermOk
<1> QED BY <1>2 DEF s

LEMMA LineBack ==
    ASSUME NEW t, TermOk(t), NEW l \in Line, NEW p \in Nat, p <= Len(t.hist)
    PROVE  TermOk([t EXCEPT !.pos = p, !.inp = l])
<1> DEFINE s == [t EXCEPT !.pos = p, !.inp = l]
<1>1. s \in Terms /\ s.hist = t.hist /\ s.entered = t.entered /\ s.pos = p
  BY DEF TermOk, Terms
<1> HIDE DEF s
<1>2. TermOk(s)
  BY <1>1 DEF TermOk
<1> QED BY <1>2 DEF s

LEMMA Recalled ==
    ASSUME NEW t, TermOk(t), NEW p \in 1..Len(t.hist)
    PROVE  TermOk(RecallLine(t, p))
<1>1. t.hist \in Seq(Line) /\ Len(t.hist) \in Nat
  BY LenProperties DEF TermOk, Terms
<1>2. Len(t.hist) + 1 - p \in 1..Len(t.hist)
  BY <1>1
<1>3. t.hist[Len(t.hist) + 1 - p] \in Line
  BY <1>1, <1>2, ElementOfSeq
<1>4. p \in Nat /\ p <= Len(t.hist)
  BY <1>1
<1> QED BY <1>3, <1>4, LineBack DEF RecallLine

LEMMA TermKeeps ==
    ASSUME TermOk(term), NEW key \in {"enter", "back", "up", "down", "a", "b"}, TermFrame(key)
    PROVE  TermOk(term')
<1>1. term.inp \in Line /\ term.hist \in Seq(Line) /\ Len(term.hist) \in Nat /\ term.pos \in Nat /\ <<>> \in Line
  BY LenProperties DEF TermOk, Terms, Line
<1>2. term.pos <= Len(term.hist)
  BY DEF TermOk
<1>3. CASE key = "enter"
  BY <1>3, RunOk DEF TermFrame
<1>4. CASE key = "back"
  <2> DEFINE l == IF term.inp = <<>> THEN term.inp ELSE Shorter(term.inp)
  <2>1. term' = [term EXCEPT !.inp = l]
    BY <1>4 DEF TermFrame
  <2>2. l \in Line
    <3>1. Len(term.inp) - 1 \in Int /\ \A i \in 1..Len(term.inp) - 1 : term.inp[i] \in TermKeys
      BY <1>1, LenProperties, ElementOfSeq DEF Line
    <3>2. Shorter(term.inp) \in Line
      BY <3>1, SubSeqProperties DEF Shorter, Line
    <3> QED BY <1>1, <3>2
  <2> HIDE DEF l
  <2> QED BY <2>1, <2>2, LineSet
<1>5. CASE key = "up"
  <2>1. CASE term.pos < Len(term.hist)
    <3>1. term' = RecallLine(term, term.pos + 1)
      BY <1>5, <2>1 DEF TermFrame
    <3>2. term.pos + 1 \in 1..Len(term.hist)
      BY <1>1, <2>1
    <3> QED BY <3>1, <3>2, Recalled
  <2>2. CASE ~ (term.pos < Len(term.hist))
    BY <1>5, <2>2 DEF TermFrame
  <2> QED BY <2>1, <2>2
<1>6. CASE key = "down"
  <2>1. CASE term.pos > 1
    <3>1. term' = RecallLine(term, term.pos - 1)
      BY <1>6, <2>1 DEF TermFrame
    <3>2. term.pos - 1 \in 1..Len(term.hist)
      BY <1>1, <1>2, <2>1
    <3> QED BY <3>1, <3>2, Recalled
  <2>2. CASE term.pos = 1
    <3>1. term' = [term EXCEPT !.pos = 0, !.inp = <<>>]
      BY <1>6, <2>2 DEF TermFrame
    <3>2. 0 \in Nat /\ 0 <= Len(term.hist)
      BY <1>1
    <3> QED BY <1>1, <3>1, <3>2, LineBack
  <2>3. CASE ~ (term.pos > 1) /\ term.pos # 1
    BY <1>6, <2>3 DEF TermFrame
  <2> QED BY <2>1, <2>2, <2>3
<1>7. CASE key \in {"a", "b"}
  <2> DEFINE l == IF Len(term.inp) < MaxWord THEN Append(term.inp, key) ELSE term.inp
  <2>1. term' = [term EXCEPT !.inp = l]
    BY <1>7 DEF TermFrame
  <2>2. l \in Line
    BY <1>1, <1>7, AppendProperties DEF Line, TermKeys
  <2> HIDE DEF l
  <2> QED BY <2>1, <2>2, LineSet
<1> QED BY <1>3, <1>4, <1>5, <1>6, <1>7

LEMMA TermStarts == TermOk(TermInit)
<1>1. \A S : <<>> \in Seq(S) /\ Len(<<>>) = 0
  BY EmptySeq
<1>2. Tails(<<>>, <<>>, HIST_SIZE)
  BY <1>1, HistorySizeNat DEF Tails
<1>3. <<>> = LastOnes(<<>>, HIST_SIZE)
  BY <1>1, <1>2, LastOnesIs, HistorySizeNat
<1> QED BY <1>1, <1>3 DEF TermOk, Terms, TermInit, Line

LEMMA TermShows == TermOk(term) => HistoryKept
BY DEF TermOk, HistoryKept

----------------------------------------------------------------------------
(* The editor.                                                             *)

LEMMA FirstText == Welcome \in Seq(TextChars) /\ Heights \subseteq Int
BY AppsAssumption

Ends(text, k) == {i \in 1..k : text[i] = "newline"}
Starts(text, k) == {i \in 1..k : text[i] = "letter" /\ (i = 1 \/ text[i - 1] # "letter")}
InWord(text, k) == k # 0 /\ text[k] = "letter"

\* One step of te_recount, and what it has counted after k characters.
Walk(c, ch) ==
    CASE ch = "newline" -> [c EXCEPT !.lines = @ + 1, !.in = FALSE]
      [] ch = "space"   -> [c EXCEPT !.in = FALSE]
      [] OTHER -> [c EXCEPT !.words = IF c.in THEN @ ELSE @ + 1, !.in = TRUE]
CountStep(text, h, i) == IF i = 0 THEN [lines |-> 1, words |-> 0, in |-> FALSE] ELSE Walk(h[i - 1], text[i])
Counted(text, k) ==
    [lines |-> 1 + Cardinality(Ends(text, k)), words |-> Cardinality(Starts(text, k)), in |-> InWord(text, k)]

LEMMA NextCounts ==
    ASSUME NEW text, NEW k \in Nat \ {0}
    PROVE  /\ Ends(text, k) = IF text[k] = "newline" THEN Ends(text, k - 1) \cup {k} ELSE Ends(text, k - 1)
           /\ Starts(text, k) = IF text[k] = "letter" /\ (k = 1 \/ text[k - 1] # "letter")
                                THEN Starts(text, k - 1) \cup {k} ELSE Starts(text, k - 1)
           /\ k \notin Ends(text, k - 1) /\ k \notin Starts(text, k - 1)
<1>1. 1..k = (1..k - 1) \cup {k} /\ k \notin 1..k - 1
  OBVIOUS
<1> QED BY <1>1 DEF Ends, Starts

LEMMA CountsFinite ==
    ASSUME NEW text, NEW k \in Nat
    PROVE  /\ IsFiniteSet(Ends(text, k)) /\ Cardinality(Ends(text, k)) \in Nat
           /\ IsFiniteSet(Starts(text, k)) /\ Cardinality(Starts(text, k)) \in Nat
<1>1. IsFiniteSet(1..k)
  BY FS_Interval
<1>2. Ends(text, k) \in SUBSET (1..k) /\ Starts(text, k) \in SUBSET (1..k)
  BY DEF Ends, Starts
<1> QED BY <1>1, <1>2, FS_Subset, FS_CardinalityType

LEMMA WalkCounts ==
    ASSUME NEW text, NEW k \in Nat \ {0}, text[k] \in TextChars
    PROVE  Walk(Counted(text, k - 1), text[k]) = Counted(text, k)
<1> DEFINE c == Counted(text, k - 1)
           e == Cardinality(Ends(text, k - 1))
           s == Cardinality(Starts(text, k - 1))
<1>0. k - 1 \in Nat
  OBVIOUS
<1>1. e \in Nat /\ s \in Nat /\ IsFiniteSet(Ends(text, k - 1)) /\ IsFiniteSet(Starts(text, k - 1))
  BY <1>0, CountsFinite
<1>2. Cardinality(Ends(text, k)) = IF text[k] = "newline" THEN e + 1 ELSE e
  <2>1. Cardinality(Ends(text, k - 1) \cup {k}) = e + 1
    <3>1. k \notin Ends(text, k - 1)
      BY NextCounts
    <3> QED BY <1>1, <3>1, FS_AddElement
  <2> HIDE DEF e
  <2> QED BY <2>1, NextCounts DEF e
<1>3. Cardinality(Starts(text, k)) = IF text[k] = "letter" /\ ~ InWord(text, k - 1) THEN s + 1 ELSE s
  <2>1. (k = 1 \/ text[k - 1] # "letter") <=> ~ InWord(text, k - 1)
    BY DEF InWord
  <2>2. Cardinality(Starts(text, k - 1) \cup {k}) = s + 1
    <3>1. k \notin Starts(text, k - 1)
      BY NextCounts
    <3> QED BY <1>1, <3>1, FS_AddElement
  <2>3. CASE text[k] = "letter" /\ ~ InWord(text, k - 1)
    <3>1. Starts(text, k) = Starts(text, k - 1) \cup {k}
      BY <2>1, <2>3, NextCounts
    <3> QED BY <2>2, <2>3, <3>1
  <2>4. CASE ~ (text[k] = "letter" /\ ~ InWord(text, k - 1))
    <3>1. Starts(text, k) = Starts(text, k - 1)
      BY <2>1, <2>4, NextCounts
    <3> QED BY <2>4, <3>1
  <2> QED BY <2>3, <2>4
<1>4. c = [lines |-> 1 + e, words |-> s, in |-> InWord(text, k - 1)]
  BY DEF Counted
<1> HIDE DEF c, e, s
<1>5. CASE text[k] = "newline"
  <2>1. Walk(c, text[k]) = [lines |-> 1 + e + 1, words |-> s, in |-> FALSE]
    BY <1>4, <1>5 DEF Walk
  <2>2. Counted(text, k) = [lines |-> 1 + (e + 1), words |-> s, in |-> FALSE]
    BY <1>2, <1>3, <1>5 DEF Counted, InWord
  <2>3. 1 + e + 1 = 1 + (e + 1)
    BY <1>1
  <2> QED BY <2>1, <2>2, <2>3 DEF c
<1>6. CASE text[k] = "space"
  <2>1. Walk(c, text[k]) = [lines |-> 1 + e, words |-> s, in |-> FALSE]
    BY <1>4, <1>6 DEF Walk
  <2>2. Counted(text, k) = [lines |-> 1 + e, words |-> s, in |-> FALSE]
    BY <1>2, <1>3, <1>6 DEF Counted, InWord
  <2> QED BY <2>1, <2>2 DEF c
<1>7. CASE text[k] = "letter"
  <2> DEFINE w == IF InWord(text, k - 1) THEN s ELSE s + 1
  <2>1. Walk(c, text[k]) = [lines |-> 1 + e, words |-> w, in |-> TRUE]
    BY <1>4, <1>7 DEF Walk
  <2>2. Counted(text, k) = [lines |-> 1 + e, words |-> w, in |-> TRUE]
    BY <1>2, <1>3, <1>7 DEF Counted, InWord
  <2> QED BY <2>1, <2>2 DEF c
<1> QED BY <1>5, <1>6, <1>7 DEF TextChars

\* te_recount counts the line ends and the first letters of words.
LEMMA RecountRight ==
    ASSUME NEW text \in Seq(TextChars)
    PROVE  TextCounts(text) = Counted(text, Len(text))
<1> DEFINE n == Len(text)
           N == CHOOSE f : f = [i \in 0..n |-> CountStep(text, f, i)]
           G == [i \in 0..n |-> Counted(text, i)]
<1>1. n \in Nat /\ \A i \in 1..n : text[i] \in TextChars
  BY LenProperties, ElementOfSeq
<1>2. TextCounts(text) = N[n]
  BY DEF TextCounts, CountStep, Walk
<1> HIDE DEF n
<1>3. Counted(text, 0) = [lines |-> 1, words |-> 0, in |-> FALSE]
  <2>1. Ends(text, 0) = {} /\ Starts(text, 0) = {}
    BY DEF Ends, Starts
  <2>2. Cardinality({}) = 0 /\ 1 + 0 = 1
    BY FS_EmptySet
  <2>3. (0 # 0 /\ text[0] = "letter") = FALSE
    OBVIOUS
  <2>4. Counted(text, 0) = [lines |-> 1 + 0, words |-> 0, in |-> FALSE]
    BY <2>1, <2>2, <2>3 DEF Counted, InWord
  <2> QED BY <2>2, <2>4
<1>4. ASSUME NEW i \in 0..n PROVE CountStep(text, G, i) = Counted(text, i)
  <2>1. CASE i = 0
    BY <1>3, <2>1 DEF CountStep
  <2>2. CASE i # 0
    <3>1. i \in Nat \ {0} /\ i - 1 \in 0..n /\ i \in 1..n
      BY <1>1, <2>2
    <3>2. G[i - 1] = Counted(text, i - 1)
      BY <3>1
    <3> HIDE DEF G
    <3> QED BY <1>1, <2>2, <3>1, <3>2, WalkCounts DEF CountStep
  <2> QED BY <2>1, <2>2
<1>5. G = [i \in 0..n |-> CountStep(text, G, i)]
  <2> DEFINE H == [i \in 0..n |-> CountStep(text, G, i)]
  <2>1. \A i \in 0..n : H[i] = G[i]
    <3> HIDE DEF G
    <3>1. \A i \in 0..n : H[i] = CountStep(text, G, i)
      OBVIOUS
    <3> QED BY <1>4, <3>1 DEF G
  <2>2. DOMAIN H = 0..n /\ DOMAIN G = 0..n /\ H = [i \in 0..n |-> H[i]] /\ G = [i \in 0..n |-> G[i]]
    OBVIOUS
  <2> HIDE DEF H, G
  <2>3. H = G
    BY <2>1, <2>2
  <2> QED BY <2>3 DEF H
<1>6. N = [i \in 0..n |-> CountStep(text, N, i)]
  <2> HIDE DEF G
  <2> QED BY <1>5
<1> HIDE DEF N, G
<1> DEFINE Off == {k \in 0..n : N[k] # Counted(text, k)}
<1>7. Off = {}
  <2> SUFFICES ASSUME Off # {} PROVE FALSE
    OBVIOUS
  <2>1. PICK k \in Off : \A j \in Off : k <= j
    <3>1. Off \subseteq Nat
      OBVIOUS
    <3> QED BY <3>1, LeastOf
  <2>2. k \in 0..n /\ N[k] # Counted(text, k) /\ N[k] = CountStep(text, N, k)
    BY <1>6
  <2>3. k # 0
    BY <1>3, <2>2 DEF CountStep
  <2>4. k \in Nat \ {0} /\ k \in 1..n /\ k - 1 \in 0..n /\ ~ (k <= k - 1)
    BY <1>1, <2>2, <2>3
  <2>5. N[k - 1] = Counted(text, k - 1)
    BY <2>1, <2>4
  <2>6. N[k] = Walk(Counted(text, k - 1), text[k])
    BY <2>2, <2>3, <2>5 DEF CountStep
  <2> QED BY <1>1, <2>2, <2>4, <2>6, WalkCounts
<1>8. n \in 0..n
  BY <1>1
<1> QED BY <1>2, <1>7, <1>8 DEF n

Texts == Seq(TextChars)
Edits == [text : Texts, cursor : Nat, scroll : Int, lines : Int, words : Int, drawn : [line : Int, visible : Int]]
InView(e) ==
    e.drawn.visible > 0 => e.scroll <= e.drawn.line - 1 /\ e.drawn.line - 1 <= e.scroll + e.drawn.visible - 1
Drawn(e) == e \in Edits /\ e.cursor <= Len(e.text) /\ InView(e)
EditOk(e) ==
    /\ Drawn(e)
    /\ e.lines = 1 + Cardinality(Ends(e.text, Len(e.text)))
    /\ e.words = Cardinality(Starts(e.text, Len(e.text)))

LEMMA CountsOf ==
    ASSUME NEW text \in Texts
    PROVE  /\ TextCounts(text).lines \in Int /\ TextCounts(text).words \in Int
           /\ TextCounts(text).lines = 1 + Cardinality(Ends(text, Len(text)))
           /\ TextCounts(text).words = Cardinality(Starts(text, Len(text)))
<1>1. Len(text) \in Nat
  BY LenProperties DEF Texts
<1>2. Cardinality(Ends(text, Len(text))) \in Nat /\ Cardinality(Starts(text, Len(text))) \in Nat
  BY <1>1, CountsFinite
<1>3. TextCounts(text) = Counted(text, Len(text))
  BY RecountRight DEF Texts
<1> QED BY <1>2, <1>3 DEF Counted

LEMMA RecountOk == ASSUME NEW e, Drawn(e) PROVE EditOk(Recount(e))
<1> DEFINE l == TextCounts(e.text).lines
           w == TextCounts(e.text).words
           r == [e EXCEPT !.lines = l, !.words = w]
<1>1. e.text \in Texts
  BY DEF Drawn, Edits
<1>2. l \in Int /\ w \in Int /\ l = 1 + Cardinality(Ends(e.text, Len(e.text))) /\ w = Cardinality(Starts(e.text, Len(e.text)))
  BY <1>1, CountsOf
<1> HIDE DEF l, w
<1>3. /\ r \in Edits /\ r.text = e.text /\ r.cursor = e.cursor /\ r.scroll = e.scroll /\ r.drawn = e.drawn
      /\ r.lines = l /\ r.words = w
  BY <1>2 DEF Drawn, Edits
<1> HIDE DEF r
<1>4. Drawn(r)
  BY <1>3 DEF Drawn, InView
<1>5. EditOk(r)
  BY <1>2, <1>3, <1>4 DEF EditOk
<1> QED BY <1>5 DEF r, l, w, Recount

\* A change to the text and the cursor, and one of the cursor alone.
LEMMA TextSet ==
    ASSUME NEW e, Drawn(e), NEW t \in Texts, NEW c \in Nat, c <= Len(t)
    PROVE  Drawn([e EXCEPT !.text = t, !.cursor = c])
<1> DEFINE r == [e EXCEPT !.text = t, !.cursor = c]
<1>1. r \in Edits /\ r.text = t /\ r.cursor = c /\ r.scroll = e.scroll /\ r.drawn = e.drawn
  BY DEF Drawn, Edits
<1> HIDE DEF r
<1>2. Drawn(r)
  BY <1>1 DEF Drawn, InView
<1> QED BY <1>2 DEF r

LEMMA CursorSet ==
    ASSUME NEW e, EditOk(e), NEW c \in Nat, c <= Len(e.text)
    PROVE  EditOk([e EXCEPT !.cursor = c])
<1> DEFINE r == [e EXCEPT !.cursor = c]
<1>1. /\ r \in Edits /\ r.text = e.text /\ r.cursor = c /\ r.scroll = e.scroll /\ r.drawn = e.drawn
      /\ r.lines = e.lines /\ r.words = e.words
  BY DEF EditOk, Drawn, Edits
<1> HIDE DEF r
<1>2. EditOk(r)
  BY <1>1 DEF EditOk, Drawn, InView
<1> QED BY <1>2 DEF r

LEMMA Inserted ==
    ASSUME NEW t \in Texts, NEW c \in 0..Len(t), NEW ch \in TextChars
    PROVE  With(t, c, ch) \in Texts /\ Len(With(t, c, ch)) = Len(t) + 1
<1> DEFINE l == SubSeq(t, 1, c)
           r == SubSeq(t, c + 1, Len(t))
<1>0. Len(t) \in Nat /\ \A i \in 1..Len(t) : t[i] \in TextChars
  BY LenProperties, ElementOfSeq DEF Texts
<1>1. l \in Texts /\ Len(l) = c
  BY <1>0, SubSeqProperties DEF Texts
<1>2. r \in Texts /\ Len(r) = Len(t) - c
  BY <1>0, SubSeqProperties DEF Texts
<1>3. <<ch>> \in Texts /\ Len(<<ch>>) = 1
  BY DEF Texts
<1> HIDE DEF l, r
<1>4. l \o <<ch>> \in Texts /\ Len(l \o <<ch>>) = Len(l) + Len(<<ch>>)
  BY <1>1, <1>3, ConcatProperties DEF Texts
<1>5. (l \o <<ch>>) \o r \in Texts /\ Len((l \o <<ch>>) \o r) = Len(l \o <<ch>>) + Len(r)
  BY <1>2, <1>4, ConcatProperties DEF Texts
<1>6. Len(l \o <<ch>>) + Len(r) = Len(t) + 1
  BY <1>0, <1>1, <1>2, <1>3, <1>4
<1> QED BY <1>5, <1>6 DEF l, r, With

LEMMA Deleted ==
    ASSUME NEW t \in Texts, NEW c \in 1..Len(t)
    PROVE  Without(t, c) \in Texts /\ Len(Without(t, c)) = Len(t) - 1
<1> DEFINE l == SubSeq(t, 1, c - 1)
           r == SubSeq(t, c + 1, Len(t))
<1>0. Len(t) \in Nat /\ \A i \in 1..Len(t) : t[i] \in TextChars
  BY LenProperties, ElementOfSeq DEF Texts
<1>1. l \in Texts /\ Len(l) = c - 1
  BY <1>0, SubSeqProperties DEF Texts
<1>2. r \in Texts /\ Len(r) = Len(t) - c
  BY <1>0, SubSeqProperties DEF Texts
<1> HIDE DEF l, r
<1>3. l \o r \in Texts /\ Len(l \o r) = Len(l) + Len(r)
  BY <1>1, <1>2, ConcatProperties DEF Texts
<1>4. Len(l) + Len(r) = Len(t) - 1
  BY <1>0, <1>1, <1>2
<1> QED BY <1>3, <1>4 DEF l, r, Without

LEMMA InsertOk == ASSUME NEW e, EditOk(e), NEW ch \in TextChars PROVE EditOk(Insert(e, ch))
<1>1. CASE Len(e.text) >= TE_MAX - 1
  BY <1>1 DEF Insert
<1>2. CASE ~ (Len(e.text) >= TE_MAX - 1)
  <2> DEFINE t == With(e.text, e.cursor, ch)
             c == e.cursor + 1
  <2>1. e.text \in Texts /\ e.cursor \in 0..Len(e.text) /\ Len(e.text) \in Nat /\ Drawn(e)
    BY LenProperties DEF EditOk, Drawn, Edits, Texts
  <2>2. t \in Texts /\ Len(t) = Len(e.text) + 1
    BY <2>1, Inserted
  <2>3. c \in Nat /\ c <= Len(t)
    BY <2>1, <2>2
  <2>4. Insert(e, ch) = Recount([e EXCEPT !.text = t, !.cursor = c])
    BY <1>2, <2>1 DEF Insert
  <2> HIDE DEF t, c
  <2> QED BY <2>1, <2>2, <2>3, <2>4, TextSet, RecountOk
<1> QED BY <1>1, <1>2

LEMMA DeleteOk == ASSUME NEW e, EditOk(e) PROVE EditOk(Delete(e))
<1>1. CASE e.cursor = 0
  BY <1>1 DEF Delete
<1>2. CASE e.cursor # 0
  <2> DEFINE t == Without(e.text, e.cursor)
             c == e.cursor - 1
  <2>1. e.text \in Texts /\ e.cursor \in 1..Len(e.text) /\ Len(e.text) \in Nat /\ Drawn(e)
    BY <1>2, LenProperties DEF EditOk, Drawn, Edits, Texts
  <2>2. t \in Texts /\ Len(t) = Len(e.text) - 1
    BY <2>1, Deleted
  <2>3. c \in Nat /\ c <= Len(t)
    BY <2>1, <2>2
  <2>4. Delete(e) = Recount([e EXCEPT !.text = t, !.cursor = c])
    BY <1>2, <2>1 DEF Delete
  <2> HIDE DEF t, c
  <2> QED BY <2>1, <2>2, <2>3, <2>4, TextSet, RecountOk
<1> QED BY <1>1, <1>2

LEMMA EditKeyOk == ASSUME NEW e, EditOk(e), NEW key PROVE EditOk(EditKey(e, key))
<1>0. e.cursor \in Nat /\ e.cursor <= Len(e.text) /\ Len(e.text) \in Nat
  BY LenProperties DEF EditOk, Drawn, Edits, Texts
<1>1. CASE key = "back"
  BY <1>1, DeleteOk DEF EditKey
<1>2. CASE key \in {"letter", "space", "newline"}
  <2>1. EditKey(e, key) = Insert(e, key)
    BY <1>2 DEF EditKey
  <2> QED BY <1>2, <2>1, InsertOk DEF TextChars
<1>3. CASE key = "left" /\ e.cursor > 0
  <2> DEFINE c == e.cursor - 1
  <2>1. c \in Nat /\ c <= Len(e.text)
    BY <1>0, <1>3
  <2>2. EditKey(e, key) = [e EXCEPT !.cursor = c]
    BY <1>3 DEF EditKey
  <2> HIDE DEF c
  <2> QED BY <2>1, <2>2, CursorSet
<1>4. CASE key = "right" /\ e.cursor < Len(e.text)
  <2> DEFINE c == e.cursor + 1
  <2>1. c \in Nat /\ c <= Len(e.text)
    BY <1>0, <1>4
  <2>2. EditKey(e, key) = [e EXCEPT !.cursor = c]
    BY <1>4 DEF EditKey
  <2> HIDE DEF c
  <2> QED BY <2>1, <2>2, CursorSet
<1>5. CASE /\ key \notin {"back", "letter", "space", "newline"}
           /\ ~ (key = "left" /\ e.cursor > 0) /\ ~ (key = "right" /\ e.cursor < Len(e.text))
  <2>1. EditKey(e, key) = e
    BY <1>5 DEF EditKey
  <2> QED BY <2>1
<1> QED BY <1>1, <1>2, <1>3, <1>4, <1>5

LEMMA NewTextOk == EditOk(NewText)
<1> DEFINE e == [text |-> <<>>, cursor |-> 0, scroll |-> 0, lines |-> 1, words |-> 0,
                 drawn |-> [line |-> 1, visible |-> 1]]
<1>1. <<>> \in Texts /\ Len(<<>>) = 0
  BY EmptySeq DEF Texts
<1>2. e \in Edits /\ e.text = <<>> /\ e.cursor = 0 /\ e.scroll = 0 /\ e.drawn.line = 1 /\ e.drawn.visible = 1
  BY <1>1 DEF Edits
<1> HIDE DEF e
<1>3. Drawn(e)
  BY <1>1, <1>2 DEF Drawn, InView
<1> QED BY <1>3, RecountOk DEF NewText, e

LEMMA CursorLineInt == ASSUME NEW e, EditOk(e) PROVE CursorLine(e) \in Int
<1>1. e.text \in Texts /\ e.cursor \in 0..Len(e.text) /\ Len(e.text) \in Nat /\ \A i \in 1..Len(e.text) : e.text[i] \in TextChars
  BY LenProperties, ElementOfSeq DEF EditOk, Drawn, Edits, Texts
<1>2. SubSeq(e.text, 1, e.cursor) \in Texts
  BY <1>1, SubSeqProperties DEF Texts
<1> QED BY <1>2, CountsOf DEF CursorLine

\* The view that follows the cursor has its line.
LEMMA ScrolledOk ==
    ASSUME NEW e, EditOk(e), NEW visible \in Int
    PROVE  EditOk([e EXCEPT !.scroll = Scroll(e, visible), !.drawn = [line |-> CursorLine(e), visible |-> visible]])
<1> DEFINE l == CursorLine(e)
           s == Scroll(e, visible)
           d == [line |-> l, visible |-> visible]
           r == [e EXCEPT !.scroll = s, !.drawn = d]
<1>1. l \in Int /\ e.scroll \in Int
  BY CursorLineInt DEF EditOk, Drawn, Edits
<1>2. s \in Int /\ (visible > 0 => s <= l - 1 /\ l - 1 <= s + visible - 1)
  <2> HIDE DEF l
  <2>1. s = LET up == IF l - 1 < e.scroll THEN l - 1 ELSE e.scroll
            IN  IF l - 1 >= up + visible THEN l - visible ELSE up
    BY DEF Scroll, l
  <2> HIDE DEF s
  <2> QED BY <1>1, <2>1
<1> HIDE DEF l, s
<1>3. /\ r \in Edits /\ r.text = e.text /\ r.cursor = e.cursor /\ r.scroll = s /\ r.drawn = d
      /\ r.lines = e.lines /\ r.words = e.words
  BY <1>1, <1>2 DEF EditOk, Drawn, Edits
<1>4. d.line = l /\ d.visible = visible
  OBVIOUS
<1> HIDE DEF r, d
<1>5. InView(r)
  BY <1>2, <1>3, <1>4 DEF InView
<1>6. EditOk(r)
  BY <1>3, <1>5 DEF EditOk, Drawn
<1> QED BY <1>6 DEF r, s, d, l

LEMMA EditKeeps ==
    ASSUME EditOk(edit), NEW c, NEW key, NEW visible \in Heights, EditFrame(c, key, visible)
    PROVE  EditOk(edit')
<1> DEFINE e == IF c = ClickOn("new") THEN NewText ELSE edit
           r == [e EXCEPT !.scroll = Scroll(e, visible), !.drawn = [line |-> CursorLine(e), visible |-> visible]]
<1>1. edit' = EditKey(r, key)
  BY DEF EditFrame
<1>2. EditOk(e) /\ visible \in Int
  BY NewTextOk, FirstText
<1> HIDE DEF e
<1>3. EditOk(r)
  BY <1>2, ScrolledOk
<1> HIDE DEF r
<1> QED BY <1>1, <1>3, EditKeyOk

LEMMA EditStarts == EditOk(Recount([NewText EXCEPT !.text = Welcome, !.cursor = Len(Welcome)]))
<1>1. Welcome \in Texts /\ Len(Welcome) \in Nat /\ Len(Welcome) <= Len(Welcome)
  BY FirstText, LenProperties DEF Texts
<1>2. Drawn(NewText)
  BY NewTextOk DEF EditOk
<1>3. Drawn([NewText EXCEPT !.text = Welcome, !.cursor = Len(Welcome)])
  BY <1>1, <1>2, TextSet
<1> QED BY <1>3, RecountOk

LEMMA EditShows == EditOk(edit) => Recounted /\ CursorShown
<1> SUFFICES ASSUME EditOk(edit) PROVE Recounted /\ CursorShown
  OBVIOUS
<1>1. edit.text \in Texts /\ DOMAIN edit.text = 1..Len(edit.text) /\ Len(edit.text) \in Nat
  BY LenProperties DEF EditOk, Drawn, Edits, Texts
<1>2. /\ {i \in DOMAIN edit.text : edit.text[i] = "newline"} = Ends(edit.text, Len(edit.text))
      /\ WordStarts(edit.text) = Starts(edit.text, Len(edit.text))
  BY <1>1 DEF Ends, Starts, WordStarts
<1>3. Recounted
  BY <1>2 DEF EditOk, Recounted
<1>4. edit.scroll \in Int /\ edit.drawn.line \in Int /\ edit.drawn.visible \in Int
  BY DEF EditOk, Drawn, Edits
<1>5. CursorShown
  BY <1>4 DEF EditOk, Drawn, InView, CursorShown
<1> QED BY <1>3, <1>5

----------------------------------------------------------------------------
(* The applications together.                                              *)

AppsInv ==
    /\ BrowserOk(browser) /\ EditOk(edit) /\ NotesOk(notes) /\ TermOk(term)
    /\ CalendarOk(calendar) /\ WatchOk(watch) /\ FilesOk(fileView) /\ StoreOk(shop)

LEMMA WatchStarts == WatchOk([running |-> FALSE, start |-> 0, elapsed |-> 0, now |-> 0, ran |-> 0])
BY DEF WatchOk

LEMMA AppsStart == AppsInit => AppsInv
<1> SUFFICES ASSUME AppsInit PROVE AppsInv
  OBVIOUS
<1>1. BrowserOk(browser) /\ EditOk(edit) /\ NotesOk(notes) /\ TermOk(term)
  BY BrowserStarts, EditStarts, NotesStart, TermStarts DEF AppsInit
<1>2. CalendarOk(calendar)
  <2>1. PICK today : /\ today \in IF front = "calendar" THEN Dates ELSE {CHOOSE t \in Dates : TRUE}
                     /\ calendar = [view |-> today.month, sel |-> today.day]
    BY DEF AppsInit
  <2>2. today \in Dates
    <3>1. CASE front = "calendar"
      BY <2>1, <3>1
    <3>2. CASE front # "calendar"
      BY <2>1, <3>2, YearsThere
    <3> QED BY <3>1, <3>2
  <2> QED BY <2>1, <2>2, TodayOk
<1>3. WatchOk(watch) /\ FilesOk(fileView) /\ StoreOk(shop)
  BY WatchStarts, FilesStart, StoreStarts DEF AppsInit
<1> QED BY <1>1, <1>2, <1>3 DEF AppsInv

LEMMA AppsKeep == AppsInv /\ [AppsNext]_kernelAppVars => AppsInv'
<1> SUFFICES ASSUME AppsInv, [AppsNext]_kernelAppVars PROVE AppsInv'
  OBVIOUS
<1> USE DEF AppsInv
<1>1. ASSUME NEW c \in BrowserClicks, NEW key \in {"none", "enter", "other"}, BrowserFrame(c, key) PROVE AppsInv'
  <2>1. BrowserOk(browser')
    BY <1>1, BrowserKeeps
  <2>2. /\ edit' = edit /\ notes' = notes /\ term' = term /\ calendar' = calendar /\ watch' = watch
        /\ fileView' = fileView /\ shop' = shop
    BY <1>1 DEF BrowserFrame
  <2> QED BY <2>1, <2>2
<1>2. ASSUME NEW c, NEW visible \in Heights, NEW key, EditFrame(c, key, visible) PROVE AppsInv'
  <2>1. EditOk(edit')
    BY <1>2, EditKeeps
  <2>2. /\ browser' = browser /\ notes' = notes /\ term' = term /\ calendar' = calendar /\ watch' = watch
        /\ fileView' = fileView /\ shop' = shop
    BY <1>2 DEF EditFrame
  <2> QED BY <2>1, <2>2
<1>3. ASSUME NEW c, NEW key, NotesFrame(c, key) PROVE AppsInv'
  <2>1. NotesOk(notes')
    BY <1>3, NotesKeep
  <2>2. /\ browser' = browser /\ edit' = edit /\ term' = term /\ calendar' = calendar /\ watch' = watch
        /\ fileView' = fileView /\ shop' = shop
    BY <1>3 DEF NotesFrame
  <2> QED BY <2>1, <2>2
<1>4. ASSUME NEW key \in {"enter", "back", "up", "down", "a", "b"}, TermFrame(key) PROVE AppsInv'
  <2>1. TermOk(term')
    BY <1>4, TermKeeps
  <2>2. /\ browser' = browser /\ edit' = edit /\ notes' = notes /\ calendar' = calendar /\ watch' = watch
        /\ fileView' = fileView /\ shop' = shop
    BY <1>4 DEF TermFrame
  <2> QED BY <2>1, <2>2
<1>5. ASSUME NEW c \in CalendarClicks, NEW today \in Dates, CalendarFrame(c, today) PROVE AppsInv'
  <2>1. CalendarOk(calendar')
    BY <1>5, CalendarKeeps
  <2>2. /\ browser' = browser /\ edit' = edit /\ notes' = notes /\ term' = term /\ watch' = watch
        /\ fileView' = fileView /\ shop' = shop
    BY <1>5 DEF CalendarFrame
  <2> QED BY <2>1, <2>2
<1>6. ASSUME NEW c, NEW now \in 0..MaxTime, WatchFrame(c, now) PROVE AppsInv'
  <2>1. WatchOk(watch')
    BY <1>6, WatchKeeps
  <2>2. /\ browser' = browser /\ edit' = edit /\ notes' = notes /\ term' = term /\ calendar' = calendar
        /\ fileView' = fileView /\ shop' = shop
    BY <1>6 DEF WatchFrame
  <2> QED BY <2>1, <2>2
<1>7. ASSUME NEW c \in FilesClicks, FilesFrame(c) PROVE AppsInv'
  <2>1. FilesOk(fileView')
    BY <1>7, FilesKeep
  <2>2. /\ browser' = browser /\ edit' = edit /\ notes' = notes /\ term' = term /\ calendar' = calendar
        /\ watch' = watch /\ shop' = shop
    BY <1>7 DEF FilesFrame
  <2> QED BY <2>1, <2>2
<1>8. ASSUME NEW c, NEW key \in BOOLEAN, NEW cards \in Cards, StoreFrame(c, key, cards) PROVE AppsInv'
  <2>1. StoreOk(shop')
    BY <1>8, ShopKeeps
  <2>2. /\ browser' = browser /\ edit' = edit /\ notes' = notes /\ term' = term /\ calendar' = calendar
        /\ watch' = watch /\ fileView' = fileView
    BY <1>8 DEF StoreFrame
  <2> QED BY <2>1, <2>2
<1>9. CASE UNCHANGED kernelAppVars
  <2>1. /\ browser' = browser /\ edit' = edit /\ notes' = notes /\ term' = term /\ calendar' = calendar
        /\ watch' = watch /\ fileView' = fileView /\ shop' = shop
    BY <1>9 DEF kernelAppVars
  <2> QED BY <2>1
<1> HIDE DEF AppsInv
<1> QED BY <1>1, <1>2, <1>3, <1>4, <1>5, <1>6, <1>7, <1>8, <1>9 DEF AppsNext

LEMMA AppsShow == AppsInv => AppsShown
<1> SUFFICES ASSUME AppsInv PROVE AppsShown
  OBVIOUS
<1>1. PageShown /\ Recounted /\ CursorShown /\ NoteSelected /\ HistoryKept
  BY BrowserShows, EditShows, NotesShow, TermShows DEF AppsInv
<1>2. MonthRight /\ StopwatchExact
  BY CalendarShows, WatchShows DEF AppsInv
<1>3. RowMarked /\ FindsShown
  BY DEF AppsInv, FilesOk, StoreOk, RowMarked, FindsShown
<1> QED BY <1>1, <1>2, <1>3 DEF AppsShown

\* What an application shows is what it was given, after any clicks and keys, for texts,
\* tabs, histories and years without bound.
THEOREM AppsDoShow == AppsSpec => []AppsShown
BY AppsStart, AppsKeep, AppsShow, PTL DEF AppsSpec

----------------------------------------------------------------------------
(* The processors.  A list of the first of a set is in the order of their  *)
(* numbers: the n-th is the one with n of them up to it.                   *)
UpTo(S, i) == {j \in S : j <= i}
IsNth(S, n, i) == i \in S /\ Cardinality(UpTo(S, i)) = n

LEMMA NumbersFinite ==
    ASSUME NEW k \in Nat, NEW S \in SUBSET (1..k)
    PROVE  IsFiniteSet(S) /\ Cardinality(S) \in Nat
<1>1. k \in Int /\ 1 \in Int
  OBVIOUS
<1>2. IsFiniteSet(1..k)
  BY ONLY <1>1, FS_Interval
<1>3. IsFiniteSet(S)
  BY ONLY <1>2, S \in SUBSET (1..k), FS_Subset
<1> QED BY ONLY <1>3, FS_CardinalityType

LEMMA UpToFinite ==
    ASSUME NEW k \in Nat, NEW S \in SUBSET (1..k), NEW i
    PROVE  UpTo(S, i) \in SUBSET S /\ IsFiniteSet(UpTo(S, i)) /\ Cardinality(UpTo(S, i)) \in Nat
<1>1. UpTo(S, i) \in SUBSET S
  BY DEF UpTo
<1>2. UpTo(S, i) \in SUBSET (1..k)
  BY <1>1
<1> QED BY ONLY <1>1, <1>2, k \in Nat, NumbersFinite

LEMMA UpToStep ==
    ASSUME NEW k \in Nat, NEW S \in SUBSET (1..k), NEW i \in Nat \ {0}
    PROVE  /\ Cardinality(UpTo(S, i)) \in Nat /\ Cardinality(UpTo(S, i - 1)) \in Nat
           /\ Cardinality(UpTo(S, i)) = IF i \in S THEN Cardinality(UpTo(S, i - 1)) + 1
                                        ELSE Cardinality(UpTo(S, i - 1))
<1> DEFINE T == UpTo(S, i - 1)
<1>2. /\ IsFiniteSet(T) /\ Cardinality(T) \in Nat
      /\ Cardinality(UpTo(S, i)) \in Nat
  BY UpToFinite
<1>5. \A j \in S : (j <= i <=> j <= i - 1 \/ j = i) /\ ~(i <= i - 1)
  <2>1. \A j \in S : j \in Nat
    OBVIOUS
  <2> QED BY <2>1
<1>3. CASE i \in S
  <2>1. UpTo(S, i) = T \cup {i} /\ i \notin T
    BY <1>3, <1>5 DEF UpTo
  <2> HIDE DEF T
  <2>2. Cardinality(T \cup {i}) = IF i \in T THEN Cardinality(T) ELSE Cardinality(T) + 1
    BY ONLY <1>2, FS_AddElement
  <2>3. Cardinality(UpTo(S, i)) = Cardinality(T) + 1
    BY ONLY <2>1, <2>2
  <2> QED BY <1>2, <1>3, <2>3 DEF T
<1>4. CASE i \notin S
  <2>1. UpTo(S, i) = T
    BY <1>4, <1>5 DEF UpTo
  <2> QED BY <1>2, <1>4, <2>1
<1> QED BY <1>3, <1>4

LEMMA NthUnique ==
    ASSUME NEW k \in Nat, NEW S \in SUBSET (1..k), NEW n, NEW i, NEW j, IsNth(S, n, i), IsNth(S, n, j)
    PROVE  i = j
<1>1. ASSUME NEW a \in S, NEW b \in S, a < b PROVE Cardinality(UpTo(S, a)) # Cardinality(UpTo(S, b))
  <2>1. IsFiniteSet(UpTo(S, b))
    BY UpToFinite
  <2>2. UpTo(S, a) \in SUBSET UpTo(S, b) /\ b \in UpTo(S, b) /\ b \notin UpTo(S, a)
    <3>1. \A x \in S : x \in Nat
      OBVIOUS
    <3>2. \A x \in S : x <= a => x <= b
      BY <1>1, <3>1
    <3>3. b <= b /\ ~(b <= a)
      BY <1>1, <3>1
    <3> QED BY <3>2, <3>3 DEF UpTo
  <2>3. UpTo(S, a) # UpTo(S, b)
    BY <2>2
  <2> QED BY ONLY <2>1, <2>2, <2>3, FS_Subset
<1>2. i \in S /\ j \in S /\ i \in Int /\ j \in Int /\ Cardinality(UpTo(S, i)) = Cardinality(UpTo(S, j))
  BY DEF IsNth
<1>3. i < j \/ j < i \/ i = j
  BY <1>2
<1> QED BY <1>1, <1>2, <1>3

LEMMA NthExists ==
    ASSUME NEW k \in Nat, NEW S \in SUBSET (1..k), NEW n \in 1..Cardinality(S)
    PROVE  \E i : IsNth(S, n, i)
<1> DEFINE A == {i \in Nat : Cardinality(UpTo(S, i)) >= n}
<1>1. UpTo(S, k) = S /\ UpTo(S, 0) = {} /\ Cardinality(S) \in Nat
  <2>1. Cardinality(S) \in Nat
    BY NumbersFinite
  <2>2. \A j \in S : j <= k /\ ~(j <= 0)
    OBVIOUS
  <2> QED BY <2>1, <2>2 DEF UpTo
<1>2. k \in A /\ 0 \notin A
  BY <1>1, FS_EmptySet
<1>3. PICK i \in A : \A j \in A : i <= j
  <2>1. A \in SUBSET Nat /\ A # {}
    BY <1>2
  <2> HIDE DEF A
  <2> QED BY <2>1, LeastOf
<1>4. i \in Nat \ {0} /\ i - 1 \in Nat /\ i - 1 \notin A
  BY <1>2, <1>3
<1>5. Cardinality(UpTo(S, i)) >= n /\ ~(Cardinality(UpTo(S, i - 1)) >= n)
  BY <1>3, <1>4
<1> HIDE DEF A
<1>6. i \in S /\ Cardinality(UpTo(S, i)) = n
  <2>1. /\ Cardinality(UpTo(S, i)) \in Nat /\ Cardinality(UpTo(S, i - 1)) \in Nat
        /\ Cardinality(UpTo(S, i)) = IF i \in S THEN Cardinality(UpTo(S, i - 1)) + 1
                                     ELSE Cardinality(UpTo(S, i - 1))
    BY <1>4, UpToStep
  <2> QED BY <1>1, <1>5, <2>1
<1> QED BY <1>6 DEF IsNth

Nth(S, n) == CHOOSE i \in S : Cardinality({j \in S : j <= i}) = n

LEMMA NthIs ==
    ASSUME NEW k \in Nat, NEW S \in SUBSET (1..k), NEW n \in 1..Cardinality(S)
    PROVE  Nth(S, n) \in S /\ IsNth(S, n, Nth(S, n))
<1>1. \E i \in S : Cardinality({j \in S : j <= i}) = n
  <2>1. PICK i : IsNth(S, n, i)
    BY NthExists
  <2> QED BY <2>1 DEF IsNth, UpTo
<1>2. Nth(S, n) \in S /\ Cardinality({j \in S : j <= Nth(S, n)}) = n
  BY ONLY <1>1 DEF Nth
<1> QED BY <1>2 DEF IsNth, UpTo

LEMMA InOrderIs ==
    ASSUME NEW k \in Nat, NEW S \in SUBSET (1..k), NEW most \in Nat
    PROVE  \E m \in Nat : /\ m <= Cardinality(S) /\ m = Min({Cardinality(S), most})
                          /\ (Cardinality(S) <= most => m = Cardinality(S))
                          /\ DOMAIN InOrder(S, most) = 1..m
                          /\ \A n \in 1..m : /\ InOrder(S, most)[n] = Nth(S, n)
                                             /\ InOrder(S, most)[n] \in S
                                             /\ IsNth(S, n, InOrder(S, most)[n])
<1> DEFINE m == Min({Cardinality(S), most})
<1>1. Cardinality(S) \in Nat
  BY NumbersFinite
<1>2. m \in Nat /\ m <= Cardinality(S) /\ (Cardinality(S) <= most => m = Cardinality(S))
  BY <1>1 DEF Min
<1> HIDE DEF m
<1>3. InOrder(S, most) = [n \in 1..m |-> Nth(S, n)]
  BY DEF InOrder, Nth, m
<1>4. ASSUME NEW n \in 1..m PROVE InOrder(S, most)[n] = Nth(S, n) /\ Nth(S, n) \in S /\ IsNth(S, n, Nth(S, n))
  <2>1. n \in 1..Cardinality(S)
    BY <1>1, <1>2
  <2> QED BY <1>3, <2>1, NthIs
<1> QED BY <1>2, <1>3, <1>4 DEF m

\* The entries of a table lie one behind the other.
Last(c) == Len(c.heads) - 1

LEMMA ComputerIs ==
    ASSUME NEW c \in Computers
    PROVE  /\ c.roots \in Seq(Rsdp) /\ c.madt \in Seq(0..255) /\ Len(c.madt) \in Nat /\ Last(c) \in Nat
           /\ \A k \in 1..Last(c) + 1 : c.heads[k] \in Nat
           /\ c.heads[1] = 0 /\ c.heads[Last(c) + 1] = Len(c.madt)
           /\ \A k \in 1..Last(c) :
                 /\ c.heads[k] + 2 <= c.heads[k + 1] /\ c.madt[c.heads[k] + 2] = c.heads[k + 1] - c.heads[k]
                 /\ c.madt[c.heads[k] + 1] = 0 => c.heads[k] + 8 <= c.heads[k + 1]
           /\ c.cut = 0 \/ (Last(c) > 0 /\ c.cut \in 0..Len(c.madt) - c.heads[Last(c)])
<1>1. /\ c.roots \in Seq(Rsdp) /\ c.madt \in Seq(0..255) /\ c.heads \in Seq(Nat)
      /\ Last(c) \in Nat /\ c.heads[1] = 0 /\ c.heads[Last(c) + 1] = Len(c.madt)
      /\ \A k \in 1..Last(c) :
            /\ c.heads[k] + 2 <= c.heads[k + 1] /\ c.madt[c.heads[k] + 2] = c.heads[k + 1] - c.heads[k]
            /\ c.madt[c.heads[k] + 1] = 0 => c.heads[k] + 8 <= c.heads[k + 1]
      /\ c.cut = 0 \/ (Last(c) > 0 /\ c.cut \in 0..Len(c.madt) - c.heads[Last(c)])
  BY AcpiAssumption, Zenon DEF Last
<1>2. Len(c.heads) = Last(c) + 1 /\ DOMAIN c.heads = 1..Len(c.heads)
  BY <1>1 DEF Last
<1>3. \A k \in 1..Last(c) + 1 : c.heads[k] \in Nat
  BY <1>1, <1>2
<1>4. Len(c.madt) \in Nat
  BY <1>1
<1> QED BY <1>1, <1>3, <1>4

LEMMA HeadsGrow ==
    ASSUME NEW c \in Computers, NEW k \in 1..Last(c) + 1, NEW j \in 1..k
    PROVE  c.heads[j] <= c.heads[k]
<1> DEFINE bad == {d \in Nat : d < k /\ ~(c.heads[k - d] <= c.heads[k])}
<1>1. /\ Last(c) \in Nat
      /\ \A i \in 1..Last(c) + 1 : c.heads[i] \in Nat
      /\ \A i \in 1..Last(c) : c.heads[i] + 2 <= c.heads[i + 1]
  BY ComputerIs
<1>2. SUFFICES ASSUME bad # {} PROVE FALSE
  <2>1. k - j \in Nat /\ k - j < k /\ k - (k - j) = j
    BY <1>1
  <2> QED BY <2>1
<1>3. PICK d \in bad : \A e \in bad : d <= e
  <2>1. bad \in SUBSET Nat /\ bad # {}
    BY <1>2
  <2> HIDE DEF bad
  <2> QED BY <2>1, LeastOf
<1>4. d # 0
  BY <1>1
<1>5. d - 1 \in Nat /\ d - 1 < k /\ ~(d - 1 \in bad)
  BY <1>3, <1>4
<1>6. c.heads[k - (d - 1)] <= c.heads[k]
  BY <1>5
<1>7. k - d \in 1..Last(c) /\ (k - d) + 1 = k - (d - 1) /\ k - (d - 1) \in 1..Last(c) + 1 /\ k - d \in 1..Last(c) + 1
  BY <1>1, <1>3, <1>4
<1>8. c.heads[k - d] + 2 <= c.heads[k - (d - 1)]
  BY <1>1, <1>7
<1>9. c.heads[k - d] \in Nat /\ c.heads[k - (d - 1)] \in Nat /\ c.heads[k] \in Nat
  BY <1>1, <1>7
<1>10. c.heads[k - d] <= c.heads[k]
  BY <1>6, <1>8, <1>9
<1> QED BY <1>3, <1>10

LEMMA HeadsFit ==
    ASSUME NEW c \in Computers, NEW k \in 1..Last(c) + 1
    PROVE  c.heads[k] \in Nat /\ c.heads[k] <= Len(c.madt) /\ k <= c.heads[k] + 1
<1> DEFINE bad == {i \in Nat : i \in 1..Last(c) + 1 /\ ~(i <= c.heads[i] + 1)}
<1>1. /\ Last(c) \in Nat /\ c.heads[Last(c) + 1] = Len(c.madt) /\ c.heads[1] = 0
      /\ \A i \in 1..Last(c) + 1 : c.heads[i] \in Nat
      /\ \A i \in 1..Last(c) : c.heads[i] + 2 <= c.heads[i + 1]
  BY ComputerIs
<1>2. c.heads[k] <= Len(c.madt)
  <2>1. Last(c) + 1 \in 1..Last(c) + 1 /\ k \in 1..Last(c) + 1
    BY <1>1
  <2>2. c.heads[k] <= c.heads[Last(c) + 1]
    BY <2>1, HeadsGrow
  <2> QED BY <1>1, <2>2
<1>3. bad = {}
  <2>1. SUFFICES ASSUME bad # {} PROVE FALSE
    OBVIOUS
  <2>2. PICK i \in bad : \A e \in bad : i <= e
    <3>1. bad \in SUBSET Nat /\ bad # {}
      BY <2>1
    <3> HIDE DEF bad
    <3> QED BY <3>1, LeastOf
  <2>3. i # 1
    BY <1>1
  <2>4. i - 1 \in 1..Last(c) /\ i - 1 \in 1..Last(c) + 1 /\ i - 1 \in Nat /\ ~(i - 1 \in bad) /\ (i - 1) + 1 = i
    BY <1>1, <2>2, <2>3
  <2>5. i - 1 <= c.heads[i - 1] + 1
    BY <2>4
  <2>6. c.heads[i - 1] + 2 <= c.heads[i] /\ c.heads[i - 1] \in Nat /\ c.heads[i] \in Nat
    BY <1>1, <2>2, <2>4
  <2>7. i <= c.heads[i] + 1
    BY <2>2, <2>5, <2>6
  <2> QED BY <2>2, <2>7
<1> QED BY <1>1, <1>2, <1>3

\* Where a loop is that goes from head to head, and stays at that with the number m.
Stations(c, m, size) == [n \in 1..size + 1 |-> c.heads[IF n <= m THEN n ELSE m]]

\* The bytes of an entry, as the kernel reads them in b.
Shows(c, b, k) ==
    /\ ByteAt(b, c.heads[k]) = c.madt[c.heads[k] + 1] /\ ByteAt(b, c.heads[k] + 1) = c.heads[k + 1] - c.heads[k]
    /\ c.madt[c.heads[k] + 1] = 0 =>
          /\ ByteAt(b, c.heads[k] + 1) >= 8
          /\ ByteAt(b, c.heads[k] + 3) = IdOf(c, k) /\ (ByteAt(b, c.heads[k] + 4) % 2 = 1 <=> EnabledAt(c, k))

LEMMA EntryShows ==
    ASSUME NEW c \in Computers, NEW b, Len(b) \in Nat, \A p \in 1..Len(b) : b[p] = c.madt[p],
           NEW k \in 1..Last(c), c.heads[k + 1] <= Len(b)
    PROVE  Shows(c, b, k)
<1> DEFINE h == c.heads[k]
           g == c.heads[k + 1]
<1>1. /\ h \in Nat /\ g \in Nat /\ h + 2 <= g /\ c.madt[h + 2] = g - h
      /\ c.madt[h + 1] = 0 => h + 8 <= g
  <2>1. /\ Last(c) \in Nat /\ \A i \in 1..Last(c) + 1 : c.heads[i] \in Nat
        /\ h + 2 <= g /\ c.madt[h + 2] = g - h
        /\ c.madt[h + 1] = 0 => h + 8 <= g
    BY ComputerIs
  <2>2. k \in 1..Last(c) + 1 /\ k + 1 \in 1..Last(c) + 1
    BY <2>1
  <2> QED BY <2>1, <2>2
<1>2. \A p \in 0..Len(b) - 1 : ByteAt(b, p) = c.madt[p + 1]
  BY DEF ByteAt
<1>5. g <= Len(b)
  OBVIOUS
<1> HIDE DEF g, h
<1>3. ByteAt(b, h) = c.madt[h + 1] /\ ByteAt(b, h + 1) = g - h
  <2>1. h \in 0..Len(b) - 1 /\ h + 1 \in 0..Len(b) - 1 /\ (h + 1) + 1 = h + 2
    BY <1>1, <1>5
  <2> QED BY <1>1, <1>2, <2>1
<1>4. ASSUME c.madt[h + 1] = 0
      PROVE  /\ ByteAt(b, h + 1) >= 8 /\ ByteAt(b, h + 3) = c.madt[h + 4] /\ ByteAt(b, h + 4) = c.madt[h + 5]
  <2>1. h + 8 <= g
    BY <1>1, <1>4
  <2>2. h + 3 \in 0..Len(b) - 1 /\ h + 4 \in 0..Len(b) - 1 /\ g - h >= 8
    BY <1>1, <1>5, <2>1
  <2>3. (h + 3) + 1 = h + 4 /\ (h + 4) + 1 = h + 5
    BY <1>1
  <2> QED BY <1>2, <1>3, <2>2, <2>3
<1> QED BY <1>3, <1>4 DEF Shows, IdOf, EnabledAt, g, h

LEMMA TurnsAre ==
    ASSUME NEW c \in Computers, NEW m \in 1..Last(c) + 1, NEW size \in Nat, NEW next,
           \A k \in 1..m - 1 : next[c.heads[k]] = c.heads[k + 1], next[c.heads[m]] = c.heads[m]
    PROVE  LoopAt(size, next) = Stations(c, m, size)
<1> DEFINE S == Stations(c, m, size)
           Goes(g) == g = [n \in 1..size + 1 |-> IF n = 1 THEN 0 ELSE next[g[n - 1]]]
<1>1. c.heads[1] = 0 /\ Last(c) \in Nat /\ m \in Nat /\ m >= 1
  BY ComputerIs
<1>2. S = [n \in 1..size + 1 |-> c.heads[IF n <= m THEN n ELSE m]]
  BY DEF Stations
<1> HIDE DEF S
<1>3. ASSUME NEW n \in 1..size + 1 PROVE S[n] = IF n = 1 THEN 0 ELSE next[S[n - 1]]
  <2>1. S[n] = c.heads[IF n <= m THEN n ELSE m]
    BY <1>2
  <2>2. CASE n = 1
    BY <1>1, <2>1, <2>2
  <2>3. CASE n # 1 /\ n <= m
    <3>1. n - 1 \in 1..size + 1 /\ n - 1 \in 1..m - 1 /\ (n - 1) + 1 = n /\ n - 1 <= m
      BY <1>1, <2>3
    <3>2. S[n - 1] = c.heads[n - 1] /\ next[c.heads[n - 1]] = c.heads[n]
      BY <1>2, <3>1
    <3> QED BY <2>1, <2>3, <3>2
  <2>4. CASE ~(n <= m)
    <3>1. n - 1 \in 1..size + 1 /\ (n - 1 <= m => n - 1 = m) /\ n # 1
      BY <1>1, <2>4
    <3>2. S[n - 1] = c.heads[m]
      BY <1>2, <3>1
    <3> QED BY <2>1, <2>4, <3>1, <3>2
  <2> QED BY <2>2, <2>3, <2>4
<1>4. Goes(S)
  <2>1. S = [n \in 1..size + 1 |-> S[n]]
    BY <1>2
  <2> QED BY <1>3, <2>1
<1>5. ASSUME NEW g, Goes(g) PROVE g = S
  <2> DEFINE bad == {n \in Nat : n \in 1..size + 1 /\ g[n] # S[n]}
  <2>1. bad = {}
    <3>1. SUFFICES ASSUME bad # {} PROVE FALSE
      OBVIOUS
    <3>2. PICK n \in bad : \A e \in bad : n <= e
      <4>1. bad \in SUBSET Nat /\ bad # {}
        BY <3>1
      <4> HIDE DEF bad
      <4> QED BY <4>1, LeastOf
    <3>3. \A i \in 1..size + 1 : g[i] = IF i = 1 THEN 0 ELSE next[g[i - 1]]
      BY <1>5
    <3>4. n \in 1..size + 1 /\ g[n] # S[n]
      BY <3>2
    <3>5. n # 1
      BY <1>3, <3>3, <3>4
    <3>6. n - 1 \in 1..size + 1 /\ n - 1 \in Nat /\ ~(n <= n - 1)
      BY <3>4, <3>5
    <3>7. g[n - 1] = S[n - 1]
      BY <3>2, <3>6
    <3> QED BY <1>3, <3>3, <3>4, <3>5, <3>7
  <2>2. DOMAIN g = 1..size + 1 /\ DOMAIN S = 1..size + 1 /\ g = [n \in 1..size + 1 |-> g[n]] /\ S = [n \in 1..size + 1 |-> S[n]]
    <3>1. DOMAIN g = 1..size + 1 /\ g = [n \in 1..size + 1 |-> g[n]]
      BY <1>5
    <3> QED BY <1>2, <3>1
  <2>3. \A n \in 1..size + 1 : g[n] = S[n]
    BY <2>1
  <2> HIDE DEF Goes
  <2> QED BY <2>2, <2>3
<1>6. LoopAt(size, next) = CHOOSE g : Goes(g)
  BY DEF LoopAt
<1> HIDE DEF Goes
<1>7. LoopAt(size, next) = S
  BY <1>4, <1>5, <1>6
<1> QED BY <1>7 DEF S

LEMMA BytesAre ==
    ASSUME NEW c \in Computers, NEW b, b = MadtBytes(c)
    PROVE  Len(b) \in Nat /\ Len(b) = Len(c.madt) - c.cut /\ \A p \in 1..Len(b) : b[p] = c.madt[p]
<1>1. c.madt \in Seq(0..255) /\ Len(c.madt) \in Nat /\ c.cut \in Nat /\ c.cut <= Len(c.madt)
  <2>1. /\ c.madt \in Seq(0..255) /\ Len(c.madt) \in Nat /\ Last(c) \in Nat
        /\ c.cut = 0 \/ (Last(c) > 0 /\ c.cut \in 0..Len(c.madt) - c.heads[Last(c)])
    BY ComputerIs
  <2>2. CASE c.cut = 0
    BY <2>1, <2>2
  <2>3. CASE c.cut # 0
    <3>1. Last(c) \in 1..Last(c) + 1 /\ c.cut \in 0..Len(c.madt) - c.heads[Last(c)]
      BY <2>1, <2>3
    <3>2. c.heads[Last(c)] \in Nat
      BY <3>1, HeadsFit
    <3> QED BY <2>1, <3>1, <3>2
  <2> QED BY <2>2, <2>3
<1>2. Len(c.madt) - c.cut \in 0..Len(c.madt)
  BY <1>1
<1> QED BY <1>1, <1>2 DEF MadtBytes

\* parse_madt in a whole table goes from entry to entry.
LEMMA ParseGoes ==
    ASSUME NEW c \in Computers, c.cut = 0, NEW b, b = MadtBytes(c)
    PROVE  /\ LoopAt(Len(b), ParseNext(b)) = Stations(c, Last(c) + 1, Len(b))
           /\ \A k \in 1..Last(c) : ~ParseEnds(b, c.heads[k]) /\ Shows(c, b, k)
           /\ ParseEnds(b, c.heads[Last(c) + 1]) /\ c.heads[Last(c) + 1] = Len(b)
<1> DEFINE m == Last(c) + 1
           next == ParseNext(b)
<1>1. Len(b) \in Nat /\ Len(b) = Len(c.madt) /\ \A p \in 1..Len(b) : b[p] = c.madt[p]
  BY BytesAre, ComputerIs
<1>2. Last(c) \in Nat /\ c.heads[m] = Len(c.madt)
  BY ComputerIs
<1>3. ASSUME NEW k \in 1..Last(c) PROVE ~ParseEnds(b, c.heads[k]) /\ Shows(c, b, k) /\ next[c.heads[k]] = c.heads[k + 1]
  <2>1. k \in 1..Last(c) + 1 /\ k + 1 \in 1..Last(c) + 1
    BY <1>2
  <2>2. c.heads[k] \in Nat /\ c.heads[k + 1] \in Nat /\ c.heads[k + 1] <= Len(b)
    BY <1>1, <2>1, HeadsFit
  <2>3. c.heads[k] + 2 <= c.heads[k + 1]
    BY ComputerIs
  <2>4. Shows(c, b, k)
    BY <1>1, <2>2, EntryShows
  <2>5. ~ParseEnds(b, c.heads[k]) /\ Stride(b, c.heads[k]) = c.heads[k + 1] - c.heads[k]
    <3>1. ByteAt(b, c.heads[k] + 1) = c.heads[k + 1] - c.heads[k]
      BY <2>4 DEF Shows
    <3> QED BY <1>1, <2>2, <2>3, <3>1 DEF ParseEnds, Stride
  <2>6. c.heads[k] \in 0..Len(b) + 254
    BY <1>1, <2>2, <2>3
  <2>7. next[c.heads[k]] = c.heads[k] + Stride(b, c.heads[k])
    BY <2>5, <2>6 DEF ParseNext
  <2> QED BY <2>2, <2>4, <2>5, <2>7
<1>4. ParseEnds(b, c.heads[m]) /\ next[c.heads[m]] = c.heads[m]
  <2>1. ParseEnds(b, c.heads[m])
    BY <1>1, <1>2 DEF ParseEnds
  <2>2. c.heads[m] \in 0..Len(b) + 254
    BY <1>1, <1>2
  <2> QED BY <2>1, <2>2 DEF ParseNext
<1>5. m \in 1..Last(c) + 1 /\ m - 1 = Last(c)
  BY <1>2
<1> HIDE DEF m, next
<1>6. LoopAt(Len(b), next) = Stations(c, m, Len(b))
  <2>1. \A k \in 1..m - 1 : next[c.heads[k]] = c.heads[k + 1]
    BY <1>3, <1>5
  <2> QED BY ONLY <1>1, <1>4, <1>5, <2>1, c \in Computers, TurnsAre
<1> QED BY <1>1, <1>2, <1>3, <1>4, <1>6 DEF m, next

\* acpi_walk_madt goes to the end of the last entry that is whole.
Whole(c) == IF c.cut = 0 THEN Last(c) + 1 ELSE Last(c)

LEMMA WalkGoes ==
    ASSUME NEW c \in Computers, NEW b, b = MadtBytes(c)
    PROVE  /\ Whole(c) \in 1..Last(c) + 1
           /\ LoopAt(Len(b), WalkNext(b)) = Stations(c, Whole(c), Len(b))
           /\ \A k \in 1..Whole(c) - 1 : ~WalkEnds(b, c.heads[k]) /\ Shows(c, b, k)
           /\ WalkEnds(b, c.heads[Whole(c)]) /\ c.heads[Whole(c)] <= Len(b)
<1> DEFINE m == Whole(c)
           next == WalkNext(b)
<1>1. Len(b) \in Nat /\ Len(b) = Len(c.madt) - c.cut /\ \A p \in 1..Len(b) : b[p] = c.madt[p]
  BY BytesAre
<1>2. /\ Last(c) \in Nat /\ Len(c.madt) \in Nat /\ c.heads[Last(c) + 1] = Len(c.madt)
      /\ c.cut = 0 \/ (Last(c) > 0 /\ c.cut \in 0..Len(c.madt) - c.heads[Last(c)])
  BY ComputerIs
<1>3. m \in 1..Last(c) + 1 /\ m \in Nat /\ m >= 1
  BY <1>2 DEF Whole
<1>4. c.heads[m] \in Nat /\ c.heads[m] <= Len(b)
  <2>1. c.heads[m] \in Nat
    BY <1>3, HeadsFit
  <2>2. CASE c.cut = 0
    BY <1>1, <1>2, <2>1, <2>2 DEF Whole
  <2>3. CASE c.cut # 0
    <3>1. c.cut \in 0..Len(c.madt) - c.heads[m]
      BY <1>2, <2>3 DEF Whole
    <3> QED BY <1>1, <1>2, <2>1, <3>1
  <2> QED BY <2>2, <2>3
<1>5. WalkEnds(b, c.heads[m])
  <2>1. CASE c.cut = 0
    BY <1>1, <1>2, <2>1 DEF Whole, WalkEnds
  <2>2. CASE c.cut # 0
    <3> DEFINE h == c.heads[m]
    <3>1. c.madt[h + 2] = Len(c.madt) - h
      <4>1. m = Last(c) /\ m \in 1..Last(c)
        BY <1>2, <1>3, <2>2 DEF Whole
      <4> HIDE DEF m
      <4> QED BY <1>2, <4>1, ComputerIs
    <3>2. Len(c.madt) > Len(b)
      BY <1>1, <1>2, <2>2
    <3>3. h \in Nat
      BY <1>4
    <3> HIDE DEF h
    <3>4. CASE h + 2 > Len(b)
      BY <3>4 DEF WalkEnds, h
    <3>5. CASE ~(h + 2 > Len(b))
      <4>1. h + 1 < Len(b) /\ (h + 1) + 1 = h + 2 /\ h + 2 \in 1..Len(b)
        BY <1>1, <3>3, <3>5
      <4>2. ByteAt(b, h + 1) = Len(c.madt) - h
        BY <1>1, <3>1, <4>1 DEF ByteAt
      <4>3. h + ByteAt(b, h + 1) > Len(b)
        BY <1>1, <1>2, <3>2, <3>3, <4>2
      <4> QED BY <4>3 DEF WalkEnds, h
    <3> QED BY <3>4, <3>5
  <2> QED BY <2>1, <2>2
<1>6. next[c.heads[m]] = c.heads[m]
  BY <1>1, <1>4, <1>5 DEF WalkNext
<1>7. ASSUME NEW k \in 1..m - 1 PROVE ~WalkEnds(b, c.heads[k]) /\ Shows(c, b, k) /\ next[c.heads[k]] = c.heads[k + 1]
  <2> DEFINE h == c.heads[k]
             g == c.heads[k + 1]
  <2>1. k \in 1..Last(c) /\ k + 1 \in 1..m /\ k \in 1..Last(c) + 1 /\ k + 1 \in 1..Last(c) + 1
    BY <1>2, <1>3
  <2>2. g <= c.heads[m]
    BY <1>3, <2>1, HeadsGrow
  <2>3. h \in Nat /\ g \in Nat
    BY <2>1, HeadsFit
  <2>4. g <= Len(b)
    BY <1>1, <1>4, <2>2, <2>3
  <2>5. h + 2 <= g
    BY <2>1, ComputerIs
  <2>6. Shows(c, b, k)
    BY <1>1, <2>1, <2>4, EntryShows
  <2>7. ByteAt(b, h + 1) = g - h
    BY <2>6 DEF Shows
  <2> HIDE DEF g, h
  <2>8. ~WalkEnds(b, h) /\ h \in 0..Len(b)
    BY <1>1, <2>3, <2>4, <2>5, <2>7 DEF WalkEnds
  <2>9. next[h] = g
    BY <2>3, <2>7, <2>8 DEF WalkNext
  <2> QED BY <2>6, <2>8, <2>9 DEF g, h
<1> HIDE DEF m, next
<1>8. LoopAt(Len(b), next) = Stations(c, m, Len(b))
  <2>1. \A k \in 1..m - 1 : next[c.heads[k]] = c.heads[k + 1]
    BY <1>7
  <2> QED BY ONLY <1>1, <1>3, <1>6, <2>1, c \in Computers, TurnsAre
<1> QED BY <1>3, <1>4, <1>5, <1>7, <1>8 DEF m, next

\* The turns of a loop at which something is to be told are those of the entries.
LEMMA TurnsTell ==
    ASSUME NEW c \in Computers, NEW m \in 1..Last(c) + 1, NEW size \in Nat, c.heads[m] <= size
    PROVE  /\ DOMAIN Stations(c, m, size) = 1..size + 1
           /\ \A k \in 1..m - 1 : k \in 1..size + 1 /\ Stations(c, m, size)[k] = c.heads[k]
           /\ \A n \in 1..size + 1 : n \in 1..m - 1 \/ Stations(c, m, size)[n] = c.heads[m]
<1>1. m \in Nat /\ m <= size + 1
  <2>1. Last(c) \in Nat /\ c.heads[m] \in Nat /\ m <= c.heads[m] + 1
    BY ComputerIs, HeadsFit
  <2> QED BY <2>1
<1>2. ASSUME NEW k \in 1..m - 1 PROVE k \in 1..size + 1 /\ Stations(c, m, size)[k] = c.heads[k]
  BY <1>1 DEF Stations
<1>3. ASSUME NEW n \in 1..size + 1, n \notin 1..m - 1 PROVE Stations(c, m, size)[n] = c.heads[m]
  <2>1. n <= m => n = m
    BY <1>1, <1>3
  <2> QED BY <2>1 DEF Stations
<1> QED BY <1>2, <1>3 DEF Stations

Usable(c) == {k \in CpuEntries(c) : EnabledAt(c, k)}

\* cpuinfo: what parse_madt finds in a whole table.
LEMMA ParsedAre ==
    ASSUME NEW c \in Computers, c.cut = 0
    PROVE  LET usable == InOrder(Usable(c), MAX_CPUS)
           IN  ParseMadt(MadtBytes(c)) = [i \in DOMAIN usable |-> IdOf(c, usable[i])]
<1> DEFINE b == MadtBytes(c)
           m == Last(c) + 1
           at == Stations(c, m, Len(b))
           T == {n \in DOMAIN at : /\ ~ParseEnds(b, at[n])
                                   /\ ByteAt(b, at[n]) = 0 /\ ByteAt(b, at[n] + 4) % 2 = 1}
           usable == InOrder(Usable(c), MAX_CPUS)
<1>1. b = MadtBytes(c) /\ Len(b) \in Nat /\ Last(c) \in Nat
  BY BytesAre, ComputerIs
<1>2. /\ LoopAt(Len(b), ParseNext(b)) = at
      /\ \A k \in 1..Last(c) : ~ParseEnds(b, c.heads[k]) /\ Shows(c, b, k)
      /\ ParseEnds(b, c.heads[m]) /\ c.heads[m] = Len(b)
  BY ParseGoes
<1>3. m \in 1..Last(c) + 1 /\ m - 1 = Last(c) /\ c.heads[m] <= Len(b)
  BY <1>1, <1>2
<1> HIDE DEF b
<1>4. /\ DOMAIN at = 1..Len(b) + 1
      /\ \A k \in 1..Last(c) : k \in 1..Len(b) + 1 /\ at[k] = c.heads[k]
      /\ \A n \in 1..Len(b) + 1 : n \in 1..Last(c) \/ at[n] = c.heads[m]
  <2> HIDE DEF m
  <2> QED BY <1>1, <1>3, TurnsTell
<1> HIDE DEF at, m
<1>5. \A k \in CpuEntries(c) : ByteAt(b, c.heads[k]) = 0 /\ (ByteAt(b, c.heads[k] + 4) % 2 = 1 <=> EnabledAt(c, k))
                               /\ ByteAt(b, c.heads[k] + 3) = IdOf(c, k) /\ k \in 1..Last(c)
  BY <1>2 DEF CpuEntries, Shows, Last
<1>6. \A k \in 1..Last(c) : ByteAt(b, c.heads[k]) = 0 => k \in CpuEntries(c)
  BY <1>2 DEF CpuEntries, Shows, Last
<1>7. T = Usable(c)
  BY <1>2, <1>4, <1>5, <1>6 DEF Usable
<1>8. ParseMadt(b) = [i \in DOMAIN usable |-> ByteAt(b, at[usable[i]] + 3)]
  BY <1>2, <1>7 DEF ParseMadt
<1>9. \A i \in DOMAIN usable : usable[i] \in Usable(c)
  <2>1. Usable(c) \in SUBSET (1..Last(c)) /\ MAX_CPUS \in Nat
    BY AcpiAssumption DEF Usable, CpuEntries, Last
  <2> QED BY <1>1, <2>1, InOrderIs
<1>10. \A k \in Usable(c) : ByteAt(b, at[k] + 3) = IdOf(c, k)
  BY <1>4, <1>5 DEF Usable
<1> HIDE DEF usable
<1> QED BY <1>8, <1>9, <1>10 DEF usable, b

WholeCpus(c) == IF c.cut = 0 THEN CpuEntries(c) ELSE CpuEntries(c) \ {Last(c)}

\* The command acpi: what acpi_walk_madt finds.
LEMMA WalkedAre ==
    ASSUME NEW c \in Computers
    PROVE  LET whole == InOrder(WholeCpus(c), ACPI_MAX_LAPIC)
           IN  WalkMadt(MadtBytes(c)).lapics = [i \in DOMAIN whole |-> Told(c, whole[i])]
<1> DEFINE b == MadtBytes(c)
           m == Whole(c)
           at == Stations(c, m, Len(b))
           T == {n \in DOMAIN at : /\ ~WalkEnds(b, at[n])
                                   /\ ByteAt(b, at[n]) = 0 /\ ByteAt(b, at[n] + 1) >= 8}
           whole == InOrder(WholeCpus(c), ACPI_MAX_LAPIC)
<1>1. b = MadtBytes(c) /\ Len(b) \in Nat /\ Last(c) \in Nat
  BY BytesAre, ComputerIs
<1>2. /\ m \in 1..Last(c) + 1
      /\ LoopAt(Len(b), WalkNext(b)) = at
      /\ \A k \in 1..m - 1 : ~WalkEnds(b, c.heads[k]) /\ Shows(c, b, k)
      /\ WalkEnds(b, c.heads[m]) /\ c.heads[m] <= Len(b)
  BY WalkGoes
<1>3. WholeCpus(c) = {k \in CpuEntries(c) : k \in 1..m - 1}
  BY <1>1 DEF WholeCpus, CpuEntries, Whole, Last
<1> HIDE DEF b, m
<1>4. /\ DOMAIN at = 1..Len(b) + 1
      /\ \A k \in 1..m - 1 : k \in 1..Len(b) + 1 /\ at[k] = c.heads[k]
      /\ \A n \in 1..Len(b) + 1 : n \in 1..m - 1 \/ at[n] = c.heads[m]
  BY <1>1, <1>2, TurnsTell
<1> HIDE DEF at
<1>5. \A k \in WholeCpus(c) : /\ k \in 1..m - 1 /\ ByteAt(b, c.heads[k]) = 0 /\ ByteAt(b, c.heads[k] + 1) >= 8
                              /\ (ByteAt(b, c.heads[k] + 4) % 2 = 1 <=> EnabledAt(c, k))
                              /\ ByteAt(b, c.heads[k] + 3) = IdOf(c, k)
  BY <1>2, <1>3 DEF CpuEntries, Shows
<1>6. \A k \in 1..m - 1 : ByteAt(b, c.heads[k]) = 0 => k \in WholeCpus(c)
  <2>1. \A k \in 1..m - 1 : k \in 1..Len(c.heads) - 1
    BY <1>1, <1>2 DEF Last
  <2> QED BY <1>2, <1>3, <2>1 DEF CpuEntries, Shows
<1>7. T = WholeCpus(c)
  BY <1>2, <1>4, <1>5, <1>6
<1> DEFINE Tell(k) == [id |-> ByteAt(b, at[k] + 3), enabled |-> ByteAt(b, at[k] + 4) % 2 = 1]
<1>8. WalkMadt(b).lapics = [i \in DOMAIN whole |-> Tell(whole[i])]
  BY <1>2, <1>7 DEF WalkMadt
<1>9. \A i \in DOMAIN whole : whole[i] \in WholeCpus(c)
  <2>1. WholeCpus(c) \in SUBSET (1..Last(c)) /\ ACPI_MAX_LAPIC \in Nat
    BY AcpiAssumption DEF WholeCpus, CpuEntries, Last
  <2> QED BY <1>1, <2>1, InOrderIs
<1>10. \A k \in WholeCpus(c) : Tell(k) = Told(c, k)
  <2>1. \A k \in WholeCpus(c) : at[k] = c.heads[k]
    BY <1>4, <1>5
  <2>2. \A k \in WholeCpus(c) : (ByteAt(b, at[k] + 4) % 2 = 1) = EnabledAt(c, k)
    BY <1>5, <2>1 DEF EnabledAt
  <2> QED BY <1>5, <2>1, <2>2 DEF Told
<1> HIDE DEF whole, Tell
<1> QED BY <1>8, <1>9, <1>10 DEF whole, b

\* Numbers that are moved and keep their order keep their places.
Climbs(f, S) == \A i, j \in S : i < j => f[i] < f[j]

MovesTo(k, S, f, V) ==
    /\ k \in Nat /\ S \in SUBSET (1..k) /\ \A i \in S : f[i] \in Nat
    /\ Climbs(f, S) /\ V = {f[i] : i \in S}

LEMMA SameSize ==
    ASSUME NEW k, NEW S, NEW f, NEW V, MovesTo(k, S, f, V)
    PROVE  Cardinality(V) = Cardinality(S)
<1>0. /\ k \in Nat /\ S \in SUBSET (1..k) /\ \A i \in S : f[i] \in Nat
      /\ Climbs(f, S) /\ V = {f[i] : i \in S}
  BY DEF MovesTo
<1> DEFINE g == [i \in S |-> f[i]]
<1>1. ASSUME NEW i \in S, NEW j \in S, g[i] = g[j] PROVE i = j
  <2>1. i \in Int /\ j \in Int /\ f[i] = f[j] /\ f[i] \in Nat
    BY <1>0, <1>1
  <2>2. ~(i < j) /\ ~(j < i)
    BY <1>0, <2>1 DEF Climbs
  <2> QED BY <2>1, <2>2
<1>2. g \in [S -> V] /\ \A v \in V : \E i \in S : g[i] = v
  BY <1>0
<1> HIDE DEF g
<1>3. g \in Bijection(S, V)
  BY <1>1, <1>2 DEF Bijection, Injection, Surjection, IsInjective
<1>4. ExistsBijection(S, V)
  BY <1>3 DEF ExistsBijection
<1>5. IsFiniteSet(S)
  BY <1>0, NumbersFinite
<1> QED BY ONLY <1>4, <1>5, FS_Bijection

LEMMA MovedInOrder ==
    ASSUME NEW k, NEW S, NEW f, NEW U, MovesTo(k, S, f, U), NEW q \in Nat, U \in SUBSET (1..q)
    PROVE  /\ Cardinality(U) = Cardinality(S)
           /\ \A n \in 1..Cardinality(S) : Nth(U, n) = f[Nth(S, n)]
<1>1. /\ k \in Nat /\ S \in SUBSET (1..k) /\ Climbs(f, S) /\ U = {f[i] : i \in S}
      /\ \A i \in S : f[i] \in U /\ f[i] \in Nat /\ i \in Nat
  BY DEF MovesTo
<1>2. Cardinality(U) = Cardinality(S)
  BY SameSize
<1>3. ASSUME NEW i \in S PROVE Cardinality(UpTo(U, f[i])) = Cardinality(UpTo(S, i))
  <2>1. UpTo(S, i) \in SUBSET S /\ UpTo(S, i) \in SUBSET (1..k)
    BY <1>1 DEF UpTo
  <2>2. \A j \in S : f[j] <= f[i] <=> j <= i
    <3>1. \A j \in S : (j < i => f[j] < f[i]) /\ (i < j => f[i] < f[j])
      BY <1>1 DEF Climbs
    <3>2. ASSUME NEW j \in S PROVE f[j] <= f[i] <=> j <= i
      <4>1. j < i \/ i < j \/ i = j
        BY <1>1
      <4>2. f[j] \in Nat /\ f[i] \in Nat /\ i \in Nat /\ j \in Nat
        BY <1>1
      <4> QED BY <3>1, <4>1, <4>2
    <3> QED BY <3>2
  <2>3. UpTo(U, f[i]) = {f[j] : j \in UpTo(S, i)}
    BY <1>1, <2>2 DEF UpTo
  <2>4. Climbs(f, UpTo(S, i)) /\ \A j \in UpTo(S, i) : f[j] \in Nat
    BY <1>1, <2>1 DEF Climbs
  <2>5. MovesTo(k, UpTo(S, i), f, UpTo(U, f[i]))
    BY <1>1, <2>1, <2>3, <2>4 DEF MovesTo
  <2> QED BY ONLY <2>5, SameSize
<1>4. ASSUME NEW n \in 1..Cardinality(S) PROVE Nth(U, n) = f[Nth(S, n)]
  <2>1. Nth(S, n) \in S /\ IsNth(S, n, Nth(S, n))
    BY ONLY <1>1, <1>4, NthIs
  <2>2. IsNth(U, n, f[Nth(S, n)])
    BY <1>1, <1>3, <2>1 DEF IsNth
  <2>3. IsNth(U, n, Nth(U, n))
    BY ONLY <1>2, <1>4, q \in Nat, U \in SUBSET (1..q), NthIs
  <2> QED BY ONLY <2>2, <2>3, q \in Nat, U \in SUBSET (1..q), NthUnique
<1> QED BY <1>2, <1>4

Fits(k, S, most) == k \in Nat /\ S \in SUBSET (1..k) /\ most \in Nat /\ Cardinality(S) <= most

LEMMA InOrderFull ==
    ASSUME NEW k, NEW S, NEW most, Fits(k, S, most)
    PROVE  /\ Cardinality(S) \in Nat /\ DOMAIN InOrder(S, most) = 1..Cardinality(S)
           /\ Climbs(InOrder(S, most), 1..Cardinality(S))
           /\ \A n \in 1..Cardinality(S) : InOrder(S, most)[n] \in S
           /\ \A i \in S : \E n \in 1..Cardinality(S) : InOrder(S, most)[n] = i
<1> DEFINE w == InOrder(S, most)
<1>0. k \in Nat /\ S \in SUBSET (1..k) /\ most \in Nat /\ Cardinality(S) <= most
  BY DEF Fits
<1>1. Cardinality(S) \in Nat
  BY <1>0, NumbersFinite
<1>2. DOMAIN w = 1..Cardinality(S) /\ \A n \in 1..Cardinality(S) : w[n] \in S /\ IsNth(S, n, w[n])
  <2>1. PICK m \in Nat : /\ m <= Cardinality(S) /\ m = Min({Cardinality(S), most})
                         /\ (Cardinality(S) <= most => m = Cardinality(S))
                         /\ DOMAIN w = 1..m
                         /\ \A n \in 1..m : w[n] \in S /\ IsNth(S, n, w[n])
    BY <1>0, InOrderIs
  <2> QED BY <1>0, <2>1
<1> HIDE DEF w
<1>3. ASSUME NEW i \in 1..Cardinality(S), NEW j \in 1..Cardinality(S), i < j PROVE w[i] < w[j]
  <2>1. SUFFICES ASSUME ~(w[i] < w[j]) PROVE FALSE
    OBVIOUS
  <2>2. w[i] \in S /\ w[j] \in S /\ Cardinality(UpTo(S, w[i])) = i /\ Cardinality(UpTo(S, w[j])) = j
    BY <1>2 DEF IsNth
  <2>3. UpTo(S, w[j]) \in SUBSET UpTo(S, w[i])
    <3>3. \A x \in S : x \in Nat
      BY <1>0
    <3>1. w[i] \in Nat /\ w[j] \in Nat /\ \A x \in S : x \in Nat
      BY <2>2, <3>3
    <3>2. \A x \in S : x <= w[j] => x <= w[i]
      BY <2>1, <3>1
    <3> QED BY <3>2 DEF UpTo
  <2>4. IsFiniteSet(UpTo(S, w[i]))
    BY <1>0, UpToFinite
  <2>5. Cardinality(UpTo(S, w[j])) <= Cardinality(UpTo(S, w[i]))
    BY ONLY <2>3, <2>4, FS_Subset
  <2> QED BY <1>3, <2>2, <2>5
<1>4. ASSUME NEW i \in S PROVE \E n \in 1..Cardinality(S) : w[n] = i
  <2> DEFINE n == Cardinality(UpTo(S, i))
  <2>1. n \in Nat /\ UpTo(S, i) \in SUBSET S /\ IsFiniteSet(UpTo(S, i)) /\ IsFiniteSet(S)
    BY <1>0, UpToFinite, NumbersFinite
  <2>2. n <= Cardinality(S)
    BY ONLY <2>1, FS_Subset
  <2>3. n # 0
    <3>1. i \in UpTo(S, i)
      BY <1>0 DEF UpTo
    <3> QED BY <2>1, <3>1, FS_EmptySet
  <2>4. n \in 1..Cardinality(S)
    BY <1>1, <2>1, <2>2, <2>3
  <2>5. IsNth(S, n, i)
    BY DEF IsNth
  <2> HIDE DEF n
  <2>6. w[n] = i
    BY <1>0, <1>2, <2>4, <2>5, NthUnique
  <2> QED BY <2>4, <2>6
<1> QED BY <1>1, <1>2, <1>3, <1>4 DEF Climbs, w

\* The enabled ones of acpi's list are the list of cpuinfo.
LEMMA ListsAgree ==
    ASSUME NEW c \in Computers, Cardinality(CpuEntries(c)) <= ACPI_MAX_LAPIC, NEW lapics,
           LET whole == InOrder(CpuEntries(c), ACPI_MAX_LAPIC)
           IN  lapics = [i \in DOMAIN whole |-> Told(c, whole[i])]
    PROVE  LET usable == InOrder(Usable(c), MAX_CPUS)
               on == InOrder({i \in DOMAIN lapics : lapics[i].enabled}, MAX_CPUS)
           IN  [i \in DOMAIN usable |-> IdOf(c, usable[i])] = [i \in DOMAIN on |-> lapics[on[i]].id]
<1> DEFINE S == CpuEntries(c)
           whole == InOrder(S, ACPI_MAX_LAPIC)
           E == {i \in DOMAIN lapics : lapics[i].enabled}
           usable == InOrder(Usable(c), MAX_CPUS)
           on == InOrder(E, MAX_CPUS)
<1>1. S \in SUBSET (1..Last(c)) /\ Last(c) \in Nat /\ ACPI_MAX_LAPIC \in Nat /\ MAX_CPUS \in Nat
  BY ComputerIs, AcpiAssumption DEF CpuEntries, Last
<1>2. lapics = [i \in DOMAIN whole |-> Told(c, whole[i])] /\ Cardinality(S) <= ACPI_MAX_LAPIC
  OBVIOUS
<1>3. Usable(c) = {k \in S : EnabledAt(c, k)}
  BY DEF Usable
<1> HIDE DEF S
<1>4. /\ Cardinality(S) \in Nat /\ DOMAIN whole = 1..Cardinality(S) /\ Climbs(whole, 1..Cardinality(S))
      /\ \A n \in 1..Cardinality(S) : whole[n] \in S
      /\ \A i \in S : \E n \in 1..Cardinality(S) : whole[n] = i
  <2>1. Cardinality(S) <= ACPI_MAX_LAPIC
    BY <1>2
  <2>2. S \in SUBSET (1..Last(c)) /\ Last(c) \in Nat /\ ACPI_MAX_LAPIC \in Nat
    BY <1>1
  <2> DEFINE k == Last(c)
             most == ACPI_MAX_LAPIC
  <2>3. Fits(k, S, most)
    BY <2>1, <2>2 DEF Fits
  <2> HIDE DEF k, most
  <2>4. /\ Cardinality(S) \in Nat /\ DOMAIN InOrder(S, most) = 1..Cardinality(S)
        /\ Climbs(InOrder(S, most), 1..Cardinality(S))
        /\ \A n \in 1..Cardinality(S) : InOrder(S, most)[n] \in S
        /\ \A i \in S : \E n \in 1..Cardinality(S) : InOrder(S, most)[n] = i
    BY ONLY <2>3, InOrderFull
  <2> QED BY ONLY <2>4 DEF most
<1> HIDE DEF whole
<1>5. \A i \in 1..Cardinality(S) : lapics[i].id = IdOf(c, whole[i]) /\ (lapics[i].enabled <=> EnabledAt(c, whole[i]))
  BY <1>2, <1>4 DEF Told
<1>6. E \in SUBSET (1..Cardinality(S)) /\ E = {i \in 1..Cardinality(S) : EnabledAt(c, whole[i])}
  BY <1>2, <1>4, <1>5
<1>7. Usable(c) = {whole[i] : i \in E} /\ Usable(c) \in SUBSET (1..Last(c))
  <2>1. \A i \in E : whole[i] \in Usable(c)
    BY <1>3, <1>4, <1>6
  <2>2. \A k \in Usable(c) : \E i \in E : whole[i] = k
    BY <1>3, <1>4, <1>6
  <2>3. Usable(c) \in SUBSET (1..Last(c))
    BY <1>1, <1>3
  <2> HIDE DEF E
  <2> QED BY <2>1, <2>2, <2>3
<1> HIDE DEF E
<1>8. MovesTo(Cardinality(S), E, whole, Usable(c))
  <2>1. \A i \in E : whole[i] \in Nat
    BY <1>7
  <2>2. Climbs(whole, E)
    BY <1>4, <1>6 DEF Climbs
  <2> QED BY <1>4, <1>6, <1>7, <2>1, <2>2 DEF MovesTo
<1>9. Cardinality(Usable(c)) = Cardinality(E) /\ \A n \in 1..Cardinality(E) : Nth(Usable(c), n) = whole[Nth(E, n)]
  <2>1. Last(c) \in Nat /\ Usable(c) \in SUBSET (1..Last(c))
    BY ONLY <1>1, <1>7
  <2>2. MovesTo(Cardinality(S), E, whole, Usable(c))
    BY ONLY <1>8
  <2> QED BY ONLY <2>1, <2>2, MovedInOrder
<1>10. PICK m \in Nat : /\ m <= Cardinality(E) /\ m = Min({Cardinality(E), MAX_CPUS}) /\ DOMAIN on = 1..m
                        /\ \A n \in 1..m : on[n] = Nth(E, n) /\ on[n] \in E
  BY ONLY <1>1, <1>4, <1>6, InOrderIs
<1>11. DOMAIN usable = 1..m /\ \A n \in 1..m : usable[n] = Nth(Usable(c), n)
  <2>1. PICK j \in Nat : /\ j = Min({Cardinality(Usable(c)), MAX_CPUS}) /\ DOMAIN usable = 1..j
                         /\ \A n \in 1..j : usable[n] = Nth(Usable(c), n)
    BY ONLY <1>1, <1>7, InOrderIs
  <2> QED BY ONLY <1>9, <1>10, <2>1
<1> HIDE DEF on, usable
<1>12. ASSUME NEW n \in 1..m PROVE IdOf(c, usable[n]) = lapics[on[n]].id
  <2>1. n \in 1..Cardinality(E)
    <3>1. Cardinality(E) \in Nat
      BY <1>4, <1>6, NumbersFinite
    <3> QED BY <1>10, <3>1
  <2>2. usable[n] = whole[on[n]] /\ on[n] \in 1..Cardinality(S)
    BY <1>6, <1>9, <1>10, <1>11, <2>1
  <2> QED BY <1>5, <2>2
<1> QED BY <1>10, <1>11, <1>12 DEF on, usable, E

\* What the two readers have told, by what they have read: the command acpi comes
\* after smp_init, and knows a root whose checksum is right.
Lists(roots) == roots # <<>> /\ \E i \in DOMAIN RootTables(roots[1]) : RootTables(roots[1])[i] = "APIC"
Rooted == RootTables(computer.roots[Min(RightSums)])
CpusCounted ==
    smp.done => /\ smp.ids = IF Lists(computer.roots) THEN ParseMadt(MadtBytes(computer)) ELSE <<>>
                /\ smp.num_cpus = Max({Len(smp.ids), 1})
Walked ==
    /\ acpi.kind \in {"MADT", "no MADT"} => smp.done /\ RightSums # {}
    /\ acpi.kind = "MADT" => /\ acpi.walk = WalkMadt(MadtBytes(computer))
                             /\ \E i \in DOMAIN Rooted : i <= MAX_TABLES /\ Rooted[i] = "APIC"
    /\ acpi.kind = "no MADT" => ~\E i \in DOMAIN Rooted : i <= MAX_TABLES /\ Rooted[i] = "APIC"
CpusInv == computer \in Computers /\ CpusCounted /\ Walked

LEMMA CpusInvInit == AcpiInit => CpusInv
BY DEF AcpiInit, CpusInv, CpusCounted, Walked, NotShown

LEMMA CpusInvNext == CpusInv /\ [AcpiNext]_acpiVars => CpusInv'
<1> SUFFICES ASSUME CpusInv, [AcpiNext]_acpiVars PROVE CpusInv'
  OBVIOUS
<1>0. computer \in Computers /\ CpusCounted /\ Walked
  BY DEF CpusInv
<1>1. CASE SmpInit
  <2>1. ~smp.done /\ computer' = computer /\ acpi' = acpi
    BY <1>1 DEF SmpInit
  <2>2. CpusCounted'
    BY <1>1, <2>1 DEF SmpInit, CpusCounted, Lists
  <2>3. Walked'
    BY <1>0, <2>1 DEF Walked
  <2> QED BY <1>0, <2>1, <2>2, <2>3 DEF CpusInv
<1>2. CASE CmdAcpi
  <2>1. smp.done /\ computer' = computer /\ smp' = smp
    BY <1>2 DEF CmdAcpi
  <2>2. CpusCounted'
    BY <1>0, <2>1 DEF CpusCounted
  <2>3. Walked'
    <3> DEFINE listed == {Rooted[i] : i \in {j \in DOMAIN Rooted : j <= MAX_TABLES}}
    <3>1. acpi' = IF RightSums = {} \/ listed = {} THEN [kind |-> "no RSDP"]
                  ELSE IF "APIC" \in listed THEN [kind |-> "MADT", walk |-> WalkMadt(MadtBytes(computer))]
                  ELSE [kind |-> "no MADT"]
      BY <1>2 DEF CmdAcpi, Rooted
    <3>2. "APIC" \in listed <=> \E i \in DOMAIN Rooted : i <= MAX_TABLES /\ Rooted[i] = "APIC"
      OBVIOUS
    <3>3. RightSums' = RightSums /\ Rooted' = Rooted
      BY <2>1 DEF RightSums, Rooted
    <3> HIDE DEF listed
    <3>4. CASE RightSums = {} \/ listed = {}
      BY <3>1, <3>4 DEF Walked
    <3>5. CASE RightSums # {} /\ listed # {} /\ "APIC" \in listed
      BY <2>1, <3>1, <3>2, <3>3, <3>5 DEF Walked
    <3>6. CASE RightSums # {} /\ listed # {} /\ "APIC" \notin listed
      BY <2>1, <3>1, <3>2, <3>3, <3>6 DEF Walked
    <3> QED BY <3>4, <3>5, <3>6
  <2> QED BY <1>0, <2>1, <2>2, <2>3 DEF CpusInv
<1>3. CASE UNCHANGED acpiVars
  BY <1>0, <1>3 DEF acpiVars, CpusInv, CpusCounted, Walked, Rooted, RightSums
<1> QED BY <1>1, <1>2, <1>3 DEF AcpiNext

\* The first root is the one that acpi_init takes, if its checksum is right.
LEMMA FirstRoot ==
    ASSUME computer \in Computers, RightSums # {}, computer.roots[1].sum_ok
    PROVE  computer.roots # <<>> /\ Min(RightSums) = 1
<1>1. computer.roots \in Seq(Rsdp)
  BY ComputerIs
<1>2. RightSums \in SUBSET DOMAIN computer.roots /\ DOMAIN computer.roots = 1..Len(computer.roots)
  BY <1>1 DEF RightSums
<1>3. Len(computer.roots) \in Nat /\ Len(computer.roots) # 0
  BY <1>1, <1>2
<1>4. 1 \in RightSums /\ \A i \in RightSums : 1 <= i /\ i \in Nat
  BY <1>2, <1>3 DEF RightSums
<1>5. Min(RightSums) = 1
  <2>1. \E x \in RightSums : \A y \in RightSums : x <= y
    BY <1>4
  <2>2. Min(RightSums) \in RightSums /\ \A y \in RightSums : Min(RightSums) <= y
    BY <2>1 DEF Min
  <2>3. Min(RightSums) \in Nat /\ Min(RightSums) <= 1 /\ 1 <= Min(RightSums)
    BY <1>4, <2>2
  <2> QED BY <2>3
<1> QED BY <1>3, <1>5

LEMMA AsMany ==
    ASSUME NEW c \in Computers
    PROVE  LET usable == InOrder(Usable(c), MAX_CPUS)
               ids == [i \in DOMAIN usable |-> IdOf(c, usable[i])]
           IN  Len(ids) = Len(usable) /\ Len(usable) \in Nat
<1> DEFINE usable == InOrder(Usable(c), MAX_CPUS)
<1>1. Usable(c) \in SUBSET (1..Last(c)) /\ MAX_CPUS \in Nat /\ Last(c) \in Nat
  BY ComputerIs, AcpiAssumption DEF Usable, CpuEntries, Last
<1>2. PICK m \in Nat : DOMAIN usable = 1..m
  BY <1>1, InOrderIs
<1> HIDE DEF usable
<1>3. DOMAIN [i \in DOMAIN usable |-> IdOf(c, usable[i])] = 1..m
  BY <1>2
<1>4. \A s : DOMAIN s = 1..m => Len(s) = m
  OBVIOUS
<1> QED BY <1>2, <1>3, <1>4 DEF usable

LEMMA CpusInvAgree == CpusInv => CpusAgree
<1> SUFFICES ASSUME CpusInv PROVE CpusAgree
  OBVIOUS
<1> DEFINE c == computer
           roots == computer.roots
           usable == InOrder(Usable(c), MAX_CPUS)
           lists == Lists(roots)
<1>0. c \in Computers /\ CpusCounted /\ Walked
  BY DEF CpusInv
<1>1. ASSUME smp.done, c.cut = 0
      PROVE  /\ smp.ids = IF lists THEN [i \in DOMAIN usable |-> IdOf(c, usable[i])] ELSE <<>>
             /\ smp.num_cpus = IF lists THEN Max({1, Len(usable)}) ELSE 1
  <2>1. /\ smp.ids = IF lists THEN ParseMadt(MadtBytes(c)) ELSE <<>>
        /\ smp.num_cpus = Max({Len(smp.ids), 1})
    BY <1>0, <1>1 DEF CpusCounted
  <2>2. ParseMadt(MadtBytes(c)) = [i \in DOMAIN usable |-> IdOf(c, usable[i])]
    BY <1>0, <1>1, ParsedAre
  <2>3. Len([i \in DOMAIN usable |-> IdOf(c, usable[i])]) = Len(usable)
    BY <1>0, AsMany
  <2>4. Max({0, 1}) = 1
    BY DEF Max
  <2> HIDE DEF usable, lists
  <2>5. {Len(usable), 1} = {1, Len(usable)}
    OBVIOUS
  <2>6. CASE lists
    BY <2>1, <2>2, <2>3, <2>5, <2>6
  <2>7. CASE ~lists
    <3>1. smp.ids = <<>> /\ Len(smp.ids) = 0
      BY <2>1, <2>7
    <3> QED BY <2>1, <2>4, <2>7, <3>1
  <2> QED BY <2>6, <2>7
<1> DEFINE whole == InOrder(WholeCpus(c), ACPI_MAX_LAPIC)
           lapics == acpi.walk.lapics
           on == InOrder({i \in DOMAIN lapics : lapics[i].enabled}, MAX_CPUS)
<1>2. ASSUME acpi.kind = "MADT" PROVE lapics = [i \in DOMAIN whole |-> Told(c, whole[i])]
  <2>1. acpi.walk = WalkMadt(MadtBytes(c))
    BY <1>0, <1>2 DEF Walked
  <2> QED BY <1>0, <2>1, WalkedAre
<1>3. ASSUME acpi.kind = "MADT", roots[1].sum_ok, c.cut = 0, Cardinality(CpuEntries(c)) <= ACPI_MAX_LAPIC
      PROVE  smp.ids = [i \in DOMAIN on |-> lapics[on[i]].id]
  <2>1. smp.done /\ RightSums # {} /\ \E i \in DOMAIN Rooted : Rooted[i] = "APIC"
    BY <1>0, <1>3 DEF Walked
  <2>2. lists
    BY <1>0, <1>3, <2>1, FirstRoot DEF Rooted, Lists
  <2>3. smp.ids = [i \in DOMAIN usable |-> IdOf(c, usable[i])]
    BY <1>1, <1>3, <2>1, <2>2
  <2>4. WholeCpus(c) = CpuEntries(c)
    BY <1>3 DEF WholeCpus
  <2>5. LET w == InOrder(CpuEntries(c), ACPI_MAX_LAPIC)
        IN  lapics = [i \in DOMAIN w |-> Told(c, w[i])]
    BY <1>2, <1>3, <2>4
  <2>6. [i \in DOMAIN usable |-> IdOf(c, usable[i])] = [i \in DOMAIN on |-> lapics[on[i]].id]
    <3> HIDE DEF lapics, c
    <3> QED BY <1>0, <1>3, <2>5, ListsAgree
  <2> QED BY <2>3, <2>6
<1>4. ASSUME acpi.kind = "no MADT", roots[1].sum_ok, Len(RootTables(roots[1])) <= MAX_TABLES
      PROVE  smp.ids = <<>>
  <2>1. smp.done /\ RightSums # {} /\ ~\E i \in DOMAIN Rooted : i <= MAX_TABLES /\ Rooted[i] = "APIC"
    BY <1>0, <1>4 DEF Walked
  <2>2. Rooted = RootTables(roots[1]) /\ roots # <<>>
    BY <1>0, <1>4, <2>1, FirstRoot DEF Rooted
  <2>3. \A i \in DOMAIN Rooted : i <= MAX_TABLES
    <3>1. roots \in Seq(Rsdp) /\ roots[1] \in Rsdp
      BY <1>0, <2>2, ComputerIs
    <3>2. RootTables(roots[1]) \in Seq(STRING)
      BY <3>1 DEF RootTables, Rsdp
    <3>3. MAX_TABLES \in Nat
      BY AcpiAssumption
    <3>4. \A s \in Seq(STRING) : \A i \in DOMAIN s : i \in Nat /\ i <= Len(s) /\ Len(s) \in Nat
      OBVIOUS
    <3> DEFINE tables == RootTables(roots[1])
    <3>5. tables \in Seq(STRING) /\ Len(tables) <= MAX_TABLES /\ Rooted = tables
      BY <1>4, <2>2, <3>2
    <3> HIDE DEF tables
    <3>6. \A i \in DOMAIN tables : i <= MAX_TABLES
      BY <3>3, <3>4, <3>5
    <3> QED BY <3>5, <3>6
  <2>4. ~lists
    BY <2>1, <2>2, <2>3 DEF Lists
  <2> QED BY <1>0, <2>1, <2>4 DEF CpusCounted
<1> QED BY <1>1, <1>2, <1>3, <1>4 DEF CpusAgree, Usable, WholeCpus, Lists, Last

\* cpuinfo and the command acpi tell the processors that the firmware lists, as long as its
\* checksum is right, its table whole and their limits are kept, for every table and limit.
THEOREM CpusDoAgree == AcpiSpec => []CpusAgree
<1>1. AcpiInit => CpusInv
  BY CpusInvInit
<1>2. CpusInv /\ [AcpiNext]_acpiVars => CpusInv'
  BY CpusInvNext
<1>3. CpusInv => CpusAgree
  BY CpusInvAgree
<1> QED BY <1>1, <1>2, <1>3, PTL DEF AcpiSpec

\* What comes in from the keyboard, the mouse and the firmware's tables arrives as it was
\* sent, in every behaviour of the three.
THEOREM DevicesAreRight == DevicesSpec => []DevicesRight
BY KeysAreInOrder, PointerIsRight, CpusDoAgree, PTL DEF DevicesSpec, DevicesRight

----------------------------------------------------------------------------
(* The padding of RSA signatures.                                          *)

\* The bytes of an encoding, one for one.
Info(digest) == DigestPrefix \o digest
Padded(bytes, n, digest) ==
    LET k == Len(Info(digest))
    IN  /\ bytes[1] = 0 /\ bytes[2] = 1 /\ \A i \in 3..n - k - 1 : bytes[i] = 255
        /\ bytes[n - k] = 0 /\ \A j \in 1..k : bytes[n - k + j] = Info(digest)[j]

LEMMA InfoType ==
    ASSUME NEW digest \in Seq(0..255)
    PROVE  Info(digest) \in Seq(0..255) /\ Len(Info(digest)) \in Nat
           /\ Len(Info(digest)) = Len(DigestPrefix) + Len(digest)
BY RsaAssumption DEF Info

IsJoin(s, t, e) ==
    /\ e \in Seq(0..255) /\ Len(e) = Len(s) + Len(t)
    /\ \A i \in 1..Len(s) + Len(t) : e[i] = IF i <= Len(s) THEN s[i] ELSE t[i - Len(s)]

LEMMA Chained == ASSUME NEW s \in Seq(0..255), NEW t \in Seq(0..255) PROVE IsJoin(s, t, s \o t)
BY ConcatProperties DEF IsJoin

LEMMA EncodingIs ==
    ASSUME NEW digest \in Seq(0..255), NEW n \in Nat, n >= 3 + Len(Info(digest))
    PROVE  /\ Encoding(n, digest) \in Seq(0..255) /\ Len(Encoding(n, digest)) = n
           /\ Padded(Encoding(n, digest), n, digest)
<1> DEFINE rest == Info(digest)
           k == Len(rest)
           fill == [i \in 1..n - 3 - k |-> 255]
<1>1. rest \in Seq(0..255) /\ k \in Nat
  BY InfoType
<1>2. fill \in Seq(0..255) /\ Len(fill) = n - 3 - k /\ \A i \in 1..n - 3 - k : fill[i] = 255
  <2>1. n - 3 - k \in Nat
    BY <1>1
  <2> HIDE DEF k
  <2> QED BY <2>1
<1>3. Encoding(n, digest) = <<0, 1>> \o fill \o <<0>> \o rest
  BY DEF Encoding, Info
<1>4. n - 3 - k \in Nat /\ n \in Nat
  BY <1>1
<1> HIDE DEF rest, k, fill
<1>5. PICK m \in Nat : m = n - 3 - k
  BY <1>4
<1> DEFINE a == <<0, 1>> \o fill
           b == a \o <<0>>
<1>6. a \in Seq(0..255) /\ Len(a) = m + 2 /\ a[1] = 0 /\ a[2] = 1 /\ \A i \in 3..m + 2 : a[i] = 255
  <2>1. <<0, 1>> \in Seq(0..255) /\ Len(<<0, 1>>) = 2
    OBVIOUS
  <2>2. a \in Seq(0..255) /\ Len(a) = 2 + m /\ \A i \in 1..2 + m : a[i] = IF i <= 2 THEN <<0, 1>>[i] ELSE fill[i - 2]
    BY <1>2, <1>5, <2>1, ConcatProperties
  <2>3. ASSUME NEW i \in 3..m + 2 PROVE a[i] = 255
    <3>1. i \in 1..2 + m /\ ~(i <= 2) /\ i - 2 \in 1..n - 3 - k
      BY <1>5
    <3> QED BY <1>2, <2>2, <3>1
  <2>4. 1 \in 1..2 + m /\ 2 \in 1..2 + m
    OBVIOUS
  <2> HIDE DEF a
  <2> QED BY <2>2, <2>3, <2>4
<1> HIDE DEF a
<1>7. b \in Seq(0..255) /\ Len(b) = m + 3 /\ b[m + 3] = 0 /\ \A i \in 1..m + 2 : b[i] = a[i]
  <2>1. <<0>> \in Seq(0..255) /\ Len(<<0>>) = 1
    OBVIOUS
  <2>2. b \in Seq(0..255) /\ Len(b) = (m + 2) + 1 /\ \A i \in 1..(m + 2) + 1 : b[i] = IF i <= m + 2 THEN a[i] ELSE <<0>>[i - (m + 2)]
    BY <1>6, <2>1, ConcatProperties
  <2>3. m + 3 \in 1..(m + 2) + 1 /\ ~(m + 3 <= m + 2) /\ (m + 3) - (m + 2) = 1
    OBVIOUS
  <2> HIDE DEF b
  <2> QED BY <2>2, <2>3
<1> HIDE DEF b
<1> DEFINE e == b \o rest
<1>8. e \in Seq(0..255) /\ Len(e) = (m + 3) + k
      /\ \A i \in 1..(m + 3) + k : e[i] = IF i <= m + 3 THEN b[i] ELSE rest[i - (m + 3)]
  <2>1. rest \in Seq(0..255) /\ Len(rest) = k /\ k \in Nat
    BY <1>1 DEF k
  <2>2. b \in Seq(0..255) /\ Len(b) = m + 3
    BY <1>7
  <2>3. IsJoin(b, rest, e)
    BY <2>1, <2>2, Chained
  <2> HIDE DEF e
  <2> QED BY <2>1, <2>2, <2>3 DEF IsJoin
<1>9. Encoding(n, digest) = e
  BY <1>3 DEF a, b
<1> HIDE DEF e
<1>10. e[1] = 0 /\ e[2] = 1 /\ e[m + 3] = 0 /\ \A i \in 3..m + 2 : e[i] = 255
  BY <1>1, <1>6, <1>7, <1>8
<1>11. ASSUME NEW j \in 1..k PROVE e[m + 3 + j] = rest[j]
  <2>1. m + 3 + j \in 1..(m + 3) + k /\ ~(m + 3 + j <= m + 3) /\ m + 3 + j - (m + 3) = j
    BY <1>1
  <2> QED BY <1>8, <2>1
<1>12. n - k = m + 3 /\ n - k - 1 = m + 2 /\ (m + 3) + k = n
  BY <1>1, <1>5
<1> QED BY <1>8, <1>9, <1>10, <1>11, <1>12 DEF Padded, k, rest

\* A message of the length that is the encoding byte for byte is the encoding.
LEMMA OneEncoding ==
    ASSUME NEW digest \in Seq(0..255), NEW n \in Nat, n >= 3 + Len(Info(digest)), NEW S, NEW bytes \in [1..n -> S]
    PROVE  bytes = Encoding(n, digest) <=> Padded(bytes, n, digest)
<1> DEFINE e == Encoding(n, digest)
           k == Len(Info(digest))
<1>1. e \in Seq(0..255) /\ Len(e) = n /\ Padded(e, n, digest)
  BY EncodingIs
<1>2. k \in Nat /\ n >= 3 + k
  BY InfoType
<1> HIDE DEF e
<1>3. ASSUME Padded(bytes, n, digest) PROVE bytes = e
  <2>1. ASSUME NEW i \in 1..n PROVE bytes[i] = e[i]
    <3>1. i = 1 \/ i = 2 \/ i \in 3..n - k - 1 \/ i = n - k \/ (i - (n - k) \in 1..k /\ i = (n - k) + (i - (n - k)))
      <4> HIDE DEF k
      <4> QED BY <1>2
    <3>2. \A j \in 1..k : bytes[(n - k) + j] = e[(n - k) + j]
      BY <1>1, <1>3 DEF Padded
    <3>3. bytes[1] = e[1] /\ bytes[2] = e[2] /\ bytes[n - k] = e[n - k] /\ \A j \in 3..n - k - 1 : bytes[j] = e[j]
      BY <1>1, <1>3 DEF Padded
    <3> HIDE DEF k
    <3> QED BY <3>1, <3>2, <3>3
  <2>2. e = [i \in 1..n |-> e[i]] /\ bytes = [i \in 1..n |-> bytes[i]]
    BY <1>1
  <2> QED BY <2>1, <2>2
<1> QED BY <1>1, <1>3 DEF e

\* Accepted stops at the first byte behind the second that is not 255.
Stop(bytes, n, p) == p \in 2..n /\ (p = n \/ bytes[p + 1] # 255) /\ \A r \in 2..p - 1 : bytes[r + 1] = 255

Stops(bytes, n) == {p \in 2..n : p = n \/ bytes[p + 1] # 255}
FirstStop(bytes, n) == CHOOSE q \in Stops(bytes, n) : \A r \in Stops(bytes, n) : q <= r

LEMMA StopIs ==
    ASSUME NEW n \in Nat, n >= 2, NEW bytes
    PROVE  /\ Stop(bytes, n, FirstStop(bytes, n))
           /\ \A q : Stop(bytes, n, q) => q = FirstStop(bytes, n)
<1> DEFINE stop == Stops(bytes, n)
           p == FirstStop(bytes, n)
<1>1. \A q \in stop : q \in 2..n /\ q \in Nat /\ q <= n /\ (q = n \/ bytes[q + 1] # 255)
  BY DEF Stops
<1>2. n \in stop /\ \A q \in 2..n : q = n \/ bytes[q + 1] # 255 => q \in stop
  BY DEF Stops
<1>3. \E q \in stop : \A r \in stop : q <= r
  <2>1. stop \in SUBSET Nat /\ stop # {}
    BY <1>1, <1>2
  <2> HIDE DEF stop
  <2> QED BY <2>1, LeastOf
<1>4. p \in stop /\ \A r \in stop : p <= r
  <2>1. p = CHOOSE q \in stop : \A r \in stop : q <= r
    BY DEF FirstStop
  <2> HIDE DEF stop, p
  <2> QED BY <1>3, <2>1
<1>5. Stop(bytes, n, p)
  <2> HIDE DEF p
  <2> HIDE DEF stop
  <2>1. ASSUME NEW r \in 2..p - 1 PROVE bytes[r + 1] = 255
    <3>1. p \in Nat /\ p <= n
      BY <1>1, <1>4
    <3>2. r \in 2..n /\ r # n /\ ~(p <= r)
      BY <3>1
    <3> QED BY <1>2, <1>4, <3>2
  <2> QED BY <1>1, <1>4, <2>1 DEF Stop
<1>6. ASSUME NEW q, Stop(bytes, n, q) PROVE q = p
  <2> HIDE DEF p, stop
  <2>1. q \in stop /\ p \in stop /\ p <= q /\ q \in Nat /\ p \in Nat
    BY <1>1, <1>2, <1>4, <1>6 DEF Stop
  <2>2. ~(p < q)
    <3>1. q \in 2..n /\ p \in 2..n /\ (p = n \/ bytes[p + 1] # 255) /\ \A r \in 2..q - 1 : bytes[r + 1] = 255
      BY <1>1, <1>6, <2>1 DEF Stop
    <3> QED BY ONLY <3>1, n \in Nat
  <2> QED BY <2>1, <2>2
<1> QED BY <1>5, <1>6

\* The message that is accepted is padded as its length asks.
LEMMA AcceptedIs ==
    ASSUME NEW digest \in Seq(0..255), NEW S, NEW n \in Nat, NEW bytes \in [1..n -> S]
    PROVE  Accepted(bytes, digest) <=>
               n >= 3 + MinFill + Len(Info(digest)) /\ Padded(bytes, n, digest)
<1> DEFINE p == FirstStop(bytes, n)
           k == Len(Info(digest))
<1>1. Info(digest) \in Seq(0..255) /\ k \in Nat /\ k = Len(DigestPrefix) + Len(digest) /\ MinFill \in Nat
  BY InfoType, RsaAssumption
<1>2. Len(bytes) = n
  OBVIOUS
<1>3. Accepted(bytes, digest) <=>
          /\ n >= 3 + MinFill + k
          /\ bytes[0 + 1] = 0 /\ bytes[1 + 1] = 1
          /\ p >= 2 + MinFill /\ p < n /\ bytes[p + 1] = 0
          /\ n - (p + 1) = k
          /\ SubSeq(bytes, p + 2, p + 1 + k) = Info(digest)
  BY <1>1, <1>2 DEF Accepted, AtEnd, Info, FirstStop, Stops
<1> SUFFICES ASSUME n >= 3 + MinFill + k
             PROVE  Accepted(bytes, digest) <=> Padded(bytes, n, digest)
  BY <1>3
<1>4. n >= 2
  <2>1. k \in Nat /\ MinFill \in Nat /\ n >= 3 + MinFill + k
    BY <1>1
  <2> HIDE DEF k
  <2> QED BY ONLY n \in Nat, <2>1
<1>5. Stop(bytes, n, p) /\ \A q : Stop(bytes, n, q) => q = p
  BY <1>4, StopIs
<1> HIDE DEF p, k
<1>6. ASSUME NEW q \in Nat, q + 1 + k = n
      PROVE  SubSeq(bytes, q + 2, q + 1 + k) = Info(digest) <=> \A j \in 1..k : bytes[q + 1 + j] = Info(digest)[j]
  <2> DEFINE s == SubSeq(bytes, q + 2, q + 1 + k)
  <2>1. bytes \in Seq(S) /\ Len(bytes) = n
    OBVIOUS
  <2>2. Len(s) = k /\ s \in Seq(S) /\ \A j \in 1..k : s[j] = bytes[q + 1 + j]
    <3>1. \A i \in q + 2..q + 1 + k : bytes[i] \in S
      BY <1>1, <1>6
    <3>2. /\ s \in Seq(S)
          /\ Len(s) = IF q + 2 <= q + 1 + k THEN (q + 1 + k) - (q + 2) + 1 ELSE 0
          /\ \A j \in 1..(q + 1 + k) - (q + 2) + 1 : s[j] = bytes[q + 2 + j - 1]
      BY <1>1, <3>1, SubSeqProperties
    <3> HIDE DEF s
    <3>3. (q + 1 + k) - (q + 2) + 1 = k /\ \A j \in 1..k : q + 2 + j - 1 = q + 1 + j
      BY <1>1
    <3> QED BY <1>1, <3>2, <3>3
  <2> HIDE DEF s
  <2>3. Len(Info(digest)) = k
    BY DEF k
  <2>4. (\A j \in 1..k : s[j] = Info(digest)[j]) => s = Info(digest)
    BY <1>1, <2>2, <2>3, SeqEqual
  <2> QED BY <2>2, <2>4 DEF s
<1>7. ASSUME Accepted(bytes, digest) PROVE Padded(bytes, n, digest)
  <2>1. /\ bytes[1] = 0 /\ bytes[2] = 1 /\ p < n /\ bytes[p + 1] = 0 /\ n - (p + 1) = k
        /\ SubSeq(bytes, p + 2, p + 1 + k) = Info(digest) /\ p \in Nat /\ p >= 2
    BY <1>3, <1>5, <1>7 DEF Stop
  <2>2. p + 1 = n - k /\ p + 1 + k = n
    BY <1>1, <2>1
  <2>3. \A i \in 3..n - k - 1 : bytes[i] = 255
    <3>1. ASSUME NEW i \in 3..n - k - 1 PROVE bytes[i] = 255
      <4>1. i - 1 \in 2..p - 1 /\ (i - 1) + 1 = i
        BY <2>1, <2>2
      <4>2. \A r \in 2..p - 1 : bytes[r + 1] = 255
        BY <1>5 DEF Stop
      <4>3. bytes[(i - 1) + 1] = 255
        BY <4>1, <4>2
      <4> QED BY <4>1, <4>3
    <3> QED BY <3>1
  <2>4. \A j \in 1..k : bytes[n - k + j] = Info(digest)[j]
    BY <1>6, <2>1, <2>2
  <2> QED BY <2>1, <2>2, <2>3, <2>4 DEF Padded, k
<1>8. ASSUME Padded(bytes, n, digest) PROVE Accepted(bytes, digest)
  <2> DEFINE q == n - k - 1
  <2>1. q \in Nat /\ q >= 2 + MinFill /\ q < n /\ q + 1 = n - k /\ q + 1 + k = n /\ n - (q + 1) = k
    BY <1>1
  <2>2. /\ bytes[1] = 0 /\ bytes[2] = 1 /\ \A i \in 3..n - k - 1 : bytes[i] = 255
        /\ bytes[n - k] = 0 /\ \A j \in 1..k : bytes[n - k + j] = Info(digest)[j]
    BY <1>8 DEF Padded, k
  <2> HIDE DEF q
  <2>3. Stop(bytes, n, q)
    <3>1. ASSUME NEW r \in 2..q - 1 PROVE bytes[r + 1] = 255
      <4>1. r + 1 \in 3..n - k - 1
        BY <1>1, <2>1
      <4> QED BY <2>2, <4>1
    <3> QED BY <1>1, <2>1, <2>2, <3>1 DEF Stop
  <2>4. q = p
    BY <1>5, <2>3
  <2>5. SubSeq(bytes, q + 2, q + 1 + k) = Info(digest)
    <3>1. \A j \in 1..k : bytes[q + 1 + j] = Info(digest)[j]
      BY <2>1, <2>2
    <3> QED BY <1>6, <2>1, <3>1
  <2> QED BY <1>3, <2>1, <2>2, <2>4, <2>5
<1> QED BY <1>7, <1>8

\* What has opened is a message of bytes, whatever the signature.
IsMessage == em.digest \in Digests /\ \E n \in EmLens : em.bytes \in [1..n -> EmBytes]
MessageInv == em # NoMessage => IsMessage

\* rsa_pkcs1_v15_sha256_verify accepts the one encoding of the hash for the length of the
\* key and nothing else, for every length, prefix, hash and message.
THEOREM PaddingIsStrict == RsaSpec => []PaddingStrict
<1>1. RsaInit => MessageInv
  BY DEF RsaInit, MessageInv
<1>2. MessageInv /\ [RsaNext]_rsaVars => MessageInv'
  <2> SUFFICES ASSUME MessageInv, [RsaNext]_rsaVars PROVE MessageInv'
    OBVIOUS
  <2>1. CASE Opened
    BY <2>1 DEF Opened, MessageInv, IsMessage
  <2>2. CASE Verified
    BY <2>2 DEF Verified, MessageInv
  <2>3. CASE em' = em
    BY <2>3 DEF MessageInv, IsMessage
  <2> QED BY <2>1, <2>2, <2>3 DEF RsaNext, ModExp, ModExpStep, ModExpReturn, rsaVars
<1>3. MessageInv => PaddingStrict
  <2> SUFFICES ASSUME MessageInv, em # NoMessage PROVE PaddingStrict
    BY DEF PaddingStrict
  <2>1. PICK n \in EmLens : em.bytes \in [1..n -> EmBytes]
    BY DEF MessageInv, IsMessage
  <2>2. n \in Nat /\ em.digest \in Seq(0..255) /\ Len(em.bytes) = n /\ MinFill \in Nat
    BY <2>1, RsaAssumption DEF MessageInv, IsMessage
  <2> DEFINE k == Len(Info(em.digest))
  <2>3. k \in Nat /\ k = Len(DigestPrefix) + Len(em.digest) /\ Len(DigestPrefix) \in Nat /\ Len(em.digest) \in Nat
    BY <2>2, InfoType, RsaAssumption
  <2>4. Accepted(em.bytes, em.digest) <=> n >= 3 + MinFill + k /\ Padded(em.bytes, n, em.digest)
    BY <2>1, <2>2, AcceptedIs
  <2>5. n >= 3 + k => (em.bytes = Encoding(n, em.digest) <=> Padded(em.bytes, n, em.digest))
    BY <2>1, <2>2, OneEncoding
  <2> HIDE DEF k
  <2>6. n >= 3 + MinFill + k => n >= 3 + k
    <3>1. n \in Nat /\ MinFill \in Nat /\ k \in Nat
      BY <2>2, <2>3
    <3> QED BY ONLY <3>1
  <2>7. 3 + MinFill + k = 3 + MinFill + Len(DigestPrefix) + Len(em.digest)
    <3>1. PICK a \in Nat, b \in Nat : a = Len(DigestPrefix) /\ b = Len(em.digest)
      BY <2>3
    <3>2. k = a + b /\ MinFill \in Nat
      BY <2>2, <2>3, <3>1
    <3>3. 3 + MinFill + k = 3 + MinFill + a + b
      BY ONLY <3>2, a \in Nat, b \in Nat
    <3> QED BY <3>1, <3>3
  <2>8. Accepted(em.bytes, em.digest) <=>
            n >= 3 + MinFill + Len(DigestPrefix) + Len(em.digest) /\ em.bytes = Encoding(n, em.digest)
    BY <2>4, <2>5, <2>6, <2>7
  <2> QED BY <2>2, <2>8 DEF PaddingStrict
<1> QED BY <1>1, <1>2, <1>3, PTL DEF RsaSpec
===============================================================================
