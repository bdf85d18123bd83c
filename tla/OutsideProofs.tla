--------------------------- MODULE OutsideProofs ----------------------------
(***************************************************************************)
(* Theorems about TLS, about the disks, about pages from the network and   *)
(* about certificates.                                                     *)
(***************************************************************************)
EXTENDS Tls, BlockStack, Web, Certs, FiniteSetTheorems, SequenceTheorems, WellFoundedInduction, TLAPS

Records == [type : {"handshake", "app", "ccs", "alert"}, key : Keys, seq : Nat,
            inner : {"none", "handshake", "app", "alert"}, msgs : Seq(Messages),
            parts : Nat \ {0}, data : Seq(Nat), at : Nat]
Contexts == [state : {"INIT", "CH_SENT", "SH_RECEIVED", "FINISHED_OK", "ERROR"},
             transcript : Transcripts, hs : Transcripts, seq : Nat, ap : Transcripts, mac_ok : BOOLEAN]
StreamParts == [rec : Records, part : Nat]

TlsTypeOK ==
    /\ role \in {"client", "server"}
    /\ job \in {"none", "connect", "accept", "open", "recv", "failed"}
    /\ tls \in Contexts
    /\ rx \in Seq(StreamParts) /\ line \in Seq(StreamParts) /\ sent \in Seq(Records)
    /\ peer \in [stage : {"start", "flying", "flown", "over", "hello"}, hs : Transcripts, transcript : Transcripts,
                 seq : Nat, wrote : Nat, records : Nat,
                 flight : Seq([msgs : Seq([type : MessageTypes, mac : {<<>>}, whole : BOOLEAN]), parts : Nat \ {0}])]
    /\ reading \in [max : Nat, out : Seq(Nat)]
    /\ returned \in Seq(Nat) /\ cut \in BOOLEAN

\* What has been sent to the kernel and is not yet processed.
Stream == rx \o line

\* The record that ends a flight, and a record under the application keys.
HasFin(rec) == rec.inner = "handshake" /\ rec.msgs # <<>> /\ rec.msgs[Len(rec.msgs)].mac # <<>>
IsData(rec) == rec.key # <<>> /\ rec.key[2] = "ap"

Told == peer.stage \in {"flown", "over"}

\* What is true of a record on its way to the side k, when the flight is out (told)
\* and its transcript is t.
RecordOk(rec, k, told, t) ==
    /\ rec.inner = "handshake" =>
          \A i \in DOMAIN rec.msgs : rec.msgs[i].mac # <<>> =>
              /\ i = Len(rec.msgs)
              /\ k = "client" => told /\ Append(rec.msgs[i].mac[2], "FIN") = t
    /\ IsData(rec) =>
          /\ k = "client" /\ told /\ rec.type = "app" /\ rec.key = Key("server", "ap", t)
          /\ \A i \in DOMAIN rec.data : rec.data[i] = rec.at + i
          /\ rec.inner # "app" => rec.data = <<>>
    /\ rec.inner = "app" => IsData(rec)

\* The parts of a record are one after the other, and all there.
Surrounded(s, first, rec) ==
    /\ first >= 0 /\ first + rec.parts <= Len(s)
    /\ \A j \in 1 .. rec.parts : s[first + j] = Part(rec, j)
Framed(s) ==
    \A i \in DOMAIN s : s[i].part \in 1 .. s[i].rec.parts /\ Surrounded(s, i - s[i].part, s[i].rec)

\* What comes behind rec: a record of data with this number and offset.
Behind(rec, seq, at) ==
    /\ HasFin(rec) => seq = 0 /\ at = 0
    /\ IsData(rec) => seq = rec.seq + 1 /\ at = rec.at + Len(rec.data)
Linked(s) ==
    \A i \in 1 .. Len(s) - 1 :
        s[i].part = s[i].rec.parts /\ (HasFin(s[i].rec) \/ IsData(s[i].rec)) =>
            IsData(s[i + 1].rec) /\ Behind(s[i].rec, s[i + 1].rec.seq, s[i + 1].rec.at)
LastLinked(s) ==
    s # <<>> => LET rec == s[Len(s)].rec
                IN  /\ Behind(rec, peer.seq, peer.wrote)
                    /\ HasFin(rec) \/ IsData(rec) => Told

StreamInv ==
    /\ \A i \in DOMAIN Stream : RecordOk(Stream[i].rec, role, Told, peer.transcript)
    /\ role = "client" => Framed(Stream) /\ Linked(Stream) /\ LastLinked(Stream)

JobInv ==
    /\ job = "connect" => role = "client"
    /\ job = "accept" => role = "server"
    /\ job \in {"open", "recv"} => tls.state = "FINISHED_OK"
    /\ job # "recv" => reading = NoRead
    /\ role = "server" \/ job \in {"none", "connect", "accept", "failed"} => Returned = <<>>
    /\ role = "client" /\ tls.state = "FINISHED_OK" => job \in {"connect", "open", "recv"}
    /\ peer.stage = "flying" => peer.flight # <<>> /\ peer.wrote = 0
    /\ peer.stage = "start" => Stream = <<>> /\ peer.wrote = 0 /\ peer.seq = 0

AgreedInv ==
    tls.state = "FINISHED_OK" => tls.mac_ok /\ (role = "client" => Told /\ tls.transcript = peer.transcript)

\* The number and the offset of what comes next.
Expects(seq, at) ==
    IF Stream = <<>> THEN seq = peer.seq /\ at = peer.wrote
    ELSE IsData(Stream[1].rec) /\ Stream[1].rec.seq = seq /\ Stream[1].rec.at = at
NextAt == IF Stream = <<>> THEN peer.wrote ELSE Stream[1].rec.at

ReadTo(at) ==
    /\ \A i \in DOMAIN Returned : Returned[i] <= at
    /\ \A i \in 1 .. Len(Returned) - 1 : Returned[i] < Returned[i + 1]
    /\ \A i \in 1 .. Len(reading.out) - 1 : reading.out[i + 1] = reading.out[i] + 1
    /\ Len(reading.out) <= reading.max
    /\ Len(reading.out) < reading.max /\ reading.out # <<>> => reading.out[Len(reading.out)] = at
    /\ ~cut => /\ \A i \in DOMAIN Returned : Returned[i] = i
               /\ job = "open" \/ Len(reading.out) < reading.max => Len(Returned) = at

ReadInv ==
    role = "client" /\ tls.state = "FINISHED_OK" =>
        /\ job = "connect" => Expects(0, 0)
        /\ job \in {"open", "recv"} => tls.ap = peer.transcript /\ Expects(tls.seq, NextAt) /\ ReadTo(NextAt)
TlsInv == TlsTypeOK /\ StreamInv /\ JobInv /\ AgreedInv /\ ReadInv

----------------------------------------------------------------------------
(* Sequences and the stream.                                               *)

LEMMA Lowest ==
    ASSUME NEW S \in SUBSET Nat, S # {}
    PROVE  \E x \in S : \A y \in S : x <= y
<1>1. PICK x \in S : \A y \in S : ~ (<<y, x>> \in OpToRel(<, Nat))
  BY NatLessThanWellFounded, WFMin
<1>2. \A y \in S : ~ (y < x)
  BY <1>1 DEF OpToRel
<1> QED BY <1>2

\* Three sequences one behind the other.  Cat is \o, for steps that need no more of it.
Cat(a, b) == a \o b
LEMMA Grouped ==
    ASSUME NEW S, NEW r \in Seq(S), NEW s \in Seq(S), NEW t \in Seq(S)
    PROVE  Cat(Cat(r, s), t) = Cat(r, Cat(s, t))
  BY ConcatAssociative DEF Cat

\* The first n elements and the rest.
LEMMA Cut ==
    ASSUME NEW S, NEW s \in Seq(S), NEW n \in 0 .. Len(s)
    PROVE  /\ Upto(s, n) \in Seq(S) /\ Len(Upto(s, n)) = n
           /\ \A i \in 1 .. n : Upto(s, n)[i] = s[i]
           /\ From(s, n + 1) \in Seq(S) /\ Len(From(s, n + 1)) = Len(s) - n
           /\ \A i \in 1 .. Len(s) - n : From(s, n + 1)[i] = s[n + i]
  BY DEF Upto, From

LEMMA Join ==
    ASSUME NEW S, NEW r \in Seq(S), NEW s \in Seq(S)
    PROVE  /\ r \o s \in Seq(S) /\ Len(r \o s) = Len(r) + Len(s)
           /\ \A i \in 1 .. Len(r) : (r \o s)[i] = r[i]
           /\ \A i \in 1 .. Len(s) : (r \o s)[Len(r) + i] = s[i]
  OBVIOUS

LEMMA CutConcat ==
    ASSUME NEW S, NEW r \in Seq(S), NEW s \in Seq(S), NEW n \in 0 .. Len(s)
    PROVE  (r \o Upto(s, n)) \o From(s, n + 1) = r \o s
<1>1. PICK u \in Seq(S), v \in Seq(S) : /\ u = Upto(s, n) /\ v = From(s, n + 1)
                                        /\ Len(u) = n /\ Len(v) = Len(s) - n
                                        /\ \A i \in 1 .. n : u[i] = s[i]
                                        /\ \A i \in 1 .. Len(s) - n : v[i] = s[n + i]
  BY Cut
<1>2. u \o v \in Seq(S) /\ Len(u \o v) = Len(s)
  <2>1. u \o v \in Seq(S) /\ Len(u \o v) = Len(u) + Len(v)
    BY Join
  <2> QED BY <1>1, <2>1
<1>3. ASSUME NEW i \in 1 .. Len(u \o v) PROVE (u \o v)[i] = s[i]
  <2>1. CASE i <= n
    BY <1>1, <1>2, <2>1, Join
  <2>2. CASE i > n
    <3>1. PICK k \in 1 .. Len(s) - n : i = n + k
      <4>1. i - n \in 1 .. Len(s) - n /\ i = n + (i - n)
        BY <1>2, <2>2
      <4> QED BY <4>1
    <3> QED BY <1>1, <3>1, Join
  <2> QED BY <1>2, <2>1, <2>2
<1>4. u \o v = s
  BY <1>2, <1>3, SeqEqual
<1>5. (r \o u) \o v = r \o (u \o v)
  <2>1. Cat(Cat(r, u), v) = Cat(r, Cat(u, v))
    BY ONLY r \in Seq(S), u \in Seq(S), v \in Seq(S), Grouped
  <2> QED BY ONLY <2>1 DEF Cat
<1> QED BY <1>1, <1>4, <1>5

\* Dropping what lies in the first of two sequences.
LEMMA DropConcat ==
    ASSUME NEW S, NEW r \in Seq(S), NEW s \in Seq(S), NEW n \in 0 .. Len(r)
    PROVE  From(r, n + 1) \o s = From(r \o s, n + 1)
<1>1. PICK u \in Seq(S) : /\ u = From(r, n + 1) /\ Len(u) = Len(r) - n
                          /\ \A i \in 1 .. Len(r) - n : u[i] = r[n + i]
  <2>1. /\ From(r, n + 1) \in Seq(S) /\ Len(From(r, n + 1)) = Len(r) - n
        /\ \A i \in 1 .. Len(r) - n : From(r, n + 1)[i] = r[n + i]
    BY Cut
  <2> QED BY <2>1
<1>2. PICK b \in Seq(S) : /\ b = r \o s /\ Len(b) = Len(r) + Len(s)
                          /\ \A i \in 1 .. Len(r) : b[i] = r[i]
                          /\ \A i \in 1 .. Len(s) : b[Len(r) + i] = s[i]
  <2>1. /\ r \o s \in Seq(S) /\ Len(r \o s) = Len(r) + Len(s)
        /\ \A i \in 1 .. Len(r) : (r \o s)[i] = r[i]
        /\ \A i \in 1 .. Len(s) : (r \o s)[Len(r) + i] = s[i]
    BY Join
  <2> QED BY <2>1
<1>3. n \in 0 .. Len(b)
  BY <1>2
<1>4. PICK v \in Seq(S) : v = From(b, n + 1) /\ Len(v) = Len(b) - n
                          /\ \A i \in 1 .. Len(b) - n : v[i] = b[n + i]
  BY <1>3, Cut
<1>5. PICK w \in Seq(S) : /\ w = u \o s /\ Len(w) = Len(u) + Len(s)
                          /\ \A i \in 1 .. Len(u) : w[i] = u[i]
                          /\ \A i \in 1 .. Len(s) : w[Len(u) + i] = s[i]
  <2>1. /\ u \o s \in Seq(S) /\ Len(u \o s) = Len(u) + Len(s)
        /\ \A i \in 1 .. Len(u) : (u \o s)[i] = u[i]
        /\ \A i \in 1 .. Len(s) : (u \o s)[Len(u) + i] = s[i]
    BY Join
  <2> QED BY <2>1
<1>6. Len(v) = Len(w)
  BY <1>1, <1>2, <1>4, <1>5
<1>7. ASSUME NEW i \in 1 .. Len(v) PROVE v[i] = w[i]
  <2>1. CASE i <= Len(u)
    <3>1. n + i \in 1 .. Len(r) /\ i \in 1 .. Len(r) - n
      BY <1>1, <2>1
    <3> QED BY <1>1, <1>2, <1>4, <1>5, <2>1, <3>1
  <2>2. CASE i > Len(u)
    <3>1. PICK k \in 1 .. Len(s) : i = Len(u) + k
      <4>1. i - Len(u) \in 1 .. Len(s) /\ i = Len(u) + (i - Len(u))
        BY <1>1, <1>2, <1>4, <2>2
      <4> QED BY <4>1
    <3>2. n + i = Len(r) + k
      BY <1>1, <3>1
    <3>3. v[i] = b[n + i] /\ w[Len(u) + k] = s[k] /\ b[Len(r) + k] = s[k]
      <4>1. \A j \in 1 .. Len(s) : w[Len(u) + j] = s[j] /\ b[Len(r) + j] = s[j]
        BY <1>2, <1>5
      <4>2. \A j \in 1 .. Len(v) : v[j] = b[n + j]
        BY <1>4
      <4> QED BY ONLY <4>1, <4>2, i \in 1 .. Len(v), k \in 1 .. Len(s)
    <3> QED BY ONLY <3>1, <3>2, <3>3
  <2> QED BY <1>1, <2>1, <2>2
<1>8. v = w
  BY <1>6, <1>7, SeqEqual
<1> QED BY <1>1, <1>2, <1>4, <1>5, <1>8

LEMMA AppendConcat ==
    ASSUME NEW S, NEW r \in Seq(S), NEW s \in Seq(S), NEW t \in Seq(S)
    PROVE  r \o (s \o t) = (r \o s) \o t
<1>1. Cat(Cat(r, s), t) = Cat(r, Cat(s, t))
  BY Grouped
<1> QED BY ONLY <1>1 DEF Cat

LEMMA PartFields ==
    ASSUME NEW s \in Seq(StreamParts), NEW i \in 1 .. Len(s)
    PROVE  /\ s[i] \in StreamParts /\ s[i].rec \in Records /\ s[i].part \in Nat
           /\ s[i].rec.parts \in Nat \ {0} /\ s[i].rec.seq \in Nat /\ s[i].rec.at \in Nat
<1>1. s[i] \in StreamParts
  OBVIOUS
<1>2. s[i].rec \in Records /\ s[i].part \in Nat
  BY <1>1 DEF StreamParts
<1> QED BY <1>1, <1>2 DEF Records

LEMMA PartIs ==
    ASSUME NEW rec, NEW j
    PROVE  Part(rec, j).rec = rec /\ Part(rec, j).part = j
  BY DEF Part

LEMMA PartsType ==
    ASSUME NEW rec \in Records
    PROVE  /\ Parts(rec) \in Seq(StreamParts) /\ Len(Parts(rec)) = rec.parts
           /\ \A j \in 1 .. rec.parts : Parts(rec)[j] = Part(rec, j)
<1>1. rec.parts \in Nat
  BY DEF Records
<1>2. \A j \in 1 .. rec.parts : Part(rec, j) \in StreamParts
  BY <1>1 DEF Part, StreamParts
<1>3. [j \in 1 .. rec.parts |-> Part(rec, j)] \in [1 .. rec.parts -> StreamParts]
  BY <1>2
<1>4. Parts(rec) \in [1 .. rec.parts -> StreamParts]
  BY <1>3 DEF Parts
<1> QED BY <1>1, <1>4 DEF Parts

LEMMA FirstRecord ==
    ASSUME NEW s \in Seq(StreamParts), s # <<>>, Framed(s)
    PROVE  /\ s[1].rec.parts \in 1 .. Len(s)
           /\ \A j \in 1 .. s[1].rec.parts : s[j] = Part(s[1].rec, j)
<1>1. 1 \in 1 .. Len(s) /\ DOMAIN s = 1 .. Len(s) /\ Len(s) \in Nat
  OBVIOUS
<1>2. s[1].part \in Nat /\ s[1].rec.parts \in Nat \ {0}
  BY <1>1, PartFields
<1>3. PICK p \in Nat, n \in Nat \ {0} : p = s[1].part /\ n = s[1].rec.parts
  BY <1>2
<1>4. /\ p \in 1 .. n /\ 1 - p >= 0 /\ (1 - p) + n <= Len(s)
      /\ \A j \in 1 .. n : s[(1 - p) + j] = Part(s[1].rec, j)
  BY <1>1, <1>3 DEF Framed, Surrounded
<1>5. p = 1 /\ \A j \in 1 .. n : (1 - p) + j = j
  BY <1>4
<1>6. \A j \in 1 .. n : s[j] = Part(s[1].rec, j)
  BY <1>4, <1>5
<1> QED BY <1>1, <1>3, <1>4, <1>5, <1>6

LEMMA FramedRest ==
    ASSUME NEW s \in Seq(StreamParts), s # <<>>, Framed(s)
    PROVE  Framed(From(s, s[1].rec.parts + 1))
<1>1. PICK n \in 1 .. Len(s) : n = s[1].rec.parts /\ \A j \in 1 .. n : s[j] = Part(s[1].rec, j)
  BY FirstRecord
<1>2. PICK t \in Seq(StreamParts) : /\ t = From(s, n + 1) /\ Len(t) = Len(s) - n
                                    /\ \A i \in 1 .. Len(s) - n : t[i] = s[n + i]
  <2>1. n \in 0 .. Len(s)
    BY <1>1
  <2>2. /\ From(s, n + 1) \in Seq(StreamParts) /\ Len(From(s, n + 1)) = Len(s) - n
        /\ \A i \in 1 .. Len(s) - n : From(s, n + 1)[i] = s[n + i]
    BY <2>1, Cut
  <2> QED BY <2>2
<1>3. ASSUME NEW i \in 1 .. Len(t)
      PROVE  t[i].part \in 1 .. t[i].rec.parts /\ Surrounded(t, i - t[i].part, t[i].rec)
  <2>1. n + i \in 1 .. Len(s) /\ i \in 1 .. Len(s) - n /\ t[i] = s[n + i] /\ n + i \in DOMAIN s
    BY <1>2
  <2>2. PICK p \in Nat, m \in Nat \ {0}, r \in Records : p = t[i].part /\ m = t[i].rec.parts /\ r = t[i].rec
    BY <2>1, PartFields
  <2>3. p \in 1 .. m /\ Surrounded(s, (n + i) - p, r)
    BY <2>1, <2>2 DEF Framed
  <2>4. PICK f \in Nat : f = (n + i) - p
    BY <2>1, <2>2, <2>3 DEF Surrounded
  <2>5. f + m <= Len(s) /\ \A j \in 1 .. m : s[f + j] = Part(r, j)
    BY <2>2, <2>3, <2>4 DEF Surrounded
  <2>6. f >= n
    <3>1. SUFFICES ASSUME f < n PROVE FALSE
      BY <2>1, <2>4
    <3>2. f + 1 \in 1 .. n /\ 1 \in 1 .. m
      BY <2>2, <2>4, <3>1, SMTT(20)
    <3>3. s[f + 1] = Part(r, 1) /\ s[f + 1] = Part(s[1].rec, f + 1)
      BY <1>1, <2>5, <3>2
    <3>4. Part(r, 1) = Part(s[1].rec, f + 1)
      BY <3>3
    <3>5. r = s[1].rec /\ f + 1 = 1
      BY <3>4, PartIs
    <3>6. m = n
      BY <1>1, <2>2, <3>5
    <3> QED BY <2>1, <2>3, <2>4, <3>5, <3>6
  <2>7. PICK e \in Nat : e = i - p /\ f = n + e
    <3>1. i \in Nat /\ n \in Nat
      OBVIOUS
    <3>2. i - p \in Nat /\ f = n + (i - p)
      BY ONLY <2>4, <2>6, <3>1, p \in Nat, f \in Nat
    <3> QED BY <3>2
  <2>8. \A j \in 1 .. m : t[e + j] = Part(r, j)
    <3> TAKE j \in 1 .. m
    <3>1. e + j \in 1 .. Len(s) - n /\ n + (e + j) = f + j
      BY <2>5, <2>7
    <3> QED BY <1>2, <2>5, <3>1
  <2>9. e + m <= Len(t)
    BY <1>2, <2>5, <2>7
  <2> QED BY <2>2, <2>3, <2>7, <2>8, <2>9 DEF Surrounded
<1> QED BY <1>1, <1>2, <1>3 DEF Framed

LEMMA FramedMore ==
    ASSUME NEW s \in Seq(StreamParts), Framed(s), NEW rec \in Records
    PROVE  Framed(s \o Parts(rec))
<1>1. PICK n \in Nat \ {0}, q \in Seq(StreamParts) :
         n = rec.parts /\ q = Parts(rec) /\ Len(q) = n /\ \A j \in 1 .. n : q[j] = Part(rec, j)
  <2>1. rec.parts \in Nat \ {0}
    BY DEF Records
  <2> QED BY <2>1, PartsType
<1>2. PICK t \in Seq(StreamParts) : /\ t = s \o q /\ Len(t) = Len(s) + Len(q)
                                    /\ \A i \in 1 .. Len(s) : t[i] = s[i]
                                    /\ \A i \in 1 .. Len(q) : t[Len(s) + i] = q[i]
  <2>1. /\ s \o q \in Seq(StreamParts) /\ Len(s \o q) = Len(s) + Len(q)
        /\ \A i \in 1 .. Len(s) : (s \o q)[i] = s[i]
        /\ \A i \in 1 .. Len(q) : (s \o q)[Len(s) + i] = q[i]
    BY Join
  <2> QED BY <2>1
<1>3. ASSUME NEW i \in 1 .. Len(t)
      PROVE  t[i].part \in 1 .. t[i].rec.parts /\ Surrounded(t, i - t[i].part, t[i].rec)
  <2>1. CASE i <= Len(s)
    <3>1. i \in 1 .. Len(s) /\ i \in DOMAIN s /\ t[i] = s[i]
      BY <1>2, <2>1
    <3>2. PICK p \in Nat, m \in Nat \ {0}, r \in Records : p = t[i].part /\ m = t[i].rec.parts /\ r = t[i].rec
      BY <3>1, PartFields
    <3>3. p \in 1 .. m /\ Surrounded(s, i - p, r)
      BY <3>1, <3>2 DEF Framed
    <3>4. PICK f \in Nat : f = i - p
      BY <3>1, <3>2, <3>3 DEF Surrounded
    <3>5. f + m <= Len(s) /\ \A j \in 1 .. m : s[f + j] = Part(r, j)
      BY <3>2, <3>3, <3>4 DEF Surrounded
    <3>6. \A j \in 1 .. m : t[f + j] = Part(r, j)
      <4> TAKE j \in 1 .. m
      <4>1. f + j \in 1 .. Len(s)
        BY <3>5
      <4> QED BY <1>2, <3>5, <4>1
    <3>7. f + m <= Len(t)
      BY <1>1, <1>2, <3>5
    <3> QED BY <3>2, <3>3, <3>4, <3>6, <3>7 DEF Surrounded
  <2>2. CASE i > Len(s)
    <3>1. PICK k \in 1 .. n : i = Len(s) + k
      <4>1. i - Len(s) \in 1 .. n /\ i = Len(s) + (i - Len(s))
        BY <1>1, <1>2, <2>2
      <4> QED BY <4>1
    <3>2. t[i] = Part(rec, k)
      BY <1>1, <1>2, <3>1
    <3>3. t[i].rec = rec /\ t[i].part = k /\ i - k = Len(s)
      BY <3>1, <3>2, PartIs
    <3>4. \A j \in 1 .. n : t[Len(s) + j] = Part(rec, j)
      BY <1>1, <1>2
    <3>5. Len(s) \in Nat /\ Len(s) + n <= Len(t)
      BY <1>1, <1>2
    <3> QED BY <1>1, <3>1, <3>3, <3>4, <3>5 DEF Surrounded
  <2> QED BY <1>2, <2>1, <2>2
<1>4. DOMAIN t = 1 .. Len(t)
  OBVIOUS
<1>5. Framed(t)
  BY <1>3, <1>4 DEF Framed
<1> QED BY <1>1, <1>2, <1>5

LEMMA LinkedRest ==
    ASSUME NEW s \in Seq(StreamParts), NEW n \in 0 .. Len(s), Linked(s)
    PROVE  Linked(From(s, n + 1))
<1>1. PICK t \in Seq(StreamParts) : /\ t = From(s, n + 1) /\ Len(t) = Len(s) - n
                                    /\ \A i \in 1 .. Len(s) - n : t[i] = s[n + i]
  <2>1. /\ From(s, n + 1) \in Seq(StreamParts) /\ Len(From(s, n + 1)) = Len(s) - n
        /\ \A i \in 1 .. Len(s) - n : From(s, n + 1)[i] = s[n + i]
    BY Cut
  <2> QED BY <2>1
<1>2. \A i \in 1 .. Len(t) - 1 :
         /\ t[i] = s[n + i] /\ t[i + 1] = s[(n + i) + 1] /\ n + i \in 1 .. Len(s) - 1
  <2> TAKE i \in 1 .. Len(t) - 1
  <2>1. i \in 1 .. Len(s) - n /\ i + 1 \in 1 .. Len(s) - n /\ n + (i + 1) = (n + i) + 1
    BY <1>1
  <2>2. (n + i) + 1 = n + (i + 1) /\ n + i \in 1 .. Len(s) - 1
    BY <1>1, <2>1
  <2>3. t[i] = s[n + i] /\ t[i + 1] = s[n + (i + 1)]
    BY <1>1, <2>1
  <2> QED BY <2>2, <2>3
<1> QED BY <1>1, <1>2 DEF Linked

LEMMA LinkedMore ==
    ASSUME NEW s \in Seq(StreamParts), Linked(s), NEW rec \in Records,
           s # <<>> /\ (HasFin(s[Len(s)].rec) \/ IsData(s[Len(s)].rec)) =>
               IsData(rec) /\ Behind(s[Len(s)].rec, rec.seq, rec.at)
    PROVE  Linked(s \o Parts(rec))
<1>1. PICK n \in Nat \ {0}, q \in Seq(StreamParts) :
         n = rec.parts /\ q = Parts(rec) /\ Len(q) = n /\ \A j \in 1 .. n : q[j] = Part(rec, j)
  <2>1. rec.parts \in Nat \ {0}
    BY DEF Records
  <2> QED BY <2>1, PartsType
<1>2. PICK t \in Seq(StreamParts) : /\ t = s \o q /\ Len(t) = Len(s) + Len(q)
                                    /\ \A i \in 1 .. Len(s) : t[i] = s[i]
                                    /\ \A i \in 1 .. Len(q) : t[Len(s) + i] = q[i]
  <2>1. /\ s \o q \in Seq(StreamParts) /\ Len(s \o q) = Len(s) + Len(q)
        /\ \A i \in 1 .. Len(s) : (s \o q)[i] = s[i]
        /\ \A i \in 1 .. Len(q) : (s \o q)[Len(s) + i] = q[i]
    BY Join
  <2> QED BY <2>1
<1>3. ASSUME NEW i \in 1 .. Len(t) - 1,
             t[i].part = t[i].rec.parts, HasFin(t[i].rec) \/ IsData(t[i].rec)
      PROVE  IsData(t[i + 1].rec) /\ Behind(t[i].rec, t[i + 1].rec.seq, t[i + 1].rec.at)
  <2>1. CASE i < Len(s)
    <3>1. i \in 1 .. Len(s) - 1 /\ t[i] = s[i] /\ t[i + 1] = s[i + 1]
      BY <1>2, <2>1
    <3> QED BY <1>3, <3>1 DEF Linked
  <2>2. CASE i = Len(s)
    <3>1. s # <<>> /\ t[i] = s[Len(s)]
      BY <1>2, <2>2
    <3>2. t[i + 1] = Part(rec, 1)
      BY <1>1, <1>2, <2>2
    <3> QED BY <1>3, <3>1, <3>2, PartIs
  <2>3. CASE i > Len(s)
    <3>1. PICK k \in 1 .. n - 1 : i = Len(s) + k
      <4>1. i - Len(s) \in 1 .. n - 1 /\ i = Len(s) + (i - Len(s))
        BY <1>1, <1>2, <2>3
      <4> QED BY <4>1
    <3>2. t[i] = Part(rec, k)
      BY <1>1, <1>2, <3>1
    <3>3. k = n
      BY <1>1, <1>3, <3>2, PartIs
    <3> QED BY <3>1, <3>3
  <2> QED BY <1>2, <2>1, <2>2, <2>3
<1> QED BY <1>1, <1>2, <1>3 DEF Linked

LEMMA LastOfMore ==
    ASSUME NEW s \in Seq(StreamParts), NEW rec \in Records
    PROVE  /\ s \o Parts(rec) \in Seq(StreamParts) /\ s \o Parts(rec) # <<>>
           /\ (s \o Parts(rec))[Len(s \o Parts(rec))].rec = rec
           /\ s = <<>> => (s \o Parts(rec))[1].rec = rec
           /\ s # <<>> => (s \o Parts(rec))[1] = s[1]
           /\ \A i \in DOMAIN (s \o Parts(rec)) :
                 (s \o Parts(rec))[i].rec = rec \/ \E k \in DOMAIN s : (s \o Parts(rec))[i] = s[k]
<1>1. PICK n \in Nat \ {0}, q \in Seq(StreamParts) :
         n = rec.parts /\ q = Parts(rec) /\ Len(q) = n /\ \A j \in 1 .. n : q[j] = Part(rec, j)
  <2>1. rec.parts \in Nat \ {0}
    BY DEF Records
  <2> QED BY <2>1, PartsType
<1>2. PICK t \in Seq(StreamParts) : /\ t = s \o q /\ Len(t) = Len(s) + Len(q)
                                    /\ \A i \in 1 .. Len(s) : t[i] = s[i]
                                    /\ \A i \in 1 .. Len(q) : t[Len(s) + i] = q[i]
  <2>1. /\ s \o q \in Seq(StreamParts) /\ Len(s \o q) = Len(s) + Len(q)
        /\ \A i \in 1 .. Len(s) : (s \o q)[i] = s[i]
        /\ \A i \in 1 .. Len(q) : (s \o q)[Len(s) + i] = q[i]
    BY Join
  <2> QED BY <2>1
<1>3. t # <<>> /\ t[Len(t)].rec = rec
  <2>1. t[Len(s) + n] = Part(rec, n) /\ Len(t) = Len(s) + n
    BY <1>1, <1>2
  <2> QED BY <1>1, <1>2, <2>1, PartIs
<1>4. s = <<>> => t[1].rec = rec
  <2>1. s = <<>> => t[1] = Part(rec, 1)
    BY <1>1, <1>2
  <2> QED BY <2>1, PartIs
<1>5. s # <<>> => t[1] = s[1]
  BY <1>2
<1>6. ASSUME NEW i \in DOMAIN t PROVE t[i].rec = rec \/ \E k \in DOMAIN s : t[i] = s[k]
  <2>1. CASE i <= Len(s)
    BY <1>2, <2>1
  <2>2. CASE i > Len(s)
    <3>1. PICK k \in 1 .. n : i = Len(s) + k
      <4>1. i - Len(s) \in 1 .. n /\ i = Len(s) + (i - Len(s))
        BY <1>1, <1>2, <2>2
      <4> QED BY <4>1
    <3> QED BY <1>1, <1>2, <3>1, PartIs
  <2> QED BY <1>2, <2>1, <2>2
<1> QED BY <1>1, <1>2, <1>3, <1>4, <1>5, <1>6

----------------------------------------------------------------------------
(* Steps of the stream.                                                    *)

LEMMA StreamType ==
    ASSUME TlsTypeOK
    PROVE  /\ Stream \in Seq(StreamParts) /\ Len(Stream) = Len(rx) + Len(line)
           /\ \A i \in 1 .. Len(rx) : Stream[i] = rx[i]
           /\ \A i \in 1 .. Len(line) : Stream[Len(rx) + i] = line[i]
<1>1. rx \in Seq(StreamParts) /\ line \in Seq(StreamParts)
  BY DEF TlsTypeOK
<1> QED BY <1>1, Join DEF Stream

\* tcp_recv moves parts from the line to the buffer.
LEMMA StreamMoves ==
    ASSUME TlsTypeOK, TcpRecv
    PROVE  Stream' = Stream /\ rx' \in Seq(StreamParts) /\ line' \in Seq(StreamParts)
<1>1. rx \in Seq(StreamParts) /\ line \in Seq(StreamParts)
  BY DEF TlsTypeOK
<1>2. PICK n \in 0 .. Len(line) : rx' = rx \o Upto(line, n) /\ line' = From(line, n + 1)
  BY DEF TcpRecv
<1>3. Upto(line, n) \in Seq(StreamParts) /\ From(line, n + 1) \in Seq(StreamParts)
  BY <1>1, Cut
<1>4. (rx \o Upto(line, n)) \o From(line, n + 1) = rx \o line
  BY <1>1, CutConcat
<1>5. rx' \in Seq(StreamParts)
  BY <1>1, <1>2, <1>3, Join
<1> QED BY <1>2, <1>3, <1>4, <1>5 DEF Stream

LEMMA StreamStays ==
    ASSUME StreamInv, Stream' = Stream, UNCHANGED <<role, peer>>
    PROVE  StreamInv'
<1>1. Told' = Told
  BY DEF Told
<1>2. LastLinked(Stream)' = LastLinked(Stream)
  BY <1>1 DEF LastLinked
<1> QED BY <1>1, <1>2 DEF StreamInv, Linked, Framed, Surrounded

\* A whole record is taken from the buffer: if it ended the flight, or was of data,
\* the next one is the data behind it.
LEMMA StreamTaken ==
    ASSUME TlsTypeOK, StreamInv, WholeRecord, Consume, UNCHANGED <<role, line, peer>>,
           NEW rec, rec = Rec
    PROVE  /\ StreamInv' /\ rx' \in Seq(StreamParts)
           /\ rec \in Records /\ RecordOk(rec, role, Told, peer.transcript)
           /\ role = "client" =>
                /\ Stream # <<>> /\ Stream[1].rec = rec
                /\ HasFin(rec) => Told /\ Expects(0, 0)'
                /\ IsData(rec) => Told /\ Expects(rec.seq + 1, rec.at + Len(rec.data))'
<1>1. PICK s \in Seq(StreamParts) : /\ s = Stream /\ Len(s) = Len(rx) + Len(line)
                                    /\ \A i \in 1 .. Len(rx) : s[i] = rx[i]
  BY StreamType
<1>2. rx \in Seq(StreamParts) /\ line \in Seq(StreamParts) /\ rx # <<>>
  BY DEF TlsTypeOK, WholeRecord
<1>3. 1 \in 1 .. Len(rx) /\ 1 \in 1 .. Len(s) /\ s # <<>> /\ s[1].rec = rec
  BY <1>1, <1>2 DEF Rec
<1>4. rec \in Records /\ rec.parts \in Nat \ {0} /\ rec.seq \in Nat /\ rec.at \in Nat
  BY <1>3, PartFields
<1>5. PICK n \in 1 .. Len(rx) : n = rec.parts
  <2>1. rec.parts \in 1 .. Len(rx)
    BY <1>2, <1>4 DEF WholeRecord, Rec
  <2> QED BY <2>1
<1>6. PICK t \in Seq(StreamParts) : /\ t = From(s, n + 1) /\ Len(t) = Len(s) - n
                                    /\ \A i \in 1 .. Len(s) - n : t[i] = s[n + i]
  <2>1. n \in 0 .. Len(s)
    BY <1>1, <1>5
  <2>2. /\ From(s, n + 1) \in Seq(StreamParts) /\ Len(From(s, n + 1)) = Len(s) - n
        /\ \A i \in 1 .. Len(s) - n : From(s, n + 1)[i] = s[n + i]
    BY <2>1, Cut
  <2> QED BY <2>2
<1>7. rx' = From(rx, n + 1) /\ rx' \in Seq(StreamParts)
  <2>1. n \in 0 .. Len(rx)
    BY <1>5
  <2>2. From(rx, n + 1) \in Seq(StreamParts)
    BY <1>2, <2>1, Cut
  <2> QED BY <1>5, <2>2 DEF Consume
<1>8. Stream' = t
  <2>1. From(rx, n + 1) \o line = From(rx \o line, n + 1)
    <3>1. n \in 0 .. Len(rx)
      BY <1>5
    <3> QED BY <1>2, <3>1, DropConcat
  <2> QED BY <1>1, <1>6, <1>7, <2>1 DEF Stream
<1>9. /\ \A i \in DOMAIN s : RecordOk(s[i].rec, role, Told, peer.transcript)
      /\ RecordOk(rec, role, Told, peer.transcript)
  BY <1>1, <1>3 DEF StreamInv
<1>10. role' = role /\ Told' = Told /\ peer' = peer
  BY DEF Told
<1>11. ASSUME NEW i \in DOMAIN t PROVE RecordOk(t[i].rec, role, Told, peer.transcript)
  <2>1. n + i \in DOMAIN s /\ t[i] = s[n + i]
    <3>1. i \in 1 .. Len(s) - n /\ DOMAIN s = 1 .. Len(s) /\ n \in Nat /\ n >= 1
      BY <1>5, <1>6
    <3>2. n + i \in 1 .. Len(s)
      BY <3>1
    <3> QED BY <1>6, <3>1, <3>2
  <2> QED BY <1>9, <2>1
<1>12. ASSUME role = "client"
       PROVE  /\ Framed(t) /\ Linked(t) /\ LastLinked(t)'
              /\ HasFin(rec) => Told /\ Expects(0, 0)'
              /\ IsData(rec) => Told /\ Expects(rec.seq + 1, rec.at + Len(rec.data))'
  <2>1. Framed(s) /\ Linked(s) /\ LastLinked(s)
    BY <1>1, <1>12 DEF StreamInv
  <2>2. Framed(t)
    BY <1>3, <1>5, <1>6, <2>1, FramedRest
  <2>3. Linked(t)
    BY <1>1, <1>5, <1>6, <2>1, LinkedRest
  <2>4. t # <<>> => t[Len(t)] = s[Len(s)]
    <3>1. t # <<>> => Len(t) \in 1 .. Len(s) - n /\ n + Len(t) = Len(s)
      BY <1>1, <1>5, <1>6
    <3> QED BY <1>6, <3>1
  <2>5. LastLinked(t)'
    BY <1>3, <1>10, <2>1, <2>4 DEF LastLinked
  <2>6. s[n] = Part(rec, n)
    BY <1>3, <1>5, <2>1, FirstRecord
  <2>7. s[n].rec = rec /\ s[n].part = rec.parts
    BY <1>5, <2>6, PartIs
  <2>8. CASE t = <<>>
    <3>1. n = Len(s)
      BY <1>5, <1>6, <2>8
    <3>2. Behind(rec, peer.seq, peer.wrote) /\ (HasFin(rec) \/ IsData(rec) => Told)
      BY <1>3, <2>1, <2>7, <3>1 DEF LastLinked
    <3>3. \A seq, at : Expects(seq, at)' = (seq = peer.seq /\ at = peer.wrote)
      BY <1>8, <1>10, <2>8 DEF Expects
    <3> QED BY <2>2, <2>3, <2>5, <3>2, <3>3 DEF Behind
  <2>9. CASE t # <<>>
    <3>1. n \in 1 .. Len(s) - 1 /\ t[1] = s[n + 1]
      <4>1. Len(t) \in Nat \ {0} /\ Len(t) = Len(s) - n /\ Len(s) \in Nat /\ n \in Nat /\ n >= 1
        BY <1>1, <1>5, <1>6, <2>9
      <4>2. n \in 1 .. Len(s) - 1 /\ 1 \in 1 .. Len(s) - n
        BY ONLY <4>1
      <4> QED BY <1>6, <4>2
    <3>2. HasFin(rec) \/ IsData(rec) => IsData(t[1].rec) /\ Behind(rec, t[1].rec.seq, t[1].rec.at)
      BY <2>1, <2>7, <3>1 DEF Linked
    <3>3. IsData(t[1].rec) => Told
      <4>1. 1 \in DOMAIN t
        BY <2>9
      <4> QED BY <1>11, <4>1 DEF RecordOk
    <3>4. \A seq, at : IsData(t[1].rec) /\ t[1].rec.seq = seq /\ t[1].rec.at = at => Expects(seq, at)'
      BY <1>8, <2>9 DEF Expects
    <3> QED BY <2>2, <2>3, <2>5, <3>2, <3>3, <3>4 DEF Behind
  <2> QED BY <2>8, <2>9
<1>13. StreamInv'
  BY <1>8, <1>10, <1>11, <1>12 DEF StreamInv
<1> QED BY <1>1, <1>3, <1>4, <1>7, <1>9, <1>12, <1>13

\* A record is sent behind the others.
LEMMA StreamGrows ==
    ASSUME TlsTypeOK, StreamInv, NEW rec \in Records, Deliver(Parts(rec)), UNCHANGED <<role, rx>>,
           RecordOk(rec, role, Told', peer'.transcript),
           \A r : RecordOk(r, role, Told, peer.transcript) => RecordOk(r, role, Told', peer'.transcript),
           role = "client" =>
               /\ Stream # <<>> /\ (HasFin(Stream[Len(Stream)].rec) \/ IsData(Stream[Len(Stream)].rec)) =>
                      IsData(rec) /\ rec.seq = peer.seq /\ rec.at = peer.wrote
               /\ HasFin(rec) => peer'.seq = 0 /\ peer'.wrote = 0
               /\ IsData(rec) => peer'.seq = rec.seq + 1 /\ peer'.wrote = rec.at + Len(rec.data)
               /\ HasFin(rec) \/ IsData(rec) => Told'
    PROVE  /\ StreamInv' /\ line' \in Seq(StreamParts) /\ Stream' # <<>>
           /\ Stream = <<>> => Stream'[1].rec = rec
           /\ Stream # <<>> => Stream'[1] = Stream[1]
<1>1. PICK s \in Seq(StreamParts) : s = Stream
  BY StreamType
<1>2. rx \in Seq(StreamParts) /\ line \in Seq(StreamParts)
  BY DEF TlsTypeOK
<1>3. PICK q \in Seq(StreamParts) : q = Parts(rec)
  BY PartsType
<1>4. line' = line \o q /\ line' \in Seq(StreamParts)
  <2>1. line \o q \in Seq(StreamParts)
    BY <1>2, Join
  <2> QED BY <1>3, <2>1 DEF Deliver
<1>5. Stream' = s \o q
  <2>1. rx \o (line \o q) = (rx \o line) \o q
    BY <1>2, AppendConcat
  <2> QED BY <1>1, <1>4, <2>1 DEF Stream
<1>6. PICK t \in Seq(StreamParts) :
         /\ t = s \o q /\ t # <<>> /\ t[Len(t)].rec = rec
         /\ s = <<>> => t[1].rec = rec
         /\ s # <<>> => t[1] = s[1]
         /\ \A i \in DOMAIN t : t[i].rec = rec \/ \E k \in DOMAIN s : t[i] = s[k]
  BY <1>3, LastOfMore
<1>7. ASSUME NEW i \in DOMAIN t PROVE RecordOk(t[i].rec, role, Told', peer'.transcript)
  <2>1. \A k \in DOMAIN s : RecordOk(s[k].rec, role, Told', peer'.transcript)
    BY <1>1 DEF StreamInv
  <2> QED BY <1>6, <2>1
<1>8. ASSUME role = "client" PROVE Framed(t) /\ Linked(t) /\ LastLinked(t)'
  <2>1. Framed(s) /\ Linked(s) /\ LastLinked(s)
    BY <1>1, <1>8 DEF StreamInv
  <2>2. Framed(t)
    BY <1>3, <1>6, <2>1, FramedMore
  <2>3. s # <<>> /\ (HasFin(s[Len(s)].rec) \/ IsData(s[Len(s)].rec)) =>
            IsData(rec) /\ Behind(s[Len(s)].rec, rec.seq, rec.at)
    BY <1>1, <1>8, <2>1 DEF LastLinked
  <2>4. Linked(t)
    BY <1>3, <1>6, <2>1, <2>3, LinkedMore
  <2>5. LastLinked(t)'
    BY <1>6, <1>8 DEF LastLinked, Behind, HasFin, IsData
  <2> QED BY <2>2, <2>4, <2>5
<1>9. StreamInv'
  <2>1. Stream' = t
    BY <1>5, <1>6
  <2> QED BY <1>7, <1>8, <2>1 DEF StreamInv
<1> QED BY <1>1, <1>4, <1>5, <1>6, <1>9

----------------------------------------------------------------------------
(* What each step of tls.c does to the invariant.                          *)

LEMMA SameStream ==
    ASSUME Stream' = Stream, peer' = peer
    PROVE  /\ \A seq, at : Expects(seq, at)' = Expects(seq, at)
           /\ NextAt' = NextAt /\ Told' = Told
  BY DEF Expects, NextAt, Told

LEMMA ExpectedAt ==
    ASSUME NEW seq, NEW at, Expects(seq, at)
    PROVE  NextAt = at
  BY DEF Expects, NextAt

\* The messages of a record, up to the Finished that the kernel accepts.
LEMMA PayloadFin ==
    ASSUME TlsTypeOK, NEW msgs \in Seq(Messages), NEW x \in Payload(msgs), tls.state # "FINISHED_OK"
    PROVE  /\ x \in Contexts
           /\ x.state = "FINISHED_OK" =>
                 /\ x.mac_ok
                 /\ \E e \in DOMAIN msgs : /\ msgs[e].mac # <<>>
                                           /\ x.transcript = Append(msgs[e].mac[2], "FIN")
<1> DEFINE S == Ends(msgs) \cup {Len(msgs) + 1}
           e == Least(S)
           t == tls.transcript \o Types(Upto(msgs, e - 1))
           ok == MacRight(msgs[e], t)
           Read(transcript) == [tls EXCEPT !.transcript = transcript, !.seq = @ + 1]
           done == [Read(Append(t, "FIN")) EXCEPT !.mac_ok = ok,
                                                  !.state = IF ok THEN "FINISHED_OK" ELSE "ERROR"]
<1>1. x = Read(t) \/ x = Read(Append(t, "JUNK")) \/ (x = done /\ ~(e > Len(msgs)))
  <2>1. Payload(msgs) = IF e > Len(msgs) \/ msgs[e].type = "BEGIN" THEN {Read(t)}
                        ELSE IF msgs[e].type = "END" THEN {Read(t), Read(Append(t, "JUNK"))}
                        ELSE {done}
    BY DEF Payload
  <2> HIDE DEF t, ok, e, S, Read, done
  <2> QED BY <2>1
<1>2. e \in S /\ e \in 1 .. Len(msgs) + 1
  <2>1. S \in SUBSET Nat /\ S # {} /\ S \subseteq 1 .. Len(msgs) + 1
    BY DEF Ends
  <2>2. \E n \in S : \A m \in S : n <= m
    BY <2>1, Lowest
  <2>3. e \in S
    BY <2>2 DEF Least
  <2> QED BY <2>1, <2>3
<1>3. t \in Transcripts /\ Append(t, "FIN") \in Transcripts /\ Append(t, "JUNK") \in Transcripts
  <2>1. Upto(msgs, e - 1) \in Seq(Messages)
    <3>1. e - 1 \in 0 .. Len(msgs)
      BY <1>2
    <3> QED BY <3>1, Cut
  <2>2. PICK u \in Seq(Messages) : u = Upto(msgs, e - 1)
    BY <2>1
  <2>3. Types(u) \in Seq(MessageTypes)
    <3>1. \A i \in DOMAIN u : u[i] \in Messages
      OBVIOUS
    <3>3. \A m \in Messages : m.type \in MessageTypes
      BY DEF Messages
    <3>2. DOMAIN u = 1 .. Len(u) /\ Len(u) \in Nat
      OBVIOUS
    <3>4. \A i \in 1 .. Len(u) : u[i].type \in MessageTypes
      BY <3>1, <3>2, <3>3
    <3>5. Types(u) = [i \in 1 .. Len(u) |-> u[i].type]
      BY <3>2 DEF Types
    <3> QED BY <3>2, <3>4, <3>5
  <2>4. tls.transcript \in Transcripts
    BY DEF TlsTypeOK, Contexts
  <2>5. t \in Transcripts
    <3>1. tls.transcript \o Types(u) \in Seq(MessageTypes)
      BY <2>3, <2>4, Join DEF Transcripts
    <3> QED BY <2>2, <3>1 DEF Transcripts
  <2>6. "FIN" \in MessageTypes /\ "JUNK" \in MessageTypes
    BY DEF MessageTypes
  <2> HIDE DEF t
  <2> QED BY <2>5, <2>6 DEF Transcripts
<1>4. tls \in Contexts
  BY DEF TlsTypeOK
<1>5. ok \in BOOLEAN
  BY DEF MacRight
<1> HIDE DEF t, ok, e, S
<1>6. /\ Read(t).state = tls.state /\ Read(Append(t, "JUNK")).state = tls.state
      /\ done.transcript = Append(t, "FIN") /\ done.mac_ok = ok
      /\ done.state = "FINISHED_OK" => ok
  BY <1>4 DEF Contexts
<1>7. x \in Contexts
  <2>4. tls.seq + 1 \in Nat
    BY <1>4 DEF Contexts
  <2>1. Read(t) \in Contexts
    BY <1>3, <1>4, <2>4 DEF Contexts
  <2>2. Read(Append(t, "JUNK")) \in Contexts
    BY <1>3, <1>4, <2>4 DEF Contexts
  <2>3. done \in Contexts
    BY <1>3, <1>4, <1>5, <2>4 DEF Contexts
  <2> QED BY <1>1, <2>1, <2>2, <2>3
<1>8. ASSUME x.state = "FINISHED_OK"
      PROVE  /\ x.mac_ok
             /\ \E i \in DOMAIN msgs : /\ msgs[i].mac # <<>>
                                       /\ x.transcript = Append(msgs[i].mac[2], "FIN")
  <2>1. x = done /\ e <= Len(msgs)
    <3>1. x # Read(t) /\ x # Read(Append(t, "JUNK"))
      BY <1>6, <1>8
    <3>2. ~(e > Len(msgs)) => e <= Len(msgs)
      BY <1>2
    <3> HIDE DEF Read, done
    <3> QED BY <1>1, <3>1, <3>2
  <2>2. ok
    BY <1>6, <1>8, <2>1
  <2>3. msgs[e].mac = <<Key("server", "hs", tls.hs), t>>
    BY <2>2 DEF ok, MacRight
  <2>4. e \in DOMAIN msgs
    BY <1>2, <2>1
  <2>5. msgs[e].mac # <<>> /\ msgs[e].mac[2] = t
    BY <2>3
  <2> QED BY <1>6, <2>1, <2>2, <2>4, <2>5
<1> QED BY <1>7, <1>8

LEMMA PlainOk ==
    ASSUME NEW type \in {"handshake", "ccs", "alert"}, NEW msgs \in Seq(Messages), NEW n \in Nat \ {0}
    PROVE  LET rec == [Plain(type, msgs) EXCEPT !.parts = n]
           IN  /\ rec \in Records /\ Plain(type, msgs) \in Records
               /\ ~HasFin(rec) /\ ~IsData(rec) /\ ~HasFin(Plain(type, msgs)) /\ ~IsData(Plain(type, msgs))
               /\ \A k, told, t : RecordOk(rec, k, told, t) /\ RecordOk(Plain(type, msgs), k, told, t)
<1>1. <<>> \in Keys /\ <<>> \in Seq(Nat)
  BY DEF Keys
<1>2. [Plain(type, msgs) EXCEPT !.parts = n] \in Records /\ Plain(type, msgs) \in Records
  <2>1. Plain(type, msgs) \in Records
    BY <1>1 DEF Plain, Records
  <2>2. \A rec \in Records : [rec EXCEPT !.parts = n] \in Records
    BY DEF Records
  <2> QED BY <2>1, <2>2
<1>3. ASSUME NEW rec, rec = [Plain(type, msgs) EXCEPT !.parts = n] \/ rec = Plain(type, msgs)
      PROVE  rec.inner = "none" /\ rec.key = <<>>
  BY <1>3 DEF Plain
<1>4. \A rec : rec.inner = "none" /\ rec.key = <<>> =>
         ~HasFin(rec) /\ ~IsData(rec) /\ \A k, told, t : RecordOk(rec, k, told, t)
  BY DEF HasFin, IsData, RecordOk
<1> QED BY <1>2, <1>3, <1>4

LEMMA MsgType ==
    ASSUME NEW type \in MessageTypes
    PROVE  Msg(type) \in Messages
<1>1. <<>> \in Macs
  BY DEF Macs
<1> QED BY <1>1 DEF Msg, Messages

LEMMA OneMessage ==
    ASSUME NEW x \in Messages
    PROVE  <<x>> \in Seq(Messages)
  OBVIOUS

LEMMA HelloRecords ==
    /\ ClientHelloRecord \in Records /\ ServerHelloRecord \in Records
    /\ <<Msg("CH")>> \in Seq(Messages) /\ <<Msg("SH")>> \in Seq(Messages)
<1>1. "CH" \in MessageTypes /\ "SH" \in MessageTypes
  BY DEF MessageTypes
<1>2. Msg("CH") \in Messages /\ Msg("SH") \in Messages
  BY <1>1, MsgType
<1>3. <<Msg("CH")>> \in Seq(Messages) /\ <<Msg("SH")>> \in Seq(Messages)
  BY <1>2
<1>4. "handshake" \in {"handshake", "ccs", "alert"} /\ 1 \in Nat \ {0}
  OBVIOUS
<1>5. Plain("handshake", <<Msg("CH")>>) \in Records /\ Plain("handshake", <<Msg("SH")>>) \in Records
  BY <1>3, <1>4, PlainOk
<1> QED BY <1>3, <1>5 DEF ClientHelloRecord, ServerHelloRecord

LEMMA KeyType ==
    ASSUME NEW side \in {"client", "server"}, NEW phase \in {"hs", "ap"}, NEW t \in Transcripts
    PROVE  /\ Key(side, phase, t) \in Keys /\ Key(side, phase, t) # <<>>
           /\ Key(side, phase, t)[1] = side /\ Key(side, phase, t)[2] = phase /\ Key(side, phase, t)[3] = t
  BY DEF Key, Keys

LEMMA FinishedType ==
    ASSUME NEW side \in {"client", "server"}, NEW t0 \in Transcripts, NEW t \in Transcripts
    PROVE  /\ FinishedMsg(side, t0, t) \in Messages
           /\ FinishedMsg(side, t0, t).mac # <<>> /\ FinishedMsg(side, t0, t).mac[2] = t
<1>1. Key(side, "hs", t0) \in Keys
  BY KeyType
<1>2. <<Key(side, "hs", t0), t>> \in Macs
  BY <1>1 DEF Macs
<1>3. "FIN" \in MessageTypes
  BY DEF MessageTypes
<1> QED BY <1>2, <1>3 DEF FinishedMsg, Messages

LEMMA SealedType ==
    ASSUME NEW key \in Keys, NEW seq \in Nat, NEW inner \in {"handshake", "app", "alert"},
           NEW msgs \in Seq(Messages), NEW n \in Nat \ {0}
    PROVE  /\ Sealed(key, seq, inner, msgs, n) \in Records
           /\ Sealed(key, seq, inner, msgs, n).type = "app" /\ Sealed(key, seq, inner, msgs, n).key = key
           /\ Sealed(key, seq, inner, msgs, n).seq = seq /\ Sealed(key, seq, inner, msgs, n).inner = inner
           /\ Sealed(key, seq, inner, msgs, n).msgs = msgs
<1>1. <<>> \in Seq(Nat)
  OBVIOUS
<1> QED BY <1>1 DEF Sealed, Records

\* Steps before the connection is open that leave the stream and the context's
\* conclusion as they were.
LEMMA StartStep ==
    ASSUME TlsInit
    PROVE  TlsInv
<1>1. /\ <<>> \in Seq(StreamParts) /\ <<>> \in Seq(Records) /\ <<>> \in Seq(Nat) /\ <<>> \in Transcripts
      /\ <<>> \in Seq([msgs : Seq([type : MessageTypes, mac : {<<>>}, whole : BOOLEAN]), parts : Nat \ {0}])
  BY DEF Transcripts
<1>2. role \in {"client", "server"}
  BY TlsAssumption DEF TlsInit
<1>3. TlsTypeOK
  BY <1>1, <1>2 DEF TlsInit, TlsTypeOK, Contexts, NoRead
<1>4. Stream = <<>> /\ Returned = <<>>
  <2>1. <<>> \o <<>> = <<>>
    OBVIOUS
  <2> QED BY <2>1 DEF TlsInit, Stream, Returned, NoRead
<1>5. StreamInv
  BY <1>4 DEF StreamInv, Framed, Linked, LastLinked
<1>6. JobInv /\ AgreedInv /\ ReadInv
  BY <1>4 DEF TlsInit, JobInv, AgreedInv, ReadInv
<1> QED BY <1>3, <1>5, <1>6 DEF TlsInv

LEMMA ConnectStep ==
    ASSUME TlsInv, Connect
    PROVE  TlsInv'
<1>1. TlsTypeOK /\ StreamInv /\ JobInv
  BY DEF TlsInv
<1>2. Stream' = Stream /\ peer' = peer /\ role' = role /\ Returned' = Returned
  BY DEF Connect, Stream, Returned
<1>3. /\ tls' \in Contexts /\ tls'.state = "CH_SENT"
  <2>1. <<"CH">> \in Transcripts
    BY DEF Transcripts, MessageTypes
  <2> QED BY <1>1, <2>1 DEF Connect, TlsTypeOK, Contexts
<1>4. sent' \in Seq(Records)
  BY <1>1, HelloRecords, AppendProperties DEF Connect, TlsTypeOK
<1>5. TlsTypeOK'
  BY <1>1, <1>3, <1>4 DEF Connect, TlsTypeOK
<1>6. StreamInv'
  BY <1>1, <1>2, StreamStays
<1>7. JobInv'
  BY <1>1, <1>2, <1>3 DEF Connect, JobInv
<1>8. AgreedInv' /\ ReadInv'
  BY <1>3 DEF AgreedInv, ReadInv
<1> QED BY <1>5, <1>6, <1>7, <1>8 DEF TlsInv

LEMMA ConnectRecvStep ==
    ASSUME TlsInv, ConnectRecv
    PROVE  TlsInv'
<1>1. TlsTypeOK /\ StreamInv /\ JobInv /\ AgreedInv /\ ReadInv
  BY DEF TlsInv
<1>2. Stream' = Stream /\ rx' \in Seq(StreamParts) /\ line' \in Seq(StreamParts)
  BY <1>1, StreamMoves DEF ConnectRecv
<1>3. UNCHANGED <<role, job, tls, sent, peer, reading, returned, cut>> /\ Returned' = Returned
  BY DEF ConnectRecv, Returned
<1>4. TlsTypeOK' /\ StreamInv'
  BY <1>1, <1>2, <1>3, StreamStays DEF TlsTypeOK
<1>5. JobInv' /\ AgreedInv'
  BY <1>1, <1>2, <1>3, SameStream DEF JobInv, AgreedInv
<1>6. ReadInv'
  <2>1. tls.state # "FINISHED_OK"
    BY DEF ConnectRecv, Settled
  <2> QED BY <1>3, <2>1 DEF ReadInv
<1> QED BY <1>4, <1>5, <1>6 DEF TlsInv

LEMMA ConnectFailsStep ==
    ASSUME TlsInv, ConnectFails
    PROVE  TlsInv'
<1>1. TlsTypeOK /\ StreamInv /\ JobInv /\ AgreedInv /\ ReadInv
  BY DEF TlsInv
<1>2. /\ Stream' = Stream /\ Returned' = Returned /\ tls.state # "FINISHED_OK"
      /\ job = "connect" /\ job' = "failed"
      /\ UNCHANGED <<role, tls, rx, line, sent, peer, reading, returned, cut>>
  BY DEF ConnectFails, Stream, Returned
<1>3. TlsTypeOK' /\ StreamInv'
  BY <1>1, <1>2, StreamStays DEF TlsTypeOK
<1>4. JobInv' /\ AgreedInv' /\ ReadInv'
  BY <1>1, <1>2 DEF JobInv, AgreedInv, ReadInv
<1> QED BY <1>3, <1>4 DEF TlsInv

\* process_one_record during tls_connect.
LEMMA ConnectRecordStep ==
    ASSUME TlsInv, ConnectRecord
    PROVE  TlsInv'
<1>1. TlsTypeOK /\ StreamInv /\ JobInv /\ AgreedInv /\ ReadInv
  BY DEF TlsInv
<1>2. /\ job = "connect" /\ role = "client" /\ tls.state # "FINISHED_OK" /\ WholeRecord /\ Consume
      /\ UNCHANGED <<role, job, line, sent, peer, reading, returned, cut>>
      /\ Returned' = Returned
  BY <1>1 DEF ConnectRecord, Settled, JobInv, Returned
<1>3. PICK rec : rec = Rec
  OBVIOUS
<1>4. /\ StreamInv' /\ rx' \in Seq(StreamParts) /\ rec \in Records /\ RecordOk(rec, role, Told, peer.transcript)
      /\ HasFin(rec) => Told /\ Expects(0, 0)'
      /\ Stream # <<>>
  BY <1>1, <1>2, <1>3, StreamTaken
<1>5. /\ tls' \in Contexts
      /\ tls'.state = "FINISHED_OK" =>
            tls'.mac_ok /\ Told /\ tls'.transcript = peer.transcript /\ Expects(0, 0)'
  <2>1. tls \in Contexts
    BY <1>1 DEF TlsTypeOK
  <2>2. CASE ServerHello
    <3>1. Append(tls.transcript, "SH") \in Transcripts
      <4>1. "SH" \in MessageTypes /\ tls.transcript \in Transcripts
        BY <2>1 DEF Contexts, MessageTypes
      <4> QED BY <4>1, AppendProperties DEF Transcripts
    <3> QED BY <2>1, <2>2, <3>1 DEF ServerHello, Contexts
  <2>3. CASE Protected
    <3>1. CASE tls' = [tls EXCEPT !.state = "ERROR"]
      BY <2>1, <3>1 DEF Contexts
    <3>2. CASE tls' = [tls EXCEPT !.seq = @ + 1]
      <4>1. tls.seq + 1 \in Nat /\ tls'.state = tls.state
        BY <2>1, <3>2 DEF Contexts
      <4> QED BY <1>2, <2>1, <3>2, <4>1 DEF Contexts
    <3>3. CASE rec.inner = "handshake" /\ tls' \in Payload(rec.msgs)
      <4>1. rec.msgs \in Seq(Messages)
        BY <1>4 DEF Records
      <4>2. PICK x : x = tls'
        OBVIOUS
      <4>3. /\ x \in Contexts
            /\ x.state = "FINISHED_OK" =>
                  /\ x.mac_ok
                  /\ \E e \in DOMAIN rec.msgs : /\ rec.msgs[e].mac # <<>>
                                                /\ x.transcript = Append(rec.msgs[e].mac[2], "FIN")
        BY <1>1, <1>2, <3>3, <4>1, <4>2, PayloadFin
      <4>4. ASSUME x.state = "FINISHED_OK"
            PROVE  x.mac_ok /\ x.transcript = peer.transcript /\ HasFin(rec)
        <5>1. PICK e \in DOMAIN rec.msgs : /\ rec.msgs[e].mac # <<>>
                                           /\ x.transcript = Append(rec.msgs[e].mac[2], "FIN")
          BY <4>3, <4>4
        <5>2. e = Len(rec.msgs) /\ Append(rec.msgs[e].mac[2], "FIN") = peer.transcript
          BY <1>2, <1>4, <3>3, <5>1 DEF RecordOk
        <5>3. rec.msgs # <<>>
          BY <4>1, <5>1
        <5> QED BY <3>3, <4>3, <4>4, <5>1, <5>2, <5>3 DEF HasFin
      <4> QED BY <1>4, <4>2, <4>3, <4>4
    <3> QED BY <1>3, <2>3, <3>1, <3>2, <3>3 DEF Protected
  <2>4. CASE PlainAlert
    BY <2>1, <2>4 DEF PlainAlert, Contexts
  <2>5. CASE Ignored
    BY <1>2, <2>1, <2>5 DEF Ignored
  <2> QED BY <2>2, <2>3, <2>4, <2>5 DEF ConnectRecord
<1>6. TlsTypeOK'
  BY <1>1, <1>2, <1>4, <1>5 DEF TlsTypeOK
<1>7. JobInv' /\ AgreedInv' /\ ReadInv'
  <2>1. peer.stage # "start"
    BY <1>1, <1>4 DEF JobInv
  <2>2. Told' = Told
    BY <1>2 DEF Told
  <2> QED BY <1>1, <1>2, <1>5, <2>1, <2>2 DEF JobInv, AgreedInv, ReadInv
<1> QED BY <1>4, <1>6, <1>7 DEF TlsInv

\* finalize_handshake: what comes next is the first data.
LEMMA FinalizeStep ==
    ASSUME TlsInv, Finalize
    PROVE  TlsInv'
<1>1. TlsTypeOK /\ StreamInv /\ JobInv /\ AgreedInv /\ ReadInv
  BY DEF TlsInv
<1>2. /\ job = "connect" /\ job' = "open" /\ tls.state = "FINISHED_OK" /\ role = "client"
      /\ UNCHANGED <<role, rx, line, peer, reading, returned, cut>>
      /\ Returned' = Returned /\ Stream' = Stream /\ Returned = <<>> /\ reading = NoRead
  BY <1>1 DEF Finalize, JobInv, Returned, Stream
<1>3. tls.transcript \in Transcripts /\ tls.hs \in Transcripts
  BY <1>1 DEF TlsTypeOK, Contexts
<1>4. /\ tls' \in Contexts /\ tls'.state = "FINISHED_OK" /\ tls'.ap = tls.transcript /\ tls'.seq = 0
      /\ tls'.transcript = tls.transcript /\ tls'.mac_ok = tls.mac_ok
  BY <1>1, <1>2, <1>3 DEF Finalize, TlsTypeOK, Contexts
<1>5. sent' \in Seq(Records)
  <2>1. FinishedMsg("client", tls.hs, tls.transcript) \in Messages /\ Key("client", "hs", tls.hs) \in Keys
    BY <1>3, FinishedType, KeyType
  <2>2. Sealed(Key("client", "hs", tls.hs), 0, "handshake",
               <<FinishedMsg("client", tls.hs, tls.transcript)>>, 1) \in Records
    <3>1. <<FinishedMsg("client", tls.hs, tls.transcript)>> \in Seq(Messages)
      BY <2>1
    <3>2. 0 \in Nat /\ 1 \in Nat \ {0} /\ "handshake" \in {"handshake", "app", "alert"}
      OBVIOUS
    <3> QED BY <2>1, <3>1, <3>2, SealedType
  <2> QED BY <1>1, <2>2, AppendProperties DEF Finalize, TlsTypeOK
<1>6. TlsTypeOK' /\ StreamInv'
  BY <1>1, <1>2, <1>4, <1>5, StreamStays DEF TlsTypeOK
<1>7. JobInv' /\ AgreedInv'
  BY <1>1, <1>2, <1>4, SameStream DEF JobInv, AgreedInv
<1>8. tls'.ap = peer'.transcript /\ Expects(tls.seq, NextAt)' /\ ReadTo(NextAt)'
  <2>1. Expects(0, 0)
    BY <1>1, <1>2 DEF ReadInv
  <2>2. NextAt = 0
    BY <2>1, ExpectedAt
  <2>3. Expects(0, 0)' /\ NextAt' = 0
    BY <1>2, <2>1, <2>2, SameStream
  <2>4. Expects(tls.seq, NextAt)'
    BY <1>4, <2>3 DEF Expects
  <2>5. ReadTo(NextAt)'
    BY <1>2, <2>3 DEF ReadTo, NoRead
  <2> QED BY <1>1, <1>2, <1>4, <2>4, <2>5 DEF AgreedInv
<1>9. ReadInv'
  BY <1>2, <1>8 DEF ReadInv
<1> QED BY <1>6, <1>7, <1>9 DEF TlsInv

LEMMA RecvCallStep ==
    ASSUME TlsInv, NEW max \in Asked, RecvCall(max)
    PROVE  TlsInv'
<1>1. TlsTypeOK /\ StreamInv /\ JobInv /\ AgreedInv /\ ReadInv
  BY DEF TlsInv
<1>2. /\ job = "open" /\ job' = "recv" /\ tls.state = "FINISHED_OK" /\ reading = NoRead
      /\ reading' = [max |-> max, out |-> <<>>] /\ reading'.out = <<>> /\ reading'.max = max /\ max \in Nat
      /\ UNCHANGED <<role, tls, rx, line, sent, peer, returned, cut>>
      /\ Stream' = Stream
  BY <1>1, TlsAssumption DEF RecvCall, JobInv, Stream
<1>3. Returned' = Returned
  BY <1>2 DEF Returned, NoRead
<1>4. TlsTypeOK' /\ StreamInv'
  <2>1. <<>> \in Seq(Nat)
    OBVIOUS
  <2> QED BY <1>1, <1>2, <2>1, StreamStays DEF TlsTypeOK
<1>5. JobInv' /\ AgreedInv'
  BY <1>1, <1>2, <1>3, SameStream DEF JobInv, AgreedInv
<1>6. ASSUME role = "client" PROVE Expects(tls.seq, NextAt)' /\ ReadTo(NextAt)'
  <2>1. Expects(tls.seq, NextAt) /\ ReadTo(NextAt)
    BY <1>1, <1>2, <1>6 DEF ReadInv
  <2>2. NextAt' = NextAt /\ Expects(tls.seq, NextAt)'
    BY <1>2, <2>1, SameStream DEF Expects, NextAt
  <2>3. Len(reading'.out) = 0 /\ reading'.max >= 0 /\ (~cut => Len(Returned) = NextAt)
    BY <1>2, <2>1 DEF ReadTo
  <2>4. ReadTo(NextAt)'
    BY <1>2, <1>3, <2>1, <2>2, <2>3 DEF ReadTo
  <2> QED BY <2>2, <2>4
<1>7. ReadInv'
  BY <1>1, <1>2, <1>6 DEF ReadInv
<1> QED BY <1>4, <1>5, <1>7 DEF TlsInv

LEMMA RecvTakeStep ==
    ASSUME TlsInv, RecvTake
    PROVE  TlsInv'
<1>1. TlsTypeOK /\ StreamInv /\ JobInv /\ AgreedInv /\ ReadInv
  BY DEF TlsInv
<1>2. Stream' = Stream /\ rx' \in Seq(StreamParts) /\ line' \in Seq(StreamParts)
  BY <1>1, StreamMoves DEF RecvTake
<1>3. UNCHANGED <<role, job, tls, sent, peer, reading, returned, cut>> /\ Returned' = Returned
  BY DEF RecvTake, Returned
<1>4. TlsTypeOK' /\ StreamInv'
  BY <1>1, <1>2, <1>3, StreamStays DEF TlsTypeOK
<1>5. JobInv' /\ AgreedInv'
  BY <1>1, <1>2, <1>3, SameStream DEF JobInv, AgreedInv
<1>6. NextAt' = NextAt /\ Expects(tls.seq, NextAt)' = Expects(tls.seq, NextAt) /\ Expects(0, 0)' = Expects(0, 0)
  BY <1>2, <1>3 DEF Expects, NextAt
<1>7. ReadTo(NextAt)' = ReadTo(NextAt)
  BY <1>3, <1>6 DEF ReadTo
<1>8. ReadInv'
  BY <1>1, <1>3, <1>6, <1>7 DEF ReadInv
<1> QED BY <1>4, <1>5, <1>8 DEF TlsInv

\* A return of tls_recv hands over what was read.
LEMMA Handed ==
    ASSUME TlsTypeOK, RecvEnds(reading.out)
    PROVE  /\ Returned' = Returned /\ job' = "open" /\ reading' = NoRead
           /\ returned' \in Seq(Nat) /\ cut' \in BOOLEAN /\ reading' \in [max : Nat, out : Seq(Nat)]
           /\ \A at \in Nat : ReadTo(at) /\ job = "recv" => ReadTo(at)'
<1>1. returned \in Seq(Nat) /\ reading.out \in Seq(Nat) /\ cut \in BOOLEAN /\ reading.max \in Nat
  BY DEF TlsTypeOK
<1>2. /\ job' = "open" /\ reading' = NoRead /\ returned' = returned \o reading.out
      /\ cut' = (cut \/ Len(reading.out) = reading.max)
  BY DEF RecvEnds
<1>3. returned' = Returned /\ returned' \in Seq(Nat)
  BY <1>1, <1>2, Join DEF Returned
<1>4. NoRead.out = <<>> /\ NoRead.max = 0 /\ <<>> \in Seq(Nat)
  BY DEF NoRead
<1>5. Returned' = Returned
  <2>1. returned' \o <<>> = returned'
    BY <1>3, ConcatEmptySeq
  <2> QED BY <1>2, <1>3, <1>4, <2>1 DEF Returned
<1>6. ASSUME NEW at \in Nat, ReadTo(at), job = "recv" PROVE ReadTo(at)'
  <2>1. ~cut' => ~cut /\ Len(reading.out) < reading.max
    <3>1. Len(reading.out) \in Nat /\ Len(reading.out) <= reading.max
      BY <1>1, <1>6 DEF ReadTo
    <3>2. ~cut' => ~cut /\ Len(reading.out) # reading.max
      BY <1>2
    <3> QED BY <1>1, <3>1, <3>2
  <2>2. ~cut' => (\A i \in DOMAIN Returned : Returned[i] = i) /\ Len(Returned) = at
    BY <1>6, <2>1 DEF ReadTo
  <2> QED BY <1>2, <1>4, <1>5, <1>6, <2>2 DEF ReadTo
<1> QED BY <1>1, <1>2, <1>3, <1>4, <1>5, <1>6 DEF NoRead

LEMMA RecvReturnStep ==
    ASSUME TlsInv, RecvReturn
    PROVE  TlsInv'
<1>1. TlsTypeOK /\ StreamInv /\ JobInv /\ AgreedInv /\ ReadInv
  BY DEF TlsInv
<1>2. /\ job = "recv" /\ tls.state = "FINISHED_OK" /\ RecvEnds(reading.out) /\ Stream' = Stream
      /\ UNCHANGED <<role, tls, rx, line, sent, peer>>
  BY <1>1 DEF RecvReturn, JobInv, Stream
<1>3. /\ Returned' = Returned /\ job' = "open" /\ reading' = NoRead
      /\ returned' \in Seq(Nat) /\ cut' \in BOOLEAN /\ reading' \in [max : Nat, out : Seq(Nat)]
      /\ \A at \in Nat : ReadTo(at) => ReadTo(at)'
  BY <1>1, <1>2, Handed
<1>4. TlsTypeOK' /\ StreamInv'
  BY <1>1, <1>2, <1>3, StreamStays DEF TlsTypeOK
<1>5. JobInv' /\ AgreedInv'
  BY <1>1, <1>2, <1>3, SameStream DEF JobInv, AgreedInv
<1>6. NextAt' = NextAt /\ Expects(tls.seq, NextAt)' = Expects(tls.seq, NextAt) /\ NextAt \in Nat
  <2>1. Stream # <<>> => Stream[1].rec.at \in Nat
    <3>1. Stream \in Seq(StreamParts)
      BY <1>1, StreamType
    <3>2. Stream # <<>> => 1 \in 1 .. Len(Stream)
      BY <3>1
    <3> QED BY <3>1, <3>2, PartFields
  <2>2. peer.wrote \in Nat
    BY <1>1 DEF TlsTypeOK
  <2> QED BY <1>2, <2>1, <2>2 DEF Expects, NextAt
<1>7. PICK a \in Nat : a = NextAt
  BY <1>6
<1>8. ReadTo(a) => ReadTo(NextAt)'
  <2>1. ReadTo(a) => ReadTo(a)'
    BY <1>3
  <2> QED BY <1>6, <1>7, <2>1 DEF ReadTo
<1>9. ReadInv'
  BY <1>1, <1>2, <1>3, <1>6, <1>7, <1>8 DEF ReadInv
<1> QED BY <1>4, <1>5, <1>9 DEF TlsInv

\* A run of numbers after at goes behind numbers up to at.
LEMMA RunBehind ==
    ASSUME NEW R \in Seq(Nat), NEW d \in Seq(Nat), NEW at \in Nat,
           \A i \in 1 .. Len(d) : d[i] = at + i,
           \A i \in DOMAIN R : R[i] <= at,
           \A i \in 1 .. Len(R) - 1 : R[i] < R[i + 1]
    PROVE  /\ \A i \in DOMAIN (R \o d) : (R \o d)[i] <= at + Len(d)
           /\ \A i \in 1 .. Len(R \o d) - 1 : (R \o d)[i] < (R \o d)[i + 1]
<1>1. PICK r \in Nat, n \in Nat : r = Len(R) /\ n = Len(d)
  OBVIOUS
<1>2. PICK T \in Seq(Nat) : T = R \o d
  BY Join
<1>3. /\ Len(T) = r + n
      /\ \A i \in 1 .. r : T[i] = R[i]
      /\ \A i \in 1 .. n : T[r + i] = at + i
  <2>1. /\ Len(R \o d) = Len(R) + Len(d)
        /\ \A i \in 1 .. Len(R) : (R \o d)[i] = R[i]
        /\ \A i \in 1 .. Len(d) : (R \o d)[Len(R) + i] = d[i]
    BY Join
  <2> QED BY <1>1, <1>2, <2>1
<1>4. /\ \A i \in 1 .. r : R[i] <= at /\ R[i] \in Nat
      /\ \A i \in 1 .. r - 1 : R[i] < R[i + 1]
  <2>1. \A i \in 1 .. r : i \in DOMAIN R /\ R[i] \in Nat
    BY <1>1
  <2> QED BY <1>1, <2>1
<1>5. ASSUME NEW i \in 1 .. r + n PROVE T[i] <= at + n
  <2>1. CASE i <= r
    <3>1. i \in 1 .. r
      BY <1>1, <2>1
    <3>2. T[i] <= at /\ T[i] \in Nat
      BY <1>3, <1>4, <3>1
    <3> QED BY ONLY <1>1, <3>2, at \in Nat
  <2>2. CASE i > r
    <3>1. i - r \in 1 .. n /\ i = r + (i - r)
      BY <1>1, <2>2
    <3>2. PICK j \in 1 .. n : i = r + j
      BY <3>1
    <3> QED BY <1>1, <1>3, <3>2
  <2> QED BY <1>1, <2>1, <2>2
<1>6. ASSUME NEW i \in 1 .. (r + n) - 1 PROVE T[i] < T[i + 1]
  <2>1. CASE i < r
    <3>1. i \in 1 .. r /\ i + 1 \in 1 .. r /\ i \in 1 .. r - 1
      BY <1>1, <2>1
    <3> QED BY <1>3, <1>4, <3>1
  <2>2. CASE i = r
    <3>1. i \in 1 .. r /\ 1 \in 1 .. n
      BY <1>1, <2>2
    <3>2. T[i] <= at /\ T[i] \in Nat /\ T[r + 1] = at + 1
      BY <1>3, <1>4, <3>1
    <3>3. T[i + 1] = at + 1
      BY <2>2, <3>2
    <3> QED BY ONLY <3>2, <3>3, at \in Nat
  <2>3. CASE i > r
    <3>1. i - r \in 1 .. n - 1 /\ i = r + (i - r)
      BY <1>1, <2>3
    <3>2. PICK j \in 1 .. n - 1 : i = r + j
      BY <3>1
    <3>3. j \in 1 .. n /\ j + 1 \in 1 .. n /\ i + 1 = r + (j + 1)
      BY <1>1, <3>2
    <3>4. T[i] = at + j /\ T[i + 1] = at + (j + 1)
      BY <1>3, <3>2, <3>3
    <3> QED BY ONLY <3>3, <3>4, at \in Nat, n \in Nat
  <2> QED BY <1>1, <2>1, <2>2, <2>3
<1>7. DOMAIN T = 1 .. r + n
  BY <1>2, <1>3
<1> QED BY <1>1, <1>2, <1>3, <1>5, <1>6, <1>7

\* It goes on where the others end.
LEMMA RunOn ==
    ASSUME NEW o \in Seq(Nat), NEW d \in Seq(Nat), NEW at \in Nat,
           \A i \in 1 .. Len(d) : d[i] = at + i,
           \A i \in 1 .. Len(o) - 1 : o[i + 1] = o[i] + 1,
           o # <<>> /\ d # <<>> => o[Len(o)] = at
    PROVE  /\ \A i \in 1 .. Len(o \o d) - 1 : (o \o d)[i + 1] = (o \o d)[i] + 1
           /\ d # <<>> => (o \o d)[Len(o \o d)] = at + Len(d)
           /\ d = <<>> => o \o d = o
<1>1. PICK r \in Nat, n \in Nat : r = Len(o) /\ n = Len(d)
  OBVIOUS
<1>2. PICK T \in Seq(Nat) : T = o \o d
  BY Join
<1>3. /\ Len(T) = r + n
      /\ \A i \in 1 .. r : T[i] = o[i]
      /\ \A i \in 1 .. n : T[r + i] = at + i
  <2>1. /\ Len(o \o d) = Len(o) + Len(d)
        /\ \A i \in 1 .. Len(o) : (o \o d)[i] = o[i]
        /\ \A i \in 1 .. Len(d) : (o \o d)[Len(o) + i] = d[i]
    BY Join
  <2> QED BY <1>1, <1>2, <2>1
<1>4. /\ \A i \in 1 .. r - 1 : o[i + 1] = o[i] + 1
      /\ r > 0 /\ n > 0 => o[r] = at
  <2>1. r > 0 /\ n > 0 => o # <<>> /\ d # <<>>
    BY <1>1
  <2> QED BY <1>1, <2>1
<1>5. ASSUME NEW i \in 1 .. (r + n) - 1 PROVE T[i + 1] = T[i] + 1
  <2>1. CASE i < r
    <3>1. i \in 1 .. r /\ i + 1 \in 1 .. r /\ i \in 1 .. r - 1
      BY <1>1, <2>1
    <3> QED BY <1>3, <1>4, <3>1
  <2>2. CASE i = r
    <3>1. i \in 1 .. r /\ 1 \in 1 .. n /\ r > 0 /\ n > 0
      BY <1>1, <2>2
    <3>2. T[i] = at /\ T[r + 1] = at + 1
      BY <1>3, <1>4, <2>2, <3>1
    <3> QED BY <2>2, <3>2
  <2>3. CASE i > r
    <3>1. i - r \in 1 .. n - 1 /\ i = r + (i - r)
      BY <1>1, <2>3
    <3>2. PICK j \in 1 .. n - 1 : i = r + j
      BY <3>1
    <3>3. j \in 1 .. n /\ j + 1 \in 1 .. n /\ i + 1 = r + (j + 1)
      BY <1>1, <3>2
    <3>4. T[i] = at + j /\ T[i + 1] = at + (j + 1)
      BY <1>3, <3>2, <3>3
    <3> QED BY ONLY <3>3, <3>4, at \in Nat, n \in Nat
  <2> QED BY <1>1, <2>1, <2>2, <2>3
<1>6. d # <<>> => T[Len(T)] = at + Len(d)
  <2>1. d # <<>> => n \in 1 .. n
    BY <1>1
  <2> QED BY <1>1, <1>3, <2>1
<1>7. d = <<>> => T = o
  BY <1>2, ConcatEmptySeq
<1> QED BY <1>1, <1>2, <1>3, <1>5, <1>6, <1>7

\* The numbers from 1 on, one after the other.
LEMMA RunWhole ==
    ASSUME NEW R \in Seq(Nat), NEW d \in Seq(Nat), NEW at \in Nat,
           \A i \in 1 .. Len(d) : d[i] = at + i,
           \A i \in DOMAIN R : R[i] = i,
           d # <<>> => Len(R) = at
    PROVE  \A i \in DOMAIN (R \o d) : (R \o d)[i] = i
<1>1. PICK r \in Nat, n \in Nat : r = Len(R) /\ n = Len(d)
  OBVIOUS
<1>2. PICK T \in Seq(Nat) : T = R \o d
  BY Join
<1>3. /\ Len(T) = r + n
      /\ \A i \in 1 .. r : T[i] = R[i]
      /\ \A i \in 1 .. n : T[r + i] = at + i
  <2>1. /\ Len(R \o d) = Len(R) + Len(d)
        /\ \A i \in 1 .. Len(R) : (R \o d)[i] = R[i]
        /\ \A i \in 1 .. Len(d) : (R \o d)[Len(R) + i] = d[i]
    BY Join
  <2> QED BY <1>1, <1>2, <2>1
<1>4. ASSUME NEW i \in 1 .. r + n PROVE T[i] = i
  <2>1. CASE i <= r
    <3>1. i \in 1 .. r /\ i \in DOMAIN R
      BY <1>1, <2>1
    <3> QED BY <1>3, <3>1
  <2>2. CASE i > r
    <3>1. i - r \in 1 .. n /\ i = r + (i - r)
      BY <1>1, <2>2
    <3>2. PICK j \in 1 .. n : i = r + j
      BY <3>1
    <3>3. d # <<>> /\ r = at
      <4>1. n # 0
        BY <1>1, <3>2
      <4>2. d # <<>>
        BY <1>1, <4>1
      <4> QED BY <1>1, <4>2
    <3> QED BY <1>3, <3>2, <3>3
  <2> QED BY <1>1, <2>1, <2>2
<1>5. DOMAIN T = 1 .. r + n
  BY <1>2, <1>3
<1> QED BY <1>2, <1>4, <1>5

LEMMA NatsConcat ==
    ASSUME NEW r \in Seq(Nat), NEW s \in Seq(Nat), NEW t \in Seq(Nat)
    PROVE  r \o (s \o t) = (r \o s) \o t
  BY AppendConcat

\* The bytes of a record of data go behind those read before, up to the caller's room.
LEMMA ReadMore ==
    ASSUME TlsTypeOK, job = "recv", NEW at \in Nat, ReadTo(at), NEW data \in Seq(Nat), NEW n,
           \A i \in DOMAIN data : data[i] = at + i,
           n = IF Len(data) < reading.max - Len(reading.out) THEN Len(data) ELSE reading.max - Len(reading.out),
           reading' = [reading EXCEPT !.out = Joined(@, Upto(data, n))],
           job' = "recv", UNCHANGED <<returned, cut>>
    PROVE  /\ reading' \in [max : Nat, out : Seq(Nat)]
           /\ \A b : b = at + Len(data) => ReadTo(b)'
<1>1. /\ returned \in Seq(Nat) /\ reading.out \in Seq(Nat) /\ reading.max \in Nat
      /\ reading \in [max : Nat, out : Seq(Nat)]
  BY DEF TlsTypeOK
<1>2. PICK p \in Seq(Nat) : p = reading.out
  BY <1>1
<1>3. PICK R \in Seq(Nat) : R = Returned
  <2>1. returned \o reading.out \in Seq(Nat)
    BY <1>1, Join
  <2> QED BY <2>1 DEF Returned
<1>4. PICK l \in Nat, m \in Nat, k \in Nat : l = Len(p) /\ m = reading.max /\ k = Len(data)
  <2>1. Len(p) \in Nat /\ Len(data) \in Nat
    OBVIOUS
  <2> QED BY ONLY <1>1, <2>1
<1>5. /\ \A i \in DOMAIN R : R[i] <= at
      /\ \A i \in 1 .. Len(R) - 1 : R[i] < R[i + 1]
      /\ \A i \in 1 .. Len(p) - 1 : p[i + 1] = p[i] + 1
      /\ l <= m
      /\ l < m /\ p # <<>> => p[Len(p)] = at
      /\ ~cut => (\A i \in DOMAIN R : R[i] = i) /\ (l < m => Len(R) = at)
  BY <1>2, <1>3, <1>4 DEF ReadTo
<1>6. n = IF k < m - l THEN k ELSE m - l
  BY <1>2, <1>4
<1>7. n \in 0 .. k /\ l + n <= m /\ (n > 0 => l < m) /\ (l + n < m => l < m /\ n = k)
  BY ONLY <1>5, <1>6, l \in Nat, m \in Nat, k \in Nat
<1>8. PICK d \in Seq(Nat) : d = Upto(data, n) /\ Len(d) = n /\ \A i \in 1 .. Len(d) : d[i] = at + i
  <2>1. n \in 0 .. Len(data)
    BY <1>4, <1>7
  <2>2. /\ Upto(data, n) \in Seq(Nat) /\ Len(Upto(data, n)) = n
        /\ \A i \in 1 .. n : Upto(data, n)[i] = data[i]
    BY ONLY <2>1, data \in Seq(Nat), Cut
  <2>3. \A i \in 1 .. n : i \in DOMAIN data
    BY <2>1
  <2> QED BY <2>2, <2>3
<1>9. d # <<>> => l < m
  BY <1>7, <1>8
<1>10. PICK o \in Seq(Nat) : o = p \o d /\ Len(o) = l + n
  <2>1. p \o d \in Seq(Nat) /\ Len(p \o d) = Len(p) + Len(d)
    BY Join
  <2> QED BY <1>4, <1>8, <2>1
<1>11. reading'.out = o /\ reading'.max = m /\ reading' \in [max : Nat, out : Seq(Nat)]
  BY <1>1, <1>2, <1>4, <1>8, <1>10 DEF Joined
<1>12. PICK T \in Seq(Nat) : T = R \o d /\ T = Returned' /\ Len(T) = Len(R) + n
  <2>1. returned \o (p \o d) = (returned \o p) \o d
    <3>1. returned \in Seq(Nat)
      BY <1>1
    <3> QED BY <3>1, NatsConcat
  <2>2. Returned' = R \o d
    BY <1>2, <1>3, <1>10, <1>11, <2>1 DEF Returned
  <2>3. R \o d \in Seq(Nat) /\ Len(R \o d) = Len(R) + Len(d)
    BY Join
  <2> QED BY <1>8, <2>2, <2>3
<1>13. \A i \in 1 .. Len(T) - 1 : T[i] < T[i + 1]
  BY <1>5, <1>8, <1>12, RunBehind
<1>14. /\ \A i \in 1 .. Len(o) - 1 : o[i + 1] = o[i] + 1
       /\ d # <<>> => o[Len(o)] = at + n
       /\ d = <<>> => o = p
  <2>1. p # <<>> /\ d # <<>> => p[Len(p)] = at
    BY <1>5, <1>9
  <2>2. /\ \A i \in 1 .. Len(p \o d) - 1 : (p \o d)[i + 1] = (p \o d)[i] + 1
        /\ d # <<>> => (p \o d)[Len(p \o d)] = at + Len(d)
        /\ d = <<>> => p \o d = p
    <3>1. /\ p \in Seq(Nat) /\ d \in Seq(Nat) /\ at \in Nat
          /\ \A i \in 1 .. Len(d) : d[i] = at + i
          /\ \A i \in 1 .. Len(p) - 1 : p[i + 1] = p[i] + 1
      BY <1>5, <1>8
    <3> QED BY ONLY <2>1, <3>1, RunOn
  <2> QED BY <1>8, <1>10, <2>2
<1>15. ~cut => \A i \in DOMAIN T : T[i] = i
  <2>1. ~cut /\ d # <<>> => Len(R) = at
    BY <1>5, <1>9
  <2>2. ASSUME ~cut PROVE \A i \in DOMAIN (R \o d) : (R \o d)[i] = i
    <3>1. (\A i \in DOMAIN R : R[i] = i) /\ (d # <<>> => Len(R) = at)
      BY <1>5, <2>1, <2>2
    <3>2. \A i \in 1 .. Len(d) : d[i] = at + i
      BY <1>8
    <3> QED BY ONLY <3>1, <3>2, R \in Seq(Nat), d \in Seq(Nat), at \in Nat, RunWhole
  <2> QED BY <1>12, <2>2
<1>16. ASSUME NEW b, b = at + k PROVE ReadTo(b)'
  <2>1. \A i \in DOMAIN T : T[i] <= b
    <3>1. \A i \in DOMAIN T : T[i] <= at + n
      BY <1>5, <1>8, <1>12, RunBehind
    <3>2. \A i \in DOMAIN T : T[i] \in Nat
      OBVIOUS
    <3>3. n \in Nat /\ k \in Nat /\ n <= k
      BY ONLY <1>4, <1>7
    <3>4. at + n <= b /\ at + n \in Nat /\ b \in Nat
      BY ONLY <1>16, <3>3, at \in Nat
    <3> QED BY ONLY <3>1, <3>2, <3>4
  <2>2. Len(o) < m /\ o # <<>> => o[Len(o)] = b
    <3>1. Len(o) < m => n = k /\ l < m
      BY <1>7, <1>10
    <3>2. d = <<>> => n = 0 /\ o = p
      BY <1>8, <1>14
    <3>3. CASE d = <<>>
      <4>1. Len(o) < m => b = at
        BY <1>16, <3>1, <3>2, <3>3
      <4> QED BY <1>5, <3>1, <3>2, <3>3, <4>1
    <3>4. CASE d # <<>>
      BY <1>14, <1>16, <3>1, <3>4
    <3> QED BY <3>3, <3>4
  <2>3. ~cut /\ Len(o) < m => Len(T) = b
    <3>1. ~cut /\ Len(o) < m => n = k /\ Len(R) = at
      BY <1>5, <1>7, <1>10
    <3> QED BY <1>12, <1>16, <3>1
  <2>4. Len(o) <= m
    BY <1>7, <1>10
  <2> QED BY <1>11, <1>12, <1>13, <1>14, <1>15, <2>1, <2>2, <2>3, <2>4 DEF ReadTo
<1> QED BY <1>4, <1>11, <1>16

\* A record under the application keys is the one that the kernel expects; a side
\* that has accepted the connection holds no key that opens any.
LEMMA RecvRecordStep ==
    ASSUME TlsInv, RecvRecord
    PROVE  TlsInv'
<1>1. TlsTypeOK /\ StreamInv /\ JobInv /\ AgreedInv /\ ReadInv
  BY DEF TlsInv
<1>2. /\ job = "recv" /\ tls.state = "FINISHED_OK" /\ WholeRecord /\ Consume
      /\ UNCHANGED <<role, line, sent, peer>>
  BY <1>1 DEF RecvRecord, JobInv
<1>3. PICK rec : rec = Rec
  OBVIOUS
<1>4. /\ StreamInv' /\ rx' \in Seq(StreamParts) /\ rec \in Records /\ RecordOk(rec, role, Told, peer.transcript)
      /\ role = "client" =>
            /\ Stream # <<>> /\ Stream[1].rec = rec
            /\ IsData(rec) => Told /\ Expects(rec.seq + 1, rec.at + Len(rec.data))'
  BY <1>1, <1>2, <1>3, StreamTaken
<1>5. rec.data \in Seq(Nat) /\ rec.at \in Nat /\ rec.seq \in Nat
  BY <1>4 DEF Records
<1>6. PICK opens \in BOOLEAN : opens = (rec.type = "app" /\ Opens(rec, Key("server", "ap", tls.ap), tls.seq))
  OBVIOUS
<1>7. tls' = IF opens THEN [tls EXCEPT !.seq = @ + 1] ELSE tls
  BY <1>3, <1>6 DEF RecvRecord
<1>8. /\ tls' \in Contexts
      /\ tls'.state = "FINISHED_OK" /\ tls'.mac_ok = tls.mac_ok /\ tls'.transcript = tls.transcript /\ tls'.ap = tls.ap
      /\ tls'.seq = IF opens THEN tls.seq + 1 ELSE tls.seq
  <2>1. tls \in Contexts
    BY <1>1 DEF TlsTypeOK
  <2>2. tls.seq + 1 \in Nat
    BY <2>1 DEF Contexts
  <2> QED BY <1>2, <1>7, <2>1, <2>2 DEF Contexts
<1>9. Told' = Told
  BY <1>2 DEF Told
<1>10. AgreedInv'
  BY <1>1, <1>2, <1>8, <1>9 DEF AgreedInv
<1>11. peer.stage # "start"
  <2>1. rx # <<>>
    BY <1>2 DEF WholeRecord
  <2>2. Len(rx) \in Nat /\ Len(line) \in Nat /\ Len(rx) # 0
    BY <1>1, <2>1 DEF TlsTypeOK
  <2>3. Len(Stream) = Len(rx) + Len(line)
    BY <1>1, StreamType
  <2>4. Stream # <<>>
    BY <2>2, <2>3
  <2> QED BY <1>1, <2>4 DEF JobInv
<1>12. ASSUME role = "client"
       PROVE  /\ opens /\ tls.ap = peer.transcript /\ ReadTo(rec.at)
              /\ \A i \in DOMAIN rec.data : rec.data[i] = rec.at + i
              /\ rec.inner # "app" => rec.data = <<>>
              /\ rec.seq = tls.seq /\ Expects(rec.seq + 1, rec.at + Len(rec.data))'
  <2>1. tls.ap = peer.transcript /\ Expects(tls.seq, NextAt) /\ ReadTo(NextAt)
    BY <1>1, <1>2, <1>12 DEF ReadInv
  <2>2. IsData(rec) /\ rec.seq = tls.seq /\ rec.at = NextAt
    BY <1>4, <1>12, <2>1 DEF Expects
  <2>3. opens
    BY <1>4, <1>6, <2>1, <2>2 DEF RecordOk, Opens
  <2>4. /\ \A i \in DOMAIN rec.data : rec.data[i] = rec.at + i
        /\ rec.inner # "app" => rec.data = <<>>
    BY <1>4, <2>2 DEF RecordOk
  <2> QED BY <1>4, <1>12, <2>1, <2>2, <2>3, <2>4
<1>13. ASSUME role = "server" PROVE ~opens
  <2>1. ~IsData(rec)
    BY <1>4, <1>13 DEF RecordOk
  <2>2. Key("server", "ap", tls.ap) # <<>> /\ Key("server", "ap", tls.ap)[2] = "ap"
    BY DEF Key
  <2> QED BY <1>6, <2>1, <2>2 DEF Opens, IsData
<1>14. role = "client" => Expects(tls.seq, NextAt)' /\ NextAt' = rec.at + Len(rec.data)
  <2>1. ASSUME role = "client" PROVE Expects(tls.seq, NextAt)' /\ NextAt' = rec.at + Len(rec.data)
    <3>1. tls'.seq = rec.seq + 1
      BY <1>8, <1>12, <2>1
    <3>2. PICK q, b : q = rec.seq + 1 /\ b = rec.at + Len(rec.data)
      OBVIOUS
    <3>3. Expects(q, b)'
      BY <1>12, <2>1, <3>2
    <3>4. NextAt' = b
      BY <3>3 DEF Expects, NextAt
    <3> QED BY <3>1, <3>2, <3>3, <3>4 DEF Expects
  <2> QED BY <2>1
<1>15. /\ reading' \in [max : Nat, out : Seq(Nat)] /\ returned' \in Seq(Nat) /\ cut' \in BOOLEAN
       /\ job' \in {"open", "recv"} /\ (job' # "recv" => reading' = NoRead)
       /\ role = "server" => Returned' = <<>>
       /\ role = "client" => ReadTo(NextAt)'
  <2>1. PICK a \in Nat, data \in Seq(Nat) : a = rec.at /\ data = rec.data
    BY <1>5
  <2>2. /\ role \in {"client", "server"} /\ reading \in [max : Nat, out : Seq(Nat)]
        /\ returned \in Seq(Nat) /\ cut \in BOOLEAN
    BY <1>1 DEF TlsTypeOK
  <2>3. ASSUME opens, rec.inner = "app",
               reading' = [reading EXCEPT !.out = Joined(@, Upto(rec.data,
                   IF Len(rec.data) < reading.max - Len(reading.out) THEN Len(rec.data)
                   ELSE reading.max - Len(reading.out)))],
               UNCHANGED <<job, returned, cut>>
        PROVE  role = "client" /\ reading' \in [max : Nat, out : Seq(Nat)] /\ ReadTo(NextAt)'
    <3>1. role = "client"
      BY <1>13, <2>2, <2>3
    <3>2. /\ reading' \in [max : Nat, out : Seq(Nat)]
          /\ \A b : b = a + Len(data) => ReadTo(b)'
      <4>1. ReadTo(a) /\ \A i \in DOMAIN data : data[i] = a + i
        BY <1>12, <2>1, <3>1
      <4>2. PICK n : n = IF Len(data) < reading.max - Len(reading.out) THEN Len(data)
                         ELSE reading.max - Len(reading.out)
        OBVIOUS
      <4>3. reading' = [reading EXCEPT !.out = Joined(@, Upto(data, n))]
        BY <2>1, <2>3, <4>2
      <4>4. job' = "recv" /\ UNCHANGED <<returned, cut>>
        BY <1>2, <2>3
      <4> QED BY <1>1, <1>2, <4>1, <4>2, <4>3, <4>4, ReadMore
    <3>3. PICK b : b = a + Len(data)
      OBVIOUS
    <3>4. NextAt' = b /\ ReadTo(b)'
      BY <1>14, <2>1, <3>1, <3>2, <3>3
    <3>5. ReadTo(NextAt)'
      BY <3>4 DEF ReadTo
    <3> QED BY <3>1, <3>2, <3>5
  <2>4. ASSUME rec.inner # "app", role = "client" PROVE NextAt' = a /\ ReadTo(a)
    <3>1. data = <<>> /\ Len(data) = 0
      BY <1>12, <2>1, <2>4
    <3>2. NextAt' = a + 0
      BY <1>14, <2>1, <2>4, <3>1
    <3> QED BY <1>12, <2>1, <2>4, <3>2
  <2>5. ASSUME opens, rec.inner = "alert", RecvEnds(reading.out)
        PROVE  /\ reading' \in [max : Nat, out : Seq(Nat)] /\ returned' \in Seq(Nat) /\ cut' \in BOOLEAN
               /\ job' = "open" /\ reading' = NoRead /\ role = "client" /\ ReadTo(NextAt)'
    <3>1. role = "client"
      BY <1>13, <2>2, <2>5
    <3>2. /\ job' = "open" /\ reading' = NoRead
          /\ returned' \in Seq(Nat) /\ cut' \in BOOLEAN /\ reading' \in [max : Nat, out : Seq(Nat)]
          /\ ReadTo(a) => ReadTo(a)'
      BY <1>1, <1>2, <2>5, Handed
    <3>3. NextAt' = a /\ ReadTo(a)'
      BY <2>4, <2>5, <3>1, <3>2
    <3>4. ReadTo(NextAt)'
      BY <3>3 DEF ReadTo
    <3> QED BY <3>1, <3>2, <3>4
  <2>6. ASSUME ~opens \/ rec.inner = "handshake", UNCHANGED <<job, reading, returned, cut>>
        PROVE  Returned' = Returned /\ (role = "client" => ReadTo(NextAt)')
    <3>1. Returned' = Returned
      BY <2>6 DEF Returned
    <3>2. ASSUME role = "client" PROVE ReadTo(NextAt)'
      <4>1. NextAt' = a /\ ReadTo(a)
        BY <1>12, <2>4, <2>6, <3>2
      <4> QED BY <2>6, <3>1, <4>1 DEF ReadTo
    <3> QED BY <3>1, <3>2
  <2>7. role = "server" => Returned = <<>>
    BY <1>1 DEF JobInv
  <2>8. \/ /\ opens /\ rec.inner = "app"
           /\ reading' = [reading EXCEPT !.out = Joined(@, Upto(rec.data,
                   IF Len(rec.data) < reading.max - Len(reading.out) THEN Len(rec.data)
                   ELSE reading.max - Len(reading.out)))]
           /\ UNCHANGED <<job, returned, cut>>
        \/ opens /\ rec.inner = "alert" /\ RecvEnds(reading.out)
        \/ (~opens \/ rec.inner = "handshake") /\ UNCHANGED <<job, reading, returned, cut>>
    BY <1>3, <1>6 DEF RecvRecord
  <2>9. CASE opens /\ rec.inner = "app"
    <3>1. reading' = [reading EXCEPT !.out = Joined(@, Upto(rec.data,
                   IF Len(rec.data) < reading.max - Len(reading.out) THEN Len(rec.data)
                   ELSE reading.max - Len(reading.out)))] /\ UNCHANGED <<job, returned, cut>>
      BY <2>8, <2>9
    <3> QED BY <1>2, <2>2, <2>3, <2>9, <3>1
  <2>10. CASE opens /\ rec.inner = "alert"
    <3>1. RecvEnds(reading.out)
      BY <2>8, <2>10
    <3> QED BY <2>5, <2>10, <3>1
  <2>11. CASE ~opens \/ rec.inner = "handshake"
    <3>1. UNCHANGED <<job, reading, returned, cut>>
      BY <2>8, <2>11
    <3> QED BY <1>2, <2>2, <2>6, <2>7, <2>11, <3>1
  <2> QED BY <2>8, <2>9, <2>10, <2>11
<1>16. TlsTypeOK'
  BY <1>1, <1>2, <1>4, <1>8, <1>15 DEF TlsTypeOK
<1>17. JobInv'
  BY <1>1, <1>2, <1>8, <1>11, <1>15 DEF JobInv
<1>18. ReadInv'
  BY <1>2, <1>8, <1>12, <1>14, <1>15 DEF ReadInv
<1> QED BY <1>4, <1>10, <1>16, <1>17, <1>18 DEF TlsInv

LEMMA AcceptStep ==
    ASSUME TlsInv, Accept
    PROVE  TlsInv'
<1>1. TlsTypeOK /\ StreamInv /\ JobInv /\ AgreedInv /\ ReadInv
  BY DEF TlsInv
<1>2. /\ Stream' = Stream /\ Returned' = Returned /\ role = "server" /\ job = "none" /\ job' = "accept"
      /\ UNCHANGED <<role, tls, rx, line, sent, peer, reading, returned, cut>>
  BY DEF Accept, Stream, Returned
<1>3. TlsTypeOK' /\ StreamInv'
  BY <1>1, <1>2, StreamStays DEF TlsTypeOK
<1>4. JobInv' /\ AgreedInv' /\ ReadInv'
  BY <1>1, <1>2 DEF JobInv, AgreedInv, ReadInv
<1> QED BY <1>3, <1>4 DEF TlsInv

LEMMA AcceptRecvStep ==
    ASSUME TlsInv, AcceptRecv
    PROVE  TlsInv'
<1>1. TlsTypeOK /\ StreamInv /\ JobInv /\ AgreedInv /\ ReadInv
  BY DEF TlsInv
<1>2. Stream' = Stream /\ rx' \in Seq(StreamParts) /\ line' \in Seq(StreamParts)
  BY <1>1, StreamMoves DEF AcceptRecv
<1>3. /\ UNCHANGED <<role, job, tls, sent, peer, reading, returned, cut>> /\ Returned' = Returned
      /\ role = "server"
  BY <1>1 DEF AcceptRecv, Returned, JobInv
<1>4. TlsTypeOK' /\ StreamInv'
  BY <1>1, <1>2, <1>3, StreamStays DEF TlsTypeOK
<1>5. JobInv' /\ AgreedInv' /\ ReadInv'
  BY <1>1, <1>2, <1>3 DEF JobInv, AgreedInv, ReadInv
<1> QED BY <1>4, <1>5 DEF TlsInv

\* tls_accept throws away what is in the buffer behind the ClientHello.
LEMMA AcceptHelloStep ==
    ASSUME TlsInv, AcceptHello
    PROVE  TlsInv'
<1>1. TlsTypeOK /\ StreamInv /\ JobInv /\ AgreedInv /\ ReadInv
  BY DEF TlsInv
<1>2. /\ job = "accept" /\ role = "server" /\ WholeRecord /\ rx' = <<>>
      /\ UNCHANGED <<role, job, line, peer, reading, returned, cut>>
      /\ Returned' = Returned
  BY <1>1 DEF AcceptHello, JobInv, Returned
<1>3. rx \in Seq(StreamParts) /\ line \in Seq(StreamParts) /\ rx # <<>> /\ tls \in Contexts
  BY <1>1, <1>2 DEF TlsTypeOK, WholeRecord
<1>4. Stream' = line
  <2>1. <<>> \o line = line
    BY <1>3, ConcatEmptySeq
  <2> QED BY <1>2, <2>1 DEF Stream
<1>5. Stream # <<>>
  <2>1. Len(rx) \in Nat /\ Len(line) \in Nat /\ Len(rx) # 0
    BY <1>3
  <2>2. Len(Stream) = Len(rx) + Len(line)
    BY <1>1, StreamType
  <2> QED BY <2>1, <2>2
<1>6. StreamInv'
  <2>1. ASSUME NEW i \in DOMAIN line PROVE RecordOk(line[i].rec, role, Told, peer.transcript)
    <3>1. PICK l \in Nat, n \in Nat : l = Len(rx) /\ n = Len(line)
      <4>1. Len(rx) \in Nat /\ Len(line) \in Nat
        BY <1>3
      <4> QED BY <4>1
    <3>2. i \in 1 .. n
      BY <1>3, <2>1, <3>1
    <3>3. l + i \in 1 .. l + n
      BY <3>2
    <3>4. Stream \in Seq(StreamParts) /\ Len(Stream) = l + n /\ Stream[l + i] = line[i]
      BY <1>1, <3>1, <3>2, StreamType
    <3>5. l + i \in DOMAIN Stream
      BY <3>3, <3>4
    <3> QED BY <1>1, <3>4, <3>5 DEF StreamInv
  <2>2. Told' = Told
    BY <1>2 DEF Told
  <2> QED BY <1>2, <1>4, <2>1, <2>2 DEF StreamInv
<1>7. PICK hs, t : hs = <<"CH body", "SH">> /\ t = hs \o <<"EE", "CERT">>
  OBVIOUS
<1>8. /\ sent' = <<ServerHelloRecord,
                   Sealed(Key("server", "hs", hs), 0, "handshake",
                          <<Msg("EE"), CertificateMsg, FinishedMsg("server", hs, t)>>, 1)>>
      /\ tls' = [tls EXCEPT !.hs = hs, !.transcript = Append(t, "FIN")]
  BY <1>7 DEF AcceptHello
<1>9. hs \in Transcripts /\ t \in Transcripts /\ Append(t, "FIN") \in Transcripts
  <2>1. /\ "CH body" \in MessageTypes /\ "SH" \in MessageTypes /\ "EE" \in MessageTypes
        /\ "CERT" \in MessageTypes /\ "FIN" \in MessageTypes
    BY DEF MessageTypes
  <2>2. hs \in Seq(MessageTypes) /\ <<"EE", "CERT">> \in Seq(MessageTypes)
    <3>1. \A a \in MessageTypes, b \in MessageTypes : <<a, b>> \in Seq(MessageTypes)
      OBVIOUS
    <3> QED BY <1>7, <2>1, <3>1
  <2>3. hs \o <<"EE", "CERT">> \in Seq(MessageTypes)
    BY <2>2, Join
  <2>4. t \in Seq(MessageTypes)
    BY <1>7, <2>3
  <2>5. Append(t, "FIN") \in Seq(MessageTypes)
    BY <2>1, <2>4, AppendProperties
  <2> QED BY <2>2, <2>4, <2>5 DEF Transcripts
<1>10. tls' \in Contexts /\ tls'.state = tls.state /\ tls'.mac_ok = tls.mac_ok
  BY <1>3, <1>8, <1>9 DEF Contexts
<1>11. sent' \in Seq(Records)
  <2>1. Key("server", "hs", hs) \in Keys /\ FinishedMsg("server", hs, t) \in Messages
    BY <1>9, KeyType, FinishedType
  <2>2. Msg("EE") \in Messages /\ CertificateMsg \in Messages
    BY MsgType DEF CertificateMsg, MessageTypes
  <2>3. PICK m \in Seq(Messages) : m = <<Msg("EE"), CertificateMsg, FinishedMsg("server", hs, t)>>
    <3>1. \A a \in Messages, b \in Messages, c \in Messages : <<a, b, c>> \in Seq(Messages)
      OBVIOUS
    <3> QED BY <2>1, <2>2, <3>1
  <2>4. 0 \in Nat /\ 1 \in Nat \ {0} /\ "handshake" \in {"handshake", "app", "alert"}
    OBVIOUS
  <2>5. Sealed(Key("server", "hs", hs), 0, "handshake", m, 1) \in Records
    BY <2>1, <2>4, SealedType
  <2> QED BY <1>8, <2>3, <2>5, HelloRecords
<1>12. TlsTypeOK'
  <2>1. <<>> \in Seq(StreamParts)
    OBVIOUS
  <2> QED BY <1>1, <1>2, <1>10, <1>11, <2>1 DEF TlsTypeOK
<1>13. JobInv' /\ AgreedInv' /\ ReadInv'
  BY <1>1, <1>2, <1>5, <1>10 DEF JobInv, AgreedInv, ReadInv
<1> QED BY <1>6, <1>12, <1>13 DEF TlsInv

LEMMA AcceptFinishedStep ==
    ASSUME TlsInv, AcceptFinished
    PROVE  TlsInv'
<1>1. TlsTypeOK /\ StreamInv /\ JobInv /\ AgreedInv /\ ReadInv
  BY DEF TlsInv
<1>2. /\ Stream' = Stream /\ Returned' = Returned /\ role = "server" /\ job = "accept" /\ reading = NoRead
      /\ UNCHANGED <<role, rx, line, sent, peer, reading, returned, cut>>
  BY <1>1 DEF AcceptFinished, Stream, Returned, JobInv
<1>3. PICK ok \in BOOLEAN : /\ job' = IF ok THEN "open" ELSE "failed"
                            /\ tls' = [tls EXCEPT !.mac_ok = ok, !.state = IF ok THEN "FINISHED_OK" ELSE "ERROR"]
  <2>1. PICK ok \in BOOLEAN : ok = (/\ Rec.type = "app"
                                    /\ Opens(Rec, Key("client", "hs", tls.hs), 0)
                                    /\ Rec.inner = "handshake"
                                    /\ Rec.msgs[1] = FinishedMsg("client", tls.hs, tls.transcript))
    OBVIOUS
  <2> QED BY <2>1 DEF AcceptFinished
<1>4. /\ tls' \in Contexts /\ tls'.mac_ok = ok
      /\ tls'.state = IF ok THEN "FINISHED_OK" ELSE "ERROR"
  BY <1>1, <1>3 DEF TlsTypeOK, Contexts
<1>5. TlsTypeOK' /\ StreamInv'
  BY <1>1, <1>2, <1>3, <1>4, StreamStays DEF TlsTypeOK
<1>6. JobInv' /\ AgreedInv' /\ ReadInv'
  BY <1>1, <1>2, <1>3, <1>4 DEF JobInv, AgreedInv, ReadInv
<1> QED BY <1>5, <1>6 DEF TlsInv

LEMMA AcceptFailsStep ==
    ASSUME TlsInv, AcceptFails
    PROVE  TlsInv'
<1>1. TlsTypeOK /\ StreamInv /\ JobInv /\ AgreedInv /\ ReadInv
  BY DEF TlsInv
<1>2. /\ Stream' = Stream /\ Returned' = Returned /\ role = "server" /\ reading = NoRead
      /\ job = "accept" /\ job' = "failed"
      /\ UNCHANGED <<role, rx, line, sent, peer, reading, returned, cut>>
  BY <1>1 DEF AcceptFails, Stream, Returned, JobInv
<1>3. tls' \in Contexts /\ tls'.state = "ERROR"
  BY <1>1 DEF AcceptFails, TlsTypeOK, Contexts
<1>4. TlsTypeOK' /\ StreamInv'
  BY <1>1, <1>2, <1>3, StreamStays DEF TlsTypeOK
<1>5. JobInv' /\ AgreedInv' /\ ReadInv'
  BY <1>1, <1>2, <1>3 DEF JobInv, AgreedInv, ReadInv
<1> QED BY <1>4, <1>5 DEF TlsInv

----------------------------------------------------------------------------
(* What the other side sends.                                              *)

\* What may be on its way to a server, or to a client before the flight is out, may
\* be there later.
LEMMA OkLater ==
    ASSUME NEW rec, NEW k, NEW told, NEW t, NEW later, NEW t2, k = "client" => ~told,
           RecordOk(rec, k, told, t)
    PROVE  RecordOk(rec, k, later, t2)
<1>1. ~IsData(rec)
  BY DEF RecordOk
<1>2. rec.inner = "handshake" =>
         \A i \in DOMAIN rec.msgs : rec.msgs[i].mac # <<>> => i = Len(rec.msgs) /\ k # "client"
  BY DEF RecordOk
<1>3. rec.inner # "app"
  BY <1>1 DEF RecordOk
<1> QED BY <1>1, <1>2, <1>3 DEF RecordOk

\* A record of no consequence goes behind such records.
LEMMA PlainMore ==
    ASSUME NEW s \in Seq(StreamParts), Framed(s), Linked(s), NEW k, NEW told, NEW t,
           \A i \in DOMAIN s : RecordOk(s[i].rec, k, told, t),
           s # <<>> => ~HasFin(s[Len(s)].rec) /\ ~IsData(s[Len(s)].rec),
           NEW rec \in Records, ~HasFin(rec), ~IsData(rec), RecordOk(rec, k, told, t),
           NEW u, u = s \o Parts(rec)
    PROVE  /\ u \in Seq(StreamParts) /\ u # <<>> /\ Framed(u) /\ Linked(u)
           /\ \A i \in DOMAIN u : RecordOk(u[i].rec, k, told, t)
           /\ ~HasFin(u[Len(u)].rec) /\ ~IsData(u[Len(u)].rec)
<1>1. /\ u \in Seq(StreamParts) /\ u # <<>> /\ u[Len(u)].rec = rec
      /\ \A i \in DOMAIN u : u[i].rec = rec \/ \E j \in DOMAIN s : u[i] = s[j]
  BY LastOfMore
<1>2. Framed(u)
  BY FramedMore
<1>3. Linked(u)
  BY LinkedMore
<1> QED BY <1>1, <1>2, <1>3

\* ServerHello, perhaps with a ChangeCipherSpec, is the first that a client is sent.
LEMMA ServerHelloSentStep ==
    ASSUME TlsInv, NEW f \in Flights, ServerHelloSent(f)
    PROVE  TlsInv'
<1>1. TlsTypeOK /\ StreamInv /\ JobInv /\ AgreedInv /\ ReadInv
  BY DEF TlsInv
<1>2. /\ role = "client" /\ peer.stage = "start" /\ ~Told /\ tls.state # "FINISHED_OK"
      /\ Stream = <<>> /\ peer.wrote = 0 /\ peer.seq = 0
      /\ UNCHANGED <<role, job, tls, rx, sent, reading, returned, cut>>
      /\ Returned' = Returned
  BY <1>1 DEF ServerHelloSent, Told, AgreedInv, JobInv, Returned
<1>3. /\ peer' = [peer EXCEPT !.stage = "flying", !.hs = <<"CH", "SH">>, !.transcript = <<"CH", "SH">>, !.flight = f]
      /\ peer'.stage = "flying" /\ peer'.flight = f /\ peer'.wrote = 0 /\ peer'.seq = 0
  BY <1>1, <1>2 DEF ServerHelloSent, TlsTypeOK
<1>4. f # <<>> /\ f \in Seq([msgs : Seq([type : MessageTypes, mac : {<<>>}, whole : BOOLEAN]), parts : Nat \ {0}])
  BY TlsAssumption
<1>5. PICK compat \in BOOLEAN :
         line' = line \o (Parts(ServerHelloRecord) \o (IF compat THEN Parts(Plain("ccs", <<>>)) ELSE <<>>))
  BY DEF ServerHelloSent, Deliver
<1>6. PICK a \in Records, b \in Records :
         /\ a = ServerHelloRecord /\ b = Plain("ccs", <<>>)
         /\ ~HasFin(a) /\ ~IsData(a) /\ ~HasFin(b) /\ ~IsData(b)
         /\ \A k, told, t : RecordOk(a, k, told, t) /\ RecordOk(b, k, told, t)
  <2>1. <<>> \in Seq(Messages) /\ <<Msg("SH")>> \in Seq(Messages) /\ 1 \in Nat \ {0}
    BY HelloRecords
  <2>2. \A type \in {"handshake", "ccs", "alert"} : \A msgs \in Seq(Messages) :
           /\ Plain(type, msgs) \in Records
           /\ ~HasFin(Plain(type, msgs)) /\ ~IsData(Plain(type, msgs))
           /\ \A k, told, t : RecordOk(Plain(type, msgs), k, told, t)
    BY <2>1, PlainOk
  <2> QED BY <2>1, <2>2 DEF ServerHelloRecord
<1>7. PICK p \in Seq(StreamParts), q \in Seq(StreamParts) : p = Parts(a) /\ q = Parts(b)
  BY PartsType
<1>8. rx \in Seq(StreamParts) /\ line \in Seq(StreamParts)
  BY <1>1 DEF TlsTypeOK
<1>9. PICK u \in Seq(StreamParts) : u = Stream \o Parts(a) /\ u = rx \o (line \o p)
  <2>1. Stream \o Parts(a) \in Seq(StreamParts)
    BY <1>1, LastOfMore, StreamType
  <2>2. rx \o (line \o p) = (rx \o line) \o p
    BY <1>8, AppendConcat
  <2> QED BY <1>7, <2>1, <2>2 DEF Stream
<1>10. /\ u # <<>> /\ Framed(u) /\ Linked(u)
       /\ \A i \in DOMAIN u : RecordOk(u[i].rec, "client", FALSE, peer'.transcript)
       /\ ~HasFin(u[Len(u)].rec) /\ ~IsData(u[Len(u)].rec)
  <2>0. PICK t : t = peer'.transcript
    OBVIOUS
  <2>1. PICK s \in Seq(StreamParts) : s = Stream /\ s = <<>>
    BY <1>1, <1>2, StreamType
  <2>2. Framed(s) /\ Linked(s) /\ \A i \in DOMAIN s : RecordOk(s[i].rec, "client", FALSE, t)
    BY <2>1 DEF Framed, Linked
  <2>3. /\ u = s \o Parts(a) /\ ~HasFin(a) /\ ~IsData(a) /\ RecordOk(a, "client", FALSE, t)
        /\ (s # <<>> => ~HasFin(s[Len(s)].rec) /\ ~IsData(s[Len(s)].rec))
    BY <1>6, <1>9, <2>1
  <2>4. /\ u # <<>> /\ Framed(u) /\ Linked(u)
        /\ \A i \in DOMAIN u : RecordOk(u[i].rec, "client", FALSE, t)
        /\ ~HasFin(u[Len(u)].rec) /\ ~IsData(u[Len(u)].rec)
    BY <2>2, <2>3, PlainMore
  <2> QED BY <2>0, <2>4
<1>11. PICK v \in Seq(StreamParts) : v = u \o Parts(b) /\ v = rx \o (line \o (p \o q))
  <2>1. u \o Parts(b) \in Seq(StreamParts)
    BY LastOfMore
  <2>2. (rx \o (line \o p)) \o q = rx \o ((line \o p) \o q) /\ line \o p \in Seq(StreamParts)
    <3>1. PICK x \in Seq(StreamParts) : x = line \o p
      BY <1>8, Join
    <3>2. rx \in Seq(StreamParts) /\ x \in Seq(StreamParts) /\ q \in Seq(StreamParts)
      BY <1>7, <1>8, <3>1
    <3>3. Cat(Cat(rx, x), q) = Cat(rx, Cat(x, q))
      BY ONLY <3>2, Grouped
    <3>4. (rx \o x) \o q = rx \o (x \o q)
      BY ONLY <3>3 DEF Cat
    <3> QED BY ONLY <3>1, <3>4
  <2>3. (line \o p) \o q = line \o (p \o q)
    <3>1. Cat(Cat(line, p), q) = Cat(line, Cat(p, q))
      BY ONLY <1>8, p \in Seq(StreamParts), q \in Seq(StreamParts), Grouped
    <3> QED BY ONLY <3>1 DEF Cat
  <2> QED BY <1>7, <1>9, <2>1, <2>2, <2>3
<1>12. /\ v # <<>> /\ Framed(v) /\ Linked(v)
       /\ \A i \in DOMAIN v : RecordOk(v[i].rec, "client", FALSE, peer'.transcript)
       /\ ~HasFin(v[Len(v)].rec) /\ ~IsData(v[Len(v)].rec)
  <2>1. PICK t : t = peer'.transcript
    OBVIOUS
  <2> QED BY <1>6, <1>10, <1>11, <2>1, PlainMore
<1>13. line' \in Seq(StreamParts) /\ (Stream' = u \/ Stream' = v)
  <2>1. line \o p \in Seq(StreamParts) /\ p \o q \in Seq(StreamParts) /\ line \o (p \o q) \in Seq(StreamParts)
    <3>1. p \o q \in Seq(StreamParts)
      BY Join
    <3> QED BY <1>8, <3>1, Join
  <2>2. CASE compat
    <3>1. line' = line \o (p \o q)
      BY <1>5, <1>6, <1>7, <2>2
    <3> QED BY <1>2, <1>11, <2>1, <3>1 DEF Stream
  <2>3. CASE ~compat
    <3>1. line' = line \o (p \o <<>>)
      BY <1>5, <1>6, <1>7, <2>3
    <3>2. p \o <<>> = p
      BY ConcatEmptySeq
    <3> QED BY <1>2, <1>9, <2>1, <3>1, <3>2 DEF Stream
  <2> QED BY <2>2, <2>3
<1>14. StreamInv'
  <2>1. PICK w \in Seq(StreamParts) :
           /\ Stream' = w /\ w # <<>> /\ Framed(w) /\ Linked(w)
           /\ \A i \in DOMAIN w : RecordOk(w[i].rec, "client", FALSE, peer'.transcript)
           /\ ~HasFin(w[Len(w)].rec) /\ ~IsData(w[Len(w)].rec)
    BY <1>10, <1>12, <1>13
  <2>2. Told' = FALSE
    BY <1>3 DEF Told
  <2>3. LastLinked(w)'
    BY <2>1 DEF LastLinked, Behind
  <2> QED BY <1>2, <2>1, <2>2, <2>3 DEF StreamInv
<1>15. TlsTypeOK'
  <2>1. <<"CH", "SH">> \in Transcripts
    BY DEF Transcripts, MessageTypes
  <2> QED BY <1>1, <1>2, <1>3, <1>4, <1>13, <2>1 DEF TlsTypeOK
<1>16. JobInv' /\ AgreedInv' /\ ReadInv'
  BY <1>1, <1>2, <1>3, <1>4 DEF JobInv, AgreedInv, ReadInv
<1> QED BY <1>14, <1>15, <1>16 DEF TlsInv

\* The next record of the flight: only the last one ends with a MAC, which is of all
\* that the server has sent.
LEMMA ServerFlightStep ==
    ASSUME TlsInv, ServerFlight
    PROVE  TlsInv'
<1>1. TlsTypeOK /\ StreamInv /\ JobInv /\ AgreedInv /\ ReadInv
  BY DEF TlsInv
<1>2. /\ role = "client" /\ peer.stage = "flying" /\ ~Told /\ tls.state # "FINISHED_OK"
      /\ peer.flight # <<>> /\ peer.wrote = 0
      /\ UNCHANGED <<role, job, tls, rx, sent, reading, returned, cut>>
      /\ Returned' = Returned
  BY <1>1 DEF ServerFlight, Told, AgreedInv, JobInv, Returned
<1> DEFINE FlightRecords == [msgs : Seq([type : MessageTypes, mac : {<<>>}, whole : BOOLEAN]), parts : Nat \ {0}]
<1>3. /\ peer.flight \in Seq(FlightRecords) /\ peer.hs \in Transcripts /\ peer.transcript \in Transcripts
      /\ peer.seq \in Nat /\ peer.records \in Nat
  BY <1>1 DEF TlsTypeOK
<1>4. PICK r \in FlightRecords : r = Head(peer.flight)
  <2>1. Head(peer.flight) \in FlightRecords
    BY <1>2, <1>3, HeadTailProperties
  <2> QED BY <2>1
<1>5. /\ r.parts \in Nat \ {0} /\ r.msgs \in Seq(Messages)
      /\ \A i \in DOMAIN r.msgs : r.msgs[i].mac = <<>>
  <2>1. /\ r.parts \in Nat \ {0}
        /\ r.msgs \in Seq([type : MessageTypes, mac : {<<>>}, whole : BOOLEAN])
    OBVIOUS
  <2>2. PICK m \in Seq([type : MessageTypes, mac : {<<>>}, whole : BOOLEAN]) : m = r.msgs
    BY <2>1
  <2>3. \A i \in 1 .. Len(m) : m[i] \in [type : MessageTypes, mac : {<<>>}, whole : BOOLEAN]
    BY ElementOfSeq
  <2>4. <<>> \in Macs
    BY DEF Macs
  <2>5. \A i \in 1 .. Len(m) : m[i] \in Messages /\ m[i].mac = <<>>
    BY <2>3, <2>4 DEF Messages
  <2>6. m \in Seq(Messages)
    BY <2>5, ElementOfSeq, SeqDef
  <2> QED BY <2>1, <2>2, <2>5, <2>6
<1>6. PICK sofar \in Transcripts : sofar = peer.transcript \o Hashed(Types(r.msgs))
  <2>1. Types(r.msgs) \in Seq(MessageTypes)
    <3>1. PICK u \in Seq(Messages) : u = r.msgs
      BY <1>5
    <3>2. DOMAIN u = 1 .. Len(u) /\ Len(u) \in Nat /\ \A i \in 1 .. Len(u) : u[i] \in Messages
      OBVIOUS
    <3>3. \A i \in 1 .. Len(u) : u[i].type \in MessageTypes
      BY <3>2 DEF Messages
    <3>4. Types(u) = [i \in 1 .. Len(u) |-> u[i].type]
      BY <3>2 DEF Types
    <3> QED BY <3>1, <3>2, <3>3, <3>4
  <2>2. PICK y \in Seq(MessageTypes) : y = Types(r.msgs)
    BY <2>1
  <2>3. Hashed(y) \in Seq(MessageTypes)
    <3>1. y # <<>> => Len(y) - 1 \in 0 .. Len(y)
      OBVIOUS
    <3>2. y # <<>> => Upto(y, Len(y) - 1) \in Seq(MessageTypes)
      BY <3>1, Cut
    <3> QED BY <3>2 DEF Hashed
  <2>4. peer.transcript \o Hashed(y) \in Seq(MessageTypes)
    BY <1>3, <2>3, Join DEF Transcripts
  <2> QED BY <2>2, <2>4 DEF Transcripts
<1>7. PICK last \in BOOLEAN : last = (Len(peer.flight) = 1)
  OBVIOUS
<1>8. PICK fin \in Messages : fin = FinishedMsg("server", peer.hs, sofar) /\ fin.mac # <<>> /\ fin.mac[2] = sofar
  BY <1>3, FinishedType
<1>9. PICK key \in Keys : key = Key("server", "hs", peer.hs) /\ key[2] = "hs"
  BY <1>3, KeyType
<1>10. PICK msgs \in Seq(Messages) :
          /\ msgs = IF last THEN Append(r.msgs, fin) ELSE r.msgs
          /\ \A i \in DOMAIN msgs : msgs[i].mac # <<>> =>
                last /\ i = Len(msgs) /\ msgs[i].mac[2] = sofar
  <2>1. CASE last
    <3>1. /\ Append(r.msgs, fin) \in Seq(Messages) /\ Len(Append(r.msgs, fin)) = Len(r.msgs) + 1
          /\ \A i \in 1 .. Len(r.msgs) : Append(r.msgs, fin)[i] = r.msgs[i]
          /\ Append(r.msgs, fin)[Len(r.msgs) + 1] = fin
      BY <1>5, AppendProperties
    <3>2. PICK m \in Seq(Messages), n \in Nat : m = Append(r.msgs, fin) /\ n = Len(r.msgs)
      <4>1. Len(r.msgs) \in Nat
        BY <1>5
      <4> QED BY <3>1, <4>1
    <3>3. /\ Len(m) = n + 1 /\ m[n + 1] = fin
          /\ \A i \in 1 .. n : m[i].mac = <<>>
      <4>1. \A i \in 1 .. n : i \in DOMAIN r.msgs
        BY <1>5, <3>2
      <4> QED BY <1>5, <3>1, <3>2, <4>1
    <3>4. \A i \in DOMAIN m : i \in 1 .. n \/ i = n + 1
      BY <3>3
    <3>5. \A i \in DOMAIN m : m[i].mac # <<>> => last /\ i = Len(m) /\ m[i].mac[2] = sofar
      BY <1>8, <2>1, <3>3, <3>4
    <3> QED BY <2>1, <3>2, <3>5
  <2>2. CASE ~last
    BY <1>5, <2>2
  <2> QED BY <2>1, <2>2
<1>11. PICK rec \in Records :
          /\ rec = Sealed(key, peer.seq, "handshake", msgs, r.parts)
          /\ rec.key = key /\ rec.inner = "handshake" /\ rec.msgs = msgs
  <2>1. "handshake" \in {"handshake", "app", "alert"}
    OBVIOUS
  <2> QED BY <1>3, <1>5, <2>1, SealedType
<1>12. /\ Deliver(Parts(rec))
       /\ peer' = [peer EXCEPT !.stage = IF last THEN "flown" ELSE @,
                               !.transcript = IF last THEN Append(sofar, "FIN") ELSE sofar,
                               !.seq = IF last THEN 0 ELSE @ + 1,
                               !.flight = Tail(@)]
  BY <1>4, <1>6, <1>7, <1>8, <1>9, <1>10, <1>11 DEF ServerFlight
<1>13. /\ peer'.stage = IF last THEN "flown" ELSE "flying"
       /\ peer'.transcript = IF last THEN Append(sofar, "FIN") ELSE sofar
       /\ peer'.seq = IF last THEN 0 ELSE peer.seq + 1
       /\ peer'.wrote = 0 /\ peer'.flight = Tail(peer.flight)
  BY <1>1, <1>2, <1>12 DEF TlsTypeOK
<1>14. Told' = last
  BY <1>13 DEF Told
<1>15. RecordOk(rec, role, last, peer'.transcript)
  <2>1. ~IsData(rec)
    BY <1>9, <1>11 DEF IsData
  <2>2. \A i \in DOMAIN rec.msgs : rec.msgs[i].mac # <<>> =>
           i = Len(rec.msgs) /\ last /\ Append(rec.msgs[i].mac[2], "FIN") = peer'.transcript
    <3> TAKE i \in DOMAIN rec.msgs
    <3>1. msgs[i].mac # <<>> => last /\ i = Len(msgs) /\ msgs[i].mac[2] = sofar
      BY <1>10, <1>11
    <3> QED BY <1>11, <1>13, <3>1
  <2> QED BY <1>11, <2>1, <2>2 DEF RecordOk
<1>16. ~IsData(rec) /\ (HasFin(rec) => last)
  <2>1. ~IsData(rec)
    BY <1>9, <1>11 DEF IsData
  <2>2. msgs # <<>> => Len(msgs) \in DOMAIN msgs
    OBVIOUS
  <2> QED BY <1>10, <1>11, <2>1, <2>2 DEF HasFin
<1>17. StreamInv' /\ line' \in Seq(StreamParts)
  <2>1. \A x : RecordOk(x, role, Told, peer.transcript) => RecordOk(x, role, Told', peer'.transcript)
    <3> TAKE x
    <3> QED BY <1>2, OkLater
  <2>2. Stream # <<>> => ~HasFin(Stream[Len(Stream)].rec) /\ ~IsData(Stream[Len(Stream)].rec)
    BY <1>1, <1>2 DEF StreamInv, LastLinked
  <2>3. RecordOk(rec, role, Told', peer'.transcript)
    BY <1>14, <1>15
  <2>4. HasFin(rec) => peer'.seq = 0 /\ peer'.wrote = 0 /\ Told'
    BY <1>13, <1>14, <1>16
  <2> QED BY <1>1, <1>2, <1>12, <1>16, <2>1, <2>2, <2>3, <2>4, StreamGrows
<1>18. peer'.flight \in Seq(FlightRecords) /\ (~last => peer'.flight # <<>>)
  <2>1. Tail(peer.flight) \in Seq(FlightRecords) /\ Len(Tail(peer.flight)) = Len(peer.flight) - 1
    BY <1>2, <1>3, HeadTailProperties
  <2>2. Len(peer.flight) \in Nat /\ Len(peer.flight) # 0
    <3> HIDE DEF FlightRecords
    <3> QED BY <1>2, <1>3, LenProperties, EmptySeq
  <2>3. ~last => Len(Tail(peer.flight)) # 0
    <3>1. PICK n \in Nat, k \in Int : n = Len(peer.flight) /\ k = Len(Tail(peer.flight)) /\ k = n - 1
      <4>1. Len(peer.flight) - 1 \in Int
        BY ONLY <2>2
      <4> QED BY ONLY <2>1, <2>2, <4>1
    <3>2. ~last => n # 1
      BY <1>7, <3>1
    <3>3. n # 1 => k # 0
      BY ONLY <3>1
    <3> QED BY <3>1, <3>2, <3>3
  <2>4. ~last => Tail(peer.flight) # <<>>
    BY <2>3, EmptySeq
  <2> QED BY <1>13, <2>1, <2>4
<1>19. TlsTypeOK'
  <2>1. "FIN" \in MessageTypes
    BY DEF MessageTypes
  <2>2. Append(sofar, "FIN") \in Transcripts
    BY <2>1, AppendProperties DEF Transcripts
  <2>3. peer'.transcript \in Transcripts /\ peer'.seq \in Nat
    BY <1>3, <1>13, <2>2
  <2>4. peer'.stage \in {"start", "flying", "flown", "over", "hello"}
    BY <1>13
  <2> QED BY <1>1, <1>2, <1>12, <1>13, <1>17, <1>18, <2>3, <2>4 DEF TlsTypeOK
<1>20. JobInv' /\ AgreedInv' /\ ReadInv'
  BY <1>1, <1>2, <1>13, <1>18 DEF JobInv, AgreedInv, ReadInv
<1> QED BY <1>17, <1>19, <1>20 DEF TlsInv

\* Data is numbered on from what was sent before.
LEMMA ServerRecordStep ==
    ASSUME TlsInv, NEW w \in ServerWrites, ServerRecord(w)
    PROVE  TlsInv'
<1>1. TlsTypeOK /\ StreamInv /\ JobInv /\ AgreedInv /\ ReadInv
  BY DEF TlsInv
<1>2. /\ role = "client" /\ peer.stage = "flown" /\ Told
      /\ UNCHANGED <<role, job, tls, rx, sent, reading, returned, cut>>
      /\ Returned' = Returned
  BY <1>1 DEF ServerRecord, Told, Returned
<1>3. /\ w.inner \in {"app", "handshake", "alert"} /\ w.len \in Nat /\ w.parts \in Nat \ {0}
      /\ w.inner # "app" => w.len = 0
  BY TlsAssumption
<1>4. peer.transcript \in Transcripts /\ peer.seq \in Nat /\ peer.wrote \in Nat /\ peer.records \in Nat
  BY <1>1 DEF TlsTypeOK
<1>5. PICK key \in Keys : key = Key("server", "ap", peer.transcript) /\ key # <<>> /\ key[2] = "ap"
  BY <1>4, KeyType
<1>6. PICK data \in Seq(Nat) : /\ data = [i \in 1 .. w.len |-> peer.wrote + i] /\ Len(data) = w.len
                               /\ \A i \in DOMAIN data : data[i] = peer.wrote + i
  <2>1. PICK n \in Nat, o \in Nat : n = w.len /\ o = peer.wrote
    BY <1>3, <1>4
  <2>2. [i \in 1 .. n |-> o + i] \in Seq(Nat) /\ Len([i \in 1 .. n |-> o + i]) = n
    BY <2>1
  <2> QED BY <2>1, <2>2
<1>7. PICK rec \in Records :
         /\ rec = [Sealed(key, peer.seq, w.inner, <<>>, w.parts) EXCEPT !.data = data, !.at = peer.wrote]
         /\ rec.type = "app" /\ rec.key = key /\ rec.seq = peer.seq /\ rec.inner = w.inner /\ rec.msgs = <<>>
         /\ rec.data = data /\ rec.at = peer.wrote
  <2>1. <<>> \in Seq(Messages) /\ w.inner \in {"handshake", "app", "alert"}
    BY <1>3
  <2>2. PICK b \in Records : /\ b = Sealed(key, peer.seq, w.inner, <<>>, w.parts)
                             /\ b.type = "app" /\ b.key = key /\ b.seq = peer.seq /\ b.inner = w.inner /\ b.msgs = <<>>
    <3>1. PICK m \in Seq(Messages), inner \in {"handshake", "app", "alert"} : m = <<>> /\ inner = w.inner
      BY <2>1
    <3>2. /\ Sealed(key, peer.seq, inner, m, w.parts) \in Records
          /\ Sealed(key, peer.seq, inner, m, w.parts).type = "app"
          /\ Sealed(key, peer.seq, inner, m, w.parts).key = key
          /\ Sealed(key, peer.seq, inner, m, w.parts).seq = peer.seq
          /\ Sealed(key, peer.seq, inner, m, w.parts).inner = inner
          /\ Sealed(key, peer.seq, inner, m, w.parts).msgs = m
      BY <1>3, <1>4, SealedType
    <3> QED BY <3>1, <3>2
  <2>3. [b EXCEPT !.data = data, !.at = peer.wrote] \in Records
    BY <1>4 DEF Records
  <2> QED BY <2>2, <2>3 DEF Records
<1>8. /\ Deliver(Parts(rec))
      /\ peer' = [peer EXCEPT !.seq = @ + 1, !.wrote = @ + w.len, !.records = @ + 1,
                              !.stage = IF w.inner = "alert" THEN "over" ELSE @]
  BY <1>5, <1>6, <1>7 DEF ServerRecord
<1>9. /\ peer'.stage = IF w.inner = "alert" THEN "over" ELSE "flown"
      /\ peer'.transcript = peer.transcript /\ peer'.seq = peer.seq + 1 /\ peer'.wrote = peer.wrote + w.len
  BY <1>1, <1>2, <1>8 DEF TlsTypeOK
<1>10. Told'
  BY <1>9 DEF Told
<1>11. IsData(rec) /\ ~HasFin(rec)
  BY <1>5, <1>7 DEF IsData, HasFin
<1>12. RecordOk(rec, role, TRUE, peer.transcript)
  <2>1. rec.inner # "app" => rec.data = <<>>
    <3>1. w.len = 0 => data = <<>>
      BY <1>6
    <3> QED BY <1>3, <1>7, <3>1
  <2>2. \A i \in DOMAIN rec.data : rec.data[i] = rec.at + i
    BY <1>6, <1>7
  <2>3. rec.inner = w.inner /\ rec.type = "app" /\ rec.key = key
    BY <1>7
  <2>4. role = "client" /\ rec.msgs = <<>> /\ rec.key = Key("server", "ap", peer.transcript)
    BY <1>2, <1>5, <1>7
  <2> QED BY ONLY <1>11, <2>1, <2>2, <2>3, <2>4 DEF RecordOk
<1>13. /\ StreamInv' /\ line' \in Seq(StreamParts) /\ Stream' # <<>>
       /\ Stream = <<>> => Stream'[1].rec = rec
       /\ Stream # <<>> => Stream'[1] = Stream[1]
  <2>1. \A x : RecordOk(x, role, Told, peer.transcript) => RecordOk(x, role, Told', peer'.transcript)
    <3>1. Told' = TRUE /\ Told = TRUE
      BY <1>2, <1>10 DEF Told
    <3> QED BY <1>9, <3>1
  <2>2. RecordOk(rec, role, Told', peer'.transcript)
    <3>1. Told' = TRUE
      BY <1>10 DEF Told
    <3> QED BY <1>9, <1>12, <3>1
  <2>3. peer'.seq = rec.seq + 1 /\ peer'.wrote = rec.at + Len(rec.data)
    BY <1>6, <1>7, <1>9
  <2> QED BY <1>1, <1>2, <1>7, <1>8, <1>10, <1>11, <2>1, <2>2, <2>3, StreamGrows
<1>14. NextAt' = NextAt /\ \A q, a : Expects(q, a) => Expects(q, a)'
  <2>1. CASE Stream = <<>>
    BY <1>7, <1>11, <1>13, <2>1 DEF NextAt, Expects
  <2>2. CASE Stream # <<>>
    BY <1>13, <2>2 DEF NextAt, Expects
  <2> QED BY <2>1, <2>2
<1>15. TlsTypeOK'
  <2>1. peer.seq + 1 \in Nat /\ peer.wrote + w.len \in Nat /\ peer.records + 1 \in Nat
    BY <1>3, <1>4
  <2>2. (IF w.inner = "alert" THEN "over" ELSE peer.stage) \in {"start", "flying", "flown", "over", "hello"}
    BY <1>2
  <2> QED BY <1>1, <1>2, <1>8, <1>13, <2>1, <2>2 DEF TlsTypeOK
<1>16. JobInv' /\ AgreedInv'
  BY <1>1, <1>2, <1>9, <1>10 DEF JobInv, AgreedInv
<1>17. ReadInv'
  <2>1. ReadTo(NextAt) => ReadTo(NextAt)'
    BY <1>2, <1>14 DEF ReadTo
  <2>2. Expects(tls.seq, NextAt) => Expects(tls.seq, NextAt)'
    <3>1. PICK q, a : q = tls.seq /\ a = NextAt
      OBVIOUS
    <3>2. Expects(q, a) => Expects(q, a)'
      BY <1>14
    <3> QED BY <1>2, <1>14, <3>1, <3>2 DEF Expects
  <2>3. Expects(0, 0) => Expects(0, 0)'
    BY <1>14
  <2> QED BY <1>1, <1>2, <1>9, <2>1, <2>2, <2>3 DEF ReadInv
<1> QED BY <1>13, <1>15, <1>16, <1>17 DEF TlsInv

\* Before the server has sent anything the kernel cannot have accepted it.
LEMMA ServerRefusesStep ==
    ASSUME TlsInv, ServerRefuses
    PROVE  TlsInv'
<1>1. TlsTypeOK /\ StreamInv /\ JobInv /\ AgreedInv /\ ReadInv
  BY DEF TlsInv
<1>2. /\ role = "client" /\ peer.stage = "start" /\ ~Told /\ tls.state # "FINISHED_OK" /\ Stream = <<>>
      /\ UNCHANGED <<role, job, tls, rx, sent, reading, returned, cut>>
      /\ Returned' = Returned /\ Deliver(Parts(Plain("alert", <<>>)))
  BY <1>1 DEF ServerRefuses, Told, AgreedInv, JobInv, Returned
<1>3. peer' = [peer EXCEPT !.stage = "over"] /\ peer'.stage = "over"
  BY <1>1 DEF ServerRefuses, TlsTypeOK
<1>4. PICK rec \in Records : /\ rec = Plain("alert", <<>>) /\ ~HasFin(rec) /\ ~IsData(rec)
                             /\ \A k, told, t : RecordOk(rec, k, told, t)
  <2>1. <<>> \in Seq(Messages) /\ 1 \in Nat \ {0} /\ "alert" \in {"handshake", "ccs", "alert"}
    OBVIOUS
  <2> QED BY <2>1, PlainOk
<1>5. StreamInv' /\ line' \in Seq(StreamParts)
  <2>1. \A x : RecordOk(x, role, Told, peer.transcript) => RecordOk(x, role, Told', peer'.transcript)
    <3> TAKE x
    <3> QED BY <1>2, OkLater
  <2> QED BY <1>1, <1>2, <1>4, <2>1, StreamGrows
<1>6. TlsTypeOK'
  BY <1>1, <1>2, <1>3, <1>5 DEF TlsTypeOK
<1>7. JobInv' /\ AgreedInv' /\ ReadInv'
  BY <1>1, <1>2, <1>3 DEF JobInv, AgreedInv, ReadInv
<1> QED BY <1>5, <1>6, <1>7 DEF TlsInv

LEMMA ClientHelloStep ==
    ASSUME TlsInv, ClientHello
    PROVE  TlsInv'
<1>1. TlsTypeOK /\ StreamInv /\ JobInv /\ AgreedInv /\ ReadInv
  BY DEF TlsInv
<1>2. /\ role = "server" /\ Returned' = Returned
      /\ UNCHANGED <<role, job, tls, rx, sent, reading, returned, cut>>
  BY <1>1 DEF ClientHello, Returned
<1>3. peer' = [peer EXCEPT !.stage = "hello", !.hs = <<"CH", "SH">>] /\ peer'.stage = "hello"
  BY <1>1 DEF ClientHello, TlsTypeOK
<1>4. PICK rec \in Records : Deliver(Parts(rec)) /\ \A k, told, t : RecordOk(rec, k, told, t)
  <2>1. PICK n \in Nat \ {0}, hello \in {"CH", "CH without ChaCha20"} :
           Deliver(Parts([Plain("handshake", <<Msg(hello)>>) EXCEPT !.parts = n]))
    <3>1. \A n \in 1 .. 2 : n \in Nat \ {0}
      OBVIOUS
    <3> QED BY <3>1 DEF ClientHello
  <2>2. hello \in MessageTypes
    BY DEF MessageTypes
  <2>3. Msg(hello) \in Messages
    BY <2>2, MsgType
  <2>4. PICK m \in Seq(Messages) : m = <<Msg(hello)>>
    BY <2>3, OneMessage
  <2>5. "handshake" \in {"handshake", "ccs", "alert"} /\ n \in Nat \ {0}
    OBVIOUS
  <2>6. PICK r : r = [Plain("handshake", m) EXCEPT !.parts = n]
    OBVIOUS
  <2>7. r \in Records /\ \A k, told, t : RecordOk(r, k, told, t)
    BY <2>5, <2>6, PlainOk
  <2> QED BY <2>1, <2>4, <2>6, <2>7
<1>5. StreamInv' /\ line' \in Seq(StreamParts)
  <2>1. \A x : RecordOk(x, role, Told, peer.transcript) => RecordOk(x, role, Told', peer'.transcript)
    <3> TAKE x
    <3> QED BY <1>2, OkLater
  <2> QED BY <1>1, <1>2, <1>4, <2>1, StreamGrows
<1>6. TlsTypeOK'
  <2>1. <<"CH", "SH">> \in Transcripts
    BY DEF Transcripts, MessageTypes
  <2> QED BY <1>1, <1>2, <1>3, <1>5, <2>1 DEF TlsTypeOK
<1>7. JobInv' /\ AgreedInv' /\ ReadInv'
  BY <1>1, <1>2, <1>3 DEF JobInv, AgreedInv, ReadInv
<1> QED BY <1>5, <1>6, <1>7 DEF TlsInv

LEMMA ClientFinishedStep ==
    ASSUME TlsInv, ClientFinished
    PROVE  TlsInv'
<1>1. TlsTypeOK /\ StreamInv /\ JobInv /\ AgreedInv /\ ReadInv
  BY DEF TlsInv
<1>2. /\ role = "server" /\ Returned' = Returned
      /\ UNCHANGED <<role, job, tls, rx, sent, reading, returned, cut>>
  BY <1>1 DEF ClientFinished, Returned
<1>3. peer' = [peer EXCEPT !.stage = "over"] /\ peer'.stage = "over"
  BY <1>1 DEF ClientFinished, TlsTypeOK
<1>4. PICK t : t = peer.hs \o <<"EE", "CERT">>
  OBVIOUS
<1>5. Append(t, "FIN") \in Transcripts /\ peer.hs \in Transcripts
  <2>1. "EE" \in MessageTypes /\ "CERT" \in MessageTypes /\ "FIN" \in MessageTypes
    BY DEF MessageTypes
  <2>2. peer.hs \in Seq(MessageTypes)
    BY <1>1 DEF TlsTypeOK, Transcripts
  <2>3. <<"EE", "CERT">> \in Seq(MessageTypes)
    <3>1. \A a \in MessageTypes, b \in MessageTypes : <<a, b>> \in Seq(MessageTypes)
      OBVIOUS
    <3> QED BY <2>1, <3>1
  <2>4. peer.hs \o <<"EE", "CERT">> \in Seq(MessageTypes)
    BY <2>2, <2>3, Join
  <2>5. t \in Seq(MessageTypes)
    BY <1>4, <2>4
  <2> QED BY <2>1, <2>2, <2>5, AppendProperties DEF Transcripts
<1>6. PICK rec \in Records : Deliver(Parts(rec)) /\ \A told, u : RecordOk(rec, role, told, u)
  <2>1. PICK a : a = Sealed(Key("client", "hs", peer.hs), 0, "handshake",
                            <<FinishedMsg("client", peer.hs, Append(t, "FIN"))>>, 1)
    OBVIOUS
  <2>2. Deliver(Parts(a)) \/ Deliver(Parts(Plain("alert", <<>>)))
    BY <1>4, <2>1 DEF ClientFinished
  <2>3. PICK key \in Keys : key = Key("client", "hs", peer.hs) /\ key[2] = "hs"
    BY <1>5, KeyType
  <2>4. PICK fin \in Messages : fin = FinishedMsg("client", peer.hs, Append(t, "FIN"))
    BY <1>5, FinishedType
  <2>5. PICK m \in Seq(Messages) : m = <<fin>>
    BY <2>4, OneMessage
  <2>6. 0 \in Nat /\ 1 \in Nat \ {0} /\ "handshake" \in {"handshake", "app", "alert"}
    OBVIOUS
  <2>7. a \in Records /\ a.key = key /\ a.inner = "handshake" /\ a.msgs = m
    <3>1. a = Sealed(key, 0, "handshake", m, 1)
      BY <2>1, <2>3, <2>4, <2>5
    <3> QED BY <2>6, <3>1, SealedType
  <2>8. \A told, u : RecordOk(a, role, told, u)
    <3>1. ~IsData(a)
      BY <2>3, <2>7 DEF IsData
    <3>2. \A i \in DOMAIN a.msgs : i = Len(a.msgs)
      BY <2>5, <2>7
    <3> QED BY <1>2, <2>7, <3>1, <3>2 DEF RecordOk
  <2>9. <<>> \in Seq(Messages) /\ "alert" \in {"handshake", "ccs", "alert"}
    OBVIOUS
  <2>10. PICK b \in Records : b = Plain("alert", <<>>) /\ \A k, told, u : RecordOk(b, k, told, u)
    BY <2>6, <2>9, PlainOk
  <2> QED BY <2>2, <2>7, <2>8, <2>10
<1>7. StreamInv' /\ line' \in Seq(StreamParts)
  <2>1. \A x : RecordOk(x, role, Told, peer.transcript) => RecordOk(x, role, Told', peer'.transcript)
    <3> TAKE x
    <3> QED BY <1>2, OkLater
  <2> QED BY <1>1, <1>2, <1>6, <2>1, StreamGrows
<1>8. TlsTypeOK'
  BY <1>1, <1>2, <1>3, <1>7 DEF TlsTypeOK
<1>9. JobInv' /\ AgreedInv' /\ ReadInv'
  BY <1>1, <1>2, <1>3 DEF JobInv, AgreedInv, ReadInv
<1> QED BY <1>7, <1>8, <1>9 DEF TlsInv

----------------------------------------------------------------------------
(* The theorems.                                                           *)

\* What lies between the other side and the caller of tls_recv is whole records in
\* order: those of the flight, the last of which alone ends with a MAC, then those of
\* data, each with the number and the offset after the one before.
THEOREM TlsInvariance == TlsSpec => []TlsInv
<1>1. TlsInit => TlsInv
  BY StartStep
<1>2. TlsInv /\ [TlsNext]_tlsVars => TlsInv'
  <2> SUFFICES ASSUME TlsInv, [TlsNext]_tlsVars PROVE TlsInv'
    OBVIOUS
  <2>1. CASE TlsNext
    BY <2>1, ConnectStep, ConnectRecvStep, ConnectRecordStep, FinalizeStep, ConnectFailsStep, RecvCallStep,
       RecvTakeStep, RecvRecordStep, RecvReturnStep, AcceptStep, AcceptRecvStep, AcceptHelloStep,
       AcceptFinishedStep, AcceptFailsStep, ServerHelloSentStep, ServerFlightStep, ServerRecordStep,
       ServerRefusesStep, ClientHelloStep, ClientFinishedStep DEF TlsNext
  <2>2. CASE UNCHANGED tlsVars
    <3>1. UNCHANGED <<role, job, tls, rx, line, sent, peer, reading, returned, cut>>
      BY <2>2 DEF tlsVars
    <3>2. Stream' = Stream /\ Returned' = Returned /\ Told' = Told
      BY <3>1 DEF Stream, Returned, Told
    <3>3. TlsTypeOK' /\ StreamInv'
      BY <3>1, <3>2, StreamStays DEF TlsInv, TlsTypeOK
    <3>4. JobInv' /\ AgreedInv'
      BY <3>1, <3>2 DEF TlsInv, JobInv, AgreedInv
    <3>5. NextAt' = NextAt /\ Expects(tls.seq, NextAt)' = Expects(tls.seq, NextAt) /\ Expects(0, 0)' = Expects(0, 0)
      BY <3>1, <3>2 DEF Expects, NextAt
    <3>6. ReadTo(NextAt)' = ReadTo(NextAt)
      BY <3>1, <3>2, <3>5 DEF ReadTo
    <3>7. ReadInv'
      BY <3>1, <3>5, <3>6 DEF TlsInv, ReadInv
    <3> QED BY <3>3, <3>4, <3>7 DEF TlsInv
  <2> QED BY <2>1, <2>2
<1> QED BY <1>1, <1>2, PTL DEF TlsSpec

\* A handshake that tls_connect or tls_accept reports done is the one that the other
\* side made, however its messages were grouped into records and cut by tcp_recv.
THEOREM HandshakeIsAgreed == TlsSpec => []HandshakeAgreed
<1>1. TlsInv => HandshakeAgreed
  BY DEF TlsInv, AgreedInv, HandshakeAgreed
<1> QED BY <1>1, TlsInvariance, PTL

\* tls_recv returns the server's data in order, without a repetition and, until a
\* caller's buffer was full, without a gap.
THEOREM ReadsAreInOrder == TlsSpec => []ReadsInOrder
<1>1. TlsInv => ReadsInOrder
  <2> SUFFICES ASSUME TlsInv PROVE ReadsInOrder
    OBVIOUS
  <2>1. TlsTypeOK /\ JobInv /\ ReadInv
    BY DEF TlsInv
  <2>2. reading.out \in Seq(Nat) /\ returned \in Seq(Nat) /\ role \in {"client", "server"}
        /\ job \in {"none", "connect", "accept", "open", "recv", "failed"}
    BY <2>1 DEF TlsTypeOK
  <2>3. CASE role = "client" /\ job \in {"open", "recv"}
    <3>1. ReadTo(NextAt)
      BY <2>1, <2>3 DEF ReadInv, JobInv
    <3> QED BY <3>1 DEF ReadTo, ReadsInOrder
  <2>4. CASE role = "server" \/ job \in {"none", "connect", "accept", "failed"}
    <3>1. Returned = <<>>
      BY <2>1, <2>4 DEF JobInv
    <3>2. reading.out = <<>>
      <4>1. Len(Returned) = Len(returned) + Len(reading.out)
        BY <2>2, Join DEF Returned
      <4>2. Len(returned) \in Nat /\ Len(reading.out) \in Nat
        BY <2>2
      <4>3. Len(reading.out) = 0
        BY <3>1, <4>1, <4>2
      <4> QED BY <2>2, <4>3
    <3> QED BY <3>1, <3>2 DEF ReadsInOrder
  <2> QED BY <2>2, <2>3, <2>4
<1> QED BY <1>1, TlsInvariance, PTL

----------------------------------------------------------------------------
(***************************************************************************)
(* Storage: what block_read and block_write promise of the disks.          *)
(***************************************************************************)

LEMMA Sizes ==
    /\ Ratio \in Nat \ {0} /\ Sectors \in Nat /\ SectorData # {}
    /\ QDepth \in Nat \ {0, 1} /\ MaxPrd \in Nat /\ MaxDevices \in Nat /\ MaxParts \in Nat
BY StorageAssumption

USE Sizes

Op == {"read", "write"}
Whole == [disk : Disks, view : {"native", "xlate"}, lbs : Nat, total : Nat]
WindowDev == [disk : Disks, view : {"window"}, lbs : Nat, total : Nat, wi : Nat]
Cmds == [op : Op \cup {"none"}, disk : Disks, lba : Nat, count : Nat, mem : {"caller", "bounce", "gone"}]
Sector == Disks \X (0..Sectors - 1)
Blocks == [0..Ratio - 1 -> SectorData]
Places == 0..QDepth - 1
Calls == [pc : {"idle", "thunk", "whole", "slice", "fetch", "store", "end"},
          io : {"none", "busy", "ok", "failed"}, op : Op \cup {"none"},
          dev : Nat, lba : Nat, count : Nat, buf : Seq(SectorData), done : Nat]
Pairs == [sq : [Places -> Cmds], tail : Places, head : Places, phase : {0, 1},
          cq : [Places -> [phase : {0, 1}, ok : BOOLEAN]], fetch : Places, post : Places, mark : {0, 1}]
Ports == [cmd : Cmds, ci : BOOLEAN, err : BOOLEAN]
Answers == [ok : BOOLEAN, at : {<<>>} \cup Disks \X Nat, data : Seq(SectorData)]

\* What a device of the table is: 512-byte blocks, or xlate's view of the only disk.
DeviceOk(d) ==
    /\ d.disk \in DOMAIN platter
    /\ d.view = "native" => Unit(d.disk) = 1
    /\ d.view = "xlate" => d.disk = "nvme4k" /\ slots = <<[owner |-> 0, native |-> Ratio]>>
    /\ d.view = "window" => d.wi < Len(windows)

TableOK ==
    /\ devs \in Seq(Whole \cup WindowDev)
    /\ \A i \in 1..Len(devs) : DeviceOk(devs[i])
    /\ windows \in Seq([parent : Nat, start : Nat, length : Nat])
    /\ \A i \in 1..Len(windows) : windows[i].parent < Len(devs)
    /\ DOMAIN platter \subseteq Disks

StorageTypeOK ==
    /\ TableOK
    /\ platter \in [DOMAIN platter -> [0..Sectors - 1 -> SectorData]]
    /\ bounce \in Blocks
    /\ call \in Calls
    /\ answer \in Answers
    /\ nvme \in Pairs
    /\ sata \in Ports
    /\ late \subseteq Disks \X Nat

\* Where a call is.
CallInv ==
    /\ call.pc = "idle" => call = NoCall
    /\ call.pc # "idle" =>
          /\ late = {} /\ call.dev < Len(devs) /\ call.op \in Op
          /\ Len(call.buf) = call.count /\ call.count > 0
    /\ call.pc = "thunk" => call.done = 0
    /\ call.pc \in {"idle", "thunk", "slice", "end"} <=> call.io = "none"
    /\ AtDisk => BlockGet(call.dev).view \in {"native", "xlate"}
    /\ call.pc \in {"slice", "fetch", "store", "end"} => BlockGet(call.dev).view = "xlate"
    /\ call.pc \in {"slice", "fetch", "store"} => call.done < call.count
    /\ call.pc = "end" => call.done = call.count
    /\ call.pc = "store" => call.op = "write"

\* The first sector of the native block that holds sector s.
Base(s) == s - (s % Ratio)

\* The block in bounce is the one on the disk, but for the call's sector when patched.
Fetched(patched) ==
    /\ Base(FsLba) + Ratio <= Sectors
    /\ \A i \in 0..Ratio - 1 :
          bounce[i] = IF patched /\ i = FsLba % Ratio THEN call.buf[call.done + 1]
                      ELSE platter[Here[1]][Base(FsLba) + i]

\* The command that the call waits for.
Expected(cmd) ==
    /\ cmd.disk = Here[1]
    /\ call.pc = "whole" => /\ cmd.op = call.op /\ cmd.mem = "caller"
                            /\ First(cmd) = call.lba /\ Size(cmd) = call.count
    /\ call.pc \in {"fetch", "store"} =>
          /\ cmd.op = (IF call.pc = "fetch" THEN "read" ELSE "write")
          /\ cmd.mem = "bounce" /\ First(cmd) = Base(FsLba) /\ Size(cmd) = Ratio
    /\ call.pc = "store" => Fetched(TRUE)

\* The first n sectors of the call have been moved.
MovedTo(n) ==
    /\ call.lba + n <= Sectors \/ n = 0
    /\ \A j \in 1..n : call.buf[j] = platter[Here[1]][call.lba + j - 1]

\* The command of the call was a success.
Executed ==
    /\ call.pc = "whole" => MovedTo(call.count)
    /\ call.pc = "fetch" => Fetched(FALSE)
    /\ call.pc = "store" => MovedTo(call.done + 1)

\* The queue pair: nothing to do, one command to do, or one completion to find.
Turn(x) == IF x + 1 = QDepth THEN 0 ELSE x + 1
InStep == nvme.head = nvme.post /\ nvme.phase = nvme.mark
NvmeQuiet == nvme.fetch = nvme.tail /\ InStep
NvmePending == nvme.tail = Turn(nvme.fetch) /\ InStep
NvmePosted ==
    /\ nvme.fetch = nvme.tail /\ nvme.post = Turn(nvme.head)
    /\ nvme.mark = IF nvme.head + 1 = QDepth THEN 1 - nvme.phase ELSE nvme.phase
PhasesOk == \A i \in Places : nvme.cq[i].phase = IF i < nvme.post THEN nvme.mark ELSE 1 - nvme.mark

SataBusy == NvmeQuiet /\ IF sata.ci THEN Expected(sata.cmd) ELSE ~sata.err => Executed
NvmeBusy ==
    /\ ~sata.ci
    /\ \/ NvmePending /\ Expected(nvme.sq[nvme.fetch])
       \/ NvmePosted /\ (nvme.cq[nvme.head].ok => Executed)

\* A command that was given up changes nothing but the sectors of its call.
Harmless(cmd) ==
    /\ cmd.disk \in DOMAIN platter /\ cmd.mem # "caller"
    /\ cmd.mem = "bounce" => Size(cmd) <= Ratio
    /\ cmd.op = "write" =>
          \A i \in 0..Size(cmd) - 1 :
              \/ <<cmd.disk, First(cmd) + i>> \in late
              \/ cmd.mem = "bounce" /\ bounce[i] = platter[cmd.disk][First(cmd) + i]

QueuesInv ==
    /\ PhasesOk
    /\ late = {} /\ call.io # "busy" => NvmeQuiet /\ ~sata.ci
    /\ call.io = "busy" => IF Here[1] = "sata" THEN SataBusy ELSE NvmeBusy
    /\ late # {} => \/ nvme.fetch = nvme.tail /\ (sata.ci => Harmless(sata.cmd))
                    \/ nvme.tail = Turn(nvme.fetch) /\ ~sata.ci /\ Harmless(nvme.sq[nvme.fetch])

DataInv ==
    /\ call.pc \in {"slice", "fetch", "store", "end"} => MovedTo(call.done)
    /\ call.io = "ok" => Executed

StorageInv == StorageTypeOK /\ CallInv /\ QueuesInv /\ DataInv

----------------------------------------------------------------------------
(* Arithmetic, and what is known of the device of a call.                  *)

LEMMA DivMod ==
    ASSUME NEW x \in Nat
    PROVE  x % Ratio \in 0..Ratio - 1 /\ x \div Ratio \in Nat /\ (x \div Ratio) * Ratio = x - (x % Ratio)
OBVIOUS

LEMMA TurnMod ==
    ASSUME NEW x \in Places
    PROVE  (x + 1) % QDepth = Turn(x) /\ Turn(x) \in Places /\ Turn(x) # x
BY DEF Turn, Places

LEMMA InBlock ==
    ASSUME NEW s \in Nat
    PROVE  /\ Base(s) \in Nat /\ s % Ratio \in 0..Ratio - 1 /\ s = Base(s) + (s % Ratio)
           /\ (s \div Ratio) * Ratio = Base(s)
<1>1. \A a, b \in Nat : a * b \in Nat
  OBVIOUS
<1>2. (s \div Ratio) * Ratio \in Nat
  BY <1>1, DivMod
<1>3. PICK m \in 0..Ratio - 1, b \in Nat : m = s % Ratio /\ b = (s \div Ratio) * Ratio /\ b = s - m
  BY <1>2, DivMod
<1>4. Base(s) = s - m
  BY <1>3 DEF Base
<1> QED BY ONLY s \in Nat, <1>3, <1>4, m \in 0..Ratio - 1, b \in Nat, Ratio \in Nat

LEMMA AtDevice ==
    ASSUME StorageTypeOK, call.dev < Len(devs)
    PROVE  /\ BlockGet(call.dev) \in Whole \cup WindowDev /\ DeviceOk(BlockGet(call.dev))
           /\ Here = <<BlockGet(call.dev).disk, call.lba>> /\ Here[1] = BlockGet(call.dev).disk
           /\ Here[1] \in DOMAIN platter /\ Here[1] \in Disks
           /\ platter[Here[1]] \in [0..Sectors - 1 -> SectorData]
<1>1. call.dev \in Nat /\ call.dev + 1 \in 1..Len(devs)
  BY DEF StorageTypeOK, Calls, Pairs, Ports, Answers
<1>2. BlockGet(call.dev) \in Whole \cup WindowDev /\ DeviceOk(BlockGet(call.dev))
  BY <1>1 DEF StorageTypeOK, TableOK, BlockGet, Calls, Pairs, Ports, Answers
<1>3. Here[1] = BlockGet(call.dev).disk /\ BlockGet(call.dev).disk \in DOMAIN platter
  BY <1>2 DEF Here, DeviceOk
<1> QED BY <1>2, <1>3 DEF StorageTypeOK, TableOK, Here, Calls, Pairs, Ports, Answers

LEMMA AtXlate ==
    ASSUME StorageTypeOK, call.dev < Len(devs), BlockGet(call.dev).view = "xlate"
    PROVE  /\ Here[1] = "nvme4k" /\ Unit(Here[1]) = Ratio
           /\ SlotFor(0) = slots /\ NativeOf(slots, 0) = Ratio
<1>1. Here[1] = "nvme4k" /\ slots = <<[owner |-> 0, native |-> Ratio]>>
  BY AtDevice DEF DeviceOk
<1>2. {slots[i] : i \in DOMAIN slots} = {[owner |-> 0, native |-> Ratio]}
  BY <1>1
<1>3. 0 \in SlotOwners
  BY <1>1 DEF SlotOwners
<1> QED BY <1>1, <1>2, <1>3 DEF SlotFor, NativeOf, Unit

LEMMA AtNative ==
    ASSUME StorageTypeOK, call.dev < Len(devs), BlockGet(call.dev).view = "native"
    PROVE  Unit(Here[1]) = 1
BY AtDevice DEF DeviceOk

LEMMA AtCall ==
    ASSUME StorageTypeOK, CallInv, call.pc # "idle"
    PROVE  /\ late = {} /\ call.dev < Len(devs) /\ call.op \in Op
           /\ call.buf \in Seq(SectorData) /\ Len(call.buf) = call.count /\ DOMAIN call.buf = 1..call.count
           /\ call.count \in Nat \ {0} /\ call.lba \in Nat /\ call.done \in Nat
           /\ FsLba = call.lba + call.done /\ FsLba \in Nat
           /\ call.pc \in {"slice", "fetch", "store"} => NativeOf(slots, 0) = Ratio /\ SliceIdx = FsLba % Ratio
BY AtXlate, SMTT(20) DEF StorageTypeOK, CallInv, FsLba, SliceIdx, Calls, Pairs, Ports, Answers

----------------------------------------------------------------------------
(* The command that a call waits for is executed, or a part of it.         *)

\* On disk, q is p but for sectors that have got the data of the call.
OnlyOwn(disk, lba, buf, p, q) ==
    /\ \A d \in DOMAIN p \ {disk} : q[d] = p[d]
    /\ \A s \in 0..Sectors - 1 :
          q[disk][s] = p[disk][s] \/ \E j \in 1..Len(buf) : s = lba + j - 1 /\ q[disk][s] = buf[j]

LEMMA ReadWhole ==
    ASSUME StorageTypeOK, CallInv, call.pc = "whole", call.op = "read",
           NEW cmd \in Cmds, Expected(cmd), NEW ok \in BOOLEAN, NEW k \in 0..Sectors, Execute(cmd, ok, k),
           UNCHANGED <<devs, slots>>
    PROVE  /\ platter' = platter /\ bounce' = bounce
           /\ call'.buf \in Seq(SectorData) /\ Len(call'.buf) = Len(call.buf)
           /\ call' = [call EXCEPT !.buf = call'.buf]
           /\ ok => MovedTo(call.count)'
<1>1. /\ call.buf \in Seq(SectorData) /\ DOMAIN call.buf = 1..call.count /\ Len(call.buf) = call.count
      /\ call.count \in Nat /\ call.lba \in Nat
  BY AtCall
<1>2. /\ Here[1] \in DOMAIN platter /\ platter[Here[1]] \in [0..Sectors - 1 -> SectorData]
      /\ Here = <<BlockGet(call.dev).disk, call.lba>>
  BY AtCall, AtDevice
<1>3. PICK p : p = platter[Here[1]]
  OBVIOUS
<1>4. /\ cmd.op = "read" /\ cmd.mem = "caller" /\ cmd.disk = Here[1]
      /\ First(cmd) = call.lba /\ Size(cmd) = call.count
  BY DEF Expected
<1>5. /\ call.lba + call.count <= Sectors \/ (~ok /\ k = 0)
      /\ k <= call.count /\ (ok => k = call.count)
      /\ platter' = platter /\ bounce' = bounce
      /\ call' = [call EXCEPT !.buf = [i \in DOMAIN call.buf |->
                              IF i <= k THEN p[call.lba + i - 1] ELSE call.buf[i]]]
  BY <1>3, <1>4 DEF Execute
<1>6. PICK b : b = [i \in 1..call.count |-> IF i <= k THEN p[call.lba + i - 1] ELSE call.buf[i]]
  OBVIOUS
<1>7. call' = [call EXCEPT !.buf = b] /\ call'.buf = b
  BY <1>1, <1>5, <1>6 DEF StorageTypeOK, Calls, Pairs, Ports, Answers
<1>8. \A i \in 1..call.count : b[i] \in SectorData
  <2> SUFFICES ASSUME NEW i \in 1..call.count PROVE b[i] \in SectorData
    OBVIOUS
  <2>1. CASE i <= k
    <3>1. call.lba + i - 1 \in 0..Sectors - 1 /\ b[i] = p[call.lba + i - 1]
      BY <1>1, <1>5, <1>6, <2>1, SMTT(20)
    <3> QED BY <1>2, <1>3, <3>1
  <2>2. CASE ~ (i <= k)
    BY <1>1, <1>6, <2>2
  <2> QED BY <2>1, <2>2
<1>9. b \in Seq(SectorData) /\ Len(b) = call.count
  <2>1. b \in [1..call.count -> SectorData]
    BY <1>6, <1>8
  <2> QED BY <1>1, <2>1
<1>10. ASSUME ok PROVE MovedTo(call.count)'
  <2>1. call.lba' = call.lba /\ call.count' = call.count /\ call.dev' = call.dev
    BY <1>7 DEF StorageTypeOK, Calls, Pairs, Ports, Answers
  <2>2. Here' = Here
    BY <2>1 DEF Here, BlockGet
  <2>3. \A j \in 1..call.count : b[j] = p[call.lba + j - 1]
    BY <1>1, <1>5, <1>6, <1>10
  <2> QED BY <1>3, <1>5, <1>7, <1>10, <2>1, <2>2, <2>3 DEF MovedTo
<1> QED BY <1>1, <1>5, <1>7, <1>9, <1>10

LEMMA ReadBlock ==
    ASSUME StorageTypeOK, CallInv, call.pc = "fetch",
           NEW cmd \in Cmds, Expected(cmd), NEW ok \in BOOLEAN, NEW k \in 0..Sectors, Execute(cmd, ok, k),
           UNCHANGED <<devs, slots>>
    PROVE  /\ platter' = platter /\ bounce' \in Blocks /\ call' = call
           /\ ok => Fetched(FALSE)'
<1>1. /\ Here[1] \in DOMAIN platter /\ platter[Here[1]] \in [0..Sectors - 1 -> SectorData]
      /\ FsLba \in Nat /\ Base(FsLba) \in Nat
  BY AtCall, AtDevice, InBlock
<1>2. PICK p, f : p = platter[Here[1]] /\ f = Base(FsLba)
  OBVIOUS
<1>3. /\ cmd.op = "read" /\ cmd.mem = "bounce" /\ cmd.disk = Here[1]
      /\ First(cmd) = f /\ Size(cmd) = Ratio
  BY <1>2 DEF Expected
<1>4. /\ f + Ratio <= Sectors \/ (~ok /\ k = 0)
      /\ k <= Ratio /\ (ok => k = Ratio)
      /\ platter' = platter /\ call' = call
      /\ bounce' = [i \in DOMAIN bounce |-> IF i < k THEN p[f + i] ELSE bounce[i]]
  BY <1>2, <1>3 DEF Execute
<1>5. bounce' = [i \in 0..Ratio - 1 |-> IF i < k THEN p[f + i] ELSE bounce[i]]
  BY <1>4 DEF StorageTypeOK, Blocks, Calls, Pairs, Ports, Answers
<1>6. ASSUME NEW i \in 0..Ratio - 1 PROVE bounce'[i] \in SectorData
  <2>1. CASE i < k
    BY <1>1, <1>2, <1>4, <1>5, <2>1
  <2>2. CASE ~ (i < k)
    BY <1>5, <2>2 DEF StorageTypeOK, Blocks, Calls, Pairs, Ports, Answers
  <2> QED BY <2>1, <2>2
<1>7. bounce' \in Blocks
  BY <1>5, <1>6 DEF Blocks
<1>8. ASSUME ok PROVE Fetched(FALSE)'
  <2>1. FsLba' = FsLba /\ Here' = Here
    BY <1>4 DEF FsLba, Here, BlockGet
  <2>2. Base(FsLba)' = f /\ platter[Here[1]]' = p
    BY <1>2, <1>4, <2>1 DEF Base
  <2>3. \A i \in 0..Ratio - 1 : bounce'[i] = p[f + i]
    BY <1>4, <1>5, <1>8
  <2> QED BY <1>4, <1>8, <2>2, <2>3 DEF Fetched
<1> QED BY <1>4, <1>7, <1>8

LEMMA WriteWhole ==
    ASSUME StorageTypeOK, CallInv, call.pc = "whole", call.op = "write",
           NEW cmd \in Cmds, Expected(cmd), NEW ok \in BOOLEAN, NEW k \in 0..Sectors, Execute(cmd, ok, k),
           UNCHANGED <<devs, slots>>
    PROVE  /\ bounce' = bounce /\ call' = call
           /\ platter' \in [DOMAIN platter -> [0..Sectors - 1 -> SectorData]]
           /\ OnlyOwn(Here[1], call.lba, call.buf, platter, platter')
           /\ ok => MovedTo(call.count)'
<1>1. /\ call.buf \in Seq(SectorData) /\ DOMAIN call.buf = 1..call.count /\ Len(call.buf) = call.count
      /\ call.count \in Nat /\ call.lba \in Nat
  BY AtCall
<1>2. /\ Here[1] \in DOMAIN platter /\ platter[Here[1]] \in [0..Sectors - 1 -> SectorData]
  BY AtCall, AtDevice
<1>3. PICK p, h : p = platter[Here[1]] /\ h = Here[1]
  OBVIOUS
<1>4. /\ cmd.op = "write" /\ cmd.mem = "caller" /\ cmd.disk = h
      /\ First(cmd) = call.lba /\ Size(cmd) = call.count
  BY <1>3 DEF Expected
<1>5. /\ call.lba + call.count <= Sectors \/ (~ok /\ k = 0)
      /\ k <= call.count /\ (ok => k = call.count)
      /\ bounce' = bounce /\ call' = call
  BY <1>4 DEF Execute
<1>6. PICK beyond \in SectorData :
          platter' = [platter EXCEPT ![h] = [s \in DOMAIN platter[h] |->
              IF s - call.lba \notin 0..k - 1 THEN platter[h][s]
              ELSE IF s - call.lba < Len(call.buf) THEN call.buf[s - call.lba + 1] ELSE beyond]]
  BY <1>4 DEF Execute
<1>7. PICK q : q = [s \in 0..Sectors - 1 |->
              IF s - call.lba \notin 0..k - 1 THEN p[s]
              ELSE IF s - call.lba < Len(call.buf) THEN call.buf[s - call.lba + 1] ELSE beyond]
  OBVIOUS
<1>8. platter' = [platter EXCEPT ![h] = q]
  BY <1>2, <1>3, <1>6, <1>7
<1>9. \A s \in 0..Sectors - 1 :
          \/ s - call.lba \notin 0..k - 1 /\ q[s] = p[s]
          \/ s - call.lba + 1 \in 1..call.count /\ q[s] = call.buf[s - call.lba + 1]
  <2> SUFFICES ASSUME NEW s \in 0..Sectors - 1, s - call.lba \in 0..k - 1
               PROVE  s - call.lba + 1 \in 1..call.count /\ q[s] = call.buf[s - call.lba + 1]
    BY <1>7
  <2>1. s - call.lba + 1 \in 1..call.count /\ s - call.lba < Len(call.buf)
    BY <1>1, <1>5
  <2> QED BY <1>7, <2>1
<1>10. q \in [0..Sectors - 1 -> SectorData]
  <2>1. ASSUME NEW s \in 0..Sectors - 1 PROVE q[s] \in SectorData
    <3>1. p[s] \in SectorData
      BY <1>2, <1>3
    <3>2. \A i \in 1..call.count : call.buf[i] \in SectorData
      BY <1>1
    <3> QED BY <1>9, <3>1, <3>2
  <2> QED BY <1>7, <2>1
<1>11. platter' \in [DOMAIN platter -> [0..Sectors - 1 -> SectorData]] /\ platter'[h] = q
  BY <1>2, <1>3, <1>8, <1>10 DEF StorageTypeOK, Calls, Pairs, Ports, Answers
<1>12. OnlyOwn(h, call.lba, call.buf, platter, platter')
  <2>1. \A d \in DOMAIN platter \ {h} : platter'[d] = platter[d]
    BY <1>8
  <2>2. ASSUME NEW s \in 0..Sectors - 1
        PROVE  q[s] = p[s] \/ \E j \in 1..Len(call.buf) : s = call.lba + j - 1 /\ q[s] = call.buf[j]
    <3>1. CASE q[s] = p[s]
      BY <3>1
    <3>2. CASE s - call.lba + 1 \in 1..call.count /\ q[s] = call.buf[s - call.lba + 1]
      BY <1>1, <3>2
    <3> QED BY <1>9, <3>1, <3>2
  <2> QED BY <1>3, <1>11, <2>1, <2>2 DEF OnlyOwn
<1>13. ASSUME ok PROVE MovedTo(call.count)'
  <2>1. Here' = Here
    BY <1>5 DEF Here, BlockGet
  <2>2. ASSUME NEW j \in 1..call.count PROVE call.buf[j] = q[call.lba + j - 1]
    <3>1. call.lba + j - 1 \in 0..Sectors - 1
      BY <1>1, <1>5, <1>13
    <3>2. (call.lba + j - 1) - call.lba = j - 1 /\ j - 1 \in 0..k - 1 /\ j - 1 < Len(call.buf) /\ (j - 1) + 1 = j
      BY <1>1, <1>5, <1>13
    <3> QED BY <1>7, <3>1, <3>2
  <2> QED BY <1>3, <1>5, <1>11, <1>13, <2>1, <2>2 DEF MovedTo
<1> QED BY <1>3, <1>5, <1>11, <1>12, <1>13

LEMMA WriteBlock ==
    ASSUME StorageTypeOK, CallInv, DataInv, call.pc = "store",
           NEW cmd \in Cmds, Expected(cmd), NEW ok \in BOOLEAN, NEW k \in 0..Sectors, Execute(cmd, ok, k),
           UNCHANGED <<devs, slots>>
    PROVE  /\ bounce' = bounce /\ call' = call
           /\ platter' \in [DOMAIN platter -> [0..Sectors - 1 -> SectorData]]
           /\ OnlyOwn(Here[1], call.lba, call.buf, platter, platter')
           /\ MovedTo(call.done)' /\ (ok => MovedTo(call.done + 1)')
<1>1. /\ call.buf \in Seq(SectorData) /\ DOMAIN call.buf = 1..call.count /\ Len(call.buf) = call.count
      /\ call.count \in Nat /\ call.lba \in Nat /\ call.done \in Nat /\ call.done < call.count
      /\ FsLba = call.lba + call.done /\ FsLba \in Nat
  BY AtCall DEF CallInv
<1>2. /\ Here[1] \in DOMAIN platter /\ platter[Here[1]] \in [0..Sectors - 1 -> SectorData]
  BY AtCall, AtDevice
<1>3. PICK f \in Nat, m \in 0..Ratio - 1 : f = Base(FsLba) /\ m = FsLba % Ratio /\ FsLba = f + m
  BY <1>1, InBlock
<1>4. PICK p, h : p = platter[Here[1]] /\ h = Here[1]
  OBVIOUS
<1>5. /\ cmd.op = "write" /\ cmd.mem = "bounce" /\ cmd.disk = h
      /\ First(cmd) = f /\ Size(cmd) = Ratio /\ Fetched(TRUE)
  BY <1>3, <1>4 DEF Expected
<1>6. /\ f + Ratio <= Sectors
      /\ k <= Ratio /\ (ok => k = Ratio)
      /\ bounce' = bounce /\ call' = call
  BY <1>3, <1>5 DEF Execute, Fetched
<1>7. \A i \in 0..Ratio - 1 : bounce[i] = IF i = m THEN call.buf[call.done + 1] ELSE p[f + i]
  BY <1>3, <1>4, <1>5 DEF Fetched
<1>8. PICK beyond \in SectorData :
          platter' = [platter EXCEPT ![h] = [s \in DOMAIN platter[h] |->
              IF s - f \notin 0..k - 1 THEN platter[h][s] ELSE bounce[s - f]]]
  BY <1>5 DEF Execute
<1>9. PICK q : q = [s \in 0..Sectors - 1 |-> IF s - f \notin 0..k - 1 THEN p[s] ELSE bounce[s - f]]
  OBVIOUS
<1>10. platter' = [platter EXCEPT ![h] = q]
  BY <1>2, <1>4, <1>8, <1>9
<1>11. ASSUME NEW s \in 0..Sectors - 1
       PROVE  q[s] = p[s] \/ (s = FsLba /\ q[s] = call.buf[call.done + 1])
  <2>1. CASE s - f \notin 0..k - 1
    BY <1>9, <2>1
  <2>2. CASE s - f \in 0..k - 1
    <3>1. s - f \in 0..Ratio - 1 /\ q[s] = bounce[s - f] /\ f + (s - f) = s
      BY <1>6, <1>9, <2>2
    <3> QED BY <1>3, <1>7, <3>1
  <2> QED BY <2>1, <2>2
<1>12. call.done + 1 \in 1..call.count
  BY <1>1
<1>13. q \in [0..Sectors - 1 -> SectorData]
  <2>1. ASSUME NEW s \in 0..Sectors - 1 PROVE q[s] \in SectorData
    <3>1. CASE q[s] = p[s]
      BY <1>2, <1>4, <3>1
    <3>2. CASE q[s] = call.buf[call.done + 1]
      BY <1>1, <1>12, <3>2
    <3> QED BY <1>11, <3>1, <3>2
  <2> QED BY <1>9, <2>1
<1>14. platter' \in [DOMAIN platter -> [0..Sectors - 1 -> SectorData]] /\ platter'[h] = q
  BY <1>2, <1>4, <1>10, <1>13 DEF StorageTypeOK, Calls, Pairs, Ports, Answers
<1>15. OnlyOwn(h, call.lba, call.buf, platter, platter')
  <2>1. \A d \in DOMAIN platter \ {h} : platter'[d] = platter[d]
    BY <1>10
  <2>2. ASSUME NEW s \in 0..Sectors - 1
        PROVE  q[s] = p[s] \/ \E j \in 1..Len(call.buf) : s = call.lba + j - 1 /\ q[s] = call.buf[j]
    <3>1. CASE q[s] = p[s]
      BY <3>1
    <3>2. CASE s = FsLba /\ q[s] = call.buf[call.done + 1]
      <4>1. s = call.lba + (call.done + 1) - 1
        BY <1>1, <3>2
      <4> QED BY <1>1, <1>12, <3>2, <4>1
    <3> QED BY <1>11, <3>1, <3>2
  <2> QED BY <1>4, <1>14, <2>1, <2>2 DEF OnlyOwn
<1>16. Here' = Here /\ call.pc' = "store"
  BY <1>6 DEF Here, BlockGet
<1>17. MovedTo(call.done)
  BY DEF DataInv
<1>18. \A j \in 1..call.done : call.lba + j - 1 \in 0..Sectors - 1 /\ call.buf[j] = q[call.lba + j - 1]
  <2> SUFFICES ASSUME NEW j \in 1..call.done
               PROVE  call.lba + j - 1 \in 0..Sectors - 1 /\ call.buf[j] = q[call.lba + j - 1]
    OBVIOUS
  <2>1. call.lba + j - 1 \in 0..Sectors - 1 /\ call.buf[j] = p[call.lba + j - 1]
    BY <1>1, <1>4, <1>17 DEF MovedTo
  <2>2. call.lba + j - 1 # FsLba
    BY <1>1
  <2> QED BY <1>11, <2>1, <2>2
<1>19. MovedTo(call.done)'
  BY <1>4, <1>6, <1>14, <1>16, <1>17, <1>18 DEF MovedTo
<1>20. ASSUME ok PROVE MovedTo(call.done + 1)'
  <2>1. FsLba \in 0..Sectors - 1 /\ FsLba - f = m /\ m \in 0..k - 1
    <3>1. k = Ratio /\ FsLba = f + m /\ f + Ratio <= Sectors
      BY <1>3, <1>6, <1>20
    <3> QED BY ONLY <3>1, f \in Nat, m \in 0..Ratio - 1, Ratio \in Nat, Sectors \in Nat
  <2>2. q[FsLba] = call.buf[call.done + 1]
    BY <1>7, <1>9, <2>1
  <2>3. call.lba + (call.done + 1) <= Sectors
    BY <1>1, <2>1, SMTT(20)
  <2>4. \A j \in 1..call.done + 1 : call.buf[j] = q[call.lba + j - 1]
    <3> SUFFICES ASSUME NEW j \in 1..call.done + 1 PROVE call.buf[j] = q[call.lba + j - 1]
      OBVIOUS
    <3>1. CASE j = call.done + 1
      <4>1. call.lba + j - 1 = FsLba
        BY <1>1, <3>1
      <4> QED BY <2>2, <3>1, <4>1
    <3>2. CASE j # call.done + 1
      BY <1>1, <1>18, <3>2
    <3> QED BY <3>1, <3>2
  <2> QED BY <1>4, <1>6, <1>14, <1>16, <2>3, <2>4 DEF MovedTo
<1> QED BY <1>4, <1>6, <1>14, <1>15, <1>19, <1>20

LEMMA ElementOf ==
    ASSUME NEW S, NEW s \in Seq(S), NEW i \in 1..Len(s) PROVE s[i] \in S
OBVIOUS

LEMMA SameTable ==
    ASSUME TableOK, UNCHANGED <<devs, slots, windows>>, DOMAIN platter' = DOMAIN platter
    PROVE  TableOK'
BY DEF TableOK, DeviceOk

LEMMA Executes ==
    ASSUME StorageInv, call.io = "busy",
           NEW cmd \in Cmds, Expected(cmd), NEW ok \in BOOLEAN, NEW k \in 0..Sectors, Execute(cmd, ok, k),
           UNCHANGED <<devs, slots, windows, late>>
    PROVE  /\ platter' \in [DOMAIN platter -> [0..Sectors - 1 -> SectorData]]
           /\ DOMAIN platter' = DOMAIN platter
           /\ bounce' \in Blocks
           /\ call'.buf \in Seq(SectorData) /\ Len(call'.buf) = call.count
           /\ call' = [call EXCEPT !.buf = call'.buf]
           /\ call.op = "write" => call' = call
           /\ \/ platter' = platter
              \/ call.op = "write" /\ OnlyOwn(Here[1], call.lba, call.buf, platter, platter')
           /\ call.pc \in {"fetch", "store"} => call' = call /\ MovedTo(call.done)'
           /\ ok => Executed'
<1>1. call.pc \in {"whole", "fetch", "store"} /\ call.op \in Op /\ Len(call.buf) = call.count
  BY DEF StorageInv, StorageTypeOK, CallInv, Calls, Pairs, Ports, Answers
<1>2. StorageTypeOK /\ CallInv /\ DataInv
  BY DEF StorageInv
<1>3. /\ platter \in [DOMAIN platter -> [0..Sectors - 1 -> SectorData]] /\ bounce \in Blocks
      /\ call.buf \in Seq(SectorData) /\ call = [call EXCEPT !.buf = call.buf]
  BY <1>2 DEF StorageTypeOK, Calls, Pairs, Ports, Answers
<1>4. CASE call.pc = "whole" /\ call.op = "read"
  <2>1. /\ platter' = platter /\ bounce' = bounce
        /\ call'.buf \in Seq(SectorData) /\ Len(call'.buf) = Len(call.buf)
        /\ call' = [call EXCEPT !.buf = call'.buf]
        /\ ok => MovedTo(call.count)'
    BY <1>2, <1>4, ReadWhole
  <2>2. call.pc' = "whole"
    BY <1>2, <1>4, <2>1 DEF StorageTypeOK, Calls, Pairs, Ports, Answers
  <2> QED BY <1>1, <1>3, <1>4, <2>1, <2>2 DEF Executed
<1>5. CASE call.pc = "whole" /\ call.op = "write"
  <2>1. /\ bounce' = bounce /\ call' = call
        /\ platter' \in [DOMAIN platter -> [0..Sectors - 1 -> SectorData]]
        /\ OnlyOwn(Here[1], call.lba, call.buf, platter, platter')
        /\ ok => MovedTo(call.count)'
    BY <1>2, <1>5, WriteWhole
  <2> QED BY <1>1, <1>3, <1>5, <2>1 DEF Executed
<1>6. CASE call.pc = "fetch"
  <2>1. /\ platter' = platter /\ bounce' \in Blocks /\ call' = call
        /\ ok => Fetched(FALSE)'
    BY <1>2, <1>6, ReadBlock
  <2>2. MovedTo(call.done)
    BY <1>2, <1>6 DEF DataInv
  <2>3. Here' = Here
    BY <2>1 DEF Here, BlockGet
  <2>4. MovedTo(call.done)'
    BY <2>1, <2>2, <2>3 DEF MovedTo
  <2> QED BY <1>1, <1>3, <1>6, <2>1, <2>4 DEF Executed
<1>7. CASE call.pc = "store"
  <2>1. /\ bounce' = bounce /\ call' = call
        /\ platter' \in [DOMAIN platter -> [0..Sectors - 1 -> SectorData]]
        /\ OnlyOwn(Here[1], call.lba, call.buf, platter, platter')
        /\ MovedTo(call.done)' /\ (ok => MovedTo(call.done + 1)')
    BY <1>2, <1>7, WriteBlock
  <2>2. call.op = "write"
    BY <1>2, <1>7 DEF CallInv
  <2> QED BY <1>1, <1>3, <1>7, <2>1, <2>2 DEF Executed
<1> QED BY <1>1, <1>4, <1>5, <1>6, <1>7 DEF Op

\* A command that was given up is executed.
LEMMA Straggles ==
    ASSUME StorageInv, late # {},
           NEW cmd \in Cmds, Harmless(cmd), NEW ok \in BOOLEAN, NEW k \in 0..Sectors, Execute(cmd, ok, k)
    PROVE  /\ call' = call /\ bounce' \in Blocks
           /\ platter' \in [DOMAIN platter -> [0..Sectors - 1 -> SectorData]]
           /\ \A d \in DOMAIN platter, s \in 0..Sectors - 1 :
                 <<d, s>> \notin late => platter'[d][s] = platter[d][s]
<1>1. /\ platter \in [DOMAIN platter -> [0..Sectors - 1 -> SectorData]]
      /\ bounce \in Blocks /\ DOMAIN bounce = 0..Ratio - 1
      /\ cmd.disk \in DOMAIN platter /\ cmd.mem \in {"bounce", "gone"}
      /\ platter[cmd.disk] \in [0..Sectors - 1 -> SectorData]
  BY DEF StorageInv, StorageTypeOK, Harmless, Cmds, Blocks, Calls, Pairs, Ports, Answers
<1>2. PICK h, p : h = cmd.disk /\ p = platter[h]
  OBVIOUS
<1>3. First(cmd) \in Nat /\ Size(cmd) \in Nat
  <2>1. cmd.lba \in Nat /\ cmd.count \in Nat /\ Unit(cmd.disk) \in Nat
    BY DEF Cmds, Unit
  <2>2. \A a, b \in Nat : a * b \in Nat
    OBVIOUS
  <2> QED BY <2>1, <2>2 DEF First, Size
<1>4. PICK f \in Nat, n \in Nat : f = First(cmd) /\ n = Size(cmd)
  BY <1>3
<1>5. (f + n <= Sectors \/ k = 0) /\ k <= n
  BY <1>4 DEF Execute
<1>6. CASE cmd.op = "read"
  <2>1. /\ platter' = platter /\ call' = call
        /\ \/ bounce' = bounce
           \/ bounce' = [i \in DOMAIN bounce |-> IF i < k THEN p[f + i] ELSE bounce[i]]
    BY <1>1, <1>2, <1>4, <1>6 DEF Execute
  <2>2. ASSUME bounce' = [i \in DOMAIN bounce |-> IF i < k THEN p[f + i] ELSE bounce[i]]
        PROVE  bounce' \in Blocks
    <3>1. bounce' = [i \in 0..Ratio - 1 |-> IF i < k THEN p[f + i] ELSE bounce[i]]
      BY <1>1, <2>2
    <3>2. ASSUME NEW i \in 0..Ratio - 1 PROVE bounce'[i] \in SectorData
      <4>1. CASE i < k
        <5>1. f + i \in 0..Sectors - 1
          BY <1>5, <4>1
        <5> QED BY <1>1, <1>2, <3>1, <4>1, <5>1
      <4>2. CASE ~ (i < k)
        BY <1>1, <3>1, <4>2 DEF Blocks
      <4> QED BY <4>1, <4>2
    <3> QED BY <3>1, <3>2 DEF Blocks
  <2> QED BY <1>1, <2>1, <2>2
<1>7. CASE cmd.op = "write"
  <2>1. bounce' = bounce /\ call' = call
    BY <1>7 DEF Execute
  <2>2. PICK beyond \in SectorData :
            platter' = [platter EXCEPT ![h] = [s \in DOMAIN platter[h] |->
                IF s - f \notin 0..k - 1 THEN platter[h][s]
                ELSE IF cmd.mem = "bounce" THEN bounce[s - f]
                ELSE IF cmd.mem = "caller" /\ s - f < Len(call.buf) THEN call.buf[s - f + 1] ELSE beyond]]
    BY <1>2, <1>4, <1>7 DEF Execute
  <2>3. PICK q : q = [s \in 0..Sectors - 1 |->
                IF s - f \notin 0..k - 1 THEN p[s]
                ELSE IF cmd.mem = "bounce" THEN bounce[s - f]
                ELSE IF cmd.mem = "caller" /\ s - f < Len(call.buf) THEN call.buf[s - f + 1] ELSE beyond]
    OBVIOUS
  <2>4. platter' = [platter EXCEPT ![h] = q]
    BY <1>1, <1>2, <2>2, <2>3
  <2>5. ASSUME NEW s \in 0..Sectors - 1 PROVE q[s] \in SectorData
    <3>1. CASE s - f \notin 0..k - 1
      BY <1>1, <1>2, <2>3, <3>1
    <3>2. CASE s - f \in 0..k - 1 /\ cmd.mem = "bounce"
      <4>1. n <= Ratio
        BY <1>4, <3>2 DEF Harmless
      <4>2. s - f \in 0..Ratio - 1 /\ q[s] = bounce[s - f]
        BY <1>5, <2>3, <3>2, <4>1
      <4> QED BY <1>1, <4>2 DEF Blocks
    <3>3. CASE s - f \in 0..k - 1 /\ cmd.mem # "bounce"
      BY <1>1, <2>3, <3>3
    <3> QED BY <3>1, <3>2, <3>3
  <2>6. platter' \in [DOMAIN platter -> [0..Sectors - 1 -> SectorData]] /\ platter'[h] = q
    BY <1>1, <1>2, <2>3, <2>4, <2>5
  <2>7. ASSUME NEW s \in 0..Sectors - 1, <<h, s>> \notin late PROVE q[s] = p[s]
    <3>1. CASE s - f \notin 0..k - 1
      BY <2>3, <3>1
    <3>2. CASE s - f \in 0..k - 1
      <4>1. s - f \in 0..n - 1 /\ f + (s - f) = s
        BY <1>5, <3>2
      <4>2. cmd.mem = "bounce" /\ bounce[s - f] = p[s]
        BY <1>2, <1>4, <1>7, <2>7, <4>1 DEF Harmless
      <4> QED BY <2>3, <3>2, <4>2
    <3> QED BY <3>1, <3>2
  <2>8. \A d \in DOMAIN platter \ {h} : platter'[d] = platter[d]
    BY <2>4
  <2> QED BY <1>1, <1>2, <2>1, <2>6, <2>7, <2>8
<1> QED BY <1>6, <1>7 DEF Execute

----------------------------------------------------------------------------
(* What each step does to the invariant.                                   *)

LEMMA QuietStep ==
    ASSUME StorageInv, late = {}, call.io # "busy", UNCHANGED <<nvme, sata, late>>, call'.io # "busy"
    PROVE  QueuesInv'
BY DEF StorageInv, QueuesInv, PhasesOk, NvmeQuiet, InStep

LEMMA Submits ==
    ASSUME StorageInv, late = {}, call.io # "busy", UNCHANGED <<devs, late>>,
           NEW pc, NEW cmd \in Cmds, Submit(cmd, pc), call.dev < Len(devs), cmd.disk = Here[1], Expected(cmd)'
    PROVE  /\ QueuesInv'
           /\ nvme' \in Pairs
           /\ sata' \in Ports
<1>1. NvmeQuiet /\ ~sata.ci /\ PhasesOk /\ StorageTypeOK
  BY DEF StorageInv, QueuesInv
<1>2. call'.io = "busy" /\ call'.dev = call.dev /\ call'.lba = call.lba
  BY <1>1 DEF Submit, StorageTypeOK, Calls, Pairs, Ports, Answers
<1>3. Here' = Here
  BY <1>2 DEF Here, BlockGet
<1>4. CASE cmd.disk = "sata"
  <2>1. nvme' = nvme /\ sata' = [sata EXCEPT !.cmd = cmd, !.ci = TRUE]
    BY <1>4 DEF Submit
  <2>2. sata' \in Ports /\ sata'.cmd = cmd /\ sata'.ci
    BY <1>1, <2>1 DEF StorageTypeOK, Calls, Pairs, Ports, Answers
  <2>3. Expected(sata.cmd)'
    BY <2>2 DEF Expected, First, Size, Unit
  <2>4. SataBusy'
    BY <1>1, <2>1, <2>2, <2>3 DEF SataBusy, NvmeQuiet, InStep
  <2> QED BY <1>1, <1>2, <1>3, <1>4, <2>1, <2>2, <2>4 DEF QueuesInv, PhasesOk, StorageTypeOK, Calls, Pairs, Ports, Answers
<1>5. CASE cmd.disk # "sata"
  <2>1. sata' = sata /\ nvme' = [nvme EXCEPT !.sq[nvme.tail] = cmd, !.tail = (@ + 1) % QDepth]
    BY <1>5 DEF Submit
  <2>2. nvme.tail \in Places /\ nvme.sq \in [Places -> Cmds]
    BY <1>1 DEF StorageTypeOK, Calls, Pairs, Ports, Answers
  <2>3. (nvme.tail + 1) % QDepth = Turn(nvme.tail) /\ Turn(nvme.tail) \in Places
    BY <2>2, TurnMod
  <2>4. /\ nvme' \in Pairs
        /\ nvme'.tail = Turn(nvme.tail) /\ nvme'.fetch = nvme.fetch /\ nvme'.head = nvme.head
        /\ nvme'.post = nvme.post /\ nvme'.phase = nvme.phase /\ nvme'.mark = nvme.mark /\ nvme'.cq = nvme.cq
        /\ nvme'.sq[nvme.tail] = cmd
    <3>1. PICK t \in Places, u \in Places, q \in [Places -> Cmds] :
              t = nvme.tail /\ u = Turn(nvme.tail) /\ q = [nvme.sq EXCEPT ![nvme.tail] = cmd]
      BY <2>2, <2>3
    <3>2. nvme' = [nvme EXCEPT !.sq = q, !.tail = u]
      BY <2>1, <2>3, <3>1
    <3>3. q[t] = cmd
      BY <2>2, <3>1
    <3> QED BY <1>1, <3>1, <3>2, <3>3 DEF StorageTypeOK, Calls, Pairs, Ports, Answers
  <2>5. nvme'.sq[nvme'.fetch] = cmd
    BY <1>1, <2>4 DEF NvmeQuiet
  <2>6. Expected(nvme.sq[nvme.fetch])'
    BY <2>5 DEF Expected, First, Size, Unit
  <2>7. NvmePending'
    BY <1>1, <2>4 DEF NvmePending, NvmeQuiet, InStep, Turn
  <2>8. NvmeBusy'
    BY <1>1, <2>1, <2>6, <2>7 DEF NvmeBusy
  <2>9. PhasesOk'
    BY <1>1, <2>4 DEF PhasesOk
  <2> QED BY <1>1, <1>2, <1>3, <1>5, <2>1, <2>4, <2>8, <2>9 DEF QueuesInv, StorageTypeOK, Calls, Pairs, Ports, Answers
<1> QED BY <1>4, <1>5

LEMMA CallEnds ==
    ASSUME StorageInv, call.pc # "idle", call.io # "busy", NEW ok \in BOOLEAN, Return(ok),
           UNCHANGED <<devs, slots, windows, platter, bounce, nvme, sata, late>>
    PROVE  StorageInv'
<1>1. StorageTypeOK /\ CallInv /\ late = {}
  BY DEF StorageInv, CallInv
<1>2. call' = NoCall /\ NoCall.pc = "idle" /\ NoCall.io = "none"
  BY DEF Return, NoCall
<1>3. answer' \in Answers
  <2>1. Here \in Disks \X Nat
    BY <1>1, AtCall, AtDevice
  <2>2. call.buf \in Seq(SectorData)
    BY <1>1, AtCall
  <2> QED BY <2>1, <2>2 DEF Return, Answers
<1>4. NoCall \in Calls
  BY DEF NoCall, Calls
<1>5. StorageTypeOK'
  <2>1. TableOK'
    BY <1>1, SameTable DEF StorageTypeOK, Calls, Pairs, Ports, Answers
  <2> QED BY <1>1, <1>2, <1>3, <1>4, <2>1 DEF StorageTypeOK, Calls, Pairs, Ports, Answers
<1>6. QueuesInv'
  BY <1>1, <1>2, QuietStep
<1>7. CallInv' /\ DataInv'
  BY <1>2 DEF CallInv, DataInv, AtDisk
<1> QED BY <1>5, <1>6, <1>7 DEF StorageInv

LEMMA RegisterKeeps ==
    ASSUME StorageInv, NEW parent \in 0..Len(devs) - 1, NEW e \in [in_use : BOOLEAN, start : Nat, length : Nat],
           RegisterPartition(parent, e)
    PROVE  StorageInv'
<1>1. /\ UNCHANGED <<slots, platter, bounce, call, answer, nvme, sata, late>>
      /\ call = NoCall /\ call.pc = "idle" /\ call.io = "none"
  BY DEF RegisterPartition, StorageInv, CallInv
<1>2. TableOK /\ StorageTypeOK
  BY DEF StorageInv, StorageTypeOK, Calls, Pairs, Ports, Answers
<1>3. PICK w \in [parent : Nat, start : Nat, length : Nat] :
          w = [parent |-> parent, start |-> e.start, length |-> e.length]
  <2>1. parent \in Nat /\ e.start \in Nat /\ e.length \in Nat
    BY <1>2 DEF TableOK
  <2> QED BY <2>1
<1>4. windows' = Append(windows, w) /\ w.parent = parent
  BY <1>3 DEF RegisterPartition
<1>5. /\ windows' \in Seq([parent : Nat, start : Nat, length : Nat]) /\ Len(windows') = Len(windows) + 1
      /\ \A i \in 1..Len(windows) : windows'[i] = windows[i]
      /\ windows'[Len(windows) + 1] = w /\ Len(windows) \in Nat
  BY <1>2, <1>4 DEF TableOK
<1>6. parent + 1 \in 1..Len(devs) /\ BlockGet(parent) \in Whole \cup WindowDev /\ DeviceOk(BlockGet(parent))
      /\ Len(devs) \in Nat
  BY <1>2 DEF TableOK, BlockGet
<1>7. PICK d \in WindowDev : d = [disk |-> BlockGet(parent).disk, view |-> "window", lbs |-> 1,
                                  total |-> e.length, wi |-> Len(windows)]
  BY <1>5, <1>6 DEF Whole, WindowDev
<1>8. devs' = devs \/ devs' = Append(devs, d)
  BY <1>7 DEF RegisterPartition
<1>9. DeviceOk(d)' /\ \A c \in Whole \cup WindowDev : DeviceOk(c) => DeviceOk(c)'
  <2>1. d.disk \in DOMAIN platter /\ d.view = "window" /\ d.wi = Len(windows)
    BY <1>6, <1>7 DEF DeviceOk
  <2>2. DeviceOk(d)'
    BY <1>1, <1>5, <2>1 DEF DeviceOk
  <2>3. ASSUME NEW c \in Whole \cup WindowDev, DeviceOk(c) PROVE DeviceOk(c)'
    <3>1. CASE c.view = "window"
      <4>1. c.wi \in Nat
        BY <3>1 DEF Whole, WindowDev
      <4> QED BY <1>1, <1>5, <2>3, <3>1, <4>1 DEF DeviceOk
    <3>2. CASE c.view # "window"
      BY <1>1, <2>3, <3>2 DEF DeviceOk
    <3> QED BY <3>1, <3>2
  <2> QED BY <2>2, <2>3
<1>10. \A i \in 1..Len(windows') : windows'[i].parent < Len(devs)
  <2>1. ASSUME NEW i \in 1..Len(windows') PROVE windows'[i].parent < Len(devs)
    <3>1. CASE i = Len(windows) + 1
      BY <1>4, <1>5, <1>6, <3>1
    <3>2. CASE i # Len(windows) + 1
      <4>1. i \in 1..Len(windows)
        BY <1>5, <3>2
      <4> QED BY <1>2, <1>5, <4>1 DEF TableOK
    <3> QED BY <3>1, <3>2
  <2> QED BY <2>1
<1>11. TableOK'
  <2>1. CASE devs' = devs
    <3>1. \A i \in 1..Len(devs) : devs[i] \in Whole \cup WindowDev /\ DeviceOk(devs[i])
      BY <1>2 DEF TableOK
    <3>2. \A i \in 1..Len(devs) : DeviceOk(devs[i])'
      BY <1>9, <2>1, <3>1 DEF DeviceOk
    <3> QED BY <1>1, <1>2, <1>5, <1>10, <2>1, <3>2 DEF TableOK
  <2>2. CASE devs' = Append(devs, d)
    <3>1. /\ devs' \in Seq(Whole \cup WindowDev) /\ Len(devs') = Len(devs) + 1
          /\ \A i \in 1..Len(devs) : devs'[i] = devs[i]
          /\ devs'[Len(devs) + 1] = d
      BY <1>2, <1>6, <2>2 DEF TableOK
    <3>2. \A i \in 1..Len(devs) : devs[i] \in Whole \cup WindowDev /\ DeviceOk(devs[i])
      BY <1>2 DEF TableOK
    <3>3. ASSUME NEW i \in 1..Len(devs') PROVE DeviceOk(devs[i])'
      <4>1. CASE i = Len(devs) + 1
        <5>1. devs[i]' = d
          BY <3>1, <4>1
        <5> QED BY <1>9, <5>1 DEF DeviceOk
      <4>2. CASE i # Len(devs) + 1
        <5>1. i \in 1..Len(devs) /\ devs[i]' = devs[i]
          <6>0. PICK m \in Nat : m = Len(devs) /\ m + 1 = Len(devs')
            BY <1>6, <3>1
          <6>1. i \in 1..Len(devs)
            BY ONLY <4>2, <6>0, i \in 1..Len(devs'), m \in Nat
          <6> QED BY <3>1, <6>1
        <5>2. PICK c \in Whole \cup WindowDev : c = devs[i] /\ DeviceOk(c)
          BY <3>2, <5>1
        <5> QED BY <1>9, <5>1, <5>2 DEF DeviceOk
      <4> QED BY <4>1, <4>2
    <3>4. \A i \in 1..Len(windows') : windows'[i].parent < Len(devs')
      <4> SUFFICES ASSUME NEW i \in 1..Len(windows') PROVE windows'[i].parent < Len(devs')
        OBVIOUS
      <4>1. windows'[i] \in [parent : Nat, start : Nat, length : Nat]
        <5>1. PICK v \in Seq([parent : Nat, start : Nat, length : Nat]) : v = windows'
          BY <1>5
        <5>2. i \in 1..Len(v) /\ v[i] = windows'[i]
          BY <5>1
        <5>3. v[i] \in [parent : Nat, start : Nat, length : Nat]
          BY <5>2, ElementOf
        <5> QED BY <5>2, <5>3
      <4>2. windows'[i].parent \in Nat /\ windows'[i].parent < Len(devs)
        BY <1>10, <4>1
      <4> QED BY <1>6, <3>1, <4>2
    <3> QED BY <1>1, <1>2, <1>5, <3>1, <3>3, <3>4 DEF TableOK
  <2> QED BY <1>8, <2>1, <2>2
<1>12. StorageTypeOK'
  BY <1>1, <1>2, <1>11 DEF StorageTypeOK, Calls, Pairs, Ports, Answers
<1>13. CallInv' /\ DataInv'
  BY <1>1 DEF StorageInv, CallInv, DataInv, AtDisk, NoCall
<1>14. QueuesInv'
  BY <1>1 DEF StorageInv, QueuesInv, PhasesOk, NvmeQuiet, InStep, Harmless, First, Size, Unit
<1> QED BY <1>12, <1>13, <1>14 DEF StorageInv

\* A call moves on while its device has nothing to do, and the disk stays as it is.
LEMMA MovesOn ==
    ASSUME StorageInv, late = {}, call.io # "busy", call'.io # "busy",
           UNCHANGED <<devs, slots, windows, platter, bounce, nvme, sata, late>>,
           call' \in Calls, answer' \in Answers
    PROVE  StorageTypeOK' /\ QueuesInv'
<1>1. TableOK'
  BY SameTable DEF StorageInv, StorageTypeOK
<1> QED BY <1>1, QuietStep DEF StorageInv, StorageTypeOK

LEMMA BlockCallKeeps ==
    ASSUME StorageInv, NEW idx \in 0..Len(devs) - 1, NEW op \in Op, NEW lba \in Nat,
           NEW buf \in Seq(SectorData) \ {<<>>}, BlockCall(idx, op, lba, buf)
    PROVE  StorageInv'
<1>1. /\ UNCHANGED <<devs, slots, windows, platter, bounce, nvme, sata, late>>
      /\ late = {} /\ call.pc = "idle" /\ call.io = "none" /\ answer' = NoAnswer
  BY DEF BlockCall, StorageInv, CallInv
<1>2. idx \in Nat /\ Len(buf) \in Nat \ {0} /\ idx < Len(devs)
  <2>1. devs \in Seq(Whole \cup WindowDev)
    BY DEF StorageInv, StorageTypeOK, TableOK
  <2> QED BY <2>1
<1>3. call' = [pc |-> "thunk", io |-> "none", op |-> op, dev |-> idx, lba |-> lba, count |-> Len(buf),
               buf |-> buf, done |-> 0]
  BY DEF BlockCall, NoCall
<1>4. call' \in Calls /\ answer' \in Answers
  BY <1>1, <1>2, <1>3 DEF Calls, Answers, NoAnswer
<1>5. call'.io # "busy"
  BY <1>3
<1>6. StorageTypeOK' /\ QueuesInv'
  BY <1>1, <1>4, <1>5, MovesOn
<1>7. CallInv' /\ DataInv'
  BY <1>1, <1>2, <1>3 DEF CallInv, DataInv, AtDisk
<1> QED BY <1>6, <1>7 DEF StorageInv

LEMMA WindowKeeps ==
    ASSUME StorageInv, Window PROVE StorageInv'
<1>1. /\ UNCHANGED <<devs, slots, windows, platter, bounce, nvme, sata, late>>
      /\ call.pc = "thunk" /\ call.pc # "idle" /\ call.io = "none" /\ call.done = 0
      /\ call.dev < Len(devs) /\ BlockGet(call.dev).view = "window"
  BY DEF Window, StorageInv, CallInv
<1>2. StorageTypeOK /\ CallInv /\ TableOK
  BY DEF StorageInv, StorageTypeOK
<1>3. /\ late = {} /\ call.op \in Op /\ call.buf \in Seq(SectorData) /\ Len(call.buf) = call.count
      /\ call.count \in Nat \ {0} /\ call.lba \in Nat
  BY <1>1, <1>2, AtCall
<1>4. PICK w : w = windows[BlockGet(call.dev).wi + 1]
  OBVIOUS
<1>5. w \in [parent : Nat, start : Nat, length : Nat] /\ w.parent < Len(devs)
  <2>1. BlockGet(call.dev) \in Whole \cup WindowDev /\ DeviceOk(BlockGet(call.dev))
    BY <1>1, <1>2, AtDevice
  <2>2. BlockGet(call.dev).wi \in Nat /\ BlockGet(call.dev).wi < Len(windows)
    BY <1>1, <2>1 DEF DeviceOk, Whole, WindowDev
  <2>3. Len(windows) \in Nat
    BY <1>2 DEF TableOK
  <2>4. BlockGet(call.dev).wi + 1 \in 1..Len(windows)
    BY <2>2, <2>3
  <2>5. w.parent < Len(devs) /\ windows \in Seq([parent : Nat, start : Nat, length : Nat])
    BY <1>2, <1>4, <2>4 DEF TableOK
  <2> QED BY <1>4, <2>4, <2>5, ElementOf
<1>6. CASE Return(FALSE)
  BY <1>1, <1>6, CallEnds
<1>7. CASE call' = [call EXCEPT !.dev = w.parent, !.lba = w.start + @] /\ answer' = answer
  <2>1. PICK p \in Nat, a \in Nat : p = w.parent /\ a = w.start + call.lba
    <3>1. w.parent \in Nat /\ w.start \in Nat
      BY <1>5
    <3> QED BY <1>3, <3>1
  <2>2. call' = [call EXCEPT !.dev = p, !.lba = a]
    BY <1>7, <2>1
  <2>3. /\ call' \in Calls /\ answer' \in Answers
        /\ call'.pc = "thunk" /\ call'.io = "none" /\ call'.done = 0 /\ call'.dev = w.parent
        /\ call'.op = call.op /\ call'.buf = call.buf /\ call'.count = call.count
    <3>1. call \in Calls /\ answer \in Answers
      BY <1>2 DEF StorageTypeOK
    <3>2. answer' \in Answers
      BY <1>7, <3>1
    <3>3. call' \in Calls /\ call'.pc = call.pc /\ call'.io = call.io /\ call'.done = call.done /\ call'.dev = p
          /\ call'.op = call.op /\ call'.buf = call.buf /\ call'.count = call.count
      BY ONLY <2>2, <3>1, p \in Nat, a \in Nat DEF Calls
    <3> QED BY <1>1, <2>1, <3>2, <3>3
  <2>4. StorageTypeOK' /\ QueuesInv'
    BY <1>1, <1>3, <2>3, MovesOn
  <2>5. CallInv' /\ DataInv'
    BY <1>1, <1>3, <1>5, <2>3 DEF CallInv, DataInv, AtDisk
  <2> QED BY <2>4, <2>5 DEF StorageInv
<1> QED BY <1>4, <1>6, <1>7 DEF Window

\* A command is submitted for the call as it is: the whole of it, or a block.
LEMMA SubmitKeeps ==
    ASSUME StorageInv, call.pc \in {"thunk", "slice", "fetch"}, call.io # "busy",
           BlockGet(call.dev).view \in {"native", "xlate"},
           NEW pc \in {"whole", "fetch", "store"}, NEW cmd \in Cmds, Submit(cmd, pc), cmd.disk = Here[1],
           UNCHANGED <<devs, slots, windows, platter, answer, late>>,
           pc # "whole" => /\ BlockGet(call.dev).view = "xlate" /\ call.pc # "thunk"
                           /\ pc = "store" => call.op = "write",
           bounce' \in Blocks, Expected(cmd)'
    PROVE  StorageInv'
<1>1. StorageTypeOK /\ CallInv /\ TableOK
  BY DEF StorageInv, StorageTypeOK
<1>2. /\ late = {} /\ call.dev < Len(devs) /\ call.op \in Op
      /\ Len(call.buf) = call.count /\ call.count > 0
  BY <1>1 DEF CallInv
<1>3. call' = [call EXCEPT !.pc = pc, !.io = "busy"]
  BY DEF Submit
<1>4. /\ call' \in Calls /\ call'.pc = pc /\ call'.io = "busy" /\ call'.op = call.op /\ call'.dev = call.dev
      /\ call'.lba = call.lba /\ call'.count = call.count /\ call'.buf = call.buf /\ call'.done = call.done
  BY <1>1, <1>3 DEF StorageTypeOK, Calls, Pairs, Ports, Answers
<1>5. QueuesInv' /\ nvme' \in Pairs /\ sata' \in Ports
  <2>1. UNCHANGED <<devs, late>>
    OBVIOUS
  <2> QED BY <1>2, <2>1, Submits DEF Pairs, Ports
<1>6. StorageTypeOK'
  <2>1. TableOK'
    BY <1>1, SameTable
  <2> QED BY <1>1, <1>4, <1>5, <2>1 DEF StorageTypeOK, Calls, Pairs, Ports, Answers
<1>7. CallInv'
  <2>1. pc # "whole" => call.done < call.count
    BY <1>1 DEF CallInv
  <2>2. BlockGet(call.dev)' = BlockGet(call.dev)
    BY <1>4 DEF BlockGet
  <2> QED BY <1>2, <1>4, <2>1, <2>2 DEF CallInv, AtDisk
<1>8. DataInv'
  <2>1. pc # "whole" => MovedTo(call.done)
    BY DEF StorageInv, DataInv
  <2>2. Here' = Here
    BY <1>4 DEF Here, BlockGet
  <2>3. pc # "whole" => MovedTo(call.done)'
    BY <1>4, <2>1, <2>2 DEF MovedTo
  <2> QED BY <1>4, <2>3 DEF DataInv
<1> QED BY <1>5, <1>6, <1>7, <1>8 DEF StorageInv

LEMMA NativeKeeps ==
    ASSUME StorageInv, Native PROVE StorageInv'
<1>1. /\ UNCHANGED <<devs, slots, windows, platter, bounce, late>>
      /\ call.pc = "thunk" /\ call.io = "none" /\ call.dev < Len(devs)
      /\ BlockGet(call.dev).view = "native"
  BY DEF Native, StorageInv, CallInv
<1>2. CASE Return(FALSE) /\ UNCHANGED <<nvme, sata>>
  BY <1>1, <1>2, CallEnds
<1>3. CASE Submit(Command(call.op, call.lba, call.count, "caller"), "whole") /\ UNCHANGED answer
  <2>1. StorageTypeOK /\ CallInv
    BY DEF StorageInv
  <2>2. /\ Unit(Here[1]) = 1 /\ Here[1] = BlockGet(call.dev).disk /\ Here[1] \in Disks
        /\ call.op \in Op /\ call.lba \in Nat /\ call.count \in Nat
    BY <1>1, <2>1, AtNative, AtDevice, AtCall
  <2>3. PICK cmd \in Cmds : cmd = Command(call.op, call.lba, call.count, "caller")
    BY <2>2 DEF Command, Cmds
  <2>4. /\ cmd.disk = Here[1] /\ cmd.op = call.op /\ cmd.mem = "caller"
        /\ First(cmd) = call.lba /\ Size(cmd) = call.count
    BY <2>2, <2>3 DEF Command, First, Size
  <2>5. Submit(cmd, "whole")
    BY <1>3, <2>3
  <2>6. call' = [call EXCEPT !.pc = "whole", !.io = "busy"]
    BY <2>5 DEF Submit
  <2>7. /\ call'.pc = "whole" /\ call'.op = call.op /\ call'.lba = call.lba /\ call'.count = call.count
        /\ call'.dev = call.dev
    BY <2>1, <2>6 DEF StorageTypeOK, Calls, Pairs, Ports, Answers
  <2>8. Here' = Here
    BY <1>1, <2>7 DEF Here, BlockGet
  <2>9. Expected(cmd)'
    BY <2>4, <2>7, <2>8 DEF Expected, First, Size, Unit
  <2>10. bounce' \in Blocks
    BY <1>1, <2>1 DEF StorageTypeOK, Calls, Pairs, Ports, Answers
  <2> QED BY <1>1, <1>3, <2>4, <2>5, <2>9, <2>10, SubmitKeeps
<1> QED BY <1>2, <1>3 DEF Native

LEMMA XlateKeeps ==
    ASSUME StorageInv, Xlate PROVE StorageInv'
<1>1. /\ call.pc = "thunk" /\ call.io = "none" /\ call.dev < Len(devs) /\ call.done = 0
      /\ BlockGet(call.dev).view = "xlate"
  BY DEF Xlate, StorageInv, CallInv
<1>2. StorageTypeOK /\ CallInv
  BY DEF StorageInv
<1>3. SlotFor(0) = slots /\ NativeOf(slots, 0) = Ratio /\ Unit(Here[1]) = Ratio
  BY <1>1, <1>2, AtXlate
<1>4. /\ UNCHANGED <<devs, slots, windows, platter, bounce, answer, late>>
      /\ \/ /\ call.lba % Ratio = 0 /\ call.count % Ratio = 0
            /\ Submit(Command(call.op, call.lba \div Ratio, call.count \div Ratio, "caller"), "whole")
         \/ call' = [call EXCEPT !.pc = "slice"] /\ UNCHANGED <<nvme, sata>>
  BY <1>3 DEF Xlate
<1>5. /\ late = {} /\ call.op \in Op /\ call.buf \in Seq(SectorData) /\ Len(call.buf) = call.count
      /\ call.count \in Nat \ {0} /\ call.lba \in Nat
      /\ Here[1] = BlockGet(call.dev).disk /\ Here[1] \in Disks
  BY <1>1, <1>2, AtCall, AtDevice
<1>6. CASE /\ call.lba % Ratio = 0 /\ call.count % Ratio = 0
           /\ Submit(Command(call.op, call.lba \div Ratio, call.count \div Ratio, "caller"), "whole")
  <2>1. PICK a \in Nat, b \in Nat : a = call.lba \div Ratio /\ b = call.count \div Ratio
    BY <1>5, DivMod
  <2>2. a * Ratio = call.lba /\ b * Ratio = call.count
    <3>1. a * Ratio = call.lba - (call.lba % Ratio) /\ b * Ratio = call.count - (call.count % Ratio)
      BY <1>5, <2>1, DivMod
    <3>2. a * Ratio = call.lba - 0 /\ b * Ratio = call.count - 0
      BY <1>6, <3>1
    <3> QED BY <1>5, <3>2
  <2>3. PICK cmd \in Cmds : cmd = Command(call.op, a, b, "caller")
    BY <1>5 DEF Command, Cmds
  <2>4. /\ cmd.disk = Here[1] /\ cmd.op = call.op /\ cmd.mem = "caller" /\ cmd.lba = a /\ cmd.count = b
    BY <1>5, <2>3 DEF Command
  <2>5. First(cmd) = call.lba /\ Size(cmd) = call.count
    BY <1>3, <2>2, <2>4 DEF First, Size
  <2>6. Submit(cmd, "whole")
    BY <1>6, <2>1, <2>3
  <2>7. call' = [call EXCEPT !.pc = "whole", !.io = "busy"]
    BY <2>6 DEF Submit
  <2>8. /\ call'.pc = "whole" /\ call'.op = call.op /\ call'.lba = call.lba /\ call'.count = call.count
        /\ call'.dev = call.dev
    BY <1>2, <2>7 DEF StorageTypeOK, Calls, Pairs, Ports, Answers
  <2>9. Here' = Here
    BY <1>4, <2>8 DEF Here, BlockGet
  <2>10. Expected(cmd)'
    BY <2>4, <2>5, <2>8, <2>9 DEF Expected, First, Size, Unit
  <2>11. bounce' \in Blocks
    BY <1>2, <1>4 DEF StorageTypeOK, Calls, Pairs, Ports, Answers
  <2> QED BY <1>1, <1>4, <2>4, <2>6, <2>10, <2>11, SubmitKeeps
<1>7. CASE call' = [call EXCEPT !.pc = "slice"] /\ UNCHANGED <<nvme, sata>>
  <2>1. /\ call' \in Calls /\ answer' \in Answers
        /\ call'.pc = "slice" /\ call'.io = "none" /\ call'.done = 0 /\ call'.dev = call.dev
        /\ call'.op = call.op /\ call'.buf = call.buf /\ call'.count = call.count /\ call'.lba = call.lba
    BY <1>1, <1>2, <1>4, <1>7 DEF StorageTypeOK, Calls, Pairs, Ports, Answers
  <2>2. StorageTypeOK' /\ QueuesInv'
    BY <1>1, <1>4, <1>5, <1>7, <2>1, MovesOn
  <2>3. BlockGet(call.dev)' = BlockGet(call.dev)
    BY <1>4, <2>1 DEF BlockGet
  <2>4. CallInv' /\ DataInv'
    BY <1>1, <1>4, <1>5, <2>1, <2>3 DEF CallInv, DataInv, AtDisk, MovedTo
  <2> QED BY <2>2, <2>4 DEF StorageInv
<1> QED BY <1>4, <1>6, <1>7

LEMMA BlockCommand ==
    ASSUME StorageTypeOK, CallInv, call.pc \in {"slice", "fetch"}, NEW op \in Op
    PROVE  LET cmd == Command(op, NativeLba, 1, "bounce")
           IN  /\ cmd \in Cmds /\ cmd.disk = Here[1] /\ cmd.op = op /\ cmd.mem = "bounce"
               /\ First(cmd) = Base(FsLba) /\ Size(cmd) = Ratio
<1>1. /\ call.dev < Len(devs) /\ BlockGet(call.dev).view = "xlate" /\ FsLba \in Nat
      /\ NativeOf(slots, 0) = Ratio /\ Unit(Here[1]) = Ratio
      /\ Here[1] = BlockGet(call.dev).disk /\ Here[1] \in Disks
  <2>1. call.dev < Len(devs) /\ BlockGet(call.dev).view = "xlate" /\ FsLba \in Nat
    BY AtCall DEF CallInv
  <2> QED BY <2>1, AtXlate, AtDevice
<1>2. PICK a \in Nat : a = FsLba \div Ratio /\ a = NativeLba
  BY <1>1, DivMod DEF NativeLba
<1>3. a * Ratio = Base(FsLba)
  BY <1>1, <1>2, InBlock
<1>4. PICK cmd \in Cmds : cmd = Command(op, a, 1, "bounce")
  BY <1>1 DEF Command, Cmds
<1>5. cmd.disk = Here[1] /\ cmd.op = op /\ cmd.mem = "bounce" /\ cmd.lba = a /\ cmd.count = 1
  BY <1>1, <1>4 DEF Command
<1>6. First(cmd) = Base(FsLba) /\ Size(cmd) = Ratio
  BY <1>1, <1>3, <1>5 DEF First, Size
<1> QED BY <1>2, <1>4, <1>5, <1>6

LEMMA SliceFetchKeeps ==
    ASSUME StorageInv, SliceFetch PROVE StorageInv'
<1>1. /\ UNCHANGED <<devs, slots, windows, platter, bounce, answer, late>>
      /\ call.pc = "slice" /\ call.io = "none" /\ BlockGet(call.dev).view = "xlate"
      /\ Submit(Command("read", NativeLba, 1, "bounce"), "fetch")
  BY DEF SliceFetch, StorageInv, CallInv
<1>2. StorageTypeOK /\ CallInv /\ bounce \in Blocks
  BY DEF StorageInv, StorageTypeOK
<1>3. PICK cmd \in Cmds :
          /\ cmd = Command("read", NativeLba, 1, "bounce")
          /\ cmd.disk = Here[1] /\ cmd.op = "read" /\ cmd.mem = "bounce"
          /\ First(cmd) = Base(FsLba) /\ Size(cmd) = Ratio
  BY <1>1, <1>2, BlockCommand DEF Op
<1>4. call' = [call EXCEPT !.pc = "fetch", !.io = "busy"]
  BY <1>1 DEF Submit
<1>5. call'.pc = "fetch" /\ call'.dev = call.dev /\ call'.lba = call.lba /\ call'.done = call.done
  BY <1>2, <1>4 DEF StorageTypeOK, Calls, Pairs, Ports, Answers
<1>6. Here' = Here /\ FsLba' = FsLba
  BY <1>1, <1>5 DEF Here, BlockGet, FsLba
<1>7. Expected(cmd)'
  BY <1>3, <1>5, <1>6 DEF Expected, First, Size, Unit, Base
<1> QED BY <1>1, <1>2, <1>3, <1>7, SubmitKeeps

LEMMA SlicePatchKeeps ==
    ASSUME StorageInv, SlicePatch PROVE StorageInv'
<1>1. /\ UNCHANGED <<devs, slots, windows, platter, answer, late>>
      /\ call.pc = "fetch" /\ call.io = "ok" /\ call.op = "write" /\ BlockGet(call.dev).view = "xlate"
      /\ bounce' = [bounce EXCEPT ![SliceIdx] = call.buf[call.done + 1]]
      /\ Submit(Command("write", NativeLba, 1, "bounce"), "store")
  BY DEF SlicePatch, StorageInv, CallInv
<1>2. StorageTypeOK /\ CallInv /\ bounce \in Blocks /\ Fetched(FALSE)
  BY <1>1 DEF StorageInv, StorageTypeOK, DataInv, Executed
<1>3. PICK cmd \in Cmds :
          /\ cmd = Command("write", NativeLba, 1, "bounce")
          /\ cmd.disk = Here[1] /\ cmd.op = "write" /\ cmd.mem = "bounce"
          /\ First(cmd) = Base(FsLba) /\ Size(cmd) = Ratio
  BY <1>1, <1>2, BlockCommand DEF Op
<1>4. call' = [call EXCEPT !.pc = "store", !.io = "busy"]
  BY <1>1 DEF Submit
<1>5. /\ call'.pc = "store" /\ call'.dev = call.dev /\ call'.lba = call.lba /\ call'.done = call.done
      /\ call'.buf = call.buf
  BY <1>2, <1>4 DEF StorageTypeOK, Calls, Pairs, Ports, Answers
<1>6. Here' = Here /\ FsLba' = FsLba
  BY <1>1, <1>5 DEF Here, BlockGet, FsLba
<1>7. /\ SliceIdx = FsLba % Ratio /\ FsLba % Ratio \in 0..Ratio - 1
      /\ call.buf[call.done + 1] \in SectorData
  <2>1. SliceIdx = FsLba % Ratio /\ FsLba \in Nat
    BY <1>1, <1>2, AtCall
  <2>2. call.done + 1 \in 1..call.count /\ call.buf \in Seq(SectorData) /\ Len(call.buf) = call.count
    <3>1. call.buf \in Seq(SectorData) /\ Len(call.buf) = call.count /\ call.count \in Nat /\ call.done \in Nat
      BY <1>1, <1>2, AtCall
    <3>2. call.done < call.count
      BY <1>1, <1>2 DEF CallInv
    <3> QED BY ONLY <3>1, <3>2
  <2>3. call.buf[call.done + 1] \in SectorData
    BY <2>2, ElementOf
  <2> QED BY <2>1, <2>3, InBlock
<1>8. bounce' \in Blocks
  BY <1>1, <1>2, <1>7 DEF Blocks
<1>9. Fetched(TRUE)'
  <2>1. PICK m \in 0..Ratio - 1 : m = FsLba % Ratio
    BY <1>7
  <2>6. PICK f : f = Base(FsLba)
    OBVIOUS
  <2>2. bounce' = [bounce EXCEPT ![m] = call.buf[call.done + 1]]
    BY <1>1, <1>7, <2>1
  <2>3. f + Ratio <= Sectors /\ \A i \in 0..Ratio - 1 : bounce[i] = platter[Here[1]][f + i]
    BY <1>2, <2>6 DEF Fetched
  <2>4. \A i \in 0..Ratio - 1 : bounce'[i] = IF i = m THEN call.buf[call.done + 1] ELSE platter[Here[1]][f + i]
    BY <1>2, <2>2, <2>3 DEF Blocks
  <2>5. (FsLba % Ratio)' = m /\ Base(FsLba)' = f
    BY <1>6, <2>1, <2>6 DEF Base
  <2> QED BY <1>1, <1>5, <1>6, <2>3, <2>4, <2>5 DEF Fetched
<1>10. Expected(cmd)'
  BY <1>3, <1>5, <1>6, <1>9 DEF Expected, First, Size, Unit, Base
<1> QED BY <1>1, <1>3, <1>8, <1>10, SubmitKeeps

\* The next sector of the call, or its end.
NextSector == IF call.done + 1 < call.count THEN "slice" ELSE "end"

LEMMA SliceReadKeeps ==
    ASSUME StorageInv, SliceRead PROVE StorageInv'
<1>1. /\ UNCHANGED <<devs, slots, windows, platter, bounce, answer, nvme, sata, late>>
      /\ call.pc = "fetch" /\ call.io = "ok" /\ call.op = "read" /\ BlockGet(call.dev).view = "xlate"
      /\ call.done < call.count
  BY DEF SliceRead, StorageInv, CallInv
<1>2. StorageTypeOK /\ CallInv /\ bounce \in Blocks /\ Fetched(FALSE) /\ MovedTo(call.done)
  BY <1>1 DEF StorageInv, StorageTypeOK, DataInv, Executed
<1>3. /\ late = {} /\ call.op \in Op /\ call.buf \in Seq(SectorData) /\ Len(call.buf) = call.count
      /\ DOMAIN call.buf = 1..call.count /\ call.dev < Len(devs)
      /\ call.count \in Nat \ {0} /\ call.lba \in Nat /\ call.done \in Nat
      /\ SliceIdx = FsLba % Ratio /\ FsLba = call.lba + call.done /\ FsLba \in Nat
  BY <1>1, <1>2, AtCall
<1>4. PICK m \in 0..Ratio - 1, f \in Nat : m = FsLba % Ratio /\ f = Base(FsLba) /\ FsLba = f + m
  BY <1>3, InBlock
<1>5. PICK v \in SectorData : v = bounce[SliceIdx] /\ v = platter[Here[1]][FsLba] /\ FsLba < Sectors
  <2>1. bounce[m] \in SectorData
    BY <1>2 DEF Blocks
  <2>2. bounce[m] = platter[Here[1]][f + m] /\ f + Ratio <= Sectors
    BY <1>2, <1>4 DEF Fetched
  <2>3. f + m < Sectors
    BY ONLY <2>2, f \in Nat, m \in 0..Ratio - 1, Ratio \in Nat, Sectors \in Nat
  <2> QED BY <1>3, <1>4, <2>1, <2>2, <2>3
<1>6. PICK b \in Seq(SectorData), n \in Nat :
          /\ b = [call.buf EXCEPT ![call.done + 1] = v] /\ n = call.done + 1
          /\ Len(b) = call.count /\ \A j \in 1..call.count : b[j] = IF j = n THEN v ELSE call.buf[j]
  <2>1. call.done + 1 \in 1..Len(call.buf) /\ call.done + 1 \in Nat
    <3>1. \A x, y \in Nat : x < y => x + 1 \in 1..y
      OBVIOUS
    <3>2. call.done + 1 \in 1..call.count
      BY <1>1, <1>3, <3>1
    <3>3. call.done + 1 \in Nat
      BY ONLY <1>3
    <3> QED BY ONLY <1>3, <3>2, <3>3
  <2>2. [call.buf EXCEPT ![call.done + 1] = v] \in Seq(SectorData)
    BY <1>3, <2>1, ExceptSeq
  <2>3. Len([call.buf EXCEPT ![call.done + 1] = v]) = call.count
    BY <1>3, <2>1, ExceptSeq
  <2>4. \A j \in 1..call.count : [call.buf EXCEPT ![call.done + 1] = v][j]
                                    = IF j = call.done + 1 THEN v ELSE call.buf[j]
    BY <1>3
  <2> QED BY <2>1, <2>2, <2>3, <2>4
<1>7. call' = [call EXCEPT !.buf = b, !.done = n, !.io = "none", !.pc = NextSector]
  BY <1>5, <1>6 DEF SliceRead, NextSector
<1>8. /\ call' \in Calls /\ answer' \in Answers
      /\ call'.pc = NextSector /\ call'.io = "none" /\ call'.done = n /\ call'.dev = call.dev
      /\ call'.op = "read" /\ call'.buf = b /\ call'.count = call.count /\ call'.lba = call.lba
  <2>1. call \in Calls /\ answer' \in Answers /\ NextSector \in {"slice", "end"}
    BY <1>1, <1>2 DEF StorageTypeOK, NextSector
  <2> QED BY <1>1, <1>7, <2>1 DEF Calls
<1>9. StorageTypeOK' /\ QueuesInv'
  BY <1>1, <1>3, <1>8, MovesOn
<1>10. Here' = Here /\ BlockGet(call.dev)' = BlockGet(call.dev)
  BY <1>1, <1>8 DEF Here, BlockGet
<1>11. CallInv'
  <2>0. n <= call.count /\ (n < call.count \/ n = call.count) /\ (NextSector = "slice" <=> n < call.count)
    BY <1>1, <1>3, <1>6 DEF NextSector
  <2>1. n <= call.count /\ (call'.pc = "slice" => n < call.count) /\ (call'.pc = "end" => n = call.count)
        /\ call'.pc \in {"slice", "end"}
    BY <1>8, <2>0 DEF NextSector
  <2>2. Len(b) = call.count /\ call.count > 0
    BY <1>3, <1>6
  <2> QED BY <1>1, <1>3, <1>8, <1>10, <2>1, <2>2 DEF CallInv, AtDisk, Op
<1>12. MovedTo(call.done)'
  <2>1. call.lba + n <= Sectors
    BY <1>3, <1>5, <1>6
  <2>2. ASSUME NEW j \in 1..n PROVE b[j] = platter[Here[1]][call.lba + j - 1]
    <3>1. CASE j = n
      <4>1. call.lba + j - 1 = FsLba /\ j \in 1..call.count
        BY <1>1, <1>3, <1>6, <3>1
      <4> QED BY <1>5, <1>6, <3>1, <4>1
    <3>2. CASE j # n
      <4>1. j \in 1..call.done /\ j \in 1..call.count
        <5>1. n = call.done + 1
          BY <1>6
        <5>2. call.done \in Nat /\ call.count \in Nat /\ call.done < call.count
          BY <1>1, <1>3
        <5> QED BY ONLY <3>2, <5>1, <5>2, n \in Nat, j \in 1..n
      <4> QED BY <1>2, <1>6, <3>2, <4>1 DEF MovedTo
    <3> QED BY <3>1, <3>2
  <2> QED BY <1>1, <1>8, <1>10, <2>1, <2>2 DEF MovedTo
<1> QED BY <1>8, <1>9, <1>11, <1>12 DEF StorageInv, DataInv

LEMMA SliceStoredKeeps ==
    ASSUME StorageInv, SliceStored PROVE StorageInv'
<1>1. /\ UNCHANGED <<devs, slots, windows, platter, bounce, answer, nvme, sata, late>>
      /\ call.pc = "store" /\ call.io = "ok" /\ call.op = "write" /\ BlockGet(call.dev).view = "xlate"
      /\ call.done < call.count
      /\ call' = [call EXCEPT !.done = @ + 1, !.io = "none", !.pc = NextSector]
  BY DEF SliceStored, StorageInv, CallInv, NextSector
<1>2. StorageTypeOK /\ CallInv /\ MovedTo(call.done + 1)
  BY <1>1 DEF StorageInv, DataInv, Executed
<1>3. /\ late = {} /\ call.op \in Op /\ Len(call.buf) = call.count
      /\ call.dev < Len(devs) /\ call.count \in Nat \ {0} /\ call.done \in Nat
  BY <1>1, <1>2, AtCall
<1>4. PICK n \in Nat : n = call.done + 1
  BY <1>3
<1>5. call' = [call EXCEPT !.done = n, !.io = "none", !.pc = NextSector]
  BY <1>1, <1>4
<1>6. /\ call' \in Calls /\ answer' \in Answers
      /\ call'.pc = NextSector /\ call'.io = "none" /\ call'.done = n /\ call'.dev = call.dev
      /\ call'.op = "write" /\ call'.buf = call.buf /\ call'.count = call.count /\ call'.lba = call.lba
  <2>1. call \in Calls /\ answer' \in Answers /\ NextSector \in {"slice", "end"}
    BY <1>1, <1>2 DEF StorageTypeOK, NextSector
  <2> QED BY <1>1, <1>5, <2>1 DEF Calls
<1>7. StorageTypeOK' /\ QueuesInv'
  BY <1>1, <1>3, <1>6, MovesOn
<1>8. Here' = Here /\ BlockGet(call.dev)' = BlockGet(call.dev)
  BY <1>1, <1>6 DEF Here, BlockGet
<1>9. CallInv'
  <2>1. n <= call.count /\ (call'.pc = "slice" => n < call.count) /\ (call'.pc = "end" => n = call.count)
        /\ call'.pc \in {"slice", "end"}
    BY <1>1, <1>3, <1>4, <1>6 DEF NextSector
  <2> QED BY <1>1, <1>3, <1>6, <1>8, <2>1 DEF CallInv, AtDisk, Op
<1>10. MovedTo(call.done)'
  BY <1>1, <1>2, <1>4, <1>6, <1>8 DEF MovedTo
<1> QED BY <1>6, <1>7, <1>9, <1>10 DEF StorageInv, DataInv

LEMMA FinishKeeps ==
    ASSUME StorageInv, Finish PROVE StorageInv'
<1>1. /\ UNCHANGED <<devs, slots, windows, platter, bounce, nvme, sata, late>>
      /\ \E ok \in BOOLEAN : Return(ok)
      /\ call.pc # "idle" /\ call.io # "busy"
  BY DEF Finish, StorageInv, CallInv
<1> QED BY <1>1, CallEnds

\* A step of the controllers leaves the call where it is.
LEMMA CallStays ==
    ASSUME StorageInv, call.io = "busy",
           NEW cmd \in Cmds, Expected(cmd), NEW ok \in BOOLEAN, NEW k \in 0..Sectors, Execute(cmd, ok, k),
           UNCHANGED <<devs, slots, windows, answer, late>>, nvme' \in Pairs, sata' \in Ports
    PROVE  /\ StorageTypeOK' /\ CallInv' /\ DataInv'
           /\ call'.io = "busy" /\ Here' = Here
<1>1. StorageTypeOK /\ CallInv /\ TableOK
  BY DEF StorageInv, StorageTypeOK
<1>2. call.pc \in {"whole", "fetch", "store"} /\ late = {} /\ call.dev < Len(devs)
  BY <1>1 DEF StorageTypeOK, CallInv, Calls
<1>3. /\ platter' \in [DOMAIN platter -> [0..Sectors - 1 -> SectorData]]
      /\ DOMAIN platter' = DOMAIN platter
      /\ bounce' \in Blocks
      /\ call'.buf \in Seq(SectorData) /\ Len(call'.buf) = call.count
      /\ call' = [call EXCEPT !.buf = call'.buf]
      /\ call.pc \in {"fetch", "store"} => call' = call /\ MovedTo(call.done)'
  BY Executes
<1>4. PICK b \in Seq(SectorData) : b = call'.buf /\ Len(b) = call.count /\ call' = [call EXCEPT !.buf = b]
  BY <1>3
<1>5. /\ call' \in Calls /\ call'.pc = call.pc /\ call'.io = call.io /\ call'.op = call.op /\ call'.dev = call.dev
      /\ call'.lba = call.lba /\ call'.count = call.count /\ call'.done = call.done
  <2>1. call \in Calls
    BY <1>1 DEF StorageTypeOK
  <2> QED BY <1>4, <2>1 DEF Calls
<1>6. Here' = Here /\ BlockGet(call.dev)' = BlockGet(call.dev)
  BY <1>5 DEF Here, BlockGet
<1>7. StorageTypeOK'
  <2>1. TableOK'
    BY <1>1, <1>3, SameTable
  <2> QED BY <1>1, <1>3, <1>5, <2>1 DEF StorageTypeOK
<1>8. CallInv'
  BY <1>1, <1>2, <1>3, <1>5, <1>6 DEF CallInv, AtDisk
<1>9. DataInv'
  BY <1>2, <1>3, <1>5 DEF DataInv
<1> QED BY <1>5, <1>6, <1>7, <1>8, <1>9

\* The controller's side of the queue, when it has posted a completion.
LEMMA Posts ==
    ASSUME nvme \in Pairs, PhasesOk, nvme.tail = Turn(nvme.fetch), NEW ok \in BOOLEAN,
           nvme' = [nvme EXCEPT !.fetch = (@ + 1) % QDepth, !.sq[nvme.fetch] = NoCmd,
                            !.cq[nvme.post] = [phase |-> nvme.mark, ok |-> ok],
                            !.post = (@ + 1) % QDepth,
                            !.mark = IF nvme.post + 1 = QDepth THEN 1 - @ ELSE @]
    PROVE  /\ nvme' \in Pairs /\ PhasesOk'
           /\ nvme'.fetch = nvme'.tail /\ nvme'.head = nvme.head /\ nvme'.phase = nvme.phase
           /\ nvme'.post = Turn(nvme.post)
           /\ nvme'.mark = IF nvme.post + 1 = QDepth THEN 1 - nvme.mark ELSE nvme.mark
           /\ nvme'.cq[nvme.post] = [phase |-> nvme.mark, ok |-> ok]
<1>1. /\ nvme.fetch \in Places /\ nvme.post \in Places /\ nvme.tail \in Places
      /\ nvme.sq \in [Places -> Cmds] /\ nvme.cq \in [Places -> [phase : {0, 1}, ok : BOOLEAN]]
      /\ nvme.mark \in {0, 1}
  BY DEF Pairs
<1>2. PICK f \in Places, p \in Places, m \in {0, 1} :
          /\ f = Turn(nvme.fetch) /\ f = (nvme.fetch + 1) % QDepth
          /\ p = Turn(nvme.post) /\ p = (nvme.post + 1) % QDepth
          /\ m = IF nvme.post + 1 = QDepth THEN 1 - nvme.mark ELSE nvme.mark
  <2>1. (IF nvme.post + 1 = QDepth THEN 1 - nvme.mark ELSE nvme.mark) \in {0, 1}
    BY <1>1
  <2> QED BY <1>1, <2>1, TurnMod
<1>3. PICK c : c = [phase |-> nvme.mark, ok |-> ok]
  OBVIOUS
<1>4. c \in [phase : {0, 1}, ok : BOOLEAN] /\ c.phase = nvme.mark
  BY <1>1, <1>3
<1>5. PICK q : q = [nvme.cq EXCEPT ![nvme.post] = c]
  OBVIOUS
<1>6. PICK s : s = [nvme.sq EXCEPT ![nvme.fetch] = NoCmd]
  OBVIOUS
<1>7. NoCmd \in Cmds
  BY DEF NoCmd, Cmds, Disks
<1>8. s \in [Places -> Cmds] /\ q \in [Places -> [phase : {0, 1}, ok : BOOLEAN]] /\ q[nvme.post] = c
  BY <1>1, <1>4, <1>5, <1>6, <1>7
<1>9. nvme' = [nvme EXCEPT !.fetch = f, !.sq = s, !.cq = q, !.post = p, !.mark = m]
  BY <1>2, <1>3, <1>5, <1>6
<1>10. /\ nvme' \in Pairs
       /\ nvme'.fetch = f /\ nvme'.tail = nvme.tail /\ nvme'.head = nvme.head /\ nvme'.phase = nvme.phase
       /\ nvme'.post = p /\ nvme'.mark = m /\ nvme'.cq = q
  BY ONLY <1>2, <1>8, <1>9, f \in Places, p \in Places, m \in {0, 1}, nvme \in Pairs DEF Pairs
<1>11. PhasesOk'
  <2> SUFFICES ASSUME NEW i \in Places
               PROVE  nvme'.cq[i].phase = IF i < nvme'.post THEN nvme'.mark ELSE 1 - nvme'.mark
    BY DEF PhasesOk
  <2>1. nvme.cq[i].phase = IF i < nvme.post THEN nvme.mark ELSE 1 - nvme.mark
    BY DEF PhasesOk
  <2>2. q[i] = IF i = nvme.post THEN c ELSE nvme.cq[i]
    BY <1>1, <1>5
  <2>3. CASE nvme.post + 1 = QDepth
    <3>1. p = 0 /\ m = 1 - nvme.mark /\ i <= nvme.post /\ i \in Nat
      BY <1>1, <1>2, <2>3 DEF Turn, Places
    <3>2. q[i].phase = nvme.mark
      BY <1>1, <1>4, <2>1, <2>2, <3>1 DEF Places
    <3>3. q[i].phase = IF i < p THEN m ELSE 1 - m
      BY <1>1, <3>1, <3>2
    <3> QED BY ONLY <1>10, <3>3
  <2>4. CASE nvme.post + 1 # QDepth
    <3>1. p = nvme.post + 1 /\ m = nvme.mark
      BY <1>2, <2>4 DEF Turn
    <3>2. q[i].phase = IF i < nvme.post + 1 THEN nvme.mark ELSE 1 - nvme.mark
      BY <1>1, <1>4, <2>1, <2>2 DEF Places
    <3> QED BY <1>10, <3>1, <3>2
  <2> QED BY <2>3, <2>4
<1> QED BY <1>2, <1>3, <1>8, <1>10, <1>11

LEMMA NvmeExecuteKeeps ==
    ASSUME StorageInv, NEW ok \in BOOLEAN, NEW k \in 0..Sectors, NvmeExecute(ok, k)
    PROVE  StorageInv'
<1>1. /\ UNCHANGED <<devs, slots, windows, answer, sata, late>>
      /\ nvme.fetch # nvme.tail /\ Execute(nvme.sq[nvme.fetch], ok, k)
      /\ nvme' = [nvme EXCEPT !.fetch = (@ + 1) % QDepth, !.sq[nvme.fetch] = NoCmd,
                            !.cq[nvme.post] = [phase |-> nvme.mark, ok |-> ok],
                            !.post = (@ + 1) % QDepth,
                            !.mark = IF nvme.post + 1 = QDepth THEN 1 - @ ELSE @]
  BY DEF NvmeExecute
<1>2. StorageTypeOK /\ CallInv /\ TableOK /\ QueuesInv /\ PhasesOk
  BY DEF StorageInv, StorageTypeOK, QueuesInv
<1>3. nvme \in Pairs /\ sata \in Ports
  BY <1>2 DEF StorageTypeOK
<1>4. PICK cmd \in Cmds : cmd = nvme.sq[nvme.fetch] /\ Execute(cmd, ok, k)
  BY <1>1, <1>3 DEF Pairs
<1>5. CASE late = {}
  <2>1. call.io = "busy"
    BY <1>1, <1>2, <1>5 DEF QueuesInv, NvmeQuiet
  <2>2. Here[1] # "sata" /\ ~sata.ci /\ NvmePending /\ Expected(cmd)
    BY <1>1, <1>2, <1>4, <2>1 DEF QueuesInv, SataBusy, NvmeBusy, NvmeQuiet, NvmePosted
  <2>3. /\ nvme' \in Pairs /\ PhasesOk'
        /\ nvme'.fetch = nvme'.tail /\ nvme'.head = nvme.head /\ nvme'.phase = nvme.phase
        /\ nvme'.post = Turn(nvme.post)
        /\ nvme'.mark = IF nvme.post + 1 = QDepth THEN 1 - nvme.mark ELSE nvme.mark
        /\ nvme'.cq[nvme.post] = [phase |-> nvme.mark, ok |-> ok]
    BY <1>1, <1>2, <1>3, <2>2, Posts DEF NvmePending
  <2>4. StorageTypeOK' /\ CallInv' /\ DataInv' /\ call'.io = "busy" /\ Here' = Here
    BY <1>1, <1>3, <1>4, <2>1, <2>2, <2>3, CallStays
  <2>5. ok => Executed'
    BY <1>1, <1>4, <2>1, <2>2, Executes
  <2>6. NvmePosted' /\ (nvme'.cq[nvme'.head].ok => ok)
    BY <2>2, <2>3 DEF NvmePending, InStep, NvmePosted, Turn
  <2>7. NvmeBusy'
    BY <1>1, <2>2, <2>5, <2>6 DEF NvmeBusy
  <2>8. QueuesInv'
    BY <1>1, <1>5, <2>2, <2>3, <2>4, <2>7 DEF QueuesInv
  <2> QED BY <2>4, <2>8 DEF StorageInv
<1>6. CASE late # {}
  <2>1. nvme.tail = Turn(nvme.fetch) /\ ~sata.ci /\ Harmless(cmd)
    BY <1>1, <1>2, <1>4, <1>6 DEF QueuesInv
  <2>2. nvme' \in Pairs /\ PhasesOk' /\ nvme'.fetch = nvme'.tail
    BY <1>1, <1>2, <1>3, <2>1, Posts
  <2>3. /\ call' = call /\ bounce' \in Blocks
        /\ platter' \in [DOMAIN platter -> [0..Sectors - 1 -> SectorData]]
    BY <1>4, <1>6, <2>1, Straggles
  <2>4. TableOK'
    BY <1>1, <1>2, <2>3, SameTable
  <2>5. StorageTypeOK'
    BY <1>1, <1>2, <2>2, <2>3, <2>4 DEF StorageTypeOK
  <2>6. call = NoCall
    BY <1>2, <1>6 DEF CallInv
  <2>7. CallInv' /\ DataInv'
    BY <2>3, <2>6 DEF CallInv, DataInv, AtDisk, NoCall
  <2>8. QueuesInv'
    BY <1>1, <1>6, <2>1, <2>2, <2>3, <2>6 DEF QueuesInv, NoCall
  <2> QED BY <2>5, <2>7, <2>8 DEF StorageInv
<1> QED BY <1>5, <1>6

LEMMA SataExecuteKeeps ==
    ASSUME StorageInv, NEW ok \in BOOLEAN, NEW k \in 0..Sectors, SataExecute(ok, k)
    PROVE  StorageInv'
<1>1. /\ UNCHANGED <<devs, slots, windows, answer, nvme, late>>
      /\ sata.ci /\ Execute(sata.cmd, ok, k)
      /\ sata' = [cmd |-> NoCmd, ci |-> FALSE, err |-> ~ok]
  BY DEF SataExecute
<1>2. StorageTypeOK /\ CallInv /\ TableOK /\ QueuesInv /\ PhasesOk
  BY DEF StorageInv, StorageTypeOK, QueuesInv
<1>3. PICK cmd \in Cmds : cmd = sata.cmd /\ Execute(cmd, ok, k)
  BY <1>1, <1>2 DEF StorageTypeOK, Ports
<1>4. sata' \in Ports /\ ~sata'.ci /\ (sata'.err <=> ~ok) /\ nvme' \in Pairs
  BY <1>1, <1>2 DEF StorageTypeOK, Ports, NoCmd, Cmds, Disks
<1>5. CASE late = {}
  <2>1. call.io = "busy" /\ Here[1] = "sata" /\ NvmeQuiet /\ Expected(cmd)
    BY <1>1, <1>2, <1>3, <1>5 DEF QueuesInv, SataBusy, NvmeBusy
  <2>2. StorageTypeOK' /\ CallInv' /\ DataInv' /\ call'.io = "busy" /\ Here' = Here
    BY <1>1, <1>3, <1>4, <2>1, CallStays
  <2>3. ok => Executed'
    BY <1>1, <1>3, <2>1, Executes
  <2>4. SataBusy' /\ PhasesOk'
    BY <1>1, <1>2, <1>4, <2>1, <2>3 DEF SataBusy, NvmeQuiet, InStep, PhasesOk
  <2>5. QueuesInv'
    BY <1>1, <1>5, <2>1, <2>2, <2>4 DEF QueuesInv
  <2> QED BY <2>2, <2>5 DEF StorageInv
<1>6. CASE late # {}
  <2>1. nvme.fetch = nvme.tail /\ Harmless(cmd)
    BY <1>1, <1>2, <1>3, <1>6 DEF QueuesInv
  <2>2. /\ call' = call /\ bounce' \in Blocks
        /\ platter' \in [DOMAIN platter -> [0..Sectors - 1 -> SectorData]]
    BY <1>3, <1>6, <2>1, Straggles
  <2>3. TableOK'
    BY <1>1, <1>2, <2>2, SameTable
  <2>4. StorageTypeOK'
    BY <1>1, <1>2, <1>4, <2>2, <2>3 DEF StorageTypeOK
  <2>5. call = NoCall
    BY <1>2, <1>6 DEF CallInv
  <2>6. CallInv' /\ DataInv'
    BY <2>2, <2>5 DEF CallInv, DataInv, AtDisk, NoCall
  <2>7. QueuesInv'
    BY <1>1, <1>2, <1>4, <1>6, <2>1, <2>2, <2>5 DEF QueuesInv, NoCall, PhasesOk
  <2> QED BY <2>4, <2>6, <2>7 DEF StorageInv
<1> QED BY <1>5, <1>6

\* The drivers' loop has found its completion.
LEMMA Completes ==
    ASSUME StorageInv, call.io = "busy", NEW io \in {"ok", "failed"}, call' = [call EXCEPT !.io = io],
           UNCHANGED <<devs, slots, windows, platter, bounce, answer, sata, late>>,
           nvme' \in Pairs, PhasesOk', NvmeQuiet', ~sata.ci, io = "ok" => Executed
    PROVE  StorageInv'
<1>1. StorageTypeOK /\ CallInv /\ DataInv /\ TableOK
  BY DEF StorageInv, StorageTypeOK
<1>2. call.pc \in {"whole", "fetch", "store"} /\ late = {} /\ call.dev < Len(devs)
  BY <1>1 DEF StorageTypeOK, CallInv, Calls
<1>3. /\ call' \in Calls /\ call'.pc = call.pc /\ call'.io = io /\ call'.op = call.op /\ call'.dev = call.dev
      /\ call'.lba = call.lba /\ call'.count = call.count /\ call'.done = call.done /\ call'.buf = call.buf
  BY <1>1 DEF StorageTypeOK, Calls
<1>4. Here' = Here /\ BlockGet(call.dev)' = BlockGet(call.dev) /\ FsLba' = FsLba
  BY <1>3 DEF Here, BlockGet, FsLba
<1>5. StorageTypeOK'
  <2>1. TableOK'
    BY <1>1, SameTable
  <2> QED BY <1>1, <1>3, <2>1 DEF StorageTypeOK
<1>6. CallInv'
  BY <1>1, <1>2, <1>3, <1>4 DEF CallInv, AtDisk
<1>7. DataInv'
  <2>1. call.pc \in {"fetch", "store"} => MovedTo(call.done)'
    BY <1>1, <1>3, <1>4 DEF DataInv, MovedTo
  <2>2. io = "ok" => Executed'
    BY <1>3, <1>4 DEF Executed, MovedTo, Fetched, Base
  <2> QED BY <1>2, <1>3, <2>1, <2>2 DEF DataInv
<1>8. QueuesInv'
  BY <1>2, <1>3 DEF QueuesInv
<1> QED BY <1>5, <1>6, <1>7, <1>8 DEF StorageInv

LEMMA SataCompleteKeeps ==
    ASSUME StorageInv, SataComplete PROVE StorageInv'
<1>1. /\ UNCHANGED <<devs, slots, windows, platter, bounce, answer, nvme, sata, late>>
      /\ call.io = "busy" /\ BlockGet(call.dev).disk = "sata" /\ ~sata.ci
      /\ call' = [call EXCEPT !.io = IF sata.err THEN "failed" ELSE "ok"]
  BY DEF SataComplete
<1>2. StorageTypeOK /\ CallInv /\ QueuesInv /\ PhasesOk /\ nvme \in Pairs
  BY DEF StorageInv, StorageTypeOK, QueuesInv
<1>3. call.dev < Len(devs)
  BY <1>1, <1>2 DEF CallInv
<1>4. Here[1] = "sata"
  BY <1>1, <1>2, <1>3, AtDevice
<1>5. NvmeQuiet /\ (~sata.err => Executed)
  BY <1>1, <1>2, <1>4 DEF QueuesInv, SataBusy
<1>6. PICK io \in {"ok", "failed"} : io = (IF sata.err THEN "failed" ELSE "ok")
  OBVIOUS
<1>7. call' = [call EXCEPT !.io = io] /\ (io = "ok" => Executed)
  BY <1>1, <1>5, <1>6
<1>8. PhasesOk' /\ NvmeQuiet'
  BY <1>1, <1>2, <1>5 DEF PhasesOk, NvmeQuiet, InStep
<1>9. nvme' \in Pairs
  BY <1>1, <1>2
<1> QED BY <1>1, <1>7, <1>8, <1>9, Completes

LEMMA NvmeCompleteKeeps ==
    ASSUME StorageInv, NvmeComplete PROVE StorageInv'
<1>1. /\ UNCHANGED <<devs, slots, windows, platter, bounce, answer, sata, late>>
      /\ call.io = "busy" /\ BlockGet(call.dev).disk # "sata"
      /\ nvme.cq[nvme.head].phase = nvme.phase
      /\ nvme' = [nvme EXCEPT !.head = (@ + 1) % QDepth,
                              !.phase = IF nvme.head + 1 = QDepth THEN 1 - @ ELSE @]
      /\ call' = [call EXCEPT !.io = IF nvme.cq[nvme.head].ok THEN "ok" ELSE "failed"]
  BY DEF NvmeComplete
<1>2. StorageTypeOK /\ CallInv /\ QueuesInv /\ PhasesOk /\ nvme \in Pairs
  BY DEF StorageInv, StorageTypeOK, QueuesInv
<1>3. call.dev < Len(devs)
  BY <1>1, <1>2 DEF CallInv
<1>4. Here[1] # "sata"
  BY <1>1, <1>2, <1>3, AtDevice
<1>5. /\ nvme.head \in Places /\ nvme.post \in Places /\ nvme.phase \in {0, 1} /\ nvme.mark \in {0, 1}
      /\ nvme.cq[nvme.head].phase = IF nvme.head < nvme.post THEN nvme.mark ELSE 1 - nvme.mark
  BY <1>2 DEF Pairs, PhasesOk
<1>6. ~ InStep
  BY <1>1, <1>5 DEF InStep, Places
<1>7. ~sata.ci /\ NvmePosted /\ (nvme.cq[nvme.head].ok => Executed)
  BY <1>1, <1>2, <1>4, <1>6 DEF QueuesInv, NvmeBusy, NvmePending
<1>8. PICK h \in Places, p \in {0, 1} :
          /\ h = Turn(nvme.head) /\ h = (nvme.head + 1) % QDepth
          /\ p = IF nvme.head + 1 = QDepth THEN 1 - nvme.phase ELSE nvme.phase
  <2>1. (IF nvme.head + 1 = QDepth THEN 1 - nvme.phase ELSE nvme.phase) \in {0, 1}
    BY <1>5
  <2> QED BY <1>5, <2>1, TurnMod
<1>9. nvme' = [nvme EXCEPT !.head = h, !.phase = p]
  BY <1>1, <1>8
<1>10. /\ nvme' \in Pairs /\ nvme'.head = h /\ nvme'.phase = p /\ nvme'.fetch = nvme.fetch /\ nvme'.tail = nvme.tail
       /\ nvme'.post = nvme.post /\ nvme'.mark = nvme.mark /\ nvme'.cq = nvme.cq
  BY ONLY <1>2, <1>9, h \in Places, p \in {0, 1} DEF Pairs
<1>11. NvmeQuiet' /\ PhasesOk'
  BY <1>2, <1>7, <1>8, <1>10 DEF NvmeQuiet, NvmePosted, InStep, PhasesOk
<1>12. PICK io \in {"ok", "failed"} : io = (IF nvme.cq[nvme.head].ok THEN "ok" ELSE "failed")
  OBVIOUS
<1>13. call' = [call EXCEPT !.io = io] /\ (io = "ok" => Executed)
  BY <1>1, <1>7, <1>12
<1> QED BY <1>1, <1>7, <1>10, <1>11, <1>13, Completes

\* The commands that are left when a call is given up.
LEMMA Forgotten ==
    ASSUME StorageTypeOK, CallInv, call.pc # "idle", NEW cmd \in Cmds
    PROVE  /\ Forget(cmd) \in Cmds
           /\ Expected(cmd) /\ call.io = "busy" /\ late' = Span(Here, call.count) /\ UNCHANGED <<platter, bounce>>
                 => Harmless(Forget(cmd))'
<1>1. PICK c : c = Forget(cmd)
  OBVIOUS
<1>2. /\ c \in Cmds /\ c.disk = cmd.disk /\ c.lba = cmd.lba /\ c.count = cmd.count /\ c.op = cmd.op
      /\ c.mem = IF cmd.mem = "caller" THEN "gone" ELSE cmd.mem
  BY <1>1 DEF Forget, Cmds
<1>3. First(c) = First(cmd) /\ Size(c) = Size(cmd)
  BY <1>2 DEF First, Size
<1>4. ASSUME Expected(cmd), call.io = "busy", late' = Span(Here, call.count), UNCHANGED <<platter, bounce>>
      PROVE  Harmless(c)'
  <2>1. /\ Here = <<BlockGet(call.dev).disk, call.lba>> /\ Here[1] \in DOMAIN platter
        /\ call.count \in Nat /\ call.lba \in Nat /\ call.done \in Nat /\ FsLba = call.lba + call.done /\ FsLba \in Nat
    BY AtCall, AtDevice
  <2>2. Here[2] = call.lba /\ cmd.disk = Here[1] /\ call.pc \in {"whole", "fetch", "store"}
    BY <1>4, <2>1 DEF Expected, CallInv, StorageTypeOK, Calls
  <2>3. \A i \in 0..call.count - 1 : <<cmd.disk, call.lba + i>> \in late'
    BY <1>4, <2>2 DEF Span
  <2>4. CASE call.pc = "whole"
    <3>1. c.mem = "gone" /\ First(c) = call.lba /\ Size(c) = call.count
      BY <1>2, <1>3, <1>4, <2>4 DEF Expected
    <3> QED BY <1>2, <1>4, <2>1, <2>2, <2>3, <3>1 DEF Harmless, First, Size, Unit
  <2>5. CASE call.pc = "fetch"
    <3>1. c.mem = "bounce" /\ c.op = "read" /\ Size(c) = Ratio
      BY <1>2, <1>3, <1>4, <2>5 DEF Expected
    <3> QED BY <1>2, <1>4, <2>1, <2>2, <3>1 DEF Harmless, Size, Unit
  <2>6. CASE call.pc = "store"
    <3>1. PICK f \in Nat, m \in 0..Ratio - 1 : f = Base(FsLba) /\ m = FsLba % Ratio /\ FsLba = f + m
      BY <2>1, InBlock
    <3>2. c.mem = "bounce" /\ First(c) = f /\ Size(c) = Ratio
      BY <1>2, <1>3, <1>4, <2>6, <3>1 DEF Expected
    <3>3. \A i \in 0..Ratio - 1 : i # m => bounce[i] = platter[c.disk][f + i]
      BY <1>2, <1>4, <2>2, <2>6, <3>1 DEF Expected, Fetched
    <3>4. <<c.disk, f + m>> \in late'
      <4>1. call.done \in 0..call.count - 1
        BY <2>1, <2>6 DEF CallInv
      <4>2. <<cmd.disk, call.lba + call.done>> \in late'
        BY <2>3, <4>1
      <4> QED BY <1>2, <2>1, <3>1, <4>2
    <3>5. \A i \in 0..Ratio - 1 : <<c.disk, f + i>> \in late' \/ bounce[i] = platter[c.disk][f + i]
      BY <3>3, <3>4
    <3>6. c.disk \in DOMAIN platter' /\ platter' = platter /\ bounce' = bounce
      BY <1>2, <1>4, <2>1, <2>2
    <3>7. /\ c.mem # "caller" /\ Size(c) <= Ratio
          /\ \A i \in 0..Size(c) - 1 :
                 \/ <<c.disk, First(c) + i>> \in late'
                 \/ c.mem = "bounce" /\ bounce'[i] = platter'[c.disk][First(c) + i]
      <4>1. c.mem # "caller" /\ Size(c) <= Ratio
        BY <3>2
      <4>2. ASSUME NEW i \in 0..Size(c) - 1
            PROVE  \/ <<c.disk, First(c) + i>> \in late'
                   \/ c.mem = "bounce" /\ bounce'[i] = platter'[c.disk][First(c) + i]
        <5>1. i \in 0..Ratio - 1
          BY <3>2
        <5>2. <<c.disk, f + i>> \in late' \/ bounce[i] = platter[c.disk][f + i]
          BY <3>5, <5>1
        <5>3. bounce'[i] = bounce[i] /\ platter'[c.disk][f + i] = platter[c.disk][f + i]
          BY <3>6
        <5> QED BY <3>2, <5>2, <5>3
      <4> QED BY <4>1, <4>2
    <3>8. First(c)' = First(c) /\ Size(c)' = Size(c)
      BY DEF First, Size, Unit
    <3> QED BY <3>6, <3>7, <3>8 DEF Harmless
  <2> QED BY <2>2, <2>4, <2>5, <2>6
<1> QED BY <1>1, <1>2, <1>4

LEMMA GiveUpKeeps ==
    ASSUME StorageInv, GiveUp PROVE StorageInv'
<1>1. /\ UNCHANGED <<devs, slots, windows, platter, bounce>>
      /\ call.io = "busy" /\ late' = Span(Here, call.count)
      /\ nvme' = [nvme EXCEPT !.sq = [i \in DOMAIN nvme.sq |-> Forget(nvme.sq[i])]]
      /\ sata' = [sata EXCEPT !.cmd = Forget(sata.cmd)]
      /\ call' = NoCall /\ answer' = [ok |-> FALSE, at |-> Here, data |-> call.buf]
  BY DEF GiveUp, Return
<1>2. /\ StorageTypeOK /\ CallInv /\ TableOK /\ QueuesInv /\ PhasesOk
      /\ nvme \in Pairs /\ sata \in Ports /\ call.pc # "idle"
  BY <1>1 DEF StorageInv, StorageTypeOK, QueuesInv, CallInv
<1>3. /\ Here = <<BlockGet(call.dev).disk, call.lba>> /\ Here \in Disks \X Nat /\ Here[1] = BlockGet(call.dev).disk
      /\ call.buf \in Seq(SectorData) /\ call.count \in Nat \ {0} /\ call.lba \in Nat
  BY <1>2, AtCall, AtDevice
<1>4. late' \subseteq Disks \X Nat /\ late' # {}
  <2>1. Here[1] \in Disks /\ Here[2] = call.lba
    BY <1>3
  <2>2. \A i \in 0..call.count - 1 : Here[2] + i \in Nat
    BY <1>3, <2>1
  <2>3. 0 \in 0..call.count - 1
    BY <1>3
  <2>4. late' = {<<Here[1], Here[2] + i>> : i \in 0..call.count - 1}
    BY <1>1 DEF Span
  <2>5. \A i \in 0..call.count - 1 : <<Here[1], Here[2] + i>> \in Disks \X Nat
    BY <2>1, <2>2
  <2>6. <<Here[1], Here[2] + 0>> \in late'
    BY <2>3, <2>4
  <2> QED BY <2>4, <2>5, <2>6
<1>5. PICK q : q = [i \in Places |-> Forget(nvme.sq[i])]
  OBVIOUS
<1>6. q \in [Places -> Cmds] /\ nvme' = [nvme EXCEPT !.sq = q]
  <2>1. nvme.sq \in [Places -> Cmds]
    BY <1>2 DEF Pairs
  <2>2. \A i \in Places : Forget(nvme.sq[i]) \in Cmds
    BY <1>2, <2>1, Forgotten
  <2> QED BY <1>1, <1>5, <2>1, <2>2
<1>7. /\ nvme' \in Pairs /\ nvme'.sq = q /\ nvme'.fetch = nvme.fetch /\ nvme'.tail = nvme.tail
      /\ nvme'.post = nvme.post /\ nvme'.mark = nvme.mark /\ nvme'.cq = nvme.cq
  BY ONLY <1>2, <1>6 DEF Pairs
<1>8. sata' \in Ports /\ sata'.cmd = Forget(sata.cmd) /\ sata'.ci = sata.ci
  <2>1. sata.cmd \in Cmds
    BY <1>2 DEF Ports
  <2>2. Forget(sata.cmd) \in Cmds
    BY <1>2, <2>1, Forgotten
  <2> QED BY <1>1, <1>2, <2>2 DEF Ports
<1>9. StorageTypeOK'
  <2>1. TableOK'
    BY <1>1, <1>2, SameTable
  <2>2. call' \in Calls
    BY <1>1 DEF NoCall, Calls
  <2>3. answer' \in Answers
    BY <1>1, <1>3 DEF Answers
  <2> QED BY <1>1, <1>2, <1>4, <1>7, <1>8, <2>1, <2>2, <2>3 DEF StorageTypeOK
<1>10. CallInv' /\ DataInv' /\ call'.io = "none"
  BY <1>1 DEF CallInv, DataInv, AtDisk, NoCall
<1>11. PhasesOk'
  BY <1>2, <1>7 DEF PhasesOk
<1>12. \/ nvme'.fetch = nvme'.tail /\ (sata'.ci => Harmless(sata.cmd)')
       \/ nvme'.tail = Turn(nvme'.fetch) /\ ~sata'.ci /\ Harmless(nvme.sq[nvme.fetch])'
  <2>1. CASE Here[1] = "sata"
    <3>1. nvme.fetch = nvme.tail /\ (sata.ci => Expected(sata.cmd))
      BY <1>1, <1>2, <2>1 DEF QueuesInv, SataBusy, NvmeQuiet
    <3>2. PICK c \in Cmds : c = sata.cmd
      BY <1>2 DEF Ports
    <3>3. sata.ci => Harmless(Forget(c))'
      BY <1>1, <1>2, <3>1, <3>2, Forgotten
    <3>4. Harmless(Forget(c))' => Harmless(sata.cmd)'
      BY <1>8, <3>2 DEF Harmless, First, Size, Unit
    <3> QED BY <1>7, <1>8, <3>1, <3>3, <3>4
  <2>2. CASE Here[1] # "sata" /\ nvme.fetch = nvme.tail
    <3>1. ~sata.ci
      BY <1>1, <1>2, <2>2 DEF QueuesInv, NvmeBusy
    <3> QED BY <1>7, <1>8, <2>2, <3>1
  <2>3. CASE Here[1] # "sata" /\ nvme.fetch # nvme.tail
    <3>1. ~sata.ci /\ nvme.tail = Turn(nvme.fetch) /\ Expected(nvme.sq[nvme.fetch])
      BY <1>1, <1>2, <2>3 DEF QueuesInv, NvmeBusy, NvmePending, NvmePosted
    <3>2. PICK c \in Cmds : c = nvme.sq[nvme.fetch]
      BY <1>2 DEF Pairs
    <3>3. Harmless(Forget(c))'
      BY <1>1, <1>2, <3>1, <3>2, Forgotten
    <3>4. q[nvme.fetch] = Forget(c)
      BY <1>2, <1>5, <3>2 DEF Pairs
    <3>5. Harmless(Forget(c))' => Harmless(nvme.sq[nvme.fetch])'
      BY <1>7, <3>4 DEF Harmless, First, Size, Unit
    <3> QED BY <1>7, <1>8, <3>1, <3>3, <3>5
  <2> QED BY <2>1, <2>2, <2>3
<1>13. QueuesInv'
  BY <1>4, <1>10, <1>11, <1>12 DEF QueuesInv
<1> QED BY <1>9, <1>10, <1>13 DEF StorageInv

----------------------------------------------------------------------------
(* The invariant.                                                          *)

LEMMA Probed ==
    ASSUME NEW machine \in Machines, NEW a \in AhciProbe(machine), NEW b \in NvmeProbe(machine)
    PROVE  /\ a \o b \in Seq(Whole)
           /\ \A i \in 1..Len(a \o b) : LET d == (a \o b)[i]
                                        IN  d.disk \in machine /\ d.view = "native" /\ d.lbs = Unit(d.disk)
           /\ "nvme4k" \in machine => Len(a \o b) <= 1
<1>1. /\ machine \subseteq Disks /\ ("nvme4k" \in machine => machine = {"nvme4k"})
  <2>1. machine \subseteq {"sata", "nvme512", "nvme4k"} /\ ("nvme4k" \in machine => machine = {"nvme4k"})
    BY StorageAssumption
  <2> QED BY <2>1 DEF Disks
<1>2. ASSUME NEW d \in machine, NEW n \in Nat
      PROVE  Device(d, n) \in Whole /\ Device(d, n).disk = d /\ Device(d, n).view = "native"
             /\ Device(d, n).lbs = Unit(d)
  <2>1. Unit(d) \in Nat /\ n \div Unit(d) \in Nat
    <3>1. n \div Ratio \in Nat
      BY DivMod
    <3>2. n \div 1 \in Nat
      BY ONLY n \in Nat
    <3>3. Ratio \in Nat
      OBVIOUS
    <3> QED BY ONLY <3>1, <3>2, <3>3 DEF Unit
  <2> QED BY <1>1, <2>1 DEF Device, Whole
<1>3. a = <<>> \/ \E d \in Whole : a = <<d>> /\ d.disk \in machine /\ d.view = "native" /\ d.lbs = Unit(d.disk)
                                   /\ "sata" \in machine
  <2>1. a = <<>> \/ \E n \in Capacities : "sata" \in machine /\ a = <<Device("sata", n)>>
    BY DEF AhciProbe
  <2>2. Capacities \subseteq Nat
    BY DEF Capacities
  <2> QED BY <1>2, <2>1, <2>2
<1>4. b = <<>> \/ \E d \in Whole : b = <<d>> /\ d.disk \in machine /\ d.view = "native" /\ d.lbs = Unit(d.disk)
  <2>1. b = <<>> \/ \E d \in machine \ {"sata"} : b = <<Device(d, Sectors)>>
    BY DEF NvmeProbe
  <2> QED BY <1>2, <2>1
<1>5. /\ a \in Seq(Whole) /\ b \in Seq(Whole) /\ Len(a) <= 1 /\ Len(b) <= 1
      /\ \A i \in 1..Len(a) : a[i].disk \in machine /\ a[i].view = "native" /\ a[i].lbs = Unit(a[i].disk)
      /\ \A i \in 1..Len(b) : b[i].disk \in machine /\ b[i].view = "native" /\ b[i].lbs = Unit(b[i].disk)
  <2>1. ASSUME NEW c,
               c = <<>> \/ \E d \in Whole : /\ c = <<d>>
                                           /\ d.disk \in machine /\ d.view = "native" /\ d.lbs = Unit(d.disk)
        PROVE  /\ c \in Seq(Whole) /\ Len(c) <= 1
               /\ \A i \in 1..Len(c) : c[i].disk \in machine /\ c[i].view = "native" /\ c[i].lbs = Unit(c[i].disk)
    <3>1. CASE c = <<>>
      BY ONLY <3>1
    <3>2. CASE \E d \in Whole : c = <<d>> /\ d.disk \in machine /\ d.view = "native" /\ d.lbs = Unit(d.disk)
      <4>1. PICK d \in Whole : c = <<d>> /\ d.disk \in machine /\ d.view = "native" /\ d.lbs = Unit(d.disk)
        BY <3>2
      <4>2. c \in Seq(Whole) /\ Len(c) = 1 /\ c[1] = d
        BY ONLY <4>1
      <4> QED BY <4>1, <4>2
    <3> QED BY <2>1, <3>1, <3>2
  <2> QED BY <1>3, <1>4, <2>1
<1>6. "nvme4k" \in machine => a = <<>>
  BY <1>1, <1>3
<1>7. a \o b \in Seq(Whole) /\ Len(a \o b) = Len(a) + Len(b)
  BY <1>5, ConcatProperties
<1>8. ASSUME NEW i \in 1..Len(a \o b)
      PROVE  LET d == (a \o b)[i] IN d.disk \in machine /\ d.view = "native" /\ d.lbs = Unit(d.disk)
  <2>1. (a \o b)[i] = IF i <= Len(a) THEN a[i] ELSE b[i - Len(a)]
    BY <1>5, <1>7, ConcatProperties
  <2>2. CASE i <= Len(a)
    BY <1>5, <2>1, <2>2
  <2>3. CASE ~ (i <= Len(a))
    <3>1. i - Len(a) \in 1..Len(b)
      <4>1. Len(a) \in Nat /\ Len(b) \in Nat /\ i \in 1..Len(a) + Len(b)
        BY <1>5, <1>7
      <4>2. PICK m \in Nat, n \in Nat : m = Len(a) /\ n = Len(b)
        BY <4>1
      <4>3. i \in 1..m + n /\ ~ (i <= m)
        BY <2>3, <4>1, <4>2
      <4>4. i - m \in 1..n
        BY ONLY <4>3, m \in Nat, n \in Nat
      <4> QED BY <4>2, <4>4
    <3> QED BY <1>5, <2>1, <2>3, <3>1
  <2> QED BY <2>2, <2>3
<1>9. "nvme4k" \in machine => Len(a \o b) <= 1
  BY <1>5, <1>6, <1>7
<1> QED BY <1>7, <1>8, <1>9

LEMMA StorageStarts == StorageInit => StorageInv
<1> SUFFICES ASSUME StorageInit PROVE StorageInv
  OBVIOUS
<1>1. PICK machine \in Machines : \E a \in AhciProbe(machine), b \in NvmeProbe(machine) :
        LET table == a \o b
        IN  /\ devs = Registered(table)
            /\ slots = IF \E i \in DOMAIN table : table[i].lbs # 1
                       THEN <<[owner |-> Len(table) - 1, native |-> Ratio]>> ELSE <<>>
            /\ platter = [d \in machine |-> [s \in 0..Sectors - 1 |-> Zero]]
  BY DEF StorageInit
<1>2. PICK table \in Seq(Whole) :
        /\ devs = Registered(table)
        /\ slots = IF \E i \in DOMAIN table : table[i].lbs # 1
                   THEN <<[owner |-> Len(table) - 1, native |-> Ratio]>> ELSE <<>>
        /\ platter = [d \in machine |-> [s \in 0..Sectors - 1 |-> Zero]]
        /\ \A i \in 1..Len(table) : LET d == table[i]
                                    IN  d.disk \in machine /\ d.view = "native" /\ d.lbs = Unit(d.disk)
        /\ "nvme4k" \in machine => Len(table) <= 1
  <2>1. PICK a \in AhciProbe(machine), b \in NvmeProbe(machine) :
            /\ devs = Registered(a \o b)
            /\ slots = IF \E i \in DOMAIN (a \o b) : (a \o b)[i].lbs # 1
                       THEN <<[owner |-> Len(a \o b) - 1, native |-> Ratio]>> ELSE <<>>
            /\ platter = [d \in machine |-> [s \in 0..Sectors - 1 |-> Zero]]
    BY <1>1
  <2>2. PICK table : table = a \o b
    OBVIOUS
  <2>3. /\ table \in Seq(Whole)
        /\ \A i \in 1..Len(table) : LET d == table[i]
                                    IN  d.disk \in machine /\ d.view = "native" /\ d.lbs = Unit(d.disk)
        /\ "nvme4k" \in machine => Len(table) <= 1
    BY <2>2, Probed
  <2> QED BY <2>1, <2>2, <2>3
<1>3. /\ windows = <<>> /\ bounce = [s \in 0..Ratio - 1 |-> Zero]
      /\ call = NoCall /\ answer = NoAnswer /\ late = {}
      /\ nvme = [sq |-> [i \in 0..QDepth - 1 |-> NoCmd], tail |-> 0, head |-> 0, phase |-> 1,
                 cq |-> [i \in 0..QDepth - 1 |-> [phase |-> 0, ok |-> TRUE]],
                 fetch |-> 0, post |-> 0, mark |-> 1]
      /\ sata = [cmd |-> NoCmd, ci |-> FALSE, err |-> FALSE]
  BY DEF StorageInit
<1>4. machine \subseteq Disks /\ DOMAIN platter = machine /\ Zero \in SectorData
  <2>1. machine \subseteq Disks
    BY StorageAssumption DEF Disks
  <2>2. DOMAIN platter = machine
    BY ONLY <1>2
  <2>3. Zero \in SectorData
    BY DEF Zero
  <2> QED BY <2>1, <2>2, <2>3
<1>5. Len(table) \in Nat /\ DOMAIN table = 1..Len(table) /\ DOMAIN devs = 1..Len(table)
      /\ \A i \in 1..Len(table) :
            devs[i] = IF table[i].lbs = 1 THEN table[i]
                      ELSE [table[i] EXCEPT !.view = "xlate", !.lbs = 1, !.total = @ * Ratio]
  <2>1. Len(table) \in Nat /\ DOMAIN table = 1..Len(table)
    BY <1>2
  <2>2. devs = [i \in 1..Len(table) |-> IF table[i].lbs = 1 THEN table[i]
                    ELSE [table[i] EXCEPT !.view = "xlate", !.lbs = 1, !.total = @ * Ratio]]
    BY <1>2, <2>1 DEF Registered
  <2>3. DOMAIN devs = 1..Len(table)
    BY ONLY <2>2
  <2> QED BY <2>1, <2>2, <2>3
<1>6. ASSUME NEW i \in 1..Len(table) PROVE devs[i] \in Whole \cup WindowDev /\ DeviceOk(devs[i])
  <2>1. PICK d \in Whole : d = table[i] /\ d.disk \in machine /\ d.view = "native" /\ d.lbs = Unit(d.disk)
    BY <1>2, ElementOf
  <2>2. CASE d.lbs = 1
    BY <1>4, <1>5, <2>1, <2>2 DEF DeviceOk
  <2>3. CASE d.lbs # 1
    <3>1. d.disk = "nvme4k" /\ i = 1 /\ Len(table) = 1
      <4>1. d.disk = "nvme4k" /\ Len(table) <= 1
        BY <1>2, <2>1, <2>3 DEF Unit
      <4>2. Len(table) \in Nat
        BY <1>5
      <4>3. PICK n \in Nat : n = Len(table)
        BY <4>2
      <4>4. i \in 1..n /\ n <= 1
        BY <4>1, <4>3
      <4>5. i = 1 /\ n = 1
        BY ONLY <4>4, n \in Nat
      <4> QED BY <4>1, <4>3, <4>5
    <3>2. slots = <<[owner |-> Len(table) - 1, native |-> Ratio]>>
      BY <1>2, <1>5, <2>1, <2>3
    <3>3. d.total * Ratio \in Nat
      <4>1. \A x, y \in Nat : x * y \in Nat
        OBVIOUS
      <4> QED BY <4>1 DEF Whole
    <3>4. devs[i] = [d EXCEPT !.view = "xlate", !.lbs = 1, !.total = d.total * Ratio]
      BY <1>5, <2>1, <2>3
    <3>5. devs[i] \in Whole /\ devs[i].view = "xlate" /\ devs[i].disk = d.disk
      <4>1. PICK n \in Nat : n = d.total * Ratio
        BY <3>3
      <4>2. devs[i] = [d EXCEPT !.view = "xlate", !.lbs = 1, !.total = n]
        BY <3>4, <4>1
      <4>3. PICK e : e = [d EXCEPT !.view = "xlate", !.lbs = 1, !.total = n]
        OBVIOUS
      <4>4. e \in Whole /\ e.view = "xlate" /\ e.disk = d.disk
        BY <4>3 DEF Whole
      <4> QED BY <4>2, <4>3, <4>4
    <3>6. slots = <<[owner |-> 0, native |-> Ratio]>>
      BY <3>1, <3>2
    <3> QED BY <1>4, <2>1, <3>1, <3>5, <3>6 DEF DeviceOk
  <2> QED BY <2>2, <2>3
<1>7. TableOK
  <2>1. devs \in Seq(Whole \cup WindowDev)
    <3>1. devs = [i \in 1..Len(table) |-> devs[i]]
      BY <1>2, <1>5 DEF Registered
    <3>2. \A i \in 1..Len(table) : devs[i] \in Whole \cup WindowDev
      BY <1>6
    <3>3. devs \in [1..Len(table) -> Whole \cup WindowDev]
      BY ONLY <3>1, <3>2
    <3>4. PICK n \in Nat : n = Len(table)
      BY <1>5
    <3>5. devs \in [1..n -> Whole \cup WindowDev]
      BY <3>3, <3>4
    <3> QED BY ONLY <3>5, n \in Nat
  <2>2. Len(devs) = Len(table)
    <3>1. PICK n \in Nat : n = Len(table)
      BY <1>5
    <3>2. \A S : \A s \in Seq(S) : DOMAIN s = 1..n => Len(s) = n
      <4> SUFFICES ASSUME NEW S, NEW s \in Seq(S), DOMAIN s = 1..n PROVE Len(s) = n
        OBVIOUS
      <4>1. Len(s) \in Nat /\ DOMAIN s = 1..Len(s)
        BY ONLY s \in Seq(S)
      <4>2. PICK m \in Nat : m = Len(s)
        BY <4>1
      <4>3. 1..m = 1..n
        BY <4>1, <4>2
      <4>4. m = n
        BY ONLY <4>3, m \in Nat, n \in Nat
      <4> QED BY <4>2, <4>4
    <3> QED BY <1>5, <2>1, <3>1, <3>2
  <2> QED BY <1>3, <1>4, <1>6, <2>1, <2>2 DEF TableOK
<1>8. platter \in [DOMAIN platter -> [0..Sectors - 1 -> SectorData]]
  BY <1>2, <1>4
<1>9. NoCmd \in Cmds /\ 0 \in Places
  BY DEF NoCmd, Cmds, Disks, Places
<1>10. nvme \in Pairs
  BY <1>3, <1>9 DEF Pairs, Places
<1>11. sata \in Ports /\ call \in Calls /\ answer \in Answers /\ bounce \in Blocks
  BY <1>3, <1>4, <1>9 DEF Ports, Calls, Answers, NoCall, NoAnswer, Blocks
<1>12. StorageTypeOK
  BY <1>3, <1>7, <1>8, <1>10, <1>11 DEF StorageTypeOK
<1>13. CallInv /\ DataInv
  BY <1>3 DEF CallInv, DataInv, AtDisk, NoCall
<1>14. QueuesInv
  BY <1>3 DEF QueuesInv, PhasesOk, NvmeQuiet, InStep, NoCall, Places
<1> QED BY <1>12, <1>13, <1>14 DEF StorageInv

LEMMA Listed == \A e \in Partitions : e \in [in_use : BOOLEAN, start : Nat, length : Nat]
<1> SUFFICES ASSUME NEW e \in Partitions PROVE e \in [in_use : BOOLEAN, start : Nat, length : Nat]
  OBVIOUS
<1>1. PICK i \in DOMAIN Table : e = Table[i]
  BY DEF Partitions
<1>2. PICK S : S = [in_use : BOOLEAN, start : Nat, length : Nat]
  OBVIOUS
<1>3. Table \in Seq(S)
  BY StorageAssumption, <1>2
<1>4. i \in 1..Len(Table)
  BY ONLY <1>3
<1> QED BY ONLY <1>1, <1>2, <1>3, <1>4, ElementOf

LEMMA Given == \A buf \in Patterns \cup {[i \in 1..n |-> Zero] : n \in Counts} : buf \in Seq(SectorData) \ {<<>>}
<1>1. ASSUME NEW n \in Counts PROVE [i \in 1..n |-> Zero] \in Seq(SectorData) \ {<<>>}
  <2>1. n \in Nat \ {0} /\ Zero \in SectorData
    BY StorageAssumption DEF Zero
  <2>2. [i \in 1..n |-> Zero] \in Seq(SectorData) /\ Len([i \in 1..n |-> Zero]) = n
    BY <2>1
  <2> QED BY <2>1, <2>2
<1>2. Patterns \subseteq Seq(SectorData) \ {<<>>}
  BY StorageAssumption
<1> QED BY <1>1, <1>2

LEMMA StorageKeeps == StorageInv /\ [StorageNext]_storageVars => StorageInv'
<1> SUFFICES ASSUME StorageInv, [StorageNext]_storageVars PROVE StorageInv'
  OBVIOUS
<1>1. ASSUME NEW idx \in 0..Len(devs) - 1, NEW lba \in 0..Sectors - 1, NEW buf \in Patterns,
             BlockCall(idx, "write", lba, buf)
      PROVE  StorageInv'
  <2>1. lba \in Nat /\ buf \in Seq(SectorData) \ {<<>>} /\ "write" \in Op
    BY Given DEF Op
  <2> QED BY <1>1, <2>1, BlockCallKeeps
<1>2. ASSUME NEW idx \in 0..Len(devs) - 1, NEW lba \in 0..Sectors - 1, NEW n \in Counts,
             BlockCall(idx, "read", lba, [i \in 1..n |-> Zero])
      PROVE  StorageInv'
  <2>1. PICK buf \in Seq(SectorData) \ {<<>>} : buf = [i \in 1..n |-> Zero]
    BY Given
  <2>2. lba \in Nat /\ "read" \in Op
    BY DEF Op
  <2> QED BY <1>2, <2>1, <2>2, BlockCallKeeps
<1>3. ASSUME NEW idx \in 0..Len(devs) - 1, NEW e \in Partitions, RegisterPartition(idx, e) PROVE StorageInv'
  BY <1>3, Listed, RegisterKeeps
<1>4. CASE Window \/ Native \/ Xlate
  BY <1>4, WindowKeeps, NativeKeeps, XlateKeeps
<1>5. CASE SliceFetch \/ SliceRead \/ SlicePatch \/ SliceStored \/ Finish
  BY <1>5, SliceFetchKeeps, SliceReadKeeps, SlicePatchKeeps, SliceStoredKeeps, FinishKeeps
<1>6. ASSUME NEW ok \in BOOLEAN, NEW k \in 0..Sectors, NvmeExecute(ok, k) \/ SataExecute(ok, k) PROVE StorageInv'
  BY <1>6, NvmeExecuteKeeps, SataExecuteKeeps
<1>7. CASE NvmeComplete \/ SataComplete \/ GiveUp
  BY <1>7, NvmeCompleteKeeps, SataCompleteKeeps, GiveUpKeeps
<1>8. CASE UNCHANGED storageVars
  <2>1. UNCHANGED <<devs, slots, windows, platter, bounce, call, answer, nvme, sata, late>>
    BY <1>8 DEF storageVars
  <2>2. TableOK'
    BY <2>1, SameTable DEF StorageInv, StorageTypeOK
  <2>3. StorageTypeOK'
    BY <2>1, <2>2 DEF StorageInv, StorageTypeOK
  <2>4. /\ Here' = Here /\ FsLba' = FsLba /\ BlockGet(call.dev)' = BlockGet(call.dev)
        /\ \A cmd : First(cmd)' = First(cmd) /\ Size(cmd)' = Size(cmd)
    BY <2>1 DEF Here, FsLba, BlockGet, First, Size, Unit
  <2>5. \A cmd : Expected(cmd) => Expected(cmd)'
    BY <2>1, <2>4 DEF Expected, Fetched, Base
  <2>6. Executed => Executed'
    BY <2>1, <2>4 DEF Executed, MovedTo, Fetched, Base
  <2>7. CallInv' /\ DataInv'
    BY <2>1, <2>4, <2>6 DEF StorageInv, CallInv, DataInv, MovedTo, AtDisk
  <2>8. QueuesInv'
    <3>1. SataBusy => SataBusy'
      BY <2>1, <2>5, <2>6 DEF SataBusy, NvmeQuiet, InStep, Expected
    <3>2. NvmeBusy => NvmeBusy'
      BY <2>1, <2>5, <2>6 DEF NvmeBusy, NvmePending, NvmePosted, InStep
    <3>3. PhasesOk => PhasesOk'
      BY <2>1 DEF PhasesOk
    <3>4. \A cmd : Harmless(cmd) => Harmless(cmd)'
      BY <2>1, <2>4 DEF Harmless
    <3>5. NvmeQuiet => NvmeQuiet'
      BY <2>1 DEF NvmeQuiet, InStep
    <3>6. nvme.sq[nvme.fetch]' = nvme.sq[nvme.fetch] /\ sata.cmd' = sata.cmd
      BY <2>1
    <3> QED BY <2>1, <2>4, <3>1, <3>2, <3>3, <3>4, <3>5, <3>6 DEF StorageInv, QueuesInv
  <2> QED BY <2>3, <2>7, <2>8 DEF StorageInv
<1> QED BY <1>1, <1>2, <1>3, <1>4, <1>5, <1>6, <1>7, <1>8 DEF StorageNext

\* In every state of the storage stack its tables, queues and calls fit together: at most
\* one command is under way, it is the one the call waits for (nvme.c's io_submit, ahci.c's
\* port_rw), and what a slice or a transfer has moved is what the disk holds (lba_xlate.c).
THEOREM StorageInvariance == StorageSpec => []StorageInv
<1>1. StorageInit => StorageInv
  BY StorageStarts
<1>2. StorageInv /\ [StorageNext]_storageVars => StorageInv'
  BY StorageKeeps
<1> QED BY <1>1, <1>2, PTL DEF StorageSpec

----------------------------------------------------------------------------
(* The stack implements Disk.                                              *)

\* What Disk's variables are in this state.
Stored == [s \in Sector |-> IF s[1] \in DOMAIN platter THEN platter[s[1]][s[2]] ELSE Zero]
Wanted ==
    IF ~AtDisk THEN [op |-> "none", data |-> <<>>]
    ELSE [op |-> call.op,
          data |-> [s \in Span(Here, call.count) |->
                       IF call.op = "write" THEN call.buf[s[2] - call.lba + 1] ELSE Zero]]
LastReply ==
    [ok |-> answer.ok,
     data |-> [s \in Span(answer.at, Len(answer.data)) |-> answer.data[s[2] - answer.at[2] + 1]]]
NoRequest == [op |-> "none", data |-> <<>>]

\* A step of the stack seen as one of Disk's.
LEMMA SeenStutter ==
    ASSUME Stored' = Stored, Wanted' = Wanted, LastReply' = LastReply, late' = late
    PROVE  [DiskView!DiskNext]_(DiskView!diskVars)
BY DEF Stored, Wanted, LastReply, Sector, DiskView!diskVars

LEMMA SeenBegin ==
    ASSUME Wanted = NoRequest, Wanted' # NoRequest, Stored' = Stored, LastReply' = LastReply, late' = late
    PROVE  [DiskView!DiskNext]_(DiskView!diskVars)
<1>1. DiskView!Begin
  BY DEF Stored, Wanted, LastReply, Sector, NoRequest, DiskView!Begin, DiskView!None
<1> QED BY <1>1 DEF DiskView!DiskNext

LEMMA SeenTransfer ==
    ASSUME Wanted.op = "write", NEW S \in SUBSET DOMAIN Wanted.data,
           Stored' = [s \in Sector |-> IF s \in S THEN Wanted.data[s] ELSE Stored[s]],
           Wanted' = Wanted, LastReply' = LastReply, late' = late
    PROVE  [DiskView!DiskNext]_(DiskView!diskVars)
<1>1. \E T \in SUBSET DOMAIN Wanted.data :
          Stored' = [s \in Sector |-> IF s \in T THEN Wanted.data[s] ELSE Stored[s]]
  OBVIOUS
<1>2. DiskView!Transfer
  BY <1>1 DEF Stored, Wanted, LastReply, Sector, DiskView!Transfer
<1> QED BY <1>2 DEF DiskView!DiskNext

LEMMA SeenReply ==
    ASSUME Wanted # NoRequest, Wanted' = NoRequest, Stored' = Stored, late' = late,
           LastReply'.ok => /\ LastReply'.data = Wanted.data \/ Wanted.op = "read"
                           /\ LastReply'.data = [s \in DOMAIN Wanted.data |-> Stored[s]]
    PROVE  [DiskView!DiskNext]_(DiskView!diskVars)
<1>1. DiskView!Reply
  BY DEF Stored, Wanted, LastReply, Sector, NoRequest, DiskView!Reply, DiskView!None
<1> QED BY <1>1 DEF DiskView!DiskNext

LEMMA SeenRefuse ==
    ASSUME Wanted = NoRequest, Wanted' = Wanted, Stored' = Stored, late' = late, ~answer'.ok
    PROVE  [DiskView!DiskNext]_(DiskView!diskVars)
<1>1. DiskView!Refuse
  BY DEF Stored, Wanted, LastReply, Sector, NoRequest, DiskView!Refuse, DiskView!None
<1> QED BY <1>1 DEF DiskView!DiskNext

LEMMA SeenGiveUp ==
    ASSUME Wanted # NoRequest, Wanted' = NoRequest, Stored' = Stored, late' = DOMAIN Wanted.data, ~answer'.ok
    PROVE  [DiskView!DiskNext]_(DiskView!diskVars)
<1>1. DiskView!GiveUp
  BY DEF Stored, Wanted, LastReply, Sector, NoRequest, DiskView!GiveUp, DiskView!None
<1> QED BY <1>1 DEF DiskView!DiskNext

LEMMA SeenStraggle ==
    ASSUME late # {}, \A s \in Sector \ late : Stored'[s] = Stored[s],
           Wanted' = Wanted, LastReply' = LastReply, late' = late
    PROVE  [DiskView!DiskNext]_(DiskView!diskVars)
<1>1. DiskView!Straggle
  BY DEF Stored, Wanted, LastReply, Sector, DiskView!Straggle
<1> QED BY <1>1 DEF DiskView!DiskNext

----------------------------------------------------------------------------
(* Each action.                                                            *)

LEMMA Idles ==
    ASSUME ~AtDisk PROVE Wanted = NoRequest
BY DEF Wanted, NoRequest

LEMMA Works ==
    ASSUME StorageInv, AtDisk
    PROVE  /\ Wanted # NoRequest /\ Wanted.op = call.op /\ call.op \in Op
           /\ DOMAIN Wanted.data = Span(Here, call.count)
           /\ call.op = "write" => \A s \in Span(Here, call.count) : Wanted.data[s] = call.buf[s[2] - call.lba + 1]
<1>1. call.op \in Op /\ "none" \notin Op
  BY AtCall DEF StorageInv, AtDisk, Op
<1> QED BY <1>1 DEF Wanted, NoRequest

LEMMA SameWanted ==
    ASSUME AtDisk, AtDisk', Here' = Here, call'.op = call.op, call'.lba = call.lba, call'.count = call.count,
           call.op = "write" => call'.buf = call.buf
    PROVE  Wanted' = Wanted
<1>1. CASE call.op = "write"
  BY <1>1 DEF Wanted
<1>2. CASE call.op # "write"
  BY <1>2 DEF Wanted
<1> QED BY <1>1, <1>2

LEMMA SameStored == platter' = platter => Stored' = Stored
BY DEF Stored

LEMMA SameAnswered == answer' = answer => LastReply' = LastReply
BY DEF LastReply

\* Actions that change neither the disks nor an answer, and stay within one call.
LEMMA SeenQuiet ==
    ASSUME StorageInv, platter' = platter, answer' = answer, late' = late,
           \/ ~AtDisk /\ ~AtDisk'
           \/ ~AtDisk /\ AtDisk' /\ call'.op \in Op
           \/ /\ AtDisk /\ AtDisk' /\ Here' = Here /\ call'.op = call.op /\ call'.lba = call.lba
              /\ call'.count = call.count /\ (call.op = "write" => call'.buf = call.buf)
    PROVE  [DiskView!DiskNext]_(DiskView!diskVars)
<1>1. Stored' = Stored /\ LastReply' = LastReply
  BY SameStored, SameAnswered
<1>2. CASE ~AtDisk /\ ~AtDisk'
  <2>1. Wanted' = Wanted
    BY <1>2 DEF Wanted
  <2> QED BY <1>1, <2>1, SeenStutter
<1>3. CASE ~AtDisk /\ AtDisk' /\ call'.op \in Op
  <2>1. Wanted = NoRequest /\ Wanted' # NoRequest
    BY <1>3 DEF Wanted, NoRequest, Op
  <2> QED BY <1>1, <2>1, SeenBegin
<1>4. CASE /\ AtDisk /\ AtDisk' /\ Here' = Here /\ call'.op = call.op /\ call'.lba = call.lba
           /\ call'.count = call.count /\ (call.op = "write" => call'.buf = call.buf)
  <2>1. Wanted' = Wanted
    BY <1>4, SameWanted
  <2> QED BY <1>1, <2>1, SeenStutter
<1> QED BY <1>2, <1>3, <1>4

\* A call that is refused, or the last answer that goes.
LEMMA SeenIdle ==
    ASSUME ~AtDisk, ~AtDisk', platter' = platter, late' = late, ~answer'.ok
    PROVE  [DiskView!DiskNext]_(DiskView!diskVars)
<1>1. Wanted = NoRequest /\ Wanted' = Wanted
  BY Idles DEF Wanted, NoRequest
<1> QED BY <1>1, SameStored, SeenRefuse

LEMMA ThunkSeen ==
    ASSUME StorageInv, call.pc = "thunk", platter' = platter, late' = late,
           \/ Return(FALSE)
           \/ answer' = answer /\ call'.pc # "idle" /\ call'.op = call.op
    PROVE  [DiskView!DiskNext]_(DiskView!diskVars)
<1>1. ~AtDisk /\ call.op \in Op
  BY AtCall DEF AtDisk, StorageInv
<1>2. CASE Return(FALSE)
  BY <1>1, <1>2, SeenIdle DEF Return, NoCall, AtDisk
<1>3. CASE answer' = answer /\ call'.pc # "idle" /\ call'.op = call.op
  BY <1>1, <1>3, SeenQuiet
<1> QED BY <1>2, <1>3

LEMMA ReplySeen ==
    ASSUME StorageInv, Finish
    PROVE  [DiskView!DiskNext]_(DiskView!diskVars)
<1>1. PICK ok \in BOOLEAN :
          /\ Return(ok) /\ platter' = platter /\ late' = late
          /\ call.pc = "end" \/ (call.pc = "whole" /\ call.io = "ok") \/ call.io = "failed"
          /\ ok => call.pc = "end" \/ (call.pc = "whole" /\ call.io = "ok")
  BY DEF Finish
<1>2. call' = NoCall /\ answer' = [ok |-> ok, at |-> Here, data |-> call.buf]
  BY <1>1 DEF Return
<1>3. AtDisk /\ ~AtDisk'
  BY <1>1, <1>2 DEF AtDisk, StorageInv, CallInv, NoCall
<1>4. Wanted # NoRequest /\ Wanted' = NoRequest
  BY <1>3, Works DEF Wanted, NoRequest
<1>5. ASSUME ok
      PROVE  /\ LastReply'.data = Wanted.data \/ Wanted.op = "read"
             /\ LastReply'.data = [s \in DOMAIN Wanted.data |-> Stored[s]]
  <2>1. /\ call.buf \in Seq(SectorData) /\ Len(call.buf) = call.count /\ call.count \in Nat \ {0} /\ call.lba \in Nat
        /\ Here = <<BlockGet(call.dev).disk, call.lba>> /\ Here[1] \in DOMAIN platter /\ Here[1] \in Disks
    BY <1>3, AtCall, AtDevice DEF StorageInv, AtDisk
  <2>2. MovedTo(call.count)
    BY <1>1, <1>5 DEF StorageInv, DataInv, CallInv, Executed
  <2>3. PICK h \in Disks, lba \in Nat, n \in Nat \ {0} : h = Here[1] /\ lba = call.lba /\ n = call.count
    BY <2>1
  <2>4. Here[2] = lba
    BY <2>1, <2>3
  <2>5. LastReply'.data = [s \in Span(Here, n) |-> call.buf[s[2] - lba + 1]]
    BY <1>2, <2>1, <2>3, <2>4 DEF LastReply
  <2>6. ASSUME NEW s \in Span(Here, n) PROVE s \in Sector /\ call.buf[s[2] - lba + 1] = Stored[s]
    <3>1. PICK i \in 0..n - 1 : s = <<h, lba + i>>
      BY <2>3, <2>4 DEF Span
    <3>2. lba + n <= Sectors /\ call.buf[i + 1] = platter[h][lba + (i + 1) - 1]
      <4>1. i + 1 \in 1..call.count /\ call.count # 0
        BY <2>3
      <4> QED BY <2>2, <2>3, <4>1 DEF MovedTo
    <3>3. /\ lba + (i + 1) - 1 = lba + i /\ s[2] - lba + 1 = i + 1 /\ lba + i \in 0..Sectors - 1
          /\ s[1] = h /\ s[2] = lba + i
      BY <3>1, <3>2
    <3>4. s \in Sector
      BY <2>1, <2>3, <3>1, <3>3 DEF Sector
    <3> QED BY <2>1, <2>3, <3>2, <3>3, <3>4 DEF Stored
  <2>7. DOMAIN Wanted.data = Span(Here, n)
    BY <1>3, <2>3, Works
  <2>8. call.op = "write" => Wanted.data = [s \in Span(Here, n) |-> call.buf[s[2] - lba + 1]]
    BY <1>3, <2>3 DEF Wanted
  <2>9. Wanted.op = "read" \/ call.op = "write"
    BY <1>3, Works DEF Op
  <2> QED BY <2>5, <2>6, <2>7, <2>8, <2>9
<1>6. LastReply'.ok = ok
  BY <1>2 DEF LastReply
<1> QED BY <1>1, <1>4, <1>5, <1>6, SameStored, SeenReply

LEMMA GiveUpSeen ==
    ASSUME StorageInv, GiveUp
    PROVE  [DiskView!DiskNext]_(DiskView!diskVars)
<1>1. /\ platter' = platter /\ call.io = "busy" /\ late' = Span(Here, call.count)
      /\ call' = NoCall /\ ~answer'.ok
  BY DEF GiveUp, Return
<1>2. AtDisk /\ ~AtDisk'
  BY <1>1 DEF AtDisk, StorageInv, CallInv, NoCall
<1>3. Wanted # NoRequest /\ Wanted' = NoRequest /\ late' = DOMAIN Wanted.data
  BY <1>1, <1>2, Works, Idles DEF Wanted, NoRequest
<1> QED BY <1>1, <1>3, SameStored, SeenGiveUp

\* What a controller executes: the command of the call, or one that was given up.
LEMMA Commanded ==
    ASSUME StorageInv, NEW ok \in BOOLEAN, NEW k \in 0..Sectors, NvmeExecute(ok, k) \/ SataExecute(ok, k)
    PROVE  \E cmd \in Cmds :
              /\ Execute(cmd, ok, k) /\ UNCHANGED <<devs, slots, windows, answer, late>>
              /\ late = {} => call.io = "busy" /\ Expected(cmd)
              /\ late # {} => Harmless(cmd)
<1>1. nvme \in Pairs /\ sata \in Ports /\ QueuesInv
  BY DEF StorageInv, StorageTypeOK
<1>2. CASE NvmeExecute(ok, k)
  <2>1. PICK cmd \in Cmds : cmd = nvme.sq[nvme.fetch]
    BY <1>1 DEF Pairs
  <2>2. /\ Execute(cmd, ok, k) /\ UNCHANGED <<devs, slots, windows, answer, late>> /\ nvme.fetch # nvme.tail
    BY <1>2, <2>1 DEF NvmeExecute
  <2>3. late = {} => call.io = "busy" /\ Expected(cmd)
    BY <1>1, <2>1, <2>2 DEF QueuesInv, NvmeQuiet, SataBusy, NvmeBusy, NvmePosted
  <2>4. late # {} => Harmless(cmd)
    BY <1>1, <2>1, <2>2 DEF QueuesInv
  <2> QED BY <2>2, <2>3, <2>4
<1>3. CASE SataExecute(ok, k)
  <2>1. PICK cmd \in Cmds : cmd = sata.cmd
    BY <1>1 DEF Ports
  <2>2. /\ Execute(cmd, ok, k) /\ UNCHANGED <<devs, slots, windows, answer, late>> /\ sata.ci
    BY <1>3, <2>1 DEF SataExecute
  <2>3. late = {} => call.io = "busy" /\ Expected(cmd)
    BY <1>1, <2>1, <2>2 DEF QueuesInv, SataBusy, NvmeBusy
  <2>4. late # {} => Harmless(cmd)
    BY <1>1, <2>1, <2>2 DEF QueuesInv
  <2> QED BY <2>2, <2>3, <2>4
<1> QED BY <1>2, <1>3

\* Only the call's own sectors have changed, to what it writes.
LEMMA OwnSectors ==
    ASSUME StorageInv, AtDisk, call.op = "write", DOMAIN platter' = DOMAIN platter,
           OnlyOwn(Here[1], call.lba, call.buf, platter, platter')
    PROVE  \E S \in SUBSET DOMAIN Wanted.data :
              Stored' = [s \in Sector |-> IF s \in S THEN Wanted.data[s] ELSE Stored[s]]
<1>1. /\ call.buf \in Seq(SectorData) /\ Len(call.buf) = call.count /\ call.count \in Nat \ {0} /\ call.lba \in Nat
      /\ Here = <<BlockGet(call.dev).disk, call.lba>> /\ Here[1] \in DOMAIN platter /\ Here[1] \in Disks
  BY AtCall, AtDevice DEF StorageInv, AtDisk
<1>2. PICK h \in Disks, lba \in Nat, n \in Nat \ {0} : h = Here[1] /\ lba = call.lba /\ n = call.count
  BY <1>1
<1>3. Here[2] = lba
  BY <1>1, <1>2
<1>4. /\ DOMAIN Wanted.data = Span(Here, n)
      /\ \A s \in Span(Here, n) : Wanted.data[s] = call.buf[s[2] - lba + 1]
  BY <1>2, Works
<1>5. PICK S : S = {s \in DOMAIN Wanted.data : s \in Sector /\ Stored'[s] = Wanted.data[s]}
  OBVIOUS
<1>6. ASSUME NEW s \in Sector, s \notin S PROVE Stored'[s] = Stored[s]
  <2>1. PICK d \in Disks, x \in 0..Sectors - 1 : s = <<d, x>> /\ s[1] = d /\ s[2] = x
    BY DEF Sector
  <2>2. Stored[s] = IF d \in DOMAIN platter THEN platter[d][x] ELSE Zero
    BY <2>1 DEF Stored
  <2>3. Stored'[s] = IF d \in DOMAIN platter THEN platter'[d][x] ELSE Zero
    BY <2>1 DEF Stored
  <2>4. CASE d \in DOMAIN platter /\ d # h
    BY <1>2, <2>2, <2>3, <2>4 DEF OnlyOwn
  <2>5. CASE d = h
    <3>1. SUFFICES ASSUME NEW j \in 1..Len(call.buf), x = lba + j - 1, platter'[h][x] = call.buf[j] PROVE FALSE
      BY <1>1, <1>2, <2>2, <2>3, <2>5 DEF OnlyOwn
    <3>2. j - 1 \in 0..n - 1 /\ x = lba + (j - 1) /\ x - lba + 1 = j
      <4>1. j \in 1..n
        BY <1>1, <1>2
      <4> QED BY ONLY <3>1, <4>1, lba \in Nat, n \in Nat \ {0}
    <3>3. s \in Span(Here, n)
      BY <1>2, <1>3, <2>1, <2>5, <3>2 DEF Span
    <3>4. Wanted.data[s] = call.buf[j]
      BY <1>4, <2>1, <3>2, <3>3
    <3>5. Stored'[s] = call.buf[j]
      BY <1>1, <1>2, <2>3, <2>5, <3>1
    <3> QED BY <1>4, <1>5, <1>6, <3>3, <3>4, <3>5
  <2>6. CASE d \notin DOMAIN platter
    BY <2>2, <2>3, <2>6
  <2> QED BY <2>4, <2>5, <2>6
<1>7. \A s \in Sector : Stored'[s] = IF s \in S THEN Wanted.data[s] ELSE Stored[s]
  BY <1>5, <1>6
<1>8. PICK f, g, v : f = Stored' /\ g = Stored /\ v = Wanted.data
  OBVIOUS
<1>9. f = [s \in Sector |-> f[s]]
  BY <1>8 DEF Stored, Sector
<1>10. f = [s \in Sector |-> IF s \in S THEN v[s] ELSE g[s]]
  <2>1. \A s \in Sector : f[s] = IF s \in S THEN v[s] ELSE g[s]
    BY <1>7, <1>8
  <2> QED BY ONLY <1>9, <2>1
<1>11. S \in SUBSET DOMAIN Wanted.data
  BY <1>5
<1>12. Stored' = [s \in Sector |-> IF s \in S THEN Wanted.data[s] ELSE Stored[s]]
  BY ONLY <1>8, <1>10
<1> QED BY ONLY <1>11, <1>12, Zenon

LEMMA ExecuteSeen ==
    ASSUME StorageInv, NEW ok \in BOOLEAN, NEW k \in 0..Sectors, NvmeExecute(ok, k) \/ SataExecute(ok, k)
    PROVE  [DiskView!DiskNext]_(DiskView!diskVars)
<1>1. PICK cmd \in Cmds :
              /\ Execute(cmd, ok, k) /\ UNCHANGED <<devs, slots, windows, answer, late>>
              /\ late = {} => call.io = "busy" /\ Expected(cmd)
              /\ late # {} => Harmless(cmd)
  BY Commanded
<1>2. CASE late = {}
  <2>1. /\ DOMAIN platter' = DOMAIN platter
        /\ call'.buf \in Seq(SectorData) /\ call' = [call EXCEPT !.buf = call'.buf]
        /\ call.op = "write" => call' = call
        /\ \/ platter' = platter
           \/ call.op = "write" /\ OnlyOwn(Here[1], call.lba, call.buf, platter, platter')
    BY <1>1, <1>2, Executes
  <2>2. PICK b \in Seq(SectorData) : b = call'.buf /\ call' = [call EXCEPT !.buf = b]
    BY <2>1
  <2>3. /\ call'.pc = call.pc /\ call'.op = call.op /\ call'.dev = call.dev
        /\ call'.lba = call.lba /\ call'.count = call.count
    BY <2>2 DEF StorageInv, StorageTypeOK, Calls
  <2>4. AtDisk /\ AtDisk' /\ Here' = Here
    BY <1>1, <1>2, <2>3 DEF AtDisk, Here, BlockGet, StorageInv, CallInv
  <2>5. Wanted' = Wanted /\ LastReply' = LastReply
    BY <1>1, <2>1, <2>3, <2>4, SameWanted, SameAnswered
  <2>6. CASE platter' = platter
    BY <1>1, <2>5, <2>6, SameStored, SeenStutter
  <2>7. CASE call.op = "write" /\ OnlyOwn(Here[1], call.lba, call.buf, platter, platter')
    <3>1. PICK S \in SUBSET DOMAIN Wanted.data :
              Stored' = [s \in Sector |-> IF s \in S THEN Wanted.data[s] ELSE Stored[s]]
      BY <2>1, <2>4, <2>7, OwnSectors
    <3>2. Wanted.op = "write"
      BY <2>4, <2>7, Works
    <3> QED BY <1>1, <2>5, <3>1, <3>2, SeenTransfer
  <2> QED BY <2>1, <2>6, <2>7
<1>3. CASE late # {}
  <2>1. /\ call' = call /\ platter' \in [DOMAIN platter -> [0..Sectors - 1 -> SectorData]]
        /\ \A d \in DOMAIN platter, s \in 0..Sectors - 1 : <<d, s>> \notin late => platter'[d][s] = platter[d][s]
    BY <1>1, <1>3, Straggles
  <2>2. ~AtDisk /\ ~AtDisk'
    BY <1>3, <2>1 DEF AtDisk, StorageInv, CallInv, NoCall
  <2>3. Wanted' = Wanted /\ LastReply' = LastReply
    BY <1>1, <2>2, SameAnswered DEF Wanted
  <2>4. ASSUME NEW s \in Sector \ late PROVE Stored'[s] = Stored[s]
    <3>1. PICK d \in Disks, x \in 0..Sectors - 1 : s = <<d, x>> /\ s[1] = d /\ s[2] = x
      BY DEF Sector
    <3>2. DOMAIN platter' = DOMAIN platter
      BY <2>1
    <3>3. Stored[s] = IF d \in DOMAIN platter THEN platter[d][x] ELSE Zero
      BY <3>1 DEF Stored
    <3>4. Stored'[s] = IF d \in DOMAIN platter THEN platter'[d][x] ELSE Zero
      BY <3>1, <3>2 DEF Stored
    <3> QED BY <2>1, <3>1, <3>3, <3>4
  <2> QED BY <1>1, <1>3, <2>3, <2>4, SeenStraggle
<1> QED BY <1>2, <1>3

LEMMA StorageSeen ==
    ASSUME StorageInv, [StorageNext]_storageVars
    PROVE  [DiskView!DiskNext]_(DiskView!diskVars)
<1>1. StorageTypeOK /\ CallInv /\ call \in Calls
  BY DEF StorageInv, StorageTypeOK
<1>2. ASSUME NEW idx, NEW op, NEW lba, NEW buf, BlockCall(idx, op, lba, buf)
      PROVE  [DiskView!DiskNext]_(DiskView!diskVars)
  BY <1>2, SeenIdle DEF BlockCall, AtDisk, NoCall, NoAnswer
<1>3. ASSUME NEW idx, NEW e, RegisterPartition(idx, e) PROVE [DiskView!DiskNext]_(DiskView!diskVars)
  BY <1>3, SeenQuiet DEF RegisterPartition, AtDisk
<1>4. CASE Window
  BY <1>1, <1>4, ThunkSeen DEF Window, Calls
<1>5. CASE Native
  <2>1. ASSUME NEW c, Submit(c, "whole") PROVE call'.pc # "idle" /\ call'.op = call.op
    BY <1>1, <2>1 DEF Submit, Calls
  <2> QED BY <1>5, <2>1, ThunkSeen DEF Native
<1>6. CASE Xlate
  <2>1. ASSUME NEW c, Submit(c, "whole") PROVE call'.pc # "idle" /\ call'.op = call.op
    BY <1>1, <2>1 DEF Submit, Calls
  <2>2. call' = [call EXCEPT !.pc = "slice"] => call'.pc # "idle" /\ call'.op = call.op
    BY <1>1 DEF Calls
  <2> QED BY <1>6, <2>1, <2>2, ThunkSeen DEF Xlate
<1>7. CASE SliceFetch \/ SlicePatch
  <2>1. ASSUME NEW c, NEW pc, Submit(c, pc)
        PROVE  /\ call'.pc = pc /\ call'.op = call.op /\ call'.dev = call.dev /\ call'.lba = call.lba
               /\ call'.count = call.count /\ call'.buf = call.buf
    BY <1>1, <2>1 DEF Submit, Calls
  <2>2. /\ platter' = platter /\ answer' = answer /\ late' = late /\ devs' = devs
        /\ AtDisk /\ AtDisk' /\ call'.op = call.op /\ call'.dev = call.dev /\ call'.lba = call.lba
        /\ call'.count = call.count /\ call'.buf = call.buf
    BY <1>7, <2>1 DEF SliceFetch, SlicePatch, AtDisk
  <2>3. Here' = Here
    BY <2>2 DEF Here, BlockGet
  <2> QED BY <2>2, <2>3, SeenQuiet
<1>8. CASE SliceRead \/ SliceStored \/ NvmeComplete \/ SataComplete
  <2>1. /\ platter' = platter /\ answer' = answer /\ late' = late /\ devs' = devs
        /\ AtDisk /\ AtDisk' /\ call'.op = call.op /\ call'.dev = call.dev /\ call'.lba = call.lba
        /\ call'.count = call.count /\ (call.op = "write" => call'.buf = call.buf)
    <3>1. CASE SliceRead
      BY <1>1, <3>1 DEF SliceRead, AtDisk, Calls
    <3>2. CASE SliceStored
      BY <1>1, <3>2 DEF SliceStored, AtDisk, Calls
    <3>3. CASE NvmeComplete
      BY <1>1, <3>3 DEF NvmeComplete, AtDisk, Calls, CallInv
    <3>4. CASE SataComplete
      BY <1>1, <3>4 DEF SataComplete, AtDisk, Calls, CallInv
    <3> QED BY <1>8, <3>1, <3>2, <3>3, <3>4
  <2>2. Here' = Here
    BY <2>1 DEF Here, BlockGet
  <2> QED BY <2>1, <2>2, SeenQuiet
<1>9. CASE UNCHANGED storageVars
  <2>1. /\ platter' = platter /\ answer' = answer /\ late' = late /\ devs' = devs /\ call' = call
    BY <1>9 DEF storageVars
  <2>2. Here' = Here /\ (AtDisk' <=> AtDisk)
    BY <2>1 DEF Here, BlockGet, AtDisk
  <2> QED BY <2>1, <2>2, SeenQuiet
<1> QED BY <1>2, <1>3, <1>4, <1>5, <1>6, <1>7, <1>8, <1>9, ReplySeen, GiveUpSeen, ExecuteSeen DEF StorageNext

LEMMA StorageSeenAtStart ==
    ASSUME StorageInit PROVE DiskView!DiskInit
<1>1. StorageInv /\ call = NoCall /\ late = {}
  BY StorageStarts DEF StorageInit
<1>2. Wanted = NoRequest
  BY <1>1, Idles DEF AtDisk, NoCall
<1>3. Stored \in [Sector -> SectorData]
  <2>1. ASSUME NEW s \in Sector
        PROVE  (IF s[1] \in DOMAIN platter THEN platter[s[1]][s[2]] ELSE Zero) \in SectorData
    <3>1. s[2] \in 0..Sectors - 1
      BY DEF Sector
    <3>2. Zero \in SectorData
      BY DEF Zero
    <3>3. platter \in [DOMAIN platter -> [0..Sectors - 1 -> SectorData]]
      BY <1>1 DEF StorageInv, StorageTypeOK
    <3> QED BY <3>1, <3>2, <3>3
  <2> QED BY <2>1 DEF Stored
<1> QED BY <1>1, <1>2, <1>3 DEF Stored, Wanted, Sector, NoRequest, DiskView!DiskInit, DiskView!None

\* block_read and block_write implement Disk, whatever the device: a successful call has
\* moved exactly its sectors, a failed one has changed no other, and a command that was
\* given up may only change the sectors of its call.
THEOREM ImplementsDisk == StorageSpec => DiskSpec
<1>1. StorageInit => DiskView!DiskInit
  BY StorageSeenAtStart
<1>2. StorageInv /\ [StorageNext]_storageVars => [DiskView!DiskNext]_(DiskView!diskVars)
  BY StorageSeen
<1> QED BY <1>1, <1>2, StorageInvariance, PTL DEF StorageSpec, DiskSpec, DiskView!DiskSpec

----------------------------------------------------------------------------
(* The text of a page.  TextStep is the step of ToText, Reading its scan.  *)
Fresh == [out |-> <<>>, skip |-> FALSE, nl |-> TRUE, sp |-> TRUE]
Scans == [out : Seq(Tokens), skip : BOOLEAN, nl : BOOLEAN, sp : BOOLEAN]
TextStep(in, s, i) ==
    LET t == in[i] IN
    IF t \in Tags
    THEN IF i = Len(in) THEN s ELSE [s EXCEPT !.skip = t \in Hiding \/ (@ /\ t \notin Closing)]
    ELSE IF s.skip \/ t = "CR" THEN s
    ELSE IF t = "LF" THEN IF s.nl THEN s ELSE [s EXCEPT !.out = Append(@, t), !.nl = TRUE, !.sp = TRUE]
    ELSE IF t = "sp" THEN IF s.sp THEN s ELSE [s EXCEPT !.out = Append(@, t), !.sp = TRUE]
    ELSE [s EXCEPT !.out = Append(@, t), !.nl = FALSE, !.sp = FALSE]
Scan(f, in, m) == f[0] = Fresh /\ \A i \in 1..m : f[i] = TextStep(in, f[i - 1], i)
Reading(in) ==
    LET done[i \in 0..Len(in)] == IF i = 0 THEN Fresh ELSE TextStep(in, done[i - 1], i) IN done

LEMMA TextIs == \A in : ToText(in) = Reading(in)[Len(in)].out
  BY DEF ToText, Reading, TextStep, Fresh

\* A step of the scan keeps the text, or puts the character behind it.
LEMMA StepScans ==
    ASSUME NEW in \in Seq(Tokens), NEW s \in Scans, NEW i \in 1..Len(in)
    PROVE  /\ TextStep(in, s, i) \in Scans
           /\ TextStep(in, s, i).out \in {s.out, Append(s.out, in[i])}
<1>1. in[i] \in Tokens
  BY ElementOfSeq
<1>2. PICK t \in Tokens : t = in[i]
  BY <1>1
<1>3. s.out \in Seq(Tokens) /\ Append(s.out, t) \in Seq(Tokens)
  BY DEF Scans
<1>4. PICK hide \in BOOLEAN : hide = (t \in Hiding \/ (s.skip /\ t \notin Closing))
  OBVIOUS
<1>5. TextStep(in, s, i) \in {s, [s EXCEPT !.skip = hide], [s EXCEPT !.out = Append(@, t), !.nl = TRUE, !.sp = TRUE],
          [s EXCEPT !.out = Append(@, t), !.sp = TRUE], [s EXCEPT !.out = Append(@, t), !.nl = FALSE, !.sp = FALSE]}
  BY <1>2, <1>4 DEF TextStep
<1> DEFINE more == Append(s.out, t)
<1>6. more \in Seq(Tokens)
  BY <1>3
<1>7. \A x \in {s, [s EXCEPT !.skip = hide], [s EXCEPT !.out = more, !.nl = TRUE, !.sp = TRUE],
          [s EXCEPT !.out = more, !.sp = TRUE], [s EXCEPT !.out = more, !.nl = FALSE, !.sp = FALSE]} :
          x \in Scans /\ x.out \in {s.out, more}
  <2> HIDE DEF more
  <2> QED BY <1>4, <1>6 DEF Scans
<1> QED BY <1>2, <1>5, <1>7

\* The scan is there, and follows the steps: a first place where it would not is absurd.
LEMMA Scanned ==
    ASSUME NEW in \in Seq(Tokens)
    PROVE  Reading(in) \in [0..Len(in) -> Scans] /\ Scan(Reading(in), in, Len(in))
<1> DEFINE n == Len(in)
           Bad == {m \in 0..n : ~ \E f \in [0..m -> Scans] : Scan(f, in, m)}
<1>1. n \in Nat
  OBVIOUS
<1>2. Bad = {}
  <2> SUFFICES ASSUME Bad # {} PROVE FALSE
    OBVIOUS
  <2>1. PICK m \in Bad : \A y \in Bad : m <= y
    <3>1. Bad \in SUBSET Nat
      OBVIOUS
    <3> HIDE DEF Bad
    <3> QED BY <3>1, Lowest
  <2>2. Fresh \in Scans
    BY EmptySeq DEF Fresh, Scans
  <2>3. CASE m = 0
    <3>1. [i \in 0..0 |-> Fresh] \in [0..0 -> Scans] /\ Scan([i \in 0..0 |-> Fresh], in, 0)
      BY <2>2 DEF Scan
    <3> QED BY <2>1, <2>3, <3>1
  <2>4. CASE m # 0
    <3>1. m \in 1..n /\ m - 1 \in 0..n /\ ~ (m <= m - 1)
      BY <1>1, <2>1, <2>4
    <3>2. PICK f \in [0..m - 1 -> Scans] : Scan(f, in, m - 1)
      BY <2>1, <3>1
    <3>3. f[m - 1] \in Scans
      BY <3>1, <3>2
    <3>4. PICK last \in Scans : last = TextStep(in, f[m - 1], m)
      BY <3>1, <3>3, StepScans
    <3> DEFINE g == [i \in 0..m |-> IF i = m THEN last ELSE f[i]]
    <3>5. g \in [0..m -> Scans]
      BY <3>1, <3>2
    <3>6. g[m] = last /\ \A i \in 0..m - 1 : g[i] = f[i]
      BY <3>1
    <3>7. Scan(g, in, m)
      <4> HIDE DEF g
      <4>1. g[0] = Fresh
        BY <3>1, <3>2, <3>6 DEF Scan
      <4>2. ASSUME NEW i \in 1..m PROVE g[i] = TextStep(in, g[i - 1], i)
        <5>1. CASE i = m
          <6>1. m - 1 \in 0..m - 1
            BY <3>1
          <6> QED BY <3>4, <3>6, <5>1, <6>1
        <5>2. CASE i # m
          <6>1. i \in 1..m - 1 /\ i \in 0..m - 1 /\ i - 1 \in 0..m - 1
            BY <3>1, <5>2
          <6> QED BY <3>2, <3>6, <6>1 DEF Scan
        <5> QED BY <5>1, <5>2
      <4> QED BY <4>1, <4>2 DEF Scan
    <3> QED BY <2>1, <3>5, <3>7
  <2> QED BY <2>3, <2>4
<1>3. PICK f \in [0..n -> Scans] : Scan(f, in, n)
  BY <1>1, <1>2
<1>4. f = [i \in 0..n |-> IF i = 0 THEN Fresh ELSE TextStep(in, f[i - 1], i)]
  <2>1. \A i \in 0..n : f[i] = IF i = 0 THEN Fresh ELSE TextStep(in, f[i - 1], i)
    BY <1>1, <1>3 DEF Scan
  <2> QED BY <1>3, <2>1
<1> DEFINE g == Reading(in)
<1>5. g = [i \in 0..n |-> IF i = 0 THEN Fresh ELSE TextStep(in, g[i - 1], i)]
  BY <1>4 DEF Reading
<1> HIDE DEF g
<1>6. \A i \in 0..n : g[i] = IF i = 0 THEN Fresh ELSE TextStep(in, g[i - 1], i)
  BY <1>5
<1>7. Scan(g, in, n)
  BY <1>1, <1>6 DEF Scan
<1>8. \A i \in 0..n : g[i] = f[i]
  <2> DEFINE Diff == {i \in 0..n : g[i] # f[i]}
  <2> SUFFICES ASSUME Diff # {} PROVE FALSE
    OBVIOUS
  <2>1. PICK m \in Diff : \A y \in Diff : m <= y
    <3>1. Diff \in SUBSET Nat
      OBVIOUS
    <3> HIDE DEF Diff
    <3> QED BY <3>1, Lowest
  <2>2. m # 0
    BY <1>3, <1>7, <2>1 DEF Scan
  <2>3. m \in 1..n /\ m - 1 \in 0..n /\ ~ (m <= m - 1)
    BY <1>1, <2>1, <2>2
  <2>4. g[m - 1] = f[m - 1]
    BY <2>1, <2>3
  <2> QED BY <1>3, <1>7, <2>1, <2>3, <2>4 DEF Scan
<1>9. g \in [0..n -> Scans]
  BY <1>3, <1>5, <1>8
<1> QED BY <1>7, <1>9 DEF g

\* What one sequence begins with.
Begins(s, t) == Len(s) <= Len(t) /\ \A i \in 1..Len(s) : s[i] = t[i]

LEMMA PrefixIs ==
    ASSUME NEW S, NEW s \in Seq(S), NEW t \in Seq(S)
    PROVE  IsPrefix(s, t) <=> Begins(s, t)
<1>1. ASSUME Begins(s, t) PROVE IsPrefix(s, t)
  <2>1. Len(s) \in 0..Len(t)
    BY <1>1 DEF Begins
  <2>2. \A i \in 1..Len(s) : t[i] \in S
    BY <2>1, ElementOfSeq
  <2>3. \A i \in 1..Len(s) : s[i] \in S
    BY ElementOfSeq
  <2> DEFINE u == SubSeq(s, 1, Len(s))
             v == SubSeq(t, 1, Len(s))
  <2>4. u \in Seq(S) /\ Len(u) = Len(s) /\ \A i \in 1..Len(s) : u[i] = s[i]
    BY <2>3, SubSeqProperties
  <2>5. v \in Seq(S) /\ Len(v) = Len(s) /\ \A i \in 1..Len(s) : v[i] = t[i]
    BY <2>1, <2>2, SubSeqProperties
  <2> HIDE DEF u, v
  <2>6. u = v
    BY <1>1, <2>4, <2>5, SeqEqual DEF Begins
  <2> QED BY <1>1, <2>6 DEF u, v, IsPrefix, Begins
<1>2. ASSUME IsPrefix(s, t) PROVE Begins(s, t)
  <2>1. Len(s) \in 0..Len(t) /\ SubSeq(s, 1, Len(s)) = SubSeq(t, 1, Len(s))
    BY <1>2 DEF IsPrefix
  <2>2. \A i \in 1..Len(s) : t[i] \in S /\ s[i] \in S
    BY <2>1, ElementOfSeq
  <2>3. \A i \in 1..Len(s) : SubSeq(s, 1, Len(s))[i] = s[i] /\ SubSeq(t, 1, Len(s))[i] = t[i]
    BY <2>1, <2>2, SubSeqProperties
  <2> QED BY <2>1, <2>3 DEF Begins
<1> QED BY <1>1, <1>2

\* The text only grows, by a character for a token at most.
LEMMA TextGrows ==
    ASSUME NEW in \in Seq(Tokens), NEW k \in 0..Len(in)
    PROVE  \A m \in k..Len(in) : /\ Begins(Reading(in)[k].out, Reading(in)[m].out)
                                 /\ Len(Reading(in)[m].out) <= m
<1> DEFINE n == Len(in)
           Out(i) == Reading(in)[i].out
<1>1. n \in Nat /\ \A i \in 0..n : Out(i) \in Seq(Tokens)
  BY Scanned DEF Scans
<1>2. Out(0) = <<>>
  BY Scanned DEF Scan, Fresh
<1>3. ASSUME NEW i \in 1..n
      PROVE  /\ Len(Out(i)) <= Len(Out(i - 1)) + 1
             /\ Begins(Out(i - 1), Out(i))
  <2>1. i - 1 \in 0..n
    BY <1>1
  <2>2. Reading(in)[i - 1] \in Scans /\ Reading(in)[i] = TextStep(in, Reading(in)[i - 1], i)
    BY <2>1, Scanned DEF Scan
  <2>3. PICK a \in Seq(Tokens), t \in Tokens : a = Out(i - 1) /\ t = in[i]
    BY <1>1, <2>1, ElementOfSeq
  <2>4. Out(i) \in {a, Append(a, t)}
    BY <2>2, <2>3, StepScans
  <2>5. Begins(a, a) /\ Begins(a, Append(a, t)) /\ Len(Append(a, t)) <= Len(a) + 1 /\ Len(a) <= Len(a) + 1
    BY DEF Begins
  <2> HIDE DEF Out
  <2> QED BY <2>3, <2>4, <2>5
<1>4. \A i \in 0..n : Len(Out(i)) <= i
  <2> HIDE DEF Out
  <2> DEFINE Bad == {i \in 0..n : ~ (Len(Out(i)) <= i)}
  <2> SUFFICES ASSUME Bad # {} PROVE FALSE
    OBVIOUS
  <2>1. PICK m \in Bad : \A y \in Bad : m <= y
    <3>1. Bad \in SUBSET Nat
      OBVIOUS
    <3> HIDE DEF Bad
    <3> QED BY <3>1, Lowest
  <2>2. m # 0
    BY <1>2, <2>1
  <2>3. m \in 1..n /\ m - 1 \in 0..n /\ ~ (m <= m - 1)
    BY <1>1, <2>1, <2>2
  <2>4. Len(Out(m - 1)) <= m - 1
    BY <2>1, <2>3
  <2>5. Len(Out(m)) \in Nat /\ Len(Out(m - 1)) \in Nat
    BY <1>1, <2>3
  <2> QED BY <1>3, <2>1, <2>3, <2>4, <2>5
<1>5. \A m \in k..n : Begins(Out(k), Out(m))
  <2> HIDE DEF Out
  <2> DEFINE Bad == {i \in k..n : ~ Begins(Out(k), Out(i))}
  <2> SUFFICES ASSUME Bad # {} PROVE FALSE
    OBVIOUS
  <2>1. PICK m \in Bad : \A y \in Bad : m <= y
    <3>1. Bad \in SUBSET Nat
      OBVIOUS
    <3> HIDE DEF Bad
    <3> QED BY <3>1, Lowest
  <2>2. m # k
    <3>1. Begins(Out(k), Out(k))
      BY <1>1 DEF Begins
    <3> QED BY <2>1, <3>1
  <2>3. m \in 1..n /\ m - 1 \in k..n /\ ~ (m <= m - 1)
    BY <1>1, <2>1, <2>2
  <2>4. Begins(Out(k), Out(m - 1))
    BY <2>1, <2>3
  <2>5. Begins(Out(m - 1), Out(m))
    BY <1>3, <2>3
  <2>6. PICK a \in Seq(Tokens), b \in Seq(Tokens), c \in Seq(Tokens) : a = Out(k) /\ b = Out(m - 1) /\ c = Out(m)
    BY <1>1, <2>3
  <2>7. Begins(a, b) /\ Begins(b, c) => Begins(a, c)
    BY DEF Begins
  <2> QED BY <2>1, <2>4, <2>5, <2>6, <2>7
<1>6. \A m \in k..n : m \in 0..n
  BY <1>1
<1> QED BY <1>4, <1>5, <1>6

\* The text of a beginning is the beginning of the text, also where a tag is cut.
LEMMA TextBegins ==
    ASSUME NEW in \in Seq(Tokens), NEW r \in Seq(Tokens), Begins(in, r)
    PROVE  /\ ToText(in) \in Seq(Tokens) /\ ToText(r) \in Seq(Tokens)
           /\ Begins(ToText(in), ToText(r))
           /\ Len(ToText(in)) <= Len(in)
<1> DEFINE n == Len(in)
           F == Reading(in)
           G == Reading(r)
<1>1. n \in Nat /\ Len(r) \in Nat /\ n <= Len(r) /\ n \in 0..Len(r)
  BY DEF Begins
<1>2. F \in [0..n -> Scans] /\ G \in [0..Len(r) -> Scans] /\ Scan(F, in, n) /\ Scan(G, r, Len(r))
  BY Scanned
<1>3. \A i \in 0..n : G[i].out = F[i].out /\ (i < n => G[i] = F[i])
  <2> HIDE DEF F, G
  <2> DEFINE Bad == {i \in 0..n : ~ (G[i].out = F[i].out /\ (i < n => G[i] = F[i]))}
  <2> SUFFICES ASSUME Bad # {} PROVE FALSE
    OBVIOUS
  <2>1. PICK m \in Bad : \A y \in Bad : m <= y
    <3>1. Bad \in SUBSET Nat
      OBVIOUS
    <3> HIDE DEF Bad
    <3> QED BY <3>1, Lowest
  <2>2. m # 0
    BY <1>1, <1>2, <2>1 DEF Scan
  <2>3. m \in 1..n /\ m - 1 \in 0..n /\ m - 1 < n /\ ~ (m <= m - 1) /\ m \in 1..Len(r)
    BY <1>1, <2>1, <2>2
  <2>4. G[m - 1] = F[m - 1]
    BY <2>1, <2>3
  <2>5. PICK s \in Scans, t \in Tokens : s = F[m - 1] /\ t = in[m] /\ t = r[m]
    BY <1>2, <2>3, ElementOfSeq DEF Begins
  <2>6. F[m] = TextStep(in, s, m) /\ G[m] = TextStep(r, s, m)
    BY <1>2, <2>3, <2>4, <2>5 DEF Scan
  <2>7. m < n => TextStep(in, s, m) = TextStep(r, s, m)
    <3>1. m < n => m # Len(in) /\ m # Len(r)
      BY <1>1, <2>3
    <3> QED BY <2>5, <3>1 DEF TextStep
  <2>8. TextStep(in, s, m).out = TextStep(r, s, m).out
    <3>1. CASE t \in Tags
      <4>1. TextStep(in, s, m) \in {s, [s EXCEPT !.skip = t \in Hiding \/ (@ /\ t \notin Closing)]}
        BY <2>5, <3>1 DEF TextStep
      <4>2. TextStep(r, s, m) \in {s, [s EXCEPT !.skip = t \in Hiding \/ (@ /\ t \notin Closing)]}
        BY <2>5, <3>1 DEF TextStep
      <4>3. [s EXCEPT !.skip = t \in Hiding \/ (@ /\ t \notin Closing)].out = s.out
        BY DEF Scans
      <4> QED BY <4>1, <4>2, <4>3
    <3>2. CASE t \notin Tags
      BY <2>5, <3>2 DEF TextStep
    <3> QED BY <3>1, <3>2
  <2> QED BY <2>1, <2>6, <2>7, <2>8
<1>4. G[n].out = F[n].out
  BY <1>1, <1>3
<1>5. Begins(G[n].out, G[Len(r)].out) /\ Len(F[n].out) <= n
  <2>1. Len(r) \in n..Len(r) /\ n \in n..n /\ n \in 0..n
    BY <1>1
  <2>2. Begins(G[n].out, G[Len(r)].out)
    BY <1>1, <2>1, TextGrows
  <2> QED BY <2>1, <2>2, TextGrows
<1>6. F[n].out \in Seq(Tokens) /\ G[Len(r)].out \in Seq(Tokens)
  BY <1>1, <1>2 DEF Scans
<1>7. ToText(in) = F[n].out /\ ToText(r) = G[Len(r)].out
  BY TextIs
<1> QED BY <1>4, <1>5, <1>6, <1>7

----------------------------------------------------------------------------
(* The body.  Heads is the scan of the headers in http_parse_response.     *)
EndsAt(buf, i) == buf[i] = "CR" /\ i < Len(buf) /\ buf[i + 1] = "LF"
CrFrom(buf, p) == FirstAt({i \in 1..Len(buf) : buf[i] = "CR"}, p, Len(buf) + 1)
SpaceAt(buf) == FirstAt({i \in 1..Len(buf) : buf[i] = "sp"}, 2, Len(buf) + 1)
LineAt(buf) == FirstAt({i \in 1..Len(buf) : EndsAt(buf, i)}, SpaceAt(buf) + 2, Len(buf) + 1)
HeadStep(buf, f, p) ==
    IF p + 1 > Len(buf) THEN p
    ELSE IF EndsAt(buf, p) THEN p + 2
    ELSE IF CrFrom(buf, p) + 1 > Len(buf) THEN 0 ELSE f[CrFrom(buf, p) + 2]
Heads(buf) == LET head[p \in 1..Len(buf) + 2] == HeadStep(buf, head, p) IN head

LEMMA BodyIs ==
    \A buf : BodyAt(buf) =
        IF Len(buf) < 3 \/ buf[1] # "V" \/ SpaceAt(buf) + 1 > Len(buf) \/ LineAt(buf) > Len(buf) THEN 0
        ELSE IF buf[SpaceAt(buf) + 1] # "code" THEN 0
        ELSE Heads(buf)[LineAt(buf) + 2]
  BY DEF BodyAt, SpaceAt, LineAt, EndsAt, CrFrom, Heads, HeadStep

LEMMA FirstIs ==
    ASSUME NEW positions \in SUBSET Nat, NEW from \in Nat, NEW behind \in Nat
    PROVE  LET S == {i \in positions : i >= from} \cup {behind} IN
           FirstAt(positions, from, behind) \in S /\ \A y \in S : FirstAt(positions, from, behind) <= y
<1> DEFINE S == {i \in positions : i >= from} \cup {behind}
<1>1. S \in SUBSET Nat /\ S # {}
  OBVIOUS
<1>2. FirstAt(positions, from, behind) = Min(S)
  BY DEF FirstAt
<1> HIDE DEF S
<1>3. Min(S) \in S /\ \A y \in S : Min(S) <= y
  BY <1>1, Lowest DEF Min
<1> QED BY <1>2, <1>3 DEF S

LEMMA CrIs ==
    ASSUME NEW buf \in Seq(Tokens), NEW p \in Nat
    PROVE  /\ CrFrom(buf, p) \in Nat
           /\ CrFrom(buf, p) <= Len(buf) => /\ CrFrom(buf, p) \in 1..Len(buf) /\ CrFrom(buf, p) >= p
                                            /\ buf[CrFrom(buf, p)] = "CR"
           /\ \A i \in 1..Len(buf) : i >= p /\ buf[i] = "CR" => CrFrom(buf, p) <= i
<1> DEFINE P == {i \in 1..Len(buf) : buf[i] = "CR"}
<1>1. P \in SUBSET Nat /\ Len(buf) + 1 \in Nat
  OBVIOUS
<1>2. PICK c : c = CrFrom(buf, p)
  OBVIOUS
<1>3. c \in {i \in P : i >= p} \cup {Len(buf) + 1} /\ \A y \in {i \in P : i >= p} \cup {Len(buf) + 1} : c <= y
  BY <1>1, <1>2, FirstIs DEF CrFrom
<1> QED BY <1>2, <1>3

\* The scan of the headers is there: it is built from the end of the buffer.
LEMMA HeadsAre ==
    ASSUME NEW buf \in Seq(Tokens)
    PROVE  \A p \in 1..Len(buf) + 2 : Heads(buf)[p] = HeadStep(buf, Heads(buf), p)
<1> DEFINE n == Len(buf)
           Good(m) == \E f \in [n + 3 - m..n + 2 -> Nat] : \A p \in n + 3 - m..n + 2 : f[p] = HeadStep(buf, f, p)
           Bad == {m \in 0..n + 2 : ~ Good(m)}
<1>1. n \in Nat
  OBVIOUS
<1>2. Bad = {}
  <2> SUFFICES ASSUME Bad # {} PROVE FALSE
    OBVIOUS
  <2>1. PICK m \in Bad : \A y \in Bad : m <= y
    <3>1. Bad \in SUBSET Nat
      OBVIOUS
    <3> HIDE DEF Bad
    <3> QED BY <3>1, Lowest
  <2>2. CASE m = 0
    <3>1. n + 3 - 0..n + 2 = {}
      BY <1>1
    <3>2. Good(0)
      <4>1. [p \in {} |-> 0] \in [{} -> Nat]
        OBVIOUS
      <4> QED BY <3>1, <4>1
    <3> QED BY <2>1, <2>2, <3>2
  <2>3. CASE m # 0
    <3>1. m \in 1..n + 2 /\ m - 1 \in 0..n + 2 /\ ~ (m <= m - 1)
      BY <1>1, <2>1, <2>3
    <3> DEFINE q == n + 3 - m
    <3>2. q \in 1..n + 2 /\ n + 3 - (m - 1) = q + 1 /\ q \in Nat
      BY <1>1, <3>1
    <3>3. Good(m - 1)
      BY <2>1, <3>1
    <3>4. PICK f \in [q + 1..n + 2 -> Nat] : \A p \in q + 1..n + 2 : f[p] = HeadStep(buf, f, p)
      BY <3>2, <3>3
    <3> HIDE DEF q
    <3>5. \A p \in 1..n + 2 : CrFrom(buf, p) + 1 <= n =>
              CrFrom(buf, p) + 2 \in p + 1..n + 2
      <4>1. ASSUME NEW p \in 1..n + 2, CrFrom(buf, p) + 1 <= n PROVE CrFrom(buf, p) + 2 \in p + 1..n + 2
        <5>1. p \in Nat /\ Len(buf) = n
          BY <1>1
        <5>2. PICK c \in Nat : c = CrFrom(buf, p) /\ (c <= n => c >= p)
          BY <5>1, CrIs
        <5> QED BY <1>1, <4>1, <5>1, <5>2
      <4> QED BY <4>1
    <3>6. HeadStep(buf, f, q) \in Nat
      <4>1. CrFrom(buf, q) + 1 <= n => f[CrFrom(buf, q) + 2] \in Nat
        BY <3>2, <3>4, <3>5
      <4>2. CrFrom(buf, q) \in Nat
        BY <3>2, CrIs
      <4> QED BY <1>1, <3>2, <4>1, <4>2 DEF HeadStep
    <3> DEFINE g == [p \in q..n + 2 |-> IF p = q THEN HeadStep(buf, f, q) ELSE f[p]]
    <3>7. g \in [q..n + 2 -> Nat]
      BY <3>2, <3>4, <3>6
    <3>8. g[q] = HeadStep(buf, f, q) /\ \A p \in q + 1..n + 2 : g[p] = f[p]
      BY <3>2
    <3> HIDE DEF g
    <3>9. ASSUME NEW p \in q..n + 2 PROVE HeadStep(buf, g, p) = HeadStep(buf, f, p)
      <4>1. CrFrom(buf, p) \in Nat /\ p \in 1..n + 2
        BY <1>1, <3>2, CrIs
      <4>2. CrFrom(buf, p) + 1 <= n => g[CrFrom(buf, p) + 2] = f[CrFrom(buf, p) + 2]
        <5>1. CrFrom(buf, p) + 1 <= n => CrFrom(buf, p) + 2 \in p + 1..n + 2
          BY <3>5, <4>1
        <5>2. p + 1..n + 2 \subseteq q + 1..n + 2
          BY <3>2
        <5> QED BY <3>8, <5>1, <5>2
      <4> QED BY <1>1, <4>1, <4>2 DEF HeadStep
    <3>10. \A p \in q..n + 2 : g[p] = HeadStep(buf, g, p)
      <4>1. \A p \in q..n + 2 : p = q \/ p \in q + 1..n + 2
        BY <1>1, <3>2
      <4> QED BY <3>4, <3>8, <3>9, <4>1
    <3>11. Good(m)
      BY <3>7, <3>10 DEF q
    <3> QED BY <2>1, <3>11
  <2> QED BY <2>2, <2>3
<1>3. PICK f \in [1..n + 2 -> Nat] : \A p \in 1..n + 2 : f[p] = HeadStep(buf, f, p)
  <2>1. n + 2 \in 0..n + 2 /\ n + 3 - (n + 2) = 1
    BY <1>1
  <2>2. Good(n + 2)
    BY <1>2, <2>1
  <2> QED BY <2>1, <2>2
<1>4. f = [p \in 1..n + 2 |-> HeadStep(buf, f, p)]
  BY <1>3
<1>5. Heads(buf) = CHOOSE head : head = [p \in 1..n + 2 |-> HeadStep(buf, head, p)]
  BY DEF Heads
<1>6. PICK h : h = Heads(buf) /\ h = [p \in 1..n + 2 |-> HeadStep(buf, h, p)]
  BY <1>4, <1>5
<1>7. \A p \in 1..n + 2 : h[p] = HeadStep(buf, h, p)
  BY <1>6
<1> QED BY <1>6, <1>7

\* The first empty line of r is at b, and the lines before it end in CR LF.
FirstBlank(r, b) ==
    /\ b \in 1..Len(r) - 3
    /\ r[b] = "CR" /\ r[b + 1] = "LF" /\ r[b + 2] = "CR" /\ r[b + 3] = "LF"
    /\ \A i \in 1..Len(r) - 3 : r[i] = "CR" /\ r[i + 1] = "LF" /\ r[i + 2] = "CR" /\ r[i + 3] = "LF" => b <= i
    /\ \A i \in 1..b - 1 : r[i] = "CR" => r[i + 1] = "LF"

\* From a line of the head that r begins with, the scan finds the body, or gives up
\* when less of r is there, or stops at its last character.
LEMMA HeadersRead ==
    ASSUME NEW buf \in Seq(Tokens), NEW r \in Seq(Tokens), Begins(buf, r), NEW b \in Nat, FirstBlank(r, b)
    PROVE  \A p \in 3..b + 2 : p <= Len(buf) + 1 /\ r[p - 2] = "CR" /\ r[p - 1] = "LF" =>
              IF Len(buf) > b + 3 THEN Heads(buf)[p] = b + 4
              ELSE Heads(buf)[p] = 0 \/ Heads(buf)[p] \in Len(buf)..b + 4
<1> DEFINE n == Len(buf)
           Right(p) == p <= n + 1 /\ r[p - 2] = "CR" /\ r[p - 1] = "LF" =>
              IF n > b + 3 THEN Heads(buf)[p] = b + 4 ELSE Heads(buf)[p] = 0 \/ Heads(buf)[p] \in n..b + 4
           Bad == {d \in 0..b - 1 : ~ Right(b + 2 - d)}
<1>1. n \in Nat /\ Len(r) \in Nat /\ n <= Len(r) /\ \A i \in 1..n : buf[i] = r[i]
  BY DEF Begins
<1>2. SUFFICES ASSUME Bad # {} PROVE FALSE
  <2>1. ASSUME NEW p \in 3..b + 2 PROVE b + 2 - p \in 0..b - 1 /\ b + 2 - (b + 2 - p) = p
    OBVIOUS
  <2> HIDE DEF Right
  <2>2. ASSUME Bad = {}, NEW p \in 3..b + 2 PROVE Right(p)
    BY <2>1, <2>2
  <2> HIDE DEF Bad
  <2>3. Bad = {} => \A p \in 3..b + 2 : Right(p)
    BY <2>2
  <2> QED BY <2>3 DEF Right
<1>3. PICK d \in Bad : \A y \in Bad : d <= y
  <2>1. Bad \in SUBSET Nat
    OBVIOUS
  <2> HIDE DEF Bad
  <2> QED BY <1>2, <2>1, Lowest
<1>4. PICK p \in 3..b + 2 : p = b + 2 - d
  <2>1. b + 2 - d \in 3..b + 2
    BY <1>3
  <2> QED BY <2>1
<1>5. p <= n + 1 /\ r[p - 2] = "CR" /\ r[p - 1] = "LF" /\ ~ Right(p)
  BY <1>3, <1>4
<1> HIDE DEF Right
<1>6. \A c \in p + 1..b + 2 : Right(c)
  <2>1. d \in Nat /\ b \in Nat /\ p \in 3..b + 2 /\ p = b + 2 - d
    BY <1>3, <1>4
  <2>2. ASSUME NEW c \in p + 1..b + 2 PROVE b + 2 - c \in 0..b - 1 /\ b + 2 - (b + 2 - c) = c /\ ~ (d <= b + 2 - c)
    <3>1. c \in p + 1..b + 2
      OBVIOUS
    <3> QED BY ONLY <2>1, <3>1
  <2>3. ASSUME NEW c \in p + 1..b + 2 PROVE Right(c)
    <3>1. PICK e \in 0..b - 1 : e = b + 2 - c /\ b + 2 - e = c /\ ~ (d <= e)
      BY <2>2
    <3>2. e \notin Bad
      <4> HIDE DEF Bad
      <4> QED BY <1>3, <3>1
    <3>3. Right(b + 2 - e)
      BY <3>2 DEF Bad
    <3> QED BY <3>1, <3>3
  <2> QED BY <2>3
<1> HIDE DEF Bad
<1>7. Heads(buf)[p] = HeadStep(buf, Heads(buf), p)
  <2>1. p \in 1..Len(buf) + 2
    BY <1>1, <1>4, <1>5
  <2> QED BY <2>1, HeadsAre
<1>8. CASE p + 1 > n
  <2>1. Heads(buf)[p] = p
    BY <1>7, <1>8 DEF HeadStep
  <2> QED BY <1>1, <1>4, <1>5, <1>8, <2>1 DEF Right
<1>9. CASE p + 1 <= n /\ EndsAt(buf, p)
  <2>1. Heads(buf)[p] = p + 2
    BY <1>1, <1>7, <1>9 DEF HeadStep
  <2>2. r[p] = "CR" /\ r[p + 1] = "LF"
    BY <1>1, <1>4, <1>9 DEF EndsAt
  <2>3. p = b + 2
    <3>1. PICK k \in 1..b : k = p - 2 /\ k + 1 = p - 1 /\ k + 2 = p /\ k + 3 = p + 1
      <4>1. p - 2 \in 1..b
        BY <1>4
      <4> QED BY <4>1
    <3>2. r[k] = "CR" /\ r[k + 1] = "LF" /\ r[k + 2] = "CR" /\ r[k + 3] = "LF"
      BY <1>5, <2>2, <3>1
    <3>3. k \in 1..Len(r) - 3
      BY <1>1, <1>9, <3>1
    <3>4. b <= k
      BY <3>2, <3>3 DEF FirstBlank
    <3> QED BY <3>1, <3>4
  <2> QED BY <1>1, <1>5, <1>9, <2>1, <2>3 DEF Right
<1>10. CASE p + 1 <= n /\ ~ EndsAt(buf, p)
  <2>1. PICK c \in Nat : /\ c = CrFrom(buf, p)
                         /\ c <= n => c \in 1..n /\ c >= p /\ buf[c] = "CR"
                         /\ \A i \in 1..n : i >= p /\ buf[i] = "CR" => c <= i
    <3>1. p \in Nat
      BY <1>4
    <3> QED BY <3>1, CrIs
  <2>2. Heads(buf)[p] = IF c + 1 > n THEN 0 ELSE Heads(buf)[c + 2]
    BY <1>1, <1>7, <1>10, <2>1 DEF HeadStep
  <2>3. b \in 1..Len(r) - 3 /\ r[b] = "CR" /\ r[b + 1] = "LF" /\ r[b + 2] = "CR" /\ r[b + 3] = "LF"
    BY DEF FirstBlank
  <2>4. p <= b
    <3>1. p # b + 2
      BY <1>1, <1>4, <1>10, <2>3 DEF EndsAt
    <3>2. p = b + 1 => p - 1 = b
      BY <1>4
    <3>3. "LF" # "CR"
      OBVIOUS
    <3>4. p # b + 1
      BY <1>5, <2>3, <3>2, <3>3
    <3> QED BY <1>4, <3>1, <3>4
  <2>5. c + 1 <= n => c <= b /\ r[c] = "CR" /\ r[c + 1] = "LF"
    <3>1. ASSUME c + 1 <= n PROVE c <= b
      <4>1. CASE b <= n
        <5>1. b \in 1..n /\ buf[b] = "CR"
          BY <1>1, <2>3, <4>1
        <5> QED BY <2>1, <2>4, <5>1
      <4>2. CASE b > n
        BY <1>1, <2>3, <3>1, <4>2
      <4> QED BY <1>1, <2>3, <4>1, <4>2
    <3>2. ASSUME c + 1 <= n PROVE r[c] = "CR"
      <4>1. c <= n
        BY <1>1, <3>2
      <4> QED BY <1>1, <2>1, <4>1
    <3>3. ASSUME c + 1 <= n PROVE r[c + 1] = "LF"
      <4>1. CASE c = b
        BY <2>3, <4>1
      <4>2. CASE c # b
        <5>1. c \in 1..b - 1
          BY <1>1, <2>1, <2>3, <3>1, <3>3, <4>2
        <5> QED BY <3>2, <3>3, <5>1 DEF FirstBlank
      <4> QED BY <4>1, <4>2
    <3> QED BY <3>1, <3>2, <3>3
  <2>6. CASE c + 1 > n
    <3>1. n <= b + 3
      <4>1. ~ (b + 1 <= n)
        <5>1. b + 1 <= n => b \in 1..n /\ buf[b] = "CR"
          BY <1>1, <2>3
        <5>2. b + 1 <= n => c <= b
          BY <2>1, <2>4, <5>1
        <5> QED BY <1>1, <2>3, <2>6, <5>2
      <4> QED BY <1>1, <2>3, <4>1
    <3> QED BY <1>1, <1>5, <2>2, <2>6, <3>1 DEF Right
  <2>7. CASE c + 1 <= n
    <3>1. c \in 1..n /\ c >= p /\ c <= b /\ r[c] = "CR" /\ r[c + 1] = "LF"
      BY <1>1, <2>1, <2>5, <2>7
    <3>2. c + 2 \in p + 1..b + 2 /\ c + 2 <= n + 1 /\ (c + 2) - 2 = c /\ (c + 2) - 1 = c + 1
      BY <1>1, <1>4, <2>3, <2>7, <3>1
    <3>3. Right(c + 2)
      BY <1>6, <3>2
    <3>4. IF n > b + 3 THEN Heads(buf)[c + 2] = b + 4 ELSE Heads(buf)[c + 2] = 0 \/ Heads(buf)[c + 2] \in n..b + 4
      BY <3>1, <3>2, <3>3 DEF Right
    <3>5. Heads(buf)[p] = Heads(buf)[c + 2]
      BY <1>1, <2>1, <2>2, <2>7
    <3> QED BY <1>5, <3>4, <3>5 DEF Right
  <2> QED BY <1>1, <2>1, <2>6, <2>7
<1> QED BY <1>1, <1>4, <1>8, <1>9, <1>10

\* The body begins behind the first empty line of the response if that is there;
\* if not, the parser gives up or takes the last character for the body.
LEMMA BodyRight ==
    ASSUME NEW buf \in Seq(Tokens), NEW r \in Seq(Tokens), Begins(buf, r), NEW b \in Nat, FirstBlank(r, b),
           r[1] = "V", NEW s \in 2..b - 2, r[s] = "sp", r[s + 1] = "code", \A i \in 2..s - 1 : r[i] # "sp"
    PROVE  IF Len(buf) > b + 3 THEN BodyAt(buf) = b + 4 ELSE BodyAt(buf) = 0 \/ BodyAt(buf) \in Len(buf)..b + 4
<1> DEFINE n == Len(buf)
<1>1. n \in Nat /\ Len(r) \in Nat /\ n <= Len(r) /\ \A i \in 1..n : buf[i] = r[i]
  BY DEF Begins
<1>2. b \in 1..Len(r) - 3 /\ r[b] = "CR" /\ r[b + 1] = "LF"
  BY DEF FirstBlank
<1> DEFINE P == {i \in 1..n : buf[i] = "sp"}
<1>3. PICK sp : sp = SpaceAt(buf) /\ sp \in {i \in P : i >= 2} \cup {n + 1}
                /\ \A y \in {i \in P : i >= 2} \cup {n + 1} : sp <= y
  <2>1. P \in SUBSET Nat /\ n + 1 \in Nat /\ 2 \in Nat
    BY <1>1
  <2>2. SpaceAt(buf) = FirstAt(P, 2, n + 1)
    BY DEF SpaceAt
  <2> HIDE DEF P
  <2> QED BY <2>1, <2>2, FirstIs
<1>4. sp + 1 <= n <=> s + 1 <= n
  <2>1. s <= n => s \in {i \in P : i >= 2}
    BY <1>1
  <2>2. sp \in P => sp >= s
    <3>1. sp \in P => sp \in 1..n /\ r[sp] = "sp"
      BY <1>1
    <3>2. ASSUME sp \in P PROVE sp >= s
      <4>1. sp >= 2
        BY <1>1, <1>3, <3>2
      <4>2. ~ (sp \in 2..s - 1)
        BY <3>1, <3>2
      <4> QED BY <3>1, <3>2, <4>1, <4>2
    <3> QED BY <3>2
  <2> QED BY <1>1, <1>3, <2>1, <2>2
<1>5. sp + 1 <= n => sp = s
  <2>1. s + 1 <= n => s \in {i \in P : i >= 2}
    BY <1>1
  <2>2. ASSUME sp + 1 <= n PROVE sp \in 1..n /\ sp >= 2 /\ r[sp] = "sp"
    <3>1. sp \in P /\ sp >= 2
      BY <1>1, <1>3, <2>2
    <3> QED BY <1>1, <3>1
  <2>3. sp + 1 <= n => ~ (sp \in 2..s - 1)
    BY <2>2
  <2> QED BY <1>1, <1>3, <1>4, <2>1, <2>2, <2>3
<1>6. CASE s + 1 > n
  <2>1. BodyAt(buf) = 0
    BY <1>1, <1>3, <1>4, <1>6, BodyIs
  <2>2. n <= b + 3
    BY <1>1, <1>2, <1>6
  <2> QED BY <2>1, <2>2
<1>7. CASE s + 1 <= n
  <2>1. SpaceAt(buf) = s
    BY <1>3, <1>4, <1>5, <1>7
  <2> DEFINE L == {i \in 1..n : EndsAt(buf, i)}
  <2>2. PICK end : end = LineAt(buf) /\ end \in {i \in L : i >= s + 2} \cup {n + 1}
                   /\ \A y \in {i \in L : i >= s + 2} \cup {n + 1} : end <= y
    <3>1. L \in SUBSET Nat /\ n + 1 \in Nat /\ s + 2 \in Nat
      BY <1>1
    <3>2. LineAt(buf) = FirstAt(L, s + 2, n + 1)
      BY <2>1 DEF LineAt
    <3> HIDE DEF L
    <3> QED BY <3>1, <3>2, FirstIs
  <2>3. b < n => b \in {i \in L : i >= s + 2}
    BY <1>1, <1>2 DEF EndsAt
  <2>4. end <= n => end \in 1..b /\ end < n /\ r[end] = "CR" /\ r[end + 1] = "LF"
    <3>1. ASSUME end <= n PROVE end \in 1..n /\ end < n /\ r[end] = "CR" /\ r[end + 1] = "LF"
      <4>1. end \in 1..n /\ EndsAt(buf, end)
        BY <1>1, <2>2, <3>1
      <4> QED BY <1>1, <4>1 DEF EndsAt
    <3>2. ASSUME end <= n PROVE end <= b
      <4>1. CASE b < n
        BY <2>2, <2>3, <4>1
      <4>2. CASE b >= n
        BY <1>1, <1>2, <3>1, <3>2, <4>2
      <4> QED BY <1>1, <1>2, <4>1, <4>2
    <3> QED BY <1>1, <1>2, <3>1, <3>2
  <2>5. CASE n < 3 \/ end > n
    <3>1. BodyAt(buf) = 0
      BY <1>1, <2>2, <2>5, BodyIs
    <3>2. n <= b + 3
      BY <1>1, <1>2, <2>2, <2>3, <2>5
    <3> QED BY <3>1, <3>2
  <2>6. CASE ~ (n < 3 \/ end > n)
    <3>1. buf[1] = "V" /\ buf[s + 1] = "code"
      BY <1>1, <1>7, <2>6
    <3>2. end \in 1..n /\ end \in 1..b /\ end < n /\ r[end] = "CR" /\ r[end + 1] = "LF"
      BY <1>1, <2>2, <2>4, <2>6
    <3>3. BodyAt(buf) = Heads(buf)[end + 2]
      <4>1. ~ (n < 3) /\ ~ (s + 1 > n) /\ ~ (end > n)
        BY <1>1, <1>7, <2>6
      <4> QED BY <2>1, <2>2, <3>1, <4>1, BodyIs
    <3>4. end + 2 \in 3..b + 2 /\ end + 2 <= n + 1 /\ (end + 2) - 2 = end /\ (end + 2) - 1 = end + 1
      BY <1>1, <1>2, <3>2
    <3>5. IF n > b + 3 THEN Heads(buf)[end + 2] = b + 4
          ELSE Heads(buf)[end + 2] = 0 \/ Heads(buf)[end + 2] \in n..b + 4
      BY <3>2, <3>4, HeadersRead
    <3> QED BY <3>3, <3>5
  <2> QED BY <2>5, <2>6
<1> QED BY <1>1, <1>6, <1>7

LEMMA Rest ==
    ASSUME NEW s \in Seq(Tokens), NEW i \in 1..Len(s) + 1
    PROVE  /\ RestFrom(s, i) \in Seq(Tokens) /\ Len(RestFrom(s, i)) = Len(s) + 1 - i
           /\ \A j \in 1..Len(s) + 1 - i : RestFrom(s, i)[j] = s[i + j - 1]
<1>1. i \in Int /\ Len(s) \in Int /\ \A j \in i..Len(s) : s[j] \in Tokens
  BY ElementOfSeq
<1>2. PICK u : u = SubSeq(s, i, Len(s))
  OBVIOUS
<1>3. /\ u \in Seq(Tokens) /\ Len(u) = IF i <= Len(s) THEN Len(s) - i + 1 ELSE 0
      /\ \A j \in 1..Len(s) - i + 1 : u[j] = s[i + j - 1]
  BY <1>1, <1>2, SubSeqProperties
<1> QED BY <1>1, <1>2, <1>3 DEF RestFrom

\* What the page says of what was read: the last clause of PageRight.
Shown(read, r, text) ==
    Blank(r) # {} =>
       IF Len(read) > Min(Blank(r)) + 3
       THEN IsPrefix(text, ToText(Body(r))) /\ (read = r => text = ToText(Body(r)))
       ELSE text = ToText(read) \/ Len(text) <= 1

LEMMA PageShown ==
    ASSUME NEW r \in Responses, NEW read \in Seq(Tokens), Begins(read, r)
    PROVE  Shown(read, r, PageOf(read))
<1> SUFFICES ASSUME Blank(r) # {} PROVE Shown(read, r, PageOf(read))
  BY DEF Shown
<1>1. r \in Seq(Tokens) /\ Headed(r)
  BY WebAssumption
<1>2. Len(r) \in Nat /\ Len(read) \in Nat /\ Len(read) <= Len(r)
  BY <1>1 DEF Begins
<1>3. PICK b : b = Min(Blank(r)) /\ b \in Blank(r) /\ \A y \in Blank(r) : b <= y
  <2>1. Blank(r) \in SUBSET Nat
    BY <1>1 DEF Blank
  <2>2. PICK S \in SUBSET Nat : S = Blank(r)
    BY <2>1
  <2> QED BY <2>2, Lowest DEF Min
<1>4. b \in Nat /\ b \in 1..Len(r) - 3 /\ FirstBlank(r, b)
  <2>1. \A i \in 1..b - 1 : r[i] = "CR" => r[i + 1] = "LF"
    BY <1>1, <1>3 DEF Headed
  <2>2. b \in 1..Len(r) - 3 /\ r[b] = "CR" /\ r[b + 1] = "LF" /\ r[b + 2] = "CR" /\ r[b + 3] = "LF"
    BY <1>3 DEF Blank
  <2>3. \A i \in 1..Len(r) - 3 : r[i] = "CR" /\ r[i + 1] = "LF" /\ r[i + 2] = "CR" /\ r[i + 3] = "LF" => b <= i
    BY <1>3 DEF Blank
  <2> QED BY <1>2, <2>1, <2>2, <2>3 DEF FirstBlank
<1>5. PICK s \in 2..b - 2 : r[s] = "sp" /\ r[s + 1] = "code" /\ \A i \in 2..s - 1 : r[i] # "sp"
  BY <1>1, <1>3 DEF Headed
<1>6. r[1] = "V"
  BY <1>1 DEF Headed
<1>7. IF Len(read) > b + 3 THEN BodyAt(read) = b + 4 ELSE BodyAt(read) = 0 \/ BodyAt(read) \in Len(read)..b + 4
  BY <1>1, <1>4, <1>5, <1>6, BodyRight
<1>8. CASE Len(read) > b + 3
  <2>1. PageOf(read) = ToText(RestFrom(read, b + 4))
    BY <1>2, <1>4, <1>7, <1>8 DEF PageOf
  <2>2. Body(r) = RestFrom(r, b + 4)
    BY <1>3 DEF Body
  <2>3. b + 4 \in 1..Len(read) + 1 /\ b + 4 \in 1..Len(r) + 1
    BY <1>2, <1>4, <1>8
  <2>4. PICK u \in Seq(Tokens), v \in Seq(Tokens) :
            /\ u = RestFrom(read, b + 4) /\ Len(u) = Len(read) + 1 - (b + 4)
            /\ \A j \in 1..Len(read) + 1 - (b + 4) : u[j] = read[b + 4 + j - 1]
            /\ v = RestFrom(r, b + 4) /\ Len(v) = Len(r) + 1 - (b + 4)
            /\ \A j \in 1..Len(r) + 1 - (b + 4) : v[j] = r[b + 4 + j - 1]
    <3>1. /\ RestFrom(read, b + 4) \in Seq(Tokens) /\ Len(RestFrom(read, b + 4)) = Len(read) + 1 - (b + 4)
          /\ \A j \in 1..Len(read) + 1 - (b + 4) : RestFrom(read, b + 4)[j] = read[b + 4 + j - 1]
      BY ONLY <2>3, read \in Seq(Tokens), Rest
    <3>2. r \in Seq(Tokens)
      BY <1>1
    <3>3. /\ RestFrom(r, b + 4) \in Seq(Tokens) /\ Len(RestFrom(r, b + 4)) = Len(r) + 1 - (b + 4)
          /\ \A j \in 1..Len(r) + 1 - (b + 4) : RestFrom(r, b + 4)[j] = r[b + 4 + j - 1]
      BY ONLY <2>3, <3>2, Rest
    <3> QED BY ONLY <3>1, <3>3
  <2>5. Begins(u, v)
    <3>1. Len(u) <= Len(v)
      BY <1>2, <1>4, <2>4
    <3>2. ASSUME NEW j \in 1..Len(u) PROVE u[j] = v[j]
      <4>1. /\ j \in 1..Len(read) + 1 - (b + 4) /\ j \in 1..Len(r) + 1 - (b + 4)
            /\ b + 4 + j - 1 \in 1..Len(read)
        BY <1>2, <1>4, <2>4
      <4> QED BY <2>4, <4>1 DEF Begins
    <3> QED BY <3>1, <3>2 DEF Begins
  <2>6. IsPrefix(ToText(u), ToText(v))
    BY <2>5, TextBegins, PrefixIs
  <2>7. read = r => u = v
    BY <2>4
  <2> QED BY <1>3, <1>8, <2>1, <2>2, <2>4, <2>6, <2>7 DEF Shown
<1>9. CASE ~ (Len(read) > b + 3)
  <2>1. CASE BodyAt(read) # 0 /\ BodyAt(read) <= Len(read)
    <3>1. BodyAt(read) = Len(read) /\ Len(read) # 0
      <4>1. BodyAt(read) \in Len(read)..b + 4
        BY <1>7, <1>9, <2>1
      <4> QED BY <1>2, <1>4, <2>1, <4>1
    <3>2. PageOf(read) = ToText(RestFrom(read, Len(read)))
      BY <2>1, <3>1 DEF PageOf
    <3>3. Len(read) \in 1..Len(read) + 1 /\ Len(read) + 1 - Len(read) = 1
      BY <1>2, <3>1
    <3>4. PICK u \in Seq(Tokens) : u = RestFrom(read, Len(read)) /\ Len(u) = 1
      <4>1. /\ RestFrom(read, Len(read)) \in Seq(Tokens)
            /\ Len(RestFrom(read, Len(read))) = Len(read) + 1 - Len(read)
        BY ONLY <3>3, read \in Seq(Tokens), Rest
      <4> QED BY ONLY <3>3, <4>1
    <3>5. Begins(u, u)
      BY DEF Begins
    <3>6. Len(ToText(u)) <= 1
      BY <3>4, <3>5, TextBegins
    <3> QED BY <1>3, <1>9, <3>2, <3>4, <3>6 DEF Shown
  <2>2. CASE ~ (BodyAt(read) # 0 /\ BodyAt(read) <= Len(read))
    <3>1. PageOf(read) = ToText(read)
      BY <2>2 DEF PageOf
    <3> QED BY <1>3, <1>9, <3>1 DEF Shown
  <2> QED BY <2>1, <2>2
<1> QED BY <1>8, <1>9

----------------------------------------------------------------------------
(* A fetch: what was read, what has arrived and what the server has still  *)
(* to send are the response, until the connection is reset.                *)
WebInv ==
    /\ fetch.late \in BOOLEAN
    /\ fetch.at \in {"idle", "connect", "recv", "done"}
    /\ fetch.at = "idle" => fetch = NoFetch /\ link = NoLink
    /\ fetch.at # "idle" =>
          /\ DOMAIN fetch = DOMAIN NoFetch /\ DOMAIN link = DOMAIN NoLink
          /\ fetch.response \in Responses /\ fetch.read \in Seq(Tokens)
          /\ link.rcv \in Seq(Tokens) /\ link.left \in Seq(Tokens)
    /\ fetch.at = "connect" => fetch.read = <<>> /\ link.rcv = <<>> /\ link.left = fetch.response
    /\ fetch.at = "recv" =>
          link.state = "ESTABLISHED" /\ fetch.response = fetch.read \o (link.rcv \o link.left)
    /\ fetch.at = "done" =>
          /\ Begins(fetch.read, fetch.response)
          /\ link.left = <<>> /\ link.state = "CLOSE_WAIT" /\ Len(fetch.response) <= RespMax =>
                fetch.read = fetch.response
    /\ PageRight

\* A page made of what was read is right.
LEMMA PageMade ==
    ASSUME NEW r \in Responses, NEW read \in Seq(Tokens), Begins(read, r), NEW kind,
           kind = "whole" /\ Len(r) <= RespMax => read = r,
           page' = [kind |-> kind, text |-> PageOf(read), response |-> r, read |-> read]
    PROVE  PageRight'
<1>1. r \in Seq(Tokens)
  BY WebAssumption
<1>2. IsPrefix(read, r) /\ Shown(read, r, PageOf(read))
  BY <1>1, PageShown, PrefixIs
<1> QED BY <1>2 DEF PageRight, Shown

LEMMA PageStays == ASSUME WebInv, page' = page PROVE PageRight'
  BY DEF WebInv, PageRight

LEMMA FetchBegins ==
    ASSUME WebInv, NEW response \in Responses, Fetch(response) PROVE WebInv'
<1>1. response \in Seq(Tokens) /\ <<>> \in Seq(Tokens)
  BY WebAssumption, EmptySeq
<1>2. fetch' = [at |-> "connect", response |-> response, read |-> <<>>, late |-> FALSE]
  BY DEF Fetch, NoFetch
<1>3. link' = [state |-> "SYN_SENT", rcv |-> <<>>, left |-> response] /\ page' = page
  BY DEF Fetch
<1> QED BY <1>1, <1>2, <1>3, PageStays DEF WebInv, NoFetch, NoLink

LEMMA FetchEnds ==
    ASSUME fetch' = NoFetch, link' = NoLink, PageRight' PROVE WebInv'
<1>1. fetch'.at = "idle" /\ fetch'.late = FALSE
  BY DEF NoFetch
<1> QED BY <1>1 DEF WebInv

LEMMA PageFails ==
    ASSUME NEW kind \in {"no host", "failed"}, page' = [NoPage EXCEPT !.kind = kind] PROVE PageRight'
<1>1. page'.kind = kind
  BY DEF NoPage
<1> QED BY <1>1 DEF PageRight

LEMMA ConnectingStep == ASSUME WebInv, Connecting PROVE WebInv'
<1>1. PICK state \in {"SYN_SENT", "ESTABLISHED", "CLOSED"}, over \in BOOLEAN :
          link' = [link EXCEPT !.state = state] /\ fetch' = [fetch EXCEPT !.late = over]
  BY DEF Connecting
<1>2. fetch.at = "connect" /\ page' = page
  BY DEF Connecting
<1>3. DOMAIN fetch = {"at", "response", "read", "late"} /\ DOMAIN link = {"state", "rcv", "left"}
  BY <1>2 DEF WebInv, NoFetch, NoLink
<1>4. /\ fetch'.at = "connect" /\ fetch'.response = fetch.response /\ fetch'.read = fetch.read
      /\ fetch'.late = over /\ link'.rcv = link.rcv /\ link'.left = link.left
      /\ DOMAIN fetch' = DOMAIN fetch /\ DOMAIN link' = DOMAIN link
  BY <1>1, <1>2, <1>3
<1> QED BY <1>2, <1>4, PageStays DEF WebInv

LEMMA RequestStep == ASSUME WebInv, Request PROVE WebInv'
<1>1. CASE GetFails
  <2>1. fetch' = NoFetch /\ link' = NoLink /\ page' = [NoPage EXCEPT !.kind = "failed"]
    BY <1>1 DEF GetFails
  <2> QED BY <2>1, PageFails, FetchEnds
<1>2. CASE link.state = "ESTABLISHED" /\ fetch' = [fetch EXCEPT !.at = "recv"] /\ UNCHANGED <<link, page>>
  <2>1. fetch.at = "connect" /\ link' = link /\ page' = page
    BY <1>2 DEF Request
  <2>2. DOMAIN fetch = {"at", "response", "read", "late"}
    BY <2>1 DEF WebInv, NoFetch
  <2>3. /\ fetch'.at = "recv" /\ fetch'.response = fetch.response /\ fetch'.read = fetch.read
        /\ fetch'.late = fetch.late /\ DOMAIN fetch' = DOMAIN fetch
    BY <1>2, <2>2
  <2>4. fetch.response = <<>> \o (<<>> \o fetch.response)
    BY <2>1, WebAssumption, ConcatEmptySeq DEF WebInv
  <2>5. fetch.response = fetch.read \o (link.rcv \o link.left)
    BY <2>1, <2>4 DEF WebInv
  <2> QED BY <1>2, <2>1, <2>3, <2>5, PageStays DEF WebInv
<1> QED BY <1>1, <1>2 DEF Request

\* What is read is the beginning of all that there is.
LEMMA BeginsJoined ==
    ASSUME NEW a \in Seq(Tokens), NEW b \in Seq(Tokens), NEW c \in Seq(Tokens)
    PROVE  Begins(a, a \o (b \o c)) /\ Len(a \o (b \o c)) = Len(a) + (Len(b) + Len(c))
<1>1. PICK d \in Seq(Tokens) : d = b \o c /\ Len(d) = Len(b) + Len(c)
  BY Join
<1>2. Len(a \o d) = Len(a) + Len(d) /\ \A i \in 1..Len(a) : (a \o d)[i] = a[i]
  BY Join
<1> QED BY <1>1, <1>2 DEF Begins

LEMMA ReceivingEndsStep == ASSUME WebInv, ReceivingEnds PROVE WebInv'
<1>1. fetch.at = "recv" /\ fetch' = [fetch EXCEPT !.at = "done"] /\ link' = link /\ page' = page
  BY DEF ReceivingEnds
<1>2. DOMAIN fetch = {"at", "response", "read", "late"}
  BY <1>1 DEF WebInv, NoFetch
<1>3. /\ fetch'.at = "done" /\ fetch'.response = fetch.response /\ fetch'.read = fetch.read
      /\ fetch'.late = fetch.late /\ DOMAIN fetch' = DOMAIN fetch
  BY <1>1, <1>2
<1>4. PICK a \in Seq(Tokens), b \in Seq(Tokens), c \in Seq(Tokens) : a = fetch.read /\ b = link.rcv /\ c = link.left
  BY <1>1 DEF WebInv
<1>5. Begins(a, a \o (b \o c))
  BY BeginsJoined
<1>6. Begins(fetch.read, fetch.response) /\ link.state = "ESTABLISHED"
  BY <1>1, <1>4, <1>5 DEF WebInv
<1> QED BY <1>1, <1>3, <1>6, PageStays DEF WebInv

LEMMA ShowStep == ASSUME WebInv, Show PROVE WebInv'
<1>1. fetch.at = "done" /\ fetch' = NoFetch /\ link' = NoLink
  BY DEF Show
<1>2. CASE fetch.read = <<>>
  <2>1. page' = [NoPage EXCEPT !.kind = "failed"]
    BY <1>2 DEF Show
  <2> QED BY <1>1, <2>1, PageFails, FetchEnds
<1>3. CASE fetch.read # <<>>
  <2> DEFINE k == IF link.left = <<>> /\ link.state = "CLOSE_WAIT" THEN "whole" ELSE "cut"
  <2>1. page' = [kind |-> k, text |-> PageOf(fetch.read), response |-> fetch.response, read |-> fetch.read]
    BY <1>3 DEF Show
  <2>2. k = "whole" => link.left = <<>> /\ link.state = "CLOSE_WAIT"
    OBVIOUS
  <2> HIDE DEF k
  <2>3. PICK r \in Responses, read \in Seq(Tokens) : r = fetch.response /\ read = fetch.read
    BY <1>1 DEF WebInv
  <2>4. Begins(read, r) /\ (k = "whole" /\ Len(r) <= RespMax => read = r)
    BY <1>1, <2>2, <2>3 DEF WebInv
  <2>5. PageRight'
    BY <2>1, <2>3, <2>4, PageMade
  <2> QED BY <1>1, <2>5, FetchEnds
<1> QED BY <1>2, <1>3

LEMMA LessOf ==
    ASSUME NEW x \in Int, NEW y \in Int
    PROVE  Min({x, y}) \in {x, y} /\ Min({x, y}) <= x /\ Min({x, y}) <= y
<1>1. \E z \in {x, y} : \A w \in {x, y} : z <= w
  OBVIOUS
<1> QED BY <1>1 DEF Min

LEMMA Halves ==
    ASSUME NEW s \in Seq(Tokens), NEW n \in 0..Len(s)
    PROVE  /\ SubSeq(s, 1, n) \in Seq(Tokens) /\ Len(SubSeq(s, 1, n)) = n
           /\ RestFrom(s, n + 1) \in Seq(Tokens) /\ Len(RestFrom(s, n + 1)) = Len(s) - n
           /\ n = Len(s) => RestFrom(s, n + 1) = <<>>
           /\ \A r \in Seq(Tokens) : (r \o SubSeq(s, 1, n)) \o RestFrom(s, n + 1) = r \o s
<1>1. PICK u \in Seq(Tokens), v \in Seq(Tokens) :
          u = Upto(s, n) /\ v = From(s, n + 1) /\ Len(u) = n /\ Len(v) = Len(s) - n
  BY Cut
<1>2. u = SubSeq(s, 1, n) /\ v = RestFrom(s, n + 1)
  BY <1>1 DEF Upto, From, RestFrom
<1>3. n = Len(s) => v = <<>>
  BY <1>1, EmptySeq
<1>4. ASSUME NEW r \in Seq(Tokens) PROVE (r \o u) \o v = r \o s
  BY <1>1, CutConcat
<1> QED BY <1>1, <1>2, <1>3, <1>4

LEMMA Regroup ==
    ASSUME NEW a \in Seq(Tokens), NEW b \in Seq(Tokens), NEW c \in Seq(Tokens)
    PROVE  (a \o b) \o c = a \o (b \o c)
<1>1. Cat(Cat(a, b), c) = Cat(a, Cat(b, c))
  BY Grouped
<1> QED BY ONLY <1>1 DEF Cat

\* What is read lies before the rest of what has arrived.
Passes(read, more, behind, room) ==
    \E now \in Seq(Tokens), rest \in Seq(Tokens) :
       /\ now = read \o SubSeq(more, 1, room) /\ rest = RestFrom(more, room + 1)
       /\ read \o (more \o behind) = now \o (rest \o behind)
LEMMA Passed ==
    ASSUME NEW read \in Seq(Tokens), NEW more \in Seq(Tokens), NEW behind \in Seq(Tokens), NEW room \in 0..Len(more)
    PROVE  Passes(read, more, behind, room)
<1>1. PICK first \in Seq(Tokens), rest \in Seq(Tokens) :
          /\ first = SubSeq(more, 1, room) /\ rest = RestFrom(more, room + 1)
          /\ (read \o first) \o rest = read \o more
  <2>1. SubSeq(more, 1, room) \in Seq(Tokens) /\ RestFrom(more, room + 1) \in Seq(Tokens)
    BY ONLY Halves, more \in Seq(Tokens), room \in 0..Len(more)
  <2>2. (read \o SubSeq(more, 1, room)) \o RestFrom(more, room + 1) = read \o more
    BY ONLY Halves, read \in Seq(Tokens), more \in Seq(Tokens), room \in 0..Len(more)
  <2> QED BY ONLY <2>1, <2>2
<1>2. PICK now \in Seq(Tokens) : now = read \o first
  BY Join
<1>3. (read \o more) \o behind = read \o (more \o behind)
  <2>1. Cat(Cat(read, more), behind) = Cat(read, Cat(more, behind))
    BY ONLY Grouped, read \in Seq(Tokens), more \in Seq(Tokens), behind \in Seq(Tokens)
  <2> QED BY ONLY <2>1 DEF Cat
<1>4. (now \o rest) \o behind = now \o (rest \o behind)
  <2>1. Cat(Cat(now, rest), behind) = Cat(now, Cat(rest, behind))
    BY ONLY Grouped, now \in Seq(Tokens), rest \in Seq(Tokens), behind \in Seq(Tokens)
  <2> QED BY ONLY <2>1 DEF Cat
<1>5. now \o rest = read \o more
  BY ONLY <1>1, <1>2
<1>6. read \o (more \o behind) = now \o (rest \o behind)
  BY ONLY <1>3, <1>4, <1>5
<1>7. now = read \o SubSeq(more, 1, room)
  BY ONLY <1>1, <1>2
<1>8. rest = RestFrom(more, room + 1)
  BY ONLY <1>1
<1> QED BY ONLY now \in Seq(Tokens), rest \in Seq(Tokens), <1>6, <1>7, <1>8 DEF Passes

LEMMA ReceivingStep == ASSUME WebInv, Receiving PROVE WebInv'
<1>1. fetch.at = "recv" /\ Len(fetch.read) < RespMax /\ page' = page
  BY DEF Receiving
<1>2. PICK r \in Responses, read \in Seq(Tokens), rcv \in Seq(Tokens), left \in Seq(Tokens) :
          r = fetch.response /\ read = fetch.read /\ rcv = link.rcv /\ left = link.left
  BY <1>1 DEF WebInv
<1>3. r = read \o (rcv \o left) /\ r \in Seq(Tokens)
  BY <1>1, <1>2, WebAssumption DEF WebInv
<1>4. PICK n \in 0..Min({Len(link.left), RCV_MAX - Len(link.rcv)}), over \in BOOLEAN,
           state \in {"ESTABLISHED", "CLOSE_WAIT", "CLOSED"} :
          /\ state = "CLOSE_WAIT" => n = Len(link.left)
          /\ LET got  == link.rcv \o SubSeq(link.left, 1, n)
                 most == Min({Len(got), RespMax - Len(fetch.read)})
             IN  /\ link' = [state |-> state, rcv |-> RestFrom(got, most + 1), left |-> RestFrom(link.left, n + 1)]
                 /\ fetch' = [fetch EXCEPT !.read = @ \o Drained(got, state, most), !.late = over,
                                           !.at = IF state = "ESTABLISHED" THEN "recv" ELSE "done"]
  BY DEF Receiving
<1> DEFINE got == link.rcv \o SubSeq(link.left, 1, n)
           most == Min({Len(got), RespMax - Len(fetch.read)})
<1>5. /\ link' = [state |-> state, rcv |-> RestFrom(got, most + 1), left |-> RestFrom(link.left, n + 1)]
      /\ fetch' = [fetch EXCEPT !.read = @ \o Drained(got, state, most), !.late = over,
                                !.at = IF state = "ESTABLISHED" THEN "recv" ELSE "done"]
  BY <1>4
<1>6. Len(left) \in Nat /\ Len(rcv) \in Nat /\ Len(read) \in Nat /\ RCV_MAX \in Nat /\ RespMax \in Nat
  BY WebAssumption
<1>7. n \in 0..Len(left)
  <2>1. PICK x \in Int, y \in Int : x = Len(left) /\ y = RCV_MAX - Len(rcv)
    <3>1. Len(left) \in Int /\ RCV_MAX - Len(rcv) \in Int
      BY <1>6
    <3> QED BY ONLY <3>1
  <2>2. Min({x, y}) \in {x, y} /\ Min({x, y}) <= x
    BY LessOf
  <2>3. n \in 0..Min({x, y})
    BY <1>2, <1>4, <2>1
  <2> QED BY <2>1, <2>2, <2>3
<1>8. PICK more \in Seq(Tokens) : more = rcv \o SubSeq(left, 1, n) /\ Len(more) = Len(rcv) + n
  <2>1. PICK l1 \in Seq(Tokens) : l1 = SubSeq(left, 1, n) /\ Len(l1) = n
    BY <1>7, Halves
  <2>2. rcv \o l1 \in Seq(Tokens) /\ Len(rcv \o l1) = Len(rcv) + Len(l1)
    BY Join
  <2> QED BY <2>1, <2>2
<1>9. got = more
  BY <1>2, <1>8
<1>10. PICK room \in 0..Len(more) : most = room /\ (Len(more) <= RespMax - Len(read) => room = Len(more))
  <2> HIDE DEF got
  <2>1. PICK x \in Int, y \in Int : x = Len(more) /\ y = RespMax - Len(read) /\ x >= 0 /\ y > 0
    <3>1. Len(more) \in Int /\ RespMax - Len(read) \in Int /\ Len(more) >= 0 /\ RespMax - Len(read) > 0
      BY <1>1, <1>2, <1>6
    <3> QED BY ONLY <3>1
  <2>2. Min({x, y}) \in {x, y} /\ Min({x, y}) <= x /\ Min({x, y}) <= y
    BY LessOf
  <2>3. PICK m \in Int : m = Min({x, y}) /\ m \in {x, y} /\ m <= x /\ m <= y
    BY <2>2
  <2>4. most = Min({x, y})
    BY <1>2, <1>9, <2>1
  <2> HIDE DEF most
  <2> QED BY <2>1, <2>3, <2>4
<1> HIDE DEF got, most
<1>11. PICK left2 \in Seq(Tokens) : /\ left2 = RestFrom(left, n + 1) /\ more \o left2 = rcv \o left
                                    /\ n = Len(left) => left2 = <<>>
  <2>1. RestFrom(left, n + 1) \in Seq(Tokens) /\ (rcv \o SubSeq(left, 1, n)) \o RestFrom(left, n + 1) = rcv \o left
    BY <1>7, Halves
  <2>2. n = Len(left) => RestFrom(left, n + 1) = <<>>
    BY <1>7, Halves
  <2> QED BY <1>8, <2>1, <2>2
<1>12. PICK read2 \in Seq(Tokens), rcv2 \in Seq(Tokens) :
          /\ read2 = read \o SubSeq(more, 1, room) /\ rcv2 = RestFrom(more, room + 1)
          /\ read \o (more \o left2) = read2 \o (rcv2 \o left2)
  <2>1. Passes(read, more, left2, room)
    BY ONLY Passed, read \in Seq(Tokens), more \in Seq(Tokens), left2 \in Seq(Tokens), room \in 0..Len(more)
  <2> QED BY ONLY <2>1 DEF Passes
<1>13. r = read2 \o (rcv2 \o left2) /\ (room = Len(more) => rcv2 = <<>>)
  <2>1. room = Len(more) => RestFrom(more, room + 1) = <<>>
    BY Halves
  <2> QED BY <1>3, <1>11, <1>12, <2>1
<1>14. link' = [state |-> state, rcv |-> rcv2, left |-> left2]
  BY <1>2, <1>5, <1>9, <1>10, <1>11, <1>12
<1>15. PICK now \in Seq(Tokens) : /\ now = fetch.read \o Drained(more, state, room)
                                  /\ now = IF state = "CLOSED" THEN read ELSE read2
  BY <1>2, <1>12, ConcatEmptySeq DEF Drained
<1>16. /\ fetch'.read = now /\ fetch'.late = over /\ fetch'.response = r /\ DOMAIN fetch' = DOMAIN fetch
       /\ fetch'.at = IF state = "ESTABLISHED" THEN "recv" ELSE "done"
  <2>1. fetch' = [fetch EXCEPT !.read = now, !.late = over,
                               !.at = IF state = "ESTABLISHED" THEN "recv" ELSE "done"]
    BY <1>5, <1>9, <1>10, <1>15
  <2>2. DOMAIN fetch = {"at", "response", "read", "late"}
    BY <1>1 DEF WebInv, NoFetch
  <2> QED BY <1>2, <2>1, <2>2
<1>17. /\ link'.state = state /\ link'.rcv = rcv2 /\ link'.left = left2
       /\ DOMAIN fetch' = DOMAIN NoFetch /\ DOMAIN link' = DOMAIN NoLink
  <2>1. DOMAIN fetch = DOMAIN NoFetch
    BY <1>1 DEF WebInv
  <2>2. DOMAIN link' = DOMAIN NoLink
    BY <1>14 DEF NoLink
  <2> QED BY <1>14, <1>16, <2>1, <2>2
<1>18. Begins(now, r)
  BY <1>3, <1>13, <1>15, BeginsJoined
<1>19. state = "CLOSE_WAIT" /\ Len(r) <= RespMax => now = r
  <2> SUFFICES ASSUME state = "CLOSE_WAIT", Len(r) <= RespMax PROVE now = r
    OBVIOUS
  <2>1. left2 = <<>> /\ n = Len(left)
    BY <1>2, <1>4, <1>11
  <2>2. Len(more) = Len(rcv) + Len(left)
    BY <1>8, <2>1
  <2>3. Len(r) = Len(read) + (Len(rcv) + Len(left))
    BY <1>3, BeginsJoined
  <2>4. Len(more) <= RespMax - Len(read)
    <3>1. PICK x \in Nat, y \in Nat, z \in Nat, w \in Nat, m \in Nat :
              x = Len(read) /\ y = Len(rcv) /\ z = Len(left) /\ w = Len(more) /\ m = RespMax
      BY <1>6
    <3>2. w = y + z /\ x + (y + z) <= m
      BY <2>2, <2>3, <3>1
    <3>3. w <= m - x
      BY ONLY <3>2, x \in Nat, y \in Nat, z \in Nat, w \in Nat, m \in Nat
    <3> QED BY <3>1, <3>3
  <2>5. rcv2 = <<>>
    BY <1>10, <1>13, <2>4
  <2>6. rcv2 \o left2 = <<>>
    BY <2>1, <2>5, EmptySeq, ConcatEmptySeq
  <2> QED BY <1>13, <1>15, <2>6, ConcatEmptySeq
<1>20. state = "ESTABLISHED" => r = now \o (rcv2 \o left2)
  BY <1>13, <1>15
<1>21. PageRight'
  BY <1>1, PageStays
<1> QED BY <1>16, <1>17, <1>18, <1>19, <1>20, <1>21 DEF WebInv

LEMMA WebStarts == WebInit => WebInv
  BY DEF WebInit, WebInv, NoFetch, NoPage, PageRight

LEMMA WebKeeps == WebInv /\ [WebNext]_webVars => WebInv'
<1> SUFFICES ASSUME WebInv, [WebNext]_webVars PROVE WebInv'
  OBVIOUS
<1>1. ASSUME NEW response \in Responses, Fetch(response) PROVE WebInv'
  BY <1>1, FetchBegins
<1>2. ASSUME NEW kind \in {"no host", "failed"}, FetchFails(kind) PROVE WebInv'
  <2>1. fetch.at = "idle" /\ fetch' = fetch /\ link' = link /\ page' = [NoPage EXCEPT !.kind = kind]
    BY <1>2 DEF FetchFails
  <2> QED BY <2>1, PageFails, FetchEnds DEF WebInv
<1>3. CASE UNCHANGED webVars
  <2>1. fetch' = fetch /\ link' = link /\ page' = page
    BY <1>3 DEF webVars
  <2> QED BY <2>1 DEF WebInv, PageRight
<1> QED BY <1>1, <1>2, <1>3, ConnectingStep, RequestStep, ReceivingStep, ReceivingEndsStep, ShowStep DEF WebNext

\* A page is what the server sent, whole if it came whole and in time and fits, and the
\* text of its body; one that was cut is the beginning of the same page, or its head.
THEOREM PageIsRight == WebSpec => []PageRight
<1>1. WebInv => PageRight
  BY DEF WebInv
<1> QED BY <1>1, WebStarts, WebKeeps, PTL DEF WebSpec

----------------------------------------------------------------------------
(* What x509_parse reads in a certificate that is encoded.                 *)

Other == Seq1(<<E("OID", "O"), E("UTF8STRING", <<"vyro">>)>>)
Common(cn) == Seq1(<<E("OID", "CN"), E("PRINTSTRING", cn)>>)
Rdns(cn) == <<E("SET", <<Other>>), E("SET", <<Common(cn)>>)>>

LEMMA CnIs ==
    ASSUME NEW cn
    PROVE  /\ CnIn(E("SET", <<Other>>)) = 0
           /\ CnIn(E("SET", <<Common(cn)>>)) = 1
<1>1. ~IsCn(Other) /\ IsCn(Common(cn))
  BY DEF Other, Common, IsCn, Seq1, E, Expect, Reads
<1>2. ~NotSequence(Common(cn))
  BY DEF Common, Seq1, E, NotSequence
<1>3. <<Other>>[1] = Other /\ <<Common(cn)>>[1] = Common(cn) /\ DOMAIN <<Other>> = {1} /\ DOMAIN <<Common(cn)>> = {1}
  OBVIOUS
<1>4. E("SET", <<Other>>).val = <<Other>> /\ E("SET", <<Common(cn)>>).val = <<Common(cn)>>
  BY DEF E
<1>5. CnIn(E("SET", <<Other>>)) = 0
  BY <1>1, <1>3, <1>4 DEF FirstWith, CnIn
<1>6. CnIn(E("SET", <<Common(cn)>>)) = 1
  <2> DEFINE at == {i \in DOMAIN <<Common(cn)>> : IsCn(<<Common(cn)>>[i]) /\ \A j \in 1..i : ~NotSequence(<<Common(cn)>>[j])}
  <2>1. at = {1}
    BY <1>1, <1>2, <1>3
  <2>2. Min(at) = 1
    BY <2>1 DEF Min
  <2> QED BY <1>4, <2>1, <2>2 DEF FirstWith, CnIn
<1> QED BY <1>5, <1>6

LEMMA CommonNameIs ==
    ASSUME NEW cn
    PROVE  CommonName(Rdns(cn)) = cn
<1> DEFINE name == Rdns(cn)
           at == {i \in DOMAIN name : HasCn(name[i]) /\ \A j \in 1..i : ~EndsRdns(name[j])}
<1>1. /\ DOMAIN name = {1, 2} /\ name[1] = E("SET", <<Other>>) /\ name[2] = E("SET", <<Common(cn)>>)
      /\ name[1].tag = "SET" /\ name[1].val = <<Other>> /\ name[2].tag = "SET" /\ name[2].val = <<Common(cn)>>
  BY DEF Rdns, E
<1>2. ~HasCn(name[1]) /\ HasCn(name[2])
  BY <1>1, CnIs DEF HasCn
<1>3. ~NotSequence(Other) /\ ~NotSequence(Common(cn))
  BY DEF Other, Common, Seq1, E, NotSequence
<1>4. ~EndsRdns(name[1]) /\ ~EndsRdns(name[2])
  BY <1>1, <1>3 DEF EndsRdns
<1> HIDE DEF name
<1>5. at = {2}
  BY <1>1, <1>2, <1>4
<1>6. Min(at) = 2
  BY <1>5 DEF Min
<1>7. name[2].val[1].val[2].val = cn
  BY <1>1 DEF Common, Seq1, E
<1>8. CnIn(name[2]) = 1
  BY <1>1, CnIs
<1>9. CommonName(name) = name[2].val[CnIn(name[2])].val[2].val
  <2>1. CnRdn(name) = 2
    BY <1>5, <1>6 DEF CnRdn, FirstWith
  <2> QED BY <2>1 DEF CommonName
<1> QED BY <1>7, <1>8, <1>9 DEF name

LEMMA Glued ==
    ASSUME NEW S, NEW s \in Seq(S), NEW t \in Seq(S)
    PROVE  /\ s \o t \in Seq(S)
           /\ Len(s \o t) = Len(s) + Len(t)
           /\ \A i \in 1..Len(s) : (s \o t)[i] = s[i]
           /\ \A i \in 1..Len(t) : (s \o t)[Len(s) + i] = t[i]
<1>1. /\ s \o t \in Seq(S)
      /\ Len(s \o t) = Len(s) + Len(t)
      /\ \A i \in 1..Len(s) + Len(t) : (s \o t)[i] = IF i <= Len(s) THEN s[i] ELSE t[i - Len(s)]
  BY ConcatProperties
<1>2. Len(s) \in Nat /\ Len(t) \in Nat
  OBVIOUS
<1>3. \A i \in 1..Len(s) : (s \o t)[i] = s[i]
  BY <1>1, <1>2
<1>4. ASSUME NEW i \in 1..Len(t) PROVE (s \o t)[Len(s) + i] = t[i]
  <2>1. Len(s) + i \in 1..Len(s) + Len(t) /\ ~(Len(s) + i <= Len(s)) /\ Len(s) + i - Len(s) = i
    BY <1>2
  <2> QED BY <1>1, <2>1
<1> QED BY <1>1, <1>3, <1>4

LEMMA SanIs ==
    ASSUME NEW d
    PROVE  LET wrap == <<Seq1([i \in DOMAIN d.sans |-> E("DNS", d.sans[i])])>>
               usage == Seq1(<<E("OID", "usage"), E("OCTETSTRING", <<>>)>>)
           IN  /\ ~NotSequence(SanOf(d)) /\ IsSan(SanOf(d))
               /\ SanOf(d).val[OctetsAt(SanOf(d).val)].val = wrap
               /\ ~IsSan(usage) /\ ~NotSequence(usage)
<1> DEFINE wrap == <<Seq1([i \in DOMAIN d.sans |-> E("DNS", d.sans[i])])>>
           oid == E("OID", "SAN")
           flag == E("BOOLEAN", TRUE)
           octets == E("OCTETSTRING", wrap)
           S == {oid, flag, octets}
<1>1. ~NotSequence(SanOf(d))
  BY DEF SanOf, Seq1, E, NotSequence
<1>2. SanOf(d).val = <<oid>> \o (IF d.form = "critical" THEN <<flag>> ELSE <<>>) \o <<octets>>
  BY DEF SanOf, Seq1, E
<1>3. /\ oid.tag = "OID" /\ oid.val = "SAN" /\ flag.tag = "BOOLEAN"
      /\ octets.tag = "OCTETSTRING" /\ octets.val = wrap
  BY DEF E
<1> HIDE DEF oid, flag, octets
<1>4. <<oid>> \in Seq(S) /\ <<flag>> \in Seq(S) /\ <<octets>> \in Seq(S) /\ <<>> \in Seq(S)
  OBVIOUS
<1> HIDE DEF S
<1> DEFINE v == SanOf(d).val
<1>5. ASSUME d.form = "critical" PROVE IsSan(SanOf(d)) /\ v[OctetsAt(v)].val = wrap
  <2> DEFINE u == <<oid>> \o <<flag>>
  <2>1. v = u \o <<octets>>
    BY <1>2, <1>5
  <2>2. u \in Seq(S) /\ Len(u) = 2 /\ u[1] = oid /\ u[2] = flag
    BY <1>4, Glued
  <2> HIDE DEF u, v
  <2>3. v \in Seq(S) /\ Len(v) = 3 /\ v[1] = oid /\ v[2] = flag /\ v[3] = octets
    BY <1>4, <2>1, <2>2, Glued
  <2>4. OctetsAt(v) = 3
    BY <1>3, <2>3 DEF OctetsAt, Expect, Reads
  <2>5. v[OctetsAt(v)].val = wrap /\ Expect(v, 1, "OID") /\ v[1].val = "SAN" /\ Expect(v, OctetsAt(v), "OCTETSTRING")
    BY <1>3, <2>3, <2>4 DEF Expect, Reads
  <2> QED BY <2>5 DEF IsSan, v
<1>6. ASSUME d.form # "critical" PROVE IsSan(SanOf(d)) /\ v[OctetsAt(v)].val = wrap
  <2> DEFINE u == <<oid>> \o <<>>
  <2>1. v = u \o <<octets>>
    BY <1>2, <1>6
  <2>2. u \in Seq(S) /\ Len(u) = 1 /\ u[1] = oid
    BY <1>4, Glued
  <2> HIDE DEF u, v
  <2>3. v \in Seq(S) /\ Len(v) = 2 /\ v[1] = oid /\ v[2] = octets
    BY <1>4, <2>1, <2>2, Glued
  <2>4. OctetsAt(v) = 2
    BY <1>3, <2>3 DEF OctetsAt, Expect, Reads
  <2>5. v[OctetsAt(v)].val = wrap /\ Expect(v, 1, "OID") /\ v[1].val = "SAN" /\ Expect(v, OctetsAt(v), "OCTETSTRING")
    BY <1>3, <2>3, <2>4 DEF Expect, Reads
  <2> QED BY <2>5 DEF IsSan, v
<1>7. LET usage == Seq1(<<E("OID", "usage"), E("OCTETSTRING", <<>>)>>) IN ~IsSan(usage) /\ ~NotSequence(usage)
  BY DEF IsSan, NotSequence, Seq1, E, Expect, Reads
<1> HIDE DEF v
<1>8. ~NotSequence(SanOf(d)) /\ IsSan(SanOf(d)) /\ v[OctetsAt(v)].val = wrap
  BY <1>1, <1>5, <1>6 DEF v
<1> QED BY <1>7, <1>8 DEF v

LEMMA NthIs ==
    ASSUME NEW len \in Nat, NEW n \in 1..len
    PROVE  Nth(1..len, n) = n
<1>1. ASSUME NEW i \in 1..len PROVE Cardinality({j \in 1..len : j <= i}) = i
  <2>1. {j \in 1..len : j <= i} = 1..i
    OBVIOUS
  <2>2. Cardinality(1..i) = i
    BY FS_Interval
  <2> QED BY <2>1, <2>2
<1> QED BY <1>1 DEF Nth

\* The names that x509_parse takes out of the extension.
Sans(d) == [n \in 1..Min({Len(d.sans), X509_SAN_MAX}) |-> d.sans[n]]

LEMMA AltNamesAre ==
    ASSUME NEW d, IsSeq(d.sans), NEW exts,
           \/ exts = <<SanOf(d)>>
           \/ exts = <<Seq1(<<E("OID", "usage"), E("OCTETSTRING", <<>>)>>), SanOf(d)>>
    PROVE  AltNames(exts) = Sans(d)
<1> DEFINE wrap == <<Seq1([i \in DOMAIN d.sans |-> E("DNS", d.sans[i])])>>
           usage == Seq1(<<E("OID", "usage"), E("OCTETSTRING", <<>>)>>)
           san == SanOf(d)
           at == {i \in DOMAIN exts : IsSan(exts[i]) /\ \A j \in 1..i : ~NotSequence(exts[j])}
           len == Len(d.sans)
           names == [i \in DOMAIN d.sans |-> E("DNS", d.sans[i])]
           dns == {e \in DOMAIN names : names[e].tag = "DNS" /\ \A before \in 1..e : Reads(names, before)}
<1>1. /\ ~NotSequence(san) /\ IsSan(san) /\ san.val[OctetsAt(san.val)].val = wrap
      /\ ~IsSan(usage) /\ ~NotSequence(usage)
  BY SanIs
<1>2. wrap[1].val = names /\ Expect(wrap, 1, "SEQUENCE")
  BY DEF Seq1, E, Expect, Reads
<1>3. exts = <<san>> \/ exts = <<usage, san>>
  OBVIOUS
<1>4. len \in Nat /\ DOMAIN names = 1..len
  BY DEF IsSeq
<1>5. dns = 1..len
  <2>1. \A e \in 1..len : names[e].tag = "DNS" /\ names[e].val = d.sans[e] /\ Reads(names, e)
    BY <1>4 DEF E, Reads
  <2> HIDE DEF names
  <2> QED BY <1>4, <2>1
<1>6. \A e \in 1..len : names[e].val = d.sans[e]
  BY <1>4 DEF E
<1> HIDE DEF wrap, usage, san, dns, names, len
<1>7. PICK i \in {1, 2} : at = {i} /\ exts[i] = san
  <2>1. CASE exts = <<san>>
    <3>1. at = {1} /\ exts[1] = san
      BY <1>1, <2>1
    <3> QED BY <3>1
  <2>2. CASE exts = <<usage, san>>
    <3>1. at = {2} /\ exts[2] = san
      BY <1>1, <2>2
    <3> QED BY <3>1
  <2> QED BY <1>3, <2>1, <2>2
<1>8. Min(at) = i /\ at # {} /\ i # 0
  BY <1>7 DEF Min
<1>9. exts[i].val[OctetsAt(exts[i].val)].val = wrap
  BY <1>1, <1>7
<1>10. AltNames(exts) = [n \in 1..Min({Cardinality(dns), X509_SAN_MAX}) |-> names[Nth(dns, n)].val]
  <2>1. GeneralNames(exts) = names
    BY <1>2, <1>8, <1>9 DEF GeneralNames, FirstWith
  <2>2. AltNames(exts) = DnsNames(names)
    BY <2>1 DEF AltNames
  <2>3. DnsNames(names) = [n \in 1..Min({Cardinality(dns), X509_SAN_MAX}) |-> names[Nth(dns, n)].val]
    BY DEF DnsNames, dns
  <2> QED BY ONLY <2>2, <2>3, Zenon
<1>11. Cardinality(dns) = len
  BY <1>4, <1>5, FS_Interval
<1>12. \A n \in 1..Min({len, X509_SAN_MAX}) : names[Nth(dns, n)].val = d.sans[n]
  <2>1. X509_SAN_MAX \in Nat
    BY CertsAssumption
  <2>2. Min({len, X509_SAN_MAX}) \in Nat /\ Min({len, X509_SAN_MAX}) <= len
    <3>1. len \in Int /\ X509_SAN_MAX \in Int
      BY <1>4, <2>1
    <3>2. Min({len, X509_SAN_MAX}) \in {len, X509_SAN_MAX} /\ Min({len, X509_SAN_MAX}) <= len
      BY <3>1, LessOf
    <3> QED BY <1>4, <2>1, <3>2
  <2>3. ASSUME NEW n \in 1..Min({len, X509_SAN_MAX}) PROVE names[Nth(dns, n)].val = d.sans[n]
    <3>1. n \in 1..len
      BY <1>4, <2>2
    <3> QED BY <1>4, <1>5, <1>6, <3>1, NthIs
  <2> QED BY <2>3
<1> QED BY <1>10, <1>11, <1>12 DEF Sans, len

Puts(S, v, a, b, c, d, e, r, t, o) ==
    /\ v \in Seq(S) /\ a \in S /\ b \in S /\ c \in S /\ d \in S /\ e \in S /\ r \in Seq(S)
    /\ t = v \o <<a, b, c, d, e>> \o r /\ o = Len(v)

LEMMA FivePut ==
    ASSUME NEW S, NEW v, NEW a, NEW b, NEW c, NEW d, NEW e, NEW r, NEW t, NEW o, Puts(S, v, a, b, c, d, e, r, t, o)
    PROVE  /\ t \in Seq(S) /\ o \in Nat /\ Len(t) = o + 5 + Len(r)
           /\ \A k \in 1..o : t[k] = v[k]
           /\ t[o + 1] = a /\ t[o + 2] = b /\ t[o + 3] = c /\ t[o + 4] = d /\ t[o + 5] = e
           /\ \A k \in 1..Len(r) : t[o + 5 + k] = r[k]
<1>0. /\ v \in Seq(S) /\ a \in S /\ b \in S /\ c \in S /\ d \in S /\ e \in S /\ r \in Seq(S)
      /\ t = v \o <<a, b, c, d, e>> \o r /\ o = Len(v)
  BY DEF Puts
<1> DEFINE f == <<a, b, c, d, e>>
           u == v \o f
<1>1. f \in Seq(S) /\ Len(f) = 5 /\ f[1] = a /\ f[2] = b /\ f[3] = c /\ f[4] = d /\ f[5] = e
  BY <1>0
<1>9. u = v \o f
  OBVIOUS
<1> HIDE DEF f, u
<1>2. /\ u \in Seq(S) /\ Len(u) = o + 5
      /\ \A k \in 1..o : u[k] = v[k]
      /\ \A k \in 1..5 : u[o + k] = f[k]
  <2>1. /\ v \o f \in Seq(S) /\ Len(v \o f) = Len(v) + Len(f)
        /\ \A k \in 1..Len(v) : (v \o f)[k] = v[k]
        /\ \A k \in 1..Len(f) : (v \o f)[Len(v) + k] = f[k]
    <3>1. v \in Seq(S) /\ f \in Seq(S)
      BY <1>0, <1>1
    <3> QED BY ONLY <3>1, Glued
  <2> QED BY ONLY <1>0, <1>1, <1>9, <2>1
<1>3. t = u \o r
  BY <1>0 DEF f, u
<1>4. /\ t \in Seq(S) /\ Len(t) = o + 5 + Len(r)
      /\ \A k \in 1..o + 5 : t[k] = u[k]
      /\ \A k \in 1..Len(r) : t[o + 5 + k] = r[k]
  <2>1. u \in Seq(S) /\ r \in Seq(S)
    BY <1>0, <1>2
  <2>2. /\ u \o r \in Seq(S) /\ Len(u \o r) = Len(u) + Len(r)
        /\ \A k \in 1..Len(u) : (u \o r)[k] = u[k]
        /\ \A k \in 1..Len(r) : (u \o r)[Len(u) + k] = r[k]
    BY ONLY <2>1, Glued
  <2> QED BY ONLY <1>2, <1>3, <2>2
<1>5. o \in Nat
  BY <1>0
<1>6. \A k \in 1..o : t[k] = v[k]
  <2>1. \A k \in 1..o : k \in 1..o + 5
    BY <1>5
  <2> QED BY ONLY <1>2, <1>4, <2>1
<1>7. \A k \in 1..5 : t[o + k] = f[k]
  <2>1. \A k \in 1..5 : o + k \in 1..o + 5
    BY <1>5
  <2> QED BY <1>2, <1>4, <2>1
<1> QED BY <1>1, <1>4, <1>5, <1>6, <1>7

\* The extensions of a certificate that has them.
Inner(d) ==
    IF d.form = "critical" THEN <<Seq1(<<E("OID", "usage"), E("OCTETSTRING", <<>>)>>), SanOf(d)>> ELSE <<SanOf(d)>>

LEMMA ExtensionsAre ==
    ASSUME NEW d
    PROVE  /\ IsSeq(Extensions(d))
           /\ d.form = "v1" => Extensions(d) = <<>>
           /\ d.form = "broken" => Extensions(d) = <<E("BROKEN", <<>>)>>
           /\ d.form = "ids" => Extensions(d) = <<E("CTX1", <<>>), E("CTX3", <<Seq1(Inner(d))>>)>>
           /\ d.form \notin {"v1", "broken", "ids"} => Extensions(d) = <<E("CTX3", <<Seq1(Inner(d))>>)>>
<1>1. CASE d.form = "v1"
  <2>1. Extensions(d) = <<>>
    BY <1>1 DEF Extensions
  <2> QED BY <1>1, <2>1 DEF IsSeq
<1>2. CASE d.form = "broken"
  <2>1. Extensions(d) = <<E("BROKEN", <<>>)>>
    BY <1>2 DEF Extensions
  <2> QED BY <1>2, <2>1 DEF IsSeq
<1>3. CASE d.form = "ids"
  <2>1. Extensions(d) = <<E("CTX1", <<>>), E("CTX3", <<Seq1(Inner(d))>>)>>
    BY <1>3 DEF Extensions, Inner
  <2> QED BY <1>3, <2>1 DEF IsSeq
<1>4. CASE d.form \notin {"v1", "broken", "ids"}
  <2>1. Extensions(d) = <<E("CTX3", <<Seq1(Inner(d))>>)>>
    BY <1>4 DEF Extensions, Inner
  <2> QED BY <1>4, <2>1 DEF IsSeq
<1> QED BY <1>1, <1>2, <1>3, <1>4

\* The body has the five elements that all have, and behind them the key and what
\* Extensions gives.
Five(t, o, d) ==
    /\ \A k \in 1..o : t[k].tag = "CTX0"
    /\ t[o + 1].tag = "INTEGER" /\ t[o + 2].tag = "SEQUENCE" /\ t[o + 3] = NameOf(d.issuer)
    /\ t[o + 4] = Times /\ t[o + 5] = NameOf(d.subject)
KeyBehind(t, o, d) ==
    /\ Len(t) = o + 6 + Len(Extensions(d)) /\ t[o + 6] = Spki(d)
    /\ \A k \in 1..Len(Extensions(d)) : t[o + 6 + k] = Extensions(d)[k]

LEMMA TbsIs ==
    ASSUME NEW d, NEW o, o = Len(Version(d))
    PROVE  /\ o \in {0, 1} /\ (o = 0 <=> d.form = "v1") /\ IsSeq(Tbs(d)) /\ Five(Tbs(d), o, d)
           /\ d.form = "keyless" => Len(Tbs(d)) = o + 5
           /\ d.form # "keyless" => KeyBehind(Tbs(d), o, d) /\ Len(Extensions(d)) \in Nat
<1> DEFINE a == E("INTEGER", 1)
           b == Seq1(<<E("OID", d.sigalg)>>)
           i == NameOf(d.issuer)
           s == NameOf(d.subject)
           x == Extensions(d)
           k == Spki(d)
           c0 == E("CTX0", <<>>)
           v == Version(d)
           r == IF d.form = "keyless" THEN <<>> ELSE <<k>> \o x
           t == Tbs(d)
           S == {a, b, i, Times, s, k, c0} \cup {x[n] : n \in DOMAIN x}
<1>1. x \in Seq({x[n] : n \in DOMAIN x})
  BY ExtensionsAre DEF IsSeq
<1>2. a.tag = "INTEGER" /\ b.tag = "SEQUENCE" /\ c0.tag = "CTX0"
  BY DEF E, Seq1
<1>3. v = (IF d.form = "v1" THEN <<>> ELSE <<c0>>)
  BY DEF Version
<1>4. t = v \o <<a, b, i, Times, s>> \o r
  BY DEF Tbs
<1> HIDE DEF a, b, i, s, x, k, c0, v, t
<1>5. x \in Seq(S) /\ <<k>> \in Seq(S) /\ v \in Seq(S) /\ a \in S /\ b \in S /\ i \in S /\ Times \in S /\ s \in S
  <2>1. /\ \A n \in DOMAIN x : x[n] \in S
        /\ k \in S /\ a \in S /\ b \in S /\ i \in S /\ Times \in S /\ s \in S /\ c0 \in S
    OBVIOUS
  <2> HIDE DEF S
  <2>2. x \in Seq(S) /\ <<k>> \in Seq(S) /\ <<c0>> \in Seq(S) /\ <<>> \in Seq(S)
    BY <1>1, <2>1
  <2> QED BY <1>3, <2>1, <2>2
<1> HIDE DEF S
<1>6. r \in Seq(S) /\ (d.form = "keyless" => Len(r) = 0)
      /\ (d.form # "keyless" => Len(r) = 1 + Len(x) /\ r[1] = k /\ \A n \in 1..Len(x) : r[1 + n] = x[n])
  <2>1. CASE d.form = "keyless"
    BY <1>5, <2>1
  <2>2. CASE d.form # "keyless"
    <3>1. r = <<k>> \o x
      BY <2>2
    <3> HIDE DEF r
    <3>2. Len(<<k>>) = 1 /\ <<k>>[1] = k
      OBVIOUS
    <3> QED BY <1>5, <2>2, <3>1, <3>2, Glued
  <2> QED BY <2>1, <2>2
<1> HIDE DEF r
<1>7. o = Len(v)
  BY DEF v
<1>8. /\ t \in Seq(S) /\ Len(t) = o + 5 + Len(r)
      /\ \A n \in 1..o : t[n] = v[n]
      /\ t[o + 1] = a /\ t[o + 2] = b /\ t[o + 3] = i /\ t[o + 4] = Times /\ t[o + 5] = s
      /\ \A n \in 1..Len(r) : t[o + 5 + n] = r[n]
  <2>1. Puts(S, v, a, b, i, Times, s, r, t, o)
    BY <1>4, <1>5, <1>6, <1>7 DEF Puts
  <2> QED BY ONLY <2>1, FivePut
<1>9. o \in {0, 1} /\ (o = 0 <=> d.form = "v1") /\ \A n \in 1..o : v[n] = c0
  BY <1>3, <1>7
<1>10. IsSeq(t)
  BY <1>8 DEF IsSeq
<1>11. Five(t, o, d)
  BY <1>2, <1>8, <1>9 DEF Five, i, s
<1>12. ASSUME d.form # "keyless" PROVE KeyBehind(t, o, d) /\ Len(x) \in Nat
  <2>1. Len(x) \in Nat /\ Len(r) = 1 + Len(x)
    BY <1>5, <1>6, <1>12
  <2>2. t[o + 6] = r[1] /\ Len(t) = o + 6 + Len(x)
    <3>1. 1 \in 1..Len(r) /\ o + 5 + 1 = o + 6
      BY <1>9, <2>1
    <3> QED BY <1>8, <1>9, <2>1, <3>1
  <2>3. ASSUME NEW n \in 1..Len(x) PROVE t[o + 6 + n] = x[n]
    <3>1. 1 + n \in 1..Len(r) /\ o + 5 + (1 + n) = o + 6 + n
      BY <1>9, <2>1
    <3>2. t[o + 5 + (1 + n)] = r[1 + n]
      BY <1>8, <3>1
    <3> QED BY <1>6, <1>12, <3>1, <3>2
  <2> QED BY <1>6, <1>12, <2>1, <2>2, <2>3 DEF KeyBehind, x, k
<1>13. d.form = "keyless" => Len(t) = o + 5
  BY <1>6, <1>8, <1>9
<1> QED BY <1>9, <1>10, <1>11, <1>12, <1>13 DEF t, x

LEMMA SeqIsSeq ==
    ASSUME NEW S, NEW s \in Seq(S)
    PROVE  IsSeq(s)
<1> DEFINE T == {s[j] : j \in DOMAIN s}
<1>1. Len(s) \in Nat /\ DOMAIN s = 1..Len(s) /\ s = [i \in 1..Len(s) |-> s[i]]
  OBVIOUS
<1>2. \A i \in 1..Len(s) : s[i] \in T
  BY <1>1
<1> HIDE DEF T
<1>3. s \in Seq(T)
  BY ONLY <1>1, <1>2
<1> QED BY <1>3 DEF IsSeq, T

LEMMA EncodedIs ==
    ASSUME NEW d, NEW c, c = Encoded(d).val
    PROVE  /\ Encoded(d).tag = "SEQUENCE" /\ IsSeq(c) /\ Len(c) = IF d.form = "unsigned" THEN 2 ELSE 3
           /\ c[1] = Seq1(Tbs(d)) /\ c[2] = Seq1(<<E("OID", d.sigalg)>>)
           /\ d.form # "unsigned" => c[3] = E("BITSTRING", d.signer)
<1> DEFINE a == Seq1(Tbs(d))
           b == Seq1(<<E("OID", d.sigalg)>>)
           s == E("BITSTRING", d.signer)
           S == {a, b, s}
           p == <<a, b>>
           q == IF d.form = "unsigned" THEN <<>> ELSE <<s>>
<1>1. Encoded(d).tag = "SEQUENCE" /\ c = p \o q
  BY DEF Encoded, Seq1, E
<1> HIDE DEF a, b, s
<1>2. p \in Seq(S) /\ q \in Seq(S) /\ Len(p) = 2 /\ p[1] = a /\ p[2] = b
      /\ Len(q) = (IF d.form = "unsigned" THEN 0 ELSE 1) /\ (d.form # "unsigned" => q[1] = s)
  <2>1. p \in Seq(S) /\ Len(p) = 2 /\ p[1] = a /\ p[2] = b
    OBVIOUS
  <2>2. <<>> \in Seq(S) /\ Len(<<>>) = 0 /\ <<s>> \in Seq(S) /\ Len(<<s>>) = 1 /\ <<s>>[1] = s
    OBVIOUS
  <2>3. CASE d.form = "unsigned"
    BY <2>1, <2>2, <2>3
  <2>4. CASE d.form # "unsigned"
    BY <2>1, <2>2, <2>4
  <2> QED BY <2>3, <2>4
<1> HIDE DEF p, q, S
<1>3. /\ p \o q \in Seq(S) /\ Len(p \o q) = Len(p) + Len(q)
      /\ \A i \in 1..Len(p) : (p \o q)[i] = p[i]
      /\ \A i \in 1..Len(q) : (p \o q)[Len(p) + i] = q[i]
  BY ONLY <1>2, Glued
<1>4. IsSeq(c)
  BY ONLY <1>1, <1>3, SeqIsSeq
<1>5. Len(c) = (IF d.form = "unsigned" THEN 2 ELSE 3) /\ c[1] = a /\ c[2] = b
  BY <1>1, <1>2, <1>3
<1>6. d.form # "unsigned" => c[3] = s
  BY <1>1, <1>2, <1>3
<1> QED BY <1>1, <1>4, <1>5, <1>6 DEF a, b, s

LEMMA ExtensionsAtIs ==
    ASSUME NEW d, NEW t, NEW o \in {0, 1}, IsSeq(t), Five(t, o, d), KeyBehind(t, o, d)
    PROVE  ExtensionsAt(t) = CASE d.form \in {"v1", "broken"} -> 0
                               [] d.form = "ids" -> o + 8
                               [] OTHER -> o + 7
<1> DEFINE x == Extensions(d)
           at == {i \in DOMAIN t : IsExtensions(t[i]) /\ \A j \in 1..i : ~FALSE}
<1>1. \A i \in 1..o + 6 : t[i].tag # "CTX3"
  <2>1. \A i \in 1..o : t[i].tag # "CTX3"
    BY DEF Five
  <2>2. /\ t[o + 1].tag # "CTX3" /\ t[o + 2].tag # "CTX3" /\ t[o + 3].tag # "CTX3"
        /\ t[o + 4].tag # "CTX3" /\ t[o + 5].tag # "CTX3" /\ t[o + 6].tag # "CTX3"
    BY DEF Five, KeyBehind, NameOf, Times, Spki, Seq1, E
  <2> QED BY <2>1, <2>2
<1>2. Len(t) = o + 6 + Len(x) /\ (\A k \in 1..Len(x) : t[o + 6 + k] = x[k]) /\ DOMAIN t = 1..Len(t)
  BY DEF KeyBehind, IsSeq
<1>3. ASSUME d.form \in {"v1", "broken"} PROVE ExtensionsAt(t) = 0
  <2>1. x = <<>> \/ x = <<E("BROKEN", <<>>)>>
    BY <1>3, ExtensionsAre
  <2>2. \A k \in 1..Len(x) : x[k].tag # "CTX3"
    BY <2>1 DEF E
  <2>3. Len(x) \in Nat
    BY <2>1
  <2> HIDE DEF x
  <2>4. ASSUME NEW i \in DOMAIN t PROVE t[i].tag # "CTX3"
    <3>1. CASE i <= o + 6
      BY <1>1, <1>2, <2>3, <3>1
    <3>2. CASE i > o + 6
      <4>1. i - o - 6 \in 1..Len(x) /\ i = o + 6 + (i - o - 6)
        BY <1>2, <2>3, <3>2
      <4> QED BY <1>2, <2>2, <4>1
    <3> QED BY <1>2, <2>3, <3>1, <3>2
  <2>5. at = {}
    BY <2>4 DEF IsExtensions
  <2> QED BY <2>5 DEF ExtensionsAt, FirstWith
<1>4. ASSUME d.form = "ids" PROVE ExtensionsAt(t) = o + 8
  <2>1. Len(x) = 2 /\ x[1].tag # "CTX3" /\ x[2].tag = "CTX3"
    <3>1. x = <<E("CTX1", <<>>), E("CTX3", <<Seq1(Inner(d))>>)>>
      BY <1>4, ExtensionsAre
    <3> QED BY <3>1 DEF E
  <2> HIDE DEF x
  <2>2. t[o + 7].tag # "CTX3" /\ t[o + 8].tag = "CTX3" /\ DOMAIN t = 1..o + 8
    BY <1>2, <2>1
  <2>3. at = {o + 8}
    BY <1>1, <2>2 DEF IsExtensions
  <2>4. Min(at) = o + 8
    BY <2>3 DEF Min
  <2> QED BY <2>3, <2>4 DEF ExtensionsAt, FirstWith
<1>5. ASSUME d.form \notin {"v1", "broken", "ids"} PROVE ExtensionsAt(t) = o + 7
  <2>1. Len(x) = 1 /\ x[1].tag = "CTX3"
    <3>1. x = <<E("CTX3", <<Seq1(Inner(d))>>)>>
      BY <1>5, ExtensionsAre
    <3> QED BY <3>1 DEF E
  <2> HIDE DEF x
  <2>2. t[o + 7].tag = "CTX3" /\ DOMAIN t = 1..o + 7
    BY <1>2, <2>1
  <2>3. at = {o + 7}
    BY <1>1, <2>2 DEF IsExtensions
  <2>4. Min(at) = o + 7
    BY <2>3 DEF Min
  <2> QED BY <2>3, <2>4 DEF ExtensionsAt, FirstWith
<1> QED BY <1>3, <1>4, <1>5

LEMMA FailureIs ==
    ASSUME NEW der, NEW c, NEW t, NEW o, NEW ext
    PROVE  FirstFailure(der, c, t, o, ext) = 6 <=>
             /\ FrontIsThere(der, c, t, o) /\ DatesAreThere(t, o) /\ KeyIsThere(t, o)
             /\ ExtensionsAreRight(t, o, ext) /\ AlgorithmIsThere(c)
<1> DEFINE a == FrontIsThere(der, c, t, o)
           b == DatesAreThere(t, o)
           k == KeyIsThere(t, o)
           x == ExtensionsAreRight(t, o, ext)
           s == AlgorithmIsThere(c)
           F == {n \in 1..5 : \/ n = 1 /\ ~a
                              \/ n = 2 /\ ~b
                              \/ n = 3 /\ ~k
                              \/ n = 4 /\ ~x
                              \/ n = 5 /\ ~s}
<1>1. FirstFailure(der, c, t, o, ext) = Min({6} \cup F)
  BY DEF FirstFailure
<1> HIDE DEF a, b, k, x, s
<1>2. /\ 1 \in F <=> ~a
      /\ 2 \in F <=> ~b
      /\ 3 \in F <=> ~k
      /\ 4 \in F <=> ~x
      /\ 5 \in F <=> ~s
  OBVIOUS
<1>3. F \subseteq 1..5
  OBVIOUS
<1> HIDE DEF F
<1>4. CASE F = {}
  <2>1. {6} \cup F = {6}
    BY <1>4
  <2>2. Min({6} \cup F) = 6
    BY <2>1 DEF Min
  <2>3. a /\ b /\ k /\ x /\ s
    <3>1. 1 \notin F /\ 2 \notin F /\ 3 \notin F /\ 4 \notin F /\ 5 \notin F
      BY <1>4
    <3> QED BY <1>2, <3>1, Zenon
  <2> QED BY <1>1, <2>2, <2>3 DEF a, b, k, x, s
<1>5. CASE F # {}
  <2>1. \E m \in F : \A n \in F : m <= n
    <3>1. CASE 1 \in F
      BY <1>3, <3>1
    <3>2. CASE 1 \notin F /\ 2 \in F
      BY <1>3, <3>2
    <3>3. CASE 1 \notin F /\ 2 \notin F /\ 3 \in F
      BY <1>3, <3>3
    <3>4. CASE 1 \notin F /\ 2 \notin F /\ 3 \notin F /\ 4 \in F
      BY <1>3, <3>4
    <3>5. CASE 1 \notin F /\ 2 \notin F /\ 3 \notin F /\ 4 \notin F
      <4>1. PICK n \in F : n \in 1..5
        BY <1>3, <1>5
      <4>3. \A m \in F : m = 5
        BY <1>3, <3>5
      <4> QED BY <4>1, <4>3
    <3> QED BY <3>1, <3>2, <3>3, <3>4, <3>5
  <2>2. PICK m \in {6} \cup F : m < 6 /\ \A n \in {6} \cup F : m <= n
    BY <1>3, <2>1
  <2>3. Min({6} \cup F) # 6
    <3>1. Min({6} \cup F) <= m
      BY <2>2 DEF Min
    <3> QED BY <1>3, <2>2, <3>1
  <2>4. ~(a /\ b /\ k /\ x /\ s)
    <3>1. PICK n \in F : n \in 1..5
      BY <1>3, <1>5
    <3>2. 1 \in F \/ 2 \in F \/ 3 \in F \/ 4 \in F \/ 5 \in F
      BY <3>1
    <3> QED BY <1>2, <3>2, Zenon
  <2> QED BY <1>1, <2>3, <2>4 DEF a, b, k, x, s
<1> QED BY <1>4, <1>5 DEF a, b, k, x, s

\* What the kernel makes of a certificate that it does not refuse.
Refused(d) == d.form \in {"keyless", "broken"}
KeyRead(d) == IF d.alg = "RSA" THEN d.key ELSE "none"
SigRead(d) == IF d.form = "unsigned" THEN "none" ELSE d.signer

LEMMA ChecksAre ==
    ASSUME NEW d, d.form \in Forms, NEW t, t = Tbs(d), NEW o, o = Len(Version(d)), NEW c, c = Encoded(d).val
    PROVE  FirstFailure(Encoded(d), c, t, o, ExtensionsAt(t)) = 6 <=> ~Refused(d)
<1> DEFINE der == Encoded(d)
           ext == ExtensionsAt(t)
<1>1. /\ o \in {0, 1} /\ (o = 0 <=> d.form = "v1") /\ IsSeq(t) /\ Five(t, o, d)
      /\ d.form = "keyless" => Len(t) = o + 5
      /\ d.form # "keyless" => KeyBehind(t, o, d) /\ Len(Extensions(d)) \in Nat
  BY TbsIs
<1>2. der.tag = "SEQUENCE" /\ IsSeq(c) /\ Len(c) \in {2, 3} /\ c[1] = Seq1(t) /\ c[2] = Seq1(<<E("OID", d.sigalg)>>)
  BY EncodedIs
<1>3. DOMAIN t = 1..Len(t) /\ DOMAIN c = 1..Len(c) /\ Len(t) \in Nat /\ Len(t) >= o + 5
  BY <1>1, <1>2 DEF IsSeq, KeyBehind
<1>4. FrontIsThere(der, c, t, o)
  <2>1. t[o + 3].tag = "SEQUENCE" /\ c[1].tag = "SEQUENCE"
    BY <1>1, <1>2 DEF Five, NameOf, Seq1, E
  <2>2. t[o + 1].tag = "INTEGER" /\ t[o + 2].tag = "SEQUENCE"
    BY <1>1 DEF Five
  <2>3. 1 \in DOMAIN c /\ o + 1 \in DOMAIN t /\ o + 2 \in DOMAIN t /\ o + 3 \in DOMAIN t
    <3>1. DOMAIN c = 1..Len(c) /\ Len(c) \in {2, 3} /\ DOMAIN t = 1..Len(t) /\ Len(t) \in Nat /\ Len(t) >= o + 5
          /\ o \in {0, 1}
      BY ONLY <1>1, <1>2, <1>3
    <3> QED BY ONLY <3>1
  <2> HIDE DEF der
  <2> QED BY <1>2, <2>1, <2>2, <2>3 DEF FrontIsThere, Expect, Reads
<1>5. DatesAreThere(t, o)
  <2>1. /\ t[o + 4] = Times /\ t[o + 4].tag = "SEQUENCE" /\ t[o + 5].tag = "SEQUENCE"
    BY <1>1 DEF Five, NameOf, Times, Seq1, E
  <2>2. Times.val[1].tag = "UTCTIME" /\ Times.val[2].tag = "UTCTIME" /\ DOMAIN Times.val = {1, 2}
    BY DEF Times, Seq1, E
  <2>3. o + 4 \in DOMAIN t /\ o + 5 \in DOMAIN t
    <3>1. DOMAIN t = 1..Len(t) /\ Len(t) \in Nat /\ Len(t) >= o + 5 /\ o \in {0, 1}
      BY ONLY <1>1, <1>3
    <3> QED BY ONLY <3>1
  <2> QED BY <2>1, <2>2, <2>3 DEF DatesAreThere, Expect, Reads
<1>6. AlgorithmIsThere(c)
  <2>1. c[2].tag = "SEQUENCE" /\ DOMAIN c[2].val = {1} /\ c[2].val[1].tag = "OID"
    BY <1>2 DEF Seq1, E
  <2> QED BY <1>2, <1>3, <2>1 DEF AlgorithmIsThere, Expect, Reads
<1>7. CASE d.form = "keyless"
  <2>1. o + 6 \notin DOMAIN t
    BY <1>1, <1>3, <1>7
  <2>2. ~KeyIsThere(t, o)
    BY <2>1 DEF KeyIsThere, Expect, Reads
  <2> QED BY <1>7, <2>2, FailureIs DEF Refused
<1>8. CASE d.form # "keyless"
  <2> DEFINE x == Extensions(d)
  <2>1. /\ KeyBehind(t, o, d) /\ Len(x) \in Nat /\ Len(t) = o + 6 + Len(x) /\ t[o + 6] = Spki(d)
        /\ \A k \in 1..Len(x) : t[o + 6 + k] = x[k]
    BY <1>1, <1>8 DEF KeyBehind
  <2>2. KeyIsThere(t, o)
    <3>1. /\ Spki(d).tag = "SEQUENCE" /\ DOMAIN Spki(d).val = {1, 2} /\ Spki(d).val[1].tag = "SEQUENCE"
          /\ DOMAIN Spki(d).val[1].val = {1} /\ Spki(d).val[1].val[1].tag = "OID"
      BY DEF Spki, Seq1, E
    <3> QED BY <1>1, <1>3, <2>1, <3>1 DEF KeyIsThere, Expect, Reads
  <2>3. ExtensionsAreRight(t, o, ext) <=> d.form # "broken"
    <3>1. CASE d.form = "v1"
      <4>1. x = <<>> /\ ext = 0
        BY <1>1, <2>1, <3>1, ExtensionsAre, ExtensionsAtIs
      <4>2. Len(x) = 0
        BY <4>1
      <4> QED BY <1>1, <2>1, <3>1, <4>1, <4>2 DEF ExtensionsAreRight
    <3>2. CASE d.form = "broken"
      <4>1. x = <<E("BROKEN", <<>>)>> /\ ext = 0
        BY <1>1, <2>1, <3>2, ExtensionsAre, ExtensionsAtIs
      <4>2. Len(x) = 1 /\ x[1].tag = "BROKEN"
        BY <4>1 DEF E
      <4>3. t[o + 7].tag = "BROKEN" /\ Len(t) = o + 7
        BY <1>1, <2>1, <4>2
      <4> QED BY <1>1, <3>2, <4>1, <4>3 DEF ExtensionsAreRight
    <3>3. CASE d.form = "ids"
      <4>1. x = <<E("CTX1", <<>>), E("CTX3", <<Seq1(Inner(d))>>)>> /\ ext = o + 8
        BY <1>1, <2>1, <3>3, ExtensionsAre, ExtensionsAtIs
      <4>2. Len(x) = 2 /\ x[1].tag # "BROKEN" /\ x[2].tag # "BROKEN" /\ Expect(x[2].val, 1, "SEQUENCE")
        BY <4>1 DEF E, Seq1, Expect, Reads
      <4>3. t[o + 7].tag # "BROKEN" /\ t[o + 8].tag # "BROKEN" /\ Expect(t[o + 8].val, 1, "SEQUENCE")
        BY <1>1, <2>1, <4>2
      <4> QED BY <1>1, <3>3, <4>1, <4>3 DEF ExtensionsAreRight
    <3>4. CASE d.form \notin {"v1", "broken", "ids"}
      <4>1. x = <<E("CTX3", <<Seq1(Inner(d))>>)>> /\ ext = o + 7
        BY <1>1, <2>1, <3>4, ExtensionsAre, ExtensionsAtIs
      <4>2. Len(x) = 1 /\ x[1].tag # "BROKEN" /\ Expect(x[1].val, 1, "SEQUENCE")
        BY <4>1 DEF E, Seq1, Expect, Reads
      <4>3. t[o + 7].tag # "BROKEN" /\ Expect(t[o + 7].val, 1, "SEQUENCE")
        BY <1>1, <2>1, <4>2
      <4> QED BY <1>1, <3>4, <4>1, <4>3 DEF ExtensionsAreRight
    <3> QED BY <3>1, <3>2, <3>3, <3>4
  <2> HIDE DEF ext
  <2>4. FirstFailure(der, c, t, o, ext) = 6 <=> d.form # "broken"
    BY <1>4, <1>5, <1>6, <2>2, <2>3, FailureIs
  <2> QED BY <1>8, <2>4 DEF Refused, ext
<1> QED BY <1>7, <1>8

LEMMA ParseIs ==
    ASSUME NEW d, d.form \in Forms, IsSeq(d.sans)
    PROVE  /\ Parse(d).ok <=> ~Refused(d)
           /\ ~Refused(d) =>
                /\ Parse(d).issuer = d.issuer /\ Parse(d).subject = d.subject
                /\ Parse(d).pkey_alg = KnownKeyAlg(d.alg) /\ Parse(d).key = KeyRead(d)
                /\ Parse(d).sig_alg = KnownSigAlg(d.sigalg) /\ Parse(d).sig = SigRead(d)
                /\ Parse(d).sans = IF d.form = "v1" THEN <<>> ELSE Sans(d)
<1> DEFINE der == Encoded(d)
           c == der.val
           t == Tbs(d)
           o == Len(Version(d))
           ext == ExtensionsAt(t)
           fails == FirstFailure(der, c, t, o, ext)
           p == Filled(c, t, o, ext, fails)
<1>1. /\ o \in {0, 1} /\ (o = 0 <=> d.form = "v1") /\ IsSeq(t) /\ Five(t, o, d)
      /\ d.form = "keyless" => Len(t) = o + 5
      /\ d.form # "keyless" => KeyBehind(t, o, d) /\ Len(Extensions(d)) \in Nat
  BY TbsIs
<1>2. /\ IsSeq(c) /\ Len(c) = IF d.form = "unsigned" THEN 2 ELSE 3
      /\ c[1] = Seq1(t) /\ c[2] = Seq1(<<E("OID", d.sigalg)>>)
      /\ d.form # "unsigned" => c[3] = E("BITSTRING", d.signer)
  BY EncodedIs
<1>3. fails = 6 <=> ~Refused(d)
  BY ChecksAre
<1>4. Parse(d) = p
  <2>1. c # <<>> /\ c[1].val = t
    BY <1>2 DEF Seq1, E
  <2>2. (IF Len(t) > 0 /\ t[1].tag = "CTX0" THEN 1 ELSE 0) = o
    <3>1. CASE o = 0
      BY <1>1, <3>1 DEF Five
    <3>2. CASE o = 1
      <4>1. Len(t) > 0
        <5>1. Len(t) >= o + 5
          BY <1>1 DEF KeyBehind
        <5> QED BY <3>2, <5>1
      <4> QED BY <3>2, <4>1, <1>1 DEF Five
    <3> QED BY <1>1, <3>1, <3>2
  <2>3. ParseVersion(der, c, t) = ParseBody(der, c, t, o)
    BY <2>2 DEF ParseVersion
  <2>4. Parse(d) = ParseVersion(der, c, t)
    BY <2>1 DEF Parse, ParseDer
  <2> QED BY <2>3, <2>4 DEF ParseBody
<1>5. p.ok <=> ~Refused(d)
  BY <1>3 DEF Filled
<1>6. ASSUME ~Refused(d)
      PROVE  /\ p.issuer = d.issuer /\ p.subject = d.subject
             /\ p.pkey_alg = KnownKeyAlg(d.alg) /\ p.key = KeyRead(d)
             /\ p.sig_alg = KnownSigAlg(d.sigalg) /\ p.sig = SigRead(d)
             /\ p.sans = IF d.form = "v1" THEN <<>> ELSE Sans(d)
  <2>1. fails = 6 /\ KeyBehind(t, o, d) /\ Len(Extensions(d)) \in Nat /\ d.form # "keyless" /\ d.form # "broken"
    BY <1>1, <1>3, <1>6 DEF Refused
  <2>2. /\ p.issuer = CommonName(t[o + 3].val) /\ p.subject = CommonName(t[o + 5].val)
        /\ p.pkey_alg = KnownKeyAlg(t[o + 6].val[1].val[1].val)
        /\ p.key = KeyOf(t[o + 6].val, KnownKeyAlg(t[o + 6].val[1].val[1].val))
        /\ p.sans = (IF ext > o + 6 THEN AltNames(t[ext].val[1].val) ELSE <<>>)
        /\ p.sig_alg = KnownSigAlg(c[2].val[1].val)
        /\ p.sig = (IF Expect(c, 3, "BITSTRING") THEN c[3].val ELSE "none")
    BY <2>1 DEF Filled
  <2> HIDE DEF p
  <2>3. t[o + 3].val = Rdns(d.issuer) /\ t[o + 5].val = Rdns(d.subject)
    <3>1. NameOf(d.issuer) = Seq1(Rdns(d.issuer)) /\ NameOf(d.subject) = Seq1(Rdns(d.subject))
      BY DEF NameOf, Rdns, Other, Common
    <3>2. t[o + 3] = Seq1(Rdns(d.issuer)) /\ t[o + 5] = Seq1(Rdns(d.subject))
      BY <1>1, <3>1 DEF Five
    <3> QED BY <3>2 DEF Seq1, E
  <2>4. p.issuer = d.issuer /\ p.subject = d.subject
    BY <2>2, <2>3, CommonNameIs
  <2>5. /\ t[o + 6].val[1].val[1].val = d.alg /\ DOMAIN t[o + 6].val = {1, 2}
        /\ t[o + 6].val[2].tag = "BITSTRING" /\ t[o + 6].val[2].val = d.key
    BY <2>1 DEF KeyBehind, Spki, Seq1, E
  <2>6. p.pkey_alg = KnownKeyAlg(d.alg) /\ p.key = KeyRead(d)
    BY <2>2, <2>5 DEF KeyOf, KeyRead, KnownKeyAlg, Expect, Reads
  <2>7. p.sig_alg = KnownSigAlg(d.sigalg)
    BY <1>2, <2>2 DEF Seq1, E
  <2>8. p.sig = SigRead(d)
    <3>1. DOMAIN c = 1..Len(c)
      BY <1>2 DEF IsSeq
    <3>2. CASE d.form = "unsigned"
      BY <1>2, <2>2, <3>1, <3>2 DEF Expect, Reads, SigRead
    <3>3. CASE d.form # "unsigned"
      <4>1. c[3].tag = "BITSTRING" /\ c[3].val = d.signer /\ 3 \in DOMAIN c
        BY <1>2, <3>1, <3>3 DEF E
      <4> QED BY <2>2, <3>3, <4>1 DEF Expect, Reads, SigRead
    <3> QED BY <3>2, <3>3
  <2>9. p.sans = IF d.form = "v1" THEN <<>> ELSE Sans(d)
    <3>1. CASE d.form = "v1"
      <4>1. ext = 0
        BY <1>1, <2>1, <3>1, ExtensionsAtIs
      <4> QED BY <1>1, <2>2, <3>1, <4>1
    <3>2. ASSUME d.form # "v1" PROVE p.sans = Sans(d)
      <4>1. ext > o + 6 /\ t[ext] = E("CTX3", <<Seq1(Inner(d))>>)
        <5> DEFINE x == Extensions(d)
        <5>1. CASE d.form = "ids"
          <6>1. x = <<E("CTX1", <<>>), E("CTX3", <<Seq1(Inner(d))>>)>> /\ ext = o + 8
            BY <1>1, <2>1, <5>1, ExtensionsAre, ExtensionsAtIs
          <6>2. Len(x) = 2 /\ x[2] = E("CTX3", <<Seq1(Inner(d))>>)
            BY <6>1
          <6> QED BY <1>1, <2>1, <6>1, <6>2 DEF KeyBehind
        <5>2. CASE d.form # "ids"
          <6>1. x = <<E("CTX3", <<Seq1(Inner(d))>>)>> /\ ext = o + 7
            BY <1>1, <2>1, <3>2, <5>2, ExtensionsAre, ExtensionsAtIs
          <6>2. Len(x) = 1 /\ x[1] = E("CTX3", <<Seq1(Inner(d))>>)
            BY <6>1
          <6> QED BY <1>1, <2>1, <6>1, <6>2 DEF KeyBehind
        <5> QED BY <5>1, <5>2
      <4>2. t[ext].val[1].val = Inner(d)
        BY <4>1 DEF E, Seq1
      <4>3. AltNames(Inner(d)) = Sans(d)
        BY AltNamesAre DEF Inner
      <4> HIDE DEF ext
      <4> QED BY <2>2, <4>1, <4>2, <4>3
    <3> QED BY <3>1, <3>2
  <2> QED BY <2>4, <2>6, <2>7, <2>8, <2>9
<1> HIDE DEF p
<1> QED BY <1>4, <1>5, <1>6

----------------------------------------------------------------------------
(* Chains and names.                                                       *)

Valid(d) == d \in Known /\ ~Refused(d)

LEMMA WholeIs ==
    ASSUME NEW d, Valid(d)
    PROVE  /\ Parsed[d] = Parse(d) /\ Parse(d).ok
           /\ d.key # "none" /\ IsSeq(d.subject) /\ IsSeq(d.sans)
           /\ \A i \in DOMAIN d.sans : IsSeq(d.sans[i])
           /\ Parse(d).issuer = d.issuer /\ Parse(d).subject = d.subject
           /\ Parse(d).pkey_alg = KnownKeyAlg(d.alg) /\ Parse(d).key = KeyRead(d)
           /\ Parse(d).sig_alg = KnownSigAlg(d.sigalg) /\ Parse(d).sig = SigRead(d)
           /\ Parse(d).sans = IF d.form = "v1" THEN <<>> ELSE Sans(d)
<1>1. d \in Known /\ ~Refused(d)
  BY DEF Valid
<1>2. /\ d.form \in Forms /\ d.key # "none" /\ IsSeq(d.subject) /\ IsSeq(d.sans)
      /\ \A i \in DOMAIN d.sans : IsSeq(d.sans[i])
  BY <1>1, CertsAssumption
<1>3. Parsed[d] = Parse(d)
  BY <1>1 DEF Parsed
<1> QED BY <1>1, <1>2, <1>3, ParseIs

\* A signature is verified exactly if it was made with the other's RSA key.
LEMMA LinkIs ==
    ASSUME NEW a, NEW b, Valid(a), Valid(b)
    PROVE  VerifySignature(Parsed[a], Parsed[b]) <=> SignedBy(a, b)
<1>1. Parsed[a].sig_alg = KnownSigAlg(a.sigalg) /\ Parsed[a].sig = SigRead(a)
  BY WholeIs
<1>2. Parsed[b].pkey_alg = KnownKeyAlg(b.alg) /\ Parsed[b].key = KeyRead(b) /\ b.key # "none"
  BY WholeIs
<1>3. KnownSigAlg(a.sigalg) \in {"SHA256_RSA", "RSA_PSS"} <=> a.sigalg \in {"SHA256_RSA", "RSA_PSS"}
  BY DEF KnownSigAlg
<1>4. KnownKeyAlg(b.alg) = "RSA" <=> b.alg = "RSA"
  BY DEF KnownKeyAlg
<1>5. KnownKeyAlg(b.alg) = "EC" => KeyRead(b) = "none"
  BY DEF KnownKeyAlg, KeyRead
<1>6. b.alg = "RSA" => KeyRead(b) = b.key
  BY DEF KeyRead
<1>7. SigRead(a) = b.key <=> a.form # "unsigned" /\ a.signer = b.key
  BY <1>2 DEF SigRead
<1> QED BY <1>1, <1>2, <1>3, <1>4, <1>5, <1>6, <1>7 DEF VerifySignature, SignedBy

StoreOk == store \in Seq({Parsed[a] : a \in {b \in Anchors : Valid(b)}})

\* The first anchor of a name.
LEMMA AnchorIs ==
    ASSUME StoreOk, NEW name, name # <<>>
    PROVE  \/ Anchor(name) = NoCert /\ \A i \in DOMAIN store : ~SameName(store[i].subject, name)
           \/ \E i \in DOMAIN store : /\ Anchor(name) = store[i] /\ SameName(store[i].subject, name)
                                      /\ \A j \in 1..i - 1 : ~SameName(store[j].subject, name)
<1> DEFINE at == {i \in DOMAIN store : SameName(store[i].subject, name)}
<1>1. DOMAIN store = 1..Len(store) /\ Len(store) \in Nat
  BY DEF StoreOk
<1>2. CASE at = {}
  BY <1>2 DEF Anchor
<1>3. CASE at # {}
  <2>1. at \in SUBSET Nat
    BY <1>1
  <2>2. \E x \in at : \A y \in at : x <= y
    BY <1>3, <2>1, Lowest
  <2>3. Min(at) \in at /\ \A y \in at : Min(at) <= y
    BY <2>2 DEF Min
  <2>4. Anchor(name) = store[Min(at)]
    BY <1>3 DEF Anchor
  <2>5. ASSUME NEW j \in 1..Min(at) - 1 PROVE ~SameName(store[j].subject, name)
    <3>1. Min(at) \in 1..Len(store)
      BY <1>1, <2>3
    <3>2. j \in DOMAIN store /\ ~(Min(at) <= j)
      BY <1>1, <3>1
    <3> QED BY <2>3, <3>2
  <2> QED BY <2>3, <2>4, <2>5
<1> QED BY <1>2, <1>3

LEMMA NamesApart ==
    ASSUME StoreOk, NEW name, NEW i \in DOMAIN store, NEW j \in DOMAIN store,
           SameName(store[i].subject, name), \A k \in 1..i - 1 : ~SameName(store[k].subject, name),
           SameName(store[j].subject, name), \A k \in 1..j - 1 : ~SameName(store[k].subject, name)
    PROVE  i = j
<1>1. i \in Nat /\ j \in Nat /\ i >= 1 /\ j >= 1
  BY DEF StoreOk
<1>2. ~(i < j) /\ ~(j < i)
  BY <1>1
<1> QED BY <1>1, <1>2

\* What process_certificate_msg has parsed of the list that is shown.
Certs(list) == [i \in DOMAIN Taken(list) |-> Parsed[list[i].cert]]
Sound(list) == list \in Lists /\ \A i \in DOMAIN Taken(list) : ~Spoilt(list[i])

LEMMA TakenIs ==
    ASSUME NEW list, Sound(list)
    PROVE  /\ Len(Taken(list)) \in Nat /\ DOMAIN Taken(list) = 1..Len(Taken(list))
           /\ Len(Taken(list)) = 0 <=> list = <<>>
           /\ \A i \in 1..Len(Taken(list)) : Taken(list)[i] = list[i] /\ Valid(list[i].cert)
<1> DEFINE n == Min({Len(list), CHAIN_MAX})
<1>1. CHAIN_MAX \in Nat \ {0} /\ IsSeq(list)
  BY CertsAssumption DEF Sound
<1>2. Len(list) \in Nat /\ DOMAIN list = 1..Len(list) /\ (Len(list) = 0 <=> list = <<>>)
  BY <1>1 DEF IsSeq
<1>3. n \in Nat /\ n <= Len(list) /\ (n = 0 <=> Len(list) = 0)
  <2>1. Len(list) \in Int /\ CHAIN_MAX \in Int
    BY <1>1, <1>2
  <2>2. n \in {Len(list), CHAIN_MAX} /\ n <= Len(list)
    BY <2>1, LessOf
  <2> QED BY <1>1, <1>2, <2>2
<1> HIDE DEF n
<1>4. Taken(list) = SubSeq(list, 1, n)
  BY DEF Taken, n
<1>5. Len(Taken(list)) = n /\ DOMAIN Taken(list) = 1..n /\ \A i \in 1..n : Taken(list)[i] = list[i]
  <2>1. list \in Seq({list[i] : i \in DOMAIN list})
    BY <1>1 DEF IsSeq
  <2> QED BY <1>2, <1>3, <1>4, <2>1
<1>6. ASSUME NEW i \in 1..n PROVE Valid(list[i].cert)
  <2>1. i \in DOMAIN list /\ i \in DOMAIN Taken(list)
    BY <1>2, <1>3, <1>5
  <2>2. list[i].cert \in Known
    BY <2>1 DEF Known, Sound
  <2>3. Parsed[list[i].cert].ok
    BY <2>1 DEF Sound, Spoilt
  <2>4. list[i].cert.form \in Forms /\ IsSeq(list[i].cert.sans)
    BY <2>2, CertsAssumption
  <2>5. Parse(list[i].cert).ok
    BY <2>2, <2>3 DEF Parsed
  <2> QED BY <2>2, <2>4, <2>5, ParseIs DEF Valid
<1> QED BY <1>2, <1>3, <1>5, <1>6

LEMMA LastLinkIs ==
    ASSUME StoreOk, NEW d, Valid(d)
    PROVE  VerifySignature(Parsed[d], Anchor(d.issuer)) <=>
             \E a \in Anchors :
                /\ SignedBy(d, a) /\ d.issuer # <<>> /\ SameName(a.subject, d.issuer)
                /\ \E i \in DOMAIN store :
                      /\ store[i] = Parsed[a]
                      /\ \A j \in 1..i - 1 : ~SameName(store[j].subject, d.issuer)
<1> DEFINE Right(a) == /\ SignedBy(d, a) /\ d.issuer # <<>> /\ SameName(a.subject, d.issuer)
                       /\ \E i \in DOMAIN store :
                             /\ store[i] = Parsed[a]
                             /\ \A j \in 1..i - 1 : ~SameName(store[j].subject, d.issuer)
<1>1. ASSUME d.issuer = <<>> PROVE Anchor(d.issuer) = NoCert
  BY <1>1 DEF Anchor
<1>2. \A i \in DOMAIN store : \E a \in Anchors : Valid(a) /\ store[i] = Parsed[a]
  BY DEF StoreOk
<1>3. \A a : Valid(a) => Parsed[a].subject = a.subject /\ (VerifySignature(Parsed[d], Parsed[a]) <=> SignedBy(d, a))
  BY WholeIs, LinkIs
<1>4. ASSUME VerifySignature(Parsed[d], Anchor(d.issuer)) PROVE \E a \in Anchors : Right(a)
  <2>1. Anchor(d.issuer) # NoCert
    BY <1>4 DEF VerifySignature, NoCert
  <2>2. d.issuer # <<>>
    BY <1>1, <2>1
  <2>3. PICK i \in DOMAIN store : /\ Anchor(d.issuer) = store[i] /\ SameName(store[i].subject, d.issuer)
                                  /\ \A j \in 1..i - 1 : ~SameName(store[j].subject, d.issuer)
    BY <2>1, <2>2, AnchorIs
  <2>4. PICK a \in Anchors : Valid(a) /\ store[i] = Parsed[a]
    BY <1>2
  <2>5. SignedBy(d, a) /\ SameName(a.subject, d.issuer)
    BY <1>3, <1>4, <2>3, <2>4
  <2> QED BY <2>2, <2>3, <2>4, <2>5
<1>5. ASSUME NEW a \in Anchors, Right(a) PROVE VerifySignature(Parsed[d], Anchor(d.issuer))
  <2>1. PICK i \in DOMAIN store : store[i] = Parsed[a] /\ \A j \in 1..i - 1 : ~SameName(store[j].subject, d.issuer)
    BY <1>5
  <2>2. SignedBy(d, a) /\ d.issuer # <<>> /\ SameName(a.subject, d.issuer)
    BY <1>5
  <2>3. PICK b \in Anchors : Valid(b) /\ Parsed[a] = Parsed[b]
    BY <1>2, <2>1
  <2>4. Valid(a)
    <3>1. Parsed[b].ok
      BY <2>3, WholeIs
    <3>2. a \in Known /\ a.form \in Forms /\ IsSeq(a.sans)
      BY CertsAssumption DEF Known
    <3>3. Parse(a).ok
      BY <2>3, <3>1, <3>2 DEF Parsed
    <3> QED BY <3>2, <3>3, ParseIs DEF Valid
  <2>5. SameName(store[i].subject, d.issuer)
    BY <1>3, <2>1, <2>2, <2>4
  <2>6. Anchor(d.issuer) = store[i]
    <3>1. PICK k \in DOMAIN store : /\ Anchor(d.issuer) = store[k] /\ SameName(store[k].subject, d.issuer)
                                    /\ \A j \in 1..k - 1 : ~SameName(store[j].subject, d.issuer)
      BY <2>2, <2>5, AnchorIs
    <3> QED BY <2>1, <2>5, <3>1, NamesApart
  <2> QED BY <1>3, <2>1, <2>2, <2>4, <2>6
<1> QED BY <1>4, <1>5

LEMMA ChainIs ==
    ASSUME StoreOk, NEW list, Sound(list)
    PROVE  WalkChain(Certs(list)) <=> ChainTo(list, SignedBy)
<1> DEFINE n == Len(Taken(list))
           certs == Certs(list)
           Anchored(d) == \E a \in Anchors :
                         /\ SignedBy(d, a) /\ d.issuer # <<>> /\ SameName(a.subject, d.issuer)
                         /\ \E i \in DOMAIN store :
                               /\ store[i] = Parsed[a]
                               /\ \A j \in 1..i - 1 : ~SameName(store[j].subject, d.issuer)
<1>1. n \in Nat /\ DOMAIN Taken(list) = 1..n /\ \A i \in 1..n : Taken(list)[i] = list[i] /\ Valid(list[i].cert)
  BY TakenIs
<1>2. certs = [i \in 1..n |-> Parsed[list[i].cert]]
  BY <1>1 DEF Certs
<1> HIDE DEF certs, n
<1>3. Len(certs) = n /\ (certs = <<>> <=> n = 0) /\ \A i \in 1..n : certs[i] = Parsed[list[i].cert]
  BY <1>1, <1>2
<1>4. \A i \in 1..n - 1 : VerifySignature(certs[i], certs[i + 1]) <=> SignedBy(list[i].cert, list[i + 1].cert)
  BY <1>1, <1>3, LinkIs
<1>5. ASSUME n > 0
      PROVE  VerifySignature(certs[n], Anchor(certs[n].issuer)) <=> Anchored(list[n].cert)
  <2>1. n \in 1..n
    BY <1>1, <1>5
  <2>2. Valid(list[n].cert) /\ certs[n] = Parsed[list[n].cert]
    BY <1>1, <1>3, <2>1
  <2>3. certs[n].issuer = list[n].cert.issuer
    BY <2>2, WholeIs
  <2> QED BY <2>2, <2>3, LastLinkIs
<1> HIDE DEF Anchored
<1>6. WalkChain(certs) <=> n > 0 /\ (\A i \in 1..n - 1 : SignedBy(list[i].cert, list[i + 1].cert)) /\ Anchored(list[n].cert)
  <2>1. WalkChain(certs) <=> /\ certs # <<>> /\ \A i \in 1..n - 1 : VerifySignature(certs[i], certs[i + 1])
                             /\ VerifySignature(certs[n], Anchor(certs[n].issuer))
    BY <1>3 DEF WalkChain
  <2>2. certs # <<>> <=> n > 0
    BY <1>1, <1>3
  <2> QED BY <1>4, <1>5, <2>1, <2>2
<1>7. ChainTo(list, SignedBy) <=>
         n > 0 /\ (\A i \in 1..n - 1 : SignedBy(list[i].cert, list[i + 1].cert)) /\ Anchored(list[n].cert)
  <2>1. \A i \in 1..n - 1 : Taken(list)[i] = list[i] /\ Taken(list)[i + 1] = list[i + 1]
    BY <1>1
  <2>2. n > 0 => Taken(list)[n] = list[n]
    BY <1>1
  <2>3. ChainTo(list, SignedBy) <=>
           /\ n > 0
           /\ \A i \in 1..n - 1 : SignedBy(Taken(list)[i].cert, Taken(list)[i + 1].cert)
           /\ Anchored(Taken(list)[n].cert)
    BY DEF ChainTo, Anchored, n
  <2> QED BY ONLY <2>1, <2>2, <2>3
<1> QED BY <1>6, <1>7 DEF certs

\* A name stands for a host exactly if the kernel takes it for that.
LEMMA CoversIs ==
    ASSUME NEW pat, NEW host, IsSeq(pat), IsSeq(host), host # <<>>
    PROVE  HostEq(pat, host) <=> Covers(pat, host)
<1>1. Len(pat) \in Nat /\ Len(host) \in Nat /\ Len(host) > 0
  BY DEF IsSeq
<1>2. CASE Len(pat) >= 2 /\ pat[1] = "*"
  <2>1. Len(Tail(pat)) = Len(pat) - 1 /\ Len(Tail(host)) = Len(host) - 1
    <3>1. pat \in Seq({pat[i] : i \in DOMAIN pat}) /\ host \in Seq({host[i] : i \in DOMAIN host}) /\ pat # <<>>
      BY <1>2 DEF IsSeq
    <3> QED BY <3>1, HeadTailProperties
  <2>2. SameName(Tail(pat), Tail(host)) => Len(pat) = Len(host)
    BY <1>1, <2>1 DEF SameName
  <2>3. SameName(pat, host) => Len(host) >= 2 /\ SameName(Tail(pat), Tail(host))
    <3>1. ASSUME SameName(pat, host) PROVE Len(host) >= 2 /\ SameName(Tail(pat), Tail(host))
      <4>1. Len(pat) = Len(host) /\ \A i \in DOMAIN pat : Small(pat[i]) = Small(host[i])
        BY <3>1 DEF SameName
      <4>2. /\ DOMAIN Tail(pat) = 1..Len(pat) - 1 /\ \A i \in 1..Len(pat) - 1 : Tail(pat)[i] = pat[i + 1]
            /\ \A i \in 1..Len(host) - 1 : Tail(host)[i] = host[i + 1]
        <5>1. pat \in Seq({pat[i] : i \in DOMAIN pat}) /\ host \in Seq({host[i] : i \in DOMAIN host}) /\ pat # <<>> /\ host # <<>>
          BY <1>2 DEF IsSeq
        <5> QED BY <5>1, HeadTailProperties
      <4>3. \A i \in 1..Len(pat) - 1 : Small(Tail(pat)[i]) = Small(Tail(host)[i])
        <5>1. \A i \in 1..Len(pat) - 1 : i + 1 \in DOMAIN pat
          BY DEF IsSeq
        <5> QED BY <4>1, <4>2, <5>1
      <4> QED BY <1>2, <2>1, <4>1, <4>2, <4>3 DEF SameName
    <3> QED BY <3>1
  <2> QED BY <1>1, <1>2, <2>2, <2>3 DEF HostEq, Covers
<1>3. CASE ~(Len(pat) >= 2 /\ pat[1] = "*")
  BY <1>1, <1>3 DEF HostEq, Covers
<1> QED BY <1>2, <1>3

SansOf(d) == IF d.form = "v1" THEN {} ELSE {d.sans[i] : i \in 1..Min({Len(d.sans), X509_SAN_MAX})}

LEMMA MatchIs ==
    ASSUME NEW d, Valid(d), NEW host, IsSeq(host), host # <<>>
    PROVE  HostnameMatches(Parsed[d], host) <=> \E pat \in SansOf(d) \cup {d.subject} : Covers(pat, host)
<1> DEFINE n == Min({Len(d.sans), X509_SAN_MAX})
           cert == Parsed[d]
<1>1. /\ cert.subject = d.subject /\ cert.sans = IF d.form = "v1" THEN <<>> ELSE Sans(d)
      /\ IsSeq(d.subject) /\ IsSeq(d.sans) /\ \A i \in DOMAIN d.sans : IsSeq(d.sans[i])
  BY WholeIs
<1>2. n \in Nat /\ n <= Len(d.sans) /\ DOMAIN d.sans = 1..Len(d.sans) /\ Len(d.sans) \in Nat
  <2>1. Len(d.sans) \in Nat /\ DOMAIN d.sans = 1..Len(d.sans) /\ X509_SAN_MAX \in Nat
    BY <1>1, CertsAssumption DEF IsSeq
  <2>2. Len(d.sans) \in Int /\ X509_SAN_MAX \in Int
    BY <2>1
  <2>3. n \in {Len(d.sans), X509_SAN_MAX} /\ n <= Len(d.sans)
    BY <2>2, LessOf
  <2> QED BY <2>1, <2>3
<1> HIDE DEF n, cert
<1>3. \A pat \in SansOf(d) \cup {d.subject} : IsSeq(pat) /\ (HostEq(pat, host) <=> Covers(pat, host))
  <2>1. \A i \in 1..n : i \in DOMAIN d.sans
    BY <1>2
  <2>2. \A pat \in SansOf(d) \cup {d.subject} : IsSeq(pat)
    BY <1>1, <2>1 DEF SansOf, n
  <2> QED BY <2>2, CoversIs
<1>4. (\E i \in DOMAIN cert.sans : HostEq(cert.sans[i], host)) <=> \E pat \in SansOf(d) : HostEq(pat, host)
  <2>1. CASE d.form = "v1"
    BY <1>1, <2>1 DEF SansOf
  <2>2. CASE d.form # "v1"
    <3>1. cert.sans = [i \in 1..n |-> d.sans[i]] /\ SansOf(d) = {d.sans[i] : i \in 1..n}
      BY <1>1, <2>2 DEF SansOf, Sans, n
    <3> QED BY <3>1
  <2> QED BY <2>1, <2>2
<1>5. cert.subject # <<>> /\ HostEq(cert.subject, host) <=> HostEq(d.subject, host)
  <2>1. d.subject = <<>> => ~Covers(d.subject, host)
    <3>1. Len(host) # 0 /\ Len(<<>>) = 0
      BY DEF IsSeq
    <3> QED BY <3>1 DEF Covers, SameName
  <2> QED BY <1>1, <1>3, <2>1
<1> QED BY <1>3, <1>4, <1>5 DEF HostnameMatches, cert

Conclusions == [host : Hosts \cup {<<>>}, saw : BOOLEAN, parse_ok : BOOLEAN, chain_len : Nat,
                self_sign_ok : BOOLEAN, chain_verified : BOOLEAN, match_ok : BOOLEAN]

\* What is concluded is about the last list that was read to its end: no message that
\* is given up before has changed it, and no anchor came or went since.
Concluded(list, c) ==
    /\ Sound(list) /\ c.host # <<>>
    /\ c.chain_verified <=> WalkChain(Certs(list))
    /\ list # <<>> => (c.match_ok <=> HostnameMatches(Parsed[list[1].cert], c.host))

CertsInv ==
    /\ ctx \in Conclusions /\ StoreOk
    /\ shown # NothingShown => Concluded(shown, ctx)

LEMMA CertsInitInv ==
    ASSUME CertsInit
    PROVE  CertsInv
<1>1. ctx \in Conclusions
  BY DEF CertsInit, NoCtx, Conclusions
<1>2. StoreOk
  BY DEF CertsInit, StoreOk
<1> QED BY <1>1, <1>2 DEF CertsInit, CertsInv

LEMMA Keeps ==
    ASSUME CertsInv, UNCHANGED <<store, shown>>, ctx' \in Conclusions, ctx'.host = ctx.host,
           ctx'.chain_verified = ctx.chain_verified, ctx'.match_ok = ctx.match_ok
    PROVE  CertsInv'
<1>1. StoreOk'
  BY DEF CertsInv, StoreOk
<1>2. ASSUME shown' # NothingShown PROVE Concluded(shown, ctx)'
  <2>1. Concluded(shown, ctx)
    BY <1>2 DEF CertsInv
  <2>2. WalkChain(Certs(shown))' <=> WalkChain(Certs(shown))
    BY DEF WalkChain, Anchor, Certs
  <2> QED BY <2>1, <2>2 DEF Concluded, Sound
<1> QED BY <1>1, <1>2 DEF CertsInv

LEMMA TrustKeeps ==
    ASSUME CertsInv, NEW d \in Anchors, ctx = NoCtx, TrustAdd(d)
    PROVE  CertsInv'
<1>1. shown = NothingShown
  BY DEF CertsInv, Concluded, NoCtx
<1>2. d \in Known /\ d.form \in Forms /\ IsSeq(d.sans)
  BY CertsAssumption DEF Known
<1>3. Valid(d)
  <2>1. Parse(d).ok
    BY <1>2 DEF TrustAdd, Parsed
  <2> QED BY <1>2, <2>1, ParseIs DEF Valid
<1>4. StoreOk'
  <2> DEFINE S == {Parsed[a] : a \in {b \in Anchors : Valid(b)}}
  <2>1. Parsed[d] \in S
    BY <1>3
  <2>2. store \in Seq(S)
    BY DEF CertsInv, StoreOk
  <2> HIDE DEF S
  <2>3. store' \in Seq(S)
    BY <2>1, <2>2 DEF TrustAdd
  <2> QED BY <2>3 DEF StoreOk, S
<1> QED BY <1>1, <1>4 DEF CertsInv, TrustAdd

LEMMA ConnectKeeps ==
    ASSUME CertsInv, NEW host \in Hosts, ConnectTo(host)
    PROVE  CertsInv'
<1>1. ctx' \in Conclusions
  BY DEF ConnectTo, NoCtx, Conclusions
<1>2. StoreOk'
  BY DEF CertsInv, ConnectTo, StoreOk
<1> QED BY <1>1, <1>2 DEF CertsInv, ConnectTo

LEMMA SpoiltKeeps ==
    ASSUME CertsInv, NEW list \in Lists, CertificateSpoilt(list)
    PROVE  CertsInv'
<1>1. ctx \in Conclusions
  BY DEF CertsInv
<1>2. /\ ctx' \in Conclusions /\ ctx'.host = ctx.host
      /\ ctx'.chain_verified = ctx.chain_verified /\ ctx'.match_ok = ctx.match_ok
  BY <1>1 DEF CertificateSpoilt, Conclusions
<1> QED BY <1>2, Keeps DEF CertificateSpoilt

LEMMA CertificateKeeps ==
    ASSUME CertsInv, NEW list \in Lists, Certificate(list)
    PROVE  CertsInv'
<1> DEFINE certs == Certs(list)
           first == IF certs = <<>> THEN leaf ELSE certs[1]
           chain == WalkChain(certs)
           match == HostnameMatches(first, ctx.host)
           self == IF <<first.sig_alg, first.pkey_alg>> \in
                          {<<"SHA256_RSA", "RSA">>, <<"ECDSA_SHA256", "EC">>}
                   THEN VerifySignature(first, first) ELSE ctx.self_sign_ok
<1>1. Sound(list) /\ ctx.host # <<>> /\ ctx \in Conclusions /\ UNCHANGED store
  BY DEF Certificate, Sound, CertsInv
<1>2. ctx' = [ctx EXCEPT !.saw = TRUE, !.parse_ok = TRUE, !.chain_len = Len(certs), !.self_sign_ok = self,
                         !.chain_verified = chain, !.match_ok = match]
  BY DEF Certificate, Certs
<1>3. Len(certs) \in Nat /\ (list # <<>> => certs # <<>> /\ certs[1] = Parsed[list[1].cert])
  <2>1. /\ Len(Taken(list)) \in Nat /\ DOMAIN Taken(list) = 1..Len(Taken(list))
        /\ Len(Taken(list)) = 0 <=> list = <<>>
    BY <1>1, TakenIs
  <2>2. certs = [i \in 1..Len(Taken(list)) |-> Parsed[list[i].cert]]
    BY <2>1 DEF Certs
  <2> QED BY <2>1, <2>2
<1>4. self \in BOOLEAN /\ chain \in BOOLEAN /\ match \in BOOLEAN
  <2>1. ctx.self_sign_ok \in BOOLEAN
    BY <1>1 DEF Conclusions
  <2>2. chain \in BOOLEAN
    BY DEF WalkChain
  <2>3. match \in BOOLEAN
    BY DEF HostnameMatches
  <2>4. self \in BOOLEAN
    BY <2>1 DEF VerifySignature
  <2> QED BY <2>2, <2>3, <2>4
<1>5. WalkChain(certs)' <=> chain
  BY <1>1 DEF WalkChain, Anchor, Certs
<1>6. list # <<>> => first = Parsed[list[1].cert]
  BY <1>3
<1>7. shown' = list
  BY DEF Certificate
<1> HIDE DEF self, chain, match, certs, first
<1>8. /\ ctx' \in Conclusions /\ ctx'.host = ctx.host /\ ctx'.chain_verified = chain /\ ctx'.match_ok = match
  BY <1>1, <1>2, <1>3, <1>4 DEF Conclusions
<1>9. StoreOk'
  BY <1>1 DEF CertsInv, StoreOk
<1>10. Concluded(shown, ctx)'
  <2>1. ctx'.chain_verified <=> WalkChain(certs)'
    BY <1>5, <1>8
  <2>2. list # <<>> => (ctx'.match_ok <=> HostnameMatches(Parsed[list[1].cert], ctx'.host))
    BY <1>6, <1>8 DEF match
  <2>3. Sound(list)' /\ ctx'.host # <<>>
    BY <1>1, <1>8 DEF Sound
  <2> QED BY <1>7, <2>1, <2>2, <2>3 DEF Concluded, certs
<1> QED BY <1>8, <1>9, <1>10 DEF CertsInv

\* What the kernel concludes is about the list that it has read, and the anchors are
\* certificates that it has parsed (tls.c, trust.c).
THEOREM CertsInvariance == CertsSpec => []CertsInv
<1>1. CertsInit => CertsInv
  BY CertsInitInv
<1>2. CertsInv /\ [CertsNext]_certVars => CertsInv'
  <2> SUFFICES ASSUME CertsInv, [CertsNext]_certVars PROVE CertsInv'
    OBVIOUS
  <2>1. CASE UNCHANGED certVars
    <3>1. ctx' = ctx /\ store' = store /\ shown' = shown
      BY <2>1 DEF certVars
    <3>2. ctx' \in Conclusions
      BY <3>1 DEF CertsInv
    <3> QED BY <3>1, <3>2, Keeps
  <2>2. ASSUME NEW d \in Anchors, ctx = NoCtx, TrustAdd(d) PROVE CertsInv'
    BY <2>2, TrustKeeps
  <2>3. ASSUME NEW d \in Anchors, TrustAddFails(d) PROVE CertsInv'
    BY <2>1, <2>3 DEF TrustAddFails
  <2>4. ASSUME NEW host \in Hosts, ConnectTo(host) PROVE CertsInv'
    BY <2>4, ConnectKeeps
  <2>5. ASSUME NEW list \in Lists, CertificateSpoilt(list) PROVE CertsInv'
    BY <2>5, SpoiltKeeps
  <2>6. ASSUME NEW list \in Lists, Certificate(list) PROVE CertsInv'
    BY <2>6, CertificateKeeps
  <2> QED BY <2>1, <2>2, <2>3, <2>4, <2>5, <2>6 DEF CertsNext
<1> QED BY <1>1, <1>2, PTL DEF CertsSpec

\* A chain counts as verified exactly if each certificate is signed by the next and
\* the last by the first anchor of its issuer's name, all with RSA, and a name matches
\* exactly if one of the leaf's names stands for the host (x509.c, trust.c, tls.c).
THEOREM ChainIsTrusted == CertsSpec => []ChainTrusted
<1>1. CertsInv => ChainTrusted
  <2> SUFFICES ASSUME CertsInv, shown # NothingShown
               PROVE  /\ ctx.chain_verified <=> ChainTo(shown, SignedBy)
                      /\ shown # <<>> =>
                           (ctx.match_ok <=> \E pat \in SansOf(shown[1].cert) \cup {shown[1].cert.subject} :
                                                Covers(pat, ctx.host))
    BY DEF ChainTrusted, SansOf
  <2>1. StoreOk /\ Concluded(shown, ctx) /\ Sound(shown) /\ ctx.host # <<>> /\ ctx \in Conclusions
    BY DEF CertsInv, Concluded
  <2>2. ctx.chain_verified <=> ChainTo(shown, SignedBy)
    BY <2>1, ChainIs DEF Concluded
  <2>3. ASSUME shown # <<>>
        PROVE  ctx.match_ok <=> \E pat \in SansOf(shown[1].cert) \cup {shown[1].cert.subject} : Covers(pat, ctx.host)
    <3>1. Valid(shown[1].cert)
      <4>1. 1 \in 1..Len(Taken(shown))
        BY <2>1, <2>3, TakenIs
      <4> QED BY <2>1, <4>1, TakenIs
    <3>2. IsSeq(ctx.host)
      BY <2>1, CertsAssumption DEF Conclusions
    <3> QED BY <2>1, <2>3, <3>1, <3>2, MatchIs DEF Concluded
  <2> QED BY <2>2, <2>3
<1> QED BY <1>1, CertsInvariance, PTL

=============================================================================
