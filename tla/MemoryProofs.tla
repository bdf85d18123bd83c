---------------------------- MODULE MemoryProofs ------------------------------
(***************************************************************************)
(* The kernel heap, for every size of it and every set of requests: the    *)
(* list tiles the heap, is one block when everything is free, and          *)
(* implements an allocator.  What bytes_used counts is a sum, and stays    *)
(* with TLC.  And the page allocator, for every memory map, every size of  *)
(* a page and every border of the memory: no page is given out twice, the  *)
(* count is true, and no page that firmware keeps is given out.  And the   *)
(* file system in memory, for every heap, set of names and repository of   *)
(* packages: what its pointers show is a tree, and implements FileTree.    *)
(***************************************************************************)
EXTENDS Heap, Pages, Vfs, FiniteSetTheorems, SequenceTheorems, WellFoundedInduction, TLAPS

----------------------------------------------------------------------------
(* The heap.                                                               *)

\* The blocks in use are those that callers have, and large enough for them.
Owned ==
    /\ \A p \in DOMAIN held :
          /\ p - HEADER_SIZE \in DOMAIN block
          /\ ~block[p - HEADER_SIZE].free
          /\ held[p] <= block[p - HEADER_SIZE].size
    /\ \A a \in DOMAIN block : ~block[a].free => a + HEADER_SIZE \in DOMAIN held

\* No free block follows a free one; coalesce has seen to it up to cur.
Apart ==
    \A a \in DOMAIN block :
        /\ call = "coalesce" => a < cur
        /\ block[a].next # NULL
        => ~BothFree(a)

CallInv ==
    /\ call = "none" => cur = NULL
    /\ call = "kmalloc" => want \in Request
    /\ call = "coalesce" => cur \in DOMAIN block

IInv == HeapTypeOK /\ Tiled /\ Owned /\ Apart /\ CallInv

USE HeapAssumption DEF HEADER_SIZE, NULL, END

\* Rounding up to eight bytes never takes anything away.
LEMMA RoundedUp ==
    ASSUME NEW n \in Nat
    PROVE  Rounded(n) \in Nat /\ n <= Rounded(n)
BY DEF Rounded

\* heap_init establishes the invariant.
LEMMA InitIInv == HeapInit => IInv
BY DEF HeapInit, IInv, HeapTypeOK, Tiled, Owned, Apart, CallInv, BothFree, EndOf

\* What the list looks like after a block has been given out.
LEMMA TakenBlocks ==
    ASSUME IInv, call = "kmalloc", cur # NULL, Suits(block[cur])
    PROVE  LET r == cur + HEADER_SIZE + size IN
           /\ Divisible(block[cur]) =>
                /\ r \in Nat /\ r \notin DOMAIN block
                /\ DOMAIN Taken(cur) = DOMAIN block \cup {r}
                /\ Taken(cur)[r] = [size |-> block[cur].size - size - HEADER_SIZE, free |-> TRUE,
                                    next |-> block[cur].next]
                /\ Taken(cur)[cur] = [size |-> size, free |-> FALSE, next |-> r]
                /\ \A x \in DOMAIN block \ {cur} : Taken(cur)[x] = block[x]
           /\ ~Divisible(block[cur]) =>
                /\ DOMAIN Taken(cur) = DOMAIN block
                /\ Taken(cur)[cur] = [size |-> block[cur].size, free |-> FALSE,
                                      next |-> block[cur].next]
                /\ \A x \in DOMAIN block \ {cur} : Taken(cur)[x] = block[x]
<1> DEFINE r == cur + HEADER_SIZE + size
<1>1. want \in Nat /\ size \in Nat /\ want <= size
  BY RoundedUp DEF IInv, HeapTypeOK, CallInv, size
<1>2. cur \in DOMAIN block /\ cur \in Nat /\ block[cur].size \in Nat /\ block[cur].next \in Nat
  BY DEF IInv, HeapTypeOK
<1>3. block[cur].size >= size
  BY DEF Suits
<1>4. CASE Divisible(block[cur])
  <2>1. r > cur /\ r < EndOf(cur)
    BY <1>1, <1>2, <1>4 DEF Divisible, EndOf
  <2>2. r \notin DOMAIN block
    BY <1>1, <1>2, <2>1 DEF IInv, Tiled, HeapTypeOK
  <2>3. Taken(cur) = [x \in DOMAIN block \cup {r} |->
                        IF x = r THEN Rest(block[cur])
                        ELSE IF x = cur THEN [size |-> size, free |-> FALSE, next |-> r]
                        ELSE block[x]]
    BY <1>4 DEF Taken
  <2> QED BY <1>1, <1>2, <1>4, <2>1, <2>2, <2>3 DEF Rest
<1>5. CASE ~Divisible(block[cur])
  <2>1. Taken(cur) = [block EXCEPT ![cur].free = FALSE]
    BY <1>5 DEF Taken
  <2>2. block[cur] \in [size : Nat, free : BOOLEAN, next : Nat]
    BY <1>2 DEF IInv, HeapTypeOK
  <2>3. /\ DOMAIN Taken(cur) = DOMAIN block
        /\ Taken(cur)[cur] = [block[cur] EXCEPT !.free = FALSE]
        /\ \A x \in DOMAIN block \ {cur} : Taken(cur)[x] = block[x]
    BY <1>2, <2>1 DEF IInv, HeapTypeOK
  <2> QED BY <1>5, <2>2, <2>3
<1> QED BY <1>4, <1>5

\* kmalloc finds a block: the rest, if there is one, is tiled into its place.
LEMMA FoundIInv ==
    ASSUME IInv, Found
    PROVE  IInv'
<1> PICK c : c = cur
  OBVIOUS
<1> PICK r : r = cur + HEADER_SIZE + size
  OBVIOUS
<1> PICK p : p = cur + HEADER_SIZE
  OBVIOUS
<1>1. /\ call = "kmalloc" /\ cur # NULL /\ Suits(block[cur])
      /\ block' = Taken(cur)
      /\ call' = "none" /\ cur' = NULL /\ want' = 0
  BY DEF Found
<1>2. /\ want \in Request /\ want \in Nat /\ size \in Nat /\ want <= size
      /\ c \in DOMAIN block /\ c \in Nat
      /\ block[c].size \in Nat /\ block[c].next \in Nat
      /\ block[c].free /\ block[c].size >= size
  BY <1>1, RoundedUp DEF IInv, HeapTypeOK, CallInv, Suits, size
<1>3. \A x \in DOMAIN block : block[x] \in [size : Nat, free : BOOLEAN, next : Nat] /\ x \in Nat
  BY DEF IInv, HeapTypeOK
<1>4. /\ DOMAIN held' = DOMAIN held \cup {p}
      /\ held'[p] = want
      /\ \A q \in DOMAIN held \ {p} : held'[q] = held[q]
  BY DEF Found
<1>5. p \notin DOMAIN held
  BY <1>2 DEF IInv, Owned
<1>6. held' \in [DOMAIN held' -> Request] /\ DOMAIN held' \subseteq Nat
  <2>1. held' = [q \in DOMAIN held \cup {p} |-> IF q = p THEN want ELSE held[q]]
    BY DEF Found
  <2> QED BY <1>2, <2>1 DEF IInv, HeapTypeOK
<1>7. bytes_used' = bytes_used + Taken(cur)[cur].size
  BY DEF Found, Granted
<1>8. CASE Divisible(block[c])
  <2>1. /\ r \in Nat /\ r \notin DOMAIN block
        /\ DOMAIN block' = DOMAIN block \cup {r}
        /\ block'[r] = [size |-> block[c].size - size - HEADER_SIZE, free |-> TRUE,
                        next |-> block[c].next]
        /\ block'[c] = [size |-> size, free |-> FALSE, next |-> r]
        /\ \A x \in DOMAIN block \ {c} : block'[x] = block[x]
    BY <1>1, <1>8, TakenBlocks
  <2>2. block[c].size - size - HEADER_SIZE \in Nat
    BY <1>2, <1>8 DEF Divisible
  <2>3. HeapTypeOK'
    <3>1. block' = [x \in DOMAIN block' |-> block'[x]]
      BY <1>1, <1>8 DEF Taken
    <3>2. \A x \in DOMAIN block' : block'[x] \in [size : Nat, free : BOOLEAN, next : Nat] /\ x \in Nat
      <4>1. block'[r] \in [size : Nat, free : BOOLEAN, next : Nat]
        BY <1>2, <2>1, <2>2
      <4>2. block'[c] \in [size : Nat, free : BOOLEAN, next : Nat]
        BY <1>2, <2>1
      <4> QED BY <1>3, <2>1, <4>1, <4>2
    <3>3. bytes_used' \in Nat
      BY <1>1, <1>2, <1>7, <2>1 DEF IInv, HeapTypeOK
    <3> QED BY <1>1, <1>6, <3>1, <3>2, <3>3 DEF HeapTypeOK
  <2>4. \A x \in DOMAIN block \ {c} : EndOf(x)' = EndOf(x)
    BY <2>1 DEF EndOf
  <2>5. EndOf(c)' = r /\ EndOf(r)' = EndOf(c)
    BY <1>2, <1>3, <2>1 DEF EndOf
  <2>6. Tiled'
    <3>1. (HEAP_START \in DOMAIN block)' /\ \A a \in DOMAIN block' : HEAP_START <= a /\ EndOf(a)' <= END
      <4>1. HEAP_START <= c /\ EndOf(c) <= END /\ c < r /\ r < EndOf(c)
        BY <1>2, <1>8 DEF IInv, Tiled, EndOf, Divisible
      <4>2. ASSUME NEW a \in DOMAIN block \ {c}
            PROVE  HEAP_START <= a /\ EndOf(a)' <= END
        BY <2>4 DEF IInv, Tiled
      <4>3. HEAP_START <= r /\ EndOf(c)' <= END /\ EndOf(r)' <= END
        BY <1>2, <2>1, <2>5, <4>1 DEF EndOf
      <4>4. HEAP_START \in DOMAIN block
        BY DEF IInv, Tiled
      <4> QED BY <2>1, <4>1, <4>2, <4>3, <4>4
    <3>2. ASSUME NEW a \in DOMAIN block'
          PROVE  \/ block'[a].next = NULL /\ EndOf(a)' = END
                 \/ block'[a].next = EndOf(a)' /\ EndOf(a)' \in DOMAIN block'
      <4>1. /\ block[c].next = NULL => EndOf(c) = END
            /\ block[c].next # NULL => block[c].next = EndOf(c) /\ EndOf(c) \in DOMAIN block
        BY <1>2 DEF IInv, Tiled
      <4>2. CASE a = r
        <5>1. block'[a].next = block[c].next /\ EndOf(a)' = EndOf(c)
          BY <2>1, <2>5, <4>2
        <5> QED BY <1>2, <2>1, <4>1, <5>1
      <4>3. CASE a = c
        BY <1>2, <2>1, <2>5, <4>3
      <4>4. CASE a \in DOMAIN block \ {c}
        BY <2>1, <2>4, <4>4 DEF IInv, Tiled
      <4> QED BY <2>1, <4>2, <4>3, <4>4
    <3>3. ASSUME NEW a \in DOMAIN block', NEW b \in DOMAIN block', a < b
          PROVE  EndOf(a)' <= b
      <4>1. \A x, y \in DOMAIN block : x < y => EndOf(x) <= y
        BY DEF IInv, Tiled
      <4>2. c < r /\ r < EndOf(c)
        BY <1>2, <1>8 DEF EndOf, Divisible
      <4>3. EndOf(c) \in Nat
        BY <1>2 DEF EndOf
      <4>4. \A x \in DOMAIN block : EndOf(x) \in Nat /\ x \in Nat
        BY <1>3 DEF EndOf
      <4>5. CASE a = r
        <5>1. b \in DOMAIN block /\ c < b
          BY <1>2, <2>1, <3>3, <4>2, <4>4, <4>5
        <5> QED BY <1>2, <2>5, <4>1, <4>5, <5>1
      <4>6. CASE a = c
        <5>1. b = r \/ EndOf(c) <= b
          BY <1>2, <2>1, <3>3, <4>1, <4>6
        <5> QED BY <2>1, <2>5, <4>2, <4>3, <4>4, <4>6, <5>1
      <4>7. CASE a \in DOMAIN block \ {c} /\ b = r
        <5>1. a < c
          BY <1>2, <3>3, <4>1, <4>2, <4>3, <4>4, <4>7
        <5>2. EndOf(a) <= c
          BY <1>2, <4>1, <4>7, <5>1
        <5> QED BY <1>2, <2>1, <2>4, <4>2, <4>4, <4>7, <5>2
      <4>8. CASE a \in DOMAIN block \ {c} /\ b \in DOMAIN block
        BY <2>4, <3>3, <4>1, <4>8
      <4> QED BY <2>1, <4>5, <4>6, <4>7, <4>8
    <3> QED BY <3>1, <3>2, <3>3 DEF Tiled
  <2>7. Owned'
    BY <1>2, <1>3, <1>4, <1>5, <2>1 DEF IInv, Owned
  <2>8. Apart'
    <3>1. block[c].next # NULL => block[c].next \in DOMAIN block /\ ~block[block[c].next].free
                                  /\ block[c].next # c
      BY <1>1, <1>2 DEF IInv, Tiled, Apart, BothFree, EndOf
    <3>2. \A x \in DOMAIN block : block[x].next # NULL => block[x].next \in DOMAIN block
      BY DEF IInv, Tiled
    <3>3. \A x \in DOMAIN block : block[x].next # NULL => ~(block[x].free /\ block[block[x].next].free)
      BY <1>1 DEF IInv, Apart, BothFree
    <3> QED BY <1>2, <2>1, <3>1, <3>2, <3>3 DEF Apart, BothFree
  <2> QED BY <1>1, <2>3, <2>6, <2>7, <2>8 DEF IInv, CallInv
<1>9. CASE ~Divisible(block[c])
  <2>1. /\ DOMAIN block' = DOMAIN block
        /\ block'[c] = [size |-> block[c].size, free |-> FALSE, next |-> block[c].next]
        /\ \A x \in DOMAIN block \ {c} : block'[x] = block[x]
    BY <1>1, <1>9, TakenBlocks
  <2>2. \A x \in DOMAIN block : block'[x].size = block[x].size /\ block'[x].next = block[x].next
    BY <2>1
  <2>3. HeapTypeOK'
    <3>1. block' = [x \in DOMAIN block' |-> block'[x]]
      BY <1>1, <1>3, <1>9 DEF Taken, IInv, HeapTypeOK
    <3>2. \A x \in DOMAIN block' : block'[x] \in [size : Nat, free : BOOLEAN, next : Nat] /\ x \in Nat
      <4>1. block'[c] \in [size : Nat, free : BOOLEAN, next : Nat]
        BY <1>2, <2>1
      <4> QED BY <1>3, <2>1, <4>1
    <3>3. bytes_used' \in Nat
      BY <1>1, <1>2, <1>7, <2>1 DEF IInv, HeapTypeOK
    <3> QED BY <1>1, <1>6, <3>1, <3>2, <3>3 DEF HeapTypeOK
  <2>4. Tiled'
    BY <2>1, <2>2 DEF IInv, Tiled, EndOf
  <2>5. Owned'
    BY <1>2, <1>3, <1>4, <1>5, <2>1 DEF IInv, Owned
  <2>6. Apart'
    BY <1>1, <1>2, <2>1 DEF IInv, Apart, BothFree, Tiled
  <2> QED BY <1>1, <2>3, <2>4, <2>5, <2>6 DEF IInv, CallInv
<1> QED BY <1>8, <1>9

\* kfree: the block is free, and coalesce begins at the first one.
LEMMA KfreeIInv ==
    ASSUME IInv, NEW p \in DOMAIN held, Kfree(p)
    PROVE  IInv'
<1> DEFINE f == p - HEADER_SIZE
<1>1. /\ call = "none" /\ call' = "coalesce" /\ cur' = HEAP_START /\ want' = want
      /\ block' = [block EXCEPT ![f].free = TRUE]
  BY DEF Kfree, CoalesceFrom
<1>2. f \in DOMAIN block /\ p \in Nat /\ f \in Nat /\ p = f + HEADER_SIZE
  BY DEF IInv, Owned, HeapTypeOK
<1>3. \A x \in DOMAIN block : block[x] \in [size : Nat, free : BOOLEAN, next : Nat] /\ x \in Nat
  BY DEF IInv, HeapTypeOK
<1>4. /\ DOMAIN block' = DOMAIN block
      /\ block'[f].free
      /\ \A x \in DOMAIN block : block'[x].size = block[x].size /\ block'[x].next = block[x].next
      /\ \A x \in DOMAIN block \ {f} : block'[x] = block[x]
  BY <1>1, <1>2, <1>3 DEF IInv, HeapTypeOK
<1>5. HeapTypeOK'
  <2>1. block' \in [DOMAIN block' -> [size : Nat, free : BOOLEAN, next : Nat]]
    BY <1>1, <1>2, <1>3, <1>4 DEF IInv, HeapTypeOK
  <2>2. bytes_used' \in Nat
    BY <1>2, <1>3 DEF Kfree, IInv, HeapTypeOK
  <2>3. held' \in [DOMAIN held' -> Request] /\ DOMAIN held' \subseteq Nat
    BY DEF Kfree, IInv, HeapTypeOK
  <2>4. HEAP_START \in DOMAIN block
    BY DEF IInv, Tiled
  <2> QED BY <1>1, <1>4, <2>1, <2>2, <2>3, <2>4 DEF HeapTypeOK, IInv
<1>6. Tiled'
  BY <1>4 DEF IInv, Tiled, EndOf
<1>7. Owned'
  <2>1. DOMAIN held' = DOMAIN held \ {p} /\ \A q \in DOMAIN held' : held'[q] = held[q]
    BY DEF Kfree
  <2>2. \A q \in DOMAIN held : q \in Nat
    BY DEF IInv, HeapTypeOK
  <2> QED BY <1>2, <1>3, <1>4, <2>1, <2>2 DEF IInv, Owned
<1>8. Apart' /\ CallInv'
  <2>1. \A a \in DOMAIN block : HEAP_START <= a /\ ~(a < HEAP_START)
    BY <1>3 DEF IInv, Tiled
  <2> QED BY <1>1, <1>3, <1>4, <2>1 DEF IInv, Tiled, Apart, CallInv
<1> QED BY <1>5, <1>6, <1>7, <1>8 DEF IInv

\* coalesce makes one block of two: its end is the end of the second.
LEMMA AbsorbIInv ==
    ASSUME IInv, Absorb
    PROVE  IInv'
<1> PICK c : c = cur
  OBVIOUS
<1> PICK n : n = block[c].next
  OBVIOUS
<1>1. /\ call = "coalesce" /\ call' = call /\ cur' = cur /\ want' = want
      /\ bytes_used' = bytes_used /\ held' = held
      /\ n # NULL /\ block[c].free /\ block[n].free
  BY DEF Absorb, BothFree
<1>2. \A x \in DOMAIN block : /\ block[x] \in [size : Nat, free : BOOLEAN, next : Nat]
                              /\ x \in Nat /\ EndOf(x) \in Nat /\ x < EndOf(x)
  BY DEF IInv, HeapTypeOK, EndOf
<1>3. /\ c \in DOMAIN block /\ n \in DOMAIN block
      /\ n = EndOf(c) /\ c < n
  BY <1>1, <1>2 DEF IInv, CallInv, Tiled
<1>4. block' = [x \in DOMAIN block \ {n} |->
                  IF x = c
                  THEN [size |-> block[x].size + HEADER_SIZE + block[n].size, free |-> block[x].free,
                        next |-> block[n].next]
                  ELSE block[x]]
  BY DEF Absorb
<1>5. /\ DOMAIN block' = DOMAIN block \ {n}
      /\ block'[c] \in [size : Nat, free : BOOLEAN, next : Nat]
      /\ block'[c].size = block[c].size + HEADER_SIZE + block[n].size
      /\ block'[c].next = block[n].next /\ block'[c].free
      /\ \A x \in DOMAIN block \ {n, c} : block'[x] = block[x]
  BY <1>1, <1>2, <1>3, <1>4
<1>6. HeapTypeOK'
  <2>1. block' = [x \in DOMAIN block' |-> block'[x]]
    BY <1>4
  <2>2. \A x \in DOMAIN block' : block'[x] \in [size : Nat, free : BOOLEAN, next : Nat] /\ x \in Nat
    BY <1>2, <1>5
  <2> QED BY <1>1, <1>3, <1>5, <2>1, <2>2 DEF IInv, HeapTypeOK
<1>7. /\ EndOf(c)' = EndOf(n)
      /\ \A x \in DOMAIN block \ {n, c} : EndOf(x)' = EndOf(x)
  BY <1>2, <1>3, <1>5 DEF EndOf
<1>8. Tiled'
  <2>1. \A x, y \in DOMAIN block : x < y => EndOf(x) <= y
    BY DEF IInv, Tiled
  <2>2. (HEAP_START \in DOMAIN block)' /\ \A a \in DOMAIN block' : HEAP_START <= a /\ EndOf(a)' <= END
    <3>1. HEAP_START \in DOMAIN block /\ \A a \in DOMAIN block : HEAP_START <= a /\ EndOf(a) <= END
      BY DEF IInv, Tiled
    <3>2. HEAP_START # n
      BY <1>2, <1>3, <3>1
    <3> QED BY <1>3, <1>5, <1>7, <3>1, <3>2
  <2>3. ASSUME NEW a \in DOMAIN block'
        PROVE  \/ block'[a].next = NULL /\ EndOf(a)' = END
               \/ block'[a].next = EndOf(a)' /\ EndOf(a)' \in DOMAIN block'
    <3>1. CASE a = c
      <4>1. /\ block[n].next = NULL => EndOf(n) = END
            /\ block[n].next # NULL => block[n].next = EndOf(n) /\ EndOf(n) \in DOMAIN block
        BY <1>3 DEF IInv, Tiled
      <4> QED BY <1>2, <1>3, <1>5, <1>7, <3>1, <4>1
    <3>2. CASE a # c
      <4>1. /\ block[a].next = NULL => EndOf(a) = END
            /\ block[a].next # NULL => block[a].next = EndOf(a) /\ EndOf(a) \in DOMAIN block
        BY <1>5 DEF IInv, Tiled
      <4>2. EndOf(a) # n
        BY <1>2, <1>3, <1>5, <2>1, <3>2
      <4> QED BY <1>5, <1>7, <3>2, <4>1, <4>2
    <3> QED BY <3>1, <3>2
  <2>4. ASSUME NEW a \in DOMAIN block', NEW b \in DOMAIN block', a < b
        PROVE  EndOf(a)' <= b
    <3>1. CASE a = c
      <4>1. n <= b /\ n # b
        BY <1>3, <1>5, <2>1, <2>4, <3>1
      <4>2. n < b
        BY <1>2, <1>3, <1>5, <4>1
      <4> QED BY <1>3, <1>5, <1>7, <2>1, <3>1, <4>2
    <3>2. CASE a # c
      BY <1>5, <1>7, <2>1, <2>4, <3>2
    <3> QED BY <3>1, <3>2
  <2> QED BY <2>2, <2>3, <2>4 DEF Tiled
<1>9. Owned'
  BY <1>1, <1>3, <1>5 DEF IInv, Owned
<1>10. Apart'
  <2>1. ASSUME NEW a \in DOMAIN block', a < c, block'[a].next # NULL
        PROVE  ~(block'[a].free /\ block'[block'[a].next].free)
    <3>1. a \in DOMAIN block \ {n, c} /\ block'[a] = block[a]
      BY <1>2, <1>3, <1>5, <2>1
    <3>2. ~(block[a].free /\ block[block[a].next].free)
      BY <1>1, <2>1, <3>1 DEF IInv, Apart, BothFree
    <3>3. block[a].next = EndOf(a) /\ EndOf(a) \in DOMAIN block /\ EndOf(a) <= c
      BY <1>3, <2>1, <3>1 DEF IInv, Tiled
    <3>4. EndOf(a) # n
      BY <1>2, <1>3, <3>1, <3>3
    <3> QED BY <1>1, <1>5, <3>1, <3>2, <3>3, <3>4
  <2> QED BY <1>1, <2>1 DEF Apart, BothFree
<1>11. CallInv'
  BY <1>1, <1>2, <1>3, <1>5 DEF IInv, CallInv
<1> QED BY <1>6, <1>8, <1>9, <1>10, <1>11 DEF IInv

\* coalesce goes on to the next block: cur and it are not both free.
LEMMA AdvanceIInv ==
    ASSUME IInv, Advance
    PROVE  IInv'
<1> PICK c : c = cur
  OBVIOUS
<1>1. /\ call = "coalesce" /\ call' = call /\ want' = want /\ held' = held
      /\ bytes_used' = bytes_used /\ block' = block
      /\ cur' = block[c].next /\ block[c].next # NULL /\ ~BothFree(c)
  BY DEF Advance
<1>2. \A x \in DOMAIN block : x \in Nat /\ EndOf(x) \in Nat /\ x < EndOf(x)
  BY DEF IInv, HeapTypeOK, EndOf
<1>3. /\ c \in DOMAIN block
      /\ cur' \in DOMAIN block /\ cur' = EndOf(c)
  BY <1>1 DEF IInv, CallInv, Tiled
<1>4. \A a \in DOMAIN block : a < cur' => a < c \/ a = c
  <2>1. \A x, y \in DOMAIN block : x < y => EndOf(x) <= y
    BY DEF IInv, Tiled
  <2> QED BY <1>2, <1>3, <2>1
<1>5. Apart'
  BY <1>1, <1>4 DEF IInv, Apart, BothFree
<1>6. HeapTypeOK' /\ Tiled' /\ Owned' /\ CallInv'
  BY <1>1, <1>3 DEF IInv, HeapTypeOK, Tiled, Owned, CallInv, EndOf
<1> QED BY <1>5, <1>6 DEF IInv

\* coalesce returns at the last block, which nothing follows.
LEMMA CoalescesIInv ==
    ASSUME IInv, Coalesces
    PROVE  IInv'
<1> PICK c : c = cur
  OBVIOUS
<1>1. /\ call = "coalesce" /\ call' = "none" /\ want' = want /\ held' = held
      /\ bytes_used' = bytes_used /\ block' = block /\ cur' = NULL
  BY DEF Coalesces
<1>2. \A x \in DOMAIN block : x \in Nat /\ EndOf(x) \in Nat /\ x < EndOf(x)
  BY DEF IInv, HeapTypeOK, EndOf
<1>3. c \in DOMAIN block /\ block[c].next = NULL
  BY <1>1, <1>2 DEF IInv, CallInv, Coalesces, Tiled
<1>4. \A a \in DOMAIN block : block[a].next # NULL => a < c
  <2>1. SUFFICES ASSUME NEW a \in DOMAIN block, block[a].next # NULL, ~(a < c)
                 PROVE  FALSE
    OBVIOUS
  <2>2. \A x, y \in DOMAIN block : x < y => EndOf(x) <= y
    BY DEF IInv, Tiled
  <2>3. a # c
    BY <1>3, <2>1
  <2>4. EndOf(c) = END
    BY <1>2, <1>3 DEF IInv, Tiled
  <2>5. END <= a /\ EndOf(a) <= END
    BY <1>2, <1>3, <2>1, <2>2, <2>3, <2>4 DEF IInv, Tiled
  <2> QED BY <1>2, <2>1, <2>5
<1>5. Apart'
  BY <1>1, <1>4 DEF IInv, Apart, BothFree
<1>6. HeapTypeOK' /\ Tiled' /\ Owned' /\ CallInv'
  BY <1>1 DEF IInv, HeapTypeOK, Tiled, Owned, CallInv, EndOf
<1> QED BY <1>5, <1>6 DEF IInv

\* Every step of a call keeps the invariant.
LEMMA StepIInv ==
    ASSUME IInv, [Next]_vars
    PROVE  IInv'
<1>1. ASSUME NEW n \in Request, Kmalloc(n)
      PROVE  IInv'
  <2>1. HEAP_START \in DOMAIN block
    BY DEF IInv, Tiled
  <2> QED BY <1>1, <2>1 DEF Kmalloc, IInv, HeapTypeOK, Tiled, Owned, Apart, CallInv, EndOf, BothFree
<1>2. ASSUME NEW p \in DOMAIN held, Kfree(p)
      PROVE  IInv'
  BY <1>2, KfreeIInv
<1>3. CASE Search
  <2>1. Following(cur) \in DOMAIN block \cup {NULL}
    BY <1>3 DEF Search, Following, IInv, HeapTypeOK, Tiled
  <2>2. UNCHANGED <<block, bytes_used, call, want, held>> /\ cur' = Following(cur) /\ call = "kmalloc"
    BY <1>3 DEF Search
  <2> QED BY <2>1, <2>2 DEF IInv, HeapTypeOK, Tiled, Owned, Apart, CallInv, EndOf, BothFree
<1>4. CASE Found
  BY <1>4, FoundIInv
<1>5. CASE Fails
  BY <1>5 DEF Fails, IInv, HeapTypeOK, Tiled, Owned, Apart, CallInv, EndOf, BothFree
<1>6. CASE Absorb
  BY <1>6, AbsorbIInv
<1>7. CASE Advance
  BY <1>7, AdvanceIInv
<1>8. CASE Coalesces
  BY <1>8, CoalescesIInv
<1>9. CASE UNCHANGED vars
  BY <1>9 DEF vars, IInv, HeapTypeOK, Tiled, Owned, Apart, CallInv, EndOf, BothFree
<1> QED BY <1>1, <1>2, <1>3, <1>4, <1>5, <1>6, <1>7, <1>8, <1>9 DEF Next, Runs

\* The inductive invariant.
THEOREM HeapInvariance == Spec => []IInv
<1>1. HeapInit => IInv
  BY InitIInv
<1>2. IInv /\ [Next]_vars => IInv'
  BY StepIInv
<1> QED BY <1>1, <1>2, PTL DEF Spec

\* The state has its type.
THEOREM HeapTypeCorrect == Spec => []HeapTypeOK
<1>1. IInv => HeapTypeOK
  BY DEF IInv
<1> QED BY <1>1, HeapInvariance, PTL

\* No header is ever written into a caller's bytes, and no byte is lost.
THEOREM HeapIsTiled == Spec => []Tiled
<1>1. IInv => Tiled
  BY DEF IInv
<1> QED BY <1>1, HeapInvariance, PTL

\* Whatever was allocated and freed, and in whatever order: when all is freed
\* the heap is one block.
THEOREM HeapIsRestored == Spec => []Restored
<1>1. IInv => Restored
  <2>1. SUFFICES ASSUME IInv, call = "none", DOMAIN held = {}
                 PROVE  DOMAIN block = {HEAP_START} /\ EndOf(HEAP_START) = END
    BY DEF Restored
  <2>2. HEAP_START \in DOMAIN block /\ \A a \in DOMAIN block : block[a].free
    BY <2>1 DEF IInv, Owned, Tiled
  <2>3. block[HEAP_START].next = NULL /\ EndOf(HEAP_START) = END
    BY <2>1, <2>2 DEF IInv, Apart, BothFree, Tiled
  <2>4. \A x \in DOMAIN block : x \in Nat /\ EndOf(x) \in Nat /\ x < EndOf(x)
    BY <2>1 DEF IInv, HeapTypeOK, EndOf
  <2>5. ASSUME NEW a \in DOMAIN block, a # HEAP_START
        PROVE  FALSE
    <3>1. HEAP_START < a /\ EndOf(a) <= END
      BY <2>1, <2>4, <2>5 DEF IInv, Tiled
    <3>2. END <= a
      BY <2>1, <2>2, <2>3, <3>1 DEF IInv, Tiled
    <3> QED BY <2>4, <3>1, <3>2
  <2> QED BY <2>2, <2>3, <2>5
<1> QED BY <1>1, HeapInvariance, PTL

\* The pieces are the same as long as each pointer and the size behind it are.
LEMMA SameLent ==
    ASSUME DOMAIN held' = DOMAIN held,
           \A p \in DOMAIN held : block'[p - HEADER_SIZE].size = block[p - HEADER_SIZE].size
    PROVE  Lent' = Lent
BY DEF Lent

\* Two callers' pieces share no byte.
Disjoint ==
    \A p, q \in DOMAIN held :
        p # q => LET s == block[p - HEADER_SIZE].size
                     t == block[q - HEADER_SIZE].size
                 IN  (p .. p + s - 1) \cap (q .. q + t - 1) = {}

LEMMA PiecesApart == IInv => Disjoint
<1> SUFFICES ASSUME IInv, NEW p \in DOMAIN held, NEW q \in DOMAIN held, p # q
             PROVE  LET s == block[p - HEADER_SIZE].size
                        t == block[q - HEADER_SIZE].size
                    IN  (p .. p + s - 1) \cap (q .. q + t - 1) = {}
  BY DEF Disjoint
<1> DEFINE a == p - HEADER_SIZE
           b == q - HEADER_SIZE
<1>1. /\ a \in DOMAIN block /\ b \in DOMAIN block /\ a # b
      /\ p \in Nat /\ q \in Nat /\ a \in Nat /\ b \in Nat
      /\ block[a].size \in Nat /\ block[b].size \in Nat
  BY DEF IInv, Owned, HeapTypeOK
<1>2. EndOf(a) = p + block[a].size /\ EndOf(b) = q + block[b].size
  BY <1>1 DEF EndOf
<1>3. (a < b => EndOf(a) <= b) /\ (b < a => EndOf(b) <= a)
  BY <1>1 DEF IInv, Tiled
<1> QED BY <1>1, <1>2, <1>3

\* Found lends a piece that was nobody's.
LEMMA FoundLends ==
    ASSUME IInv, IInv', Found
    PROVE  A!Lend
<1> PICK p : p = cur + HEADER_SIZE
  OBVIOUS
<1> DEFINE b == [ptr |-> p, size |-> block'[p - HEADER_SIZE].size]
<1>1. /\ call = "kmalloc" /\ cur # NULL /\ Suits(block[cur]) /\ block' = Taken(cur)
      /\ DOMAIN held' = DOMAIN held \cup {p} /\ held'[p] = want
  BY DEF Found
<1>2. /\ cur \in DOMAIN block /\ cur \in Nat /\ cur = p - HEADER_SIZE
      /\ block[cur].free /\ p \in Nat /\ want \in Request
  BY <1>1 DEF IInv, HeapTypeOK, CallInv, Suits
<1>3. p \notin DOMAIN held
  BY <1>2 DEF IInv, Owned
<1>4. \A q \in DOMAIN held : block'[q - HEADER_SIZE].size = block[q - HEADER_SIZE].size
  <2>1. \A x \in DOMAIN block \ {cur} : block'[x] = block[x]
    BY <1>1, TakenBlocks
  <2>2. \A q \in DOMAIN held : q \in Nat /\ q - HEADER_SIZE \in DOMAIN block \ {cur}
    BY <1>2 DEF IInv, Owned, HeapTypeOK
  <2> QED BY <2>1, <2>2
<1>5. Lent' = Lent \cup {b}
  <2>1. Lent' = {[ptr |-> q, size |-> block'[q - HEADER_SIZE].size] : q \in DOMAIN held \cup {p}}
    BY <1>1 DEF Lent
  <2>2. Lent = {[ptr |-> q, size |-> block'[q - HEADER_SIZE].size] : q \in DOMAIN held}
    BY <1>4 DEF Lent
  <2> QED BY <2>1, <2>2
<1>6. b \notin Lent
  BY <1>3 DEF Lent
<1>7. p \in DOMAIN held' /\ want <= b.size
  BY <1>1 DEF IInv, Owned
<1>8. b.ptr .. b.ptr + b.size - 1 \subseteq HEAP_START .. END - 1
  <2>1. /\ cur \in DOMAIN block' /\ block'[cur].size \in Nat
        /\ HEAP_START <= cur /\ EndOf(cur) \in Nat
    BY <1>2, <1>7 DEF IInv, Owned, Tiled, HeapTypeOK, EndOf
  <2>2. \A x \in DOMAIN block' : x + HEADER_SIZE + block'[x].size <= END
    BY DEF IInv, Tiled, EndOf
  <2>3. p + block'[cur].size <= END
    BY <1>2, <2>1, <2>2
  <2> QED BY <1>2, <2>1, <2>3
<1>9. ASSUME NEW c \in Lent
      PROVE  (b.ptr .. b.ptr + b.size - 1) \cap (c.ptr .. c.ptr + c.size - 1) = {}
  <2>1. PICK q \in DOMAIN held : c = [ptr |-> q, size |-> block'[q - HEADER_SIZE].size]
    BY <1>4 DEF Lent
  <2>2. q # p /\ q \in DOMAIN held' /\ p \in DOMAIN held'
    BY <1>1, <1>3
  <2>3. (p .. p + block'[p - HEADER_SIZE].size - 1) \cap (q .. q + block'[q - HEADER_SIZE].size - 1) = {}
    <3>1. Disjoint'
      BY PiecesApart, PTL
    <3> QED BY <2>2, <3>1 DEF Disjoint
  <2> QED BY <2>1, <2>3
<1> QED BY <1>2, <1>5, <1>6, <1>7, <1>8, <1>9 DEF A!Lend, A!Bytes

\* The heap implements an allocator: only kmalloc lends, only kfree takes
\* back, and coalesce is nobody's business.
THEOREM ImplementsAllocator == Spec => AllocatorSpec
<1>1. HeapInit => A!AllocInit
  BY DEF HeapInit, A!AllocInit, Lent
<1>2. ASSUME IInv, IInv', [Next]_vars
      PROVE  [A!AllocNext]_Lent
  <2>1. ASSUME NEW p \in DOMAIN held, Kfree(p)
        PROVE  A!Return
    <3> DEFINE b == [ptr |-> p, size |-> block[p - HEADER_SIZE].size]
    <3>1. /\ DOMAIN held' = DOMAIN held \ {p}
          /\ block' = [block EXCEPT ![p - HEADER_SIZE].free = TRUE]
      BY <2>1 DEF Kfree
    <3>2. \A x \in DOMAIN block : block'[x].size = block[x].size
      BY <1>2, <3>1 DEF IInv, HeapTypeOK
    <3>3. \A q \in DOMAIN held : q - HEADER_SIZE \in DOMAIN block
      BY <1>2 DEF IInv, Owned
    <3>4. Lent' = {[ptr |-> q, size |-> block[q - HEADER_SIZE].size] : q \in DOMAIN held \ {p}}
      BY <3>1, <3>2, <3>3 DEF Lent
    <3>5. Lent' = Lent \ {b} /\ b \in Lent
      BY <3>4 DEF Lent
    <3> QED BY <3>5 DEF A!Return
  <2>2. CASE Found
    BY <1>2, <2>2, FoundLends DEF A!AllocNext
  <2>3. CASE Absorb
    <3>1. \A p \in DOMAIN held : p - HEADER_SIZE \in DOMAIN block /\ ~block[p - HEADER_SIZE].free
      BY <1>2 DEF IInv, Owned
    <3>2. \A x \in DOMAIN block : ~block[x].free => block'[x].size = block[x].size
      BY <1>2, <2>3 DEF Absorb, BothFree
    <3>3. held' = held
      BY <2>3 DEF Absorb
    <3> QED BY <3>1, <3>2, <3>3, SameLent
  <2>4. CASE UNCHANGED <<block, held>>
    BY <2>4 DEF Lent
  <2>5. \/ \E p \in DOMAIN held : Kfree(p)
        \/ Found
        \/ Absorb
        \/ UNCHANGED <<block, held>>
    BY <1>2 DEF Next, Runs, Kmalloc, Search, Fails, Advance, Coalesces, vars
  <2> QED BY <2>1, <2>2, <2>3, <2>4, <2>5 DEF A!AllocNext
<1>3. Spec => []IInv
  BY HeapInvariance
<1> QED BY <1>1, <1>2, <1>3, PTL DEF Spec, AllocatorSpec, A!AllocSpec

----------------------------------------------------------------------------
(* The page allocator.                                                     *)

\* A page that may be given out.
Clean(p) == Touches(p, {"usable"}) /\ ~Touches(p, Withheld)

Entry == [base : Nat, length : Nat \ {0}, kind : {"usable", "bootstrap", "reclaim", "nvs", "bad", "reserved"}]

\* PagesSafe speaks of the pages that callers have; the bitmap has to be right about
\* the others too, since those are given out next.
PagesInv ==
    /\ entries \subseteq Entry
    /\ stage \in {"init", "read", "plain", "mapped"}
    /\ total \in Nat
    /\ busy \in SUBSET Nat /\ IsFiniteSet(busy)
    /\ used_count = Cardinality(busy)
    /\ owned \subseteq busy
    /\ stage \in {"init", "read"} => owned = {}
    /\ stage = "mapped" => \A p \in 0..total - 1 : p \notin busy \/ p \in owned => Clean(p)
    /\ stage = "mapped" => owned \subseteq 0..total - 1

USE PagesAssumption

----------------------------------------------------------------------------
(* Pages and bytes.                                                        *)

\* Division gives the page that a byte lies in.
LEMMA DivPage ==
    ASSUME NEW x \in Nat
    PROVE  /\ x \div PAGE_SIZE \in Nat
           /\ (x \div PAGE_SIZE) * PAGE_SIZE <= x
           /\ x < (x \div PAGE_SIZE) * PAGE_SIZE + PAGE_SIZE
OBVIOUS

\* Pages are in the order of their bytes.
LEMMA PageOrder ==
    ASSUME NEW p \in Nat, NEW q \in Nat
    PROVE  /\ p < q => p * PAGE_SIZE + PAGE_SIZE <= q * PAGE_SIZE
           /\ p * PAGE_SIZE < q * PAGE_SIZE => p < q
           /\ p * PAGE_SIZE \in Nat
OBVIOUS

\* mark_range goes over pages of the table only, each of which has a byte of the
\* entry: the first of the entry, or the first of the page.
LEMMA MarkedTouches ==
    ASSUME NEW e \in Entry, NEW limit \in Nat, NEW p \in RangePages(e, limit)
    PROVE  /\ p \in 0..limit - 1
           /\ Bytes(p) \cap (e.base..e.base + e.length - 1) # {}
<1> DEFINE base == IF e.base < PMM_MEM_START THEN PMM_MEM_START ELSE e.base
           top  == e.base + e.length
           x    == base - PMM_MEM_START
           y    == top - PMM_MEM_START + PAGE_SIZE - 1
           first == PMM_MEM_START + p * PAGE_SIZE
<1>1. e.base \in Nat /\ e.length \in Nat \ {0} /\ top > PMM_MEM_START
  BY DEF Entry, RangePages
<1>2. x \in Nat /\ y \in Nat /\ base < top
  BY <1>1
<1>3. p \in x \div PAGE_SIZE .. Lower(y \div PAGE_SIZE, limit) - 1
  BY <1>1 DEF RangePages, FirstPage
<1>4. /\ x \div PAGE_SIZE \in Nat /\ x < (x \div PAGE_SIZE) * PAGE_SIZE + PAGE_SIZE
      /\ y \div PAGE_SIZE \in Nat /\ (y \div PAGE_SIZE) * PAGE_SIZE <= y
  BY <1>2, DivPage
<1> HIDE DEF x, y
<1>5. p \in Nat /\ p < limit /\ x \div PAGE_SIZE <= p /\ p < y \div PAGE_SIZE
  BY <1>3, <1>4 DEF Lower
<1>6. p * PAGE_SIZE + PAGE_SIZE <= (y \div PAGE_SIZE) * PAGE_SIZE
  BY <1>4, <1>5, PageOrder
<1>7. (x \div PAGE_SIZE) * PAGE_SIZE <= p * PAGE_SIZE
  BY <1>4, <1>5, PageOrder
<1>8. (x \div PAGE_SIZE) * PAGE_SIZE \in Nat /\ (y \div PAGE_SIZE) * PAGE_SIZE \in Nat /\ p * PAGE_SIZE \in Nat
  BY <1>4, <1>5, PageOrder
<1>9. p * PAGE_SIZE + PAGE_SIZE <= y /\ x < p * PAGE_SIZE + PAGE_SIZE
  BY <1>2, <1>4, <1>6, <1>7, <1>8
<1>10. first < top /\ base < first + PAGE_SIZE
  <2> DEFINE w == p * PAGE_SIZE
  <2>1. w \in Nat /\ w + PAGE_SIZE <= y /\ x < w + PAGE_SIZE
    BY <1>8, <1>9
  <2> HIDE DEF w
  <2>2. PMM_MEM_START + w < top /\ base < PMM_MEM_START + w + PAGE_SIZE
    BY <1>1, <2>1 DEF x, y
  <2> QED BY <2>2 DEF w
<1>11. Bytes(p) = first .. first + PAGE_SIZE - 1
  BY <1>5 DEF Bytes
<1>12. CASE first <= base
  <2>1. base \in Bytes(p) /\ base \in e.base..e.base + e.length - 1
    BY <1>1, <1>2, <1>8, <1>10, <1>11, <1>12
  <2> QED BY <2>1, <1>5
<1>13. CASE first > base
  <2>1. first \in Nat
    BY <1>8
  <2>2. first < top /\ first > base /\ Bytes(p) = first .. first + PAGE_SIZE - 1
    BY <1>10, <1>11, <1>13
  <2> HIDE DEF first
  <2>3. first \in Bytes(p)
    BY <2>1, <2>2
  <2>4. base \in Nat /\ base >= e.base
    BY <1>1
  <2> HIDE DEF base
  <2>5. first \in e.base..e.base + e.length - 1
    BY <1>1, <2>1, <2>2, <2>4
  <2> QED BY <2>3, <2>5, <1>5
<1> QED BY <1>1, <1>8, <1>12, <1>13

\* And it leaves out no page of the table that has a byte of the entry.
LEMMA TouchedIsMarked ==
    ASSUME NEW e \in Entry, NEW limit \in Nat, NEW p \in 0..limit - 1,
           NEW b \in Bytes(p), b \in e.base..e.base + e.length - 1
    PROVE  p \in RangePages(e, limit)
<1> DEFINE base == IF e.base < PMM_MEM_START THEN PMM_MEM_START ELSE e.base
           top  == e.base + e.length
           x    == base - PMM_MEM_START
           y    == top - PMM_MEM_START + PAGE_SIZE - 1
           first == PMM_MEM_START + p * PAGE_SIZE
<1>1. e.base \in Nat /\ e.length \in Nat \ {0} /\ p \in Nat /\ p < limit
  BY DEF Entry
<1>2. p * PAGE_SIZE \in Nat /\ b \in Nat /\ first <= b /\ b < first + PAGE_SIZE /\ e.base <= b /\ b < top
  <2>1. p * PAGE_SIZE \in Nat
    BY <1>1, PageOrder
  <2>2. Bytes(p) = first .. first + PAGE_SIZE - 1
    BY <1>1 DEF Bytes
  <2> QED BY <1>1, <2>1, <2>2
<1>3. top > PMM_MEM_START /\ x \in Nat /\ y \in Nat
  BY <1>1, <1>2
<1>4. x < p * PAGE_SIZE + PAGE_SIZE /\ p * PAGE_SIZE + PAGE_SIZE <= y
  BY <1>1, <1>2, <1>3
<1>5. RangePages(e, limit) = x \div PAGE_SIZE .. Lower(y \div PAGE_SIZE, limit) - 1
  BY <1>1, <1>3 DEF RangePages, FirstPage
<1>6. /\ x \div PAGE_SIZE \in Nat /\ (x \div PAGE_SIZE) * PAGE_SIZE <= x
      /\ y \div PAGE_SIZE \in Nat /\ y < (y \div PAGE_SIZE) * PAGE_SIZE + PAGE_SIZE
  BY <1>3, DivPage
<1> HIDE DEF x, y
<1>7. x \div PAGE_SIZE <= p
  <2> DEFINE q == x \div PAGE_SIZE
  <2>1. q \in Nat /\ q * PAGE_SIZE < p * PAGE_SIZE + PAGE_SIZE
    BY <1>2, <1>3, <1>4, <1>6, PageOrder
  <2> HIDE DEF q
  <2>2. ~(p < q)
    BY <1>1, <1>2, <2>1, PageOrder
  <2> QED BY <1>1, <2>1, <2>2 DEF q
<1>8. p < y \div PAGE_SIZE
  <2> DEFINE q == y \div PAGE_SIZE
  <2>1. q \in Nat /\ p * PAGE_SIZE < q * PAGE_SIZE
    BY <1>2, <1>3, <1>4, <1>6, PageOrder
  <2> HIDE DEF q
  <2> QED BY <1>1, <2>1, PageOrder DEF q
<1> QED BY <1>1, <1>5, <1>6, <1>7, <1>8 DEF Lower

----------------------------------------------------------------------------
(* The steps.                                                              *)

\* The entries that memmap.c keeps are not empty.
LEMMA ConvertedEntries ==
    ASSUME NEW f \in Firmware
    PROVE  Converted(f) \subseteq Entry
<1> SUFFICES ASSUME NEW i \in 1..Lower(Len(f.table), MEMMAP_MAX_ENTRIES), f.table[i].length > 0
             PROVE  [base |-> f.table[i].base, length |-> f.table[i].length,
                     kind |-> Kind(f.source, f.table[i].type)] \in Entry
  BY DEF Converted
<1>1. f.table \in Seq(Descriptor) /\ Len(f.table) \in Nat /\ i \in 1..Len(f.table)
  BY DEF Lower
<1>2. f.table[i] \in Descriptor
  BY <1>1
<1>3. Kind(f.source, f.table[i].type) \in {"usable", "bootstrap", "reclaim", "nvs", "bad", "reserved"}
  BY DEF Kind
<1> QED BY <1>2, <1>3 DEF Entry, Descriptor

\* pmm_apply_memmap: what is left free is usable, and none of it is withheld.
LEMMA ApplyMapStep ==
    ASSUME PagesInv, NEW highest_usable \in UsableTops, ApplyMap(highest_usable)
    PROVE  PagesInv'
<1> DEFINE end   == IF highest_usable # 0 /\ highest_usable < PMM_MEM_END THEN highest_usable ELSE PMM_MEM_END
           limit == (end - PMM_MEM_START) \div PAGE_SIZE
           free  == PagesOf({"usable"}, limit)
           kept  == PagesOf(Withheld, limit)
           bits  == (((0..limit - 1) \ free) \cup kept) \cup (IF limit > 0 THEN {0} ELSE {})
<1>1. stage = "read" /\ entries' = entries /\ owned' = owned /\ owned = {}
  BY DEF ApplyMap, PagesInv
<1>2. CASE end <= PMM_MEM_START
  BY <1>1, <1>2 DEF ApplyMap, PagesInv
<1>3. CASE ~(end <= PMM_MEM_START)
  <2>1. stage' = "mapped" /\ total' = limit /\ busy' = bits /\ used_count' = Cardinality(bits)
    BY <1>3 DEF ApplyMap
  <2>2. limit \in Nat
    <3>1. end \in Nat
      BY DEF UsableTops, Entries, PagesInv, Entry
    <3> HIDE DEF end
    <3>2. end - PMM_MEM_START \in Nat
      BY <1>3, <3>1
    <3> QED BY <3>2, DivPage
  <2> HIDE DEF limit
  <2>3. entries \subseteq Entry
    BY DEF PagesInv
  <2>4. bits \subseteq 0..limit - 1
    <3>1. kept \subseteq 0..limit - 1
      BY <2>2, <2>3, MarkedTouches DEF PagesOf, Entries
    <3> QED BY <2>2, <3>1
  <2>5. IsFiniteSet(bits) /\ bits \in SUBSET Nat
    <3>1. IsFiniteSet(0..limit - 1)
      BY <2>2, FS_Interval
    <3> QED BY <2>2, <2>4, <3>1, FS_Subset
  <2>6. ASSUME NEW p \in 0..limit - 1, p \notin bits
        PROVE  Clean(p)
    <3>1. p \in free /\ p \notin kept
      BY <2>6
    <3>2. Touches(p, {"usable"})
      BY <2>2, <2>3, <3>1, MarkedTouches DEF PagesOf, Touches, Entries
    <3>3. ~Touches(p, Withheld)
      <4> SUFFICES ASSUME NEW e \in Entries(Withheld), NEW b \in Bytes(p),
                          b \in e.base..e.base + e.length - 1
                   PROVE  FALSE
        BY DEF Touches
      <4>1. p \in RangePages(e, limit)
        BY <2>2, <2>3, TouchedIsMarked DEF Entries
      <4> QED BY <3>1, <4>1 DEF PagesOf
    <3> QED BY <3>2, <3>3 DEF Clean
  <2>7. \A p : Clean(p)' = Clean(p)
    BY <1>1 DEF Clean, Touches, Entries
  <2> HIDE DEF bits
  <2> QED BY <1>1, <2>1, <2>2, <2>3, <2>5, <2>6, <2>7 DEF PagesInv
<1> QED BY <1>2, <1>3

LEMMA AllocStep ==
    ASSUME PagesInv, NEW p \in 0..AllPages - 1, AllocPage(p)
    PROVE  PagesInv'
<1>1. /\ p \notin busy /\ p < total /\ p \in Nat
      /\ busy' = busy \cup {p} /\ owned' = owned \cup {p} /\ used_count' = used_count + 1
      /\ UNCHANGED <<entries, total, stage>>
      /\ stage \in {"plain", "mapped"}
  BY DEF AllocPage
<1>2. IsFiniteSet(busy') /\ Cardinality(busy') = Cardinality(busy) + 1
  BY <1>1, FS_AddElement DEF PagesInv
<1>3. \A q : Clean(q)' = Clean(q)
  BY <1>1 DEF Clean, Touches, Entries
<1> QED BY <1>1, <1>2, <1>3 DEF PagesInv

LEMMA FreeStep ==
    ASSUME PagesInv, NEW p \in 0..AllPages - 1, FreePage(p)
    PROVE  PagesInv'
<1>1. /\ p \in owned /\ owned' = owned \ {p} /\ p \in busy
      /\ UNCHANGED <<entries, total, stage>>
  BY DEF FreePage, PagesInv
<1>2. \A q : Clean(q)' = Clean(q)
  BY <1>1 DEF Clean, Touches, Entries
<1>3. CASE p < total
  <2>1. busy' = busy \ {p} /\ used_count' = IF used_count > 0 THEN used_count - 1 ELSE 0
    BY <1>1, <1>3 DEF FreePage
  <2>2. IsFiniteSet(busy') /\ Cardinality(busy') = Cardinality(busy) - 1
    BY <1>1, <2>1, FS_RemoveElement DEF PagesInv
  <2>3. used_count \in Nat /\ used_count > 0
    BY <1>1, FS_EmptySet, FS_CardinalityType DEF PagesInv
  <2> QED BY <1>1, <1>2, <2>1, <2>2, <2>3 DEF PagesInv
<1>4. CASE ~(p < total)
  <2>1. UNCHANGED <<busy, used_count>>
    BY <1>4 DEF FreePage
  <2> QED BY <1>1, <1>2, <1>4, <2>1 DEF PagesInv
<1> QED BY <1>3, <1>4

LEMMA PagesStep == PagesInv /\ [PagesNext]_pagesVars => PagesInv'
<1> SUFFICES ASSUME PagesInv, [PagesNext]_pagesVars PROVE PagesInv'
  OBVIOUS
<1>1. ASSUME NEW f \in Firmware, ReadMap(f) PROVE PagesInv'
  BY <1>1, ConvertedEntries DEF ReadMap, PagesInv
<1>2. CASE Boot
  BY <1>2 DEF Boot, PagesInv
<1>3. CASE UNCHANGED pagesVars
  BY <1>3 DEF pagesVars, PagesInv, Clean, Touches, Entries
<1> QED BY <1>1, <1>2, <1>3, ApplyMapStep, AllocStep, FreeStep DEF PagesNext

----------------------------------------------------------------------------
\* The bitmap, its count and the pages of the callers agree, through the boot and
\* every order of allocations and frees (pmm.c).
THEOREM PagesInvariance == PagesSpec => []PagesInv
<1>1. PagesInit => PagesInv
  <2>1. AllPages \in Nat
    BY DivPage DEF AllPages
  <2> QED BY <2>1, FS_EmptySet DEF PagesInit, PagesInv
<1> QED BY <1>1, PagesStep, PTL DEF PagesSpec

\* No page is given out twice, and none that the firmware's map withholds, whatever
\* the map: its entries may overlap, be out of order and share pages.
THEOREM PagesAreSafe == PagesSpec => []PagesSafe
<1>1. PagesInv => PagesSafe
  BY DEF PagesInv, PagesSafe, Clean
<1> QED BY <1>1, PagesInvariance, PTL

HIDE PagesAssumption
HIDE HeapAssumption DEF HEADER_SIZE, NULL, END

----------------------------------------------------------------------------
(* The file system in memory.  The cells that are live form a tree: kids   *)
(* are the lists of children, and path says where each cell is.            *)

Kinds == {"dir", "file", "link"}
AllTexts == Texts \cup {"", "welcome", "notes", "package"}
Nodes == [used : BOOLEAN, name : NodeNames, type : Kinds, parent : 0..Cells, first : 0..Cells,
          next : 0..Cells, text : AllTexts]

\* p is the way to a place from which q goes on.
Leads(p, q) == Len(p) <= Len(q) /\ \A i \in 1..Len(p) : p[i] = q[i]

\* The list of the children of d, as its pointers show it.
Linked(mem, kids, d) ==
    /\ mem[d].first = IF kids[d] = <<>> THEN Null ELSE kids[d][1]
    /\ \A i \in 1..Len(kids[d]) : mem[kids[d][i]].next = IF i = Len(kids[d]) THEN Null ELSE kids[d][i + 1]

\* The children know where they are, and have different names.
Placed(mem, kids, path, d) ==
    /\ mem[d].type # "dir" => kids[d] = <<>>
    /\ \A i \in 1..Len(kids[d]) :
          /\ mem[kids[d][i]].parent = d
          /\ path[kids[d][i]] = Append(path[d], mem[kids[d][i]].name)
    /\ \A i, j \in 1..Len(kids[d]) : mem[kids[d][i]].name = mem[kids[d][j]].name => i = j

Shaped(live, kids, path) ==
    /\ Root \in live /\ live \subseteq Cell
    /\ kids \in [live -> Seq(live)] /\ path \in [live -> Seq(NodeNames)] /\ path[Root] = <<>>
    /\ \A b, c \in live : path[b] = path[c] => b = c

Rooted(mem, live, kids) ==
    /\ mem[Root].parent = Root /\ mem[Root].type = "dir"
    /\ \A c \in live : mem[c].used
    /\ \A c \in live \ {Root} :
          /\ mem[c].parent \in live /\ \E i \in 1..Len(kids[mem[c].parent]) : kids[mem[c].parent][i] = c
          /\ mem[c].type = "dir" => mem[c].name \notin Packages

TreeIs(mem, live, kids, path) ==
    /\ mem \in [Cell -> Nodes] /\ Shaped(live, kids, path) /\ Rooted(mem, live, kids)
    /\ \A d \in live : Linked(mem, kids, d) /\ Placed(mem, kids, path, d)

USE VfsAssumption DEF Null, Root, Cell

LEMMA Lowest ==
    ASSUME NEW S \in SUBSET Nat, S # {}
    PROVE  \E x \in S : \A y \in S : x <= y
<1>1. PICK x \in S : \A y \in S : ~ (<<y, x>> \in OpToRel(<, Nat))
  BY NatLessThanWellFounded, WFMin
<1>2. \A y \in S : ~ (y < x)
  BY <1>1 DEF OpToRel
<1> QED BY <1>2

----------------------------------------------------------------------------
(* The recursive functions.                                                *)
WalkAt(mem, f, k) == [c \in 0..Cells |-> IF c = Null \/ k = 0 THEN <<>> ELSE <<c>> \o f[k - 1][mem[c].next]]
Walk(mem) == LET walk[k \in 0..Cells] == WalkAt(mem, walk, k) IN walk

UpAt(mem, f, k) ==
    [c \in 0..Cells |-> IF c \in {Null, Root} \/ k = 0 THEN <<>> ELSE Append(f[k - 1][mem[c].parent], mem[c].name)]
Up(mem) == LET up[k \in 0..Cells] == UpAt(mem, up, k) IN up

UnderAt(mem, f, k) ==
    [g \in Place |-> {g} \cup
        IF k = 0 THEN {}
        ELSE UNION {f[k - 1][[cell |-> b, path |-> Append(g.path, mem[b].name)]] : b \in Range(Listing(mem, g.cell))}]
Under(mem) == LET under[k \in 0..Cells] == UnderAt(mem, under, k) IN under

LEMMA ListingWalks == \A mem, d : Listing(mem, d) = Walk(mem)[Cells][mem[d].first]
  BY DEF Listing, Walk, WalkAt
LEMMA PathGoesUp == \A mem, d : PathOf(mem, d) = Up(mem)[Cells][d]
  BY DEF PathOf, Up, UpAt
LEMMA FilesAreUnder == \A mem : Files(mem) = Under(mem)[Cells][[cell |-> Root, path |-> <<>>]]
  BY DEF Files, Under, UnderAt

\* One for all three of them.
OneOf(w, mem, f, k) ==
    IF w = "walk" THEN WalkAt(mem, f, k) ELSE IF w = "up" THEN UpAt(mem, f, k) ELSE UnderAt(mem, f, k)

LEMMA FromBefore ==
    ASSUME NEW w, NEW mem, NEW f, NEW g, NEW k, k = 0 \/ f[k - 1] = g[k - 1]
    PROVE  OneOf(w, mem, f, k) = OneOf(w, mem, g, k)
<1>1. WalkAt(mem, f, k) = WalkAt(mem, g, k)
  BY DEF WalkAt
<1>2. UpAt(mem, f, k) = UpAt(mem, g, k)
  BY DEF UpAt
<1>3. UnderAt(mem, f, k) = UnderAt(mem, g, k)
  BY DEF UnderAt
<1> QED BY <1>1, <1>2, <1>3 DEF OneOf

\* They are there: the least k up to which one is not would have the one before it.
LEMMA AreThere ==
    ASSUME NEW w, NEW mem
    PROVE  \E f : f = [k \in 0..Cells |-> OneOf(w, mem, f, k)]
<1> DEFINE Good(m) == \E f : f = [k \in 0..m |-> OneOf(w, mem, f, k)]
           Bad == {m \in 0..Cells : ~ Good(m)}
<1>1. Bad = {}
  <2> SUFFICES ASSUME Bad # {} PROVE FALSE
    OBVIOUS
  <2>1. PICK m \in Bad : \A y \in Bad : m <= y
    <3>1. Bad \in SUBSET Nat
      OBVIOUS
    <3> HIDE DEF Bad
    <3> QED BY <3>1, Lowest
  <2>2. CASE m = 0
    <3> DEFINE g == [k \in 0..0 |-> OneOf(w, mem, <<>>, k)]
    <3>1. \A k \in 0..0 : OneOf(w, mem, g, k) = OneOf(w, mem, <<>>, k)
      <4> HIDE DEF g
      <4> QED BY FromBefore
    <3>2. g = [k \in 0..0 |-> OneOf(w, mem, g, k)]
      BY <3>1
    <3> HIDE DEF g
    <3>3. Good(0)
      BY <3>2
    <3> HIDE DEF Good
    <3> QED BY <2>1, <2>2, <3>3
  <2>3. CASE m # 0
    <3>1. m - 1 \in 0..Cells /\ m - 1 \in Nat /\ ~ (m <= m - 1) /\ 0..m - 1 \subseteq 0..m
      BY <2>1, <2>3
    <3>2. Good(m - 1)
      <4> HIDE DEF Good
      <4> QED BY <2>1, <3>1
    <3>3. PICK f : f = [k \in 0..m - 1 |-> OneOf(w, mem, f, k)]
      BY <3>2
    <3> DEFINE g == [k \in 0..m |-> OneOf(w, mem, f, k)]
    <3>4. ASSUME NEW k \in 0..m PROVE OneOf(w, mem, g, k) = OneOf(w, mem, f, k)
      <4>1. CASE k = 0
        <5> HIDE DEF g
        <5> QED BY <4>1, FromBefore
      <4>2. CASE k # 0
        <5>1. k - 1 \in 0..m - 1 /\ k - 1 \in 0..m
          BY <2>1, <4>2
        <5>2. g[k - 1] = OneOf(w, mem, f, k - 1)
          BY <5>1
        <5>3. f[k - 1] = OneOf(w, mem, f, k - 1)
          BY <3>3, <5>1
        <5>4. g[k - 1] = f[k - 1]
          BY ONLY <5>2, <5>3
        <5> HIDE DEF g
        <5> QED BY <5>4, FromBefore
      <4> QED BY <4>1, <4>2
    <3>5. g = [k \in 0..m |-> OneOf(w, mem, g, k)]
      BY <3>4
    <3> HIDE DEF g
    <3>6. Good(m)
      BY <3>5
    <3> HIDE DEF Good
    <3> QED BY <2>1, <3>6
  <2> QED BY <2>2, <2>3
<1>2. Good(Cells)
  <2> HIDE DEF Good
  <2> QED BY <1>1
<1> QED BY <1>2

LEMMA WalkIs ==
    ASSUME NEW mem
    PROVE  \A k \in 0..Cells : Walk(mem)[k] = WalkAt(mem, Walk(mem), k)
<1>1. PICK f : f = [k \in 0..Cells |-> OneOf("walk", mem, f, k)]
  BY AreThere
<1>2. f = [k \in 0..Cells |-> WalkAt(mem, f, k)]
  BY <1>1 DEF OneOf
<1>3. Walk(mem) = CHOOSE walk : walk = [k \in 0..Cells |-> WalkAt(mem, walk, k)]
  BY DEF Walk
<1>4. PICK g : g = Walk(mem) /\ g = [k \in 0..Cells |-> WalkAt(mem, g, k)]
  BY <1>2, <1>3
<1>5. \A k \in 0..Cells : g[k] = WalkAt(mem, g, k)
  BY ONLY <1>4
<1> QED BY ONLY <1>4, <1>5

LEMMA UpIs ==
    ASSUME NEW mem
    PROVE  \A k \in 0..Cells : Up(mem)[k] = UpAt(mem, Up(mem), k)
<1>1. PICK f : f = [k \in 0..Cells |-> OneOf("up", mem, f, k)]
  BY AreThere
<1>2. f = [k \in 0..Cells |-> UpAt(mem, f, k)]
  BY <1>1 DEF OneOf
<1>3. Up(mem) = CHOOSE up : up = [k \in 0..Cells |-> UpAt(mem, up, k)]
  BY DEF Up
<1>4. PICK g : g = Up(mem) /\ g = [k \in 0..Cells |-> UpAt(mem, g, k)]
  BY <1>2, <1>3
<1>5. \A k \in 0..Cells : g[k] = UpAt(mem, g, k)
  BY ONLY <1>4
<1> QED BY ONLY <1>4, <1>5

LEMMA UnderIs ==
    ASSUME NEW mem
    PROVE  \A k \in 0..Cells : Under(mem)[k] = UnderAt(mem, Under(mem), k)
<1>1. PICK f : f = [k \in 0..Cells |-> OneOf("under", mem, f, k)]
  BY AreThere
<1>2. f = [k \in 0..Cells |-> UnderAt(mem, f, k)]
  BY <1>1 DEF OneOf
<1>3. Under(mem) = CHOOSE under : under = [k \in 0..Cells |-> UnderAt(mem, under, k)]
  BY DEF Under
<1>4. PICK g : g = Under(mem) /\ g = [k \in 0..Cells |-> UnderAt(mem, g, k)]
  BY <1>2, <1>3
<1>5. \A k \in 0..Cells : g[k] = UnderAt(mem, g, k)
  BY ONLY <1>4
<1> QED BY ONLY <1>4, <1>5

----------------------------------------------------------------------------
(* The tree: where a child is, and where its parents are.                  *)

Extends(q, x, r) == Len(r) = Len(q) + 1 /\ (\A i \in 1..Len(q) : r[i] = q[i]) /\ r[Len(q) + 1] = x

LEMMA Longer ==
    ASSUME NEW S, NEW q \in Seq(S), NEW x \in S
    PROVE  Append(q, x) \in Seq(S) /\ Append(q, x) # <<>> /\ Extends(q, x, Append(q, x))
  BY AppendProperties DEF Extends

LEMMA TypesOfTree ==
    ASSUME NEW mem, NEW live, NEW kids, NEW path, TreeIs(mem, live, kids, path), NEW c \in live
    PROVE  /\ c \in Cell /\ mem[c] \in Nodes /\ mem[c].name \in NodeNames
           /\ mem[c].parent \in 0..Cells /\ mem[c].next \in 0..Cells /\ mem[c].first \in 0..Cells
           /\ kids[c] \in Seq(live) /\ path[c] \in Seq(NodeNames)
<1>1. c \in Cell /\ mem[c] \in Nodes
  BY DEF TreeIs, Shaped
<1> QED BY <1>1 DEF TreeIs, Shaped, Nodes

LEMMA KidIs ==
    ASSUME NEW mem, NEW live, NEW kids, NEW path, TreeIs(mem, live, kids, path),
           NEW d \in live, NEW i \in 1..Len(kids[d])
    PROVE  \E c \in live \ {Root} :
              /\ c = kids[d][i] /\ mem[c].parent = d
              /\ path[c] = Append(path[d], mem[c].name) /\ Extends(path[d], mem[c].name, path[c])
<1>1. kids[d] \in Seq(live) /\ path[d] \in Seq(NodeNames)
  BY TypesOfTree
<1>2. PICK c \in live : c = kids[d][i]
  BY <1>1, ElementOfSeq
<1>3. mem[c].parent = d /\ path[c] = Append(path[d], mem[c].name)
  BY <1>2 DEF TreeIs, Placed
<1>4. mem[c].name \in NodeNames
  BY TypesOfTree
<1>5. path[c] # <<>> /\ Extends(path[d], mem[c].name, path[c])
  BY <1>1, <1>3, <1>4, Longer
<1>6. path[Root] = <<>>
  BY DEF TreeIs, Shaped
<1>7. c # Root
  BY <1>5, <1>6
<1> QED BY <1>2, <1>3, <1>5, <1>7

LEMMA ParentIs ==
    ASSUME NEW mem, NEW live, NEW kids, NEW path, TreeIs(mem, live, kids, path), NEW c \in live, c # Root
    PROVE  \E p \in live, i \in Nat :
              /\ p = mem[c].parent /\ i \in 1..Len(kids[p]) /\ kids[p][i] = c
              /\ path[c] = Append(path[p], mem[c].name) /\ Extends(path[p], mem[c].name, path[c])
<1>1. PICK p \in live : p = mem[c].parent /\ \E i \in 1..Len(kids[p]) : kids[p][i] = c
  BY DEF TreeIs, Rooted
<1>2. PICK i \in 1..Len(kids[p]) : kids[p][i] = c
  BY <1>1
<1>3. i \in Nat
  OBVIOUS
<1>4. path[c] = Append(path[p], mem[c].name) /\ Extends(path[p], mem[c].name, path[c])
  BY <1>2, KidIs
<1> QED BY <1>1, <1>2, <1>3, <1>4

LEMMA LeadsBack ==
    ASSUME NEW S, NEW p \in Seq(S), NEW q \in Seq(S), NEW r \in Seq(S), NEW x,
           Extends(p, x, q), Leads(q, r)
    PROVE  Leads(p, r)
  BY DEF Extends, Leads

\* Every beginning of a path is the path of a cell.
LEMMA Lineage ==
    ASSUME NEW mem, NEW live, NEW kids, NEW path, TreeIs(mem, live, kids, path),
           NEW c \in live, NEW n \in 0..Len(path[c])
    PROVE  \E b \in live : Len(path[b]) = n /\ Leads(path[b], path[c])
<1> DEFINE Good(m) == \E b \in live : Len(path[b]) = m /\ Leads(path[b], path[c])
           Bad == {m \in 0..Len(path[c]) : ~ Good(Len(path[c]) - m)}
<1>1. path[c] \in Seq(NodeNames) /\ Len(path[c]) \in Nat
  BY TypesOfTree
<1>2. Bad = {}
  <2> SUFFICES ASSUME Bad # {} PROVE FALSE
    OBVIOUS
  <2>1. PICK m \in Bad : \A y \in Bad : m <= y
    <3>1. Bad \in SUBSET Nat
      BY <1>1
    <3> HIDE DEF Bad
    <3> QED BY <3>1, Lowest
  <2>2. PICK l \in Nat : l = Len(path[c]) /\ m \in 0..l /\ ~ Good(l - m)
    BY <1>1, <2>1
  <2>3. m # 0
    <3>1. l - 0 = l
      BY <2>2
    <3>2. Good(l)
      BY <2>2 DEF Leads
    <3> HIDE DEF Good
    <3> QED BY <2>2, <3>1, <3>2
  <2>4. m - 1 \in 0..l /\ ~ (m <= m - 1) /\ l - (m - 1) = (l - m) + 1 /\ l - m \in Nat
    BY <2>2, <2>3
  <2>5. Good(l - (m - 1))
    <3>1. m - 1 \notin Bad
      <4> HIDE DEF Bad
      <4> QED BY <2>1, <2>4
    <3> HIDE DEF Good
    <3> QED BY <2>2, <2>4, <3>1
  <2>6. PICK b \in live : Len(path[b]) = (l - m) + 1 /\ Leads(path[b], path[c])
    BY <2>4, <2>5
  <2>7. b # Root
    <3>1. path[Root] = <<>>
      BY DEF TreeIs, Shaped
    <3> QED BY <2>4, <2>6, <3>1, EmptySeq
  <2>8. PICK p \in live : Extends(path[p], mem[b].name, path[b])
    BY <2>7, ParentIs
  <2>9. path[p] \in Seq(NodeNames) /\ path[b] \in Seq(NodeNames) /\ Len(path[p]) \in Nat
    BY TypesOfTree
  <2>10. Len(path[p]) = l - m
    <3>1. Len(path[b]) = Len(path[p]) + 1 /\ Len(path[b]) = (l - m) + 1
      BY <2>6, <2>8 DEF Extends
    <3>2. PICK a \in Nat, e \in Nat : a = Len(path[p]) /\ e = l - m
      BY <2>4, <2>9
    <3>3. a + 1 = e + 1
      BY ONLY <3>1, <3>2
    <3>4. a = e
      BY ONLY <3>3, a \in Nat, e \in Nat
    <3> QED BY ONLY <3>2, <3>4
  <2>11. Leads(path[p], path[c])
    BY <1>1, <2>6, <2>8, <2>9, LeadsBack
  <2> QED BY <2>2, <2>10, <2>11
<1>3. Len(path[c]) - n \in 0..Len(path[c]) /\ Len(path[c]) - (Len(path[c]) - n) = n
  BY <1>1
<1>4. Good(n)
  <2> HIDE DEF Good
  <2> QED BY <1>2, <1>3
<1> QED BY <1>4

\* There are not more cells than there are.
LEMMA NoMore ==
    ASSUME NEW n \in Nat, NEW f \in [1..n -> Cell], \A i, j \in 1..n : f[i] = f[j] => i = j
    PROVE  n <= Cells
<1>1. IsFiniteSet(1..n) /\ Cardinality(1..n) = n
  BY FS_Interval
<1>2. IsFiniteSet(Cell) /\ Cardinality(Cell) = Cells
  BY FS_Interval
<1>3. SUFFICES ASSUME Cardinality(Cell) < Cardinality(1..n) PROVE FALSE
  BY <1>1, <1>2
<1>4. \E i, j \in 1..n : i # j /\ f[i] = f[j]
  BY <1>1, <1>2, <1>3, FS_PigeonHole
<1> QED BY <1>4

LEMMA FewKids ==
    ASSUME NEW mem, NEW live, NEW kids, NEW path, TreeIs(mem, live, kids, path), NEW d \in live
    PROVE  Len(kids[d]) \in Nat /\ Len(kids[d]) <= Cells
<1>1. kids[d] \in Seq(live) /\ live \subseteq Cell
  BY TypesOfTree DEF TreeIs, Shaped
<1>2. Len(kids[d]) \in Nat
  BY <1>1
<1>3. PICK f : f = [i \in 1..Len(kids[d]) |-> kids[d][i]]
  OBVIOUS
<1>4. f \in [1..Len(kids[d]) -> Cell]
  BY <1>1, <1>3, ElementOfSeq
<1>5. \A i, j \in 1..Len(kids[d]) : f[i] = f[j] => i = j
  BY <1>3 DEF TreeIs, Placed
<1> QED BY <1>2, <1>4, <1>5, NoMore

LEMMA Shallow ==
    ASSUME NEW mem, NEW live, NEW kids, NEW path, TreeIs(mem, live, kids, path), NEW c \in live
    PROVE  Len(path[c]) \in Nat /\ Len(path[c]) < Cells
<1>1. Len(path[c]) \in Nat /\ live \subseteq Cell
  BY TypesOfTree DEF TreeIs, Shaped
<1>2. PICK l \in Nat : l = Len(path[c])
  BY <1>1
<1>3. PICK f : f = [i \in 1..l + 1 |-> CHOOSE b \in live : Len(path[b]) = i - 1]
  OBVIOUS
<1>4. ASSUME NEW i \in 1..l + 1 PROVE f[i] \in live /\ Len(path[f[i]]) = i - 1
  <2>1. \E b \in live : Len(path[b]) = i - 1
    <3>1. PICK n \in 0..Len(path[c]) : n = i - 1
      BY <1>2
    <3>2. \E b \in live : Len(path[b]) = n
      BY Lineage
    <3> QED BY <3>1, <3>2
  <2> QED BY <1>3, <2>1
<1>5. f \in [1..l + 1 -> Cell]
  BY <1>1, <1>3, <1>4
<1>6. \A i, j \in 1..l + 1 : f[i] = f[j] => i = j
  <2> TAKE i, j \in 1..l + 1
  <2>1. f[i] = f[j] => i - 1 = j - 1
    BY <1>4
  <2> QED BY <2>1
<1>7. l + 1 <= Cells
  BY <1>5, <1>6, NoMore
<1> QED BY <1>1, <1>2, <1>7
\* u is t with c before it.
Fronted(u, c, t) ==
    u = <<c>> \o t /\ Len(u) = Len(t) + 1 /\ u[1] = c /\ \A j \in 1..Len(t) : u[j + 1] = t[j]

LEMMA InFront ==
    ASSUME NEW S, NEW c \in S, NEW t \in Seq(S)
    PROVE  \E u \in Seq(S) : Fronted(u, c, t)
<1>1. <<c>> \in Seq(S) /\ Len(<<c>>) = 1 /\ <<c>>[1] = c
  OBVIOUS
<1>2. /\ <<c>> \o t \in Seq(S) /\ Len(<<c>> \o t) = 1 + Len(t)
      /\ \A i \in 1..1 + Len(t) : (<<c>> \o t)[i] = IF i <= 1 THEN <<c>>[i] ELSE t[i - 1]
  BY <1>1, ConcatProperties
<1>3. PICK u : u = <<c>> \o t
  OBVIOUS
<1>4. /\ u \in Seq(S) /\ Len(u) = 1 + Len(t)
      /\ \A i \in 1..1 + Len(t) : u[i] = IF i <= 1 THEN <<c>>[i] ELSE t[i - 1]
  BY ONLY <1>2, <1>3
<1>5. Len(t) \in Nat
  OBVIOUS
<1>6. Len(u) = Len(t) + 1
  BY ONLY <1>4, <1>5
<1>7. u[1] = c
  BY ONLY <1>1, <1>4, <1>5
<1>8. ASSUME NEW j \in 1..Len(t) PROVE u[j + 1] = t[j]
  <2>1. j + 1 \in 1..1 + Len(t) /\ ~ (j + 1 <= 1) /\ j + 1 - 1 = j
    BY ONLY <1>5, j \in 1..Len(t)
  <2> QED BY ONLY <1>4, <2>1
<1>9. Fronted(u, c, t)
  BY ONLY <1>3, <1>6, <1>7, <1>8 DEF Fronted
<1> QED BY ONLY <1>4, <1>9

\* The end of s from i on.
LastIn(t, s, i) == Len(t) = Len(s) - i + 1 /\ \A j \in 1..Len(s) - i + 1 : t[j] = s[i + j - 1]

\* What walks along the pointers is the list of children.
LEMMA ListingIs ==
    ASSUME NEW mem, NEW live, NEW kids, NEW path, TreeIs(mem, live, kids, path), NEW d \in live
    PROVE  Listing(mem, d) = kids[d]
<1>1. PICK s \in Seq(live), n \in Nat : s = kids[d] /\ n = Len(s) /\ n <= Cells
  BY FewKids, TypesOfTree
<1>0. \A k \in 0..Cells : Walk(mem)[k] = WalkAt(mem, Walk(mem), k)
  BY WalkIs
<1>2. PICK W : W = Walk(mem)
  OBVIOUS
<1>3. ASSUME NEW k \in 0..Cells PROVE W[k][Null] = <<>>
  <2>1. W[k] = WalkAt(mem, W, k)
    BY <1>0, <1>2
  <2>2. 0 \in 0..Cells
    OBVIOUS
  <2> QED BY ONLY <2>1, <2>2 DEF WalkAt, Null
<1>4. ASSUME NEW k \in 1..Cells, NEW c \in Cell PROVE W[k][c] = <<c>> \o W[k - 1][mem[c].next]
  <2>1. W[k] = WalkAt(mem, W, k)
    BY <1>0, <1>2
  <2>2. c \in 0..Cells /\ c # 0 /\ k # 0
    OBVIOUS
  <2> QED BY ONLY <2>1, <2>2 DEF WalkAt, Null
<1> DEFINE Good(k) == \A i \in 1..n : n - i < k => \E t \in Seq(live) : t = W[k][s[i]] /\ LastIn(t, s, i)
           Bad == {k \in 0..Cells : ~ Good(k)}
<1>5. Bad = {}
  <2> SUFFICES ASSUME Bad # {} PROVE FALSE
    OBVIOUS
  <2>1. PICK k \in Bad : \A y \in Bad : k <= y
    <3>1. Bad \in SUBSET Nat
      OBVIOUS
    <3> HIDE DEF Bad
    <3> QED BY <3>1, Lowest
  <2>2. PICK i \in 1..n : n - i < k /\ ~ \E t \in Seq(live) : t = W[k][s[i]] /\ LastIn(t, s, i)
    BY <2>1
  <2>3. k \in 1..Cells /\ k - 1 \in 0..Cells /\ ~ (k <= k - 1)
    BY <2>1, <2>2
  <2>4. PICK c \in live : c = s[i]
    BY <1>1, ElementOfSeq
  <2>5. c \in Cell /\ live \subseteq Cell
    BY TypesOfTree DEF TreeIs, Shaped
  <2>6. W[k][c] = <<c>> \o W[k - 1][mem[c].next]
    BY <1>4, <2>3, <2>5
  <2>7. mem[c].next = IF i = n THEN Null ELSE s[i + 1]
    BY <1>1, <2>4 DEF TreeIs, Linked
  <2>8. CASE i = n
    <3>1. W[k - 1][mem[c].next] = <<>>
      BY <1>3, <2>3, <2>7, <2>8
    <3>2. PICK u \in Seq(live) : u = <<c>> \o <<>> /\ Len(u) = 1 /\ u[1] = c
      <4>1. <<>> \in Seq(live) /\ Len(<<>>) + 1 = 1 /\ c \in live
        OBVIOUS
      <4>2. PICK u \in Seq(live) : Fronted(u, c, <<>>)
        BY ONLY <4>1, InFront
      <4> QED BY ONLY <4>1, <4>2 DEF Fronted
    <3>3. u = W[k][s[i]]
      BY <2>4, <2>6, <3>1, <3>2
    <3>4. LastIn(u, s, i)
      <4>1. Len(s) - i + 1 = 1 /\ \A j \in 1..1 : i + j - 1 = i
        BY <1>1, <2>8
      <4> QED BY <2>4, <3>2, <4>1 DEF LastIn
    <3> QED BY <2>2, <3>3, <3>4
  <2>9. CASE i # n
    <3>1. i + 1 \in 1..n /\ n - (i + 1) < k - 1 /\ i \in Nat
      BY <2>2, <2>9
    <3>2. Good(k - 1)
      <4> HIDE DEF Good
      <4> QED BY <2>1, <2>3
    <3>3. PICK t \in Seq(live) : t = W[k - 1][s[i + 1]] /\ LastIn(t, s, i + 1)
      BY <3>1, <3>2
    <3>4. PICK u \in Seq(live) : /\ u = <<c>> \o t /\ Len(u) = Len(t) + 1 /\ u[1] = c
                                 /\ \A j \in 1..Len(t) : u[j + 1] = t[j]
      <4>1. PICK u \in Seq(live) : Fronted(u, c, t)
        BY ONLY c \in live, t \in Seq(live), InFront
      <4> QED BY ONLY <4>1 DEF Fronted
    <3>5. u = W[k][s[i]]
      BY <2>4, <2>6, <2>7, <2>9, <3>3, <3>4
    <3>6. LastIn(u, s, i)
      <4>1. /\ Len(t) = n - i /\ \A j \in 1..n - i : t[j] = s[i + 1 + j - 1]
        <5>1. n - (i + 1) + 1 = n - i
          BY <3>1
        <5> QED BY <1>1, <3>3, <5>1 DEF LastIn
      <4>2. Len(u) = n - i + 1
        BY <3>4, <4>1
      <4>3. ASSUME NEW j \in 1..n - i + 1 PROVE u[j] = s[i + j - 1]
        <5>1. CASE j = 1
          <6>1. i + j - 1 = i
            BY <3>1, <5>1
          <6> QED BY <2>4, <3>4, <5>1, <6>1
        <5>2. CASE j # 1
          <6>1. PICK m \in 1..n - i : j = m + 1
            <7>1. j - 1 \in 1..n - i /\ j = (j - 1) + 1
              BY <3>1, <5>2
            <7> QED BY <7>1
          <6>2. u[m + 1] = t[m] /\ t[m] = s[i + 1 + m - 1]
            BY <3>4, <4>1
          <6>3. i + 1 + m - 1 = i + j - 1
            <7>1. i \in Int /\ m \in Int
              BY <3>1, <6>1
            <7>2. j = m + 1
              BY <6>1
            <7> QED BY ONLY <7>1, <7>2
          <6>4. u[j] = u[m + 1] /\ s[i + 1 + m - 1] = s[i + j - 1]
            BY ONLY <6>1, <6>3
          <6> QED BY ONLY <6>2, <6>4
        <5> QED BY <5>1, <5>2
      <4> QED BY <1>1, <4>2, <4>3 DEF LastIn
    <3> QED BY <2>2, <3>5, <3>6
  <2> QED BY <2>8, <2>9
<1>6. Listing(mem, d) = W[Cells][mem[d].first]
  BY <1>2, ListingWalks
<1>7. mem[d].first = IF s = <<>> THEN Null ELSE s[1]
  BY <1>1 DEF TreeIs, Linked
<1>8. CASE s = <<>>
  BY <1>1, <1>3, <1>6, <1>7, <1>8
<1>9. CASE s # <<>>
  <2>1. n \in 1..Cells /\ n - 1 < Cells /\ 1 \in 1..n
    BY <1>1, <1>9, EmptySeq
  <2>2. Good(Cells)
    <3> HIDE DEF Good
    <3> QED BY <1>5
  <2>3. PICK t \in Seq(live) : t = W[Cells][s[1]] /\ LastIn(t, s, 1)
    BY <2>1, <2>2
  <2>4. Len(t) = Len(s) /\ \A j \in 1..Len(t) : t[j] = s[j]
    <3>1. Len(s) - 1 + 1 = Len(s)
      BY <1>1
    <3>2. \A j \in 1..Len(s) : 1 + j - 1 = j
      BY <1>1
    <3> QED BY <2>3, <3>1, <3>2 DEF LastIn
  <2>5. t = s
    BY <2>4, SeqEqual
  <2> QED BY <1>1, <1>6, <1>7, <1>9, <2>3, <2>5
<1> QED BY <1>8, <1>9

\* What walks to the root is the path.
LEMMA PathIs ==
    ASSUME NEW mem, NEW live, NEW kids, NEW path, TreeIs(mem, live, kids, path), NEW d \in live
    PROVE  PathOf(mem, d) = path[d]
<1>0. \A k \in 0..Cells : Up(mem)[k] = UpAt(mem, Up(mem), k)
  BY UpIs
<1>1. PICK U : U = Up(mem)
  OBVIOUS
<1> DEFINE Good(k) == \A c \in live : Len(path[c]) <= k => U[k][c] = path[c]
           Bad == {k \in 0..Cells : ~ Good(k)}
<1>2. Bad = {}
  <2> SUFFICES ASSUME Bad # {} PROVE FALSE
    OBVIOUS
  <2>1. PICK k \in Bad : \A y \in Bad : k <= y
    <3>1. Bad \in SUBSET Nat
      OBVIOUS
    <3> HIDE DEF Bad
    <3> QED BY <3>1, Lowest
  <2>2. PICK c \in live : Len(path[c]) <= k /\ U[k][c] # path[c]
    BY <2>1
  <2>3. c \in Cell /\ path[c] \in Seq(NodeNames) /\ path[Root] = <<>> /\ Len(path[c]) \in Nat
    BY TypesOfTree DEF TreeIs, Shaped
  <2>4. U[k][c] = IF c = Root \/ k = 0 THEN <<>> ELSE Append(U[k - 1][mem[c].parent], mem[c].name)
    <3>1. U[k] = UpAt(mem, U, k)
      BY <1>0, <1>1, <2>1
    <3>2. c \in 0..Cells /\ c # 0
      BY <2>3
    <3> QED BY ONLY <3>1, <3>2 DEF UpAt, Null, Root
  <2>5. c # Root
    BY <2>2, <2>3, <2>4
  <2>6. PICK p \in live : /\ p = mem[c].parent /\ path[c] = Append(path[p], mem[c].name)
                          /\ Extends(path[p], mem[c].name, path[c])
    BY <2>5, ParentIs
  <2>7. Len(path[p]) \in Nat /\ Len(path[c]) = Len(path[p]) + 1
    BY <2>6, TypesOfTree DEF Extends
  <2>8. k # 0 /\ k - 1 \in 0..Cells /\ ~ (k <= k - 1) /\ Len(path[p]) <= k - 1
    BY <2>1, <2>2, <2>3, <2>7
  <2>9. Good(k - 1)
    <3> HIDE DEF Good
    <3> QED BY <2>1, <2>8
  <2>10. U[k - 1][p] = path[p]
    BY <2>8, <2>9
  <2> QED BY <2>2, <2>4, <2>5, <2>6, <2>8, <2>10
<1>3. Len(path[d]) <= Cells /\ Cells \in 0..Cells
  BY Shallow
<1>4. Good(Cells)
  <2> HIDE DEF Good
  <2> QED BY <1>2
<1>5. U[Cells][d] = path[d]
  BY <1>3, <1>4
<1> QED BY <1>1, <1>5, PathGoesUp

----------------------------------------------------------------------------
(* The files that are shown are the cells that are live.                   *)

\* A set of numbers that grows up to n.
LEMMA Climb ==
    ASSUME NEW n \in Nat, NEW S, 0 \in S, \A k \in 1..n : k - 1 \in S => k \in S
    PROVE  n \in S
<1> DEFINE Bad == (0..n) \ S
<1>1. Bad = {}
  <2> SUFFICES ASSUME Bad # {} PROVE FALSE
    OBVIOUS
  <2>1. PICK k \in Bad : \A y \in Bad : k <= y
    <3>1. Bad \in SUBSET Nat
      OBVIOUS
    <3> HIDE DEF Bad
    <3> QED BY <3>1, Lowest
  <2>2. k \in 1..n /\ k - 1 \in 0..n /\ ~ (k <= k - 1)
    BY <2>1
  <2>3. k - 1 \notin S
    BY <2>2
  <2> QED BY <2>1, <2>2
<1> QED BY <1>1

Here(path, c) == [cell |-> c, path |-> path[c]]
BelowOf(live, path, c) == {Here(path, b) : b \in {x \in live : Leads(path[c], path[x])}}

\* What is below a directory is itself, and what is below its children.
LEMMA BelowIs ==
    ASSUME NEW mem, NEW live, NEW kids, NEW path, TreeIs(mem, live, kids, path), NEW c \in live, NEW x \in live
    PROVE  Leads(path[c], path[x]) <=> x = c \/ \E i \in 1..Len(kids[c]) : Leads(path[kids[c][i]], path[x])
<1>1. \A b \in live : path[b] \in Seq(NodeNames)
  BY TypesOfTree
<1>2. \A b, e \in live : path[b] = path[e] => b = e
  BY DEF TreeIs, Shaped
<1>3. ASSUME x = c PROVE Leads(path[c], path[x])
  BY <1>1, <1>3 DEF Leads
<1>4. ASSUME NEW i \in 1..Len(kids[c]), Leads(path[kids[c][i]], path[x]) PROVE Leads(path[c], path[x])
  <2>1. PICK b \in live : b = kids[c][i] /\ Extends(path[c], mem[b].name, path[b])
    BY KidIs
  <2>2. Leads(path[b], path[x])
    BY <1>4, <2>1
  <2> QED BY <1>1, <2>1, <2>2, LeadsBack
<1>5. ASSUME Leads(path[c], path[x]), x # c
      PROVE  \E i \in 1..Len(kids[c]) : Leads(path[kids[c][i]], path[x])
  <2>1. PICK n \in Nat, l \in Nat : n = Len(path[c]) /\ l = Len(path[x])
    BY <1>1
  <2>2. n <= l /\ n # l
    <3>1. n <= l
      BY <1>5, <2>1 DEF Leads
    <3>2. ASSUME n = l PROVE FALSE
      <4>1. path[c] = path[x]
        BY <1>1, <1>5, <2>1, <3>2, SeqEqual DEF Leads
      <4> QED BY <1>2, <1>5, <4>1
    <3> QED BY <3>1, <3>2
  <2>3. n + 1 \in 0..Len(path[x])
    BY <2>1, <2>2
  <2>4. PICK b \in live : Len(path[b]) = n + 1 /\ Leads(path[b], path[x])
    BY <2>3, Lineage
  <2>5. b # Root
    <3>1. path[Root] = <<>> /\ Len(<<>>) = 0 /\ n + 1 # 0
      BY <2>1 DEF TreeIs, Shaped
    <3> QED BY <2>4, <3>1
  <2>6. PICK p \in live, i \in Nat :
           i \in 1..Len(kids[p]) /\ kids[p][i] = b /\ Extends(path[p], mem[b].name, path[b])
    BY <2>5, ParentIs
  <2>7. Len(path[p]) = n
    <3>1. Len(path[b]) = Len(path[p]) + 1 /\ Len(path[b]) = n + 1 /\ Len(path[p]) \in Nat
      BY <1>1, <2>4, <2>6 DEF Extends
    <3> QED BY ONLY <3>1, n \in Nat
  <2>8. Leads(path[p], path[x])
    BY <1>1, <2>4, <2>6, LeadsBack
  <2>9. path[p] = path[c]
    <3>1. \A k \in 1..n : path[p][k] = path[x][k] /\ path[c][k] = path[x][k]
      BY <1>5, <2>1, <2>7, <2>8 DEF Leads
    <3>2. \A k \in 1..Len(path[p]) : path[p][k] = path[c][k]
      BY <2>7, <3>1
    <3> QED BY <1>1, <2>1, <2>7, <3>2, SeqEqual
  <2> QED BY <1>2, <2>4, <2>6, <2>9
<1> QED BY <1>3, <1>4, <1>5

\* One step of the walk, for a cell that is live.
LEMMA UnderStep ==
    ASSUME NEW mem, NEW live, NEW kids, NEW path, TreeIs(mem, live, kids, path), NEW c \in live,
           NEW U, NEW k \in 1..Cells, U[k] = UnderAt(mem, U, k)
    PROVE  U[k][Here(path, c)] = {Here(path, c)} \cup
                                 UNION {U[k - 1][Here(path, kids[c][i])] : i \in 1..Len(kids[c])}
<1>1. PICK g : g = Here(path, c)
  OBVIOUS
<1>2. g \in Place /\ g.cell = c /\ g.path = path[c]
  BY <1>1, TypesOfTree DEF Here, Place
<1>3. Listing(mem, g.cell) = kids[c] /\ kids[c] \in Seq(live)
  BY <1>2, ListingIs, TypesOfTree
<1>4. U[k][g] = {g} \cup UNION {U[k - 1][[cell |-> b, path |-> Append(g.path, mem[b].name)]] :
                                    b \in Range(Listing(mem, g.cell))}
  <2>1. k # 0
    OBVIOUS
  <2> QED BY ONLY <1>2, <2>1, U[k] = UnderAt(mem, U, k) DEF UnderAt
<1>5. Range(Listing(mem, g.cell)) = {kids[c][i] : i \in 1..Len(kids[c])}
  <2>1. PICK s : s = kids[c] /\ s \in Seq(live)
    BY <1>3
  <2>2. DOMAIN s = 1..Len(s)
    BY <2>1
  <2>3. Range(s) = {s[i] : i \in 1..Len(s)}
    BY ONLY <2>2 DEF Range
  <2> QED BY <1>3, <2>1, <2>3
<1>6. \A i \in 1..Len(kids[c]) :
         [cell |-> kids[c][i], path |-> Append(g.path, mem[kids[c][i]].name)] = Here(path, kids[c][i])
  <2> TAKE i \in 1..Len(kids[c])
  <2>1. PICK b \in live : b = kids[c][i] /\ path[b] = Append(path[c], mem[b].name)
    BY KidIs
  <2> QED BY <1>2, <2>1 DEF Here
<1> DEFINE On(b) == U[k - 1][[cell |-> b, path |-> Append(g.path, mem[b].name)]]
<1>7. \A i \in 1..Len(kids[c]) : On(kids[c][i]) = U[k - 1][Here(path, kids[c][i])]
  BY <1>6
<1>8. U[k][g] = {g} \cup UNION {On(b) : b \in {kids[c][i] : i \in 1..Len(kids[c])}}
  BY ONLY <1>4, <1>5
<1> HIDE DEF On
<1>9. UNION {On(b) : b \in {kids[c][i] : i \in 1..Len(kids[c])}}
        = UNION {U[k - 1][Here(path, kids[c][i])] : i \in 1..Len(kids[c])}
  BY <1>7
<1> QED BY <1>1, <1>8, <1>9

LEMMA FilesIs ==
    ASSUME NEW mem, NEW live, NEW kids, NEW path, TreeIs(mem, live, kids, path)
    PROVE  Files(mem) = {[cell |-> c, path |-> path[c]] : c \in live}
<1>0. \A k \in 0..Cells : Under(mem)[k] = UnderAt(mem, Under(mem), k)
  BY UnderIs
<1>1. PICK U : U = Under(mem)
  OBVIOUS
<1>2. path[Root] = <<>> /\ Root \in live
  BY DEF TreeIs, Shaped
<1> DEFINE S == {k \in 0..Cells : \A c \in live : Len(path[c]) + k >= Cells
                                    => U[k][Here(path, c)] = BelowOf(live, path, c)}
<1>3. 0 \in S
  <2>1. \A c \in live : ~ (Len(path[c]) + 0 >= Cells)
    BY Shallow
  <2> QED BY <2>1
<1>4. ASSUME NEW k \in 1..Cells, k - 1 \in S PROVE k \in S
  <2>1. SUFFICES ASSUME NEW c \in live, Len(path[c]) + k >= Cells
                 PROVE  U[k][Here(path, c)] = BelowOf(live, path, c)
    OBVIOUS
  <2>2. U[k] = UnderAt(mem, U, k)
    BY <1>0, <1>1
  <2>3. ASSUME NEW i \in 1..Len(kids[c])
        PROVE  U[k - 1][Here(path, kids[c][i])] = BelowOf(live, path, kids[c][i])
    <3>1. PICK b \in live : b = kids[c][i] /\ Extends(path[c], mem[b].name, path[b])
      BY KidIs
    <3>2. Len(path[b]) = Len(path[c]) + 1 /\ Len(path[c]) \in Nat
      BY <3>1, TypesOfTree DEF Extends
    <3>3. Len(path[b]) + (k - 1) >= Cells
      BY <2>1, <3>2
    <3> QED BY <1>4, <3>1, <3>3
  <2>4. U[k][Here(path, c)] = {Here(path, c)} \cup
                              UNION {U[k - 1][Here(path, kids[c][i])] : i \in 1..Len(kids[c])}
    BY <2>2, UnderStep
  <2>5. U[k][Here(path, c)] = {Here(path, c)} \cup UNION {BelowOf(live, path, kids[c][i]) : i \in 1..Len(kids[c])}
    <3> HIDE DEF S
    <3> QED BY <2>3, <2>4
  <2>6. BelowOf(live, path, c) = {Here(path, c)} \cup UNION {BelowOf(live, path, kids[c][i]) : i \in 1..Len(kids[c])}
    <3>1. \A x \in live : Leads(path[c], path[x])
                             <=> x = c \/ \E i \in 1..Len(kids[c]) : Leads(path[kids[c][i]], path[x])
      BY BelowIs
    <3> QED BY ONLY <3>1, c \in live DEF BelowOf
  <2> QED BY <2>5, <2>6
<1>5. Cells \in S
  <2> HIDE DEF S
  <2> QED BY <1>3, <1>4, Climb
<1>6. U[Cells][Here(path, Root)] = BelowOf(live, path, Root)
  <2>1. Len(path[Root]) + Cells >= Cells
    BY <1>2
  <2> QED BY <1>2, <1>5, <2>1
<1>7. BelowOf(live, path, Root) = {[cell |-> c, path |-> path[c]] : c \in live}
  <2>1. \A x \in live : Leads(path[Root], path[x])
    <3> TAKE x \in live
    <3>1. path[x] \in Seq(NodeNames)
      BY TypesOfTree
    <3> QED BY <1>2, <3>1 DEF Leads
  <2> QED BY <2>1 DEF BelowOf, Here
<1>8. Files(mem) = U[Cells][[cell |-> Root, path |-> <<>>]]
  BY <1>1, FilesAreUnder
<1> QED BY <1>2, <1>6, <1>7, <1>8 DEF Here

\* What Vfs gives to FileTree.
TreeFiles(mem) ==
    {[path |-> f.path, text |-> mem[f.cell].text,
      type |-> IF mem[f.cell].used /\ PathOf(mem, f.cell) = f.path THEN mem[f.cell].type ELSE "broken"] :
         f \in Files(mem)}
FileOf(mem, path, c) == [path |-> path[c], text |-> mem[c].text, type |-> mem[c].type]

LEMMA TreeFilesAre ==
    ASSUME NEW mem, NEW live, NEW kids, NEW path, TreeIs(mem, live, kids, path)
    PROVE  TreeFiles(mem) = {FileOf(mem, path, c) : c \in live}
<1>1. Files(mem) = {[cell |-> c, path |-> path[c]] : c \in live}
  BY FilesIs
<1>2. ASSUME NEW c \in live PROVE mem[c].used /\ PathOf(mem, c) = path[c]
  <2>1. PathOf(mem, c) = path[c]
    BY PathIs
  <2>2. mem[c].used
    BY DEF TreeIs, Rooted
  <2> QED BY <2>1, <2>2
<1> DEFINE T(f) == [path |-> f.path, text |-> mem[f.cell].text,
                    type |-> IF mem[f.cell].used /\ PathOf(mem, f.cell) = f.path THEN mem[f.cell].type
                             ELSE "broken"]
<1>3. \A c \in live : T([cell |-> c, path |-> path[c]]) = FileOf(mem, path, c)
  BY <1>2 DEF FileOf
<1>4. TreeFiles(mem) = {T(f) : f \in Files(mem)}
  BY DEF TreeFiles
<1> HIDE DEF T
<1>5. {T(f) : f \in {[cell |-> c, path |-> path[c]] : c \in live}} = {T([cell |-> c, path |-> path[c]]) : c \in live}
  OBVIOUS
<1>6. {T([cell |-> c, path |-> path[c]]) : c \in live} = {FileOf(mem, path, c) : c \in live}
  BY ONLY <1>3
<1> QED BY ONLY <1>1, <1>4, <1>5, <1>6

HIDE VfsAssumption DEF Null, Root, Cell

----------------------------------------------------------------------------
(* What a name finds.                                                      *)

LEMMA CellsAre ==
    /\ Null \in 0..Cells /\ Root \in Cell /\ Null \notin Cell /\ Cell \subseteq 0..Cells /\ Root # Null
    /\ 2 \in Cell /\ 3 \in Cell /\ 4 \in Cell /\ 5 \in Cell /\ 6 \in Cell
  BY VfsAssumption DEF Null, Root, Cell

\* The i-th child of d, by that name.
Holds(mem, kids, d, name, v) == \E i \in 1..Len(kids[d]) : kids[d][i] = v /\ mem[v].name = name

LEMMA NamedIs ==
    ASSUME NEW mem, NEW live, NEW kids, NEW path, TreeIs(mem, live, kids, path), NEW d \in live, NEW name
    PROVE  /\ Named(mem, d, name) = Null \/ Holds(mem, kids, d, name, Named(mem, d, name))
           /\ \A v : Holds(mem, kids, d, name, v) => Named(mem, d, name) = v
<1>1. kids[d] \in Seq(live) /\ Listing(mem, d) = kids[d]
  BY TypesOfTree, ListingIs
<1>2. PICK s \in Seq(live) : s = kids[d]
  BY <1>1
<1> DEFINE at == {i \in DOMAIN s : mem[s[i]].name = name}
<1>3. Named(mem, d, name) = IF mem[d].type = "dir" /\ at # {} THEN s[Min(at)] ELSE Null
  BY ONLY <1>1, <1>2 DEF Named
<1>0. DOMAIN s = 1..Len(s) /\ \A i \in DOMAIN s : i \in Nat
  OBVIOUS
<1>4. \A i, j \in at : i = j
  BY <1>0, <1>2 DEF TreeIs, Placed
<1>5. mem[d].type # "dir" => s = <<>>
  BY <1>2 DEF TreeIs, Placed
<1>6. ASSUME NEW i \in at PROVE Min(at) = i
  <2>1. i \in Int /\ \A j \in at : i <= j
    BY <1>0, <1>4
  <2>2. \A x \in at : (\A j \in at : x <= j) => x = i
    BY <1>4
  <2>3. Min(at) \in at
    <3> HIDE DEF at
    <3> QED BY <2>1 DEF Min
  <2> QED BY <1>4, <2>3
<1>7. ASSUME NEW v, Holds(mem, kids, d, name, v) PROVE Named(mem, d, name) = v
  <2>1. PICK i \in 1..Len(s) : s[i] = v /\ mem[v].name = name
    BY <1>2, <1>7 DEF Holds
  <2>2. i \in at /\ mem[d].type = "dir"
    BY <1>0, <1>5, <2>1, EmptySeq
  <2> QED BY <1>3, <1>6, <2>1, <2>2
<1>8. ASSUME Named(mem, d, name) # Null PROVE Holds(mem, kids, d, name, Named(mem, d, name))
  <2>1. at # {} /\ Named(mem, d, name) = s[Min(at)]
    BY <1>3, <1>8
  <2>2. PICK i \in at : Named(mem, d, name) = s[i]
    BY <1>6, <2>1
  <2> QED BY <1>0, <1>2, <2>2 DEF Holds
<1> QED BY <1>7, <1>8

\* What is found is there.
LEMMA FoundIsThere ==
    ASSUME NEW mem, NEW live, NEW kids, NEW path, TreeIs(mem, live, kids, path), NEW d \in live, NEW name
    PROVE  /\ Named(mem, d, name) \in (live \ {Root}) \cup {Null}
           /\ VfsFind(mem, d, name) \in live \cup {Null}
           /\ mem[d].type = "dir" /\ VfsFind(mem, d, name) = Null => Named(mem, d, name) = Null
<1>1. Named(mem, d, name) \in (live \ {Root}) \cup {Null}
  <2>1. CASE Named(mem, d, name) # Null
    <3>1. PICK i \in 1..Len(kids[d]) : kids[d][i] = Named(mem, d, name)
      BY <2>1, NamedIs DEF Holds
    <3> QED BY <3>1, KidIs
  <2> QED BY <2>1
<1>2. mem[d].parent \in live
  BY DEF TreeIs, Rooted, Shaped
<1>3. \A c \in live : c # Null
  BY CellsAre DEF TreeIs, Shaped
<1> QED BY <1>1, <1>2, <1>3 DEF VfsFind

LEMMA FreshName ==
    ASSUME NEW mem, NEW live, NEW kids, NEW path, TreeIs(mem, live, kids, path), NEW d \in live, NEW name,
           \A b \in live \ {Root} : mem[b].name # name
    PROVE  Named(mem, d, name) = Null
<1>1. SUFFICES ASSUME Named(mem, d, name) # Null PROVE FALSE
  OBVIOUS
<1>2. Named(mem, d, name) \in live \ {Root}
  BY <1>1, FoundIsThere
<1>3. mem[Named(mem, d, name)].name = name
  BY <1>1, NamedIs DEF Holds
<1> QED BY <1>2, <1>3

----------------------------------------------------------------------------
(* A new node.                                                             *)

\* Nothing but the pointers of c may be another.
SameNode(mem, mem2, b) ==
    /\ mem2[b].used = mem[b].used /\ mem2[b].name = mem[b].name /\ mem2[b].type = mem[b].type
    /\ mem2[b].parent = mem[b].parent /\ mem2[b].text = mem[b].text

LEMMA NodeIs == ASSUME NEW d \in 0..Cells, NEW name \in NodeNames, NEW a \in 0..Cells, NEW type \in Kinds,
           NEW text \in AllTexts, NEW u \in {TRUE, FALSE}, NEW b \in 0..Cells
    PROVE  [used |-> u, name |-> name, type |-> type, parent |-> d, first |-> a, next |-> b,
                 text |-> text] \in Nodes
  BY DEF Nodes
LEMMA NewNodeIs ==
    ASSUME NEW d \in 0..Cells, NEW name \in NodeNames, NEW type \in Kinds,
           NEW text \in AllTexts
    PROVE  NewNode(d, name, type, text) \in Nodes
  BY CellsAre DEF Nodes, NewNode
LEMMA FreeCellIs == FreeCell \in Nodes
<1>1. PICK n \in NodeNames : n = ""
  BY DEF NodeNames
<1>2. PICK t \in AllTexts : t = ""
  BY DEF AllTexts
<1>3. "file" \in Kinds /\ Null \in 0..Cells
  BY CellsAre DEF Kinds
<1>4. [used |-> FALSE, name |-> n, type |-> "file", parent |-> Null, first |-> Null, next |-> Null, text |-> t]
         \in Nodes
  BY ONLY <1>3, NodeIs, n \in NodeNames, t \in AllTexts
<1> QED BY ONLY <1>1, <1>2, <1>4 DEF FreeCell

LEMMA FirstSet ==
    ASSUME NEW mem \in [Cell -> Nodes], NEW d \in Cell, NEW x \in 0..Cells,
           NEW m, m = SetFirst(mem, d, x)
    PROVE  /\ m \in [Cell -> Nodes] /\ SameNode(mem, m, d) /\ m[d].first = x /\ m[d].next = mem[d].next
           /\ \A b \in Cell : b # d => m[b] = mem[b]
  BY DEF Nodes, SameNode, SetFirst

LEMMA NextSet ==
    ASSUME NEW mem \in [Cell -> Nodes], NEW d \in Cell, NEW x \in 0..Cells,
           NEW m, m = SetNext(mem, d, x)
    PROVE  /\ m \in [Cell -> Nodes] /\ SameNode(mem, m, d) /\ m[d].next = x /\ m[d].first = mem[d].first
           /\ \A b \in Cell : b # d => m[b] = mem[b]
  BY DEF Nodes, SameNode, SetNext

IsNew(mem, mem2, live, kids, c, d, name, type, text) ==
    /\ mem2 \in [Cell -> Nodes]
    /\ mem2[c] = [used |-> TRUE, name |-> name, type |-> type, parent |-> d, first |-> Null, next |-> Null,
                  text |-> text]
    /\ \A b \in live : SameNode(mem, mem2, b)
    /\ \A b \in live : mem2[b].first = IF b = d /\ kids[d] = <<>> THEN c ELSE mem[b].first
    /\ \A b \in live : mem2[b].next = IF kids[d] # <<>> /\ b = kids[d][Len(kids[d])] THEN c ELSE mem[b].next

LEMMA CreateIs ==
    ASSUME NEW mem, NEW live, NEW kids, NEW path, TreeIs(mem, live, kids, path), NEW d \in live,
           NEW c \in Cell \ live, NEW name \in NodeNames, NEW type \in Kinds,
           NEW text \in AllTexts
    PROVE  IsNew(mem, Create(mem, c, d, name, type, text), live, kids, c, d, name, type, text)
<1>0. PICK N : N = NewNode(d, name, type, text)
  OBVIOUS
<1>1. live \subseteq Cell /\ mem \in [Cell -> Nodes] /\ kids[d] \in Seq(live)
  BY TypesOfTree DEF TreeIs, Shaped
<1>2. N \in Nodes
  <2>1. d \in 0..Cells
    BY <1>1, CellsAre
  <2> QED BY <1>0, <2>1, NewNodeIs
<1>3. PICK new : new = [mem EXCEPT ![c] = N]
  OBVIOUS
<1>4. Create(mem, c, d, name, type, text) =
        IF kids[d] = <<>> THEN SetFirst(new, d, c) ELSE SetNext(new, kids[d][Len(kids[d])], c)
  <2>1. Listing(mem, d) = kids[d]
    BY ListingIs
  <2> QED BY ONLY <1>0, <1>3, <2>1 DEF Create
<1>5. new \in [Cell -> Nodes] /\ new[c] = N /\ \A b \in live : new[b] = mem[b] /\ b # c
  BY ONLY <1>1, <1>2, <1>3, c \in Cell \ live
<1>6. c \in 0..Cells /\ d \in Cell
  BY <1>1, CellsAre
<1>7. CASE kids[d] = <<>>
  <2>1. PICK m : m = SetFirst(new, d, c)
    OBVIOUS
  <2>2. m \in [Cell -> Nodes] /\ SameNode(new, m, d) /\ m[d].first = c /\ m[d].next = new[d].next
    BY ONLY <1>5, <1>6, <2>1, FirstSet
  <2>3. \A b \in Cell : b # d => m[b] = new[b]
    BY ONLY <1>5, <1>6, <2>1, FirstSet
  <2>4. m[c] = N
    BY <1>5, <2>3
  <2>5. \A b \in live : b # d => m[b] = mem[b]
    BY <1>1, <1>5, <2>3
  <2>6. SameNode(mem, m, d) /\ m[d].first = c /\ m[d].next = mem[d].next
    BY <1>5, <2>2 DEF SameNode
  <2>7. IsNew(mem, m, live, kids, c, d, name, type, text)
    BY <1>0, <1>7, <2>2, <2>4, <2>5, <2>6 DEF IsNew, SameNode, NewNode
  <2> QED BY <1>4, <1>7, <2>1, <2>7
<1>8. CASE kids[d] # <<>>
  <2>1. PICK z \in live : z = kids[d][Len(kids[d])]
    <3>1. Len(kids[d]) \in 1..Len(kids[d])
      BY <1>1, <1>8, EmptySeq
    <3> QED BY <1>1, <3>1, ElementOfSeq
  <2>2. PICK m : m = SetNext(new, z, c)
    OBVIOUS
  <2>3. m \in [Cell -> Nodes] /\ SameNode(new, m, z) /\ m[z].next = c /\ m[z].first = new[z].first
    BY ONLY <1>1, <1>5, <1>6, <2>1, <2>2, NextSet
  <2>4. \A b \in Cell : b # z => m[b] = new[b]
    BY ONLY <1>1, <1>5, <1>6, <2>1, <2>2, NextSet
  <2>5. m[c] = N
    BY <1>5, <2>1, <2>4
  <2>6. \A b \in live : b # z => m[b] = mem[b]
    BY <1>1, <1>5, <2>4
  <2>7. SameNode(mem, m, z) /\ m[z].next = c /\ m[z].first = mem[z].first
    BY <1>5, <2>3 DEF SameNode
  <2>8. IsNew(mem, m, live, kids, c, d, name, type, text)
    BY <1>0, <1>8, <2>1, <2>3, <2>5, <2>6, <2>7 DEF IsNew, SameNode, NewNode
  <2> QED BY <1>4, <1>8, <2>1, <2>2, <2>8
<1> QED BY <1>7, <1>8

\* The tree with the new node.
MoreKids(live, kids, c, d) ==
    [b \in live \cup {c} |-> IF b = c THEN <<>> ELSE IF b = d THEN Append(kids[d], c) ELSE kids[b]]
MorePaths(live, path, c, d, name) ==
    [b \in live \cup {c} |-> IF b = c THEN Append(path[d], name) ELSE path[b]]

LEMMA AppendOnce ==
    ASSUME NEW S, NEW p \in Seq(S), NEW q \in Seq(S), NEW x \in S, NEW y \in S, Append(p, x) = Append(q, y)
    PROVE  p = q /\ x = y
  BY AppendProperties

LEMMA MoreShaped ==
    ASSUME NEW mem, NEW live, NEW kids, NEW path, TreeIs(mem, live, kids, path), NEW d \in live,
           NEW c \in Cell \ live, NEW name \in NodeNames, Named(mem, d, name) = Null
    PROVE  Shaped(live \cup {c}, MoreKids(live, kids, c, d), MorePaths(live, path, c, d, name))
<1>1. PICK k2 : k2 = MoreKids(live, kids, c, d)
  OBVIOUS
<1>2. PICK p2 : p2 = MorePaths(live, path, c, d, name)
  OBVIOUS
<1>3. /\ Root \in live /\ live \subseteq Cell /\ path[Root] = <<>>
      /\ kids \in [live -> Seq(live)] /\ path \in [live -> Seq(NodeNames)]
      /\ \A a, b \in live : path[a] = path[b] => a = b
  BY DEF TreeIs, Shaped
<1>4. \A b \in live : kids[b] \in Seq(live \cup {c})
  BY <1>3
<1>5. Append(kids[d], c) \in Seq(live \cup {c}) /\ <<>> \in Seq(live \cup {c})
  BY <1>4
<1>6. k2 \in [live \cup {c} -> Seq(live \cup {c})]
  BY <1>1, <1>4, <1>5 DEF MoreKids
<1>7. Append(path[d], name) \in Seq(NodeNames) /\ Append(path[d], name) # <<>>
  BY <1>3, Longer
<1>8. p2 \in [live \cup {c} -> Seq(NodeNames)] /\ p2[Root] = <<>>
  BY <1>2, <1>3, <1>7 DEF MorePaths
<1>9. ASSUME NEW b \in live, path[b] = Append(path[d], name) PROVE FALSE
  <2>1. b # Root
    BY <1>3, <1>7, <1>9
  <2>2. PICK p \in live, i \in Nat :
           /\ p = mem[b].parent /\ i \in 1..Len(kids[p]) /\ kids[p][i] = b
           /\ path[b] = Append(path[p], mem[b].name)
    BY <2>1, ParentIs
  <2>3. path[p] \in Seq(NodeNames) /\ path[d] \in Seq(NodeNames) /\ mem[b].name \in NodeNames
    BY TypesOfTree
  <2>4. path[p] = path[d] /\ mem[b].name = name
    <3>1. Append(path[p], mem[b].name) = Append(path[d], name) /\ name \in NodeNames
      BY ONLY <1>9, <2>2, name \in NodeNames
    <3> QED BY ONLY <2>3, <3>1, AppendOnce
  <2>5. p = d
    BY <1>3, <2>4
  <2>6. Holds(mem, kids, d, name, b)
    BY <2>2, <2>4, <2>5 DEF Holds
  <2>7. b = Null
    BY <2>6, NamedIs
  <2> QED BY <1>3, <2>7, CellsAre
<1>10. ASSUME NEW a \in live \cup {c}, NEW b \in live \cup {c}, p2[a] = p2[b] PROVE a = b
  BY <1>2, <1>3, <1>9, <1>10 DEF MorePaths
<1> QED BY <1>1, <1>2, <1>3, <1>6, <1>8, <1>10 DEF Shaped

LEMMA MoreRooted ==
    ASSUME NEW mem, NEW live, NEW kids, NEW path, TreeIs(mem, live, kids, path), NEW d \in live,
           NEW c \in Cell \ live, NEW name, NEW type, NEW text, NEW m,
           IsNew(mem, m, live, kids, c, d, name, type, text), type = "dir" => name \notin Packages
    PROVE  Rooted(m, live \cup {c}, MoreKids(live, kids, c, d))
<1>1. PICK k2 : k2 = MoreKids(live, kids, c, d)
  OBVIOUS
<1>2. Root \in live /\ live \subseteq Cell /\ kids[d] \in Seq(live)
  BY TypesOfTree DEF TreeIs, Shaped
<1>3. m[Root].parent = Root /\ m[Root].type = "dir"
  BY <1>2 DEF TreeIs, Rooted, IsNew, SameNode
<1>4. m[c].used /\ m[c].parent = d /\ (m[c].type = "dir" => m[c].name \notin Packages)
  BY DEF IsNew
<1>5. \A b \in live : m[b].used = mem[b].used /\ mem[b].used
  BY DEF TreeIs, Rooted, IsNew, SameNode
<1>6. \A b \in live : k2[b] = IF b = d THEN Append(kids[d], c) ELSE kids[b]
  BY <1>1 DEF MoreKids
<1>7. /\ Len(kids[d]) + 1 \in 1..Len(k2[d]) /\ k2[d][Len(kids[d]) + 1] = c
      /\ \A i \in 1..Len(kids[d]) : i \in 1..Len(k2[d]) /\ k2[d][i] = kids[d][i]
  <2>1. k2[d] = Append(kids[d], c)
    BY <1>6
  <2>2. kids[d] \in Seq(live \cup {c}) /\ c \in live \cup {c}
    BY <1>2
  <2> QED BY ONLY <2>1, <2>2, AppendProperties
<1>8. ASSUME NEW b \in live \ {Root}
      PROVE  /\ m[b].parent \in live /\ \E i \in 1..Len(k2[m[b].parent]) : k2[m[b].parent][i] = b
             /\ m[b].type = "dir" => m[b].name \notin Packages
  <2>1. PICK p \in live : /\ p = mem[b].parent /\ (\E i \in 1..Len(kids[p]) : kids[p][i] = b)
                          /\ mem[b].type = "dir" => mem[b].name \notin Packages
    BY DEF TreeIs, Rooted
  <2>2. m[b].parent = p /\ m[b].type = mem[b].type /\ m[b].name = mem[b].name
    BY <2>1 DEF IsNew, SameNode
  <2>3. \E i \in 1..Len(k2[p]) : k2[p][i] = b
    BY <1>6, <1>7, <2>1
  <2> QED BY <2>1, <2>2, <2>3
<1>9. \E i \in 1..Len(k2[d]) : k2[d][i] = c
  BY <1>7
<1> QED BY <1>1, <1>3, <1>4, <1>5, <1>8, <1>9 DEF Rooted

LEMMA OneChild ==
    ASSUME NEW mem, NEW live, NEW kids, NEW path, TreeIs(mem, live, kids, path), NEW b \in live, NEW d \in live,
           NEW i \in 1..Len(kids[b]), NEW j \in 1..Len(kids[d]), kids[b][i] = kids[d][j]
    PROVE  b = d /\ i = j
<1>1. mem[kids[b][i]].parent = b /\ mem[kids[d][j]].parent = d
  BY DEF TreeIs, Placed
<1>2. b = d
  BY <1>1
<1>3. mem[kids[d][i]].name = mem[kids[d][j]].name /\ i \in 1..Len(kids[d])
  BY <1>2
<1>4. i = j
  BY <1>3 DEF TreeIs, Placed
<1> QED BY <1>2, <1>4

LEMMA AppendIs ==
    ASSUME NEW S, NEW s \in Seq(S), NEW c \in S, NEW t, t = Append(s, c)
    PROVE  /\ Len(s) \in Nat /\ Len(t) = Len(s) + 1 /\ t # <<>> /\ t[Len(s) + 1] = c
           /\ \A i \in 1..Len(s) : t[i] = s[i]
           /\ \A i \in 1..Len(t) : i = Len(s) + 1 \/ i \in 1..Len(s)
<1>1. Len(s) \in Nat /\ Len(t) = Len(s) + 1 /\ t # <<>> /\ t[Len(s) + 1] = c /\ \A i \in 1..Len(s) : t[i] = s[i]
  BY AppendProperties
<1>2. \A i \in 1..Len(t) : i = Len(s) + 1 \/ i \in 1..Len(s)
  BY ONLY <1>1
<1> QED BY <1>1, <1>2

LEMMA MoreLinked ==
    ASSUME NEW mem, NEW live, NEW kids, NEW path, TreeIs(mem, live, kids, path), NEW d \in live,
           NEW c \in Cell \ live, NEW name, NEW type, NEW text, NEW m,
           IsNew(mem, m, live, kids, c, d, name, type, text), NEW b \in live \cup {c}
    PROVE  Linked(m, MoreKids(live, kids, c, d), b)
<1>1. PICK k2 : k2 = MoreKids(live, kids, c, d)
  OBVIOUS
<1>2. SUFFICES Linked(m, k2, b)
  BY <1>1
<1>3. live \subseteq Cell /\ \A a \in live : kids[a] \in Seq(live) /\ Linked(mem, kids, a)
  BY TypesOfTree DEF TreeIs, Shaped
<1>4. m[c].first = Null /\ m[c].next = Null
  BY DEF IsNew
<1>5. CASE b = c
  <2>1. k2[b] = <<>> /\ Len(<<>>) = 0
    BY <1>1, <1>5 DEF MoreKids
  <2>2. \A i \in 1..Len(k2[b]) : FALSE
    BY <2>1
  <2> QED BY <1>4, <1>5, <2>1, <2>2 DEF Linked
<1>6. CASE b = d
  <2>1. PICK s \in Seq(live), n \in Nat : s = kids[d] /\ n = Len(s)
    BY <1>3
  <2>2. PICK t : t = k2[d] /\ t = Append(s, c)
    BY <1>1, <2>1 DEF MoreKids
  <2>3. s \in Seq(live \cup {c}) /\ c \in live \cup {c}
    BY <2>1
  <2>4. /\ Len(t) = n + 1 /\ t # <<>> /\ t[n + 1] = c /\ \A i \in 1..n : t[i] = s[i]
        /\ \A i \in 1..n + 1 : i = n + 1 \/ i \in 1..n
    BY ONLY <2>1, <2>2, <2>3, AppendIs
  <2>5. /\ mem[d].first = IF s = <<>> THEN Null ELSE s[1]
        /\ \A i \in 1..n : mem[s[i]].next = IF i = n THEN Null ELSE s[i + 1]
    BY <1>3, <2>1 DEF Linked
  <2>6. m[d].first = t[1]
    <3>1. m[d].first = IF s = <<>> THEN c ELSE mem[d].first
      BY <2>1 DEF IsNew
    <3>2. CASE s = <<>>
      <4>1. n + 1 = 1
        BY <2>1, <3>2
      <4> QED BY <2>4, <3>1, <3>2, <4>1
    <3>3. CASE s # <<>>
      <4>1. 1 \in 1..n
        BY <2>1, <3>3, EmptySeq
      <4> QED BY <2>4, <2>5, <3>1, <3>3, <4>1
    <3> QED BY <3>2, <3>3
  <2>7. ASSUME NEW i \in 1..n PROVE m[t[i]].next = t[i + 1]
    <3>1. s[i] \in live /\ t[i] = s[i] /\ s # <<>> /\ i + 1 \in 1..n + 1
      BY <2>1, <2>4, ElementOfSeq
    <3>2. m[s[i]].next = IF s[i] = s[n] THEN c ELSE mem[s[i]].next
      BY <2>1, <3>1 DEF IsNew
    <3>3. CASE i = n
      BY <2>4, <3>1, <3>2, <3>3
    <3>4. CASE i # n
      <4>1. n \in 1..n /\ i + 1 \in 1..n
        BY <3>4
      <4>2. s[i] # s[n]
        BY <2>1, <3>4, <4>1, OneChild
      <4> QED BY <2>4, <2>5, <3>1, <3>2, <3>4, <4>1, <4>2
    <3> QED BY <3>3, <3>4
  <2>8. ASSUME NEW i \in 1..n + 1 PROVE m[t[i]].next = IF i = n + 1 THEN Null ELSE t[i + 1]
    <3>1. i \in 1..n => i # n + 1
      OBVIOUS
    <3> QED BY <1>4, <2>4, <2>7, <3>1
  <2> QED BY <1>6, <2>2, <2>4, <2>6, <2>8 DEF Linked
<1>7. CASE b # c /\ b # d
  <2>1. b \in live /\ k2[b] = kids[b]
    BY <1>1, <1>7 DEF MoreKids
  <2>2. m[b].first = mem[b].first
    BY <1>7, <2>1 DEF IsNew
  <2>3. ASSUME NEW i \in 1..Len(kids[b]) PROVE m[kids[b][i]].next = mem[kids[b][i]].next
    <3>1. kids[b][i] \in live
      BY <1>3, <2>1, ElementOfSeq
    <3>2. CASE kids[d] = <<>>
      BY <3>1, <3>2 DEF IsNew
    <3>3. CASE kids[d] # <<>>
      <4>1. Len(kids[d]) \in 1..Len(kids[d])
        <5>1. kids[d] \in Seq(live)
          BY <1>3
        <5> QED BY <3>3, <5>1, EmptySeq
      <4>2. kids[b][i] # kids[d][Len(kids[d])]
        BY <1>7, <2>1, <4>1, OneChild
      <4> QED BY <3>1, <4>2 DEF IsNew
    <3> QED BY <3>2, <3>3
  <2>4. Linked(mem, kids, b)
    BY <1>3, <2>1
  <2> QED BY <2>1, <2>2, <2>3, <2>4 DEF Linked
<1> QED BY <1>5, <1>6, <1>7

LEMMA MorePlaced ==
    ASSUME NEW mem, NEW live, NEW kids, NEW path, TreeIs(mem, live, kids, path), NEW d \in live,
           NEW c \in Cell \ live, NEW name, NEW type, NEW text, NEW m,
           IsNew(mem, m, live, kids, c, d, name, type, text), NEW b \in live \cup {c},
           mem[d].type = "dir", Named(mem, d, name) = Null
    PROVE  Placed(m, MoreKids(live, kids, c, d), MorePaths(live, path, c, d, name), b)
<1>1. PICK k2, p2 : k2 = MoreKids(live, kids, c, d) /\ p2 = MorePaths(live, path, c, d, name)
  OBVIOUS
<1>2. SUFFICES Placed(m, k2, p2, b)
  BY <1>1
<1>3. live \subseteq Cell /\ \A a \in live : kids[a] \in Seq(live) /\ Placed(mem, kids, path, a)
  BY TypesOfTree DEF TreeIs, Shaped
<1>4. p2[c] = Append(path[d], name) /\ m[c].parent = d /\ m[c].name = name
  BY <1>1 DEF MorePaths, IsNew
<1>5. \A a \in live : p2[a] = path[a] /\ SameNode(mem, m, a)
  BY <1>1 DEF MorePaths, IsNew
<1>6. \A a \in live : \A i \in 1..Len(kids[a]) : kids[a][i] \in live
  BY <1>3, ElementOfSeq
<1>7. CASE b = c
  <2>1. k2[b] = <<>> /\ Len(<<>>) = 0
    BY <1>1, <1>7 DEF MoreKids
  <2>2. \A i \in 1..Len(k2[b]) : FALSE
    BY <2>1
  <2> QED BY <2>1, <2>2 DEF Placed
<1>8. CASE b = d
  <2>1. PICK s \in Seq(live), n \in Nat : s = kids[d] /\ n = Len(s)
    BY <1>3
  <2>2. PICK t : t = k2[d] /\ t = Append(s, c)
    BY <1>1, <2>1 DEF MoreKids
  <2>3. s \in Seq(live \cup {c}) /\ c \in live \cup {c}
    BY <2>1
  <2>4. /\ Len(t) = n + 1 /\ t # <<>> /\ t[n + 1] = c /\ \A i \in 1..n : t[i] = s[i]
        /\ \A i \in 1..n + 1 : i = n + 1 \/ i \in 1..n
    BY ONLY <2>1, <2>2, <2>3, AppendIs
  <2>5. \A i \in 1..n : /\ mem[s[i]].parent = d /\ path[s[i]] = Append(path[d], mem[s[i]].name)
                        /\ s[i] \in live
    BY <1>3, <1>6, <2>1 DEF Placed
  <2>6. \A i, j \in 1..n : mem[s[i]].name = mem[s[j]].name => i = j
    BY <1>3, <2>1 DEF Placed
  <2>7. m[d].type = "dir" /\ p2[d] = path[d]
    BY <1>5 DEF SameNode
  <2>8. ASSUME NEW i \in 1..n + 1
        PROVE  m[t[i]].parent = d /\ p2[t[i]] = Append(p2[d], m[t[i]].name)
    BY <1>4, <1>5, <2>4, <2>5, <2>7 DEF SameNode
  <2>9. \A i \in 1..n : m[t[i]].name = mem[s[i]].name
    BY <1>5, <2>4, <2>5 DEF SameNode
  <2>10. \A i \in 1..n : mem[s[i]].name # name
    <3>1. SUFFICES ASSUME NEW i \in 1..n, mem[s[i]].name = name PROVE FALSE
      OBVIOUS
    <3>2. Holds(mem, kids, d, name, s[i])
      BY <2>1, <3>1 DEF Holds
    <3>3. s[i] = Null
      BY <3>2, NamedIs
    <3> QED BY <1>3, <2>5, <3>3, CellsAre
  <2>11. ASSUME NEW i \in 1..n + 1, NEW j \in 1..n + 1, m[t[i]].name = m[t[j]].name PROVE i = j
    BY <1>4, <2>4, <2>6, <2>9, <2>10, <2>11
  <2> QED BY <1>8, <2>2, <2>4, <2>7, <2>8, <2>11 DEF Placed
<1>9. CASE b # c /\ b # d
  <2>1. b \in live /\ k2[b] = kids[b]
    BY <1>1, <1>9 DEF MoreKids
  <2>2. Placed(mem, kids, path, b)
    BY <1>3, <2>1
  <2>3. \A i \in 1..Len(kids[b]) : SameNode(mem, m, kids[b][i]) /\ p2[kids[b][i]] = path[kids[b][i]]
    BY <1>5, <1>6, <2>1
  <2>4. p2[b] = path[b] /\ m[b].type = mem[b].type
    BY <1>5, <2>1 DEF SameNode
  <2> QED BY <2>1, <2>2, <2>3, <2>4 DEF Placed, SameNode
<1> QED BY <1>7, <1>8, <1>9

\* vfs_create makes a tree with one more cell, and changes none of the others.
LEMMA CreateStep ==
    ASSUME NEW mem, NEW live, NEW kids, NEW path, TreeIs(mem, live, kids, path), NEW d \in live,
           NEW c \in Cell \ live, NEW name \in NodeNames, NEW type \in Kinds, NEW text \in AllTexts,
           mem[d].type = "dir", Named(mem, d, name) = Null, type = "dir" => name \notin Packages,
           NEW m, m = Create(mem, c, d, name, type, text)
    PROVE  /\ TreeIs(m, live \cup {c}, MoreKids(live, kids, c, d), MorePaths(live, path, c, d, name))
           /\ IsNew(mem, m, live, kids, c, d, name, type, text)
<1>1. IsNew(mem, m, live, kids, c, d, name, type, text)
  BY CreateIs
<1>2. Shaped(live \cup {c}, MoreKids(live, kids, c, d), MorePaths(live, path, c, d, name))
  BY MoreShaped
<1>3. Rooted(m, live \cup {c}, MoreKids(live, kids, c, d))
  BY <1>1, MoreRooted
<1>4. m \in [Cell -> Nodes]
  BY <1>1 DEF IsNew
<1>5. ASSUME NEW b \in live \cup {c}
      PROVE  /\ Linked(m, MoreKids(live, kids, c, d), b)
             /\ Placed(m, MoreKids(live, kids, c, d), MorePaths(live, path, c, d, name), b)
  <2>1. Linked(m, MoreKids(live, kids, c, d), b)
    BY <1>1, MoreLinked
  <2>2. Placed(m, MoreKids(live, kids, c, d), MorePaths(live, path, c, d, name), b)
    BY <1>1, MorePlaced
  <2> QED BY <2>1, <2>2
<1> QED BY <1>1, <1>2, <1>3, <1>4, <1>5 DEF TreeIs

----------------------------------------------------------------------------
(* vfs_init makes such a tree.                                             *)

HasTree(mem, live) == \E kids, path : TreeIs(mem, live, kids, path)

LEMMA FirstTree ==
    HasTree([c \in Cell |-> IF c = Root THEN NewNode(Root, "/", "dir", "") ELSE FreeCell], {Root})
<1>1. PICK N : N = NewNode(Root, "/", "dir", "")
  OBVIOUS
<1>2. PICK mem : mem = [c \in Cell |-> IF c = Root THEN N ELSE FreeCell]
  OBVIOUS
<1>3. PICK kids, path : kids = [b \in {Root} |-> <<>>] /\ path = [b \in {Root} |-> <<>>]
  OBVIOUS
<1>4. N \in Nodes
  BY <1>1, NewNodeIs, CellsAre DEF NodeNames, Kinds, AllTexts
<1>5. mem \in [Cell -> Nodes] /\ mem[Root] = N
  BY <1>2, <1>4, FreeCellIs, CellsAre
<1>6. N.used /\ N.parent = Root /\ N.type = "dir" /\ N.first = Null
  BY <1>1 DEF NewNode
<1>7. <<>> \in Seq({Root}) /\ <<>> \in Seq(NodeNames)
  OBVIOUS
<1>8. kids[Root] = <<>> /\ Len(kids[Root]) = 0 /\ \A i \in 1..Len(kids[Root]) : FALSE
  BY <1>3
<1>9. Shaped({Root}, kids, path)
  BY <1>3, <1>7, CellsAre DEF Shaped
<1>10. Rooted(mem, {Root}, kids)
  BY <1>5, <1>6 DEF Rooted
<1>11. Linked(mem, kids, Root) /\ Placed(mem, kids, path, Root)
  BY <1>5, <1>6, <1>8 DEF Linked, Placed
<1>12. TreeIs(mem, {Root}, kids, path)
  BY <1>5, <1>9, <1>10, <1>11 DEF TreeIs
<1> QED BY <1>1, <1>2, <1>12 DEF HasTree

Bootable(mem, live, c, d, name, type, text) ==
    /\ HasTree(mem, live) /\ d \in live /\ c \in Cell \ live
    /\ name \in NodeNames /\ type \in Kinds /\ text \in AllTexts
    /\ type = "dir" => name \notin Packages
    /\ mem[d].type = "dir" /\ \A b \in live \ {Root} : mem[b].name # name
BootedTo(mem, m, live, c, name, type) ==
    /\ HasTree(m, live \cup {c}) /\ m[c].name = name /\ m[c].type = type
    /\ \A b \in live : m[b].name = mem[b].name /\ m[b].type = mem[b].type

LEMMA BootStep ==
    ASSUME NEW mem, NEW live, NEW c, NEW d, NEW name, NEW type, NEW text,
           Bootable(mem, live, c, d, name, type, text)
    PROVE  BootedTo(mem, Create(mem, c, d, name, type, text), live, c, name, type)
<1> USE DEF Bootable
<1>0. PICK m : m = Create(mem, c, d, name, type, text)
  OBVIOUS
<1>1. PICK kids, path : TreeIs(mem, live, kids, path)
  BY DEF HasTree
<1>2. Named(mem, d, name) = Null
  BY <1>1, FreshName
<1>3. /\ TreeIs(m, live \cup {c}, MoreKids(live, kids, c, d), MorePaths(live, path, c, d, name))
      /\ IsNew(mem, m, live, kids, c, d, name, type, text)
  BY <1>0, <1>1, <1>2, CreateStep
<1>4. HasTree(m, live \cup {c})
  BY <1>3 DEF HasTree
<1> QED BY <1>0, <1>3, <1>4 DEF IsNew, SameNode, BootedTo

LEMMA BootedIs == \E live : HasTree(Booted, live)
<1>1. PICK n0 : n0 = [c \in Cell |-> IF c = Root THEN NewNode(Root, "/", "dir", "") ELSE FreeCell]
  OBVIOUS
<1>2. PICK n1 : n1 = Create(n0, 2, Root, "home", "dir", "")
  OBVIOUS
<1>3. PICK n2 : n2 = Create(n1, 3, Root, "bin", "dir", "")
  OBVIOUS
<1>4. PICK n3 : n3 = Create(n2, 4, Root, "readme.txt", "file", "welcome")
  OBVIOUS
<1>5. PICK n4 : n4 = Create(n3, 5, 2, "user", "dir", "")
  OBVIOUS
<1>6. PICK n5 : n5 = Create(n4, 6, 5, "notes.txt", "file", "notes")
  OBVIOUS
<1>7. Booted = n5
  BY <1>1, <1>2, <1>3, <1>4, <1>5, <1>6 DEF Booted
<1>8. "home" \notin Packages /\ "bin" \notin Packages /\ "user" \notin Packages
  BY VfsAssumption
<1>9. /\ "home" \in NodeNames /\ "bin" \in NodeNames /\ "user" \in NodeNames /\ "readme.txt" \in NodeNames
      /\ "notes.txt" \in NodeNames /\ "dir" \in Kinds /\ "file" \in Kinds
      /\ "" \in AllTexts /\ "welcome" \in AllTexts /\ "notes" \in AllTexts
  BY DEF NodeNames, Kinds, AllTexts
<1>10. HasTree(n0, {Root}) /\ n0[Root].type = "dir"
  BY <1>1, FirstTree, CellsAre DEF NewNode
<1>11. /\ HasTree(n1, {Root, 2}) /\ n1[Root].type = "dir"
       /\ n1[2].name = "home" /\ n1[2].type = "dir"
  <2>1. /\ 2 \in Cell \ {Root} /\ Root \in {Root}
        /\ {Root} \cup {2} = {Root, 2}
    BY CellsAre DEF Root
  <2>2. \A b \in {Root} \ {Root} : n0[b].name # "home"
    BY <1>10
  <2>3. n0[Root].type = "dir" /\ ("dir" = "dir" => "home" \notin Packages)
    BY <1>8, <1>10
  <2>4. Bootable(n0, {Root}, 2, Root, "home", "dir", "")
    BY <1>9, <1>10, <2>1, <2>2, <2>3 DEF Bootable
  <2>5. BootedTo(n0, n1, {Root}, 2, "home", "dir")
    BY ONLY <1>2, <2>4, BootStep
  <2> QED BY <1>10, <2>1, <2>5 DEF BootedTo
<1>12. /\ HasTree(n2, {Root, 2, 3}) /\ n2[Root].type = "dir"
       /\ n2[2].name = "home" /\ n2[2].type = "dir"
       /\ n2[3].name = "bin" /\ n2[3].type = "dir"
  <2>1. /\ 3 \in Cell \ {Root, 2} /\ Root \in {Root, 2}
        /\ {Root, 2} \cup {3} = {Root, 2, 3}
    BY CellsAre DEF Root
  <2>2. \A b \in {Root, 2} \ {Root} : n1[b].name # "bin"
    BY <1>11
  <2>3. n1[Root].type = "dir" /\ ("dir" = "dir" => "bin" \notin Packages)
    BY <1>8, <1>11
  <2>4. Bootable(n1, {Root, 2}, 3, Root, "bin", "dir", "")
    BY <1>9, <1>11, <2>1, <2>2, <2>3 DEF Bootable
  <2>5. BootedTo(n1, n2, {Root, 2}, 3, "bin", "dir")
    BY ONLY <1>3, <2>4, BootStep
  <2> QED BY <1>11, <2>1, <2>5 DEF BootedTo
<1>13. /\ HasTree(n3, {Root, 2, 3, 4}) /\ n3[Root].type = "dir"
       /\ n3[2].name = "home" /\ n3[2].type = "dir"
       /\ n3[3].name = "bin" /\ n3[3].type = "dir"
       /\ n3[4].name = "readme.txt" /\ n3[4].type = "file"
  <2>1. /\ 4 \in Cell \ {Root, 2, 3} /\ Root \in {Root, 2, 3}
        /\ {Root, 2, 3} \cup {4} = {Root, 2, 3, 4}
    BY CellsAre DEF Root
  <2>2. \A b \in {Root, 2, 3} \ {Root} : n2[b].name # "readme.txt"
    BY <1>12
  <2>3. n2[Root].type = "dir" /\ ("file" = "dir" => "readme.txt" \notin Packages)
    BY <1>8, <1>12
  <2>4. Bootable(n2, {Root, 2, 3}, 4, Root, "readme.txt", "file", "welcome")
    BY <1>9, <1>12, <2>1, <2>2, <2>3 DEF Bootable
  <2>5. BootedTo(n2, n3, {Root, 2, 3}, 4, "readme.txt", "file")
    BY ONLY <1>4, <2>4, BootStep
  <2> QED BY <1>12, <2>1, <2>5 DEF BootedTo
<1>14. /\ HasTree(n4, {Root, 2, 3, 4, 5}) /\ n4[Root].type = "dir"
       /\ n4[2].name = "home" /\ n4[2].type = "dir"
       /\ n4[3].name = "bin" /\ n4[3].type = "dir"
       /\ n4[4].name = "readme.txt" /\ n4[4].type = "file"
       /\ n4[5].name = "user" /\ n4[5].type = "dir"
  <2>1. /\ 5 \in Cell \ {Root, 2, 3, 4} /\ 2 \in {Root, 2, 3, 4}
        /\ {Root, 2, 3, 4} \cup {5} = {Root, 2, 3, 4, 5}
    BY CellsAre DEF Root
  <2>2. \A b \in {Root, 2, 3, 4} \ {Root} : n3[b].name # "user"
    BY <1>13
  <2>3. n3[2].type = "dir" /\ ("dir" = "dir" => "user" \notin Packages)
    BY <1>8, <1>13
  <2>4. Bootable(n3, {Root, 2, 3, 4}, 5, 2, "user", "dir", "")
    BY <1>9, <1>13, <2>1, <2>2, <2>3 DEF Bootable
  <2>5. BootedTo(n3, n4, {Root, 2, 3, 4}, 5, "user", "dir")
    BY ONLY <1>5, <2>4, BootStep
  <2> QED BY <1>13, <2>1, <2>5 DEF BootedTo
<1>15. /\ HasTree(n5, {Root, 2, 3, 4, 5, 6}) /\ n5[Root].type = "dir"
       /\ n5[2].name = "home" /\ n5[2].type = "dir"
       /\ n5[3].name = "bin" /\ n5[3].type = "dir"
       /\ n5[4].name = "readme.txt" /\ n5[4].type = "file"
       /\ n5[5].name = "user" /\ n5[5].type = "dir"
       /\ n5[6].name = "notes.txt" /\ n5[6].type = "file"
  <2>1. /\ 6 \in Cell \ {Root, 2, 3, 4, 5} /\ 5 \in {Root, 2, 3, 4, 5}
        /\ {Root, 2, 3, 4, 5} \cup {6} = {Root, 2, 3, 4, 5, 6}
    BY CellsAre DEF Root
  <2>2. \A b \in {Root, 2, 3, 4, 5} \ {Root} : n4[b].name # "notes.txt"
    BY <1>14
  <2>3. n4[5].type = "dir" /\ ("file" = "dir" => "notes.txt" \notin Packages)
    BY <1>8, <1>14
  <2>4. Bootable(n4, {Root, 2, 3, 4, 5}, 6, 5, "notes.txt", "file", "notes")
    BY <1>9, <1>14, <2>1, <2>2, <2>3 DEF Bootable
  <2>5. BootedTo(n4, n5, {Root, 2, 3, 4, 5}, 6, "notes.txt", "file")
    BY ONLY <1>6, <2>4, BootStep
  <2> QED BY <1>14, <2>1, <2>5 DEF BootedTo
<1> QED BY <1>7, <1>15

----------------------------------------------------------------------------
(* A node that is removed.                                                 *)

IsLess(mem, mem2, live, kids, d, j) ==
    LET v == kids[d][j] IN
    /\ mem2 \in [Cell -> Nodes]
    /\ \A b \in live \ {v} :
          /\ SameNode(mem, mem2, b)
          /\ mem2[b].first = IF b = d /\ j = 1 THEN mem[v].next ELSE mem[b].first
          /\ mem2[b].next = IF j # 1 /\ b = kids[d][j - 1] THEN mem[v].next ELSE mem[b].next

Prev(s, v) == {c \in Cell : \E i \in DOMAIN s : i < Len(s) /\ s[i] = c /\ s[i + 1] = v}

LEMMA PrevIs ==
    ASSUME NEW live, NEW s \in Seq(live), live \subseteq Cell, NEW j \in 1..Len(s),
           \A a, b \in 1..Len(s) : s[a] = s[b] => a = b
    PROVE  Prev(s, s[j]) = IF j = 1 THEN {} ELSE {s[j - 1]}
<1>1. PICK n \in Nat : n = Len(s)
  OBVIOUS
<1>2. DOMAIN s = 1..n /\ j \in 1..n /\ \A i \in 1..n : s[i] \in Cell
  BY <1>1, ElementOfSeq
<1>3. ASSUME NEW i \in 1..n, i < n, s[i + 1] = s[j] PROVE j # 1 /\ i = j - 1
  <2>1. i + 1 \in 1..n /\ i + 1 # 1
    BY <1>3
  <2>2. i + 1 = j
    BY <1>1, <1>2, <1>3, <2>1
  <2> QED BY <1>2, <2>1, <2>2
<1>4. ASSUME j # 1 PROVE j - 1 \in 1..n /\ j - 1 < n /\ (j - 1) + 1 = j
  BY <1>2, <1>4
<1>5. CASE j = 1
  BY <1>1, <1>2, <1>3, <1>5 DEF Prev
<1>6. CASE j # 1
  <2>1. s[j - 1] \in Cell /\ s[(j - 1) + 1] = s[j]
    BY <1>2, <1>4, <1>6
  <2> QED BY <1>1, <1>2, <1>3, <1>4, <1>6, <2>1 DEF Prev
<1> QED BY <1>5, <1>6

LEMMA RemoveIs ==
    ASSUME NEW mem, NEW live, NEW kids, NEW path, TreeIs(mem, live, kids, path), NEW d \in live,
           NEW j \in 1..Len(kids[d]), NEW name, kids[d][j] = Victim(mem, d, name)
    PROVE  IsLess(mem, VfsRemove(mem, d, name), live, kids, d, j)
<1>1. PICK s, v : s = kids[d] /\ v = s[j]
  OBVIOUS
<1>2. /\ s \in Seq(live) /\ live \subseteq Cell /\ mem \in [Cell -> Nodes] /\ Listing(mem, d) = s
      /\ v = Victim(mem, d, name) /\ j \in 1..Len(s)
  <2>1. Listing(mem, d) = s
    BY <1>1, ListingIs
  <2> QED BY <1>1, <2>1 DEF TreeIs, Shaped
<1>3. \A a, b \in 1..Len(s) : s[a] = s[b] => a = b
  BY <1>1, OneChild
<1>4. PICK prev : prev = Prev(s, v)
  OBVIOUS
<1>5. prev = IF j = 1 THEN {} ELSE {s[j - 1]}
  <2>1. Prev(s, s[j]) = IF j = 1 THEN {} ELSE {s[j - 1]}
    BY ONLY <1>2, <1>3, PrevIs
  <2> QED BY <1>1, <1>4, <2>1
<1>6. PICK out : out = IF prev = {} THEN SetFirst(mem, d, mem[v].next)
                       ELSE SetNext(mem, CHOOSE c \in prev : TRUE, mem[v].next)
  OBVIOUS
<1>7. VfsRemove(mem, d, name) = [out EXCEPT ![v] = FreeCell]
  BY ONLY <1>2, <1>4, <1>6 DEF VfsRemove, Prev
<1>8. v \in live /\ v \in Cell /\ d \in Cell /\ mem[v].next \in 0..Cells
  BY <1>1, <1>2, ElementOfSeq, TypesOfTree
<1>9. PICK m : m = [out EXCEPT ![v] = FreeCell]
  OBVIOUS
<1>10. out \in [Cell -> Nodes] => /\ m \in [Cell -> Nodes]
                                  /\ \A b \in Cell \ {v} : m[b] = out[b]
  BY <1>9, <1>8, FreeCellIs
<1>11. CASE j = 1
  <2>1. out = SetFirst(mem, d, mem[v].next)
    BY <1>5, <1>6, <1>11
  <2>2. /\ out \in [Cell -> Nodes] /\ SameNode(mem, out, d) /\ out[d].first = mem[v].next /\ out[d].next = mem[d].next
        /\ \A b \in Cell : b # d => out[b] = mem[b]
    BY ONLY <1>2, <1>8, <2>1, FirstSet
  <2> QED BY <1>1, <1>2, <1>7, <1>9, <1>10, <1>11, <2>2 DEF IsLess, SameNode
<1>12. CASE j # 1
  <2>1. PICK z : z = s[j - 1]
    OBVIOUS
  <2>2. j - 1 \in 1..Len(s)
    BY <1>2, <1>12
  <2>3. z \in Cell
    BY <1>2, <2>1, <2>2, ElementOfSeq
  <2>4. out = SetNext(mem, z, mem[v].next)
    BY <1>5, <1>6, <1>12, <2>1
  <2>5. /\ out \in [Cell -> Nodes] /\ SameNode(mem, out, z) /\ out[z].next = mem[v].next /\ out[z].first = mem[z].first
        /\ \A b \in Cell : b # z => out[b] = mem[b]
    BY ONLY <1>2, <1>8, <2>3, <2>4, NextSet
  <2> QED BY <1>1, <1>2, <1>7, <1>9, <1>10, <1>12, <2>1, <2>5 DEF IsLess, SameNode
<1> QED BY <1>11, <1>12

\* The tree without v and what is below it.
Stays(live, path, v) == {b \in live : ~ Leads(path[v], path[b])}
Without(s, j) == [i \in 1..Len(s) - 1 |-> IF i < j THEN s[i] ELSE s[i + 1]]
LessKids(live2, kids, d, j) == [b \in live2 |-> IF b = d THEN Without(kids[d], j) ELSE kids[b]]
LessPaths(live2, path) == [b \in live2 |-> path[b]]

LEMMA WithoutIs ==
    ASSUME NEW S, NEW s \in Seq(S), NEW j \in 1..Len(s), NEW t, t = Without(s, j)
    PROVE  /\ Len(s) \in Nat /\ Len(t) = Len(s) - 1 /\ t \in Seq(S)
           /\ \A i \in 1..Len(t) : /\ i < j => t[i] = s[i] /\ i \in 1..Len(s)
                                   /\ i >= j => t[i] = s[i + 1] /\ i + 1 \in 1..Len(s)
           /\ \A k \in 1..Len(s) : k # j => \E i \in 1..Len(t) : t[i] = s[k]
<1>1. PICK n \in Nat : n = Len(s) /\ j \in 1..n /\ n - 1 \in Nat
  OBVIOUS
<1>2. t = [i \in 1..n - 1 |-> IF i < j THEN s[i] ELSE s[i + 1]]
  BY <1>1 DEF Without
<1>3. \A i \in 1..n - 1 : i \in 1..n /\ i + 1 \in 1..n
  OBVIOUS
<1>4. \A i \in 1..n : s[i] \in S
  BY <1>1, ElementOfSeq
<1>5. t \in [1..n - 1 -> S]
  BY <1>2, <1>3, <1>4
<1>6. t \in Seq(S) /\ Len(t) = n - 1
  BY <1>1, <1>5, IsASeq, LenProperties
<1>7. ASSUME NEW i \in 1..n - 1
      PROVE  (i < j => t[i] = s[i] /\ i \in 1..n) /\ (i >= j => t[i] = s[i + 1] /\ i + 1 \in 1..n)
  BY <1>2, <1>3
<1>8. ASSUME NEW k \in 1..n, k # j PROVE \E i \in 1..n - 1 : t[i] = s[k]
  <2>1. CASE k < j
    <3>1. k \in 1..n - 1
      BY <1>1, <2>1
    <3> QED BY <1>7, <2>1, <3>1
  <2>2. CASE k > j
    <3>1. k - 1 \in 1..n - 1 /\ k - 1 >= j /\ (k - 1) + 1 = k
      BY <1>1, <2>2
    <3>2. t[k - 1] = s[(k - 1) + 1]
      BY <1>7, <3>1
    <3> QED BY <3>1, <3>2
  <2> QED BY <1>1, <1>8, <2>1, <2>2
<1> QED BY <1>1, <1>6, <1>7, <1>8

\* What is below a child is the child or below its parent.
LEMMA LeadsKid ==
    ASSUME NEW S, NEW p \in Seq(S), NEW q \in Seq(S), NEW r \in Seq(S), NEW x, Extends(q, x, r),
           Leads(p, r), ~ Leads(p, q)
    PROVE  p = r
<1>1. PICK lp \in Nat, lq \in Nat, lr \in Nat : lp = Len(p) /\ lq = Len(q) /\ lr = Len(r)
  OBVIOUS
<1>2. lr = lq + 1 /\ lp <= lr /\ (\A i \in 1..lq : r[i] = q[i]) /\ \A i \in 1..lp : p[i] = r[i]
  BY <1>1 DEF Extends, Leads
<1>3. lp = lr
  <2>1. SUFFICES ASSUME lp # lr PROVE FALSE
    OBVIOUS
  <2>2. lp <= lq /\ \A i \in 1..lp : i \in 1..lq
    BY <1>2, <2>1
  <2>3. \A i \in 1..lp : p[i] = q[i]
    BY <1>2, <2>2
  <2> QED BY <1>1, <2>2, <2>3 DEF Leads
<1> QED BY <1>1, <1>2, <1>3, SeqEqual

\* What leads to a cell leads to its children.
LEMMA LeadsOn ==
    ASSUME NEW S, NEW p \in Seq(S), NEW q \in Seq(S), NEW r \in Seq(S), NEW x, Extends(q, x, r), Leads(p, q)
    PROVE  Leads(p, r)
<1>1. PICK lp \in Nat, lq \in Nat : lp = Len(p) /\ lq = Len(q)
  OBVIOUS
<1>2. Len(r) = lq + 1 /\ lp <= lq /\ (\A i \in 1..lq : r[i] = q[i]) /\ \A i \in 1..lp : p[i] = q[i]
  BY <1>1 DEF Extends, Leads
<1>3. \A i \in 1..lp : i \in 1..lq
  BY <1>2
<1> QED BY <1>1, <1>2, <1>3 DEF Leads

\* Of d, the j-th child v goes.
Cut(mem, live, kids, path, d, j, v, live2) ==
    /\ TreeIs(mem, live, kids, path) /\ d \in live /\ j \in 1..Len(kids[d])
    /\ v = kids[d][j] /\ live2 = Stays(live, path, v)

LEMMA StaysAre ==
    ASSUME NEW mem, NEW live, NEW kids, NEW path, NEW d, NEW j, NEW v, NEW live2,
           Cut(mem, live, kids, path, d, j, v, live2)
    PROVE  /\ v \in live /\ Root \in live2 /\ d \in live2 /\ v \notin live2 /\ live2 \subseteq live
           /\ \A b \in live2 : b # Root => mem[b].parent \in live2
<1>0. /\ TreeIs(mem, live, kids, path) /\ d \in live /\ j \in 1..Len(kids[d])
      /\ v = kids[d][j] /\ live2 = Stays(live, path, v)
  BY DEF Cut
<1>1. /\ v \in live /\ mem[v].parent = d /\ v # Root /\ Extends(path[d], mem[v].name, path[v])
  BY <1>0, KidIs
<1>2. \A b \in live : path[b] \in Seq(NodeNames) /\ Len(path[b]) \in Nat
  BY <1>0, TypesOfTree
<1>3. path[Root] = <<>> /\ Root \in live /\ \A b, c \in live : path[b] = path[c] => b = c
  BY <1>0 DEF TreeIs, Shaped
<1>4. Len(path[v]) = Len(path[d]) + 1 /\ Len(path[Root]) = 0
  BY <1>0, <1>1, <1>3 DEF Extends
<1>5. ~ Leads(path[v], path[d]) /\ ~ Leads(path[v], path[Root]) /\ Leads(path[v], path[v])
  BY <1>0, <1>1, <1>2, <1>4 DEF Leads
<1>6. Root \in live2 /\ d \in live2 /\ v \notin live2 /\ live2 \subseteq live
  BY <1>0, <1>3, <1>5 DEF Stays
<1>8. ASSUME NEW b \in live2, b # Root PROVE mem[b].parent \in live2
  <2>1. PICK p \in live : p = mem[b].parent /\ Extends(path[p], mem[b].name, path[b])
    BY <1>0, <1>6, <1>8, ParentIs
  <2>2. ~ Leads(path[v], path[b])
    BY <1>0 DEF Stays
  <2>3. SUFFICES ASSUME Leads(path[v], path[p]) PROVE FALSE
    BY <1>0, <2>1 DEF Stays
  <2>4. Leads(path[v], path[b])
    <3>1. \A a \in live : path[a] \in Seq(NodeNames)
      BY <1>2
    <3>2. v \in live /\ b \in live
      BY <1>1, <1>6
    <3> QED BY ONLY <2>1, <2>3, <3>1, <3>2, LeadsOn
  <2> QED BY <1>0, <2>2, <2>4
<1> QED BY <1>0, <1>1, <1>6, <1>8

LEMMA KidStays ==
    ASSUME NEW mem, NEW live, NEW kids, NEW path, NEW d, NEW j, NEW v, NEW live2,
           Cut(mem, live, kids, path, d, j, v, live2),
           NEW b \in live2, NEW c \in live, c # v, mem[c].parent = b, c # Root
    PROVE  c \in live2
<1>0. /\ TreeIs(mem, live, kids, path) /\ d \in live /\ j \in 1..Len(kids[d])
      /\ v = kids[d][j] /\ live2 = Stays(live, path, v)
  BY DEF Cut
<1>1. v \in live /\ b \in live
  BY StaysAre
<1>2. \A a \in live : path[a] \in Seq(NodeNames)
  BY <1>0, TypesOfTree
<1>3. \A a, e \in live : path[a] = path[e] => a = e
  BY <1>0 DEF TreeIs, Shaped
<1>4. Extends(path[b], mem[c].name, path[c])
  BY <1>0, ParentIs
<1>5. ~ Leads(path[v], path[b])
  BY <1>0 DEF Stays
<1>6. SUFFICES ASSUME Leads(path[v], path[c]) PROVE FALSE
  BY <1>0 DEF Stays
<1>7. path[v] = path[c]
  BY <1>0, <1>1, <1>2, <1>4, <1>5, <1>6, LeadsKid
<1> QED BY <1>0, <1>1, <1>3, <1>7

LEMMA KidsStay ==
    ASSUME NEW mem, NEW live, NEW kids, NEW path, NEW d, NEW j, NEW v, NEW live2,
           Cut(mem, live, kids, path, d, j, v, live2),
           NEW b \in live2, NEW i \in 1..Len(kids[b]), b = d => i # j
    PROVE  kids[b][i] \in live2 \ {v}
<1>0. /\ TreeIs(mem, live, kids, path) /\ d \in live /\ j \in 1..Len(kids[d])
      /\ v = kids[d][j] /\ live2 = Stays(live, path, v)
  BY DEF Cut
<1>1. b \in live /\ v \notin live2
  BY StaysAre
<1>2. PICK c \in live \ {Root} : c = kids[b][i] /\ mem[c].parent = b
  BY <1>0, <1>1, KidIs
<1>3. c # v
  BY <1>0, <1>1, <1>2, OneChild
<1>4. c \in live /\ mem[c].parent = b /\ c # Root
  BY <1>0, <1>2
<1>5. c \in live2
  BY <1>3, <1>4, KidStays
<1> QED BY <1>0, <1>2, <1>3, <1>5

LEMMA InSmaller ==
    ASSUME NEW S, NEW T, NEW s \in Seq(S), \A i \in 1..Len(s) : s[i] \in T
    PROVE  s \in Seq(T)
<1>1. s \in [1..Len(s) -> T] /\ Len(s) \in Nat
  BY LenProperties
<1> QED BY <1>1, SeqDef

LEMMA LessShaped ==
    ASSUME NEW mem, NEW live, NEW kids, NEW path, NEW d, NEW j, NEW v, NEW live2,
           Cut(mem, live, kids, path, d, j, v, live2)
    PROVE  Shaped(live2, LessKids(live2, kids, d, j), LessPaths(live2, path))
<1>0. /\ TreeIs(mem, live, kids, path) /\ d \in live /\ j \in 1..Len(kids[d])
      /\ v = kids[d][j] /\ live2 = Stays(live, path, v)
  BY DEF Cut
<1>1. PICK k2, p2 : k2 = LessKids(live2, kids, d, j) /\ p2 = LessPaths(live2, path)
  OBVIOUS
<1>2. /\ Root \in live2 /\ d \in live2 /\ live2 \subseteq live
  BY StaysAre
<1>3. /\ live \subseteq Cell /\ path \in [live -> Seq(NodeNames)] /\ path[Root] = <<>>
      /\ \A a, b \in live : path[a] = path[b] => a = b
      /\ kids \in [live -> Seq(live)]
  BY <1>0 DEF TreeIs, Shaped
<1>4. p2 \in [live2 -> Seq(NodeNames)] /\ p2[Root] = <<>> /\ \A a, b \in live2 : p2[a] = p2[b] => a = b
  BY <1>0, <1>1, <1>2, <1>3 DEF LessPaths
<1>5. ASSUME NEW b \in live2 PROVE k2[b] \in Seq(live2)
  <2>1. PICK s \in Seq(live) : s = kids[b]
    BY <1>0, <1>2, <1>3
  <2>2. CASE b # d
    <3>1. \A i \in 1..Len(s) : s[i] \in live2
      BY <2>1, <2>2, KidsStay
    <3>2. s \in Seq(live2)
      BY <1>0, <3>1, InSmaller
    <3> QED BY <1>0, <1>1, <2>1, <2>2, <3>2 DEF LessKids
  <2>3. CASE b = d
    <3>1. PICK t : t = Without(s, j)
      OBVIOUS
    <3>2. j \in 1..Len(s)
      BY <1>0, <2>1, <2>3
    <3>3. /\ t \in Seq(live)
          /\ \A i \in 1..Len(t) : /\ i < j => t[i] = s[i] /\ i \in 1..Len(s)
                                  /\ i >= j => t[i] = s[i + 1] /\ i + 1 \in 1..Len(s)
      BY ONLY <3>1, <3>2, s \in Seq(live), WithoutIs
    <3>4. \A i \in 1..Len(s) : i # j => s[i] \in live2
      BY <2>1, <2>3, KidsStay
    <3>5. ASSUME NEW i \in 1..Len(t) PROVE t[i] \in live2
      <4>1. i \in Int /\ j \in Int
        BY <1>0, <3>2
      <4>2. CASE i < j
        BY <1>0, <3>3, <3>4, <4>1, <4>2
      <4>3. CASE i >= j
        <5>1. i + 1 # j
          BY <1>0, <4>1, <4>3
        <5> QED BY <1>0, <3>3, <3>4, <4>3, <5>1
      <4> QED BY <1>0, <4>1, <4>2, <4>3
    <3>6. t \in Seq(live2)
      BY <1>0, <3>3, <3>5, InSmaller
    <3> QED BY <1>0, <1>1, <2>1, <2>3, <3>1, <3>6 DEF LessKids
  <2> QED BY <1>0, <2>2, <2>3
<1>6. k2 \in [live2 -> Seq(live2)]
  BY <1>0, <1>1, <1>5 DEF LessKids
<1> QED BY <1>0, <1>1, <1>2, <1>3, <1>4, <1>6 DEF Shaped

LEMMA LessRooted ==
    ASSUME NEW mem, NEW live, NEW kids, NEW path, NEW d, NEW j, NEW v, NEW live2,
           Cut(mem, live, kids, path, d, j, v, live2),
           NEW m, IsLess(mem, m, live, kids, d, j)
    PROVE  Rooted(m, live2, LessKids(live2, kids, d, j))
<1>0. /\ TreeIs(mem, live, kids, path) /\ d \in live /\ j \in 1..Len(kids[d])
      /\ v = kids[d][j] /\ live2 = Stays(live, path, v)
  BY DEF Cut
<1>1. PICK k2 : k2 = LessKids(live2, kids, d, j)
  OBVIOUS
<1>2. Root \in live2 /\ d \in live2 /\ live2 \subseteq live /\ v \notin live2
  BY StaysAre
<1>3. \A b \in live2 : SameNode(mem, m, b)
  BY <1>0, <1>2 DEF IsLess
<1>4. /\ m[Root].parent = Root /\ m[Root].type = "dir" /\ \A b \in live2 : m[b].used
  BY <1>0, <1>2, <1>3 DEF TreeIs, Rooted, SameNode
<1>5. ASSUME NEW b \in live2 \ {Root}
      PROVE  /\ m[b].parent \in live2 /\ \E i \in 1..Len(k2[m[b].parent]) : k2[m[b].parent][i] = b
             /\ m[b].type = "dir" => m[b].name \notin Packages
  <2>1. PICK p \in live : /\ p = mem[b].parent /\ (\E i \in 1..Len(kids[p]) : kids[p][i] = b)
                          /\ mem[b].type = "dir" => mem[b].name \notin Packages
    BY <1>0, <1>2 DEF TreeIs, Rooted
  <2>2. m[b].parent = p /\ m[b].type = mem[b].type /\ m[b].name = mem[b].name
    BY <1>0, <1>3, <2>1 DEF SameNode
  <2>3. p \in live2
    BY <2>1, StaysAre
  <2>4. \E i \in 1..Len(k2[p]) : k2[p][i] = b
    <3>1. CASE p # d
      BY <1>0, <1>1, <2>1, <2>3, <3>1 DEF LessKids
    <3>2. CASE p = d
      <4>1. PICK s : s = kids[d]
        OBVIOUS
      <4>2. PICK i \in 1..Len(s) : s[i] = b
        BY <1>0, <2>1, <3>2, <4>1
      <4>3. i # j /\ j \in 1..Len(s) /\ s \in Seq(live)
        BY <1>0, <1>2, <4>1, <4>2, TypesOfTree
      <4>4. k2[p] = Without(s, j)
        BY <1>0, <1>1, <2>3, <3>2, <4>1 DEF LessKids
      <4>5. \A k \in 1..Len(s) : k # j => \E n \in 1..Len(k2[p]) : k2[p][n] = s[k]
        BY ONLY <4>3, <4>4, WithoutIs
      <4> QED BY <1>0, <4>2, <4>3, <4>5
    <3> QED BY <1>0, <3>1, <3>2
  <2> QED BY <1>0, <2>1, <2>2, <2>3, <2>4
<1> QED BY <1>0, <1>1, <1>4, <1>5 DEF Rooted

\* The list of children without v.
LEMMA ShorterIs ==
    ASSUME NEW mem, NEW live, NEW kids, NEW path, NEW d, NEW j, NEW v, NEW live2,
           Cut(mem, live, kids, path, d, j, v, live2)
    PROVE  LET t == LessKids(live2, kids, d, j)[d]
               s == kids[d]
           IN  /\ d \in live2 /\ t = Without(s, j) /\ s \in Seq(live) /\ j \in 1..Len(s) /\ Len(s) \in Nat
               /\ Len(t) = Len(s) - 1 /\ t \in Seq(live)
               /\ \A i \in 1..Len(t) : /\ i < j => t[i] = s[i] /\ i \in 1..Len(s)
                                       /\ i >= j => t[i] = s[i + 1] /\ i + 1 \in 1..Len(s)
<1>0. /\ TreeIs(mem, live, kids, path) /\ d \in live /\ j \in 1..Len(kids[d])
  BY DEF Cut
<1>1. PICK s : s = kids[d]
  OBVIOUS
<1>2. PICK t : t = LessKids(live2, kids, d, j)[d]
  OBVIOUS
<1>3. d \in live2
  BY StaysAre
<1>4. t = Without(s, j)
  BY <1>1, <1>2, <1>3 DEF LessKids
<1>5. s \in Seq(live) /\ j \in 1..Len(s)
  BY <1>0, <1>1, TypesOfTree
<1>6. /\ Len(s) \in Nat /\ Len(t) = Len(s) - 1 /\ t \in Seq(live)
      /\ \A i \in 1..Len(t) : /\ i < j => t[i] = s[i] /\ i \in 1..Len(s)
                              /\ i >= j => t[i] = s[i + 1] /\ i + 1 \in 1..Len(s)
  BY ONLY <1>4, <1>5, WithoutIs
<1> QED BY <1>1, <1>2, <1>3, <1>4, <1>5, <1>6

LEMMA LessLinked ==
    ASSUME NEW mem, NEW live, NEW kids, NEW path, NEW d, NEW j, NEW v, NEW live2,
           Cut(mem, live, kids, path, d, j, v, live2),
           NEW m, IsLess(mem, m, live, kids, d, j), NEW b \in live2
    PROVE  Linked(m, LessKids(live2, kids, d, j), b)
<1>0. /\ TreeIs(mem, live, kids, path) /\ d \in live /\ j \in 1..Len(kids[d])
      /\ v = kids[d][j] /\ live2 = Stays(live, path, v)
  BY DEF Cut
<1>1. PICK k2 : k2 = LessKids(live2, kids, d, j)
  OBVIOUS
<1>2. SUFFICES Linked(m, k2, b)
  BY <1>1
<1>3. live2 \subseteq live /\ v \notin live2 /\ v \in live /\ b \in live /\ b # v
  BY StaysAre
<1>4. \A a \in live2 : /\ m[a].first = IF a = d /\ j = 1 THEN mem[v].next ELSE mem[a].first
                       /\ m[a].next = IF j # 1 /\ a = kids[d][j - 1] THEN mem[v].next ELSE mem[a].next
  BY <1>0, <1>3 DEF IsLess
<1>5. \A a \in live : Linked(mem, kids, a)
  BY <1>0 DEF TreeIs
<1>6. CASE b # d
  <2>1. k2[b] = kids[b] /\ m[b].first = mem[b].first
    BY <1>1, <1>4, <1>6 DEF LessKids
  <2>2. ASSUME NEW i \in 1..Len(kids[b]) PROVE m[kids[b][i]].next = mem[kids[b][i]].next
    <3>1. kids[b][i] \in live2
      BY <1>6, KidsStay
    <3>2. ASSUME j # 1, kids[b][i] = kids[d][j - 1] PROVE FALSE
      <4>1. j - 1 \in 1..Len(kids[d])
        <5>1. Len(kids[d]) \in Nat
          BY <1>0, TypesOfTree
        <5> QED BY <1>0, <3>2, <5>1
      <4> QED BY <1>0, <1>3, <1>6, <3>2, <4>1, OneChild
    <3> QED BY <1>4, <3>1, <3>2
  <2>3. Linked(mem, kids, b)
    BY <1>3, <1>5
  <2> QED BY <2>1, <2>2, <2>3 DEF Linked
<1>7. CASE b = d
  <2>1. PICK s, t : s = kids[d] /\ t = k2[d]
    OBVIOUS
  <2>2. PICK n \in Nat : n = Len(s)
    BY <2>1, <1>1, ShorterIs
  <2>3. /\ s \in Seq(live) /\ j \in 1..n /\ t \in Seq(live) /\ Len(t) = n - 1
        /\ \A i \in 1..n - 1 : /\ i < j => t[i] = s[i] /\ i \in 1..n
                               /\ i >= j => t[i] = s[i + 1] /\ i + 1 \in 1..n
    BY <1>1, <2>1, <2>2, ShorterIs
  <2>4. /\ mem[d].first = IF s = <<>> THEN Null ELSE s[1]
        /\ \A i \in 1..n : mem[s[i]].next = IF i = n THEN Null ELSE s[i + 1]
    BY <1>0, <1>5, <2>1, <2>2 DEF Linked
  <2>5. v = s[j] /\ s # <<>> /\ (t = <<>> <=> n - 1 = 0)
    <3>1. v = s[j] /\ n # 0
      BY <1>0, <2>1, <2>3
    <3>2. s # <<>>
      BY <2>2, <3>1, EmptySeq
    <3>3. t = <<>> <=> n - 1 = 0
      BY <2>3, EmptySeq
    <3> QED BY <3>1, <3>2, <3>3
  <2>6. \A i \in 1..n : i # j => s[i] \in live2
    BY <1>3, <1>7, <2>1, <2>2, KidsStay
  <2>7. \A i, k \in 1..n : s[i] = s[k] => i = k
    BY <1>0, <2>1, <2>2, OneChild
  <2>8. m[d].first = IF t = <<>> THEN Null ELSE t[1]
    <3>1. m[d].first = IF j = 1 THEN mem[v].next ELSE mem[d].first
      BY <1>4, <1>7
    <3>2. CASE j = 1
      <4>1. m[d].first = IF 1 = n THEN Null ELSE s[1 + 1]
        BY <2>3, <2>4, <2>5, <3>1, <3>2
      <4>2. n # 1 => t[1] = s[1 + 1]
        BY <2>3, <3>2
      <4> QED BY <2>5, <4>1, <4>2
    <3>3. CASE j # 1
      <4>1. 1 \in 1..n - 1 /\ 1 < j
        BY <2>3, <3>3
      <4>2. t[1] = s[1] /\ t # <<>>
        BY <2>3, <2>5, <4>1
      <4> QED BY <2>4, <2>5, <3>1, <3>3, <4>2
    <3> QED BY <3>2, <3>3
  <2>9. ASSUME NEW i \in 1..n - 1 PROVE m[t[i]].next = IF i = n - 1 THEN Null ELSE t[i + 1]
    <3>0. i \in Int /\ j \in Int
      BY <2>3
    <3>1. CASE i >= j
      <4>1. t[i] = s[i + 1] /\ i + 1 \in 1..n /\ i + 1 # j /\ i + 1 # j - 1
        BY <2>3, <3>0, <3>1
      <4>2. m[s[i + 1]].next = mem[s[i + 1]].next
        <5>1. j # 1 => j - 1 \in 1..n
          BY <2>3
        <5>2. j # 1 => s[i + 1] # s[j - 1]
          BY <2>7, <4>1, <5>1
        <5> QED BY <1>4, <2>1, <2>6, <4>1, <5>2
      <4>3. mem[s[i + 1]].next = IF i + 1 = n THEN Null ELSE s[(i + 1) + 1]
        BY <2>4, <4>1
      <4>4. i # n - 1 => t[i + 1] = s[(i + 1) + 1]
        BY <2>3, <3>0, <3>1
      <4>5. i + 1 = n <=> i = n - 1
        BY <3>0
      <4> QED BY <4>1, <4>2, <4>3, <4>4, <4>5
    <3>2. CASE i + 1 = j
      <4>1. t[i] = s[i] /\ i \in 1..n /\ i # j /\ j # 1 /\ i = j - 1
        BY <2>3, <3>0, <3>2
      <4>2. m[s[i]].next = mem[v].next
        BY <1>4, <2>1, <2>6, <4>1
      <4>3. mem[v].next = IF j = n THEN Null ELSE s[j + 1]
        BY <2>3, <2>4, <2>5
      <4>4. i # n - 1 => t[i + 1] = s[j + 1]
        BY <2>3, <3>0, <3>2
      <4>5. j = n <=> i = n - 1
        BY <3>0, <3>2
      <4> QED BY <4>1, <4>2, <4>3, <4>4, <4>5
    <3>3. CASE i + 1 < j
      <4>1. t[i] = s[i] /\ i \in 1..n /\ i # j /\ i # n /\ i # j - 1 /\ i # n - 1 /\ i + 1 \in 1..n - 1
        BY <2>3, <3>0, <3>3
      <4>2. m[s[i]].next = mem[s[i]].next
        <5>1. j # 1 => j - 1 \in 1..n
          BY <2>3
        <5>2. j # 1 => s[i] # s[j - 1]
          BY <2>7, <4>1, <5>1
        <5> QED BY <1>4, <2>1, <2>6, <4>1, <5>2
      <4>3. mem[s[i]].next = s[i + 1]
        BY <2>4, <4>1
      <4>4. t[i + 1] = s[i + 1]
        BY <2>3, <3>3, <4>1
      <4> QED BY <4>1, <4>2, <4>3, <4>4
    <3> QED BY <3>0, <3>1, <3>2, <3>3
  <2> QED BY <1>7, <2>1, <2>3, <2>8, <2>9 DEF Linked
<1> QED BY <1>6, <1>7

LEMMA LessPlaced ==
    ASSUME NEW mem, NEW live, NEW kids, NEW path, NEW d, NEW j, NEW v, NEW live2,
           Cut(mem, live, kids, path, d, j, v, live2),
           NEW m, IsLess(mem, m, live, kids, d, j), NEW b \in live2
    PROVE  Placed(m, LessKids(live2, kids, d, j), LessPaths(live2, path), b)
<1>0. /\ TreeIs(mem, live, kids, path) /\ d \in live /\ j \in 1..Len(kids[d])
      /\ v = kids[d][j] /\ live2 = Stays(live, path, v)
  BY DEF Cut
<1>1. PICK k2, p2 : k2 = LessKids(live2, kids, d, j) /\ p2 = LessPaths(live2, path)
  OBVIOUS
<1>2. SUFFICES Placed(m, k2, p2, b)
  BY <1>1
<1>3. live2 \subseteq live /\ v \notin live2
  BY StaysAre
<1>4. \A a \in live2 : SameNode(mem, m, a) /\ p2[a] = path[a]
  BY <1>0, <1>1, <1>3 DEF IsLess, LessPaths
<1>5. /\ mem[b].type # "dir" => kids[b] = <<>>
      /\ \A i \in 1..Len(kids[b]) :
            mem[kids[b][i]].parent = b /\ path[kids[b][i]] = Append(path[b], mem[kids[b][i]].name)
      /\ \A i, k \in 1..Len(kids[b]) : mem[kids[b][i]].name = mem[kids[b][k]].name => i = k
  BY <1>0, <1>3 DEF TreeIs, Placed
<1>6. CASE b # d
  <2>1. k2[b] = kids[b]
    BY <1>1, <1>6 DEF LessKids
  <2>2. \A i \in 1..Len(kids[b]) : kids[b][i] \in live2
    BY <1>6, KidsStay
  <2>3. \A i \in 1..Len(kids[b]) : SameNode(mem, m, kids[b][i]) /\ p2[kids[b][i]] = path[kids[b][i]]
    BY <1>4, <2>2
  <2>4. m[b].type = mem[b].type /\ p2[b] = path[b]
    BY <1>4 DEF SameNode
  <2> QED BY <1>5, <2>1, <2>3, <2>4 DEF Placed, SameNode
<1>7. CASE b = d
  <2>1. PICK s, t : s = kids[d] /\ t = k2[d]
    OBVIOUS
  <2>2. PICK n \in Nat : n = Len(s)
    BY <2>1, <1>1, ShorterIs
  <2>3. /\ s \in Seq(live) /\ j \in 1..n /\ t \in Seq(live) /\ Len(t) = n - 1
        /\ \A i \in 1..n - 1 : /\ i < j => t[i] = s[i] /\ i \in 1..n
                               /\ i >= j => t[i] = s[i + 1] /\ i + 1 \in 1..n
    BY <1>1, <2>1, <2>2, ShorterIs
  <2>4. \A i \in 1..n : i # j => s[i] \in live2
    BY <1>7, <2>1, <2>2, KidsStay
  <2>5. PICK g : g = [i \in 1..n - 1 |-> IF i < j THEN i ELSE i + 1]
    OBVIOUS
  <2>6. \A i \in 1..n - 1 : g[i] \in 1..n /\ g[i] # j /\ t[i] = s[g[i]]
    BY <2>3, <2>5
  <2>7. \A i, k \in 1..n - 1 : g[i] = g[k] => i = k
    BY <2>3, <2>5
  <2>8. \A i \in 1..n - 1 : t[i] \in live2 /\ SameNode(mem, m, t[i]) /\ p2[t[i]] = path[t[i]]
    BY <1>4, <2>4, <2>6
  <2>9. m[d].type = "dir" /\ p2[d] = path[d]
    <3>1. s # <<>>
      BY <2>2, <2>3, EmptySeq
    <3> QED BY <1>4, <1>5, <1>7, <2>1, <3>1 DEF SameNode
  <2>10. ASSUME NEW i \in 1..n - 1
         PROVE  m[t[i]].parent = d /\ p2[t[i]] = Append(p2[d], m[t[i]].name)
    <3>1. mem[t[i]].parent = d /\ path[t[i]] = Append(path[d], mem[t[i]].name)
      <4>1. g[i] \in 1..Len(kids[b]) /\ t[i] = kids[b][g[i]]
        BY <1>7, <2>1, <2>2, <2>6
      <4>2. /\ mem[kids[b][g[i]]].parent = b
            /\ path[kids[b][g[i]]] = Append(path[b], mem[kids[b][g[i]]].name)
        BY <1>5, <4>1
      <4> QED BY ONLY <1>7, <4>1, <4>2
    <3> QED BY <2>8, <2>9, <3>1 DEF SameNode
  <2>11. ASSUME NEW i \in 1..n - 1, NEW k \in 1..n - 1, m[t[i]].name = m[t[k]].name PROVE i = k
    <3>1. mem[s[g[i]]].name = mem[s[g[k]]].name
      BY <2>6, <2>8, <2>11 DEF SameNode
    <3>2. g[i] \in 1..Len(kids[b]) /\ g[k] \in 1..Len(kids[b])
      BY <1>7, <2>1, <2>2, <2>6
    <3>3. mem[kids[b][g[i]]].name = mem[kids[b][g[k]]].name
      BY <1>7, <2>1, <3>1
    <3>4. g[i] = g[k]
      BY ONLY <1>5, <3>2, <3>3
    <3> QED BY <2>7, <3>4
  <2> QED BY <1>7, <2>1, <2>3, <2>9, <2>10, <2>11 DEF Placed
<1> QED BY <1>6, <1>7

\* vfs_remove leaves a tree of the cells that are not below the one that it frees.
LEMMA RemoveStep ==
    ASSUME NEW mem, NEW live, NEW kids, NEW path, NEW d, NEW j, NEW v, NEW live2,
           Cut(mem, live, kids, path, d, j, v, live2), NEW name, v = Victim(mem, d, name),
           NEW m, m = VfsRemove(mem, d, name)
    PROVE  TreeIs(m, live2, LessKids(live2, kids, d, j), LessPaths(live2, path)) /\ IsLess(mem, m, live, kids, d, j)
<1>0. /\ TreeIs(mem, live, kids, path) /\ d \in live /\ j \in 1..Len(kids[d]) /\ kids[d][j] = Victim(mem, d, name)
  BY DEF Cut
<1>1. IsLess(mem, m, live, kids, d, j)
  BY <1>0, RemoveIs
<1>2. Shaped(live2, LessKids(live2, kids, d, j), LessPaths(live2, path))
  BY LessShaped
<1>3. Rooted(m, live2, LessKids(live2, kids, d, j))
  BY <1>1, LessRooted
<1>4. m \in [Cell -> Nodes]
  BY <1>1 DEF IsLess
<1>5. ASSUME NEW b \in live2
      PROVE  /\ Linked(m, LessKids(live2, kids, d, j), b)
             /\ Placed(m, LessKids(live2, kids, d, j), LessPaths(live2, path), b)
  BY <1>1, LessLinked, LessPlaced
<1> QED BY <1>1, <1>2, <1>3, <1>4, <1>5 DEF TreeIs

----------------------------------------------------------------------------
(* What each of them shows.                                                *)

FilesOf(mem, live, path) == {FileOf(mem, path, c) : c \in live}
DirsIn(F) == {f.path : f \in {g \in F : g.type = "dir"}}
BelowIn(F, p) == {f \in F : Len(f.path) >= Len(p) /\ SubSeq(f.path, 1, Len(p)) = p}

Makes(F, a, F2, a2) ==
    \E f \in F2 \ F : /\ f.path # <<>> /\ f.path \notin {g.path : g \in F} /\ f.type \in Kinds
                      /\ SubSeq(f.path, 1, Len(f.path) - 1) \in DirsIn(F) /\ F2 = F \cup {f} /\ a2 = a
Removes(F, a, F2, a2) ==
    \E p \in {f.path : f \in F} : (~\E f \in BelowIn(F, p) : f.path = a) /\ F2 = F \ BelowIn(F, p) /\ a2 = a
Rewrites(F, a, F2, a2) ==
    /\ \E f \in F, g \in F2 : f.type = "file" /\ g = [f EXCEPT !.text = g.text] /\ F2 = (F \ {f}) \cup {g}
    /\ a2 = a

LEMMA LeadsIs ==
    ASSUME NEW S, NEW p \in Seq(S), NEW q \in Seq(S)
    PROVE  Leads(p, q) <=> Len(q) >= Len(p) /\ SubSeq(q, 1, Len(p)) = p
<1>1. PICK n \in Nat, l \in Nat : n = Len(p) /\ l = Len(q)
  OBVIOUS
<1>2. ASSUME n <= l PROVE SubSeq(q, 1, n) = p <=> \A i \in 1..n : p[i] = q[i]
  <2>1. PICK u : u = SubSeq(q, 1, n)
    OBVIOUS
  <2>2. \A i \in 1..n : q[i] \in S
    <3>1. \A i \in 1..n : i \in 1..Len(q)
      BY <1>1, <1>2
    <3> QED BY <3>1, ElementOfSeq
  <2>3. u \in Seq(S) /\ Len(u) = (IF 1 <= n THEN n - 1 + 1 ELSE 0) /\ \A i \in 1..n - 1 + 1 : u[i] = q[1 + i - 1]
    BY <2>1, <2>2, SubSeqProperties
  <2>4. Len(u) = n /\ \A i \in 1..n : i \in 1..n - 1 + 1 /\ 1 + i - 1 = i
    BY ONLY <2>3, n \in Nat
  <2>5. \A i \in 1..n : u[i] = q[i]
    BY ONLY <2>3, <2>4
  <2>6. (\A i \in 1..n : p[i] = q[i]) => u = p
    <3>1. SUFFICES ASSUME \A i \in 1..n : p[i] = q[i] PROVE u = p
      OBVIOUS
    <3>2. \A i \in 1..Len(u) : u[i] = p[i]
      BY <2>4, <2>5, <3>1
    <3> QED BY <1>1, <2>3, <2>4, <3>2, SeqEqual
  <2> QED BY <2>1, <2>5, <2>6
<1> QED BY <1>1, <1>2 DEF Leads

LEMMA FrontIs ==
    ASSUME NEW S, NEW q \in Seq(S), NEW x \in S, NEW r, r = Append(q, x)
    PROVE  r # <<>> /\ SubSeq(r, 1, Len(r) - 1) = q
<1>1. r \in Seq(S) /\ r # <<>> /\ Extends(q, x, r)
  BY Longer
<1>2. Leads(q, r) /\ Len(r) - 1 = Len(q)
  BY <1>1 DEF Extends, Leads
<1>3. SubSeq(r, 1, Len(q)) = q
  BY <1>1, <1>2, LeadsIs
<1> QED BY <1>1, <1>2, <1>3

\* The directory that holds a file is there.
LEMMA HolderIs ==
    ASSUME NEW mem, NEW live, NEW kids, NEW path, TreeIs(mem, live, kids, path), NEW c \in live, c # Root
    PROVE  path[c] # <<>> /\ SubSeq(path[c], 1, Len(path[c]) - 1) \in DirsIn(FilesOf(mem, live, path))
<1>1. PICK p \in live, i \in Nat :
         p = mem[c].parent /\ i \in 1..Len(kids[p]) /\ kids[p][i] = c /\ path[c] = Append(path[p], mem[c].name)
  BY ParentIs
<1>2. path[p] \in Seq(NodeNames) /\ mem[c].name \in NodeNames /\ kids[p] \in Seq(live)
  BY TypesOfTree
<1>3. path[c] # <<>> /\ SubSeq(path[c], 1, Len(path[c]) - 1) = path[p]
  BY ONLY <1>1, <1>2, FrontIs
<1>4. kids[p] # <<>>
  BY <1>1, <1>2, EmptySeq
<1>5. mem[p].type = "dir"
  BY <1>4 DEF TreeIs, Placed
<1>6. FileOf(mem, path, p) \in FilesOf(mem, live, path)
  BY DEF FilesOf
<1>7. path[p] \in DirsIn(FilesOf(mem, live, path))
  BY <1>5, <1>6 DEF DirsIn, FileOf
<1> QED BY <1>3, <1>7

LEMMA KindOf ==
    ASSUME NEW mem, NEW live, NEW kids, NEW path, TreeIs(mem, live, kids, path), NEW c \in live
    PROVE  mem[c].type \in Kinds
<1>1. mem[c] \in Nodes
  BY TypesOfTree
<1> QED BY <1>1 DEF Nodes

LEMMA CreateShows ==
    ASSUME NEW mem, NEW live, NEW kids, NEW path, TreeIs(mem, live, kids, path), NEW d \in live,
           NEW c \in Cell \ live, NEW name \in NodeNames, NEW type \in Kinds, NEW text,
           NEW m, NEW k2, NEW p2, TreeIs(m, live \cup {c}, k2, p2), p2 = MorePaths(live, path, c, d, name),
           IsNew(mem, m, live, kids, c, d, name, type, text), mem[d].type = "dir", NEW a \in live
    PROVE  Makes(FilesOf(mem, live, path), path[a], FilesOf(m, live \cup {c}, p2), p2[a])
<1>1. PICK F : F = FilesOf(mem, live, path)
  OBVIOUS
<1>2. PICK f : f = FileOf(m, p2, c)
  OBVIOUS
<1>3. \A b \in live : FileOf(m, p2, b) = FileOf(mem, path, b) /\ p2[b] = path[b] /\ b # c
  BY DEF FileOf, IsNew, SameNode, MorePaths
<1>4. FilesOf(m, live \cup {c}, p2) = F \cup {f}
  BY <1>1, <1>2, <1>3 DEF FilesOf
<1>5. f.path = Append(path[d], name) /\ f.path = p2[c] /\ f.type = type
  BY <1>2 DEF FileOf, IsNew, MorePaths
<1>6. f.path # <<>> /\ SubSeq(f.path, 1, Len(f.path) - 1) = path[d]
  <2>1. path[d] \in Seq(NodeNames)
    BY TypesOfTree
  <2> QED BY ONLY <1>5, <2>1, name \in NodeNames, FrontIs
<1>7. path[d] \in DirsIn(F)
  <2>1. FileOf(mem, path, d) \in F
    BY <1>1 DEF FilesOf
  <2> QED BY <2>1 DEF DirsIn, FileOf
<1>8. f.path \notin {g.path : g \in F}
  <2>1. \A b \in live : p2[b] # p2[c]
    BY <1>3 DEF TreeIs, Shaped
  <2>2. \A g \in F : \E b \in live : g.path = path[b]
    BY <1>1 DEF FilesOf, FileOf
  <2> QED BY <1>3, <1>5, <2>1, <2>2
<1>9. f \notin F
  BY <1>8
<1> QED BY <1>1, <1>3, <1>4, <1>5, <1>6, <1>7, <1>8, <1>9 DEF Makes

LEMMA RemoveShows ==
    ASSUME NEW mem, NEW live, NEW kids, NEW path, NEW d, NEW j, NEW v, NEW live2,
           Cut(mem, live, kids, path, d, j, v, live2),
           NEW m, IsLess(mem, m, live, kids, d, j), NEW p2, p2 = LessPaths(live2, path), NEW a \in live2
    PROVE  Removes(FilesOf(mem, live, path), path[a], FilesOf(m, live2, p2), p2[a])
<1>0. /\ TreeIs(mem, live, kids, path) /\ d \in live /\ j \in 1..Len(kids[d])
      /\ v = kids[d][j] /\ live2 = Stays(live, path, v)
  BY DEF Cut
<1>1. PICK F : F = FilesOf(mem, live, path)
  OBVIOUS
<1>2. v \in live /\ v \notin live2 /\ live2 \subseteq live
  BY StaysAre
<1>3. \A b \in live2 : FileOf(m, p2, b) = FileOf(mem, path, b) /\ p2[b] = path[b]
  BY <1>0, <1>2 DEF FileOf, IsLess, SameNode, LessPaths
<1>4. \A b \in live : path[b] \in Seq(NodeNames)
  BY <1>0, TypesOfTree
<1>5. \A b \in live : FileOf(mem, path, b) \in F /\ FileOf(mem, path, b).path = path[b]
  BY <1>1 DEF FilesOf, FileOf
<1>6. \A b \in live : FileOf(mem, path, b) \in BelowIn(F, path[v]) <=> Leads(path[v], path[b])
  <2> TAKE b \in live
  <2>1. Leads(path[v], path[b]) <=> Len(path[b]) >= Len(path[v]) /\ SubSeq(path[b], 1, Len(path[v])) = path[v]
    BY <1>2, <1>4, LeadsIs
  <2> QED BY <1>5, <2>1 DEF BelowIn
<1>7. \A f \in F : \E b \in live : f = FileOf(mem, path, b)
  BY <1>1 DEF FilesOf
<1>8. FilesOf(m, live2, p2) = F \ BelowIn(F, path[v])
  <2>1. \A f \in FilesOf(m, live2, p2) : \E b \in live2 : f = FileOf(mem, path, b)
    BY <1>3 DEF FilesOf
  <2>2. \A b \in live2 : FileOf(mem, path, b) \in FilesOf(m, live2, p2)
    BY <1>3 DEF FilesOf
  <2>3. \A b \in live : b \in live2 <=> ~ Leads(path[v], path[b])
    BY <1>0 DEF Stays
  <2> QED BY <1>2, <1>5, <1>6, <1>7, <2>1, <2>2, <2>3
<1>9. ~\E f \in BelowIn(F, path[v]) : f.path = path[a]
  <2>1. SUFFICES ASSUME NEW f \in BelowIn(F, path[v]), f.path = path[a] PROVE FALSE
    OBVIOUS
  <2>2. Len(path[a]) >= Len(path[v]) /\ SubSeq(path[a], 1, Len(path[v])) = path[v]
    BY <2>1 DEF BelowIn
  <2>3. Leads(path[v], path[a])
    BY <1>2, <1>4, <2>2, LeadsIs
  <2> QED BY <1>0, <2>3 DEF Stays
<1>10. path[v] \in {f.path : f \in F}
  BY <1>2, <1>5
<1> QED BY <1>1, <1>3, <1>8, <1>9, <1>10 DEF Removes

LEMMA WriteStep ==
    ASSUME NEW mem, NEW live, NEW kids, NEW path, TreeIs(mem, live, kids, path), NEW f \in live,
           NEW t \in AllTexts, NEW m, m = SetText(mem, f, t), NEW a \in live
    PROVE  /\ TreeIs(m, live, kids, path) /\ \A b \in live : m[b].type = mem[b].type /\ m[b].name = mem[b].name
           /\ mem[f].type = "file" => Rewrites(FilesOf(mem, live, path), path[a], FilesOf(m, live, path), path[a])
<1>1. live \subseteq Cell /\ mem \in [Cell -> Nodes] /\ \A b \in live : mem[b] \in Nodes
  BY DEF TreeIs, Shaped
<1>2. /\ m \in [Cell -> Nodes] /\ \A b \in Cell : b # f => m[b] = mem[b]
      /\ \A b \in Cell : /\ m[b].used = mem[b].used /\ m[b].name = mem[b].name /\ m[b].type = mem[b].type
                         /\ m[b].parent = mem[b].parent /\ m[b].first = mem[b].first /\ m[b].next = mem[b].next
      /\ m[f].text = t
  BY ONLY <1>1, f \in live, t \in AllTexts, m = SetText(mem, f, t) DEF Nodes, SetText
<1>3. Rooted(m, live, kids)
  <2>1. Root \in live /\ Rooted(mem, live, kids)
    BY DEF TreeIs, Shaped
  <2>2. \A b \in live : /\ m[b].used = mem[b].used /\ m[b].name = mem[b].name /\ m[b].type = mem[b].type
                        /\ m[b].parent = mem[b].parent
    BY <1>1, <1>2
  <2> QED BY ONLY <2>1, <2>2 DEF Rooted
<1>4. ASSUME NEW b \in live PROVE Linked(m, kids, b) /\ Placed(m, kids, path, b)
  <2>1. \A i \in 1..Len(kids[b]) : kids[b][i] \in Cell
    BY <1>1, TypesOfTree, ElementOfSeq
  <2>2. Linked(mem, kids, b) /\ Placed(mem, kids, path, b) /\ b \in Cell
    BY <1>1 DEF TreeIs
  <2>3. Linked(m, kids, b)
    BY <1>2, <2>1, <2>2 DEF Linked
  <2>4. Placed(m, kids, path, b)
    BY <1>2, <2>1, <2>2 DEF Placed
  <2> QED BY <2>3, <2>4
<1>5. TreeIs(m, live, kids, path)
  BY <1>2, <1>3, <1>4 DEF TreeIs
<1>6. ASSUME mem[f].type = "file"
      PROVE  Rewrites(FilesOf(mem, live, path), path[a], FilesOf(m, live, path), path[a])
  <2>1. PICK F, e, g : F = FilesOf(mem, live, path) /\ e = FileOf(mem, path, f) /\ g = FileOf(m, path, f)
    OBVIOUS
  <2>2. e \in F /\ e.type = "file" /\ g \in FilesOf(m, live, path) /\ g = [e EXCEPT !.text = g.text]
    BY <1>1, <1>2, <1>6, <2>1 DEF FilesOf, FileOf
  <2>3. \A b \in live : b # f => FileOf(m, path, b) = FileOf(mem, path, b)
    BY <1>1, <1>2 DEF FileOf
  <2>4. \A b \in live : b # f => FileOf(mem, path, b) # e
    BY <2>1 DEF FileOf, TreeIs, Shaped
  <2>5. FilesOf(m, live, path) = (F \ {e}) \cup {g}
    BY <2>1, <2>3, <2>4 DEF FilesOf
  <2> QED BY <2>1, <2>2, <2>5 DEF Rewrites
<1>7. \A b \in live : m[b].type = mem[b].type /\ m[b].name = mem[b].name
  BY <1>1, <1>2
<1> QED BY <1>5, <1>6, <1>7

----------------------------------------------------------------------------
(* What the shell's commands and the package manager do to the tree.       *)

Moves(F, a, F2, a2) ==
    Makes(F, a, F2, a2) \/ Removes(F, a, F2, a2) \/ Rewrites(F, a, F2, a2) \/ (a2 \in DirsIn(F) /\ F2 = F)

\* From mem, with the shell in a, to m, with the shell in a2.
Reaches(mem, live, path, a, m, a2) ==
    \E live2, kids2, path2 :
        /\ TreeIs(m, live2, kids2, path2) /\ a2 \in live2 /\ m[a2].type = "dir"
        /\ Moves(FilesOf(mem, live, path), path[a], FilesOf(m, live2, path2), path2[a2])

\* The shell is in a.
IsIn(mem, live, kids, path, a) == TreeIs(mem, live, kids, path) /\ a \in live /\ mem[a].type = "dir"

LEMMA MoveReaches ==
    ASSUME NEW mem, NEW live, NEW kids, NEW path, NEW a, IsIn(mem, live, kids, path, a),
           NEW b \in live, mem[b].type = "dir"
    PROVE  Reaches(mem, live, path, a, mem, b)
<1>1. FileOf(mem, path, b) \in FilesOf(mem, live, path)
  BY DEF FilesOf
<1>2. path[b] \in DirsIn(FilesOf(mem, live, path))
  BY <1>1 DEF DirsIn, FileOf
<1> QED BY <1>2 DEF Reaches, Moves, IsIn

\* What is found after vfs_create.
LEMMA FoundAfter ==
    ASSUME NEW mem, NEW live, NEW kids, NEW path, TreeIs(mem, live, kids, path), NEW d \in live,
           NEW c \in Cell \ live, NEW name, NEW type, NEW text, mem[d].type = "dir",
           NEW m, NEW k2, NEW p2, TreeIs(m, live \cup {c}, k2, p2), k2 = MoreKids(live, kids, c, d),
           IsNew(mem, m, live, kids, c, d, name, type, text)
    PROVE  /\ VfsFind(m, d, name) # Null
           /\ \A b \in live : \A other : Named(mem, b, other) # Null => Named(m, b, other) = Named(mem, b, other)
<1>1. kids[d] \in Seq(live) /\ d # Null /\ c # Null
  BY TypesOfTree, CellsAre
<1>2. k2[d] = Append(kids[d], c) /\ \A b \in live : b # d => k2[b] = kids[b]
  BY DEF MoreKids
<1>3. PICK n \in Nat : /\ n = Len(kids[d]) /\ Len(k2[d]) = n + 1 /\ k2[d][n + 1] = c
                       /\ \A i \in 1..n : k2[d][i] = kids[d][i]
  BY <1>1, <1>2, AppendProperties
<1>4. Named(m, d, name) = c
  <2>1. Holds(m, k2, d, name, c)
    BY <1>3 DEF Holds, IsNew
  <2> QED BY <2>1, NamedIs
<1>5. m[d].type = "dir" /\ m[d].parent = mem[d].parent
  BY DEF IsNew, SameNode
<1>6. m[d].parent # Null
  <2>1. m[d].parent \in live
    BY <1>5 DEF TreeIs, Rooted, Shaped
  <2> QED BY <2>1, TypesOfTree, CellsAre
<1>7. VfsFind(m, d, name) # Null
  BY <1>1, <1>4, <1>5, <1>6 DEF VfsFind
<1>8. ASSUME NEW b \in live, NEW other, Named(mem, b, other) # Null
      PROVE  Named(m, b, other) = Named(mem, b, other)
  <2>1. PICK x : x = Named(mem, b, other)
    OBVIOUS
  <2>2. Holds(mem, kids, b, other, x) /\ x \in live
    BY <1>8, <2>1, NamedIs, FoundIsThere
  <2>3. PICK i \in 1..Len(kids[b]) : kids[b][i] = x /\ mem[x].name = other
    BY <2>2 DEF Holds
  <2>4. m[x].name = other
    BY <2>2, <2>3 DEF IsNew, SameNode
  <2>5. i \in 1..Len(k2[b]) /\ k2[b][i] = x
    BY <1>2, <1>3, <2>3
  <2>6. Holds(m, k2, b, other, x)
    BY <2>4, <2>5 DEF Holds
  <2> QED BY <2>1, <2>6, NamedIs
<1> QED BY <1>7, <1>8

LEMMA MakeReaches ==
    ASSUME NEW mem, NEW live, NEW kids, NEW path, NEW a, IsIn(mem, live, kids, path, a),
           NEW d \in live, NEW name \in NodeNames, NEW type \in Kinds, NEW text \in AllTexts,
           type = "dir" => name \notin Packages, MayCreate(mem, d, name), NEW c \in Unused(mem),
           NEW m, m = Create(mem, c, d, name, type, text)
    PROVE  /\ Reaches(mem, live, path, a, m, a) /\ VfsFind(m, d, name) # Null
           /\ \A b \in live : \A other : Named(mem, b, other) # Null => Named(m, b, other) = Named(mem, b, other)
<1>0. TreeIs(mem, live, kids, path) /\ a \in live /\ mem[a].type = "dir"
  BY DEF IsIn
<1>1. mem[d].type = "dir" /\ Named(mem, d, name) = Null
  BY <1>0, FoundIsThere DEF MayCreate
<1>2. c \in Cell \ live
  BY <1>0 DEF Unused, TreeIs, Rooted
<1>3. PICK k2, p2 : k2 = MoreKids(live, kids, c, d) /\ p2 = MorePaths(live, path, c, d, name)
  OBVIOUS
<1>4. TreeIs(m, live \cup {c}, k2, p2) /\ IsNew(mem, m, live, kids, c, d, name, type, text)
  BY <1>0, <1>1, <1>2, <1>3, CreateStep
<1>5. m[a].type = "dir"
  BY <1>0, <1>4 DEF IsNew, SameNode
<1>6. Makes(FilesOf(mem, live, path), path[a], FilesOf(m, live \cup {c}, p2), p2[a])
  BY <1>0, <1>1, <1>2, <1>3, <1>4, CreateShows
<1>7. Reaches(mem, live, path, a, m, a)
  BY <1>0, <1>4, <1>5, <1>6 DEF Reaches, Moves
<1>8. /\ VfsFind(m, d, name) # Null
      /\ \A b \in live : \A other : Named(mem, b, other) # Null => Named(m, b, other) = Named(mem, b, other)
  BY <1>0, <1>1, <1>2, <1>3, <1>4, FoundAfter
<1> QED BY <1>7, <1>8

\* The node that goes is not above the shell's directory.
LEMMA CutReaches ==
    ASSUME NEW mem, NEW live, NEW kids, NEW path, NEW a, IsIn(mem, live, kids, path, a),
           NEW d, NEW j, NEW v, NEW live2, Cut(mem, live, kids, path, d, j, v, live2), a \in live2,
           NEW name, v = Victim(mem, d, name), NEW m, m = VfsRemove(mem, d, name)
    PROVE  Reaches(mem, live, path, a, m, a)
<1>1. PICK k2, p2 : k2 = LessKids(live2, kids, d, j) /\ p2 = LessPaths(live2, path)
  OBVIOUS
<1>2. TreeIs(m, live2, k2, p2) /\ IsLess(mem, m, live, kids, d, j)
  BY <1>1, RemoveStep
<1>3. Removes(FilesOf(mem, live, path), path[a], FilesOf(m, live2, p2), p2[a])
  BY <1>1, <1>2, RemoveShows
<1>4. m[a].type = "dir"
  <2>1. v = kids[d][j] /\ v \notin live2 /\ live2 \subseteq live
    BY StaysAre DEF Cut
  <2> QED BY <1>2, <2>1 DEF IsLess, SameNode, IsIn
<1> QED BY <1>2, <1>3, <1>4 DEF Reaches, Moves

\* What Named finds can be cut.
LEMMA MayCut ==
    ASSUME NEW mem, NEW live, NEW kids, NEW path, TreeIs(mem, live, kids, path), NEW d \in live, NEW name,
           NEW v, v = Victim(mem, d, name), v # Null
    PROVE  \E j, live2 : Cut(mem, live, kids, path, d, j, v, live2)
<1>1. Holds(mem, kids, d, name, v)
  BY NamedIs DEF Victim
<1>2. PICK j \in 1..Len(kids[d]) : kids[d][j] = v
  BY <1>1 DEF Holds
<1>3. PICK live2 : live2 = Stays(live, path, v)
  OBVIOUS
<1>4. Cut(mem, live, kids, path, d, j, v, live2)
  BY <1>2, <1>3 DEF Cut
<1> QED BY <1>4

LEMMA RmReaches ==
    ASSUME NEW mem, NEW live, NEW kids, NEW path, NEW a, IsIn(mem, live, kids, path, a), NEW name,
           Victim(mem, a, name) # Null, NEW m, m = VfsRemove(mem, a, name)
    PROVE  Reaches(mem, live, path, a, m, a)
<1>1. PICK v : v = Victim(mem, a, name) /\ v # Null
  OBVIOUS
<1>2. PICK j, live2 : Cut(mem, live, kids, path, a, j, v, live2)
  BY <1>1, MayCut DEF IsIn
<1>3. a \in live2
  BY <1>2, StaysAre
<1> QED BY <1>1, <1>2, <1>3, CutReaches

\* A directory that leads to another one is that one, or has a child and so is no file.
LEMMA AboveIsDir ==
    ASSUME NEW mem, NEW live, NEW kids, NEW path, NEW a, IsIn(mem, live, kids, path, a), NEW v \in live,
           Leads(path[v], path[a])
    PROVE  mem[v].type = "dir"
<1>0. TreeIs(mem, live, kids, path) /\ a \in live /\ mem[a].type = "dir"
  BY DEF IsIn
<1>1. path[v] \in Seq(NodeNames) /\ path[a] \in Seq(NodeNames)
  BY <1>0, TypesOfTree
<1>2. PICK n \in Nat, l \in Nat : n = Len(path[v]) /\ l = Len(path[a])
  BY <1>1
<1>3. \A x, y \in live : path[x] = path[y] => x = y
  BY <1>0 DEF TreeIs, Shaped
<1>4. n <= l
  BY <1>2 DEF Leads
<1>5. CASE n = l
  <2>1. path[v] = path[a]
    BY <1>1, <1>2, <1>5, SeqEqual DEF Leads
  <2> QED BY <1>0, <1>3, <2>1
<1>6. CASE n # l
  <2>1. n + 1 \in 0..Len(path[a])
    BY <1>2, <1>4, <1>6
  <2>2. PICK b \in live : Len(path[b]) = n + 1 /\ Leads(path[b], path[a])
    BY <1>0, <2>1, Lineage
  <2>3. b # Root
    <3>1. path[Root] = <<>> /\ Len(<<>>) = 0 /\ n + 1 # 0
      BY <1>0, <1>2 DEF TreeIs, Shaped
    <3> QED BY <2>2, <3>1
  <2>4. PICK p \in live, i \in Nat :
           i \in 1..Len(kids[p]) /\ kids[p][i] = b /\ Extends(path[p], mem[b].name, path[b])
    BY <1>0, <2>3, ParentIs
  <2>5. path[p] \in Seq(NodeNames) /\ path[b] \in Seq(NodeNames) /\ kids[p] \in Seq(live)
    BY <1>0, TypesOfTree
  <2>6. Len(path[p]) = n
    <3>1. Len(path[b]) = Len(path[p]) + 1 /\ Len(path[b]) = n + 1 /\ Len(path[p]) \in Nat
      BY <2>2, <2>4, <2>5 DEF Extends
    <3> QED BY ONLY <3>1, n \in Nat
  <2>7. Leads(path[p], path[a])
    BY <1>1, <2>2, <2>4, <2>5, LeadsBack
  <2>8. path[p] = path[v]
    <3>1. \A k \in 1..n : path[p][k] = path[a][k] /\ path[v][k] = path[a][k]
      BY <1>2, <2>6, <2>7 DEF Leads
    <3>2. \A k \in 1..Len(path[p]) : path[p][k] = path[v][k]
      BY <2>6, <3>1
    <3> QED BY <1>1, <1>2, <2>5, <2>6, <3>2, SeqEqual
  <2>9. p = v /\ kids[p] # <<>>
    BY <1>3, <2>4, <2>5, <2>8, EmptySeq
  <2> QED BY <1>0, <2>9 DEF TreeIs, Placed
<1> QED BY <1>5, <1>6

LEMMA PkgRemoveReaches ==
    ASSUME NEW mem, NEW live, NEW kids, NEW path, NEW a, IsIn(mem, live, kids, path, a), NEW p \in Packages,
           NEW d \in live, Victim(mem, d, p) # Null, NEW m, m = VfsRemove(mem, d, p)
    PROVE  Reaches(mem, live, path, a, m, a)
<1>0. TreeIs(mem, live, kids, path) /\ a \in live
  BY DEF IsIn
<1>1. PICK v : v = Victim(mem, d, p) /\ v # Null
  OBVIOUS
<1>2. PICK j, live2 : Cut(mem, live, kids, path, d, j, v, live2)
  BY <1>0, <1>1, MayCut
<1>3. v \in live \ {Root} /\ mem[v].name = p
  BY <1>0, <1>1, NamedIs, FoundIsThere DEF Victim, Holds
<1>4. mem[v].type # "dir"
  BY <1>0, <1>3 DEF TreeIs, Rooted
<1>5. ~ Leads(path[v], path[a])
  BY <1>3, <1>4, AboveIsDir
<1>6. a \in live2
  BY <1>0, <1>2, <1>5 DEF Cut, Stays
<1> QED BY <1>1, <1>2, <1>6, CutReaches

LEMMA WriteReaches ==
    ASSUME NEW mem, NEW live, NEW kids, NEW path, NEW a, IsIn(mem, live, kids, path, a), NEW f \in live,
           mem[f].type = "file", NEW text \in AllTexts, NEW m \in VfsWrite(mem, f, text)
    PROVE  Reaches(mem, live, path, a, m, a)
<1>0. TreeIs(mem, live, kids, path) /\ a \in live /\ mem[a].type = "dir"
  BY DEF IsIn
<1>1. PICK t \in AllTexts : m = SetText(mem, f, t)
  BY DEF VfsWrite, AllTexts
<1>2. /\ TreeIs(m, live, kids, path) /\ \A b \in live : m[b].type = mem[b].type /\ m[b].name = mem[b].name
      /\ mem[f].type = "file" => Rewrites(FilesOf(mem, live, path), path[a], FilesOf(m, live, path), path[a])
  BY ONLY <1>0, <1>1, f \in live, WriteStep
<1> QED BY <1>0, <1>2 DEF Reaches, Moves

----------------------------------------------------------------------------
(* The stack of install_rec.                                               *)

Stages == {"deps", "bin", "file", "text"}
Frames == [pkg : Packages, dep : Nat, stage : Stages]

\* Who waits for a package that it needs is at its dependencies.
Waiting(st) == st \in Seq(Frames) /\ \A i \in 1..Len(st) : st[i].stage = "deps"

\* The one on top has found what it goes on with.
TopIs(mem, top) ==
    LET bin == VfsFind(mem, Root, "bin") IN
    /\ top.stage \in {"file", "text"} => bin # Null
    /\ top.stage = "text" => VfsFind(mem, bin, top.pkg) # Null

Stacked(mem, st) ==
    /\ st \in Seq(Frames) /\ \A i \in 1..Len(st) : i < Len(st) => st[i].stage = "deps"
    /\ st # <<>> => TopIs(mem, st[Len(st)])

FsInv == Stacked(node, install) /\ \E live, kids, path : IsIn(node, live, kids, path, cwd)

LEMMA WaitingIs ==
    ASSUME NEW mem, NEW st, Waiting(st)
    PROVE  Stacked(mem, st)
<1>1. SUFFICES ASSUME st # <<>> PROVE TopIs(mem, st[Len(st)])
  BY DEF Waiting, Stacked
<1>2. Len(st) \in 1..Len(st)
  BY <1>1, EmptySeq DEF Waiting
<1>3. st[Len(st)].stage = "deps"
  BY <1>2 DEF Waiting
<1> QED BY <1>3 DEF TopIs

LEMMA PushedIs ==
    ASSUME NEW mem, NEW cs, Waiting(cs), NEW top \in Frames, TopIs(mem, top)
    PROVE  Stacked(mem, Append(cs, top))
<1>1. PICK st : st = Append(cs, top)
  OBVIOUS
<1>2. PICK n \in Nat : n = Len(cs)
  BY DEF Waiting
<1>3. st \in Seq(Frames) /\ Len(st) = n + 1 /\ st[n + 1] = top /\ \A i \in 1..n : st[i] = cs[i]
  BY <1>1, <1>2, AppendProperties DEF Waiting
<1>4. \A i \in 1..Len(st) : i < Len(st) => st[i].stage = "deps"
  BY <1>2, <1>3 DEF Waiting
<1> QED BY <1>1, <1>3, <1>4 DEF Stacked

LEMMA TopAndCallers ==
    ASSUME NEW mem, NEW st, Stacked(mem, st), st # <<>>
    PROVE  /\ Waiting(SubSeq(st, 1, Len(st) - 1)) /\ st[Len(st)] \in Frames /\ TopIs(mem, st[Len(st)])
<1>1. PICK n \in Nat : n = Len(st) /\ n # 0 /\ st \in Seq(Frames)
  BY EmptySeq DEF Stacked
<1>2. n - 1 \in Nat /\ \A i \in 1..n - 1 : i \in 1..n /\ i < n
  BY <1>1
<1>3. \A i \in 1..n : st[i] \in Frames
  BY <1>1, ElementOfSeq
<1>4. PICK cs : cs = SubSeq(st, 1, n - 1)
  OBVIOUS
<1>5. \A i \in 1..n - 1 : st[i] \in Frames
  BY <1>2, <1>3
<1>6. cs \in Seq(Frames) /\ Len(cs) = (IF 1 <= n - 1 THEN n - 1 - 1 + 1 ELSE 0)
      /\ \A i \in 1..n - 1 - 1 + 1 : cs[i] = st[1 + i - 1]
  BY <1>2, <1>4, <1>5, SubSeqProperties
<1>7. Len(cs) = n - 1 /\ \A i \in 1..n - 1 : i \in 1..n - 1 - 1 + 1 /\ 1 + i - 1 = i
  BY ONLY <1>2, <1>6, n \in Nat
<1>8. \A i \in 1..n - 1 : cs[i] = st[i]
  BY ONLY <1>6, <1>7
<1>9. \A i \in 1..n - 1 : st[i].stage = "deps"
  BY <1>1, <1>2 DEF Stacked
<1>10. Waiting(cs)
  BY <1>6, <1>7, <1>8, <1>9 DEF Waiting
<1>11. n \in 1..n
  BY <1>1
<1> QED BY <1>1, <1>3, <1>4, <1>10, <1>11 DEF Stacked

LEMMA PairIs ==
    ASSUME NEW mem, NEW cs, Waiting(cs), NEW f \in Frames, f.stage = "deps", NEW g \in Frames, TopIs(mem, g)
    PROVE  Stacked(mem, Append(cs, f) \o <<g>>)
<1>1. PICK st : st = Append(cs, f)
  OBVIOUS
<1>2. PICK n \in Nat : n = Len(cs)
  BY DEF Waiting
<1>3. st \in Seq(Frames) /\ Len(st) = n + 1 /\ st[n + 1] = f /\ \A i \in 1..n : st[i] = cs[i]
  BY <1>1, <1>2, AppendProperties DEF Waiting
<1>4. Waiting(st)
  BY <1>2, <1>3 DEF Waiting
<1>5. Stacked(mem, Append(st, g))
  BY <1>4, PushedIs
<1>6. Append(st, g) = st \o <<g>>
  BY <1>3, AppendIsConcat
<1> QED BY <1>1, <1>5, <1>6

LEMMA AloneIs ==
    ASSUME NEW mem, NEW cs, Waiting(cs), NEW f \in Frames, TopIs(mem, f)
    PROVE  Stacked(mem, Append(cs, f) \o <<>>)
<1>1. Append(cs, f) \in Seq(Frames)
  BY AppendProperties DEF Waiting
<1>2. Append(cs, f) \o <<>> = Append(cs, f)
  BY <1>1, ConcatEmptySeq
<1> QED BY <1>2, PushedIs

\* Of the frame on top, only the stage.
LEMMA StageIs ==
    ASSUME NEW f \in Frames, NEW s \in Stages
    PROVE  /\ [f EXCEPT !.stage = s] \in Frames /\ [f EXCEPT !.stage = s].stage = s
           /\ [f EXCEPT !.stage = s].pkg = f.pkg
  BY DEF Frames

LEMMA NextDepIs ==
    ASSUME NEW f \in Frames
    PROVE  /\ [f EXCEPT !.dep = @ + 1] \in Frames /\ [f EXCEPT !.dep = @ + 1].stage = f.stage
  BY DEF Frames

----------------------------------------------------------------------------
(* Every step.                                                             *)

\* A step that starts in a good state.
Goes(live, path) == Reaches(node, live, path, cwd, node', cwd') /\ Stacked(node', install')

LEMMA SameGoes ==
    ASSUME NEW live, NEW kids, NEW path, IsIn(node, live, kids, path, cwd), Stacked(node', install'),
           node' = node, cwd' = cwd
    PROVE  Goes(live, path)
<1>1. Reaches(node, live, path, cwd, node, cwd)
  BY MoveReaches DEF IsIn
<1> QED BY <1>1 DEF Goes

LEMMA IdleStack == ASSUME NEW mem PROVE Stacked(mem, <<>>)
<1>1. <<>> \in Seq(Frames) /\ \A i \in 1..Len(<<>>) : FALSE
  OBVIOUS
<1> QED BY <1>1 DEF Stacked

LEMMA CommandGoes ==
    ASSUME NEW live, NEW kids, NEW path, IsIn(node, live, kids, path, cwd), Command,
           \/ \E name \in Known : Cd(name) \/ Rm(name) \/ \E text \in Texts : WriteFile(name, text)
           \/ \E name \in UserNames, type \in {"dir", "file"} : MkNode(name, type)
           \/ \E name \in UserNames, target \in Texts : Ln(name, target)
           \/ CdHome
           \/ \E p \in Packages : PkgInstall(p) \/ PkgRemove(p)
    PROVE  Goes(live, path)
<1>0. TreeIs(node, live, kids, path) /\ cwd \in live /\ node[cwd].type = "dir"
  BY DEF IsIn
<1>1. Root \in live /\ node[Root].type = "dir"
  BY <1>0 DEF TreeIs, Shaped, Rooted
<1>2. install' = <<>> => Stacked(node', install')
  BY IdleStack
<1>3. install = <<>>
  BY DEF Command
<1>4. ASSUME NEW name \in Known, Cd(name) PROVE Goes(live, path)
  <2>1. cwd' \in live /\ node[cwd'].type = "dir"
    BY <1>0, <1>4, FoundIsThere DEF Cd
  <2>2. Reaches(node, live, path, cwd, node, cwd')
    BY <2>1, MoveReaches
  <2> QED BY <1>2, <1>3, <1>4, <2>2 DEF Cd, Goes
<1>5. ASSUME NEW name \in Known, Rm(name) PROVE Goes(live, path)
  <2>1. Reaches(node, live, path, cwd, node', cwd)
    BY <1>5, RmReaches DEF Rm
  <2> QED BY <1>2, <1>3, <1>5, <2>1 DEF Rm, Goes
<1>6. ASSUME NEW name \in Known, NEW text \in Texts, WriteFile(name, text) PROVE Goes(live, path)
  <2>1. PICK f : f = VfsFind(node, cwd, name)
    OBVIOUS
  <2>2. f # Null /\ node[f].type = "file" /\ node' \in VfsWrite(node, f, text)
    BY <1>6, <2>1 DEF WriteFile
  <2>3. f \in live
    BY <1>0, <2>1, <2>2, FoundIsThere
  <2>4. text \in AllTexts
    BY DEF AllTexts
  <2>5. Reaches(node, live, path, cwd, node', cwd)
    BY <2>2, <2>3, <2>4, WriteReaches
  <2> QED BY <1>2, <1>3, <1>6, <2>5 DEF WriteFile, Goes
<1>7. ASSUME NEW name \in UserNames, NEW type \in {"dir", "file"}, MkNode(name, type) PROVE Goes(live, path)
  <2>1. name \in NodeNames /\ name \notin Packages /\ type \in Kinds /\ "" \in AllTexts
    BY VfsAssumption DEF NodeNames, Kinds, AllTexts
  <2>2. PICK c \in Unused(node) : node' = Create(node, c, cwd, name, type, "")
    BY <1>7 DEF MkNode
  <2>3. MayCreate(node, cwd, name)
    BY <1>7 DEF MkNode
  <2>4. Reaches(node, live, path, cwd, node', cwd)
    BY <1>0, <2>1, <2>2, <2>3, MakeReaches
  <2> QED BY <1>2, <1>3, <1>7, <2>4 DEF MkNode, Goes
<1>8. ASSUME NEW name \in UserNames, NEW target \in Texts, Ln(name, target) PROVE Goes(live, path)
  <2>1. name \in NodeNames /\ "link" \in Kinds /\ "link" # "dir" /\ \A t \in {target, ""} : t \in AllTexts
    BY DEF NodeNames, Kinds, AllTexts
  <2>2. PICK c \in Unused(node), t \in {target, ""} : node' = Create(node, c, cwd, name, "link", t)
    BY <1>8 DEF Ln
  <2>3. MayCreate(node, cwd, name) /\ t \in AllTexts
    BY <1>8, <2>1 DEF Ln
  <2>4. Reaches(node, live, path, cwd, node', cwd)
    BY <1>0, <2>1, <2>2, <2>3, MakeReaches
  <2> QED BY <1>2, <1>3, <1>8, <2>4 DEF Ln, Goes
<1>9. CASE CdHome
  <2>1. Reaches(node, live, path, cwd, node, Root)
    BY <1>1, MoveReaches
  <2> QED BY <1>2, <1>3, <1>9, <2>1 DEF CdHome, Goes
<1>10. ASSUME NEW p \in Packages, PkgInstall(p) PROVE Goes(live, path)
  <2>1. node' = node /\ cwd' = cwd /\ install' = <<Frame(p)>>
    BY <1>10 DEF PkgInstall
  <2>2. Stacked(node, <<Frame(p)>>)
    <3>1. Frame(p) \in Frames /\ TopIs(node, Frame(p))
      BY DEF Frame, Frames, Stages, TopIs
    <3>2. Waiting(<<>>)
      BY IdleStack DEF Waiting, Stacked
    <3>3. Append(<<>>, Frame(p)) = <<Frame(p)>>
      OBVIOUS
    <3> QED BY <3>1, <3>2, <3>3, PushedIs
  <2> QED BY <2>1, <2>2, SameGoes
<1>11. ASSUME NEW p \in Packages, PkgRemove(p) PROVE Goes(live, path)
  <2>1. Bin \in live \cup {Null}
    BY <1>0, <1>1, FoundIsThere DEF Bin
  <2>2. CASE Bin # Null /\ Victim(node, Bin, p) # Null
    <3>1. node' = VfsRemove(node, Bin, p) /\ Bin \in live
      BY <1>11, <2>1, <2>2 DEF PkgRemove
    <3>2. Reaches(node, live, path, cwd, node', cwd)
      BY <2>2, <3>1, PkgRemoveReaches
    <3> QED BY <1>2, <1>3, <1>11, <3>2 DEF PkgRemove, Goes
  <2>3. CASE ~ (Bin # Null /\ Victim(node, Bin, p) # Null)
    <3>1. node' = node /\ cwd' = cwd /\ install' = install
      BY <1>11, <2>3 DEF PkgRemove
    <3> QED BY <1>2, <1>3, <3>1, SameGoes
  <2> QED BY <2>2, <2>3
<1> QED BY <1>4, <1>5, <1>6, <1>7, <1>8, <1>9, <1>10, <1>11

\* A step that leaves the tree as it is, with another stack.
LEMMA PopGoes ==
    ASSUME NEW live, NEW kids, NEW path, IsIn(node, live, kids, path, cwd), Waiting(Callers),
           install' = Callers, Reaches(node, live, path, cwd, node', cwd), cwd' = cwd
    PROVE  Goes(live, path)
  BY WaitingIs DEF Goes

\* The frame on top goes on to stage s.
LEMMA StageGoes ==
    ASSUME NEW live, NEW path, Waiting(Callers), Now \in Frames, NEW s \in Stages, install' = Stage(s),
           TopIs(node', [Now EXCEPT !.stage = s]), Reaches(node, live, path, cwd, node', cwd), cwd' = cwd
    PROVE  Goes(live, path)
<1>1. PICK f : f = [Now EXCEPT !.stage = s]
  OBVIOUS
<1>2. f \in Frames
  BY <1>1, StageIs
<1>3. Stacked(node', Append(Callers, f))
  BY <1>1, <1>2, PushedIs
<1> QED BY <1>1, <1>3 DEF Goes, Stage

LEMMA DepGoes ==
    ASSUME NEW live, NEW kids, NEW path, IsIn(node, live, kids, path, cwd), Stacked(node, install), InstallDep
    PROVE  Goes(live, path)
<1>0. install # <<>> /\ Now.stage = "deps" /\ node' = node /\ cwd' = cwd
  BY DEF InstallDep, Command
<1>1. Waiting(Callers) /\ Now \in Frames
  BY <1>0, TopAndCallers DEF Callers, Now
<1>2. PICK f : f = [Now EXCEPT !.dep = @ + 1]
  OBVIOUS
<1>3. f \in Frames /\ f.stage = "deps" /\ TopIs(node, f)
  BY <1>0, <1>1, <1>2, NextDepIs DEF TopIs
<1>4. Reaches(node, live, path, cwd, node', cwd)
  BY <1>0, MoveReaches DEF IsIn
<1>5. CASE Now.dep \notin DOMAIN Deps[Now.pkg]
  <2>1. install' = Stage("bin")
    BY <1>5 DEF InstallDep
  <2>2. "bin" \in Stages
    BY DEF Stages
  <2>3. TopIs(node', [Now EXCEPT !.stage = "bin"])
    BY <1>1, <2>2, StageIs DEF TopIs
  <2> QED BY <1>0, <1>1, <1>4, <2>1, <2>2, <2>3, StageGoes
<1>6. CASE Now.dep \in DOMAIN Deps[Now.pkg]
  <2>1. PICK q : q = Deps[Now.pkg][Now.dep]
    OBVIOUS
  <2>2. install' = Append(Callers, f) \o (IF q \in installed THEN <<>> ELSE <<Frame(q)>>)
    BY <1>2, <1>6, <2>1 DEF InstallDep
  <2>3. q \in Packages
    <3>1. Now.pkg \in Packages
      BY <1>1 DEF Frames
    <3>2. Deps[Now.pkg] \in Seq(Packages)
      BY <3>1, VfsAssumption
    <3>3. Now.dep \in 1..Len(Deps[Now.pkg])
      BY <1>6, <3>2
    <3> QED BY <2>1, <3>2, <3>3, ElementOfSeq
  <2>4. Frame(q) \in Frames /\ TopIs(node, Frame(q))
    BY <2>3 DEF Frame, Frames, Stages, TopIs
  <2>5. CASE q \in installed
    <3>1. Stacked(node, Append(Callers, f) \o <<>>)
      BY <1>1, <1>3, AloneIs
    <3> QED BY <1>0, <1>4, <2>2, <2>5, <3>1 DEF Goes
  <2>6. CASE q \notin installed
    <3>1. Stacked(node, Append(Callers, f) \o <<Frame(q)>>)
      BY <1>1, <1>3, <2>4, PairIs
    <3> QED BY <1>0, <1>4, <2>2, <2>6, <3>1 DEF Goes
  <2> QED BY <2>5, <2>6
<1> QED BY <1>5, <1>6

\* /bin, and what it is after a file was made.
LEMMA BinIs ==
    ASSUME NEW mem, NEW live, NEW kids, NEW path, TreeIs(mem, live, kids, path)
    PROVE  /\ Root \in live /\ mem[Root].type = "dir"
           /\ VfsFind(mem, Root, "bin") = Named(mem, Root, "bin")
<1>1. Root \in live /\ mem[Root].type = "dir"
  BY DEF TreeIs, Shaped, Rooted
<1> QED BY <1>1 DEF VfsFind

LEMMA BinStays ==
    ASSUME NEW mem, NEW live, NEW kids, NEW path, NEW a, TreeIs(mem, live, kids, path), NEW m,
           Reaches(mem, live, path, a, m, a), VfsFind(mem, Root, "bin") # Null,
           \A b \in live : \A other : Named(mem, b, other) # Null => Named(m, b, other) = Named(mem, b, other)
    PROVE  VfsFind(m, Root, "bin") = VfsFind(mem, Root, "bin")
<1>1. PICK live2, kids2, path2 : TreeIs(m, live2, kids2, path2)
  BY DEF Reaches
<1>2. /\ Root \in live /\ VfsFind(mem, Root, "bin") = Named(mem, Root, "bin")
      /\ VfsFind(m, Root, "bin") = Named(m, Root, "bin")
  BY <1>1, BinIs
<1> QED BY <1>2

LEMMA BinGoes ==
    ASSUME NEW live, NEW kids, NEW path, IsIn(node, live, kids, path, cwd), Stacked(node, install), InstallBin
    PROVE  Goes(live, path)
<1>0. install # <<>> /\ cwd' = cwd /\ TreeIs(node, live, kids, path)
  BY DEF InstallBin, Command, IsIn
<1>1. Waiting(Callers) /\ Now \in Frames
  BY <1>0, TopAndCallers DEF Callers, Now
<1>2. Reaches(node, live, path, cwd, node, cwd)
  BY MoveReaches DEF IsIn
<1>3. "file" \in Stages
  BY DEF Stages
<1>4. PICK f : f = [Now EXCEPT !.stage = "file"]
  OBVIOUS
<1>5. f.stage = "file"
  BY <1>1, <1>3, <1>4, StageIs
<1>6. Root \in live /\ node[Root].type = "dir"
  BY <1>0, BinIs
<1>7. ASSUME Bin = Null, NEW c \in Unused(node), node' = Create(node, c, Root, "bin", "dir", ""), install' = Stage("file")
      PROVE  Goes(live, path)
  <2>1. MayCreate(node, Root, "bin")
    BY <1>6, <1>7 DEF MayCreate, Bin
  <2>2. "bin" \in NodeNames /\ "bin" \notin Packages /\ "dir" \in Kinds /\ "" \in AllTexts
    BY VfsAssumption DEF NodeNames, Kinds, AllTexts
  <2>3. Reaches(node, live, path, cwd, node', cwd) /\ VfsFind(node', Root, "bin") # Null
    BY <1>6, <1>7, <2>1, <2>2, MakeReaches
  <2>4. TopIs(node', f)
    BY <1>5, <2>3 DEF TopIs
  <2> QED BY <1>0, <1>1, <1>3, <1>4, <1>7, <2>3, <2>4, StageGoes
<1>8. ASSUME Bin # Null, node' = node, install' = Stage("file") PROVE Goes(live, path)
  <2>1. TopIs(node', f)
    BY <1>5, <1>8 DEF TopIs, Bin
  <2> QED BY <1>0, <1>1, <1>2, <1>3, <1>4, <1>8, <2>1, StageGoes
<1>9. ASSUME node' = node, install' = Callers PROVE Goes(live, path)
  BY <1>0, <1>1, <1>2, <1>9, PopGoes
<1> QED BY <1>7, <1>8, <1>9 DEF InstallBin

LEMMA FileGoes ==
    ASSUME NEW live, NEW kids, NEW path, IsIn(node, live, kids, path, cwd), Stacked(node, install), InstallFile
    PROVE  Goes(live, path)
<1>0. install # <<>> /\ Now.stage = "file" /\ cwd' = cwd /\ TreeIs(node, live, kids, path)
  BY DEF InstallFile, Command, IsIn
<1>1. Waiting(Callers) /\ Now \in Frames /\ TopIs(node, Now)
  BY <1>0, TopAndCallers DEF Callers, Now
<1>2. Reaches(node, live, path, cwd, node, cwd)
  BY MoveReaches DEF IsIn
<1>3. PICK p : p = Now.pkg /\ p \in Packages
  BY <1>1 DEF Frames
<1>4. PICK bin : bin = Bin /\ bin # Null /\ bin \in live
  <2>1. Bin # Null
    BY <1>0, <1>1 DEF TopIs, Bin
  <2> QED BY <1>0, <2>1, BinIs, FoundIsThere DEF Bin
<1>5. PICK f : f = [Now EXCEPT !.stage = "text"]
  OBVIOUS
<1>6. "text" \in Stages /\ f.stage = "text" /\ f.pkg = p
  BY <1>1, <1>3, <1>5, StageIs DEF Stages
<1>7. ASSUME MayCreate(node, bin, p), NEW c \in Unused(node), node' = Create(node, c, bin, p, "file", ""),
             install' = Stage("text")
      PROVE  Goes(live, path)
  <2>1. p \in NodeNames /\ "file" \in Kinds /\ "file" # "dir" /\ "" \in AllTexts
    BY <1>3 DEF NodeNames, Kinds, AllTexts
  <2>2. /\ Reaches(node, live, path, cwd, node', cwd) /\ VfsFind(node', bin, p) # Null
        /\ \A b \in live : \A other : Named(node, b, other) # Null => Named(node', b, other) = Named(node, b, other)
    <3>1. bin \in live /\ IsIn(node, live, kids, path, cwd)
      BY <1>4
    <3>2. PICK m, kind, t : m = node' /\ kind = "file" /\ t = ""
      OBVIOUS
    <3>3. kind \in Kinds /\ (kind = "dir" => p \notin Packages) /\ t \in AllTexts /\ m = Create(node, c, bin, p, kind, t)
      BY <1>7, <2>1, <3>2
    <3>4. p \in NodeNames /\ MayCreate(node, bin, p) /\ c \in Unused(node)
      BY <1>7, <2>1
    <3>5. /\ Reaches(node, live, path, cwd, m, cwd) /\ VfsFind(m, bin, p) # Null
          /\ \A b \in live : \A other : Named(node, b, other) # Null => Named(m, b, other) = Named(node, b, other)
      BY ONLY <3>1, <3>3, <3>4, MakeReaches
    <3> QED BY <3>2, <3>5
  <2>3. VfsFind(node', Root, "bin") = bin
    BY <1>0, <1>4, <2>2, BinStays DEF Bin
  <2>4. TopIs(node', f)
    BY <1>4, <1>6, <2>2, <2>3 DEF TopIs
  <2> QED BY <1>0, <1>1, <1>5, <1>6, <1>7, <2>2, <2>4, StageGoes
<1>8. ASSUME VfsFind(node, bin, p) # Null, node' = node, install' = Stage("text") PROVE Goes(live, path)
  <2>1. TopIs(node', f)
    BY <1>4, <1>6, <1>8 DEF TopIs, Bin
  <2> QED BY <1>0, <1>1, <1>2, <1>5, <1>6, <1>8, <2>1, StageGoes
<1>9. ASSUME node' = node, install' = Callers PROVE Goes(live, path)
  BY <1>0, <1>1, <1>2, <1>9, PopGoes
<1> QED BY <1>3, <1>4, <1>7, <1>8, <1>9 DEF InstallFile

LEMMA TextGoes ==
    ASSUME NEW live, NEW kids, NEW path, IsIn(node, live, kids, path, cwd), Stacked(node, install), InstallText
    PROVE  Goes(live, path)
<1>0. install # <<>> /\ Now.stage = "text" /\ install' = Callers /\ cwd' = cwd /\ TreeIs(node, live, kids, path)
  BY DEF InstallText, Command, IsIn
<1>1. Waiting(Callers) /\ Now \in Frames /\ TopIs(node, Now)
  BY <1>0, TopAndCallers DEF Callers, Now
<1>2. PICK f : f = VfsFind(node, Bin, Now.pkg)
  OBVIOUS
<1>3. f \in live
  <2>1. Bin # Null /\ f # Null
    BY <1>0, <1>1, <1>2 DEF TopIs, Bin
  <2>2. Bin \in live
    BY <1>0, <2>1, BinIs, FoundIsThere DEF Bin
  <2> QED BY <1>0, <1>2, <2>1, <2>2, FoundIsThere
<1>4. CASE node[f].type = "file"
  <2>1. node' \in VfsWrite(node, f, "package")
    BY <1>2, <1>4 DEF InstallText
  <2>2. "package" \in AllTexts
    BY DEF AllTexts
  <2>3. Reaches(node, live, path, cwd, node', cwd)
    BY <1>3, <1>4, <2>1, <2>2, WriteReaches
  <2> QED BY <1>0, <1>1, <2>3, PopGoes
<1>5. CASE node[f].type # "file"
  <2>1. node' = node
    BY <1>2, <1>5 DEF InstallText
  <2>2. Reaches(node, live, path, cwd, node', cwd)
    BY <2>1, MoveReaches DEF IsIn
  <2> QED BY <1>0, <1>1, <2>2, PopGoes
<1> QED BY <1>4, <1>5

LEMMA StepGoes ==
    ASSUME NEW live, NEW kids, NEW path, IsIn(node, live, kids, path, cwd), Stacked(node, install),
           [VfsNext]_vfsVars
    PROVE  Goes(live, path)
<1>1. CASE InstallDep
  BY <1>1, DepGoes
<1>2. CASE InstallBin
  BY <1>2, BinGoes
<1>3. CASE InstallFile
  BY <1>3, FileGoes
<1>4. CASE InstallText
  BY <1>4, TextGoes
<1>5. CASE UNCHANGED vfsVars
  <2>1. node' = node /\ cwd' = cwd /\ install' = install
    BY <1>5 DEF vfsVars
  <2> QED BY <2>1, SameGoes
<1>6. ASSUME \/ \E name \in Known : Cd(name) \/ Rm(name) \/ \E text \in Texts : WriteFile(name, text)
             \/ \E name \in UserNames, type \in {"dir", "file"} : MkNode(name, type)
             \/ \E name \in UserNames, target \in Texts : Ln(name, target)
             \/ CdHome
             \/ \E p \in Packages : PkgInstall(p) \/ PkgRemove(p)
      PROVE  Goes(live, path)
  <2>1. Command
    BY <1>6 DEF Cd, Rm, WriteFile, MkNode, Ln, CdHome, PkgInstall, PkgRemove
  <2> QED BY <1>6, <2>1, CommandGoes
<1> QED BY <1>1, <1>2, <1>3, <1>4, <1>5, <1>6 DEF VfsNext

\* The state is good when the cells are a tree, the shell is in a directory of it,
\* and the package manager has found what it goes on with.
LEMMA FsInvInit == VfsInit => FsInv
<1>1. SUFFICES ASSUME VfsInit PROVE FsInv
  OBVIOUS
<1>2. node = Booted /\ cwd = Root /\ Stacked(node, install)
  BY <1>1, IdleStack DEF VfsInit
<1>3. PICK live, kids, path : TreeIs(node, live, kids, path)
  BY <1>2, BootedIs DEF HasTree
<1>4. IsIn(node, live, kids, path, cwd)
  BY <1>2, <1>3, BinIs DEF IsIn
<1> QED BY <1>2, <1>4 DEF FsInv

LEMMA FsInvStep == FsInv /\ [VfsNext]_vfsVars => FsInv'
<1>1. SUFFICES ASSUME FsInv, [VfsNext]_vfsVars PROVE FsInv'
  OBVIOUS
<1>2. PICK live, kids, path : IsIn(node, live, kids, path, cwd) /\ Stacked(node, install)
  BY <1>1 DEF FsInv
<1>3. Reaches(node, live, path, cwd, node', cwd') /\ Stacked(node', install')
  BY <1>1, <1>2, StepGoes DEF Goes
<1>4. PICK live2, kids2, path2 : TreeIs(node', live2, kids2, path2) /\ cwd' \in live2 /\ node'[cwd'].type = "dir"
  BY <1>3 DEF Reaches
<1>5. IsIn(node', live2, kids2, path2, cwd')
  BY <1>4 DEF IsIn
<1> QED BY <1>3, <1>5 DEF FsInv

\* In every state the cells are a tree of directories and files: each list of
\* children ends, no name is in it twice, each child knows its parent; the
\* shell is in a directory of it, and install_rec works on files that are there.
THEOREM VfsInvariance == VfsSpec => []FsInv
  BY FsInvInit, FsInvStep, PTL DEF VfsSpec

\* A step of the cells is one of the tree's.
TreeMoves == Moves(TreeFiles(node), PathOf(node, cwd), TreeFiles(node)', PathOf(node, cwd)')

LEMMA ShownAre ==
    ASSUME NEW mem, NEW live, NEW kids, NEW path, TreeIs(mem, live, kids, path), NEW a \in live
    PROVE  TreeFiles(mem) = FilesOf(mem, live, path) /\ PathOf(mem, a) = path[a]
  BY TreeFilesAre, PathIs DEF FilesOf

LEMMA StepMoves == FsInv /\ [VfsNext]_vfsVars => TreeMoves
<1>1. SUFFICES ASSUME FsInv, [VfsNext]_vfsVars PROVE TreeMoves
  OBVIOUS
<1>2. PICK live, kids, path : IsIn(node, live, kids, path, cwd) /\ Stacked(node, install)
  BY <1>1 DEF FsInv
<1>3. Reaches(node, live, path, cwd, node', cwd')
  BY <1>1, <1>2, StepGoes DEF Goes
<1>4. PICK live2, kids2, path2 :
         /\ TreeIs(node', live2, kids2, path2) /\ cwd' \in live2
         /\ Moves(FilesOf(node, live, path), path[cwd], FilesOf(node', live2, path2), path2[cwd'])
  BY <1>3 DEF Reaches
<1>5. TreeFiles(node) = FilesOf(node, live, path) /\ PathOf(node, cwd) = path[cwd]
  BY <1>2, ShownAre DEF IsIn
<1>6. TreeFiles(node') = FilesOf(node', live2, path2) /\ PathOf(node', cwd') = path2[cwd']
  BY <1>4, ShownAre
<1>7. Moves(TreeFiles(node), PathOf(node, cwd), TreeFiles(node'), PathOf(node', cwd'))
  BY ONLY <1>4, <1>5, <1>6
<1>8. TreeFiles(node)' = TreeFiles(node') /\ PathOf(node, cwd)' = PathOf(node', cwd')
  BY DEF TreeFiles
<1> QED BY <1>7, <1>8 DEF TreeMoves

LEMMA InitShows == VfsInit => Tree!TreeInit
<1>1. SUFFICES ASSUME VfsInit PROVE Tree!TreeInit
  OBVIOUS
<1>2. PICK live, kids, path : IsIn(node, live, kids, path, cwd)
  BY <1>1, FsInvInit DEF FsInv
<1>3. TreeIs(node, live, kids, path) /\ cwd = Root
  BY <1>1, <1>2 DEF IsIn, VfsInit
<1>4. PICK F : F = TreeFiles(node)
  OBVIOUS
<1>5. F = FilesOf(node, live, path) /\ PathOf(node, cwd) = path[Root] /\ Root \in live /\ path[Root] = <<>>
  <2>1. Root \in live /\ path[Root] = <<>>
    BY <1>3 DEF TreeIs, Shaped
  <2> QED BY <1>3, <1>4, <2>1, ShownAre
<1>6. FileOf(node, path, Root) \in F /\ node[Root].type = "dir"
  BY <1>3, <1>5, BinIs DEF FilesOf
<1>7. <<>> \in DirsIn(F)
  BY <1>5, <1>6 DEF DirsIn, FileOf
<1>8. \A f, g \in F : f.path = g.path => f = g
  <2>1. \A b, c \in live : path[b] = path[c] => b = c
    BY <1>3 DEF TreeIs, Shaped
  <2> QED BY <1>5, <2>1 DEF FilesOf, FileOf
<1>9. \A f \in F : f.type \in Kinds
  BY <1>3, <1>5, KindOf DEF FilesOf, FileOf
<1>10. \A f \in F : f.path # <<>> => SubSeq(f.path, 1, Len(f.path) - 1) \in DirsIn(F)
  <2>1. \A c \in live : c # Root => SubSeq(path[c], 1, Len(path[c]) - 1) \in DirsIn(F)
    BY <1>3, <1>5, HolderIs
  <2> QED BY <1>5, <2>1 DEF FilesOf, FileOf
<1> QED BY <1>4, <1>5, <1>7, <1>8, <1>9, <1>10 DEF Tree!TreeInit, Tree!Dirs, TreeFiles, DirsIn, Kinds

LEMMA MovesAreNext == TreeMoves => [Tree!TreeNext]_(Tree!treeVars)
<1>1. SUFFICES ASSUME TreeMoves PROVE Tree!TreeNext
  OBVIOUS
<1>2. CASE Makes(TreeFiles(node), PathOf(node, cwd), TreeFiles(node)', PathOf(node, cwd)')
  <2>1. Tree!MakeFile
    BY <1>2 DEF Makes, TreeFiles, DirsIn, Kinds, Tree!MakeFile, Tree!Paths, Tree!Dirs
  <2> QED BY <2>1 DEF Tree!TreeNext
<1>3. CASE Removes(TreeFiles(node), PathOf(node, cwd), TreeFiles(node)', PathOf(node, cwd)')
  <2>1. Tree!RemovePath
    BY <1>3 DEF Removes, TreeFiles, BelowIn, Tree!RemovePath, Tree!Paths, Tree!Below
  <2> QED BY <2>1 DEF Tree!TreeNext
<1>4. CASE Rewrites(TreeFiles(node), PathOf(node, cwd), TreeFiles(node)', PathOf(node, cwd)')
  <2>1. Tree!Rewrite
    BY <1>4 DEF Rewrites, TreeFiles, Tree!Rewrite
  <2> QED BY <2>1 DEF Tree!TreeNext
<1>5. CASE PathOf(node, cwd)' \in DirsIn(TreeFiles(node)) /\ TreeFiles(node)' = TreeFiles(node)
  <2>1. Tree!Move
    BY <1>5 DEF TreeFiles, DirsIn, Tree!Move, Tree!Dirs
  <2> QED BY <2>1 DEF Tree!TreeNext
<1> QED BY <1>1, <1>2, <1>3, <1>4, <1>5 DEF TreeMoves, Moves

\* The file system in memory keeps FileTree's promise, for every heap, set of
\* names and repository of packages: what the pointers show is a tree of
\* files, and each command makes, changes or removes the file that it names,
\* with nothing else moved and the shell in a directory that is there
\* (vfs.c, shell.c, pkg.c).
THEOREM ImplementsTree == VfsSpec => TreeSpec
<1>1. VfsInit => Tree!TreeInit
  BY InitShows
<1>2. FsInv /\ [VfsNext]_vfsVars => [Tree!TreeNext]_(Tree!treeVars)
  BY StepMoves, MovesAreNext
<1> QED BY <1>1, <1>2, VfsInvariance, PTL DEF VfsSpec, TreeSpec, Tree!TreeSpec
===============================================================================
