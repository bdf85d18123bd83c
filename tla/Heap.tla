--------------------------------- MODULE Heap ---------------------------------
(***************************************************************************)
(* The kernel heap of kernel/heap.c: one list of blocks, each a header and *)
(* the bytes behind it, searched first fit, split by kmalloc and merged by *)
(* kfree.  Headers and bytes lie in the same memory, so that a header      *)
(* written at a wrong place is somebody's data.                            *)
(*                                                                         *)
(* A call is made by the kernel's only foreground flow and is not          *)
(* interrupted by another; the loops of kmalloc and of coalesce are steps. *)
(* Callers free what kmalloc gave them, once, and write nowhere else       *)
(* (vfs.c, task.c): the magic number, which then always holds, and the     *)
(* values of the bytes are left out.                                       *)
(***************************************************************************)
EXTENDS Integers, FiniteSetsExt

CONSTANTS
    HEAP_START, HEAP_SIZE,
    Request     \* the sizes that callers ask for

HEADER_SIZE == 32   \* sizeof(block_header_t)
NULL == 0
END  == HEAP_START + HEAP_SIZE

\* Requests are far from the width of size_t, which (size + 7) would exceed.
ASSUME HeapAssumption ==
    /\ HEAP_START \in Nat \ {0}
    /\ HEAP_SIZE \in Nat
    /\ HEAP_SIZE >= HEADER_SIZE
    /\ Request \subseteq Nat \ {0}

VARIABLES
    block,      \* address of each header in the list -> its size, free and next
    bytes_used,
    call,       \* the loop that runs: "none", "kmalloc" or "coalesce"
    cur,        \* its local variable
    want,       \* its argument
    held        \* the pointers the callers have -> what they asked for

vars == <<block, bytes_used, call, cur, want, held>>

Rounded(n) == ((n + 7) \div 8) * 8

size == Rounded(want)

EndOf(a) == a + HEADER_SIZE + block[a].size

HeapInit ==
    /\ block = [a \in {HEAP_START} |->
                  [size |-> HEAP_SIZE - HEADER_SIZE, free |-> TRUE, next |-> NULL]]
    /\ bytes_used = 0
    /\ call = "none"
    /\ cur = NULL
    /\ want = 0
    /\ held = [p \in {} |-> 0]

-----------------------------------------------------------------------------
Kmalloc(n) ==
    /\ call = "none"
    /\ call' = "kmalloc"
    /\ cur' = HEAP_START
    /\ want' = n
    /\ UNCHANGED <<block, bytes_used, held>>

\* Mutant of Suits: a block in use may be handed out again.
SuitsAnyone(b) == b.size >= size

Suits(b) == b.free /\ b.size >= size

Divisible(b) == b.size >= size + HEADER_SIZE + 16

\* Mutant of Rest: the rest keeps the bytes that its header takes.
RestWithHeader(b) == [size |-> b.size - size, free |-> TRUE, next |-> b.next]

\* The header of the new block behind the part that is given out.
Rest(b) == [size |-> b.size - size - HEADER_SIZE, free |-> TRUE, next |-> b.next]

\* The list with block a given out, split if the rest is large enough.
Taken(a) ==
    IF Divisible(block[a])
    THEN LET r == a + HEADER_SIZE + size IN
         [x \in DOMAIN block \cup {r} |->
            IF x = r THEN Rest(block[a])
            ELSE IF x = a THEN [size |-> size, free |-> FALSE, next |-> r]
            ELSE block[x]]
    ELSE [block EXCEPT ![a].free = FALSE]

Granted(a) == Taken(a)[a].size

\* The first block that suits is given out.
Found ==
    /\ call = "kmalloc"
    /\ cur # NULL
    /\ Suits(block[cur])
    /\ block' = Taken(cur)
    /\ bytes_used' = bytes_used + Granted(cur)
    /\ held' = [p \in DOMAIN held \cup {cur + HEADER_SIZE} |->
                  IF p = cur + HEADER_SIZE THEN want ELSE held[p]]
    /\ call' = "none"
    /\ cur' = NULL
    /\ want' = 0

\* Mutant of Following: the search stays where it is.
FollowingNone(a) == a

Following(a) == block[a].next

Search ==
    /\ call = "kmalloc"
    /\ cur # NULL
    /\ ~Suits(block[cur])
    /\ cur' = Following(cur)
    /\ UNCHANGED <<block, bytes_used, call, want, held>>

\* kmalloc answers 0.
Fails ==
    /\ call = "kmalloc"
    /\ cur = NULL
    /\ call' = "none"
    /\ want' = 0
    /\ UNCHANGED <<block, bytes_used, cur, held>>

\* Mutant of CoalesceFrom: merging starts at the block that was freed.
CoalesceFromFreed(a) == a

CoalesceFrom(a) == HEAP_START

\* kfree up to its call of coalesce.
Kfree(p) ==
    LET a == p - HEADER_SIZE IN
    /\ call = "none"
    /\ ~block[a].free
    /\ block' = [block EXCEPT ![a].free = TRUE]
    /\ bytes_used' = IF bytes_used >= block[a].size
                     THEN bytes_used - block[a].size
                     ELSE bytes_used
    /\ held' = [q \in DOMAIN held \ {p} |-> held[q]]
    /\ call' = "coalesce"
    /\ cur' = CoalesceFrom(a)
    /\ UNCHANGED want

BothFree(a) == block[a].free /\ block[block[a].next].free

\* The block behind cur becomes part of it, its header included.
Absorb ==
    /\ call = "coalesce"
    /\ cur # NULL
    /\ block[cur].next # NULL
    /\ BothFree(cur)
    /\ LET b == block[block[cur].next] IN
       block' = [x \in DOMAIN block \ {block[cur].next} |->
                   IF x = cur
                   THEN [size |-> block[x].size + HEADER_SIZE + b.size,
                         free |-> block[x].free,
                         next |-> b.next]
                   ELSE block[x]]
    /\ UNCHANGED <<bytes_used, call, cur, want, held>>

Advance ==
    /\ call = "coalesce"
    /\ cur # NULL
    /\ block[cur].next # NULL
    /\ ~BothFree(cur)
    /\ cur' = block[cur].next
    /\ UNCHANGED <<block, bytes_used, call, want, held>>

\* coalesce, and with it kfree, returns.
Coalesces ==
    /\ call = "coalesce"
    /\ cur = NULL \/ block[cur].next = NULL
    /\ call' = "none"
    /\ cur' = NULL
    /\ UNCHANGED <<block, bytes_used, want, held>>

Runs == Search \/ Found \/ Fails \/ Absorb \/ Advance \/ Coalesces

Next ==
    \/ \E n \in Request : Kmalloc(n)
    \/ \E p \in DOMAIN held : Kfree(p)
    \/ Runs

-----------------------------------------------------------------------------
\* The type invariant.
HeapTypeOK ==
    /\ DOMAIN block \subseteq Nat
    /\ block \in [DOMAIN block -> [size : Nat, free : BOOLEAN, next : Nat]]
    /\ bytes_used \in Nat
    /\ call \in {"none", "kmalloc", "coalesce"}
    /\ cur \in DOMAIN block \cup {NULL}
    /\ want \in Request \cup {0}
    /\ DOMAIN held \subseteq Nat
    /\ held \in [DOMAIN held -> Request]

\* The list covers the heap from its first byte to its last, each header
\* directly behind the bytes of the block before it, and in address order.
\* kmalloc writes new headers into free bytes, and coalesce forgets some.
Tiled ==
    /\ HEAP_START \in DOMAIN block
    /\ \A a \in DOMAIN block :
          \/ block[a].next = NULL /\ EndOf(a) = END
          \/ block[a].next = EndOf(a) /\ EndOf(a) \in DOMAIN block
    /\ \A a \in DOMAIN block : HEAP_START <= a /\ EndOf(a) <= END
    /\ \A a, b \in DOMAIN block : a < b => EndOf(a) <= b

\* Once everything is freed the heap is one block again, whatever the order of
\* the calls was: kfree leaves no two free blocks side by side.
Restored ==
    call = "none" /\ DOMAIN held = {}
        => DOMAIN block = {HEAP_START} /\ EndOf(HEAP_START) = END

\* heap_used() is what is in use, in spite of splits and merges.
UsedExact ==
    bytes_used = MapThenSumSet(LAMBDA a : block[a].size,
                               {a \in DOMAIN block : ~block[a].free})

\* The pieces that the callers have.
Lent == {[ptr |-> p, size |-> block[p - HEADER_SIZE].size] : p \in DOMAIN held}

\* kmalloc and kfree keep the promise of an allocator: what one caller has is
\* large enough, inside the heap, and no other caller's.
A == INSTANCE Allocator WITH Arena <- HEAP_START .. END - 1, lent <- Lent
AllocatorSpec == A!AllocSpec

\* Every call returns: the list that kmalloc and coalesce follow has an end.
CallReturns == call # "none" ~> call = "none"

Spec == HeapInit /\ [][Next]_vars

\* Nothing stops a call that has begun: only interrupt handlers come between,
\* and none of them uses the heap.
FairSpec == Spec /\ WF_vars(Runs)
=============================================================================
