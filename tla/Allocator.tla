------------------------------ MODULE Allocator ------------------------------
(***************************************************************************)
(* What an allocator promises its callers: it lends out pieces of one      *)
(* arena that never overlap, and a piece stays lent until it is returned.  *)
(***************************************************************************)
EXTENDS Integers

CONSTANTS
    Arena,      \* the addresses it has
    Request     \* the sizes that may be asked for

VARIABLE lent   \* the pieces lent out, each with its address and its size

Bytes(b) == b.ptr .. b.ptr + b.size - 1

AllocInit == lent = {}

\* A piece as large as asked for at least, of bytes that nobody else has.
Lend ==
    \E b \in lent' \ lent :
        /\ lent' = lent \cup {b}
        /\ \E n \in Request : n <= b.size
        /\ Bytes(b) \subseteq Arena
        /\ \A c \in lent : Bytes(b) \cap Bytes(c) = {}

Return == \E b \in lent : lent' = lent \ {b}

AllocNext == Lend \/ Return

AllocSpec == AllocInit /\ [][AllocNext]_lent
=============================================================================
