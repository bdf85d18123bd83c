------------------------------ MODULE FrameQueue ------------------------------
(***************************************************************************)
(* What the receive queue promises to the network stack: a bounded queue   *)
(* that may turn a frame away when it is full, and otherwise hands every   *)
(* frame over once, whole and in order.                                    *)
(***************************************************************************)
EXTENDS Naturals, Sequences

CONSTANTS Frame, Capacity

VARIABLE queue

Init == queue = <<>>

Accept(f) == Len(queue) < Capacity /\ queue' = Append(queue, f)

Take == queue # <<>> /\ queue' = Tail(queue)

Next == (\E f \in Frame : Accept(f)) \/ Take

Spec == Init /\ [][Next]_queue
=============================================================================
