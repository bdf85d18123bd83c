-------------------------------- MODULE RxRing --------------------------------
(***************************************************************************)
(* The receive queue of kernel/net_io.c: a ring that the interrupt handler *)
(* of the network card fills and net_io_poll empties.  There is no lock:   *)
(* the interrupt handler runs to its end between any two instructions of   *)
(* net_io_poll, which copies the frame out of its slot piece by piece and  *)
(* moves rxq_head only then.                                               *)
(***************************************************************************)
EXTENDS Integers, Sequences

CONSTANTS
    Frame,              \* the frames the card may receive
    NoFrame,            \* what a slot holds that was never filled
    NETIO_RX_QUEUE,     \* the slots of the ring
    PIECES              \* the pieces (bytes) in which a frame is copied

ASSUME RxRingAssumption ==
    /\ NETIO_RX_QUEUE \in Nat \ {0, 1}
    /\ PIECES \in Nat \ {0}
    /\ NoFrame \notin Frame

RxSlot == 0 .. NETIO_RX_QUEUE - 1
Piece  == 1 .. PIECES

VARIABLES
    rxq,        \* [RxSlot -> [Piece -> Frame or NoFrame]]
    rxq_head, rxq_tail,
    polling,    \* net_io_poll is between its test and its return
    out         \* the pieces it has copied so far

ringVars == <<rxq, rxq_head, rxq_tail, polling, out>>

RingInit ==
    /\ rxq = [s \in RxSlot |-> [p \in Piece |-> NoFrame]]
    /\ rxq_head = 0
    /\ rxq_tail = 0
    /\ polling = FALSE
    /\ out = <<>>

NextSlot(s) == (s + 1) % NETIO_RX_QUEUE

\* Mutant of RxFull: the ring may fill up its last slot.
RxFullNever == FALSE

RxFull == NextSlot(rxq_tail) = rxq_head

\* rx_handler, called by rtl_irq with the frame.
RxHandler(f) ==
    /\ IF RxFull
       THEN UNCHANGED <<rxq, rxq_tail>>
       ELSE /\ rxq' = [rxq EXCEPT ![rxq_tail] = [p \in Piece |-> f]]
            /\ rxq_tail' = NextSlot(rxq_tail)
    /\ UNCHANGED <<rxq_head, polling, out>>

\* net_io_poll: the test, the copy, the new head.
PollStart ==
    /\ ~polling
    /\ rxq_head # rxq_tail
    /\ polling' = TRUE
    /\ UNCHANGED <<rxq, rxq_head, rxq_tail, out>>

PollCopy ==
    /\ polling
    /\ Len(out) < PIECES
    /\ out' = Append(out, rxq[rxq_head][Len(out) + 1])
    /\ UNCHANGED <<rxq, rxq_head, rxq_tail, polling>>

PollEnd ==
    /\ polling
    /\ Len(out) = PIECES
    /\ rxq_head' = NextSlot(rxq_head)
    /\ polling' = FALSE
    /\ out' = <<>>
    /\ UNCHANGED <<rxq, rxq_tail>>

RingNext == (\E f \in Frame : RxHandler(f)) \/ PollStart \/ PollCopy \/ PollEnd

RingSpec == RingInit /\ [][RingNext]_ringVars

----------------------------------------------------------------------------

Count == IF rxq_head <= rxq_tail THEN rxq_tail - rxq_head
                                 ELSE rxq_tail - rxq_head + NETIO_RX_QUEUE

\* The slot of the i-th waiting frame.
SlotOf(i) == IF rxq_head + i - 1 < NETIO_RX_QUEUE THEN rxq_head + i - 1
                                                  ELSE rxq_head + i - 1 - NETIO_RX_QUEUE

Queue == [i \in 1 .. Count |-> rxq[SlotOf(i)][1]]

RingTypeOK ==
    /\ rxq \in [RxSlot -> [Piece -> Frame \cup {NoFrame}]]
    /\ rxq_head \in RxSlot
    /\ rxq_tail \in RxSlot
    /\ polling \in BOOLEAN
    /\ out \in Seq(Frame \cup {NoFrame})
    /\ Len(out) <= PIECES

\* The frame net_io_poll returns is the oldest one in the ring, and whole,
\* whatever arrived while it was copied.
FrameWhole ==
    polling => /\ Count > 0
               /\ \A p \in 1 .. Len(out) : out[p] = Queue[1]

\* Every waiting frame is whole, and one of the card's.
RingInv ==
    /\ RingTypeOK
    /\ ~polling => out = <<>>
    /\ FrameWhole
    /\ \A i \in 1 .. Count : \E f \in Frame : rxq[SlotOf(i)] = [p \in Piece |-> f]

\* net_io.c implements the queue.
FQ == INSTANCE FrameQueue WITH queue <- Queue, Capacity <- NETIO_RX_QUEUE - 1
QueueSpec == FQ!Spec
=============================================================================
