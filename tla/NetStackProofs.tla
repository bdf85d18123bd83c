---------------------------- MODULE NetStackProofs ----------------------------
(***************************************************************************)
(* The receive ring and the packet path behind it, for every size of the   *)
(* ring and of the frames, every number of hosts, cache entries, listeners *)
(* and calls: what net_io_poll returns is the oldest frame, whole, the     *)
(* ring is a FrameQueue and the stack works on it, the ARP cache never     *)
(* answers with an outdated address, no listener leaks, and an answer is   *)
(* the one that was asked for.                                             *)
(***************************************************************************)
EXTENDS NetStack, SequenceTheorems, WellFoundedInduction, FiniteSetTheorems, TLAPS

----------------------------------------------------------------------------
(* The arithmetic of the ring.                                             *)

\* The slot after s: the ring wraps behind its last slot.
LEMMA NextSlotWraps ==
    ASSUME NEW s \in RxSlot
    PROVE  NextSlot(s) = IF s = NETIO_RX_QUEUE - 1 THEN 0 ELSE s + 1
BY RxRingAssumption DEF NextSlot, RxSlot

\* The waiting frames lie in distinct slots behind the head, and the tail is
\* the slot after the last of them.
LEMMA RingShape ==
    ASSUME rxq_head \in RxSlot, rxq_tail \in RxSlot
    PROVE  /\ Count \in 0 .. NETIO_RX_QUEUE - 1
           /\ \A i \in 1 .. NETIO_RX_QUEUE : SlotOf(i) \in RxSlot
           /\ \A i, j \in 1 .. NETIO_RX_QUEUE : SlotOf(i) = SlotOf(j) => i = j
           /\ SlotOf(Count + 1) = rxq_tail
           /\ SlotOf(1) = rxq_head
           /\ Count = 0 <=> rxq_head = rxq_tail
BY RxRingAssumption DEF Count, SlotOf, RxSlot

\* A frame is stored: one more waits, in the slot the tail was.
LEMMA CountUp ==
    ASSUME rxq_head \in RxSlot, rxq_tail \in RxSlot, ~RxFull,
           rxq_tail' = NextSlot(rxq_tail), rxq_head' = rxq_head
    PROVE  /\ rxq_tail' \in RxSlot
           /\ Count' = Count + 1
           /\ \A i \in 1 .. NETIO_RX_QUEUE : SlotOf(i)' = SlotOf(i)
BY RxRingAssumption, NextSlotWraps DEF Count, SlotOf, RxSlot, RxFull

\* A frame is taken: one fewer waits, and the others move up.
LEMMA CountDown ==
    ASSUME rxq_head \in RxSlot, rxq_tail \in RxSlot, Count > 0,
           rxq_head' = NextSlot(rxq_head), rxq_tail' = rxq_tail
    PROVE  /\ rxq_head' \in RxSlot
           /\ Count' = Count - 1
           /\ \A i \in 1 .. Count' : SlotOf(i)' = SlotOf(i + 1)
<1>1. rxq_head' = IF rxq_head = NETIO_RX_QUEUE - 1 THEN 0 ELSE rxq_head + 1
  BY NextSlotWraps
<1>2. rxq_head' \in RxSlot
  BY <1>1, RxRingAssumption DEF RxSlot
<1>3. Count' = Count - 1
  BY <1>1, RxRingAssumption DEF Count, RxSlot
<1>4. ASSUME NEW i \in 1 .. Count'
      PROVE  SlotOf(i)' = SlotOf(i + 1)
  <2>1. i \in Nat \ {0} /\ rxq_head \in Nat /\ NETIO_RX_QUEUE \in Nat /\ i < Count
    BY <1>3, RxRingAssumption DEF Count, RxSlot
  <2>2. i < NETIO_RX_QUEUE /\ rxq_head < NETIO_RX_QUEUE
    BY <2>1, RxRingAssumption DEF Count, RxSlot
  <2>3. CASE rxq_head = NETIO_RX_QUEUE - 1
    BY <1>1, <2>1, <2>2, <2>3 DEF SlotOf
  <2>4. CASE rxq_head # NETIO_RX_QUEUE - 1
    BY <1>1, <2>1, <2>2, <2>4 DEF SlotOf
  <2> QED
    BY <2>3, <2>4
<1> QED
  BY <1>2, <1>3, <1>4

----------------------------------------------------------------------------
(* The inductive invariant.                                                *)

LEMMA InitRing == RingInit => RingInv
<1> SUFFICES ASSUME RingInit PROVE RingInv
  OBVIOUS
<1>1. Count = 0
  BY RxRingAssumption DEF RingInit, Count
<1>2. RingTypeOK
  <2>1. <<>> \in Seq(Frame \cup {NoFrame}) /\ Len(<<>>) = 0
    BY EmptySeq
  <2>2. rxq \in [RxSlot -> [Piece -> Frame \cup {NoFrame}]]
    BY DEF RingInit
  <2>3. 0 \in RxSlot /\ 0 <= PIECES
    BY RxRingAssumption DEF RxSlot
  <2> QED
    BY <2>1, <2>2, <2>3 DEF RingInit, RingTypeOK
<1> QED
  BY <1>1, <1>2 DEF RingInit, RingInv, FrameWhole

LEMMA RxHandlerStep ==
    ASSUME RingInv, NEW f \in Frame, RxHandler(f)
    PROVE  RingInv'
<1>1. CASE RxFull
  <2>1. UNCHANGED ringVars
    BY <1>1 DEF RxHandler, ringVars
  <2> QED
    BY <2>1 DEF ringVars, RingInv, RingTypeOK, FrameWhole, Queue, Count, SlotOf
<1>2. CASE ~RxFull
  <2> DEFINE whole == [p \in Piece |-> f]
  <2>1. /\ rxq' = [rxq EXCEPT ![rxq_tail] = whole]
        /\ rxq_tail' = NextSlot(rxq_tail)
        /\ UNCHANGED <<rxq_head, polling, out>>
    BY <1>2 DEF RxHandler
  <2>2. /\ rxq_head \in RxSlot /\ rxq_tail \in RxSlot
        /\ rxq \in [RxSlot -> [Piece -> Frame \cup {NoFrame}]]
    BY DEF RingInv, RingTypeOK
  <2>3. /\ rxq_tail' \in RxSlot
        /\ Count' = Count + 1
        /\ \A i \in 1 .. NETIO_RX_QUEUE : SlotOf(i)' = SlotOf(i)
    BY <1>2, <2>1, <2>2, CountUp
  <2>4. /\ Count \in 0 .. NETIO_RX_QUEUE - 1
        /\ \A i \in 1 .. NETIO_RX_QUEUE : SlotOf(i) \in RxSlot
        /\ \A i, j \in 1 .. NETIO_RX_QUEUE : SlotOf(i) = SlotOf(j) => i = j
        /\ SlotOf(Count + 1) = rxq_tail
    BY <2>2, RingShape
  <2>5. Count + 1 \in 1 .. NETIO_RX_QUEUE
    BY <2>4, RxRingAssumption
  <2>6. ASSUME NEW i \in 1 .. Count
        PROVE  rxq'[SlotOf(i)'] = rxq[SlotOf(i)]
    <3>1. i \in 1 .. NETIO_RX_QUEUE /\ i # Count + 1
      BY <2>4, RxRingAssumption
    <3>2. SlotOf(i) \in RxSlot /\ SlotOf(i)' = SlotOf(i)
      BY <3>1, <2>3, <2>4
    <3>3. SlotOf(i) # rxq_tail
      BY <3>1, <2>4, <2>5
    <3> QED
      BY <3>2, <3>3, <2>1, <2>2
  <2>7. ASSUME NEW i \in 1 .. Count', i = Count + 1
        PROVE  rxq'[SlotOf(i)'] = whole
    <3>1. SlotOf(i)' = rxq_tail
      BY <2>7, <2>3, <2>4, <2>5
    <3> QED
      BY <3>1, <2>1, <2>2
  <2>8. RingTypeOK'
    BY <2>1, <2>2, <2>3 DEF RingInv, RingTypeOK
  <2>9. (~polling => out = <<>>)'
    BY <2>1 DEF RingInv
  <2>10. FrameWhole'
    <3> SUFFICES ASSUME polling PROVE Count' > 0 /\ \A p \in 1 .. Len(out) : out[p] = Queue'[1]
      BY <2>1 DEF FrameWhole
    <3>1. Count > 0 /\ \A p \in 1 .. Len(out) : out[p] = Queue[1]
      BY DEF RingInv, FrameWhole
    <3>2. 1 \in 1 .. Count /\ 1 \in 1 .. Count'
      BY <3>1, <2>3, <2>4
    <3>3. Queue'[1] = Queue[1]
      BY <3>2, <2>6 DEF Queue
    <3> QED
      BY <3>1, <3>3, <2>3, <2>4
  <2>11. (\A i \in 1 .. Count : \E g \in Frame : rxq[SlotOf(i)] = [p \in Piece |-> g])'
    <3> SUFFICES ASSUME NEW i \in 1 .. Count'
                 PROVE  \E g \in Frame : rxq'[SlotOf(i)'] = [p \in Piece |-> g]
      OBVIOUS
    <3>1. CASE i = Count + 1
      BY <3>1, <2>7
    <3>2. CASE i # Count + 1
      <4>1. i \in 1 .. Count
        BY <3>2, <2>3, <2>4
      <4> QED
        BY <4>1, <2>6 DEF RingInv
    <3> QED
      BY <3>1, <3>2
  <2> QED
    BY <2>8, <2>9, <2>10, <2>11 DEF RingInv
<1> QED
  BY <1>1, <1>2

LEMMA PollStartStep ==
    ASSUME RingInv, PollStart
    PROVE  RingInv'
<1>1. /\ ~polling /\ polling' /\ rxq_head # rxq_tail
      /\ UNCHANGED <<rxq, rxq_head, rxq_tail, out>>
  BY DEF PollStart
<1>2. Count # 0 /\ Count \in Nat
  BY <1>1, RingShape, RxRingAssumption DEF RingInv, RingTypeOK
<1>3. out = <<>>
  BY <1>1 DEF RingInv
<1>4. RingTypeOK'
  BY <1>1 DEF RingInv, RingTypeOK, PollStart
<1>5. FrameWhole'
  <2>1. Count' > 0
    BY <1>1, <1>2 DEF Count
  <2>2. Len(out)' = 0
    BY <1>1, <1>3, EmptySeq
  <2>3. (\A p \in 1 .. Len(out) : out[p] = Queue[1])'
    BY <2>2
  <2> QED
    BY <2>1, <2>3 DEF FrameWhole
<1>6. (\A i \in 1 .. Count : \E g \in Frame : rxq[SlotOf(i)] = [p \in Piece |-> g])'
  BY <1>1 DEF RingInv, Count, SlotOf
<1> QED
  BY <1>1, <1>4, <1>5, <1>6 DEF RingInv

LEMMA PollCopyStep ==
    ASSUME RingInv, PollCopy
    PROVE  RingInv'
<1> DEFINE piece == rxq[rxq_head][Len(out) + 1]
<1>1. /\ polling /\ Len(out) < PIECES
      /\ out' = Append(out, piece)
      /\ UNCHANGED <<rxq, rxq_head, rxq_tail, polling>>
  BY DEF PollCopy
<1>2. /\ out \in Seq(Frame \cup {NoFrame})
      /\ rxq_head \in RxSlot /\ rxq_tail \in RxSlot
  BY DEF RingInv, RingTypeOK
<1>3. Len(out) + 1 \in Piece /\ 1 \in Piece
  BY <1>1, <1>2, RxRingAssumption DEF Piece
<1>4. 1 \in 1 .. Count /\ SlotOf(1) = rxq_head
  BY <1>1, <1>2, RingShape, RxRingAssumption DEF RingInv, FrameWhole
<1>5. PICK f \in Frame : rxq[rxq_head] = [p \in Piece |-> f]
  BY <1>4 DEF RingInv
<1>6. piece = f /\ Queue[1] = f
  BY <1>3, <1>4, <1>5 DEF Queue
<1>7. /\ Len(out') = Len(out) + 1
      /\ \A p \in 1 .. Len(out) : out'[p] = out[p]
      /\ out'[Len(out) + 1] = f
      /\ out' \in Seq(Frame \cup {NoFrame})
  BY <1>1, <1>2, <1>6
<1>8. RingTypeOK'
  BY <1>1, <1>2, <1>7, RxRingAssumption DEF RingInv, RingTypeOK
<1>9. Count' = Count /\ Queue' = Queue
  BY <1>1 DEF Queue, Count, SlotOf
<1>10. FrameWhole'
  <2>1. \A p \in 1 .. Len(out) : out[p] = f
    BY <1>1, <1>6 DEF RingInv, FrameWhole
  <2>2. \A p \in 1 .. Len(out') : out'[p] = f
    BY <2>1, <1>2, <1>7
  <2>3. Count > 0
    BY <1>1 DEF RingInv, FrameWhole
  <2> QED
    BY <2>2, <2>3, <1>6, <1>9 DEF FrameWhole
<1>11. (\A i \in 1 .. Count : \E g \in Frame : rxq[SlotOf(i)] = [p \in Piece |-> g])'
  BY <1>1 DEF RingInv, Count, SlotOf
<1> QED
  BY <1>1, <1>8, <1>10, <1>11 DEF RingInv

LEMMA PollEndStep ==
    ASSUME RingInv, PollEnd
    PROVE  RingInv'
<1>1. /\ polling /\ ~polling' /\ out' = <<>>
      /\ rxq_head' = NextSlot(rxq_head)
      /\ UNCHANGED <<rxq, rxq_tail>>
  BY DEF PollEnd
<1>2. rxq_head \in RxSlot /\ rxq_tail \in RxSlot /\ Count > 0
  BY <1>1 DEF RingInv, RingTypeOK, FrameWhole
<1>3. /\ rxq_head' \in RxSlot
      /\ Count' = Count - 1
      /\ \A i \in 1 .. Count' : SlotOf(i)' = SlotOf(i + 1)
  BY <1>1, <1>2, CountDown
<1>4. Count \in Nat
  BY <1>2, RingShape, RxRingAssumption
<1>5. RingTypeOK'
  <2>1. out' \in Seq(Frame \cup {NoFrame}) /\ Len(out)' = 0
    BY <1>1, EmptySeq
  <2>2. 0 <= PIECES
    BY RxRingAssumption
  <2>3. polling' \in BOOLEAN
    BY DEF PollEnd
  <2> QED
    BY <2>1, <2>2, <2>3, <1>1, <1>3 DEF RingInv, RingTypeOK
<1>6. (\A i \in 1 .. Count : \E g \in Frame : rxq[SlotOf(i)] = [p \in Piece |-> g])'
  <2> SUFFICES ASSUME NEW i \in 1 .. Count'
               PROVE  \E g \in Frame : rxq[SlotOf(i + 1)] = [p \in Piece |-> g]
    BY <1>1, <1>3
  <2>1. i + 1 \in 1 .. Count
    BY <1>3, <1>4
  <2> QED
    BY <2>1 DEF RingInv
<1> QED
  BY <1>1, <1>5, <1>6 DEF RingInv, FrameWhole

\* The inductive invariant holds whatever the interrupt handler interrupts.
THEOREM RingInvariance == RingSpec => []RingInv
<1>1. RingInv /\ [RingNext]_ringVars => RingInv'
  <2> SUFFICES ASSUME RingInv, [RingNext]_ringVars PROVE RingInv'
    OBVIOUS
  <2>1. ASSUME NEW f \in Frame, RxHandler(f) PROVE RingInv'
    BY <2>1, RxHandlerStep
  <2>2. CASE PollStart
    BY <2>2, PollStartStep
  <2>3. CASE PollCopy
    BY <2>3, PollCopyStep
  <2>4. CASE PollEnd
    BY <2>4, PollEndStep
  <2>5. CASE UNCHANGED ringVars
    BY <2>5 DEF ringVars, RingInv, RingTypeOK, FrameWhole, Queue, Count, SlotOf
  <2> QED
    BY <2>1, <2>2, <2>3, <2>4, <2>5 DEF RingNext
<1> QED
  BY InitRing, <1>1, PTL DEF RingSpec

\* The frame net_io_poll returns is the oldest in the ring, and whole.
THEOREM CopiedWhole == RingSpec => []FrameWhole
<1>1. RingInv => FrameWhole
  BY DEF RingInv
<1> QED
  BY RingInvariance, <1>1, PTL

----------------------------------------------------------------------------
(* The ring implements the queue.                                          *)

\* The waiting frames as a sequence.
LEMMA QueueIsSeq ==
    ASSUME RingInv
    PROVE  /\ Count \in 0 .. NETIO_RX_QUEUE - 1
           /\ Queue \in Seq(Frame)
           /\ Len(Queue) = Count
<1>1. Count \in 0 .. NETIO_RX_QUEUE - 1
  BY RingShape DEF RingInv, RingTypeOK
<1>2. Count \in Nat
  BY <1>1, RxRingAssumption
<1>3. ASSUME NEW i \in 1 .. Count
      PROVE  rxq[SlotOf(i)][1] \in Frame
  <2>1. PICK f \in Frame : rxq[SlotOf(i)] = [p \in Piece |-> f]
    BY DEF RingInv
  <2>2. 1 \in Piece
    BY RxRingAssumption DEF Piece
  <2> QED
    BY <2>1, <2>2
<1>4. Queue \in [1 .. Count -> Frame]
  BY <1>3 DEF Queue
<1> QED
  BY <1>1, <1>2, <1>4

\* A frame that is stored goes to the end of the queue.
LEMMA RxHandlerAccepts ==
    ASSUME RingInv, RingInv', NEW f \in Frame, RxHandler(f), ~RxFull
    PROVE  FQ!Accept(f)
<1>1. /\ rxq' = [rxq EXCEPT ![rxq_tail] = [p \in Piece |-> f]]
      /\ rxq_tail' = NextSlot(rxq_tail)
      /\ rxq_head' = rxq_head
  BY DEF RxHandler
<1>2. /\ rxq_head \in RxSlot /\ rxq_tail \in RxSlot
      /\ rxq \in [RxSlot -> [Piece -> Frame \cup {NoFrame}]]
  BY DEF RingInv, RingTypeOK
<1>3. /\ Count' = Count + 1
      /\ \A i \in 1 .. NETIO_RX_QUEUE : SlotOf(i)' = SlotOf(i)
  BY <1>1, <1>2, CountUp
<1>4. /\ \A i \in 1 .. NETIO_RX_QUEUE : SlotOf(i) \in RxSlot
      /\ \A i, j \in 1 .. NETIO_RX_QUEUE : SlotOf(i) = SlotOf(j) => i = j
      /\ SlotOf(Count + 1) = rxq_tail
  BY <1>2, RingShape
<1>5. /\ Count \in 0 .. NETIO_RX_QUEUE - 1 /\ Count' \in 0 .. NETIO_RX_QUEUE - 1
      /\ Queue \in Seq(Frame) /\ Len(Queue) = Count
      /\ Queue' \in Seq(Frame) /\ Len(Queue') = Count'
  <2>1. (Count \in 0 .. NETIO_RX_QUEUE - 1 /\ Queue \in Seq(Frame) /\ Len(Queue) = Count)'
    BY QueueIsSeq, PTL
  <2> QED
    BY QueueIsSeq, <2>1
<1>6. ASSUME NEW i \in 1 .. Count'
      PROVE  Queue'[i] = Append(Queue, f)[i]
  <2>1. Queue'[i] = rxq'[SlotOf(i)'][1]
    BY DEF Queue
  <2>2. i \in 1 .. NETIO_RX_QUEUE /\ Count + 1 \in 1 .. NETIO_RX_QUEUE
    BY <1>3, <1>5, RxRingAssumption
  <2>3. CASE i = Count + 1
    <3>1. SlotOf(i)' = rxq_tail /\ 1 \in Piece
      BY <2>2, <2>3, <1>3, <1>4, RxRingAssumption DEF Piece
    <3>2. Queue'[i] = f
      BY <3>1, <2>1, <1>1, <1>2
    <3> QED
      BY <3>2, <2>3, <1>5
  <2>4. CASE i # Count + 1
    <3>1. i \in 1 .. Count
      BY <2>4, <1>3, <1>5
    <3>2. SlotOf(i)' = SlotOf(i) /\ SlotOf(i) \in RxSlot /\ SlotOf(i) # rxq_tail
      BY <2>2, <2>4, <1>3, <1>4
    <3>3. Queue'[i] = rxq[SlotOf(i)][1]
      BY <3>2, <2>1, <1>1, <1>2
    <3>4. Queue[i] = rxq[SlotOf(i)][1]
      BY <3>1 DEF Queue
    <3> QED
      BY <3>1, <3>3, <3>4, <1>5
  <2> QED
    BY <2>3, <2>4
<1>7. Append(Queue, f) \in Seq(Frame) /\ Len(Append(Queue, f)) = Count'
  BY <1>3, <1>5
<1>8. Queue' = Append(Queue, f)
  BY <1>5, <1>6, <1>7, SeqEqual
<1>9. Len(Queue) < NETIO_RX_QUEUE - 1
  BY <1>3, <1>5, RxRingAssumption
<1> QED
  BY <1>8, <1>9 DEF FQ!Accept

\* net_io_poll takes the frame at the front.
LEMMA PollEndTakes ==
    ASSUME RingInv, RingInv', PollEnd
    PROVE  FQ!Take
<1>1. /\ polling
      /\ rxq_head' = NextSlot(rxq_head)
      /\ rxq' = rxq /\ rxq_tail' = rxq_tail
  BY DEF PollEnd
<1>2. rxq_head \in RxSlot /\ rxq_tail \in RxSlot /\ Count > 0
  BY <1>1 DEF RingInv, RingTypeOK, FrameWhole
<1>3. /\ Count' = Count - 1
      /\ \A i \in 1 .. Count' : SlotOf(i)' = SlotOf(i + 1)
  BY <1>1, <1>2, CountDown
<1>4. /\ Count \in Nat
      /\ Queue \in Seq(Frame) /\ Len(Queue) = Count
      /\ Queue' \in Seq(Frame) /\ Len(Queue') = Count'
  <2>1. (Count \in 0 .. NETIO_RX_QUEUE - 1 /\ Queue \in Seq(Frame) /\ Len(Queue) = Count)'
    BY QueueIsSeq, PTL
  <2> QED
    BY QueueIsSeq, <2>1, RxRingAssumption
<1>5. Queue # <<>>
  BY <1>2, <1>4, EmptySeq
<1>6. /\ Tail(Queue) \in Seq(Frame)
      /\ Len(Tail(Queue)) = Count'
      /\ \A i \in 1 .. Count' : Tail(Queue)[i] = Queue[i + 1]
  BY <1>3, <1>4, <1>5, HeadTailProperties
<1>7. ASSUME NEW i \in 1 .. Count'
      PROVE  Queue'[i] = Tail(Queue)[i]
  <2>1. i + 1 \in 1 .. Count
    BY <1>3, <1>4
  <2>2. Queue'[i] = rxq[SlotOf(i)'][1] /\ Queue[i + 1] = rxq[SlotOf(i + 1)][1]
    BY <2>1, <1>1 DEF Queue
  <2> QED
    BY <2>2, <1>3, <1>6
<1>8. Queue' = Tail(Queue)
  BY <1>4, <1>6, <1>7, SeqEqual
<1> QED
  BY <1>5, <1>8 DEF FQ!Take

\* The receive path of net_io.c is a bounded queue that loses frames only
\* when it is full: none twice, none torn, none out of order.
THEOREM ImplementsQueue == RingSpec => QueueSpec
<1>1. RingInit => FQ!Init
  <2> SUFFICES ASSUME RingInit PROVE Queue = <<>>
    BY DEF FQ!Init
  <2>1. RingInv
    BY InitRing
  <2>2. Count = 0
    BY RxRingAssumption DEF RingInit, Count
  <2> QED
    BY <2>1, <2>2, QueueIsSeq, EmptySeq
<1>2. RingInv /\ RingInv' /\ [RingNext]_ringVars => [FQ!Next]_Queue
  <2> SUFFICES ASSUME RingInv, RingInv', [RingNext]_ringVars PROVE [FQ!Next]_Queue
    OBVIOUS
  <2>1. ASSUME NEW f \in Frame, RxHandler(f), ~RxFull PROVE FQ!Next
    BY <2>1, RxHandlerAccepts DEF FQ!Next
  <2>2. ASSUME UNCHANGED <<rxq, rxq_head, rxq_tail>> PROVE Queue' = Queue
    BY <2>2 DEF Queue, Count, SlotOf
  <2>3. ASSUME NEW f \in Frame, RxHandler(f), RxFull PROVE UNCHANGED <<rxq, rxq_head, rxq_tail>>
    BY <2>3 DEF RxHandler
  <2>4. CASE PollStart
    BY <2>4, <2>2 DEF PollStart
  <2>5. CASE PollCopy
    BY <2>5, <2>2 DEF PollCopy
  <2>6. CASE PollEnd
    BY <2>6, PollEndTakes DEF FQ!Next
  <2>7. CASE UNCHANGED ringVars
    BY <2>7, <2>2 DEF ringVars
  <2> QED
    BY <2>1, <2>2, <2>3, <2>4, <2>5, <2>6, <2>7 DEF RingNext
<1> QED
  BY RingInvariance, <1>1, <1>2, PTL DEF RingSpec, QueueSpec, FQ!Spec

----------------------------------------------------------------------------
(* The lowest index of a set of indices is one of them.                    *)

LEMMA LowestIn ==
    ASSUME NEW S \in SUBSET Nat, S # {}
    PROVE  LowestOf(S) \in S /\ \A j \in S : LowestOf(S) <= j
<1>1. \E x \in S : \A y \in S : ~ (<<y, x>> \in OpToRel(<, Nat))
  BY NatLessThanWellFounded, WFMin
<1>2. PICK x \in S : \A y \in S : ~ (<<y, x>> \in OpToRel(<, Nat))
  BY <1>1
<1>3. \A y \in S : ~ (y < x)
  BY <1>2 DEF OpToRel
<1>4. \A y \in S : x <= y
  BY <1>3
<1> QED
  BY <1>4, Zenon DEF LowestOf
----------------------------------------------------------------------------
(* The stack works on the ring.                                            *)

LEMMA StepIsRing == [Next]_vars => [RingNext]_ringVars
<1> SUFFICES ASSUME [Next]_vars PROVE [RingNext]_ringVars
  OBVIOUS
<1>1. CASE Call
  BY <1>1 DEF Call, DhcpRun, DhcpDone, ArpTimeout, DnsDone, DnsResolve
<1>2. CASE PumpFrame
  BY <1>2 DEF PumpFrame, RingNext
<1>3. CASE ArpFrameIn
  BY <1>3 DEF ArpFrameIn, RingNext
<1>4. CASE Poll
  BY <1>4 DEF Poll, RingNext
<1>5. CASE Arrive
  BY <1>5 DEF Arrive, RingNext
<1>6. CASE UNCHANGED vars
  BY <1>6 DEF vars
<1> QED
  BY <1>1, <1>2, <1>3, <1>4, <1>5, <1>6 DEF Next

\* Whatever the calls of the shell do, the receive queue is used as one.
THEOREM StackUsesRing == Spec => RingSpec
<1>1. Init => RingInit
  BY DEF Init
<1> QED
  BY <1>1, StepIsRing, PTL DEF Spec, RingSpec

\* So no frame on its way to the handlers is lost but to a full ring, torn,
\* reordered or handled twice, whatever the handlers do.
THEOREM StackQueue == Spec => QueueSpec
  BY StackUsesRing, ImplementsQueue, PTL

\* The frame that is handled is one of the card's.
LEMMA HandledFrame ==
    ASSUME RingInv, PollEnd
    PROVE  out[1] \in Frame
<1>1. polling /\ Len(out) = PIECES
  BY DEF PollEnd
<1>2. 1 \in 1 .. Len(out)
  BY <1>1, RxRingAssumption
<1>3. out[1] = Queue[1] /\ Count > 0
  BY <1>1, <1>2 DEF RingInv, FrameWhole
<1>4. Queue \in Seq(Frame) /\ Len(Queue) = Count /\ Count \in Nat
  BY QueueIsSeq, RxRingAssumption
<1>5. Queue[1] \in Frame
  BY <1>3, <1>4, ElementOfSeq
<1> QED
  BY <1>3, <1>5

----------------------------------------------------------------------------
(* The ARP cache.                                                          *)

LEMMA InitCache == Init => CacheInv
  BY DEF Init, CacheInv

\* cache_insert takes the entry of the host, or one that no lookup needs.
LEMMA EntryForIn ==
    ASSUME CacheInv, NEW h \in Host
    PROVE  /\ EntryFor(h) \in Entry
           /\ \A i \in Entry : cache[i].valid /\ cache[i].ip = h => i = EntryFor(h)
<1>1. 0 \in Entry /\ Entry \subseteq Nat
  BY NetStackAssumption DEF Entry
<1>2. Matching(h) \in SUBSET Nat /\ Unused \in SUBSET Nat
  BY <1>1 DEF Matching, Matches, Unused
<1>3. CASE Matching(h) # {}
  <2>1. EntryFor(h) \in Matching(h)
    BY <1>2, <1>3, LowestIn DEF EntryFor
  <2> QED
    BY <2>1 DEF CacheInv, Matching, Matches
<1>4. CASE Matching(h) = {}
  <2>1. \A i \in Entry : ~(cache[i].valid /\ cache[i].ip = h)
    BY <1>4 DEF Matching, Matches
  <2>2. CASE Unused # {}
    <3>1. EntryFor(h) \in Unused
      BY <1>2, <1>4, <2>2, LowestIn DEF EntryFor
    <3> QED
      BY <3>1, <2>1 DEF Unused
  <2>3. CASE Unused = {}
    BY <1>1, <1>4, <2>1, <2>3 DEF EntryFor
  <2> QED
    BY <2>2, <2>3
<1> QED
  BY <1>3, <1>4

LEMMA ArpInputStep ==
    ASSUME CacheInv, NEW f \in Frame, f.kind = "arp", ArpInput(f)
    PROVE  CacheInv'
<1>1. PICK h \in Host, c \in Card : f = ArpFrame(h, c)
  BY NetStackAssumption
<1> DEFINE mac == [host |-> h, card |-> c]
           e   == EntryFor(h)
<1>2. mac \in Mac
  BY DEF Mac
<1>3. /\ cache' = [cache EXCEPT ![e] = [valid |-> TRUE, ip |-> h, mac |-> mac]]
      /\ heard' = [heard EXCEPT ![h] = mac]
  BY <1>1 DEF ArpInput, ArpFrame
<1>4. e \in Entry /\ \A i \in Entry : cache[i].valid /\ cache[i].ip = h => i = e
  BY EntryForIn
<1> HIDE DEF mac, e
<1>5. /\ cache' \in [Entry -> [valid : BOOLEAN, ip : Host \cup {"none"}, mac : Mac \cup {NoMac}]]
      /\ heard' \in [Host -> Mac \cup {NoMac}]
  BY <1>2, <1>3, <1>4 DEF CacheInv
<1>6. ASSUME NEW i \in Entry, cache'[i].valid
      PROVE  cache'[i].ip \in Host /\ cache'[i].mac = heard'[cache'[i].ip]
  <2>1. CASE i = e
    BY <2>1, <1>3, <1>4 DEF CacheInv
  <2>2. CASE i # e
    <3>1. cache'[i] = cache[i]
      BY <2>2, <1>3 DEF CacheInv
    <3>2. cache[i].ip \in Host /\ cache[i].mac = heard[cache[i].ip] /\ cache[i].ip # h
      BY <2>2, <3>1, <1>4, <1>6 DEF CacheInv
    <3> QED
      BY <3>1, <3>2, <1>3 DEF CacheInv
  <2> QED
    BY <2>1, <2>2
<1>7. ASSUME NEW i \in Entry, NEW j \in Entry,
             cache'[i].valid, cache'[j].valid, cache'[i].ip = cache'[j].ip
      PROVE  i = j
  <2>1. \A k \in Entry : k # e => cache'[k] = cache[k]
    BY <1>3 DEF CacheInv
  <2>2. cache'[e].ip = h
    BY <1>3, <1>4 DEF CacheInv
  <2> QED
    BY <2>1, <2>2, <1>4, <1>7 DEF CacheInv
<1> QED
  BY <1>5, <1>6, <1>7 DEF CacheInv

LEMMA CacheStep ==
    ASSUME CacheInv, RingInv, [Next]_vars
    PROVE  CacheInv'
<1>1. ASSUME UNCHANGED <<cache, heard>> PROVE CacheInv'
  BY <1>1 DEF CacheInv
<1>2. ASSUME PollEnd, out[1].kind = "arp", ArpInput(out[1]) PROVE CacheInv'
  BY <1>2, HandledFrame, ArpInputStep
<1>3. CASE Call
  BY <1>1, <1>3 DEF Call, DhcpRun, DhcpDone, ArpTimeout, DnsDone, DnsResolve
<1>4. CASE PumpFrame
  BY <1>1, <1>2, <1>4 DEF PumpFrame, UdpInput
<1>5. CASE ArpFrameIn
  BY <1>1, <1>2, <1>5 DEF ArpFrameIn
<1>6. CASE Poll
  BY <1>1, <1>6 DEF Poll
<1>7. CASE Arrive
  BY <1>1, <1>7 DEF Arrive
<1>8. CASE UNCHANGED vars
  BY <1>1, <1>8 DEF vars
<1> QED
  BY <1>3, <1>4, <1>5, <1>6, <1>7, <1>8 DEF Next

\* arp_resolve never answers with an address older than the last one heard.
THEOREM CacheIsCurrent == Spec => []LookupLatest
<1>1. CacheInv => LookupLatest
  <2> SUFFICES ASSUME CacheInv, NEW h \in Host, Matching(h) # {}
               PROVE  Lookup(h) = heard[h]
    BY DEF LookupLatest, Lookup, LookupIn, Matching
  <2>1. Matching(h) \in SUBSET Nat
    BY NetStackAssumption DEF Matching, Matches, Entry
  <2>2. LowestOf(Matching(h)) \in Matching(h)
    BY <2>1, LowestIn
  <2> QED
    BY <2>2 DEF CacheInv, Lookup, LookupIn, Matching, Matches
<1>2. RingInv /\ CacheInv /\ [Next]_vars => CacheInv'
  BY CacheStep
<1> QED
  BY InitCache, StackUsesRing, RingInvariance, <1>1, <1>2, PTL DEF Spec
----------------------------------------------------------------------------
(* The UDP listeners.                                                      *)

LEMMA InitListeners == Init => ListenersInv
<1> SUFFICES ASSUME Init PROVE ListenersInv
  OBVIOUS
<1>1. /\ listeners = [i \in Port |-> Silent]
      /\ my_port = 0 /\ eph_port = EPH_FIRST /\ main = "idle"
  BY DEF Init
<1>2. EPH_FIRST \in Nat /\ EPH_FIRST # DHCP_CLIENT
  BY NetStackAssumption DEF DHCP_CLIENT
<1> QED
  BY <1>1, <1>2 DEF ListenersInv, InUse, Silent

\* udp_listen when no other exchange has a listener.
LEMMA ListeningStep ==
    ASSUME ListenersInv, InUse = {}, NEW p \in Nat, CanListen(p), listeners' = Listening(p)
    PROVE  /\ listeners' \in [Port -> [active : BOOLEAN, port : Nat]]
           /\ \E i \in Port : InUse' = {i} /\ listeners'[i].port = p
<1> DEFINE i == LowestOf(Port \ InUse)
<1>1. Port \in SUBSET Nat /\ Port \ InUse # {}
  BY NetStackAssumption DEF Port, CanListen
<1>2. i \in Port
  BY <1>1, LowestIn
<1>3. listeners' = [listeners EXCEPT ![i] = [active |-> TRUE, port |-> p]]
  BY DEF Listening
<1> HIDE DEF i
<1>4. listeners \in [Port -> [active : BOOLEAN, port : Nat]] /\ \A j \in Port : ~listeners[j].active
  BY DEF ListenersInv, InUse
<1>5. InUse' = {i} /\ listeners'[i].port = p
  BY <1>2, <1>3, <1>4 DEF InUse
<1> QED
  BY <1>2, <1>3, <1>4, <1>5

\* udp_unlisten of the exchange's port leaves no listener.
LEMMA GivesUpStep ==
    ASSUME ListenersInv, main # "idle", GivesUp(ExchangePort),
           my_port' \in Nat, eph_port' \in Nat, eph_port' # DHCP_CLIENT
    PROVE  ListenersInv'
<1>1. PICK i \in Port : InUse = {i} /\ listeners[i].port = ExchangePort
  BY DEF ListenersInv
<1>2. /\ main' = "idle"
      /\ listeners' = [j \in Port |-> IF listeners[j].active /\ listeners[j].port = ExchangePort
                                        THEN Silent ELSE listeners[j]]
  BY DEF GivesUp, Unlistened
<1>3. listeners \in [Port -> [active : BOOLEAN, port : Nat]]
      /\ Silent \in [active : BOOLEAN, port : Nat] /\ ~Silent.active
  BY DEF ListenersInv, Silent
<1>4. listeners' \in [Port -> [active : BOOLEAN, port : Nat]]
  BY <1>2, <1>3
<1>5. \A j \in Port : ~listeners'[j].active
  BY <1>1, <1>2, <1>3 DEF InUse
<1> QED
  BY <1>2, <1>4, <1>5 DEF ListenersInv, InUse

\* A query that is sent, or given up.
LEMMA SendQueryStep ==
    ASSUME ListenersInv, main = "arp", UNCHANGED <<my_port, eph_port>>,
           NEW x, NEW n, SendQuery(my_port, x, n)
    PROVE  ListenersInv'
<1>1. ExchangePort = my_port
  BY DEF ExchangePort
<1>2. CASE nic
  BY <1>2 DEF SendQuery, ListenersInv, InUse, ExchangePort
<1>3. CASE ~nic
  BY <1>1, <1>3, GivesUpStep DEF SendQuery, ListenersInv
<1> QED
  BY <1>2, <1>3

LEMMA DhcpRunStep ==
    ASSUME ListenersInv, DhcpRun
    PROVE  ListenersInv'
<1>1. main = "idle" /\ InUse = {} /\ UNCHANGED <<my_port, eph_port>>
  BY DEF ListenersInv, DhcpRun, dnsVars
<1>2. CASE CanListen(DHCP_CLIENT) /\ nic
  <2>1. main' = "dhcp" /\ listeners' = Listening(DHCP_CLIENT)
    BY <1>2 DEF DhcpRun
  <2>2. DHCP_CLIENT \in Nat
    BY DEF DHCP_CLIENT
  <2> QED
    BY <1>1, <1>2, <2>1, <2>2, ListeningStep DEF ListenersInv, ExchangePort
<1>3. CASE ~(CanListen(DHCP_CLIENT) /\ nic)
  BY <1>1, <1>3 DEF DhcpRun, ListenersInv, InUse, ExchangePort
<1> QED
  BY <1>2, <1>3

LEMMA DnsResolveStep ==
    ASSUME ListenersInv, NEW n \in Name, DnsResolve(n)
    PROVE  ListenersInv'
<1>1. main = "idle" /\ InUse = {}
  BY DEF ListenersInv, DnsResolve
<1>2. /\ my_port' \in Nat /\ my_port' # DHCP_CLIENT
      /\ eph_port' \in Nat /\ eph_port' # DHCP_CLIENT
  BY NetStackAssumption DEF ListenersInv, DnsResolve, EphAfter, DHCP_CLIENT
<1>3. CASE CanListen(my_port')
  <2>1. main' \in {"arp", "dns"} /\ listeners' = Listening(my_port')
    BY <1>3 DEF DnsResolve
  <2> QED
    BY <1>1, <1>2, <1>3, <2>1, ListeningStep DEF ListenersInv, ExchangePort
<1>4. CASE ~CanListen(my_port')
  BY <1>1, <1>2, <1>4 DEF DnsResolve, ListenersInv, InUse, ExchangePort
<1> QED
  BY <1>3, <1>4

LEMMA ListenersStep ==
    ASSUME ListenersInv, [Next]_vars
    PROVE  ListenersInv'
<1>1. ASSUME UNCHANGED <<listeners, main, my_port, eph_port>> PROVE ListenersInv'
  BY <1>1 DEF ListenersInv, InUse, ExchangePort
<1>2. CASE DhcpRun
  BY <1>2, DhcpRunStep
<1>3. CASE DhcpDone
  <2>1. main # "idle" /\ GivesUp(ExchangePort) /\ UNCHANGED <<my_port, eph_port>>
    BY <1>3 DEF DhcpDone, ExchangePort, dnsVars
  <2> QED
    BY <2>1, GivesUpStep DEF ListenersInv
<1>4. CASE ArpTimeout
  BY <1>4, SendQueryStep DEF ArpTimeout, dnsVars
<1>5. CASE DnsDone
  <2>1. main # "idle" /\ GivesUp(ExchangePort) /\ UNCHANGED <<my_port, eph_port>>
    BY <1>5 DEF DnsDone, ExchangePort, dnsVars
  <2> QED
    BY <2>1, GivesUpStep DEF ListenersInv
<1>6. ASSUME NEW n \in Name, DnsResolve(n) PROVE ListenersInv'
  BY <1>6, DnsResolveStep
<1>7. CASE PumpFrame
  BY <1>1, <1>7 DEF PumpFrame, UdpInput, OnDhcpReply, OnDnsReply, dnsVars
<1>8. CASE ArpFrameIn
  <2>1. main = "arp" /\ UNCHANGED <<my_port, eph_port>>
    BY <1>8 DEF ArpFrameIn, dnsVars
  <2>2. CASE UNCHANGED <<main, listeners>>
    BY <2>1, <2>2, <1>1
  <2>3. CASE SendQuery(my_port, pending_txid, hostname)
    BY <2>1, <2>3, SendQueryStep
  <2> QED
    BY <1>8, <2>2, <2>3 DEF ArpFrameIn
<1>9. CASE Poll
  BY <1>1, <1>9 DEF Poll, dnsVars
<1>10. CASE Arrive
  BY <1>1, <1>10 DEF Arrive, dnsVars
<1>11. CASE UNCHANGED vars
  BY <1>1, <1>11 DEF vars, dnsVars
<1> QED
  BY <1>2, <1>3, <1>4, <1>5, <1>6, <1>7, <1>8, <1>9, <1>10, <1>11 DEF Next, Call

\* The listeners are the exchange's in progress: none leaks, however it ends.
THEOREM NoListenerLeaks == Spec => []ListenersInUse
<1>1. ListenersInv => ListenersInUse
  <2> SUFFICES ASSUME ListenersInv PROVE ListenersInUse
    OBVIOUS
  <2>1. Cardinality({}) = 0 /\ \A e : Cardinality({e}) = 1
    BY FS_EmptySet, FS_Singleton
  <2>2. CASE main = "idle"
    BY <2>1, <2>2 DEF ListenersInv, ListenersInUse
  <2>3. CASE main # "idle"
    <3>1. PICK i \in Port : InUse = {i} /\ listeners[i].port = ExchangePort
      BY <2>3 DEF ListenersInv
    <3>2. {listeners[j].port : j \in InUse} = {ExchangePort}
      BY <3>1
    <3>3. (IF main = "dhcp" THEN {DHCP_CLIENT}
           ELSE IF main \in {"arp", "dns"} THEN {my_port} ELSE {}) = {ExchangePort}
      BY <2>3 DEF ListenersInv, ExchangePort
    <3> QED
      BY <3>1, <3>2, <3>3, <2>1 DEF ListenersInUse
  <2> QED
    BY <2>2, <2>3
<1> QED
  BY InitListeners, ListenersStep, <1>1, PTL DEF Spec
\* A DHCP answer is heard only in a DHCP exchange, and taken only if it is to
\* this exchange: no late offer, and no second one, changes the address.
THEOREM LeaseIsAwaited == Spec => LeaseRight
<1>1. ASSUME RingInv, ListenersInv, PumpFrame, net_ip' # net_ip
      PROVE  /\ main = "dhcp" /\ ~got_reply
             /\ net_ip' \in {Lease(v, pending_xid) : v \in DhcpServer}
  <2> DEFINE f == out[1]
  <2>1. f \in Frame
    BY <1>1, HandledFrame DEF PumpFrame
  <2>2. f.kind = "udp" /\ HasListener(f.dst_port) /\ f.dst_port = DHCP_CLIENT /\ OnDhcpReply(f)
    BY <1>1 DEF PumpFrame, UdpInput, OnDnsReply
  <2>3. main = "dhcp"
    <3>1. PICK i \in Port : InUse = {i} /\ listeners[i].port = ExchangePort
      BY <1>1, <2>2 DEF ListenersInv, HasListener
    <3>2. ExchangePort = DHCP_CLIENT /\ main # "idle"
      BY <1>1, <2>2, <3>1 DEF HasListener, ListenersInv
    <3> QED
      BY <1>1, <3>2 DEF ListenersInv, ExchangePort
  <2>4. ~got_reply /\ f.id = pending_xid /\ net_ip' = f.ip
    BY <1>1, <2>2 DEF OnDhcpReply
  <2>5. PICK v \in DhcpServer : f.ip = Lease(v, f.id)
    BY <2>1, <2>2, NetStackAssumption
  <2> QED
    BY <2>3, <2>4, <2>5
<1>2. ASSUME [Next]_vars, ~PumpFrame PROVE net_ip' = net_ip
  BY <1>2 DEF Next, Call, DhcpRun, DhcpDone, ArpTimeout, DnsDone, DnsResolve,
              ArpFrameIn, Poll, Arrive, vars
<1>3. RingInv /\ ListenersInv /\ [Next]_vars =>
        [net_ip' # net_ip =>
           /\ main = "dhcp" /\ ~got_reply
           /\ net_ip' \in {Lease(v, pending_xid) : v \in DhcpServer}]_vars
  BY <1>1, <1>2
<1> QED
  BY InitListeners, ListenersStep, StackUsesRing, RingInvariance, <1>3, PTL DEF Spec, LeaseRight
----------------------------------------------------------------------------
(* The answers of the name server.                                         *)

LEMMA InitWire == Init => WireInv
<1> SUFFICES ASSUME Init PROVE WireInv
  OBVIOUS
<1>1. Count = 0
  BY RxRingAssumption DEF Init, RingInit, Count
<1> QED
  BY <1>1 DEF Init, WireInv, AnswerRight

\* The frames waiting in the ring are answers to queries sent, whatever a step
\* does: it adds one that is, takes one away, or leaves the ring alone.
LEMMA WaitingStep ==
    ASSUME RingInv, RingInv', WireInv, [Next]_vars, wire \subseteq wire'
    PROVE  (\A i \in 1 .. Count : Queue[i].kind = "udp" => Queue[i] \in wire)'
<1>1. /\ Count \in Nat /\ Queue \in Seq(Frame) /\ Len(Queue) = Count
  BY QueueIsSeq, RxRingAssumption
<1>2. /\ Count' \in Nat /\ Queue' \in Seq(Frame) /\ Len(Queue') = Count'
  <2>1. (Count \in 0 .. NETIO_RX_QUEUE - 1 /\ Queue \in Seq(Frame) /\ Len(Queue) = Count)'
    BY QueueIsSeq, PTL
  <2> QED
    BY <2>1, RxRingAssumption
<1>3. \A i \in 1 .. Count : Queue[i].kind = "udp" => Queue[i] \in wire
  BY DEF WireInv
<1>4. ASSUME UNCHANGED <<rxq, rxq_head, rxq_tail>>
      PROVE  \A i \in 1 .. Count' : Queue'[i].kind = "udp" => Queue'[i] \in wire'
  BY <1>3, <1>4 DEF Queue, Count, SlotOf
<1>5. CASE PollEnd
  <2>1. Queue # <<>> /\ Queue' = Tail(Queue)
    BY <1>5, PollEndTakes DEF FQ!Take
  <2>2. Len(Queue') = Len(Queue) - 1 /\ \A i \in 1 .. Len(Queue') : Queue'[i] = Queue[i + 1]
    BY <2>1, <1>1, HeadTailProperties
  <2> QED
    BY <2>2, <1>1, <1>2, <1>3
<1>6. ASSUME NEW f \in Frame, f.kind = "udp" => f \in wire, RxHandler(f), ~RxFull
      PROVE  \A i \in 1 .. Count' : Queue'[i].kind = "udp" => Queue'[i] \in wire'
  <2>1. Queue' = Append(Queue, f)
    BY <1>6, RxHandlerAccepts DEF FQ!Accept
  <2>2. Len(Queue') = Len(Queue) + 1
        /\ \A i \in 1 .. Len(Queue') : Queue'[i] = IF i = Len(Queue) + 1 THEN f ELSE Queue[i]
    BY <2>1, <1>1
  <2> QED
    BY <2>2, <1>1, <1>2, <1>3, <1>6
<1>7. CASE Call
  BY <1>4, <1>7 DEF Call, DhcpRun, DhcpDone, ArpTimeout, DnsDone, DnsResolve, ringVars
<1>8. CASE PumpFrame
  BY <1>5, <1>8 DEF PumpFrame
<1>9. CASE ArpFrameIn
  BY <1>5, <1>9 DEF ArpFrameIn
<1>10. CASE Poll
  BY <1>4, <1>10 DEF Poll, PollStart, PollCopy
<1>11. CASE Arrive
  <2>1. PICK f \in Frame : (f.kind = "udp" => f \in wire) /\ RxHandler(f)
    BY <1>11 DEF Arrive
  <2>2. CASE RxFull
    BY <2>1, <2>2, <1>4 DEF RxHandler
  <2>3. CASE ~RxFull
    BY <2>1, <2>3, <1>6
  <2> QED
    BY <2>2, <2>3
<1>12. CASE UNCHANGED vars
  BY <1>4, <1>12 DEF vars, ringVars
<1> QED
  BY <1>7, <1>8, <1>9, <1>10, <1>11, <1>12 DEF Next

\* All but the frames in the ring: what a query adds to the wire.
Asked ==
    /\ calls \in Nat \ {0}
    /\ pending_txid \in Nat /\ pending_txid < calls
    /\ \A f \in wire : f.id \in Nat /\ f.id < calls
    /\ main \in {"arp", "dns"} =>
           \A f \in wire : f.id = pending_txid => f.ip = AddrOf(hostname)
    /\ main = "arp" => ~got_result
    /\ AnswerRight

LEMMA SendQueryAsks ==
    ASSUME Asked, main = "arp", SendQuery(my_port, pending_txid, hostname),
           UNCHANGED <<calls, dnsVars>>
    PROVE  Asked' /\ wire \subseteq wire'
<1> DEFINE q == UdpFrame(my_port, pending_txid, AddrOf(hostname))
<1>1. q.id = pending_txid /\ q.ip = AddrOf(hostname)
  BY DEF UdpFrame
<1>2. /\ wire' \in {wire, wire \cup {q}} /\ main' \in {"dns", "idle"}
      /\ UNCHANGED <<calls, pending_txid, hostname, got_result, result_ip>>
  BY DEF SendQuery, Sends, GivesUp, dnsVars
<1> HIDE DEF q
<1>3. AnswerRight'
  BY <1>2 DEF Asked, AnswerRight
<1> QED
  BY <1>1, <1>2, <1>3 DEF Asked

LEMMA DhcpRunAsks ==
    ASSUME Asked, DhcpRun
    PROVE  Asked' /\ wire \subseteq wire'
<1> DEFINE new == {UdpFrame(DHCP_CLIENT, calls, Lease(v, calls)) : v \in DhcpServer}
<1>1. \A f \in new : f.id = calls
  BY DEF UdpFrame
<1>2. /\ wire' \in {wire, wire \cup new} /\ main' \in {"dhcp", "idle"}
      /\ calls' = calls + 1 /\ UNCHANGED pending_txid
  BY DEF DhcpRun, Sends, dnsVars
<1> HIDE DEF new
<1>3. AnswerRight'
  BY <1>2 DEF AnswerRight
<1> QED
  BY <1>1, <1>2, <1>3 DEF Asked

LEMMA DnsResolveAsks ==
    ASSUME Asked, NEW n \in Name, DnsResolve(n)
    PROVE  Asked' /\ wire \subseteq wire'
<1> DEFINE q == UdpFrame(my_port', calls, AddrOf(n))
<1>1. q.id = calls /\ q.ip = AddrOf(n)
  BY DEF UdpFrame
<1>2. /\ wire' \in {wire, wire \cup {q}} /\ main' \in {"arp", "dns", "idle"}
      /\ calls' = calls + 1 /\ pending_txid' = calls /\ hostname' = n /\ got_result' = FALSE
  BY DEF DnsResolve, Sends
<1> HIDE DEF q
<1>3. AnswerRight'
  BY <1>2 DEF AnswerRight
<1>4. \A f \in wire : f.id # calls
  BY DEF Asked
<1> QED
  BY <1>1, <1>2, <1>3, <1>4 DEF Asked

\* A frame the pump hands over can only give the answer that was asked for.
LEMMA PumpAnswers ==
    ASSUME RingInv, WireInv, PumpFrame
    PROVE  Asked' /\ wire \subseteq wire'
<1>1. /\ UNCHANGED <<main, wire, calls, pending_txid, hostname>> /\ main # "arp"
  BY DEF PumpFrame, envVars, dnsVars, UdpInput, OnDhcpReply, OnDnsReply
<1>2. AnswerRight'
  <2>1. CASE UNCHANGED <<got_result, result_ip>>
    BY <1>1, <2>1 DEF WireInv, AnswerRight
  <2>2. CASE ~UNCHANGED <<got_result, result_ip>>
    <3> SUFFICES ASSUME main = "dns" PROVE result_ip' = AddrOf(hostname)
      BY <1>1 DEF AnswerRight
    <3>1. out[1].kind = "udp" /\ out[1].id = pending_txid /\ result_ip' = out[1].ip
      BY <2>2 DEF PumpFrame, UdpInput, OnDhcpReply, OnDnsReply, dnsVars
    <3>2. out[1] = Queue[1] /\ 1 \in 1 .. Count
      <4>1. polling /\ Len(out) = PIECES
        BY DEF PumpFrame, PollEnd
      <4>2. 1 \in 1 .. Len(out) /\ Count > 0
        BY <4>1, RxRingAssumption DEF RingInv, FrameWhole
      <4>3. Count \in Nat
        BY QueueIsSeq, RxRingAssumption
      <4> QED
        BY <4>1, <4>2, <4>3 DEF RingInv, FrameWhole
    <3>3. out[1] \in wire
      BY <3>1, <3>2 DEF WireInv
    <3> QED
      BY <3>1, <3>3 DEF WireInv
  <2> QED
    BY <2>1, <2>2
<1> QED
  BY <1>1, <1>2 DEF Asked, WireInv

LEMMA WireStep ==
    ASSUME RingInv, RingInv', WireInv, [Next]_vars
    PROVE  WireInv'
<1>1. Asked
  BY DEF WireInv, Asked
<1>2. ASSUME UNCHANGED <<wire, calls, dnsVars>>, main' \in {main, "idle"}
      PROVE  Asked' /\ wire \subseteq wire'
  BY <1>1, <1>2 DEF Asked, AnswerRight, dnsVars
<1>3. Asked' /\ wire \subseteq wire'
  <2>1. CASE DhcpRun
    BY <1>1, <2>1, DhcpRunAsks
  <2>2. CASE DhcpDone
    BY <1>2, <2>2 DEF DhcpDone, GivesUp, envVars
  <2>3. CASE ArpTimeout
    BY <1>1, <2>3, SendQueryAsks DEF ArpTimeout, envVars
  <2>4. CASE DnsDone
    BY <1>2, <2>4 DEF DnsDone, GivesUp, envVars
  <2>5. ASSUME NEW n \in Name, DnsResolve(n) PROVE Asked' /\ wire \subseteq wire'
    BY <1>1, <2>5, DnsResolveAsks
  <2>6. CASE PumpFrame
    BY <2>6, PumpAnswers
  <2>7. CASE ArpFrameIn
    <3>1. main = "arp" /\ UNCHANGED <<calls, dnsVars>>
      BY <2>7 DEF ArpFrameIn, envVars
    <3>2. CASE UNCHANGED <<main, wire>>
      BY <1>2, <3>1, <3>2
    <3>3. CASE SendQuery(my_port, pending_txid, hostname)
      BY <1>1, <3>1, <3>3, SendQueryAsks
    <3> QED
      BY <2>7, <3>2, <3>3 DEF ArpFrameIn
  <2>8. CASE Poll
    BY <1>2, <2>8 DEF Poll, envVars
  <2>9. CASE Arrive
    BY <1>2, <2>9 DEF Arrive
  <2>10. CASE UNCHANGED vars
    BY <1>2, <2>10 DEF vars, envVars
  <2> QED
    BY <2>1, <2>2, <2>3, <2>4, <2>5, <2>6, <2>7, <2>8, <2>9, <2>10 DEF Next, Call
<1>4. (\A i \in 1 .. Count : Queue[i].kind = "udp" => Queue[i] \in wire)'
  BY <1>3, WaitingStep
<1> QED
  BY <1>3, <1>4 DEF WireInv, Asked

\* What dns_real_resolve returns is the address of the name it was given, for
\* any number of late, repeated and reordered answers to other queries.
THEOREM AnswerIsAsked == Spec => []AnswerRight
<1>1. WireInv => AnswerRight
  BY DEF WireInv
<1>2. RingInv /\ RingInv' /\ WireInv /\ [Next]_vars => WireInv'
  BY WireStep
<1> QED
  BY InitWire, StackUsesRing, RingInvariance, <1>1, <1>2, PTL DEF Spec
===============================================================================
