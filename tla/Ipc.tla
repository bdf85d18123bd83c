--------------------------------- MODULE Ipc ---------------------------------
(***************************************************************************)
(* Pipes and messages of kernel/ipc.c.  A turn of the loops of pipe_write  *)
(* and pipe_read moves one byte; nothing else runs meanwhile, so that a    *)
(* call is one step.  Pipes are named by their index.                      *)
(***************************************************************************)
EXTENDS Integers, Sequences, FiniteSets

CONSTANTS
    MAX_PIPES, PIPE_BUF_SIZE, MAX_MSGS,
    PipeByte,   \* what a byte may be
    Payload,    \* what a message may say
    MostBytes   \* the largest n of a call

Vacant == "vacant"

ASSUME IpcAssumption ==
    /\ MAX_PIPES \in Nat /\ PIPE_BUF_SIZE \in Nat \ {0}
    /\ MAX_MSGS \in Nat /\ MostBytes \in Nat
    /\ Vacant \notin Payload

VARIABLES
    pipes,      \* pipes[]
    mq,         \* the payload of each slot that is alive, or Vacant
    got,        \* what the last pipe_read gave
    received    \* what the last mq_recv gave

ipcVars == <<pipes, mq, got, received>>

IpcInit ==
    /\ \E b \in PipeByte :
          pipes = [p \in 0..MAX_PIPES - 1 |->
                     [in_use |-> FALSE, buf |-> [s \in 0..PIPE_BUF_SIZE - 1 |-> b],
                      read_pos |-> 0, write_pos |-> 0, count |-> 0]]
    /\ mq = [i \in 0..MAX_MSGS - 1 |-> Vacant]
    /\ got = <<>> /\ received = Vacant

\* pipe_create takes the first that is not in use.
PipeCreate(p) ==
    /\ ~pipes[p].in_use /\ \A q \in 0..p - 1 : pipes[q].in_use
    /\ pipes' = [pipes EXCEPT ![p] = [in_use |-> TRUE, buf |-> @.buf, read_pos |-> 0, write_pos |-> 0, count |-> 0]]
    /\ UNCHANGED <<mq, got, received>>

Smaller(n, m) == IF n < m THEN n ELSE m

\* Mutant of Writable: a full ring takes one byte more.
WritableOver(b, n) == Smaller(n, PIPE_BUF_SIZE + 1 - b.count)

\* How many of n bytes pipe_write takes.
Writable(b, n) == Smaller(n, PIPE_BUF_SIZE - b.count)

\* The ring after n bytes of data have gone into it from w on.
Behind(s, w) == (s - w) % PIPE_BUF_SIZE
Overwritten(f, w, data, n) ==
    [s \in 0..PIPE_BUF_SIZE - 1 |-> IF Behind(s, w) < n THEN data[Behind(s, w) + 1] ELSE f[s]]

Written(b, data, n) ==
    [b EXCEPT !.buf = Overwritten(b.buf, b.write_pos, data, n),
              !.write_pos = (b.write_pos + n) % PIPE_BUF_SIZE,
              !.count = b.count + n]

PipeWrite(p, data) ==
    /\ pipes[p].in_use
    /\ pipes' = [pipes EXCEPT ![p] = Written(pipes[p], data, Writable(pipes[p], Len(data)))]
    /\ UNCHANGED <<mq, got, received>>

\* The bytes of a ring from read_pos on, and what is left behind m of them.
Ring(f, r, c) == [i \in 1..c |-> f[(r + i - 1) % PIPE_BUF_SIZE]]
ReadFrom(b, m) ==
    [b EXCEPT !.read_pos = (b.read_pos + m) % PIPE_BUF_SIZE, !.count = b.count - m]

PipeRead(p, n) ==
    LET m == Smaller(n, pipes[p].count)
    IN  /\ pipes[p].in_use
        /\ got' = Ring(pipes[p].buf, pipes[p].read_pos, m)
        /\ pipes' = [pipes EXCEPT ![p] = ReadFrom(pipes[p], m)]
        /\ UNCHANGED <<mq, received>>

\* mq_send and mq_recv: the first slot that is free, the first that is not.
MqSend(i, payload) ==
    /\ mq[i] = Vacant /\ \A j \in 0..i - 1 : mq[j] # Vacant
    /\ mq' = [mq EXCEPT ![i] = payload]
    /\ UNCHANGED <<pipes, got, received>>

MqRecv(i) ==
    /\ mq[i] # Vacant /\ \A j \in 0..i - 1 : mq[j] = Vacant
    /\ received' = mq[i]
    /\ mq' = [mq EXCEPT ![i] = Vacant]
    /\ UNCHANGED <<pipes, got>>

IpcNext ==
    \/ \E p \in DOMAIN pipes : PipeCreate(p)
    \/ \E p \in DOMAIN pipes, n \in 0..MostBytes :
          PipeRead(p, n) \/ \E data \in [1..n -> PipeByte] : PipeWrite(p, data)
    \/ \E i \in DOMAIN mq : MqRecv(i) \/ \E payload \in Payload : MqSend(i, payload)

IpcSpec == IpcInit /\ [][IpcNext]_ipcVars

-----------------------------------------------------------------------------
Held(b) == Ring(b.buf, b.read_pos, b.count)

\* Each pipe is a queue of its own and the messages are letters given out once,
\* also when positions wrap, buffers fill up and slots are used again.
C == INSTANCE Channels WITH
        Byte <- PipeByte, Capacity <- PIPE_BUF_SIZE, Pipe <- 0..MAX_PIPES - 1,
        Letter <- Payload, Letters <- MAX_MSGS,
        open   <- {p \in DOMAIN pipes : pipes[p].in_use},
        inside <- [p \in DOMAIN pipes |-> Held(pipes[p])],
        given  <- got,
        mail   <- [x \in Payload |-> Cardinality({i \in DOMAIN mq : mq[i] = x})],
        waiting <- Cardinality({i \in DOMAIN mq : mq[i] # Vacant}),
        taken  <- received
ChannelSpec == C!ChannelSpec
=============================================================================
