----------------------------- MODULE ByteStream ------------------------------
(***************************************************************************)
(* What a TCP connection promises to the two programs that use it: in each *)
(* direction a pipe that delivers the bytes written, in order, each once,  *)
(* and that lets go of a byte (confirms it) only when it has arrived.      *)
(* A pipe is named by the host that writes to it; byte k is the number k.  *)
(***************************************************************************)
EXTENDS Integers, Sequences

CONSTANT Pipe

VARIABLES
    sent,        \* [Pipe -> Nat]: bytes accepted from the writer
    got,         \* [Pipe -> Seq(Nat)]: the bytes that have arrived
    confirmed,   \* [Pipe -> Nat]: bytes the writer's side no longer keeps
    taken        \* [Pipe -> Nat]: bytes handed to the reader

pipeVars == <<sent, got, confirmed, taken>>

StreamInit ==
    /\ sent      = [p \in Pipe |-> 0]
    /\ got       = [p \in Pipe |-> <<>>]
    /\ confirmed = [p \in Pipe |-> 0]
    /\ taken     = [p \in Pipe |-> 0]

Write(p) ==
    /\ sent'[p] > sent[p]
    /\ got'[p] = got[p] /\ confirmed'[p] = confirmed[p] /\ taken'[p] = taken[p]

Deliver(p) ==
    /\ Len(got'[p]) \in Len(got[p]) + 1 .. sent[p]
    /\ got'[p] = got[p] \o [i \in 1 .. Len(got'[p]) - Len(got[p]) |-> Len(got[p]) + i]
    /\ sent'[p] = sent[p] /\ confirmed'[p] = confirmed[p] /\ taken'[p] = taken[p]

Confirm(p) ==
    /\ confirmed'[p] \in confirmed[p] + 1 .. Len(got[p])
    /\ sent'[p] = sent[p] /\ got'[p] = got[p] /\ taken'[p] = taken[p]

Take(p) ==
    /\ taken'[p] \in taken[p] + 1 .. Len(got[p])
    /\ sent'[p] = sent[p] /\ got'[p] = got[p] /\ confirmed'[p] = confirmed[p]

Idle(p) ==
    sent'[p] = sent[p] /\ got'[p] = got[p] /\ confirmed'[p] = confirmed[p] /\ taken'[p] = taken[p]

\* One segment may confirm bytes of one pipe and deliver bytes of the other.
StreamNext == \A p \in Pipe : Write(p) \/ Deliver(p) \/ Confirm(p) \/ Take(p) \/ Idle(p)

StreamSpec == StreamInit /\ [][StreamNext]_pipeVars
=============================================================================
