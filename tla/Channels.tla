------------------------------ MODULE Channels ------------------------------
(***************************************************************************)
(* What inter-process communication promises.  A pipe is a bounded queue   *)
(* of bytes: a write takes a first part of its data, all of it if there is *)
(* room, and a read gives as much as there is, up to what was asked for.   *)
(* The mailbox holds letters in no order and gives out each of them once.  *)
(***************************************************************************)
EXTENDS Integers, Sequences

CONSTANTS Byte, Capacity, Pipe, Letter, Letters

VARIABLES open,     \* the pipes created
          inside,   \* the bytes in each
          given,    \* what the last read gave
          mail,     \* how many of each letter there are
          waiting,  \* how many letters there are
          taken     \* the last letter given out

channelVars == <<open, inside, given, mail, waiting, taken>>

Some(n, m) == IF n < m THEN n ELSE m

ChannelInit ==
    /\ open = {} /\ inside = [p \in Pipe |-> <<>>] /\ given = <<>>
    /\ mail = [x \in Letter |-> 0] /\ waiting = 0

Open ==
    /\ \E p \in Pipe \ open : open' = open \cup {p} /\ inside' = [inside EXCEPT ![p] = <<>>]
    /\ UNCHANGED <<given, mail, waiting, taken>>

Write(p, data) ==
    /\ p \in open
    /\ inside' = [inside EXCEPT ![p] = @ \o SubSeq(data, 1, Some(Len(data), Capacity - Len(@)))]
    /\ UNCHANGED <<open, given, mail, waiting, taken>>

Read(p, n) ==
    /\ p \in open
    /\ given' = SubSeq(inside[p], 1, Some(n, Len(inside[p])))
    /\ inside' = [inside EXCEPT ![p] = SubSeq(@, Some(n, Len(@)) + 1, Len(@))]
    /\ UNCHANGED <<open, mail, waiting, taken>>

\* A letter finds no place only when all are taken.
Post(x) ==
    /\ waiting < Letters
    /\ mail' = [mail EXCEPT ![x] = @ + 1] /\ waiting' = waiting + 1
    /\ UNCHANGED <<open, inside, given, taken>>

Collect(x) ==
    /\ mail[x] > 0
    /\ taken' = x
    /\ mail' = [mail EXCEPT ![x] = @ - 1] /\ waiting' = waiting - 1
    /\ UNCHANGED <<open, inside, given>>

ChannelNext ==
    \/ Open
    \/ \E p \in Pipe, n \in 0..Capacity + 1 : Read(p, n) \/ \E data \in [1..n -> Byte] : Write(p, data)
    \/ \E x \in Letter : Post(x) \/ Collect(x)

ChannelSpec == ChannelInit /\ [][ChannelNext]_channelVars
=============================================================================
