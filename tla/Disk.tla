-------------------------------- MODULE Disk --------------------------------
(***************************************************************************)
(* What kernel/block.c promises of one disk: 512-byte sectors, one call at *)
(* a time.  A call that answers 1 has moved exactly its sectors; one that  *)
(* answers 0 may have written some of them; no call touches another        *)
(* sector.  A command that a driver gives up may still change the sectors  *)
(* of its call, and nothing else.                                          *)
(***************************************************************************)
EXTENDS Naturals

CONSTANTS Sector,   \* the numbers of the disk's sectors
          Value     \* what a sector may hold

VARIABLES store,    \* [Sector -> Value]
          request,  \* the call at work, or None
          reply,    \* the last answer: [ok, data]
          gaveUp    \* the sectors of a call that was given up

diskVars == <<store, request, reply, gaveUp>>

None == [op |-> "none", data |-> <<>>]

\* A request's data is a function from the sectors it covers.
Request == [op : {"read", "write"}, data : UNION {[S -> Value] : S \in SUBSET Sector}]

DiskInit ==
    /\ store \in [Sector -> Value]
    /\ request = None
    /\ gaveUp = {}

Begin ==
    /\ request = None
    /\ request' # None
    /\ UNCHANGED <<store, reply, gaveUp>>

\* Sectors of a write reach the disk, in any order and grouping.
Transfer ==
    /\ request.op = "write"
    /\ \E S \in SUBSET DOMAIN request.data :
          store' = [s \in Sector |-> IF s \in S THEN request.data[s] ELSE store[s]]
    /\ UNCHANGED <<request, reply, gaveUp>>

Reply ==
    /\ request # None
    /\ request' = None
    /\ reply'.ok => /\ reply'.data = request.data \/ request.op = "read"
                    /\ reply'.data = [s \in DOMAIN request.data |-> store[s]]
    /\ UNCHANGED <<store, gaveUp>>

\* The call is refused before it reaches the disk, or the last answer goes.
Refuse ==
    /\ request = None
    /\ ~reply'.ok
    /\ UNCHANGED <<store, request, gaveUp>>

GiveUp ==
    /\ request # None /\ request' = None
    /\ gaveUp' = DOMAIN request.data
    /\ ~reply'.ok
    /\ UNCHANGED store

Straggle ==
    /\ gaveUp # {}
    /\ \A s \in Sector \ gaveUp : store'[s] = store[s]
    /\ UNCHANGED <<request, reply, gaveUp>>

DiskNext == Begin \/ Transfer \/ Reply \/ Refuse \/ GiveUp \/ Straggle

DiskSpec == DiskInit /\ [][DiskNext]_diskVars
=============================================================================
