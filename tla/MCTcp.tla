------------------------------- MODULE MCTcp --------------------------------
(* TcpConnection for TLC. *)
EXTENDS TcpConnectionInv

\* The client's sequence numbers wrap around within every run.
MCIsn == [h \in Host |-> IF h = Client THEN SeqMod - 2 ELSE 2]

\* How much each application writes.
OneWay  == [h \in Host |-> IF h = Client THEN 4 ELSE 0]
TwoWay  == [h \in Host |-> IF h = Client THEN 2 ELSE 1]
OneByte == [h \in Host |-> IF h = Client THEN 1 ELSE 0]
OneEach == [h \in Host |-> 1]
TwoByte == [h \in Host |-> IF h = Client THEN 2 ELSE 0]
Three   == [h \in Host |-> IF h = Client THEN 3 ELSE 0]
=============================================================================
