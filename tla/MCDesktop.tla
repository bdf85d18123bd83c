------------------------------ MODULE MCDesktop ------------------------------
(* Desktop for TLC. *)
EXTENDS Desktop

CONSTANTS files, calculator, files2, calculator2

\* Two autostart entries; the second pair is what a respawn launches.
MCLaunch == [a \in App |-> IF a \in {files, calculator} THEN 1 ELSE 2]
=============================================================================
