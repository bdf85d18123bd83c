-------------------------------- MODULE Devices -------------------------------
(***************************************************************************)
(* What comes into the kernel from the machine around it: the keyboard,    *)
(* the mouse and the firmware's tables.  The three share no state.         *)
(***************************************************************************)
EXTENDS Keyboard, Mouse, Acpi

DevicesSpec == KeySpec /\ MouseSpec /\ AcpiSpec

\* What comes in from outside arrives as it was sent: characters, the pointer, the
\* list of processors (keyboard.c, mouse.c, smp.c and acpi.c).
DevicesRight == KeysInOrder /\ PointerRight /\ CpusAgree
===============================================================================
