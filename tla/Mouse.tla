---------------------------------- MODULE Mouse -------------------------------
(***************************************************************************)
(* The PS/2 mouse (drivers/mouse.c): packets of three bytes, one interrupt *)
(* for each byte, and the pointer that the desktop reads at any time.      *)
(*                                                                         *)
(* A byte may be lost: the handler has no way to notice, it takes the next *)
(* byte with bit 3 for the beginning of a packet when it waits for one.    *)
(***************************************************************************)
EXTENDS Integers, Sequences, FiniteSetsExt

CONSTANTS
    FB_WIDTH, FB_HEIGHT,
    Moves           \* what the mouse reports: [dx, dy, buttons], dx and dy in -256..255

ASSUME MouseAssumption ==
    /\ FB_WIDTH \in Nat \ {0} /\ FB_HEIGHT \in Nat \ {0}
    /\ Moves \subseteq [dx : -256..255, dy : -256..255, buttons : 0..7]

VARIABLES
    mouse,          \* pos_x, pos_y, buttons, packet, cycle
    cable,          \* the bytes of the packet that the mouse is sending
    moved           \* history: the pointer after the whole packets, the move at work, a byte was lost

mouseVars == <<mouse, cable, moved>>

----------------------------------------------------------------------------
\* The mouse (external): buttons, bit 3 and the signs; then the low eight bits.
Packet(m) == <<m.buttons + 8 + (IF m.dx < 0 THEN 16 ELSE 0) + (IF m.dy < 0 THEN 32 ELSE 0),
               m.dx % 256, m.dy % 256>>

Report(m) ==
    /\ cable = <<>>
    /\ cable' = Packet(m)
    /\ moved' = IF moved.lost THEN moved ELSE [moved EXCEPT !.move = m]
    /\ UNCHANGED mouse

\* mouse_handler: the bits of the first byte, and the bounds of the screen.
HasBit(byte, bit) == (byte \div bit) % 2 = 1
Within(v, limit) == Max({0, Min({v, limit - 1})})

\* Mutant of Signed: the sign is taken for one more bit of the number.
SignedLate(byte, first, bit) == byte + (IF HasBit(first, bit) THEN 256 ELSE 0)

\* dx |= 0xFFFFFF00.
Signed(byte, first, bit) == byte - (IF HasBit(first, bit) THEN 256 ELSE 0)

\* The pointer after a packet, kept on the screen.
Moved(m, p) ==
    [m EXCEPT !.buttons = p[1] % 8, !.packet = <<>>,
              !.x = Within(@ + Signed(p[2], p[1], 16), FB_WIDTH),
              !.y = Within(@ - Signed(p[3], p[1], 32), FB_HEIGHT)]

\* The interrupt of a byte: mouse.packet has as many bytes as cycle counts.
MouseHandler ==
    /\ cable # <<>>
    /\ LET p == Append(mouse.packet, Head(cable))
       IN  mouse' = IF Len(p) = 3 THEN Moved(mouse, p)
                    ELSE IF Len(p) = 1 /\ ~HasBit(p[1], 8) THEN mouse
                    ELSE [mouse EXCEPT !.packet = p]
    /\ cable' = Tail(cable)
    /\ moved' = IF moved.lost \/ Len(cable) > 1 THEN moved
                ELSE [moved EXCEPT !.x = Within(@ + moved.move.dx, FB_WIDTH),
                                   !.y = Within(@ - moved.move.dy, FB_HEIGHT),
                                   !.buttons = moved.move.buttons]

Still == [dx |-> 0, dy |-> 0, buttons |-> 0]
\* What the mouse has said is not known any more.
Unknown == [x |-> 0, y |-> 0, buttons |-> 0, lost |-> TRUE, move |-> Still]

\* The controller loses a byte.
LoseByte ==
    /\ cable # <<>>
    /\ cable' = Tail(cable)
    /\ moved' = Unknown
    /\ UNCHANGED mouse

MouseInit ==
    /\ mouse = [x |-> FB_WIDTH \div 2, y |-> FB_HEIGHT \div 2, buttons |-> 0, packet |-> <<>>]
    /\ cable = <<>>
    /\ moved = [x |-> FB_WIDTH \div 2, y |-> FB_HEIGHT \div 2, buttons |-> 0, lost |-> FALSE,
                move |-> Still]
MouseNext == (\E m \in Moves : Report(m)) \/ MouseHandler \/ LoseByte
MouseSpec == MouseInit /\ [][MouseNext]_mouseVars

----------------------------------------------------------------------------
\* The desktop reads a pointer on the screen, whatever was lost; and where nothing
\* was, it is the one of the whole packets, however many bytes of the next one have
\* come: a packet never moves the pointer in part.
PointerRight ==
    /\ mouse.x \in 0..FB_WIDTH - 1 /\ mouse.y \in 0..FB_HEIGHT - 1
    /\ ~moved.lost =>
         /\ <<mouse.x, mouse.y, mouse.buttons>> = <<moved.x, moved.y, moved.buttons>>
         /\ Len(mouse.packet) = (3 - Len(cable)) % 3
=============================================================================
