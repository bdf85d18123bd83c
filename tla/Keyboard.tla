------------------------------- MODULE Keyboard -------------------------------
(***************************************************************************)
(* drivers/keyboard.c: the interrupt handler that turns scan codes into    *)
(* characters of a ring, and keyboard_getchar, which the shell and the     *)
(* desktop call with interrupts on.                                        *)
(*                                                                         *)
(* kb_count is written by both without protection.  Compiled with -O2 (see *)
(* Makefile) keyboard_getchar loads kb_count once, tests it, and stores    *)
(* the value less one later: an interrupt in between is forgotten by the   *)
(* count.  A character is [key, upper]; printable keys are model values.   *)
(***************************************************************************)
EXTENDS Integers, Sequences

CONSTANTS
    KB_BUFFER_SIZE,
    Printable,      \* keys with an entry in the tables of characters
    Arrows,         \* extended keys that are known
    MaxPushed       \* bound on the characters that are typed

ASSUME KeyboardAssumption == KB_BUFFER_SIZE \in Nat \ {0} /\ MaxPushed \in Nat

VARIABLES
    kb_buffer, kb_read_pos, kb_write_pos, kb_count,
    shift_held, caps_lock, extended_mode,
    loaded,         \* kb_count as keyboard_getchar has read it, or -1
    pushed,         \* all characters that went into the ring
    fetched,        \* all that keyboard_getchar has returned
    raced,          \* the handler has pushed while keyboard_getchar was at work
    lapped          \* it has written over a character that was not read

keyVars == <<kb_buffer, kb_read_pos, kb_write_pos, kb_count, shift_held, caps_lock, extended_mode,
             loaded, pushed, fetched, raced, lapped>>
ringVars == <<kb_buffer, kb_write_pos, kb_count, pushed, raced, lapped>>
modeVars == <<shift_held, caps_lock, extended_mode>>
readVars == <<kb_read_pos, loaded, fetched>>

Char == [key : Printable \cup Arrows, upper : BOOLEAN]
Blank == CHOOSE c \in Char : TRUE

\* keyboard_init drains the controller before it enables the interrupt.
KeyInit ==
    /\ kb_buffer = [i \in 0..KB_BUFFER_SIZE - 1 |-> Blank]
    /\ kb_read_pos = 0 /\ kb_write_pos = 0 /\ kb_count = 0
    /\ shift_held = FALSE /\ caps_lock = FALSE /\ extended_mode = FALSE
    /\ loaded = -1
    /\ pushed = <<>> /\ fetched = <<>> /\ raced = FALSE /\ lapped = FALSE

Unread == Len(pushed) - Len(fetched)

NextPos(pos) == (pos + 1) % KB_BUFFER_SIZE

\* Mutant of Room: a full ring takes one character more.
RoomOver == kb_count <= KB_BUFFER_SIZE

Room == kb_count < KB_BUFFER_SIZE

\* buffer_push
Push(c) ==
    IF Room
    THEN /\ Len(pushed) < MaxPushed
         /\ kb_buffer' = [kb_buffer EXCEPT ![kb_write_pos] = c]
         /\ kb_write_pos' = NextPos(kb_write_pos)
         /\ kb_count' = kb_count + 1
         /\ pushed' = Append(pushed, c)
         /\ raced' = (raced \/ loaded # -1)
         /\ lapped' = (lapped \/ Unread = KB_BUFFER_SIZE)
    ELSE UNCHANGED ringVars

-----------------------------------------------------------------------------
(* keyboard_handler, by the scan code.                                     *)

Prefix ==
    /\ extended_mode' = TRUE
    /\ UNCHANGED <<shift_held, caps_lock>> /\ UNCHANGED ringVars /\ UNCHANGED readVars

\* A release ends the prefix, whatever it was for.
Release(key) ==
    /\ shift_held' = (shift_held /\ key # "shift")
    /\ extended_mode' = FALSE
    /\ UNCHANGED caps_lock /\ UNCHANGED ringVars /\ UNCHANGED readVars

ExtendedPress(key) ==
    /\ extended_mode
    /\ extended_mode' = FALSE
    /\ IF key \in Arrows THEN Push([key |-> key, upper |-> FALSE]) ELSE UNCHANGED ringVars
    /\ UNCHANGED <<shift_held, caps_lock>> /\ UNCHANGED readVars

Modifier(key) ==
    /\ ~extended_mode
    /\ \/ key = "shift" /\ shift_held' = TRUE /\ UNCHANGED caps_lock
       \/ key = "caps"  /\ caps_lock' = ~caps_lock /\ UNCHANGED shift_held
    /\ UNCHANGED extended_mode /\ UNCHANGED ringVars /\ UNCHANGED readVars

\* The tables of characters; Escape and Backspace go into the ring like a key with
\* one character.
Press(key) ==
    /\ ~extended_mode
    /\ Push([key |-> key, upper |-> key \in Printable /\ shift_held # caps_lock])
    /\ UNCHANGED modeVars /\ UNCHANGED readVars

-----------------------------------------------------------------------------
(* keyboard_getchar.                                                       *)

GetEmpty == loaded = -1 /\ kb_count = 0 /\ UNCHANGED keyVars

Load ==
    /\ loaded = -1 /\ kb_count > 0
    /\ loaded' = kb_count
    /\ UNCHANGED <<kb_read_pos, fetched>> /\ UNCHANGED ringVars /\ UNCHANGED modeVars

Store ==
    /\ loaded # -1
    /\ kb_count' = loaded - 1
    /\ fetched' = Append(fetched, kb_buffer[kb_read_pos])
    /\ kb_read_pos' = NextPos(kb_read_pos)
    /\ loaded' = -1
    /\ UNCHANGED <<kb_buffer, kb_write_pos, pushed, raced, lapped>> /\ UNCHANGED modeVars

KeyNext ==
    \/ Prefix
    \/ \E key \in Printable \cup Arrows \cup {"shift"} : Release(key) \/ ExtendedPress(key)
    \/ \E key \in {"shift", "caps"} : Modifier(key)
    \/ \E key \in Printable : Press(key)
    \/ GetEmpty \/ Load \/ Store

KeySpec == KeyInit /\ [][KeyNext]_keyVars

-----------------------------------------------------------------------------
\* The shell reads what was typed, in order and once, as long as no character
\* was written over; the count never claims more than there is; and if no
\* interrupt met keyboard_getchar it is exact, so that nothing is written over
\* and nothing waits for the next key (keyboard.c, buffer_push and getchar).
KeysInOrder ==
    /\ ~lapped => fetched = SubSeq(pushed, 1, Len(fetched))
    /\ 0 <= kb_count /\ kb_count <= Unread
    /\ ~raced => ~lapped /\ kb_count = Unread
=============================================================================
