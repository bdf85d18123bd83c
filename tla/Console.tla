------------------------------- MODULE Console -------------------------------
(***************************************************************************)
(* The shell's line: shell_run and its history (kernel/shell.c) on the     *)
(* text screen of drivers/screen.c, one key after the other.  A command is *)
(* the sequence of the characters typed; what it prints is one of Outputs. *)
(* Colours and the copies in VGA memory and frame buffer, which show the   *)
(* same cells, are left out.                                               *)
(***************************************************************************)
EXTENDS Integers, Sequences

CONSTANTS
    VGA_ROWS, VGA_COLS,
    MAX_INPUT, HISTORY_SIZE,
    TypedChars, \* the printable characters
    Outputs,    \* what commands print
    MaxHistory  \* bound on the commands entered

\* A prompt and a line fit on the screen and leave a row; no typed character moves
\* the cursor in another way than one cell on.
ASSUME ConsoleAssumption ==
    /\ VGA_ROWS \in Nat /\ VGA_COLS \in Nat \ {0} /\ MAX_INPUT \in Nat \ {0}
    /\ MAX_INPUT < (VGA_ROWS - 1) * VGA_COLS
    /\ HISTORY_SIZE \in Nat \ {0} /\ MaxHistory \in Nat
    /\ TypedChars \cap {"backspace", "newline"} = {}
    /\ \A output \in Outputs : output \in Seq({output[i] : i \in DOMAIN output})

VARIABLES
    screen,         \* shadow_char, with the cursor's row and column
    input,          \* input and input_len
    history,        \* the slots written
    history_count,
    hist_nav,
    task            \* what shell_run does: waits for a "key", or has a command to "run"

consoleVars == <<screen, input, history, history_count, hist_nav, task>>

Space   == " "
Back    == "backspace"
Newline == "newline"
BlankRow == [c \in 0..VGA_COLS - 1 |-> Space]
EmptyScreen == [cell |-> [r \in 0..VGA_ROWS - 1 |-> BlankRow], row |-> 0, col |-> 0]

----------------------------------------------------------------------------
(* print_char.                                                             *)

\* scroll, and the wrap at the end of a row.
Settle(scr) ==
    LET wrapped == IF scr.col >= VGA_COLS THEN [scr EXCEPT !.col = 0, !.row = @ + 1] ELSE scr
    IN  IF wrapped.row < VGA_ROWS THEN wrapped
        ELSE [cell |-> [r \in 0..VGA_ROWS - 1 |-> IF r = VGA_ROWS - 1 THEN BlankRow ELSE wrapped.cell[r + 1]],
              row |-> VGA_ROWS - 1, col |-> 0]

Erase(scr) ==
    LET back == IF scr.col > 0 THEN [scr EXCEPT !.col = @ - 1]
                ELSE IF scr.row > 0 THEN [scr EXCEPT !.row = @ - 1, !.col = VGA_COLS - 1] ELSE scr
    IN  [back EXCEPT !.cell[back.row][back.col] = Space]

PrintChar(scr, ch) ==
    CASE ch = Back -> Erase(scr)
      [] ch = Newline -> Settle([scr EXCEPT !.row = @ + 1, !.col = 0])
      [] OTHER     -> Settle([scr EXCEPT !.cell[scr.row][scr.col] = ch, !.col = @ + 1])

PrintText(scr, text) ==
    LET after[i \in 0..Len(text)] == IF i = 0 THEN scr ELSE PrintChar(after[i - 1], text[i])
    IN  after[Len(text)]

Times(ch, n) == [i \in 1..n |-> ch]
Prompt == <<">">>

----------------------------------------------------------------------------
ConsoleInit ==
    /\ screen = PrintText(EmptyScreen, Prompt)
    /\ input = <<>>
    /\ history = <<>> /\ history_count = 0 /\ hist_nav = -1
    /\ task = "key"

HistorySlot(n) == (n % HISTORY_SIZE) + 1

\* Mutant of Cleared: the line is taken for as long as the one that replaces it.
ClearedLike(line) == PrintText(screen, Times(Back, Len(line)))

\* The line is erased before another one is shown.
Cleared(line) == PrintText(screen, Times(Back, Len(input)))

Recall(line) ==
    /\ input' = line
    /\ screen' = PrintText(Cleared(line), line)
    /\ UNCHANGED <<history, history_count, task>>

KeyUp ==
    /\ task = "key" /\ history_count > 0
    /\ hist_nav' = IF hist_nav = -1 THEN history_count - 1
                   ELSE IF hist_nav > 0 THEN hist_nav - 1 ELSE hist_nav
    /\ Recall(history[HistorySlot(hist_nav')])

KeyDown ==
    /\ task = "key" /\ hist_nav # -1
    /\ IF hist_nav + 1 >= history_count
       THEN hist_nav' = -1 /\ Recall(<<>>)
       ELSE hist_nav' = hist_nav + 1 /\ Recall(history[HistorySlot(hist_nav')])

KeyBackspace ==
    /\ task = "key" /\ input # <<>>
    /\ input' = SubSeq(input, 1, Len(input) - 1)
    /\ screen' = PrintText(screen, <<Back, Space, Back>>)
    /\ UNCHANGED <<history, history_count, hist_nav, task>>

KeyChar(ch) ==
    /\ task = "key" /\ Len(input) < MAX_INPUT - 1
    /\ input' = Append(input, ch)
    /\ screen' = PrintChar(screen, ch)
    /\ UNCHANGED <<history, history_count, hist_nav, task>>

\* history_push: not what is empty or the last entry again.
HistoryPush ==
    IF input = <<>> \/ (history_count > 0 /\ history[HistorySlot(history_count - 1)] = input)
    THEN UNCHANGED <<history, history_count>>
    ELSE /\ history_count < MaxHistory
         /\ history' = IF history_count < HISTORY_SIZE THEN Append(history, input)
                       ELSE [history EXCEPT ![HistorySlot(history_count)] = input]
         /\ history_count' = history_count + 1

\* Enter, up to dispatch.
KeyEnter ==
    /\ task = "key"
    /\ HistoryPush
    /\ hist_nav' = -1
    /\ screen' = PrintChar(screen, Newline)
    /\ task' = "run"
    /\ UNCHANGED input

\* The command clear: screen_clear.
ClearScreen ==
    /\ task = "run" /\ input # <<>>
    /\ screen' = PrintText(EmptyScreen, Prompt)
    /\ input' = <<>> /\ task' = "key"
    /\ UNCHANGED <<history, history_count, hist_nav>>

\* dispatch: what the command prints, and the prompt.
Dispatch(output) ==
    /\ task = "run"
    /\ input = <<>> => output = <<>>
    /\ screen' = PrintText(screen, output \o Prompt)
    /\ input' = <<>>
    /\ task' = "key"
    /\ UNCHANGED <<history, history_count, hist_nav>>

ConsoleNext ==
    \/ ClearScreen \/ KeyUp \/ KeyDown \/ KeyBackspace \/ KeyEnter
    \/ \E ch \in TypedChars : KeyChar(ch)
    \/ \E output \in Outputs : Dispatch(output)

ConsoleSpec == ConsoleInit /\ [][ConsoleNext]_consoleVars

----------------------------------------------------------------------------
\* The cells of the screen in a row, and where the cursor is among them.
Cells == [i \in 1..VGA_ROWS * VGA_COLS |-> screen.cell[(i - 1) \div VGA_COLS][(i - 1) % VGA_COLS]]
CursorAt == screen.row * VGA_COLS + screen.col + 1

\* What stands behind the prompt is the line that Enter runs, and nothing else:
\* over wrapped and scrolled lines, erasing, and recalls of longer or shorter
\* commands (shell_run, print_char).
LineShown ==
    task = "key" =>
        /\ CursorAt > Len(input) + 1
        /\ SubSeq(Cells, CursorAt - Len(input) - 1, Len(Cells))
              = Prompt \o input \o Times(Space, Len(Cells) - CursorAt + 1)
=============================================================================
