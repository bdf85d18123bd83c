------------------------------ MODULE LinuxApps ------------------------------
(***************************************************************************)
(* Applications of Path B (path-b-linux-core/apps): TextEdit, Files,       *)
(* Settings and the screen of Terminal.  Each is a client of the           *)
(* compositor that handles one event after the other; a step is the        *)
(* handling of one event, with what it does to files.  The applications    *)
(* are processes that share nothing the model looks at, so a behaviour     *)
(* follows one of them.                                                    *)
(*                                                                         *)
(* The compositor sends keys and buttons to the window under the pointer:  *)
(* a release may go elsewhere, so any event may come at any time.  The     *)
(* text of an editor is a sequence of "x" and "newline"; drawing is left   *)
(* out.  Offsets start from 0 as in the code.                              *)
(***************************************************************************)
EXTENDS Integers, Sequences

CONSTANTS
    Clients,                 \* the applications to follow
    BUF_CAP, VISIBLE_LINES,  \* TextEdit
    OnDisk,                  \* what the file may hold: sequences shorter than BUF_CAP
    Folders,                 \* Files: for each path its subdirectories and files, sorted
    StartPath, VISIBLE_ROWS,
    Toggles, Sliders, Levels, \* Settings: widgets, and the values of a slider
    ROWS, COLS, TAB, MaxOutput \* Terminal: the screen, and a bound on the output

ASSUME LinuxAssumption ==
    /\ {VISIBLE_LINES, VISIBLE_ROWS, ROWS, COLS, TAB} \subseteq Nat \ {0}
    /\ \A text \in OnDisk : text \in Seq({"x", "newline"})
    /\ \A path \in DOMAIN Folders : Folders[path] \in Seq([name : STRING, dir : BOOLEAN])
    /\ "none" \notin Sliders

VARIABLES client, editor, listing, settings, terminal

linuxVars == <<client, editor, listing, settings, terminal>>

SmallerOf(a, b) == IF a < b THEN a ELSE b

----------------------------------------------------------------------------
(* apps/textedit.  file is what is on disk, and torn is set while the last *)
(* attempt to save has failed: the file was truncated before.              *)

EditorInit(content) ==
    [buf |-> content, cur |-> 0, scroll |-> 0, dirty |-> FALSE, ctrl |-> FALSE,
     file |-> content, torn |-> FALSE]

InsertByte(e, c) ==
    IF Len(e.buf) + 1 >= BUF_CAP THEN e
    ELSE [e EXCEPT !.buf = SubSeq(@, 1, e.cur) \o <<c>> \o SubSeq(@, e.cur + 1, Len(@)),
                   !.cur = @ + 1, !.dirty = TRUE]

DeleteByte(e) ==
    IF e.cur = 0 THEN e
    ELSE [e EXCEPT !.buf = SubSeq(@, 1, e.cur - 1) \o SubSeq(@, e.cur + 1, Len(@)),
                   !.cur = @ - 1, !.dirty = TRUE]

\* find_line_start and find_line_end: of the line that offset off is in
LineStart(e, off) == CHOOSE s \in 0..off :
    (s = 0 \/ e.buf[s] = "newline") /\ \A i \in s + 1..off : e.buf[i] # "newline"
LineEnd(e, off) == CHOOSE t \in off..Len(e.buf) :
    (t = Len(e.buf) \/ e.buf[t + 1] = "newline") /\ \A i \in off + 1..t : e.buf[i] # "newline"

CursorUp(e) ==
    LET ls == LineStart(e, e.cur)
        before == LineStart(e, ls - 1)
    IN  IF ls = 0 THEN e
        ELSE [e EXCEPT !.cur = before + SmallerOf(e.cur - ls, ls - 1 - before)]

CursorDown(e) ==
    LET ls == LineStart(e, e.cur)
        next == LineEnd(e, e.cur) + 1
    IN  IF next > Len(e.buf) THEN e
        ELSE [e EXCEPT !.cur = next + SmallerOf(e.cur - ls, LineEnd(e, next) - next)]

CursorLeft(e)  == [e EXCEPT !.cur = IF @ > 0 THEN @ - 1 ELSE @]
CursorRight(e) == [e EXCEPT !.cur = IF @ < Len(e.buf) THEN @ + 1 ELSE @]

\* ensure_caret_visible
CaretLine(e) == LET n[i \in 0..e.cur] == IF i = 0 THEN 0
                                          ELSE n[i - 1] + IF e.buf[i] = "newline" THEN 1 ELSE 0
                IN  n[e.cur]
EnsureCaretVisible(e) ==
    LET up == SmallerOf(e.scroll, CaretLine(e))
    IN  [e EXCEPT !.scroll = IF CaretLine(e) >= up + VISIBLE_LINES THEN CaretLine(e) - VISIBLE_LINES + 1 ELSE up]

\* save_file: done, or cut short once the file has been truncated, or not opened
Saved(e) ==
    {[e EXCEPT !.file = e.buf, !.dirty = FALSE, !.torn = FALSE], e}
      \cup {[e EXCEPT !.file = SubSeq(e.buf, 1, n), !.torn = TRUE] : n \in 0..Len(e.buf) - 1}

EditorEvent ==
    /\ client = "textedit"
    /\ \/ \E move \in {InsertByte(editor, "x"), InsertByte(editor, "newline"), DeleteByte(editor),
                       CursorUp(editor), CursorDown(editor), CursorLeft(editor), CursorRight(editor)} :
             editor' = EnsureCaretVisible(move)
       \/ \E held \in BOOLEAN : editor' = [editor EXCEPT !.ctrl = held]
       \/ editor.ctrl /\ editor' \in Saved(editor)
    /\ UNCHANGED <<client, listing, settings, terminal>>

\* The application is closed and started again.
EditorReopen ==
    /\ client = "textedit"
    /\ editor' = EditorInit(editor.file)
    /\ UNCHANGED <<client, listing, settings, terminal>>

----------------------------------------------------------------------------
(* apps/files.  A path is the sequence of its names; of is the path that   *)
(* g_entries was read from.  A directory may be unreadable.                *)

LoadCwd(cwd, readable) ==
    [cwd |-> cwd, of |-> cwd, selected |-> 0, scroll |-> 0,
     entries |-> IF cwd \in DOMAIN Folders /\ readable THEN Folders[cwd] ELSE <<>>]

ParentPath(path) == SubSeq(path, 1, Len(path) - 1)
CdInto(name) ==
    LET cwd == IF name # ".." THEN Append(listing.cwd, name)
               ELSE IF listing.cwd = <<>> THEN <<>> ELSE ParentPath(listing.cwd)
    IN  \E readable \in BOOLEAN : listing' = LoadCwd(cwd, readable)

ClampLate(l) == [l EXCEPT !.selected = IF @ > Len(l.entries) THEN Len(l.entries) ELSE @] \* mutant
ClampSelected(l) ==
    LET s == IF l.selected < 0 THEN 0 ELSE l.selected
    IN  [l EXCEPT !.selected = IF s >= Len(l.entries) THEN Len(l.entries) - 1 ELSE s]
ClampView(l) ==
    LET c == ClampSelected(l)
        up == SmallerOf(c.scroll, c.selected)
        top == IF c.selected >= up + VISIBLE_ROWS THEN c.selected - VISIBLE_ROWS + 1 ELSE up
    IN  [c EXCEPT !.scroll = IF top < 0 THEN 0 ELSE top]

EntryAt(i) == listing.entries[i + 1]
Pick(i) == IF EntryAt(i).dir THEN CdInto(EntryAt(i).name) ELSE listing' = [listing EXCEPT !.selected = i]

\* A click's row counts from the first one shown: the header above is as high as two,
\* and below the last row there is room for part of another.
FilesEvent ==
    /\ client = "files"
    /\ \/ \E step \in {-1, 1} : listing' = ClampView([listing EXCEPT !.selected = @ + step])
       \/ /\ listing.selected \in 0..Len(listing.entries) - 1
          /\ EntryAt(listing.selected).dir
          /\ CdInto(EntryAt(listing.selected).name)
       \/ CdInto("..")
       \/ \E row \in -2..VISIBLE_ROWS :
             /\ row + listing.scroll \in 0..Len(listing.entries) - 1
             /\ Pick(row + listing.scroll)
    /\ UNCHANGED <<client, editor, settings, terminal>>

----------------------------------------------------------------------------
(* apps/settings.  conf is settings.conf, which can be written.            *)

Widgets == Toggles \cup Sliders
SettingsInit(value) == [value |-> value, conf |-> value, drag |-> "none", faulted |-> FALSE]
Defaults == [w \in Widgets |-> IF w \in Toggles THEN 1 ELSE CHOOSE v \in Levels : TRUE]

SaveConfig(s) == [s EXCEPT !.conf = s.value]

Flip(s, w) == SaveConfig([s EXCEPT !.value[w] = 1 - @])

\* The motion handler asks hit_widget for the track with x = 0, which lies left of
\* every widget: it gets no track, and divides by its width, zero.
SettingsEvent ==
    /\ client = "settings" /\ ~settings.faulted
    /\ \/ \E w \in Toggles : settings' = Flip(settings, w)
       \/ \E w \in Sliders, v \in Levels : settings' = [settings EXCEPT !.value[w] = v, !.drag = w]
       \/ settings.drag # "none" /\ settings' = [settings EXCEPT !.faulted = TRUE]
       \/ settings.drag # "none" /\ settings' = [SaveConfig(settings) EXCEPT !.drag = "none"]
    /\ UNCHANGED <<client, editor, listing, terminal>>

\* It is started again: after a fault, or after Escape or CLOSE, which save.
SettingsReopen ==
    /\ client = "settings"
    /\ settings' = SettingsInit(IF settings.faulted THEN settings.conf ELSE settings.value)
    /\ UNCHANGED <<client, editor, listing, terminal>>

----------------------------------------------------------------------------
(* apps/terminal: put_char.  paper is what a printer without an end of the *)
(* page would have made of the same bytes.                                 *)

EmptyRow == [c \in 0..COLS - 1 |-> " "]
BlankTerminal == [rows |-> [r \in 0..ROWS - 1 |-> EmptyRow], row |-> 0, col |-> 0,
               paper |-> <<EmptyRow>>, put |-> 0]

ScrollUp(s) == [s EXCEPT !.rows = [r \in 0..ROWS - 1 |-> IF r + 1 < ROWS THEN s.rows[r + 1] ELSE EmptyRow],
                         !.row = ROWS - 1]
Wrapped(s) == IF s.row >= ROWS THEN ScrollUp(s) ELSE s

PutChar(s, ch) ==
    CASE ch = "return" -> [s EXCEPT !.col = 0]
      [] ch = "newline" -> Wrapped([s EXCEPT !.col = 0, !.row = @ + 1])
      [] ch = "back" -> [s EXCEPT !.col = IF @ > 0 THEN @ - 1 ELSE @]
      [] ch = "tab" -> [s EXCEPT !.col = ((@ + TAB) \div TAB) * TAB]
      [] OTHER ->
            LET t == IF s.col < COLS THEN s ELSE Wrapped([s EXCEPT !.col = 0, !.row = @ + 1])
            IN  [t EXCEPT !.rows[t.row][t.col] = ch, !.col = @ + 1]

Printed(s, ch) ==
    LET full == s.col >= COLS
        last == Len(s.paper)
    IN  CASE ch = "newline" -> Append(s.paper, EmptyRow)
          [] ch \in {"return", "back", "tab"} -> s.paper
          [] OTHER -> IF full THEN Append(s.paper, [EmptyRow EXCEPT ![0] = ch])
                      ELSE [s.paper EXCEPT ![last][s.col] = ch]

DrainPty(ch) ==
    /\ client = "terminal"
    /\ terminal.put < MaxOutput
    /\ terminal' = [PutChar(terminal, ch) EXCEPT !.paper = Printed(terminal, ch), !.put = @ + 1]
    /\ UNCHANGED <<client, editor, listing, settings>>

----------------------------------------------------------------------------
LinuxInit ==
    /\ client \in Clients
    /\ \E content \in IF client = "textedit" THEN OnDisk ELSE {<<>>} : editor = EditorInit(content)
    /\ listing = LoadCwd(StartPath, TRUE)
    /\ settings = SettingsInit(Defaults)
    /\ terminal = BlankTerminal

LinuxNext ==
    \/ EditorEvent \/ EditorReopen
    \/ FilesEvent
    \/ SettingsEvent \/ SettingsReopen
    \/ \E ch \in {"a", "return", "newline", "back", "tab"} : DrainPty(ch)

LinuxSpec == LinuxInit /\ [][LinuxNext]_linuxVars

----------------------------------------------------------------------------
(* Properties.                                                             *)

\* The marker tells whether the text is on disk, unless a save has failed since;
\* and the caret is in view.
SavedUnlessDirty == editor.dirty \/ editor.torn \/ editor.file = editor.buf
CaretInView == CaretLine(editor) \in editor.scroll..editor.scroll + VISIBLE_LINES - 1

\* The rows are those of the directory in the header, and the selection is one.
RowsOfCwd == /\ listing.of = listing.cwd
             /\ listing.entries # <<>> => listing.selected \in 0..Len(listing.entries) - 1

\* Outside of a drag every value is in the file, whatever crash comes next.
ValuesSaved == settings.drag = "none" => settings.conf = settings.value

\* The screen is the end of the paper.
ScreenRight ==
    LET over == IF Len(terminal.paper) > ROWS THEN Len(terminal.paper) - ROWS ELSE 0
    IN  /\ terminal.row = Len(terminal.paper) - over - 1
        /\ \A r \in 0..ROWS - 1 :
              terminal.rows[r] = IF over + r + 1 <= Len(terminal.paper) THEN terminal.paper[over + r + 1] ELSE EmptyRow

\* What the applications show, and what they have written to files, agree: the
\* editor's marker, the rows of a directory, the settings after a crash, and the
\* last lines of a shell's output.
ClientsAgree == SavedUnlessDirty /\ CaretInView /\ RowsOfCwd /\ ValuesSaved /\ ScreenRight
=============================================================================
