-------------------------------- MODULE Apps --------------------------------
(***************************************************************************)
(* Applications of the kernel's desktop (kernel/apps): browser, editor,    *)
(* notes, terminal, calendar, stopwatch, files and store.  gui.c calls the *)
(* render function of the front window once per frame with at most one     *)
(* click and one key; a step here is such a frame, the tests of the render *)
(* function in their order.  The applications share no state with one      *)
(* another, so a behaviour follows one of them, the front one.             *)
(*                                                                         *)
(* A click is named by what lies under it.  Texts are sequences of the     *)
(* characters the code tells apart; drawing and wording are left out.      *)
(* Indices start from 1; 0 stands for the -1 of the code.                  *)
(***************************************************************************)
EXTENDS Integers, Sequences, FiniteSets

CONSTANTS
    AppNames,      \* the applications to follow
    Builtin,       \* the vyro:// addresses, HomeUrl one of them
    HomeUrl,
    Web,           \* addresses that are fetched
    MAX_TABS,
    TE_MAX, Welcome, Heights, \* the editor's buffer, its first text, lines a window can show
    MAX_NOTES, Seeded,       \* notes, and those that seed() makes
    TITLE_MAX, BODY_MAX,
    Untitled, SeededBody,    \* how long the title of a new note and a seeded body are
    MaxWord, HIST_SIZE,      \* the terminal: bound on what is typed, entries kept
    MaxEntered,              \* bound on the commands entered
    Years,                   \* the years the calendar is taken to
    MaxTime,                 \* bound on the stopwatch's clock
    Tree, FatRoot,           \* directories: names in list order; a name in DOMAIN Tree is one
    RootDir,
    Packages,                \* the store: for each search text the number of matches
    Cards                    \* and the cards that a window can show

\* The characters of a text that the code tells apart.
TextChars == {"letter", "space", "newline"}

\* gui.c makes no window lower than 160, so that a card of the store has room.
ASSUME AppsAssumption ==
    /\ HomeUrl \in Builtin
    /\ Welcome \in Seq(TextChars) /\ Heights \subseteq Int
    /\ MAX_NOTES \in Nat \ {0} /\ Seeded \in Nat /\ Untitled \in Nat /\ SeededBody \in Nat
    /\ HIST_SIZE \in Nat \ {0}
    /\ Years # {} /\ Years \subseteq Int /\ MaxTime \in Nat
    /\ "" \in DOMAIN Packages /\ \A s \in DOMAIN Packages : Packages[s] \in Nat
    /\ Cards \subseteq Nat \ {0}

VARIABLES front, browser, edit, notes, term, calendar, watch, fileView, shop

kernelAppVars == <<front, browser, edit, notes, term, calendar, watch, fileView, shop>>

ClickOn(kind) == [on |-> kind, item |-> 0]
ItemOf(kind, i) == [on |-> kind, item |-> i]
NoClick == ClickOn("none")

\* insertion and removal before position i
Without(s, i) == SubSeq(s, 1, i - 1) \o SubSeq(s, i + 1, Len(s))
With(s, i, x) == SubSeq(s, 1, i) \o <<x>> \o SubSeq(s, i + 1, Len(s))
Shorter(s) == SubSeq(s, 1, Len(s) - 1)

----------------------------------------------------------------------------
(* browser.c.  page is the address that page_buf was fetched for, or       *)
(* "none" while page_ready is 0; what was fetched, or the report of an     *)
(* error, belongs to that address.                                         *)

BrowserInit == [tabs |-> <<HomeUrl>>, cur |-> 1, url |-> HomeUrl, focus |-> FALSE, page |-> "none"]

\* navigate, with browser_fetch
Navigate(b, u) ==
    [b EXCEPT !.tabs[b.cur] = u, !.url = u, !.page = IF u \in Builtin THEN "none" ELSE u]

SwitchOnly(b, i) == [b EXCEPT !.cur = i, !.url = b.tabs[i]]     \* mutant: the page stays
SwitchTo(b, i) == Navigate([b EXCEPT !.cur = i], b.tabs[i])

\* The tab bar, the "+" button, Reload and the address bar.
BrowserClick(b, c) ==
    LET rest == Without(b.tabs, c.item)
        left == IF b.cur > Len(rest) THEN Len(rest) ELSE b.cur
        b1 == CASE c.on = "tab" /\ c.item <= Len(b.tabs) -> SwitchTo(b, c.item)
                [] c.on = "close" /\ c.item <= Len(b.tabs) /\ Len(b.tabs) > 1 ->
                      SwitchTo([b EXCEPT !.tabs = rest], left)
                [] c.on = "new" /\ Len(b.tabs) < MAX_TABS ->
                      Navigate([b EXCEPT !.tabs = Append(@, HomeUrl), !.cur = Len(b.tabs) + 1], HomeUrl)
                [] c.on = "reload" -> Navigate(b, b.url)
                [] OTHER -> b
    IN  IF c = NoClick THEN b1 ELSE [b1 EXCEPT !.focus = (c.on = "bar")]

\* Keys go to the address bar: Enter, or a change to any other text.
BrowserKey(b, key) ==
    CASE ~b.focus \/ key = "none" -> {b}
      [] b.focus /\ key = "enter" -> {[Navigate(b, b.url) EXCEPT !.focus = FALSE]}
      [] b.focus /\ key = "other" -> {[b EXCEPT !.url = u] : u \in Builtin \cup Web}

BrowserFrame(c, key) ==
    /\ front = "browser"
    /\ browser' \in BrowserKey(BrowserClick(browser, c), key)
    /\ UNCHANGED <<front, edit, notes, term, calendar, watch, fileView, shop>>

BrowserClicks ==
    {ClickOn(k) : k \in {"none", "new", "reload", "bar", "page"}}
      \cup {ItemOf(k, i) : k \in {"tab", "close"}, i \in 1..MAX_TABS}

----------------------------------------------------------------------------
(* textedit.c                                                              *)

\* te_recount: one pass over the text
TextCounts(text) ==
    LET upto[i \in 0..Len(text)] ==
            IF i = 0 THEN [lines |-> 1, words |-> 0, in |-> FALSE]
            ELSE CASE text[i] = "newline" -> [upto[i - 1] EXCEPT !.lines = @ + 1, !.in = FALSE]
                   [] text[i] = "space"   -> [upto[i - 1] EXCEPT !.in = FALSE]
                   [] OTHER -> [upto[i - 1] EXCEPT !.words = IF upto[i - 1].in THEN @ ELSE @ + 1, !.in = TRUE]
    IN  upto[Len(text)]
Recount(e) == [e EXCEPT !.lines = TextCounts(e.text).lines, !.words = TextCounts(e.text).words]

\* te_insert and te_delete, at the cursor.  The words are counted as they change.
Insert(e, ch) ==
    IF Len(e.text) >= TE_MAX - 1 THEN e
    ELSE Recount([e EXCEPT !.text = With(@, e.cursor, ch), !.cursor = @ + 1])
Delete(e) ==
    IF e.cursor = 0 THEN e
    ELSE Recount([e EXCEPT !.text = Without(@, e.cursor), !.cursor = @ - 1])

NewText == Recount([text |-> <<>>, cursor |-> 0, scroll |-> 0, lines |-> 1, words |-> 0,
                    drawn |-> [line |-> 1, visible |-> 1]])

CursorLine(e) == TextCounts(SubSeq(e.text, 1, e.cursor)).lines

\* The view follows the cursor; then the text is drawn, and then the key is read.
ScrollUpOnly(e, visible) ==                                     \* mutant
    IF CursorLine(e) - 1 < e.scroll THEN CursorLine(e) - 1 ELSE e.scroll
Scroll(e, visible) ==
    LET line == CursorLine(e)
        up   == IF line - 1 < e.scroll THEN line - 1 ELSE e.scroll
    IN  IF line - 1 >= up + visible THEN line - visible ELSE up

EditKey(e, key) ==
    CASE key = "back" -> Delete(e)
      [] key \in {"letter", "space", "newline"} -> Insert(e, key)
      [] key = "left" /\ e.cursor > 0 -> [e EXCEPT !.cursor = @ - 1]
      [] key = "right" /\ e.cursor < Len(e.text) -> [e EXCEPT !.cursor = @ + 1]
      [] OTHER -> e

EditFrame(c, key, visible) ==
    LET e == IF c = ClickOn("new") THEN NewText ELSE edit
    IN  /\ front = "textedit"
        /\ edit' = EditKey([e EXCEPT !.scroll = Scroll(e, visible),
                                     !.drawn = [line |-> CursorLine(e), visible |-> visible]], key)
        /\ UNCHANGED <<front, browser, notes, term, calendar, watch, fileView, shop>>

----------------------------------------------------------------------------
(* notes.c; a note's body and title are counted in characters              *)

BlankNote == [used |-> FALSE, title |-> 0, body |-> 0]
NewNoteOf(body) == [used |-> TRUE, title |-> Untitled, body |-> body]
NotesInit == [all |-> [i \in 1..MAX_NOTES |-> IF i <= Seeded THEN NewNoteOf(SeededBody) ELSE BlankNote],
              selected |-> 1, titling |-> FALSE]

FirstNote(S) == CHOOSE i \in S : \A j \in S : i <= j
Used(n) == {i \in 1..MAX_NOTES : n.all[i].used}

\* new_note
NewNote(n) ==
    IF Used(n) = 1..MAX_NOTES THEN n
    ELSE LET i == FirstNote(1..MAX_NOTES \ Used(n))
         IN  [all |-> [n.all EXCEPT ![i] = NewNoteOf(0)], selected |-> i, titling |-> FALSE]

DeleteNote(n) ==
    LET m == [n EXCEPT !.all[n.selected].used = FALSE, !.titling = FALSE]
    IN  IF Used(m) = {} THEN m ELSE [m EXCEPT !.selected = FirstNote(Used(m))]

NoteKey(n, key) ==
    LET s == n.selected
    IN  CASE n.titling /\ key = "back" /\ n.all[s].title > 0 -> [n EXCEPT !.all[s].title = @ - 1]
          [] n.titling /\ key = "newline" -> [n EXCEPT !.titling = FALSE]
          [] n.titling /\ key = "letter" /\ n.all[s].title < TITLE_MAX - 1 -> [n EXCEPT !.all[s].title = @ + 1]
          [] ~n.titling /\ key = "back" /\ n.all[s].body > 0 -> [n EXCEPT !.all[s].body = @ - 1]
          [] ~n.titling /\ key \in {"letter", "newline"} /\ n.all[s].body < BODY_MAX - 1 ->
                [n EXCEPT !.all[s].body = @ + 1]
          [] OTHER -> n

\* The frame ends early when nothing is selected, and after a deletion.
NotesFrame(c, key) ==
    LET n == CASE c.on = "new" -> NewNote(notes)
               [] c.on = "note" /\ c.item \in Used(notes) ->
                     [notes EXCEPT !.selected = c.item, !.titling = FALSE]
               [] OTHER -> notes
    IN  /\ front = "notes"
        /\ notes' = IF ~n.all[n.selected].used THEN n
                    ELSE IF c.on = "delete" THEN DeleteNote(n)
                    ELSE NoteKey([n EXCEPT !.titling = @ \/ c.on = "title"], key)
        /\ UNCHANGED <<front, browser, edit, term, calendar, watch, fileView, shop>>

NoteClicks == {ClickOn(k) : k \in {"none", "new", "delete", "title"}} \cup {ItemOf("note", i) : i \in 1..MAX_NOTES}

----------------------------------------------------------------------------
(* terminal.c: the line typed and its history; entered is all that was     *)
(* ever entered, and recalled what the arrows have brought back            *)

TermInit == [inp |-> <<>>, hist |-> <<>>, pos |-> 0, entered |-> <<>>]

\* run, as far as the history; an empty line is not run
Run(t) ==
    IF t.inp = <<>> THEN [t EXCEPT !.pos = 0]
    ELSE [inp |-> <<>>, pos |-> 0, entered |-> Append(t.entered, t.inp),
          hist |-> Append(IF Len(t.hist) < HIST_SIZE THEN t.hist ELSE Tail(t.hist), t.inp)]

RecallLine(t, pos) == [t EXCEPT !.pos = pos, !.inp = t.hist[Len(t.hist) + 1 - pos]]

TermFrame(key) ==
    /\ front = "terminal"
    /\ term' = CASE key = "enter" -> IF Len(term.entered) < MaxEntered THEN Run(term) ELSE term
                 [] key = "back"  -> [term EXCEPT !.inp = IF @ = <<>> THEN @ ELSE Shorter(@)]
                 [] key = "up"    -> IF term.pos < Len(term.hist) THEN RecallLine(term, term.pos + 1) ELSE term
                 [] key = "down"  -> IF term.pos > 1 THEN RecallLine(term, term.pos - 1)
                                     ELSE IF term.pos = 1 THEN [term EXCEPT !.pos = 0, !.inp = <<>>] ELSE term
                 [] key \in {"a", "b"} -> [term EXCEPT !.inp = IF Len(@) < MaxWord THEN Append(@, key) ELSE @]
    /\ UNCHANGED <<front, browser, edit, notes, calendar, watch, fileView, shop>>

----------------------------------------------------------------------------
(* calendar.c and the stopwatch of clock.c                                 *)

Leap(y) == (y % 4 = 0 /\ y % 100 # 0) \/ y % 400 = 0
DaysInMonth(m, y) ==
    IF m = 2 /\ Leap(y) THEN 29
    ELSE <<31, 28, 31, 30, 31, 30, 31, 31, 30, 31, 30, 31>>[m]

DowOf(y, m, d) ==
    LET mm == IF m < 3 THEN m + 12 ELSE m
        yy == IF m < 3 THEN y - 1 ELSE y
        k  == yy % 100
        j  == yy \div 100
        h  == (d + (13 * (mm + 1)) \div 5 + k + k \div 4 + j \div 4 + 5 * j) % 7
    IN  (h + 6) % 7

Months == {[m |-> m, y |-> y] : m \in 1..12, y \in Years}
After(v)  == IF v.m = 12 THEN [m |-> 1, y |-> v.y + 1] ELSE [v EXCEPT !.m = @ + 1]
MonthBefore(v) == IF v.m = 1 THEN [m |-> 12, y |-> v.y - 1] ELSE [v EXCEPT !.m = @ - 1]

\* today is what rtc_read says in this frame
CalendarFrame(c, today) ==
    LET moved == CASE c.on = "prev"  -> [view |-> MonthBefore(calendar.view), sel |-> 0]
                   [] c.on = "next"  -> [view |-> After(calendar.view), sel |-> 0]
                   [] c.on = "today" -> [view |-> today.month, sel |-> today.day]
                   [] OTHER -> calendar
    IN  /\ front = "calendar"
        /\ moved.view \in Months
        /\ calendar' = IF c.on = "day" /\ c.item <= DaysInMonth(moved.view.m, moved.view.y)
                       THEN [moved EXCEPT !.sel = c.item] ELSE moved
        /\ UNCHANGED <<front, browser, edit, notes, term, watch, fileView, shop>>

Dates == {t \in [month : Months, day : {1, 28, 29, 31}] : t.day <= DaysInMonth(t.month.m, t.month.y)}
CalendarClicks == {ClickOn(k) : k \in {"prev", "next", "today"}} \cup {ItemOf("day", i) : i \in {1, 28, 29, 30, 31}}

\* ran is the time for which the stopwatch has run since the last reset
WatchFrame(c, now) ==
    LET w == IF watch.running THEN [watch EXCEPT !.ran = @ + now - watch.now] ELSE watch
    IN  /\ front = "clock"
        /\ now \in watch.now..MaxTime
        /\ watch' = [CASE c.on = "toggle" /\ w.running ->
                             [w EXCEPT !.elapsed = @ + now - w.start, !.running = FALSE]
                       [] c.on = "toggle" /\ ~w.running -> [w EXCEPT !.start = now, !.running = TRUE]
                       [] c.on = "reset" -> [w EXCEPT !.running = FALSE, !.elapsed = 0, !.start = 0, !.ran = 0]
                       [] OTHER -> w
                     EXCEPT !.now = now]
        /\ UNCHANGED <<front, browser, edit, notes, term, calendar, fileView, shop>>

----------------------------------------------------------------------------
(* files.c (the tree is that of VFS and does not change in a frame) and    *)
(* pkgstore.c                                                              *)

FilesInit == [cwd |-> RootDir, fat |-> FALSE, selected |-> 0, chosen |-> "none"]

Listed(f) == IF f.fat THEN FatRoot ELSE Tree[f.cwd]
Unselect(f) == [f EXCEPT !.selected = 0, !.chosen = "none"]
ParentOf(d) == IF d = RootDir THEN d ELSE CHOOSE p \in DOMAIN Tree : \E i \in DOMAIN Tree[p] : Tree[p][i] = d

FilesFrame(c) ==
    LET name == Listed(fileView)[c.item]
    IN  /\ front = "files"
        /\ c.on = "row" => c.item \in DOMAIN Listed(fileView)
        /\ fileView' = CASE c.on = "home" -> Unselect([fileView EXCEPT !.fat = FALSE, !.cwd = RootDir])
                      [] c.on = "fat"  -> Unselect([fileView EXCEPT !.fat = TRUE])
                      [] c.on = "up"   -> IF fileView.fat THEN fileView ELSE Unselect([fileView EXCEPT !.cwd = ParentOf(@)])
                      [] c.on = "row"  -> IF ~fileView.fat /\ name \in DOMAIN Tree
                                          THEN Unselect([fileView EXCEPT !.cwd = name])
                                          ELSE [fileView EXCEPT !.selected = c.item, !.chosen = name]
                      [] OTHER -> fileView
        /\ UNCHANGED <<front, browser, edit, notes, term, calendar, watch, shop>>

FilesClicks == {ClickOn(k) : k \in {"home", "fat", "up"}} \cup {ItemOf("row", i) : i \in 1..3}

Searches == DOMAIN Packages
StoreInit == [search |-> "", focus |-> FALSE, scroll |-> 0]

\* A search starts at the top; then the scroll buttons, which are there for more than 4.
StoreFrame(c, key, cards) ==
    LET s1 == IF c.on = "none" THEN shop ELSE [shop EXCEPT !.focus = (c.on = "search")]
        s2 == IF c.on = "category" THEN [s1 EXCEPT !.scroll = 0] ELSE s1
    IN  /\ front = "store"
        /\ \E text \in IF s2.focus /\ key THEN Searches ELSE {s2.search} :
              LET s3 == [s2 EXCEPT !.search = text, !.scroll = IF s2.focus /\ key THEN 0 ELSE @]
                  most == Packages[text] - cards
              IN  shop' = IF Packages[text] <= 4 THEN s3
                           ELSE IF c.on = "up" /\ s3.scroll > 0 THEN [s3 EXCEPT !.scroll = @ - 1]
                           ELSE IF c.on = "down" /\ s3.scroll < most THEN [s3 EXCEPT !.scroll = @ + 1]
                           ELSE s3
        /\ UNCHANGED <<front, browser, edit, notes, term, calendar, watch, fileView>>

----------------------------------------------------------------------------
AppsInit ==
    /\ front \in AppNames
    /\ browser = BrowserInit
    /\ edit = Recount([NewText EXCEPT !.text = Welcome, !.cursor = Len(Welcome)])
    /\ notes = NotesInit
    /\ term = TermInit
    /\ \E today \in IF front = "calendar" THEN Dates ELSE {CHOOSE t \in Dates : TRUE} :
          calendar = [view |-> today.month, sel |-> today.day]
    /\ watch = [running |-> FALSE, start |-> 0, elapsed |-> 0, now |-> 0, ran |-> 0]
    /\ fileView = FilesInit
    /\ shop = StoreInit

AppsNext ==
    \/ \E c \in BrowserClicks, key \in {"none", "enter", "other"} : BrowserFrame(c, key)
    \/ \E c \in {NoClick, ClickOn("new")}, visible \in Heights,
          key \in {"none", "back", "letter", "space", "newline", "left", "right"} : EditFrame(c, key, visible)
    \/ \E c \in NoteClicks, key \in {"none", "back", "letter", "newline"} : NotesFrame(c, key)
    \/ \E key \in {"enter", "back", "up", "down", "a", "b"} : TermFrame(key)
    \/ \E c \in CalendarClicks, today \in Dates : CalendarFrame(c, today)
    \/ \E c \in {NoClick, ClickOn("toggle"), ClickOn("reset")}, now \in 0..MaxTime : WatchFrame(c, now)
    \/ \E c \in FilesClicks : FilesFrame(c)
    \/ \E c \in {ClickOn(k) : k \in {"none", "search", "category", "up", "down"}}, key \in BOOLEAN,
          cards \in Cards : StoreFrame(c, key, cards)

AppsSpec == AppsInit /\ [][AppsNext]_kernelAppVars

----------------------------------------------------------------------------
(* Properties.                                                             *)

\* The page that is drawn is that of the current tab, whichever tabs were opened,
\* closed or fetched since: there is one page_buf for all of them.
PageShown ==
    LET u == browser.tabs[browser.cur]
    IN  /\ browser.cur \in DOMAIN browser.tabs
        /\ browser.page = IF u \in Builtin THEN "none" ELSE u

\* The counts are those of the text, and the cursor's line was in view when drawn.
WordStarts(text) == {i \in DOMAIN text : text[i] = "letter" /\ (i = 1 \/ text[i - 1] # "letter")}
Recounted == /\ edit.lines = 1 + Cardinality({i \in DOMAIN edit.text : edit.text[i] = "newline"})
             /\ edit.words = Cardinality(WordStarts(edit.text))
CursorShown ==
    edit.drawn.visible > 0 => edit.drawn.line - 1 \in edit.scroll..edit.scroll + edit.drawn.visible - 1

\* A note stays selected while there is one; the history is the last entries.
NoteSelected == Used(notes) # {} => notes.selected \in Used(notes)
LastOnes(s, n) == SubSeq(s, IF Len(s) > n THEN Len(s) - n + 1 ELSE 1, Len(s))
HistoryKept == term.hist = LastOnes(term.entered, HIST_SIZE) /\ term.pos <= Len(term.hist)

\* The grid continues from one month to the next, and the day selected exists.
MonthRight ==
    LET v == calendar.view
    IN  /\ calendar.sel <= DaysInMonth(v.m, v.y)
        /\ (DowOf(v.y, v.m, 1) + DaysInMonth(v.m, v.y)) % 7 = DowOf(After(v).y, After(v).m, 1)

StopwatchExact == watch.elapsed + (IF watch.running THEN watch.now - watch.start ELSE 0) = watch.ran

\* The row marked is the file that was clicked; the store shows what it found.
RowMarked == fileView.selected # 0 => Listed(fileView)[fileView.selected] = fileView.chosen
FindsShown == Packages[shop.search] > 0 => shop.scroll < Packages[shop.search]

\* What an application shows is what it was given, after any sequence of clicks
\* and keys: the page of the current tab, counts and view of the editor, the selected note, the history that
\* the terminal's arrows walk, months and their days, the stopwatch, the marked
\* file and the packages found.
AppsShown ==
    /\ PageShown
    /\ Recounted /\ CursorShown
    /\ NoteSelected /\ HistoryKept
    /\ MonthRight /\ StopwatchExact
    /\ RowMarked /\ FindsShown
=============================================================================
