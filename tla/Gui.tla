-------------------------------- MODULE Gui --------------------------------
(***************************************************************************)
(* The windows of the kernel's desktop: the loop of gui_run (kernel/gui.c, *)
(* ctxmenu.c, app.c), one frame after the other, its parts in the order of *)
(* the code.                                                               *)
(*                                                                         *)
(* The last window of wins is the front one.  Geometry is reduced to what  *)
(* lies under the pointer: a place, the set of applications whose windows  *)
(* reach there, which may be any, and the dock item that was under it when *)
(* the last frame was drawn (hovered_dock), which may be any too.  A key   *)
(* is named by the application that was in front when it was typed.  Left  *)
(* out: drawing, theme, notifications, restart and shutdown, the password  *)
(* itself, and the Launchpad, which no code opens.  Indices start from 1.  *)
(***************************************************************************)
EXTENDS Integers, Sequences

CONSTANTS
    Dock,        \* dock_app_names
    Boot,        \* the application that gui_run opens
    MAX_WINS,
    Desktops,    \* NUM_DESKTOPS of them
    Home,        \* current_desktop at first
    Panels       \* "power", "quick" and "bell", those of the last two that a run takes

ASSUME GuiAssumption == MAX_WINS \in Nat \ {0} /\ Home \in Desktops

VARIABLES
    wins,        \* wins[0..win_count-1]
    desk,        \* current_desktop
    menu,        \* the context menu while visible: its live items, ctx_window_idx,
                 \* ctx_dock_idx, and the application the menu was opened on
    popup,       \* which of the power menu, quick settings and notifications is open
    locked,
    grab,        \* dragging and resizing, and the application that was grabbed
    left,        \* prev_btn: the left button
    frame        \* the frame at work: its next part, and what it has read

guiVars == <<wins, desk, menu, popup, locked, grab, left, frame>>

Nobody  == "nobody"
NoGrab  == [idx |-> 0, kind |-> "none", app |-> Nobody]
NoMenu  == [items |-> {}, win |-> 0, dock |-> Nobody, app |-> Nobody]

WindowParts   == {"close", "minimize", "grip", "title", "body"}

DesktopItems == {"show desktop", "open settings", "other"}
WindowItems  == {"min", "shut"} \cup Desktops
PowerItems   == {"sleep", "lock", "log out"}

\* What the pointer is on: chosen when a button first asks.
Unseen == [place |-> "unseen", dock |-> Nobody, cover |-> {}]
FrameStart  == [pc |-> "keys", lpress |-> FALSE, rpress |-> FALSE, rel |-> FALSE, at |-> Unseen]

----------------------------------------------------------------------------
(* The window list.                                                        *)

Top == Len(wins)
Shown(i) == wins[i].visible /\ ~wins[i].minimized /\ wins[i].desktop = desk

\* bring_to_front
ToFront(ws, i) == SubSeq(ws, 1, i - 1) \o SubSeq(ws, i + 1, Len(ws)) \o <<ws[i]>>

\* find_app_window: hidden and minimized windows are found too; 0 for none.
Find(app) ==
    LET found == {i \in DOMAIN wins : wins[i].app = app}
    IN  IF found = {} THEN 0 ELSE CHOOSE i \in found : \A j \in found : i <= j

\* open_app: the window of the application comes to the front; a new one takes
\* the place of the front window when all MAX_WINS are in use.
NewWindow(app) == [app |-> app, visible |-> TRUE, minimized |-> FALSE, desktop |-> desk, last_key |-> Nobody]
OpenApp(app) ==
    LET i == Find(app)
        kept == SubSeq(wins, 1, IF Top >= MAX_WINS THEN MAX_WINS - 1 ELSE Top)
    IN  IF i # 0
        THEN ToFront([wins EXCEPT ![i].visible = TRUE, ![i].minimized = FALSE, ![i].desktop = desk], i)
        ELSE Append(kept, NewWindow(app))

\* The topmost window under the pointer; 0 for none.
Hit(cover) ==
    LET under == {i \in DOMAIN wins : Shown(i) /\ wins[i].app \in cover}
    IN  IF under = {} THEN 0 ELSE CHOOSE i \in under : \A j \in under : i >= j

----------------------------------------------------------------------------
GuiInit ==
    /\ desk = Home
    /\ wins = <<NewWindow(Boot)>>
    /\ menu = NoMenu /\ popup = "none" /\ locked = FALSE
    /\ grab = NoGrab /\ left = FALSE
    /\ frame = FrameStart

(* A key, at most one in a frame.                                          *)

\* lockscreen_handle_key: Enter, with a password that is right or empty.
Unlock ==
    /\ frame.pc = "keys" /\ locked
    /\ locked' = FALSE
    /\ frame' = [frame EXCEPT !.pc = "mouse"]
    /\ UNCHANGED <<wins, desk, menu, popup, grab, left>>

DesktopKey(d) ==
    /\ frame.pc = "keys" /\ ~locked
    /\ desk' = d
    /\ frame' = [frame EXCEPT !.pc = "mouse"]
    /\ UNCHANGED <<wins, menu, popup, locked, grab, left>>

AppKey ==
    /\ frame.pc = "keys" /\ ~locked /\ wins # <<>>
    /\ wins' = [wins EXCEPT ![Top].last_key = wins[Top].app]
    /\ frame' = [frame EXCEPT !.pc = "mouse"]
    /\ UNCHANGED <<desk, menu, popup, locked, grab, left>>

\* Escape ends gui_run; the shell starts it again, and its statics are still there.
Escape ==
    /\ frame.pc = "keys" /\ ~locked
    /\ wins' = <<NewWindow(Boot)>>
    /\ menu' = NoMenu /\ grab' = NoGrab /\ left' = FALSE
    /\ UNCHANGED <<desk, popup, locked, frame>>

----------------------------------------------------------------------------
(* The mouse.                                                              *)

\* Where a frame goes on: the parts that have nothing to do are passed over.
Order == <<"menu", "popup", "press", "context", "end">>
GoOn(f, from) ==
    LET busy(pc) == CASE pc = "menu"    -> f.lpress /\ menu # NoMenu
                      [] pc = "popup"   -> f.lpress /\ popup # "none"
                      [] pc = "press"   -> f.lpress
                      [] pc = "context" -> f.rpress
                      [] pc = "end"     -> TRUE
        next == CHOOSE i \in from..5 : busy(Order[i]) /\ \A j \in from..i - 1 : ~busy(Order[j])
    IN  frame' = [f EXCEPT !.pc = Order[next]]

Mouse(down, rpress) ==
    LET lpress == down /\ ~left
    IN  /\ frame.pc \in {"keys", "mouse"}
        /\ left' = down
        /\ \/ /\ locked
              /\ frame' = FrameStart
           \/ /\ ~locked
              /\ GoOn([FrameStart EXCEPT !.lpress = lpress, !.rpress = rpress, !.rel = ~down /\ left], 1)
        /\ UNCHANGED <<wins, desk, menu, popup, locked, grab>>

\* dispatch_action, for the items of the context menu.
MenuItem(item) ==
    LET w == menu.win
    IN  CASE item = "show desktop"  -> wins' = [i \in DOMAIN wins |-> [wins[i] EXCEPT !.minimized = TRUE]]
          [] item = "open settings" -> wins' = OpenApp("Settings")
          [] item = "open"          -> wins' = IF menu.dock = Nobody THEN wins ELSE OpenApp(menu.dock)
          [] item = "quit"          ->      \* with ctx_dock_idx = -1, whatever lies before the names
                \E i \in IF menu.dock = Nobody THEN 0..Top ELSE {Find(menu.dock)} :
                    wins' = IF i = 0 THEN wins ELSE [wins EXCEPT ![i].visible = FALSE]
          [] item \in WindowItems /\ w # 0 ->
                wins' = IF item = "min" THEN [wins EXCEPT ![w].minimized = TRUE]
                        ELSE IF item = "shut" THEN [wins EXCEPT ![w].visible = FALSE]
                        ELSE [wins EXCEPT ![w].desktop = item]
          [] OTHER                  -> UNCHANGED wins

\* ctxmenu_handle_click: an item, a separator or greyed item, or outside.
MenuClick ==
    /\ frame.pc = "menu"
    /\ \/ \E item \in menu.items : MenuItem(item) /\ menu' = NoMenu
       \/ UNCHANGED <<wins, menu>>
       \/ menu' = NoMenu /\ UNCHANGED wins
    /\ GoOn([frame EXCEPT !.lpress = FALSE], 2)
    /\ UNCHANGED <<desk, popup, locked, grab, left>>

\* A click while a panel is open: on an item of the power menu, through the other
\* panels to what is below, or beside it, which closes it.
Popup ==
    /\ frame.pc = "popup"
    /\ \/ /\ popup = "power"
          /\ \E item \in PowerItems : locked' = (item # "sleep")
          /\ popup' = "none"
          /\ GoOn([frame EXCEPT !.lpress = FALSE], 3)
       \/ /\ popup # "power"
          /\ GoOn(frame, 3)
          /\ UNCHANGED <<popup, locked>>
       \/ /\ popup' = "none"
          /\ GoOn(frame, 3)
          /\ UNCHANGED locked
    /\ UNCHANGED <<wins, desk, menu, grab, left>>

\* Windows do not reach the bars at the top: open_app, maximize_window and dragging
\* keep them below.
Spots ==
    IF frame.at # Unseen THEN {frame.at}
    ELSE [place : Panels \cup {"topbar", "taskbar"}, dock : Dock \cup {Nobody}, cover : {{}}]
           \cup [place : {"field"}, dock : Dock, cover : {{}}]
           \cup [place : {"field"}, dock : {Nobody}, cover : SUBSET {wins[i].app : i \in {j \in DOMAIN wins : Shown(j)}}]

\* The spot is needed again for the right button, and for the task bar in render.
Pressed(spot) ==
    GoOn([frame EXCEPT !.at = IF frame.rpress THEN spot
                              ELSE IF spot.place = "taskbar" THEN [Unseen EXCEPT !.place = "taskbar"] ELSE Unseen], 4)

\* The left button: the buttons of the top bar, the dock, or the topmost window.
PressBar(spot) ==
    /\ frame.pc = "press" /\ spot.place \in Panels
    /\ popup' = IF popup = spot.place THEN "none" ELSE spot.place
    /\ Pressed(spot)
    /\ UNCHANGED <<wins, desk, menu, locked, grab, left>>

PressDock(spot) ==
    /\ frame.pc = "press" /\ spot.place \in {"topbar", "field"} /\ spot.dock # Nobody
    /\ wins' = OpenApp(spot.dock)
    /\ Pressed(spot)
    /\ UNCHANGED <<desk, menu, popup, locked, grab, left>>

PressWindow(spot, part) ==
    LET i == Hit(spot.cover)
        Grab(kind) == /\ wins' = ToFront(wins, i)
                      /\ grab' = [idx |-> Top, kind |-> kind, app |-> wins[i].app]
    IN  /\ frame.pc = "press" /\ spot.place = "field" /\ spot.dock = Nobody /\ i # 0
        /\ \/ part = "close"    /\ wins' = [wins EXCEPT ![i].visible = FALSE] /\ UNCHANGED grab
           \/ part = "minimize" /\ wins' = [wins EXCEPT ![i].minimized = TRUE] /\ UNCHANGED grab
           \/ part = "grip"     /\ Grab("resize")
           \/ part = "title"    /\ Grab("drag")
           \/ part = "body"     /\ wins' = ToFront(wins, i) /\ UNCHANGED grab
        /\ Pressed(spot)
        /\ UNCHANGED <<desk, menu, popup, locked, left>>

PressNothing(spot) ==
    /\ frame.pc = "press"
    /\ \/ spot.place = "taskbar"
       \/ spot.place \in {"topbar", "field"} /\ spot.dock = Nobody /\ Hit(spot.cover) = 0
    /\ Pressed(spot)
    /\ UNCHANGED <<wins, desk, menu, popup, locked, grab, left>>

\* The right button: the menu of the dock item, of the topmost window or of the
\* desktop; on the bars a menu that is open stays and loses its target.
Context(spot) ==
    LET i == Hit(spot.cover)
        quit == Find(spot.dock) # 0 /\ wins[Find(spot.dock)].visible
    IN  /\ frame.pc = "context"
        /\ menu' = IF spot.dock # Nobody
                   THEN [NoMenu EXCEPT !.dock = spot.dock, !.items = {"open"} \cup (IF quit THEN {"quit"} ELSE {})]
                   ELSE IF i # 0 THEN [items |-> WindowItems, win |-> i, dock |-> Nobody, app |-> wins[i].app]
                   ELSE [NoMenu EXCEPT !.items = IF spot.place = "field" THEN DesktopItems ELSE menu.items]
        /\ frame' = [frame EXCEPT !.pc = "end", !.rpress = FALSE,
                                  !.at = IF spot.place = "taskbar" THEN [Unseen EXCEPT !.place = "taskbar"] ELSE Unseen]
        /\ UNCHANGED <<wins, desk, popup, locked, grab, left>>

\* draw_window gives the front window its key, and what is drawn has no key left,
\* but for a window that is still opening.
Drawn(young) ==
    [i \in DOMAIN wins |-> IF Shown(i) /\ wins[i].app \notin young
                           THEN [wins[i] EXCEPT !.last_key = Nobody] ELSE wins[i]]

\* draw_taskbar: a click on the button of window i, which may be hidden.
Taskbar(ws, i) ==
    IF ~ws[i].minimized /\ i = Len(ws) THEN [ws EXCEPT ![i].minimized = TRUE]
    ELSE ToFront([ws EXCEPT ![i].minimized = FALSE, ![i].visible = TRUE], i)

\* The release of the button ends a drag.
HeldOn(f) == grab                                \* mutant: it goes on
Held(f) == IF f.rel THEN NoGrab ELSE grab

\* The end of a frame: the release of the button, and render.
Render ==
    /\ frame.pc = "end"
    /\ grab' = Held(frame)
    /\ \/ locked /\ UNCHANGED wins
       \/ /\ ~locked
          /\ \E young \in SUBSET {wins[i].app : i \in {j \in DOMAIN wins : wins[j].last_key # Nobody}} :
                \/ wins' = Drawn(young)
                \/ /\ frame.lpress /\ frame.at.place = "taskbar"
                   /\ \E i \in DOMAIN wins : wins[i].desktop = desk /\ wins' = Taskbar(Drawn(young), i)
    /\ frame' = FrameStart
    /\ UNCHANGED <<desk, menu, popup, locked, left>>

GuiNext ==
    \/ Unlock \/ AppKey \/ Escape
    \/ \E d \in Desktops : DesktopKey(d)
    \/ \E down, rpress \in BOOLEAN : Mouse(down, rpress)
    \/ MenuClick \/ Popup \/ Render
    \/ \E spot \in Spots :
          \/ PressBar(spot) \/ PressDock(spot) \/ PressNothing(spot) \/ Context(spot)
          \/ \E part \in WindowParts : PressWindow(spot, part)

GuiSpec == GuiInit /\ [][GuiNext]_guiVars

----------------------------------------------------------------------------
(* Properties.                                                             *)

OnePerApp == \A i, j \in DOMAIN wins : wins[i].app = wins[j].app => i = j
KeysForTheirApp == \A i \in DOMAIN wins : wins[i].last_key \in {Nobody, wins[i].app}
GrabHeld == grab # NoGrab => grab.idx \in DOMAIN wins /\ wins[grab.idx].app = grab.app
MenuHeld == menu.win # 0 => menu.win \in DOMAIN wins /\ wins[menu.win].app = menu.app

\* What the desktop keeps over frames still means what it was taken for, while
\* windows come to the front, close and are replaced: the window indices of a
\* drag, a resize and the context menu name the window that was under the
\* pointer, and a key waits only for the application it was typed to.
WindowsHeld == OnePerApp /\ KeysForTheirApp /\ GrabHeld /\ MenuHeld
=============================================================================
