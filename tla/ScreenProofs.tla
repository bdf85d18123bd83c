----------------------------- MODULE ScreenProofs -----------------------------
(***************************************************************************)
(* The windows of the kernel's desktop keep their meaning over the frames  *)
(* of gui_run, for any number of applications, windows and desktops; and   *)
(* the applications of Path B agree with their files and buffers, and the  *)
(* shell shows the line it runs, for buffers, views and screens of any     *)
(* size.                                                                   *)
(***************************************************************************)
EXTENDS Gui, LinuxApps, Console, SequenceTheorems, WellFoundedInduction, TLAPS

USE GuiAssumption

Name == Dock \cup {Boot, "Settings"}
Win ==
    [app : Name, visible : BOOLEAN, minimized : BOOLEAN, desktop : Desktops, last_key : Name \cup {Nobody}]
Spot ==
    [place : Panels \cup {"topbar", "taskbar", "field", "unseen"}, dock : Dock \cup {Nobody}, cover : SUBSET Name]
FrameParts == {"keys", "mouse", "menu", "popup", "press", "context", "end"}
Frame == [pc : FrameParts, lpress : BOOLEAN, rpress : BOOLEAN, rel : BOOLEAN, at : Spot]

GuiTypeOK ==
    /\ wins \in Seq(Win)
    /\ desk \in Desktops
    /\ DOMAIN menu = {"items", "win", "dock", "app"}
    /\ menu.win \in Nat /\ menu.dock \in Dock \cup {Nobody}
    /\ locked \in BOOLEAN /\ left \in BOOLEAN
    /\ grab \in [idx : Nat, kind : {"none", "drag", "resize"}, app : Name \cup {Nobody}]
    /\ frame \in Frame

\* What a frame knows of the buttons: a press is handled while the button is down.
Buttons ==
    /\ frame.pc \in {"keys", "mouse"} => ~frame.lpress /\ ~frame.rel
    /\ frame.pc \in {"menu", "popup", "press"} => frame.lpress
    /\ frame.lpress => left /\ ~frame.rel /\ ~locked

SpotRight(spot) == spot.cover # {} => spot.place = "field"

\* While an index into wins is kept, no part of a frame that moves windows can run:
\* the button is down, or the press that closes the menu comes first.
Kept ==
    /\ SpotRight(frame.at)
    /\ grab # NoGrab => ~locked /\ (left \/ frame.rel)
    /\ grab # NoGrab /\ frame.lpress =>
          \/ frame.pc = "context" /\ frame.at.place = "field"
          \/ frame.pc = "end" /\ frame.at.place # "taskbar"
    /\ menu.win # 0 /\ frame.lpress =>
          \/ frame.pc = "menu"
          \/ frame.pc = "end" /\ frame.at.place # "taskbar"

GuiInv == GuiTypeOK /\ Buttons /\ Kept /\ WindowsHeld

----------------------------------------------------------------------------
(* The list of windows.                                                    *)

Named(ws) ==
    /\ \A i, j \in 1..Len(ws) : ws[i].app = ws[j].app => i = j
    /\ \A i \in 1..Len(ws) : ws[i].last_key \in {Nobody, ws[i].app}

\* vs has the windows of ws at the same places, and no key that ws has not for its own app.
Alike(ws, vs) ==
    /\ vs \in Seq(Win) /\ Len(vs) = Len(ws)
    /\ \A i \in 1..Len(ws) : vs[i].app = ws[i].app /\ vs[i].last_key \in {Nobody, ws[i].last_key, ws[i].app}

LEMMA HeldParts ==
    ASSUME wins \in Seq(Win)
    PROVE  /\ WindowsHeld <=> Named(wins) /\ GrabHeld /\ MenuHeld
           /\ DOMAIN wins = 1..Len(wins) /\ Len(wins) \in Nat
BY DEF WindowsHeld, Named, OnePerApp, KeysForTheirApp

LEMMA AlikeNamed ==
    ASSUME NEW ws \in Seq(Win), NEW vs, Named(ws), Alike(ws, vs)
    PROVE  Named(vs)
BY DEF Named, Alike

LEMMA Changed ==
    ASSUME NEW ws \in Seq(Win), NEW i \in 1..Len(ws), NEW r \in Win,
           r.app = ws[i].app, r.last_key \in {Nobody, ws[i].last_key, ws[i].app}
    PROVE  Alike(ws, [ws EXCEPT ![i] = r])
<1>1. [ws EXCEPT ![i] = r] \in Seq(Win) /\ Len([ws EXCEPT ![i] = r]) = Len(ws)
  BY ExceptSeq
<1>2. \A j \in 1..Len(ws) : [ws EXCEPT ![i] = r][j] = IF j = i THEN r ELSE ws[j]
  OBVIOUS
<1> QED BY <1>1, <1>2 DEF Alike

LEMMA Chained ==
    ASSUME NEW s \in Seq(Win), NEW t \in Seq(Win)
    PROVE  /\ s \o t \in Seq(Win) /\ Len(s \o t) = Len(s) + Len(t)
           /\ \A j \in 1..Len(s) + Len(t) : (s \o t)[j] = IF j <= Len(s) THEN s[j] ELSE t[j - Len(s)]
BY ConcatProperties

LEMMA InFront ==
    ASSUME NEW ws \in Seq(Win), NEW i \in 1..Len(ws)
    PROVE  /\ ToFront(ws, i) \in Seq(Win) /\ Len(ToFront(ws, i)) = Len(ws)
           /\ ToFront(ws, i)[Len(ws)] = ws[i]
           /\ \A j \in 1..Len(ws) : ToFront(ws, i)[j] = ws[IF j < i THEN j ELSE IF j < Len(ws) THEN j + 1 ELSE i]
<1> DEFINE a == SubSeq(ws, 1, i - 1)
           b == SubSeq(ws, i + 1, Len(ws))
           c == <<ws[i]>>
<1>1. Len(ws) \in Nat /\ i \in Nat /\ i >= 1 /\ i <= Len(ws) /\ ws[i] \in Win
  OBVIOUS
<1>2. /\ a \in Seq(Win) /\ Len(a) = i - 1
      /\ \A j \in 1..i - 1 : a[j] = ws[j]
  BY <1>1
<1>3. /\ b \in Seq(Win) /\ Len(b) = Len(ws) - i
      /\ \A j \in 1..Len(ws) - i : b[j] = ws[i + j]
  BY <1>1
<1>4. c \in Seq(Win) /\ Len(c) = 1 /\ c[1] = ws[i]
  BY <1>1
<1> HIDE DEF a, b, c
<1>5. /\ a \o b \in Seq(Win) /\ Len(a \o b) = Len(ws) - 1
      /\ \A j \in 1..Len(ws) - 1 : (a \o b)[j] = IF j < i THEN ws[j] ELSE ws[j + 1]
  <2>1. a \o b \in Seq(Win) /\ Len(a \o b) = Len(a) + Len(b)
    BY <1>2, <1>3, Chained
  <2>2. \A j \in 1..Len(a) + Len(b) : (a \o b)[j] = IF j <= Len(a) THEN a[j] ELSE b[j - Len(a)]
    BY <1>2, <1>3, Chained
  <2>3. ASSUME NEW j \in 1..Len(ws) - 1 PROVE (a \o b)[j] = IF j < i THEN ws[j] ELSE ws[j + 1]
    <3>1. CASE j < i
      <4>1. j \in 1..i - 1 /\ j <= Len(a) /\ j \in 1..Len(a) + Len(b)
        BY <1>1, <1>2, <1>3, <3>1
      <4> QED BY <1>2, <2>2, <3>1, <4>1
    <3>2. CASE ~(j < i)
      <4>1. ~(j <= Len(a)) /\ j \in 1..Len(a) + Len(b) /\ j - Len(a) \in 1..Len(ws) - i /\ i + (j - Len(a)) = j + 1
        BY <1>1, <1>2, <1>3, <3>2
      <4>2. b[j - Len(a)] = ws[j + 1]
        BY <1>3, <4>1
      <4> QED BY <2>2, <3>2, <4>1, <4>2
    <3> QED BY <3>1, <3>2
  <2>4. Len(a \o b) = Len(ws) - 1
    BY <1>1, <1>2, <1>3, <2>1
  <2> QED BY <2>1, <2>3, <2>4
<1> DEFINE d == a \o b
<1>6. d \in Seq(Win) /\ Len(d) = Len(ws) - 1
  BY <1>5
<1> HIDE DEF d
<1>7. /\ d \o c \in Seq(Win) /\ Len(d \o c) = Len(ws)
      /\ \A j \in 1..Len(ws) : (d \o c)[j] = IF j < Len(ws) THEN d[j] ELSE c[1]
  <2>1. d \o c \in Seq(Win) /\ Len(d \o c) = Len(d) + Len(c)
    BY <1>4, <1>6, Chained
  <2>2. \A j \in 1..Len(d) + Len(c) : (d \o c)[j] = IF j <= Len(d) THEN d[j] ELSE c[j - Len(d)]
    BY <1>4, <1>6, Chained
  <2> QED BY <1>1, <1>4, <1>6, <2>1, <2>2
<1>8. ToFront(ws, i) = d \o c
  BY DEF ToFront, a, b, c, d
<1>9. \A j \in 1..Len(ws) - 1 : d[j] = IF j < i THEN ws[j] ELSE ws[j + 1]
  BY <1>5 DEF d
<1>10. ASSUME NEW j \in 1..Len(ws)
       PROVE  (d \o c)[j] = ws[IF j < i THEN j ELSE IF j < Len(ws) THEN j + 1 ELSE i]
  <2>1. CASE j < Len(ws)
    BY <1>1, <1>7, <1>9, <2>1
  <2>2. CASE ~(j < Len(ws))
    BY <1>1, <1>4, <1>7, <2>2
  <2> QED BY <2>1, <2>2
<1>11. (d \o c)[Len(ws)] = ws[i]
  BY <1>1, <1>4, <1>7
<1> QED BY <1>7, <1>8, <1>10, <1>11

LEMMA InFrontNamed ==
    ASSUME NEW ws \in Seq(Win), NEW i \in 1..Len(ws), Named(ws)
    PROVE  Named(ToFront(ws, i))
<1> DEFINE n == Len(ws)
           vs == ToFront(ws, i)
           at(j) == IF j < i THEN j ELSE IF j < n THEN j + 1 ELSE i
<1>1. n \in Nat /\ Len(vs) = n /\ \A j \in 1..n : vs[j] = ws[at(j)]
  BY InFront
<1>2. \A j \in 1..n : at(j) \in 1..n
  BY <1>1
<1>3. \A j, k \in 1..n : at(j) = at(k) => j = k
  BY <1>1
<1> HIDE DEF n, vs, at
<1>4. Len(ws) = n
  BY DEF n
<1>5. ASSUME NEW j \in 1..n, NEW k \in 1..n, vs[j].app = vs[k].app PROVE j = k
  <2>1. ws[at(j)].app = ws[at(k)].app /\ at(j) \in 1..n /\ at(k) \in 1..n
    BY <1>1, <1>2, <1>5
  <2> QED BY <1>3, <1>4, <2>1 DEF Named
<1>6. ASSUME NEW j \in 1..n PROVE vs[j].last_key \in {Nobody, vs[j].app}
  BY <1>1, <1>2, <1>4 DEF Named
<1>7. Named(vs)
  BY <1>1, <1>5, <1>6 DEF Named
<1> QED BY <1>7 DEF vs

LEMMA Lowest ==
    ASSUME NEW S \in SUBSET Nat, S # {}
    PROVE  \E x \in S : \A y \in S : x <= y
<1>1. PICK x \in S : \A y \in S : ~ (<<y, x>> \in OpToRel(<, Nat))
  BY NatLessThanWellFounded, WFMin
<1>2. \A y \in S : ~ (y < x)
  BY <1>1 DEF OpToRel
<1> QED BY <1>2

LEMMA FoundWindow ==
    ASSUME wins \in Seq(Win), NEW app
    PROVE  /\ Find(app) \in 0..Len(wins)
           /\ Find(app) # 0 => wins[Find(app)].app = app
           /\ Find(app) = 0 => \A i \in 1..Len(wins) : wins[i].app # app
<1> DEFINE found == {i \in DOMAIN wins : wins[i].app = app}
<1>1. Find(app) = IF found = {} THEN 0 ELSE CHOOSE i \in found : \A j \in found : i <= j
  BY DEF Find
<1>2. DOMAIN wins = 1..Len(wins) /\ Len(wins) \in Nat
  OBVIOUS
<1>3. CASE found = {}
  BY <1>1, <1>2, <1>3
<1>4. CASE found # {}
  <2>1. \E x \in found : \A y \in found : x <= y
    <3>1. found \in SUBSET Nat
      BY <1>2
    <3> HIDE DEF found
    <3> QED BY <1>4, <3>1, Lowest
  <2>2. Find(app) \in found
    BY <1>1, <1>4, <2>1
  <2> QED BY <1>2, <2>2
<1> QED BY <1>3, <1>4

LEMMA HitWindow ==
    ASSUME wins \in Seq(Win), NEW cover
    PROVE  /\ Hit(cover) \in 0..Len(wins)
           /\ Hit(cover) # 0 => cover # {}
<1> DEFINE under == {i \in DOMAIN wins : Shown(i) /\ wins[i].app \in cover}
<1>1. Hit(cover) = IF under = {} THEN 0 ELSE CHOOSE i \in under : \A j \in under : i >= j
  BY DEF Hit
<1>2. DOMAIN wins = 1..Len(wins) /\ Len(wins) \in Nat
  OBVIOUS
<1>3. CASE under = {}
  BY <1>1, <1>2, <1>3
<1>4. CASE under # {}
  <2> DEFINE S == {Len(wins) - i : i \in under}
  <2>1. S \in SUBSET Nat /\ S # {}
    BY <1>2, <1>4
  <2>2. PICK x \in S : \A y \in S : x <= y
    BY <2>1, Lowest
  <2>3. PICK i \in under : x = Len(wins) - i
    BY <2>2
  <2>4. \A j \in under : i >= j
    <3> TAKE j \in under
    <3>1. Len(wins) - j \in S
      OBVIOUS
    <3>2. i \in 1..Len(wins) /\ j \in 1..Len(wins)
      BY <1>2
    <3>3. Len(wins) - i <= Len(wins) - j
      BY <2>2, <2>3, <3>1
    <3> HIDE DEF under, S
    <3> QED BY <1>2, <3>2, <3>3
  <2>5. Hit(cover) \in under
    BY <1>1, <1>4, <2>4
  <2> QED BY <1>2, <2>5
<1> QED BY <1>3, <1>4

LEMMA Opened ==
    ASSUME wins \in Seq(Win), desk \in Desktops, Named(wins), NEW app \in Name
    PROVE  OpenApp(app) \in Seq(Win) /\ Named(OpenApp(app))
<1> DEFINE i == Find(app)
           kept == SubSeq(wins, 1, IF Top >= MAX_WINS THEN MAX_WINS - 1 ELSE Top)
<1>1. /\ i \in 0..Len(wins) /\ Len(wins) \in Nat
      /\ i = 0 => \A k \in 1..Len(wins) : wins[k].app # app
  BY FoundWindow
<1>2. CASE i # 0
  <2> DEFINE r == [wins[i] EXCEPT !.visible = TRUE, !.minimized = FALSE, !.desktop = desk]
             ws == [wins EXCEPT ![i] = r]
  <2>1. i \in 1..Len(wins) /\ wins[i] \in Win
    BY <1>1, <1>2
  <2>2. r \in Win /\ r.app = wins[i].app /\ r.last_key = wins[i].last_key
    BY <2>1 DEF Win
  <2>3. Alike(wins, ws)
    BY <2>1, <2>2, Changed
  <2>4. ws \in Seq(Win) /\ Named(ws) /\ i \in 1..Len(ws)
    BY <2>1, <2>3, AlikeNamed DEF Alike
  <2>5. OpenApp(app) = ToFront(ws, i)
    BY <1>2 DEF OpenApp
  <2> HIDE DEF ws
  <2> QED BY <2>4, <2>5, InFront, InFrontNamed
<1>3. CASE i = 0
  <2> DEFINE n == IF Top >= MAX_WINS THEN MAX_WINS - 1 ELSE Top
             w == NewWindow(app)
  <2>1. n \in 0..Len(wins)
    BY <1>1 DEF Top
  <2>2. /\ SubSeq(wins, 1, n) \in Seq(Win) /\ Len(SubSeq(wins, 1, n)) = n
        /\ \A k \in 1..n : SubSeq(wins, 1, n)[k] = wins[k]
    BY <1>1, <2>1
  <2>3. w \in Win /\ w.app = app /\ w.last_key = Nobody
    BY DEF NewWindow, Win
  <2>4. OpenApp(app) = Append(SubSeq(wins, 1, n), w)
    BY <1>3 DEF OpenApp
  <2> HIDE DEF n, w, i
  <2>5. PICK s \in Seq(Win) : s = SubSeq(wins, 1, n)
    BY <2>2
  <2>6. /\ Append(s, w) \in Seq(Win) /\ Len(Append(s, w)) = n + 1
        /\ \A k \in 1..n + 1 : Append(s, w)[k] = IF k <= n THEN wins[k] ELSE w
    BY <2>1, <2>2, <2>3, <2>5, <1>1
  <2>7. \A k \in 1..n : k \in 1..Len(wins)
    BY <1>1, <2>1
  <2>8. Named(Append(s, w))
    BY <1>1, <1>3, <2>1, <2>3, <2>6, <2>7 DEF Named
  <2> QED BY <2>4, <2>5, <2>6, <2>8
<1> QED BY <1>2, <1>3

----------------------------------------------------------------------------
(* The parts of a frame, and the spot under the pointer.                   *)

Busy(f, pc) == CASE pc = "menu"    -> f.lpress /\ menu # NoMenu
                 [] pc = "popup"   -> f.lpress /\ popup # "none"
                 [] pc = "press"   -> f.lpress
                 [] pc = "context" -> f.rpress
                 [] pc = "end"     -> TRUE

LEMMA WentOn ==
    ASSUME NEW f \in Frame, NEW from \in 1..4, GoOn(f, from)
    PROVE  \E pc \in {"menu", "popup", "press", "context", "end"} :
              /\ frame' = [f EXCEPT !.pc = pc]
              /\ pc = "menu" => from = 1
              /\ pc = "popup" => from <= 2
              /\ pc = "press" => from <= 3
              /\ pc \in {"menu", "popup", "press"} => f.lpress
              /\ pc = "context" => f.rpress
              /\ from = 1 /\ f.lpress /\ menu # NoMenu => pc = "menu"
<1> DEFINE next == CHOOSE i \in from..5 : Busy(f, Order[i]) /\ \A j \in from..i - 1 : ~Busy(f, Order[j])
           S == {i \in from..5 : Busy(f, Order[i])}
<1>1. frame' = [f EXCEPT !.pc = Order[next]]
  BY DEF GoOn, Busy
<1>2. /\ Order[1] = "menu" /\ Order[2] = "popup" /\ Order[3] = "press"
      /\ Order[4] = "context" /\ Order[5] = "end"
  BY DEF Order
<1>3. Busy(f, "end") /\ 5 \in S
  <2>1. Busy(f, "end")
    BY DEF Busy
  <2>2. 5 \in from..5
    OBVIOUS
  <2> QED BY <1>2, <2>1, <2>2
<1>4. S \in SUBSET Nat /\ S # {}
  BY <1>3
<1>5. PICK i \in S : \A j \in S : i <= j
  BY <1>4, Lowest
<1>6. i \in from..5 /\ Busy(f, Order[i]) /\ \A j \in from..i - 1 : ~Busy(f, Order[j])
  BY <1>5
<1>7. /\ next \in from..5 /\ Busy(f, Order[next])
      /\ \A j \in from..next - 1 : ~Busy(f, Order[j])
  BY <1>6
<1> HIDE DEF next, S
<1>8. next \in {1, 2, 3, 4, 5} /\ from \in {1, 2, 3, 4} /\ next >= from
  BY <1>7
<1>9. Order[next] \in {"menu", "popup", "press", "context", "end"}
  BY <1>2, <1>8
<1>10. /\ Order[next] = "menu" => next = 1
       /\ Order[next] = "popup" => next = 2
       /\ Order[next] = "press" => next = 3
  BY <1>2, <1>8
<1>11. /\ Order[next] \in {"menu", "popup", "press"} => f.lpress
       /\ Order[next] = "context" => f.rpress
  BY <1>7 DEF Busy
<1>12. from = 1 /\ f.lpress /\ menu # NoMenu => Order[next] = "menu"
  <2> SUFFICES ASSUME from = 1, f.lpress, menu # NoMenu, next # 1 PROVE FALSE
    BY <1>2
  <2>1. 1 \in from..next - 1
    BY <1>8
  <2>2. Busy(f, Order[1])
    BY <1>2 DEF Busy
  <2> QED BY <1>7, <2>1, <2>2
<1> QED BY <1>1, <1>8, <1>9, <1>10, <1>11, <1>12

LEMMA SpotSeen ==
    ASSUME GuiTypeOK, SpotRight(frame.at), NEW spot \in Spots
    PROVE  /\ spot \in Spot /\ SpotRight(spot)
           /\ frame.at.place = "field" => spot.place = "field"
<1>1. frame.at \in Spot
  BY DEF GuiTypeOK, Frame
<1>2. CASE frame.at # Unseen
  BY <1>1, <1>2 DEF Spots
<1>3. CASE frame.at = Unseen
  <2>1. frame.at.place = "unseen"
    BY <1>3 DEF Unseen
  <2>2. \A i \in DOMAIN wins : wins[i].app \in Name
    <3>1. wins \in Seq(Win)
      BY DEF GuiTypeOK
    <3>2. \A i \in DOMAIN wins : wins[i] \in Win
      BY <3>1
    <3> QED BY <3>2 DEF Win
  <2>3. CASE spot \in [place : Panels \cup {"topbar", "taskbar"}, dock : Dock \cup {Nobody}, cover : {{}}]
    BY <2>1, <2>3 DEF Spot, SpotRight
  <2>4. CASE spot \in [place : {"field"}, dock : Dock, cover : {{}}]
    BY <2>1, <2>4 DEF Spot, SpotRight
  <2>5. CASE spot \in [place : {"field"}, dock : {Nobody},
                       cover : SUBSET {wins[i].app : i \in {j \in DOMAIN wins : Shown(j)}}]
    <3>1. {wins[i].app : i \in {j \in DOMAIN wins : Shown(j)}} \subseteq Name
      BY <2>2
    <3>2. spot.cover \subseteq Name /\ spot.place = "field" /\ spot.dock = Nobody
          /\ spot = [place |-> spot.place, dock |-> spot.dock, cover |-> spot.cover]
      BY <2>5, <3>1
    <3> QED BY <2>1, <3>2 DEF Spot, SpotRight
  <2> QED BY <1>3, <2>3, <2>4, <2>5 DEF Spots
<1> QED BY <1>2, <1>3

----------------------------------------------------------------------------
(* The steps.                                                              *)

LEMMA StillHeld ==
    ASSUME wins \in Seq(Win), WindowsHeld, Alike(wins, wins'),
           grab' = grab \/ grab' = NoGrab,
           menu'.win = 0 \/ menu' = menu
    PROVE  WindowsHeld'
<1>1. /\ Named(wins) /\ GrabHeld /\ MenuHeld
      /\ DOMAIN wins = 1..Len(wins) /\ Len(wins) \in Nat
  BY HeldParts
<1>2. wins' \in Seq(Win) /\ Named(wins')
  BY <1>1, AlikeNamed DEF Alike
<1>3. /\ WindowsHeld' <=> Named(wins') /\ GrabHeld' /\ MenuHeld'
      /\ DOMAIN wins' = 1..Len(wins')
  BY <1>2 DEF WindowsHeld, Named, OnePerApp, KeysForTheirApp
<1>4. GrabHeld' /\ MenuHeld'
  BY <1>1, <1>3 DEF Alike, GrabHeld, MenuHeld
<1> QED BY <1>2, <1>3, <1>4

LEMMA Rearranged ==
    ASSUME wins' \in Seq(Win), Named(wins'), GrabHeld', MenuHeld'
    PROVE  WindowsHeld'
BY DEF WindowsHeld, Named, OnePerApp, KeysForTheirApp

LEMMA SameWins ==
    ASSUME wins \in Seq(Win) PROVE Alike(wins, wins)
BY DEF Alike

LEMMA StartOfFrame ==
    /\ FrameStart \in Frame /\ FrameStart.pc = "keys" /\ ~FrameStart.lpress
    /\ ~FrameStart.rel /\ SpotRight(FrameStart.at) /\ ~FrameStart.rpress /\ FrameStart.at = Unseen
BY DEF FrameStart, Frame, FrameParts, Unseen, Spot, SpotRight

LEMMA GuiStarts == GuiInit => GuiInv
<1> SUFFICES ASSUME GuiInit PROVE GuiInv
  OBVIOUS
<1>1. NewWindow(Boot) \in Win /\ NewWindow(Boot).last_key = Nobody
  BY DEF GuiInit, NewWindow, Win, Name
<1>2. wins \in Seq(Win) /\ Len(wins) = 1 /\ wins[1] = NewWindow(Boot)
  BY <1>1 DEF GuiInit
<1>3. Named(wins)
  BY <1>1, <1>2 DEF Named
<1>4. WindowsHeld
  BY <1>2, <1>3, HeldParts DEF GuiInit, GrabHeld, MenuHeld, NoMenu
<1>5. frame = FrameStart /\ menu = NoMenu /\ grab = NoGrab /\ left = FALSE /\ locked = FALSE /\ desk = Home
  BY DEF GuiInit
<1>6. GuiTypeOK
  BY <1>2, <1>5, StartOfFrame DEF GuiTypeOK, NoMenu, NoGrab
<1> QED BY <1>4, <1>5, <1>6, StartOfFrame DEF GuiInv, Buttons, Kept, NoMenu

LEMMA UnlockKeeps ==
    ASSUME GuiInv, Unlock PROVE GuiInv'
<1>1. /\ wins' = wins /\ desk' = desk /\ menu' = menu /\ grab' = grab /\ left' = left
      /\ locked' = FALSE /\ frame.pc = "keys" /\ frame' = [frame EXCEPT !.pc = "mouse"]
  BY DEF Unlock
<1>2. GuiTypeOK' /\ Buttons' /\ Kept'
  BY <1>1 DEF GuiInv, GuiTypeOK, Buttons, Kept, FrameParts, SpotRight, Frame
<1>3. WindowsHeld'
  BY <1>1, SameWins, StillHeld DEF GuiInv, GuiTypeOK
<1> QED BY <1>2, <1>3 DEF GuiInv

LEMMA DesktopKeyKeeps ==
    ASSUME GuiInv, NEW d \in Desktops, DesktopKey(d) PROVE GuiInv'
<1>1. /\ wins' = wins /\ desk' = d /\ menu' = menu /\ grab' = grab /\ left' = left
      /\ locked' = locked /\ frame.pc = "keys" /\ frame' = [frame EXCEPT !.pc = "mouse"]
  BY DEF DesktopKey
<1>2. GuiTypeOK' /\ Buttons' /\ Kept'
  BY <1>1 DEF GuiInv, GuiTypeOK, Buttons, Kept, FrameParts, SpotRight, Frame
<1>3. WindowsHeld'
  BY <1>1, SameWins, StillHeld DEF GuiInv, GuiTypeOK
<1> QED BY <1>2, <1>3 DEF GuiInv

LEMMA AppKeyKeeps ==
    ASSUME GuiInv, AppKey PROVE GuiInv'
<1>1. /\ desk' = desk /\ menu' = menu /\ grab' = grab /\ left' = left
      /\ locked' = locked /\ frame.pc = "keys" /\ frame' = [frame EXCEPT !.pc = "mouse"]
      /\ wins # <<>> /\ wins' = [wins EXCEPT ![Top].last_key = wins[Top].app]
  BY DEF AppKey
<1>2. wins \in Seq(Win) /\ Len(wins) \in Nat
  BY DEF GuiInv, GuiTypeOK
<1>3. Top \in 1..Len(wins) /\ wins[Top] \in Win
  BY <1>1, <1>2, EmptySeq DEF Top
<1> DEFINE r == [wins[Top] EXCEPT !.last_key = wins[Top].app]
<1>4. r \in Win /\ r.app = wins[Top].app /\ r.last_key = wins[Top].app
  BY <1>3 DEF Win
<1>5. wins' = [wins EXCEPT ![Top] = r]
  BY <1>1
<1> HIDE DEF r
<1>6. Alike(wins, wins')
  BY <1>2, <1>3, <1>4, <1>5, Changed
<1>7. GuiTypeOK' /\ Buttons' /\ Kept'
  BY <1>1, <1>6 DEF GuiInv, GuiTypeOK, Buttons, Kept, FrameParts, SpotRight, Alike, Frame
<1>8. WindowsHeld'
  BY <1>1, <1>2, <1>6, StillHeld DEF GuiInv
<1> QED BY <1>7, <1>8 DEF GuiInv

LEMMA EscapeKeeps ==
    ASSUME GuiInv, Escape PROVE GuiInv'
<1>1. /\ desk' = desk /\ menu' = NoMenu /\ grab' = NoGrab /\ left' = FALSE
      /\ locked' = locked /\ frame.pc = "keys" /\ frame' = frame
      /\ wins' = <<NewWindow(Boot)>>
  BY DEF Escape
<1>2. NewWindow(Boot) \in Win /\ NewWindow(Boot).last_key = Nobody
  BY DEF GuiInv, GuiTypeOK, NewWindow, Win, Name
<1>3. wins' \in Seq(Win) /\ Len(wins') = 1 /\ wins'[1] = NewWindow(Boot)
  BY <1>1, <1>2
<1>4. Named(wins')
  BY <1>2, <1>3 DEF Named
<1>5. WindowsHeld'
  BY <1>1, <1>3, <1>4, Rearranged DEF GrabHeld, MenuHeld, NoMenu
<1>6. GuiTypeOK' /\ Buttons' /\ Kept'
  BY <1>1, <1>3 DEF GuiInv, GuiTypeOK, Buttons, Kept, NoMenu, NoGrab, SpotRight
<1> QED BY <1>5, <1>6 DEF GuiInv

LEMMA MouseKeeps ==
    ASSUME GuiInv, NEW down \in BOOLEAN, NEW rpress \in BOOLEAN, Mouse(down, rpress) PROVE GuiInv'
<1>1. /\ wins' = wins /\ desk' = desk /\ menu' = menu /\ grab' = grab /\ left' = down
      /\ locked' = locked /\ frame.pc \in {"keys", "mouse"}
  BY DEF Mouse
<1>2. ~frame.lpress /\ ~frame.rel
  BY <1>1 DEF GuiInv, Buttons
<1>3. WindowsHeld'
  BY <1>1, SameWins, StillHeld DEF GuiInv, GuiTypeOK
<1>4. CASE locked
  <2>1. frame' = FrameStart
    BY <1>4 DEF Mouse
  <2>2. GuiTypeOK' /\ Buttons' /\ Kept'
    BY <1>1, <1>4, <2>1, StartOfFrame DEF GuiInv, GuiTypeOK, Buttons, Kept
  <2> QED BY <1>3, <2>2 DEF GuiInv
<1>5. CASE ~locked
  <2> DEFINE f == [FrameStart EXCEPT !.lpress = down /\ ~left, !.rpress = rpress, !.rel = ~down /\ left]
  <2>1. GoOn(f, 1)
    BY <1>5 DEF Mouse
  <2>2. left \in BOOLEAN
    BY DEF GuiInv, GuiTypeOK
  <2>3. /\ f \in Frame /\ f.lpress = (down /\ ~left) /\ f.rel = (~down /\ left) /\ f.at = Unseen
    BY <2>2, StartOfFrame DEF Frame
  <2> HIDE DEF f
  <2>4. PICK pc \in {"menu", "popup", "press", "context", "end"} :
           /\ frame' = [f EXCEPT !.pc = pc]
           /\ pc \in {"menu", "popup", "press"} => f.lpress
           /\ f.lpress /\ menu # NoMenu => pc = "menu"
    BY <2>1, <2>3, WentOn
  <2>5. /\ frame' \in Frame /\ frame'.pc = pc /\ frame'.lpress = f.lpress /\ frame'.rel = f.rel
        /\ frame'.at = Unseen
    BY <2>3, <2>4 DEF Frame, FrameParts
  <2>6. grab # NoGrab => left
    BY <1>2 DEF GuiInv, Kept
  <2>7. menu.win # 0 => menu # NoMenu
    BY DEF NoMenu
  <2>8. GuiTypeOK'
    BY <1>1, <2>5 DEF GuiInv, GuiTypeOK
  <2>9. Buttons'
    BY <1>1, <1>5, <2>3, <2>4, <2>5 DEF Buttons
  <2>10. Kept'
    <3>1. SpotRight(frame.at)'
      BY <2>5 DEF SpotRight, Unseen
    <3>2. frame'.lpress => down /\ ~left
      BY <2>3, <2>5
    <3>3. ~down /\ left => frame'.rel
      BY <2>3, <2>5
    <3>4. frame'.lpress /\ menu # NoMenu => frame'.pc = "menu"
      BY <2>4, <2>5
    <3> QED BY <1>1, <1>5, <2>6, <2>7, <3>1, <3>2, <3>3, <3>4 DEF Kept
  <2> QED BY <1>3, <2>8, <2>9, <2>10 DEF GuiInv
<1> QED BY <1>4, <1>5

\* A press at work is that of a button that held nothing before.
LEMMA PressFree ==
    ASSUME GuiInv, frame.pc \in {"menu", "popup", "press"}
    PROVE  /\ frame.lpress /\ left /\ ~frame.rel /\ ~locked /\ grab = NoGrab
           /\ frame.pc # "menu" => menu.win = 0
BY DEF GuiInv, Buttons, Kept

LEMMA MenuItemKeeps ==
    ASSUME GuiInv, frame.pc = "menu", NEW item \in menu.items, MenuItem(item)
    PROVE  wins' \in Seq(Win) /\ Named(wins')
<1>1. wins \in Seq(Win) /\ Named(wins) /\ Len(wins) \in Nat /\ DOMAIN wins = 1..Len(wins) /\ desk \in Desktops
  BY HeldParts DEF GuiInv, GuiTypeOK
<1>2. SUFFICES \/ Alike(wins, wins')
               \/ \E app \in Name : wins' = OpenApp(app)
               \/ wins' = wins
  BY <1>1, AlikeNamed, Opened DEF Alike
<1>3. CASE item = "show desktop" /\ wins' = [i \in DOMAIN wins |-> [wins[i] EXCEPT !.minimized = TRUE]]
  <2>1. \A i \in 1..Len(wins) : wins[i] \in Win
    BY <1>1
  <2>2. \A i \in 1..Len(wins) : /\ [wins[i] EXCEPT !.minimized = TRUE] \in Win
                                /\ [wins[i] EXCEPT !.minimized = TRUE].app = wins[i].app
                                /\ [wins[i] EXCEPT !.minimized = TRUE].last_key = wins[i].last_key
    BY <2>1 DEF Win
  <2>3. wins' \in Seq(Win) /\ Len(wins') = Len(wins)
        /\ \A i \in 1..Len(wins) : wins'[i] = [wins[i] EXCEPT !.minimized = TRUE]
    <3>1. wins' = [i \in 1..Len(wins) |-> [wins[i] EXCEPT !.minimized = TRUE]]
      BY <1>1, <1>3
    <3>2. wins' \in [1..Len(wins) -> Win]
      BY <2>2, <3>1
    <3> QED BY <1>1, <3>1, <3>2
  <2> QED BY <2>2, <2>3 DEF Alike
<1>4. CASE wins' = OpenApp("Settings")
  BY <1>4 DEF Name
<1>5. CASE wins' = IF menu.dock = Nobody THEN wins ELSE OpenApp(menu.dock)
  BY <1>5 DEF Name, GuiInv, GuiTypeOK
<1>6. ASSUME NEW i \in 0..Len(wins), wins' = IF i = 0 THEN wins ELSE [wins EXCEPT ![i].visible = FALSE]
      PROVE  Alike(wins, wins') \/ wins' = wins
  <2>1. CASE i # 0
    <3> DEFINE r == [wins[i] EXCEPT !.visible = FALSE]
    <3>1. i \in 1..Len(wins) /\ wins[i] \in Win
      BY <1>1, <2>1
    <3>2. r \in Win /\ r.app = wins[i].app /\ r.last_key = wins[i].last_key
      BY <3>1 DEF Win
    <3>3. wins' = [wins EXCEPT ![i] = r]
      BY <1>6, <2>1
    <3> HIDE DEF r
    <3> QED BY <1>1, <3>1, <3>2, <3>3, Changed
  <2> QED BY <1>6, <2>1
<1>7. CASE \E i \in IF menu.dock = Nobody THEN 0..Top ELSE {Find(menu.dock)} :
              wins' = IF i = 0 THEN wins ELSE [wins EXCEPT ![i].visible = FALSE]
  <2>1. (IF menu.dock = Nobody THEN 0..Top ELSE {Find(menu.dock)}) \subseteq 0..Len(wins)
    BY <1>1, FoundWindow DEF Top
  <2> QED BY <1>6, <1>7, <2>1
<1>8. CASE /\ item \in WindowItems /\ menu.win # 0
           /\ wins' = IF item = "min" THEN [wins EXCEPT ![menu.win].minimized = TRUE]
                      ELSE IF item = "shut" THEN [wins EXCEPT ![menu.win].visible = FALSE]
                      ELSE [wins EXCEPT ![menu.win].desktop = item]
  <2> DEFINE w == menu.win
             r == IF item = "min" THEN [wins[w] EXCEPT !.minimized = TRUE]
                  ELSE IF item = "shut" THEN [wins[w] EXCEPT !.visible = FALSE]
                  ELSE [wins[w] EXCEPT !.desktop = item]
  <2>1. w \in 1..Len(wins) /\ wins[w] \in Win
    BY <1>1, <1>8 DEF GuiInv, WindowsHeld, MenuHeld
  <2>2. item # "min" /\ item # "shut" => item \in Desktops
    BY <1>8 DEF WindowItems
  <2>3. r \in Win /\ r.app = wins[w].app /\ r.last_key = wins[w].last_key
    BY <2>1, <2>2 DEF Win
  <2>4. wins' = [wins EXCEPT ![w] = r]
    BY <1>8
  <2> HIDE DEF r
  <2> QED BY <1>1, <2>1, <2>3, <2>4, Changed
<1> QED BY <1>1, <1>3, <1>4, <1>5, <1>7, <1>8 DEF MenuItem

LEMMA MenuClickKeeps ==
    ASSUME GuiInv, MenuClick PROVE GuiInv'
<1>1. /\ desk' = desk /\ locked' = locked /\ grab' = grab /\ left' = left /\ frame.pc = "menu"
      /\ GoOn([frame EXCEPT !.lpress = FALSE], 2)
  BY DEF MenuClick
<1>2. frame.lpress /\ left /\ ~frame.rel /\ ~locked /\ grab = NoGrab
  BY <1>1, PressFree
<1> DEFINE f == [frame EXCEPT !.lpress = FALSE]
<1>3. f \in Frame /\ ~f.lpress /\ f.rel = frame.rel /\ f.at = frame.at
  BY DEF GuiInv, GuiTypeOK, Frame
<1> HIDE DEF f
<1>4. PICK pc \in {"menu", "popup", "press", "context", "end"} :
         /\ frame' = [f EXCEPT !.pc = pc]
         /\ pc = "menu" => 2 = 1
         /\ pc \in {"menu", "popup", "press"} => f.lpress
  <2>1. GoOn(f, 2)
    BY <1>1 DEF f
  <2> QED BY <1>3, <2>1, WentOn
<1>5. /\ frame' \in Frame /\ frame'.pc = pc /\ ~frame'.lpress /\ ~frame'.rel /\ frame'.at = frame.at
      /\ pc \in {"context", "end"}
  BY <1>2, <1>3, <1>4 DEF Frame, FrameParts
<1>6. wins \in Seq(Win) /\ Named(wins)
  BY HeldParts DEF GuiInv, GuiTypeOK
<1>7. /\ wins' \in Seq(Win) /\ Named(wins')
      /\ menu' = NoMenu \/ (menu' = menu /\ wins' = wins)
  BY <1>1, <1>6, MenuItemKeeps DEF MenuClick
<1>8. WindowsHeld'
  <2>1. CASE menu' = NoMenu
    BY <1>1, <1>2, <1>7, <2>1, Rearranged DEF GrabHeld, MenuHeld, NoMenu
  <2>2. CASE menu' = menu /\ wins' = wins
    BY <1>1, <1>6, <2>2, SameWins, StillHeld DEF GuiInv
  <2> QED BY <1>7, <2>1, <2>2
<1>9. GuiTypeOK'
  BY <1>1, <1>5, <1>7 DEF GuiInv, GuiTypeOK, NoMenu
<1>10. Buttons'
  BY <1>5 DEF Buttons
<1>11. Kept'
  BY <1>1, <1>2, <1>5 DEF GuiInv, Kept, SpotRight
<1> QED BY <1>8, <1>9, <1>10, <1>11 DEF GuiInv

LEMMA PopupKeeps ==
    ASSUME GuiInv, Popup PROVE GuiInv'
<1>1. /\ wins' = wins /\ desk' = desk /\ menu' = menu /\ grab' = grab /\ left' = left
      /\ frame.pc = "popup"
  BY DEF Popup
<1>2. frame.lpress /\ left /\ ~frame.rel /\ ~locked /\ grab = NoGrab /\ menu.win = 0
  BY <1>1, PressFree
<1>3. PICK f \in Frame : /\ GoOn(f, 3) /\ f.rel = frame.rel /\ f.at = frame.at
                         /\ ~f.lpress \/ locked' = locked
                         /\ locked' \in BOOLEAN
  <2> DEFINE f1 == [frame EXCEPT !.lpress = FALSE]
  <2>1. frame \in Frame /\ locked \in BOOLEAN
    BY DEF GuiInv, GuiTypeOK
  <2>2. f1 \in Frame /\ ~f1.lpress /\ f1.rel = frame.rel /\ f1.at = frame.at
    BY <2>1 DEF Frame
  <2> HIDE DEF f1
  <2>3. CASE GoOn(f1, 3) /\ \E item \in PowerItems : locked' = (item # "sleep")
    BY <2>2, <2>3
  <2>4. CASE GoOn(frame, 3) /\ locked' = locked
    BY <2>1, <2>4
  <2> QED BY <2>3, <2>4 DEF Popup, f1
<1>4. PICK pc \in {"menu", "popup", "press", "context", "end"} :
         /\ frame' = [f EXCEPT !.pc = pc]
         /\ pc = "menu" => 3 = 1
         /\ pc = "popup" => 3 <= 2
         /\ pc \in {"menu", "popup", "press"} => f.lpress
  BY <1>3, WentOn
<1>5. /\ frame' \in Frame /\ frame'.pc = pc /\ frame'.lpress = f.lpress /\ ~frame'.rel /\ frame'.at = frame.at
      /\ pc \in {"press", "context", "end"}
  BY <1>2, <1>3, <1>4 DEF Frame, FrameParts
<1>6. WindowsHeld'
  BY <1>1, SameWins, StillHeld DEF GuiInv, GuiTypeOK
<1>7. GuiTypeOK'
  BY <1>1, <1>3, <1>5 DEF GuiInv, GuiTypeOK
<1>8. Buttons'
  BY <1>1, <1>2, <1>3, <1>4, <1>5 DEF Buttons
<1>9. Kept'
  BY <1>1, <1>2, <1>5 DEF GuiInv, Kept, SpotRight
<1> QED BY <1>6, <1>7, <1>8, <1>9 DEF GuiInv

\* What a press leaves behind it in the frame.
LEMMA LeftBehind ==
    ASSUME GuiInv, frame.pc = "press", NEW spot \in Spots, Pressed(spot)
    PROVE  /\ frame' \in Frame /\ frame'.pc \in {"context", "end"}
           /\ frame'.lpress /\ ~frame'.rel /\ SpotRight(frame'.at)
           /\ spot.place # "taskbar" => frame'.at.place # "taskbar"
           /\ spot.place = "field" /\ frame'.pc = "context" => frame'.at.place = "field"
<1> DEFINE at == IF frame.rpress THEN spot
                 ELSE IF spot.place = "taskbar" THEN [Unseen EXCEPT !.place = "taskbar"] ELSE Unseen
           f == [frame EXCEPT !.at = at]
<1>1. frame \in Frame /\ spot \in Spot /\ SpotRight(spot)
  BY SpotSeen DEF GuiInv, GuiTypeOK, Kept
<1>2. frame.lpress /\ ~frame.rel
  BY PressFree
<1>3. /\ at \in Spot /\ SpotRight(at)
      /\ spot.place # "taskbar" => at.place # "taskbar"
      /\ frame.rpress => at = spot
  BY <1>1 DEF Spot, SpotRight, Unseen
<1> HIDE DEF at
<1>4. f \in Frame /\ f.at = at /\ f.lpress = frame.lpress /\ f.rpress = frame.rpress /\ f.rel = frame.rel
  BY <1>1, <1>3 DEF Frame
<1>5. GoOn(f, 4)
  BY DEF Pressed, at
<1> HIDE DEF f
<1>6. PICK pc \in {"menu", "popup", "press", "context", "end"} :
         /\ frame' = [f EXCEPT !.pc = pc]
         /\ pc = "menu" => 4 = 1
         /\ pc = "popup" => 4 <= 2
         /\ pc = "press" => 4 <= 3
         /\ pc = "context" => f.rpress
  BY <1>4, <1>5, WentOn
<1>7. pc \in {"context", "end"}
  BY <1>6
<1>8. /\ frame' \in Frame /\ frame'.pc = pc /\ frame'.at = at /\ frame'.lpress = frame.lpress
      /\ frame'.rel = frame.rel
  BY <1>4, <1>6 DEF Frame, FrameParts
<1> QED BY <1>2, <1>3, <1>4, <1>6, <1>7, <1>8

LEMMA PressBarKeeps ==
    ASSUME GuiInv, NEW spot \in Spots, PressBar(spot) \/ PressNothing(spot) PROVE GuiInv'
<1>1. /\ wins' = wins /\ desk' = desk /\ menu' = menu /\ grab' = grab /\ left' = left /\ locked' = locked
      /\ frame.pc = "press" /\ Pressed(spot)
  BY DEF PressBar, PressNothing
<1>2. left /\ ~locked /\ grab = NoGrab /\ menu.win = 0
  BY <1>1, PressFree
<1>3. /\ frame' \in Frame /\ frame'.pc \in {"context", "end"}
      /\ frame'.lpress /\ ~frame'.rel /\ SpotRight(frame'.at)
  BY <1>1, LeftBehind
<1>4. WindowsHeld'
  BY <1>1, SameWins, StillHeld DEF GuiInv, GuiTypeOK
<1>5. GuiTypeOK' /\ Buttons' /\ Kept'
  BY <1>1, <1>2, <1>3 DEF GuiInv, GuiTypeOK, Buttons, Kept, SpotRight
<1> QED BY <1>4, <1>5 DEF GuiInv

LEMMA PressDockKeeps ==
    ASSUME GuiInv, NEW spot \in Spots, PressDock(spot) PROVE GuiInv'
<1>1. /\ wins' = OpenApp(spot.dock) /\ desk' = desk /\ menu' = menu /\ grab' = grab /\ left' = left
      /\ locked' = locked /\ frame.pc = "press" /\ spot.dock # Nobody /\ Pressed(spot)
  BY DEF PressDock
<1>2. left /\ ~locked /\ grab = NoGrab /\ menu.win = 0
  BY <1>1, PressFree
<1>3. /\ frame' \in Frame /\ frame'.pc \in {"context", "end"}
      /\ frame'.lpress /\ ~frame'.rel /\ SpotRight(frame'.at)
  BY <1>1, LeftBehind
<1>4. spot \in Spot
  BY SpotSeen DEF GuiInv, Kept
<1>5. spot.dock \in Name
  BY <1>1, <1>4 DEF Spot, Name
<1>6. wins \in Seq(Win) /\ Named(wins) /\ desk \in Desktops
  BY HeldParts DEF GuiInv, GuiTypeOK
<1>7. wins' \in Seq(Win) /\ Named(wins')
  BY <1>1, <1>5, <1>6, Opened
<1>8. WindowsHeld'
  BY <1>1, <1>2, <1>7, Rearranged DEF GrabHeld, MenuHeld
<1>9. GuiTypeOK' /\ Buttons' /\ Kept'
  BY <1>1, <1>2, <1>3, <1>7 DEF GuiInv, GuiTypeOK, Buttons, Kept, SpotRight
<1> QED BY <1>8, <1>9 DEF GuiInv

LEMMA PressWindowKeeps ==
    ASSUME GuiInv, NEW spot \in Spots, NEW part \in WindowParts, PressWindow(spot, part) PROVE GuiInv'
<1> DEFINE i == Hit(spot.cover)
<1>1. /\ desk' = desk /\ menu' = menu /\ left' = left /\ locked' = locked
      /\ frame.pc = "press" /\ spot.place = "field" /\ i # 0 /\ Pressed(spot)
  BY DEF PressWindow
<1>2. left /\ ~locked /\ grab = NoGrab /\ menu.win = 0
  BY <1>1, PressFree
<1>3. /\ frame' \in Frame /\ frame'.pc \in {"context", "end"}
      /\ frame'.lpress /\ ~frame'.rel /\ SpotRight(frame'.at)
      /\ frame'.at.place # "taskbar"
      /\ frame'.pc = "context" => frame'.at.place = "field"
  BY <1>1, LeftBehind
<1>4. wins \in Seq(Win) /\ Named(wins) /\ Len(wins) \in Nat
  BY HeldParts DEF GuiInv, GuiTypeOK
<1>5. i \in 1..Len(wins)
  BY <1>1, <1>4, HitWindow
<1> HIDE DEF i
<1>6. wins[i] \in Win
  BY <1>4, <1>5
<1>7. /\ wins' \in Seq(Win) /\ Named(wins')
      /\ grab' \in [idx : Nat, kind : {"none", "drag", "resize"}, app : Name \cup {Nobody}]
      /\ GrabHeld'
  <2>1. ASSUME NEW r \in Win, r.app = wins[i].app, r.last_key = wins[i].last_key,
               wins' = [wins EXCEPT ![i] = r], grab' = grab
        PROVE  wins' \in Seq(Win) /\ Named(wins') /\ grab' = NoGrab
    <3>1. Alike(wins, wins')
      BY <1>4, <1>5, <2>1, Changed
    <3> QED BY <1>2, <1>4, <2>1, <3>1, AlikeNamed DEF Alike
  <2>2. CASE part = "close" /\ wins' = [wins EXCEPT ![i].visible = FALSE] /\ grab' = grab
    <3> DEFINE r == [wins[i] EXCEPT !.visible = FALSE]
    <3>1. r \in Win /\ r.app = wins[i].app /\ r.last_key = wins[i].last_key
      BY <1>6 DEF Win
    <3>2. wins' = [wins EXCEPT ![i] = r] /\ grab' = grab
      BY <2>2
    <3> HIDE DEF r
    <3>3. wins' \in Seq(Win) /\ Named(wins') /\ grab' = NoGrab
      BY <2>1, <3>1, <3>2
    <3> QED BY <3>3 DEF NoGrab, GrabHeld
  <2>3. CASE part = "minimize" /\ wins' = [wins EXCEPT ![i].minimized = TRUE] /\ grab' = grab
    <3> DEFINE r == [wins[i] EXCEPT !.minimized = TRUE]
    <3>1. r \in Win /\ r.app = wins[i].app /\ r.last_key = wins[i].last_key
      BY <1>6 DEF Win
    <3>2. wins' = [wins EXCEPT ![i] = r] /\ grab' = grab
      BY <2>3
    <3> HIDE DEF r
    <3>3. wins' \in Seq(Win) /\ Named(wins') /\ grab' = NoGrab
      BY <2>1, <3>1, <3>2
    <3> QED BY <3>3 DEF NoGrab, GrabHeld
  <2>4. ASSUME wins' = ToFront(wins, i)
        PROVE  /\ wins' \in Seq(Win) /\ Named(wins') /\ Top \in 1..Len(wins') /\ Top \in Nat
               /\ DOMAIN wins' = 1..Len(wins') /\ wins'[Top].app = wins[i].app
    <3>1. /\ wins' \in Seq(Win) /\ Len(wins') = Len(wins) /\ wins'[Len(wins)] = wins[i]
          /\ Named(wins')
      BY <1>4, <1>5, <2>4, InFront, InFrontNamed
    <3> QED BY <1>4, <1>5, <3>1 DEF Top
  <2>5. CASE wins' = ToFront(wins, i) /\ grab' = grab
    BY <1>2, <2>4, <2>5 DEF NoGrab, GrabHeld
  <2>6. ASSUME NEW kind \in {"drag", "resize"}, wins' = ToFront(wins, i),
               grab' = [idx |-> Top, kind |-> kind, app |-> wins[i].app]
        PROVE  /\ wins' \in Seq(Win) /\ Named(wins')
               /\ grab' \in [idx : Nat, kind : {"none", "drag", "resize"}, app : Name \cup {Nobody}]
               /\ GrabHeld'
    <3>1. wins[i].app \in Name
      BY <1>6 DEF Win
    <3> QED BY <2>4, <2>6, <3>1 DEF GrabHeld
  <2>7. \/ part = "close" /\ wins' = [wins EXCEPT ![i].visible = FALSE] /\ grab' = grab
        \/ part = "minimize" /\ wins' = [wins EXCEPT ![i].minimized = TRUE] /\ grab' = grab
        \/ wins' = ToFront(wins, i) /\ grab' = grab
        \/ \E kind \in {"drag", "resize"} :
              wins' = ToFront(wins, i) /\ grab' = [idx |-> Top, kind |-> kind, app |-> wins[i].app]
    BY DEF PressWindow, i
  <2> QED BY <2>2, <2>3, <2>5, <2>6, <2>7
<1>8. WindowsHeld'
  BY <1>1, <1>2, <1>7, Rearranged DEF MenuHeld
<1>9. GuiTypeOK'
  BY <1>1, <1>2, <1>3, <1>7 DEF GuiInv, GuiTypeOK
<1>10. Buttons' /\ Kept'
  BY <1>1, <1>2, <1>3 DEF Buttons, Kept, SpotRight
<1> QED BY <1>8, <1>9, <1>10 DEF GuiInv

LEMMA ContextKeeps ==
    ASSUME GuiInv, NEW spot \in Spots, Context(spot) PROVE GuiInv'
<1> DEFINE i == Hit(spot.cover)
           at == IF spot.place = "taskbar" THEN [Unseen EXCEPT !.place = "taskbar"] ELSE Unseen
<1>1. /\ wins' = wins /\ desk' = desk /\ grab' = grab /\ left' = left /\ locked' = locked
      /\ frame.pc = "context" /\ frame' = [frame EXCEPT !.pc = "end", !.rpress = FALSE, !.at = at]
  BY DEF Context
<1>2. /\ spot \in Spot /\ SpotRight(spot)
      /\ frame.at.place = "field" => spot.place = "field"
  BY SpotSeen DEF GuiInv, Kept
<1>3. /\ at \in Spot /\ SpotRight(at)
      /\ spot.place # "taskbar" => at.place # "taskbar"
  BY <1>2 DEF Spot, SpotRight, Unseen
<1> HIDE DEF at
<1>4. /\ frame' \in Frame /\ frame'.pc = "end" /\ frame'.at = at /\ frame'.lpress = frame.lpress
      /\ frame'.rel = frame.rel
  BY <1>1, <1>3 DEF GuiInv, GuiTypeOK, Frame, FrameParts
<1>5. wins \in Seq(Win) /\ Named(wins) /\ Len(wins) \in Nat /\ DOMAIN wins = 1..Len(wins)
  BY HeldParts DEF GuiInv, GuiTypeOK
<1>6. i \in 0..Len(wins) /\ (i # 0 => spot.place = "field")
  BY <1>2, <1>5, HitWindow DEF SpotRight
<1>7. \/ /\ DOMAIN menu' = {"items", "win", "dock", "app"} /\ menu'.win = 0
         /\ menu'.dock \in Dock \cup {Nobody}
      \/ i # 0 /\ \E items : menu' = [items |-> items, win |-> i, dock |-> Nobody, app |-> wins[i].app]
  <2>1. CASE spot.dock # Nobody
    BY <1>2, <2>1 DEF Context, NoMenu, Spot
  <2>2. CASE spot.dock = Nobody /\ i # 0
    BY <2>2 DEF Context
  <2>3. CASE spot.dock = Nobody /\ i = 0
    BY <2>3 DEF Context, NoMenu
  <2> QED BY <2>1, <2>2, <2>3
<1> HIDE DEF i
<1>8. /\ DOMAIN menu' = {"items", "win", "dock", "app"} /\ menu'.win \in Nat
      /\ menu'.dock \in Dock \cup {Nobody}
      /\ menu'.win # 0 => spot.place = "field" /\ menu'.win \in DOMAIN wins /\ wins[menu'.win].app = menu'.app
  BY <1>5, <1>6, <1>7
<1>9. WindowsHeld'
  BY <1>1, <1>5, <1>8, Rearranged DEF GuiInv, WindowsHeld, GrabHeld, MenuHeld
<1>10. GuiTypeOK'
  BY <1>1, <1>4, <1>8 DEF GuiInv, GuiTypeOK
<1>11. Buttons'
  BY <1>1, <1>4 DEF GuiInv, Buttons
<1>12. Kept'
  <2>1. grab # NoGrab /\ frame.lpress => spot.place = "field"
    BY <1>1, <1>2 DEF GuiInv, Kept
  <2> QED BY <1>1, <1>3, <1>4, <1>8, <2>1 DEF GuiInv, Kept, SpotRight
<1> QED BY <1>9, <1>10, <1>11, <1>12 DEF GuiInv

LEMMA DrawnAlike ==
    ASSUME wins \in Seq(Win), NEW young PROVE Alike(wins, Drawn(young))
<1>1. DOMAIN wins = 1..Len(wins) /\ Len(wins) \in Nat /\ \A i \in 1..Len(wins) : wins[i] \in Win
  OBVIOUS
<1> DEFINE r(i) == IF Shown(i) /\ wins[i].app \notin young THEN [wins[i] EXCEPT !.last_key = Nobody] ELSE wins[i]
<1>2. \A i \in 1..Len(wins) : r(i) \in Win /\ r(i).app = wins[i].app /\ r(i).last_key \in {Nobody, wins[i].last_key}
  BY <1>1 DEF Win
<1>3. Drawn(young) = [i \in 1..Len(wins) |-> r(i)]
  BY <1>1 DEF Drawn
<1> HIDE DEF r
<1>4. Drawn(young) \in [1..Len(wins) -> Win]
  BY <1>2, <1>3
<1>5. Drawn(young) \in Seq(Win) /\ Len(Drawn(young)) = Len(wins)
  BY <1>1, <1>4
<1> QED BY <1>2, <1>3, <1>5 DEF Alike

LEMMA TaskbarNamed ==
    ASSUME NEW ws \in Seq(Win), Named(ws), NEW i \in 1..Len(ws)
    PROVE  Taskbar(ws, i) \in Seq(Win) /\ Named(Taskbar(ws, i))
<1>1. ws[i] \in Win
  OBVIOUS
<1>2. CASE ~ws[i].minimized /\ i = Len(ws)
  <2> DEFINE r == [ws[i] EXCEPT !.minimized = TRUE]
  <2>1. r \in Win /\ r.app = ws[i].app /\ r.last_key = ws[i].last_key
    BY <1>1 DEF Win
  <2>2. Taskbar(ws, i) = [ws EXCEPT ![i] = r]
    BY <1>2 DEF Taskbar
  <2> HIDE DEF r
  <2>3. Alike(ws, Taskbar(ws, i))
    BY <2>1, <2>2, Changed
  <2> QED BY <2>3, AlikeNamed DEF Alike
<1>3. CASE ~(~ws[i].minimized /\ i = Len(ws))
  <2> DEFINE r == [ws[i] EXCEPT !.minimized = FALSE, !.visible = TRUE]
             vs == [ws EXCEPT ![i] = r]
  <2>1. r \in Win /\ r.app = ws[i].app /\ r.last_key = ws[i].last_key
    BY <1>1 DEF Win
  <2>2. Taskbar(ws, i) = ToFront(vs, i)
    BY <1>3 DEF Taskbar
  <2> HIDE DEF r
  <2>3. Alike(ws, vs)
    BY <2>1, Changed
  <2>4. vs \in Seq(Win) /\ Named(vs) /\ i \in 1..Len(vs)
    BY <2>3, AlikeNamed DEF Alike
  <2> HIDE DEF vs
  <2> QED BY <2>2, <2>4, InFront, InFrontNamed
<1> QED BY <1>2, <1>3

LEMMA RenderKeeps ==
    ASSUME GuiInv, Render PROVE GuiInv'
<1>1. /\ desk' = desk /\ menu' = menu /\ left' = left /\ locked' = locked
      /\ frame.pc = "end" /\ frame' = FrameStart /\ grab' = Held(frame)
  BY DEF Render
<1>2. wins \in Seq(Win) /\ Named(wins) /\ Len(wins) \in Nat /\ DOMAIN wins = 1..Len(wins)
  BY HeldParts DEF GuiInv, GuiTypeOK
<1>3. grab' = NoGrab \/ (grab' = grab /\ ~frame.rel)
  BY <1>1 DEF Held
<1>4. \/ Alike(wins, wins')
      \/ /\ wins' \in Seq(Win) /\ Named(wins')
         /\ frame.lpress /\ frame.at.place = "taskbar"
  <2>1. CASE wins' = wins
    BY <1>2, <2>1, SameWins
  <2>2. ASSUME NEW young, wins' = Drawn(young) PROVE Alike(wins, wins')
    BY <1>2, <2>2, DrawnAlike
  <2>3. ASSUME NEW young, NEW i \in DOMAIN wins, wins' = Taskbar(Drawn(young), i)
        PROVE  wins' \in Seq(Win) /\ Named(wins')
    <3>1. Alike(wins, Drawn(young))
      BY <1>2, DrawnAlike
    <3>2. Drawn(young) \in Seq(Win) /\ Named(Drawn(young)) /\ i \in 1..Len(Drawn(young))
      BY <1>2, <3>1, AlikeNamed DEF Alike
    <3> QED BY <2>3, <3>2, TaskbarNamed
  <2> QED BY <2>1, <2>2, <2>3 DEF Render
<1>5. WindowsHeld'
  <2>1. CASE Alike(wins, wins')
    BY <1>1, <1>2, <1>3, <2>1, StillHeld DEF GuiInv
  <2>2. CASE wins' \in Seq(Win) /\ Named(wins') /\ frame.lpress /\ frame.at.place = "taskbar"
    <3>1. grab = NoGrab /\ menu.win = 0
      BY <1>1, <2>2 DEF GuiInv, Kept
    <3>2. grab' = NoGrab
      BY <1>3, <3>1
    <3> QED BY <1>1, <2>2, <3>1, <3>2, Rearranged DEF GrabHeld, MenuHeld
  <2> QED BY <1>4, <2>1, <2>2
<1>6. GuiTypeOK'
  BY <1>1, <1>3, <1>4, StartOfFrame DEF GuiInv, GuiTypeOK, NoGrab, Alike
<1>7. Buttons' /\ Kept'
  BY <1>1, <1>3, StartOfFrame DEF GuiInv, Buttons, Kept
<1> QED BY <1>5, <1>6, <1>7 DEF GuiInv

LEMMA GuiStep == GuiInv /\ [GuiNext]_guiVars => GuiInv'
<1> SUFFICES ASSUME GuiInv, [GuiNext]_guiVars PROVE GuiInv'
  OBVIOUS
<1>1. CASE Unlock \/ AppKey \/ Escape
  BY <1>1, UnlockKeeps, AppKeyKeeps, EscapeKeeps
<1>2. CASE \E d \in Desktops : DesktopKey(d)
  BY <1>2, DesktopKeyKeeps
<1>3. CASE \E down, rpress \in BOOLEAN : Mouse(down, rpress)
  BY <1>3, MouseKeeps
<1>4. CASE MenuClick \/ Popup \/ Render
  BY <1>4, MenuClickKeeps, PopupKeeps, RenderKeeps
<1>5. CASE \E spot \in Spots : PressBar(spot) \/ PressDock(spot) \/ PressNothing(spot) \/ Context(spot)
  BY <1>5, PressBarKeeps, PressDockKeeps, ContextKeeps
<1>6. CASE \E spot \in Spots, part \in WindowParts : PressWindow(spot, part)
  BY <1>6, PressWindowKeeps
<1>7. CASE UNCHANGED guiVars
  <2>1. /\ wins' = wins /\ desk' = desk /\ menu' = menu /\ grab' = grab /\ left' = left
        /\ locked' = locked /\ frame' = frame
    BY <1>7 DEF guiVars
  <2>2. WindowsHeld'
    BY <2>1, SameWins, StillHeld DEF GuiInv, GuiTypeOK
  <2> QED BY <2>1, <2>2 DEF GuiInv, GuiTypeOK, Buttons, Kept, SpotRight
<1> QED BY <1>1, <1>2, <1>3, <1>4, <1>5, <1>6, <1>7 DEF GuiNext

\* The invariant: a window index kept over frames, by a drag, a resize or the
\* context menu, is kept only while nothing of gui_run can move the windows.
THEOREM GuiInvariance == GuiSpec => []GuiInv
BY GuiStarts, GuiStep, PTL DEF GuiSpec

\* The desktop's indices and waiting keys mean the windows they were taken for,
\* in every frame of gui_run (bring_to_front, open_app, draw_taskbar, ctxmenu).
THEOREM WindowsAreHeld == GuiSpec => []WindowsHeld
<1>1. GuiInv => WindowsHeld
  BY DEF GuiInv
<1> QED BY <1>1, GuiInvariance, PTL

HIDE GuiAssumption

----------------------------------------------------------------------------
(* The applications of Path B.                                             *)

LEMMA LinuxSizes ==
    /\ VISIBLE_ROWS \in Nat
    /\ VISIBLE_LINES \in Nat /\ VISIBLE_LINES >= 1
    /\ ROWS \in Nat /\ ROWS >= 1 /\ COLS \in Nat /\ COLS >= 1 /\ TAB \in Nat /\ TAB >= 1
BY LinuxAssumption

LEMMA LeastOf ==
    ASSUME NEW S, S \subseteq Nat, S # {}
    PROVE  \E x \in S : \A y \in S : x <= y
<1>1. PICK x \in S : \A y \in S : ~ (<<y, x>> \in OpToRel(<, Nat))
  BY NatLessThanWellFounded, WFMin
<1>2. \A y \in S : ~ (y < x)
  BY <1>1 DEF OpToRel
<1> QED BY <1>2

(* TextEdit.                                                               *)
Letters == {"x", "newline"}
Editor(b, c, s, d, k, f, t) ==
    [buf |-> b, cur |-> c, scroll |-> s, dirty |-> d, ctrl |-> k, file |-> f, torn |-> t]
EditorOk(e) ==
    /\ e = Editor(e.buf, e.cur, e.scroll, e.dirty, e.ctrl, e.file, e.torn)
    /\ e.buf \in Seq(Letters) /\ e.cur \in Nat /\ e.cur <= Len(e.buf) /\ e.scroll \in Int
    /\ e.file \in Seq(Letters) /\ e.dirty \in BOOLEAN /\ e.torn \in BOOLEAN
    /\ e.dirty = TRUE \/ e.torn = TRUE \/ e.file = e.buf

LEMMA EditorFields ==
    ASSUME NEW b, NEW c, NEW s, NEW d, NEW k, NEW f, NEW t
    PROVE  /\ Editor(b, c, s, d, k, f, t).buf = b /\ Editor(b, c, s, d, k, f, t).cur = c
           /\ Editor(b, c, s, d, k, f, t).scroll = s /\ Editor(b, c, s, d, k, f, t).dirty = d
           /\ Editor(b, c, s, d, k, f, t).ctrl = k /\ Editor(b, c, s, d, k, f, t).file = f
           /\ Editor(b, c, s, d, k, f, t).torn = t
BY DEF Editor

LEMMA CursorMoved ==
    ASSUME NEW e, EditorOk(e), NEW c \in Nat, c <= Len(e.buf)
    PROVE  EditorOk([e EXCEPT !.cur = c])
<1>1. [e EXCEPT !.cur = c] = Editor(e.buf, c, e.scroll, e.dirty, e.ctrl, e.file, e.torn)
  BY DEF EditorOk, Editor
<1> QED BY <1>1, EditorFields DEF EditorOk

\* The number of line ends before the caret, as a function of text and place.
LinesTo(text, at) ==
    LET n[i \in 0..at] == IF i = 0 THEN 0 ELSE n[i - 1] + IF text[i] = "newline" THEN 1 ELSE 0
    IN  n[at]

LEMMA LinesCounted ==
    ASSUME NEW text, NEW at \in Nat
    PROVE  LinesTo(text, at) \in Nat /\ (at = 0 => LinesTo(text, at) = 0)
<1> DEFINE Step(h, i) == IF i = 0 THEN 0 ELSE h[i - 1] + IF text[i] = "newline" THEN 1 ELSE 0
           Counts(h, k) == h = [i \in 0..k |-> Step(h, i)] /\ \A i \in 0..k : h[i] \in Nat
           Bad == {k \in Nat : ~ \E n : Counts(n, k)}
<1>1. Bad = {}
  <2> SUFFICES ASSUME Bad # {} PROVE FALSE
    OBVIOUS
  <2>1. PICK k \in Bad : \A j \in Bad : k <= j
    BY LeastOf
  <2>2. CASE k = 0
    <3>1. [i \in 0..0 |-> 0] = [i \in 0..0 |-> Step([j \in 0..0 |-> 0], i)]
      OBVIOUS
    <3>2. Counts([i \in 0..0 |-> 0], 0)
      BY <3>1
    <3> QED BY <2>2, <3>2
  <2>3. CASE k # 0
    <3>1. k \in Nat /\ k - 1 \in Nat /\ ~ (k <= k - 1)
      BY <2>3
    <3>2. k - 1 \notin Bad
      BY <2>1, <3>1
    <3>3. PICK f : Counts(f, k - 1)
      BY <3>1, <3>2
    <3>4. PICK g : g = [i \in 0..k |-> IF i < k THEN f[i] ELSE Step(f, k)]
      OBVIOUS
    <3>5. /\ \A i \in 0..k - 1 : g[i] = f[i] /\ f[i] = Step(f, i) /\ f[i] \in Nat
          /\ g[k] = Step(f, k)
      BY <3>1, <3>3, <3>4
    <3>6. \A i \in 0..k : Step(g, i) = Step(f, i)
      <4> SUFFICES ASSUME NEW i \in 0..k PROVE Step(g, i) = Step(f, i)
        OBVIOUS
      <4>1. CASE i = 0
        BY <4>1
      <4>2. CASE i # 0
        <5>1. g[i - 1] = f[i - 1]
          <6>1. i - 1 \in 0..k - 1
            BY <3>1, <4>2
          <6> QED BY <3>5, <6>1
        <5> QED BY <4>2, <5>1
      <4> QED BY <4>1, <4>2
    <3>7. \A i \in 0..k : g[i] = Step(g, i) /\ g[i] \in Nat
      <4> SUFFICES ASSUME NEW i \in 0..k PROVE g[i] = Step(g, i) /\ g[i] \in Nat
        OBVIOUS
      <4>1. CASE i \in 0..k - 1
        BY <3>5, <3>6, <4>1
      <4>2. CASE i = k
        <5>1. k - 1 \in 0..k - 1
          BY <3>1
        <5>2. f[k - 1] \in Nat
          BY <3>5, <5>1
        <5>3. Step(f, k) \in Nat
          BY <2>3, <5>2
        <5> QED BY <3>5, <3>6, <4>2, <5>3
      <4>3. i \in 0..k - 1 \/ i = k
        BY <3>1
      <4> QED BY <4>1, <4>2, <4>3
    <3>8. g = [i \in 0..k |-> Step(g, i)]
      <4> HIDE DEF Step
      <4>1. g = [i \in 0..k |-> g[i]]
        BY <3>4
      <4> QED BY <3>7, <4>1
    <3>9. Counts(g, k)
      BY <3>7, <3>8
    <3> QED BY <3>9
  <2> QED BY <2>2, <2>3
<1>2. \E n : Counts(n, at)
  BY <1>1
<1> DEFINE N == CHOOSE n : n = [i \in 0..at |-> Step(n, i)]
<1>3. N = [i \in 0..at |-> Step(N, i)]
  BY <1>2
<1>4. LinesTo(text, at) = N[at]
  BY DEF LinesTo
<1> DEFINE Off == {k \in 0..at : ~ (N[k] \in Nat /\ (k = 0 => N[k] = 0))}
<1>5. Off = {}
  <2> SUFFICES ASSUME Off # {} PROVE FALSE
    OBVIOUS
  <2>1. PICK k \in Off : \A j \in Off : k <= j
    <3>1. Off \subseteq Nat
      OBVIOUS
    <3> QED BY <3>1, LeastOf
  <2>2. N[k] = Step(N, k)
    <3> HIDE DEF N, Step
    <3> QED BY <1>3
  <2>3. k # 0
    <3> HIDE DEF N
    <3> QED BY <2>2
  <2>4. k - 1 \in 0..at /\ k - 1 \notin Off
    <3> HIDE DEF N
    <3>1. k \in 0..at /\ ~ (k <= k - 1)
      OBVIOUS
    <3> QED BY <2>1, <2>3, <3>1
  <2>5. N[k - 1] \in Nat
    <3> HIDE DEF N
    <3> QED BY <2>4
  <2>6. N[k] \in Nat
    <3> HIDE DEF N
    <3> QED BY <2>2, <2>3, <2>5
  <2> QED
    <3> HIDE DEF N
    <3> QED BY <2>3, <2>6
<1> HIDE DEF N
<1> QED BY <1>4, <1>5

LEMMA CaretAt ==
    ASSUME NEW e PROVE CaretLine(e) = LinesTo(e.buf, e.cur)
BY DEF CaretLine, LinesTo

\* find_line_start and find_line_end stay in the text.
LEMMA LineStartIn ==
    ASSUME NEW e, NEW off \in Nat
    PROVE  LineStart(e, off) \in 0..off
<1> DEFINE S == {k \in 0..off : off - k = 0 \/ e.buf[off - k] = "newline"}
<1>1. S \subseteq Nat /\ S # {}
  <2>1. off \in S
    OBVIOUS
  <2> QED BY <2>1
<1>2. PICK k \in S : \A j \in S : k <= j
  BY <1>1, LeastOf
<1>3. PICK s \in 0..off : s = off - k
  OBVIOUS
<1>4. s = 0 \/ e.buf[s] = "newline"
  BY <1>3
<1>5. \A i \in s + 1..off : e.buf[i] # "newline"
  <2> SUFFICES ASSUME NEW i \in s + 1..off, e.buf[i] = "newline" PROVE FALSE
    OBVIOUS
  <2>1. off - i \in 0..off /\ off - (off - i) = i /\ ~ (k <= off - i)
    BY <1>3
  <2>2. off - i \in S
    BY <2>1
  <2> QED BY <1>2, <2>1, <2>2
<1> QED BY <1>4, <1>5 DEF LineStart

LEMMA LineEndIn ==
    ASSUME NEW e, Len(e.buf) \in Nat, NEW off \in 0..Len(e.buf)
    PROVE  LineEnd(e, off) \in off..Len(e.buf)
<1> DEFINE S == {t \in off..Len(e.buf) : t = Len(e.buf) \/ e.buf[t + 1] = "newline"}
<1>1. S \subseteq Nat /\ S # {}
  <2>1. Len(e.buf) \in S
    OBVIOUS
  <2> QED BY <2>1
<1>2. PICK t \in S : \A j \in S : t <= j
  BY <1>1, LeastOf
<1>3. \A i \in off + 1..t : e.buf[i] # "newline"
  <2> SUFFICES ASSUME NEW i \in off + 1..t, e.buf[i] = "newline" PROVE FALSE
    OBVIOUS
  <2>1. i - 1 \in off..Len(e.buf) /\ (i - 1) + 1 = i /\ ~ (t <= i - 1)
    OBVIOUS
  <2>2. i - 1 \in S
    BY <2>1
  <2> QED BY <1>2, <2>1, <2>2
<1> QED BY <1>3 DEF LineEnd

LEMMA Edited ==
    ASSUME NEW e, EditorOk(e), NEW text \in Seq(Letters), NEW c \in Nat, c <= Len(text)
    PROVE  EditorOk([e EXCEPT !.buf = text, !.cur = c, !.dirty = TRUE])
<1>1. PICK yes \in BOOLEAN : yes = TRUE
  OBVIOUS
<1>2. [e EXCEPT !.buf = text, !.cur = c, !.dirty = yes]
         = Editor(text, c, e.scroll, yes, e.ctrl, e.file, e.torn)
  <2>1. [e EXCEPT !.buf = text, !.cur = c, !.dirty = yes]
           = [[[e EXCEPT !.buf = text] EXCEPT !.cur = c] EXCEPT !.dirty = yes]
    OBVIOUS
  <2>2. [e EXCEPT !.buf = text] = Editor(text, e.cur, e.scroll, e.dirty, e.ctrl, e.file, e.torn)
    BY DEF EditorOk, Editor
  <2>3. [Editor(text, e.cur, e.scroll, e.dirty, e.ctrl, e.file, e.torn) EXCEPT !.cur = c]
           = Editor(text, c, e.scroll, e.dirty, e.ctrl, e.file, e.torn)
    BY DEF Editor
  <2>4. [Editor(text, c, e.scroll, e.dirty, e.ctrl, e.file, e.torn) EXCEPT !.dirty = yes]
           = Editor(text, c, e.scroll, yes, e.ctrl, e.file, e.torn)
    BY DEF Editor
  <2> QED BY <2>1, <2>2, <2>3, <2>4
<1>3. EditorOk([e EXCEPT !.buf = text, !.cur = c, !.dirty = yes])
  BY <1>1, <1>2, EditorFields DEF EditorOk
<1> QED BY <1>1, <1>3, Zenon

LEMMA InsertOk ==
    ASSUME NEW e, EditorOk(e), NEW ch \in Letters PROVE EditorOk(InsertByte(e, ch))
<1>1. PICK b \in Seq(Letters), c \in Nat, n \in Nat : b = e.buf /\ c = e.cur /\ n = Len(b) /\ c <= n
  BY DEF EditorOk
<1>2. SubSeq(b, 1, c) \in Seq(Letters) /\ Len(SubSeq(b, 1, c)) = c
  BY <1>1
<1>3. SubSeq(b, c + 1, n) \in Seq(Letters) /\ Len(SubSeq(b, c + 1, n)) = n - c
  BY <1>1
<1>4. <<ch>> \in Seq(Letters) /\ Len(<<ch>>) = 1
  OBVIOUS
<1>5. PICK l \in Seq(Letters), r \in Seq(Letters), m \in Seq(Letters) :
          /\ l = SubSeq(b, 1, c) /\ r = SubSeq(b, c + 1, n) /\ m = <<ch>>
          /\ Len(l) = c /\ Len(r) = n - c /\ Len(m) = 1
  BY <1>2, <1>3, <1>4
<1>6. l \o m \in Seq(Letters) /\ Len(l \o m) = c + 1
  BY <1>5, ConcatProperties
<1>7. l \o m \o r \in Seq(Letters) /\ Len(l \o m \o r) = n + 1
  <2>1. Len(l \o m \o r) = (c + 1) + (n - c)
    BY <1>5, <1>6, ConcatProperties
  <2>2. (c + 1) + (n - c) = n + 1
    OBVIOUS
  <2> QED BY <1>6, <2>1, <2>2, ConcatProperties
<1>8. InsertByte(e, ch) = IF n + 1 >= BUF_CAP THEN e
                          ELSE [e EXCEPT !.buf = l \o m \o r, !.cur = c + 1, !.dirty = TRUE]
  BY <1>1, <1>5 DEF InsertByte, EditorOk
<1>9. EditorOk([e EXCEPT !.buf = l \o m \o r, !.cur = c + 1, !.dirty = TRUE])
  <2>1. c + 1 \in Nat /\ c + 1 <= Len(l \o m \o r)
    BY <1>1, <1>7
  <2> QED BY <1>7, <2>1, Edited, Zenon
<1> QED BY <1>8, <1>9

LEMMA DeleteOk ==
    ASSUME NEW e, EditorOk(e) PROVE EditorOk(DeleteByte(e))
<1>1. PICK b \in Seq(Letters), c \in Nat, n \in Nat : b = e.buf /\ c = e.cur /\ n = Len(b) /\ c <= n
  BY DEF EditorOk
<1>2. CASE c = 0
  BY <1>1, <1>2 DEF DeleteByte
<1>3. CASE c # 0
  <2>1. SubSeq(b, 1, c - 1) \in Seq(Letters) /\ Len(SubSeq(b, 1, c - 1)) = c - 1
    BY <1>1, <1>3
  <2>2. SubSeq(b, c + 1, n) \in Seq(Letters) /\ Len(SubSeq(b, c + 1, n)) = n - c
    BY <1>1
  <2>3. PICK l \in Seq(Letters), r \in Seq(Letters) :
            /\ l = SubSeq(b, 1, c - 1) /\ r = SubSeq(b, c + 1, n)
            /\ Len(l) = c - 1 /\ Len(r) = n - c
    BY <2>1, <2>2
  <2>4. l \o r \in Seq(Letters) /\ Len(l \o r) = n - 1
    <3>1. Len(l \o r) = (c - 1) + (n - c)
      BY <2>3, ConcatProperties
    <3>2. (c - 1) + (n - c) = n - 1
      OBVIOUS
    <3> QED BY <3>1, <3>2, ConcatProperties
  <2>5. DeleteByte(e) = [e EXCEPT !.buf = l \o r, !.cur = c - 1, !.dirty = TRUE]
    BY <1>1, <1>3, <2>3 DEF DeleteByte, EditorOk
  <2>6. c - 1 \in Nat /\ c - 1 <= Len(l \o r)
    BY <1>1, <1>3, <2>4
  <2>7. EditorOk([e EXCEPT !.buf = l \o r, !.cur = c - 1, !.dirty = TRUE])
    BY <2>4, <2>6, Edited, Zenon
  <2> QED BY <2>5, <2>7, Zenon
<1> QED BY <1>2, <1>3

LEMMA UpOk ==
    ASSUME NEW e, EditorOk(e) PROVE EditorOk(CursorUp(e))
<1>1. PICK c \in Nat, n \in Nat : c = e.cur /\ n = Len(e.buf) /\ c <= n
  BY DEF EditorOk
<1>2. PICK ls \in 0..c : ls = LineStart(e, c)
  BY LineStartIn
<1>3. CASE ls = 0
  BY <1>1, <1>2, <1>3 DEF CursorUp
<1>4. CASE ls # 0
  <2>1. ls - 1 \in Nat
    BY <1>4
  <2>2. PICK before \in 0..ls - 1 : before = LineStart(e, ls - 1)
    BY <2>1, LineStartIn
  <2>3. PICK d \in Int : d = before + SmallerOf(c - ls, ls - 1 - before)
    <3>1. before + SmallerOf(c - ls, ls - 1 - before) \in Int
      BY <1>1 DEF SmallerOf
    <3> QED BY <3>1
  <2>4. d \in Nat /\ d <= n
    BY <1>1, <2>3 DEF SmallerOf
  <2>5. CursorUp(e) = [e EXCEPT !.cur = d]
    BY <1>1, <1>2, <1>4, <2>2, <2>3 DEF CursorUp
  <2> QED BY <1>1, <2>4, <2>5, CursorMoved
<1> QED BY <1>3, <1>4

LEMMA DownOk ==
    ASSUME NEW e, EditorOk(e) PROVE EditorOk(CursorDown(e))
<1>1. PICK c \in Nat, n \in Nat : c = e.cur /\ n = Len(e.buf) /\ c <= n
  BY DEF EditorOk
<1>2. PICK ls \in 0..c : ls = LineStart(e, c)
  BY LineStartIn
<1>3. PICK le \in c..n : le = LineEnd(e, c)
  <2>1. c \in 0..Len(e.buf) /\ Len(e.buf) \in Nat
    BY <1>1
  <2> QED BY <1>1, <2>1, LineEndIn
<1>4. CASE le + 1 > n
  BY <1>1, <1>3, <1>4 DEF CursorDown
<1>5. CASE ~ (le + 1 > n)
  <2>1. le + 1 \in 0..Len(e.buf) /\ Len(e.buf) \in Nat
    BY <1>1, <1>5
  <2>2. PICK next \in Nat, nd \in Nat : next = le + 1 /\ nd = LineEnd(e, next) /\ next <= nd /\ nd <= n
    <3>1. LineEnd(e, le + 1) \in le + 1..n
      BY <1>1, <2>1, LineEndIn
    <3> QED BY <2>1, <3>1
  <2>3. PICK d \in Int : d = next + SmallerOf(c - ls, nd - next)
    <3>1. next + SmallerOf(c - ls, nd - next) \in Int
      BY DEF SmallerOf
    <3> QED BY <3>1
  <2>4. d \in Nat /\ d <= n
    BY <1>1, <2>2, <2>3 DEF SmallerOf
  <2>5. CursorDown(e) = [e EXCEPT !.cur = d]
    BY <1>1, <1>2, <1>3, <1>5, <2>2, <2>3 DEF CursorDown
  <2> QED BY <1>1, <2>4, <2>5, CursorMoved
<1> QED BY <1>4, <1>5

LEMMA SidewaysOk ==
    ASSUME NEW e, EditorOk(e) PROVE EditorOk(CursorLeft(e)) /\ EditorOk(CursorRight(e))
<1>1. PICK c \in Nat, n \in Nat : c = e.cur /\ n = Len(e.buf) /\ c <= n
  BY DEF EditorOk
<1>2. /\ CursorLeft(e) = [e EXCEPT !.cur = IF c > 0 THEN c - 1 ELSE c]
      /\ CursorRight(e) = [e EXCEPT !.cur = IF c < n THEN c + 1 ELSE c]
  BY <1>1 DEF CursorLeft, CursorRight, EditorOk, Editor
<1>3. PICK a \in Nat, b \in Nat : /\ a = IF c > 0 THEN c - 1 ELSE c
                                  /\ b = IF c < n THEN c + 1 ELSE c
                                  /\ a <= n /\ b <= n
  BY <1>1
<1> QED BY <1>1, <1>2, <1>3, CursorMoved

\* ensure_caret_visible shows the line of the caret, wherever the view was.
LEMMA CaretShown ==
    ASSUME NEW e, EditorOk(e)
    PROVE  LET v == EnsureCaretVisible(e)
           IN  EditorOk(v) /\ CaretLine(v) \in v.scroll..v.scroll + VISIBLE_LINES - 1
<1>1. PICK line \in Nat, s \in Int, size \in Nat :
          line = CaretLine(e) /\ s = e.scroll /\ size = VISIBLE_LINES /\ size >= 1
  <2>1. CaretLine(e) \in Nat
    BY CaretAt, LinesCounted DEF EditorOk
  <2> QED BY <2>1, LinuxSizes DEF EditorOk
<1>2. PICK up \in Int : up = SmallerOf(s, line) /\ up <= line
  <2>1. SmallerOf(s, line) \in Int /\ SmallerOf(s, line) <= line
    BY DEF SmallerOf
  <2> QED BY <2>1
<1>3. PICK top \in Int : top = (IF line >= up + size THEN line - size + 1 ELSE up) /\ line \in top..top + size - 1
  BY <1>1, <1>2
<1>4. EnsureCaretVisible(e) = [e EXCEPT !.scroll = top]
  BY <1>1, <1>2, <1>3 DEF EnsureCaretVisible
<1>5. [e EXCEPT !.scroll = top] = Editor(e.buf, e.cur, top, e.dirty, e.ctrl, e.file, e.torn)
  BY DEF EditorOk, Editor
<1>6. PICK v : v = EnsureCaretVisible(e) /\ v = Editor(e.buf, e.cur, top, e.dirty, e.ctrl, e.file, e.torn)
  BY <1>4, <1>5
<1>7. EditorOk(v)
  BY <1>6, EditorFields DEF EditorOk
<1>8. CaretLine(v) = line /\ v.scroll = top
  BY <1>1, <1>6, EditorFields, CaretAt
<1> QED BY <1>1, <1>3, <1>6, <1>7, <1>8

EditorInv == EditorOk(editor) /\ CaretInView

LEMMA FreshEditor ==
    ASSUME NEW text \in Seq(Letters), editor' = EditorInit(text) PROVE EditorInv'
<1>0. PICK no \in BOOLEAN : no = FALSE
  OBVIOUS
<1>1. editor' = Editor(text, 0, 0, no, no, text, no)
  BY <1>0, Zenon DEF EditorInit, Editor
<1>2. EditorOk(editor')
  <2>1. 0 \in Nat /\ 0 \in Int /\ 0 <= Len(text)
    OBVIOUS
  <2> QED BY <1>1, <2>1, EditorFields DEF EditorOk
<1>3. CaretLine(editor') = 0 /\ editor'.scroll = 0
  BY <1>1, EditorFields, CaretAt, LinesCounted
<1>4. 0 \in 0..0 + VISIBLE_LINES - 1
  BY LinuxSizes
<1> QED BY <1>2, <1>3, <1>4 DEF EditorInv, CaretInView, CaretLine

LEMMA EditorKeeps ==
    ASSUME EditorInv, EditorEvent PROVE EditorInv'
<1>1. ASSUME NEW e, EditorOk(e), editor' = EnsureCaretVisible(e) PROVE EditorInv'
  <2>1. /\ EditorOk(editor')
        /\ CaretLine(editor') \in editor'.scroll..editor'.scroll + VISIBLE_LINES - 1
    BY <1>1, CaretShown
  <2> QED BY <2>1 DEF EditorInv, CaretInView, CaretLine
<1>2. ASSUME NEW move \in {InsertByte(editor, "x"), InsertByte(editor, "newline"), DeleteByte(editor),
                           CursorUp(editor), CursorDown(editor), CursorLeft(editor), CursorRight(editor)},
             editor' = EnsureCaretVisible(move)
      PROVE  EditorInv'
  <2>1. EditorOk(editor) /\ "x" \in Letters /\ "newline" \in Letters
    BY DEF EditorInv, Letters
  <2>2. EditorOk(InsertByte(editor, "x")) /\ EditorOk(InsertByte(editor, "newline"))
    BY <2>1, InsertOk
  <2>3. EditorOk(move)
    BY <1>2, <2>1, <2>2, DeleteOk, UpOk, DownOk, SidewaysOk
  <2> QED BY <1>1, <1>2, <2>3
<1>3. ASSUME NEW k, NEW d \in BOOLEAN, NEW f \in Seq(Letters), NEW t \in BOOLEAN, d = TRUE \/ t = TRUE \/ f = editor.buf,
             editor' = Editor(editor.buf, editor.cur, editor.scroll, d, k, f, t)
      PROVE  EditorInv'
  <2>1. EditorOk(editor')
    BY <1>3, EditorFields DEF EditorInv, EditorOk
  <2>2. CaretLine(editor') = CaretLine(editor) /\ editor'.scroll = editor.scroll
    BY <1>3, EditorFields, CaretAt
  <2> QED BY <2>1, <2>2 DEF EditorInv, CaretInView, CaretLine
<1>4. ASSUME NEW held, editor' = [editor EXCEPT !.ctrl = held] PROVE EditorInv'
  <2>1. editor' = Editor(editor.buf, editor.cur, editor.scroll, editor.dirty, held, editor.file, editor.torn)
    BY <1>4 DEF EditorInv, EditorOk, Editor
  <2> QED BY <1>3, <2>1 DEF EditorInv, EditorOk
<1>5. ASSUME editor' \in Saved(editor) PROVE EditorInv'
  <2>1. CASE editor' = [editor EXCEPT !.file = editor.buf, !.dirty = FALSE, !.torn = FALSE]
    <3>1. editor' = Editor(editor.buf, editor.cur, editor.scroll, FALSE, editor.ctrl, editor.buf, FALSE)
      BY <2>1 DEF EditorInv, EditorOk, Editor
    <3> QED BY <1>3, <3>1 DEF EditorInv, EditorOk
  <2>2. CASE editor' = editor
    BY <2>2 DEF EditorInv, CaretInView, CaretLine
  <2>3. ASSUME NEW n \in 0..Len(editor.buf) - 1,
               editor' = [editor EXCEPT !.file = SubSeq(editor.buf, 1, n), !.torn = TRUE]
        PROVE  EditorInv'
    <3>1. editor' = Editor(editor.buf, editor.cur, editor.scroll, editor.dirty, editor.ctrl,
                           SubSeq(editor.buf, 1, n), TRUE)
      BY <2>3 DEF EditorInv, EditorOk, Editor
    <3>2. SubSeq(editor.buf, 1, n) \in Seq(Letters)
      BY DEF EditorInv, EditorOk
    <3> QED BY <1>3, <3>1, <3>2 DEF EditorInv, EditorOk
  <2> QED BY <1>5, <2>1, <2>2, <2>3 DEF Saved
<1> QED BY <1>2, <1>4, <1>5 DEF EditorEvent

(* Files and Settings.                                                     *)
FolderEntry == [name : STRING, dir : BOOLEAN]
ListingOk(l) ==
    /\ l = [cwd |-> l.cwd, of |-> l.of, selected |-> l.selected, scroll |-> l.scroll, entries |-> l.entries]
    /\ l.of = l.cwd /\ l.selected \in Int /\ l.scroll \in Int
    /\ l.entries \in Seq(FolderEntry)
    /\ l.entries # <<>> => l.selected \in 0..Len(l.entries) - 1

LEMMA LoadedOk ==
    ASSUME NEW cwd, NEW readable PROVE ListingOk(LoadCwd(cwd, readable))
<1>1. PICK es : es = IF cwd \in DOMAIN Folders /\ readable THEN Folders[cwd] ELSE <<>>
  OBVIOUS
<1>2. es \in Seq(FolderEntry)
  <2>1. <<>> \in Seq(FolderEntry)
    OBVIOUS
  <2>2. cwd \in DOMAIN Folders => Folders[cwd] \in Seq(FolderEntry)
    BY LinuxAssumption, Zenon DEF FolderEntry
  <2> QED BY <1>1, <2>1, <2>2, Zenon
<1>3. LoadCwd(cwd, readable) = [cwd |-> cwd, of |-> cwd, selected |-> 0, scroll |-> 0, entries |-> es]
  BY <1>1, Zenon DEF LoadCwd
<1>4. es # <<>> => 0 \in 0..Len(es) - 1
  BY <1>2
<1> QED BY <1>2, <1>3, <1>4 DEF ListingOk

LEMMA SelectedOk ==
    ASSUME NEW l, ListingOk(l), NEW i \in Int,
           l.entries # <<>> => i \in 0..Len(l.entries) - 1
    PROVE  ListingOk([l EXCEPT !.selected = i])
<1>1. [l EXCEPT !.selected = i] = [cwd |-> l.cwd, of |-> l.of, selected |-> i, scroll |-> l.scroll, entries |-> l.entries]
  BY DEF ListingOk
<1> QED BY <1>1 DEF ListingOk

\* handle_key and clamp_selected: the selection is an entry again.
LEMMA ClampOk ==
    ASSUME NEW l, ListingOk(l), NEW step \in {-1, 1}
    PROVE  ListingOk(ClampView([l EXCEPT !.selected = @ + step]))
<1>0. VISIBLE_ROWS \in Int
  BY LinuxSizes
<1>1. PICK n \in Nat, s \in Int, top \in Int, m \in Int :
          n = Len(l.entries) /\ s = l.selected + step /\ top = l.scroll
          /\ (l.entries # <<>> => n >= 1)
          /\ m = (IF (IF s < 0 THEN 0 ELSE s) >= n THEN n - 1 ELSE (IF s < 0 THEN 0 ELSE s))
  BY DEF ListingOk
<1>2. l.entries # <<>> => m \in 0..n - 1
  BY <1>1
<1>3. PICK k : k = [l EXCEPT !.selected = s]
  OBVIOUS
<1>4. k = [cwd |-> l.cwd, of |-> l.of, selected |-> s, scroll |-> top, entries |-> l.entries]
  BY <1>1, <1>3 DEF ListingOk
<1>5. k.selected = s /\ k.entries = l.entries /\ k.scroll = top
  BY <1>4
<1>6. ClampSelected(k) = [k EXCEPT !.selected = m]
  BY <1>1, <1>5 DEF ClampSelected
<1>7. PICK c : c = ClampSelected(k)
  OBVIOUS
<1>8. c = [cwd |-> l.cwd, of |-> l.of, selected |-> m, scroll |-> top, entries |-> l.entries]
  BY <1>4, <1>6, <1>7
<1>9. ListingOk(c) /\ c.scroll = top /\ c.selected = m
  BY <1>1, <1>2, <1>8 DEF ListingOk
<1>10. \E t \in Int : ClampView(k) = [c EXCEPT !.scroll = t]
  <2>1. PICK up \in Int : up = SmallerOf(top, m)
    <3>1. SmallerOf(top, m) \in Int
      BY DEF SmallerOf
    <3> QED BY <3>1
  <2>2. PICK u \in Int : u = IF m >= up + VISIBLE_ROWS THEN m - VISIBLE_ROWS + 1 ELSE up
    <3>1. (IF m >= up + VISIBLE_ROWS THEN m - VISIBLE_ROWS + 1 ELSE up) \in Int
      BY <1>0
    <3> QED BY <3>1
  <2>3. ClampView(k) = [c EXCEPT !.scroll = IF u < 0 THEN 0 ELSE u]
    BY <1>7, <1>9, <2>1, <2>2, Zenon DEF ClampView
  <2>4. (IF u < 0 THEN 0 ELSE u) \in Int
    OBVIOUS
  <2> QED BY <2>3, <2>4
<1>11. PICK t \in Int : ClampView(k) = [c EXCEPT !.scroll = t]
  BY <1>10
<1>12. ClampView(k) = [cwd |-> l.cwd, of |-> l.of, selected |-> m, scroll |-> t, entries |-> l.entries]
  BY <1>8, <1>11
<1>13. ListingOk(ClampView(k))
  BY <1>1, <1>2, <1>12 DEF ListingOk
<1>14. [l EXCEPT !.selected = @ + step] = k
  BY <1>1, <1>3
<1> QED BY <1>13, <1>14

LEMMA FilesKeep ==
    ASSUME ListingOk(listing), FilesEvent PROVE ListingOk(listing')
<1>1. ASSUME NEW name, CdInto(name) PROVE ListingOk(listing')
  <2>1. \E cwd, readable : listing' = LoadCwd(cwd, readable)
    BY <1>1, Zenon DEF CdInto
  <2> QED BY <2>1, LoadedOk
<1>2. ASSUME NEW row, row + listing.scroll \in 0..Len(listing.entries) - 1, Pick(row + listing.scroll)
      PROVE  ListingOk(listing')
  <2>1. PICK i : i = row + listing.scroll
    OBVIOUS
  <2>2. i \in Int /\ (listing.entries # <<>> => i \in 0..Len(listing.entries) - 1)
    BY <1>2, <2>1 DEF ListingOk
  <2>3. CASE EntryAt(i).dir
    BY <1>1, <1>2, <2>1, <2>3, Zenon DEF Pick
  <2>4. CASE ~EntryAt(i).dir
    <3>1. listing' = [listing EXCEPT !.selected = i]
      BY <1>2, <2>1, <2>4, Zenon DEF Pick
    <3> QED BY <2>2, <3>1, SelectedOk
  <2> QED BY <2>3, <2>4
<1>3. ASSUME NEW step \in {-1, 1}, listing' = ClampView([listing EXCEPT !.selected = @ + step])
      PROVE  ListingOk(listing')
  BY <1>3, ClampOk
<1> QED BY <1>1, <1>2, <1>3 DEF FilesEvent

SettingsOk(s) ==
    /\ s = [value |-> s.value, conf |-> s.conf, drag |-> s.drag, faulted |-> s.faulted]
    /\ s.drag = "none" => s.conf = s.value

LEMMA SettingsKeep ==
    ASSUME SettingsOk(settings), SettingsEvent \/ SettingsReopen PROVE SettingsOk(settings')
<1>1. ASSUME NEW w, settings' = Flip(settings, w) PROVE SettingsOk(settings')
  <2>1. PICK s : s = [settings EXCEPT !.value[w] = 1 - @]
    OBVIOUS
  <2>2. \E v : s = [value |-> v, conf |-> settings.conf, drag |-> settings.drag, faulted |-> settings.faulted]
    <3>1. s = [settings EXCEPT !.value = [settings.value EXCEPT ![w] = 1 - @]]
      BY <2>1
    <3> QED BY <3>1 DEF SettingsOk
  <2>3. PICK v : s = [value |-> v, conf |-> settings.conf, drag |-> settings.drag, faulted |-> settings.faulted]
    BY <2>2
  <2>4. settings' = [s EXCEPT !.conf = s.value]
    BY <1>1, <2>1, Zenon DEF Flip, SaveConfig
  <2>5. settings' = [value |-> v, conf |-> v, drag |-> settings.drag, faulted |-> settings.faulted]
    BY <2>3, <2>4
  <2> QED BY <2>5 DEF SettingsOk
<1>2. ASSUME NEW w \in Sliders, NEW v, settings' = [settings EXCEPT !.value[w] = v, !.drag = w] PROVE SettingsOk(settings')
  <2>1. PICK s : s = [settings EXCEPT !.value[w] = v]
    OBVIOUS
  <2>2. \E u : s = [value |-> u, conf |-> settings.conf, drag |-> settings.drag, faulted |-> settings.faulted]
    <3>1. s = [settings EXCEPT !.value = [settings.value EXCEPT ![w] = v]]
      BY <2>1
    <3> QED BY <3>1 DEF SettingsOk
  <2>3. settings' = [s EXCEPT !.drag = w]
    BY <1>2, <2>1
  <2>4. \E u : settings' = [value |-> u, conf |-> settings.conf, drag |-> w, faulted |-> settings.faulted]
    BY <2>2, <2>3
  <2>5. w # "none"
    BY LinuxAssumption
  <2> QED BY <2>4, <2>5 DEF SettingsOk
<1>3. ASSUME settings.drag # "none", settings' = [settings EXCEPT !.faulted = TRUE] PROVE SettingsOk(settings')
  <2>1. PICK yes : yes = TRUE
    OBVIOUS
  <2>2. settings' = [settings EXCEPT !.faulted = yes]
    BY <1>3, <2>1, Zenon
  <2>3. settings' = [value |-> settings.value, conf |-> settings.conf, drag |-> settings.drag, faulted |-> yes]
    BY <2>2 DEF SettingsOk
  <2> QED BY <1>3, <2>3 DEF SettingsOk
<1>4. ASSUME settings' = [SaveConfig(settings) EXCEPT !.drag = "none"] PROVE SettingsOk(settings')
  <2>1. SaveConfig(settings) = [value |-> settings.value, conf |-> settings.value, drag |-> settings.drag, faulted |-> settings.faulted]
    BY DEF SaveConfig, SettingsOk
  <2>2. settings' = [value |-> settings.value, conf |-> settings.value, drag |-> "none", faulted |-> settings.faulted]
    BY <1>4, <2>1
  <2> QED BY <2>2 DEF SettingsOk
<1>5. ASSUME NEW v, settings' = SettingsInit(v) PROVE SettingsOk(settings')
  <2>1. PICK no : no = FALSE
    OBVIOUS
  <2>2. settings' = [value |-> v, conf |-> v, drag |-> "none", faulted |-> no]
    BY <1>5, <2>1, Zenon DEF SettingsInit
  <2> QED BY <2>2 DEF SettingsOk
<1> QED BY <1>1, <1>2, <1>3, <1>4, <1>5, Zenon DEF SettingsEvent, SettingsReopen

(* The screen of Terminal.                                                 *)
Glyph == {" ", "a", "return", "newline", "back", "tab"}
PaperRow == [0..COLS - 1 -> Glyph]
\* How many rows of the paper are above the screen.
Above(paper) == IF Len(paper) > ROWS THEN Len(paper) - ROWS ELSE 0
\* The screen is the end of the paper.
Ends(m, n, a, rows, row, paper) ==
    /\ rows \in [0..m - 1 -> PaperRow] /\ row \in 0..m - 1
    /\ paper \in Seq(PaperRow) /\ n >= 1 /\ row = n - a - 1
    /\ \A r \in 0..m - 1 : rows[r] = IF a + r + 1 <= n THEN paper[a + r + 1] ELSE EmptyRow
Shows(rows, row, paper) == Ends(ROWS, Len(paper), Above(paper), rows, row, paper)

Term(rows, row, col, paper, put) == [rows |-> rows, row |-> row, col |-> col, paper |-> paper, put |-> put]
TermOk(t) ==
    /\ t = Term(t.rows, t.row, t.col, t.paper, t.put)
    /\ t.col \in Nat /\ Shows(t.rows, t.row, t.paper)

LEMMA TermFields ==
    ASSUME NEW rows, NEW row, NEW col, NEW paper, NEW put
    PROVE  LET t == Term(rows, row, col, paper, put)
           IN  t.rows = rows /\ t.row = row /\ t.col = col /\ t.paper = paper /\ t.put = put
BY DEF Term

LEMMA EmptyIsRow == EmptyRow \in PaperRow
<1>1. " " \in Glyph
  BY DEF Glyph
<1> QED BY <1>1 DEF EmptyRow, PaperRow

LEMMA EndShown ==
    ASSUME NEW rows, NEW row, NEW paper, Shows(rows, row, paper)
    PROVE  \E n \in Nat, a \in Nat, m \in Nat :
              /\ n = Len(paper) /\ a = Above(paper) /\ m = ROWS /\ n >= 1 /\ m >= 1
              /\ a = IF n > m THEN n - m ELSE 0
              /\ Ends(m, n, a, rows, row, paper)
<1>1. Len(paper) \in Nat /\ Len(paper) >= 1
  BY DEF Shows, Ends
<1>2. PICK n \in Nat, m \in Nat : n = Len(paper) /\ m = ROWS /\ n >= 1 /\ m >= 1
  BY <1>1, LinuxSizes
<1>3. PICK a \in Nat : a = IF n > m THEN n - m ELSE 0
  <2>1. (IF n > m THEN n - m ELSE 0) \in Nat
    OBVIOUS
  <2> QED BY <2>1
<1>4. a = Above(paper)
  BY <1>2, <1>3 DEF Above
<1> QED BY <1>2, <1>3, <1>4 DEF Shows

\* A line feed, with scroll_up at the end of the screen.
FedRows(rows, row) ==
    IF row + 1 >= ROWS THEN [r \in 0..ROWS - 1 |-> IF r + 1 < ROWS THEN rows[r + 1] ELSE EmptyRow] ELSE rows
FedRow(row) == IF row + 1 >= ROWS THEN ROWS - 1 ELSE row + 1

LEMMA FeedShows ==
    ASSUME NEW rows, NEW row, NEW paper, Shows(rows, row, paper)
    PROVE  Shows(FedRows(rows, row), FedRow(row), Append(paper, EmptyRow))
<1>0. PICK n \in Nat, a \in Nat, m \in Nat :
          /\ n = Len(paper) /\ a = Above(paper) /\ m = ROWS /\ n >= 1 /\ m >= 1
          /\ a = IF n > m THEN n - m ELSE 0
          /\ Ends(m, n, a, rows, row, paper)
  BY EndShown
<1>1. /\ n = Len(paper) /\ a = Above(paper) /\ n >= 1 /\ m = ROWS /\ m >= 1
      /\ a = IF n > m THEN n - m ELSE 0
      /\ row = n - a - 1 /\ row \in 0..m - 1 /\ paper \in Seq(PaperRow)
  BY <1>0 DEF Ends
<1>2. /\ Append(paper, EmptyRow) \in Seq(PaperRow) /\ Len(Append(paper, EmptyRow)) = n + 1
      /\ Append(paper, EmptyRow)[n + 1] = EmptyRow
      /\ \A i \in 1..n : Append(paper, EmptyRow)[i] = paper[i]
  BY <1>1, EmptyIsRow
<1>3. PICK q \in Seq(PaperRow) :
          /\ q = Append(paper, EmptyRow) /\ Len(q) = n + 1 /\ q[n + 1] = EmptyRow
          /\ \A i \in 1..n : q[i] = paper[i]
  BY <1>2
<1>4. PICK b \in Nat : b = Above(q) /\ b = IF n + 1 > m THEN n + 1 - m ELSE 0
  <2>1. (IF n + 1 > m THEN n + 1 - m ELSE 0) \in Nat
    BY ONLY n \in Nat, m \in Nat
  <2>2. Above(q) = IF n + 1 > m THEN n + 1 - m ELSE 0
    BY <1>1, <1>3 DEF Above
  <2> QED BY <2>1, <2>2
<1>5. /\ \A r \in 0..m - 1 : rows[r] \in PaperRow
      /\ rows \in [0..m - 1 -> PaperRow]
      /\ \A r \in 0..m - 1 : rows[r] = IF a + r + 1 <= n THEN paper[a + r + 1] ELSE EmptyRow
  BY <1>0 DEF Ends
<1>6. CASE row + 1 >= m
  <2>1. /\ FedRow(row) = m - 1
        /\ FedRows(rows, row) = [r \in 0..m - 1 |-> IF r + 1 < m THEN rows[r + 1] ELSE EmptyRow]
    BY <1>1, <1>6 DEF FedRow, FedRows
  <2>2. n >= m /\ b = a + 1
    BY <1>1, <1>4, <1>6
  <2>3. PICK f : f = FedRows(rows, row) /\ f \in [0..m - 1 -> PaperRow]
                 /\ \A r \in 0..m - 1 : f[r] = IF r + 1 < m THEN rows[r + 1] ELSE EmptyRow
    <3>1. \A r \in 0..m - 1 : (IF r + 1 < m THEN rows[r + 1] ELSE EmptyRow) \in PaperRow
      <4> SUFFICES ASSUME NEW r \in 0..m - 1, r + 1 < m PROVE rows[r + 1] \in PaperRow
        BY EmptyIsRow
      <4>1. r + 1 \in 0..m - 1
        OBVIOUS
      <4> QED BY <1>5, <4>1
    <3> QED BY <2>1, <3>1
  <2>4. ASSUME NEW r \in 0..m - 1
        PROVE  f[r] = IF b + r + 1 <= n + 1 THEN q[b + r + 1] ELSE EmptyRow
    <3>1. CASE r + 1 < m
      <4>1. r + 1 \in 0..m - 1 /\ a + (r + 1) + 1 = b + r + 1
        BY <2>2, <3>1
      <4>2. b + r + 1 \in 1..n /\ b + r + 1 <= n + 1
        BY <1>1, <2>2, <3>1
      <4>3. f[r] = rows[r + 1] /\ rows[r + 1] = paper[b + r + 1]
        <5>1. f[r] = rows[r + 1]
          BY <2>3, <3>1
        <5>2. a + (r + 1) + 1 <= n
          BY <4>1, <4>2
        <5> QED BY <1>5, <4>1, <5>1, <5>2
      <4> QED BY <1>3, <4>2, <4>3
    <3>2. CASE ~ (r + 1 < m)
      <4>1. b + r + 1 = n + 1
        BY <1>1, <2>2, <3>2
      <4> QED BY <1>3, <2>3, <3>2, <4>1
    <3> QED BY <3>1, <3>2
  <2>5. m - 1 = n + 1 - b - 1 /\ m - 1 \in 0..m - 1
    BY <1>1, <2>2
  <2>6. Ends(m, n + 1, b, f, m - 1, q)
    BY <1>3, <2>3, <2>4, <2>5 DEF Ends
  <2> QED BY <1>1, <1>3, <1>4, <2>1, <2>3, <2>6 DEF Shows
<1>7. CASE ~ (row + 1 >= m)
  <2>1. FedRow(row) = row + 1 /\ FedRows(rows, row) = rows
    BY <1>1, <1>7 DEF FedRow, FedRows
  <2>2. n < m /\ a = 0 /\ b = 0 /\ row = n - 1
    BY <1>1, <1>4, <1>7
  <2>3. ASSUME NEW r \in 0..m - 1
        PROVE  rows[r] = IF b + r + 1 <= n + 1 THEN q[b + r + 1] ELSE EmptyRow
    <3>1. CASE r + 1 <= n
      <4>1. rows[r] = paper[r + 1] /\ r + 1 \in 1..n
        BY <1>5, <2>2, <3>1
      <4>2. q[r + 1] = paper[r + 1]
        BY <1>3, <4>1
      <4> QED BY <2>2, <3>1, <4>1, <4>2
    <3>2. CASE r = n
      BY <1>3, <1>5, <2>2, <3>2
    <3>3. CASE r > n
      BY <1>5, <2>2, <3>3
    <3> QED BY <3>1, <3>2, <3>3
  <2>4. n = n + 1 - b - 1 /\ n \in 0..m - 1 /\ row + 1 = n
    BY <1>1, <2>2
  <2>5. Ends(m, n + 1, b, rows, row + 1, q)
    BY <1>3, <1>5, <2>3, <2>4 DEF Ends
  <2> QED BY <1>1, <1>3, <1>4, <2>1, <2>5 DEF Shows
<1> QED BY <1>6, <1>7

\* What PutChar does with a printable character, and what Printed does with it.
Placed(w, ch) == [w EXCEPT !.rows[w.row][w.col] = ch, !.col = @ + 1]
Marked(rows, row, col, ch) == [rows EXCEPT ![row][col] = ch]

LEMMA PutShows ==
    ASSUME NEW rows, NEW row, NEW paper, Shows(rows, row, paper), NEW c \in 0..COLS - 1, NEW ch \in Glyph
    PROVE  Shows(Marked(rows, row, c, ch), row, Marked(paper, Len(paper), c, ch))
<1>0. PICK n \in Nat, a \in Nat, m \in Nat :
          /\ n = Len(paper) /\ a = Above(paper) /\ m = ROWS /\ n >= 1 /\ m >= 1
          /\ a = IF n > m THEN n - m ELSE 0
          /\ Ends(m, n, a, rows, row, paper)
  BY EndShown
<1>1. /\ n = Len(paper) /\ a = Above(paper) /\ n >= 1 /\ m = ROWS /\ m >= 1
      /\ a = IF n > m THEN n - m ELSE 0
      /\ row = n - a - 1 /\ row \in 0..m - 1 /\ paper \in Seq(PaperRow)
  BY <1>0 DEF Ends
<1>2. /\ rows \in [0..m - 1 -> PaperRow] /\ paper \in Seq(PaperRow)
      /\ \A r \in 0..m - 1 : rows[r] = IF a + r + 1 <= n THEN paper[a + r + 1] ELSE EmptyRow
  BY <1>0 DEF Ends
<1>3. rows[row] = paper[n] /\ rows[row] \in PaperRow
  BY <1>1, <1>2
<1>4. PICK line : line = [rows[row] EXCEPT ![c] = ch]
  OBVIOUS
<1>5. line \in PaperRow
  BY <1>3, <1>4 DEF PaperRow
<1>6. PICK f : f = [rows EXCEPT ![row] = line] /\ f \in [0..m - 1 -> PaperRow]
               /\ f[row] = line /\ \A r \in 0..m - 1 : r # row => f[r] = rows[r]
  <2>1. [rows EXCEPT ![row] = line] \in [0..m - 1 -> PaperRow]
    BY <1>2, <1>5
  <2>2. [rows EXCEPT ![row] = line][row] = line
    BY <1>1, <1>2
  <2>3. \A r \in 0..m - 1 : r # row => [rows EXCEPT ![row] = line][r] = rows[r]
    BY <1>2
  <2> QED BY <2>1, <2>2, <2>3
<1>7. PICK q : q = [paper EXCEPT ![n] = line] /\ q \in Seq(PaperRow) /\ Len(q) = n
               /\ q[n] = line /\ \A i \in 1..n : i # n => q[i] = paper[i]
  <2>1. [paper EXCEPT ![n] = line] \in Seq(PaperRow) /\ Len([paper EXCEPT ![n] = line]) = n
    BY <1>1, <1>2, <1>5
  <2>2. n \in 1..n
    BY <1>1
  <2>3. /\ [paper EXCEPT ![n] = line][n] = line
        /\ \A i \in 1..n : i # n => [paper EXCEPT ![n] = line][i] = paper[i]
    BY <1>1, <1>2, <2>2
  <2> QED BY <2>1, <2>3
<1>8. Above(q) = a
  BY <1>1, <1>7 DEF Above
<1>9. ASSUME NEW r \in 0..m - 1
      PROVE  f[r] = IF a + r + 1 <= n THEN q[a + r + 1] ELSE EmptyRow
  <2>1. CASE r = row
    <3>1. a + r + 1 = n
      BY <1>1, <2>1
    <3> QED BY <1>6, <1>7, <2>1, <3>1
  <2>2. CASE r # row
    <3>1. f[r] = rows[r] /\ a + r + 1 # n
      BY <1>1, <1>6, <2>2
    <3>2. a + r + 1 <= n => a + r + 1 \in 1..n
      BY <1>1
    <3> QED BY <1>2, <1>7, <3>1, <3>2
  <2> QED BY <2>1, <2>2
<1>10. /\ [rows EXCEPT ![row][c] = ch] = f
       /\ [paper EXCEPT ![Len(paper)][c] = ch] = q
  BY <1>1, <1>3, <1>4, <1>6, <1>7
<1>11. Ends(m, n, a, f, row, q)
  BY <1>1, <1>6, <1>7, <1>9 DEF Ends
<1> QED BY <1>1, <1>7, <1>8, <1>10, <1>11 DEF Shows, Marked

LEMMA FedTerm ==
    ASSUME NEW s, TermOk(s)
    PROVE  Wrapped([s EXCEPT !.col = 0, !.row = @ + 1])
             = Term(FedRows(s.rows, s.row), FedRow(s.row), 0, s.paper, s.put)
<1>1. PICK m \in Nat, row \in Nat : m = ROWS /\ row = s.row
  BY LinuxSizes DEF TermOk, Shows, Ends
<1>2. PICK t : t = [s EXCEPT !.col = 0, !.row = @ + 1]
  OBVIOUS
<1>3. t = Term(s.rows, row + 1, 0, s.paper, s.put)
  <2>1. t = [[s EXCEPT !.col = 0] EXCEPT !.row = row + 1]
    BY <1>1, <1>2 DEF TermOk, Term
  <2>2. [s EXCEPT !.col = 0] = Term(s.rows, s.row, 0, s.paper, s.put)
    BY DEF TermOk, Term
  <2>3. [Term(s.rows, s.row, 0, s.paper, s.put) EXCEPT !.row = row + 1] = Term(s.rows, row + 1, 0, s.paper, s.put)
    BY DEF Term
  <2> QED BY <2>1, <2>2, <2>3
<1>4. t.rows = s.rows /\ t.row = row + 1
  BY <1>3, TermFields
<1>5. CASE row + 1 >= m
  <2>1. PICK f : f = [r \in 0..ROWS - 1 |-> IF r + 1 < ROWS THEN s.rows[r + 1] ELSE EmptyRow]
    OBVIOUS
  <2>2. FedRows(s.rows, s.row) = f /\ FedRow(s.row) = ROWS - 1
    BY <1>1, <1>5, <2>1 DEF FedRows, FedRow
  <2>3. Wrapped(t) = [t EXCEPT !.rows = f, !.row = ROWS - 1]
    BY <1>1, <1>4, <1>5, <2>1 DEF Wrapped, ScrollUp
  <2>4. [t EXCEPT !.rows = f, !.row = ROWS - 1] = [[t EXCEPT !.rows = f] EXCEPT !.row = ROWS - 1]
    OBVIOUS
  <2>5. [t EXCEPT !.rows = f] = Term(f, row + 1, 0, s.paper, s.put)
    BY <1>3 DEF Term
  <2>6. [Term(f, row + 1, 0, s.paper, s.put) EXCEPT !.row = ROWS - 1] = Term(f, ROWS - 1, 0, s.paper, s.put)
    BY DEF Term
  <2> QED BY <1>2, <2>2, <2>3, <2>4, <2>5, <2>6
<1>6. CASE ~ (row + 1 >= m)
  <2>1. FedRows(s.rows, s.row) = s.rows /\ FedRow(s.row) = row + 1
    BY <1>1, <1>6 DEF FedRows, FedRow
  <2>2. Wrapped(t) = t
    BY <1>1, <1>4, <1>6 DEF Wrapped
  <2> QED BY <1>2, <1>3, <2>1, <2>2
<1> QED BY <1>5, <1>6

LEMMA ColumnSet ==
    ASSUME NEW s, TermOk(s), NEW c PROVE [s EXCEPT !.col = c] = Term(s.rows, s.row, c, s.paper, s.put)
BY DEF TermOk, Term

LEMMA Drained ==
    ASSUME NEW t, NEW rows, NEW row, NEW col \in Nat, NEW old, NEW put, NEW paper,
           t = Term(rows, row, col, old, put), Shows(rows, row, paper)
    PROVE  TermOk([t EXCEPT !.paper = paper, !.put = @ + 1])
<1>1. PICK n : n = put + 1
  OBVIOUS
<1>2. t.put = put
  BY TermFields
<1>3. [t EXCEPT !.paper = paper, !.put = @ + 1] = [[t EXCEPT !.paper = paper] EXCEPT !.put = @ + 1]
  OBVIOUS
<1>4. [t EXCEPT !.paper = paper] = Term(rows, row, col, paper, put)
  BY DEF Term
<1>5. [Term(rows, row, col, paper, put) EXCEPT !.put = @ + 1] = Term(rows, row, col, paper, n)
  BY <1>1 DEF Term
<1>6. [t EXCEPT !.paper = paper, !.put = @ + 1] = Term(rows, row, col, paper, n)
  BY <1>3, <1>4, <1>5
<1>7. PICK v : v = Term(rows, row, col, paper, n)
  OBVIOUS
<1>8. v.rows = rows /\ v.row = row /\ v.col = col /\ v.paper = paper /\ v.put = n
  BY <1>7, TermFields
<1>9. TermOk(v)
  BY <1>7, <1>8 DEF TermOk
<1> QED BY <1>6, <1>7, <1>9

LEMMA PutInto ==
    ASSUME NEW a, NEW r, NEW c \in Nat, NEW p, NEW u, NEW ch
    PROVE  Placed(Term(a, r, c, p, u), ch) = Term(Marked(a, r, c, ch), r, c + 1, p, u)
<1>0. PICK w : w = Term(a, r, c, p, u)
  OBVIOUS
<1>1. w.row = r /\ w.col = c /\ w.rows = a
  BY <1>0, TermFields
<1>2. PICK b : b = [a EXCEPT ![r][c] = ch]
  OBVIOUS
<1>3. [w EXCEPT !.rows[w.row][w.col] = ch, !.col = @ + 1] = [[w EXCEPT !.rows = b] EXCEPT !.col = @ + 1]
  BY <1>1, <1>2
<1>4. [w EXCEPT !.rows = b] = Term(b, r, c, p, u)
  BY <1>0 DEF Term
<1>5. [Term(b, r, c, p, u) EXCEPT !.col = @ + 1] = Term(b, r, c + 1, p, u)
  BY DEF Term
<1> QED BY <1>0, <1>2, <1>3, <1>4, <1>5 DEF Placed, Marked

LEMMA AppendedLine ==
    ASSUME NEW paper \in Seq(PaperRow), NEW ch \in Glyph
    PROVE  Append(paper, [EmptyRow EXCEPT ![0] = ch])
             = Marked(Append(paper, EmptyRow), Len(Append(paper, EmptyRow)), 0, ch)
<1>1. Len(paper) \in Nat
  OBVIOUS
<1>2. PICK n \in Nat : n = Len(paper)
  BY <1>1
<1>3. PICK line : line = [EmptyRow EXCEPT ![0] = ch]
  OBVIOUS
<1>4. line \in PaperRow
  BY <1>3, EmptyIsRow DEF PaperRow
<1>5. PICK q : q = Append(paper, EmptyRow)
  OBVIOUS
<1>6. /\ q \in Seq(PaperRow) /\ Len(q) = n + 1 /\ q[n + 1] = EmptyRow
      /\ \A i \in 1..n : q[i] = paper[i]
  BY <1>2, <1>5, EmptyIsRow
<1>7. PICK p : p = Append(paper, line)
  OBVIOUS
<1>8. /\ p \in Seq(PaperRow) /\ Len(p) = n + 1 /\ p[n + 1] = line
      /\ \A i \in 1..n : p[i] = paper[i]
  BY <1>2, <1>4, <1>7
<1>9. [q EXCEPT ![n + 1] = line] \in Seq(PaperRow) /\ Len([q EXCEPT ![n + 1] = line]) = n + 1
  BY <1>4, <1>6
<1>10. ASSUME NEW i \in 1..n + 1 PROVE p[i] = [q EXCEPT ![n + 1] = line][i]
  <2>1. CASE i = n + 1
    BY <1>6, <1>8, <2>1
  <2>2. CASE i # n + 1
    <3>1. i \in 1..n
      BY <1>2, <2>2
    <3>2. [q EXCEPT ![n + 1] = line][i] = q[i]
      BY <1>6, <2>2
    <3> QED BY <1>6, <1>8, <3>1, <3>2
  <2> QED BY <2>1, <2>2
<1>11. p = [q EXCEPT ![n + 1] = line]
  BY <1>8, <1>9, <1>10, SeqEqual
<1>12. n + 1 \in DOMAIN q
  BY <1>2, <1>6
<1>13. Marked(q, n + 1, 0, ch) = [q EXCEPT ![n + 1] = line]
  BY <1>3, <1>6, <1>12 DEF Marked
<1> QED BY <1>3, <1>5, <1>6, <1>7, <1>11, <1>13

LEMMA TermKeeps ==
    ASSUME TermOk(terminal), NEW ch \in {"a", "return", "newline", "back", "tab"}, DrainPty(ch)
    PROVE  TermOk(terminal')
<1>1. PICK s : s = terminal
  OBVIOUS
<1>2. PICK rows, row, paper, put, col : rows = s.rows /\ row = s.row /\ paper = s.paper /\ put = s.put /\ col = s.col
  OBVIOUS
<1>3. TermOk(s) /\ s = Term(rows, row, col, paper, put) /\ Shows(rows, row, paper) /\ col \in Nat
  BY <1>1, <1>2 DEF TermOk
<1>4. PICK t, q : t = PutChar(s, ch) /\ q = Printed(s, ch)
  OBVIOUS
<1>5. terminal' = [t EXCEPT !.paper = q, !.put = @ + 1]
  BY <1>1, <1>4, Zenon DEF DrainPty
<1>6. PICK size \in Nat : size = COLS /\ size >= 1
  BY LinuxSizes
<1>7. CASE ch \in {"return", "back", "tab"}
  <2>1. \E c \in Nat : t = [s EXCEPT !.col = c]
    <3>1. CASE ch = "return"
      BY <1>4, <3>1 DEF PutChar
    <3>2. CASE ch = "back"
      <4>1. PICK c \in Nat : c = IF col > 0 THEN col - 1 ELSE col
        <5>1. (IF col > 0 THEN col - 1 ELSE col) \in Nat
          BY <1>3
        <5> QED BY <5>1
      <4>2. t = [s EXCEPT !.col = IF @ > 0 THEN @ - 1 ELSE @]
        BY <1>4, <3>2 DEF PutChar
      <4>3. t = [s EXCEPT !.col = c]
        BY <1>2, <4>1, <4>2
      <4> QED BY <4>3
    <3>3. CASE ch = "tab"
      <4>1. PICK tab \in Nat : tab = TAB /\ tab >= 1
        BY LinuxSizes
      <4>2. (col + tab) \div tab \in Nat
        BY <1>3, <4>1
      <4>3. \A a, b \in Nat : a * b \in Nat
        OBVIOUS
      <4>4. PICK c \in Nat : c = ((col + tab) \div tab) * tab
        BY <4>2, <4>3
      <4>5. t = [s EXCEPT !.col = ((@ + TAB) \div TAB) * TAB]
        BY <1>4, <3>3 DEF PutChar
      <4>6. t = [s EXCEPT !.col = c]
        BY <1>2, <4>1, <4>4, <4>5, Zenon
      <4> QED BY <4>6
    <3> QED BY <1>7, <3>1, <3>2, <3>3
  <2>2. PICK c \in Nat : t = [s EXCEPT !.col = c]
    BY <2>1
  <2>3. t = Term(rows, row, c, paper, put)
    BY <1>2, <1>3, <2>2, ColumnSet
  <2>4. q = paper
    BY <1>2, <1>4, <1>7 DEF Printed
  <2> QED BY <1>3, <1>5, <2>3, <2>4, Drained
<1>8. CASE ch = "newline"
  <2>1. t = Term(FedRows(rows, row), FedRow(row), 0, paper, put)
    <3>1. t = Wrapped([s EXCEPT !.col = 0, !.row = @ + 1])
      BY <1>4, <1>8 DEF PutChar
    <3> QED BY <1>2, <1>3, <3>1, FedTerm
  <2>2. q = Append(paper, EmptyRow)
    BY <1>2, <1>4, <1>8 DEF Printed
  <2>3. Shows(FedRows(rows, row), FedRow(row), q)
    BY <1>3, <2>2, FeedShows
  <2> QED BY <1>5, <2>1, <2>3, Drained
<1>9. CASE ch = "a"
  <2>1. PICK w : w = IF s.col < COLS THEN s ELSE Wrapped([s EXCEPT !.col = 0, !.row = @ + 1])
    OBVIOUS
  <2>2. t = Placed(w, ch)
    BY <1>4, <1>9, <2>1 DEF PutChar, Placed
  <2>3. ch \in Glyph
    BY <1>9 DEF Glyph
  <2>4. q = IF s.col >= COLS THEN Append(paper, [EmptyRow EXCEPT ![0] = ch]) ELSE Marked(paper, Len(paper), col, ch)
    BY <1>2, <1>4, <1>9 DEF Printed, Marked
  <2>5. CASE col < size
    <3>a. s.col < COLS /\ ~ (s.col >= COLS)
      <4>1. col \in Nat
        BY <1>3
      <4> QED BY ONLY <4>1, size \in Nat, <1>2, <1>6, <2>5
    <3>b. w = s
      BY <2>1, <3>a, Zenon
    <3>c. q = Marked(paper, Len(paper), col, ch)
      BY <2>4, <3>a, Zenon
    <3>1. w = Term(rows, row, col, paper, put)
      BY <1>3, <3>b, Zenon
    <3>2. t = Term(Marked(rows, row, col, ch), row, col + 1, paper, put)
      <4>1. col \in Nat
        BY <1>3
      <4>2. Placed(Term(rows, row, col, paper, put), ch) = Term(Marked(rows, row, col, ch), row, col + 1, paper, put)
        BY <4>1, PutInto
      <4> QED BY <2>2, <3>1, <4>2, Zenon
    <3>3. col \in 0..COLS - 1
      BY <1>3, <1>6, <2>5
    <3>4. Shows(Marked(rows, row, col, ch), row, q)
      BY <1>3, <2>3, <3>c, <3>3, PutShows
    <3>5. col + 1 \in Nat
      BY <1>3
    <3> QED BY <1>5, <3>2, <3>4, <3>5, Drained
  <2>6. CASE ~ (col < size)
    <3>a. ~ (s.col < COLS) /\ s.col >= COLS
      <4>1. col \in Nat
        BY <1>3
      <4> QED BY ONLY <4>1, size \in Nat, <1>2, <1>6, <2>6
    <3>b. 0 \in Nat
      OBVIOUS
    <3>1. w = Term(FedRows(rows, row), FedRow(row), 0, paper, put)
      <4>1. w = Wrapped([s EXCEPT !.col = 0, !.row = @ + 1])
        BY <2>1, <3>a, Zenon
      <4> QED BY <1>2, <1>3, <4>1, FedTerm
    <3>2. PICK f, r : f = FedRows(rows, row) /\ r = FedRow(row)
      OBVIOUS
    <3>3. Shows(f, r, Append(paper, EmptyRow))
      BY <1>3, <3>2, FeedShows
    <3>4. t = Term(Marked(f, r, 0, ch), r, 0 + 1, paper, put)
      <4>1. Placed(Term(f, r, 0, paper, put), ch) = Term(Marked(f, r, 0, ch), r, 0 + 1, paper, put)
        BY <3>b, PutInto
      <4> QED BY <2>2, <3>1, <3>2, <4>1, Zenon
    <3>5. q = Marked(Append(paper, EmptyRow), Len(Append(paper, EmptyRow)), 0, ch)
      <4>1. q = Append(paper, [EmptyRow EXCEPT ![0] = ch])
        BY <2>4, <3>a, Zenon
      <4>2. paper \in Seq(PaperRow)
        BY <1>3 DEF Shows, Ends
      <4> QED BY <2>3, <4>1, <4>2, AppendedLine
    <3>6. 0 \in 0..COLS - 1
      BY <1>6
    <3>7. Shows(Marked(f, r, 0, ch), r, q)
      BY <2>3, <3>3, <3>5, <3>6, PutShows
    <3>8. 0 + 1 \in Nat
      OBVIOUS
    <3> QED BY <1>5, <3>4, <3>7, <3>8, Drained
  <2> QED BY <2>5, <2>6
<1> QED BY <1>7, <1>8, <1>9

LinuxInv == EditorInv /\ ListingOk(listing) /\ SettingsOk(settings) /\ TermOk(terminal)

LEMMA LinuxStarts == LinuxInit => LinuxInv
<1> SUFFICES ASSUME LinuxInit PROVE LinuxInv
  OBVIOUS
<1>1. EditorInv
  <2>1. PICK text \in Seq(Letters) : editor = EditorInit(text)
    <3>1. <<>> \in Seq(Letters)
      OBVIOUS
    <3>2. \A text \in OnDisk : text \in Seq(Letters)
      BY LinuxAssumption DEF Letters
    <3> QED BY <3>1, <3>2 DEF LinuxInit
  <2>2. PICK no \in BOOLEAN : no = FALSE
    OBVIOUS
  <2>3. editor = Editor(text, 0, 0, no, no, text, no)
    BY <2>1, <2>2, Zenon DEF EditorInit, Editor
  <2>4. 0 \in Nat /\ 0 \in Int /\ 0 <= Len(text)
    OBVIOUS
  <2>5. EditorOk(editor)
    BY <2>3, <2>4, EditorFields DEF EditorOk
  <2>6. CaretLine(editor) = 0 /\ editor.scroll = 0
    BY <2>3, EditorFields, CaretAt, LinesCounted
  <2>7. 0 \in 0..0 + VISIBLE_LINES - 1
    BY LinuxSizes
  <2> QED BY <2>5, <2>6, <2>7 DEF EditorInv, CaretInView
<1>2. ListingOk(listing)
  BY LoadedOk DEF LinuxInit
<1>3. SettingsOk(settings)
  <2>1. PICK no, v : no = FALSE /\ v = Defaults
    OBVIOUS
  <2>2. settings = [value |-> v, conf |-> v, drag |-> "none", faulted |-> no]
    BY <2>1, Zenon DEF LinuxInit, SettingsInit
  <2> QED BY <2>2 DEF SettingsOk
<1>4. TermOk(terminal)
  <2>1. PICK rows, paper : rows = [r \in 0..ROWS - 1 |-> EmptyRow] /\ paper = <<EmptyRow>>
    OBVIOUS
  <2>2. terminal = Term(rows, 0, 0, paper, 0)
    BY <2>1, Zenon DEF LinuxInit, BlankTerminal, Term
  <2>3. paper \in Seq(PaperRow) /\ Len(paper) = 1 /\ paper[1] = EmptyRow
    BY <2>1, EmptyIsRow
  <2>4. PICK m \in Nat : m = ROWS /\ m >= 1
    BY LinuxSizes
  <2>5. Above(paper) = 0
    BY <2>3, <2>4 DEF Above
  <2>6. rows \in [0..m - 1 -> PaperRow] /\ \A r \in 0..m - 1 : rows[r] = EmptyRow
    BY <2>1, <2>4, EmptyIsRow
  <2>7. Ends(m, 1, 0, rows, 0, paper)
    <3>1. \A r \in 0..m - 1 : 0 + r + 1 <= 1 => 0 + r + 1 = 1
      OBVIOUS
    <3> QED BY <2>3, <2>4, <2>6, <3>1 DEF Ends
  <2>8. Shows(rows, 0, paper)
    BY <2>3, <2>4, <2>5, <2>7 DEF Shows
  <2> QED BY <2>2, <2>8, TermFields DEF TermOk
<1> QED BY <1>1, <1>2, <1>3, <1>4 DEF LinuxInv

LEMMA LinuxKeeps == LinuxInv /\ [LinuxNext]_linuxVars => LinuxInv'
<1> SUFFICES ASSUME LinuxInv, [LinuxNext]_linuxVars PROVE LinuxInv'
  OBVIOUS
<1>1. CASE EditorEvent
  <2>1. listing' = listing /\ settings' = settings /\ terminal' = terminal
    BY <1>1 DEF EditorEvent
  <2> QED BY <1>1, <2>1, EditorKeeps DEF LinuxInv
<1>2. CASE EditorReopen
  <2>1. listing' = listing /\ settings' = settings /\ terminal' = terminal /\ editor' = EditorInit(editor.file)
    BY <1>2 DEF EditorReopen
  <2>2. editor.file \in Seq(Letters)
    BY DEF LinuxInv, EditorInv, EditorOk
  <2> QED BY <2>1, <2>2, FreshEditor DEF LinuxInv
<1>3. ASSUME editor' = editor PROVE EditorInv'
  BY <1>3 DEF LinuxInv, EditorInv, CaretInView, CaretLine
<1>4. CASE FilesEvent
  <2>1. editor' = editor /\ settings' = settings /\ terminal' = terminal
    BY <1>4 DEF FilesEvent
  <2> QED BY <1>3, <1>4, <2>1, FilesKeep DEF LinuxInv
<1>5. CASE SettingsEvent \/ SettingsReopen
  <2>1. editor' = editor /\ listing' = listing /\ terminal' = terminal
    BY <1>5 DEF SettingsEvent, SettingsReopen
  <2> QED BY <1>3, <1>5, <2>1, SettingsKeep DEF LinuxInv
<1>6. ASSUME NEW ch \in {"a", "return", "newline", "back", "tab"}, DrainPty(ch) PROVE LinuxInv'
  <2>1. editor' = editor /\ listing' = listing /\ settings' = settings
    BY <1>6 DEF DrainPty
  <2> QED BY <1>3, <1>6, <2>1, TermKeeps DEF LinuxInv
<1>7. CASE UNCHANGED linuxVars
  <2>1. editor' = editor /\ listing' = listing /\ settings' = settings /\ terminal' = terminal
    BY <1>7 DEF linuxVars
  <2> QED BY <1>3, <2>1 DEF LinuxInv
<1> QED BY <1>1, <1>2, <1>4, <1>5, <1>6, <1>7 DEF LinuxNext

\* The applications of Path B: TextEdit's marker tells whether the text is on disk and its
\* caret is in view, Files shows the rows of the directory in its header, the settings are
\* in their file outside of a drag, and Terminal's screen is the end of its shell's output.
THEOREM ClientsDoAgree == LinuxSpec => []ClientsAgree
<1>1. LinuxInv => ClientsAgree
  <2> SUFFICES ASSUME LinuxInv PROVE ClientsAgree
    OBVIOUS
  <2>1. SavedUnlessDirty /\ CaretInView
    BY DEF LinuxInv, EditorInv, EditorOk, SavedUnlessDirty
  <2>2. RowsOfCwd /\ ValuesSaved
    BY DEF LinuxInv, ListingOk, SettingsOk, RowsOfCwd, ValuesSaved
  <2>3. ScreenRight
    BY DEF LinuxInv, TermOk, Shows, Ends, Above, ScreenRight
  <2> QED BY <2>1, <2>2, <2>3 DEF ClientsAgree
<1> QED BY <1>1, LinuxStarts, LinuxKeeps, PTL DEF LinuxSpec

----------------------------------------------------------------------------
(* The shell's line.  The cells of the screen are numbered from 0, row     *)
(* after row: At is the cell with a number, Pos the number of the cursor's. *)
Chars == TypedChars \cup {Space, ">"} \cup UNION {{output[i] : i \in DOMAIN output} : output \in Outputs}
Rows == 0..VGA_ROWS - 1
Cols == 0..VGA_COLS - 1
Cell == [Rows -> [Cols -> Chars]]
Screens == [cell : Cell, row : Rows, col : Cols]
Scr(cell, row, col) == [cell |-> cell, row |-> row, col |-> col]
Size == VGA_ROWS * VGA_COLS
Positions == 0..Size - 1
At(cell, k) == cell[k \div VGA_COLS][k % VGA_COLS]
Place(row, col) == row * VGA_COLS + col
Pos(s) == Place(s.row, s.col)

LEMMA ConsoleSizes ==
    /\ VGA_ROWS \in Nat /\ VGA_ROWS >= 2 /\ VGA_COLS \in Nat /\ VGA_COLS >= 1
    /\ MAX_INPUT \in Nat /\ MAX_INPUT >= 1 /\ HISTORY_SIZE \in Nat /\ HISTORY_SIZE >= 1
    /\ Size \in Nat /\ Size - VGA_COLS \in Nat /\ MAX_INPUT < Size - VGA_COLS
<1>1. /\ VGA_ROWS \in Nat /\ VGA_COLS \in Nat /\ VGA_COLS >= 1 /\ MAX_INPUT \in Nat /\ MAX_INPUT >= 1
      /\ HISTORY_SIZE \in Nat /\ HISTORY_SIZE >= 1 /\ MAX_INPUT < (VGA_ROWS - 1) * VGA_COLS
  BY ConsoleAssumption
<1>2. PICK r \in Nat, c \in Nat, n \in Nat : r = VGA_ROWS /\ c = VGA_COLS /\ n = MAX_INPUT
  BY <1>1
<1>3. c >= 1 /\ n >= 1 /\ n < (r - 1) * c
  BY <1>1, <1>2
<1>4. r >= 2
  BY ONLY r \in Nat, c \in Nat, n \in Nat, <1>3
<1>5. r * c \in Nat /\ r * c - c = (r - 1) * c
  BY ONLY r \in Nat, c \in Nat
<1>6. r * c - c \in Nat
  BY ONLY <1>3, <1>5, n \in Nat
<1> QED BY <1>1, <1>2, <1>3, <1>4, <1>5, <1>6 DEF Size

\* Each cell has a row and a column.
LEMMA PlaceOf ==
    ASSUME NEW k \in Positions
    PROVE  k \div VGA_COLS \in Rows /\ k % VGA_COLS \in Cols /\ Place(k \div VGA_COLS, k % VGA_COLS) = k
<1>1. PICK r \in Nat, c \in Nat : r = VGA_ROWS /\ c = VGA_COLS /\ r >= 2 /\ c >= 1
  BY ConsoleSizes
<1>2. k \in Nat /\ k < r * c
  <2>1. r * c \in Nat
    OBVIOUS
  <2>2. k \in 0..r * c - 1
    BY <1>1 DEF Positions, Size
  <2> QED BY ONLY <2>1, <2>2
<1>3. k \div c \in Nat /\ k % c \in Nat /\ k % c < c /\ k = (k \div c) * c + (k % c)
  BY ONLY <1>1, <1>2, r \in Nat, c \in Nat
<1>4. PICK q, m : q = k \div c /\ m = k % c
  OBVIOUS
<1>5. q \in Nat /\ m \in Nat /\ m < c /\ k = q * c + m
  BY <1>3, <1>4
<1>6. q < r
  <2>1. q * c < r * c
    BY ONLY <1>2, <1>5, r \in Nat, c \in Nat
  <2> QED BY ONLY <1>5, <2>1, r \in Nat, c \in Nat
<1>7. q \in 0..r - 1 /\ m \in 0..c - 1
  BY ONLY <1>5, <1>6, r \in Nat, c \in Nat
<1> QED BY <1>1, <1>4, <1>5, <1>7 DEF Rows, Cols, Place

\* Each row and column have a cell.
LEMMA PlaceAt ==
    ASSUME NEW row \in Rows, NEW col \in Cols
    PROVE  /\ Place(row, col) \in Positions
           /\ Place(row, col) \div VGA_COLS = row /\ Place(row, col) % VGA_COLS = col
<1>1. PICK r \in Nat, c \in Nat : r = VGA_ROWS /\ c = VGA_COLS /\ r >= 2 /\ c >= 1
  BY ConsoleSizes
<1>2. row \in 0..r - 1 /\ col \in 0..c - 1
  BY <1>1 DEF Rows, Cols
<1>3. row * c + col \in Nat /\ row * c + c <= r * c /\ r * c \in Nat /\ row * c \in Nat
  BY ONLY <1>2, r \in Nat, c \in Nat
<1>4. row * c + col \in 0..r * c - 1
  BY ONLY <1>2, <1>3, c \in Nat
<1>5. (row * c + col) \div c = row /\ (row * c + col) % c = col
  BY ONLY <1>1, <1>2, <1>3, r \in Nat, c \in Nat
<1> QED BY <1>1, <1>4, <1>5 DEF Place, Positions, Size

LEMMA PutAt ==
    ASSUME NEW cell \in Cell, NEW row \in Rows, NEW col \in Cols, NEW ch \in Chars
    PROVE  /\ Marked(cell, row, col, ch) \in Cell
           /\ \A k \in Positions : At(Marked(cell, row, col, ch), k)
                                     = IF k = Place(row, col) THEN ch ELSE At(cell, k)
<1>1. PICK f : f = Marked(cell, row, col, ch)
  OBVIOUS
<1>2. f \in Cell
  BY <1>1 DEF Cell, Marked
<1>3. \A r \in Rows, c \in Cols : f[r][c] = IF r = row /\ c = col THEN ch ELSE cell[r][c]
  BY <1>1 DEF Cell, Marked
<1>4. ASSUME NEW k \in Positions PROVE At(f, k) = IF k = Place(row, col) THEN ch ELSE At(cell, k)
  <2>1. k \div VGA_COLS \in Rows /\ k % VGA_COLS \in Cols
    BY PlaceOf
  <2>2. k = Place(row, col) <=> k \div VGA_COLS = row /\ k % VGA_COLS = col
    BY PlaceOf, PlaceAt
  <2> QED BY <1>3, <2>1, <2>2 DEF At
<1> QED BY <1>1, <1>2, <1>4

\* scroll moves every cell a row up.
ScrolledUp(cell) == [r \in Rows |-> IF r = VGA_ROWS - 1 THEN BlankRow ELSE cell[r + 1]]

LEMMA ScrollAt ==
    ASSUME NEW cell \in Cell
    PROVE  /\ ScrolledUp(cell) \in Cell
           /\ \A k \in Positions : At(ScrolledUp(cell), k)
                = IF k + VGA_COLS \in Positions THEN At(cell, k + VGA_COLS) ELSE Space
<1>1. PICK f : f = ScrolledUp(cell)
  OBVIOUS
<1>2. BlankRow \in [Cols -> Chars] /\ \A c \in Cols : BlankRow[c] = Space
  <2>1. Space \in Chars
    BY DEF Chars
  <2> QED BY <2>1 DEF BlankRow, Cols
<1>3. PICK m \in Nat, w \in Nat : m = VGA_ROWS /\ w = VGA_COLS /\ m >= 2 /\ w >= 1
  BY ConsoleSizes
<1>4. \A r \in Rows : r = m - 1 \/ r + 1 \in Rows
  BY <1>3 DEF Rows
<1>5. f \in Cell
  BY <1>1, <1>2, <1>3, <1>4 DEF Cell, ScrolledUp
<1>6. \A r \in Rows : f[r] = IF r = m - 1 THEN BlankRow ELSE cell[r + 1]
  BY <1>1, <1>3 DEF ScrolledUp
<1>7. ASSUME NEW k \in Positions
      PROVE  At(f, k) = IF k + VGA_COLS \in Positions THEN At(cell, k + VGA_COLS) ELSE Space
  <2>1. PICK r, c : r = k \div VGA_COLS /\ c = k % VGA_COLS
    OBVIOUS
  <2>2. r \in Rows /\ c \in Cols /\ Place(r, c) = k
    BY <2>1, PlaceOf
  <2>3. r \in 0..m - 1 /\ c \in 0..w - 1 /\ k = r * w + c
    BY <1>3, <2>2 DEF Rows, Cols, Place
  <2>4. CASE r = m - 1
    <3>1. k + w >= m * w
      BY ONLY <2>3, <2>4, m \in Nat, w \in Nat
    <3>2. m * w \in Nat
      OBVIOUS
    <3>3. k + w \notin 0..m * w - 1
      BY ONLY <3>1, <3>2
    <3>4. k + VGA_COLS \notin Positions
      BY <1>3, <3>3 DEF Positions, Size
    <3> QED BY <1>2, <1>6, <2>1, <2>2, <2>4, <3>4 DEF At
  <2>5. CASE r # m - 1
    <3>1. r + 1 \in Rows
      BY <1>4, <2>2, <2>5
    <3>2. Place(r + 1, c) = k + w
      <4>1. (r + 1) * w + c = r * w + c + w
        BY ONLY <2>3, m \in Nat, w \in Nat
      <4> QED BY <1>3, <2>3, <4>1 DEF Place
    <3>3. k + w \in Positions /\ (k + w) \div VGA_COLS = r + 1 /\ (k + w) % VGA_COLS = c
      BY <2>2, <3>1, <3>2, PlaceAt
    <3>4. At(cell, k + VGA_COLS) = cell[r + 1][c]
      BY <1>3, <3>3 DEF At
    <3>5. At(f, k) = cell[r + 1][c]
      BY <1>6, <2>1, <2>2, <2>5 DEF At
    <3> QED BY <1>3, <3>3, <3>4, <3>5
  <2> QED BY <2>4, <2>5
<1> QED BY <1>1, <1>5, <1>7

\* What the wrap and the scroll at the end of print_char do to a cell d further on,
\* where d is a row's length if the screen scrolls: t shows what cell did.
Slid(cell, p, t, d) ==
    /\ t \in Screens /\ d \in {0, VGA_COLS} /\ Pos(t) + d = p
    /\ d # 0 => Pos(t) = Size - VGA_COLS
    /\ \A k \in Positions : At(t.cell, k) = IF k + d \in Positions THEN At(cell, k + d) ELSE Space

LEMMA ScrFields ==
    ASSUME NEW cell, NEW row, NEW col
    PROVE  Scr(cell, row, col).cell = cell /\ Scr(cell, row, col).row = row /\ Scr(cell, row, col).col = col
BY DEF Scr

LEMMA ScrIsScreen ==
    ASSUME NEW cell \in Cell, NEW row \in Rows, NEW col \in Cols
    PROVE  Scr(cell, row, col) \in Screens /\ Pos(Scr(cell, row, col)) = Place(row, col)
BY DEF Screens, Scr, Pos

LEMMA ScreenIsScr ==
    ASSUME NEW s \in Screens
    PROVE  s = Scr(s.cell, s.row, s.col) /\ s.cell \in Cell /\ s.row \in Rows /\ s.col \in Cols /\ Pos(s) \in Positions
<1>1. s = Scr(s.cell, s.row, s.col) /\ s.cell \in Cell /\ s.row \in Rows /\ s.col \in Cols
  BY DEF Screens, Scr
<1> QED BY <1>1, PlaceAt DEF Pos

LEMMA SettleSlides ==
    ASSUME NEW cell \in Cell, NEW row \in 0..VGA_ROWS, NEW col \in 0..VGA_COLS, row = VGA_ROWS => col = 0
    PROVE  \E t, d : t = Settle(Scr(cell, row, col)) /\ Slid(cell, Place(row, col), t, d)
<1>1. PICK m \in Nat, w \in Nat : m = VGA_ROWS /\ w = VGA_COLS /\ m >= 2 /\ w >= 1
  BY ConsoleSizes
<1>2. row \in 0..m /\ col \in 0..w /\ (row = m => col = 0)
  BY <1>1
<1>3. PICK u : u = Scr(cell, row, col)
  OBVIOUS
<1>4. u.cell = cell /\ u.row = row /\ u.col = col
  BY <1>3, ScrFields
<1>5. PICK r, c : r = (IF col >= w THEN row + 1 ELSE row) /\ c = IF col >= w THEN 0 ELSE col
  OBVIOUS
<1>6. r \in 0..m /\ c \in 0..w - 1 /\ (r = m => c = 0)
  BY ONLY <1>1, <1>2, <1>5, m \in Nat, w \in Nat
<1>7. r * w + c = row * w + col
  <2>1. CASE col >= w
    <3>1. col = w /\ r = row + 1 /\ c = 0
      BY ONLY <1>2, <1>5, <2>1, m \in Nat, w \in Nat
    <3>2. (row + 1) * w + 0 = row * w + w
      BY ONLY <1>2, m \in Nat, w \in Nat
    <3> QED BY <3>1, <3>2
  <2>2. CASE ~ (col >= w)
    BY <1>5, <2>2
  <2> QED BY <2>1, <2>2
<1>8. PICK v : v = Scr(cell, r, c)
  OBVIOUS
<1>9. v.cell = cell /\ v.row = r /\ v.col = c
  BY <1>8, ScrFields
<1>10. (IF u.col >= VGA_COLS THEN [u EXCEPT !.col = 0, !.row = @ + 1] ELSE u) = v
  <2>1. CASE col >= w
    <3>1. [u EXCEPT !.col = 0, !.row = @ + 1] = [[u EXCEPT !.col = 0] EXCEPT !.row = @ + 1]
      OBVIOUS
    <3>2. [u EXCEPT !.col = 0] = Scr(cell, row, 0)
      BY <1>3 DEF Scr
    <3>3. [Scr(cell, row, 0) EXCEPT !.row = @ + 1] = Scr(cell, row + 1, 0)
      BY DEF Scr
    <3> QED BY <1>1, <1>4, <1>5, <1>8, <2>1, <3>1, <3>2, <3>3
  <2>2. CASE ~ (col >= w)
    BY <1>1, <1>3, <1>4, <1>5, <1>8, <2>2
  <2> QED BY <2>1, <2>2
<1>11. Settle(u) = IF v.row < VGA_ROWS THEN v
                   ELSE [cell |-> [k \in 0..VGA_ROWS - 1 |-> IF k = VGA_ROWS - 1 THEN BlankRow ELSE v.cell[k + 1]],
                         row |-> VGA_ROWS - 1, col |-> 0]
  <2> DEFINE x == IF u.col >= VGA_COLS THEN [u EXCEPT !.col = 0, !.row = @ + 1] ELSE u
  <2>1. Settle(u) = IF x.row < VGA_ROWS THEN x
                    ELSE [cell |-> [k \in 0..VGA_ROWS - 1 |-> IF k = VGA_ROWS - 1 THEN BlankRow ELSE x.cell[k + 1]],
                          row |-> VGA_ROWS - 1, col |-> 0]
    BY DEF Settle
  <2>2. x = v
    BY <1>10
  <2> HIDE DEF x
  <2> QED BY <2>1, <2>2
<1>12. CASE r < m
  <2>1. Settle(u) = v
    BY <1>1, <1>9, <1>11, <1>12
  <2>2. r \in Rows /\ c \in Cols
    BY <1>1, <1>6, <1>12 DEF Rows, Cols
  <2>3. v \in Screens /\ Pos(v) = Place(r, c)
    BY <1>8, <2>2, ScrIsScreen
  <2>4. Place(r, c) = Place(row, col)
    BY <1>1, <1>7 DEF Place
  <2>5. \A k \in Positions : k + 0 = k
    BY DEF Positions
  <2>6. Pos(v) \in Int
    BY <2>3, ScreenIsScr DEF Positions
  <2>7. Slid(cell, Place(row, col), v, 0)
    BY <1>9, <2>3, <2>4, <2>5, <2>6 DEF Slid
  <2> QED BY <1>3, <2>1, <2>7
<1>13. CASE ~ (r < m)
  <2>1. r = m /\ c = 0
    BY ONLY <1>6, <1>13, m \in Nat
  <2>2. PICK t : t = Scr(ScrolledUp(cell), m - 1, 0)
    OBVIOUS
  <2>3. Settle(u) = t
    <3>1. Settle(u) = [cell |-> [k \in 0..VGA_ROWS - 1 |-> IF k = VGA_ROWS - 1 THEN BlankRow ELSE v.cell[k + 1]],
                         row |-> VGA_ROWS - 1, col |-> 0]
      BY <1>1, <1>9, <1>11, <1>13
    <3>2. [k \in 0..VGA_ROWS - 1 |-> IF k = VGA_ROWS - 1 THEN BlankRow ELSE v.cell[k + 1]] = ScrolledUp(cell)
      BY <1>9 DEF ScrolledUp, Rows
    <3> QED BY <1>1, <2>2, <3>1, <3>2 DEF Scr
  <2>4. m - 1 \in Rows /\ 0 \in Cols
    BY <1>1 DEF Rows, Cols
  <2>5. ScrolledUp(cell) \in Cell
    BY ScrollAt
  <2>6. t \in Screens /\ Pos(t) = Place(m - 1, 0)
    BY <2>2, <2>4, <2>5, ScrIsScreen
  <2>7. Place(m - 1, 0) + w = Place(row, col) /\ Place(m - 1, 0) = Size - VGA_COLS
    <3>1. (m - 1) * w + 0 + w = m * w + 0 /\ (m - 1) * w + 0 = m * w - w
      BY ONLY m \in Nat, w \in Nat
    <3>2. (m - 1) * w + 0 + w = row * w + col
      BY <1>7, <2>1, <3>1
    <3> QED BY <1>1, <3>1, <3>2 DEF Place, Size
  <2>8. t.cell = ScrolledUp(cell)
    BY <2>2, ScrFields
  <2>9. Slid(cell, Place(row, col), t, VGA_COLS)
    BY <1>1, <2>6, <2>7, <2>8, ScrollAt DEF Slid
  <2> QED BY <1>3, <2>3, <2>9
<1> QED BY <1>12, <1>13

\* print_char with a backspace: the cell before the cursor, or the first one.
LEMMA ErasedAt ==
    ASSUME NEW s \in Screens, NEW p \in Nat, p = IF Pos(s) > 0 THEN Pos(s) - 1 ELSE 0
    PROVE  LET t == PrintChar(s, Back)
           IN  /\ t \in Screens /\ Pos(t) = p /\ p \in Positions
               /\ \A k \in Positions : At(t.cell, k) = IF k = p THEN Space ELSE At(s.cell, k)
<1>1. PICK m \in Nat, w \in Nat : m = VGA_ROWS /\ w = VGA_COLS /\ m >= 2 /\ w >= 1
  BY ConsoleSizes
<1>2. PICK cell, row, col : cell = s.cell /\ row = s.row /\ col = s.col
  OBVIOUS
<1>3. s = Scr(cell, row, col) /\ cell \in Cell /\ row \in Rows /\ col \in Cols /\ Pos(s) = Place(row, col)
  BY <1>2, ScreenIsScr DEF Pos
<1>4. row \in 0..m - 1 /\ col \in 0..w - 1
  BY <1>1, <1>3 DEF Rows, Cols
<1>5. PICK n \in Nat : n = row * w + col /\ Pos(s) = n /\ p = IF n > 0 THEN n - 1 ELSE 0
  <2>1. row * w + col \in Nat
    BY ONLY <1>4, m \in Nat, w \in Nat
  <2>2. Pos(s) = row * w + col
    BY <1>1, <1>3 DEF Place
  <2> QED BY <2>1, <2>2
<1>6. PICK r, c : /\ r = (IF col > 0 THEN row ELSE IF row > 0 THEN row - 1 ELSE row)
                  /\ c = (IF col > 0 THEN col - 1 ELSE IF row > 0 THEN w - 1 ELSE col)
  OBVIOUS
<1>7. r \in 0..m - 1 /\ c \in 0..w - 1
  BY ONLY <1>1, <1>4, <1>6, m \in Nat, w \in Nat
<1>8. r * w + c = p
  <2>1. CASE col > 0
    <3>1. r = row /\ c = col - 1
      BY <1>6, <2>1
    <3>2. row * w \in Nat
      BY ONLY <1>4, m \in Nat, w \in Nat
    <3>3. n > 0
      BY ONLY <1>4, <1>5, <2>1, <3>2, w \in Nat, n \in Nat
    <3> QED BY ONLY <1>4, <1>5, <3>1, <3>2, <3>3, w \in Nat, n \in Nat
  <2>2. CASE ~ (col > 0) /\ row > 0
    <3>1. r = row - 1 /\ c = w - 1 /\ col = 0
      BY <1>4, <1>6, <2>2
    <3>2. (row - 1) * w + (w - 1) = row * w + 0 - 1 /\ row * w >= w
      BY ONLY <1>4, <2>2, m \in Nat, w \in Nat
    <3>3. row * w \in Nat
      BY ONLY <1>4, m \in Nat, w \in Nat
    <3>4. n > 0
      BY ONLY <1>1, <1>5, <3>1, <3>2, <3>3, w \in Nat, n \in Nat
    <3> QED BY ONLY <1>5, <3>1, <3>2, <3>3, <3>4, w \in Nat, n \in Nat
  <2>3. CASE ~ (col > 0) /\ ~ (row > 0)
    <3>1. row = 0 /\ col = 0 /\ r = 0 /\ c = 0
      BY <1>4, <1>6, <2>3
    <3>2. 0 * w + 0 = 0
      OBVIOUS
    <3>3. n = 0
      BY <1>5, <3>1, <3>2
    <3>4. p = 0
      BY <1>5, <3>3
    <3> QED BY <3>1, <3>2, <3>4
  <2> QED BY <2>1, <2>2, <2>3
<1>9. r \in Rows /\ c \in Cols /\ Place(r, c) = p
  BY <1>1, <1>7, <1>8 DEF Rows, Cols, Place
<1>10. PICK b : b = Scr(cell, r, c)
  OBVIOUS
<1>11. b.cell = cell /\ b.row = r /\ b.col = c
  BY <1>10, ScrFields
<1>12. (IF s.col > 0 THEN [s EXCEPT !.col = @ - 1]
        ELSE IF s.row > 0 THEN [s EXCEPT !.row = @ - 1, !.col = VGA_COLS - 1] ELSE s) = b
  <2>1. CASE col > 0
    <3>1. [s EXCEPT !.col = @ - 1] = Scr(cell, row, col - 1)
      BY <1>3 DEF Scr
    <3> QED BY <1>2, <1>6, <1>10, <2>1, <3>1
  <2>2. CASE ~ (col > 0) /\ row > 0
    <3>1. [s EXCEPT !.row = @ - 1, !.col = w - 1] = [[s EXCEPT !.row = @ - 1] EXCEPT !.col = w - 1]
      OBVIOUS
    <3>2. [s EXCEPT !.row = @ - 1] = Scr(cell, row - 1, col)
      BY <1>3 DEF Scr
    <3>3. [Scr(cell, row - 1, col) EXCEPT !.col = w - 1] = Scr(cell, row - 1, w - 1)
      BY DEF Scr
    <3>4. b = Scr(cell, row - 1, w - 1)
      BY <1>6, <1>10, <2>2
    <3> QED BY <1>1, <1>2, <2>2, <3>1, <3>2, <3>3, <3>4
  <2>3. CASE ~ (col > 0) /\ ~ (row > 0)
    BY <1>2, <1>3, <1>6, <1>10, <2>3
  <2> QED BY <2>1, <2>2, <2>3
<1>13. PICK f : f = Marked(cell, r, c, Space)
  OBVIOUS
<1>14. PrintChar(s, Back) = Scr(f, r, c)
  <2> DEFINE x == IF s.col > 0 THEN [s EXCEPT !.col = @ - 1]
                  ELSE IF s.row > 0 THEN [s EXCEPT !.row = @ - 1, !.col = VGA_COLS - 1] ELSE s
  <2>1. PrintChar(s, Back) = [x EXCEPT !.cell[x.row][x.col] = Space]
    <3>1. PrintChar(s, Back) = Erase(s)
      BY DEF PrintChar, Back, Newline
    <3>2. Erase(s) = [x EXCEPT !.cell[x.row][x.col] = Space]
      BY DEF Erase
    <3> QED BY <3>1, <3>2
  <2>2. x = b
    BY <1>12
  <2> HIDE DEF x
  <2>3. [b EXCEPT !.cell[r][c] = Space] = [b EXCEPT !.cell = f]
    BY <1>11, <1>13 DEF Marked
  <2>4. [b EXCEPT !.cell = f] = Scr(f, r, c)
    BY <1>10 DEF Scr
  <2> QED BY <1>11, <2>1, <2>2, <2>3, <2>4
<1>15. Space \in Chars
  BY DEF Chars
<1>16. f \in Cell /\ \A k \in Positions : At(f, k) = IF k = p THEN Space ELSE At(cell, k)
  BY <1>3, <1>9, <1>13, <1>15, PutAt
<1>17. Scr(f, r, c) \in Screens /\ Pos(Scr(f, r, c)) = p /\ p \in Positions
  BY <1>9, <1>16, ScrIsScreen, PlaceAt
<1>18. Scr(f, r, c).cell = f
  BY ScrFields
<1> QED BY <1>2, <1>14, <1>16, <1>17, <1>18

\* print_char with a newline.
LEMMA FeedSlides ==
    ASSUME NEW s \in Screens
    PROVE  \E t, d, p : t = PrintChar(s, Newline) /\ p \in Nat /\ p >= Pos(s) /\ Slid(s.cell, p, t, d)
<1>1. PICK m \in Nat, w \in Nat : m = VGA_ROWS /\ w = VGA_COLS /\ m >= 2 /\ w >= 1
  BY ConsoleSizes
<1>2. PICK cell, row, col : cell = s.cell /\ row = s.row /\ col = s.col
  OBVIOUS
<1>3. s = Scr(cell, row, col) /\ cell \in Cell /\ row \in Rows /\ col \in Cols /\ Pos(s) = Place(row, col)
  BY <1>2, ScreenIsScr DEF Pos
<1>4. row \in 0..m - 1 /\ col \in 0..w - 1
  BY <1>1, <1>3 DEF Rows, Cols
<1>5. row + 1 \in 0..VGA_ROWS /\ 0 \in 0..VGA_COLS
  BY <1>1, <1>4
<1>6. (row + 1) * w + 0 \in Nat /\ (row + 1) * w + 0 >= row * w + col
  BY ONLY <1>4, m \in Nat, w \in Nat
<1>7. Place(row + 1, 0) \in Nat /\ Place(row + 1, 0) >= Pos(s)
  BY <1>1, <1>3, <1>6 DEF Place
<1>8. PrintChar(s, Newline) = Settle(Scr(cell, row + 1, 0))
  <2>1. PrintChar(s, Newline) = Settle([s EXCEPT !.row = @ + 1, !.col = 0])
    BY DEF PrintChar, Newline, Back
  <2>2. [s EXCEPT !.row = @ + 1, !.col = 0] = [[s EXCEPT !.row = @ + 1] EXCEPT !.col = 0]
    OBVIOUS
  <2>3. [s EXCEPT !.row = @ + 1] = Scr(cell, row + 1, col)
    BY <1>3 DEF Scr
  <2>4. [Scr(cell, row + 1, col) EXCEPT !.col = 0] = Scr(cell, row + 1, 0)
    BY DEF Scr
  <2> QED BY <2>1, <2>2, <2>3, <2>4
<1>9. PICK t, d : t = Settle(Scr(cell, row + 1, 0)) /\ Slid(cell, Place(row + 1, 0), t, d)
  BY <1>3, <1>5, SettleSlides
<1> QED BY <1>2, <1>7, <1>8, <1>9

\* print_char with any other character.
LEMMA PutSlides ==
    ASSUME NEW s \in Screens, NEW ch \in Chars, ch \notin {Back, Newline}
    PROVE  \E t, d, f : /\ t = PrintChar(s, ch) /\ Slid(f, Pos(s) + 1, t, d)
                        /\ \A k \in Positions : At(f, k) = IF k = Pos(s) THEN ch ELSE At(s.cell, k)
<1>1. PICK m \in Nat, w \in Nat : m = VGA_ROWS /\ w = VGA_COLS /\ m >= 2 /\ w >= 1
  BY ConsoleSizes
<1>2. PICK cell, row, col : cell = s.cell /\ row = s.row /\ col = s.col
  OBVIOUS
<1>3. s = Scr(cell, row, col) /\ cell \in Cell /\ row \in Rows /\ col \in Cols /\ Pos(s) = Place(row, col)
  BY <1>2, ScreenIsScr DEF Pos
<1>4. row \in 0..m - 1 /\ col \in 0..w - 1
  BY <1>1, <1>3 DEF Rows, Cols
<1>5. row \in 0..VGA_ROWS /\ col + 1 \in 0..VGA_COLS /\ row # VGA_ROWS
  BY <1>1, <1>4
<1>6. Place(row, col + 1) = Pos(s) + 1
  <2>1. row * w \in Nat /\ col \in Nat
    BY ONLY <1>4, m \in Nat, w \in Nat
  <2>2. row * w + (col + 1) = row * w + col + 1
    BY ONLY <2>1
  <2> QED BY <1>1, <1>3, <2>2 DEF Place
<1>7. PICK f : f = Marked(cell, row, col, ch)
  OBVIOUS
<1>8. f \in Cell /\ \A k \in Positions : At(f, k) = IF k = Pos(s) THEN ch ELSE At(cell, k)
  BY <1>3, <1>7, PutAt
<1>9. PrintChar(s, ch) = Settle(Scr(f, row, col + 1))
  <2>1. PrintChar(s, ch) = Settle([s EXCEPT !.cell[s.row][s.col] = ch, !.col = @ + 1])
    BY DEF PrintChar
  <2>2. [s EXCEPT !.cell[s.row][s.col] = ch, !.col = @ + 1] = [[s EXCEPT !.cell = f] EXCEPT !.col = @ + 1]
    BY <1>2, <1>7 DEF Marked
  <2>3. [s EXCEPT !.cell = f] = Scr(f, row, col)
    BY <1>3 DEF Scr
  <2>4. [Scr(f, row, col) EXCEPT !.col = @ + 1] = Scr(f, row, col + 1)
    BY DEF Scr
  <2> QED BY <2>1, <2>2, <2>3, <2>4
<1>10. PICK t, d : t = Settle(Scr(f, row, col + 1)) /\ Slid(f, Place(row, col + 1), t, d)
  BY <1>5, <1>8, SettleSlides
<1> QED BY <1>2, <1>6, <1>8, <1>9, <1>10

----------------------------------------------------------------------------
\* Nothing stands at the cursor and behind it.
ScreenOk(s) == s \in Screens /\ \A k \in Positions : k >= Pos(s) => At(s.cell, k) = Space

\* And before it stands the line, behind a prompt.
ShowsLine(s, line) ==
    /\ ScreenOk(s)
    /\ Pos(s) >= Len(line) + 1
    /\ At(s.cell, Pos(s) - Len(line) - 1) = ">"
    /\ \A i \in 1..Len(line) : At(s.cell, Pos(s) - Len(line) - 1 + i) = line[i]

LEMMA PositionsFacts ==
    /\ \A k \in Positions : k \in Nat /\ k < Size
    /\ \A k \in Nat : k < Size => k \in Positions
<1>1. PICK n \in Nat : n = Size
  BY ConsoleSizes
<1>2. Positions = 0..n - 1
  BY <1>1 DEF Positions
<1>3. (\A k \in 0..n - 1 : k \in Nat /\ k < n) /\ \A k \in Nat : k < n => k \in 0..n - 1
  OBVIOUS
<1> QED BY <1>1, <1>2, <1>3

\* The facts about a slide that the next proofs need.
LEMMA SlidFacts ==
    ASSUME NEW cell, NEW p, NEW t, NEW d, Slid(cell, p, t, d)
    PROVE  /\ t \in Screens /\ Pos(t) \in Nat /\ d \in Nat /\ Pos(t) + d = p
           /\ d # 0 => Pos(t) > MAX_INPUT
           /\ \A k \in Positions : k + d \in Positions => At(t.cell, k) = At(cell, k + d)
           /\ \A k \in Positions : k + d \notin Positions => At(t.cell, k) = Space
<1>1. t \in Screens /\ d \in {0, VGA_COLS} /\ Pos(t) + d = p /\ (d # 0 => Pos(t) = Size - VGA_COLS)
  BY DEF Slid
<1>2. Pos(t) \in Nat
  BY <1>1, ScreenIsScr, PositionsFacts
<1>3. d \in Nat
  BY <1>1, ConsoleSizes
<1>4. d # 0 => Pos(t) > MAX_INPUT
  BY <1>1, ConsoleSizes
<1> QED BY <1>1, <1>2, <1>3, <1>4 DEF Slid

LEMMA PrintKeepsOk ==
    ASSUME NEW s, ScreenOk(s), NEW ch \in Chars \cup {Back, Newline}
    PROVE  ScreenOk(PrintChar(s, ch))
<1>1. s \in Screens /\ Pos(s) \in Nat /\ Pos(s) \in Positions /\ \A k \in Positions : k >= Pos(s) => At(s.cell, k) = Space
  BY ScreenIsScr, PositionsFacts DEF ScreenOk
<1>2. CASE ch = Back
  <2>1. PICK p \in Nat : p = IF Pos(s) > 0 THEN Pos(s) - 1 ELSE 0
    <3>1. (IF Pos(s) > 0 THEN Pos(s) - 1 ELSE 0) \in Nat
      BY <1>1
    <3> QED BY <3>1
  <2>2. PICK t : t = PrintChar(s, Back)
    OBVIOUS
  <2>3. t \in Screens /\ Pos(t) = p /\ \A k \in Positions : At(t.cell, k) = IF k = p THEN Space ELSE At(s.cell, k)
    BY <1>1, <2>1, <2>2, ErasedAt
  <2>4. ASSUME NEW k \in Positions, k >= p PROVE k = p \/ k >= Pos(s)
    <3>1. k \in Nat
      BY PositionsFacts
    <3> QED BY <1>1, <2>1, <2>4, <3>1
  <2> QED BY <1>1, <1>2, <2>2, <2>3, <2>4 DEF ScreenOk
<1>3. ASSUME NEW cell, NEW p \in Nat, NEW t, NEW d, Slid(cell, p, t, d),
             \A k \in Positions : k >= p => At(cell, k) = Space
      PROVE  ScreenOk(t)
  <2>1. /\ t \in Screens /\ Pos(t) \in Nat /\ d \in Nat /\ Pos(t) + d = p
        /\ \A k \in Positions : k + d \in Positions => At(t.cell, k) = At(cell, k + d)
        /\ \A k \in Positions : k + d \notin Positions => At(t.cell, k) = Space
    BY <1>3, SlidFacts
  <2>2. ASSUME NEW k \in Positions, k >= Pos(t) PROVE At(t.cell, k) = Space
    <3>1. k \in Nat
      BY PositionsFacts
    <3>2. k + d >= p
      BY ONLY <2>1, <2>2, <3>1, p \in Nat
    <3> QED BY <1>3, <2>1, <3>2
  <2> QED BY <2>1, <2>2 DEF ScreenOk
<1>4. CASE ch = Newline
  <2>1. PICK t, d, p : t = PrintChar(s, Newline) /\ p \in Nat /\ p >= Pos(s) /\ Slid(s.cell, p, t, d)
    BY <1>1, FeedSlides
  <2>2. ASSUME NEW k \in Positions, k >= p PROVE At(s.cell, k) = Space
    <3>1. k \in Nat
      BY PositionsFacts
    <3>2. k >= Pos(s)
      BY ONLY <1>1, <2>1, <2>2, <3>1
    <3> QED BY <1>1, <3>2
  <2> QED BY <1>3, <1>4, <2>1, <2>2
<1>5. CASE ch \notin {Back, Newline}
  <2>1. PICK t, d, f : /\ t = PrintChar(s, ch) /\ Slid(f, Pos(s) + 1, t, d)
                       /\ \A k \in Positions : At(f, k) = IF k = Pos(s) THEN ch ELSE At(s.cell, k)
    BY <1>1, <1>5, PutSlides
  <2>2. ASSUME NEW k \in Positions, k >= Pos(s) + 1 PROVE At(f, k) = Space
    <3>1. k \in Nat
      BY PositionsFacts
    <3>2. k >= Pos(s) /\ k # Pos(s)
      BY ONLY <1>1, <2>2, <3>1
    <3> QED BY <1>1, <2>1, <3>2
  <2>3. Pos(s) + 1 \in Nat
    BY <1>1
  <2> QED BY <1>3, <2>1, <2>2, <2>3
<1> QED BY <1>2, <1>4, <1>5

LEMMA PrintShows ==
    ASSUME NEW s, NEW line \in Seq(Chars), ShowsLine(s, line), NEW ch \in Chars, ch \notin {Back, Newline},
           Len(line) + 2 <= MAX_INPUT
    PROVE  ShowsLine(PrintChar(s, ch), Append(line, ch))
<1>1. s \in Screens /\ Pos(s) \in Nat /\ Pos(s) \in Positions
  BY ScreenIsScr, PositionsFacts DEF ShowsLine, ScreenOk
<1>2. Len(line) \in Nat
  OBVIOUS
<1>3. PICK n \in Nat, x \in Nat : n = Len(line) /\ x = Pos(s)
  BY <1>1, <1>2
<1>4. /\ x >= n + 1 /\ At(s.cell, x - n - 1) = ">" /\ x \in Positions /\ n + 2 <= MAX_INPUT
      /\ \A i \in 1..n : At(s.cell, x - n - 1 + i) = line[i]
  BY <1>1, <1>3 DEF ShowsLine
<1>5. PICK t, d, f : /\ t = PrintChar(s, ch) /\ Slid(f, x + 1, t, d)
                     /\ \A k \in Positions : At(f, k) = IF k = x THEN ch ELSE At(s.cell, k)
  BY <1>1, <1>3, PutSlides
<1>6. ScreenOk(t)
  BY <1>5, PrintKeepsOk DEF ShowsLine
<1>7. PICK y \in Nat : y = Pos(t)
  BY <1>5, SlidFacts
<1>8. /\ d \in Nat /\ y + d = x + 1 /\ (d # 0 => y > MAX_INPUT)
      /\ \A k \in Positions : k + d \in Positions => At(t.cell, k) = At(f, k + d)
  BY <1>5, <1>7, SlidFacts
<1>9. y >= n + 2
  <2>1. MAX_INPUT \in Nat
    BY ConsoleSizes
  <2> QED BY ONLY <1>4, <1>8, <2>1, n \in Nat, x \in Nat, y \in Nat
<1>10. ASSUME NEW j \in 0..n + 1
       PROVE  At(t.cell, y - n - 2 + j) = IF j = n + 1 THEN ch ELSE At(s.cell, x - n - 1 + j)
  <2>1. PICK k \in Nat, h \in Nat : k = y - n - 2 + j /\ h = x - n - 1 + j
    <3>1. y - n - 2 + j \in Nat /\ x - n - 1 + j \in Nat
      BY ONLY <1>4, <1>9, j \in 0..n + 1, n \in Nat, x \in Nat, y \in Nat
    <3> QED BY <3>1
  <2>2. k + d = h /\ h <= x /\ k <= h /\ (h = x <=> j = n + 1)
    BY ONLY <1>8, <2>1, j \in 0..n + 1, n \in Nat, x \in Nat, y \in Nat, k \in Nat, h \in Nat
  <2>3. k \in Positions /\ h \in Positions
    <3>1. PICK z \in Nat : z = Size
      BY ConsoleSizes
    <3>2. x < z
      BY <1>4, <3>1, PositionsFacts
    <3>3. k < z /\ h < z
      BY ONLY <2>2, <3>2, x \in Nat, k \in Nat, h \in Nat, z \in Nat
    <3> QED BY <3>1, <3>3, PositionsFacts
  <2>4. At(t.cell, k) = At(f, h)
    BY <1>8, <2>2, <2>3
  <2>5. At(f, h) = IF j = n + 1 THEN ch ELSE At(s.cell, h)
    BY <1>5, <2>2, <2>3
  <2> QED BY <2>1, <2>4, <2>5
<1>11. PICK more : more = Append(line, ch)
  OBVIOUS
<1>12. Len(more) = n + 1 /\ more[n + 1] = ch /\ \A i \in 1..n : more[i] = line[i]
  BY <1>3, <1>11
<1>13. At(t.cell, y - (n + 1) - 1) = ">"
  <2>1. 0 \in 0..n + 1 /\ 0 # n + 1 /\ y - n - 2 + 0 = y - (n + 1) - 1 /\ x - n - 1 + 0 = x - n - 1
    BY ONLY n \in Nat, x \in Nat, y \in Nat
  <2> QED BY <1>4, <1>10, <2>1
<1>14. ASSUME NEW i \in 1..n + 1 PROVE At(t.cell, y - (n + 1) - 1 + i) = more[i]
  <2>1. i \in 0..n + 1 /\ y - n - 2 + i = y - (n + 1) - 1 + i /\ (i # n + 1 => i \in 1..n)
    BY ONLY i \in 1..n + 1, n \in Nat, y \in Nat
  <2> QED BY <1>4, <1>10, <1>12, <2>1
<1>15. y >= (n + 1) + 1
  BY <1>9
<1> QED BY <1>5, <1>6, <1>7, <1>11, <1>12, <1>13, <1>14, <1>15 DEF ShowsLine

\* A backspace takes the last character.
LEMMA EraseShows ==
    ASSUME NEW s, NEW line \in Seq(Chars), ShowsLine(s, line), line # <<>>
    PROVE  ShowsLine(PrintChar(s, Back), SubSeq(line, 1, Len(line) - 1))
<1>1. s \in Screens /\ Pos(s) \in Nat /\ Pos(s) \in Positions
  BY ScreenIsScr, PositionsFacts DEF ShowsLine, ScreenOk
<1>2. Len(line) \in Nat /\ Len(line) >= 1
  OBVIOUS
<1>3. PICK n \in Nat, x \in Nat : n = Len(line) /\ x = Pos(s) /\ n >= 1
  BY <1>1, <1>2
<1>4. /\ x >= n + 1 /\ At(s.cell, x - n - 1) = ">" /\ x \in Positions
      /\ \A i \in 1..n : At(s.cell, x - n - 1 + i) = line[i]
  BY <1>1, <1>3 DEF ShowsLine
<1>5. x - 1 \in Nat /\ x - 1 = IF x > 0 THEN x - 1 ELSE 0
  BY <1>3, <1>4
<1>6. PICK t : t = PrintChar(s, Back)
  OBVIOUS
<1>7. t \in Screens /\ Pos(t) = x - 1 /\ \A k \in Positions : At(t.cell, k) = IF k = x - 1 THEN Space ELSE At(s.cell, k)
  BY <1>1, <1>3, <1>5, <1>6, ErasedAt
<1>8. ScreenOk(t)
  <2>1. ASSUME NEW k \in Positions, k >= x - 1 PROVE At(t.cell, k) = Space
    <3>1. k \in Nat
      BY PositionsFacts
    <3>2. k = x - 1 \/ k >= x
      BY ONLY <2>1, <3>1, x \in Nat
    <3> QED BY <1>3, <1>7, <3>2 DEF ShowsLine, ScreenOk
  <2> QED BY <1>7, <2>1 DEF ScreenOk
<1>9. PICK less : less = SubSeq(line, 1, n - 1)
  OBVIOUS
<1>10. Len(less) = n - 1 /\ \A i \in 1..n - 1 : less[i] = line[i]
  BY <1>3, <1>9
<1>11. ASSUME NEW j \in 0..n - 1 PROVE At(t.cell, (x - 1) - (n - 1) - 1 + j) = At(s.cell, x - n - 1 + j)
  <2>1. PICK k \in Nat : k = x - n - 1 + j
    <3>1. x - n - 1 + j \in Nat
      BY ONLY <1>4, j \in 0..n - 1, n \in Nat, x \in Nat
    <3> QED BY <3>1
  <2>2. (x - 1) - (n - 1) - 1 + j = k /\ k < x - 1
    BY ONLY <1>3, <1>4, <2>1, j \in 0..n - 1, n \in Nat, x \in Nat, k \in Nat
  <2>3. k \in Positions
    <3>1. PICK z \in Nat : z = Size
      BY ConsoleSizes
    <3>2. x < z
      BY <1>4, <3>1, PositionsFacts
    <3>3. k < z
      BY ONLY <2>2, <3>2, x \in Nat, k \in Nat, z \in Nat
    <3> QED BY <3>1, <3>3, PositionsFacts
  <2> QED BY <1>7, <2>1, <2>2, <2>3
<1>12. At(t.cell, (x - 1) - (n - 1) - 1) = ">"
  <2>1. 0 \in 0..n - 1 /\ (x - 1) - (n - 1) - 1 + 0 = (x - 1) - (n - 1) - 1 /\ x - n - 1 + 0 = x - n - 1
    BY ONLY <1>3, n \in Nat, x \in Nat
  <2> QED BY <1>4, <1>11, <2>1
<1>13. ASSUME NEW i \in 1..n - 1 PROVE At(t.cell, (x - 1) - (n - 1) - 1 + i) = less[i]
  <2>1. i \in 0..n - 1 /\ i \in 1..n
    BY ONLY i \in 1..n - 1, n \in Nat
  <2> QED BY <1>4, <1>10, <1>11, <2>1
<1>14. x - 1 >= (n - 1) + 1
  BY <1>4
<1> QED BY <1>3, <1>6, <1>7, <1>8, <1>9, <1>10, <1>12, <1>13, <1>14 DEF ShowsLine

\* A prompt on any screen.
LEMMA PromptShows ==
    ASSUME NEW s, ScreenOk(s)
    PROVE  ShowsLine(PrintChar(s, ">"), <<>>)
<1>1. s \in Screens /\ Pos(s) \in Nat /\ Pos(s) \in Positions
  BY ScreenIsScr, PositionsFacts DEF ScreenOk
<1>2. ">" \in Chars /\ ">" \notin {Back, Newline}
  BY DEF Chars, Back, Newline
<1>3. PICK x \in Nat : x = Pos(s)
  BY <1>1
<1>4. PICK t, d, f : /\ t = PrintChar(s, ">") /\ Slid(f, x + 1, t, d)
                     /\ \A k \in Positions : At(f, k) = IF k = x THEN ">" ELSE At(s.cell, k)
  BY <1>1, <1>2, <1>3, PutSlides
<1>5. ScreenOk(t)
  BY <1>2, <1>4, PrintKeepsOk
<1>6. PICK y \in Nat : y = Pos(t)
  BY <1>4, SlidFacts
<1>7. /\ d \in Nat /\ y + d = x + 1 /\ (d # 0 => y > MAX_INPUT)
      /\ \A k \in Positions : k + d \in Positions => At(t.cell, k) = At(f, k + d)
  BY <1>4, <1>6, SlidFacts
<1>8. y >= 1
  <2>1. MAX_INPUT \in Nat
    BY ConsoleSizes
  <2> QED BY ONLY <1>7, <2>1, x \in Nat, y \in Nat
<1>9. At(t.cell, y - 0 - 1) = ">"
  <2>1. PICK k \in Nat : k = y - 1
    <3>1. y - 1 \in Nat
      BY ONLY <1>8, y \in Nat
    <3> QED BY <3>1
  <2>2. k + d = x /\ k <= x /\ y - 0 - 1 = k
    BY ONLY <1>7, <2>1, x \in Nat, y \in Nat, k \in Nat
  <2>3. k \in Positions
    <3>1. PICK z \in Nat : z = Size
      BY ConsoleSizes
    <3>2. x < z
      BY <1>1, <1>3, <3>1, PositionsFacts
    <3>3. k < z
      BY ONLY <2>2, <3>2, x \in Nat, k \in Nat, z \in Nat
    <3> QED BY <3>1, <3>3, PositionsFacts
  <2> QED BY <1>1, <1>3, <1>4, <1>7, <2>2, <2>3
<1>10. Len(<<>>) = 0 /\ \A i \in 1..0 : FALSE
  OBVIOUS
<1> QED BY <1>4, <1>5, <1>6, <1>8, <1>9, <1>10 DEF ShowsLine

LEMMA EmptyIsOk == ScreenOk(EmptyScreen)
<1>1. PICK cell : cell = [r \in Rows |-> BlankRow]
  OBVIOUS
<1>2. EmptyScreen = Scr(cell, 0, 0)
  BY <1>1 DEF EmptyScreen, Scr, Rows
<1>3. 0 \in Rows /\ 0 \in Cols
  BY ConsoleSizes DEF Rows, Cols
<1>4. \A c \in Cols : BlankRow[c] = Space
  BY DEF BlankRow, Cols
<1>5. cell \in Cell
  <2>1. Space \in Chars
    BY DEF Chars
  <2>2. BlankRow \in [Cols -> Chars]
    BY <2>1 DEF BlankRow, Cols
  <2> QED BY <1>1, <2>2 DEF Cell
<1>6. \A k \in Positions : At(cell, k) = Space
  BY <1>1, <1>4, PlaceOf DEF At
<1> QED BY <1>2, <1>3, <1>5, <1>6, ScrIsScreen, ScrFields DEF ScreenOk

\* What holds of each screen that print_text comes by, if a character leads from one
\* to the next: stages[i] are the screens after i characters.
LEMMA TextPrinted ==
    ASSUME NEW scr, NEW text, Len(text) \in Nat, NEW stages, scr \in stages[0],
           \A i \in 1..Len(text) : \A s \in stages[i - 1] : PrintChar(s, text[i]) \in stages[i]
    PROVE  PrintText(scr, text) \in stages[Len(text)]
<1> DEFINE Step(h, i) == IF i = 0 THEN scr ELSE PrintChar(h[i - 1], text[i])
           Prints(h, k) == h = [i \in 0..k |-> Step(h, i)]
           Bad == {k \in Nat : ~ \E h : Prints(h, k)}
<1>1. Bad = {}
  <2> SUFFICES ASSUME Bad # {} PROVE FALSE
    OBVIOUS
  <2>1. PICK k \in Bad : \A j \in Bad : k <= j
    BY LeastOf
  <2>2. CASE k = 0
    <3>1. [i \in 0..0 |-> scr] = [i \in 0..0 |-> Step([j \in 0..0 |-> scr], i)]
      OBVIOUS
    <3>2. Prints([i \in 0..0 |-> scr], 0)
      BY <3>1
    <3> QED BY <2>2, <3>2
  <2>3. CASE k # 0
    <3>1. k \in Nat /\ k - 1 \in Nat /\ ~ (k <= k - 1)
      BY <2>3
    <3>2. k - 1 \notin Bad
      BY <2>1, <3>1
    <3>3. PICK f : Prints(f, k - 1)
      BY <3>1, <3>2
    <3>4. PICK g : g = [i \in 0..k |-> IF i < k THEN f[i] ELSE Step(f, k)]
      OBVIOUS
    <3>5. /\ \A i \in 0..k - 1 : g[i] = f[i] /\ f[i] = Step(f, i)
          /\ g[k] = Step(f, k)
      <4>1. f = [i \in 0..k - 1 |-> Step(f, i)]
        BY <3>3
      <4> HIDE DEF Step, Prints
      <4>2. \A i \in 0..k - 1 : f[i] = Step(f, i)
        BY <4>1
      <4>3. \A i \in 0..k - 1 : g[i] = f[i]
        BY <3>1, <3>4
      <4>4. g[k] = Step(f, k)
        BY <3>1, <3>4
      <4> QED BY <4>2, <4>3, <4>4
    <3>6. \A i \in 0..k : Step(g, i) = Step(f, i)
      <4> SUFFICES ASSUME NEW i \in 0..k PROVE Step(g, i) = Step(f, i)
        OBVIOUS
      <4>1. CASE i = 0
        BY <4>1
      <4>2. CASE i # 0
        <5>1. i - 1 \in 0..k - 1
          BY <3>1, <4>2
        <5>2. g[i - 1] = f[i - 1]
          BY <3>5, <5>1
        <5> QED BY <4>2, <5>2
      <4> QED BY <4>1, <4>2
    <3>7. \A i \in 0..k : g[i] = Step(g, i)
      <4> SUFFICES ASSUME NEW i \in 0..k PROVE g[i] = Step(g, i)
        OBVIOUS
      <4>1. i \in 0..k - 1 \/ i = k
        BY <3>1
      <4> HIDE DEF Step
      <4> QED BY <3>5, <3>6, <4>1
    <3>8. g = [i \in 0..k |-> Step(g, i)]
      <4> HIDE DEF Step
      <4>1. g = [i \in 0..k |-> g[i]]
        BY <3>4
      <4> QED BY <3>7, <4>1
    <3> QED BY <3>8
  <2> QED BY <2>2, <2>3
<1>2. \E h : Prints(h, Len(text))
  BY <1>1
<1> DEFINE N == CHOOSE h : h = [i \in 0..Len(text) |-> Step(h, i)]
<1>3. N = [i \in 0..Len(text) |-> Step(N, i)]
  BY <1>2
<1>4. PrintText(scr, text) = N[Len(text)]
  BY DEF PrintText
<1> DEFINE Off == {k \in 0..Len(text) : N[k] \notin stages[k]}
<1>5. Off = {}
  <2> SUFFICES ASSUME Off # {} PROVE FALSE
    OBVIOUS
  <2>1. PICK k \in Off : \A j \in Off : k <= j
    <3>1. Off \subseteq Nat
      OBVIOUS
    <3> QED BY <3>1, LeastOf
  <2>2. N[k] = Step(N, k)
    <3> HIDE DEF N, Step
    <3> QED BY <1>3
  <2>3. k # 0
    <3> HIDE DEF N
    <3> QED BY <2>2
  <2>4. k - 1 \in 0..Len(text) /\ k - 1 \notin Off /\ k \in 1..Len(text)
    <3> HIDE DEF N
    <3>1. k \in 0..Len(text) /\ ~ (k <= k - 1)
      OBVIOUS
    <3> QED BY <2>1, <2>3, <3>1
  <2>5. N[k - 1] \in stages[k - 1]
    <3> HIDE DEF N
    <3> QED BY <2>4
  <2>6. N[k] \in stages[k]
    <3> HIDE DEF N
    <3> QED BY <2>2, <2>3, <2>4, <2>5
  <2> QED
    <3> HIDE DEF N
    <3> QED BY <2>6
<1> HIDE DEF N
<1> QED BY <1>4, <1>5

\* What a command prints leaves a screen for the prompt.
LEMMA OutputPrompted ==
    ASSUME NEW scr, ScreenOk(scr), NEW output \in Seq(Chars)
    PROVE  ShowsLine(PrintText(scr, output \o Prompt), <<>>)
<1>1. PICK n \in Nat : n = Len(output)
  <2>1. Len(output) \in Nat
    OBVIOUS
  <2> QED BY <2>1
<1>2. PICK text : text = output \o Prompt
  OBVIOUS
<1>3. Len(text) = n + 1 /\ text[n + 1] = ">" /\ \A i \in 1..n : text[i] = output[i]
  BY <1>1, <1>2 DEF Prompt
<1>4. PICK stages : stages = [i \in 0..n + 1 |-> IF i <= n THEN {s \in Screens : ScreenOk(s)}
                                                           ELSE {s \in Screens : ShowsLine(s, <<>>)}]
  OBVIOUS
<1>5. scr \in stages[0]
  BY <1>4 DEF ScreenOk
<1>6. ASSUME NEW i \in 1..n + 1, NEW s \in stages[i - 1] PROVE PrintChar(s, text[i]) \in stages[i]
  <2>1. i - 1 \in 0..n + 1 /\ i - 1 <= n /\ i \in 0..n + 1
    OBVIOUS
  <2>2. ScreenOk(s)
    BY <1>4, <2>1
  <2>3. CASE i <= n
    <3>1. i \in 1..n
      BY <2>3
    <3>2. text[i] \in Chars
      BY <1>1, <1>3, <3>1
    <3>3. ScreenOk(PrintChar(s, text[i]))
      BY <2>2, <3>2, PrintKeepsOk
    <3> QED BY <1>4, <2>1, <2>3, <3>3 DEF ScreenOk
  <2>4. CASE ~ (i <= n)
    <3>1. i = n + 1
      BY <2>4
    <3>2. ShowsLine(PrintChar(s, text[i]), <<>>)
      BY <1>3, <2>2, <3>1, PromptShows
    <3> QED BY <1>4, <2>1, <2>4, <3>2 DEF ShowsLine, ScreenOk
  <2> QED BY <2>3, <2>4
<1>7. Len(text) \in Nat
  BY <1>3
<1>8. PrintText(scr, text) \in stages[n + 1]
  BY <1>3, <1>5, <1>6, <1>7, TextPrinted
<1>9. n + 1 \in 0..n + 1 /\ ~ (n + 1 <= n)
  OBVIOUS
<1> QED BY <1>2, <1>4, <1>8, <1>9

\* Backspaces for the whole line leave the prompt.
LEMMA LineErased ==
    ASSUME NEW scr, NEW line \in Seq(Chars), ShowsLine(scr, line)
    PROVE  ShowsLine(PrintText(scr, Times(Back, Len(line))), <<>>)
<1>1. PICK n \in Nat : n = Len(line)
  <2>1. Len(line) \in Nat
    OBVIOUS
  <2> QED BY <2>1
<1>2. PICK text : text = Times(Back, n)
  OBVIOUS
<1>3. Len(text) = n /\ \A i \in 1..n : text[i] = Back
  BY <1>2 DEF Times
<1>4. PICK stages : stages = [i \in 0..n |-> {s \in Screens : ShowsLine(s, SubSeq(line, 1, n - i))}]
  OBVIOUS
<1>5. scr \in stages[0]
  <2>1. SubSeq(line, 1, n - 0) = line
    BY <1>1
  <2>2. scr \in Screens
    BY DEF ShowsLine, ScreenOk
  <2> QED BY <1>4, <2>1, <2>2
<1>6. ASSUME NEW i \in 1..n, NEW s \in stages[i - 1] PROVE PrintChar(s, text[i]) \in stages[i]
  <2>1. PICK m \in Nat : m = n - i
    <3>1. n - i \in Nat
      BY ONLY i \in 1..n, n \in Nat
    <3> QED BY <3>1
  <2>2. n - (i - 1) = m + 1 /\ m + 1 <= n /\ i - 1 \in 0..n /\ i \in 0..n
    BY <2>1
  <2>3. PICK more : more = SubSeq(line, 1, m + 1)
    OBVIOUS
  <2>4. more \in Seq(Chars) /\ Len(more) = m + 1 /\ \A j \in 1..m + 1 : more[j] = line[j]
    BY <1>1, <2>2, <2>3
  <2>5. more # <<>>
    BY <2>4
  <2>6. ShowsLine(s, more)
    BY <1>4, <2>2, <2>3
  <2>7. ShowsLine(PrintChar(s, Back), SubSeq(more, 1, Len(more) - 1))
    BY <2>4, <2>5, <2>6, EraseShows
  <2>8. SubSeq(more, 1, m) = SubSeq(line, 1, m)
    <3>1. m <= Len(line) /\ m <= Len(more)
      BY <1>1, <2>2, <2>4
    <3>2. \A j \in 1..m : more[j] = line[j]
      BY <2>4
    <3>3. SubSeq(more, 1, m) \in Seq(Chars) /\ SubSeq(line, 1, m) \in Seq(Chars)
      BY <2>4, <3>1
    <3>4. Len(SubSeq(more, 1, m)) = m /\ Len(SubSeq(line, 1, m)) = m
      BY <2>4, <3>1
    <3>5. \A j \in 1..m : SubSeq(more, 1, m)[j] = SubSeq(line, 1, m)[j]
      BY <2>4, <3>1, <3>2
    <3> QED BY <3>3, <3>4, <3>5, SeqEqual
  <2>9. ShowsLine(PrintChar(s, text[i]), SubSeq(line, 1, n - i))
    <3>1. text[i] = Back
      BY <1>3
    <3>2. Len(more) - 1 = m
      BY <2>4
    <3> QED BY <2>1, <2>7, <2>8, <3>1, <3>2
  <2> QED BY <1>4, <2>2, <2>9 DEF ShowsLine, ScreenOk
<1>7. PrintText(scr, text) \in stages[n]
  BY <1>3, <1>5, <1>6, TextPrinted
<1>8. SubSeq(line, 1, n - n) = <<>>
  OBVIOUS
<1> QED BY <1>1, <1>2, <1>4, <1>7, <1>8

\* A line is shown behind a bare prompt.
LEMMA LinePrinted ==
    ASSUME NEW scr, ShowsLine(scr, <<>>), NEW line \in Seq(Chars \ {Back, Newline}), Len(line) < MAX_INPUT
    PROVE  ShowsLine(PrintText(scr, line), line)
<1>1. PICK n \in Nat : n = Len(line) /\ n < MAX_INPUT
  <2>1. Len(line) \in Nat
    OBVIOUS
  <2> QED BY <2>1
<1>2. PICK stages : stages = [i \in 0..n |-> {s \in Screens : ShowsLine(s, SubSeq(line, 1, i))}]
  OBVIOUS
<1>3. scr \in stages[0]
  <2>1. SubSeq(line, 1, 0) = <<>>
    OBVIOUS
  <2>2. scr \in Screens
    BY DEF ShowsLine, ScreenOk
  <2> QED BY <1>2, <2>1, <2>2
<1>4. ASSUME NEW i \in 1..n, NEW s \in stages[i - 1] PROVE PrintChar(s, line[i]) \in stages[i]
  <2>1. PICK m \in Nat : m = i - 1
    <3>1. i - 1 \in Nat
      BY ONLY i \in 1..n, n \in Nat
    <3> QED BY <3>1
  <2>2. m \in 0..n /\ i \in 0..n /\ i = m + 1 /\ m <= n
    BY <2>1
  <2>3. PICK less : less = SubSeq(line, 1, m)
    OBVIOUS
  <2>4. less \in Seq(Chars) /\ Len(less) = m /\ \A j \in 1..m : less[j] = line[j]
    BY <1>1, <2>2, <2>3
  <2>5. ShowsLine(s, less)
    BY <1>2, <2>1, <2>2, <2>3
  <2>6. line[i] \in Chars /\ line[i] \notin {Back, Newline}
    BY <1>1
  <2>7. m + 2 <= MAX_INPUT
    <3>1. MAX_INPUT \in Nat
      BY ConsoleSizes
    <3> QED BY ONLY <1>1, <2>1, <3>1, i \in 1..n, n \in Nat
  <2>8. ShowsLine(PrintChar(s, line[i]), Append(less, line[i]))
    BY <2>4, <2>5, <2>6, <2>7, PrintShows
  <2>9. Append(less, line[i]) = SubSeq(line, 1, i)
    <3>1. i <= Len(line) /\ line \in Seq(Chars)
      BY <1>1
    <3>2. SubSeq(line, 1, i) \in Seq(Chars) /\ Len(SubSeq(line, 1, i)) = i
      BY <3>1, <2>2
    <3>3. \A j \in 1..i : SubSeq(line, 1, i)[j] = line[j]
      BY <3>1, <2>2
    <3>4. Append(less, line[i]) \in Seq(Chars) /\ Len(Append(less, line[i])) = i
      BY <2>2, <2>4, <2>6
    <3>5. \A j \in 1..i : Append(less, line[i])[j] = line[j]
      BY <2>2, <2>4
    <3> QED BY <3>2, <3>3, <3>4, <3>5, SeqEqual
  <2> QED BY <1>2, <2>2, <2>8, <2>9 DEF ShowsLine, ScreenOk
<1>5. PrintText(scr, line) \in stages[n]
  BY <1>1, <1>3, <1>4, TextPrinted
<1>6. SubSeq(line, 1, n) = line
  BY <1>1
<1> QED BY <1>2, <1>5, <1>6

\* What kb_backspace prints takes the last character.
LEMMA LastErased ==
    ASSUME NEW scr, NEW line \in Seq(Chars), ShowsLine(scr, line), line # <<>>, Len(line) < MAX_INPUT
    PROVE  ShowsLine(PrintText(scr, <<Back, Space, Back>>), SubSeq(line, 1, Len(line) - 1))
<1>1. PICK n \in Nat : n = Len(line) /\ n >= 1 /\ n < MAX_INPUT
  <2>1. Len(line) \in Nat /\ Len(line) >= 1
    OBVIOUS
  <2> QED BY <2>1
<1>2. PICK less : less = SubSeq(line, 1, n - 1)
  OBVIOUS
<1>3. less \in Seq(Chars) /\ Len(less) = n - 1
  BY <1>1, <1>2
<1>4. PICK more : more = Append(less, Space)
  OBVIOUS
<1>5. Space \in Chars /\ Space \notin {Back, Newline}
  BY DEF Chars, Space, Back, Newline
<1>6. more \in Seq(Chars) /\ Len(more) = n /\ more # <<>> /\ SubSeq(more, 1, n - 1) = less
  <2>1. more \in Seq(Chars) /\ Len(more) = n /\ \A j \in 1..n - 1 : more[j] = less[j]
    BY <1>1, <1>3, <1>4, <1>5
  <2>2. SubSeq(more, 1, n - 1) \in Seq(Chars) /\ Len(SubSeq(more, 1, n - 1)) = n - 1
    BY <1>1, <2>1
  <2>3. \A j \in 1..n - 1 : SubSeq(more, 1, n - 1)[j] = more[j]
    BY <1>1, <2>1
  <2>4. SubSeq(more, 1, n - 1) = less
    BY <1>3, <2>1, <2>2, <2>3, SeqEqual
  <2>5. more # <<>>
    BY <1>1, <2>1
  <2> QED BY <2>1, <2>4, <2>5
<1>7. PICK text : text = <<Back, Space, Back>>
  OBVIOUS
<1>8. Len(text) = 3 /\ text[1] = Back /\ text[2] = Space /\ text[3] = Back
  BY <1>7
<1>9. PICK shown : shown = <<line, less, more, less>>
  OBVIOUS
<1>10. shown[1] = line /\ shown[2] = less /\ shown[3] = more /\ shown[4] = less
  BY <1>9
<1>11. PICK stages : stages = [i \in 0..3 |-> {s \in Screens : ShowsLine(s, shown[i + 1])}]
  OBVIOUS
<1>12. scr \in stages[0]
  BY <1>10, <1>11 DEF ShowsLine, ScreenOk
<1>13. ASSUME NEW i \in 1..3, NEW s \in stages[i - 1] PROVE PrintChar(s, text[i]) \in stages[i]
  <2>1. s \in Screens /\ ShowsLine(s, shown[i])
    <3>1. i - 1 \in 0..3 /\ (i - 1) + 1 = i
      OBVIOUS
    <3> QED BY <1>11, <3>1
  <2>2. ShowsLine(PrintChar(s, text[i]), shown[i + 1])
    <3>1. CASE i = 1
      <4>1. ShowsLine(PrintChar(s, Back), SubSeq(line, 1, Len(line) - 1))
        BY <1>10, <2>1, <3>1, EraseShows
      <4>2. text[i] = Back /\ shown[i + 1] = less
        BY <1>8, <1>10, <3>1
      <4>3. SubSeq(line, 1, Len(line) - 1) = less
        BY <1>1, <1>2
      <4> QED BY <4>1, <4>2, <4>3
    <3>2. CASE i = 2
      <4>1. MAX_INPUT \in Nat
        BY ConsoleSizes
      <4>2. Len(less) + 2 <= MAX_INPUT
        BY ONLY <1>1, <1>3, <4>1, n \in Nat
      <4>3. ShowsLine(PrintChar(s, Space), Append(less, Space))
        BY <1>3, <1>5, <1>10, <2>1, <3>2, <4>2, PrintShows
      <4>4. text[i] = Space /\ shown[i + 1] = more
        BY <1>8, <1>10, <3>2
      <4> QED BY <1>4, <4>3, <4>4
    <3>3. CASE i = 3
      <4>1. ShowsLine(PrintChar(s, Back), SubSeq(more, 1, Len(more) - 1))
        BY <1>6, <1>10, <2>1, <3>3, EraseShows
      <4>2. text[i] = Back /\ shown[i + 1] = less
        BY <1>8, <1>10, <3>3
      <4>3. SubSeq(more, 1, Len(more) - 1) = less
        BY <1>6
      <4> QED BY <4>1, <4>2, <4>3
    <3> QED BY <3>1, <3>2, <3>3
  <2>3. i \in 0..3
    OBVIOUS
  <2> QED BY <1>11, <2>2, <2>3 DEF ShowsLine, ScreenOk
<1>14. PrintText(scr, text) \in stages[3]
  <2>1. Len(text) \in Nat /\ 1..Len(text) = 1..3
    BY <1>8
  <2>2. \A i \in 1..Len(text) : \A s \in stages[i - 1] : PrintChar(s, text[i]) \in stages[i]
    BY <1>13, <2>1
  <2>3. PrintText(scr, text) \in stages[Len(text)]
    BY <1>12, <2>1, <2>2, TextPrinted
  <2> QED BY <1>8, <2>3
<1>15. 3 \in 0..3 /\ 3 + 1 = 4
  OBVIOUS
<1> QED BY <1>1, <1>2, <1>7, <1>10, <1>11, <1>14, <1>15

----------------------------------------------------------------------------
Lines == {line \in Seq(TypedChars) : Len(line) < MAX_INPUT}

\* The entries of the history are lines, as many as have been pushed and have room; the
\* entry shown is one of those pushed.
HistoryOk ==
    /\ history \in Seq(Lines) /\ history_count \in Nat
    /\ Len(history) = IF history_count < HISTORY_SIZE THEN history_count ELSE HISTORY_SIZE
    /\ hist_nav \in -1..history_count - 1

ConsoleInv ==
    /\ HistoryOk
    /\ input \in Lines /\ ScreenOk(screen)
    /\ task = "key" => ShowsLine(screen, input)

LEMMA TypedAre ==
    /\ TypedChars \subseteq Chars \ {Back, Newline}
    /\ \A line \in Lines : line \in Seq(Chars \ {Back, Newline}) /\ line \in Seq(Chars) /\ Len(line) \in Nat /\ Len(line) < MAX_INPUT
    /\ \A output \in Outputs : output \in Seq(Chars)
    /\ <<>> \in Lines
<1>1. TypedChars \subseteq Chars \ {Back, Newline}
  BY ConsoleAssumption DEF Chars, Back, Newline
<1>2. \A line \in Seq(TypedChars) : line \in Seq(Chars \ {Back, Newline}) /\ line \in Seq(Chars) /\ Len(line) \in Nat
  BY <1>1
<1>3. ASSUME NEW output \in Outputs PROVE output \in Seq(Chars)
  <2>1. output \in Seq({output[i] : i \in DOMAIN output})
    BY ConsoleAssumption
  <2>2. {output[i] : i \in DOMAIN output} \subseteq Chars
    BY DEF Chars
  <2> QED BY <2>1, <2>2
<1>4. <<>> \in Seq(TypedChars) /\ Len(<<>>) = 0 /\ 0 < MAX_INPUT
  BY ConsoleSizes
<1> QED BY <1>1, <1>2, <1>3, <1>4 DEF Lines

\* A slot that is looked up has been written.
LEMMA SlotWritten ==
    ASSUME HistoryOk, NEW n \in 0..history_count - 1
    PROVE  HistorySlot(n) \in 1..Len(history) /\ history[HistorySlot(n)] \in Lines
<1>1. PICK h \in Nat, c \in Nat : h = HISTORY_SIZE /\ c = history_count /\ h >= 1
  BY ConsoleSizes DEF HistoryOk
<1>2. n \in 0..c - 1
  BY <1>1
<1>3. n % h \in 0..h - 1 /\ (n < h => n % h = n)
  BY ONLY <1>1, <1>2, h \in Nat, c \in Nat
<1>4. PICK m : m = n % h
  OBVIOUS
<1>5. m + 1 \in 1..(IF c < h THEN c ELSE h)
  BY ONLY <1>1, <1>2, <1>3, <1>4, h \in Nat, c \in Nat
<1>6. HistorySlot(n) \in 1..Len(history)
  BY <1>1, <1>4, <1>5 DEF HistorySlot, HistoryOk
<1> QED BY <1>6 DEF HistoryOk

LEMMA RecallKeeps ==
    ASSUME ConsoleInv, task = "key", NEW line \in Lines, Recall(line)
    PROVE  input' \in Lines /\ ScreenOk(screen') /\ ShowsLine(screen', input')
<1>1. PICK bare : bare = PrintText(screen, Times(Back, Len(input)))
  OBVIOUS
<1>2. ShowsLine(bare, <<>>)
  BY <1>1, LineErased, TypedAre DEF ConsoleInv
<1>3. screen' = PrintText(bare, line) /\ input' = line
  BY <1>1 DEF Recall, Cleared
<1>4. ShowsLine(PrintText(bare, line), line)
  BY <1>2, LinePrinted, TypedAre
<1> QED BY <1>3, <1>4 DEF ShowsLine

LEMMA HistoryKeeps ==
    ASSUME HistoryOk, input \in Lines, HistoryPush, hist_nav' = -1
    PROVE  HistoryOk'
<1>1. CASE UNCHANGED <<history, history_count>>
  <2>1. -1 \in -1..history_count - 1
    BY DEF HistoryOk
  <2> QED BY <1>1, <2>1 DEF HistoryOk
<1>2. CASE ~ UNCHANGED <<history, history_count>>
  <2>1. /\ history' = IF history_count < HISTORY_SIZE THEN Append(history, input)
                      ELSE [history EXCEPT ![HistorySlot(history_count)] = input]
        /\ history_count' = history_count + 1
    BY <1>2 DEF HistoryPush
  <2>2. PICK h \in Nat, c \in Nat : h = HISTORY_SIZE /\ c = history_count /\ h >= 1
    BY ConsoleSizes DEF HistoryOk
  <2>3. history \in Seq(Lines) /\ Len(history) = IF c < h THEN c ELSE h
    BY <2>2 DEF HistoryOk
  <2>4. -1 \in -1..(c + 1) - 1
    OBVIOUS
  <2>5. CASE c < h
    <3>1. history' = Append(history, input)
      BY <2>1, <2>2, <2>5
    <3>2. history' \in Seq(Lines) /\ Len(history') = c + 1
      BY <2>3, <2>5, <3>1
    <3>3. Len(history') = IF c + 1 < h THEN c + 1 ELSE h
      BY ONLY <2>5, <3>2, c \in Nat, h \in Nat
    <3> QED BY <2>1, <2>2, <2>4, <3>2, <3>3 DEF HistoryOk
  <2>6. CASE ~ (c < h)
    <3>1. PICK i : i = HistorySlot(c)
      OBVIOUS
    <3>2. history' = [history EXCEPT ![i] = input]
      BY <2>1, <2>2, <2>6, <3>1
    <3>3. history' \in Seq(Lines) /\ Len(history') = h
      <4>1. PICK q : q = history
        OBVIOUS
      <4>5. PICK line : line = input /\ line \in Lines
        OBVIOUS
      <4>2. q \in Seq(Lines) /\ Len(q) = h
        BY <2>3, <2>6, <4>1
      <4>3. [q EXCEPT ![i] = line] \in Seq(Lines) /\ Len([q EXCEPT ![i] = line]) = h
        <5>1. c % h \in 0..h - 1
          BY ONLY <2>2, c \in Nat, h \in Nat
        <5>2. i \in 1..h
          BY <2>2, <3>1, <5>1 DEF HistorySlot
        <5>3. i \in 1..Len(q)
          BY <4>2, <5>2
        <5> QED BY <4>5, <4>2, <5>3, ExceptSeq
      <4> QED BY <3>2, <4>1, <4>5, <4>3
    <3>4. Len(history') = IF c + 1 < h THEN c + 1 ELSE h
      BY ONLY <2>6, <3>3, c \in Nat, h \in Nat
    <3> QED BY <2>1, <2>2, <2>4, <3>3, <3>4 DEF HistoryOk
  <2> QED BY <2>5, <2>6
<1> QED BY <1>1, <1>2

LEMMA ConsoleStarts == ConsoleInit => ConsoleInv
<1> SUFFICES ASSUME ConsoleInit PROVE ConsoleInv
  OBVIOUS
<1>1. ShowsLine(PrintText(EmptyScreen, <<>> \o Prompt), <<>>)
  <2>1. <<>> \in Seq(Chars)
    OBVIOUS
  <2> QED BY <2>1, EmptyIsOk, OutputPrompted
<1>2. <<>> \o Prompt = Prompt
  BY DEF Prompt
<1>3. ShowsLine(screen, input)
  BY <1>1, <1>2 DEF ConsoleInit
<1>4. HistoryOk
  <2>1. history = <<>> /\ history_count = 0 /\ hist_nav = -1
    BY DEF ConsoleInit
  <2>2. <<>> \in Seq(Lines) /\ Len(<<>>) = 0 /\ 0 \in Nat /\ -1 \in -1..0 - 1
    OBVIOUS
  <2>3. 0 < HISTORY_SIZE
    BY ConsoleSizes
  <2> QED BY <2>1, <2>2, <2>3 DEF HistoryOk
<1>5. input \in Lines
  BY TypedAre DEF ConsoleInit
<1> QED BY <1>3, <1>4, <1>5 DEF ConsoleInv, ShowsLine

LEMMA ConsoleKeeps == ConsoleInv /\ [ConsoleNext]_consoleVars => ConsoleInv'
<1> SUFFICES ASSUME ConsoleInv, [ConsoleNext]_consoleVars PROVE ConsoleInv'
  OBVIOUS
<1>1. HistoryOk /\ input \in Lines /\ ScreenOk(screen) /\ (task = "key" => ShowsLine(screen, input))
  BY DEF ConsoleInv
<1>2. ASSUME history' = history, history_count' = history_count, hist_nav' \in -1..history_count - 1
      PROVE  HistoryOk'
  BY <1>1, <1>2 DEF HistoryOk
<1>3. history_count \in Nat /\ hist_nav \in -1..history_count - 1
  BY <1>1 DEF HistoryOk
<1>4. CASE KeyUp
  <2>1. task = "key" /\ Recall(history[HistorySlot(hist_nav')]) /\ history_count > 0
    BY <1>4 DEF KeyUp
  <2>2. hist_nav' = IF hist_nav = -1 THEN history_count - 1
                    ELSE IF hist_nav > 0 THEN hist_nav - 1 ELSE hist_nav
    BY <1>4 DEF KeyUp
  <2>3. hist_nav' \in 0..history_count - 1
    BY <1>3, <2>1, <2>2
  <2>4. history[HistorySlot(hist_nav')] \in Lines
    BY <1>1, <2>3, SlotWritten
  <2>5. input' \in Lines /\ ScreenOk(screen') /\ ShowsLine(screen', input')
    BY <2>1, <2>4, RecallKeeps
  <2>6. history' = history /\ history_count' = history_count /\ hist_nav' \in -1..history_count - 1
    BY <1>3, <2>1, <2>3 DEF Recall
  <2> QED BY <1>2, <2>5, <2>6 DEF ConsoleInv
<1>5. CASE KeyDown
  <2>1. task = "key" /\ hist_nav # -1
    BY <1>5 DEF KeyDown
  <2>2. CASE hist_nav + 1 >= history_count
    <3>1. hist_nav' = -1 /\ Recall(<<>>)
      BY <1>5, <2>2 DEF KeyDown
    <3>2. input' \in Lines /\ ScreenOk(screen') /\ ShowsLine(screen', input')
      BY <2>1, <3>1, RecallKeeps, TypedAre
    <3>3. history' = history /\ history_count' = history_count /\ hist_nav' \in -1..history_count - 1
      BY <1>3, <3>1 DEF Recall
    <3> QED BY <1>2, <3>2, <3>3 DEF ConsoleInv
  <2>3. CASE ~ (hist_nav + 1 >= history_count)
    <3>1. hist_nav' = hist_nav + 1 /\ Recall(history[HistorySlot(hist_nav')])
      BY <1>5, <2>3 DEF KeyDown
    <3>2. hist_nav' \in 0..history_count - 1
      BY <1>3, <2>1, <2>3, <3>1
    <3>3. history[HistorySlot(hist_nav')] \in Lines
      BY <1>1, <3>2, SlotWritten
    <3>4. input' \in Lines /\ ScreenOk(screen') /\ ShowsLine(screen', input')
      BY <2>1, <3>1, <3>3, RecallKeeps
    <3>5. history' = history /\ history_count' = history_count /\ hist_nav' \in -1..history_count - 1
      BY <1>3, <3>1, <3>2 DEF Recall
    <3> QED BY <1>2, <3>4, <3>5 DEF ConsoleInv
  <2> QED BY <2>2, <2>3
<1>6. CASE KeyBackspace
  <2>1. /\ task = "key" /\ input # <<>> /\ input' = SubSeq(input, 1, Len(input) - 1)
        /\ screen' = PrintText(screen, <<Back, Space, Back>>)
        /\ history' = history /\ history_count' = history_count /\ hist_nav' = hist_nav
    BY <1>6 DEF KeyBackspace
  <2>2. ShowsLine(screen', input')
    BY <1>1, <2>1, LastErased, TypedAre
  <2>3. input' \in Lines
    <3>1. input \in Seq(TypedChars) /\ Len(input) < MAX_INPUT
      BY <1>1 DEF Lines
    <3>2. input' \in Seq(TypedChars) /\ Len(input') = Len(input) - 1 /\ Len(input) \in Nat
      <4>1. PICK line : line = input
        OBVIOUS
      <4>2. line \in Seq(TypedChars) /\ Len(line) \in Nat /\ Len(line) >= 1
        BY <2>1, <3>1, <4>1
      <4>3. SubSeq(line, 1, Len(line) - 1) \in Seq(TypedChars) /\ Len(SubSeq(line, 1, Len(line) - 1)) = Len(line) - 1
        <5>1. PICK m \in Nat : m = Len(line) - 1
          BY <4>2
        <5>2. 1 \in Int /\ m \in Int /\ Len(line) = m + 1
          BY <4>2, <5>1
        <5>3. \A i \in 1..m : line[i] \in TypedChars
          BY <4>2, <5>2
        <5>4. SubSeq(line, 1, m) \in Seq(TypedChars) /\ Len(SubSeq(line, 1, m)) = IF 1 <= m THEN m - 1 + 1 ELSE 0
          BY <5>2, <5>3, SubSeqProperties
        <5>5. (IF 1 <= m THEN m - 1 + 1 ELSE 0) = m
          BY ONLY m \in Nat
        <5> QED BY <5>1, <5>4, <5>5
      <4>4. input' = SubSeq(line, 1, Len(line) - 1)
        BY <2>1, <4>1
      <4> QED BY <4>1, <4>2, <4>3, <4>4
    <3>3. MAX_INPUT \in Nat
      BY ConsoleSizes
    <3>4. Len(input') < MAX_INPUT
      BY <3>1, <3>2, <3>3
    <3> QED BY <3>2, <3>4 DEF Lines
  <2> QED BY <1>2, <1>3, <2>1, <2>2, <2>3 DEF ConsoleInv, ShowsLine
<1>7. ASSUME NEW ch \in TypedChars, KeyChar(ch) PROVE ConsoleInv'
  <2>1. /\ task = "key" /\ Len(input) < MAX_INPUT - 1 /\ input' = Append(input, ch)
        /\ screen' = PrintChar(screen, ch)
        /\ history' = history /\ history_count' = history_count /\ hist_nav' = hist_nav
    BY <1>7 DEF KeyChar
  <2>2. MAX_INPUT \in Nat /\ Len(input) \in Nat /\ input \in Seq(Chars)
    BY <1>1, ConsoleSizes, TypedAre
  <2>3. Len(input) + 2 <= MAX_INPUT
    BY <2>1, <2>2
  <2>4. ch \in Chars /\ ch \notin {Back, Newline}
    BY TypedAre
  <2>5. ShowsLine(screen', input')
    BY <1>1, <2>1, <2>2, <2>3, <2>4, PrintShows
  <2>6. input' \in Lines
    <3>1. input \in Seq(TypedChars)
      BY <1>1 DEF Lines
    <3>2. input' \in Seq(TypedChars) /\ Len(input') = Len(input) + 1
      BY <2>1, <3>1
    <3>3. Len(input') < MAX_INPUT
      BY <2>2, <2>3, <3>2
    <3> QED BY <3>2, <3>3 DEF Lines
  <2> QED BY <1>2, <1>3, <2>1, <2>5, <2>6 DEF ConsoleInv, ShowsLine
<1>8. CASE KeyEnter
  <2>1. HistoryPush /\ hist_nav' = -1 /\ screen' = PrintChar(screen, Newline) /\ task' = "run" /\ input' = input
    BY <1>8 DEF KeyEnter
  <2>2. HistoryOk'
    BY <1>1, <2>1, HistoryKeeps
  <2>3. ScreenOk(screen')
    BY <1>1, <2>1, PrintKeepsOk
  <2> QED BY <1>1, <2>1, <2>2, <2>3 DEF ConsoleInv
<1>9. ASSUME NEW scr, ScreenOk(scr), NEW output \in Seq(Chars), screen' = PrintText(scr, output \o Prompt),
             input' = <<>>, history' = history, history_count' = history_count, hist_nav' = hist_nav
      PROVE  ConsoleInv'
  <2>1. ShowsLine(screen', input')
    BY <1>9, OutputPrompted
  <2> QED BY <1>2, <1>3, <1>9, <2>1, TypedAre DEF ConsoleInv, ShowsLine
<1>10. CASE ClearScreen
  <2>1. <<>> \in Seq(Chars) /\ <<>> \o Prompt = Prompt
    BY DEF Prompt
  <2>2. /\ screen' = PrintText(EmptyScreen, Prompt) /\ input' = <<>>
        /\ history' = history /\ history_count' = history_count /\ hist_nav' = hist_nav
    BY <1>10 DEF ClearScreen
  <2> QED BY <1>9, <2>1, <2>2, EmptyIsOk
<1>11. ASSUME NEW output \in Outputs, Dispatch(output) PROVE ConsoleInv'
  <2>1. /\ screen' = PrintText(screen, output \o Prompt) /\ input' = <<>>
        /\ history' = history /\ history_count' = history_count /\ hist_nav' = hist_nav
    BY <1>11 DEF Dispatch
  <2> QED BY <1>1, <1>9, <2>1, TypedAre
<1>12. CASE UNCHANGED consoleVars
  <2>1. /\ screen' = screen /\ input' = input /\ task' = task
        /\ history' = history /\ history_count' = history_count /\ hist_nav' = hist_nav
    BY <1>12 DEF consoleVars
  <2> QED BY <1>1, <1>2, <1>3, <2>1 DEF ConsoleInv
<1> QED BY <1>4, <1>5, <1>6, <1>7, <1>8, <1>10, <1>11, <1>12 DEF ConsoleNext

\* A screen that shows the line is the one that LineShown speaks of.
LEMMA ShownIsRight ==
    ASSUME input \in Lines, ShowsLine(screen, input)
    PROVE  /\ CursorAt > Len(input) + 1
           /\ SubSeq(Cells, CursorAt - Len(input) - 1, Len(Cells))
                = Prompt \o input \o Times(Space, Len(Cells) - CursorAt + 1)
<1>1. screen \in Screens /\ Pos(screen) \in Nat /\ Pos(screen) \in Positions /\ screen.cell \in Cell
  BY ScreenIsScr, PositionsFacts DEF ShowsLine, ScreenOk
<1>2. input \in Seq(Chars) /\ Len(input) \in Nat
  BY TypedAre
<1>3. PICK n \in Nat, x \in Nat, z \in Nat : n = Len(input) /\ x = Pos(screen) /\ z = Size
  BY <1>1, <1>2, ConsoleSizes
<1>4. /\ x >= n + 1 /\ x < z /\ At(screen.cell, x - n - 1) = ">"
      /\ \A i \in 1..n : At(screen.cell, x - n - 1 + i) = input[i]
      /\ \A k \in Positions : k >= x => At(screen.cell, k) = Space
  BY <1>1, <1>3, PositionsFacts DEF ShowsLine, ScreenOk
<1>5. Cells = [i \in 1..z |-> At(screen.cell, i - 1)]
  BY <1>3 DEF Cells, At, Size
<1>6. ASSUME NEW i \in 1..z PROVE i - 1 \in Positions /\ At(screen.cell, i - 1) \in Chars
  <2>1. i - 1 \in Nat /\ i - 1 < z
    BY ONLY i \in 1..z, z \in Nat
  <2>2. i - 1 \in Positions
    BY <1>3, <2>1, PositionsFacts
  <2>3. (i - 1) \div VGA_COLS \in Rows /\ (i - 1) % VGA_COLS \in Cols
    BY <2>2, PlaceOf
  <2> QED BY <1>1, <2>2, <2>3 DEF At, Cell
<1>7. PICK cells : cells = Cells
  OBVIOUS
<1>8. cells \in Seq(Chars) /\ Len(cells) = z /\ \A i \in 1..z : cells[i] = At(screen.cell, i - 1)
  BY <1>5, <1>6, <1>7
<1>9. CursorAt = x + 1
  <2>1. CursorAt = Pos(screen) + 1
    BY DEF CursorAt, Pos, Place
  <2> QED BY <1>3, <2>1
<1>10. PICK a \in Nat, b \in Nat : a = x - n /\ b = z - x
  <2>1. x - n \in Nat /\ z - x \in Nat
    BY ONLY <1>4, n \in Nat, x \in Nat, z \in Nat
  <2> QED BY <2>1
<1>11. /\ CursorAt - Len(input) - 1 = a /\ a >= 1 /\ a <= z
       /\ Len(cells) - CursorAt + 1 = b /\ z - a + 1 = 1 + n + b
  <2>1. (x + 1) - n - 1 = a /\ a >= 1 /\ a <= z /\ z - (x + 1) + 1 = b /\ z - a + 1 = 1 + n + b
    BY ONLY <1>4, <1>10, n \in Nat, x \in Nat, z \in Nat, a \in Nat, b \in Nat
  <2> QED BY <1>3, <1>8, <1>9, <2>1
<1>12. PICK found : found = SubSeq(cells, a, z)
  OBVIOUS
<1>13. found \in Seq(Chars) /\ Len(found) = 1 + n + b /\ \A j \in 1..1 + n + b : found[j] = cells[a + j - 1]
  <2>1. found \in Seq(Chars) /\ Len(found) = z - a + 1
    BY <1>8, <1>11, <1>12
  <2>2. \A j \in 1..z - a + 1 : found[j] = cells[a + j - 1]
    BY <1>8, <1>11, <1>12
  <2> QED BY <1>11, <2>1, <2>2
<1>14. PICK blank : blank = Times(Space, b)
  OBVIOUS
<1>15. blank \in Seq(Chars) /\ Len(blank) = b /\ \A j \in 1..b : blank[j] = Space
  <2>1. Space \in Chars
    BY DEF Chars
  <2> QED BY <1>14, <2>1 DEF Times
<1>16. PICK text : text = Prompt \o input
  OBVIOUS
<1>17. text \in Seq(Chars) /\ Len(text) = 1 + n /\ text[1] = ">" /\ \A j \in 1..n : text[j + 1] = input[j]
  <2>1. PICK prompt : prompt = Prompt
    OBVIOUS
  <2>2. prompt \in Seq(Chars) /\ Len(prompt) = 1 /\ prompt[1] = ">"
    BY <2>1 DEF Prompt, Chars
  <2>3. text = prompt \o input
    BY <1>16, <2>1
  <2>4. text \in Seq(Chars) /\ Len(text) = 1 + n
    BY <1>2, <1>3, <2>2, <2>3, ConcatProperties
  <2>7. \A i \in 1..1 + n : text[i] = IF i <= 1 THEN prompt[i] ELSE input[i - 1]
    <3>1. input \in Seq(Chars) /\ prompt \in Seq(Chars)
      BY <1>2, <2>2
    <3>2. \A i \in 1..Len(prompt) + Len(input) : (prompt \o input)[i] = IF i <= Len(prompt) THEN prompt[i] ELSE input[i - Len(prompt)]
      BY <3>1, ConcatProperties
    <3> QED BY <1>3, <2>2, <2>3, <3>2
  <2>5. text[1] = ">"
    <3>1. 1 \in 1..1 + n /\ 1 <= 1
      BY ONLY n \in Nat
    <3> QED BY <2>2, <2>7, <3>1
  <2>6. ASSUME NEW j \in 1..n PROVE text[j + 1] = input[j]
    <3>1. j + 1 \in 1..1 + n /\ ~ (j + 1 <= 1) /\ (j + 1) - 1 = j
      BY ONLY j \in 1..n, n \in Nat
    <3> QED BY <2>7, <3>1
  <2> QED BY <2>4, <2>5, <2>6
<1>18. PICK right : right = text \o blank
  OBVIOUS
<1>19. /\ right \in Seq(Chars) /\ Len(right) = 1 + n + b
       /\ \A j \in 1..1 + n : right[j] = text[j]
       /\ \A j \in 1..b : right[1 + n + j] = Space
  <2>1. right \in Seq(Chars) /\ Len(right) = 1 + n + b
    BY <1>15, <1>17, <1>18, ConcatProperties
  <2>2. \A j \in 1..1 + n : right[j] = text[j]
    BY <1>15, <1>17, <1>18, ConcatProperties
  <2>3. ASSUME NEW j \in 1..b PROVE right[1 + n + j] = Space
    <3>1. 1 + n + j \in 1..1 + n + b /\ 1 + n + j > 1 + n /\ 1 + n + j - (1 + n) = j
      BY ONLY j \in 1..b, n \in Nat, b \in Nat
    <3>2. right[1 + n + j] = blank[1 + n + j - (1 + n)]
      <4>1. \A i \in 1..Len(text) + Len(blank) : (text \o blank)[i] = IF i <= Len(text) THEN text[i] ELSE blank[i - Len(text)]
        BY <1>15, <1>17, ConcatProperties
      <4>2. \A i \in 1..1 + n + b : right[i] = IF i <= 1 + n THEN text[i] ELSE blank[i - (1 + n)]
        BY <1>15, <1>17, <1>18, <4>1
      <4>3. ~ (1 + n + j <= 1 + n)
        BY <3>1
      <4> QED BY <3>1, <4>2, <4>3
    <3> QED BY <1>15, <3>1, <3>2
  <2> QED BY <2>1, <2>2, <2>3
<1>20. ASSUME NEW j \in 1..1 + n + b PROVE found[j] = right[j]
  <2>1. PICK k \in Nat : k = a + j - 2
    <3>1. a + j - 2 \in Nat
      BY ONLY <1>11, j \in 1..1 + n + b, a \in Nat, n \in Nat, b \in Nat
    <3> QED BY <3>1
  <2>2. a + j - 1 \in 1..z /\ (a + j - 1) - 1 = k /\ k < z
    BY ONLY <1>11, <2>1, j \in 1..1 + n + b, a \in Nat, n \in Nat, b \in Nat, z \in Nat
  <2>3. found[j] = At(screen.cell, k)
    BY <1>8, <1>13, <2>2
  <2>4. CASE j = 1
    <3>1. k = x - n - 1 /\ 1 \in 1..1 + n
      BY ONLY <1>10, <2>1, <2>4, n \in Nat, x \in Nat
    <3> QED BY <1>4, <1>17, <1>19, <2>3, <2>4, <3>1
  <2>5. CASE j # 1 /\ j <= n + 1
    <3>1. PICK i \in 1..n : i = j - 1
      <4>1. j - 1 \in 1..n
        BY ONLY <2>5, j \in 1..1 + n + b, n \in Nat, b \in Nat
      <4> QED BY <4>1
    <3>2. k = x - n - 1 + i /\ j = i + 1 /\ j \in 1..1 + n
      BY ONLY <1>10, <2>1, <2>5, <3>1, n \in Nat, x \in Nat, j \in 1..1 + n + b, b \in Nat
    <3> QED BY <1>4, <1>17, <1>19, <2>3, <3>2
  <2>6. CASE ~ (j <= n + 1)
    <3>1. PICK i \in 1..b : i = j - n - 1
      <4>1. j - n - 1 \in 1..b
        BY ONLY <2>6, j \in 1..1 + n + b, n \in Nat, b \in Nat
      <4> QED BY <4>1
    <3>2. k >= x /\ j = 1 + n + i
      BY ONLY <1>10, <2>1, <2>6, <3>1, n \in Nat, x \in Nat, j \in 1..1 + n + b, b \in Nat
    <3>3. k \in Positions
      BY <1>3, <2>2, PositionsFacts
    <3>4. right[j] = Space
      BY <1>19, <3>1, <3>2
    <3> QED BY <1>4, <2>3, <3>2, <3>3, <3>4
  <2> QED BY <2>4, <2>5, <2>6
<1>21. found = right
  BY <1>13, <1>19, <1>20, SeqEqual
<1>22. CursorAt > Len(input) + 1
  <2>1. x + 1 > n + 1
    BY ONLY <1>4, n \in Nat, x \in Nat
  <2> QED BY <1>3, <1>9, <2>1
<1> QED BY <1>7, <1>8, <1>11, <1>12, <1>14, <1>16, <1>18, <1>21, <1>22

\* What stands behind the prompt is the line that Enter runs, over wrapped and scrolled
\* lines, erasing, and recalls of commands from the history.
THEOREM LineIsShown == ConsoleSpec => []LineShown
<1>1. ConsoleInv => LineShown
  BY ShownIsRight DEF ConsoleInv, LineShown
<1> QED BY <1>1, ConsoleStarts, ConsoleKeeps, PTL DEF ConsoleSpec
=============================================================================
