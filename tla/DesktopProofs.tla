---------------------------- MODULE DesktopProofs -----------------------------
(***************************************************************************)
(* The tables of the display server, its connections and the apps that use *)
(* them agree, for every number of apps, clients, windows and crashes, and *)
(* every size of the socket buffers.                                       *)
(***************************************************************************)
EXTENDS Desktop, FiniteSetTheorems, SequenceTheorems, WellFoundedInduction, TLAPS

USE CompositorAssumption, DesktopAssumption

Connected(a) == \E s \in Slot : clients[s] = a
Owns(a, w) == windows[w].in_use /\ clients[windows[w].owner] = a
Talking == {"hello", "create", "present", "loop", "bye"}

\* A slot's client is connected, in that slot alone; what waits for accept(2) waits once.
Connections ==
    /\ \A s \in ready : clients[s] # NoApp
    /\ \A s \in Slot : clients[s] = NoApp => ~hello_done[s]
    /\ \A s, t \in Slot : clients[s] = clients[t] /\ clients[s] # NoApp => s = t
    /\ \A a \in App : srv_end[a] = "open" <=> Connected(a)
    /\ \A i, j \in 1..Len(backlog) : backlog[i] = backlog[j] => i = j
    /\ \A i \in 1..Len(backlog) : srv_end[backlog[i]] = "queued"
    /\ \A a \in App : srv_end[a] \in {"none", "queued"} => inbox[a] = <<>>

\* The ids of windows are those of creator, and no two windows have the same.
Identified ==
    /\ next_window = Len(creator) + 1
    /\ \A w \in Window : windows[w].in_use => windows[w].id \in 1..Len(creator)
    /\ \A v, w \in Window :
          windows[v].in_use /\ windows[w].in_use /\ windows[v].id = windows[w].id => v = w

\* An app is started once, and connects after that.
Started ==
    /\ launches \in Nat
    /\ \A a \in App : /\ pc[a] = "unborn" \/ Launch[a] <= launches
                      /\ pc[a] \in {"unborn", "new", "refused"} => srv_end[a] = "none" /\ outbox[a] = <<>>
                      /\ pc[a] \in Talking => app_end[a] = "open"
                      /\ pc[a] \in {"create", "present", "loop", "bye"} => srv_end[a] \in {"open", "closed"}

\* Where the handshake of an app is, as the two buffers of its connection show it.
Asked(a, op)  == outbox[a] # <<>> /\ Len(outbox[a]) = 1 /\ Head(outbox[a]).op = op /\ inbox[a] = <<>>
Answered(a)   == outbox[a] = <<>> /\ inbox[a] # <<>>
Windowless(a) == \A w \in Window : ~Owns(a, w)
Holds(a, id)  == \E w \in Window : Owns(a, w) /\ windows[w].id = id

Greeting(a) ==
    \/ Asked(a, "HELLO") /\ Windowless(a)
    \/ Answered(a) /\ Len(inbox[a]) = 1 /\ Head(inbox[a]).op \in {"HELLO_OK", "ERROR"} /\ Windowless(a)

Creating(a) ==
    \/ inbox[a] = <<>> /\ outbox[a] = <<>> /\ srv_end[a] = "closed"
    \/ Asked(a, "WINDOW_CREATE") /\ Windowless(a)
    \/ Answered(a) /\ Head(inbox[a]).op = "ERROR"
    \/ Answered(a) /\ Head(inbox[a]).op = "WINDOW_OK"
       /\ (srv_end[a] = "open" => Holds(a, Head(inbox[a]).id))

Handshake ==
    \A a \in App : /\ pc[a] = "hello"  => Greeting(a)
                   /\ pc[a] = "create" => Creating(a)

\* Only an app that leaves has a WINDOW_DESTROY on its way, and it is for a window of its own.
Farewell ==
    \A a \in App : \A i \in 1..Len(outbox[a]) :
        outbox[a][i].op = "WINDOW_DESTROY" =>
            /\ pc[a] \in {"bye", "gone"} /\ srv_end[a] \in {"open", "closed"}
            /\ srv_end[a] = "open" => outbox[a][i].id \in 1..Len(creator) /\ creator[outbox[a][i].id] = a

EventIds ==
    \A a \in App : \A i \in 1..Len(inbox[a]) :
        inbox[a][i].op = "EVENT" /\ srv_end[a] = "open" => inbox[a][i].id \in 1..Len(creator)

DesktopInv ==
    /\ TypeOK /\ Connections /\ Identified /\ Started /\ Handshake /\ Farewell /\ EventIds
    /\ WindowsOwned /\ WindowHeld /\ EventsForCreator

----------------------------------------------------------------------------
(* alloc_window, find_window and find_free_client find an entry.           *)

LEMMA FirstIn ==
    ASSUME NEW S \in SUBSET Nat, S # {}
    PROVE  First(S) \in S
<1>1. PICK x \in S : \A y \in S : ~ (<<y, x>> \in OpToRel(<, Nat))
  BY NatLessThanWellFounded, WFMin
<1>2. \A y \in S : ~ (y < x)
  BY <1>1 DEF OpToRel
<1>3. \A y \in S : x <= y
  BY <1>2
<1> QED BY <1>3, Zenon DEF First

----------------------------------------------------------------------------
(* The buffers of a connection.                                            *)

LEMMA MessageFacts ==
    /\ \A o \in {"HELLO_OK", "ERROR", "WINDOW_CREATE"} : [op |-> o] \in Message
    /\ \A o \in {"WINDOW_OK", "WINDOW_DESTROY", "WINDOW_PRESENT", "EVENT"}, n \in Nat \ {0} :
          [op |-> o, id |-> n] \in Message
    /\ \A v \in BOOLEAN : [op |-> "HELLO", version_ok |-> v] \in Message
BY DEF Message

LEMMA Behind ==
    ASSUME NEW q \in Seq(Message), NEW m \in Message
    PROVE  /\ Append(q, m) \in Seq(Message) /\ Len(Append(q, m)) = Len(q) + 1 /\ Append(q, m) # <<>>
           /\ \A i \in 1..Len(q) : Append(q, m)[i] = q[i]
           /\ \A i \in 1..Len(q) + 1 : i \in 1..Len(q) \/ Append(q, m)[i] = m
           /\ Head(Append(q, m)) = IF q = <<>> THEN m ELSE Head(q)
<1>1. /\ Append(q, m) \in Seq(Message) /\ Len(Append(q, m)) = Len(q) + 1
      /\ \A i \in 1..Len(q) : Append(q, m)[i] = q[i]
      /\ Append(q, m)[Len(q) + 1] = m
  OBVIOUS
<1>2. Len(q) \in Nat /\ (q # <<>> => Len(q) >= 1 /\ Head(q) = q[1])
  BY EmptySeq, LenProperties
<1>3. Append(q, m) # <<>> /\ Head(Append(q, m)) = Append(q, m)[1]
  BY <1>1, <1>2, EmptySeq
<1>4. Len(<<>>) = 0
  BY EmptySeq
<1>5. Head(Append(q, m)) = IF q = <<>> THEN m ELSE Head(q)
  BY <1>1, <1>2, <1>3, <1>4
<1> QED BY <1>1, <1>2, <1>3, <1>5

LEMMA Taken ==
    ASSUME NEW q \in Seq(Message), q # <<>>
    PROVE  /\ Head(q) \in Message /\ Head(q) = q[1] /\ 1 \in 1..Len(q)
           /\ Tail(q) \in Seq(Message) /\ Len(Tail(q)) = Len(q) - 1 /\ Len(Tail(q)) \in Nat
           /\ \A i \in 1..Len(Tail(q)) : i + 1 \in 1..Len(q) /\ Tail(q)[i] = q[i + 1]
           /\ Len(q) = 1 => Tail(q) = <<>>
<1>1. Len(q) \in Nat \ {0}
  BY EmptySeq
<1>2. /\ Head(q) \in Message /\ Tail(q) \in Seq(Message) /\ Len(Tail(q)) = Len(q) - 1
      /\ \A i \in 1..Len(Tail(q)) : Tail(q)[i] = q[i + 1]
  BY HeadTailProperties
<1>3. Head(q) = q[1]
  OBVIOUS
<1>4. Tail(q) # <<>> => Len(Tail(q)) \in Nat \ {0}
  <2>1. \A t \in Seq(Message) : t # <<>> => Len(t) \in Nat \ {0}
    BY EmptySeq
  <2> QED BY <1>2, <2>1
<1>5. Len(q) = 1 => Tail(q) = <<>>
  BY <1>1, <1>2, <1>4
<1>6. Len(q) \in Nat /\ Len(q) >= 1 /\ 1 \in 1..Len(q)
  BY <1>1
<1>7. \A i \in 1..Len(Tail(q)) : i + 1 \in 1..Len(q)
  BY <1>2, <1>6
<1> QED BY <1>2, <1>3, <1>5, <1>6, <1>7

\* What sendmsg does to the inbox of a client: nothing, or one message more.
LEMMA SendToInbox ==
    ASSUME TypeOK, NEW a \in App, NEW m \in Message, SendTo(a, m)
    PROVE  /\ inbox' \in [App -> Seq(Message)]
           /\ \A b \in App : Len(inbox'[b]) <= SOCKBUF
           /\ \A b \in App : b # a => inbox'[b] = inbox[b]
           /\ \A i \in 1..Len(inbox'[a]) :
                 (i \in 1..Len(inbox[a]) /\ inbox'[a][i] = inbox[a][i]) \/ inbox'[a][i] = m
           /\ inbox[a] # <<>> => inbox'[a] # <<>> /\ Head(inbox'[a]) = Head(inbox[a])
           /\ inbox[a] = <<>> /\ app_end[a] = "open" =>
                 inbox'[a] # <<>> /\ Len(inbox'[a]) = 1 /\ Head(inbox'[a]) = m
           /\ app_end[a] # "open" => inbox' = inbox
<1>1. /\ inbox \in [App -> Seq(Message)] /\ \A b \in App : Len(inbox[b]) <= SOCKBUF
      /\ inbox[a] \in Seq(Message) /\ Len(inbox[a]) \in Nat
  BY LenProperties DEF TypeOK
<1>2. inbox' = [inbox EXCEPT ![a] = Delivered(a, m)]
  BY DEF SendTo
<1>3. Len(<<>>) = 0
  BY EmptySeq
<1>4. CASE app_end[a] = "open" /\ Len(inbox[a]) < SOCKBUF
  <2>1. inbox' = [inbox EXCEPT ![a] = Append(inbox[a], m)]
    BY <1>2, <1>4 DEF Delivered
  <2>2. /\ Append(inbox[a], m) \in Seq(Message) /\ Len(Append(inbox[a], m)) = Len(inbox[a]) + 1
        /\ Append(inbox[a], m) # <<>>
        /\ \A i \in 1..Len(inbox[a]) : Append(inbox[a], m)[i] = inbox[a][i]
        /\ \A i \in 1..Len(inbox[a]) + 1 : i \in 1..Len(inbox[a]) \/ Append(inbox[a], m)[i] = m
        /\ Head(Append(inbox[a], m)) = IF inbox[a] = <<>> THEN m ELSE Head(inbox[a])
    BY <1>1, Behind
  <2>3. inbox'[a] = Append(inbox[a], m) /\ \A b \in App : b # a => inbox'[b] = inbox[b]
    BY <1>1, <2>1
  <2>4. inbox' \in [App -> Seq(Message)]
    BY <1>1, <2>1, <2>2
  <2>5. \A b \in App : Len(inbox'[b]) <= SOCKBUF
    BY <1>1, <1>4, <2>2, <2>3
  <2> QED BY <1>1, <1>3, <1>4, <2>2, <2>3, <2>4, <2>5
<1>5. CASE ~(app_end[a] = "open" /\ Len(inbox[a]) < SOCKBUF)
  <2>1. inbox' = inbox
    BY <1>1, <1>2, <1>5 DEF Delivered
  <2> QED BY <1>1, <1>3, <1>5, <2>1
<1> QED BY <1>4, <1>5

\* The types of a message sent and of what it leaves alone.
LEMMA TypesOf ==
    ASSUME TypeOK
    PROVE  /\ \A a \in App : /\ inbox[a] \in Seq(Message) /\ Len(inbox[a]) \in Nat
                             /\ outbox[a] \in Seq(Message) /\ Len(outbox[a]) \in Nat
           /\ Len(creator) \in Nat /\ Len(backlog) \in Nat
           /\ \A i \in 1..Len(creator) : creator[i] \in App
           /\ \A i \in 1..Len(backlog) : backlog[i] \in App
           /\ Slot \subseteq Nat /\ Window \subseteq Nat
<1>1. /\ inbox \in [App -> Seq(Message)] /\ outbox \in [App -> Seq(Message)]
      /\ creator \in Seq(App) /\ backlog \in Seq(App)
  BY DEF TypeOK
<1>2. Len(creator) \in Nat /\ Len(backlog) \in Nat
  BY <1>1, LenProperties
<1>3. (\A i \in 1..Len(creator) : creator[i] \in App) /\ \A i \in 1..Len(backlog) : backlog[i] \in App
  BY <1>1, ElementOfSeq
<1>4. \A a \in App : /\ inbox[a] \in Seq(Message) /\ Len(inbox[a]) \in Nat
                     /\ outbox[a] \in Seq(Message) /\ Len(outbox[a]) \in Nat
  BY <1>1, LenProperties
<1>5. Slot \subseteq Nat /\ Window \subseteq Nat
  BY DEF Slot, Window
<1> QED BY <1>2, <1>3, <1>4, <1>5

\* Events stay with the creator of their window when a message is sent and when
\* a window is created.
LEMMA EventsStay ==
    ASSUME DesktopInv, NEW a \in App, NEW m \in Message, SendTo(a, m) \/ inbox' = inbox,
           srv_end' = srv_end, Len(creator') \in Nat, Len(creator) <= Len(creator'),
           \A i \in 1..Len(creator) : creator'[i] = creator[i],
           m.op = "EVENT" => m.id \in 1..Len(creator') /\ creator'[m.id] = a
    PROVE  EventIds' /\ EventsForCreator'
<1>1. /\ \A b \in App : b # a => inbox'[b] = inbox[b]
      /\ \A i \in 1..Len(inbox'[a]) :
            (i \in 1..Len(inbox[a]) /\ inbox'[a][i] = inbox[a][i]) \/ inbox'[a][i] = m
  <2>1. CASE SendTo(a, m)
    BY <2>1, SendToInbox DEF DesktopInv
  <2>2. CASE inbox' = inbox
    BY <2>2
  <2> QED BY <2>1, <2>2
<1>2. Len(creator) \in Nat
  BY TypesOf DEF DesktopInv
<1>3. ASSUME NEW b \in App, NEW i \in 1..Len(inbox'[b]), inbox'[b][i].op = "EVENT", srv_end'[b] = "open"
      PROVE  inbox'[b][i].id \in 1..Len(creator') /\ creator'[inbox'[b][i].id] = b
  <2>1. CASE i \in 1..Len(inbox[b]) /\ inbox'[b][i] = inbox[b][i]
    <3>1. inbox[b][i].id \in 1..Len(creator) /\ creator[inbox[b][i].id] = b
      BY <1>3, <2>1 DEF DesktopInv, EventIds, EventsForCreator
    <3>2. inbox[b][i].id \in 1..Len(creator')
      BY <1>2, <3>1
    <3> QED BY <2>1, <3>1, <3>2
  <2>2. CASE b = a /\ inbox'[b][i] = m
    BY <1>3, <2>2
  <2> QED BY <1>1, <2>1, <2>2
<1>4. EventIds'
  BY <1>3 DEF EventIds
<1>5. EventsForCreator'
  BY <1>3 DEF EventsForCreator
<1> QED BY <1>4, <1>5

\* A message is taken from one of the buffers.
LEMMA BoxTaken ==
    ASSUME NEW box \in [App -> Seq(Message)], \A b \in App : Len(box[b]) <= SOCKBUF,
           NEW a \in App, box[a] # <<>>, NEW new, new = [box EXCEPT ![a] = Tail(box[a])]
    PROVE  /\ new \in [App -> Seq(Message)] /\ \A b \in App : Len(new[b]) <= SOCKBUF
           /\ \A b \in App : b # a => new[b] = box[b]
           /\ \A i \in 1..Len(new[a]) : i + 1 \in 1..Len(box[a]) /\ new[a][i] = box[a][i + 1]
           /\ Len(box[a]) = 1 => new[a] = <<>>
           /\ Head(box[a]) \in Message /\ Head(box[a]) = box[a][1] /\ 1 \in 1..Len(box[a])
<1>1. /\ Head(box[a]) \in Message /\ Head(box[a]) = box[a][1] /\ 1 \in 1..Len(box[a])
      /\ Tail(box[a]) \in Seq(Message) /\ Len(Tail(box[a])) = Len(box[a]) - 1
      /\ \A i \in 1..Len(Tail(box[a])) : i + 1 \in 1..Len(box[a]) /\ Tail(box[a])[i] = box[a][i + 1]
      /\ Len(box[a]) = 1 => Tail(box[a]) = <<>>
  BY Taken
<1>2. new[a] = Tail(box[a]) /\ \A b \in App : b # a => new[b] = box[b]
  OBVIOUS
<1>3. new \in [App -> Seq(Message)]
  BY <1>1
<1>4. Len(box[a]) \in Nat /\ Len(box[a]) <= SOCKBUF
  BY LenProperties
<1>5. \A b \in App : Len(new[b]) <= SOCKBUF
  BY <1>1, <1>2, <1>4
<1> QED BY <1>1, <1>2, <1>3, <1>5

\* An app whose buffers and windows do not change is where it was in its handshake;
\* one that has been answered is, too, when more comes behind the answer.
LEMMA HandshakeKept ==
    ASSUME DesktopInv, NEW b \in App, pc'[b] = pc[b], outbox'[b] = outbox[b], srv_end'[b] = srv_end[b],
           \/ inbox'[b] = inbox[b]
           \/ pc[b] = "create" /\ inbox[b] # <<>> /\ inbox'[b] # <<>> /\ Head(inbox'[b]) = Head(inbox[b]),
           \A w \in Window : Owns(b, w)' <=> Owns(b, w),
           \A w \in Window : Owns(b, w) => windows'[w].id = windows[w].id
    PROVE  (pc'[b] = "hello" => Greeting(b)') /\ (pc'[b] = "create" => Creating(b)')
<1>1. Windowless(b)' <=> Windowless(b)
  BY DEF Windowless
<1>2. \A n : Holds(b, n) => (\E w \in Window : Owns(b, w)' /\ windows'[w].id = n)
  BY DEF Holds
<1>3. ASSUME pc[b] = "hello" PROVE Greeting(b)'
  BY <1>1, <1>3 DEF DesktopInv, Handshake, Greeting, Asked, Answered
<1>4. ASSUME pc[b] = "create" PROVE Creating(b)'
  <2>1. Creating(b)
    BY <1>4 DEF DesktopInv, Handshake
  <2>2. CASE inbox[b] = <<>>
    BY <1>1, <2>1, <2>2 DEF Creating, Asked, Answered
  <2>3. CASE inbox[b] # <<>>
    <3>1. inbox'[b] # <<>> /\ Head(inbox'[b]) = Head(inbox[b])
      BY <2>3
    <3>2. Answered(b) /\ Answered(b)'
      BY <2>1, <2>3, <3>1 DEF Creating, Asked, Answered
    <3>3. CASE Head(inbox[b]).op = "ERROR"
      BY <3>1, <3>2, <3>3 DEF Creating
    <3>4. CASE Head(inbox[b]).op # "ERROR"
      <4>1. Head(inbox[b]).op = "WINDOW_OK" /\ (srv_end[b] = "open" => Holds(b, Head(inbox[b]).id))
        BY <2>1, <2>3, <3>4 DEF Creating, Asked
      <4>2. srv_end'[b] = "open" => Holds(b, Head(inbox[b]).id)'
        <5>1. srv_end'[b] = "open" => \E w \in Window : Owns(b, w)' /\ windows'[w].id = Head(inbox'[b]).id
          BY <1>2, <3>1, <4>1
        <5> QED BY <5>1 DEF Holds
      <4> QED BY <3>1, <3>2, <4>1, <4>2 DEF Creating
    <3> QED BY <3>3, <3>4
  <2> QED BY <2>2, <2>3
<1> QED BY <1>3, <1>4

----------------------------------------------------------------------------
(* The server handles a message: on_client_readable.                       *)

Serving(s, a, m) ==
    /\ s \in ready /\ a = clients[s] /\ outbox[a] # <<>> /\ m = Head(outbox[a])
    /\ outbox' = [outbox EXCEPT ![a] = Tail(outbox[a])] /\ ready' = ready \ {s}
    /\ UNCHANGED <<app_end, srv_end, backlog, serving, clients, dragging,
                   init_pc, launches, comp, path, pc, window_id>>

LEMMA ServingFacts ==
    ASSUME DesktopInv, NEW s, NEW a, NEW m, Serving(s, a, m)
    PROVE  /\ s \in Slot /\ a \in App /\ clients[s] = a /\ srv_end[a] = "open" /\ m \in Message
           /\ m = outbox[a][1] /\ 1 \in 1..Len(outbox[a])
           /\ outbox' \in [App -> Seq(Message)] /\ \A b \in App : Len(outbox'[b]) <= SOCKBUF
           /\ \A b \in App : b # a => outbox'[b] = outbox[b]
           /\ \A i \in 1..Len(outbox'[a]) : i + 1 \in 1..Len(outbox[a]) /\ outbox'[a][i] = outbox[a][i + 1]
           /\ Len(outbox[a]) = 1 => outbox'[a] = <<>>
           /\ Started'
<1>1. s \in Slot /\ a \in App /\ clients[s] = a /\ srv_end[a] = "open"
  BY DEF DesktopInv, TypeOK, Connections, Connected, Serving
<1>2. outbox \in [App -> Seq(Message)] /\ \A b \in App : Len(outbox[b]) <= SOCKBUF
  BY DEF DesktopInv, TypeOK
<1>3. /\ outbox' \in [App -> Seq(Message)] /\ \A b \in App : Len(outbox'[b]) <= SOCKBUF
      /\ \A b \in App : b # a => outbox'[b] = outbox[b]
      /\ \A i \in 1..Len(outbox'[a]) : i + 1 \in 1..Len(outbox[a]) /\ outbox'[a][i] = outbox[a][i + 1]
      /\ Len(outbox[a]) = 1 => outbox'[a] = <<>>
      /\ m \in Message /\ m = outbox[a][1] /\ 1 \in 1..Len(outbox[a])
  <2>1. outbox[a] # <<>> /\ outbox' = [outbox EXCEPT ![a] = Tail(outbox[a])] /\ m = Head(outbox[a])
    BY DEF Serving
  <2>2. /\ outbox' \in [App -> Seq(Message)] /\ \A b \in App : Len(outbox'[b]) <= SOCKBUF
        /\ \A b \in App : b # a => outbox'[b] = outbox[b]
        /\ \A i \in 1..Len(outbox'[a]) : i + 1 \in 1..Len(outbox[a]) /\ outbox'[a][i] = outbox[a][i + 1]
        /\ Len(outbox[a]) = 1 => outbox'[a] = <<>>
        /\ Head(outbox[a]) \in Message /\ Head(outbox[a]) = outbox[a][1] /\ 1 \in 1..Len(outbox[a])
    BY <1>1, <1>2, <2>1, BoxTaken
  <2> QED BY <2>1, <2>2
<1>4. Started'
  <2>1. launches' = launches /\ pc' = pc /\ srv_end' = srv_end /\ app_end' = app_end
    BY DEF Serving
  <2>2. \A b \in App : srv_end[b] = "none" => outbox'[b] = outbox[b]
    BY <1>1, <1>3
  <2> QED BY <2>1, <2>2 DEF DesktopInv, Started
<1> QED BY <1>1, <1>3, <1>4

LEMMA ServingFarewell ==
    ASSUME DesktopInv, NEW s, NEW a, NEW m, Serving(s, a, m),
           Len(creator') \in Nat, Len(creator) <= Len(creator'),
           \A i \in 1..Len(creator) : creator'[i] = creator[i]
    PROVE  Farewell'
<1>1. /\ a \in App /\ \A b \in App : b # a => outbox'[b] = outbox[b]
      /\ \A i \in 1..Len(outbox'[a]) : i + 1 \in 1..Len(outbox[a]) /\ outbox'[a][i] = outbox[a][i + 1]
  BY ONLY ServingFacts, DesktopInv, Serving(s, a, m)
<1>2. Len(creator) \in Nat
  BY TypesOf DEF DesktopInv
<1>3. ASSUME NEW b \in App, NEW i \in 1..Len(outbox'[b]), outbox'[b][i].op = "WINDOW_DESTROY"
      PROVE  /\ pc'[b] \in {"bye", "gone"} /\ srv_end'[b] \in {"open", "closed"}
             /\ srv_end'[b] = "open" => outbox'[b][i].id \in 1..Len(creator') /\ creator'[outbox'[b][i].id] = b
  <2>1. PICK j \in 1..Len(outbox[b]) : outbox'[b][i] = outbox[b][j]
    BY <1>1
  <2>2. /\ pc[b] \in {"bye", "gone"} /\ srv_end[b] \in {"open", "closed"}
        /\ srv_end[b] = "open" => outbox[b][j].id \in 1..Len(creator) /\ creator[outbox[b][j].id] = b
    BY <1>3, <2>1 DEF DesktopInv, Farewell
  <2>3. 1..Len(creator) \subseteq 1..Len(creator')
    BY <1>2
  <2> QED BY <2>1, <2>2, <2>3 DEF Serving
<1> QED BY <1>3 DEF Farewell

\* handle_hello
LEMMA HelloStep ==
    ASSUME DesktopInv, NEW s, NEW a, NEW m, Serving(s, a, m), events' = events, Hello(s, m)
    PROVE  DesktopInv'
<1>0. /\ s \in Slot /\ a \in App /\ clients[s] = a /\ srv_end[a] = "open" /\ m.op = "HELLO"
      /\ m = outbox[a][1] /\ 1 \in 1..Len(outbox[a])
      /\ outbox' \in [App -> Seq(Message)] /\ (\A b \in App : Len(outbox'[b]) <= SOCKBUF)
      /\ \A b \in App : b # a => outbox'[b] = outbox[b]
      /\ Len(outbox[a]) = 1 => outbox'[a] = <<>>
  BY ServingFacts DEF Hello
<1>1. PICK r \in Message : SendTo(a, r) /\ r.op \in {"HELLO_OK", "ERROR"}
  BY <1>0, MessageFacts DEF Hello
<1>2. /\ inbox' \in [App -> Seq(Message)] /\ \A b \in App : Len(inbox'[b]) <= SOCKBUF
      /\ \A b \in App : b # a => inbox'[b] = inbox[b]
      /\ inbox[a] = <<>> /\ app_end[a] = "open" => inbox'[a] # <<>> /\ Len(inbox'[a]) = 1 /\ Head(inbox'[a]) = r
  BY <1>0, <1>1, SendToInbox DEF DesktopInv
<1>3. /\ UNCHANGED <<windows, next_window, creator, clients, srv_end, app_end, backlog, pc, window_id>>
      /\ ready' \subseteq ready
      /\ hello_done' \in [Slot -> BOOLEAN]
      /\ \A t \in Slot : hello_done[t] => hello_done'[t]
      /\ \A t \in Slot : hello_done'[t] => hello_done[t] \/ t = s
  BY <1>0 DEF Hello, Serving, DesktopInv, TypeOK
<1>4. TypeOK'
  BY <1>0, <1>2, <1>3 DEF DesktopInv, TypeOK, Serving
<1>5. Connections'
  BY <1>0, <1>2, <1>3 DEF DesktopInv, TypeOK, Connections, Connected
<1>6. Identified' /\ WindowHeld'
  BY <1>3 DEF DesktopInv, Identified, WindowHeld
<1>7. WindowsOwned'
  <2>1. \A w \in Window : windows[w].owner \in Slot
    BY DEF DesktopInv, TypeOK
  <2> QED BY <1>3, <2>1 DEF DesktopInv, WindowsOwned
<1>8. Handshake'
  <2>1. ASSUME NEW b \in App, b # a
        PROVE  (pc'[b] = "hello" => Greeting(b)') /\ (pc'[b] = "create" => Creating(b)')
    <3>1. UNCHANGED <<windows, clients, srv_end, pc>> /\ inbox'[b] = inbox[b] /\ outbox'[b] = outbox[b]
      BY <1>0, <1>2, <1>3, <2>1
    <3>2. \A w \in Window : Owns(b, w)' <=> Owns(b, w)
      BY <3>1 DEF Owns
    <3> QED BY <3>1, <3>2, HandshakeKept
  <2>2. pc[a] # "create"
    <3>1. pc[a] = "create" => Head(outbox[a]).op = "WINDOW_CREATE"
      BY <1>0 DEF DesktopInv, Handshake, Creating, Asked, Answered, Serving
    <3> QED BY <1>0, <3>1 DEF Serving
  <2>3. ASSUME pc[a] = "hello"
        PROVE  Greeting(a)'
    <3>1. Asked(a, "HELLO") /\ Windowless(a)
      BY <1>0, <2>3 DEF DesktopInv, Handshake, Greeting, Answered, Serving
    <3>2. app_end[a] = "open"
      BY <1>0, <2>3 DEF DesktopInv, Started, Talking
    <3>3. Windowless(a)'
      BY <1>3, <3>1 DEF Windowless, Owns
    <3>4. outbox'[a] = <<>>
      BY <1>0, <3>1 DEF Asked
    <3>5. inbox'[a] # <<>> /\ Len(inbox'[a]) = 1 /\ Head(inbox'[a]) = r
      BY <1>2, <3>1, <3>2 DEF Asked
    <3> QED BY <1>1, <3>3, <3>4, <3>5 DEF Greeting, Answered
  <2> QED BY <1>0, <1>3, <2>1, <2>2, <2>3 DEF Handshake
<1>9. Len(creator) \in Nat /\ creator' = creator /\ srv_end' = srv_end
  BY <1>3, TypesOf DEF DesktopInv
<1>10. EventIds' /\ EventsForCreator'
  BY <1>0, <1>1, <1>9, EventsStay
<1>11. Farewell' /\ Started'
  BY <1>9, ServingFarewell, ServingFacts
<1> QED BY <1>4, <1>5, <1>6, <1>7, <1>8, <1>10, <1>11 DEF DesktopInv

\* What a slot's client may be waiting for when another message than op is handled.
LEMMA NotAsking ==
    ASSUME DesktopInv, NEW s, NEW a, NEW m, Serving(s, a, m)
    PROVE  /\ m.op # "HELLO" => pc[a] # "hello"
           /\ m.op # "WINDOW_CREATE" => pc[a] # "create"
           /\ pc[a] = "create" => Asked(a, "WINDOW_CREATE") /\ Windowless(a) /\ app_end[a] = "open"
<1>1. a \in App /\ outbox[a] # <<>> /\ m = Head(outbox[a])
  BY ServingFacts DEF Serving
<1>2. pc[a] = "hello" => Asked(a, "HELLO")
  BY <1>1 DEF DesktopInv, Handshake, Greeting, Answered
<1>3. pc[a] = "create" => Asked(a, "WINDOW_CREATE") /\ Windowless(a)
  BY <1>1 DEF DesktopInv, Handshake, Creating, Answered
<1>4. pc[a] = "create" => app_end[a] = "open"
  BY <1>1 DEF DesktopInv, Started, Talking
<1> QED BY <1>1, <1>2, <1>3, <1>4 DEF Asked

\* handle_window_present, and handle_window_destroy of a window that is not there.
LEMMA RefusedStep ==
    ASSUME DesktopInv, NEW s, NEW a, NEW m, Serving(s, a, m), events' = events,
           m.op \notin {"HELLO", "WINDOW_CREATE"},
           inbox' = inbox \/ SendTo(a, [op |-> "ERROR"]),
           UNCHANGED <<hello_done, windows, next_window, creator>>
    PROVE  DesktopInv'
<1>0. /\ s \in Slot /\ a \in App /\ clients[s] = a /\ srv_end[a] = "open"
      /\ outbox' \in [App -> Seq(Message)] /\ (\A b \in App : Len(outbox'[b]) <= SOCKBUF)
      /\ \A b \in App : b # a => outbox'[b] = outbox[b]
  BY ServingFacts
<1> PICK r : r = [op |-> "ERROR"]
  OBVIOUS
<1>1. r \in Message /\ r.op = "ERROR"
  BY MessageFacts
<1>2. /\ inbox' \in [App -> Seq(Message)] /\ \A b \in App : Len(inbox'[b]) <= SOCKBUF
      /\ \A b \in App : b # a => inbox'[b] = inbox[b]
  <2>1. CASE inbox' = inbox
    BY <2>1 DEF DesktopInv, TypeOK
  <2>2. CASE SendTo(a, r)
    BY <1>0, <1>1, <2>2, SendToInbox DEF DesktopInv
  <2> QED BY <2>1, <2>2
<1>3. /\ UNCHANGED <<windows, next_window, creator, clients, srv_end, app_end, backlog, pc, window_id, hello_done>>
      /\ ready' \subseteq ready
  BY DEF Serving
<1>4. TypeOK'
  BY <1>0, <1>2, <1>3 DEF DesktopInv, TypeOK, Serving
<1>5. Connections'
  BY <1>0, <1>2, <1>3 DEF DesktopInv, TypeOK, Connections, Connected
<1>6. Identified' /\ WindowHeld' /\ WindowsOwned'
  BY <1>3 DEF DesktopInv, Identified, WindowHeld, WindowsOwned
<1>7. Handshake'
  <2>1. ASSUME NEW b \in App, b # a
        PROVE  (pc'[b] = "hello" => Greeting(b)') /\ (pc'[b] = "create" => Creating(b)')
    <3>1. UNCHANGED <<windows, clients, srv_end, pc>> /\ inbox'[b] = inbox[b] /\ outbox'[b] = outbox[b]
      BY <1>0, <1>2, <1>3, <2>1
    <3>2. \A w \in Window : Owns(b, w)' <=> Owns(b, w)
      BY <3>1 DEF Owns
    <3> QED BY <3>1, <3>2, HandshakeKept
  <2>2. pc[a] # "create" /\ pc[a] # "hello"
    BY NotAsking
  <2> QED BY <1>3, <2>1, <2>2 DEF Handshake
<1>8. Len(creator) \in Nat /\ creator' = creator /\ srv_end' = srv_end
  BY <1>3, TypesOf DEF DesktopInv
<1>9. EventIds' /\ EventsForCreator'
  BY <1>0, <1>1, <1>8, EventsStay
<1>10. Farewell' /\ Started'
  BY <1>8, ServingFarewell, ServingFacts
<1> QED BY <1>4, <1>5, <1>6, <1>7, <1>9, <1>10 DEF DesktopInv

LEMMA PresentStep ==
    ASSUME DesktopInv, NEW s, NEW a, NEW m, Serving(s, a, m), events' = events, WindowPresent(s, m)
    PROVE  DesktopInv'
<1>1. a = clients[s] /\ m.op \notin {"HELLO", "WINDOW_CREATE"}
  BY DEF Serving, WindowPresent
<1>2. inbox' = inbox \/ SendTo(a, [op |-> "ERROR"])
  BY <1>1 DEF WindowPresent
<1>3. UNCHANGED <<hello_done, windows, next_window, creator>>
  BY DEF WindowPresent
<1> QED BY <1>1, <1>2, <1>3, RefusedStep

\* handle_window_destroy: the window is the client's own, since ids are not used again.
LEMMA DestroyStep ==
    ASSUME DesktopInv, NEW s, NEW a, NEW m, Serving(s, a, m), events' = events, WindowDestroy(s, m)
    PROVE  DesktopInv'
<1>1. CASE Named(m.id) = {}
  <2>1. a = clients[s] /\ m.op \notin {"HELLO", "WINDOW_CREATE"}
    BY DEF Serving, WindowDestroy
  <2>2. inbox' = inbox \/ SendTo(a, [op |-> "ERROR"])
    BY <1>1, <2>1 DEF WindowDestroy
  <2>3. UNCHANGED <<hello_done, windows, next_window, creator>>
    BY <1>1 DEF WindowDestroy
  <2> QED BY <2>1, <2>2, <2>3, RefusedStep
<1>2. CASE Named(m.id) # {}
  <2> PICK v : v = First(Named(m.id))
    OBVIOUS
  <2>0. /\ s \in Slot /\ a \in App /\ clients[s] = a /\ srv_end[a] = "open"
        /\ m = outbox[a][1] /\ 1 \in 1..Len(outbox[a])
        /\ outbox' \in [App -> Seq(Message)] /\ (\A b \in App : Len(outbox'[b]) <= SOCKBUF)
        /\ \A b \in App : b # a => outbox'[b] = outbox[b]
    BY ServingFacts
  <2>1. v \in Window /\ windows[v].in_use /\ windows[v].id = m.id
    <3>1. Named(m.id) \in SUBSET Nat
      BY TypesOf DEF DesktopInv, Named
    <3>2. v \in Named(m.id)
      BY <1>2, <3>1, FirstIn
    <3> QED BY <3>2 DEF Named
  <2>2. m.op = "WINDOW_DESTROY" /\ windows' = [windows EXCEPT ![v].in_use = FALSE] /\ inbox' = inbox
    BY <1>2 DEF WindowDestroy
  <2>3. UNCHANGED <<hello_done, next_window, creator, clients, srv_end, app_end, backlog, pc, window_id>>
        /\ ready' \subseteq ready
    BY DEF Serving, WindowDestroy
  <2>4. pc[a] \in {"bye", "gone"} /\ creator[m.id] = a
    <3>1. Farewell
      BY DEF DesktopInv
    <3> QED BY ONLY <2>0, <2>2, <3>1 DEF Farewell
  <2>5. clients[windows[v].owner] = a
    BY <2>1, <2>4 DEF DesktopInv, WindowsOwned
  <2>6. /\ windows' \in [Window -> [in_use : BOOLEAN, owner : Slot, id : Nat]]
        /\ \A w \in Window : /\ windows'[w].id = windows[w].id /\ windows'[w].owner = windows[w].owner
                             /\ windows'[w].in_use <=> windows[w].in_use /\ w # v
    <3>1. windows \in [Window -> [in_use : BOOLEAN, owner : Slot, id : Nat]]
      BY DEF DesktopInv, TypeOK
    <3> QED BY ONLY <2>1, <2>2, <3>1
  <2>7. TypeOK'
    BY <2>0, <2>2, <2>3, <2>6 DEF DesktopInv, TypeOK, Serving
  <2>8. Connections'
    BY <2>2, <2>3 DEF DesktopInv, TypeOK, Connections, Connected
  <2>9. Identified'
    BY <2>3, <2>6 DEF DesktopInv, Identified
  <2>10. WindowsOwned'
    BY <2>3, <2>6 DEF DesktopInv, WindowsOwned
  <2>11. \A b \in App, w \in Window : b # a => (Owns(b, w)' <=> Owns(b, w))
    BY <2>3, <2>5, <2>6 DEF Owns
  <2>12. WindowHeld'
    <3> SUFFICES ASSUME NEW b \in App, pc'[b] \in {"present", "loop"}, srv_end'[b] = "open"
                 PROVE  \E w \in Window : /\ windows'[w].in_use /\ windows'[w].id = window_id'[b]
                                          /\ clients'[windows'[w].owner] = b
      BY DEF WindowHeld
    <3>1. b # a
      BY <2>3, <2>4
    <3>2. PICK w \in Window : windows[w].in_use /\ windows[w].id = window_id[b] /\ clients[windows[w].owner] = b
      BY <2>3 DEF DesktopInv, WindowHeld
    <3>3. w # v
      BY <2>5, <3>1, <3>2
    <3> QED BY <2>3, <2>6, <3>2, <3>3
  <2>13. Handshake'
    <3>1. ASSUME NEW b \in App, b # a
          PROVE  (pc'[b] = "hello" => Greeting(b)') /\ (pc'[b] = "create" => Creating(b)')
      <4>1. UNCHANGED <<srv_end, pc>> /\ inbox'[b] = inbox[b] /\ outbox'[b] = outbox[b]
        BY <2>0, <2>2, <2>3, <3>1
      <4> QED BY <2>6, <2>11, <3>1, <4>1, HandshakeKept
    <3> QED BY <2>3, <2>4, <3>1 DEF Handshake
  <2>14. Len(creator) \in Nat /\ creator' = creator /\ srv_end' = srv_end
    BY <2>3, TypesOf DEF DesktopInv
  <2>15. EventIds' /\ EventsForCreator'
    BY <2>2, <2>3 DEF DesktopInv, EventIds, EventsForCreator
  <2>16. Farewell' /\ Started'
    BY <2>14, ServingFarewell, ServingFacts
  <2> QED BY <2>7, <2>8, <2>9, <2>10, <2>12, <2>13, <2>15, <2>16 DEF DesktopInv
<1> QED BY <1>1, <1>2

\* handle_window_create without a window: the client asks too early, or all are in use.
LEMMA NoWindowStep ==
    ASSUME DesktopInv, NEW s, NEW a, NEW m, Serving(s, a, m), events' = events,
           WindowCreate(s, m), ~MayCreate(s)
    PROVE  DesktopInv'
<1>0. /\ s \in Slot /\ a \in App /\ clients[s] = a /\ srv_end[a] = "open"
      /\ outbox' \in [App -> Seq(Message)] /\ (\A b \in App : Len(outbox'[b]) <= SOCKBUF)
      /\ \A b \in App : b # a => outbox'[b] = outbox[b]
      /\ Len(outbox[a]) = 1 => outbox'[a] = <<>>
  BY ServingFacts
<1> PICK r : r = [op |-> "ERROR"]
  OBVIOUS
<1>1. r \in Message /\ r.op = "ERROR" /\ SendTo(a, r) /\ m.op = "WINDOW_CREATE"
  BY <1>0, MessageFacts DEF WindowCreate
<1>2. /\ inbox' \in [App -> Seq(Message)] /\ \A b \in App : Len(inbox'[b]) <= SOCKBUF
      /\ \A b \in App : b # a => inbox'[b] = inbox[b]
      /\ inbox[a] = <<>> /\ app_end[a] = "open" => inbox'[a] # <<>> /\ Len(inbox'[a]) = 1 /\ Head(inbox'[a]) = r
  BY <1>0, <1>1, SendToInbox DEF DesktopInv
<1>3. /\ UNCHANGED <<windows, next_window, creator, clients, srv_end, app_end, backlog, pc, window_id, hello_done>>
      /\ ready' \subseteq ready
  BY DEF Serving, WindowCreate
<1>4. TypeOK'
  BY <1>0, <1>2, <1>3 DEF DesktopInv, TypeOK, Serving
<1>5. Connections'
  BY <1>0, <1>2, <1>3 DEF DesktopInv, TypeOK, Connections, Connected
<1>6. Identified' /\ WindowHeld' /\ WindowsOwned'
  BY <1>3 DEF DesktopInv, Identified, WindowHeld, WindowsOwned
<1>7. Handshake'
  <2>1. ASSUME NEW b \in App, b # a
        PROVE  (pc'[b] = "hello" => Greeting(b)') /\ (pc'[b] = "create" => Creating(b)')
    <3>1. UNCHANGED <<windows, clients, srv_end, pc>> /\ inbox'[b] = inbox[b] /\ outbox'[b] = outbox[b]
      BY <1>0, <1>2, <1>3, <2>1
    <3>2. \A w \in Window : Owns(b, w)' <=> Owns(b, w)
      BY <3>1 DEF Owns
    <3> QED BY <3>1, <3>2, HandshakeKept
  <2>2. pc[a] # "hello"
    BY <1>1, NotAsking
  <2>3. ASSUME pc[a] = "create"
        PROVE  Creating(a)'
    <3>1. Asked(a, "WINDOW_CREATE") /\ app_end[a] = "open"
      BY <2>3, NotAsking
    <3>2. outbox'[a] = <<>> /\ inbox'[a] # <<>> /\ Head(inbox'[a]) = r
      BY <1>0, <1>2, <3>1 DEF Asked
    <3> QED BY <1>1, <3>2 DEF Creating, Answered
  <2> QED BY <1>3, <2>1, <2>2, <2>3 DEF Handshake
<1>8. Len(creator) \in Nat /\ creator' = creator /\ srv_end' = srv_end
  BY <1>3, TypesOf DEF DesktopInv
<1>9. EventIds' /\ EventsForCreator'
  BY <1>0, <1>1, <1>8, EventsStay
<1>10. Farewell' /\ Started'
  BY <1>8, ServingFarewell, ServingFacts
<1> QED BY <1>4, <1>5, <1>6, <1>7, <1>9, <1>10 DEF DesktopInv

\* handle_window_create: a window with an id that no other has had.
LEMMA NewWindowStep ==
    ASSUME DesktopInv, NEW s, NEW a, NEW m, Serving(s, a, m), events' = events,
           WindowCreate(s, m), MayCreate(s)
    PROVE  DesktopInv'
<1> PICK v, k, r : /\ v = First(FreeWindows) /\ k = next_window
                   /\ r = [op |-> "WINDOW_OK", id |-> next_window]
  OBVIOUS
<1>0. /\ s \in Slot /\ a \in App /\ clients[s] = a /\ srv_end[a] = "open"
      /\ outbox' \in [App -> Seq(Message)] /\ (\A b \in App : Len(outbox'[b]) <= SOCKBUF)
      /\ \A b \in App : b # a => outbox'[b] = outbox[b]
      /\ Len(outbox[a]) = 1 => outbox'[a] = <<>>
  BY ServingFacts
<1>1. k = Len(creator) + 1 /\ Len(creator) \in Nat /\ k \in Nat \ {0}
  BY TypesOf DEF DesktopInv, Identified
<1>2. v \in Window /\ ~windows[v].in_use
  <2>1. FreeWindows \in SUBSET Nat /\ FreeWindows # {}
    BY TypesOf DEF DesktopInv, FreeWindows, MayCreate
  <2>2. v \in FreeWindows
    BY <2>1, FirstIn
  <2> QED BY <2>2 DEF FreeWindows
<1>3. r \in Message /\ r.op = "WINDOW_OK" /\ r.id = k
  BY <1>1, MessageFacts
<1>4. /\ m.op = "WINDOW_CREATE" /\ hello_done[s]
      /\ windows' = [windows EXCEPT ![v] = [in_use |-> TRUE, owner |-> s, id |-> k]]
      /\ next_window' = k + 1 /\ creator' = Append(creator, a) /\ SendTo(a, r) /\ hello_done' = hello_done
  BY <1>0 DEF WindowCreate, MayCreate
<1>5. /\ inbox' \in [App -> Seq(Message)] /\ \A b \in App : Len(inbox'[b]) <= SOCKBUF
      /\ \A b \in App : b # a => inbox'[b] = inbox[b]
      /\ inbox[a] = <<>> /\ app_end[a] = "open" => inbox'[a] # <<>> /\ Len(inbox'[a]) = 1 /\ Head(inbox'[a]) = r
  BY <1>0, <1>3, <1>4, SendToInbox DEF DesktopInv
<1>6. /\ UNCHANGED <<clients, srv_end, app_end, backlog, pc, window_id, hello_done>>
      /\ ready' \subseteq ready
  BY <1>4 DEF Serving
<1>7. /\ creator' \in Seq(App) /\ Len(creator') = k
      /\ \A i \in 1..Len(creator) : creator'[i] = creator[i]
      /\ creator'[k] = a
  <2>1. creator \in Seq(App)
    BY DEF DesktopInv, TypeOK
  <2> QED BY <1>0, <1>1, <1>4, <2>1
<1>8. /\ windows' \in [Window -> [in_use : BOOLEAN, owner : Slot, id : Nat]]
      /\ windows'[v].in_use /\ windows'[v].owner = s /\ windows'[v].id = k
      /\ \A w \in Window : w # v => windows'[w] = windows[w]
  BY <1>0, <1>1, <1>2, <1>4 DEF DesktopInv, TypeOK
<1>9. TypeOK'
  <2>1. next_window' \in Nat /\ creator' \in Seq(App)
    BY <1>1, <1>4, <1>7
  <2>2. UNCHANGED <<dragging, serving, init_pc, comp, path>>
    BY DEF Serving
  <2> QED BY <1>0, <1>5, <1>6, <1>8, <2>1, <2>2 DEF DesktopInv, TypeOK
<1>10. Connections'
  BY <1>0, <1>5, <1>6 DEF DesktopInv, TypeOK, Connections, Connected
<1>11. Identified'
  <2>1. next_window' = Len(creator') + 1
    BY <1>4, <1>7
  <2>2. \A w \in Window : w # v /\ windows'[w].in_use => windows'[w].id \in 1..Len(creator)
    BY <1>8 DEF DesktopInv, Identified
  <2>3. \A w \in Window : windows'[w].in_use => windows'[w].id \in 1..Len(creator')
    BY <1>1, <1>7, <1>8, <2>2
  <2>4. \A u, w \in Window : windows'[u].in_use /\ windows'[w].in_use /\ windows'[u].id = windows'[w].id => u = w
    <3>1. k \notin 1..Len(creator)
      BY <1>1
    <3>2. \A u, w \in Window : windows[u].in_use /\ windows[w].in_use /\ windows[u].id = windows[w].id => u = w
      BY DEF DesktopInv, Identified
    <3> QED BY <1>8, <2>2, <3>1, <3>2
  <2> QED BY <2>1, <2>3, <2>4 DEF Identified
<1>12. WindowsOwned'
  <2>1. ASSUME NEW w \in Window, windows'[w].in_use
        PROVE  hello_done'[windows'[w].owner] /\ clients'[windows'[w].owner] = creator'[windows'[w].id]
    <3>1. CASE w = v
      BY <1>0, <1>4, <1>6, <1>7, <1>8, <3>1
    <3>2. CASE w # v
      <4>1. windows'[w] = windows[w] /\ windows[w].in_use /\ windows[w].id \in 1..Len(creator)
        BY <1>8, <2>1, <3>2 DEF DesktopInv, Identified
      <4>2. hello_done[windows[w].owner] /\ clients[windows[w].owner] = creator[windows[w].id]
        BY <4>1 DEF DesktopInv, WindowsOwned
      <4> QED BY <1>6, <1>7, <4>1, <4>2
    <3> QED BY <3>1, <3>2
  <2> QED BY <2>1 DEF WindowsOwned
<1>13. \A b \in App, w \in Window : Owns(b, w)' <=> Owns(b, w) \/ (b = a /\ w = v)
  BY <1>0, <1>2, <1>6, <1>8 DEF Owns
<1>14. WindowHeld'
  <2> SUFFICES ASSUME NEW b \in App, pc'[b] \in {"present", "loop"}, srv_end'[b] = "open"
               PROVE  \E w \in Window : /\ windows'[w].in_use /\ windows'[w].id = window_id'[b]
                                        /\ clients'[windows'[w].owner] = b
    BY DEF WindowHeld
  <2>1. PICK w \in Window : windows[w].in_use /\ windows[w].id = window_id[b] /\ clients[windows[w].owner] = b
    BY <1>6 DEF DesktopInv, WindowHeld
  <2>2. w # v
    BY <1>2, <2>1
  <2> QED BY <1>6, <1>8, <2>1, <2>2
<1>15. Handshake'
  <2>1. ASSUME NEW b \in App, b # a
        PROVE  (pc'[b] = "hello" => Greeting(b)') /\ (pc'[b] = "create" => Creating(b)')
    <3>1. UNCHANGED <<srv_end, pc>> /\ inbox'[b] = inbox[b] /\ outbox'[b] = outbox[b]
      BY <1>0, <1>5, <1>6, <2>1
    <3>2. \A w \in Window : Owns(b, w)' <=> Owns(b, w)
      BY <1>13, <2>1
    <3>3. \A w \in Window : Owns(b, w) => windows'[w].id = windows[w].id
      BY <1>2, <1>8 DEF Owns
    <3> QED BY <3>1, <3>2, <3>3, HandshakeKept
  <2>2. pc[a] # "hello"
    BY <1>4, NotAsking
  <2>3. ASSUME pc[a] = "create"
        PROVE  Creating(a)'
    <3>1. Asked(a, "WINDOW_CREATE") /\ app_end[a] = "open"
      BY <2>3, NotAsking
    <3>2. outbox'[a] = <<>> /\ inbox'[a] # <<>> /\ Head(inbox'[a]) = r
      BY <1>0, <1>5, <3>1 DEF Asked
    <3>3. Holds(a, k)'
      BY <1>0, <1>2, <1>8, <1>13 DEF Holds
    <3> QED BY <1>3, <3>2, <3>3 DEF Creating, Answered, Holds, Owns
  <2> QED BY <1>6, <2>1, <2>2, <2>3 DEF Handshake
<1>16. Len(creator') \in Nat /\ Len(creator) <= Len(creator') /\ srv_end' = srv_end
  BY <1>1, <1>6, <1>7
<1>17. EventIds' /\ EventsForCreator'
  BY <1>0, <1>3, <1>4, <1>7, <1>16, EventsStay
<1>18. Farewell' /\ Started'
  BY <1>7, <1>16, ServingFarewell, ServingFacts
<1> QED BY <1>9, <1>10, <1>11, <1>12, <1>14, <1>15, <1>17, <1>18 DEF DesktopInv

\* drop_client: the client's windows go with its slot.
LEMMA DropStep ==
    ASSUME DesktopInv, NEW s \in ready, NEW a, a = clients[s], Drop(s), ready' = ready \ {s},
           UNCHANGED <<app_end, backlog, serving, dragging, init_pc, launches, comp, path, pc, window_id>>
    PROVE  DesktopInv'
<1>0. /\ s \in Slot /\ a \in App /\ clients[s] = a /\ srv_end[a] = "open"
      /\ clients \in [Slot -> App \cup {NoApp}]
      /\ windows \in [Window -> [in_use : BOOLEAN, owner : Slot, id : Nat]]
  BY DEF DesktopInv, TypeOK, Connections, Connected
<1>1. /\ srv_end' = [srv_end EXCEPT ![a] = "closed"] /\ clients' = [clients EXCEPT ![s] = NoApp]
      /\ hello_done' = [hello_done EXCEPT ![s] = FALSE] /\ windows' = Disowned(s)
      /\ UNCHANGED <<inbox, outbox, next_window, creator>>
  BY DEF Drop
<1>2. /\ windows' \in [Window -> [in_use : BOOLEAN, owner : Slot, id : Nat]]
      /\ \A w \in Window : /\ windows'[w].id = windows[w].id /\ windows'[w].owner = windows[w].owner
                           /\ windows'[w].in_use <=> windows[w].in_use /\ windows[w].owner # s
  BY <1>0, <1>1 DEF Disowned
<1>3. /\ srv_end' \in [App -> {"none", "queued", "open", "closed"}] /\ srv_end'[a] = "closed"
      /\ \A b \in App : b # a => srv_end'[b] = srv_end[b]
      /\ clients' \in [Slot -> App \cup {NoApp}] /\ clients'[s] = NoApp
      /\ \A t \in Slot : t # s => clients'[t] = clients[t]
      /\ hello_done' \in [Slot -> BOOLEAN] /\ ~hello_done'[s]
      /\ \A t \in Slot : t # s => hello_done'[t] = hello_done[t]
  BY <1>0, <1>1 DEF DesktopInv, TypeOK
<1>4. TypeOK'
  BY <1>1, <1>2, <1>3 DEF DesktopInv, TypeOK
<1>5. \A t \in Slot : clients[t] = a => t = s
  BY <1>0 DEF DesktopInv, Connections
<1>6. \A b \in App : Connected(b)' <=> Connected(b) /\ b # a
  BY <1>0, <1>3, <1>5 DEF Connected
<1>7. Connections'
  <2>1. \A t \in ready' : clients'[t] # NoApp
    BY <1>0, <1>3 DEF DesktopInv, TypeOK, Connections
  <2>2. \A t \in Slot : clients'[t] = NoApp => ~hello_done'[t]
    BY <1>3 DEF DesktopInv, Connections
  <2>3. \A t, u \in Slot : clients'[t] = clients'[u] /\ clients'[t] # NoApp => t = u
    BY <1>3 DEF DesktopInv, Connections
  <2>4. \A b \in App : srv_end'[b] = "open" <=> Connected(b)'
    BY <1>3, <1>6 DEF DesktopInv, Connections
  <2>5. \A i \in 1..Len(backlog) : backlog[i] \in App /\ srv_end[backlog[i]] = "queued"
    BY TypesOf DEF DesktopInv, Connections
  <2>6. \A i \in 1..Len(backlog) : srv_end'[backlog[i]] = "queued"
    BY <1>0, <1>3, <2>5
  <2>7. \A b \in App : srv_end'[b] \in {"none", "queued"} => inbox'[b] = <<>>
    BY <1>1, <1>3 DEF DesktopInv, Connections
  <2> QED BY <2>1, <2>2, <2>3, <2>4, <2>6, <2>7 DEF DesktopInv, Connections, Connected
<1>8. Identified'
  BY <1>1, <1>2 DEF DesktopInv, Identified
<1>9. WindowsOwned'
  BY <1>0, <1>1, <1>2, <1>3 DEF DesktopInv, WindowsOwned
<1>10. \A b \in App, w \in Window : Owns(b, w)' <=> Owns(b, w) /\ b # a
  <2>1. \A w \in Window : windows[w].owner \in Slot
    BY <1>0
  <2> QED BY <1>0, <1>2, <1>3, <1>5, <2>1 DEF Owns
<1>11. WindowHeld'
  <2> SUFFICES ASSUME NEW b \in App, pc'[b] \in {"present", "loop"}, srv_end'[b] = "open"
               PROVE  \E w \in Window : Owns(b, w)' /\ windows'[w].id = window_id'[b]
    BY DEF WindowHeld, Owns
  <2>1. b # a
    BY <1>3
  <2>2. PICK w \in Window : windows[w].in_use /\ windows[w].id = window_id[b] /\ clients[windows[w].owner] = b
    BY <1>3, <2>1 DEF DesktopInv, WindowHeld
  <2> QED BY <1>2, <1>10, <2>1, <2>2 DEF Owns
<1>12. \A b \in App : srv_end'[b] = "open" => srv_end[b] = "open"
  BY <1>3
<1>13. Handshake'
  <2>1. ASSUME NEW b \in App, b # a
        PROVE  (pc'[b] = "hello" => Greeting(b)') /\ (pc'[b] = "create" => Creating(b)')
    BY <1>1, <1>2, <1>3, <1>10, <2>1, HandshakeKept
  <2>2. ASSUME pc[a] = "hello"
        PROVE  Greeting(a)'
    <3>1. Windowless(a)'
      BY <1>0, <1>10 DEF Windowless
    <3> QED BY <1>0, <1>1, <2>2, <3>1 DEF DesktopInv, Handshake, Greeting, Asked, Answered
  <2>3. ASSUME pc[a] = "create"
        PROVE  Creating(a)'
    <3>1. Windowless(a)'
      BY <1>0, <1>10 DEF Windowless
    <3> QED BY <1>0, <1>1, <1>3, <2>3, <3>1 DEF DesktopInv, Handshake, Creating, Asked, Answered
  <2> QED BY <2>1, <2>2, <2>3 DEF Handshake
<1>14. EventIds' /\ EventsForCreator'
  BY <1>1, <1>12 DEF DesktopInv, EventIds, EventsForCreator
<1>15. Farewell'
  <2>1. \A b \in App : srv_end[b] \in {"open", "closed"} => srv_end'[b] \in {"open", "closed"}
    BY <1>3
  <2> QED BY <1>1, <1>12, <2>1 DEF DesktopInv, Farewell
<1>16. Started'
  <2>1. /\ \A b \in App : srv_end[b] = "none" => srv_end'[b] = "none"
        /\ \A b \in App : srv_end[b] \in {"open", "closed"} => srv_end'[b] \in {"open", "closed"}
    BY <1>0, <1>3
  <2> QED BY <1>1, <2>1 DEF DesktopInv, Started
<1> QED BY <1>4, <1>7, <1>8, <1>9, <1>11, <1>13, <1>14, <1>15, <1>16 DEF DesktopInv

\* The loop of vyro_server_tick.
LEMMA ServeStep ==
    ASSUME DesktopInv, Serve, UNCHANGED <<initVars, comp, path, appVars>>
    PROVE  DesktopInv'
<1> PICK s, a, m : s = First(ready) /\ a = clients[s] /\ m = Head(outbox[a])
  OBVIOUS
<1>1. s \in ready
  <2>1. ready \in SUBSET Nat /\ ready # {}
    BY TypesOf DEF DesktopInv, TypeOK, Serve
  <2> QED BY <2>1, FirstIn
<1>2. ready' = ready \ {s} /\ Served(s)
  BY DEF Serve
<1>3. UNCHANGED <<app_end, backlog, serving, dragging, events, init_pc, launches, comp, path, pc, window_id>>
  BY DEF Serve, inputVars, initVars, appVars
<1>4. CASE Drop(s)
  BY <1>1, <1>2, <1>3, <1>4, DropStep
<1>5. CASE ~Drop(s)
  <2>1. /\ outbox[a] # <<>> /\ outbox' = [outbox EXCEPT ![a] = Tail(outbox[a])]
        /\ UNCHANGED <<srv_end, clients>>
        /\ Hello(s, m) \/ WindowCreate(s, m) \/ WindowDestroy(s, m) \/ WindowPresent(s, m)
    BY <1>2, <1>5 DEF Served
  <2>2. Serving(s, a, m)
    BY <1>1, <1>2, <1>3, <2>1 DEF Serving
  <2> QED BY <1>3, <2>1, <2>2, HelloStep, NoWindowStep, NewWindowStep, DestroyStep, PresentStep
<1> QED BY <1>4, <1>5

----------------------------------------------------------------------------
(* The rest of the server.                                                 *)

\* vyro_server_tick up to its loop.
LEMMA PollStep ==
    ASSUME DesktopInv, Poll, UNCHANGED <<initVars, comp, path, appVars>>
    PROVE  DesktopInv'
<1> DEFINE polled == {s \in Slot : clients[s] # NoApp /\ Readable(clients[s])}
<1>1. ready' = polled /\ polled \subseteq Slot /\ \A s \in polled : clients[s] # NoApp
  BY DEF Poll
<1> HIDE DEF polled
<1>2. UNCHANGED <<serving, app_end, inbox, outbox, hello_done, windows, next_window, creator, dragging,
                 init_pc, launches, comp, path, pc, window_id>>
  BY DEF Poll, inputVars, initVars, appVars
<1>3. /\ clients \in [Slot -> App \cup {NoApp}] /\ srv_end \in [App -> {"none", "queued", "open", "closed"}]
      /\ windows \in [Window -> [in_use : BOOLEAN, owner : Slot, id : Nat]]
      /\ backlog \in Seq(App) /\ Len(backlog) \in Nat /\ \A i \in 1..Len(backlog) : backlog[i] \in App
  BY TypesOf DEF DesktopInv, TypeOK
<1>4. CASE backlog = <<>>
  <2>1. UNCHANGED <<srv_end, backlog, clients>>
    BY <1>4 DEF Poll
  <2>2. TypeOK'
    BY <1>1, <1>2, <2>1 DEF DesktopInv, TypeOK
  <2>3. Connections'
    BY <1>1, <1>2, <2>1 DEF DesktopInv, Connections, Connected
  <2>4. Identified' /\ WindowHeld' /\ WindowsOwned' /\ Started'
    BY <1>2, <2>1 DEF DesktopInv, Identified, WindowHeld, WindowsOwned, Started
  <2>5. EventIds' /\ EventsForCreator' /\ Farewell'
    BY <1>2, <2>1 DEF DesktopInv, EventIds, EventsForCreator, Farewell
  <2>6. Handshake'
    <3>1. \A b \in App, w \in Window : Owns(b, w)' <=> Owns(b, w)
      BY <1>2, <2>1 DEF Owns
    <3> QED BY <1>2, <2>1, <3>1, HandshakeKept DEF Handshake
  <2> QED BY <2>2, <2>3, <2>4, <2>5, <2>6 DEF DesktopInv
<1>5. CASE backlog # <<>>
  <2> PICK a : a = Head(backlog)
    OBVIOUS
  <2>1. /\ a \in App /\ a = backlog[1] /\ 1 \in 1..Len(backlog)
        /\ Tail(backlog) \in Seq(App) /\ Len(Tail(backlog)) = Len(backlog) - 1
        /\ \A i \in 1..Len(Tail(backlog)) : i + 1 \in 1..Len(backlog) /\ Tail(backlog)[i] = backlog[i + 1]
    <3>1. /\ a \in App /\ Tail(backlog) \in Seq(App) /\ Len(Tail(backlog)) = Len(backlog) - 1
          /\ \A i \in 1..Len(Tail(backlog)) : Tail(backlog)[i] = backlog[i + 1]
      BY <1>3, <1>5, HeadTailProperties
    <3>2. Len(backlog) \in Nat \ {0} /\ a = backlog[1]
      BY <1>3, <1>5, EmptySeq
    <3> QED BY <3>1, <3>2
  <2>2. srv_end[a] = "queued" /\ inbox[a] = <<>> /\ ~Connected(a)
    BY <2>1 DEF DesktopInv, Connections
  <2>3. backlog' = Tail(backlog)
    BY <1>5 DEF Poll
  <2>4. \A i \in 1..Len(backlog') : i + 1 \in 1..Len(backlog) /\ backlog'[i] = backlog[i + 1] /\ backlog'[i] # a
    <3>1. \A i \in 1..Len(backlog') : i + 1 \in 1..Len(backlog) /\ backlog'[i] = backlog[i + 1] /\ i + 1 # 1
      BY <2>1, <2>3
    <3> QED BY <2>1, <3>1 DEF DesktopInv, Connections
  <2>5. \A i, j \in 1..Len(backlog') : backlog'[i] = backlog'[j] => i = j
    <3>1. \A i, j \in 1..Len(backlog) : backlog[i] = backlog[j] => i = j
      BY DEF DesktopInv, Connections
    <3>2. \A i, j \in 1..Len(backlog') : backlog'[i] = backlog'[j] => i + 1 = j + 1
      BY <2>4, <3>1
    <3>3. \A i, j \in 1..Len(backlog') : i \in Int /\ j \in Int
      OBVIOUS
    <3> QED BY <3>2, <3>3
  <2>6. \A s \in Slot : clients[s] # a
    BY <2>2 DEF Connected
  <2>7. \A b \in App : b # a => srv_end'[b] = srv_end[b]
    BY <1>3, <1>5 DEF Poll
  <2>8. \A i \in 1..Len(backlog') : srv_end'[backlog'[i]] = "queued"
    <3>1. backlog \in Seq(App) /\ \A i \in 1..Len(backlog) : srv_end[backlog[i]] = "queued"
      BY DEF DesktopInv, TypeOK, Connections
    <3>2. \A i \in 1..Len(backlog) : backlog[i] \in App
      BY ONLY <3>1
    <3>3. \A i \in 1..Len(backlog') : backlog'[i] \in App /\ srv_end[backlog'[i]] = "queued"
      BY ONLY <2>4, <3>1, <3>2
    <3> QED BY ONLY <2>4, <2>7, <3>3
  <2>9. /\ srv_end' \in [App -> {"none", "queued", "open", "closed"}] /\ srv_end'[a] \in {"open", "closed"}
        /\ clients' \in [Slot -> App \cup {NoApp}]
        /\ \A s \in Slot : clients'[s] = clients[s] \/ (clients[s] = NoApp /\ clients'[s] = a)
        /\ \A s, t \in Slot : clients'[s] = a /\ clients'[t] = a => s = t
        /\ srv_end'[a] = "open" <=> \E s \in Slot : clients'[s] = a
    <3>1. CASE FreeSlots = {}
      BY <1>3, <1>5, <2>1, <2>6, <3>1 DEF Poll
    <3>2. CASE FreeSlots # {}
      <4> PICK t : t = First(FreeSlots)
        OBVIOUS
      <4>1. t \in Slot /\ clients[t] = NoApp
        <5>1. FreeSlots \in SUBSET Nat
          BY TypesOf DEF DesktopInv, FreeSlots
        <5>2. t \in FreeSlots
          BY <3>2, <5>1, FirstIn
        <5> QED BY <5>2 DEF FreeSlots
      <4>2. srv_end' = [srv_end EXCEPT ![a] = "open"] /\ clients' = [clients EXCEPT ![t] = a]
        BY <1>5, <3>2 DEF Poll
      <4> QED BY <1>3, <2>1, <2>6, <4>1, <4>2
    <3> QED BY <3>1, <3>2
  <2>10. TypeOK'
    BY <1>1, <1>2, <2>1, <2>3, <2>9 DEF DesktopInv, TypeOK
  <2>11. Connections'
    <3>1. \A s \in ready' : clients'[s] # NoApp
      BY <1>1, <2>1, <2>9
    <3>2. \A s \in Slot : clients'[s] = NoApp => ~hello_done'[s]
      BY <1>2, <2>1, <2>9 DEF DesktopInv, Connections
    <3>3. \A s, t \in Slot : clients'[s] = clients'[t] /\ clients'[s] # NoApp => s = t
      BY <2>9 DEF DesktopInv, Connections
    <3>4. \A b \in App : srv_end'[b] = "open" <=> Connected(b)'
      <4>1. \A b \in App : b # a => (Connected(b)' <=> Connected(b))
        BY <2>9 DEF Connected
      <4> QED BY <2>7, <2>9, <4>1 DEF DesktopInv, Connections, Connected
    <3>5. \A b \in App : srv_end'[b] \in {"none", "queued"} => inbox'[b] = <<>>
      BY <1>2, <2>2, <2>7 DEF DesktopInv, Connections
    <3> QED BY <2>5, <2>8, <3>1, <3>2, <3>3, <3>4, <3>5 DEF Connections
  <2>12. \A w \in Window : windows[w].in_use => clients'[windows[w].owner] = clients[windows[w].owner]
    <3>1. \A w \in Window : windows[w].owner \in Slot
      BY <1>3
    <3>2. \A w \in Window : windows[w].in_use => clients[windows[w].owner] # NoApp
      BY <3>1 DEF DesktopInv, WindowsOwned, Connections
    <3> QED BY <2>9, <3>1, <3>2
  <2>13. \A b \in App, w \in Window : Owns(b, w)' <=> Owns(b, w)
    BY <1>2, <2>12 DEF Owns
  <2>14. WindowsOwned' /\ Identified'
    BY <1>2, <2>12 DEF DesktopInv, WindowsOwned, Identified
  <2>15. \A w \in Window : ~Owns(a, w)
    <3>1. \A w \in Window : windows[w].owner \in Slot
      BY <1>3
    <3> QED BY <2>6, <3>1 DEF Owns
  <2>16. Windowless(a)' /\ pc[a] \notin {"create", "present", "loop", "bye"}
    BY <2>1, <2>2, <2>13, <2>15 DEF Windowless, DesktopInv, Started
  <2>17. WindowHeld'
    <3> SUFFICES ASSUME NEW b \in App, pc'[b] \in {"present", "loop"}, srv_end'[b] = "open"
                 PROVE  \E w \in Window : Owns(b, w)' /\ windows'[w].id = window_id'[b]
      BY DEF WindowHeld, Owns
    <3>1. pc[b] \in {"present", "loop"} /\ b # a /\ srv_end[b] = "open"
      BY <1>2, <2>7, <2>16
    <3>2. PICK w \in Window : windows[w].in_use /\ windows[w].id = window_id[b] /\ clients[windows[w].owner] = b
      BY <3>1 DEF DesktopInv, WindowHeld
    <3> QED BY <1>2, <2>13, <3>2 DEF Owns
  <2>18. Handshake'
    <3>1. ASSUME NEW b \in App, b # a
          PROVE  (pc'[b] = "hello" => Greeting(b)') /\ (pc'[b] = "create" => Creating(b)')
      BY <1>2, <2>7, <2>13, <3>1, HandshakeKept
    <3>2. ASSUME pc[a] = "hello"
          PROVE  Greeting(a)'
      <4>1. Asked(a, "HELLO")
        BY <2>1, <2>2, <3>2 DEF DesktopInv, Handshake, Greeting, Answered
      <4> QED BY <1>2, <2>16, <4>1 DEF Greeting, Asked
    <3> QED BY <1>2, <2>16, <3>1, <3>2 DEF Handshake
  <2>19. EventIds' /\ EventsForCreator'
    <3>1. ASSUME NEW b \in App, NEW i \in 1..Len(inbox'[b]), inbox'[b][i].op = "EVENT", srv_end'[b] = "open"
          PROVE  inbox'[b][i].id \in 1..Len(creator') /\ creator'[inbox'[b][i].id] = b
      <4>1. b # a
        <5>1. Len(inbox[a]) = 0
          BY <2>2, EmptySeq
        <5> QED BY <1>2, <3>1, <5>1
      <4> QED BY <1>2, <2>7, <3>1, <4>1 DEF DesktopInv, EventIds, EventsForCreator
    <3> QED BY <3>1 DEF EventIds, EventsForCreator
  <2>20. Farewell'
    <3>1. ASSUME NEW b \in App, NEW i \in 1..Len(outbox[b]), outbox[b][i].op = "WINDOW_DESTROY"
          PROVE  /\ pc[b] \in {"bye", "gone"} /\ srv_end'[b] \in {"open", "closed"}
                 /\ srv_end'[b] = "open" => outbox[b][i].id \in 1..Len(creator) /\ creator[outbox[b][i].id] = b
      <4>1. /\ pc[b] \in {"bye", "gone"} /\ srv_end[b] \in {"open", "closed"}
            /\ srv_end[b] = "open" => outbox[b][i].id \in 1..Len(creator) /\ creator[outbox[b][i].id] = b
        BY <3>1 DEF DesktopInv, Farewell
      <4> QED BY <2>2, <2>7, <4>1
    <3> QED BY <1>2, <3>1 DEF Farewell
  <2>21. Started'
    <3>1. \A b \in App : /\ srv_end[b] = "none" => srv_end'[b] = "none"
                         /\ srv_end[b] \in {"open", "closed"} => srv_end'[b] \in {"open", "closed"}
      BY <2>2, <2>7
    <3>2. launches' = launches /\ pc' = pc /\ outbox' = outbox /\ app_end' = app_end
      BY <1>2
    <3>3. ASSUME NEW b \in App
          PROVE  /\ pc[b] = "unborn" \/ Launch[b] <= launches
                 /\ pc[b] \in {"unborn", "new", "refused"} => srv_end'[b] = "none" /\ outbox[b] = <<>>
                 /\ pc[b] \in Talking => app_end[b] = "open"
                 /\ pc[b] \in {"create", "present", "loop", "bye"} => srv_end'[b] \in {"open", "closed"}
      BY <3>1 DEF DesktopInv, Started
    <3> QED BY <3>2, <3>3 DEF DesktopInv, Started
  <2> QED BY <2>10, <2>11, <2>14, <2>17, <2>18, <2>19, <2>20, <2>21 DEF DesktopInv
<1> QED BY <1>4, <1>5

\* A message to the client of a window that exists, which may be in its event loop
\* but not in its handshake.
LEMMA EventStep ==
    ASSUME DesktopInv, NEW v \in Window, windows[v].in_use, SendEvent(v) \/ inbox' = inbox,
           dragging' \in Window \cup {NoWindow},
           UNCHANGED <<app_end, srv_end, backlog, outbox, serverVars, initVars, comp, path, appVars>>
    PROVE  DesktopInv'
<1> PICK a, r : a = clients[windows[v].owner] /\ r = [op |-> "EVENT", id |-> windows[v].id]
  OBVIOUS
<1>1. UNCHANGED <<app_end, srv_end, backlog, outbox, serving, ready, clients, hello_done, windows, next_window,
                 creator, init_pc, launches, comp, path, pc, window_id>>
  BY DEF serverVars, initVars, appVars
<1>2. /\ windows[v].owner \in Slot /\ windows[v].id \in Nat \ {0} /\ windows[v].id \in 1..Len(creator)
      /\ creator[windows[v].id] = a /\ a # NoApp
  <2>1. windows[v].owner \in Slot /\ hello_done[windows[v].owner]
    BY DEF DesktopInv, TypeOK, WindowsOwned
  <2>2. windows[v].id \in 1..Len(creator) /\ creator[windows[v].id] = a
    BY DEF DesktopInv, WindowsOwned, Identified
  <2> QED BY <2>1, <2>2 DEF DesktopInv, Connections
<1>3. a \in App /\ srv_end[a] = "open" /\ Owns(a, v)
  BY <1>2 DEF DesktopInv, TypeOK, Connections, Connected, Owns
<1>4. r \in Message /\ r.op = "EVENT" /\ r.id = windows[v].id
  BY <1>2, MessageFacts
<1>5. inbox' = inbox \/ SendTo(a, r)
  BY <1>2 DEF SendEvent
<1>6. /\ inbox' \in [App -> Seq(Message)] /\ \A b \in App : Len(inbox'[b]) <= SOCKBUF
      /\ \A b \in App : b # a => inbox'[b] = inbox[b]
      /\ inbox[a] # <<>> => inbox'[a] # <<>> /\ Head(inbox'[a]) = Head(inbox[a])
  <2>1. CASE inbox' = inbox
    BY <2>1 DEF DesktopInv, TypeOK
  <2>2. CASE SendTo(a, r)
    BY <1>3, <1>4, <2>2, SendToInbox DEF DesktopInv
  <2> QED BY <1>5, <2>1, <2>2
<1>7. TypeOK'
  BY <1>1, <1>6 DEF DesktopInv, TypeOK
<1>8. Connections'
  <2>1. \A b \in App : srv_end[b] \in {"none", "queued"} => inbox'[b] = <<>>
    BY <1>3, <1>6 DEF DesktopInv, Connections
  <2> QED BY <1>1, <2>1 DEF DesktopInv, Connections, Connected
<1>9. Identified' /\ WindowHeld' /\ WindowsOwned' /\ Started' /\ Farewell'
  BY <1>1 DEF DesktopInv, Identified, WindowHeld, WindowsOwned, Started, Farewell
<1>10. Len(creator) \in Nat
  BY TypesOf DEF DesktopInv
<1>11. EventIds' /\ EventsForCreator'
  BY <1>1, <1>2, <1>3, <1>4, <1>5, <1>10, EventsStay
<1>12. \A b \in App, w \in Window : Owns(b, w)' <=> Owns(b, w)
  BY <1>1 DEF Owns
<1>13. Handshake'
  <2>1. ASSUME NEW b \in App, b # a
        PROVE  (pc'[b] = "hello" => Greeting(b)') /\ (pc'[b] = "create" => Creating(b)')
    BY <1>1, <1>6, <1>12, <2>1, HandshakeKept
  <2>2. pc[a] # "hello"
    BY <1>3 DEF DesktopInv, Handshake, Greeting, Windowless
  <2>3. ASSUME pc[a] = "create"
        PROVE  Creating(a)'
    <3>1. Answered(a)
      BY <1>3, <2>3 DEF DesktopInv, Handshake, Creating, Windowless
    <3>2. inbox[a] # <<>> /\ inbox'[a] # <<>> /\ Head(inbox'[a]) = Head(inbox[a])
      BY <1>6, <3>1 DEF Answered
    <3> QED BY <1>1, <1>3, <1>12, <2>3, <3>2, HandshakeKept
  <2> QED BY <1>1, <2>1, <2>2, <2>3 DEF Handshake
<1> QED BY <1>7, <1>8, <1>9, <1>11, <1>13 DEF DesktopInv

\* Nothing of the tables, the connections and the apps changes.
LEMMA Unaffected ==
    ASSUME DesktopInv, TypeOK',
           UNCHANGED <<app_end, srv_end, backlog, inbox, outbox, ready, clients, hello_done, windows, next_window,
                       creator, launches, pc, window_id>>
    PROVE  DesktopInv'
<1>1. Connections' /\ Identified' /\ Started' /\ Farewell' /\ EventIds'
  BY DEF DesktopInv, Connections, Connected, Identified, Started, Farewell, EventIds
<1>2. WindowsOwned' /\ WindowHeld' /\ EventsForCreator'
  BY DEF DesktopInv, WindowsOwned, WindowHeld, EventsForCreator
<1>3. \A b \in App, w \in Window : Owns(b, w)' <=> Owns(b, w)
  BY DEF Owns
<1>4. Handshake'
  BY <1>3, HandshakeKept DEF Handshake
<1> QED BY <1>1, <1>2, <1>4 DEF DesktopInv

\* vyro_input_tick
LEMMA InputStep ==
    ASSUME DesktopInv, Input, UNCHANGED <<initVars, comp, path, appVars>>
    PROVE  DesktopInv'
<1>1. UNCHANGED <<app_end, srv_end, backlog, outbox, serverVars>>
  BY DEF Input
<1> PICK hit \in Hits : Motion(hit) \/ Key(hit) \/ \E left, down \in BOOLEAN : Button(hit, left, down)
  BY DEF Input
<1>2. dragging \in Window \cup {NoWindow} /\ hit.win \in Window \cup {NoWindow}
      /\ (hit.win # NoWindow => windows[hit.win].in_use)
  BY DEF DesktopInv, TypeOK, Hits
<1>3. /\ dragging' \in {dragging, NoWindow, hit.win}
      /\ inbox' = inbox \/ (hit.win # NoWindow /\ SendEvent(hit.win))
  BY DEF Motion, Key, Button, SendEventIf
<1>4. dragging' \in Window \cup {NoWindow}
  BY <1>2, <1>3
<1>5. CASE inbox' = inbox
  <2>1. UNCHANGED <<app_end, srv_end, backlog, inbox, outbox, serving, ready, clients, hello_done, windows, next_window,
                    creator, init_pc, launches, comp, path, pc, window_id>>
    BY <1>1, <1>5 DEF serverVars, initVars, appVars
  <2>2. TypeOK'
    BY <1>4, <2>1 DEF DesktopInv, TypeOK
  <2> QED BY <2>1, <2>2, Unaffected
<1>6. CASE hit.win # NoWindow /\ SendEvent(hit.win)
  BY <1>1, <1>2, <1>4, <1>6, EventStep
<1> QED BY <1>3, <1>5, <1>6

\* The kernel closes the connections of a compositor that ends.
LEMMA CrashStep ==
    ASSUME DesktopInv, Crash
    PROVE  DesktopInv'
<1>1. /\ ServerEnds
      /\ UNCHANGED <<app_end, inbox, outbox, init_pc, launches, path, pc, window_id>> /\ comp' = "dead"
  BY DEF Crash, appVars
<1>2. /\ ready' = {} /\ clients' = [s \in Slot |-> NoApp] /\ hello_done' = [s \in Slot |-> FALSE]
      /\ windows' = [w \in Window |-> Free] /\ next_window' = 1 /\ creator' = <<>> /\ dragging' = NoWindow
      /\ serving' = FALSE /\ backlog' = <<>>
      /\ srv_end' = [a \in App |-> IF srv_end[a] \in {"queued", "open"} THEN "closed" ELSE srv_end[a]]
  BY <1>1 DEF ServerEnds
<1>3. /\ srv_end' \in [App -> {"none", "queued", "open", "closed"}]
      /\ \A a \in App : /\ srv_end'[a] \notin {"queued", "open"}
                        /\ srv_end[a] = "none" => srv_end'[a] = "none"
                        /\ srv_end'[a] = "none" => srv_end[a] = "none"
                        /\ srv_end[a] \in {"open", "closed"} => srv_end'[a] = "closed"
  BY <1>2 DEF DesktopInv, TypeOK
<1>4. /\ windows' \in [Window -> [in_use : BOOLEAN, owner : Slot, id : Nat]]
      /\ \A w \in Window : ~windows'[w].in_use
      /\ \A s \in Slot : clients'[s] = NoApp /\ ~hello_done'[s]
  <2>1. 0 \in Slot
    BY DEF Slot
  <2> QED BY <1>2, <2>1 DEF Free
<1>5. Len(creator') = 0 /\ Len(backlog') = 0 /\ creator' \in Seq(App) /\ backlog' \in Seq(App)
  BY <1>2, EmptySeq
<1>6. TypeOK'
  BY <1>1, <1>2, <1>3, <1>4, <1>5 DEF DesktopInv, TypeOK
<1>7. Connections'
  <2>1. \A a \in App : srv_end'[a] = "open" <=> Connected(a)'
    BY <1>3, <1>4 DEF Connected
  <2>2. \A a \in App : srv_end'[a] \in {"none", "queued"} => inbox'[a] = <<>>
    BY <1>1, <1>3 DEF DesktopInv, Connections
  <2> QED BY <1>2, <1>4, <1>5, <2>1, <2>2 DEF Connections
<1>8. Identified' /\ WindowsOwned' /\ WindowHeld'
  BY <1>2, <1>3, <1>4, <1>5 DEF Identified, WindowsOwned, WindowHeld
<1>9. EventIds' /\ EventsForCreator'
  BY <1>3 DEF EventIds, EventsForCreator
<1>10. Farewell'
  BY <1>1, <1>3 DEF DesktopInv, Farewell
<1>11. Started'
  <2>1. ASSUME NEW b \in App
        PROVE  /\ pc[b] = "unborn" \/ Launch[b] <= launches
               /\ pc[b] \in {"unborn", "new", "refused"} => srv_end'[b] = "none" /\ outbox[b] = <<>>
               /\ pc[b] \in Talking => app_end[b] = "open"
               /\ pc[b] \in {"create", "present", "loop", "bye"} => srv_end'[b] \in {"open", "closed"}
    BY <1>3 DEF DesktopInv, Started
  <2>2. UNCHANGED <<launches, pc, outbox, app_end>>
    BY <1>1
  <2> QED BY <2>1, <2>2 DEF DesktopInv, Started
<1>12. Handshake'
  <2> SUFFICES ASSUME NEW a \in App
               PROVE  (pc'[a] = "hello" => Greeting(a)') /\ (pc'[a] = "create" => Creating(a)')
    BY DEF Handshake
  <2>1. Windowless(a)' /\ srv_end'[a] # "open"
    BY <1>3, <1>4 DEF Windowless, Owns
  <2>2. srv_end[a] = "closed" => srv_end'[a] = "closed"
    BY <1>3
  <2>3. UNCHANGED <<inbox, outbox, pc>>
    BY <1>1
  <2>4. ASSUME pc[a] = "hello" PROVE Greeting(a)'
    BY <2>1, <2>3, <2>4 DEF DesktopInv, Handshake, Greeting, Asked, Answered
  <2>5. ASSUME pc[a] = "create" PROVE Creating(a)'
    BY <2>1, <2>2, <2>3, <2>5 DEF DesktopInv, Handshake, Creating, Asked, Answered
  <2> QED BY <2>3, <2>4, <2>5
<1> QED BY <1>6, <1>7, <1>8, <1>9, <1>10, <1>11, <1>12 DEF DesktopInv

----------------------------------------------------------------------------
(* vyro-init and the compositor's start.                                   *)

LEMMA StartStep ==
    ASSUME DesktopInv, Start
    PROVE  DesktopInv'
<1>1. UNCHANGED <<app_end, srv_end, backlog, inbox, outbox, ready, clients, hello_done, windows, next_window,
                 creator, dragging, init_pc, launches, pc, window_id>>
  BY DEF Start, sockVars, inputVars, initVars, appVars
<1>2. /\ comp' \in {"none", "starting", "unlinked", "bound", "up", "dead"}
      /\ path' \in BOOLEAN /\ serving' \in BOOLEAN
  BY DEF Start, DesktopInv, TypeOK
<1>3. TypeOK'
  BY <1>1, <1>2 DEF DesktopInv, TypeOK
<1> QED BY <1>1, <1>3, Unaffected

LEMMA SessionStep ==
    ASSUME DesktopInv, SpawnCompositor \/ SocketSeen \/ SocketTimeout \/ Reap
    PROVE  DesktopInv'
<1>1. UNCHANGED <<app_end, srv_end, backlog, inbox, outbox, serving, ready, clients, hello_done, windows, next_window,
                 creator, dragging, launches, path, pc, window_id>>
  BY DEF SpawnCompositor, SocketSeen, SocketTimeout, Reap, compVars, sockVars, serverVars, inputVars, appVars
<1>2. comp' \in {"none", "starting", "unlinked", "bound", "up", "dead"} /\ init_pc' \in {"spawn", "wait", "session", "reap"}
  BY DEF SpawnCompositor, SocketSeen, SocketTimeout, Reap, DesktopInv, TypeOK
<1>3. TypeOK'
  BY <1>1, <1>2 DEF DesktopInv, TypeOK
<1> QED BY <1>1, <1>3, Unaffected

\* spawn_session: an app that is started has not been before.
LEMMA LaunchStep ==
    ASSUME DesktopInv, SpawnSession
    PROVE  DesktopInv'
<1>1. /\ UNCHANGED <<app_end, srv_end, backlog, inbox, outbox, serving, ready, clients, hello_done, windows,
                     next_window, creator, dragging, comp, path, window_id>>
      /\ init_pc' = "reap" /\ launches' = launches + 1
      /\ pc' = [a \in App |-> IF Launch[a] = launches + 1 THEN "new" ELSE pc[a]]
  BY DEF SpawnSession, compVars, sockVars, serverVars, inputVars
<1>2. launches \in Nat /\ pc \in [App -> Running \cup Ended \cup {"unborn"}]
  BY DEF DesktopInv, Started, TypeOK
<1>3. \A a \in App : \/ pc'[a] = pc[a]
                     \/ pc'[a] = "new" /\ Launch[a] = launches + 1 /\ pc[a] = "unborn"
  <2>1. \A a \in App : Launch[a] = launches + 1 => pc[a] = "unborn"
    <3>1. \A a \in App : pc[a] = "unborn" \/ Launch[a] <= launches
      BY DEF DesktopInv, Started
    <3>2. ~(launches + 1 <= launches)
      BY <1>2
    <3> QED BY <3>1, <3>2
  <2> QED BY <1>1, <2>1
<1>4. pc' \in [App -> Running \cup Ended \cup {"unborn"}]
  BY <1>1, <1>2 DEF Running
<1>5. TypeOK'
  BY <1>1, <1>4 DEF DesktopInv, TypeOK
<1>6. Connections' /\ Identified' /\ EventIds' /\ WindowsOwned' /\ EventsForCreator'
  BY <1>1 DEF DesktopInv, Connections, Connected, Identified, EventIds, WindowsOwned, EventsForCreator
<1>7. WindowHeld'
  <2>1. \A a \in App : pc'[a] \in {"present", "loop"} => pc'[a] = pc[a]
    BY <1>3
  <2> QED BY <1>1, <2>1 DEF DesktopInv, WindowHeld
<1>8. Farewell'
  <2>1. \A a \in App : pc[a] \in {"bye", "gone"} => pc'[a] \in {"bye", "gone"}
    BY <1>3
  <2> QED BY <1>1, <2>1 DEF DesktopInv, Farewell
<1>9. Started'
  <2>1. ASSUME NEW b \in App
        PROVE  /\ pc'[b] = "unborn" \/ Launch[b] <= launches + 1
               /\ pc'[b] \in {"unborn", "new", "refused"} => srv_end[b] = "none" /\ outbox[b] = <<>>
               /\ pc'[b] \in Talking => app_end[b] = "open"
               /\ pc'[b] \in {"create", "present", "loop", "bye"} => srv_end[b] \in {"open", "closed"}
    <3>1. Launch[b] \in Nat /\ (pc[b] = "unborn" \/ Launch[b] <= launches)
      BY DEF DesktopInv, Started
    <3>2. pc'[b] = "unborn" \/ Launch[b] <= launches + 1
      BY <1>2, <1>3, <3>1
    <3> QED BY <1>3, <3>2 DEF DesktopInv, Started, Talking
  <2>2. launches' \in Nat
    BY <1>1, <1>2
  <2> QED BY <1>1, <2>1, <2>2 DEF Started
<1>10. Handshake'
  <2>1. \A b \in App, w \in Window : Owns(b, w)' <=> Owns(b, w)
    BY <1>1 DEF Owns
  <2> SUFFICES ASSUME NEW a \in App
               PROVE  (pc'[a] = "hello" => Greeting(a)') /\ (pc'[a] = "create" => Creating(a)')
    BY DEF Handshake
  <2>2. CASE pc'[a] = pc[a]
    BY <1>1, <2>1, <2>2, HandshakeKept
  <2>3. CASE pc'[a] = "new"
    BY <2>3
  <2> QED BY <1>3, <2>2, <2>3
<1> QED BY <1>5, <1>6, <1>7, <1>8, <1>9, <1>10 DEF DesktopInv

----------------------------------------------------------------------------
(* The apps.                                                               *)

\* What a step of an app must keep: only its own connection and its own place change.
LEMMA AppStep ==
    ASSUME DesktopInv, TypeOK', Connections', NEW a \in App,
           UNCHANGED <<serverVars, launches>>,
           \A b \in App \ {a} : /\ app_end'[b] = app_end[b] /\ srv_end'[b] = srv_end[b]
                                /\ inbox'[b] = inbox[b] /\ outbox'[b] = outbox[b]
                                /\ pc'[b] = pc[b] /\ window_id'[b] = window_id[b],
           srv_end'[a] = "open" <=> srv_end[a] = "open",
           pc'[a] = "unborn" \/ Launch[a] <= launches,
           pc'[a] \in {"unborn", "new", "refused"} => srv_end'[a] = "none" /\ outbox'[a] = <<>>,
           pc'[a] \in Talking => app_end'[a] = "open",
           pc'[a] \in {"create", "present", "loop", "bye"} => srv_end'[a] \in {"open", "closed"},
           pc'[a] = "hello" => Greeting(a)',
           pc'[a] = "create" => Creating(a)',
           \A i \in 1..Len(inbox'[a]) : \E j \in 1..Len(inbox[a]) : inbox'[a][i] = inbox[a][j],
           \A i \in 1..Len(outbox'[a]) :
              outbox'[a][i].op = "WINDOW_DESTROY" =>
                 /\ pc'[a] \in {"bye", "gone"} /\ srv_end'[a] \in {"open", "closed"}
                 /\ srv_end'[a] = "open" => outbox'[a][i].id \in 1..Len(creator) /\ creator[outbox'[a][i].id] = a,
           pc'[a] \in {"present", "loop"} /\ srv_end[a] = "open" => Holds(a, window_id'[a])
    PROVE  DesktopInv'
<1>1. UNCHANGED <<serving, ready, clients, hello_done, windows, next_window, creator, launches>>
  BY DEF serverVars
<1>2. Identified' /\ WindowsOwned'
  BY <1>1 DEF DesktopInv, Identified, WindowsOwned
<1>3. Started'
  <2>1. ASSUME NEW b \in App
        PROVE  /\ pc'[b] = "unborn" \/ Launch[b] <= launches
               /\ pc'[b] \in {"unborn", "new", "refused"} => srv_end'[b] = "none" /\ outbox'[b] = <<>>
               /\ pc'[b] \in Talking => app_end'[b] = "open"
               /\ pc'[b] \in {"create", "present", "loop", "bye"} => srv_end'[b] \in {"open", "closed"}
    <3>1. CASE b = a
      BY <3>1
    <3>2. CASE b # a
      BY <3>2 DEF DesktopInv, Started
    <3> QED BY <3>1, <3>2
  <2> QED BY <1>1, <2>1 DEF DesktopInv, Started
<1>4. \A b \in App, w \in Window : Owns(b, w)' <=> Owns(b, w)
  BY <1>1 DEF Owns
<1>5. Handshake'
  <2>1. ASSUME NEW b \in App, b # a
        PROVE  (pc'[b] = "hello" => Greeting(b)') /\ (pc'[b] = "create" => Creating(b)')
    <3>1. b \in App \ {a}
      BY <2>1
    <3>2. pc'[b] = pc[b] /\ outbox'[b] = outbox[b] /\ srv_end'[b] = srv_end[b] /\ inbox'[b] = inbox[b]
      BY <3>1
    <3> QED BY <1>1, <1>4, <3>2, HandshakeKept
  <2> QED BY <2>1 DEF Handshake
<1>6. EventIds' /\ EventsForCreator'
  <2>1. ASSUME NEW b \in App, NEW i \in 1..Len(inbox'[b]), inbox'[b][i].op = "EVENT", srv_end'[b] = "open"
        PROVE  inbox'[b][i].id \in 1..Len(creator) /\ creator[inbox'[b][i].id] = b
    <3>1. srv_end[b] = "open"
      BY <2>1
    <3>2. PICK j \in 1..Len(inbox[b]) : inbox'[b][i] = inbox[b][j]
      BY <2>1
    <3> QED BY <2>1, <3>1, <3>2 DEF DesktopInv, EventIds, EventsForCreator
  <2> QED BY <1>1, <2>1 DEF EventIds, EventsForCreator
<1>7. Farewell'
  <2>1. ASSUME NEW b \in App, NEW i \in 1..Len(outbox'[b]), outbox'[b][i].op = "WINDOW_DESTROY"
        PROVE  /\ pc'[b] \in {"bye", "gone"} /\ srv_end'[b] \in {"open", "closed"}
               /\ srv_end'[b] = "open" => outbox'[b][i].id \in 1..Len(creator) /\ creator[outbox'[b][i].id] = b
    <3>1. CASE b = a
      BY <2>1, <3>1
    <3>2. CASE b # a
      BY <2>1, <3>2 DEF DesktopInv, Farewell
    <3> QED BY <3>1, <3>2
  <2> QED BY <1>1, <2>1 DEF Farewell
<1>8. WindowHeld'
  <2>1. ASSUME NEW b \in App, pc'[b] \in {"present", "loop"}, srv_end'[b] = "open"
        PROVE  \E w \in Window : /\ windows[w].in_use
                                 /\ windows[w].id = window_id'[b]
                                 /\ clients[windows[w].owner] = b
    <3>1. CASE b = a
      BY <2>1, <3>1 DEF Holds, Owns
    <3>2. CASE b # a
      BY <2>1, <3>2 DEF DesktopInv, WindowHeld
    <3> QED BY <3>1, <3>2
  <2> QED BY <1>1, <2>1 DEF WindowHeld
<1> QED BY <1>2, <1>3, <1>5, <1>6, <1>7, <1>8 DEF DesktopInv

\* The connections do not change when no end of the server's does, and no inbox fills.
LEMMA ConnectionsKept ==
    ASSUME DesktopInv, NEW a \in App, UNCHANGED <<ready, clients, hello_done, srv_end, backlog>>,
           \A b \in App : inbox[b] = <<>> => inbox'[b] = <<>>
    PROVE  Connections'
BY DEF DesktopInv, Connections, Connected

\* An app that quits leaves its buffers and its windows to the server.
LEMMA QuitStep ==
    ASSUME DesktopInv, NEW a \in App, Quit(a), pc[a] \notin {"unborn", "new", "refused"},
           \/ inbox' = inbox
           \/ inbox[a] # <<>> /\ inbox' = [inbox EXCEPT ![a] = Tail(inbox[a])],
           UNCHANGED <<srv_end, backlog, outbox, window_id, serverVars, inputVars, initVars, comp, path>>
    PROVE  DesktopInv'
<1>1. /\ inbox \in [App -> Seq(Message)] /\ (\A b \in App : Len(inbox[b]) <= SOCKBUF)
      /\ app_end \in [App -> {"none", "open", "closed"}] /\ pc \in [App -> Running \cup Ended \cup {"unborn"}]
  BY DEF DesktopInv, TypeOK
<1>2. /\ app_end' = [app_end EXCEPT ![a] = "closed"] /\ pc' = [pc EXCEPT ![a] = "gone"]
      /\ srv_end' = srv_end /\ backlog' = backlog /\ outbox' = outbox /\ window_id' = window_id
      /\ launches' = launches /\ init_pc' = init_pc /\ comp' = comp /\ path' = path /\ dragging' = dragging
      /\ UNCHANGED <<serving, ready, clients, hello_done, windows, next_window, creator>>
  BY DEF Quit, Goto, initVars, inputVars, serverVars
<1>3. /\ pc'[a] = "gone" /\ app_end'[a] = "closed"
      /\ \A b \in App \ {a} : app_end'[b] = app_end[b] /\ pc'[b] = pc[b]
      /\ app_end' \in [App -> {"none", "open", "closed"}] /\ pc' \in [App -> Running \cup Ended \cup {"unborn"}]
  BY <1>1, <1>2 DEF Ended
<1>4. /\ inbox' \in [App -> Seq(Message)] /\ (\A b \in App : Len(inbox'[b]) <= SOCKBUF)
      /\ \A b \in App : b # a => inbox'[b] = inbox[b]
      /\ inbox[a] = <<>> => inbox'[a] = <<>>
      /\ \A i \in 1..Len(inbox'[a]) : \E j \in 1..Len(inbox[a]) : inbox'[a][i] = inbox[a][j]
  <2>1. CASE inbox' = inbox
    BY <1>1, <2>1
  <2>2. CASE inbox[a] # <<>> /\ inbox' = [inbox EXCEPT ![a] = Tail(inbox[a])]
    BY <1>1, <2>2, BoxTaken
  <2> QED BY <2>1, <2>2
<1>5. TypeOK'
  BY <1>2, <1>3, <1>4 DEF DesktopInv, TypeOK
<1>6. Connections'
  BY <1>2, <1>4, ConnectionsKept
<1>7. pc'[a] = "unborn" \/ Launch[a] <= launches
  BY DEF DesktopInv, Started
<1>8. \A i \in 1..Len(outbox'[a]) :
         outbox'[a][i].op = "WINDOW_DESTROY" =>
            /\ pc'[a] \in {"bye", "gone"} /\ srv_end'[a] \in {"open", "closed"}
            /\ srv_end'[a] = "open" => outbox'[a][i].id \in 1..Len(creator) /\ creator[outbox'[a][i].id] = a
  BY <1>2, <1>3 DEF DesktopInv, Farewell
<1>9. UNCHANGED <<serverVars, launches>>
  BY <1>2
<1>10. /\ pc'[a] \in {"unborn", "new", "refused"} => srv_end'[a] = "none" /\ outbox'[a] = <<>>
       /\ pc'[a] \in Talking => app_end'[a] = "open"
       /\ pc'[a] \in {"create", "present", "loop", "bye"} => srv_end'[a] \in {"open", "closed"}
       /\ pc'[a] = "hello" => Greeting(a)'
       /\ pc'[a] = "create" => Creating(a)'
       /\ pc'[a] \in {"present", "loop"} /\ srv_end[a] = "open" => Holds(a, window_id'[a])
       /\ srv_end'[a] = "open" <=> srv_end[a] = "open"
  BY <1>2, <1>3 DEF Talking
<1>11. \A b \in App \ {a} : /\ app_end'[b] = app_end[b] /\ srv_end'[b] = srv_end[b]
                            /\ inbox'[b] = inbox[b] /\ outbox'[b] = outbox[b]
                            /\ pc'[b] = pc[b] /\ window_id'[b] = window_id[b]
  BY <1>2, <1>3, <1>4
<1> QED BY <1>4, <1>5, <1>6, <1>7, <1>8, <1>9, <1>10, <1>11, AppStep

\* vyro_proto_connect, which the backlog takes, or which fails.
LEMMA ConnectStep ==
    ASSUME DesktopInv, NEW a \in App, Connect(a), UNCHANGED <<serverVars, inputVars, initVars, comp, path>>
    PROVE  DesktopInv'
<1>1. /\ srv_end[a] = "none" /\ outbox[a] = <<>> /\ inbox[a] = <<>> /\ pc[a] = "new" /\ Launch[a] <= launches
  BY DEF Connect, DesktopInv, Started, Connections
<1>2. /\ srv_end \in [App -> {"none", "queued", "open", "closed"}] /\ app_end \in [App -> {"none", "open", "closed"}]
      /\ outbox \in [App -> Seq(Message)] /\ pc \in [App -> Running \cup Ended \cup {"unborn"}]
      /\ backlog \in Seq(App) /\ \A b \in App : Len(outbox[b]) <= SOCKBUF
  BY DEF DesktopInv, TypeOK
<1>3. /\ inbox' = inbox /\ window_id' = window_id
      /\ launches' = launches /\ init_pc' = init_pc /\ comp' = comp /\ path' = path /\ dragging' = dragging
      /\ UNCHANGED <<serving, ready, clients, hello_done, windows, next_window, creator>>
  BY DEF Connect, initVars, inputVars, serverVars
<1>4. UNCHANGED <<serverVars, launches>>
  BY <1>3
<1>5. \A i \in 1..Len(inbox'[a]) : \E j \in 1..Len(inbox[a]) : inbox'[a][i] = inbox[a][j]
  BY <1>3
<1>6. Windowless(a)'
  <2>1. ~Connected(a)
    BY <1>1 DEF DesktopInv, Connections
  <2>2. \A w \in Window : windows[w].owner \in Slot
    BY DEF DesktopInv, TypeOK
  <2>3. Windowless(a)
    BY <2>1, <2>2 DEF Windowless, Owns, Connected
  <2> QED BY <1>3, <2>3 DEF Windowless, Owns
<1>7. CASE comp = "up"
  <2> DEFINE m == [op |-> "HELLO", version_ok |-> a \notin OldApps]
  <2>1. /\ pc' = [pc EXCEPT ![a] = "hello"] /\ app_end' = [app_end EXCEPT ![a] = "open"]
        /\ srv_end' = [srv_end EXCEPT ![a] = "queued"] /\ backlog' = Append(backlog, a)
        /\ outbox'  = [outbox EXCEPT ![a] = <<m>>]
    BY <1>7 DEF Connect, Goto
  <2>2. m \in Message /\ m.op = "HELLO"
    BY MessageFacts
  <2> HIDE DEF m
  <2>3. /\ pc'[a] = "hello" /\ app_end'[a] = "open" /\ srv_end'[a] = "queued"
        /\ \A b \in App : b # a => /\ app_end'[b] = app_end[b] /\ srv_end'[b] = srv_end[b]
                                   /\ outbox'[b] = outbox[b] /\ pc'[b] = pc[b]
        /\ srv_end' \in [App -> {"none", "queued", "open", "closed"}] /\ app_end' \in [App -> {"none", "open", "closed"}]
        /\ pc' \in [App -> Running \cup Ended \cup {"unborn"}]
    BY <1>2, <2>1 DEF Running
  <2>4. <<m>> \in Seq(Message) /\ Len(<<m>>) = 1 /\ Head(<<m>>) = m /\ <<m>> # <<>> /\ <<m>>[1] = m
    BY <2>2
  <2>5. outbox'[a] = <<m>> /\ outbox' \in [App -> Seq(Message)] /\ \A b \in App : Len(outbox'[b]) <= SOCKBUF
    <3>1. outbox'[a] = <<m>> /\ outbox' \in [App -> Seq(Message)]
      BY <1>2, <2>1, <2>4
    <3>2. \A b \in App : Len(outbox'[b]) <= SOCKBUF
      <4>1. Len(<<m>>) <= SOCKBUF
        BY <2>4
      <4> QED BY <1>2, <2>3, <3>1, <4>1
    <3> QED BY <3>1, <3>2
  <2>6. /\ backlog' \in Seq(App) /\ Len(backlog') = Len(backlog) + 1 /\ Len(backlog) \in Nat
        /\ backlog'[Len(backlog) + 1] = a /\ \A i \in 1..Len(backlog) : backlog'[i] = backlog[i]
    BY <1>2, <2>1, LenProperties
  <2>7. TypeOK'
    BY <1>3, <2>3, <2>5, <2>6 DEF DesktopInv, TypeOK
  <2>8. Connections'
    <3>1. \A i \in 1..Len(backlog) : backlog[i] # a
      BY <1>1 DEF DesktopInv, Connections
    <3>2. \A i \in 1..Len(backlog) + 1 : i \in 1..Len(backlog) \/ i = Len(backlog) + 1
      BY <2>6
    <3>3. \A i, j \in 1..Len(backlog') : backlog'[i] = backlog'[j] => i = j
      BY <2>6, <3>1, <3>2 DEF DesktopInv, Connections
    <3>4. \A i \in 1..Len(backlog') : srv_end'[backlog'[i]] = "queued"
      <4>1. \A i \in 1..Len(backlog) : backlog[i] \in App /\ srv_end[backlog[i]] = "queued"
        BY TypesOf DEF DesktopInv, Connections
      <4>2. ASSUME NEW i \in 1..Len(backlog'), i \in 1..Len(backlog)
            PROVE  srv_end'[backlog'[i]] = "queued"
        <5>1. backlog'[i] = backlog[i] /\ backlog[i] \in App /\ backlog[i] # a /\ srv_end[backlog[i]] = "queued"
          BY <2>6, <3>1, <4>1, <4>2
        <5> QED BY <2>3, <5>1
      <4>3. srv_end'[backlog'[Len(backlog) + 1]] = "queued"
        BY <2>3, <2>6
      <4> QED BY <2>6, <3>2, <4>2, <4>3
    <3>5. \A b \in App : srv_end'[b] = "open" <=> srv_end[b] = "open"
      BY <1>1, <2>3
    <3>6. \A b \in App : srv_end'[b] = "open" <=> Connected(b)'
      BY <1>3, <3>5 DEF DesktopInv, Connections, Connected
    <3>7. \A b \in App : srv_end'[b] \in {"none", "queued"} => inbox'[b] = <<>>
      BY <1>1, <1>3, <2>3 DEF DesktopInv, Connections
    <3> QED BY <1>3, <3>3, <3>4, <3>6, <3>7 DEF DesktopInv, Connections
  <2>9. Greeting(a)'
    BY <1>1, <1>3, <1>6, <2>2, <2>4, <2>5 DEF Greeting, Asked
  <2>10. \A i \in 1..Len(outbox'[a]) : outbox'[a][i].op # "WINDOW_DESTROY"
    BY <2>2, <2>4, <2>5
  <2>11. \A b \in App \ {a} : /\ app_end'[b] = app_end[b] /\ srv_end'[b] = srv_end[b]
                              /\ inbox'[b] = inbox[b] /\ outbox'[b] = outbox[b]
                              /\ pc'[b] = pc[b] /\ window_id'[b] = window_id[b]
    BY <1>3, <2>3
  <2>12. /\ pc'[a] = "unborn" \/ Launch[a] <= launches
         /\ pc'[a] \in {"unborn", "new", "refused"} => srv_end'[a] = "none" /\ outbox'[a] = <<>>
         /\ pc'[a] \in Talking => app_end'[a] = "open"
         /\ pc'[a] \in {"create", "present", "loop", "bye"} => srv_end'[a] \in {"open", "closed"}
         /\ pc'[a] = "create" => Creating(a)'
         /\ pc'[a] \in {"present", "loop"} /\ srv_end[a] = "open" => Holds(a, window_id'[a])
         /\ srv_end'[a] = "open" <=> srv_end[a] = "open"
    BY <1>1, <2>3 DEF Talking
  <2> QED BY <1>4, <1>5, <2>7, <2>8, <2>9, <2>10, <2>11, <2>12, AppStep
<1>8. CASE comp # "up"
  <2>1. /\ pc' = [pc EXCEPT ![a] = "refused"] /\ app_end' = app_end
        /\ srv_end' = srv_end /\ backlog' = backlog /\ outbox' = outbox
    BY <1>8 DEF Connect, Goto
  <2>2. /\ pc'[a] = "refused" /\ \A b \in App : b # a => pc'[b] = pc[b]
        /\ pc' \in [App -> Running \cup Ended \cup {"unborn"}]
    BY <1>2, <2>1 DEF Ended
  <2>3. TypeOK'
    BY <1>3, <2>1, <2>2 DEF DesktopInv, TypeOK
  <2>4. Connections'
    BY <1>3, <2>1, ConnectionsKept
  <2>5. \A i \in 1..Len(outbox'[a]) : outbox'[a][i].op # "WINDOW_DESTROY"
    BY <1>1, <2>1
  <2>6. \A b \in App \ {a} : /\ app_end'[b] = app_end[b] /\ srv_end'[b] = srv_end[b]
                             /\ inbox'[b] = inbox[b] /\ outbox'[b] = outbox[b]
                             /\ pc'[b] = pc[b] /\ window_id'[b] = window_id[b]
    BY <1>3, <2>1, <2>2
  <2>7. /\ pc'[a] = "unborn" \/ Launch[a] <= launches
        /\ pc'[a] \in {"unborn", "new", "refused"} => srv_end'[a] = "none" /\ outbox'[a] = <<>>
        /\ pc'[a] \in Talking => app_end'[a] = "open"
        /\ pc'[a] \in {"create", "present", "loop", "bye"} => srv_end'[a] \in {"open", "closed"}
        /\ pc'[a] = "hello" => Greeting(a)'
        /\ pc'[a] = "create" => Creating(a)'
        /\ pc'[a] \in {"present", "loop"} /\ srv_end[a] = "open" => Holds(a, window_id'[a])
        /\ srv_end'[a] = "open" <=> srv_end[a] = "open"
    BY <1>1, <2>1, <2>2 DEF Talking
  <2> QED BY <1>4, <1>5, <2>3, <2>4, <2>5, <2>6, <2>7, AppStep
<1> QED BY <1>7, <1>8

\* vyro_proto_send: what an app sends does not change its place among the connections.
LEMMA SentFacts ==
    ASSUME DesktopInv, NEW a \in App, NEW m, srv_end[a] # "closed" => m \in Message,
           Sent(a, m), CanSend(a)
    PROVE  /\ outbox' \in [App -> Seq(Message)] /\ (\A b \in App : Len(outbox'[b]) <= SOCKBUF)
           /\ \A b \in App : b # a => outbox'[b] = outbox[b]
           /\ \A i \in 1..Len(outbox'[a]) :
                 \/ i \in 1..Len(outbox[a]) /\ outbox'[a][i] = outbox[a][i]
                 \/ srv_end[a] # "closed" /\ outbox'[a][i] = m
           /\ srv_end[a] # "closed" /\ outbox[a] = <<>> =>
                 outbox'[a] # <<>> /\ Len(outbox'[a]) = 1 /\ Head(outbox'[a]) = m
           /\ srv_end[a] = "closed" => outbox' = outbox
<1>1. /\ outbox \in [App -> Seq(Message)] /\ (\A b \in App : Len(outbox[b]) <= SOCKBUF)
      /\ outbox[a] \in Seq(Message) /\ Len(outbox[a]) \in Nat
  BY LenProperties DEF DesktopInv, TypeOK
<1>2. CASE srv_end[a] = "closed"
  <2>1. outbox' = outbox
    BY <1>1, <1>2 DEF Sent
  <2> QED BY <1>1, <1>2, <2>1
<1>3. CASE srv_end[a] # "closed"
  <2>1. outbox' = [outbox EXCEPT ![a] = Append(outbox[a], m)] /\ Len(outbox[a]) < SOCKBUF
    BY <1>3 DEF Sent, CanSend
  <2>2. /\ Append(outbox[a], m) \in Seq(Message) /\ Len(Append(outbox[a], m)) = Len(outbox[a]) + 1
        /\ Append(outbox[a], m) # <<>>
        /\ \A i \in 1..Len(outbox[a]) : Append(outbox[a], m)[i] = outbox[a][i]
        /\ \A i \in 1..Len(outbox[a]) + 1 : i \in 1..Len(outbox[a]) \/ Append(outbox[a], m)[i] = m
        /\ Head(Append(outbox[a], m)) = IF outbox[a] = <<>> THEN m ELSE Head(outbox[a])
    BY <1>1, <1>3, Behind
  <2>3. outbox'[a] = Append(outbox[a], m) /\ \A b \in App : b # a => outbox'[b] = outbox[b]
    BY <1>1, <2>1
  <2>4. outbox' \in [App -> Seq(Message)]
    BY <1>1, <2>1, <2>2
  <2>5. \A b \in App : Len(outbox'[b]) <= SOCKBUF
    BY <1>1, <2>1, <2>2, <2>3
  <2>6. Len(<<>>) = 0
    BY EmptySeq
  <2> QED BY <1>1, <1>3, <2>2, <2>3, <2>4, <2>5, <2>6
<1> QED BY <1>2, <1>3

\* An app that has said HELLO asks for its window, unless the server is another version's.
LEMMA RecvHelloStep ==
    ASSUME DesktopInv, NEW a \in App, RecvHello(a), UNCHANGED <<serverVars, inputVars, initVars, comp, path>>
    PROVE  DesktopInv'
<1>1. /\ pc[a] = "hello" /\ inbox[a] # <<>> /\ inbox' = [inbox EXCEPT ![a] = Tail(inbox[a])]
      /\ srv_end' = srv_end /\ backlog' = backlog /\ window_id' = window_id
  BY DEF RecvHello, Receive
<1>2. CASE Head(inbox[a]).op = "HELLO_OK"
  <2> DEFINE m == [op |-> "WINDOW_CREATE"]
  <2>1. Sent(a, m) /\ pc' = [pc EXCEPT ![a] = "create"] /\ app_end' = app_end
    BY <1>2 DEF RecvHello, Goto
  <2>2. m \in Message /\ m.op = "WINDOW_CREATE"
    BY MessageFacts
  <2> HIDE DEF m
  <2>3. Answered(a) /\ Len(inbox[a]) = 1 /\ Windowless(a) /\ outbox[a] = <<>>
    BY <1>1 DEF DesktopInv, Handshake, Greeting, Asked, Answered
  <2>4. /\ inbox \in [App -> Seq(Message)] /\ (\A b \in App : Len(inbox[b]) <= SOCKBUF)
        /\ pc \in [App -> Running \cup Ended \cup {"unborn"}]
        /\ srv_end[a] \in {"none", "queued", "open", "closed"}
    BY DEF DesktopInv, TypeOK
  <2>5. /\ inbox' \in [App -> Seq(Message)] /\ (\A b \in App : Len(inbox'[b]) <= SOCKBUF)
        /\ \A b \in App : b # a => inbox'[b] = inbox[b]
        /\ inbox'[a] = <<>>
    BY <1>1, <2>3, <2>4, BoxTaken
  <2>6. srv_end[a] \in {"open", "closed"}
    BY <1>1, <2>4 DEF DesktopInv, Connections
  <2>7. CanSend(a)
    <3>1. Len(outbox[a]) = 0
      BY <2>3, EmptySeq
    <3> QED BY <3>1 DEF CanSend
  <2>8. /\ outbox' \in [App -> Seq(Message)] /\ (\A b \in App : Len(outbox'[b]) <= SOCKBUF)
        /\ \A b \in App : b # a => outbox'[b] = outbox[b]
        /\ \A i \in 1..Len(outbox'[a]) :
              \/ i \in 1..Len(outbox[a]) /\ outbox'[a][i] = outbox[a][i]
              \/ srv_end[a] # "closed" /\ outbox'[a][i] = m
        /\ srv_end[a] # "closed" /\ outbox[a] = <<>> =>
              outbox'[a] # <<>> /\ Len(outbox'[a]) = 1 /\ Head(outbox'[a]) = m
        /\ srv_end[a] = "closed" => outbox' = outbox
    BY <2>1, <2>2, <2>7, SentFacts
  <2>9. /\ pc'[a] = "create" /\ \A b \in App : b # a => pc'[b] = pc[b]
        /\ pc' \in [App -> Running \cup Ended \cup {"unborn"}]
    BY <2>1, <2>4 DEF Running
  <2>10. /\ launches' = launches /\ init_pc' = init_pc /\ comp' = comp /\ path' = path /\ dragging' = dragging
         /\ UNCHANGED <<serving, ready, clients, hello_done, windows, next_window, creator>>
    BY DEF initVars, inputVars, serverVars
  <2>11. TypeOK'
    BY <1>1, <2>1, <2>5, <2>8, <2>9, <2>10 DEF DesktopInv, TypeOK
  <2>12. Connections'
    BY <1>1, <2>5, <2>10, ConnectionsKept
  <2>13. Creating(a)'
    <3>1. Windowless(a)'
      BY <2>3, <2>10 DEF Windowless, Owns
    <3>2. CASE srv_end[a] = "closed"
      BY <1>1, <2>3, <2>5, <2>8, <3>2 DEF Creating
    <3>3. CASE srv_end[a] # "closed"
      BY <2>2, <2>3, <2>5, <2>8, <3>1, <3>3 DEF Creating, Asked
    <3> QED BY <3>2, <3>3
  <2>14. \A i \in 1..Len(outbox'[a]) : outbox'[a][i].op # "WINDOW_DESTROY"
    <3>1. Len(outbox[a]) = 0
      BY <2>3, EmptySeq
    <3> QED BY <2>2, <2>8, <3>1
  <2>15. Launch[a] <= launches /\ app_end[a] = "open"
    BY <1>1 DEF DesktopInv, Started, Talking
  <2>16. /\ pc'[a] = "unborn" \/ Launch[a] <= launches
         /\ pc'[a] \in {"unborn", "new", "refused"} => srv_end'[a] = "none" /\ outbox'[a] = <<>>
         /\ pc'[a] \in Talking => app_end'[a] = "open"
         /\ pc'[a] \in {"create", "present", "loop", "bye"} => srv_end'[a] \in {"open", "closed"}
         /\ pc'[a] = "hello" => Greeting(a)'
         /\ pc'[a] \in {"present", "loop"} /\ srv_end[a] = "open" => Holds(a, window_id'[a])
         /\ srv_end'[a] = "open" <=> srv_end[a] = "open"
    BY <1>1, <2>1, <2>6, <2>9, <2>15
  <2>17. \A i \in 1..Len(inbox'[a]) : \E j \in 1..Len(inbox[a]) : inbox'[a][i] = inbox[a][j]
    <3>1. Len(inbox'[a]) = 0
      BY <2>5, EmptySeq
    <3> QED BY <3>1
  <2>18. \A b \in App \ {a} : /\ app_end'[b] = app_end[b] /\ srv_end'[b] = srv_end[b]
                              /\ inbox'[b] = inbox[b] /\ outbox'[b] = outbox[b]
                              /\ pc'[b] = pc[b] /\ window_id'[b] = window_id[b]
    BY <1>1, <2>1, <2>5, <2>8, <2>9
  <2>19. UNCHANGED <<serverVars, launches>>
    BY <2>10
  <2> QED BY <2>11, <2>12, <2>13, <2>14, <2>16, <2>17, <2>18, <2>19, AppStep
<1>3. CASE Head(inbox[a]).op # "HELLO_OK"
  <2>1. Quit(a) /\ outbox' = outbox
    BY <1>3 DEF RecvHello
  <2> QED BY <1>1, <2>1, QuitStep
<1> QED BY <1>2, <1>3

\* An app that awaits its window gets one of its own, or ends.
LEMMA RecvWindowStep ==
    ASSUME DesktopInv, NEW a \in App, RecvWindow(a), UNCHANGED <<serverVars, inputVars, initVars, comp, path>>
    PROVE  DesktopInv'
<1>1. /\ pc[a] = "create" /\ inbox[a] # <<>> /\ inbox' = [inbox EXCEPT ![a] = Tail(inbox[a])]
      /\ srv_end' = srv_end /\ backlog' = backlog /\ outbox' = outbox
  BY DEF RecvWindow, Receive
<1>2. CASE Head(inbox[a]).op = "WINDOW_OK"
  <2>1. /\ window_id' = [window_id EXCEPT ![a] = Head(inbox[a]).id]
        /\ pc' = [pc EXCEPT ![a] = "present"] /\ app_end' = app_end
    BY <1>2 DEF RecvWindow, Goto
  <2>2. /\ inbox \in [App -> Seq(Message)] /\ (\A b \in App : Len(inbox[b]) <= SOCKBUF)
        /\ pc \in [App -> Running \cup Ended \cup {"unborn"}] /\ window_id \in [App -> Nat]
    BY DEF DesktopInv, TypeOK
  <2>3. /\ inbox' \in [App -> Seq(Message)] /\ (\A b \in App : Len(inbox'[b]) <= SOCKBUF)
        /\ \A b \in App : b # a => inbox'[b] = inbox[b]
        /\ \A i \in 1..Len(inbox'[a]) : i + 1 \in 1..Len(inbox[a]) /\ inbox'[a][i] = inbox[a][i + 1]
        /\ Head(inbox[a]) \in Message
    BY <1>1, <2>2, BoxTaken
  <2>4. Head(inbox[a]).id \in Nat
    BY <1>2, <2>3 DEF Message
  <2>5. /\ pc'[a] = "present" /\ window_id'[a] = Head(inbox[a]).id
        /\ \A b \in App : b # a => pc'[b] = pc[b] /\ window_id'[b] = window_id[b]
        /\ pc' \in [App -> Running \cup Ended \cup {"unborn"}] /\ window_id' \in [App -> Nat]
    BY <2>1, <2>2, <2>4 DEF Running
  <2>6. /\ launches' = launches /\ init_pc' = init_pc /\ comp' = comp /\ path' = path /\ dragging' = dragging
        /\ UNCHANGED <<serving, ready, clients, hello_done, windows, next_window, creator>>
    BY DEF initVars, inputVars, serverVars
  <2>7. TypeOK'
    BY <1>1, <2>1, <2>3, <2>5, <2>6 DEF DesktopInv, TypeOK
  <2>8. Connections'
    <3>1. \A b \in App : inbox[b] = <<>> => inbox'[b] = <<>>
      BY <1>1, <2>3
    <3> QED BY <1>1, <2>6, <3>1, ConnectionsKept
  <2>9. srv_end[a] = "open" => Holds(a, window_id'[a])
    <3>1. Creating(a)
      BY <1>1 DEF DesktopInv, Handshake
    <3>2. srv_end[a] = "open" => Holds(a, Head(inbox[a]).id)
      BY <1>1, <1>2, <3>1 DEF Creating, Asked
    <3> QED BY <2>5, <3>2
  <2>10. /\ Launch[a] <= launches /\ app_end[a] = "open" /\ srv_end[a] \in {"open", "closed"}
    BY <1>1 DEF DesktopInv, Started, Talking
  <2>11. /\ pc'[a] = "unborn" \/ Launch[a] <= launches
         /\ pc'[a] \in {"unborn", "new", "refused"} => srv_end'[a] = "none" /\ outbox'[a] = <<>>
         /\ pc'[a] \in Talking => app_end'[a] = "open"
         /\ pc'[a] \in {"create", "present", "loop", "bye"} => srv_end'[a] \in {"open", "closed"}
         /\ pc'[a] = "hello" => Greeting(a)'
         /\ pc'[a] = "create" => Creating(a)'
         /\ pc'[a] \in {"present", "loop"} /\ srv_end[a] = "open" => Holds(a, window_id'[a])
         /\ srv_end'[a] = "open" <=> srv_end[a] = "open"
    BY <1>1, <2>1, <2>5, <2>9, <2>10
  <2>12. \A i \in 1..Len(inbox'[a]) : \E j \in 1..Len(inbox[a]) : inbox'[a][i] = inbox[a][j]
    BY <2>3
  <2>13. \A i \in 1..Len(outbox'[a]) : outbox'[a][i].op # "WINDOW_DESTROY"
    BY <1>1 DEF DesktopInv, Farewell
  <2>14. \A b \in App \ {a} : /\ app_end'[b] = app_end[b] /\ srv_end'[b] = srv_end[b]
                              /\ inbox'[b] = inbox[b] /\ outbox'[b] = outbox[b]
                              /\ pc'[b] = pc[b] /\ window_id'[b] = window_id[b]
    BY <1>1, <2>1, <2>3, <2>5
  <2>15. UNCHANGED <<serverVars, launches>>
    BY <2>6
  <2> QED BY <2>7, <2>8, <2>11, <2>12, <2>13, <2>14, <2>15, AppStep
<1>3. CASE Head(inbox[a]).op # "WINDOW_OK"
  <2>1. Quit(a) /\ window_id' = window_id
    BY <1>3 DEF RecvWindow
  <2> QED BY <1>1, <2>1, QuitStep
<1> QED BY <1>2, <1>3

\* In its event loop an app redraws or skips what it is sent.
LEMMA RecvEventStep ==
    ASSUME DesktopInv, NEW a \in App, RecvEvent(a), UNCHANGED <<serverVars, inputVars, initVars, comp, path>>
    PROVE  DesktopInv'
<1>1. /\ pc[a] = "loop" /\ inbox[a] # <<>> /\ inbox' = [inbox EXCEPT ![a] = Tail(inbox[a])]
      /\ srv_end' = srv_end /\ backlog' = backlog /\ outbox' = outbox /\ app_end' = app_end /\ window_id' = window_id
      /\ pc' = pc \/ pc' = [pc EXCEPT ![a] = "present"]
  BY DEF RecvEvent, Receive, Goto
<1>2. /\ inbox \in [App -> Seq(Message)] /\ (\A b \in App : Len(inbox[b]) <= SOCKBUF)
      /\ pc \in [App -> Running \cup Ended \cup {"unborn"}]
  BY DEF DesktopInv, TypeOK
<1>3. /\ inbox' \in [App -> Seq(Message)] /\ (\A b \in App : Len(inbox'[b]) <= SOCKBUF)
      /\ \A b \in App : b # a => inbox'[b] = inbox[b]
      /\ \A i \in 1..Len(inbox'[a]) : i + 1 \in 1..Len(inbox[a]) /\ inbox'[a][i] = inbox[a][i + 1]
  BY <1>1, <1>2, BoxTaken
<1>4. /\ pc'[a] \in {"loop", "present"} /\ \A b \in App : b # a => pc'[b] = pc[b]
      /\ pc' \in [App -> Running \cup Ended \cup {"unborn"}]
  BY <1>1, <1>2 DEF Running
<1>5. /\ launches' = launches /\ init_pc' = init_pc /\ comp' = comp /\ path' = path /\ dragging' = dragging
      /\ UNCHANGED <<serving, ready, clients, hello_done, windows, next_window, creator>>
  BY DEF initVars, inputVars, serverVars
<1>6. TypeOK'
  BY <1>1, <1>3, <1>4, <1>5 DEF DesktopInv, TypeOK
<1>7. Connections'
  <2>1. \A b \in App : inbox[b] = <<>> => inbox'[b] = <<>>
    BY <1>1, <1>3
  <2> QED BY <1>1, <1>5, <2>1, ConnectionsKept
<1>8. /\ Launch[a] <= launches /\ app_end[a] = "open" /\ srv_end[a] \in {"open", "closed"}
      /\ srv_end[a] = "open" => Holds(a, window_id[a])
  BY <1>1 DEF DesktopInv, Started, Talking, WindowHeld, Holds, Owns
<1>9. /\ pc'[a] = "unborn" \/ Launch[a] <= launches
      /\ pc'[a] \in {"unborn", "new", "refused"} => srv_end'[a] = "none" /\ outbox'[a] = <<>>
      /\ pc'[a] \in Talking => app_end'[a] = "open"
      /\ pc'[a] \in {"create", "present", "loop", "bye"} => srv_end'[a] \in {"open", "closed"}
      /\ pc'[a] = "hello" => Greeting(a)'
      /\ pc'[a] = "create" => Creating(a)'
      /\ pc'[a] \in {"present", "loop"} /\ srv_end[a] = "open" => Holds(a, window_id'[a])
      /\ srv_end'[a] = "open" <=> srv_end[a] = "open"
  BY <1>1, <1>4, <1>8
<1>10. \A i \in 1..Len(inbox'[a]) : \E j \in 1..Len(inbox[a]) : inbox'[a][i] = inbox[a][j]
  BY <1>3
<1>11. \A i \in 1..Len(outbox'[a]) : outbox'[a][i].op # "WINDOW_DESTROY"
  BY <1>1 DEF DesktopInv, Farewell
<1>12. \A b \in App \ {a} : /\ app_end'[b] = app_end[b] /\ srv_end'[b] = srv_end[b]
                            /\ inbox'[b] = inbox[b] /\ outbox'[b] = outbox[b]
                            /\ pc'[b] = pc[b] /\ window_id'[b] = window_id[b]
  BY <1>1, <1>3, <1>4
<1>13. UNCHANGED <<serverVars, launches>>
  BY <1>5
<1> QED BY <1>6, <1>7, <1>9, <1>10, <1>11, <1>12, <1>13, AppStep

\* An app in its event loop sends a message about the window it holds.
LEMMA OwnWindowStep ==
    ASSUME DesktopInv, NEW a \in App, NEW op, NEW next,
           \/ op = "WINDOW_PRESENT" /\ pc[a] = "present" /\ next = "loop"
           \/ op = "WINDOW_DESTROY" /\ pc[a] = "loop" /\ next = "bye",
           CanSend(a), Sent(a, [op |-> op, id |-> window_id[a]]), Goto(a, next),
           UNCHANGED <<app_end, srv_end, backlog, inbox, window_id, serverVars, inputVars, initVars, comp, path>>
    PROVE  DesktopInv'
<1> DEFINE m == [op |-> op, id |-> window_id[a]]
<1>1. /\ Launch[a] <= launches /\ app_end[a] = "open" /\ srv_end[a] \in {"open", "closed"}
      /\ srv_end[a] = "open" => Holds(a, window_id[a])
  BY DEF DesktopInv, Started, Talking, WindowHeld, Holds, Owns
<1>2. srv_end[a] = "open" => window_id[a] \in 1..Len(creator) /\ creator[window_id[a]] = a
  <2> SUFFICES ASSUME srv_end[a] = "open"
               PROVE  window_id[a] \in 1..Len(creator) /\ creator[window_id[a]] = a
    OBVIOUS
  <2>1. PICK w \in Window : Owns(a, w) /\ windows[w].id = window_id[a]
    BY <1>1 DEF Holds
  <2>2. windows[w].in_use /\ clients[windows[w].owner] = a
    BY <2>1 DEF Owns
  <2> QED BY <2>1, <2>2 DEF DesktopInv, Identified, WindowsOwned
<1>3. m.op = op /\ m.id = window_id[a] /\ (srv_end[a] # "closed" => m \in Message)
  <2>1. Len(creator) \in Nat
    BY TypesOf DEF DesktopInv
  <2>2. srv_end[a] # "closed" => window_id[a] \in Nat \ {0}
    BY <1>1, <1>2, <2>1
  <2> QED BY <2>2, MessageFacts
<1>4. Sent(a, m)
  OBVIOUS
<1> HIDE DEF m
<1>5. /\ outbox' \in [App -> Seq(Message)] /\ (\A b \in App : Len(outbox'[b]) <= SOCKBUF)
      /\ \A b \in App : b # a => outbox'[b] = outbox[b]
      /\ \A i \in 1..Len(outbox'[a]) :
            \/ i \in 1..Len(outbox[a]) /\ outbox'[a][i] = outbox[a][i]
            \/ srv_end[a] # "closed" /\ outbox'[a][i] = m
  BY <1>3, <1>4, SentFacts
<1>6. pc \in [App -> Running \cup Ended \cup {"unborn"}]
  BY DEF DesktopInv, TypeOK
<1>7. /\ pc'[a] = next /\ next \in {"loop", "bye"} /\ \A b \in App : b # a => pc'[b] = pc[b]
      /\ pc' \in [App -> Running \cup Ended \cup {"unborn"}]
  <2>1. pc' = [pc EXCEPT ![a] = next] /\ next \in {"loop", "bye"}
    BY DEF Goto
  <2> QED BY <1>6, <2>1 DEF Running
<1>8. /\ app_end' = app_end /\ srv_end' = srv_end /\ backlog' = backlog /\ inbox' = inbox /\ window_id' = window_id
      /\ launches' = launches /\ init_pc' = init_pc /\ comp' = comp /\ path' = path /\ dragging' = dragging
      /\ UNCHANGED <<serving, ready, clients, hello_done, windows, next_window, creator>>
  BY DEF initVars, inputVars, serverVars
<1>9. TypeOK'
  BY <1>5, <1>7, <1>8 DEF DesktopInv, TypeOK
<1>10. Connections'
  BY <1>8, ConnectionsKept
<1>11. /\ pc'[a] = "unborn" \/ Launch[a] <= launches
       /\ pc'[a] \in {"unborn", "new", "refused"} => srv_end'[a] = "none" /\ outbox'[a] = <<>>
       /\ pc'[a] \in Talking => app_end'[a] = "open"
       /\ pc'[a] \in {"create", "present", "loop", "bye"} => srv_end'[a] \in {"open", "closed"}
       /\ pc'[a] = "hello" => Greeting(a)'
       /\ pc'[a] = "create" => Creating(a)'
       /\ pc'[a] \in {"present", "loop"} /\ srv_end[a] = "open" => Holds(a, window_id'[a])
       /\ srv_end'[a] = "open" <=> srv_end[a] = "open"
  BY <1>1, <1>7, <1>8
<1>12. \A i \in 1..Len(inbox'[a]) : \E j \in 1..Len(inbox[a]) : inbox'[a][i] = inbox[a][j]
  BY <1>8
<1>13. \A i \in 1..Len(outbox'[a]) :
          outbox'[a][i].op = "WINDOW_DESTROY" =>
             /\ pc'[a] \in {"bye", "gone"} /\ srv_end'[a] \in {"open", "closed"}
             /\ srv_end'[a] = "open" => outbox'[a][i].id \in 1..Len(creator) /\ creator[outbox'[a][i].id] = a
  <2>1. \A i \in 1..Len(outbox[a]) : outbox[a][i].op # "WINDOW_DESTROY"
    BY DEF DesktopInv, Farewell
  <2> SUFFICES ASSUME NEW i \in 1..Len(outbox'[a]), outbox'[a][i].op = "WINDOW_DESTROY"
               PROVE  /\ pc'[a] \in {"bye", "gone"} /\ srv_end'[a] \in {"open", "closed"}
                      /\ srv_end'[a] = "open" => outbox'[a][i].id \in 1..Len(creator) /\ creator[outbox'[a][i].id] = a
    OBVIOUS
  <2>2. outbox'[a][i] = m
    BY <1>5, <2>1
  <2>3. op = "WINDOW_DESTROY" /\ pc'[a] = "bye"
    BY <1>3, <1>7, <2>2
  <2> QED BY <1>1, <1>2, <1>3, <1>8, <2>2, <2>3
<1>14. \A b \in App \ {a} : /\ app_end'[b] = app_end[b] /\ srv_end'[b] = srv_end[b]
                            /\ inbox'[b] = inbox[b] /\ outbox'[b] = outbox[b]
                            /\ pc'[b] = pc[b] /\ window_id'[b] = window_id[b]
  BY <1>5, <1>7, <1>8
<1>15. UNCHANGED <<serverVars, launches>>
  BY <1>8
<1> QED BY <1>9, <1>10, <1>11, <1>12, <1>13, <1>14, <1>15, AppStep

LEMMA RunsStep ==
    ASSUME DesktopInv, NEW a \in App, Runs(a) \/ Leaves(a)
    PROVE  DesktopInv'
<1>1. UNCHANGED <<serverVars, inputVars, initVars, comp, path>>
  BY DEF Runs, Leaves
<1>2. CASE Connect(a)
  BY <1>1, <1>2, ConnectStep
<1>3. CASE RecvHello(a)
  BY <1>1, <1>3, RecvHelloStep
<1>4. CASE RecvWindow(a)
  BY <1>1, <1>4, RecvWindowStep
<1>5. CASE Present(a)
  BY <1>1, <1>5, OwnWindowStep DEF Present
<1>6. CASE RecvEvent(a)
  BY <1>1, <1>6, RecvEventStep
<1>7. CASE HangUp(a)
  <2>1. /\ Quit(a) /\ pc[a] \notin {"unborn", "new", "refused"} /\ inbox' = inbox
        /\ UNCHANGED <<srv_end, backlog, outbox, window_id>>
    BY <1>7 DEF HangUp
  <2> QED BY <1>1, <2>1, QuitStep
<1>8. CASE Destroy(a)
  BY <1>1, <1>8, OwnWindowStep DEF Destroy
<1>9. CASE Exit(a)
  <2>1. /\ Quit(a) /\ pc[a] \notin {"unborn", "new", "refused"} /\ inbox' = inbox
        /\ UNCHANGED <<srv_end, backlog, outbox, window_id>>
    BY <1>9 DEF Exit
  <2> QED BY <1>1, <2>1, QuitStep
<1> QED BY <1>2, <1>3, <1>4, <1>5, <1>6, <1>7, <1>8, <1>9 DEF Runs, Leaves

----------------------------------------------------------------------------
(* The invariant holds in every reachable state.                           *)

LEMMA DesktopBegins == Init => DesktopInv
<1> SUFFICES ASSUME Init PROVE DesktopInv
  OBVIOUS
<1>1. /\ serving = FALSE /\ ready = {} /\ clients = [s \in Slot |-> NoApp] /\ hello_done = [s \in Slot |-> FALSE]
      /\ windows = [w \in Window |-> Free] /\ next_window = 1 /\ creator = <<>> /\ dragging = NoWindow
      /\ app_end = [a \in App |-> "none"] /\ srv_end = [a \in App |-> "none"] /\ backlog = <<>>
      /\ inbox = [a \in App |-> <<>>] /\ outbox = [a \in App |-> <<>>]
      /\ init_pc = "spawn" /\ comp = "none" /\ path = FALSE /\ launches = 0
      /\ pc = [a \in App |-> "unborn"] /\ window_id = [a \in App |-> 0]
  BY DEF Init, CompInit, ServerInit
<1>2. /\ <<>> \in Seq(Message) /\ <<>> \in Seq(App) /\ Len(<<>>) = 0
  BY EmptySeq
<1>3. Free \in [in_use : BOOLEAN, owner : Slot, id : Nat] /\ Free.in_use = FALSE
  BY DEF Free, Slot
<1>4. /\ inbox \in [App -> Seq(Message)] /\ outbox \in [App -> Seq(Message)]
      /\ \A a \in App : inbox[a] = <<>> /\ outbox[a] = <<>> /\ srv_end[a] = "none" /\ pc[a] = "unborn"
  BY <1>1, <1>2
<1>5. \A a \in App : Len(inbox[a]) = 0 /\ Len(outbox[a]) = 0
  BY <1>2, <1>4
<1>6. /\ clients \in [Slot -> App \cup {NoApp}] /\ hello_done \in [Slot -> BOOLEAN]
      /\ windows \in [Window -> [in_use : BOOLEAN, owner : Slot, id : Nat]]
      /\ \A w \in Window : ~windows[w].in_use
      /\ \A s \in Slot : clients[s] = NoApp /\ ~hello_done[s]
  BY <1>1, <1>3
<1>7. /\ app_end \in [App -> {"none", "open", "closed"}] /\ srv_end \in [App -> {"none", "queued", "open", "closed"}]
      /\ pc \in [App -> Running \cup Ended \cup {"unborn"}] /\ window_id \in [App -> Nat]
      /\ ready \subseteq Slot /\ serving \in BOOLEAN /\ path \in BOOLEAN /\ next_window \in Nat
      /\ dragging \in Window \cup {NoWindow} /\ backlog \in Seq(App) /\ creator \in Seq(App)
      /\ init_pc \in {"spawn", "wait", "session", "reap"}
      /\ comp \in {"none", "starting", "unlinked", "bound", "up", "dead"}
  BY <1>1, <1>2
<1>8. TypeOK
  BY <1>4, <1>5, <1>6, <1>7 DEF TypeOK
<1>9. Connections
  <2>1. \A a \in App : ~Connected(a)
    BY <1>6 DEF Connected
  <2>2. Len(backlog) = 0
    BY <1>1, <1>2
  <2> QED BY <1>1, <1>4, <1>6, <2>1, <2>2 DEF Connections
<1>10. Identified /\ WindowsOwned
  BY <1>1, <1>2, <1>6 DEF Identified, WindowsOwned
<1>11. Started /\ Handshake /\ WindowHeld
  BY <1>1, <1>4 DEF Started, Handshake, WindowHeld, Talking
<1>12. Farewell /\ EventIds /\ EventsForCreator
  BY <1>5 DEF Farewell, EventIds, EventsForCreator
<1> QED BY <1>8, <1>9, <1>10, <1>11, <1>12 DEF DesktopInv

LEMMA DesktopStep ==
    ASSUME DesktopInv, [Next]_vars
    PROVE  DesktopInv'
<1>1. CASE Session
  BY <1>1, SessionStep, LaunchStep DEF Session
<1>2. CASE Start
  BY <1>2, StartStep
<1>3. CASE Crash
  BY <1>3, CrashStep
<1>4. CASE Serves
  <2>1. MainLoop /\ UNCHANGED <<initVars, comp, path, appVars>>
    BY <1>4 DEF Serves
  <2> QED BY <2>1, PollStep, ServeStep, InputStep DEF MainLoop
<1>5. CASE \E a \in App : Runs(a) \/ Leaves(a)
  BY <1>5, RunsStep
<1>6. CASE UNCHANGED vars
  <2>1. UNCHANGED <<app_end, srv_end, backlog, inbox, outbox, serving, ready, clients, hello_done, windows, next_window,
                    creator, dragging, init_pc, launches, comp, path, pc, window_id>>
    BY <1>6 DEF vars, compVars, sockVars, serverVars, inputVars, initVars, appVars
  <2>2. TypeOK'
    BY <2>1 DEF DesktopInv, TypeOK
  <2> QED BY <2>1, <2>2, Unaffected
<1> QED BY <1>1, <1>2, <1>3, <1>4, <1>5, <1>6 DEF Next

\* The tables of the server, the connections and the apps agree in every reachable state.
THEOREM DesktopInvariance == Spec => []DesktopInv
<1>1. Init => DesktopInv
  BY DesktopBegins
<1>2. DesktopInv /\ [Next]_vars => DesktopInv'
  BY DesktopStep
<1> QED BY <1>1, <1>2, PTL DEF Spec

\* A window in use belongs to the connected client that created it, through every order of
\* accepts, crashes, destructions and reuse of slots (alloc_window, drop_client).
THEOREM WindowsAreOwned == Spec => []WindowsOwned
<1>1. DesktopInv => WindowsOwned
  BY DEF DesktopInv
<1> QED BY <1>1, DesktopInvariance, PTL

\* Input reaches the client that created the window under the cursor (input.c send_event).
THEOREM EventsReachCreator == Spec => []EventsForCreator
<1>1. DesktopInv => EventsForCreator
  BY DEF DesktopInv
<1> QED BY <1>1, DesktopInvariance, PTL

\* While its connection lasts, an app in its event loop has the window it presents to.
THEOREM WindowIsHeld == Spec => []WindowHeld
<1>1. DesktopInv => WindowHeld
  BY DEF DesktopInv
<1> QED BY <1>1, DesktopInvariance, PTL

\* Every connection the server holds open is in one slot of g_clients, and no other is in any.
THEOREM SlotIsOne == Spec => []OneSlot
<1>1. DesktopInv => OneSlot
  <2> SUFFICES ASSUME DesktopInv, NEW a \in App
               PROVE  Cardinality({s \in Slot : clients[s] = a}) = (IF srv_end[a] = "open" THEN 1 ELSE 0)
    BY DEF OneSlot
  <2>1. a # NoApp
    OBVIOUS
  <2>2. CASE srv_end[a] = "open"
    <3>1. PICK s \in Slot : clients[s] = a
      BY <2>2 DEF DesktopInv, Connections, Connected
    <3>2. {t \in Slot : clients[t] = a} = {s}
      BY <2>1, <3>1 DEF DesktopInv, Connections
    <3> QED BY <2>2, <3>2, FS_Singleton
  <2>3. CASE srv_end[a] # "open"
    <3>1. {t \in Slot : clients[t] = a} = {}
      BY <2>3 DEF DesktopInv, Connections, Connected
    <3> QED BY <2>3, <3>1, FS_EmptySet
  <2> QED BY <2>2, <2>3
<1> QED BY <1>1, DesktopInvariance, PTL

\* The first message an app gets after WINDOW_CREATE is the reply, never an event.
THEOREM RepliesComeFirst == Spec => []ReplyFirst
<1>1. DesktopInv => ReplyFirst
  BY DEF DesktopInv, Handshake, Creating, Asked, Answered, ReplyFirst
<1> QED BY <1>1, DesktopInvariance, PTL
=============================================================================
