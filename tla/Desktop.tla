------------------------------- MODULE Desktop -------------------------------
(***************************************************************************)
(* Path B as a whole: vyro-init (path-b-linux-core/init/init.c) starts the *)
(* compositor, waits for its socket, launches the session's apps, and      *)
(* respawns the compositor when it dies; the apps (apps/*/src/main.c) run  *)
(* the protocol's handshake and then their event loop.                     *)
(***************************************************************************)
EXTENDS Compositor

CONSTANTS
    Launch,         \* [App -> Nat]: the run of spawn_session that starts the app
    OldApps,        \* the apps built for another VYRO_PROTO_VERSION
    MaxCrash        \* bound on the compositor's deaths and on failed forks

ASSUME DesktopAssumption ==
    /\ Launch \in [App -> Nat \ {0}]
    /\ OldApps \subseteq App
    /\ MaxCrash \in Nat

VARIABLES
    init_pc,    \* where vyro-init's main is: "spawn", "wait", "session", "reap"
    comp,       \* g_compositor's process: "none" (not forked), "starting", "unlinked",
                \* "bound", "up", or "dead" and not yet reaped
    path,       \* SOCKET_PATH exists
    launches,   \* runs of spawn_session so far
    crashes,    \* deaths and failed forks so far
    pc,         \* where each app's main is
    window_id   \* the apps' g_window_id

initVars == <<init_pc, launches, crashes>>
appVars  == <<pc, window_id>>
vars     == <<compVars, initVars, comp, path, appVars>>

Running == {"new", "hello", "create", "present", "loop", "bye"}
Ended   == {"refused", "gone"}

----------------------------------------------------------------------------
(* vyro-init.                                                              *)

\* spawn_compositor; fork may fail.
SpawnCompositor ==
    /\ init_pc = "spawn"
    /\ init_pc' = "wait"
    /\ \/ comp' = "starting" /\ UNCHANGED crashes
       \/ comp' = "none" /\ crashes < MaxCrash /\ crashes' = crashes + 1
    /\ UNCHANGED <<compVars, path, launches, appVars>>

\* wait_for_socket: stat(2) finds the path, or ten seconds have passed.
SocketSeen ==
    /\ init_pc = "wait"
    /\ path
    /\ init_pc' = "session"
    /\ UNCHANGED <<compVars, comp, path, launches, crashes, appVars>>

SocketTimeout ==
    /\ init_pc = "wait"
    /\ ~path
    /\ init_pc' = "reap"
    /\ UNCHANGED <<compVars, comp, path, launches, crashes, appVars>>

\* spawn_session
SpawnSession ==
    /\ init_pc = "session"
    /\ init_pc'  = "reap"
    /\ launches' = launches + 1
    /\ pc' = [a \in App |-> IF Launch[a] = launches + 1 THEN "new" ELSE pc[a]]
    /\ UNCHANGED <<compVars, comp, path, crashes, window_id>>

\* Mutant of Respawns: only the death of the compositor it knows leads to another.
RespawnsKnown == comp = "dead"

\* wait(2) returns the compositor, or fails with ECHILD: no child is left.
\* The end of a session child changes nothing.
Respawns == comp = "dead" \/ (comp = "none" /\ \A a \in App : pc[a] \notin Running)

Reap ==
    /\ init_pc = "reap"
    /\ Respawns
    /\ init_pc' = "spawn"
    /\ comp'    = "none"
    /\ UNCHANGED <<compVars, path, launches, crashes, appVars>>

----------------------------------------------------------------------------
(* The compositor's process.                                               *)

\* vyro_server_init: unlink, bind, listen.
Start ==
    /\ \/ comp = "starting" /\ comp' = "unlinked" /\ path' = FALSE /\ UNCHANGED serving
       \/ comp = "unlinked" /\ comp' = "bound" /\ path' = TRUE /\ UNCHANGED serving
       \/ comp = "bound" /\ comp' = "up" /\ serving' = TRUE /\ UNCHANGED path
    /\ UNCHANGED <<sockVars, ready, clients, hello_done, windows, next_window, creator,
                   inputVars, initVars, appVars>>

\* The compositor exits (no display, a poll(2) interrupted by a signal, a
\* crash): the kernel closes its sockets; the path stays.
Crash ==
    /\ comp \in {"starting", "unlinked", "bound", "up"}
    /\ crashes < MaxCrash
    /\ crashes' = crashes + 1
    /\ comp'    = "dead"
    /\ ServerEnds
    /\ UNCHANGED <<app_end, inbox, outbox, events, init_pc, launches, path, appVars>>

Serves == MainLoop /\ UNCHANGED <<initVars, comp, path, appVars>>

----------------------------------------------------------------------------
(* The apps.                                                               *)

\* vyro_proto_send: it blocks while the buffer is full; an error is ignored.
CanSend(a)    == srv_end[a] = "closed" \/ Len(outbox[a]) < SOCKBUF
Sent(a, m)    == outbox' = [outbox EXCEPT ![a] = IF srv_end[a] = "closed" THEN @ ELSE Append(@, m)]
Goto(a, l)    == pc' = [pc EXCEPT ![a] = l]
\* return from main: the connection's end is closed.
Quit(a)       == Goto(a, "gone") /\ app_end' = [app_end EXCEPT ![a] = "closed"]

\* vyro_proto_connect, and the HELLO.
Connect(a) ==
    /\ pc[a] = "new"
    /\ IF comp = "up"
       THEN /\ Goto(a, "hello")
            /\ app_end' = [app_end EXCEPT ![a] = "open"]
            /\ srv_end' = [srv_end EXCEPT ![a] = "queued"]
            /\ backlog' = Append(backlog, a)
            /\ outbox'  = [outbox EXCEPT ![a] = <<[op |-> "HELLO", version_ok |-> a \notin OldApps]>>]
       ELSE /\ Goto(a, "refused")
            /\ UNCHANGED <<app_end, srv_end, backlog, outbox>>
    /\ UNCHANGED <<inbox, window_id>>

\* vyro_proto_recv of one message; anything but the awaited reply ends the app.
Receive(a) == inbox[a] # <<>> /\ inbox' = [inbox EXCEPT ![a] = Tail(@)]

RecvHello(a) ==
    /\ pc[a] = "hello"
    /\ Receive(a)
    /\ IF Head(inbox[a]).op = "HELLO_OK"
       THEN Sent(a, [op |-> "WINDOW_CREATE"]) /\ Goto(a, "create") /\ UNCHANGED app_end
       ELSE Quit(a) /\ UNCHANGED outbox
    /\ UNCHANGED <<srv_end, backlog, window_id>>

RecvWindow(a) ==
    /\ pc[a] = "create"
    /\ Receive(a)
    /\ IF Head(inbox[a]).op = "WINDOW_OK"
       THEN /\ window_id' = [window_id EXCEPT ![a] = Head(inbox[a]).id]
            /\ Goto(a, "present")
            /\ UNCHANGED app_end
       ELSE Quit(a) /\ UNCHANGED window_id
    /\ UNCHANGED <<srv_end, backlog, outbox>>

\* render(); present();
Present(a) ==
    /\ pc[a] = "present"
    /\ CanSend(a)
    /\ Sent(a, [op |-> "WINDOW_PRESENT", id |-> window_id[a]])
    /\ Goto(a, "loop")
    /\ UNCHANGED <<app_end, srv_end, backlog, inbox, window_id>>

\* The event loop: an event redraws the window or does not; whatever is not
\* an event is skipped.
RecvEvent(a) ==
    /\ pc[a] = "loop"
    /\ Receive(a)
    /\ \/ UNCHANGED pc
       \/ Head(inbox[a]).op = "EVENT" /\ Goto(a, "present")
    /\ UNCHANGED <<app_end, srv_end, backlog, outbox, window_id>>

\* A client may destroy its window before it leaves (docs/PROTOCOL.md).
Destroy(a) ==
    /\ pc[a] = "loop"
    /\ CanSend(a)
    /\ Sent(a, [op |-> "WINDOW_DESTROY", id |-> window_id[a]])
    /\ Goto(a, "bye")
    /\ UNCHANGED <<app_end, srv_end, backlog, inbox, window_id>>

\* The connection has been closed: recv fails, at once if the server left
\* messages unread.
HangUp(a) ==
    /\ pc[a] \in {"hello", "create", "loop"}
    /\ srv_end[a] = "closed"
    /\ inbox[a] = <<>> \/ outbox[a] # <<>>
    /\ Quit(a)
    /\ UNCHANGED <<srv_end, backlog, inbox, outbox, window_id>>

\* The user presses ESC, or the app dies.
Exit(a) ==
    /\ pc[a] \in {"hello", "create", "present", "loop", "bye"}
    /\ Quit(a)
    /\ UNCHANGED <<srv_end, backlog, inbox, outbox, window_id>>

\* The steps an app takes without a user.
Runs(a) ==
    /\ Connect(a) \/ RecvHello(a) \/ RecvWindow(a) \/ Present(a) \/ RecvEvent(a) \/ HangUp(a)
    /\ UNCHANGED <<serverVars, inputVars, initVars, comp, path>>

Leaves(a) ==
    /\ Destroy(a) \/ Exit(a)
    /\ UNCHANGED <<serverVars, inputVars, initVars, comp, path>>

----------------------------------------------------------------------------

Init ==
    /\ CompInit
    /\ init_pc   = "spawn"
    /\ comp      = "none"
    /\ path      = FALSE
    /\ launches  = 0
    /\ crashes   = 0
    /\ pc        = [a \in App |-> "unborn"]
    /\ window_id = [a \in App |-> 0]

Session == SpawnCompositor \/ SocketSeen \/ SocketTimeout \/ SpawnSession \/ Reap

Next ==
    \/ Session
    \/ Start
    \/ Crash
    \/ Serves
    \/ \E a \in App : Runs(a) \/ Leaves(a)

\* Every process runs: vyro-init, the compositor's start and its main loop,
\* in which libinput's queue is finite, and the apps.
Fairness ==
    /\ WF_vars(Session)
    /\ WF_vars(Start)
    /\ WF_vars(Serves)
    /\ \A a \in App : WF_vars(Runs(a))

Spec == Init /\ [][Next]_vars /\ Fairness

----------------------------------------------------------------------------
(* Properties.                                                             *)

Message ==
    [op : {"HELLO"}, version_ok : BOOLEAN]
    \cup [op : {"HELLO_OK", "ERROR", "WINDOW_CREATE"}]
    \cup [op : {"WINDOW_OK", "WINDOW_DESTROY", "WINDOW_PRESENT", "EVENT"}, id : Nat \ {0}]

\* Every variable has its type; no socket buffer holds more than it may.
TypeOK ==
    /\ app_end \in [App -> {"none", "open", "closed"}]
    /\ srv_end \in [App -> {"none", "queued", "open", "closed"}]
    /\ backlog \in Seq(App)
    /\ inbox \in [App -> Seq(Message)] /\ outbox \in [App -> Seq(Message)]
    /\ \A a \in App : Len(inbox[a]) <= SOCKBUF /\ Len(outbox[a]) <= SOCKBUF
    /\ serving \in BOOLEAN
    /\ ready \subseteq Slot
    /\ clients \in [Slot -> App \cup {NoApp}]
    /\ hello_done \in [Slot -> BOOLEAN]
    /\ windows \in [Window -> [in_use : BOOLEAN, owner : Slot, id : Nat]]
    /\ next_window \in Nat
    /\ dragging \in Window \cup {NoWindow}
    /\ creator \in Seq(App)
    /\ init_pc \in {"spawn", "wait", "session", "reap"}
    /\ comp \in {"none", "starting", "unlinked", "bound", "up", "dead"}
    /\ path \in BOOLEAN
    /\ pc \in [App -> Running \cup Ended \cup {"unborn"}]
    /\ window_id \in [App -> Nat]

\* The two tables of server.c agree, through every order of accepts, crashes
\* of clients, destructions and reuse of slots: a window in use belongs to a
\* slot whose client is connected, has said HELLO, and created this window.
WindowsOwned ==
    \A w \in Window :
        windows[w].in_use =>
            /\ hello_done[windows[w].owner]
            /\ clients[windows[w].owner] = creator[windows[w].id]

\* A connection the server holds open is in exactly one slot, and a slot's
\* client is connected: no slot is given to two clients, none leaks.
OneSlot ==
    \A a \in App :
        Cardinality({s \in Slot : clients[s] = a}) = (IF srv_end[a] = "open" THEN 1 ELSE 0)

\* An app in its event loop presents to a window that exists and is its own,
\* until the connection breaks.
WindowHeld ==
    \A a \in App :
        pc[a] \in {"present", "loop"} /\ srv_end[a] = "open" =>
            \E w \in Window :
                /\ windows[w].in_use
                /\ windows[w].id = window_id[a]
                /\ clients[windows[w].owner] = a

\* Input goes to the client that created the window under the cursor, also
\* when slots of clients and windows have been reused since.
EventsForCreator ==
    \A a \in App : \A i \in 1 .. Len(inbox[a]) :
        inbox[a][i].op = "EVENT" /\ srv_end[a] = "open" => creator[inbox[a][i].id] = a

\* No event overtakes the reply to WINDOW_CREATE (an app that sees anything
\* else in its place exits), and full buffers never cost an app a reply.
ReplyFirst ==
    \A a \in App :
        pc[a] = "create" /\ inbox[a] # <<>> => Head(inbox[a]).op \in {"WINDOW_OK", "ERROR"}

\* An app is not left waiting in the handshake, whatever the compositor does:
\* it is answered, turned away, or sees the connection close.
HandshakeEnds ==
    \A a \in App : (pc[a] \in {"hello", "create"}) ~> (pc[a] \notin {"hello", "create"})

\* The windows of an app that is gone go.
WindowsReclaimed ==
    \A a \in App :
        (pc[a] = "gone") ~> \A w \in Window : windows[w].in_use => creator[windows[w].id] # a

\* vyro-init brings the compositor back, as init.c:11 says, also after a fork
\* that failed.
CompositorReturns == (comp \in {"dead", "none"}) ~> (comp = "up")

\* init.c:63-64: init waits until the compositor's listening socket appears,
\* so that the autostart apps do not race the server.  At the least, the
\* compositor it has just spawned is past the removal of the old socket.
NoRace == [][SpawnSession => comp # "starting"]_vars
=============================================================================
