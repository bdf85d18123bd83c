----------------------------- MODULE Compositor ------------------------------
(***************************************************************************)
(* The display server of Path B: path-b-linux-core/compositor-drm, server.c*)
(* and input.c, and the SOCK_SEQPACKET connections its clients have to it. *)
(*                                                                         *)
(* A client is named by its process.  Geometry is abstracted: the cursor   *)
(* is over any window in use, on its title bar or its content, or over     *)
(* none.  An event's payload is left out; it carries the id of the window  *)
(* the hit test found, which properties read and the code does not send.   *)
(***************************************************************************)
EXTENDS Integers, Sequences, FiniteSets

CONSTANTS
    App,            \* the client processes
    MAX_CLIENTS, MAX_WINDOWS,
    SOCKBUF,        \* messages a socket buffer holds
    MaxEvents       \* bound on the input events of a run

Slot   == 0 .. MAX_CLIENTS - 1
Window == 0 .. MAX_WINDOWS - 1

NoApp    == "none"      \* clients[i].fd < 0
NoWindow == -1          \* g_dragging_window

ASSUME CompositorAssumption ==
    /\ NoApp \notin App
    /\ MAX_CLIENTS \in Nat \ {0}
    /\ MAX_WINDOWS \in Nat \ {0}
    /\ SOCKBUF \in Nat \ {0}
    /\ MaxEvents \in Nat

VARIABLES
    \* The connections (kernel).
    app_end,        \* [App -> {"none", "open", "closed"}]: the client's end
    srv_end,        \* [App -> {"none", "queued", "open", "closed"}]: the server's end
    backlog,        \* connections not yet accepted, in order
    inbox, outbox,  \* [App -> Seq]: messages to and from the client
    \* server.c
    serving,        \* the compositor's main loop runs
    ready,          \* slots that poll(2) reported and the tick has not served yet
    clients,        \* [Slot -> App or NoApp]: clients[i].fd
    hello_done,     \* [Slot -> BOOLEAN]
    windows,        \* [Window -> [in_use, owner, id]]
    next_window,    \* g_next_window
    \* input.c
    dragging,       \* g_dragging_window
    \* History variables, read by properties only.
    events,         \* input events so far
    creator         \* [window ids so far -> App]

sockVars   == <<app_end, srv_end, backlog, inbox, outbox>>
serverVars == <<serving, ready, clients, hello_done, windows, next_window, creator>>
inputVars  == <<dragging, events>>
compVars   == <<sockVars, serverVars, inputVars>>

Free == [in_use |-> FALSE, owner |-> 0, id |-> 0]

----------------------------------------------------------------------------
(* The connections.                                                        *)

\* sendmsg on the server's non-blocking end: a message to a full buffer or a
\* closed peer is dropped, and every caller ignores the error.
Delivered(a, m) ==
    IF app_end[a] = "open" /\ Len(inbox[a]) < SOCKBUF THEN Append(inbox[a], m) ELSE inbox[a]

SendTo(a, m) == inbox' = [inbox EXCEPT ![a] = Delivered(a, m)]

\* Mutant of Readable: a hang-up is not looked at.
ReadableMessages(a) == outbox[a] # <<>>

\* What poll(2) reports of a client's connection: a message or a hang-up.
Readable(a) == outbox[a] # <<>> \/ app_end[a] = "closed"

----------------------------------------------------------------------------
(* server.c                                                                *)

\* Mutant of FreeSlots: a client that has not said HELLO does not count.
FreeSlotsByHello == {s \in Slot : ~hello_done[s]}

\* alloc_window, find_free_client: the first free entry.
FreeWindows == {w \in Window : ~windows[w].in_use}
FreeSlots   == {s \in Slot : clients[s] = NoApp}
First(S)    == CHOOSE x \in S : \A y \in S : x <= y

\* Mutant of Named: the first window in use.
AnyNamed(id) == {w \in Window : windows[w].in_use}

\* find_window
Named(id) == {w \in Window : windows[w].in_use /\ windows[w].id = id}

\* Mutant of Disowned: the windows stay behind.
StillOwned(s) == windows

\* drop_client's loop over the windows.
Disowned(s) == [w \in Window |-> IF windows[w].in_use /\ windows[w].owner = s
                                 THEN [windows[w] EXCEPT !.in_use = FALSE] ELSE windows[w]]

\* drop_client: the fields of client_t but fd and hello_done are left alone.
Drop(s) ==
    /\ srv_end'    = [srv_end EXCEPT ![clients[s]] = "closed"]
    /\ clients'    = [clients EXCEPT ![s] = NoApp]
    /\ hello_done' = [hello_done EXCEPT ![s] = FALSE]
    /\ windows'    = Disowned(s)
    /\ UNCHANGED <<inbox, outbox, next_window, creator>>

\* handle_hello
Hello(s, m) ==
    LET a == clients[s] IN
    /\ m.op = "HELLO"
    /\ IF m.version_ok
       THEN /\ hello_done' = [hello_done EXCEPT ![s] = TRUE]
            /\ SendTo(a, [op |-> "HELLO_OK"])
       ELSE /\ SendTo(a, [op |-> "ERROR"])
            /\ UNCHANGED hello_done
    /\ UNCHANGED <<windows, next_window, creator>>

MayCreate(s) == hello_done[s] /\ FreeWindows # {}

\* Mutant of WindowCreate: the client is not answered.
WindowCreateSilently(s, m) ==
    /\ m.op = "WINDOW_CREATE"
    /\ IF MayCreate(s)
       THEN /\ windows'     = [windows EXCEPT ![First(FreeWindows)] =
                                 [in_use |-> TRUE, owner |-> s, id |-> next_window]]
            /\ next_window' = next_window + 1
            /\ creator'     = Append(creator, clients[s])
       ELSE UNCHANGED <<windows, next_window, creator>>
    /\ UNCHANGED <<inbox, hello_done>>

\* handle_window_create, alloc_window
WindowCreate(s, m) ==
    /\ m.op = "WINDOW_CREATE"
    /\ IF MayCreate(s)
       THEN /\ windows'     = [windows EXCEPT ![First(FreeWindows)] =
                                 [in_use |-> TRUE, owner |-> s, id |-> next_window]]
            /\ next_window' = next_window + 1
            /\ creator'     = Append(creator, clients[s])
            /\ SendTo(clients[s], [op |-> "WINDOW_OK", id |-> next_window])
       ELSE /\ SendTo(clients[s], [op |-> "ERROR"])
            /\ UNCHANGED <<windows, next_window, creator>>
    /\ UNCHANGED hello_done

\* handle_window_destroy
WindowDestroy(s, m) ==
    /\ m.op = "WINDOW_DESTROY"
    /\ IF Named(m.id) # {}
       THEN /\ windows' = [windows EXCEPT ![First(Named(m.id))].in_use = FALSE]
            /\ UNCHANGED inbox
       ELSE /\ SendTo(clients[s], [op |-> "ERROR"])
            /\ UNCHANGED windows
    /\ UNCHANGED <<hello_done, next_window, creator>>

\* handle_window_present: the blit, or an error if there is no such window or
\* the mapping of the client's memory fails.
WindowPresent(s, m) ==
    /\ m.op = "WINDOW_PRESENT"
    /\ \/ Named(m.id) # {} /\ UNCHANGED inbox
       \/ SendTo(clients[s], [op |-> "ERROR"])
    /\ UNCHANGED <<hello_done, windows, next_window, creator>>

\* on_client_readable.  A client that exits with messages unread resets the
\* connection, so that its last messages may be lost.
Served(s) ==
    LET a == clients[s] IN
    \/ /\ app_end[a] = "closed"
       /\ outbox[a] = <<>> \/ inbox[a] # <<>>
       /\ Drop(s)
    \/ /\ outbox[a] # <<>>
       /\ outbox' = [outbox EXCEPT ![a] = Tail(@)]
       /\ LET m == Head(outbox[a])
          IN  Hello(s, m) \/ WindowCreate(s, m) \/ WindowDestroy(s, m) \/ WindowPresent(s, m)
       /\ UNCHANGED <<srv_end, clients>>

\* vyro_server_tick up to its loop: the poll set is built from the clients of
\* before the accept; one connection is accepted, or closed if no slot is free.
Poll ==
    /\ serving
    /\ ready = {}
    /\ ready' = {s \in Slot : clients[s] # NoApp /\ Readable(clients[s])}
    /\ IF backlog = <<>>
       THEN UNCHANGED <<srv_end, backlog, clients>>
       ELSE /\ backlog' = Tail(backlog)
            /\ srv_end' = [srv_end EXCEPT ![Head(backlog)] = IF FreeSlots # {} THEN "open" ELSE "closed"]
            /\ clients' = IF FreeSlots # {} THEN [clients EXCEPT ![First(FreeSlots)] = Head(backlog)]
                                            ELSE clients
    /\ UNCHANGED <<serving, app_end, inbox, outbox, hello_done, windows, next_window, creator, inputVars>>

\* The loop of vyro_server_tick.
Serve ==
    /\ ready # {}
    /\ Served(First(ready))
    /\ ready' = ready \ {First(ready)}
    /\ UNCHANGED <<serving, app_end, backlog, inputVars>>

----------------------------------------------------------------------------
(* input.c                                                                 *)

\* vyro_server_window_hit: the hits the cursor's position may give.
Hits == {[win |-> w, chrome |-> c] : w \in {x \in Window : windows[x].in_use}, c \in BOOLEAN}
        \cup {[win |-> NoWindow, chrome |-> FALSE]}

\* Mutant of SendEvent: the table of clients is indexed by the window.
SendEventToSlot(w) ==
    IF clients[w] = NoApp THEN UNCHANGED inbox
    ELSE SendTo(clients[w], [op |-> "EVENT", id |-> windows[w].id])

\* vyro_server_send_event_to, for a window in use; its owner's fd may be closed.
SendEvent(w) ==
    IF clients[windows[w].owner] = NoApp THEN UNCHANGED inbox
    ELSE SendTo(clients[windows[w].owner], [op |-> "EVENT", id |-> windows[w].id])

SendEventIf(hit, cond) == IF hit.win # NoWindow /\ cond THEN SendEvent(hit.win) ELSE UNCHANGED inbox

\* dispatch_pointer_motion: a drag moves the window, which geometry's
\* abstraction hides.
Motion(hit) ==
    /\ IF dragging # NoWindow THEN UNCHANGED inbox ELSE SendEventIf(hit, ~hit.chrome)
    /\ UNCHANGED dragging

\* dispatch_button: the left button drags by the title bar.
Button(hit, left, down) ==
    IF hit.chrome /\ left /\ down
    THEN dragging' = hit.win /\ UNCHANGED inbox
    ELSE /\ dragging' = IF left /\ ~down THEN NoWindow ELSE dragging
         /\ SendEventIf(hit, ~hit.chrome)

\* dispatch_key
Key(hit) == SendEventIf(hit, TRUE) /\ UNCHANGED dragging

\* One event of vyro_input_tick, which runs between two ticks of the server.
Input ==
    /\ serving
    /\ ready = {}
    /\ events < MaxEvents
    /\ events' = events + 1
    /\ \E hit \in Hits : Motion(hit) \/ Key(hit) \/ \E left, down \in BOOLEAN : Button(hit, left, down)
    /\ UNCHANGED <<app_end, srv_end, backlog, outbox, serverVars>>

MainLoop == Poll \/ Serve \/ Input

----------------------------------------------------------------------------

\* A compositor that does not run has no state; the kernel closes the
\* connections of one that ends.
ServerInit ==
    /\ serving     = FALSE
    /\ ready       = {}
    /\ clients     = [s \in Slot |-> NoApp]
    /\ hello_done  = [s \in Slot |-> FALSE]
    /\ windows     = [w \in Window |-> Free]
    /\ next_window = 1
    /\ creator     = <<>>
    /\ dragging    = NoWindow

ServerEnds ==
    /\ serving'     = FALSE
    /\ ready'       = {}
    /\ clients'     = [s \in Slot |-> NoApp]
    /\ hello_done'  = [s \in Slot |-> FALSE]
    /\ windows'     = [w \in Window |-> Free]
    /\ next_window' = 1
    /\ creator'     = <<>>
    /\ dragging'    = NoWindow
    /\ srv_end' = [a \in App |-> IF srv_end[a] \in {"queued", "open"} THEN "closed" ELSE srv_end[a]]
    /\ backlog' = <<>>

CompInit ==
    /\ ServerInit
    /\ app_end = [a \in App |-> "none"]
    /\ srv_end = [a \in App |-> "none"]
    /\ backlog = <<>>
    /\ inbox   = [a \in App |-> <<>>]
    /\ outbox  = [a \in App |-> <<>>]
    /\ events  = 0
=============================================================================
