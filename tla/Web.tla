---------------------------------- MODULE Web ---------------------------------
(***************************************************************************)
(* A page from the network: browser_fetch of kernel/apps/browser.c with    *)
(* http_get and http_parse_response of http.c.                             *)
(*                                                                         *)
(* The response is a sequence of tokens: "V" the version, "sp", "code" the *)
(* three digits, "CR", "LF", a tag with its brackets, "text" any other     *)
(* character.  The connection is what TcpConnection promises: what arrives *)
(* is in order and stays until it is read.                                 *)
(***************************************************************************)
EXTENDS Integers, Sequences, FiniteSetsExt, SequencesExt

CONSTANTS
    Responses,      \* what servers send
    RCV_MAX,        \* TCP_BUF_SIZE, in tokens
    RespMax         \* sizeof(resp) - 1

VARIABLES
    fetch,          \* browser_fetch at work: where, response, what http_get has read, late
    link,           \* its connection: state, rcv_buf, and what the server has still to send
    page            \* page_buf: the kind of page, its text, and what it was made of

webVars == <<fetch, link, page>>

NoFetch == [at |-> "idle", response |-> <<>>, read |-> <<>>, late |-> FALSE]
NoLink == [state |-> "CLOSED", rcv |-> <<>>, left |-> <<>>]
NoPage == [kind |-> "none", text |-> <<>>, response |-> <<>>, read |-> <<>>]

----------------------------------------------------------------------------
(* http_parse_response: where the body begins, 0 if it gives up.           *)
\* the first of these positions from one on, or one behind them all
FirstAt(positions, from, behind) == Min({i \in positions : i >= from} \cup {behind})

BodyAt(buf) ==
    LET n  == Len(buf)
        CR(i) == buf[i] = "CR"
        Ends(i) == CR(i) /\ i < n /\ buf[i + 1] = "LF"
        sp == FirstAt({i \in 1..n : buf[i] = "sp"}, 2, n + 1)
        line == FirstAt({i \in 1..n : Ends(i)}, sp + 2, n + 1)
        Cr(p) == FirstAt({i \in 1..n : CR(i)}, p, n + 1)
        \* the headers from p on; one that is cut makes it give up
        head[p \in 1..n + 2] ==
            IF p + 1 > n THEN p
            ELSE IF Ends(p) THEN p + 2
            ELSE IF Cr(p) + 1 > n THEN 0 ELSE head[Cr(p) + 2]
    IN  IF n < 3 \/ buf[1] # "V" \/ sp + 1 > n \/ line > n THEN 0
        ELSE IF buf[sp + 1] # "code" THEN 0
        ELSE head[line + 2]

----------------------------------------------------------------------------
(* html_to_text: tags are dropped, text is dropped from a tag that begins  *)
(* like script or style (strong does) to the next closing tag; white space *)
(* is run together, no space begins a line.                                *)
Hiding == {"<script>", "<style>", "<strong>"}
Closing == {"</script>", "</style>", "</strong>", "</p>"}
Tags == Hiding \cup Closing \cup {"<p>"}
Tokens == Tags \cup {"V", "sp", "code", "CR", "LF", "text"}
ToText(in) ==
    LET Step(s, i) ==
          LET t == in[i] IN
          IF t \in Tags
          THEN IF i = Len(in) THEN s ELSE [s EXCEPT !.skip = t \in Hiding \/ (@ /\ t \notin Closing)]
          ELSE IF s.skip \/ t = "CR" THEN s
          ELSE IF t = "LF" THEN IF s.nl THEN s ELSE [s EXCEPT !.out = Append(@, t), !.nl = TRUE, !.sp = TRUE]
          ELSE IF t = "sp" THEN IF s.sp THEN s ELSE [s EXCEPT !.out = Append(@, t), !.sp = TRUE]
          ELSE [s EXCEPT !.out = Append(@, t), !.nl = FALSE, !.sp = FALSE]
        done[i \in 0..Len(in)] ==
          IF i = 0 THEN [out |-> <<>>, skip |-> FALSE, nl |-> TRUE, sp |-> TRUE] ELSE Step(done[i - 1], i)
    IN  done[Len(in)].out

RestFrom(s, i) == SubSeq(s, i, Len(s))
PageOf(read) ==
    LET b == BodyAt(read)
    IN  IF b # 0 /\ b <= Len(read) THEN ToText(RestFrom(read, b)) ELSE ToText(read)

----------------------------------------------------------------------------
\* browser_fetch: the name is resolved or not, tcp_connect has a slot or not.
Fetch(response) ==
    /\ fetch.at = "idle"
    /\ fetch' = [NoFetch EXCEPT !.at = "connect", !.response = response]
    /\ link' = [state |-> "SYN_SENT", rcv |-> <<>>, left |-> response]
    /\ UNCHANGED page

FetchFails(kind) ==
    /\ fetch.at = "idle"
    /\ page' = [NoPage EXCEPT !.kind = kind]
    /\ UNCHANGED <<fetch, link>>

\* A turn of the loop that waits for the connection: net_pump_run may complete it,
\* the server may refuse it, the time may be over.
Connecting ==
    /\ fetch.at = "connect" /\ ~fetch.late /\ link.state = "SYN_SENT"
    /\ \E state \in {"SYN_SENT", "ESTABLISHED", "CLOSED"}, late \in BOOLEAN :
          /\ link' = [link EXCEPT !.state = state]
          /\ fetch' = [fetch EXCEPT !.late = late]
    /\ UNCHANGED page

\* http_get gives up with a negative result, and closes.
GetFails ==
    /\ fetch' = NoFetch /\ link' = NoLink
    /\ page' = [NoPage EXCEPT !.kind = "failed"]

Request ==      \* the request is sent; tcp_send may take less than the whole of it
    /\ fetch.at = "connect" /\ (fetch.late \/ link.state # "SYN_SENT")
    /\ \/ link.state # "ESTABLISHED" /\ GetFails
       \/ link.state = "ESTABLISHED" /\ fetch' = [fetch EXCEPT !.at = "recv"] /\ UNCHANGED <<link, page>>
       \/ link.state = "ESTABLISHED" /\ GetFails

\* Mutant of Drained: what came with the end of the connection is not read.
DrainedBefore(rcv, state, room) == IF state = "CLOSE_WAIT" THEN <<>> ELSE SubSeq(rcv, 1, room)

\* tcp_recv: nothing of a connection that was reset.
Drained(rcv, state, room) == IF state = "CLOSED" THEN <<>> ELSE SubSeq(rcv, 1, room)

\* A turn of the loop that reads: net_pump_run lets some more arrive, and the end
\* of the response or a reset; then tcp_recv; then the state is looked at.
Receiving ==
    /\ fetch.at = "recv" /\ ~fetch.late /\ Len(fetch.read) < RespMax
    /\ \E n \in 0..Min({Len(link.left), RCV_MAX - Len(link.rcv)}), late \in BOOLEAN,
          state \in {"ESTABLISHED", "CLOSE_WAIT", "CLOSED"} :
          /\ state = "CLOSE_WAIT" => n = Len(link.left)
          /\ LET rcv  == link.rcv \o SubSeq(link.left, 1, n)
                 room == Min({Len(rcv), RespMax - Len(fetch.read)})
             IN  /\ link' = [state |-> state, rcv |-> RestFrom(rcv, room + 1), left |-> RestFrom(link.left, n + 1)]
                 /\ fetch' = [fetch EXCEPT !.read = @ \o Drained(rcv, state, room), !.late = late,
                                           !.at = IF state = "ESTABLISHED" THEN "recv" ELSE "done"]
    /\ UNCHANGED page

ReceivingEnds ==
    /\ fetch.at = "recv" /\ (fetch.late \/ Len(fetch.read) >= RespMax)
    /\ fetch' = [fetch EXCEPT !.at = "done"]
    /\ UNCHANGED <<link, page>>

\* http_get closes and returns; the page is made of what it read.
Show ==
    /\ fetch.at = "done"
    /\ page' = IF fetch.read = <<>> THEN [NoPage EXCEPT !.kind = "failed"]
               ELSE [kind |-> IF link.left = <<>> /\ link.state = "CLOSE_WAIT" THEN "whole" ELSE "cut",
                     text |-> PageOf(fetch.read), response |-> fetch.response, read |-> fetch.read]
    /\ fetch' = NoFetch /\ link' = NoLink

WebInit == fetch = NoFetch /\ link = NoLink /\ page = NoPage
WebNext ==
    \/ \E response \in Responses : Fetch(response)
    \/ \E kind \in {"no host", "failed"} : FetchFails(kind)
    \/ Connecting \/ Request \/ Receiving \/ ReceivingEnds \/ Show
WebSpec == WebInit /\ [][WebNext]_webVars

----------------------------------------------------------------------------
\* The body of a response as the server means it: behind the first empty line.
Blank(r) == {i \in 1..Len(r) - 3 : r[i] = "CR" /\ r[i + 1] = "LF" /\ r[i + 2] = "CR" /\ r[i + 3] = "LF"}
Body(r) == RestFrom(r, Min(Blank(r)) + 4)

\* What servers send is tokens.  If there is an empty line, what is before it is a
\* head of HTTP: the version, a space, the code, and lines that end in CR LF.
Headed(r) ==
    LET b == Min(Blank(r)) IN
    /\ r[1] = "V"
    /\ \E s \in 2..b - 2 : r[s] = "sp" /\ r[s + 1] = "code" /\ \A i \in 2..s - 1 : r[i] # "sp"
    /\ \A i \in 1..b - 1 : r[i] = "CR" => r[i + 1] = "LF"
ASSUME WebAssumption ==
    /\ RCV_MAX \in Nat /\ RespMax \in Nat
    /\ Responses \subseteq Seq(Tokens)
    /\ \A r \in Responses : Blank(r) # {} => Headed(r)

\* A page that the server sent whole, in time and within the buffer, is shown whole,
\* whatever pieces it arrived in and also if the last one came with the end of the
\* connection; one that was cut is the beginning of the same page, unless the cut is
\* in the head: then the head is shown, or one character of it (http_parse_response
\* takes what is behind a whole header line for the body if it is that short).
PageRight ==
    page.kind \in {"whole", "cut"} =>
        LET r == page.response   n == Len(page.read) IN
        /\ IsPrefix(page.read, r)
        /\ (page.kind = "whole" /\ Len(r) <= RespMax) => page.read = r
        /\ Blank(r) # {} =>
              IF n > Min(Blank(r)) + 3
              THEN IsPrefix(page.text, ToText(Body(r))) /\ (page.read = r => page.text = ToText(Body(r)))
              ELSE page.text = ToText(page.read) \/ Len(page.text) <= 1
=============================================================================
