------------------------------- MODULE NetStack -------------------------------
(***************************************************************************)
(* The kernel's packet path above the receive ring: net_pump.c, arp.c,     *)
(* udp.c, and the exchanges of dhcp_real.c and dns_real.c that the shell   *)
(* runs on it, one at a time, while the card's interrupts go on.           *)
(*                                                                         *)
(* The network around the machine is external.  A host's ARP packets may   *)
(* arrive at any time, with either of its cards; `wire` holds the answers  *)
(* to the queries sent: they arrive at any time, again and again, or never.*)
(* A clock tick is what tells two exchanges apart (make_xid, txid): a call *)
(* that has sent its query pumps for 50 ms at least, so the tick moves on. *)
(***************************************************************************)
EXTENDS RxRing, FiniteSets

CONSTANTS
    Host,                   \* the addresses of the local network
    NameServer,             \* the one that answers DNS
    DhcpServer,             \* the DHCP servers
    Name,                   \* host names
    ARP_CACHE_SIZE,
    UDP_PORT_TABLE_SIZE,
    EPH_FIRST, EPH_LAST,    \* the range of eph_port: 49152 and 60000
    Card,                   \* the network cards a host has had
    MaxCalls, MaxArrivals   \* bounds on the environment

\* The well-known ports are below the ephemeral ones.
DHCP_CLIENT == 0

Mac         == [host : Host, card : Card]
NoMac       == [host |-> "none", card |-> "none"]
AddrOf(n)   == [name |-> n]                         \* the address DNS has for n
Lease(v, x) == [server |-> v, exchange |-> x]       \* what server v offers in exchange x
HomeIp      == Lease("none", 0)          \* 10.0.2.15

ArpFrame(h, c)    == [kind |-> "arp", spa |-> h, sha |-> [host |-> h, card |-> c]]
UdpFrame(p, x, a) == [kind |-> "udp", dst_port |-> p, id |-> x, ip |-> a]

ASSUME NetStackAssumption ==
    /\ NameServer \in Host /\ "none" \notin Host
    /\ {ARP_CACHE_SIZE, UDP_PORT_TABLE_SIZE, EPH_FIRST} \subseteq Nat \ {0}
    /\ EPH_LAST \in Nat /\ EPH_FIRST <= EPH_LAST
    /\ {MaxCalls, MaxArrivals} \subseteq Nat
    /\ \A f \in Frame : f.kind = "arp" => \E h \in Host, c \in Card : f = ArpFrame(h, c)
    /\ \A f \in Frame : f.kind = "udp" /\ f.dst_port = DHCP_CLIENT
                           => \E v \in DhcpServer : f.ip = Lease(v, f.id)

VARIABLES
    nic,            \* a card was found
    cache,          \* arp.c: [0 .. ARP_CACHE_SIZE - 1 -> [valid, ip, mac]]
    listeners,      \* udp.c: [0 .. UDP_PORT_TABLE_SIZE - 1 -> [active, port]]
    net_ip,         \* net.c: my_ip
    pending_xid, got_reply,                         \* dhcp_real.c
    pending_txid, got_result, result_ip, eph_port,  \* dns_real.c
    main,           \* where the shell is: "idle" (or pumping for another command),
                    \* "dhcp", "arp" (in udp_send_to of a DNS query), "dns"
    hostname, my_port,      \* dns_real_resolve's argument and local
    \* The environment.
    wire, calls, arrivals,
    heard           \* history: [Host -> what arp_input last saw of the host]

dhcpVars == <<pending_xid, got_reply>>
dnsVars  == <<pending_txid, got_result, result_ip, eph_port, hostname, my_port>>
envVars  == <<calls, arrivals>>
vars     == <<ringVars, nic, cache, listeners, net_ip, dhcpVars, dnsVars, main, wire, envVars, heard>>

----------------------------------------------------------------------------
(* arp.c                                                                   *)

Entry == 0 .. ARP_CACHE_SIZE - 1

LowestOf(S) == CHOOSE i \in S : \A j \in S : i <= j

Matches(c, h) == {i \in Entry : c[i].valid /\ c[i].ip = h}
Matching(h)   == Matches(cache, h)
Unused        == {i \in Entry : ~cache[i].valid}

\* cache_lookup
LookupIn(c, h) == IF Matches(c, h) = {} THEN NoMac ELSE c[LowestOf(Matches(c, h))].mac
Lookup(h)      == LookupIn(cache, h)

\* Mutant of EntryFor: a free entry is taken before a matching one is looked for.
EntryForFree(h) ==
    IF Unused # {} THEN LowestOf(Unused) ELSE IF Matching(h) # {} THEN LowestOf(Matching(h)) ELSE 0

\* cache_insert: the entry of the address, else a free one, else the first.
EntryFor(h) ==
    IF Matching(h) # {} THEN LowestOf(Matching(h)) ELSE IF Unused # {} THEN LowestOf(Unused) ELSE 0

\* arp_input; the reply to a request is not followed.
ArpInput(f) ==
    /\ cache' = [cache EXCEPT ![EntryFor(f.spa)] = [valid |-> TRUE, ip |-> f.spa, mac |-> f.sha]]
    /\ heard' = [heard EXCEPT ![f.spa] = f.sha]

----------------------------------------------------------------------------
(* udp.c                                                                   *)

Port     == 0 .. UDP_PORT_TABLE_SIZE - 1
InUse    == {i \in Port : listeners[i].active}
Silent   == [active |-> FALSE, port |-> 0]

CanListen(p) == InUse # Port /\ \A i \in InUse : listeners[i].port # p

\* udp_listen
Listening(p) == [listeners EXCEPT ![LowestOf(Port \ InUse)] = [active |-> TRUE, port |-> p]]

\* Mutant of Unlistened: the listener stays.
StillListening(p) == listeners

\* udp_unlisten
Unlistened(p) == [i \in Port |-> IF listeners[i].active /\ listeners[i].port = p
                                 THEN Silent ELSE listeners[i]]

HasListener(p) == \E i \in InUse : listeners[i].port = p

----------------------------------------------------------------------------
(* dhcp_real.c and dns_real.c: the callbacks.                              *)

\* on_dhcp_reply, parse_dhcp_payload, net_set_ip
OnDhcpReply(f) ==
    /\ IF ~got_reply /\ f.id = pending_xid
       THEN net_ip' = f.ip /\ got_reply' = TRUE
       ELSE UNCHANGED <<net_ip, got_reply>>
    /\ UNCHANGED <<pending_xid, dnsVars>>

\* Mutant of OnDnsReply: the transaction is not compared.
OnDnsAnyReply(f) ==
    /\ IF ~got_result
       THEN result_ip' = f.ip /\ got_result' = TRUE
       ELSE UNCHANGED <<result_ip, got_result>>
    /\ UNCHANGED <<pending_txid, eph_port, hostname, my_port, dhcpVars, net_ip>>

\* on_dns_reply, parse_dns_payload
OnDnsReply(f) ==
    /\ IF ~got_result /\ f.id = pending_txid
       THEN result_ip' = f.ip /\ got_result' = TRUE
       ELSE UNCHANGED <<result_ip, got_result>>
    /\ UNCHANGED <<pending_txid, eph_port, hostname, my_port, dhcpVars, net_ip>>

\* udp_input: the listener of the port, if there is one.
UdpInput(f) ==
    /\ IF ~HasListener(f.dst_port) THEN UNCHANGED <<net_ip, dhcpVars, dnsVars>>
       ELSE IF f.dst_port = DHCP_CLIENT THEN OnDhcpReply(f) ELSE OnDnsReply(f)
    /\ UNCHANGED <<cache, heard>>

----------------------------------------------------------------------------
(* The shell's calls.                                                      *)

Sends(answers) == wire' = wire \cup answers

\* Mutant of GivesUp: the listener is forgotten.
GivesUpOnly(p) == main' = "idle" /\ UNCHANGED listeners

\* An exchange ends: udp_unlisten, return.
GivesUp(p) == main' = "idle" /\ listeners' = Unlistened(p)

\* dhcp_real_run up to its loop.
DhcpRun ==
    /\ main = "idle" /\ ~polling
    /\ calls <= MaxCalls
    /\ calls' = calls + 1
    /\ pending_xid' = calls
    /\ got_reply' = FALSE
    /\ IF CanListen(DHCP_CLIENT) /\ nic
       THEN /\ listeners' = Listening(DHCP_CLIENT)
            /\ Sends({UdpFrame(DHCP_CLIENT, calls, Lease(v, calls)) : v \in DhcpServer})
            /\ main' = "dhcp"
       ELSE UNCHANGED <<listeners, wire, main>>
    /\ UNCHANGED <<ringVars, nic, cache, heard, net_ip, dnsVars, arrivals>>

\* The end of dhcp_real_run, with a reply or at its deadline.
DhcpDone ==
    /\ main = "dhcp" /\ ~polling
    /\ GivesUp(DHCP_CLIENT)
    /\ UNCHANGED <<ringVars, nic, cache, heard, net_ip, dhcpVars, dnsVars, wire, envVars>>

\* dns_real_resolve: my_port = ++eph_port; if (eph_port > 60000) ...
EphAfter(p) == IF p > EPH_LAST THEN EPH_FIRST ELSE p

\* udp_send_to once the hardware address is known, or given up for broadcast.
SendQuery(p, x, n) ==
    IF nic THEN main' = "dns" /\ Sends({UdpFrame(p, x, AddrOf(n))}) /\ UNCHANGED listeners
           ELSE GivesUp(p) /\ UNCHANGED wire

\* dns_real_resolve up to its loop, or to the loop of arp_resolve.
DnsResolve(n) ==
    /\ main = "idle" /\ ~polling
    /\ calls <= MaxCalls
    /\ calls' = calls + 1
    /\ pending_txid' = calls
    /\ got_result' = FALSE
    /\ hostname' = n
    /\ my_port' = eph_port + 1
    /\ eph_port' = EphAfter(eph_port + 1)
    /\ IF ~CanListen(my_port') THEN UNCHANGED <<listeners, main, wire>>
       ELSE /\ listeners' = Listening(my_port')
            /\ IF Lookup(NameServer) = NoMac
               THEN main' = "arp" /\ UNCHANGED wire
               ELSE main' = "dns" /\ Sends({UdpFrame(my_port', calls, AddrOf(n))})
    /\ UNCHANGED <<ringVars, nic, cache, heard, net_ip, dhcpVars, result_ip, arrivals>>

\* arp_resolve at its deadline: the query is broadcast, or cannot be sent.
ArpTimeout ==
    /\ main = "arp" /\ ~polling
    /\ SendQuery(my_port, pending_txid, hostname)
    /\ UNCHANGED <<ringVars, nic, cache, heard, net_ip, dhcpVars, dnsVars, envVars>>

\* The end of dns_real_resolve, with a result or at its deadline.
DnsDone ==
    /\ main = "dns" /\ ~polling
    /\ GivesUp(my_port)
    /\ UNCHANGED <<ringVars, nic, cache, heard, net_ip, dhcpVars, dnsVars, wire, envVars>>

----------------------------------------------------------------------------
(* The frames.                                                             *)

\* One frame in the loop of net_pump_run.
PumpFrame ==
    /\ main # "arp"
    /\ PollEnd
    /\ LET f == out[1] IN
       \/ f.kind = "arp" /\ ArpInput(f) /\ UNCHANGED <<net_ip, dhcpVars, dnsVars>>
       \/ f.kind = "udp" /\ UdpInput(f)
       \/ f.kind = "tcp" /\ UNCHANGED <<cache, heard, net_ip, dhcpVars, dnsVars>>
    /\ UNCHANGED <<nic, listeners, main, wire, envVars>>

\* One frame in the loop of arp_resolve: whatever is not ARP is lost.
ArpFrameIn ==
    /\ main = "arp"
    /\ PollEnd
    /\ LET f == out[1] IN
       IF f.kind = "arp"
       THEN /\ ArpInput(f)
            /\ IF LookupIn(cache', NameServer) = NoMac
               THEN UNCHANGED <<main, wire, listeners>>
               ELSE SendQuery(my_port, pending_txid, hostname)
       ELSE UNCHANGED <<cache, heard, main, wire, listeners>>
    /\ UNCHANGED <<nic, net_ip, dhcpVars, dnsVars, envVars>>

\* An interrupt: an answer, an ARP packet of some host, or a TCP segment.
Arrive ==
    /\ nic
    /\ arrivals < MaxArrivals
    /\ arrivals' = arrivals + 1
    /\ \E f \in Frame : (f.kind = "udp" => f \in wire) /\ RxHandler(f)
    /\ UNCHANGED <<nic, cache, heard, listeners, net_ip, dhcpVars, dnsVars, main, wire, calls>>

Poll ==
    /\ PollStart \/ PollCopy
    /\ UNCHANGED <<nic, cache, heard, listeners, net_ip, dhcpVars, dnsVars, main, wire, envVars>>

Init ==
    /\ RingInit
    /\ nic \in BOOLEAN
    /\ cache = [i \in Entry |-> [valid |-> FALSE, ip |-> "none", mac |-> NoMac]]
    /\ listeners = [i \in Port |-> Silent]
    /\ net_ip = HomeIp
    /\ pending_xid = 0 /\ got_reply = FALSE
    /\ pending_txid = 0 /\ got_result = FALSE /\ result_ip = AddrOf("none")
    /\ eph_port = EPH_FIRST
    /\ main = "idle"
    /\ hostname = "none" /\ my_port = 0
    /\ wire = {} /\ calls = 1 /\ arrivals = 0
    /\ heard = [h \in Host |-> NoMac]

Call == DhcpRun \/ DhcpDone \/ ArpTimeout \/ DnsDone \/ \E n \in Name : DnsResolve(n)

Next == Call \/ PumpFrame \/ ArpFrameIn \/ Poll \/ Arrive

Spec == Init /\ [][Next]_vars

----------------------------------------------------------------------------
(* Properties.                                                             *)

\* Every variable has its type; eph_port stays in its range.
NetTypeOK ==
    /\ cache \in [Entry -> [valid : BOOLEAN, ip : Host \cup {"none"}, mac : Mac \cup {NoMac}]]
    /\ listeners \in [Port -> [active : BOOLEAN, port : {DHCP_CLIENT} \cup EPH_FIRST .. EPH_LAST + 1]]
    /\ main \in {"idle", "dhcp", "arp", "dns"}
    /\ eph_port \in EPH_FIRST .. EPH_LAST
    /\ got_reply \in BOOLEAN /\ got_result \in BOOLEAN

\* The cache never answers with an address older than the last it was told:
\* no host has two entries, whatever was evicted and heard again since.
LookupLatest == \A h \in Host : Lookup(h) \in {NoMac, heard[h]}

\* What makes it so: an entry holds what was heard last, and no host has two.
CacheInv ==
    /\ cache \in [Entry -> [valid : BOOLEAN, ip : Host \cup {"none"}, mac : Mac \cup {NoMac}]]
    /\ heard \in [Host -> Mac \cup {NoMac}]
    /\ \A i \in Entry :
           cache[i].valid => cache[i].ip \in Host /\ cache[i].mac = heard[cache[i].ip]
    /\ \A i, j \in Entry :
           cache[i].valid /\ cache[j].valid /\ cache[i].ip = cache[j].ip => i = j

\* What a resolution returns is the address of the name it asked for, though
\* answers to earlier queries come late, twice, and to a port used again.
AnswerRight == main = "dns" /\ got_result => result_ip = AddrOf(hostname)

\* The machine takes an address only in a DHCP exchange, only the first that
\* is offered in this exchange: no late offer changes it behind its back.
LeaseRight ==
    [][net_ip' # net_ip =>
           /\ main = "dhcp" /\ ~got_reply
           /\ net_ip' \in {Lease(v, pending_xid) : v \in DhcpServer}]_vars

\* The ports listened to are those of the exchange in progress, each once: no
\* way out of an exchange leaves one of the entries taken (RELEASE_NOTES.md,
\* v3.1, says what `udp` lists).
ListenersInUse ==
    LET ports == IF main = "dhcp" THEN {DHCP_CLIENT}
                 ELSE IF main \in {"arp", "dns"} THEN {my_port} ELSE {}
    IN  /\ {listeners[i].port : i \in InUse} = ports
        /\ Cardinality(InUse) = Cardinality(ports)

\* What makes it so.
ExchangePort == IF main = "dhcp" THEN DHCP_CLIENT ELSE my_port

ListenersInv ==
    /\ listeners \in [Port -> [active : BOOLEAN, port : Nat]]
    /\ my_port \in Nat /\ eph_port \in Nat
    /\ main \in {"idle", "dhcp", "arp", "dns"}
    /\ eph_port # DHCP_CLIENT /\ (main \in {"arp", "dns"} => my_port # DHCP_CLIENT)
    /\ main = "idle" => InUse = {}
    /\ main # "idle" => \E i \in Port : InUse = {i} /\ listeners[i].port = ExchangePort

\* What makes AnswerRight so: every answer on its way is one to a query sent,
\* and only the last query has the identifier awaited.
WireInv ==
    /\ calls \in Nat \ {0}
    /\ pending_txid \in Nat /\ pending_txid < calls
    /\ \A f \in wire : f.id \in Nat /\ f.id < calls
    /\ main \in {"arp", "dns"} =>
           \A f \in wire : f.id = pending_txid => f.ip = AddrOf(hostname)
    /\ \A i \in 1 .. Count : Queue[i].kind = "udp" => Queue[i] \in wire
    /\ main = "arp" => ~got_result
    /\ AnswerRight
=============================================================================
