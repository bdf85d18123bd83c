------------------------------ MODULE MCOutside ------------------------------
(***************************************************************************)
(* What the kernel does with the world outside for TLC: the network's      *)
(* exchanges, the disks, TLS, certificates and web pages, one in each      *)
(* session.  They share no variable, so that what one of them does is      *)
(* independent of the others: a behaviour of all of them together is, for  *)
(* each, one of a session.                                                 *)
(***************************************************************************)
EXTENDS NetStack, BlockStack, Tls, MCCerts, Web, TLC

CONSTANTS ns, gw, pc, dhcp1, dhcp2, name1, name2, card1, card2

VARIABLE session

netVars == vars
outsideVars == <<session, netVars, storageVars, tlsVars, certVars, webVars>>

----------------------------------------------------------------------------
\* Values of the constants.
MCFrame ==
    {ArpFrame(h, c) : h \in Host, c \in Card}
    \cup {UdpFrame(DHCP_CLIENT, x, Lease(v, x)) : v \in DhcpServer, x \in 1 .. MaxCalls}
    \cup {UdpFrame(p, x, AddrOf(n)) : p \in EPH_FIRST .. EPH_LAST + 1, x \in 1 .. MaxCalls, n \in Name}
    \cup {[kind |-> "tcp"]}

\* Hosts but the name server, DHCP servers, names and cards are interchangeable;
\* no other module mentions them.
Symmetry ==
    Permutations(Host \ {NameServer}) \cup Permutations(DhcpServer) \cup Permutations(Name)
    \cup Permutations(Card)

MCMachines == {{"sata"}, {"nvme512"}, {"nvme4k"}}
MCPatterns == {<<1>>, <<1, 0, 1>>}
MCTable == <<[in_use |-> TRUE, start |-> 1, length |-> 2]>>

FirstPart == [type |-> "BEGIN", mac |-> <<>>, whole |-> FALSE]
Remaining == [type |-> "END", mac |-> <<>>, whole |-> FALSE]
RecordOf(msgs, n) == [msgs |-> msgs, parts |-> n]
MCFlights ==
    {<<RecordOf(<<Msg("EE"), Msg("CERT"), Msg("CV")>>, 2)>>,
     <<RecordOf(<<Msg("EE")>>, 1), RecordOf(<<Msg("CERT"), Msg("CV")>>, 2), RecordOf(<<>>, 1)>>,
     <<RecordOf(<<Msg("EE"), FirstPart>>, 1), RecordOf(<<Remaining, Msg("CV")>>, 1), RecordOf(<<>>, 1)>>}
Written(inner, len, parts) == [inner |-> inner, len |-> len, parts |-> parts]
MCWrites == {Written("app", 1, 1), Written("app", 2, 2), Written("handshake", 0, 1), Written("alert", 0, 1),
             Written("app", 3, 4)}

Crlf == <<"CR", "LF">>
Status == <<"V", "sp", "code", "sp", "text">> \o Crlf
MCResponses ==
    {Status \o <<"text", "sp", "text">> \o Crlf \o Crlf
        \o <<"<p>", "text", "sp", "sp", "<script>", "text", "</script>", "text", "LF", "LF">>,
     Status \o Crlf \o <<"sp", "text", "<strong>", "text", "</p>", "code">>,
     Status \o <<"text">> \o Crlf, <<"text", "sp", "code", "CR">>, Status \o Crlf}

----------------------------------------------------------------------------
\* What may begin in different ways does so in its own session only.
OutsideInit ==
    /\ session \in {"net", "disk", "tls", "certs", "web"}
    /\ Init /\ StorageInit /\ TlsInit /\ CertsInit /\ WebInit
    /\ session # "net"  => nic
    /\ session # "disk" => devs = <<>> /\ DOMAIN platter = {"sata"}
    /\ session # "tls"  => role = "client"

NetSession ==
    /\ session = "net" /\ UNCHANGED <<session, storageVars, tlsVars, certVars, webVars>>
    /\ Next

StorageSession ==
    /\ session = "disk" /\ UNCHANGED <<session, netVars, tlsVars, certVars, webVars>>
    /\ StorageNext

TlsSession ==
    /\ session = "tls" /\ UNCHANGED <<session, netVars, storageVars, certVars, webVars>>
    /\ TlsNext

CertsSession ==
    /\ session = "certs" /\ UNCHANGED <<session, netVars, storageVars, tlsVars, webVars>>
    /\ CertsNext

WebSession ==
    /\ session = "web" /\ UNCHANGED <<session, netVars, storageVars, tlsVars, certVars>>
    /\ WebNext

OutsideNext == NetSession \/ StorageSession \/ TlsSession \/ CertsSession \/ WebSession

OutsideSpec == OutsideInit /\ [][OutsideNext]_outsideVars
==============================================================================
