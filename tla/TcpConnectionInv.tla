-------------------------- MODULE TcpConnectionInv --------------------------
(***************************************************************************)
(* The inductive invariant of TcpConnection.  Sequence numbers are read as *)
(* offsets from the initial sequence number of the host that counts with   *)
(* them: the SYN has offset 0, byte k of the stream offset k.              *)
(***************************************************************************)
EXTENDS TcpConnection

Off(h, x) == Minus(x, Isn[h])

\* Bytes of h's stream at their sequence number, all below the offset lim.
Slice(h, seq, data, lim) ==
    /\ 1 <= Off(h, seq)
    /\ Off(h, seq) + Len(data) <= lim
    /\ \A i \in 1 .. Len(data) : data[i] = Off(h, seq) + i - 1

\* Bytes that host h has written and sent.
Genuine(h, seq, data) ==
    Slice(h, seq, data, MinOf(Off(h, snd_nxt[h]), written[h] + 1))

Handshake == {"SYN_SENT", "SYN_RECEIVED"}
Sending   == Handshake \cup {"ESTABLISHED"}     \* before this host's FIN, and before the peer's

\* Before the handshake has completed nothing has been written or read.
FreshInv(h) ==
    (~opened[h] \/ state[h] \in Handshake) =>
        /\ snd_una[h] = Isn[h]
        /\ snd_buf[h] = <<>> /\ written[h] = 0 /\ ~armed[h]
        /\ rcv_buf[h] = <<>> /\ read[h] = <<>> /\ ooo_buf[h] = <<>>

OpenInv(h) ==
    /\ ~opened[h] => state[h] = "CLOSED" /\ snd_nxt[h] = Isn[h]
    /\ state[h] \in Handshake => snd_nxt[h] = Plus(Isn[h], 1)
    /\ state[h] = "SYN_RECEIVED" => opened[Peer(h)] /\ rcv_nxt[h] = Plus(Isn[Peer(h)], 1)
    /\ written[h] <= MaxWrite[h]
    /\ Off(h, snd_nxt[h]) <= written[h] + 2
    /\ state[h] = "CLOSE_WAIT" => Off(h, snd_nxt[h]) <= written[h] + 1

\* The send buffer is the unacknowledged tail of the stream, and at least
\* its first MSS bytes are in flight.
SendInv(h) ==
    state[h] = "ESTABLISHED" =>
        /\ 1 <= Off(h, snd_una[h])
        /\ Off(h, snd_una[h]) <= Off(h, snd_nxt[h])
        /\ Off(h, snd_nxt[h]) <= Off(h, snd_una[h]) + Len(snd_buf[h])
        /\ Off(h, snd_nxt[h]) >= Off(h, snd_una[h]) + MinOf(Len(snd_buf[h]), MSS)
        /\ Off(h, snd_una[h]) + Len(snd_buf[h]) = written[h] + 1
        /\ \A i \in 1 .. Len(snd_buf[h]) : snd_buf[h][i] = Off(h, snd_una[h]) + i - 1
        /\ armed[h] = (snd_buf[h] # <<>>)
        /\ Off(h, snd_una[h]) <= Len(Arrived(Peer(h))) + 1

\* What has arrived is a prefix of what the peer has written and sent; while
\* data is accepted, rcv_nxt is the sequence number of the next byte.
RecvInv(h) ==
    /\ Len(Arrived(h)) <= written[Peer(h)]
    /\ \A i \in 1 .. Len(Arrived(h)) : Arrived(h)[i] = i
    /\ opened[Peer(h)] => Len(Arrived(h)) < Off(Peer(h), snd_nxt[Peer(h)])
    /\ state[h] = "ESTABLISHED" =>
           /\ opened[Peer(h)]
           /\ Off(Peer(h), rcv_nxt[h]) = Len(Arrived(h)) + 1
    /\ ooo_buf[h] # <<>> => Genuine(Peer(h), ooo_seq[h], ooo_buf[h])

\* Once h has seen a FIN, its peer has left the sending states.
EofInv(h) ==
    state[h] \in {"CLOSE_WAIT", "LAST_ACK", "TIME_WAIT"} =>
        opened[Peer(h)] /\ state[Peer(h)] \notin Sending \cup {"CLOSE_WAIT"}

\* What is true of a segment in transit from h, resets aside: their fields
\* mean nothing.
SegOk(h, m) ==
    /\ opened[h]
    /\ "SYN" \in m.flags => m.seq = Isn[h] /\ m.data = <<>> /\ "FIN" \notin m.flags
    /\ "FIN" \in m.flags => m.data = <<>> /\ state[h] \notin Sending \cup {"CLOSE_WAIT"}
    /\ m.data # <<>> => Genuine(h, m.seq, m.data)
    /\ "ACK" \in m.flags => opened[Peer(h)]
    /\ "ACK" \in m.flags /\ state[Peer(h)] \in Sending =>
           /\ 1 <= Off(Peer(h), m.ack)
           /\ Off(Peer(h), m.ack) <= Len(Arrived(h)) + 1

NetInv(h) == \A m \in net : m.dst = Peer(h) /\ "RST" \notin m.flags => SegOk(h, m)

CwndInv(h) == cwnd[h] >= MSS

\* The part of the invariant that is about the fields of h's TCB.
TcbInv(h) == FreshInv(h) /\ OpenInv(h) /\ SendInv(h) /\ RecvInv(h) /\ EofInv(h) /\ CwndInv(h)

IInv == TypeOK /\ \A h \in Host : TcbInv(h) /\ NetInv(h)

\* While g waits for the ACK of its FIN, whose offset is f, and its peer has
\* not seen the FIN: the peer has got no further than f, and neither has any
\* payload for it nor any acknowledgement from it.
FinAhead(g) ==
    LET h == Peer(g)
        f == Off(g, snd_nxt[g]) - 1
    IN
    /\ Len(Arrived(h)) + 1 <= f
    /\ ooo_buf[h] # <<>> => Slice(g, ooo_seq[h], ooo_buf[h], f)
    /\ \A m \in net : "RST" \notin m.flags =>
           /\ m.dst = h /\ m.data # <<>> => Slice(g, m.seq, m.data, f)
           /\ m.dst = g /\ "ACK" \in m.flags => Off(g, m.ack) <= f

\* The strengthening of FinAcked, inductive beside IInv.
FinInv(g) ==
    /\ state[g] = "FIN_WAIT_1" =>
           opened[Peer(g)] /\ (state[Peer(g)] \in Sending => FinAhead(g))
    /\ state[g] = "FIN_WAIT_2" => opened[Peer(g)] /\ state[Peer(g)] \notin Sending

FinsInv == \A g \in Host : FinInv(g)
=============================================================================
