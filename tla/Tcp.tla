---------------------------------- MODULE Tcp ----------------------------------
(***************************************************************************)
(* src/src/kernel/drivers/tcp.c: one connection between a client and a     *)
(* server that both run this stack, over a network that loses, repeats and *)
(* reorders segments.                                                      *)
(*                                                                         *)
(* Every function of tcp.c that touches a socket does so in one section    *)
(* under tcp_registry_lock, which is one step here.  A host has one socket *)
(* of the connection, or none ("NONE": nothing is registered for these     *)
(* addresses and ports).  The sections of the blocking calls               *)
(* (tcp_socket_connect, tcp_socket_close) are separate steps.              *)
(*                                                                         *)
(* Data: a byte is its index in the stream of its sender.  Sequence        *)
(* numbers live modulo SeqMod and are compared as the code compares them,  *)
(* by the sign of the difference.  Time is a timer that may fire whenever  *)
(* it is armed; round-trip estimation has no other effect.  The congestion *)
(* window is a choice between one segment and a window that does not bind. *)
(***************************************************************************)
EXTENDS Integers, Sequences, FiniteSets, FiniteSetsExt

CONSTANTS Client, Server,
          SeqMod,       \* sequence numbers are taken modulo SeqMod (2^32)
          Iss,          \* initial sequence number of each host
          Mss,          \* tcp_mss(), bytes
          RxMax, TxMax, \* TCP_WINDOW_SIZE of the receive and the send buffer
          DupAcks,      \* repeated ACKs that start a fast retransmission (3)
          MaxRetries,   \* TCP_MAX_RETRIES
          SynRetries,   \* the literal 5 in tcp_poll()
          StreamLen,    \* bound: bytes an application writes
          MaxFlight,    \* bound: segments in the network
          MaxFaults,    \* bound: segments the network loses or repeats
          Calls,        \* per host the calls its application makes
          Adverse       \* deadlines may pass while segments are under way, ip_send() may fail

Hosts == {Client, Server}

Peer(h) == IF h = Client THEN Server ELSE Client

ASSUME TcpAssumption ==
    /\ Client # Server
    /\ SeqMod \in Nat /\ SeqMod % 2 = 0
    /\ Iss \in [Hosts -> 0..SeqMod-1]
    /\ StreamLen \in [Hosts -> Nat]
    /\ Mss \in Nat \ {0} /\ RxMax \in Nat \ {0} /\ TxMax \in Nat \ {0}
    /\ DupAcks \in Nat
    /\ \A h \in Hosts : 2 * (StreamLen[h] + 2 + RxMax) <= SeqMod
    /\ Adverse \in BOOLEAN

VARIABLES sock,       \* per host the tcp_socket_t of the connection
          net,        \* the segments in the network
          listening,  \* the server's listener is in TCP_STATE_LISTEN
          app,        \* per host what its application is doing with the socket
          written,    \* per host the number of bytes the application has sent
          read,       \* per host the number of bytes the application has got
          faults      \* how many segments the network has lost or repeated

tcpVars == <<sock, net, listening, app, written, read, faults>>

-----------------------------------------------------------------------------
(* Sequence numbers *)

Plus(a, n) == (a + n) % SeqMod

\* (int32_t)(a - b)
Minus(a, b) ==
    LET d == (a - b) % SeqMod IN IF d < SeqMod \div 2 THEN d ELSE d - SeqMod

Bit(b) == IF b THEN 1 ELSE 0

Lesser(a, b) == IF a < b THEN a ELSE b

-----------------------------------------------------------------------------
(* A socket *)

None == 0    \* a position of the receive buffer that holds no byte yet

\* tcp_alloc()
Fresh(h) ==
    [state |-> "CLOSED", snd_una |-> Iss[h], snd_max |-> Iss[h],
     rcv_nxt |-> 0, tx |-> <<>>, tx_sent |-> 0, peer_wnd |-> 0,
     rtx |-> FALSE, rtx_count |-> 0, dup_acks |-> 0,
     fin_queued |-> FALSE, fin_sent |-> FALSE, reset_seen |-> FALSE,
     ooo_seq |-> 0, ooo_len |-> 0, rx_len |-> 0, rx |-> [i \in 1..RxMax |-> None],
     unaccepted |-> FALSE, detached |-> FALSE]

\* A socket that enters TCP_STATE_CLOSED: only what it has received, whether it was
\* reset and, while there are bytes to read, what tcp_ack_now() puts in a segment is
\* read again (a read may still advertise the window).
Shut(s) ==
    LET acks == s.rx_len > 0 IN
    [s EXCEPT !.state = "CLOSED", !.rtx = FALSE, !.tx = <<>>, !.snd_max = 0, !.peer_wnd = 0,
              !.rtx_count = 0, !.dup_acks = 0, !.fin_queued = FALSE, !.ooo_seq = 0, !.ooo_len = 0,
              !.snd_una = IF acks THEN @ ELSE 0, !.rcv_nxt = IF acks THEN @ ELSE 0,
              !.tx_sent = IF acks THEN @ ELSE 0, !.fin_sent = acks /\ @]

\* The socket after kfree().
Gone(h) == [Fresh(h) EXCEPT !.state = "NONE"]

Segment(to, flags, seq, ack, win, data) ==
    [to |-> to, flags |-> flags, seq |-> seq, ack |-> ack, win |-> win, data |-> data]

\* tcp_rx_window()
RxWindow(s) == RxMax - s.rx_len

\* tcp_xmit(): every segment of a socket carries rcv_nxt and the window.
Xmit(h, s, flags, seq, data) ==
    Segment(Peer(h), flags, seq, s.rcv_nxt, RxWindow(s), data)

\* tcp_ack_now()
AckNow(h, s) ==
    {Xmit(h, s, {"ACK"}, Plus(s.snd_una, s.tx_sent + Bit(s.fin_sent)), <<>>)}

Quiet(s) == [s |-> s, out |-> {}]

\* tcp_pending()
Pending(s) ==
    \/ Len(s.tx) > 0
    \/ s.fin_queued /\ ~s.reset_seen
    \/ s.state \in {"SYN_SENT", "SYN_RECEIVED"}
    \/ s.fin_sent

\* tcp_arm()
Arm(s) == [s EXCEPT !.rtx = @ \/ Pending(s)]

Later(a, b) == IF Minus(a, b) > 0 THEN a ELSE b

\* What the congestion window lets tcp_output() have in flight: one segment or all
\* of the buffer.  A window of 0 stands for an ip_send() that fails because the
\* next hop's address is not known (any more); it is tried with the first SYN
\* and when the timer fires, after a silence in which the entry can expire.
Windows == {Mss, TxMax}

Failure == IF Adverse THEN {0} ELSE {}

\* The smaller window; a peer's window of 0 still lets one byte through.
Limit(s, cwnd) == IF cwnd = 0 THEN 0 ELSE Max({1, Lesser(cwnd, s.peer_wnd)})

\* Bug: the FIN overtakes the data that the window holds back.
FinEarly(s, upto) == s.fin_queued /\ ~s.fin_sent

\* The FIN goes out behind the last byte.
FinDue(s, upto) == s.fin_queued /\ ~s.fin_sent /\ upto = Len(s.tx)

\* tcp_output(): segments of at most Mss bytes up to the window, then the FIN,
\* then the timer.
Output(h, s, cwnd) ==
    LET upto == Max({s.tx_sent, Lesser(Len(s.tx), Limit(s, cwnd))})
        fin  == FinDue(s, upto) /\ cwnd > 0
        sent == {Xmit(h, s, {"ACK"}, Plus(s.snd_una, k), SubSeq(s.tx, k + 1, Lesser(k + Mss, upto))) :
                    k \in {k \in s.tx_sent..upto - 1 : (k - s.tx_sent) % Mss = 0}}
        last == {Xmit(h, s, {"FIN", "ACK"}, Plus(s.snd_una, upto), <<>>)}
    IN  IF s.state \in {"ESTABLISHED", "CLOSE_WAIT", "FIN_WAIT1", "CLOSING", "LAST_ACK"}
        THEN [s   |-> Arm([s EXCEPT !.tx_sent = upto, !.fin_sent = @ \/ fin,
                                    !.snd_max = Later(Plus(s.snd_una, upto + Bit(s.fin_sent \/ fin)), @)]),
              out |-> IF fin THEN sent \cup last ELSE sent]
        ELSE [s |-> s, out |-> {}]

\* tcp_rewind(): go back to snd_una.
Rewind(s) == [s EXCEPT !.tx_sent = 0, !.fin_sent = FALSE]

-----------------------------------------------------------------------------
(* Receiving *)

\* An ACK that acknowledges nothing new: the third in a row starts a fast
\* retransmission, one that opens the window lets data out.
OldAck(h, s, win, pure, cwnd) ==
    LET again == pure /\ s.snd_max # s.snd_una /\ win = s.peer_wnd
        t     == [s EXCEPT !.peer_wnd = win,
                           !.dup_acks = IF again THEN Lesser(@ + 1, DupAcks + 1) ELSE @]
    IN  IF again
        THEN IF t.dup_acks = DupAcks THEN Output(h, Rewind(t), cwnd) ELSE [s |-> t, out |-> {}]
        ELSE IF win > s.peer_wnd THEN Output(h, t, cwnd) ELSE [s |-> t, out |-> {}]

\* Bug: an ACK frees everything that is in flight.
NewAckAll(h, s, adv, win, cwnd) ==
    Output(h, [s EXCEPT !.dup_acks = 0, !.rtx_count = 0, !.rtx = FALSE, !.peer_wnd = win,
                        !.tx = SubSeq(@, s.tx_sent + 1, Len(@)), !.tx_sent = 0,
                        !.snd_una = Plus(@, s.tx_sent)], cwnd)

\* An ACK of data, of the FIN or of both.
NewAck(h, s, adv, win, cwnd) ==
    LET acked == Lesser(adv, Len(s.tx))
        fin   == s.fin_sent /\ adv > acked
        t     == [s EXCEPT !.dup_acks = 0, !.rtx_count = 0, !.rtx = FALSE, !.peer_wnd = win,
                           !.tx = SubSeq(@, acked + 1, Len(@)),
                           !.tx_sent = Max({0, @ - acked}),
                           !.snd_una = Plus(@, acked + Bit(fin)),
                           !.fin_queued = @ /\ ~fin, !.fin_sent = @ /\ ~fin,
                           !.state = IF ~fin THEN @
                                     ELSE CASE @ = "FIN_WAIT1" -> "FIN_WAIT2"
                                            [] @ = "CLOSING"   -> "TIME_WAIT"
                                            [] @ = "LAST_ACK"  -> "CLOSED"
                                            [] OTHER           -> @]
    IN  IF t.state = "CLOSED" THEN Quiet(Shut(t)) ELSE Output(h, t, cwnd)

\* tcp_process_ack(); an ACK of something never sent is ignored.
ProcessAck(h, s, ack, win, pure, cwnd) ==
    LET adv   == Minus(ack, s.snd_una)
        wrong == adv < 0 \/ adv > Minus(s.snd_max, s.snd_una)
    IN  CASE wrong -> [s |-> s, out |-> {}]
          [] ~wrong /\ adv = 0 -> OldAck(h, s, win, pure, cwnd)
          [] OTHER -> NewAck(h, s, adv, win, cwnd)

\* memcpy into the receive buffer behind its first pos bytes.
Store(rx, pos, data) ==
    [i \in 1..RxMax |-> IF i \in pos + 1..pos + Len(data) THEN data[i - pos] ELSE rx[i]]

\* A segment behind a gap: kept when it fits and starts, touches or overlaps the
\* one block the socket remembers.
OutOfOrder(s, seq, data) ==
    LET pos  == s.rx_len + Minus(seq, s.rcv_nxt)
        end  == Plus(seq, Len(data))
        bend == Plus(s.ooo_seq, s.ooo_len)
        low  == IF Minus(seq, s.ooo_seq) < 0 THEN seq ELSE s.ooo_seq
    IN  IF Len(data) = 0 \/ pos + Len(data) > RxMax THEN s
        ELSE IF s.ooo_len = 0
        THEN [s EXCEPT !.ooo_seq = seq, !.ooo_len = Len(data), !.rx = Store(@, pos, data)]
        ELSE IF Minus(seq, bend) <= 0 /\ Minus(end, s.ooo_seq) >= 0
        THEN [s EXCEPT !.ooo_seq = low, !.ooo_len = Minus(Later(end, bend), low),
                       !.rx = Store(@, pos, data)]
        ELSE s

\* The hole in front of the block is closed: its bytes are in place already.
Join(s) ==
    IF s.ooo_len > 0 /\ Minus(s.ooo_seq, s.rcv_nxt) <= 0
    THEN LET fresh == Max({0, s.ooo_len - Minus(s.rcv_nxt, s.ooo_seq)})
         IN  [s EXCEPT !.ooo_len = 0, !.rx_len = @ + fresh, !.rcv_nxt = Plus(@, fresh)]
    ELSE s

\* The bytes of a segment from the skip-th on are the next ones expected.
InOrder(s, skip, data, fin) ==
    LET n    == Len(data) - skip
        take == Lesser(n, RxMax - s.rx_len)
        t    == Join([s EXCEPT !.rx = Store(@, s.rx_len, SubSeq(data, skip + 1, skip + take)),
                               !.rx_len = @ + take, !.rcv_nxt = Plus(@, take)])
    IN  IF fin /\ take = n
        THEN [t EXCEPT !.rcv_nxt = Plus(@, 1),
                       !.state = CASE @ = "ESTABLISHED" -> "CLOSE_WAIT"
                                   [] @ = "FIN_WAIT1"   -> "CLOSING"
                                   [] @ = "FIN_WAIT2"   -> "TIME_WAIT"]
        ELSE t

\* The data and FIN part of tcp_input(), after the ACK was processed.
TakeData(h, s, g) ==
    LET fin  == "FIN" \in g.flags
        off  == Minus(s.rcv_nxt, g.seq)
        then == CASE off < 0 -> OutOfOrder(s, g.seq, g.data)
                  [] off > Len(g.data) \/ (off = Len(g.data) /\ ~fin) -> s
                  [] OTHER -> InOrder(s, off, g.data, fin)
    IN  CASE s.state = "TIME_WAIT" -> [s |-> s, out |-> IF fin THEN AckNow(h, s) ELSE {}]
          [] s.state \in {"ESTABLISHED", "FIN_WAIT1", "FIN_WAIT2"} /\ (g.data # <<>> \/ fin) ->
                [s |-> then, out |-> AckNow(h, then)]
          [] OTHER -> [s |-> s, out |-> {}]

Closed(s) == [Shut(s) EXCEPT !.reset_seen = TRUE]

\* A reset counts when its sequence number lies in the receive window.
Reset(s, off) ==
    IF off >= 0 /\ off < Max({1, RxWindow(s)}) THEN Closed(s) ELSE s

\* tcp_input() for a socket past the handshake.
InputConnected(h, s, g, cwnd) ==
    LET a == ProcessAck(h, s, g.ack, g.win, g.data = <<>> /\ "FIN" \notin g.flags, cwnd)
        d == TakeData(h, a.s, g)
    IN  CASE "RST" \in g.flags -> Quiet(Reset(s, Minus(g.seq, s.rcv_nxt)))
          [] "RST" \notin g.flags /\ "SYN" \in g.flags ->
                [s |-> s, out |-> IF Plus(g.seq, 1) = s.rcv_nxt THEN AckNow(h, s) ELSE {}]
          [] g.flags \cap {"RST", "SYN", "ACK"} = {} -> Quiet(s)
          [] OTHER -> [s |-> d.s, out |-> a.out \cup d.out]

\* tcp_input() in TCP_STATE_SYN_SENT.
InputSynSent(h, s, g) ==
    LET acks == "ACK" \in g.flags
        ok   == acks /\ g.ack = Plus(s.snd_una, 1)
        t    == [s EXCEPT !.rcv_nxt = Plus(g.seq, 1), !.snd_una = g.ack, !.peer_wnd = g.win,
                          !.rtx_count = 0, !.rtx = FALSE, !.state = "ESTABLISHED"]
    IN  CASE acks /\ ~ok -> [s |-> s, out |-> IF "RST" \in g.flags THEN {}
                                  ELSE {Segment(Peer(h), {"RST"}, g.ack, 0, 0, <<>>)}]
          [] (acks => ok) /\ "RST" \in g.flags -> Quiet(IF ok THEN Closed(s) ELSE s)
          [] ok /\ "RST" \notin g.flags /\ "SYN" \in g.flags -> [s |-> t, out |-> AckNow(h, t)]
          [] OTHER -> Quiet(s)

\* tcp_input() in TCP_STATE_SYN_RECEIVED; the ACK that completes the handshake may
\* carry data.
InputSynReceived(h, s, g, cwnd) ==
    CASE "RST" \in g.flags -> Quiet(IF Minus(g.seq, s.rcv_nxt) >= 0 THEN Closed(s) ELSE s)
      [] "RST" \notin g.flags /\ "SYN" \in g.flags ->
            [s |-> s, out |-> IF Plus(g.seq, 1) = s.rcv_nxt
                              THEN {Xmit(h, s, {"SYN", "ACK"}, s.snd_una, <<>>)} ELSE {}]
      [] g.flags \cap {"RST", "SYN", "ACK"} = {"ACK"} /\ g.ack = Plus(s.snd_una, 1) ->
            InputConnected(h, [s EXCEPT !.snd_una = g.ack, !.peer_wnd = g.win, !.rtx_count = 0,
                                        !.rtx = FALSE, !.state = "ESTABLISHED"], g, cwnd)
      [] OTHER -> Quiet(s)

\* The listener makes a connection of a SYN.
Child(h, g) ==
    [Fresh(h) EXCEPT !.state = "SYN_RECEIVED", !.unaccepted = TRUE, !.rtx = TRUE,
                     !.snd_max = Plus(Iss[h], 1), !.rcv_nxt = Plus(g.seq, 1), !.peer_wnd = g.win]

\* tcp_input() for a segment that no socket owns.
InputNone(h, s, g) ==
    LET syn == "SYN" \in g.flags /\ "ACK" \notin g.flags /\ "RST" \notin g.flags
        c   == Child(h, g)
        n   == Len(g.data) + Bit(g.flags \cap {"SYN", "FIN"} # {})
    IN  CASE syn /\ h = Server /\ listening ->
                IF app[h] = "idle"
                THEN [s |-> c, out |-> {Xmit(h, c, {"SYN", "ACK"}, c.snd_una, <<>>)}]
                ELSE Quiet(s)
          [] "RST" \in g.flags -> Quiet(s)
          [] "RST" \notin g.flags /\ "ACK" \in g.flags ->
                [s |-> s, out |-> {Segment(Peer(h), {"RST"}, g.ack, 0, 0, <<>>)}]
          [] OTHER ->
                [s |-> s, out |-> {Segment(Peer(h), {"RST", "ACK"}, 0, Plus(g.seq, n), 0, <<>>)}]

\* tcp_input()
Input(h, s, g, cwnd) ==
    CASE s.state = "NONE"         -> InputNone(h, s, g)
      [] s.state = "SYN_SENT"     -> InputSynSent(h, s, g)
      [] s.state = "SYN_RECEIVED" -> InputSynReceived(h, s, g, cwnd)
      [] s.state = "CLOSED"       -> Quiet(s)
      [] OTHER                    -> InputConnected(h, s, g, cwnd)

-----------------------------------------------------------------------------
(* The steps *)

TcpInit ==
    /\ sock = [h \in Hosts |-> Gone(h)]
    /\ net = {}
    /\ listening = TRUE
    /\ app = [h \in Hosts |-> "idle"]
    /\ written = [h \in Hosts |-> 0]
    /\ read = [h \in Hosts |-> 0]
    /\ faults = 0

\* The socket of h becomes r.s and the segments r.out leave; rest is what stays in
\* the network.
Leave(h, r, rest) ==
    /\ sock' = [sock EXCEPT ![h] = r.s]
    /\ net' = rest \cup r.out
    /\ Cardinality(net') <= MaxFlight

Becomes(h, a) == app' = [app EXCEPT ![h] = a]

\* A segment arrives, and may arrive once more.
Deliver(g, again) ==
    LET h == g.to IN
    /\ \E cwnd \in Windows :
          Leave(h, Input(h, sock[h], g, cwnd), IF again THEN net ELSE net \ {g})
    /\ faults' = faults + Bit(again)
    /\ app' = IF sock[h].state = "NONE" /\ sock'[h].state # "NONE"
              THEN [app EXCEPT ![h] = "queued"] ELSE app
    /\ UNCHANGED <<listening, written, read>>

Lose(g) ==
    /\ net' = net \ {g}
    /\ faults' = faults + 1
    /\ UNCHANGED <<sock, listening, app, written, read>>

\* tcp_socket_connect() (waits) and tcp_socket_connect_start() (does not): reset the
\* socket and try to send the SYN.  The waiting form retries the first SYN itself
\* and leaves the timer off until it is out.
Connect(waits, sent) ==
    LET h == Client
        s == [Fresh(h) EXCEPT !.state = "SYN_SENT", !.snd_max = Plus(Iss[h], 1),
                              !.peer_wnd = TxMax, !.rtx = sent \/ ~waits]
    IN  /\ app[h] = "idle"
        /\ Leave(h, [s |-> s, out |-> {Xmit(h, s, {"SYN"}, s.snd_una, <<>>) : x \in {TRUE} \cap {sent}}], net)
        /\ (IF waits THEN "connect" ELSE "connect_start") \in Calls[h]
        /\ Becomes(h, IF ~waits THEN "open" ELSE IF sent THEN "waiting" ELSE "trying")
        /\ UNCHANGED <<listening, written, read, faults>>

\* The loop of tcp_connect_common() gets the first SYN out.
ConnectSyn ==
    LET s == [sock[Client] EXCEPT !.rtx = TRUE] IN
    /\ app[Client] = "trying"
    /\ s.state = "SYN_SENT"
    /\ Leave(Client, [s |-> s, out |-> {Xmit(Client, s, {"SYN"}, s.snd_una, <<>>)}], net)
    /\ Becomes(Client, "waiting")
    /\ UNCHANGED <<listening, written, read, faults>>

\* The loop ends when it sees ESTABLISHED ...
ConnectDone ==
    /\ app[Client] = "waiting"
    /\ sock[Client].state = "ESTABLISHED"
    /\ Becomes(Client, "open")
    /\ UNCHANGED <<sock, net, listening, written, read, faults>>

\* ... or CLOSED, or at its deadline; whatever is not ESTABLISHED then is closed.
ConnectFails ==
    /\ app[Client] \in {"trying", "waiting"}
    /\ sock[Client].state # "ESTABLISHED"
    /\ Adverse \/ sock[Client].state = "CLOSED"
    /\ sock' = [sock EXCEPT ![Client] = Shut(@)]
    /\ Becomes(Client, "closed")
    /\ UNCHANGED <<net, listening, written, read, faults>>

\* tcp_socket_send(), tcp_socket_send_nb(): queue what fits and send it.
SocketSend(h, n) ==
    LET s    == sock[h]
        data == [i \in 1..n |-> written[h] + i]
    IN  /\ app[h] = "open"
        /\ s.state \in {"ESTABLISHED", "CLOSE_WAIT"}
        /\ n <= TxMax - Len(s.tx) /\ written[h] + n <= StreamLen[h]
        /\ \E cwnd \in Windows : Leave(h, Output(h, [s EXCEPT !.tx = @ \o data], cwnd), net)
        /\ written' = [written EXCEPT ![h] = @ + n]
        /\ UNCHANGED <<listening, app, read, faults>>

\* Bug: the block behind the gap stays where it was.
SlideInOrderOnly(s, n) ==
    [i \in 1..RxMax |-> IF i <= s.rx_len - n THEN s.rx[i + n] ELSE s.rx[i]]

\* memmove(): what is left, and the block behind the gap, move down by n.
Slide(s, n) ==
    [i \in 1..RxMax |-> IF i + n <= RxMax THEN s.rx[i + n] ELSE None]

\* tcp_socket_recv(); a window that was nearly shut is advertised again.
Recv(h, n) ==
    LET s == sock[h]
        t == [s EXCEPT !.rx = Slide(s, n), !.rx_len = @ - n]
    IN  /\ app[h] = "open"
        /\ n <= s.rx_len
        /\ Leave(h, [s |-> t, out |-> IF RxMax - s.rx_len < 2 * Mss THEN AckNow(h, t) ELSE {}], net)
        /\ read' = [read EXCEPT ![h] = @ + n]
        /\ UNCHANGED <<listening, app, written, faults>>

\* The common start of tcp_socket_shutdown_wr(), _close() and _abandon().
QueueFin(h, s, cwnd) ==
    IF s.state \in {"ESTABLISHED", "CLOSE_WAIT"}
    THEN Output(h, [s EXCEPT !.fin_queued = TRUE,
                             !.state = IF @ = "ESTABLISHED" THEN "FIN_WAIT1" ELSE "LAST_ACK"], cwnd)
    ELSE Quiet(s)

Closes == {"FIN_WAIT1", "LAST_ACK", "CLOSING"}

\* tcp_socket_shutdown_wr()
ShutdownWr(h) ==
    /\ "shutdown_wr" \in Calls[h] /\ app[h] = "open"
    /\ sock[h].state \in {"ESTABLISHED", "CLOSE_WAIT"}
    /\ \E cwnd \in Windows : Leave(h, QueueFin(h, sock[h], cwnd), net)
    /\ UNCHANGED <<listening, app, written, read, faults>>

\* tcp_socket_close(): queue the FIN ...
Close(h) ==
    /\ "close" \in Calls[h] /\ app[h] = "open"
    /\ \E cwnd \in Windows : Leave(h, QueueFin(h, sock[h], cwnd), net)
    /\ Becomes(h, "closing")
    /\ UNCHANGED <<listening, written, read, faults>>

\* ... wait until it is acknowledged or for three seconds, and close.
CloseEnds(h) ==
    /\ app[h] = "closing"
    /\ Adverse \/ sock[h].state \notin Closes
    /\ sock' = [sock EXCEPT ![h] = Shut(@)]
    /\ Becomes(h, "closed")
    /\ UNCHANGED <<net, listening, written, read, faults>>

\* tcp_socket_destroy(), which the callers of tcp_socket_close() call next.
Destroy(h) ==
    /\ app[h] = "closed"
    /\ sock' = [sock EXCEPT ![h] = Gone(h)]
    /\ Becomes(h, "left")
    /\ UNCHANGED <<net, listening, written, read, faults>>

\* tcp_socket_abandon(): the stack finishes the close alone.
Abandon(h) ==
    /\ "abandon" \in Calls[h] /\ app[h] = "open"
    /\ \E cwnd \in Windows :
          LET r == QueueFin(h, sock[h], cwnd)
              t == IF r.s.state \in {"SYN_SENT", "SYN_RECEIVED"} THEN Shut(r.s) ELSE r.s
          IN  Leave(h, [s |-> [t EXCEPT !.detached = TRUE], out |-> r.out], net)
    /\ Becomes(h, "left")
    /\ UNCHANGED <<listening, written, read, faults>>

\* tcp_socket_accept(); a connection that was reset meanwhile is discarded.
Accept ==
    LET s == sock[Server] IN
    /\ listening
    /\ s.unaccepted /\ s.state \notin {"NONE", "SYN_RECEIVED"}
    /\ sock' = [sock EXCEPT ![Server].unaccepted = FALSE, ![Server].detached = s.state = "CLOSED"]
    /\ Becomes(Server, IF s.state = "CLOSED" THEN "left" ELSE "open")
    /\ UNCHANGED <<net, listening, written, read, faults>>

\* tcp_socket_abandon() of the listener: connections nobody accepted go with it.
\* (Bound: it is not closed later, when it only affects other connections.)
StopListening ==
    /\ listening /\ app[Server] \in {"idle", "queued"}
    /\ listening' = FALSE
    /\ IF sock[Server].unaccepted
       THEN /\ sock' = [sock EXCEPT ![Server] = [Shut(@) EXCEPT !.unaccepted = FALSE, !.detached = TRUE]]
            /\ Becomes(Server, "left")
       ELSE UNCHANGED <<sock, app>>
    /\ UNCHANGED <<net, written, read, faults>>

\* tcp_poll(): TIME_WAIT is over.
TimeWaitEnds(h) ==
    /\ sock[h].state = "TIME_WAIT"
    /\ sock' = [sock EXCEPT ![h] = Shut(@)]
    /\ UNCHANGED <<net, listening, app, written, read, faults>>

\* tcp_poll(): sockets nobody will use again are freed, detached ones after thirty
\* seconds in any state.
PollFree(h) ==
    LET s == sock[h] IN
    /\ \/ s.unaccepted /\ s.state = "CLOSED"
       \/ s.detached /\ (Adverse \/ s.state = "CLOSED")
    /\ sock' = [sock EXCEPT ![h] = Gone(h)]
    /\ Becomes(h, "left")
    /\ UNCHANGED <<net, listening, written, read, faults>>

\* Bug: the timer is not armed again when nothing could be sent.
RearmIfSent(r) == r

\* tcp_poll() leaves the timer armed after a retransmission.
Rearm(r) == [r EXCEPT !.s.rtx = TRUE]

\* tcp_poll(): the retransmission timer of a socket fires.
Retransmit(h, cwnd) ==
    LET s     == sock[h]
        hand  == s.state \in {"SYN_SENT", "SYN_RECEIVED"}
        t     == [s EXCEPT !.rtx_count = @ + 1, !.rtx = FALSE]
        flags == IF s.state = "SYN_SENT" THEN {"SYN"} ELSE {"SYN", "ACK"}
        over  == t.rtx_count > (IF hand THEN SynRetries ELSE MaxRetries)
    IN  /\ s.rtx /\ s.state \notin {"NONE", "CLOSED"}
        /\ Adverse \/ net = {}
        /\ Leave(h, CASE ~Pending(s) -> Quiet([s EXCEPT !.rtx = FALSE])
                      [] Pending(s) /\ over -> Quiet(Closed(t))
                      [] Pending(s) /\ ~over /\ hand -> Rearm([s |-> t, out |-> {Xmit(h, t, flags, t.snd_una, <<>>)}])
                      [] OTHER -> Rearm(Output(h, Rewind(t), cwnd)), net)
        /\ UNCHANGED <<listening, app, written, read, faults>>

TcpNext ==
    \/ \E g \in net :
          \/ Deliver(g, FALSE)
          \/ faults < MaxFaults /\ (Deliver(g, TRUE) \/ Lose(g))
    \/ \E waits, sent \in BOOLEAN : Connect(waits, sent)
    \/ ConnectSyn \/ ConnectDone \/ ConnectFails
    \/ Accept \/ StopListening
    \/ \E h \in Hosts :
          \/ \E n \in 1..TxMax : SocketSend(h, n)
          \/ \E n \in 1..RxMax : Recv(h, n)
          \/ ShutdownWr(h) \/ Close(h) \/ CloseEnds(h) \/ Destroy(h) \/ Abandon(h)
          \/ TimeWaitEnds(h) \/ PollFree(h)
          \/ \E cwnd \in Failure \cup {Mss} : Retransmit(h, cwnd)

TcpSpec == TcpInit /\ [][TcpNext]_tcpVars

-----------------------------------------------------------------------------
(* Properties *)

\* What h has taken in order from its peer, read or not, without the FIN.
Taken(h) == read[h] + sock[h].rx_len

FinTaken(h) == sock[h].state \in {"CLOSE_WAIT", "CLOSING", "LAST_ACK", "TIME_WAIT"}

\* The bytes in the receive buffer are the next bytes of the peer's stream, in
\* order, and the block behind the gap lies where its sequence number says: not
\* a retransmission in other pieces, a repeated or reordered segment, a full
\* buffer nor a read while a gap is open may shift, lose or double a byte.
StreamIntegrity ==
    \A h \in Hosts :
        LET s == sock[h] IN
        /\ \A i \in 1..s.rx_len : s.rx[i] = read[h] + i
        /\ s.ooo_len > 0 =>
              LET gap == Minus(s.ooo_seq, s.rcv_nxt)
              IN  \A i \in s.rx_len + gap + 1..s.rx_len + gap + s.ooo_len : s.rx[i] = read[h] + i

\* A byte leaves the send queue only when the peer's socket has taken it: not on
\* the word of a stale or repeated ACK, of one that arrives after a retransmission
\* was started, or of one for a byte the peer had no room for.
AckedIsTaken ==
    \A h \in Hosts :
        sock[h].state \notin {"NONE", "CLOSED"} /\ sock[Peer(h)].state # "NONE" =>
            written[h] - Len(sock[h].tx) <= Taken(Peer(h))

\* The end of the stream is seen only behind the last byte: a socket that has
\* taken its peer's FIN holds or has delivered all that the peer's application
\* wrote.
EofIsEnd ==
    \A h \in Hosts : FinTaken(h) => Taken(h) = written[Peer(h)]

\* A socket that waits for an answer has its timer running, so that a lost
\* segment, a lost ACK, a shut window or a failed transmission cannot leave it
\* waiting for ever.  (Until its first SYN is out, tcp_socket_connect() itself
\* tries again.)
TimerArmed ==
    \A h \in Hosts :
        sock[h].state \notin {"NONE", "CLOSED"} /\ Pending(sock[h]) =>
            sock[h].rtx \/ app[h] = "trying"

================================================================================
