-------------------------------- MODULE Vsock --------------------------------
(***************************************************************************)
(* VsockConnectionManager and VirtIOSocket of virtio-drivers: the calls of *)
(* a client, poll() and the credit protocol, against a peer that keeps to  *)
(* the protocol (external).  The connection list is keyed by peer address  *)
(* and local port; this is one such pair, as the client, the peer and the  *)
(* packets of other pairs never touch it.                                  *)
(*                                                                         *)
(* Packets travel in order and unharmed both ways, so those of a closed    *)
(* connection may still be under way when the next one on the same pair    *)
(* begins: nothing in a packet tells the two apart.                        *)
(***************************************************************************)
EXTENDS Integers, Sequences, SequencesExt

CONSTANTS
    CAP,        \* per_connection_buffer_capacity
    PBUF,       \* what the peer allocates for a connection
    W,          \* counters wrap at W, which stands for 2^32
    RxBuffers,  \* buffers of the OwningQueue: packets of the device not polled yet
    MaxTx,      \* bound: packets of the client the peer has not taken
    Bounds      \* bounds: (connections the peer opens or accepts, bytes a connection
                \* carries to the peer, bytes it carries from the peer)

VsockAssumption == CAP \in 1 .. W - 1 /\ PBUF \in 1 .. W - 1 /\ RxBuffers > 0

NoConn == [open |-> FALSE]

VARIABLES
    conn,       \* the Connection, or NoConn
    listening,  \* listening_ports has the port
    tx, rx,     \* packets to the peer; packets in used RX buffers
    got,        \* history: bytes recv() returned on this connection
    clean,      \* history: no packet of an earlier connection can meet this one
    peer,       \* the peer's side
    bound       \* one of Bounds

driver == <<conn, listening, got, clean, bound>>
vars == <<driver, tx, rx, peer>>

Closed(opened) == [st |-> "closed", opened |-> opened, used |-> 0, fwd |-> 0, sent |-> 0,
                   alloc |-> 0, acked |-> 0, taken |-> 0]

Init ==
    /\ conn = NoConn /\ listening = FALSE /\ tx = <<>> /\ rx = <<>> /\ got = <<>> /\ clean = TRUE
    /\ peer = Closed(0) /\ bound \in Bounds

-----------------------------------------------------------------------------
(******************************* RingBuffer *********************************)

RingNew == [buffer |-> [i \in 0 .. CAP - 1 |-> 0], used |-> 0, start |-> 0]

Contents(r) == [i \in 1 .. r.used |-> r.buffer[(r.start + i - 1) % CAP]]

RingFree(r) == CAP - r.used

\* Mutant: the copy after the wraparound goes on behind the end of the first one.
RingAddNoWrap(r, bytes) ==
    [r EXCEPT !.used = @ + Len(bytes),
        !.buffer = [i \in 0 .. CAP - 1 |->
            LET k == i - ((r.start + r.used) % CAP)
            IN  IF k \in 0 .. Len(bytes) - 1 THEN bytes[k + 1] ELSE r.buffer[i]]]

\* add, when the bytes fit: up to the end of the buffer, the rest at its start.
RingAdd(r, bytes) ==
    LET first == (r.start + r.used) % CAP
        before == IF Len(bytes) < CAP - first THEN Len(bytes) ELSE CAP - first
    IN  [r EXCEPT !.used = @ + Len(bytes),
            !.buffer = [i \in 0 .. CAP - 1 |->
                IF i \in first .. first + before - 1 THEN bytes[i - first + 1]
                ELSE IF i < Len(bytes) - before THEN bytes[before + i + 1] ELSE r.buffer[i]]]

\* drain: how much, what, and what is left.
DrainCount(r, len) == IF len < r.used THEN len ELSE r.used

Drained(r, len) ==
    LET n == DrainCount(r, len)
        before == IF n < CAP - r.start THEN n ELSE CAP - r.start
    IN  [i \in 1 .. before |-> r.buffer[r.start + i - 1]]
            \o [i \in 1 .. n - before |-> r.buffer[i - 1]]

RingDrain(r, len) ==
    [r EXCEPT !.used = @ - DrainCount(r, len), !.start = (@ + DrainCount(r, len)) % CAP]

-----------------------------------------------------------------------------
(****************************** ConnectionInfo ******************************)

\* Connection::new: the peer's credit is unknown, taken as none.
NewConnection ==
    [open |-> TRUE, peer_buf_alloc |-> 0, peer_fwd_cnt |-> 0, tx_cnt |-> 0, fwd_cnt |-> 0,
     pending |-> FALSE, buffer |-> RingNew, established |-> FALSE, shutdown |-> FALSE]

\* new_header with an operation.
Header(c, op, n) == [op |-> op, len |-> n, alloc |-> CAP, fwd |-> c.fwd_cnt]

PeerFree(c) == (c.peer_buf_alloc - (c.tx_cnt - c.peer_fwd_cnt)) % W

\* Mutant: a credit update leaves has_pending_credit_request set.
UpdateForEventKeeps(c, p) ==
    [c EXCEPT !.peer_buf_alloc = p.alloc, !.peer_fwd_cnt = p.fwd]

UpdateForEvent(c, p) ==
    [c EXCEPT !.peer_buf_alloc = p.alloc, !.peer_fwd_cnt = p.fwd,
              !.pending = @ /\ p.op # "CreditUpdate"]

\* The connection leaves the list, and the histories with it.
Forget == conn' = NoConn /\ got' = <<>> /\ clean' = TRUE

\* send_packet_to_tx_queue
SendPacket(p) == tx' = Append(tx, p)

-----------------------------------------------------------------------------
(******************************* the client *********************************)

Listen == listening' = TRUE /\ UNCHANGED <<conn, got, clean, tx, rx, peer, bound>>

Unlisten == listening' = FALSE /\ UNCHANGED <<conn, got, clean, tx, rx, peer, bound>>

\* Len(tx) < MaxTx bounds what the client can have under way.
Connect ==
    /\ Len(tx) < MaxTx /\ peer.opened < bound.opened
    /\ ~conn.open                       \* else ConnectionExists
    /\ conn' = NewConnection /\ got' = <<>>
    /\ clean' = (tx = <<>> /\ rx = <<>> /\ peer.st = "closed")
    /\ SendPacket(Header(NewConnection, "Request", 0))
    /\ UNCHANGED <<bound, listening, rx, peer>>

\* Mutant: the bytes under way are not counted.
SendUncounted(n) ==
    /\ Len(tx) < MaxTx /\ conn.open /\ ~conn.shutdown
    /\ PeerFree(conn) >= n
    /\ SendPacket(Header(conn, "Rw", n))
    /\ UNCHANGED <<bound, conn, listening, got, clean, rx, peer>>

\* send: the bytes are counted and go out ...
Send(n) ==
    /\ Len(tx) < MaxTx /\ conn.open /\ ~conn.shutdown
    /\ PeerFree(conn) >= n
    /\ conn' = [conn EXCEPT !.tx_cnt = (@ + n) % W]
    /\ SendPacket(Header(conn, "Rw", n))
    /\ UNCHANGED <<bound, listening, got, clean, rx, peer>>

\* ... or, as the peer has no room for them, a credit request if there is none.
SendInsufficient(n) ==
    /\ Len(tx) < MaxTx /\ conn.open /\ ~conn.shutdown
    /\ PeerFree(conn) < n /\ ~conn.pending
    /\ SendPacket(Header(conn, "CreditRequest", 0))
    /\ conn' = [conn EXCEPT !.pending = TRUE]
    /\ UNCHANGED <<bound, listening, got, clean, rx, peer>>

\* recv, which also ends a connection the peer has shut down once it is drained.
Recv(len) ==
    /\ Len(tx) < MaxTx /\ conn.open /\ conn.buffer.used > 0
    /\ LET new == [conn EXCEPT !.buffer = RingDrain(@, len),
                               !.fwd_cnt = (@ + DrainCount(conn.buffer, len)) % W]
       IN  IF conn.shutdown /\ new.buffer.used = 0
           THEN SendPacket(Header(new, "Rst", 0)) /\ Forget
           ELSE /\ conn' = new /\ got' = got \o Drained(conn.buffer, len)
                /\ UNCHANGED <<tx, clean>>
    /\ UNCHANGED <<bound, listening, rx, peer>>

UpdateCredit ==
    /\ Len(tx) < MaxTx /\ conn.open /\ ~conn.shutdown
    /\ SendPacket(Header(conn, "CreditUpdate", 0))
    /\ UNCHANGED <<driver, rx, peer>>

Shutdown ==
    /\ Len(tx) < MaxTx /\ conn.open
    /\ SendPacket(Header(conn, "Shutdown", 0))
    /\ UNCHANGED <<driver, rx, peer>>

ForceClose ==
    /\ Len(tx) < MaxTx /\ conn.open
    /\ SendPacket(Header(conn, "Rst", 0)) /\ Forget
    /\ UNCHANGED <<bound, listening, rx, peer>>

-----------------------------------------------------------------------------
(********************************** poll ************************************)

\* VsockEvent::from_header: an operation that is none fails, and so does a body on
\* anything but Rw.
FromHeader(p) == p.op # "Invalid" /\ (p.op # "Rw" => p.body = <<>>)

\* The callback: the connection the event is for.  A request makes one; any other
\* event without a connection is ignored.
ForEvent(p) == IF conn.open THEN conn ELSE IF p.op = "Request" THEN NewConnection ELSE NoConn

\* ... updated, with the body in its buffer.
Received(c, p) ==
    LET u == UpdateForEvent(c, p)
    IN  IF p.op = "Rw" THEN [u EXCEPT !.buffer = RingAdd(@, p.body)] ELSE u

\* What poll does with the event after the callback.
React(c, p) ==
    CASE p.op = "Request" ->
           IF listening
           THEN conn' = [c EXCEPT !.established = TRUE] /\ SendPacket(Header(c, "Response", 0))
           ELSE conn' = NoConn /\ SendPacket(Header(c, "Rst", 0))
      [] p.op = "Response" -> conn' = [c EXCEPT !.established = TRUE] /\ UNCHANGED tx
      [] p.op \in {"Rst", "Shutdown"} ->
           IF c.buffer.used = 0
           THEN /\ conn' = NoConn
                /\ IF p.op = "Shutdown" THEN SendPacket(Header(c, "Rst", 0)) ELSE UNCHANGED tx
           ELSE conn' = [c EXCEPT !.shutdown = TRUE] /\ UNCHANGED tx
      [] p.op = "CreditRequest" -> conn' = c /\ SendPacket(Header(c, "CreditUpdate", 0))
      [] OTHER -> conn' = c /\ UNCHANGED tx

\* OwningQueue::poll: the buffer is taken, handled and goes back, also when the
\* handler fails: a malformed packet, or a body that does not fit (whose header has
\* already updated the connection).
Poll ==
    /\ rx # <<>> /\ rx' = Tail(rx)
    /\ LET p == Head(rx)
           c == ForEvent(p)
       IN  IF ~FromHeader(p) \/ ~c.open
           THEN UNCHANGED <<conn, tx, got, clean>>
           ELSE IF p.op = "Rw" /\ Len(p.body) > RingFree(c.buffer)
           THEN conn' = UpdateForEvent(c, p) /\ UNCHANGED <<tx, got, clean>>
           ELSE /\ React(Received(c, p), p)
                /\ got' = IF conn'.open THEN got ELSE <<>>
                /\ clean' = IF p.op # "Request" THEN clean \/ ~conn'.open ELSE 
                                ~conn'.open \/ (~conn.open /\ tx = <<>> /\ peer.st = "req")
    /\ UNCHANGED <<bound, listening, peer>>

-----------------------------------------------------------------------------
(***************************** the peer (external) **************************)

Bytes(n) == [i \in 1 .. n |-> <<peer.opened, peer.sent + i>>]

Packet(q, op, body) == [op |-> op, body |-> body, alloc |-> PBUF, fwd |-> q.fwd]

Reply(q, op) == rx' = Append(rx, Packet(q, op, <<>>)) /\ peer' = q

PeerRequest ==
    /\ peer.st = "closed" /\ peer.opened < bound.opened /\ Len(rx) < RxBuffers
    /\ Reply([Closed(peer.opened + 1) EXCEPT !.st = "req"], "Request")
    /\ UNCHANGED <<driver, tx>>

PeerSend(n) ==
    /\ peer.st = "open" /\ Len(rx) < RxBuffers /\ peer.sent + n <= bound.from
    /\ (peer.alloc - (peer.sent - peer.acked)) % W >= n
    /\ rx' = Append(rx, Packet(peer, "Rw", Bytes(n)))
    /\ peer' = [peer EXCEPT !.sent = @ + n]
    /\ UNCHANGED <<driver, tx>>

PeerRead ==
    /\ peer.used > 0
    /\ peer' = [peer EXCEPT !.used = @ - 1, !.fwd = (@ + 1) % W]
    /\ UNCHANGED <<driver, tx, rx>>

PeerAsks ==
    /\ peer.st = "open" /\ Len(rx) < RxBuffers /\ peer.sent > peer.acked /\ Len(tx) < MaxTx
    /\ Reply(peer, "CreditRequest")
    /\ UNCHANGED <<driver, tx>>

PeerCloses ==
    /\ peer.st = "open" /\ Len(rx) < RxBuffers
    /\ \/ Reply([peer EXCEPT !.st = "shut"], "Shutdown")
       \/ Reply(Closed(peer.opened), "Rst")
    /\ UNCHANGED <<driver, tx>>

\* A packet the driver cannot decode.
DeviceMalformed ==
    /\ rx = <<>> /\ rx' = <<Packet(peer, "Invalid", <<>>)>>
    /\ UNCHANGED <<driver, tx, peer>>

\* The peer takes a packet.  One that does not belong to its connection is answered
\* with a reset, or ignored while the peer waits for an answer of its own.
PeerTake ==
    /\ tx # <<>> /\ tx' = Tail(tx) /\ Len(rx) < RxBuffers
    /\ LET p == Head(tx)
           q == [peer EXCEPT !.alloc = p.alloc, !.acked = p.fwd]
           drop == UNCHANGED <<peer, rx>>
       IN  CASE p.op = "Rst" -> peer' = Closed(peer.opened) /\ UNCHANGED rx
             [] p.op = "Request" ->
                  IF peer.st = "closed" /\ peer.opened < bound.opened
                  THEN Reply([Closed(peer.opened + 1) EXCEPT !.st = "open",
                                 !.alloc = p.alloc, !.acked = p.fwd], "Response")
                  ELSE Reply(Closed(peer.opened), "Rst")
             [] p.op = "Response" /\ peer.st = "req" ->
                  peer' = [q EXCEPT !.st = "open"] /\ UNCHANGED rx
             [] p.op = "Shutdown" /\ peer.st = "open" -> Reply(Closed(peer.opened), "Rst")
             [] p.op = "CreditUpdate" /\ peer.st = "open" -> peer' = q /\ UNCHANGED rx
             [] p.op = "CreditRequest" /\ peer.st = "open" -> Reply(q, "CreditUpdate")
             [] p.op = "Rw" /\ peer.st = "open" ->
                  /\ peer' = [q EXCEPT !.used = @ + p.len, !.taken = @ + p.len] /\ UNCHANGED rx
             [] p.op \notin {"Rst", "Request"} /\ peer.st \in {"req", "shut"} -> drop
             [] OTHER -> Reply(Closed(peer.opened), "Rst")
    /\ UNCHANGED driver

-----------------------------------------------------------------------------
\* peer.taken, with what is under way, bounds the bytes the client sends.
Client ==
    \/ Listen \/ Unlisten \/ Connect \/ UpdateCredit \/ Shutdown \/ ForceClose
    \/ \E n \in 1 .. PBUF : (peer.taken + n <= bound.to /\ Send(n)) \/ SendInsufficient(n)
    \/ \E n \in 1 .. CAP : Recv(n)

Peer ==
    \/ PeerRequest \/ PeerRead \/ PeerAsks \/ PeerCloses \/ PeerTake \/ DeviceMalformed
    \/ \E n \in 1 .. CAP : PeerSend(n)

Next == Client \/ Poll \/ Peer

\* The client polls; the device passes the packets on.
Fairness == WF_vars(Poll) /\ SF_vars(PeerTake)

Spec == Init /\ [][Next]_vars /\ Fairness

-----------------------------------------------------------------------------
(******************************** properties ********************************)

InFlight == FoldSeq(LAMBDA p, n : n + (IF p.op = "Rw" THEN p.len ELSE 0), 0, tx)

\* What a client reads, followed by what is buffered, is what the peer sent on one
\* connection, from its first byte on: nothing is lost, repeated, reordered or left
\* over in the ring buffer, across its wraparound and that of the counters.
BytesInOrder ==
    clean /\ conn.open =>
        LET all == got \o Contents(conn.buffer)
        IN  \A i \in 1 .. Len(all) : all[i] = <<all[1][1], i>>

\* The advertised credit is honest both ways.  The peer is never sent more than it
\* has allocated, however old the credit the driver knows of; and what a peer sends
\* within its credit always fits, so poll() does not fail and drop it.
CreditHonest ==
    clean /\ conn.open =>
        /\ peer.st = "open" => InFlight + peer.used <= PBUF
        /\ rx # <<>> /\ Head(rx).op = "Rw" => Len(Head(rx).body) <= RingFree(conn.buffer)

\* The client waits for credit: its request is not answered, and it does not know that
\* the connection is gone.  As send() asks only once, a client that waits for room would
\* wait for ever if this did not end.
CreditAwaited == clean /\ conn.open /\ conn.pending /\ ~conn.shutdown
=============================================================================
