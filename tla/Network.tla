------------------------------- MODULE Network -------------------------------
(***************************************************************************)
(* VirtIONet over VirtIONetRaw: receive buffers that go round between the  *)
(* queue, where the token of a chain says which one was filled, and the    *)
(* owner of the driver, who recycles them in any order; and transmission,  *)
(* blocking or in two halves.  In front of every packet is a header whose  *)
(* size depends on the features negotiated.                                *)
(***************************************************************************)
EXTENDS Naturals, Sequences, FiniteSets, DriverQueue

CONSTANTS
    NetSize,    \* QUEUE_SIZE, the number of receive buffers
    TxSlots,    \* buffers for non-blocking transmission
    Lengths,    \* lengths of packets that arrive
    MaxFrames,  \* packets that arrive
    MaxRunts,   \* ... that are shorter than their header
    MaxSends

NetworkAssumption ==
    /\ NetSize \in Nat \ {0} /\ Lengths \subseteq Nat
    /\ MaxFrames \in Nat /\ MaxRunts \in Nat /\ MaxSends \in Nat

VARIABLES
    version1,       \* VERSION_1 was negotiated
    rxq, rx_buffers,    \* receive queue; buffer of each token, or NoBuffer
    mem,            \* buffers: what the device wrote into them
    user,           \* buffers the owner holds
    idx, packet_len,    \* fields of the buffers
    txq, tx,        \* transmit queue; state of the owner's buffers: packet and token
    wire,           \* device: packets sent, in its order
    frames, sends,  \* packets that arrived and were sent
    runts

rx == <<rxq, rx_buffers, mem, user, idx, packet_len>>
netVars == <<version1, rx, txq, tx, wire, frames, sends, runts>>

NoBuffer == 0
Buffers == 1 .. NetSize
legacy_header == ~version1

-----------------------------------------------------------------------------
(******************************** headers **********************************)

\* Mutant: the header always ends with num_buffers.
HdrSizeModern(legacy) == 12

\* VirtioNetHdrLegacy lacks the field num_buffers.
HdrSize(legacy) == IF legacy THEN 10 ELSE 12

\* RxBuffer::packet: the bytes after the header; what they are depends on where the
\* device put the packet.
Packet(b) ==
    [frame |-> IF mem[b].hdr = HdrSize(legacy_header) THEN mem[b].frame ELSE 0, len |-> packet_len[b]]

-----------------------------------------------------------------------------
(******************************** receiving ********************************)

\* receive_begin: the buffers have been found long enough.
ReceiveBegin(q, b) == AddChain(q, 1, b)

\* VirtIONet::new posts every buffer, and asserts that their tokens are in their order.
Posted ==
    [NewVirtQueue(NetSize, FALSE) EXCEPT
        !.free = <<>>, !.chains = [t \in 0 .. NetSize - 1 |-> [descs |-> <<t>>, about |-> t + 1]]]

\* receive_complete: pop, and the length without the header; a shorter one is an error.
PacketLen(len) == len - HdrSize(legacy_header)

CanRecv == CanPop(rxq)

\* receive takes the buffer out of the table first, and so loses it on an error.
Receive ==
    LET t == PeekUsed(rxq)
        b == rx_buffers[t]
        popped == idx[b] = t
        ok == popped /\ Response(rxq) >= HdrSize(legacy_header)
    IN  /\ CanRecv /\ rx_buffers[t] # NoBuffer
        /\ rx_buffers' = [rx_buffers EXCEPT ![t] = NoBuffer]
        /\ rxq' = IF popped THEN PopUsed(rxq) ELSE rxq
        /\ user' = IF ok THEN user \union {b} ELSE user
        /\ packet_len' = IF ok THEN [packet_len EXCEPT ![b] = PacketLen(Response(rxq))] ELSE packet_len
        /\ UNCHANGED <<version1, mem, idx, txq, tx, wire, frames, sends, runts>>

\* Mutant: the buffer is put back under the token it had.
RecycleOldToken(b) ==
    LET t == idx[b]
    IN  /\ rx_buffers' = [rx_buffers EXCEPT ![t] = b] /\ UNCHANGED idx

\* recycle_rx_buffer: the chain gets a new token, which becomes the buffer's.  If the
\* place of that token were taken, the buffer would be dropped while it is queued.
Recycle(b) ==
    LET t == Token(rxq)
    IN  IF rx_buffers[t] = NoBuffer
        THEN idx' = [idx EXCEPT ![b] = t] /\ rx_buffers' = [rx_buffers EXCEPT ![t] = b]
        ELSE UNCHANGED <<idx, rx_buffers>>

RecycleRxBuffer ==
    \E b \in user :
        /\ CanAdd(rxq, 1) /\ Recycle(b) /\ rxq' = ReceiveBegin(rxq, b) /\ user' = user \ {b}
        /\ UNCHANGED <<version1, mem, packet_len, txq, tx, wire, frames, sends, runts>>

-----------------------------------------------------------------------------
(******************************* transmitting ******************************)

CanSend == AvailableDesc(txq) >= 2

\* send puts a header in front, transmit_begin takes a buffer that has one
\* (fill_buffer_header).
TransmitBegin ==
    \E s \in TxSlots :
        /\ sends < MaxSends /\ tx[s].packet = 0 /\ tx["call"].packet = 0 /\ CanAdd(txq, 1)
        /\ sends' = sends + 1
        /\ tx' = [tx EXCEPT ![s] = [packet |-> sends + 1, tok |-> Token(txq)]]
        /\ txq' = AddChain(txq, 1, [packet |-> sends + 1, hdr |-> HdrSize(legacy_header)])
        /\ UNCHANGED <<version1, rx, wire, frames, runts>>

TransmitComplete ==
    \E s \in TxSlots :
        /\ tx[s].packet # 0 /\ tx["call"].packet = 0 /\ Pops(txq, tx[s].tok)
        /\ txq' = PopUsed(txq) /\ tx' = [tx EXCEPT ![s].packet = 0]
        /\ UNCHANGED <<version1, rx, wire, frames, sends, runts>>

\* send: two buffers, the header and the packet, and a wait.  (A call that is made
\* while non-blocking transmissions are under way is the matter of module Requests.)
Send ==
    /\ sends < MaxSends /\ DOMAIN txq.chains = {} /\ CanSend
    /\ sends' = sends + 1
    /\ tx' = [tx EXCEPT !["call"] = [packet |-> sends + 1, tok |-> Token(txq)]]
    /\ txq' = AddChain(txq, 2, [packet |-> sends + 1, hdr |-> HdrSize(legacy_header)])
    /\ UNCHANGED <<version1, rx, wire, frames, runts>>

SendReturns ==
    /\ tx["call"].packet # 0 /\ Pops(txq, tx["call"].tok)
    /\ txq' = PopUsed(txq) /\ tx' = [tx EXCEPT !["call"].packet = 0]
    /\ UNCHANGED <<version1, rx, wire, frames, sends, runts>>

-----------------------------------------------------------------------------
(******************************** the device *******************************)

\* The header of the device has num_buffers with VERSION_1 (MRG_RXBUF is never
\* negotiated).
DeviceHdr == IF version1 THEN 12 ELSE 10

DeviceDelivers ==
    \E t \in Held(rxq), n \in Lengths : LET b == rxq.chains[t].about
                                        IN
        /\ frames < MaxFrames /\ frames' = frames + 1
        /\ mem' = [mem EXCEPT ![b] = [frame |-> frames + 1, len |-> n, hdr |-> DeviceHdr]]
        /\ rxq' = Use(rxq, t, DeviceHdr + n)
        /\ UNCHANGED <<version1, rx_buffers, user, idx, packet_len, txq, tx, wire, sends, runts>>

DeviceRunt ==
    \E t \in Held(rxq) :
        /\ runts < MaxRunts /\ runts' = runts + 1
        /\ rxq' = Use(rxq, t, DeviceHdr - 1)
        /\ UNCHANGED <<version1, rx_buffers, mem, user, idx, packet_len, txq, tx, wire, frames, sends>>

DeviceSends ==
    \E t \in Held(txq) : LET c == txq.chains[t].about
                         IN
        /\ wire' = Append(wire, IF c.hdr = DeviceHdr THEN c.packet ELSE 0)
        /\ txq' = Use(txq, t, 0)
        /\ UNCHANGED <<version1, rx, tx, frames, sends, runts>>

NetInit ==
    /\ version1 \in BOOLEAN
    /\ rxq = Posted /\ rx_buffers = [t \in 0 .. NetSize - 1 |-> t + 1]
    /\ mem = [b \in Buffers |-> [frame |-> 0, len |-> 0, hdr |-> 0]]
    /\ user = {} /\ idx = [b \in Buffers |-> b - 1] /\ packet_len = [b \in Buffers |-> 0]
    /\ txq = NewVirtQueue(NetSize, FALSE) /\ tx = [s \in TxSlots \union {"call"} |-> [packet |-> 0, tok |-> 0]]
    /\ wire = <<>> /\ frames = 0 /\ sends = 0 /\ runts = 0

NetNext ==
    \/ Receive \/ RecycleRxBuffer
    \/ TransmitBegin \/ TransmitComplete \/ Send \/ SendReturns
    \/ DeviceDelivers \/ DeviceRunt \/ DeviceSends

NetSpec == NetInit /\ [][NetNext]_netVars

-----------------------------------------------------------------------------
(******************************** properties *******************************)

\* The driver's table and the queue agree: the buffer under a token is the one the
\* chain of that token points to, the device is never given a buffer that the owner
\* holds, and none is forgotten, in whatever order they are received and recycled
\* (VirtIONet::receive, recycle_rx_buffer).  The exception: a packet shorter than its
\* header costs the buffer it was in.
BuffersOwned ==
    /\ \A t \in DOMAIN rxq.chains : rx_buffers[t] = rxq.chains[t].about
    /\ \A t \in DOMAIN rx_buffers : rx_buffers[t] # NoBuffer => t \in DOMAIN rxq.chains
    /\ {rxq.chains[t].about : t \in DOMAIN rxq.chains} \cap user = {}
    /\ Cardinality(DOMAIN rxq.chains) + Cardinality(user) >= NetSize - runts

\* The packet in a received buffer is the one that arrived, with its length, and
\* every packet sent goes out whole, with either header.
FramesWhole ==
    /\ \A b \in user : Packet(b) = [frame |-> mem[b].frame, len |-> mem[b].len]
    /\ \A i \in 1 .. Len(wire) : wire[i] # 0

\* A receive buffer is at one place, with the device under its own token or with the
\* owner, and a packet is received and sent whole.
PacketsIntact == BuffersOwned /\ FramesWhole
=============================================================================
