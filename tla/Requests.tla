------------------------------ MODULE Requests ------------------------------
(***************************************************************************)
(* Requests to block, entropy, clock and 9p devices: the blocking ones of  *)
(* all four drivers, and read_blocks_nb/write_blocks_nb of VirtIOBlk with  *)
(* their completions, over one queue, with a device that handles what it   *)
(* holds in any order and may refuse.                                      *)
(*                                                                         *)
(* The owner of a driver makes one call at a time (&mut self), and it may  *)
(* make a blocking one while non-blocking ones are on their way.           *)
(***************************************************************************)
EXTENDS Naturals, Sequences, FiniteSets, TLC, DriverQueue

CONSTANTS
    Worlds,         \* records of: the driver's kind, its queue's size, whether buffers are
                    \* indirect and FLUSH negotiated, requests made, and statuses of errors
    Slots,          \* buffers of the caller for non-blocking requests
    Sectors, Values

VARIABLES
    world,          \* the world a behaviour is about
    q,              \* request queue
    req,            \* the caller's buffers: slots, and "call" for a blocking request
    sent,           \* requests made
    disk,           \* device: sectors of the disk
    truth           \* history: what the device did for a request

vars == <<world, q, req, sent, disk, truth>>

Bufs == Slots \union {"call"}

-----------------------------------------------------------------------------
(************************** requests and responses *************************)

\* Status bytes of the devices, as virtio numbers them; 9 is any other.
BlkStatus == 0 .. 4
RtcStatus == {0, 2, 3, 4, 5, 9}

BlkResult(s) ==
    CASE s = 0 -> "ok" [] s = 1 -> "io" [] s = 2 -> "unsupported" [] s = 3 -> "not_ready" [] OTHER -> "io"

RtcResult(s) ==
    CASE s = 0 -> "ok" [] s = 2 -> "unsupported" [] s \in {3, 4} -> "invalid" [] OTHER -> "io"

\* The size a 9p message starts with has to be the length the device has used.
P9Result(r) == IF r.size = r.len THEN "ok" ELSE "io"

\* The five clocks and the variants of smearing; other numbers are unsupported.
Clocks == <<"utc", "tai", "monotonic", "smeared", "maybe_smeared">>
Smearings == <<"unspecified", "noon_linear", "utc_sls">>

ClockCap(clock, smear) ==
    CASE clock >= Len(Clocks) -> "unsupported"
      [] clock < Len(Clocks) /\ Clocks[clock + 1] # "smeared" -> <<Clocks[clock + 1], "unspecified">>
      [] OTHER -> IF smear >= Len(Smearings) THEN "unsupported"
                  ELSE <<Clocks[clock + 1], Smearings[smear + 1]>>

\* Buffers of a chain: a request, data in or out, a status.
Chain(op) ==
    CASE op \in {"read", "write", "get_id"} -> 3 [] op = "entropy" -> 1 [] OTHER -> 2

-----------------------------------------------------------------------------
(******************************** the driver *******************************)

Free == [st |-> "free", op |-> "", sector |-> 0, val |-> "", tok |-> 0, id |-> 0, res |-> ""]

\* Mutant: the request goes out with the sector of the one before.
SendSameSector(b, op, sec, v) ==
    /\ sent < world.requests /\ CanAdd(q, Chain(op)) /\ sent' = sent + 1
    /\ req' = [req EXCEPT ![b] = [st |-> "posted", op |-> op, sector |-> sec, val |-> v, tok |-> Token(q),
                                  id |-> sent + 1, res |-> ""]]
    /\ q' = AddChain(q, Chain(op), [buf |-> b, id |-> sent + 1, op |-> op, sector |-> req[b].sector, val |-> v])
    /\ UNCHANGED <<world, disk, truth>>

\* The buffers of b are filled in and given to the queue; a full queue refuses.
Send(b, op, sec, v) ==
    /\ sent < world.requests /\ CanAdd(q, Chain(op)) /\ sent' = sent + 1
    /\ req' = [req EXCEPT ![b] = [st |-> "posted", op |-> op, sector |-> sec, val |-> v, tok |-> Token(q),
                                  id |-> sent + 1, res |-> ""]]
    /\ q' = AddChain(q, Chain(op), [buf |-> b, id |-> sent + 1, op |-> op, sector |-> sec, val |-> v])
    /\ UNCHANGED <<world, disk, truth>>

\* No call is in progress.
Idle == req["call"].st # "posted"
Usable(b) == req[b].st \in {"free", "done"}

ReadBlocksNb ==
    \E s \in Slots, sec \in Sectors : world.kind = "blk" /\ Idle /\ Usable(s) /\ Send(s, "read", sec, "")
WriteBlocksNb ==
    \E s \in Slots, sec \in Sectors, v \in Values : world.kind = "blk" /\ Idle /\ Usable(s) /\ Send(s, "write", sec, v)

ReadBlocks == \E sec \in Sectors : world.kind = "blk" /\ Idle /\ Send("call", "read", sec, "")
WriteBlocks == \E sec \in Sectors, v \in Values : world.kind = "blk" /\ Idle /\ Send("call", "write", sec, v)
Flush == world.kind = "blk" /\ world.flush /\ Idle /\ Send("call", "flush", 0, "")
DeviceId == world.kind = "blk" /\ Idle /\ Send("call", "get_id", 0, "")
RequestEntropy == world.kind = "rng" /\ Idle /\ Send("call", "entropy", 0, "")
NumClocks == world.kind = "rtc" /\ Idle /\ Send("call", "cfg", 0, "")
ReadClockCap == world.kind = "rtc" /\ Idle /\ Send("call", "cap", 0, "")
ReadClock == world.kind = "rtc" /\ Idle /\ Send("call", "clock", 0, "")
P9Request == world.kind = "9p" /\ Idle /\ Send("call", "message", 0, "")

\* What the caller is told, and the data it finds in its buffer.
Result(op, r) ==
    CASE op \in {"read", "write", "flush", "get_id"} -> [err |-> BlkResult(r.status), data |-> r.data]
      [] op \in {"cfg", "clock"} -> [err |-> RtcResult(r.status), data |-> r.data]
      [] op = "cap" ->
            IF RtcResult(r.status) # "ok" THEN [err |-> RtcResult(r.status), data |-> ""]
            ELSE LET c == ClockCap(r.clock, r.smear)
                 IN  IF c = "unsupported" THEN [err |-> c, data |-> ""] ELSE [err |-> "ok", data |-> c]
      [] op = "message" -> [err |-> P9Result(r), data |-> r.data]
      [] op = "entropy" -> [err |-> "ok", data |-> r.data]

Finish(b) ==
    /\ q' = PopUsed(q)
    /\ req' = [req EXCEPT ![b].st = "done", ![b].res = Result(req[b].op, Response(q))]
    /\ UNCHANGED <<world, sent, disk, truth>>

\* complete_read_blocks and complete_write_blocks; called too early, or out of the
\* device's order, they return an error and can be called again.
CompleteReadBlocks ==
    \E s \in Slots : Idle /\ req[s].st = "posted" /\ req[s].op = "read" /\ Pops(q, req[s].tok) /\ Finish(s)
CompleteWriteBlocks ==
    \E s \in Slots : Idle /\ req[s].st = "posted" /\ req[s].op = "write" /\ Pops(q, req[s].tok) /\ Finish(s)

\* add_notify_wait_pop: when some chain has been used, the caller's own is popped;
\* if it was another one, the call returns and its buffers stay with the device.
WaitPop ==
    /\ req["call"].st = "posted" /\ CanPop(q)
    /\ \/ Pops(q, req["call"].tok) /\ Finish("call")
       \/ /\ ~Pops(q, req["call"].tok)
          /\ req' = [req EXCEPT !["call"].st = "lost", !["call"].res = [err |-> "wrong_token", data |-> ""]]
          /\ UNCHANGED <<world, q, sent, disk, truth>>

-----------------------------------------------------------------------------
(******************************** the device *******************************)

\* What the device may answer to a request that it carries out: the data and how
\* it is encoded.
Answers(c) ==
    CASE c.op = "read" -> {[status |-> 0, data |-> disk[c.sector]]}
      [] c.op \in {"write", "flush"} -> {[status |-> 0, data |-> c.val]}
      [] c.op \in {"get_id", "cfg", "clock"} -> {[status |-> 0, data |-> "info"]}
      [] c.op = "cap" -> {[status |-> 0, clock |-> k, smear |-> m, data |-> <<Clocks[k + 1],
                           IF k = 3 THEN Smearings[m + 1] ELSE "unspecified">>] : k \in 0 .. 4, m \in 0 .. 2}
      [] c.op = "message" -> {[size |-> 2, len |-> 2, data |-> "reply"]}
      [] c.op = "entropy" -> {[len |-> 2, data |-> "random"]}

Refusals(c) ==
    CASE c.op \in {"read", "write", "flush", "get_id"} -> {[status |-> s, data |-> "junk"] : s \in BlkStatus \cap world.statuses}
      [] c.op \in {"cfg", "clock"} -> {[status |-> s, data |-> "junk"] : s \in RtcStatus \cap world.statuses}
      [] c.op = "cap" -> {[status |-> s, clock |-> 0, smear |-> 0, data |-> "junk"] : s \in RtcStatus \cap world.statuses}
      [] c.op = "message" -> {[size |-> 2, len |-> 1, data |-> "junk"]}
      [] c.op = "entropy" -> {}

NotDone == [done |-> FALSE, op |-> "", sector |-> 0, data |-> ""]

DeviceHandles ==
    \E t \in Held(q) : LET c == q.chains[t].about
                       IN  \E r \in Answers(c) :
        /\ q' = Use(q, t, r)
        /\ disk' = IF c.op = "write" THEN [disk EXCEPT ![c.sector] = c.val] ELSE disk
        /\ truth' = [truth EXCEPT ![c.id] = [done |-> TRUE, op |-> c.op, sector |-> c.sector, data |-> r.data]]
        /\ UNCHANGED <<world, req, sent>>

DeviceRefuses ==
    \E t \in Held(q) : LET c == q.chains[t].about
                       IN  \E r \in Refusals(c) :
        /\ q' = Use(q, t, r)
        /\ truth' = [truth EXCEPT ![c.id] = NotDone]
        /\ UNCHANGED <<world, req, sent, disk>>

Init ==
    /\ world \in Worlds /\ q = NewVirtQueue(world.size, world.indirect)
    /\ req = [b \in Bufs |-> Free] /\ sent = 0
    /\ disk = [s \in Sectors |-> "zero"]
    /\ truth = [i \in 1 .. world.requests |-> NotDone]

Next ==
    \/ ReadBlocksNb \/ WriteBlocksNb \/ CompleteReadBlocks \/ CompleteWriteBlocks
    \/ ReadBlocks \/ WriteBlocks \/ Flush \/ DeviceId
    \/ RequestEntropy \/ NumClocks \/ ReadClockCap \/ ReadClock \/ P9Request
    \/ WaitPop \/ DeviceHandles \/ DeviceRefuses

Spec == Init /\ [][Next]_vars

-----------------------------------------------------------------------------
(******************************** properties *******************************)

\* A request that is reported a success has been carried out, by this device on
\* the sector asked for, and the data found in the buffer is what the device
\* wrote for this request, however many are under way and in whatever order they
\* complete (complete_read_blocks, request_read, VirtIORtc::request and the rest).
OkMeansDone ==
    \A b \in Bufs : req[b].st = "done" /\ req[b].res.err = "ok" =>
        truth[req[b].id] = [done |-> TRUE, op |-> req[b].op, sector |-> req[b].sector, data |-> req[b].res.data]
=============================================================================
