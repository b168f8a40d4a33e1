---------------------------- MODULE DeviceQueue -----------------------------
(***************************************************************************)
(* Queue<Q, SIZE, ...> of gpu-wddm/src/queue.rs: the requests of one       *)
(* virtio queue from the channel, through the buffer slots and the         *)
(* virtqueue's descriptors, to the device and back to the callback, and    *)
(* the callers that block on a response (request_blocking_buf).            *)
(*                                                                         *)
(* The slots, the descriptor list and the indices belong to the handler    *)
(* thread, so one call of request() is one step; response() is cut where   *)
(* a blocked caller can interfere.  The channel is the one specified by    *)
(* RequestChannel (implemented by AsyncQueue).  The device takes and       *)
(* answers descriptors in any order, reading and writing the buffers of    *)
(* the slot that the descriptors point to.                                 *)
(***************************************************************************)
EXTENDS Integers, Sequences, FiniteSets, Functions

CONSTANTS
    Blocking,       \* requests whose callback is SetEvent
    Async,          \* requests with any other callback
    Nothing,
    SIZE            \* slots and descriptors (CONTROL_QUEUE_SIZE)

DeviceQueueAssumption ==
    /\ SIZE \in Nat \ {0, 1}
    /\ Blocking \cap Async = {} /\ Nothing \notin Blocking \cup Async \cup (1 .. SIZE)

Requests == Blocking \cup Async
Slots == 1 .. SIZE
Tokens == 1 .. SIZE         \* descriptor numbers; a token is the head of a chain

VARIABLES
    indirect,           \* RING_INDIRECT_DESC was negotiated
    chan,               \* requests queued in the channel
    msg, irq,           \* the events control_msg and control_irq
    free,               \* Queue.free
    inputs, outputs, callbacks, indices,        \* Queue.buffers
    descs,              \* VirtQueue: the free descriptor list
    ring,               \* token -> the chain and the slot given to the device
    used,               \* the used ring between last_used_idx and used.idx
    interrupt,          \* an interrupt is raised and its DPC has not run
    hpc, cur, callback, output,     \* handler: position, slot, taken callback, output
    status,             \* of each request, as its caller sees it
    cancel, data, done, \* BlockingBuffer of each request: cancel, data, event
    result              \* what request_blocking_buf returned to the caller

channel == <<chan, msg>>
buffers == <<free, inputs, outputs, callbacks, indices>>
virtqueue == <<descs, ring, used>>
handler == <<hpc, cur, callback, output>>
block == <<cancel, data, done>>
caller == <<status, result>>
vars == <<indirect, channel, irq, buffers, virtqueue, interrupt, handler, block, caller>>

NoEntry == [slot |-> 0, chain |-> <<>>]

Init ==
    /\ indirect \in BOOLEAN
    /\ chan = {} /\ msg = FALSE /\ irq = FALSE /\ interrupt = FALSE
    /\ free = [i \in Slots |-> i]
    /\ inputs = [i \in Slots |-> Nothing] /\ outputs = [i \in Slots |-> Nothing]
    /\ callbacks = [i \in Slots |-> Nothing] /\ indices = [t \in Tokens |-> Nothing]
    /\ descs = [t \in Tokens |-> t] /\ ring = [t \in Tokens |-> NoEntry] /\ used = <<>>
    /\ hpc = "select" /\ cur = Nothing /\ callback = Nothing /\ output = Nothing
    /\ status = [r \in Requests |-> "new"] /\ result = [r \in Requests |-> Nothing]
    /\ cancel = [r \in Requests |-> FALSE] /\ data = [r \in Requests |-> Nothing]
    /\ done = [r \in Requests |-> FALSE]

-----------------------------------------------------------------------------
(* The callers.                                                            *)

\* request_async_buf; a blocking request goes on to block.wait.
Request(r) ==
    /\ status[r] = "new"
    /\ chan' = chan \cup {r} /\ msg' = TRUE
    /\ status' = [status EXCEPT ![r] = IF r \in Blocking THEN "waiting" ELSE "sent"]
    /\ UNCHANGED <<irq, buffers, virtqueue, interrupt, handler, block, result>>

\* The wait succeeds and the response is taken; no data is an IO_DEVICE_ERROR.
Read(r) ==
    /\ status[r] = "waiting" /\ done[r]
    /\ status' = [status EXCEPT ![r] = IF data[r] = Nothing THEN "io_error" ELSE "ok"]
    /\ result' = [result EXCEPT ![r] = data[r]]
    /\ data' = [data EXCEPT ![r] = Nothing]
    /\ UNCHANGED <<channel, irq, buffers, virtqueue, interrupt, handler, cancel, done>>

\* The wait times out ...
Timeout(r) ==
    /\ status[r] = "waiting" /\ ~done[r]
    /\ status' = [status EXCEPT ![r] = "timed_out"]
    /\ UNCHANGED <<channel, irq, buffers, virtqueue, interrupt, handler, block, result>>

\* ... and the caller cancels, possibly after the response has been delivered.
Cancel(r) ==
    /\ status[r] = "timed_out"
    /\ status' = [status EXCEPT ![r] = "timeout"]
    /\ cancel' = [cancel EXCEPT ![r] = TRUE]
    /\ UNCHANGED <<channel, irq, buffers, virtqueue, interrupt, handler, data, done, result>>

-----------------------------------------------------------------------------
(* The device and the interrupt.                                           *)

\* Answers the chain t: reads the input and writes the output its descriptors
\* point to, and puts it on the used ring.
DeviceUse(t) ==
    /\ ring[t] # NoEntry
    /\ ~\E k \in 1 .. Len(used) : used[k] = t
    /\ outputs' = [outputs EXCEPT ![ring[t].slot] = inputs[ring[t].slot]]
    /\ used' = Append(used, t)
    /\ interrupt' = TRUE
    /\ UNCHANGED <<channel, irq, free, inputs, callbacks, indices, descs, ring, handler, block, caller>>

\* ack_interrupt and handle_dpc: QUEUE_INTERRUPT signals the queue's irq event.
Dpc ==
    /\ interrupt
    /\ interrupt' = FALSE /\ irq' = TRUE
    /\ UNCHANGED <<channel, buffers, virtqueue, handler, block, caller>>

-----------------------------------------------------------------------------
(* The handler thread.                                                     *)

\* A response first, then the requests that a full queue had left behind.
SelectIrq ==
    /\ hpc = "select" /\ irq
    /\ irq' = FALSE /\ hpc' = "response"
    /\ UNCHANGED <<channel, buffers, virtqueue, interrupt, cur, callback, output, block, caller>>

\* KeWaitForMultipleObjects answers the first signalled object: the irq wins.
SelectMsg ==
    /\ hpc = "select" /\ msg /\ ~irq
    /\ msg' = FALSE /\ hpc' = "request"
    /\ UNCHANGED <<chan, irq, buffers, virtqueue, interrupt, cur, callback, output, block, caller>>

\* Mutant: the slot is not put back when the channel turns out to be empty.
RequestNoneLeaking ==
    /\ hpc = "request" /\ (free = <<>> \/ chan = {})
    /\ free' = IF free = <<>> THEN free ELSE Tail(free)
    /\ hpc' = "select"
    /\ UNCHANGED <<channel, irq, inputs, outputs, callbacks, indices, virtqueue, interrupt,
                   cur, callback, output, block, caller>>

\* request() answers None: no free slot, or nothing queued (the slot is put back).
RequestNone ==
    /\ hpc = "request" /\ (free = <<>> \/ chan = {})
    /\ free' = IF free = <<>> THEN free ELSE Append(Tail(free), Head(free))
    /\ hpc' = "select"
    /\ UNCHANGED <<channel, irq, inputs, outputs, callbacks, indices, virtqueue, interrupt,
                   cur, callback, output, block, caller>>

\* Descriptors of a request: one for an indirect list, else one for each buffer.
Needed == IF indirect THEN 1 ELSE 2

\* Mutant: the last descriptors are never used.
CanAddStrict == Len(descs) > Needed

\* VirtQueue::add has room for one more request.
CanAdd == Len(descs) >= Needed

\* Mutant: the slot is recorded under its own number instead of the token.
PushToDeviceBySlot(r) ==
    /\ hpc = "request" /\ free # <<>> /\ r \in chan /\ CanAdd
    /\ LET i == Head(free)  token == Head(descs) IN
        /\ inputs' = [inputs EXCEPT ![i] = r] /\ outputs' = [outputs EXCEPT ![i] = "zeroed"]
        /\ callbacks' = [callbacks EXCEPT ![i] = r]
        /\ indices' = [indices EXCEPT ![i] = i]
        /\ ring' = [ring EXCEPT ![token] = [slot |-> i, chain |-> SubSeq(descs, 1, Needed)]]
    /\ free' = Tail(free) /\ chan' = chan \ {r}
    /\ descs' = SubSeq(descs, Needed + 1, Len(descs))
    /\ UNCHANGED <<msg, irq, used, interrupt, handler, block, caller>>

\* request() and push_to_device: the slot takes the buffers and the callback, the
\* virtqueue a chain of descriptors for them.
PushToDevice(r) ==
    /\ hpc = "request" /\ free # <<>> /\ r \in chan /\ CanAdd
    /\ LET i == Head(free)  token == Head(descs) IN
        /\ inputs' = [inputs EXCEPT ![i] = r] /\ outputs' = [outputs EXCEPT ![i] = "zeroed"]
        /\ callbacks' = [callbacks EXCEPT ![i] = r]
        /\ indices' = [indices EXCEPT ![token] = i]
        /\ ring' = [ring EXCEPT ![token] = [slot |-> i, chain |-> SubSeq(descs, 1, Needed)]]
    /\ free' = Tail(free) /\ chan' = chan \ {r}
    /\ descs' = SubSeq(descs, Needed + 1, Len(descs))
    /\ UNCHANGED <<msg, irq, used, interrupt, handler, block, caller>>

\* add fails with QueueFull: request() returns the error, with the buffers and the
\* callback left in the slot, and handle_requests continues.
PushToDeviceFull(r) ==
    /\ hpc = "request" /\ free # <<>> /\ r \in chan /\ ~CanAdd
    /\ LET i == Head(free) IN
        /\ inputs' = [inputs EXCEPT ![i] = r] /\ outputs' = [outputs EXCEPT ![i] = "zeroed"]
        /\ callbacks' = [callbacks EXCEPT ![i] = r]
    /\ free' = Tail(free) /\ chan' = chan \ {r}
    /\ UNCHANGED <<msg, irq, indices, virtqueue, interrupt, handler, block, caller>>

\* response() answers None: the used ring is empty, go on to the requests.
ResponseNone ==
    /\ hpc = "response" /\ used = <<>>
    /\ hpc' = "request"
    /\ UNCHANGED <<channel, irq, buffers, virtqueue, interrupt, cur, callback, output, block, caller>>

\* The slot of the next used chain, None if pop_from_device cannot tell it.
UsedSlot == indices[Head(used)]

\* Mutant: the chain is recycled without its continuation descriptors.
PopFromDeviceHeadOnly ==
    /\ hpc = "response" /\ used # <<>> /\ UsedSlot # Nothing
    /\ inputs[UsedSlot] # Nothing /\ outputs[UsedSlot] # Nothing
    /\ descs' = <<Head(used)>> \o descs
    /\ ring' = [ring EXCEPT ![Head(used)] = NoEntry] /\ used' = Tail(used)
    /\ indices' = [indices EXCEPT ![Head(used)] = Nothing]
    /\ cur' = UsedSlot /\ callback' = callbacks[UsedSlot]
    /\ callbacks' = [callbacks EXCEPT ![UsedSlot] = Nothing]
    /\ hpc' = "callback"
    /\ UNCHANGED <<channel, irq, free, inputs, outputs, interrupt, output, block, caller>>

\* pop_from_device, with pop_used and recycle_descriptors (the chain goes to the
\* front of the free list), and the callback taken.  When the slot is not known the
\* error makes handle_responses retry the same token for ever: no step.
PopFromDevice ==
    /\ hpc = "response" /\ used # <<>> /\ UsedSlot # Nothing
    /\ inputs[UsedSlot] # Nothing /\ outputs[UsedSlot] # Nothing
    /\ descs' = ring[Head(used)].chain \o descs
    /\ ring' = [ring EXCEPT ![Head(used)] = NoEntry] /\ used' = Tail(used)
    /\ indices' = [indices EXCEPT ![Head(used)] = Nothing]
    /\ cur' = UsedSlot /\ callback' = callbacks[UsedSlot]
    /\ callbacks' = [callbacks EXCEPT ![UsedSlot] = Nothing]
    /\ hpc' = "callback"
    /\ UNCHANGED <<channel, irq, free, inputs, outputs, interrupt, output, block, caller>>

\* mark_free(cur), with the handler going on at `next'.
MarkFree(next) ==
    /\ inputs' = [inputs EXCEPT ![cur] = Nothing] /\ outputs' = [outputs EXCEPT ![cur] = Nothing]
    /\ callbacks' = [callbacks EXCEPT ![cur] = Nothing]
    /\ free' = Append(free, cur)
    /\ cur' = Nothing /\ hpc' = next

\* Every callback but SetEvent runs and frees the slot.
CompleteAsync ==
    /\ hpc = "callback" /\ callback \in Async
    /\ status' = [status EXCEPT ![callback] = "ok"]
    /\ callback' = Nothing
    /\ MarkFree("response")
    /\ UNCHANGED <<channel, irq, indices, virtqueue, interrupt, output, block, result>>

\* SetEvent: the output is taken, and dropped when the caller has cancelled.
CompleteBlocking ==
    /\ hpc = "callback" /\ callback \in Blocking
    /\ IF cancel[callback]
       THEN MarkFree("set") /\ UNCHANGED output
       ELSE /\ hpc' = "write" /\ output' = outputs[cur]
            /\ outputs' = [outputs EXCEPT ![cur] = Nothing]
            /\ UNCHANGED <<free, inputs, callbacks, cur>>
    /\ UNCHANGED <<channel, irq, indices, virtqueue, interrupt, callback, block, caller>>

\* Mutant: the event is set before the response is written.
WriteAfterSet ==
    /\ hpc = "write"
    /\ done' = [done EXCEPT ![callback] = TRUE]
    /\ output' = Nothing
    /\ MarkFree("set")
    /\ UNCHANGED <<channel, irq, indices, virtqueue, interrupt, callback, cancel, data, caller>>

Write ==
    /\ hpc = "write"
    /\ data' = [data EXCEPT ![callback] = output]
    /\ output' = Nothing
    /\ MarkFree("set")
    /\ UNCHANGED <<channel, irq, indices, virtqueue, interrupt, callback, cancel, done, caller>>

SetEvent ==
    /\ hpc = "set"
    /\ done' = [done EXCEPT ![callback] = TRUE]
    /\ callback' = Nothing /\ hpc' = "response"
    /\ UNCHANGED <<channel, irq, buffers, virtqueue, interrupt, cur, output, cancel, data, caller>>

Handler ==
    \/ SelectIrq \/ SelectMsg
    \/ RequestNone \/ \E r \in Requests : PushToDevice(r) \/ PushToDeviceFull(r)
    \/ ResponseNone \/ PopFromDevice
    \/ CompleteAsync \/ CompleteBlocking \/ Write \/ SetEvent

Caller(r) == Read(r) \/ Timeout(r) \/ Cancel(r)

Next ==
    /\ \/ \E r \in Requests : Request(r) \/ Caller(r)
       \/ \E t \in Tokens : DeviceUse(t)
       \/ Dpc
       \/ Handler
    /\ UNCHANGED indirect

Spec == Init /\ [][Next]_vars

-----------------------------------------------------------------------------
(* Properties.                                                             *)

\* Each variable has the type of the field it models.
TypeOK ==
    /\ indirect \in BOOLEAN
    /\ chan \subseteq Requests
    /\ msg \in BOOLEAN /\ irq \in BOOLEAN /\ interrupt \in BOOLEAN
    /\ free \in Seq(Slots) /\ Len(free) <= SIZE
    /\ used \in Seq(Tokens) /\ descs \in Seq(Tokens) /\ Len(descs) <= SIZE
    /\ inputs \in [Slots -> Requests \cup {Nothing}]
    /\ outputs \in [Slots -> Requests \cup {Nothing, "zeroed"}]
    /\ callbacks \in [Slots -> Requests \cup {Nothing}]
    /\ indices \in [Tokens -> Slots \cup {Nothing}]
    /\ ring \in [Tokens -> [slot : {0} \cup Slots, chain : Seq(Tokens)]]
    /\ hpc \in {"select", "request", "response", "callback", "write", "set"}
    /\ cur \in Slots \cup {Nothing}
    /\ callback \in Requests \cup {Nothing} /\ output \in Requests \cup {Nothing, "zeroed"}
    /\ status \in [Requests -> {"new", "sent", "waiting", "timed_out", "timeout", "io_error", "ok"}]
    /\ cancel \in [Requests -> BOOLEAN] /\ done \in [Requests -> BOOLEAN]
    /\ data \in [Requests -> Requests \cup {Nothing, "zeroed"}]
    /\ result \in [Requests -> Requests \cup {Nothing, "zeroed"}]

Positions(x, s) == {k \in DOMAIN s : s[k] = x}

\* Where a slot is: at a position of `free', under a token, or in the handler's hands.
SlotPlaces(i) ==
    {<<"free", k>> : k \in Positions(i, free)}
    \cup {<<"token", t>> : t \in {u \in Tokens : indices[u] = i}}
    \cup {<<"handler", j>> : j \in {cur} \cap {i}}

\* With indirect descriptors every slot is in exactly one place.  It is what makes
\* free.push(i).unwrap() in request() and mark_free succeed and keeps the queue from
\* shrinking.
SlotsConserved == indirect => \A i \in Slots : Cardinality(SlotPlaces(i)) = 1

\* Where a descriptor is: at a position of the free list, or in the chain of a token.
DescriptorPlaces(d) ==
    {<<"free", k>> : k \in Positions(d, descs)}
    \cup {<<"chain", t>> : t \in {u \in Tokens : d \in Range(ring[u].chain)}}

\* Every descriptor is once in the free list or in one chain: recycle_descriptors
\* gives back all that add took, whatever order the device answers in.
DescriptorsConserved == \A d \in Tokens : Cardinality(DescriptorPlaces(d)) = 1

\* The contract of VirtQueue::add: until pop_used the buffers of a chain stay valid
\* and untouched in a slot that is not free, with the callback of the same request,
\* and pop_from_device will find the slot by the token.
DeviceOwnsBuffers ==
    \A t \in Tokens : ring[t] # NoEntry =>
        LET i == ring[t].slot IN
        /\ indices[t] = i /\ i \notin Range(free) /\ cur # i
        /\ inputs[i] \in Requests /\ callbacks[i] = inputs[i]
        /\ outputs[i] \in {"zeroed", inputs[i]}

\* A callback runs with the device's answer to its own request, and a blocked caller
\* never reads the response of another one, however slots and tokens are reused
\* and whatever times out.
OwnResponse ==
    /\ hpc = "callback" => outputs[cur] = callback
    /\ \A r \in Requests : result[r] \in {Nothing, r}

\* A wait that succeeds finds the response: "data is None" does not happen, although
\* a timeout, the cancellation and a late response race.
NoIoError == \A r \in Requests : status[r] # "io_error"

\* Where a request is between request_async_buf and the end of its callback.
InDevice(r) == \E t \in Tokens : ring[t] # NoEntry /\ inputs[ring[t].slot] = r
Answered(r) == IF r \in Blocking THEN done[r] ELSE status[r] = "ok"

\* A request that was sent stays in the channel, in the device or in the handler's
\* hands until its callback has run: a full queue delays it and does not lose it.
RequestsKept ==
    \A r \in Requests :
        status[r] = "new" \/ r \in chan \/ InDevice(r) \/ callback = r \/ Answered(r)

\* The same when indirect descriptors were negotiated: a request for which a slot is
\* free then always finds a descriptor.
RequestsKeptIndirect == indirect => RequestsKept

\* Slots, descriptors and tokens agree in every interleaving of timeouts and answers.
SlotsOwned ==
    /\ TypeOK /\ SlotsConserved /\ DescriptorsConserved /\ DeviceOwnsBuffers
    /\ OwnResponse /\ NoIoError /\ RequestsKeptIndirect
=============================================================================
