------------------------------- MODULE Events -------------------------------
(***************************************************************************)
(* Queues in which the device reports events: all the buffers are posted,  *)
(* a filled one is taken, read and posted again, and the driver counts on  *)
(* its getting the same token.  VirtIOInput does this itself, VirtIOSound  *)
(* and VirtIOSocket through OwningQueue.  The queries of the input device's*)
(* configuration are modelled here too.                                    *)
(***************************************************************************)
EXTENDS Naturals, Sequences, FiniteSets, DriverQueue

CONSTANTS
    EventSize,      \* QUEUE_SIZE: 32 for input, 4 .. 32 for the others
    MaxEvents,      \* events the device reports
    MaxOverlong,    \* ... with a length beyond the buffer
    Codes,          \* codes of events
    MaxQueries,
    Sizes           \* sizes of what the device has under a select

EventsAssumption ==
    /\ EventSize \in Nat \ {0} /\ Sizes \subseteq Nat
    /\ MaxEvents \in Nat /\ MaxOverlong \in Nat /\ MaxQueries \in Nat

VARIABLES
    owning,     \* the queue is an OwningQueue, not that of VirtIOInput
    queue,
    buffers,    \* the event in each buffer
    taken, pc,  \* token popped last; step of the call under way
    got,        \* events handed out
    failed,     \* an assertion on the token failed
    filled,     \* device: events, in its order
    overlong,
    config, select,     \* device: size of what it has under the select set last
    answer, queries     \* result of the last query

ring == <<queue, buffers, taken, pc, got, failed>>
device == <<filled, overlong>>
conf == <<config, select, answer, queries>>
eventsVars == <<owning, ring, device, conf>>

Tokens == 0 .. EventSize - 1

-----------------------------------------------------------------------------
(******************************* the queue *********************************)

\* OwningQueue::new and VirtIOInput::new post buffer i, and assert that its token is i.
PostedAll ==
    [NewVirtQueue(EventSize, FALSE) EXCEPT
        !.free = <<>>, !.chains = [t \in Tokens |-> [descs |-> <<t>>, about |-> t]]]

\* NotificationType::n: what latest_notification makes of an event's code.
NotificationType(code) ==
    CASE code = 4352 -> "PcmPeriodElapsed" [] code = 4353 -> "PcmXrun"
      [] code = 4096 -> "JackConnected" [] code = 4097 -> "JackDisconnected" [] OTHER -> "IoError"

\* The handler's result; VirtIOInput hands out the event as it is.
Result(e) == [n |-> e.n, type |-> IF owning THEN NotificationType(e.code) ELSE "event"]

\* Mutant: the buffer is posted again before the event in it is read.
OrderPostFirst == <<"pop", "add", "handle">>

\* poll: pop, the handler, add_buffer_to_queue; and pop_pending_event: pop_used, a
\* copy of the event, add.  The device runs in between.
Order == <<"pop", "handle", "add">>

At(what) == Order[pc] = what
Advance == pc' = IF pc = 3 THEN 1 ELSE pc + 1

\* OwningQueue::pop returns an error if the length is too long, after it has popped
\* the buffer; VirtIOInput does not look at the length.
Pop ==
    LET ok == ~owning \/ Response(queue) # "overlong"
    IN  /\ At("pop") /\ CanPop(queue)
        /\ queue' = PopUsed(queue) /\ taken' = PeekUsed(queue)
        /\ IF ok THEN Advance ELSE UNCHANGED pc
        /\ UNCHANGED <<owning, buffers, got, failed, device, conf>>

Handle ==
    /\ At("handle") /\ Advance
    /\ got' = Append(got, Result(buffers[taken]))
    /\ UNCHANGED <<owning, queue, buffers, taken, failed, device, conf>>

\* The assertion is that the token is the one the buffer had.
AddBufferToQueue ==
    /\ At("add") /\ Advance
    /\ queue' = AddChain(queue, 1, taken)
    /\ failed' = (failed \/ Token(queue) # taken)
    /\ UNCHANGED <<owning, buffers, taken, got, device, conf>>

-----------------------------------------------------------------------------
(**************************** queries of the input *************************)

IoError == 999
CONFIG_DATA_MAX_LENGTH == 128
SizeOfDevIDs == 8
SizeOfAbsInfo == 20

\* A query writes select and subsel, and reads the size and the data; out is the room
\* for them.
QueryConfigSelect(out) == [size |-> config', copied |-> IF config' < out THEN config' ELSE out]

\* Mutant: what the device has may be larger.
ExactlyLoose(out) ==
    IF QueryConfigSelect(out).size >= out THEN QueryConfigSelect(out).copied ELSE IoError

\* ids and abs_info want exactly their struct.
Exactly(out) ==
    IF QueryConfigSelect(out).size = out THEN QueryConfigSelect(out).copied ELSE IoError

\* query_config_select_alloc: all of it, in a buffer of that size.
QueryConfigSelectAlloc ==
    IF config' > CONFIG_DATA_MAX_LENGTH THEN IoError ELSE config'

Query(s) == /\ queries < MaxQueries /\ queries' = queries + 1
            /\ select' = s /\ config' \in Sizes /\ UNCHANGED <<owning, ring, device>>
Answer(a) == answer' = a

\* name and serial_number, prop_bits and ev_bits.
Name == Query("IdName") /\ Answer(QueryConfigSelectAlloc)
Bits == Query("PropBits") /\ Answer(QueryConfigSelectAlloc)
Ids == Query("IdDevids") /\ Answer(Exactly(SizeOfDevIDs))
AbsInfo == Query("AbsInfo") /\ Answer(Exactly(SizeOfAbsInfo))

-----------------------------------------------------------------------------
(******************************** the device *******************************)

DeviceReports ==
    \E t \in Held(queue), c \in Codes :
        LET e == [n |-> Len(filled) + 1, code |-> c]
        IN
        /\ Len(filled) < MaxEvents /\ filled' = Append(filled, e)
        /\ buffers' = [buffers EXCEPT ![queue.chains[t].about] = e]
        /\ queue' = Use(queue, t, "ok")
        /\ UNCHANGED <<owning, taken, pc, got, failed, overlong, conf>>

DeviceOverlong ==
    \E t \in Held(queue) :
        /\ owning /\ overlong < MaxOverlong /\ overlong' = overlong + 1
        /\ queue' = Use(queue, t, "overlong")
        /\ UNCHANGED <<owning, buffers, taken, pc, got, failed, filled, conf>>

EventsInit ==
    /\ owning \in BOOLEAN
    /\ queue = PostedAll /\ buffers = [t \in Tokens |-> [n |-> 0, code |-> 0]]
    /\ taken = 0 /\ pc = 1 /\ got = <<>> /\ failed = FALSE
    /\ filled = <<>> /\ overlong = 0
    /\ config = 0 /\ select = "None" /\ answer = IoError /\ queries = 0

EventsNext ==
    \/ Pop \/ Handle \/ AddBufferToQueue
    \/ Name \/ Bits \/ Ids \/ AbsInfo
    \/ DeviceReports \/ DeviceOverlong

EventsSpec == EventsInit /\ [][EventsNext]_eventsVars

-----------------------------------------------------------------------------
(******************************** properties *******************************)

\* The events handed out are those the device reported, in its order, one by one: a
\* buffer is read while it is the driver's, and one with a code the driver does not
\* know goes round like the others (OwningQueue::poll, pop_pending_event).
EventsInOrder == \A i \in 1 .. Len(got) : got[i] = Result(filled[i])

\* The assertions on tokens hold: a buffer that is posted again gets the token it had,
\* in whatever order the device uses them; and no buffer is lost except those with an
\* overlong length (OwningQueue::add_buffer_to_queue, pop_pending_event).
TokensKept ==
    /\ ~failed
    /\ \A t \in DOMAIN queue.chains : queue.chains[t].about = t
    /\ pc = 1 => Cardinality(DOMAIN queue.chains) >= EventSize - overlong

\* A query that succeeds has returned all that the device has under that select.
AnswerWhole == answer # IoError => answer = config

\* Events reach their owner once each, in the device's order, and their buffers stay
\* with their tokens; a configuration value is read whole.
InputInOrder == EventsInOrder /\ TokensKept /\ AnswerWhole
=============================================================================
