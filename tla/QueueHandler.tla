---------------------------- MODULE QueueHandler ----------------------------
(***************************************************************************)
(* The handler thread of gpu-wddm/src/queue.rs: one loop that waits for    *)
(* the first of six events and serves the control and the cursor queue.    *)
(* Requests and responses are counted here; AsyncQueue and DeviceQueue     *)
(* model one channel and one queue in detail.  The events are auto-reset,  *)
(* and when several are set KeWaitForMultipleObjects takes the one that    *)
(* comes first in the select! list.                                        *)
(***************************************************************************)
EXTENDS Integers, Sequences, Functions

CONSTANTS
    SIZE,           \* slots of each queue
    MaxRequests,        \* bound: requests sent to each queue
    MaxEvents       \* bound: kicks and configuration changes together

Queues == {"control", "cursor"}

QueueHandlerAssumption ==
    SIZE \in Nat \ {0} /\ MaxRequests \in [Queues -> Nat] /\ MaxEvents \in Nat

Irq(q) == <<q, "irq">>
Msg(q) == <<q, "msg">>
Config == <<"config", "irq">>
Stop == <<"stop", "stop">>

\* The events in the order of the select! list.
Select == <<Irq("control"), Msg("control"), Irq("cursor"), Msg("cursor"), Config, Stop>>

VARIABLES
    requested,         \* requests sent to each queue so far
    chan,           \* requests in the channel of each queue
    signalling,     \* callers that pushed and have not set the event yet
    busy,           \* requests the device works on
    used,           \* responses the handler has not taken
    isr,            \* the interrupt status register of the device
    irq,            \* GpuData::irq
    dpc,            \* the DPC is queued
    kicks,          \* kicks so far
    configs,        \* configuration changes so far
    events,         \* the events that are set
    todo,           \* what the loop does before it waits again
    state           \* "running", "stopping", "exited", "dropped"

callers == <<requested, signalling, kicks>>
hardware == <<busy, isr, configs>>
handlerVars == <<requested, chan, signalling, busy, used, isr, irq, dpc, kicks, configs, events, todo, state>>

HandlerInit ==
    /\ requested = [q \in Queues |-> 0] /\ chan = [q \in Queues |-> 0]
    /\ signalling = [q \in Queues |-> 0]
    /\ busy = [q \in Queues |-> 0] /\ used = [q \in Queues |-> 0]
    /\ isr = {} /\ irq = {} /\ dpc = FALSE /\ kicks = 0 /\ configs = 0
    /\ events = {} /\ todo = <<>> /\ state = "running"

Free(q) == SIZE - busy[q] - used[q]

-----------------------------------------------------------------------------
(* Callers, the device, the interrupt service routine and the DPC.         *)

\* QueueChannel::push_request adds the request ...
Push(q) ==
    /\ state = "running" /\ requested[q] < MaxRequests[q]
    /\ requested' = [requested EXCEPT ![q] = @ + 1]
    /\ chan' = [chan EXCEPT ![q] = @ + 1]
    /\ signalling' = [signalling EXCEPT ![q] = @ + 1]
    /\ UNCHANGED <<hardware, used, irq, dpc, kicks, events, todo, state>>

\* ... and sets the event of the queue.
SignalEvent(q) ==
    /\ signalling[q] > 0
    /\ signalling' = [signalling EXCEPT ![q] = @ - 1]
    /\ events' = events \cup {Msg(q)}
    /\ UNCHANGED <<requested, chan, hardware, used, irq, dpc, kicks, todo, state>>

\* GpuChannel::kick: the flip timer wakes the thread for both channels.
ChannelKick ==
    /\ state = "running" /\ kicks + configs < MaxEvents
    /\ kicks' = kicks + 1
    /\ events' = events \cup {Msg(q) : q \in Queues}
    /\ UNCHANGED <<requested, chan, signalling, hardware, used, irq, dpc, todo, state>>

\* QueueHandler::kick: every event but stop.
HandlerKick ==
    /\ state = "running" /\ kicks + configs < MaxEvents
    /\ kicks' = kicks + 1
    /\ events' = events \cup (Range(Select) \ {Stop})
    /\ UNCHANGED <<requested, chan, signalling, hardware, used, irq, dpc, todo, state>>

DeviceUse(q) ==
    /\ busy[q] > 0
    /\ busy' = [busy EXCEPT ![q] = @ - 1] /\ used' = [used EXCEPT ![q] = @ + 1]
    /\ isr' = isr \cup {"queue"}
    /\ UNCHANGED <<callers, chan, irq, dpc, configs, events, todo, state>>

DeviceConfig ==
    /\ kicks + configs < MaxEvents
    /\ configs' = configs + 1
    /\ isr' = isr \cup {"config"}
    /\ UNCHANGED <<callers, chan, busy, used, irq, dpc, events, todo, state>>

\* Mutant: each interrupt replaces what the DPC has not seen yet.
AckInterruptStore ==
    /\ isr # {}
    /\ irq' = isr /\ isr' = {} /\ dpc' = TRUE
    /\ UNCHANGED <<callers, chan, busy, used, configs, events, todo, state>>

\* Reading the status register clears it; the bits are added to GpuData::irq,
\* which nothing ever clears.
AckInterrupt ==
    /\ isr # {}
    /\ irq' = irq \cup isr /\ isr' = {} /\ dpc' = TRUE
    /\ UNCHANGED <<callers, chan, busy, used, configs, events, todo, state>>

HandleDpc ==
    /\ dpc /\ dpc' = FALSE
    /\ events' = events \cup (IF "queue" \in irq THEN {Irq(q) : q \in Queues} ELSE {})
                        \cup (IF "config" \in irq THEN {Config} ELSE {})
    /\ UNCHANGED <<callers, chan, hardware, used, irq, todo, state>>

-----------------------------------------------------------------------------
(* The loop of handler_thread_routine.                                     *)

\* Mutant: a queue that was full is not looked at again after its responses.
WorkResponsesOnly(e) ==
    CASE e[2] = "irq" /\ e # Config -> <<<<"responses", e[1]>>>>
      [] e = Msg("control") -> <<<<"requests", "control">>>>
      [] e = Msg("cursor") -> <<<<"responses", "cursor">>>>
      [] OTHER -> <<>>

\* What the loop does for each event.  A new cursor request makes it look for
\* responses.
Work(e) ==
    CASE e[2] = "irq" /\ e # Config -> <<<<"responses", e[1]>>, <<"requests", e[1]>>>>
      [] e = Msg("control") -> <<<<"requests", "control">>>>
      [] e = Msg("cursor") -> <<<<"responses", "cursor">>>>
      [] OTHER -> <<>>

Waiting == todo = <<>> /\ state \in {"running", "stopping"}

\* The first event of the list that is set.
FirstSet(e) ==
    \E i \in DOMAIN Select :
        /\ Select[i] = e /\ e \in events
        /\ \A j \in 1 .. i - 1 : Select[j] \notin events

WakeThread(e) ==
    /\ Waiting /\ e # Stop /\ FirstSet(e)
    /\ events' = events \ {e}
    /\ todo' = Work(e)
    /\ UNCHANGED <<callers, chan, hardware, used, irq, dpc, state>>

Doing(op, q) == todo # <<>> /\ Head(todo) = <<op, q>>

\* handle_responses takes one response after the other ...
Response(q) ==
    /\ Doing("responses", q) /\ used[q] > 0
    /\ used' = [used EXCEPT ![q] = @ - 1]
    /\ UNCHANGED <<callers, chan, hardware, irq, dpc, events, todo, state>>

\* ... until there is none.
ResponseNone(q) ==
    /\ Doing("responses", q) /\ used[q] = 0
    /\ todo' = Tail(todo)
    /\ UNCHANGED <<callers, chan, hardware, used, irq, dpc, events, state>>

\* handle_requests moves requests to the device ...
Request(q) ==
    /\ Doing("requests", q) /\ chan[q] > 0 /\ Free(q) > 0
    /\ chan' = [chan EXCEPT ![q] = @ - 1] /\ busy' = [busy EXCEPT ![q] = @ + 1]
    /\ UNCHANGED <<callers, used, isr, configs, irq, dpc, events, todo, state>>

\* ... until the channel is empty or no slot is free.
RequestNone(q) ==
    /\ Doing("requests", q) /\ (chan[q] = 0 \/ Free(q) = 0)
    /\ todo' = Tail(todo)
    /\ UNCHANGED <<callers, chan, hardware, used, irq, dpc, events, state>>

\* Mutant: the event of the stop request leads to another round of the loop.
ExitLater ==
    /\ Waiting /\ FirstSet(Stop)
    /\ events' = events \ {Stop}
    /\ UNCHANGED <<callers, chan, hardware, used, irq, dpc, todo, state>>

\* The stop event, last in the list, ends the loop.
Exit ==
    /\ Waiting /\ FirstSet(Stop)
    /\ events' = events \ {Stop}
    /\ state' = "exited"
    /\ UNCHANGED <<callers, chan, hardware, used, irq, dpc, todo>>

-----------------------------------------------------------------------------
(* Drop for QueueHandler.                                                  *)

DropStop ==
    /\ state = "running"
    /\ state' = "stopping"
    /\ events' = events \cup {Stop}
    /\ UNCHANGED <<callers, chan, hardware, used, irq, dpc, todo>>

\* The join returns and queue_unset takes both queues from the device.
DropUnset ==
    /\ state = "exited"
    /\ state' = "dropped"
    /\ busy' = [q \in Queues |-> 0] /\ used' = [q \in Queues |-> 0]
    /\ UNCHANGED <<callers, chan, isr, configs, irq, dpc, events, todo>>

-----------------------------------------------------------------------------
Loop ==
    \/ \E i \in DOMAIN Select : WakeThread(Select[i])
    \/ \E q \in Queues : Response(q) \/ ResponseNone(q) \/ Request(q) \/ RequestNone(q)
    \/ Exit

HandlerNext ==
    \/ \E q \in Queues : Push(q) \/ SignalEvent(q) \/ DeviceUse(q)
    \/ ChannelKick \/ HandlerKick \/ DeviceConfig \/ AckInterrupt \/ HandleDpc
    \/ Loop
    \/ DropStop \/ DropUnset

HandlerSpec == HandlerInit /\ [][HandlerNext]_handlerVars

\* The threads and the DPC are scheduled; the device answers what it was given.
HandlerFairness ==
    /\ WF_handlerVars(Loop) /\ WF_handlerVars(AckInterrupt) /\ WF_handlerVars(HandleDpc) /\ WF_handlerVars(DropUnset)
    /\ \A q \in Queues : WF_handlerVars(SignalEvent(q)) /\ WF_handlerVars(DeviceUse(q))

HandlerFairSpec == HandlerSpec /\ HandlerFairness

-----------------------------------------------------------------------------
(* Properties.                                                             *)

\* Each variable has the type of what it models.
HandlerTypeOK ==
    /\ requested \in [Queues -> Nat] /\ chan \in [Queues -> Nat] /\ signalling \in [Queues -> Nat]
    /\ busy \in [Queues -> 0 .. SIZE] /\ used \in [Queues -> 0 .. SIZE]
    /\ \A q \in Queues : Free(q) \in 0 .. SIZE
    /\ isr \subseteq {"queue", "config"} /\ irq \subseteq {"queue", "config"}
    /\ dpc \in BOOLEAN /\ kicks + configs \in 0 .. MaxEvents
    /\ events \subseteq Range(Select)
    /\ todo \in Seq({"responses", "requests"} \X Queues)
    /\ state \in {"running", "stopping", "exited", "dropped"}

\* The thread sleeps and nothing is under way that will wake it.
Parked ==
    /\ todo = <<>> /\ state = "running" /\ events = {}
    /\ isr = {} /\ ~dpc /\ \A q \in Queues : signalling[q] = 0

\* The thread never goes to sleep for good on a response of either queue: one
\* interrupt for both queues, whose DPC sets both events, is enough.
ResponsesTaken == Parked => \A q \in Queues : used[q] = 0

Sent(q) == Parked /\ chan[q] > 0 => Free(q) = 0

\* The thread never goes to sleep for good on a control request while a slot of the
\* control queue is free, also when the queue was full when the request came.
ControlRequestsSent == Sent("control")

\* The thread never sleeps for good on work that it could do.
NoWorkForgotten == HandlerTypeOK /\ ResponsesTaken /\ ControlRequestsSent

\* No cursor request is left while a slot of its queue is free, as the comments of the two cursor branches have it:
\* "- new cursor request" and "We need this in case queue was full last time we got
\* a cursor request" (queue.rs 2394, 2398).
CursorRequestsSent == Sent("cursor")

\* No control request is on its way, and the driver is not being unloaded; or it is
\* unloaded.
ControlServed == chan["control"] + busy["control"] + used["control"] = 0 /\ state = "running"
Dropped == state = "dropped"
=============================================================================
