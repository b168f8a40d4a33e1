----------------------------- MODULE AsyncQueue -----------------------------
(***************************************************************************)
(* AsyncQueue<T> over ArraySegQueue<T> (gpu-wddm/src/queue.rs): the        *)
(* request channel of one virtio queue.  Any number of producers push, the *)
(* queue handler thread alone pops.  A push tries the bounded lock-free    *)
(* array `fast', falls back to the unbounded list `slow', and then signals *)
(* the auto-reset event; a pop first moves the head of `slow' to the tail  *)
(* of `fast'.  Each call on `fast', `slow' and the event is one atomic     *)
(* step (crossbeam's ArrayQueue and SegQueue and the kernel's KEVENT are   *)
(* linearizable); steps of different threads interleave freely.            *)
(***************************************************************************)
EXTENDS Integers, Sequences, FiniteSets, Functions

CONSTANTS
    Producers,
    NoRequest,
    FastCap,    \* capacity of `fast' (CONTROL_FAST_QUEUE_SIZE)
    MaxPush     \* bound: pushes made by one producer

ASSUME AsyncQueueAssumption ==
    /\ FastCap \in Nat \ {0}
    /\ MaxPush \in Nat
    /\ NoRequest \notin Producers \X (1 .. MaxPush)

VARIABLES
    fast, slow,     \* the two halves of ArraySegQueue
    event,          \* AsyncQueue.event, an auto-reset (Synchronization) event
    pc,             \* of each producer: "idle", "slow" (fast was full), "set"
    pushed,         \* number of requests each producer has begun to push
    hpc,            \* of the handler: "wait", "slow_pop", "force_push", "fast_pop"
    held,           \* the handler's `v' between slow.pop and fast.force_push
    popped          \* history: the requests popped, in order

channel == <<fast, slow, event>>
producer == <<pc, pushed>>
consumer == <<hpc, held, popped>>
vars == <<channel, producer, consumer>>

Requests == Producers \X (1 .. MaxPush)

\* The request producer p is pushing, or pushed last.
Current(p) == <<p, pushed[p]>>

Init ==
    /\ fast = <<>> /\ slow = <<>> /\ event = FALSE
    /\ pc = [p \in Producers |-> "idle"]
    /\ pushed = [p \in Producers |-> 0]
    /\ hpc = "wait" /\ held = NoRequest /\ popped = <<>>

-----------------------------------------------------------------------------
(* Faulty variants of steps below, used to test the properties.            *)

\* Does not set the event for a request that spills.
PushSlowUnsignalled(p) ==
    /\ pc[p] = "slow"
    /\ slow' = Append(slow, Current(p))
    /\ pc' = [pc EXCEPT ![p] = "idle"]
    /\ UNCHANGED <<fast, event, pushed, consumer>>

\* Drops the element that force_push returns.
ForcePushDropping ==
    /\ hpc = "force_push"
    /\ held' = NoRequest
    /\ fast' = Append(IF Len(fast) < FastCap THEN fast ELSE Tail(fast), held)
    /\ hpc' = "fast_pop"
    /\ UNCHANGED <<popped, slow, event, producer>>

-----------------------------------------------------------------------------
(* AsyncQueue::push, called by request_async_buf and its siblings.         *)

PushFast(p) ==
    /\ pc[p] = "idle" /\ pushed[p] < MaxPush
    /\ pushed' = [pushed EXCEPT ![p] = @ + 1]
    /\ \/ /\ Len(fast) < FastCap
          /\ fast' = Append(fast, <<p, pushed[p] + 1>>)
          /\ pc' = [pc EXCEPT ![p] = "set"]
       \/ /\ Len(fast) = FastCap
          /\ pc' = [pc EXCEPT ![p] = "slow"]
          /\ UNCHANGED fast
    /\ UNCHANGED <<slow, event, consumer>>

PushSlow(p) ==
    /\ pc[p] = "slow"
    /\ slow' = Append(slow, Current(p))
    /\ pc' = [pc EXCEPT ![p] = "set"]
    /\ UNCHANGED <<fast, event, pushed, consumer>>

SetEvent(p) ==
    /\ pc[p] = "set"
    /\ event' = TRUE
    /\ pc' = [pc EXCEPT ![p] = "idle"]
    /\ UNCHANGED <<fast, slow, pushed, consumer>>

\* A wake-up with nothing pushed (GpuChannel::kick, called by the flip timer).
Kick ==
    /\ event' = TRUE
    /\ UNCHANGED <<fast, slow, producer, consumer>>

-----------------------------------------------------------------------------
(* The handler: woken by the event, it pops until the channel is empty.    *)

\* The wait consumes the event.
Wake ==
    /\ hpc = "wait" /\ event
    /\ event' = FALSE
    /\ hpc' = "slow_pop"
    /\ UNCHANGED <<fast, slow, producer, held, popped>>

PopSlow ==
    /\ hpc = "slow_pop"
    /\ \/ /\ slow # <<>>
          /\ held' = Head(slow) /\ slow' = Tail(slow)
          /\ hpc' = "force_push"
       \/ /\ slow = <<>>
          /\ hpc' = "fast_pop"
          /\ UNCHANGED <<held, slow>>
    /\ UNCHANGED <<fast, event, producer, popped>>

\* ArrayQueue::force_push replaces the oldest element when the array is full,
\* and returns it.
ForcePush ==
    /\ hpc = "force_push"
    /\ held' = NoRequest
    /\ \/ /\ Len(fast) < FastCap
          /\ fast' = Append(fast, held)
          /\ hpc' = "fast_pop"
          /\ UNCHANGED popped
       \/ /\ Len(fast) = FastCap
          /\ fast' = Append(Tail(fast), held)
          /\ popped' = Append(popped, Head(fast))
          /\ hpc' = "slow_pop"
    /\ UNCHANGED <<slow, event, producer>>

\* None ends handle_requests, and the thread waits again.
PopFast ==
    /\ hpc = "fast_pop"
    /\ \/ /\ fast # <<>>
          /\ fast' = Tail(fast)
          /\ popped' = Append(popped, Head(fast))
          /\ hpc' = "slow_pop"
       \/ /\ fast = <<>>
          /\ hpc' = "wait"
          /\ UNCHANGED <<fast, popped>>
    /\ UNCHANGED <<slow, event, producer, held>>

Handler == Wake \/ PopSlow \/ ForcePush \/ PopFast

Next ==
    \/ \E p \in Producers : PushFast(p) \/ PushSlow(p) \/ SetEvent(p)
    \/ Kick
    \/ Handler

Spec == Init /\ [][Next]_vars

\* A thread inside push is scheduled until it returns, and so is the handler
\* thread; no producer has to push, nobody has to kick.
Fairness ==
    /\ \A p \in Producers : WF_vars(PushSlow(p) \/ SetEvent(p))
    /\ WF_vars(Handler)

FairSpec == Spec /\ Fairness

-----------------------------------------------------------------------------
(* Properties.                                                             *)

Channel == INSTANCE RequestChannel WITH
    queued <- Range(fast) \cup Range(slow) \cup ({held} \ {NoRequest}),
    received <- popped

\* The two-level queue behaves as one channel: force_push and the spill to `slow'
\* neither lose a request nor deliver it twice, whatever the producers and the
\* handler interleave; and with a fair handler thread every pushed request is
\* delivered, since the event set after the push (AsyncQueue::push) is never missed.
RefinesFairChannel == Channel!FairSpec

\* Each variable has the type of the field it models.
TypeOK ==
    /\ fast \in Seq(Requests) /\ Len(fast) <= FastCap
    /\ slow \in Seq(Requests)
    /\ event \in BOOLEAN
    /\ pc \in [Producers -> {"idle", "slow", "set"}]
    /\ pushed \in [Producers -> 0 .. MaxPush]
    /\ hpc \in {"wait", "slow_pop", "force_push", "fast_pop"}
    /\ held \in Requests \cup {NoRequest}
    /\ popped \in Seq(Requests)

\* No lost wake-up: when the handler waits and the event is not signalled, a
\* request can be queued only if its producer has still to signal the event.
NoLostWakeup ==
    hpc = "wait" /\ ~event /\ (fast # <<>> \/ slow # <<>>)
        => \E p \in Producers : pc[p] = "set"
=============================================================================
