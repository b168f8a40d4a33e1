-------------------------- MODULE FenceSubmissions --------------------------
(***************************************************************************)
(* FenceTracker, submit_fence and handle_fence_submissions                 *)
(* (gpu-wddm/src/queue.rs): a WDDM fence that is to be completed when a    *)
(* virtio fence is signalled.  A virtio fence is allocated when a request  *)
(* header is built (next_fence), and signalled by the handler thread when  *)
(* the response arrives; a caller submits a WDDM fence that waits for it.  *)
(*                                                                         *)
(* notify_dma_completed is one step here; what it does is EngineFences.    *)
(* Each loop of retain is a step, since is_ready reads the tracker while   *)
(* other threads change it.  The virtio fences waited for are ones that    *)
(* next_fence has returned: the value reaches the caller with the command  *)
(* that it submitted.                                                      *)
(***************************************************************************)
EXTENDS Integers, Sequences, FiniteSets, Functions

CONSTANTS
    Callers,        \* threads that call submit_fence
    HandlerThread,        \* the queue handler thread
    NoThread,
    MaxFence,       \* bound: virtio fences allocated
    MaxSubmit,      \* bound: WDDM fences submitted
    MaxTimeout      \* bound: times that RESPONSIVE_TIMEOUT_SEC elapse

FenceSubmissionsAssumption ==
    /\ HandlerThread \notin Callers /\ NoThread \notin Callers \cup {HandlerThread}
    /\ MaxFence \in Nat /\ MaxSubmit \in Nat /\ MaxTimeout \in Nat

Threads == Callers \cup {HandlerThread}
VirtioFences == 0 .. MaxFence - 1
DxgkFences == 1 .. MaxSubmit
Submissions == [dxgk : DxgkFences, virtio : VirtioFences]

VARIABLES
    next_fence, unsignaled,     \* FenceTracker
    fence_submissions,          \* the vector, the part of it that retain has kept included
    lock,                       \* holder of fence_submissions' lock, in retain
    scan,                       \* submissions that retain has still to look at
    resubmit,                   \* of each thread: its local `resubmit'
    stage,                         \* of each thread
    arg,                        \* of each thread: the submission or the virtio fence
    running,                    \* virtio fences whose request the device has
    answered,                   \* virtio fences whose response the handler can read
    notified,                   \* history: submissions whose WDDM fence was completed
    aged,                       \* WDDM fences whose submission is older than the timeout
    submits, timeouts

tracker == <<next_fence, unsignaled>>
queue == <<fence_submissions, lock, scan, resubmit>>
device == <<running, answered>>
bounds == <<submits, timeouts>>
submissionsVars == <<tracker, queue, device, stage, arg, notified, aged, bounds>>

NoArg == [dxgk |-> 0, virtio |-> 0]

SubmissionsInit ==
    /\ next_fence = 0 /\ unsignaled = {}
    /\ fence_submissions = <<>> /\ lock = NoThread /\ scan = <<>>
    /\ resubmit = [t \in Threads |-> <<>>]
    /\ stage = [t \in Threads |-> "idle"] /\ arg = [t \in Threads |-> NoArg]
    /\ running = {} /\ answered = {}
    /\ notified = <<>> /\ aged = {} /\ submits = 0 /\ timeouts = 0

Goto(t, l) == stage' = [stage EXCEPT ![t] = l]

\* FenceTracker::query.
Query(f) == f < next_fence /\ f \notin unsignaled

-----------------------------------------------------------------------------
(* FenceTracker::next_fence: the counter, then the set.                    *)

NextFence(t) ==
    /\ stage[t] = "idle" /\ t \in Callers /\ next_fence < MaxFence
    /\ next_fence' = next_fence + 1
    /\ arg' = [arg EXCEPT ![t].virtio = next_fence]
    /\ Goto(t, "push_unsignaled")
    /\ UNCHANGED <<unsignaled, queue, device, notified, aged, bounds>>

\* Mutant: the request is sent before the fence is in the set.
PushUnsignaledLate(t) ==
    /\ stage[t] = "push_unsignaled"
    /\ running' = running \cup {arg[t].virtio}
    /\ Goto(t, "idle")
    /\ UNCHANGED <<next_fence, unsignaled, answered, queue, arg, notified, aged, bounds>>

\* The fence is returned, and the request that carries it goes to the device.
PushUnsignaled(t) ==
    /\ stage[t] = "push_unsignaled"
    /\ unsignaled' = unsignaled \cup {arg[t].virtio}
    /\ running' = running \cup {arg[t].virtio}
    /\ Goto(t, "idle")
    /\ UNCHANGED <<next_fence, answered, queue, arg, notified, aged, bounds>>

-----------------------------------------------------------------------------
(* The device answers, and the handler signals the fence of the response.  *)

Answer(f) ==
    /\ f \in running
    /\ running' = running \ {f} /\ answered' = answered \cup {f}
    /\ UNCHANGED <<tracker, queue, stage, arg, notified, aged, bounds>>

\* response(): the handler is in handle_responses, after a wake-up.
Signal(f) ==
    /\ stage[HandlerThread] = "responses" /\ f \in answered
    /\ answered' = answered \ {f}
    /\ unsignaled' = unsignaled \ {f}
    /\ UNCHANGED <<next_fence, running, queue, stage, arg, notified, aged, bounds>>

\* The handler is woken, by the interrupt of an answer or by any of its other events.
WakeHandler ==
    /\ stage[HandlerThread] = "idle"
    /\ Goto(HandlerThread, "responses")
    /\ UNCHANGED <<tracker, queue, device, arg, notified, aged, bounds>>

\* handle_responses has read every response; every round of the handler's loop
\* ends with handle_fence_submissions.
ResponsesDone ==
    /\ stage[HandlerThread] = "responses" /\ answered = {}
    /\ Goto(HandlerThread, "lock")
    /\ UNCHANGED <<tracker, queue, device, arg, notified, aged, bounds>>

-----------------------------------------------------------------------------
(* submit_fence.                                                           *)

\* EngineState::submit (in EngineFences), then the query decides.
SubmitFence(t, f) ==
    /\ stage[t] = "idle" /\ t \in Callers /\ submits < MaxSubmit
    /\ f < next_fence
    /\ ~\E u \in Threads : stage[u] = "push_unsignaled" /\ arg[u].virtio = f
    /\ submits' = submits + 1
    /\ arg' = [arg EXCEPT ![t] = [dxgk |-> submits + 1, virtio |-> f]]
    /\ Goto(t, IF Query(f) THEN "notify" ELSE "push_submission")
    /\ UNCHANGED <<tracker, queue, device, notified, aged, timeouts>>

NotifyNow(t) ==
    /\ stage[t] = "notify"
    /\ notified' = Append(notified, arg[t])
    /\ Goto(t, "idle")
    /\ UNCHANGED <<tracker, queue, device, arg, aged, bounds>>

\* Mutant: without the trailing handle_fence_submissions.
PushSubmissionOnly(t) ==
    /\ stage[t] = "push_submission" /\ lock = NoThread
    /\ fence_submissions' = Append(fence_submissions, arg[t])
    /\ Goto(t, "idle")
    /\ UNCHANGED <<lock, scan, resubmit, tracker, device, arg, notified, aged, bounds>>

\* The submission is queued under the lock; handle_fence_submissions follows.
PushSubmission(t) ==
    /\ stage[t] = "push_submission" /\ lock = NoThread
    /\ fence_submissions' = Append(fence_submissions, arg[t])
    /\ Goto(t, "lock")
    /\ UNCHANGED <<lock, scan, resubmit, tracker, device, arg, notified, aged, bounds>>

-----------------------------------------------------------------------------
(* handle_fence_submissions.                                               *)

Lock(t) ==
    /\ stage[t] = "lock" /\ lock = NoThread
    /\ lock' = t /\ scan' = fence_submissions /\ fence_submissions' = <<>>
    /\ Goto(t, "retain")
    /\ UNCHANGED <<resubmit, tracker, device, arg, notified, aged, bounds>>

\* Mutant: a completed submission is kept.
RetainReadyKeeping(t) ==
    /\ stage[t] = "retain" /\ scan # <<>>
    /\ Query(Head(scan).virtio)
    /\ notified' = Append(notified, Head(scan))
    /\ scan' = Tail(scan) /\ fence_submissions' = Append(fence_submissions, Head(scan))
    /\ UNCHANGED <<lock, resubmit, tracker, device, stage, arg, aged, bounds>>

\* A ready submission is completed, with the lock held, and removed.
RetainReady(t) ==
    /\ stage[t] = "retain" /\ scan # <<>>
    /\ Query(Head(scan).virtio)
    /\ notified' = Append(notified, Head(scan))
    /\ scan' = Tail(scan)
    /\ UNCHANGED <<fence_submissions, lock, resubmit, tracker, device, stage, arg, aged, bounds>>

\* One that is too old is removed, to be pushed back with a new timestamp.
RetainTimeout(t) ==
    /\ stage[t] = "retain" /\ scan # <<>>
    /\ ~Query(Head(scan).virtio) /\ Head(scan).dxgk \in aged
    /\ resubmit' = [resubmit EXCEPT ![t] = Append(@, Head(scan))]
    /\ aged' = aged \ {Head(scan).dxgk}
    /\ scan' = Tail(scan)
    /\ UNCHANGED <<fence_submissions, lock, tracker, device, stage, arg, notified, bounds>>

\* Any other is kept.
RetainKeep(t) ==
    /\ stage[t] = "retain" /\ scan # <<>>
    /\ ~Query(Head(scan).virtio) /\ Head(scan).dxgk \notin aged
    /\ fence_submissions' = Append(fence_submissions, Head(scan))
    /\ scan' = Tail(scan)
    /\ UNCHANGED <<lock, resubmit, tracker, device, stage, arg, notified, aged, bounds>>

\* The lock is released ...
Unlock(t) ==
    /\ stage[t] = "retain" /\ scan = <<>>
    /\ lock' = NoThread
    /\ Goto(t, "extend")
    /\ UNCHANGED <<fence_submissions, scan, resubmit, tracker, device, arg, notified, aged, bounds>>

\* ... and taken again to push back the timed-out ones.
Extend(t) ==
    /\ stage[t] = "extend" /\ lock = NoThread
    /\ fence_submissions' = fence_submissions \o resubmit[t]
    /\ resubmit' = [resubmit EXCEPT ![t] = <<>>]
    /\ Goto(t, "idle")
    /\ UNCHANGED <<lock, scan, tracker, device, arg, notified, aged, bounds>>

\* RESPONSIVE_TIMEOUT_SEC pass: a time no call takes, so it passes between calls.
Elapse ==
    /\ \A t \in Threads : stage[t] = "idle"
    /\ fence_submissions # <<>> /\ timeouts < MaxTimeout
    /\ aged' = {s.dxgk : s \in Range(fence_submissions)}
    /\ timeouts' = timeouts + 1
    /\ UNCHANGED <<tracker, queue, device, stage, arg, notified, submits>>

-----------------------------------------------------------------------------
HandleFenceSubmissions(t) ==
    Lock(t) \/ RetainReady(t) \/ RetainTimeout(t) \/ RetainKeep(t) \/ Unlock(t) \/ Extend(t)

Step(t) ==
    \/ PushUnsignaled(t) \/ NotifyNow(t) \/ PushSubmission(t)
    \/ HandleFenceSubmissions(t)

SubmissionsNext ==
    \/ \E t \in Callers : NextFence(t) \/ \E f \in VirtioFences : SubmitFence(t, f)
    \/ \E t \in Threads : Step(t)
    \/ \E f \in VirtioFences : Answer(f) \/ Signal(f)
    \/ WakeHandler \/ ResponsesDone \/ Elapse

SubmissionsSpec == SubmissionsInit /\ [][SubmissionsNext]_submissionsVars

WakeAnswered == WakeHandler /\ answered # {}

\* Threads are scheduled, a spin lock that keeps becoming free is obtained, and the
\* device answers what it was sent and interrupts; nothing else need wake the handler.
SubmissionsFairness ==
    /\ \A t \in Threads : SF_submissionsVars(Step(t))
    /\ \A f \in VirtioFences : WF_submissionsVars(Answer(f)) /\ WF_submissionsVars(Signal(f))
    /\ WF_submissionsVars(WakeAnswered) /\ WF_submissionsVars(ResponsesDone)

SubmissionsFairSpec == SubmissionsSpec /\ SubmissionsFairness

-----------------------------------------------------------------------------
(* Properties.                                                             *)

\* Each variable has the type of the field it models.
SubmissionsTypeOK ==
    /\ next_fence \in 0 .. MaxFence /\ unsignaled \subseteq VirtioFences
    /\ fence_submissions \in Seq(Submissions) /\ scan \in Seq(Submissions)
    /\ lock \in Threads \cup {NoThread}
    /\ resubmit \in [Threads -> Seq(Submissions)]
    /\ stage \in [Threads -> {"idle", "push_unsignaled", "responses", "notify",
                           "push_submission", "lock", "retain", "extend"}]
    /\ running \subseteq VirtioFences /\ answered \subseteq VirtioFences
    /\ notified \in Seq(Submissions)
    /\ aged \subseteq DxgkFences
    /\ submits \in 0 .. MaxSubmit /\ timeouts \in 0 .. MaxTimeout

Positions(d, submissions) == {k \in DOMAIN submissions : submissions[k].dxgk = d}

PlacesIn(list, t, d, submissions) == {<<list, t, k>> : k \in Positions(d, submissions)}

Submitters(d) == {t \in Threads : stage[t] \in {"notify", "push_submission"} /\ arg[t].dxgk = d}

\* Where the submission of the WDDM fence d is: with the thread that submits it, in the
\* vector, in the part of it that retain has still to see, in the list of a thread that
\* will push it back, or in the record of completed fences.
Places(d) ==
    {<<"submitting", t, 0>> : t \in Submitters(d)}
    \cup PlacesIn("queue", NoThread, d, fence_submissions)
    \cup PlacesIn("scan", NoThread, d, scan)
    \cup (UNION {PlacesIn("resubmit", t, d, resubmit[t]) : t \in Threads})
    \cup PlacesIn("notified", NoThread, d, notified)

\* A submitted WDDM fence is completed exactly once: at any time it is in one place,
\* the submitter, the vector, a thread's resubmit list, or it has been notified.
InOnePlace == \A d \in 1 .. submits : Cardinality(Places(d)) = 1

\* A WDDM fence is completed only when the response for its virtio fence has
\* arrived: no thread can take the window between next_fence's counter and its set
\* for a signalled fence.
NotifiesSignalled ==
    notified' # notified => notified'[Len(notified')].virtio \notin running \cup answered

\* No thread is inside submit_fence or handle_fence_submissions, and the handler
\* sleeps with every response read.
Quiet == (\A t \in Threads : stage[t] \in {"idle", "push_unsignaled"}) /\ answered = {}

\* When the threads are quiet no completed virtio fence is still waited for: neither
\* a signal between the query and the push, nor one during retain, is missed.
\* (queue.rs 1620: "If virtio fence is completed, dxgk fence can be notified, and
\* there's no longer need to keep it here".)
ReadyNotKept ==
    Quiet => \A k \in 1 .. Len(fence_submissions) : ~Query(fence_submissions[k].virtio)

\* The same as long as no submission has timed out.
NoReadySubmissionKept == timeouts = 0 => ReadyNotKept

\* A submission is in one place and completed once, and none is left behind.
NotifiedOnce == SubmissionsTypeOK /\ InOnePlace /\ NoReadySubmissionKept

\* NotifiesSignalled as an action property of the whole component.
NotifiedAfterSignal == [][NotifiesSignalled]_submissionsVars

\* Every submitted WDDM fence is completed, unless a submission has timed out.
AllNotified == timeouts > 0 \/ \A d \in 1 .. submits : Positions(d, notified) # {}
=============================================================================
