---------------------------- MODULE EngineFences ----------------------------
(***************************************************************************)
(* Completion of DMA fences on one GPU engine: EngineState and the         *)
(* functions notify_fence and notify_queued_fences of GpuData (queue.rs),  *)
(* with the entry points preempt_command and query_current_fence that call *)
(* into them (lib.rs).                                                     *)
(*                                                                         *)
(* The Windows GPU scheduler (VidSch) submits fences in order.  The host   *)
(* finishes the work in any order, and the threads that learn of it (the   *)
(* queue handler thread, a submitter completing a Nop or an already        *)
(* signalled fence) run notify_fence concurrently.  VidSch must be told of *)
(* completions in submission order, each exactly once.                     *)
(*                                                                         *)
(* Every atomic load, store and swap, every critical section entry and     *)
(* every call into VidSch is one step of a thread.  Engines share no state *)
(* in these functions, so one engine is modelled.                          *)
(***************************************************************************)
EXTENDS Naturals, Sequences

CONSTANTS
    Threads,      \* threads that run driver code
    Callers,      \* ... those in which VidSch calls the driver
    NoThread,     \* owner of a free lock
    U32,          \* number of values of a u32 (2^32 in the code)
    MaxSubmit,    \* bound: fences VidSch submits in a behaviour
    MaxQueued,    \* bound: fences submitted and not yet reported
    MaxPreempt,   \* bound: preemption requests in a behaviour
    MaxQuery      \* bound: calls of query_current_fence in a behaviour

ASSUME ThreadsAssumption == NoThread \notin Threads /\ Callers \subseteq Threads

ASSUME BoundsAssumption ==
    /\ U32 \in Nat /\ U32 > 1
    /\ MaxSubmit \in Nat
    /\ MaxQueued \in Nat
    /\ MaxPreempt \in Nat
    /\ MaxQuery \in Nat

VARIABLES
    last_submitted_fence,   \* EngineState.last_submitted_fence
    last_completed_fence,   \* EngineState.last_completed_fence
    last_preemption_fence,  \* EngineState.last_preemption_fence, 0 is none
    pending_fences,         \* EngineState.pending_fences: the set
    lock,                   \* ... and the thread that holds its spin lock
    running,                \* fences the host or the driver still works on
    pc,                     \* where each thread is
    last_completed,         \* local variable last_completed of each thread
    fence,                  \* local variable fence / next_fence
    preemption,             \* argument PreemptionFenceId of preempt_command
    swapped,                \* what last_preemption_fence.swap(0) returned
    then,                   \* where notify_queued_fences returns to
    submits,                \* VidSch: number of fences submitted
    reported,               \* VidSch: the DmaCompleted reports, in order
    preempts,               \* VidSch: number of preemption requests made
    preempting,             \* VidSch: the request not yet acknowledged, or 0
    queries                 \* VidSch: number of queries made

engine == <<last_submitted_fence, last_completed_fence, last_preemption_fence,
            pending_fences, lock>>
locals == <<pc, last_completed, fence, preemption, swapped, then>>
vidsch == <<submits, reported, preempts, preempting, queries>>
vars == <<engine, running, locals, vidsch>>

FenceIds == 0 .. U32 - 1

\* `x + 1` on u32: Cargo.toml turns overflow checks off, so it wraps.
WrappingSucc(x) == IF x = U32 - 1 THEN 0 ELSE x + 1

\* pending.first(): BTreeSet<u32> iterates in numeric order.
IsFirst(f, S) == f \in S /\ \A g \in S : f <= g

\* The code points at which a thread holds the lock of pending_fences.
Locked == {"nq_loop", "nq_notify", "nq_complete", "nq_submitted", "nq_swap",
           "nq_preempted"}

PCs == Locked \cup
       {"idle", "nf_load", "nf_notify", "nf_complete", "nf_insert", "nq_load",
        "nq_lock", "panic", "pr_completed", "pr_submitted", "pr_report",
        "pr_store", "qc_load"}

TypeOK ==
    /\ last_submitted_fence \in FenceIds
    /\ last_completed_fence \in FenceIds
    /\ last_preemption_fence \in Nat
    /\ pending_fences \subseteq FenceIds
    /\ lock \in Threads \cup {NoThread}
    /\ running \subseteq FenceIds
    /\ pc \in [Threads -> PCs]
    /\ last_completed \in [Threads -> FenceIds]
    /\ fence \in [Threads -> FenceIds]
    /\ preemption \in [Threads -> Nat]
    /\ swapped \in [Threads -> Nat]
    /\ then \in [Threads -> {"idle", "pr_completed", "qc_load"}]
    /\ submits \in Nat
    /\ reported \in Seq(FenceIds)
    /\ preempts \in Nat
    /\ preempting \in Nat
    /\ queries \in Nat

Init ==
    /\ last_submitted_fence = 0
    /\ last_completed_fence = 0
    /\ last_preemption_fence = 0
    /\ pending_fences = {}
    /\ lock = NoThread
    /\ running = {}
    /\ pc = [t \in Threads |-> "idle"]
    /\ last_completed = [t \in Threads |-> 0]
    /\ fence = [t \in Threads |-> 0]
    /\ preemption = [t \in Threads |-> 0]
    /\ swapped = [t \in Threads |-> 0]
    /\ then = [t \in Threads |-> "idle"]
    /\ submits = 0
    /\ reported = <<>>
    /\ preempts = 0
    /\ preempting = 0
    /\ queries = 0

Goto(t, label) == pc' = [pc EXCEPT ![t] = label]

\* VidSch's view of notify_interrupt_synchronized(DmaCompleted(f)).
ReportCompleted(f) == reported' = Append(reported, f)

-----------------------------------------------------------------------------
(* Submission: EngineState::submit, called first by every submit function. *)
(* VidSch numbers fences consecutively, and submits nothing to an engine   *)
(* it is waiting to preempt.                                               *)

Submit ==
    /\ submits < MaxSubmit
    /\ submits - Len(reported) < MaxQueued
    /\ preempting = 0
    /\ submits' = submits + 1
    /\ last_submitted_fence' = WrappingSucc(last_submitted_fence)
    /\ running' = running \cup {last_submitted_fence'}
    /\ UNCHANGED <<last_completed_fence, last_preemption_fence, pending_fences,
                   lock, locals, reported, preempts, preempting, queries>>

-----------------------------------------------------------------------------
(* notify_fence(engine, f), called once the work behind f is done.         *)

NotifyFence(t, f) ==
    /\ pc[t] = "idle"
    /\ f \in running
    /\ running' = running \ {f}
    /\ fence' = [fence EXCEPT ![t] = f]
    /\ then' = [then EXCEPT ![t] = "idle"]
    /\ Goto(t, "nf_load")
    /\ UNCHANGED <<engine, last_completed, preemption, swapped, vidsch>>

\* Mutation: any later fence is reported at once.
NfLoadSkipping(t) ==
    /\ pc[t] = "nf_load"
    /\ last_completed' = [last_completed EXCEPT ![t] = last_completed_fence]
    /\ Goto(t, IF last_completed_fence < fence[t] THEN "nf_notify" ELSE "nf_insert")
    /\ UNCHANGED <<engine, running, fence, preemption, swapped, then, vidsch>>

\* Mutation: complete() before the notification.
NfLoadCompleting(t) ==
    /\ pc[t] = "nf_load"
    /\ last_completed' = [last_completed EXCEPT ![t] = last_completed_fence]
    /\ IF WrappingSucc(last_completed_fence) = fence[t]
       THEN Goto(t, "nf_notify") /\ last_completed_fence' = fence[t]
       ELSE Goto(t, "nf_insert") /\ UNCHANGED last_completed_fence
    /\ UNCHANGED <<last_submitted_fence, last_preemption_fence, pending_fences,
                   lock, running, fence, preemption, swapped, then, vidsch>>

NfLoad(t) ==
    /\ pc[t] = "nf_load"
    /\ last_completed' = [last_completed EXCEPT ![t] = last_completed_fence]
    /\ Goto(t, IF WrappingSucc(last_completed_fence) = fence[t]
               THEN "nf_notify" ELSE "nf_insert")
    /\ UNCHANGED <<engine, running, fence, preemption, swapped, then, vidsch>>

NfNotify(t) ==
    /\ pc[t] = "nf_notify"
    /\ ReportCompleted(fence[t])
    /\ Goto(t, "nf_complete")
    /\ UNCHANGED <<engine, running, last_completed, fence, preemption, swapped,
                   then, submits, preempts, preempting, queries>>

NfComplete(t) ==
    /\ pc[t] = "nf_complete"
    /\ last_completed_fence' = fence[t]
    /\ Goto(t, "nq_load")
    /\ UNCHANGED <<last_submitted_fence, last_preemption_fence, pending_fences,
                   lock, running, last_completed, fence, preemption,
                   swapped, then, vidsch>>

\* Mutation: return after the insertion, without notify_queued_fences.
NfInsertOnly(t) ==
    /\ pc[t] = "nf_insert"
    /\ lock = NoThread
    /\ pending_fences' = pending_fences \cup {fence[t]}
    /\ Goto(t, "idle")
    /\ UNCHANGED <<last_submitted_fence, last_completed_fence,
                   last_preemption_fence, lock, running, last_completed, fence,
                   preemption, swapped, then, vidsch>>

NfInsert(t) ==
    /\ pc[t] = "nf_insert"
    /\ lock = NoThread
    /\ pending_fences' = pending_fences \cup {fence[t]}
    /\ Goto(t, "nq_load")
    /\ UNCHANGED <<last_submitted_fence, last_completed_fence,
                   last_preemption_fence, lock, running, last_completed, fence,
                   preemption, swapped, then, vidsch>>

-----------------------------------------------------------------------------
(* notify_queued_fences(engine).  last_completed is loaded before the lock *)
(* is taken.                                                               *)

NqLoad(t) ==
    /\ pc[t] = "nq_load"
    /\ last_completed' = [last_completed EXCEPT ![t] = last_completed_fence]
    /\ Goto(t, "nq_lock")
    /\ UNCHANGED <<engine, running, fence, preemption, swapped, then, vidsch>>

NqLock(t) ==
    /\ pc[t] = "nq_lock"
    /\ lock = NoThread
    /\ lock' = t
    /\ Goto(t, "nq_loop")
    /\ UNCHANGED <<last_submitted_fence, last_completed_fence,
                   last_preemption_fence, pending_fences, running,
                   last_completed, fence, preemption, swapped, then, vidsch>>

\* Mutation: the fence is reported and not removed.
NqPopKeeping(t) ==
    /\ pc[t] = "nq_loop"
    /\ \E f \in pending_fences :
        /\ IsFirst(f, pending_fences)
        /\ WrappingSucc(last_completed[t]) = f
        /\ fence' = [fence EXCEPT ![t] = f]
    /\ Goto(t, "nq_notify")
    /\ UNCHANGED <<engine, running, last_completed, preemption, swapped, then,
                   vidsch>>

\* The loop finds the next fence to report.
NqPop(t) ==
    /\ pc[t] = "nq_loop"
    /\ \E f \in pending_fences :
        /\ IsFirst(f, pending_fences)
        /\ WrappingSucc(last_completed[t]) = f
        /\ pending_fences' = pending_fences \ {f}
        /\ fence' = [fence EXCEPT ![t] = f]
    /\ Goto(t, "nq_notify")
    /\ UNCHANGED <<last_submitted_fence, last_completed_fence,
                   last_preemption_fence, lock, running, last_completed,
                   preemption, swapped, then, vidsch>>

\* The loop ends: nothing is pending, or an earlier fence is still missing
\* (break), or the first fence should have been reported before (panic).
NqStop(t) ==
    /\ pc[t] = "nq_loop"
    /\ \A f \in pending_fences :
        IsFirst(f, pending_fences) => WrappingSucc(last_completed[t]) # f
    /\ Goto(t, IF \E f \in pending_fences : /\ IsFirst(f, pending_fences)
                                            /\ WrappingSucc(last_completed[t]) > f
               THEN "panic" ELSE "nq_submitted")
    /\ UNCHANGED <<engine, running, last_completed, fence, preemption, swapped,
                   then, vidsch>>

NqNotify(t) ==
    /\ pc[t] = "nq_notify"
    /\ ReportCompleted(fence[t])
    /\ Goto(t, "nq_complete")
    /\ UNCHANGED <<engine, running, last_completed, fence, preemption, swapped,
                   then, submits, preempts, preempting, queries>>

NqComplete(t) ==
    /\ pc[t] = "nq_complete"
    /\ last_completed_fence' = fence[t]
    /\ last_completed' = [last_completed EXCEPT ![t] = fence[t]]
    /\ Goto(t, "nq_loop")
    /\ UNCHANGED <<last_submitted_fence, last_preemption_fence, pending_fences,
                   lock, running, fence, preemption, swapped, then, vidsch>>

\* Here and below, leaving the function drops the guard of pending_fences.
NqSubmitted(t) ==
    /\ pc[t] = "nq_submitted"
    /\ Goto(t, IF last_completed[t] = last_submitted_fence THEN "nq_swap" ELSE then[t])
    /\ lock' = IF last_completed[t] = last_submitted_fence THEN lock ELSE NoThread
    /\ UNCHANGED <<last_submitted_fence, last_completed_fence,
                   last_preemption_fence, pending_fences, running,
                   last_completed, fence, preemption, swapped, then, vidsch>>

\* Mutation: a load in place of the swap.
NqSwapLoading(t) ==
    /\ pc[t] = "nq_swap"
    /\ swapped' = [swapped EXCEPT ![t] = last_preemption_fence]
    /\ Goto(t, IF last_preemption_fence = 0 THEN then[t] ELSE "nq_preempted")
    /\ lock' = IF last_preemption_fence = 0 THEN NoThread ELSE lock
    /\ UNCHANGED <<last_submitted_fence, last_completed_fence,
                   last_preemption_fence, pending_fences, running,
                   last_completed, fence, preemption, then, vidsch>>

NqSwap(t) ==
    /\ pc[t] = "nq_swap"
    /\ last_preemption_fence' = 0
    /\ swapped' = [swapped EXCEPT ![t] = last_preemption_fence]
    /\ Goto(t, IF last_preemption_fence = 0 THEN then[t] ELSE "nq_preempted")
    /\ lock' = IF last_preemption_fence = 0 THEN NoThread ELSE lock
    /\ UNCHANGED <<last_submitted_fence, last_completed_fence, pending_fences,
                   running, last_completed, fence, preemption, then, vidsch>>

\* notify_interrupt_synchronized(DmaPreempted(preemption, last_completed)).
NqPreempted(t) ==
    /\ pc[t] = "nq_preempted"
    /\ preempting' = 0
    /\ lock' = NoThread
    /\ Goto(t, then[t])
    /\ UNCHANGED <<last_submitted_fence, last_completed_fence,
                   last_preemption_fence, pending_fences, running,
                   last_completed, fence, preemption, swapped, then, submits,
                   reported, preempts, queries>>

-----------------------------------------------------------------------------
(* preempt_command: notify_queued_fences, then either acknowledge at once  *)
(* or leave the request for the thread that completes the last fence.      *)

\* Mutation: preempt_command without the first notify_queued_fences.
PreemptCommandDirect(t) ==
    /\ pc[t] = "idle"
    /\ t \in Callers
    /\ preempting = 0
    /\ preempts < MaxPreempt
    /\ preempts' = preempts + 1
    /\ preempting' = preempts + 1
    /\ preemption' = [preemption EXCEPT ![t] = preempts + 1]
    /\ then' = [then EXCEPT ![t] = "idle"]
    /\ Goto(t, "pr_completed")
    /\ UNCHANGED <<engine, running, last_completed, fence, swapped, submits,
                   reported, queries>>

PreemptCommand(t) ==
    /\ pc[t] = "idle"
    /\ t \in Callers
    /\ preempting = 0
    /\ preempts < MaxPreempt
    /\ preempts' = preempts + 1
    /\ preempting' = preempts + 1
    /\ preemption' = [preemption EXCEPT ![t] = preempts + 1]
    /\ then' = [then EXCEPT ![t] = "pr_completed"]
    /\ Goto(t, "nq_load")
    /\ UNCHANGED <<engine, running, last_completed, fence, swapped, submits,
                   reported, queries>>

PrCompleted(t) ==
    /\ pc[t] = "pr_completed"
    /\ last_completed' = [last_completed EXCEPT ![t] = last_completed_fence]
    /\ Goto(t, "pr_submitted")
    /\ UNCHANGED <<engine, running, fence, preemption, swapped, then, vidsch>>

PrSubmitted(t) ==
    /\ pc[t] = "pr_submitted"
    /\ Goto(t, IF last_completed[t] = last_submitted_fence THEN "pr_report" ELSE "pr_store")
    /\ UNCHANGED <<engine, running, last_completed, fence, preemption, swapped,
                   then, vidsch>>

PrReport(t) ==
    /\ pc[t] = "pr_report"
    /\ preempting' = 0
    /\ Goto(t, "idle")
    /\ UNCHANGED <<engine, running, last_completed, fence, preemption, swapped,
                   then, submits, reported, preempts, queries>>

\* Mutation: submit_preemption without the second notify_queued_fences.
PrStoreOnly(t) ==
    /\ pc[t] = "pr_store"
    /\ last_preemption_fence' = preemption[t]
    /\ then' = [then EXCEPT ![t] = "idle"]
    /\ Goto(t, "idle")
    /\ UNCHANGED <<last_submitted_fence, last_completed_fence, pending_fences,
                   lock, running, last_completed, fence, preemption, swapped,
                   vidsch>>

\* submit_preemption, followed by a second notify_queued_fences.
PrStore(t) ==
    /\ pc[t] = "pr_store"
    /\ last_preemption_fence' = preemption[t]
    /\ then' = [then EXCEPT ![t] = "idle"]
    /\ Goto(t, "nq_load")
    /\ UNCHANGED <<last_submitted_fence, last_completed_fence, pending_fences,
                   lock, running, last_completed, fence, preemption, swapped,
                   vidsch>>

-----------------------------------------------------------------------------
(* query_current_fence: notify_queued_fences, then load the answer.        *)

QueryCurrentFence(t) ==
    /\ pc[t] = "idle"
    /\ t \in Callers
    /\ queries < MaxQuery
    /\ queries' = queries + 1
    /\ then' = [then EXCEPT ![t] = "qc_load"]
    /\ Goto(t, "nq_load")
    /\ UNCHANGED <<engine, running, last_completed, fence, preemption, swapped,
                   submits, reported, preempts, preempting>>

QcLoad(t) ==
    /\ pc[t] = "qc_load"
    /\ last_completed' = [last_completed EXCEPT ![t] = last_completed_fence]
    /\ Goto(t, "idle")
    /\ UNCHANGED <<engine, running, fence, preemption, swapped, then, vidsch>>

-----------------------------------------------------------------------------
NotifyQueuedFences(t) ==
    \/ NqLoad(t) \/ NqLock(t) \/ NqPop(t) \/ NqStop(t)
    \/ NqNotify(t) \/ NqComplete(t) \/ NqSubmitted(t) \/ NqSwap(t)
    \/ NqPreempted(t)

\* A step of a thread inside a function it has entered.
Step(t) ==
    \/ NfLoad(t) \/ NfNotify(t) \/ NfComplete(t) \/ NfInsert(t)
    \/ NotifyQueuedFences(t)
    \/ PrCompleted(t) \/ PrSubmitted(t) \/ PrReport(t) \/ PrStore(t)
    \/ QcLoad(t)

Next ==
    \/ Submit
    \/ \E t \in Threads :
        \/ \E f \in running : NotifyFence(t, f)
        \/ PreemptCommand(t)
        \/ QueryCurrentFence(t)
        \/ Step(t)

Spec == Init /\ [][Next]_vars

\* A thread inside the driver keeps running, and the handler threads (the ones
\* VidSch does not call) keep collecting finished work.  Lock acquisition is
\* only weakly fair: a spin lock promises no more.
Fairness ==
    /\ \A t \in Threads : WF_vars(Step(t))
    /\ \A t \in Threads \ Callers : WF_vars(\E f \in running : NotifyFence(t, f))

FairSpec == Spec /\ Fairness
-----------------------------------------------------------------------------
(* What VidSch relies on, see FenceService.                                *)

Service == INSTANCE FenceService WITH
    submitted <- submits, completed <- Len(reported), preempting <- preempting

\* The engine implements the fence service: no step of any thread does more to
\* VidSch than report the next completion, or acknowledge a preemption once all
\* submitted fences are reported.
RefinesService == Service!Spec

-----------------------------------------------------------------------------
(* Properties.                                                             *)

\* VidSch is told of completions in submission order, none skipped and none
\* repeated, and only of fences it submitted: notify_fence and
\* notify_queued_fences of all threads together emit 1, 2, 3, ...
CompletionsInOrder ==
    /\ Len(reported) <= submits
    /\ \A i \in DOMAIN reported :
        reported[i] = WrappingSucc(IF i = 1 THEN 0 ELSE reported[i - 1])

\* The panic of notify_queued_fences ("missed fence") is unreachable, although
\* last_completed is loaded before the lock and may be stale in the loop.
NoMissedFence == \A t \in Threads : pc[t] # "panic"

\* last_completed_fence, which query_current_fence answers with, never runs
\* ahead of what VidSch was told: complete() comes after the notification.
CompletedWasReported ==
    last_completed_fence # 0 => \E i \in DOMAIN reported : reported[i] = last_completed_fence

\* last_completed_fence only ever moves to the next fence, whichever thread
\* calls EngineState::complete; no late store takes it back.
CompletedAdvances ==
    [][last_completed_fence' # last_completed_fence
        => last_completed_fence' = WrappingSucc(last_completed_fence)]_vars

Quiet == running = {} /\ \A t \in Threads : pc[t] = "idle"

\* When all work is done and every call has returned, every fence has been
\* reported: a fence inserted in pending_fences while another thread reports
\* its predecessor is picked up by one of the two.
NoFenceLeftBehind ==
    Quiet => /\ pending_fences = {}
             /\ Len(reported) = submits
             /\ last_completed_fence = last_submitted_fence

\* ... and no preemption request has been forgotten: the store of
\* submit_preemption cannot fall between the last completion's check of
\* last_preemption_fence and the second check made by preempt_command.
NoPreemptionLeftBehind == Quiet => preempting = 0

\* A thread about to report DmaPreempted reports the outstanding request, with
\* every submitted fence reported before it; no other thread is about to
\* report the same request.
PreemptionReportSound ==
    \A t \in Threads : pc[t] \in {"nq_preempted", "pr_report"} =>
        /\ (IF pc[t] = "pr_report" THEN preemption[t] ELSE swapped[t]) = preempting
        /\ last_completed[t] = last_submitted_fence
        /\ Len(reported) = submits
        /\ \A u \in Threads \ {t} : pc[u] \notin {"nq_preempted", "pr_report"}

\* What VidSch is told is complete and sound: the query is never ahead of the
\* reports, a preemption is acknowledged once and after every fence, and nothing
\* is left behind when every call has returned.
ReportsComplete ==
    /\ CompletedWasReported
    /\ PreemptionReportSound
    /\ NoFenceLeftBehind
    /\ NoPreemptionLeftBehind

\* Every submitted fence is eventually reported to VidSch, and every preemption
\* request is eventually acknowledged.
EverythingReported ==
    /\ \A n \in 1 .. MaxSubmit : submits >= n ~> Len(reported) >= n
    /\ preempting # 0 ~> preempting = 0

-----------------------------------------------------------------------------
(* The inductive invariant behind the properties, for fence numbers that   *)
(* do not wrap (MaxSubmit < U32): fences are then 1 .. submits.            *)

R == Len(reported)

\* A thread that owns a fence not yet reported or inserted in pending_fences.
Holding(t) == pc[t] \in {"nf_load", "nf_notify", "nf_insert", "nq_notify"}

\* A thread between a notification and the store of last_completed_fence.
Completing(t) == pc[t] \in {"nf_complete", "nq_complete"}

\* A thread that will look at last_completed_fence again, or has the current
\* value and has not yet looked at what S of the code looks at.
WillCheck(t, S) ==
    \/ Completing(t)
    \/ pc[t] = "nq_load"
    \/ pc[t] \in S /\ last_completed[t] = R

\* preempt_command after its first notify_queued_fences, before it hands over.
Preempting(t) == pc[t] \in {"pr_completed", "pr_submitted", "pr_report", "pr_store"}

\* ... and from its start.
HasRequest(t) ==
    \/ Preempting(t)
    \/ then[t] = "pr_completed" /\ pc[t] \in Locked \cup {"nq_load", "nq_lock"}

LockInv == \A t \in Threads : pc[t] \in Locked <=> lock = t

CountInv ==
    /\ last_submitted_fence = submits
    /\ submits <= MaxSubmit
    /\ R <= submits
    /\ \A i \in DOMAIN reported : reported[i] = i

\* Every fence not reported has exactly one owner.
OwnerInv ==
    /\ running \cap pending_fences = {}
    /\ \A f \in running \cup pending_fences : R < f /\ f <= submits
    /\ \A t \in Threads : Holding(t) =>
        /\ R < fence[t] /\ fence[t] <= submits
        /\ fence[t] \notin running \cup pending_fences
    /\ \A t, u \in Threads :
        Holding(t) /\ Holding(u) /\ fence[t] = fence[u] => t = u
    /\ \A f \in (R + 1) .. submits :
        f \in running \cup pending_fences \/ \E t \in Threads : Holding(t) /\ fence[t] = f

\* last_completed_fence lags behind the reports by at most the one fence that
\* a single thread is completing.
CompletionInv ==
    /\ last_completed_fence = R \/ \E t \in Threads : Completing(t)
    /\ \A t \in Threads : Completing(t) => fence[t] = R /\ last_completed_fence + 1 = R
    /\ \A t, u \in Threads : Completing(t) /\ Completing(u) => t = u
    /\ \A t \in Threads : pc[t] \in {"nf_notify", "nq_notify"} =>
        fence[t] = R + 1 /\ last_completed_fence = R

\* The local last_completed may be stale, never ahead.
LocalInv ==
    /\ \A t \in Threads : last_completed[t] <= last_completed_fence
    /\ \A t \in Threads :
        pc[t] \in {"nf_load", "nf_notify", "nf_complete", "nf_insert"} => then[t] = "idle"
    /\ NoMissedFence

\* The head of pending_fences has a thread that will pop it.
HeadInv ==
    R + 1 \in pending_fences =>
        \E t \in Threads : WillCheck(t, {"nq_lock", "nq_loop"})

\* The outstanding request is in exactly one place: preempt_command, the
\* atomic, or a thread about to report it.
RequestInv ==
    /\ preempting # 0 =>
        \/ last_preemption_fence = preempting
        \/ \E t \in Threads : HasRequest(t) \/ pc[t] = "nq_preempted"
    /\ last_preemption_fence # 0 => last_preemption_fence = preempting
    /\ \A t \in Threads : HasRequest(t) =>
        preemption[t] = preempting /\ preempting # 0 /\ last_preemption_fence = 0
    /\ \A t, u \in Threads : HasRequest(t) /\ HasRequest(u) => t = u
    /\ \A t \in Threads : pc[t] = "nq_preempted" =>
        /\ swapped[t] = preempting /\ preempting # 0 /\ last_preemption_fence = 0
        /\ last_completed[t] = submits
        /\ \A u \in Threads : ~HasRequest(u)
    /\ \A t \in Threads : pc[t] = "pr_report" => last_completed[t] = submits
    \* A stale comparison with last_submitted_fence does no harm: while the lock
    \* is held no new request gets past its first notify_queued_fences.
    /\ \A t \in Threads : pc[t] = "nq_swap" =>
        \/ last_completed[t] = submits
        \/ last_preemption_fence = 0 /\ \A u \in Threads : ~Preempting(u)

\* A stored request that can be acknowledged has a thread that will take it.
AcknowledgeInv ==
    last_preemption_fence # 0 /\ R = submits =>
        \E t \in Threads :
            WillCheck(t, {"nq_lock", "nq_loop", "nq_submitted", "nq_swap"})

\* The whole: type correctness, lock ownership, one owner per fence and per
\* preemption request, and a thread responsible for whatever can be reported.
IndInv ==
    /\ TypeOK /\ LockInv /\ CountInv /\ OwnerInv /\ CompletionInv
    /\ LocalInv /\ HeadInv /\ RequestInv /\ AcknowledgeInv
=============================================================================
