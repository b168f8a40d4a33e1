---------------------------- MODULE CommandBatch ----------------------------
(***************************************************************************)
(* submit_command_batch and the Callback::DmaCompletedBatched responses    *)
(* (gpu-wddm/src/queue.rs): one WDDM fence for several commands.  The      *)
(* AllocationsBatch is shared through an Arc, one reference per queued     *)
(* command and one for the submitter, and whoever gives up the last one    *)
(* with Arc::into_inner marks the allocations free and reports the fence.  *)
(* Each operation on the reference count is an atomic step.                *)
(***************************************************************************)
EXTENDS Integers, FiniteSets

CONSTANTS
    Batches,        \* batches submitted, each by a thread of its own
    Cmds,           \* commands of a batch, 1 .. Cmds
    MayFail         \* try_new_zeroed may run out of memory

None == 0

CommandBatchAssumption == Cmds \in Nat \ {0, 1} /\ MayFail \in BOOLEAN /\ None \notin Batches

VARIABLES
    point,             \* of each submitter
    cmd,            \* number of commands it has queued
    strong,         \* strong count of the Arc
    queued,         \* commands in the channel or in the device
    responses,       \* commands answered, their response not yet handled
    handling,       \* batch whose last reference the handler has taken, or none
    allocated,      \* the AllocationsBatch still exists: allocations marked busy
    completed        \* times that notify_dma_completed was called

batchVars == <<point, cmd, strong, queued, responses, handling, allocated, completed>>

Commands == Batches \X (1 .. Cmds)

BatchInit ==
    /\ point = [b \in Batches |-> "idle"] /\ cmd = [b \in Batches |-> 0]
    /\ strong = [b \in Batches |-> 0]
    /\ queued = {} /\ responses = {} /\ handling = None
    /\ allocated = [b \in Batches |-> FALSE] /\ completed = [b \in Batches |-> 0]

-----------------------------------------------------------------------------
(* The submitter.                                                          *)

\* Mutant: the submitter keeps no reference while it queues the commands.
SubmitBatchUnheld(b) ==
    /\ point[b] = "idle"
    /\ strong' = [strong EXCEPT ![b] = 0]
    /\ allocated' = [allocated EXCEPT ![b] = TRUE]
    /\ point' = [point EXCEPT ![b] = "clone"]
    /\ UNCHANGED <<cmd, queued, responses, handling, completed>>

\* EngineState::submit (in EngineFences) and Arc::new.
SubmitBatch(b) ==
    /\ point[b] = "idle"
    /\ strong' = [strong EXCEPT ![b] = 1]
    /\ allocated' = [allocated EXCEPT ![b] = TRUE]
    /\ point' = [point EXCEPT ![b] = "clone"]
    /\ UNCHANGED <<cmd, queued, responses, handling, completed>>

Clone(b) ==
    /\ point[b] = "clone"
    /\ strong' = [strong EXCEPT ![b] = @ + 1]
    /\ point' = [point EXCEPT ![b] = "push"]
    /\ UNCHANGED <<cmd, queued, responses, handling, allocated, completed>>

\* request_async_dma_batched queues the command and wakes the handler.
PushCommand(b) ==
    /\ point[b] = "push"
    /\ queued' = queued \cup {<<b, cmd[b] + 1>>}
    /\ cmd' = [cmd EXCEPT ![b] = @ + 1]
    /\ point' = [point EXCEPT ![b] = IF cmd[b] + 1 = Cmds THEN "into_inner" ELSE "clone"]
    /\ UNCHANGED <<strong, responses, handling, allocated, completed>>

\* No memory for the response: `?' returns, dropping the clone and then the
\* submitter's own reference; a last reference dropped frees the allocations.
PushFails(b) ==
    /\ point[b] = "push" /\ MayFail
    /\ strong' = [strong EXCEPT ![b] = @ - 1]
    /\ point' = [point EXCEPT ![b] = "drop"]
    /\ UNCHANGED <<cmd, queued, responses, handling, allocated, completed>>

Drop(b) ==
    /\ point[b] = "drop"
    /\ strong' = [strong EXCEPT ![b] = @ - 1]
    /\ allocated' = [allocated EXCEPT ![b] = strong[b] > 1]
    /\ point' = [point EXCEPT ![b] = "error"]
    /\ UNCHANGED <<cmd, queued, responses, handling, completed>>

\* Mutant: Arc::try_unwrap and a plain drop of the reference instead of into_inner.
IntoInnerDropping(b) ==
    /\ point[b] = "into_inner"
    /\ strong' = [strong EXCEPT ![b] = @ - 1]
    /\ allocated' = [allocated EXCEPT ![b] = strong[b] > 1]
    /\ point' = [point EXCEPT ![b] = "ok"]
    /\ UNCHANGED <<cmd, queued, responses, handling, completed>>

\* Arc::into_inner: exactly one of the threads that give up a reference sees the
\* count go from one to zero.
IntoInner(b) ==
    /\ point[b] = "into_inner"
    /\ strong' = [strong EXCEPT ![b] = @ - 1]
    /\ point' = [point EXCEPT ![b] = IF strong[b] = 1 THEN "notify" ELSE "ok"]
    /\ UNCHANGED <<cmd, queued, responses, handling, allocated, completed>>

\* "This shouldn't really happen, but just in case".
NotifyLast(b) ==
    /\ point[b] = "notify"
    /\ allocated' = [allocated EXCEPT ![b] = FALSE]
    /\ completed' = [completed EXCEPT ![b] = @ + 1]
    /\ point' = [point EXCEPT ![b] = "ok"]
    /\ UNCHANGED <<cmd, strong, queued, responses, handling>>

-----------------------------------------------------------------------------
(* The device and the handler thread.                                      *)

AnswerCommand(c) ==
    /\ c \in queued
    /\ queued' = queued \ {c} /\ responses' = responses \cup {c}
    /\ UNCHANGED <<point, cmd, strong, handling, allocated, completed>>

\* Mutant: the strong count is read, then the reference is dropped.
ResponseByCount(c) ==
    /\ handling = None /\ c \in responses
    /\ responses' = responses \ {c}
    /\ strong' = [strong EXCEPT ![c[1]] = @ - 1]
    /\ handling' = IF strong[c[1]] <= 2 THEN c[1] ELSE None
    /\ UNCHANGED <<point, cmd, queued, allocated, completed>>

\* response(): into_inner on the reference of the callback.
HandleResponse(c) ==
    /\ handling = None /\ c \in responses
    /\ responses' = responses \ {c}
    /\ strong' = [strong EXCEPT ![c[1]] = @ - 1]
    /\ handling' = IF strong[c[1]] = 1 THEN c[1] ELSE None
    /\ UNCHANGED <<point, cmd, queued, allocated, completed>>

\* The allocations are marked free, then the fence is reported.
Complete ==
    /\ handling # None
    /\ allocated' = [allocated EXCEPT ![handling] = FALSE]
    /\ completed' = [completed EXCEPT ![handling] = @ + 1]
    /\ handling' = None
    /\ UNCHANGED <<point, cmd, strong, queued, responses>>

-----------------------------------------------------------------------------
Submitter(b) ==
    Clone(b) \/ PushCommand(b) \/ PushFails(b) \/ Drop(b) \/ IntoInner(b) \/ NotifyLast(b)

BatchNext ==
    \/ \E b \in Batches : SubmitBatch(b) \/ Submitter(b)
    \/ \E c \in Commands : AnswerCommand(c) \/ HandleResponse(c)
    \/ Complete

BatchSpec == BatchInit /\ [][BatchNext]_batchVars

Respond == Complete \/ \E c \in Commands : HandleResponse(c)

\* The threads are scheduled and the device answers.
BatchFairness ==
    /\ \A b \in Batches : WF_batchVars(Submitter(b))
    /\ \A c \in Commands : WF_batchVars(AnswerCommand(c))
    /\ WF_batchVars(Respond)

BatchFairSpec == BatchSpec /\ BatchFairness

-----------------------------------------------------------------------------
(* Properties.                                                             *)

\* Each variable has the type of what it models.
BatchTypeOK ==
    /\ point \in [Batches -> {"idle", "clone", "push", "drop", "error", "into_inner", "notify", "ok"}]
    /\ cmd \in [Batches -> 0 .. Cmds] /\ strong \in [Batches -> 0 .. Cmds + 1]
    /\ queued \subseteq Commands /\ responses \subseteq Commands
    /\ handling \in Batches \cup {None}
    /\ allocated \in [Batches -> BOOLEAN] /\ completed \in [Batches -> Nat]

Of(b, commands) == {c \in commands : c[1] = b}

\* The fence of a batch is reported at most once, and only when every command of the
\* batch has been queued and answered: a handler that answers the first commands
\* while the submitter still queues the others never completes the batch early.
FenceAfterAllCommands ==
    \A b \in Batches :
        /\ completed[b] <= 1
        /\ completed[b] = 1 /\ point[b] # "error" =>
            cmd[b] = Cmds /\ Of(b, queued \cup responses) = {}

\* The allocations stay busy as long as a command that uses them is unanswered, also
\* when the submitter failed half-way.
AllocationsBusyWhileInUse ==
    \A b \in Batches : Of(b, queued \cup responses) # {} => allocated[b]

\* A batch's fence comes once and last, and its allocations are busy until then.
BatchOnce == BatchTypeOK /\ FenceAfterAllCommands /\ AllocationsBusyWhileInUse

\* Every batch whose submission has succeeded is completed.
BatchesCompleted ==
    \A b \in Batches : point[b] \in {"ok", "notify"} => completed[b] = 1 /\ ~allocated[b]
=============================================================================
