----------------------------- MODULE MCGpuQueue -----------------------------
(* The request path of the GPU driver, for TLC: the channel to the handler     *)
(* thread (AsyncQueue), fences that wait for virtio fences (FenceSubmissions), *)
(* batches of commands (CommandBatch) and the handler thread (QueueHandler).   *)
(* A behaviour is one of a single part, which `part' names; the variables of   *)
(* the other parts stay as they are at first.                                  *)
EXTENDS AsyncQueue, FenceSubmissions, CommandBatch, QueueHandler

CONSTANT Parts          \* the parts to check, of those below

VARIABLE part

sumVars == <<part, vars, submissionsVars, batchVars, handlerVars>>

ASSUME FenceSubmissionsAssumption /\ CommandBatchAssumption /\ QueueHandlerAssumption
ASSUME Parts \subseteq {"channel", "fences", "batch", "handler"}

\* Two control requests and a cursor request.
MCMaxRequests == [control |-> 2, cursor |-> 1]

-----------------------------------------------------------------------------
(***************************** the specification ****************************)

SumInit == part \in Parts /\ Init /\ SubmissionsInit /\ BatchInit /\ HandlerInit

OfChannel == part = "channel" /\ UNCHANGED <<part, submissionsVars, batchVars, handlerVars>>
OfFences == part = "fences" /\ UNCHANGED <<part, vars, batchVars, handlerVars>>
OfBatch == part = "batch" /\ UNCHANGED <<part, vars, submissionsVars, handlerVars>>
OfHandler == part = "handler" /\ UNCHANGED <<part, vars, submissionsVars, batchVars>>

SumNext ==
    \/ OfChannel /\ Next
    \/ OfFences /\ SubmissionsNext
    \/ OfBatch /\ BatchNext
    \/ OfHandler /\ HandlerNext

\* The fairness of each part.  Threads are scheduled and the DPC runs, a spin lock that
\* keeps becoming free is obtained, and the device answers what it was given.
SumFairness ==
    /\ \A p \in Producers : WF_sumVars(OfChannel /\ (PushSlow(p) \/ SetEvent(p)))
    /\ WF_sumVars(OfChannel /\ Handler)
    /\ \A t \in Threads : SF_sumVars(OfFences /\ Step(t))
    /\ \A f \in VirtioFences : WF_sumVars(OfFences /\ Answer(f)) /\ WF_sumVars(OfFences /\ Signal(f))
    /\ WF_sumVars(OfFences /\ WakeAnswered) /\ WF_sumVars(OfFences /\ ResponsesDone)
    /\ \A b \in Batches : WF_sumVars(OfBatch /\ Submitter(b))
    /\ \A c \in Commands : WF_sumVars(OfBatch /\ AnswerCommand(c))
    /\ WF_sumVars(OfBatch /\ Respond)
    /\ WF_sumVars(OfHandler /\ Loop) /\ WF_sumVars(OfHandler /\ AckInterrupt)
    /\ WF_sumVars(OfHandler /\ HandleDpc) /\ WF_sumVars(OfHandler /\ DropUnset)
    /\ \A q \in Queues : WF_sumVars(OfHandler /\ SignalEvent(q)) /\ WF_sumVars(OfHandler /\ DeviceUse(q))

SumSpec == SumInit /\ [][SumNext]_sumVars

SumFairSpec == SumSpec /\ SumFairness

-----------------------------------------------------------------------------
\* Every WDDM fence is completed unless its submission times out, every batch that was
\* submitted completes, every control request is answered, and unloading ends although the
\* stop event comes last in the list (handler thread, fences, batches, Drop).
AllServed ==
    /\ part = "fences" => AllNotified
    /\ part = "batch" => BatchesCompleted
    /\ part = "handler" => ControlServed \/ Dropped
QueueProgress == []<>AllServed
=============================================================================
