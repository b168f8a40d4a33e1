----------------------------- MODULE BusyEvents -----------------------------
(***************************************************************************)
(* Waiting for an allocation to become idle.  An allocation counts the     *)
(* batches that use it; a batch marks it busy when it is built and free    *)
(* when it is dropped, both in steps that interleave.  RESOURCE_BUSY lets  *)
(* user mode ask, wait on the allocation's own event, or have an event of  *)
(* its own (a sync file) signalled when the allocation becomes idle.       *)
(*                                                                         *)
(* User mode keeps its handle to a sync file open and neither sets nor     *)
(* clears it.                                                              *)
(***************************************************************************)
EXTENDS Integers, Sequences, FiniteSets, Functions

CONSTANTS
  UserBatches,  \* batches of commands that use the allocation, once each
  Callers,      \* threads, one RESOURCE_BUSY escape each
  Files,        \* user mode's events
  Tasks,        \* the escapes to consider: caller -> [file, wait]
  NoFile        \* the escape names no file

BusyEventsAssumption ==
  /\ IsFiniteSet(UserBatches) /\ NoFile \notin Files
  /\ Tasks \subseteq [Callers -> [file: Files \union {NoFile}, wait: BOOLEAN]]

VARIABLES
  task,
  batch,     \* batch -> where it is in mark_busy and mark_free
  at,        \* caller -> where it is in the escape
  told,      \* caller -> is_busy as returned
  count,     \* busy.1
  idle,      \* busy.0, a notification event
  sync,      \* the attached sync files
  signalled, \* the state of user mode's events
  refs,      \* file -> references the driver holds
  missed     \* files cleared once nothing is left to signal them

allocation == <<count, idle, sync>>
userEvents == <<signalled, refs, missed>>
busyVars == <<task, batch, at, told, allocation, userEvents>>

IsBusy == count > 0

\* How often a file is in the list.
Attachments(f) == Cardinality({i \in 1 .. Len(sync): sync[i] = f})

Quiet == \A b \in UserBatches: batch[b] \in {"new", "done"}

----------------------------------------------------------------------------
(* mark_busy: count, then clear the event, then the files. *)

MarkBusy(b) ==
  /\ batch[b] = "new" /\ batch' = [batch EXCEPT ![b] = "counted"]
  /\ count' = count + 1 /\ UNCHANGED <<task, at, told, idle, sync, userEvents>>

ClearIdle(b) ==
  /\ batch[b] = "counted" /\ batch' = [batch EXCEPT ![b] = "cleared"]
  /\ idle' = FALSE /\ UNCHANGED <<task, at, told, count, sync, userEvents>>

\* Under the read lock: mark_free and attach_sync_file are excluded.
ClearFiles(b) ==
  /\ batch[b] = "cleared" /\ batch' = [batch EXCEPT ![b] = "busy"]
  /\ signalled' = signalled \ Range(sync)
  /\ UNCHANGED <<task, at, told, allocation, refs, missed>>

----------------------------------------------------------------------------
(* mark_free, from the batch's drop. *)

\* Mutant: the value returned is taken for the one after it.
LastBatchAfter == count = 0

\* The value fetch_sub returns is the one before it.
LastBatch == count = 1

MarkFree(b) ==
  /\ batch[b] = "busy"
  /\ batch' = [batch EXCEPT ![b] = IF LastBatch THEN "last" ELSE "done"]
  /\ count' = count - 1 /\ UNCHANGED <<task, at, told, idle, sync, userEvents>>

SetIdle(b) ==
  /\ batch[b] = "last" /\ batch' = [batch EXCEPT ![b] = "signal"]
  /\ idle' = TRUE /\ UNCHANGED <<task, at, told, count, sync, userEvents>>

\* Mutant: only the file attached last is signalled.
SignalledNewest == IF sync = <<>> THEN {} ELSE {sync[Len(sync)]}

Signalled == Range(sync)

\* Under the write lock: every file is set, dereferenced and forgotten.
SignalFiles(b) ==
  /\ batch[b] = "signal" /\ batch' = [batch EXCEPT ![b] = "done"]
  /\ signalled' = signalled \union Signalled
  /\ refs' = [f \in Files |-> refs[f] - Attachments(f)]
  /\ sync' = <<>> /\ UNCHANGED <<task, at, told, count, idle, missed>>

----------------------------------------------------------------------------
(* The RESOURCE_BUSY escape. *)

Goto(c, place) == at' = [at EXCEPT ![c] = place]
AfterFile(c) == IF task[c].wait THEN "wait" ELSE "report"

Attach(c) ==
  /\ at[c] = "start" /\ task[c].file # NoFile
  /\ sync' = Append(sync, task[c].file)
  /\ refs' = [refs EXCEPT ![task[c].file] = @ + 1]
  /\ Goto(c, "check") /\ UNCHANGED <<task, batch, told, count, idle, signalled, missed>>

WithoutFile(c) ==
  /\ at[c] = "start" /\ task[c].file = NoFile
  /\ Goto(c, AfterFile(c)) /\ UNCHANGED <<task, batch, told, allocation, userEvents>>

CheckFile(c) ==
  /\ at[c] = "check" /\ Goto(c, IF IsBusy THEN "clear" ELSE "set")
  /\ UNCHANGED <<task, batch, told, allocation, userEvents>>

\* The allocation may have become idle, and the file been dropped, since the check.
ClearFile(c) ==
  LET file == task[c].file IN
  /\ at[c] = "clear" /\ Goto(c, AfterFile(c))
  /\ signalled' = signalled \ {file}
  /\ missed' = IF file \in Range(sync) /\ ~Quiet THEN missed ELSE missed \union {file}
  /\ UNCHANGED <<task, batch, told, allocation, refs>>

SetFile(c) ==
  /\ at[c] = "set" /\ Goto(c, AfterFile(c))
  /\ signalled' = signalled \union {task[c].file}
  /\ UNCHANGED <<task, batch, told, allocation, refs, missed>>

\* wait: the loop's test, the wait for the event, the test after it, a short sleep.
Wait(c) ==
  /\ at[c] = "wait" /\ Goto(c, IF IsBusy THEN "blocked" ELSE "report")
  /\ UNCHANGED <<task, batch, told, allocation, userEvents>>

WakeIdle(c) ==
  /\ at[c] = "blocked" /\ idle /\ Goto(c, "awake")
  /\ UNCHANGED <<task, batch, told, allocation, userEvents>>

Recheck(c) ==
  /\ at[c] = "awake" /\ Goto(c, IF IsBusy THEN "wait" ELSE "report")
  /\ UNCHANGED <<task, batch, told, allocation, userEvents>>

Report(c) ==
  /\ at[c] = "report" /\ Goto(c, "done") /\ told' = [told EXCEPT ![c] = IsBusy]
  /\ UNCHANGED <<task, batch, allocation, userEvents>>

----------------------------------------------------------------------------
BusyInit ==
  /\ task \in Tasks
  /\ batch = [b \in UserBatches |-> "new"] /\ at = [c \in Callers |-> "start"]
  /\ told = [c \in Callers |-> FALSE]
  /\ count = 0 /\ idle = FALSE /\ sync = <<>>
  /\ signalled = {} /\ refs = [f \in Files |-> 0] /\ missed = {}

BatchStep(b) ==
  \/ MarkBusy(b) \/ ClearIdle(b) \/ ClearFiles(b)
  \/ MarkFree(b) \/ SetIdle(b) \/ SignalFiles(b)
EscapeStep(c) ==
  \/ Attach(c) \/ WithoutFile(c) \/ CheckFile(c) \/ ClearFile(c) \/ SetFile(c)
  \/ Wait(c) \/ WakeIdle(c) \/ Recheck(c) \/ Report(c)
BusyNext == (\E b \in UserBatches: BatchStep(b)) \/ (\E c \in Callers: EscapeStep(c))

BusySpec == BusyInit /\ [][BusyNext]_busyVars

----------------------------------------------------------------------------
\* A sync file is signalled once the allocation is idle, and it is listed, and
\* referenced, from its attachment until then.  The one exception is a file the
\* escape clears on a stale is_busy, after the mark_free that would signal it.
FilesSignalled ==
  /\ \A f \in Files: refs[f] = Attachments(f)
  /\ Quiet /\ (\A c \in Callers: at[c] \notin {"check", "clear", "set"})
       => {task[c].file: c \in {d \in Callers: at[d] # "start" /\ task[d].file # NoFile}}
            \subseteq signalled \union missed

\* A caller of wait that is blocked on the event of an allocation that is no longer
\* in use is woken: the event is set, or the last user is about to set it, however
\* the clearing in mark_busy and the setting in mark_free interleave.
WaitersWoken ==
  (\E c \in Callers: at[c] = "blocked") /\ ~IsBusy => idle \/ \E b \in UserBatches: batch[b] = "last"

\* Who waits for an idle allocation hears of it, through its event or a sync file.
IdleSignalled == FilesSignalled /\ WaitersWoken

\* Every call of wait has returned.
EscapesReturned == \A c \in Callers: at[c] = "done"
=============================================================================
