---------------------------- MODULE FenceService ----------------------------
(***************************************************************************)
(* What the GPU scheduler (VidSch) relies on from one engine.  It submits  *)
(* numbered fences; the driver reports them complete one after the other.  *)
(* A preemption request is acknowledged only once everything submitted has *)
(* been reported, and nothing is submitted until then.  This is the        *)
(* external contract that notify_fence, notify_queued_fences and           *)
(* preempt_command are written against.                                    *)
(***************************************************************************)
EXTENDS Naturals

VARIABLES
    submitted,    \* number of fences submitted
    completed,    \* number of fences reported complete
    preempting    \* the preemption request to be acknowledged, or 0

vars == <<submitted, completed, preempting>>

Init == submitted = 0 /\ completed = 0 /\ preempting = 0

Submit ==
    /\ preempting = 0
    /\ submitted' = submitted + 1
    /\ UNCHANGED <<completed, preempting>>

Complete ==
    /\ completed < submitted
    /\ completed' = completed + 1
    /\ UNCHANGED <<submitted, preempting>>

Preempt ==
    /\ preempting = 0
    /\ preempting' \in Nat \ {0}
    /\ UNCHANGED <<submitted, completed>>

Acknowledge ==
    /\ preempting # 0
    /\ completed = submitted
    /\ preempting' = 0
    /\ UNCHANGED <<submitted, completed>>

Next == Submit \/ Complete \/ Preempt \/ Acknowledge

Spec == Init /\ [][Next]_vars
=============================================================================
