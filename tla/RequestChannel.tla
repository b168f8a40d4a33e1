--------------------------- MODULE RequestChannel ---------------------------
(***************************************************************************)
(* What the channel between the callers of a GpuChannel and the queue      *)
(* handler thread promises: every request that is pushed can be received,  *)
(* and is received exactly once.  Nothing is said about the order.         *)
(***************************************************************************)
EXTENDS Naturals, Sequences

CONSTANT Requests

VARIABLES
    queued,     \* requests pushed and not yet received
    received    \* requests received, in the order of reception

vars == <<queued, received>>

Init == queued = {} /\ received = <<>>

\* A request is pushed once: it is in neither variable before.
Push(r) ==
    /\ r \notin queued
    /\ \A i \in 1 .. Len(received) : received[i] # r
    /\ queued' = queued \cup {r}
    /\ UNCHANGED received

Pop(r) ==
    /\ r \in queued
    /\ queued' = queued \ {r}
    /\ received' = Append(received, r)

Receive == \E r \in Requests : Pop(r)

Next == Receive \/ \E r \in Requests : Push(r)

Spec == Init /\ [][Next]_vars

\* The receiver never stops while something is queued.
FairSpec == Spec /\ WF_vars(Receive)
=============================================================================
