------------------------ MODULE EngineFencesProofs -------------------------
(***************************************************************************)
(* Proofs about EngineFences, for any number of threads and any bounds, as *)
(* long as fence numbers do not wrap (MaxSubmit < U32).                    *)
(*                                                                         *)
(* The frame lemmas say which changes leave a part of IndInv alone.  Each  *)
(* action has a lemma: step <1>1 states what the action does to the roles  *)
(* of the threads, the other steps treat one part of IndInv each.          *)
(***************************************************************************)
EXTENDS EngineFences, TLAPS

\* Zenon first: the leaves that need arithmetic, records or sequences name SMT.
USE ZenonT(30), SMTT(30)

-----------------------------------------------------------------------------
(* Frame lemmas.                                                           *)

\* OwnerInv depends on the threads only through the fences they hold.
LEMMA OwnerFrame ==
  ASSUME OwnerInv,
         UNCHANGED <<reported, submits, running, pending_fences, fence>>,
         \A u \in Threads : Holding(u)' <=> Holding(u)
  PROVE  OwnerInv'
  BY DEF OwnerInv, R

\* CompletionInv depends on the threads about to report and on those between
\* the report and EngineState::complete.
LEMMA CompletionFrame ==
  ASSUME CompletionInv,
         UNCHANGED <<reported, last_completed_fence>>,
         \A u \in Threads :
            /\ Completing(u)' <=> Completing(u)
            /\ Completing(u) => fence'[u] = fence[u]
            /\ pc'[u] \in {"nf_notify", "nq_notify"} =>
                pc[u] = pc'[u] /\ fence'[u] = fence[u]
  PROVE  CompletionInv'
  BY DEF CompletionInv, R

\* RequestInv depends on the threads that have a preemption request and on
\* those about to take or report one.
LEMMA RequestFrame ==
  ASSUME RequestInv,
         UNCHANGED <<submits, last_preemption_fence, preempting, preemption>>,
         \A u \in Threads :
            /\ HasRequest(u)' <=> HasRequest(u)
            /\ Preempting(u)' <=> Preempting(u)
            /\ pc[u] = "nq_preempted" => pc'[u] = pc[u]
            /\ pc'[u] \in {"nq_preempted", "pr_report", "nq_swap"} =>
                /\ pc'[u] = pc[u]
                /\ last_completed'[u] = last_completed[u]
                /\ swapped'[u] = swapped[u]
  PROVE  RequestInv'
  BY DEF RequestInv

\* HeadInv and AcknowledgeInv survive if no thread stops being responsible.
LEMMA HeadFrame ==
  ASSUME HeadInv, UNCHANGED reported, pending_fences' \subseteq pending_fences,
         \A u \in Threads : WillCheck(u, {"nq_lock", "nq_loop"})
                             => WillCheck(u, {"nq_lock", "nq_loop"})'
  PROVE  HeadInv'
  BY DEF HeadInv, R

LEMMA AcknowledgeFrame ==
  ASSUME AcknowledgeInv, UNCHANGED <<reported, submits>>,
         last_preemption_fence' \in {0, last_preemption_fence},
         \A u \in Threads :
            WillCheck(u, {"nq_lock", "nq_loop", "nq_submitted", "nq_swap"})
            => WillCheck(u, {"nq_lock", "nq_loop", "nq_submitted", "nq_swap"})'
  PROVE  AcknowledgeInv'
  BY DEF AcknowledgeInv, R

-----------------------------------------------------------------------------
(* The initial state.                                                      *)

LEMMA InitInd ==
  ASSUME MaxSubmit < U32, Init
  PROVE  IndInv
  BY BoundsAssumption, ThreadsAssumption, SMTT(30)
  DEF Init, IndInv, TypeOK, LockInv, CountInv, OwnerInv, CompletionInv,
      LocalInv, HeadInv, RequestInv, AcknowledgeInv, R, Holding, Completing,
      WillCheck, Preempting, HasRequest, FenceIds, PCs, Locked, NoMissedFence

\* A call of notify_fence preserves IndInv.
LEMMA NotifyFenceInd ==
  ASSUME MaxSubmit < U32, IndInv, NEW t \in Threads, NEW f \in running, NotifyFence(t, f)
  PROVE  IndInv'
<1>0. /\ TypeOK /\ LockInv /\ CountInv /\ OwnerInv /\ CompletionInv
      /\ LocalInv /\ HeadInv /\ RequestInv /\ AcknowledgeInv
  BY DEF IndInv
<1>1. /\ \A u \in Threads :
          /\ Holding(u)' <=> Holding(u) \/ u = t
          /\ Completing(u)' <=> Completing(u)
          /\ Preempting(u)' <=> Preempting(u)
          /\ HasRequest(u)' <=> HasRequest(u)
      /\ ~Holding(t)
  BY <1>0
  DEF NotifyFence, Goto, engine, vidsch, TypeOK, Holding, Completing,
      HasRequest, Preempting, Locked
<1>2. TypeOK'
  BY <1>0, BoundsAssumption, ThreadsAssumption
  DEF NotifyFence, Goto, engine, vidsch, TypeOK, FenceIds, PCs, Locked
<1>3. LockInv'
  BY <1>0, ThreadsAssumption
  DEF NotifyFence, Goto, engine, vidsch, TypeOK, LockInv, Locked
<1>4. CountInv'
  BY <1>0, BoundsAssumption
  DEF NotifyFence, Goto, engine, vidsch, TypeOK, CountInv, R
<1>5. OwnerInv'
  <2>1. /\ f \in running /\ running' = running \ {f}
        /\ fence' = [fence EXCEPT ![t] = f]
        /\ pending_fences' = pending_fences /\ R' = R /\ submits' = submits
    BY <1>0 DEF NotifyFence, engine, vidsch, R
  <2>2. /\ running' \cap pending_fences' = {}
        /\ \A g \in running' \cup pending_fences' : R' < g /\ g <= submits'
    BY <1>0, <1>1, <2>1 DEF OwnerInv, TypeOK, CountInv, FenceIds
  <2>3. \A u \in Threads : Holding(u)' =>
            /\ R' < fence'[u] /\ fence'[u] <= submits'
            /\ fence'[u] \notin running' \cup pending_fences'
    BY <1>0, <1>1, <2>1, SMTT(30) DEF OwnerInv, TypeOK, CountInv, FenceIds
  <2>4. \A u, v \in Threads :
            Holding(u)' /\ Holding(v)' /\ fence'[u] = fence'[v] => u = v
    BY <1>0, <1>1, <2>1, SMTT(30) DEF OwnerInv, TypeOK
  <2>5. \A g \in (R' + 1) .. submits' :
            \/ g \in running' \cup pending_fences'
            \/ \E u \in Threads : Holding(u)' /\ fence'[u] = g
    BY <1>0, <1>1, <2>1, SMTT(30) DEF OwnerInv, TypeOK, CountInv
  <2> QED BY <2>2, <2>3, <2>4, <2>5 DEF OwnerInv
<1>6. CompletionInv'
  BY <1>0, <1>1, CompletionFrame
  DEF NotifyFence, Goto, engine, vidsch, TypeOK, Completing
<1>7. LocalInv'
  BY <1>0, BoundsAssumption
  DEF NotifyFence, Goto, engine, vidsch, TypeOK, LocalInv, NoMissedFence,
      FenceIds
<1>8. HeadInv'
  BY <1>0, <1>1, HeadFrame
  DEF NotifyFence, Goto, engine, vidsch, TypeOK, WillCheck, R
<1>9. RequestInv'
  BY <1>0, <1>1, RequestFrame
  DEF NotifyFence, Goto, engine, vidsch, TypeOK
<1>10. AcknowledgeInv'
  BY <1>0, <1>1, AcknowledgeFrame
  DEF NotifyFence, Goto, engine, vidsch, TypeOK, WillCheck, R
<1> QED
  BY <1>2, <1>3, <1>4, <1>5, <1>6, <1>7, <1>8, <1>9, <1>10 DEF IndInv

\* The load and comparison of notify_fence preserves IndInv.
LEMMA NfLoadInd ==
  ASSUME MaxSubmit < U32, IndInv, NEW t \in Threads, NfLoad(t)
  PROVE  IndInv'
<1>0. /\ TypeOK /\ LockInv /\ CountInv /\ OwnerInv /\ CompletionInv
      /\ LocalInv /\ HeadInv /\ RequestInv /\ AcknowledgeInv
  BY DEF IndInv
<1>1. /\ \A u \in Threads :
          /\ Holding(u)' <=> Holding(u)
          /\ Completing(u)' <=> Completing(u)
          /\ Preempting(u)' <=> Preempting(u)
          /\ HasRequest(u)' <=> HasRequest(u)
  BY <1>0
  DEF NfLoad, Goto, engine, vidsch, WrappingSucc, TypeOK, Holding, Completing,
      HasRequest, Preempting, Locked
<1>2. TypeOK'
  BY <1>0, BoundsAssumption, ThreadsAssumption
  DEF NfLoad, Goto, engine, vidsch, WrappingSucc, TypeOK, FenceIds, PCs,
      Locked
<1>3. LockInv'
  BY <1>0, ThreadsAssumption
  DEF NfLoad, Goto, engine, vidsch, WrappingSucc, TypeOK, LockInv, Locked
<1>4. CountInv'
  BY <1>0, BoundsAssumption
  DEF NfLoad, Goto, engine, vidsch, WrappingSucc, TypeOK, CountInv, R
<1>5. OwnerInv'
  BY <1>0, <1>1, OwnerFrame
  DEF NfLoad, Goto, engine, vidsch, WrappingSucc, TypeOK
<1>6. CompletionInv'
  <2>1. pc'[t] = "nf_notify" => last_completed_fence = R /\ fence[t] = R + 1
    <3>1. R < fence[t] /\ last_completed_fence <= R /\ fence[t] \in Nat /\ R \in Nat
      BY <1>0, SMTT(30) DEF NfLoad, TypeOK, OwnerInv, CompletionInv, Holding, FenceIds, R
    <3>2. pc'[t] = "nf_notify" => WrappingSucc(last_completed_fence) = fence[t]
      BY <1>0 DEF NfLoad, Goto, TypeOK
    <3> QED BY <1>0, <3>1, <3>2, BoundsAssumption, SMTT(30) DEF WrappingSucc, TypeOK, FenceIds
  <2>2. \A u \in Threads \ {t} : pc'[u] = pc[u]
    BY <1>0 DEF NfLoad, Goto, TypeOK
  <2>3. R' = R /\ UNCHANGED <<fence, last_completed_fence>> /\ pc'[t] # "nq_notify"
    BY <1>0 DEF NfLoad, Goto, TypeOK, engine, vidsch, R
  <2> QED BY <1>0, <1>1, <2>1, <2>2, <2>3 DEF CompletionInv
<1>7. LocalInv'
  BY <1>0, BoundsAssumption, SMTT(30)
  DEF NfLoad, Goto, engine, vidsch, WrappingSucc, TypeOK, LocalInv,
      NoMissedFence, FenceIds
<1>8. HeadInv'
  BY <1>0, <1>1, HeadFrame
  DEF NfLoad, Goto, engine, vidsch, WrappingSucc, TypeOK, WillCheck, R
<1>9. RequestInv'
  BY <1>0, <1>1, RequestFrame
  DEF NfLoad, Goto, engine, vidsch, WrappingSucc, TypeOK
<1>10. AcknowledgeInv'
  BY <1>0, <1>1, AcknowledgeFrame
  DEF NfLoad, Goto, engine, vidsch, WrappingSucc, TypeOK, WillCheck, R
<1> QED
  BY <1>2, <1>3, <1>4, <1>5, <1>6, <1>7, <1>8, <1>9, <1>10 DEF IndInv

\* The notification of notify_fence preserves IndInv.
LEMMA NfNotifyInd ==
  ASSUME MaxSubmit < U32, IndInv, NEW t \in Threads, NfNotify(t)
  PROVE  IndInv'
<1>0. /\ TypeOK /\ LockInv /\ CountInv /\ OwnerInv /\ CompletionInv
      /\ LocalInv /\ HeadInv /\ RequestInv /\ AcknowledgeInv
  BY DEF IndInv
<1>1. /\ \A u \in Threads :
          /\ Holding(u)' <=> Holding(u) /\ u # t
          /\ Completing(u)' <=> Completing(u) \/ u = t
          /\ Preempting(u)' <=> Preempting(u)
          /\ HasRequest(u)' <=> HasRequest(u)
      /\ Holding(t) /\ ~Completing(t)
  BY <1>0
  DEF NfNotify, Goto, engine, vidsch, ReportCompleted, TypeOK, Holding,
      Completing, HasRequest, Preempting, Locked
<1>2. TypeOK'
  <2>1. reported' \in Seq(FenceIds)
    BY <1>0, SMTT(30) DEF NfNotify, ReportCompleted, TypeOK
  <2>2. pc' \in [Threads -> PCs]
    BY <1>0 DEF NfNotify, Goto, TypeOK, PCs, Locked
  <2> QED BY <1>0, <2>1, <2>2 DEF NfNotify, engine, TypeOK
<1>3. LockInv'
  BY <1>0, ThreadsAssumption
  DEF NfNotify, Goto, engine, vidsch, ReportCompleted, TypeOK, LockInv, Locked
<1>4. CountInv'
  <2>1. fence[t] = R + 1 /\ fence[t] <= submits
    BY <1>0, <1>1 DEF NfNotify, CompletionInv, OwnerInv
  <2> QED BY <1>0, <2>1, SMTT(30) DEF NfNotify, ReportCompleted, engine, TypeOK, CountInv, R
<1>5. OwnerInv'
  <2>1. /\ running' = running /\ fence' = fence
        /\ pending_fences' = pending_fences /\ submits' = submits
        /\ R' = R + 1 /\ R \in Nat /\ fence[t] = R + 1
    BY <1>0, SMTT(30) DEF NfNotify, ReportCompleted, engine, TypeOK, CompletionInv, R
  <2>2. /\ running' \cap pending_fences' = {}
        /\ \A g \in running' \cup pending_fences' : R' < g /\ g <= submits'
    BY <1>0, <1>1, <2>1, SMTT(30) DEF OwnerInv, TypeOK, CountInv, FenceIds
  <2>3. \A u \in Threads : Holding(u)' =>
            /\ R' < fence'[u] /\ fence'[u] <= submits'
            /\ fence'[u] \notin running' \cup pending_fences'
    BY <1>0, <1>1, <2>1, SMTT(30) DEF OwnerInv, TypeOK, CountInv, FenceIds
  <2>4. \A u, v \in Threads :
            Holding(u)' /\ Holding(v)' /\ fence'[u] = fence'[v] => u = v
    BY <1>0, <1>1, <2>1 DEF OwnerInv, TypeOK
  <2>5. ASSUME NEW g \in (R' + 1) .. submits'
        PROVE  \/ g \in running' \cup pending_fences'
               \/ \E u \in Threads : Holding(u)' /\ fence'[u] = g
    <3>1. submits \in Nat
      BY <1>0 DEF TypeOK, CountInv
    <3>2. g \in (R + 1) .. submits /\ g # fence[t]
      BY <2>1, <3>1, SMTT(30)
    <3>3. g \in running \cup pending_fences \/ \E u \in Threads : Holding(u) /\ fence[u] = g
      BY <3>2, <1>0 DEF OwnerInv
    <3>4. ASSUME NEW u \in Threads, Holding(u), fence[u] = g PROVE Holding(u)'
      BY <3>2, <3>4, <1>1
    <3> QED BY <2>1, <3>3, <3>4
  <2> QED BY <2>2, <2>3, <2>4, <2>5 DEF OwnerInv
<1>6. CompletionInv'
  <2>1. /\ fence' = fence /\ last_completed_fence' = last_completed_fence
        /\ R' = R + 1 /\ R \in Nat /\ fence[t] = R + 1
        /\ last_completed_fence = R
    BY <1>0, SMTT(30) DEF NfNotify, ReportCompleted, engine, TypeOK, CompletionInv, R
  <2>2. \A u \in Threads : ~Completing(u)
    BY <1>0, <2>1, SMTT(30) DEF CompletionInv
  <2>3. \A u \in Threads : pc'[u] \notin {"nf_notify", "nq_notify"}
    <3> SUFFICES ASSUME NEW u \in Threads \ {t}, pc[u] \in {"nf_notify", "nq_notify"}
                 PROVE  FALSE
      BY <1>0, SMTT(30) DEF NfNotify, Goto, TypeOK
    <3> QED BY <1>0, <1>1, <2>1, SMTT(30) DEF CompletionInv, OwnerInv, Holding
  <2> QED BY <1>0, <1>1, <2>1, <2>2, <2>3 DEF CompletionInv
<1>7. LocalInv'
  BY <1>0, BoundsAssumption
  DEF NfNotify, Goto, engine, vidsch, ReportCompleted, TypeOK, LocalInv,
      NoMissedFence, FenceIds
<1>8. HeadInv'
  BY <1>1 DEF HeadInv, WillCheck
<1>9. RequestInv'
  BY <1>0, <1>1, RequestFrame
  DEF NfNotify, Goto, engine, vidsch, ReportCompleted, TypeOK
<1>10. AcknowledgeInv'
  BY <1>1 DEF AcknowledgeInv, WillCheck
<1> QED
  BY <1>2, <1>3, <1>4, <1>5, <1>6, <1>7, <1>8, <1>9, <1>10 DEF IndInv

\* The complete() of notify_fence preserves IndInv.
LEMMA NfCompleteInd ==
  ASSUME MaxSubmit < U32, IndInv, NEW t \in Threads, NfComplete(t)
  PROVE  IndInv'
<1>0. /\ TypeOK /\ LockInv /\ CountInv /\ OwnerInv /\ CompletionInv
      /\ LocalInv /\ HeadInv /\ RequestInv /\ AcknowledgeInv
  BY DEF IndInv
<1>1. /\ \A u \in Threads :
          /\ Holding(u)' <=> Holding(u)
          /\ Completing(u)' <=> Completing(u) /\ u # t
          /\ Preempting(u)' <=> Preempting(u)
          /\ HasRequest(u)' <=> HasRequest(u)
      /\ Completing(t)
  BY <1>0
  DEF NfComplete, Goto, engine, vidsch, TypeOK, Holding, Completing,
      HasRequest, Preempting, Locked, LocalInv
<1>2. TypeOK'
  BY <1>0, BoundsAssumption, ThreadsAssumption
  DEF NfComplete, Goto, engine, vidsch, TypeOK, FenceIds, PCs, Locked
<1>3. LockInv'
  BY <1>0, ThreadsAssumption
  DEF NfComplete, Goto, engine, vidsch, TypeOK, LockInv, Locked
<1>4. CountInv'
  BY <1>0, BoundsAssumption
  DEF NfComplete, Goto, engine, vidsch, TypeOK, CountInv, R
<1>5. OwnerInv'
  BY <1>0, <1>1, OwnerFrame
  DEF NfComplete, Goto, engine, vidsch, TypeOK
<1>6. CompletionInv'
  <2>1. fence[t] = R /\ last_completed_fence + 1 = R /\ last_completed_fence \in Nat
    BY <1>0, <1>1, SMTT(30) DEF CompletionInv, TypeOK, FenceIds
  <2>2. \A u \in Threads : ~Completing(u)' /\ pc'[u] \notin {"nf_notify", "nq_notify"}
    BY <1>0, <1>1, <2>1, SMTT(30) DEF NfComplete, Goto, TypeOK, CompletionInv
  <2> QED BY <2>1, <2>2 DEF NfComplete, vidsch, CompletionInv, R
<1>7. LocalInv'
  <2>1. fence[t] = R /\ last_completed_fence + 1 = R /\ last_completed_fence \in Nat
    BY <1>0, <1>1, SMTT(30) DEF CompletionInv, TypeOK, FenceIds
  <2>2. \A u \in Threads : last_completed'[u] <= last_completed_fence'
    BY <1>0, <2>1, SMTT(30) DEF NfComplete, TypeOK, LocalInv, FenceIds
  <2> QED BY <1>0, <2>2 DEF NfComplete, Goto, TypeOK, LocalInv, NoMissedFence
<1>8. HeadInv'
  <2>1. WillCheck(t, {"nq_lock", "nq_loop"})'
    BY <1>0 DEF NfComplete, Goto, TypeOK, WillCheck
  <2> QED BY <2>1 DEF HeadInv
<1>9. RequestInv'
  BY <1>0, <1>1, RequestFrame
  DEF NfComplete, Goto, engine, vidsch, TypeOK
<1>10. AcknowledgeInv'
  <2>1. WillCheck(t, {"nq_lock", "nq_loop", "nq_submitted", "nq_swap"})'
    BY <1>0 DEF NfComplete, Goto, TypeOK, WillCheck
  <2> QED BY <2>1 DEF AcknowledgeInv
<1> QED
  BY <1>2, <1>3, <1>4, <1>5, <1>6, <1>7, <1>8, <1>9, <1>10 DEF IndInv

\* The insertion into pending_fences preserves IndInv.
LEMMA NfInsertInd ==
  ASSUME MaxSubmit < U32, IndInv, NEW t \in Threads, NfInsert(t)
  PROVE  IndInv'
<1>0. /\ TypeOK /\ LockInv /\ CountInv /\ OwnerInv /\ CompletionInv
      /\ LocalInv /\ HeadInv /\ RequestInv /\ AcknowledgeInv
  BY DEF IndInv
<1>1. /\ \A u \in Threads :
          /\ Holding(u)' <=> Holding(u) /\ u # t
          /\ Completing(u)' <=> Completing(u)
          /\ Preempting(u)' <=> Preempting(u)
          /\ HasRequest(u)' <=> HasRequest(u)
      /\ Holding(t)
  BY <1>0
  DEF NfInsert, Goto, engine, vidsch, TypeOK, Holding, Completing, HasRequest,
      Preempting, Locked, LocalInv
<1>2. TypeOK'
  BY <1>0, BoundsAssumption, ThreadsAssumption
  DEF NfInsert, Goto, engine, vidsch, TypeOK, FenceIds, PCs, Locked
<1>3. LockInv'
  BY <1>0, ThreadsAssumption
  DEF NfInsert, Goto, engine, vidsch, TypeOK, LockInv, Locked
<1>4. CountInv'
  BY <1>0, BoundsAssumption
  DEF NfInsert, Goto, engine, vidsch, TypeOK, CountInv, R
<1>5. OwnerInv'
  <2>1. /\ running' = running /\ fence' = fence
        /\ pending_fences' = pending_fences \cup {fence[t]}
        /\ R' = R /\ submits' = submits
    BY <1>0 DEF NfInsert, vidsch, R
  <2>2. /\ running' \cap pending_fences' = {}
        /\ \A g \in running' \cup pending_fences' : R' < g /\ g <= submits'
    <3>1. R < fence[t] /\ fence[t] <= submits /\ fence[t] \notin running
      BY <1>0, <1>1 DEF OwnerInv
    <3> QED BY <1>0, <2>1, <3>1 DEF OwnerInv
  <2>3. \A u \in Threads : Holding(u)' =>
            /\ R' < fence'[u] /\ fence'[u] <= submits'
            /\ fence'[u] \notin running' \cup pending_fences'
    BY <1>0, <1>1, <2>1 DEF OwnerInv, TypeOK, CountInv, FenceIds
  <2>4. \A u, v \in Threads :
            Holding(u)' /\ Holding(v)' /\ fence'[u] = fence'[v] => u = v
    BY <1>0, <1>1, <2>1 DEF OwnerInv, TypeOK
  <2>5. \A g \in (R' + 1) .. submits' :
            \/ g \in running' \cup pending_fences'
            \/ \E u \in Threads : Holding(u)' /\ fence'[u] = g
    BY <1>0, <1>1, <2>1 DEF OwnerInv, TypeOK, CountInv
  <2> QED BY <2>2, <2>3, <2>4, <2>5 DEF OwnerInv
<1>6. CompletionInv'
  BY <1>0, <1>1, CompletionFrame
  DEF NfInsert, Goto, engine, vidsch, TypeOK, Completing
<1>7. LocalInv'
  BY <1>0, BoundsAssumption
  DEF NfInsert, Goto, engine, vidsch, TypeOK, LocalInv, NoMissedFence,
      FenceIds
<1>8. HeadInv'
  <2>1. WillCheck(t, {"nq_lock", "nq_loop"})'
    BY <1>0 DEF NfInsert, Goto, TypeOK, WillCheck
  <2> QED BY <2>1 DEF HeadInv
<1>9. RequestInv'
  BY <1>0, <1>1, RequestFrame
  DEF NfInsert, Goto, engine, vidsch, TypeOK
<1>10. AcknowledgeInv'
  BY <1>0, <1>1, AcknowledgeFrame
  DEF NfInsert, Goto, engine, vidsch, TypeOK, WillCheck, R
<1> QED
  BY <1>2, <1>3, <1>4, <1>5, <1>6, <1>7, <1>8, <1>9, <1>10 DEF IndInv

\* The load of notify_queued_fences before the lock preserves IndInv.
LEMMA NqLoadInd ==
  ASSUME MaxSubmit < U32, IndInv, NEW t \in Threads, NqLoad(t)
  PROVE  IndInv'
<1>0. /\ TypeOK /\ LockInv /\ CountInv /\ OwnerInv /\ CompletionInv
      /\ LocalInv /\ HeadInv /\ RequestInv /\ AcknowledgeInv
  BY DEF IndInv
<1>1. /\ \A u \in Threads :
          /\ Holding(u)' <=> Holding(u)
          /\ Completing(u)' <=> Completing(u)
          /\ Preempting(u)' <=> Preempting(u)
          /\ HasRequest(u)' <=> HasRequest(u)
  BY <1>0
  DEF NqLoad, Goto, engine, vidsch, TypeOK, Holding, Completing, HasRequest,
      Preempting, Locked
<1>2. TypeOK'
  BY <1>0, BoundsAssumption, ThreadsAssumption
  DEF NqLoad, Goto, engine, vidsch, TypeOK, FenceIds, PCs, Locked
<1>3. LockInv'
  BY <1>0, ThreadsAssumption
  DEF NqLoad, Goto, engine, vidsch, TypeOK, LockInv, Locked
<1>4. CountInv'
  BY <1>0, BoundsAssumption
  DEF NqLoad, Goto, engine, vidsch, TypeOK, CountInv, R
<1>5. OwnerInv'
  BY <1>0, <1>1, OwnerFrame
  DEF NqLoad, Goto, engine, vidsch, TypeOK
<1>6. CompletionInv'
  BY <1>0, <1>1, CompletionFrame
  DEF NqLoad, Goto, engine, vidsch, TypeOK, Completing
<1>7. LocalInv'
  BY <1>0, BoundsAssumption, SMTT(30)
  DEF NqLoad, Goto, engine, vidsch, TypeOK, LocalInv, NoMissedFence, FenceIds
<1>8. HeadInv'
  <2>1. \E u \in Threads : WillCheck(u, {"nq_lock", "nq_loop"})'
    <3>1. CASE last_completed_fence = R
      BY <1>0, <3>1 DEF NqLoad, Goto, vidsch, TypeOK, WillCheck, R
    <3>2. CASE \E u \in Threads : Completing(u)
      BY <1>1, <3>2 DEF WillCheck
    <3> QED BY <1>0, <3>1, <3>2 DEF CompletionInv
  <2> QED BY <2>1 DEF HeadInv
<1>9. RequestInv'
  BY <1>0, <1>1, RequestFrame
  DEF NqLoad, Goto, engine, vidsch, TypeOK
<1>10. AcknowledgeInv'
  <2>1. \E u \in Threads : WillCheck(u, {"nq_lock", "nq_loop", "nq_submitted", "nq_swap"})'
    <3>1. CASE last_completed_fence = R
      BY <1>0, <3>1 DEF NqLoad, Goto, vidsch, TypeOK, WillCheck, R
    <3>2. CASE \E u \in Threads : Completing(u)
      BY <1>1, <3>2 DEF WillCheck
    <3> QED BY <1>0, <3>1, <3>2 DEF CompletionInv
  <2> QED BY <2>1 DEF AcknowledgeInv
<1> QED
  BY <1>2, <1>3, <1>4, <1>5, <1>6, <1>7, <1>8, <1>9, <1>10 DEF IndInv

\* Taking the lock of pending_fences preserves IndInv.
LEMMA NqLockInd ==
  ASSUME MaxSubmit < U32, IndInv, NEW t \in Threads, NqLock(t)
  PROVE  IndInv'
<1>0. /\ TypeOK /\ LockInv /\ CountInv /\ OwnerInv /\ CompletionInv
      /\ LocalInv /\ HeadInv /\ RequestInv /\ AcknowledgeInv
  BY DEF IndInv
<1>1. /\ \A u \in Threads :
          /\ Holding(u)' <=> Holding(u)
          /\ Completing(u)' <=> Completing(u)
          /\ Preempting(u)' <=> Preempting(u)
          /\ HasRequest(u)' <=> HasRequest(u)
  BY <1>0
  DEF NqLock, Goto, engine, vidsch, TypeOK, Holding, Completing, HasRequest,
      Preempting, Locked
<1>2. TypeOK'
  BY <1>0, BoundsAssumption, ThreadsAssumption
  DEF NqLock, Goto, engine, vidsch, TypeOK, FenceIds, PCs, Locked
<1>3. LockInv'
  BY <1>0, ThreadsAssumption
  DEF NqLock, Goto, engine, vidsch, TypeOK, LockInv, Locked
<1>4. CountInv'
  BY <1>0, BoundsAssumption
  DEF NqLock, Goto, engine, vidsch, TypeOK, CountInv, R
<1>5. OwnerInv'
  BY <1>0, <1>1, OwnerFrame
  DEF NqLock, Goto, engine, vidsch, TypeOK
<1>6. CompletionInv'
  BY <1>0, <1>1, CompletionFrame
  DEF NqLock, Goto, engine, vidsch, TypeOK, Completing
<1>7. LocalInv'
  BY <1>0, BoundsAssumption
  DEF NqLock, Goto, engine, vidsch, TypeOK, LocalInv, NoMissedFence, FenceIds
<1>8. HeadInv'
  BY <1>0, <1>1, HeadFrame
  DEF NqLock, Goto, engine, vidsch, TypeOK, WillCheck, R
<1>9. RequestInv'
  BY <1>0, <1>1, RequestFrame
  DEF NqLock, Goto, engine, vidsch, TypeOK
<1>10. AcknowledgeInv'
  BY <1>0, <1>1, AcknowledgeFrame
  DEF NqLock, Goto, engine, vidsch, TypeOK, WillCheck, R
<1> QED
  BY <1>2, <1>3, <1>4, <1>5, <1>6, <1>7, <1>8, <1>9, <1>10 DEF IndInv

\* Popping the next fence in the loop preserves IndInv.
LEMMA NqPopInd ==
  ASSUME MaxSubmit < U32, IndInv, NEW t \in Threads, NqPop(t)
  PROVE  IndInv'
<1>0. /\ TypeOK /\ LockInv /\ CountInv /\ OwnerInv /\ CompletionInv
      /\ LocalInv /\ HeadInv /\ RequestInv /\ AcknowledgeInv
  BY DEF IndInv
<1>a. /\ R + 1 \in pending_fences /\ R + 1 \notin pending_fences'
      /\ R' = R /\ R \in Nat
  <2> PICK f \in pending_fences :
            /\ WrappingSucc(last_completed[t]) = f
            /\ pending_fences' = pending_fences \ {f}
    BY DEF NqPop
  <2>1. last_completed[t] <= R /\ R < f /\ last_completed[t] \in Nat /\ R \in Nat
    BY <1>0, SMTT(30) DEF TypeOK, FenceIds, LocalInv, CompletionInv, OwnerInv, R
  <2> QED BY <2>1, SMTT(30) DEF WrappingSucc, NqPop, vidsch, R
<1>1. /\ \A u \in Threads :
          /\ Holding(u)' <=> Holding(u) \/ u = t
          /\ Completing(u)' <=> Completing(u)
          /\ Preempting(u)' <=> Preempting(u)
          /\ HasRequest(u)' <=> HasRequest(u)
      /\ ~Holding(t)
  BY <1>0
  DEF NqPop, Goto, engine, vidsch, WrappingSucc, IsFirst, TypeOK, Holding,
      Completing, HasRequest, Preempting, Locked
<1>2. TypeOK'
  BY <1>0, BoundsAssumption, ThreadsAssumption
  DEF NqPop, Goto, engine, vidsch, WrappingSucc, IsFirst, TypeOK, FenceIds,
      PCs, Locked
<1>3. LockInv'
  BY <1>0, ThreadsAssumption
  DEF NqPop, Goto, engine, vidsch, WrappingSucc, IsFirst, TypeOK, LockInv,
      Locked
<1>4. CountInv'
  BY <1>0, BoundsAssumption
  DEF NqPop, Goto, engine, vidsch, WrappingSucc, IsFirst, TypeOK, CountInv, R
<1>5. OwnerInv'
  <2> PICK f \in pending_fences :
            /\ pending_fences' = pending_fences \ {f}
            /\ fence' = [fence EXCEPT ![t] = f]
    BY DEF NqPop
  <2>1. /\ running' = running /\ R' = R /\ submits' = submits
    BY <1>0 DEF NqPop, vidsch, R
  <2>2. /\ running' \cap pending_fences' = {}
        /\ \A g \in running' \cup pending_fences' : R' < g /\ g <= submits'
    BY <1>0, <2>1 DEF OwnerInv
  <2>3. \A u \in Threads : Holding(u)' =>
            /\ R' < fence'[u] /\ fence'[u] <= submits'
            /\ fence'[u] \notin running' \cup pending_fences'
    BY <1>0, <1>1, <2>1, SMTT(30) DEF OwnerInv, TypeOK, CountInv, FenceIds
  <2>4. \A u, v \in Threads :
            Holding(u)' /\ Holding(v)' /\ fence'[u] = fence'[v] => u = v
    BY <1>0, <1>1, <2>1, SMTT(30) DEF OwnerInv, TypeOK
  <2>5. \A g \in (R' + 1) .. submits' :
            \/ g \in running' \cup pending_fences'
            \/ \E u \in Threads : Holding(u)' /\ fence'[u] = g
    <3>1. /\ Holding(t)' /\ fence'[t] = f
          /\ \A u \in Threads : Holding(u) => Holding(u)' /\ fence'[u] = fence[u]
      BY <1>0, <1>1 DEF TypeOK
    <3> QED BY <1>0, <2>1, <3>1 DEF OwnerInv
  <2> QED BY <2>2, <2>3, <2>4, <2>5 DEF OwnerInv
<1>6. CompletionInv'
  <2>1. last_completed_fence = R /\ fence'[t] = R + 1
    <3>1. PICK f \in pending_fences :
              /\ WrappingSucc(last_completed[t]) = f
              /\ fence' = [fence EXCEPT ![t] = f]
      BY DEF NqPop
    <3>2. /\ last_completed[t] <= last_completed_fence /\ last_completed_fence <= R
          /\ R < f /\ last_completed[t] \in Nat /\ last_completed_fence \in Nat
      BY <1>0, <1>a, SMTT(30) DEF TypeOK, FenceIds, LocalInv, CompletionInv, OwnerInv
    <3> QED BY <1>0, <1>a, <3>1, <3>2, SMTT(30) DEF WrappingSucc, TypeOK
  <2>2. \A u \in Threads \ {t} : pc'[u] = pc[u] /\ fence'[u] = fence[u]
    BY <1>0 DEF NqPop, Goto, TypeOK
  <2>3. R' = R /\ last_completed_fence' = last_completed_fence /\ ~Completing(t)
    BY <1>a DEF NqPop, Completing
  <2> QED BY <1>0, <1>1, <2>1, <2>2, <2>3 DEF CompletionInv
<1>7. LocalInv'
  BY <1>0, BoundsAssumption
  DEF NqPop, Goto, engine, vidsch, WrappingSucc, IsFirst, TypeOK, LocalInv,
      NoMissedFence, FenceIds
<1>8. HeadInv'
  BY <1>a DEF HeadInv
<1>9. RequestInv'
  BY <1>0, <1>1, RequestFrame
  DEF NqPop, Goto, engine, vidsch, WrappingSucc, IsFirst, TypeOK
<1>10. AcknowledgeInv'
  BY <1>0, <1>a, SMTT(30) DEF NqPop, vidsch, OwnerInv, AcknowledgeInv, TypeOK
<1> QED
  BY <1>2, <1>3, <1>4, <1>5, <1>6, <1>7, <1>8, <1>9, <1>10 DEF IndInv

\* Leaving the loop (which never panics) preserves IndInv.
LEMMA NqStopInd ==
  ASSUME MaxSubmit < U32, IndInv, NEW t \in Threads, NqStop(t)
  PROVE  IndInv'
<1>0. /\ TypeOK /\ LockInv /\ CountInv /\ OwnerInv /\ CompletionInv
      /\ LocalInv /\ HeadInv /\ RequestInv /\ AcknowledgeInv
  BY DEF IndInv
<1>a. pc' = [pc EXCEPT ![t] = "nq_submitted"]
  <2> SUFFICES ASSUME NEW f \in pending_fences, WrappingSucc(last_completed[t]) > f
               PROVE  FALSE
    BY DEF NqStop, Goto
  <2>1. last_completed[t] <= R /\ R < f /\ last_completed[t] \in Nat /\ R \in Nat
    BY <1>0, SMTT(30) DEF TypeOK, FenceIds, LocalInv, CompletionInv, OwnerInv, R
  <2> QED BY <2>1, <1>0 DEF WrappingSucc, TypeOK, FenceIds
<1>1. /\ \A u \in Threads :
          /\ Holding(u)' <=> Holding(u)
          /\ Completing(u)' <=> Completing(u)
          /\ Preempting(u)' <=> Preempting(u)
          /\ HasRequest(u)' <=> HasRequest(u)
  BY <1>0, <1>a
  DEF NqStop, Goto, engine, vidsch, WrappingSucc, IsFirst, TypeOK, Holding,
      Completing, HasRequest, Preempting, Locked
<1>2. TypeOK'
  BY <1>0, BoundsAssumption, ThreadsAssumption
  DEF NqStop, Goto, engine, vidsch, WrappingSucc, IsFirst, TypeOK, FenceIds,
      PCs, Locked
<1>3. LockInv'
  BY <1>0, <1>a
  DEF NqStop, Goto, engine, vidsch, WrappingSucc, IsFirst, TypeOK, LockInv,
      Locked
<1>4. CountInv'
  BY <1>0, BoundsAssumption
  DEF NqStop, Goto, engine, vidsch, WrappingSucc, IsFirst, TypeOK, CountInv, R
<1>5. OwnerInv'
  BY <1>0, <1>1, OwnerFrame
  DEF NqStop, Goto, engine, vidsch, WrappingSucc, IsFirst, TypeOK
<1>6. CompletionInv'
  BY <1>0, <1>1, CompletionFrame
  DEF NqStop, Goto, engine, vidsch, WrappingSucc, IsFirst, TypeOK, Completing
<1>7. LocalInv'
  BY <1>0, <1>a
  DEF NqStop, Goto, engine, vidsch, WrappingSucc, IsFirst, TypeOK, LocalInv,
      NoMissedFence
<1>8. HeadInv'
  <2>1. last_completed[t] = R => R + 1 \notin pending_fences
    <3> SUFFICES ASSUME last_completed[t] = R, R + 1 \in pending_fences
                 PROVE  FALSE
      OBVIOUS
    <3>1. IsFirst(R + 1, pending_fences)
      BY <1>0, SMTT(30) DEF IsFirst, OwnerInv, TypeOK, FenceIds, R
    <3>2. WrappingSucc(R) = R + 1
      BY <1>0, BoundsAssumption, SMTT(30) DEF WrappingSucc, OwnerInv, CountInv, TypeOK, R
    <3> QED BY <3>1, <3>2 DEF NqStop
  <2>2. R + 1 \in pending_fences =>
          \A u \in Threads : WillCheck(u, {"nq_lock", "nq_loop"})
                             => WillCheck(u, {"nq_lock", "nq_loop"})'
    BY <1>0, <1>1, <1>a, <2>1 DEF NqStop, WillCheck, TypeOK, vidsch, R
  <2> QED BY <1>0, <2>2 DEF NqStop, engine, vidsch, HeadInv, R
<1>9. RequestInv'
  BY <1>0, <1>1, RequestFrame
  DEF NqStop, Goto, engine, vidsch, WrappingSucc, IsFirst, TypeOK
<1>10. AcknowledgeInv'
  <2>1. \A u \in Threads :
            WillCheck(u, {"nq_lock", "nq_loop", "nq_submitted", "nq_swap"})
            => WillCheck(u, {"nq_lock", "nq_loop", "nq_submitted", "nq_swap"})'
    BY <1>0, <1>1, <1>a DEF NqStop, vidsch, TypeOK, WillCheck, R
  <2> QED BY <1>0, <2>1, AcknowledgeFrame DEF NqStop, engine, vidsch
<1> QED
  BY <1>2, <1>3, <1>4, <1>5, <1>6, <1>7, <1>8, <1>9, <1>10 DEF IndInv

\* The notification in the loop preserves IndInv.
LEMMA NqNotifyInd ==
  ASSUME MaxSubmit < U32, IndInv, NEW t \in Threads, NqNotify(t)
  PROVE  IndInv'
<1>0. /\ TypeOK /\ LockInv /\ CountInv /\ OwnerInv /\ CompletionInv
      /\ LocalInv /\ HeadInv /\ RequestInv /\ AcknowledgeInv
  BY DEF IndInv
<1>1. /\ \A u \in Threads :
          /\ Holding(u)' <=> Holding(u) /\ u # t
          /\ Completing(u)' <=> Completing(u) \/ u = t
          /\ Preempting(u)' <=> Preempting(u)
          /\ HasRequest(u)' <=> HasRequest(u)
      /\ Holding(t) /\ ~Completing(t)
  BY <1>0
  DEF NqNotify, Goto, engine, vidsch, ReportCompleted, TypeOK, Holding,
      Completing, HasRequest, Preempting, Locked
<1>2. TypeOK'
  <2>1. reported' \in Seq(FenceIds)
    BY <1>0, SMTT(30) DEF NqNotify, ReportCompleted, TypeOK
  <2>2. pc' \in [Threads -> PCs]
    BY <1>0 DEF NqNotify, Goto, TypeOK, PCs, Locked
  <2> QED BY <1>0, <2>1, <2>2 DEF NqNotify, engine, TypeOK
<1>3. LockInv'
  BY <1>0, ThreadsAssumption
  DEF NqNotify, Goto, engine, vidsch, ReportCompleted, TypeOK, LockInv, Locked
<1>4. CountInv'
  <2>1. fence[t] = R + 1 /\ fence[t] <= submits
    BY <1>0, <1>1 DEF NqNotify, CompletionInv, OwnerInv
  <2> QED BY <1>0, <2>1, SMTT(30) DEF NqNotify, ReportCompleted, engine, TypeOK, CountInv, R
<1>5. OwnerInv'
  <2>1. /\ running' = running /\ fence' = fence
        /\ pending_fences' = pending_fences /\ submits' = submits
        /\ R' = R + 1 /\ R \in Nat /\ fence[t] = R + 1
    BY <1>0, SMTT(30) DEF NqNotify, ReportCompleted, engine, TypeOK, CompletionInv, R
  <2>2. /\ running' \cap pending_fences' = {}
        /\ \A g \in running' \cup pending_fences' : R' < g /\ g <= submits'
    BY <1>0, <1>1, <2>1, SMTT(30) DEF OwnerInv, TypeOK, CountInv, FenceIds
  <2>3. \A u \in Threads : Holding(u)' =>
            /\ R' < fence'[u] /\ fence'[u] <= submits'
            /\ fence'[u] \notin running' \cup pending_fences'
    BY <1>0, <1>1, <2>1, SMTT(30) DEF OwnerInv, TypeOK, CountInv, FenceIds
  <2>4. \A u, v \in Threads :
            Holding(u)' /\ Holding(v)' /\ fence'[u] = fence'[v] => u = v
    BY <1>0, <1>1, <2>1 DEF OwnerInv, TypeOK
  <2>5. ASSUME NEW g \in (R' + 1) .. submits'
        PROVE  \/ g \in running' \cup pending_fences'
               \/ \E u \in Threads : Holding(u)' /\ fence'[u] = g
    <3>1. submits \in Nat
      BY <1>0 DEF TypeOK, CountInv
    <3>2. g \in (R + 1) .. submits /\ g # fence[t]
      BY <2>1, <3>1, SMTT(30)
    <3>3. g \in running \cup pending_fences \/ \E u \in Threads : Holding(u) /\ fence[u] = g
      BY <3>2, <1>0 DEF OwnerInv
    <3>4. ASSUME NEW u \in Threads, Holding(u), fence[u] = g PROVE Holding(u)'
      BY <3>2, <3>4, <1>1
    <3> QED BY <2>1, <3>3, <3>4
  <2> QED BY <2>2, <2>3, <2>4, <2>5 DEF OwnerInv
<1>6. CompletionInv'
  <2>1. /\ fence' = fence /\ last_completed_fence' = last_completed_fence
        /\ R' = R + 1 /\ R \in Nat /\ fence[t] = R + 1
        /\ last_completed_fence = R
    BY <1>0, SMTT(30) DEF NqNotify, ReportCompleted, engine, TypeOK, CompletionInv, R
  <2>2. \A u \in Threads : ~Completing(u)
    BY <1>0, <2>1, SMTT(30) DEF CompletionInv
  <2>3. \A u \in Threads : pc'[u] \notin {"nf_notify", "nq_notify"}
    <3> SUFFICES ASSUME NEW u \in Threads \ {t}, pc[u] \in {"nf_notify", "nq_notify"}
                 PROVE  FALSE
      BY <1>0, SMTT(30) DEF NqNotify, Goto, TypeOK
    <3> QED BY <1>0, <1>1, <2>1, SMTT(30) DEF CompletionInv, OwnerInv, Holding
  <2> QED BY <1>0, <1>1, <2>1, <2>2, <2>3 DEF CompletionInv
<1>7. LocalInv'
  BY <1>0, BoundsAssumption
  DEF NqNotify, Goto, engine, vidsch, ReportCompleted, TypeOK, LocalInv,
      NoMissedFence, FenceIds
<1>8. HeadInv'
  BY <1>1 DEF HeadInv, WillCheck
<1>9. RequestInv'
  BY <1>0, <1>1, RequestFrame
  DEF NqNotify, Goto, engine, vidsch, ReportCompleted, TypeOK
<1>10. AcknowledgeInv'
  BY <1>1 DEF AcknowledgeInv, WillCheck
<1> QED
  BY <1>2, <1>3, <1>4, <1>5, <1>6, <1>7, <1>8, <1>9, <1>10 DEF IndInv

\* The complete() in the loop preserves IndInv.
LEMMA NqCompleteInd ==
  ASSUME MaxSubmit < U32, IndInv, NEW t \in Threads, NqComplete(t)
  PROVE  IndInv'
<1>0. /\ TypeOK /\ LockInv /\ CountInv /\ OwnerInv /\ CompletionInv
      /\ LocalInv /\ HeadInv /\ RequestInv /\ AcknowledgeInv
  BY DEF IndInv
<1>1. /\ \A u \in Threads :
          /\ Holding(u)' <=> Holding(u)
          /\ Completing(u)' <=> Completing(u) /\ u # t
          /\ Preempting(u)' <=> Preempting(u)
          /\ HasRequest(u)' <=> HasRequest(u)
      /\ Completing(t)
  BY <1>0
  DEF NqComplete, Goto, engine, vidsch, TypeOK, Holding, Completing,
      HasRequest, Preempting, Locked
<1>2. TypeOK'
  BY <1>0, BoundsAssumption, ThreadsAssumption
  DEF NqComplete, Goto, engine, vidsch, TypeOK, FenceIds, PCs, Locked
<1>3. LockInv'
  BY <1>0, ThreadsAssumption
  DEF NqComplete, Goto, engine, vidsch, TypeOK, LockInv, Locked
<1>4. CountInv'
  BY <1>0, BoundsAssumption
  DEF NqComplete, Goto, engine, vidsch, TypeOK, CountInv, R
<1>5. OwnerInv'
  BY <1>0, <1>1, OwnerFrame
  DEF NqComplete, Goto, engine, vidsch, TypeOK
<1>6. CompletionInv'
  <2>1. fence[t] = R /\ last_completed_fence + 1 = R /\ last_completed_fence \in Nat
    BY <1>0, <1>1, SMTT(30) DEF CompletionInv, TypeOK, FenceIds
  <2>2. \A u \in Threads : ~Completing(u)' /\ pc'[u] \notin {"nf_notify", "nq_notify"}
    BY <1>0, <1>1, <2>1, SMTT(30) DEF NqComplete, Goto, TypeOK, CompletionInv
  <2> QED BY <2>1, <2>2 DEF NqComplete, vidsch, CompletionInv, R
<1>7. LocalInv'
  <2>1. fence[t] = R /\ last_completed_fence + 1 = R /\ last_completed_fence \in Nat
    BY <1>0, <1>1, SMTT(30) DEF CompletionInv, TypeOK, FenceIds
  <2>2. \A u \in Threads : last_completed'[u] <= last_completed_fence'
    BY <1>0, <2>1, SMTT(30) DEF NqComplete, TypeOK, LocalInv, FenceIds
  <2> QED BY <1>0, <2>2 DEF NqComplete, Goto, TypeOK, LocalInv, NoMissedFence
<1>8. HeadInv'
  <2>1. WillCheck(t, {"nq_lock", "nq_loop"})'
    BY <1>0, <1>1 DEF NqComplete, Goto, vidsch, TypeOK, CompletionInv, WillCheck, R
  <2> QED BY <2>1 DEF HeadInv
<1>9. RequestInv'
  BY <1>0, <1>1, RequestFrame
  DEF NqComplete, Goto, engine, vidsch, TypeOK
<1>10. AcknowledgeInv'
  <2>1. WillCheck(t, {"nq_lock", "nq_loop", "nq_submitted", "nq_swap"})'
    BY <1>0, <1>1 DEF NqComplete, Goto, vidsch, TypeOK, CompletionInv, WillCheck, R
  <2> QED BY <2>1 DEF AcknowledgeInv
<1> QED
  BY <1>2, <1>3, <1>4, <1>5, <1>6, <1>7, <1>8, <1>9, <1>10 DEF IndInv

\* The comparison with last_submitted_fence preserves IndInv.
LEMMA NqSubmittedInd ==
  ASSUME MaxSubmit < U32, IndInv, NEW t \in Threads, NqSubmitted(t)
  PROVE  IndInv'
<1>0. /\ TypeOK /\ LockInv /\ CountInv /\ OwnerInv /\ CompletionInv
      /\ LocalInv /\ HeadInv /\ RequestInv /\ AcknowledgeInv
  BY DEF IndInv
<1>1. /\ \A u \in Threads :
          /\ Holding(u)' <=> Holding(u)
          /\ Completing(u)' <=> Completing(u)
          /\ Preempting(u)' <=> Preempting(u) \/ (u = t /\ pc'[t] = "pr_completed")
          /\ HasRequest(u)' <=> HasRequest(u)
  BY <1>0
  DEF NqSubmitted, Goto, engine, vidsch, TypeOK, Holding, Completing,
      HasRequest, Preempting, Locked
<1>2. TypeOK'
  BY <1>0, BoundsAssumption, ThreadsAssumption
  DEF NqSubmitted, Goto, engine, vidsch, TypeOK, FenceIds, PCs, Locked
<1>3. LockInv'
  BY <1>0, ThreadsAssumption
  DEF NqSubmitted, Goto, engine, vidsch, TypeOK, LockInv, Locked
<1>4. CountInv'
  BY <1>0, BoundsAssumption
  DEF NqSubmitted, Goto, engine, vidsch, TypeOK, CountInv, R
<1>5. OwnerInv'
  BY <1>0, <1>1, OwnerFrame
  DEF NqSubmitted, Goto, engine, vidsch, TypeOK
<1>6. CompletionInv'
  BY <1>0, <1>1, CompletionFrame
  DEF NqSubmitted, Goto, engine, vidsch, TypeOK, Completing
<1>7. LocalInv'
  BY <1>0, BoundsAssumption
  DEF NqSubmitted, Goto, engine, vidsch, TypeOK, LocalInv, NoMissedFence,
      FenceIds
<1>8. HeadInv'
  BY <1>0, <1>1, HeadFrame
  DEF NqSubmitted, Goto, engine, vidsch, TypeOK, WillCheck, R
<1>9. RequestInv'
  <2>0. \A u \in Threads \ {t} : pc[u] \notin {"nq_preempted", "nq_swap"}
    BY <1>0 DEF NqSubmitted, LockInv, Locked
  <2>1. /\ \A u \in Threads \ {t} : pc'[u] = pc[u]
        /\ pc[t] = "nq_submitted"
        /\ UNCHANGED <<last_submitted_fence, last_preemption_fence, preempting,
                       preemption, swapped, submits, last_completed>>
        /\ \/ pc'[t] = "nq_swap" /\ last_completed[t] = last_submitted_fence
           \/ pc'[t] \in {"idle", "pr_completed", "qc_load"}
    BY <1>0
    DEF NqSubmitted, Goto, TypeOK, vidsch
  <2>2. preempting' # 0 =>
            \/ last_preemption_fence' = preempting'
            \/ \E u \in Threads : HasRequest(u)' \/ pc'[u] = "nq_preempted"
    BY <1>0, <1>1, <2>1 DEF RequestInv, TypeOK
  <2>3. /\ last_preemption_fence' # 0 => last_preemption_fence' = preempting'
        /\ \A u \in Threads : HasRequest(u)' =>
             /\ preemption'[u] = preempting' /\ preempting' # 0
             /\ last_preemption_fence' = 0
        /\ \A u, v \in Threads : HasRequest(u)' /\ HasRequest(v)' => u = v
    BY <1>0, <1>1, <2>1 DEF RequestInv, TypeOK
  <2>4. \A u \in Threads : pc'[u] = "nq_preempted" =>
            /\ swapped'[u] = preempting' /\ preempting' # 0
            /\ last_preemption_fence' = 0
            /\ last_completed'[u] = submits'
            /\ \A v \in Threads : ~HasRequest(v)'
    BY <1>0, <1>1, <2>0, <2>1 DEF RequestInv, TypeOK
  <2>5. \A u \in Threads : pc'[u] = "pr_report" => last_completed'[u] = submits'
    BY <1>0, <1>1, <2>1 DEF RequestInv, TypeOK
  <2>6. \A u \in Threads : pc'[u] = "nq_swap" =>
            \/ last_completed'[u] = submits'
            \/ last_preemption_fence' = 0 /\ \A v \in Threads : ~Preempting(v)'
    BY <1>0, <2>0, <2>1 DEF CountInv
  <2> QED BY <2>2, <2>3, <2>4, <2>5, <2>6 DEF RequestInv
<1>10. AcknowledgeInv'
  <2>1. \A u \in Threads : R = submits =>
            (WillCheck(u, {"nq_lock", "nq_loop", "nq_submitted", "nq_swap"})
             => WillCheck(u, {"nq_lock", "nq_loop", "nq_submitted", "nq_swap"})')
    BY <1>0, <1>1 DEF NqSubmitted, Goto, vidsch, TypeOK, CountInv, WillCheck, R
  <2> QED BY <1>0, <2>1 DEF NqSubmitted, vidsch, AcknowledgeInv, R
<1> QED
  BY <1>2, <1>3, <1>4, <1>5, <1>6, <1>7, <1>8, <1>9, <1>10 DEF IndInv

\* Taking the preemption request preserves IndInv.
LEMMA NqSwapInd ==
  ASSUME MaxSubmit < U32, IndInv, NEW t \in Threads, NqSwap(t)
  PROVE  IndInv'
<1>0. /\ TypeOK /\ LockInv /\ CountInv /\ OwnerInv /\ CompletionInv
      /\ LocalInv /\ HeadInv /\ RequestInv /\ AcknowledgeInv
  BY DEF IndInv
<1>1. /\ \A u \in Threads :
          /\ Holding(u)' <=> Holding(u)
          /\ Completing(u)' <=> Completing(u)
          /\ Preempting(u)' <=> Preempting(u) \/ (u = t /\ pc'[t] = "pr_completed")
          /\ HasRequest(u)' <=> HasRequest(u)
  BY <1>0
  DEF NqSwap, Goto, engine, vidsch, TypeOK, Holding, Completing, HasRequest,
      Preempting, Locked
<1>2. TypeOK'
  BY <1>0, BoundsAssumption, ThreadsAssumption
  DEF NqSwap, Goto, engine, vidsch, TypeOK, FenceIds, PCs, Locked
<1>3. LockInv'
  BY <1>0, ThreadsAssumption
  DEF NqSwap, Goto, engine, vidsch, TypeOK, LockInv, Locked
<1>4. CountInv'
  BY <1>0, BoundsAssumption
  DEF NqSwap, Goto, engine, vidsch, TypeOK, CountInv, R
<1>5. OwnerInv'
  BY <1>0, <1>1, OwnerFrame
  DEF NqSwap, Goto, engine, vidsch, TypeOK
<1>6. CompletionInv'
  BY <1>0, <1>1, CompletionFrame
  DEF NqSwap, Goto, engine, vidsch, TypeOK, Completing
<1>7. LocalInv'
  BY <1>0, BoundsAssumption
  DEF NqSwap, Goto, engine, vidsch, TypeOK, LocalInv, NoMissedFence, FenceIds
<1>8. HeadInv'
  BY <1>0, <1>1, HeadFrame
  DEF NqSwap, Goto, engine, vidsch, TypeOK, WillCheck, R
<1>9. RequestInv'
  <2>0. \A u \in Threads \ {t} : pc[u] \notin {"nq_preempted", "nq_swap"}
    BY <1>0, SMTT(30) DEF NqSwap, LockInv, Locked
  <2>1. /\ \A u \in Threads \ {t} : pc'[u] = pc[u] /\ swapped'[u] = swapped[u]
        /\ pc[t] = "nq_swap"
        /\ UNCHANGED <<preempting, preemption, submits, last_completed>>
        /\ last_preemption_fence' = 0 /\ swapped'[t] = last_preemption_fence
        /\ \/ pc'[t] = "nq_preempted" /\ last_preemption_fence # 0
           \/ /\ pc'[t] \in {"idle", "pr_completed", "qc_load"}
              /\ last_preemption_fence = 0
    BY <1>0
    DEF NqSwap, Goto, TypeOK, vidsch
  <2>2. preempting' # 0 =>
            \/ last_preemption_fence' = preempting'
            \/ \E u \in Threads : HasRequest(u)' \/ pc'[u] = "nq_preempted"
    BY <1>0, <1>1, <2>1 DEF RequestInv, TypeOK
  <2>3. /\ last_preemption_fence' # 0 => last_preemption_fence' = preempting'
        /\ \A u \in Threads : HasRequest(u)' =>
             /\ preemption'[u] = preempting' /\ preempting' # 0
             /\ last_preemption_fence' = 0
        /\ \A u, v \in Threads : HasRequest(u)' /\ HasRequest(v)' => u = v
    BY <1>0, <1>1, <2>1 DEF RequestInv, TypeOK
  <2>4. \A u \in Threads : pc'[u] = "nq_preempted" =>
            /\ swapped'[u] = preempting' /\ preempting' # 0
            /\ last_preemption_fence' = 0
            /\ last_completed'[u] = submits'
            /\ \A v \in Threads : ~HasRequest(v)'
    BY <1>0, <1>1, <2>0, <2>1 DEF RequestInv, TypeOK
  <2>5. \A u \in Threads : pc'[u] = "pr_report" => last_completed'[u] = submits'
    BY <1>0, <1>1, <2>1 DEF RequestInv, TypeOK
  <2>6. \A u \in Threads : pc'[u] = "nq_swap" =>
            \/ last_completed'[u] = submits'
            \/ last_preemption_fence' = 0 /\ \A v \in Threads : ~Preempting(v)'
    BY <1>0, <1>1, <2>0, <2>1 DEF RequestInv, TypeOK, CountInv
  <2> QED BY <2>2, <2>3, <2>4, <2>5, <2>6 DEF RequestInv
<1>10. AcknowledgeInv'
  BY <1>0, <1>1, BoundsAssumption
  DEF NqSwap, Goto, engine, vidsch, TypeOK, CountInv, OwnerInv, CompletionInv,
      LocalInv, AcknowledgeInv, RequestInv, R, Completing, WillCheck, FenceIds
<1> QED
  BY <1>2, <1>3, <1>4, <1>5, <1>6, <1>7, <1>8, <1>9, <1>10 DEF IndInv

\* Reporting the preemption from notify_queued_fences preserves IndInv.
LEMMA NqPreemptedInd ==
  ASSUME MaxSubmit < U32, IndInv, NEW t \in Threads, NqPreempted(t)
  PROVE  IndInv'
<1>0. /\ TypeOK /\ LockInv /\ CountInv /\ OwnerInv /\ CompletionInv
      /\ LocalInv /\ HeadInv /\ RequestInv /\ AcknowledgeInv
  BY DEF IndInv
<1>1. /\ \A u \in Threads :
          /\ Holding(u)' <=> Holding(u)
          /\ Completing(u)' <=> Completing(u)
          /\ Preempting(u)' <=> Preempting(u) \/ (u = t /\ pc'[t] = "pr_completed")
          /\ HasRequest(u)' <=> HasRequest(u)
  BY <1>0
  DEF NqPreempted, Goto, engine, vidsch, TypeOK, Holding, Completing,
      HasRequest, Preempting, Locked
<1>2. TypeOK'
  BY <1>0, BoundsAssumption, ThreadsAssumption
  DEF NqPreempted, Goto, engine, vidsch, TypeOK, FenceIds, PCs, Locked
<1>3. LockInv'
  BY <1>0, ThreadsAssumption
  DEF NqPreempted, Goto, engine, vidsch, TypeOK, LockInv, Locked
<1>4. CountInv'
  BY <1>0, BoundsAssumption
  DEF NqPreempted, Goto, engine, vidsch, TypeOK, CountInv, R
<1>5. OwnerInv'
  BY <1>0, <1>1, OwnerFrame
  DEF NqPreempted, Goto, engine, vidsch, TypeOK
<1>6. CompletionInv'
  BY <1>0, <1>1, CompletionFrame
  DEF NqPreempted, Goto, engine, vidsch, TypeOK, Completing
<1>7. LocalInv'
  BY <1>0, BoundsAssumption
  DEF NqPreempted, Goto, engine, vidsch, TypeOK, LocalInv, NoMissedFence,
      FenceIds
<1>8. HeadInv'
  BY <1>0, <1>1, HeadFrame
  DEF NqPreempted, Goto, engine, vidsch, TypeOK, WillCheck, R
<1>9. RequestInv'
  <2>0. \A u \in Threads \ {t} : pc[u] \notin {"nq_preempted", "nq_swap"}
    BY <1>0 DEF NqPreempted, LockInv, Locked
  <2>1. /\ \A u \in Threads \ {t} : pc'[u] = pc[u]
        /\ pc[t] = "nq_preempted" /\ pc'[t] \in {"idle", "pr_completed", "qc_load"}
        /\ preempting' = 0
        /\ UNCHANGED <<last_preemption_fence, preemption, swapped, submits,
                       last_completed>>
    BY <1>0
    DEF NqPreempted, Goto, TypeOK, vidsch
  <2>2. preempting' # 0 =>
            \/ last_preemption_fence' = preempting'
            \/ \E u \in Threads : HasRequest(u)' \/ pc'[u] = "nq_preempted"
    BY <1>0, <1>1, <2>1 DEF RequestInv, TypeOK
  <2>3. /\ last_preemption_fence' # 0 => last_preemption_fence' = preempting'
        /\ \A u \in Threads : HasRequest(u)' =>
             /\ preemption'[u] = preempting' /\ preempting' # 0
             /\ last_preemption_fence' = 0
        /\ \A u, v \in Threads : HasRequest(u)' /\ HasRequest(v)' => u = v
    BY <1>0, <1>1, <2>1 DEF RequestInv, TypeOK
  <2>4. \A u \in Threads : pc'[u] = "nq_preempted" =>
            /\ swapped'[u] = preempting' /\ preempting' # 0
            /\ last_preemption_fence' = 0
            /\ last_completed'[u] = submits'
            /\ \A v \in Threads : ~HasRequest(v)'
    <3>1. \A u \in Threads : pc'[u] # "nq_preempted"
      BY <2>0, <2>1
    <3> QED BY <3>1
  <2>5. \A u \in Threads : pc'[u] = "pr_report" => last_completed'[u] = submits'
    BY <1>0, <1>1, <2>1 DEF RequestInv, TypeOK
  <2>6. \A u \in Threads : pc'[u] = "nq_swap" =>
            \/ last_completed'[u] = submits'
            \/ last_preemption_fence' = 0 /\ \A v \in Threads : ~Preempting(v)'
    BY <1>0, <1>1, <2>0, <2>1 DEF RequestInv, TypeOK, CountInv
  <2> QED BY <2>2, <2>3, <2>4, <2>5, <2>6 DEF RequestInv
<1>10. AcknowledgeInv'
  BY <1>0, <1>1, BoundsAssumption
  DEF NqPreempted, Goto, engine, vidsch, TypeOK, CountInv, OwnerInv,
      CompletionInv, LocalInv, AcknowledgeInv, RequestInv, R, Completing,
      WillCheck, FenceIds
<1> QED
  BY <1>2, <1>3, <1>4, <1>5, <1>6, <1>7, <1>8, <1>9, <1>10 DEF IndInv

\* A call of preempt_command preserves IndInv.
LEMMA PreemptCommandInd ==
  ASSUME MaxSubmit < U32, IndInv, NEW t \in Threads, PreemptCommand(t)
  PROVE  IndInv'
<1>0. /\ TypeOK /\ LockInv /\ CountInv /\ OwnerInv /\ CompletionInv
      /\ LocalInv /\ HeadInv /\ RequestInv /\ AcknowledgeInv
  BY DEF IndInv
<1>1. /\ \A u \in Threads :
          /\ Holding(u)' <=> Holding(u)
          /\ Completing(u)' <=> Completing(u)
          /\ Preempting(u)' <=> Preempting(u)
          /\ HasRequest(u)' <=> HasRequest(u) \/ u = t
      /\ ~HasRequest(t)
  BY <1>0
  DEF PreemptCommand, Goto, engine, vidsch, TypeOK, Holding, Completing,
      HasRequest, Preempting, Locked
<1>2. TypeOK'
  BY <1>0, BoundsAssumption, ThreadsAssumption, SMTT(30)
  DEF PreemptCommand, Goto, engine, vidsch, TypeOK, FenceIds, PCs, Locked
<1>3. LockInv'
  BY <1>0, ThreadsAssumption
  DEF PreemptCommand, Goto, engine, vidsch, TypeOK, LockInv, Locked
<1>4. CountInv'
  BY <1>0, BoundsAssumption
  DEF PreemptCommand, Goto, engine, vidsch, TypeOK, CountInv, R
<1>5. OwnerInv'
  BY <1>0, <1>1, OwnerFrame
  DEF PreemptCommand, Goto, engine, vidsch, TypeOK
<1>6. CompletionInv'
  BY <1>0, <1>1, CompletionFrame
  DEF PreemptCommand, Goto, engine, vidsch, TypeOK, Completing
<1>7. LocalInv'
  BY <1>0, BoundsAssumption
  DEF PreemptCommand, Goto, engine, vidsch, TypeOK, LocalInv, NoMissedFence,
      FenceIds
<1>8. HeadInv'
  BY <1>0, <1>1, HeadFrame
  DEF PreemptCommand, Goto, engine, vidsch, TypeOK, WillCheck, R
<1>9. RequestInv'
  <2>1. /\ preempting = 0 /\ last_preemption_fence = 0
        /\ \A u \in Threads : ~HasRequest(u) /\ pc[u] # "nq_preempted"
    BY <1>0 DEF PreemptCommand, RequestInv
  <2>2. \A u \in Threads : ~Preempting(u) /\ pc[u] # "pr_report"
    BY <2>1 DEF HasRequest, Preempting
  <2>3. /\ preempting' # 0 /\ preemption'[t] = preempting'
        /\ last_preemption_fence' = 0
        /\ \A u \in Threads :
            /\ pc'[u] \notin {"nq_preempted", "pr_report"}
            /\ HasRequest(u)' <=> u = t
            /\ ~Preempting(u)'
    BY <1>0, <1>1, <2>1, <2>2, SMTT(30) DEF PreemptCommand, Goto, engine, TypeOK
  <2>4. \E u \in Threads : HasRequest(u)'
    BY <2>3
  <2> QED BY <2>3, <2>4 DEF RequestInv
<1>10. AcknowledgeInv'
  BY <1>0, <1>1, AcknowledgeFrame
  DEF PreemptCommand, Goto, engine, vidsch, TypeOK, WillCheck, R
<1> QED
  BY <1>2, <1>3, <1>4, <1>5, <1>6, <1>7, <1>8, <1>9, <1>10 DEF IndInv

\* The first load of preempt_command preserves IndInv.
LEMMA PrCompletedInd ==
  ASSUME MaxSubmit < U32, IndInv, NEW t \in Threads, PrCompleted(t)
  PROVE  IndInv'
<1>0. /\ TypeOK /\ LockInv /\ CountInv /\ OwnerInv /\ CompletionInv
      /\ LocalInv /\ HeadInv /\ RequestInv /\ AcknowledgeInv
  BY DEF IndInv
<1>1. /\ \A u \in Threads :
          /\ Holding(u)' <=> Holding(u)
          /\ Completing(u)' <=> Completing(u)
          /\ Preempting(u)' <=> Preempting(u)
          /\ HasRequest(u)' <=> HasRequest(u)
  BY <1>0
  DEF PrCompleted, Goto, engine, vidsch, TypeOK, Holding, Completing,
      HasRequest, Preempting, Locked
<1>2. TypeOK'
  BY <1>0, BoundsAssumption, ThreadsAssumption
  DEF PrCompleted, Goto, engine, vidsch, TypeOK, FenceIds, PCs, Locked
<1>3. LockInv'
  BY <1>0, ThreadsAssumption
  DEF PrCompleted, Goto, engine, vidsch, TypeOK, LockInv, Locked
<1>4. CountInv'
  BY <1>0, BoundsAssumption
  DEF PrCompleted, Goto, engine, vidsch, TypeOK, CountInv, R
<1>5. OwnerInv'
  BY <1>0, <1>1, OwnerFrame
  DEF PrCompleted, Goto, engine, vidsch, TypeOK
<1>6. CompletionInv'
  BY <1>0, <1>1, CompletionFrame
  DEF PrCompleted, Goto, engine, vidsch, TypeOK, Completing
<1>7. LocalInv'
  BY <1>0, BoundsAssumption, SMTT(30)
  DEF PrCompleted, Goto, engine, vidsch, TypeOK, LocalInv, NoMissedFence,
      FenceIds
<1>8. HeadInv'
  BY <1>0, <1>1, HeadFrame
  DEF PrCompleted, Goto, engine, vidsch, TypeOK, WillCheck, R
<1>9. RequestInv'
  BY <1>0, <1>1, RequestFrame
  DEF PrCompleted, Goto, engine, vidsch, TypeOK
<1>10. AcknowledgeInv'
  BY <1>0, <1>1, AcknowledgeFrame
  DEF PrCompleted, Goto, engine, vidsch, TypeOK, WillCheck, R
<1> QED
  BY <1>2, <1>3, <1>4, <1>5, <1>6, <1>7, <1>8, <1>9, <1>10 DEF IndInv

\* The comparison of preempt_command preserves IndInv.
LEMMA PrSubmittedInd ==
  ASSUME MaxSubmit < U32, IndInv, NEW t \in Threads, PrSubmitted(t)
  PROVE  IndInv'
<1>0. /\ TypeOK /\ LockInv /\ CountInv /\ OwnerInv /\ CompletionInv
      /\ LocalInv /\ HeadInv /\ RequestInv /\ AcknowledgeInv
  BY DEF IndInv
<1>1. /\ \A u \in Threads :
          /\ Holding(u)' <=> Holding(u)
          /\ Completing(u)' <=> Completing(u)
          /\ Preempting(u)' <=> Preempting(u)
          /\ HasRequest(u)' <=> HasRequest(u)
  BY <1>0
  DEF PrSubmitted, Goto, engine, vidsch, TypeOK, Holding, Completing,
      HasRequest, Preempting, Locked
<1>2. TypeOK'
  BY <1>0, BoundsAssumption, ThreadsAssumption
  DEF PrSubmitted, Goto, engine, vidsch, TypeOK, FenceIds, PCs, Locked
<1>3. LockInv'
  BY <1>0, ThreadsAssumption
  DEF PrSubmitted, Goto, engine, vidsch, TypeOK, LockInv, Locked
<1>4. CountInv'
  BY <1>0, BoundsAssumption
  DEF PrSubmitted, Goto, engine, vidsch, TypeOK, CountInv, R
<1>5. OwnerInv'
  BY <1>0, <1>1, OwnerFrame
  DEF PrSubmitted, Goto, engine, vidsch, TypeOK
<1>6. CompletionInv'
  BY <1>0, <1>1, CompletionFrame
  DEF PrSubmitted, Goto, engine, vidsch, TypeOK, Completing
<1>7. LocalInv'
  BY <1>0, BoundsAssumption
  DEF PrSubmitted, Goto, engine, vidsch, TypeOK, LocalInv, NoMissedFence,
      FenceIds
<1>8. HeadInv'
  BY <1>0, <1>1, HeadFrame
  DEF PrSubmitted, Goto, engine, vidsch, TypeOK, WillCheck, R
<1>9. RequestInv'
  <2>1. /\ \A u \in Threads \ {t} : pc'[u] = pc[u]
        /\ pc[t] = "pr_submitted" /\ pc'[t] \in {"pr_report", "pr_store"}
        /\ pc'[t] = "pr_report" => last_completed[t] = submits
        /\ UNCHANGED <<last_preemption_fence, preempting, preemption, swapped,
                       submits, last_completed>>
    BY <1>0
    DEF PrSubmitted, Goto, engine, CountInv, TypeOK, vidsch
  <2>2. preempting' # 0 =>
            \/ last_preemption_fence' = preempting'
            \/ \E u \in Threads : HasRequest(u)' \/ pc'[u] = "nq_preempted"
    BY <1>0, <1>1, <2>1 DEF RequestInv, TypeOK
  <2>3. /\ last_preemption_fence' # 0 => last_preemption_fence' = preempting'
        /\ \A u \in Threads : HasRequest(u)' =>
             /\ preemption'[u] = preempting' /\ preempting' # 0
             /\ last_preemption_fence' = 0
        /\ \A u, v \in Threads : HasRequest(u)' /\ HasRequest(v)' => u = v
    BY <1>0, <1>1, <2>1 DEF RequestInv, TypeOK
  <2>4. \A u \in Threads : pc'[u] = "nq_preempted" =>
            /\ swapped'[u] = preempting' /\ preempting' # 0
            /\ last_preemption_fence' = 0
            /\ last_completed'[u] = submits'
            /\ \A v \in Threads : ~HasRequest(v)'
    BY <1>0, <1>1, <2>1 DEF RequestInv, TypeOK, LockInv, Locked
  <2>5. \A u \in Threads : pc'[u] = "pr_report" => last_completed'[u] = submits'
    BY <1>0, <1>1, <2>1 DEF RequestInv, TypeOK
  <2>6. \A u \in Threads : pc'[u] = "nq_swap" =>
            \/ last_completed'[u] = submits'
            \/ last_preemption_fence' = 0 /\ \A v \in Threads : ~Preempting(v)'
    BY <1>0, <1>1, <2>1 DEF RequestInv, TypeOK, CountInv, LockInv, Locked
  <2> QED BY <2>2, <2>3, <2>4, <2>5, <2>6 DEF RequestInv
<1>10. AcknowledgeInv'
  BY <1>0, <1>1, AcknowledgeFrame
  DEF PrSubmitted, Goto, engine, vidsch, TypeOK, WillCheck, R
<1> QED
  BY <1>2, <1>3, <1>4, <1>5, <1>6, <1>7, <1>8, <1>9, <1>10 DEF IndInv

\* The immediate report of preempt_command preserves IndInv.
LEMMA PrReportInd ==
  ASSUME MaxSubmit < U32, IndInv, NEW t \in Threads, PrReport(t)
  PROVE  IndInv'
<1>0. /\ TypeOK /\ LockInv /\ CountInv /\ OwnerInv /\ CompletionInv
      /\ LocalInv /\ HeadInv /\ RequestInv /\ AcknowledgeInv
  BY DEF IndInv
<1>1. /\ \A u \in Threads :
          /\ Holding(u)' <=> Holding(u)
          /\ Completing(u)' <=> Completing(u)
          /\ Preempting(u)' <=> Preempting(u) /\ u # t
          /\ HasRequest(u)' <=> HasRequest(u) /\ u # t
      /\ Preempting(t) /\ HasRequest(t)
  BY <1>0
  DEF PrReport, Goto, engine, vidsch, TypeOK, Holding, Completing, HasRequest,
      Preempting, Locked
<1>2. TypeOK'
  BY <1>0, BoundsAssumption, ThreadsAssumption
  DEF PrReport, Goto, engine, vidsch, TypeOK, FenceIds, PCs, Locked
<1>3. LockInv'
  BY <1>0, ThreadsAssumption
  DEF PrReport, Goto, engine, vidsch, TypeOK, LockInv, Locked
<1>4. CountInv'
  BY <1>0, BoundsAssumption
  DEF PrReport, Goto, engine, vidsch, TypeOK, CountInv, R
<1>5. OwnerInv'
  BY <1>0, <1>1, OwnerFrame
  DEF PrReport, Goto, engine, vidsch, TypeOK
<1>6. CompletionInv'
  BY <1>0, <1>1, CompletionFrame
  DEF PrReport, Goto, engine, vidsch, TypeOK, Completing
<1>7. LocalInv'
  BY <1>0, BoundsAssumption
  DEF PrReport, Goto, engine, vidsch, TypeOK, LocalInv, NoMissedFence,
      FenceIds
<1>8. HeadInv'
  BY <1>0, <1>1, HeadFrame
  DEF PrReport, Goto, engine, vidsch, TypeOK, WillCheck, R
<1>9. RequestInv'
  <2>1. /\ preempting' = 0 /\ last_preemption_fence' = 0
        /\ \A u \in Threads : ~HasRequest(u)' /\ pc[u] # "nq_preempted"
    BY <1>0, <1>1 DEF PrReport, engine, RequestInv
  <2>2. \A u \in Threads : ~Preempting(u)'
    BY <1>0, <1>1 DEF RequestInv, HasRequest
  <2>3. \A u \in Threads : pc'[u] \notin {"nq_preempted", "pr_report"}
    BY <1>0, <2>1, <2>2 DEF PrReport, Goto, TypeOK, Preempting
  <2> QED BY <2>1, <2>2, <2>3 DEF RequestInv
<1>10. AcknowledgeInv'
  BY <1>0, <1>1, AcknowledgeFrame
  DEF PrReport, Goto, engine, vidsch, TypeOK, WillCheck, R
<1> QED
  BY <1>2, <1>3, <1>4, <1>5, <1>6, <1>7, <1>8, <1>9, <1>10 DEF IndInv

\* submit_preemption preserves IndInv.
LEMMA PrStoreInd ==
  ASSUME MaxSubmit < U32, IndInv, NEW t \in Threads, PrStore(t)
  PROVE  IndInv'
<1>0. /\ TypeOK /\ LockInv /\ CountInv /\ OwnerInv /\ CompletionInv
      /\ LocalInv /\ HeadInv /\ RequestInv /\ AcknowledgeInv
  BY DEF IndInv
<1>1. /\ \A u \in Threads :
          /\ Holding(u)' <=> Holding(u)
          /\ Completing(u)' <=> Completing(u)
          /\ Preempting(u)' <=> Preempting(u) /\ u # t
          /\ HasRequest(u)' <=> HasRequest(u) /\ u # t
      /\ Preempting(t) /\ HasRequest(t)
  BY <1>0
  DEF PrStore, Goto, engine, vidsch, TypeOK, Holding, Completing, HasRequest,
      Preempting, Locked
<1>2. TypeOK'
  BY <1>0, BoundsAssumption, ThreadsAssumption
  DEF PrStore, Goto, engine, vidsch, TypeOK, FenceIds, PCs, Locked
<1>3. LockInv'
  BY <1>0, ThreadsAssumption
  DEF PrStore, Goto, engine, vidsch, TypeOK, LockInv, Locked
<1>4. CountInv'
  BY <1>0, BoundsAssumption
  DEF PrStore, Goto, engine, vidsch, TypeOK, CountInv, R
<1>5. OwnerInv'
  BY <1>0, <1>1, OwnerFrame
  DEF PrStore, Goto, engine, vidsch, TypeOK
<1>6. CompletionInv'
  BY <1>0, <1>1, CompletionFrame
  DEF PrStore, Goto, engine, vidsch, TypeOK, Completing
<1>7. LocalInv'
  BY <1>0, BoundsAssumption
  DEF PrStore, Goto, engine, vidsch, TypeOK, LocalInv, NoMissedFence, FenceIds
<1>8. HeadInv'
  BY <1>0, <1>1, HeadFrame
  DEF PrStore, Goto, engine, vidsch, TypeOK, WillCheck, R
<1>9. RequestInv'
  <2>1. /\ preempting' = preempting /\ last_preemption_fence' = preempting
        /\ preempting # 0 /\ last_preemption_fence = 0
        /\ \A u \in Threads : ~HasRequest(u)' /\ pc[u] # "nq_preempted"
    BY <1>0, <1>1 DEF PrStore, vidsch, RequestInv
  <2>2. \A u \in Threads : ~Preempting(u)'
    BY <1>0, <1>1 DEF RequestInv, HasRequest
  <2>3. \A u \in Threads : pc'[u] \notin {"nq_preempted", "pr_report"}
    BY <1>0, <2>1, <2>2 DEF PrStore, Goto, TypeOK, Preempting
  <2>4. \A u \in Threads : pc'[u] = "nq_swap" => last_completed'[u] = submits'
    BY <1>0, <1>1 DEF PrStore, Goto, vidsch, TypeOK, RequestInv
  <2> QED BY <2>1, <2>2, <2>3, <2>4 DEF RequestInv
<1>10. AcknowledgeInv'
  <2>1. WillCheck(t, {"nq_lock", "nq_loop", "nq_submitted", "nq_swap"})'
    BY <1>0 DEF PrStore, Goto, TypeOK, WillCheck
  <2> QED BY <2>1 DEF AcknowledgeInv
<1> QED
  BY <1>2, <1>3, <1>4, <1>5, <1>6, <1>7, <1>8, <1>9, <1>10 DEF IndInv

\* A call of query_current_fence preserves IndInv.
LEMMA QueryCurrentFenceInd ==
  ASSUME MaxSubmit < U32, IndInv, NEW t \in Threads, QueryCurrentFence(t)
  PROVE  IndInv'
<1>0. /\ TypeOK /\ LockInv /\ CountInv /\ OwnerInv /\ CompletionInv
      /\ LocalInv /\ HeadInv /\ RequestInv /\ AcknowledgeInv
  BY DEF IndInv
<1>1. /\ \A u \in Threads :
          /\ Holding(u)' <=> Holding(u)
          /\ Completing(u)' <=> Completing(u)
          /\ Preempting(u)' <=> Preempting(u)
          /\ HasRequest(u)' <=> HasRequest(u)
  BY <1>0
  DEF QueryCurrentFence, Goto, engine, vidsch, TypeOK, Holding, Completing,
      HasRequest, Preempting, Locked
<1>2. TypeOK'
  BY <1>0, BoundsAssumption, ThreadsAssumption, SMTT(30)
  DEF QueryCurrentFence, Goto, engine, vidsch, TypeOK, FenceIds, PCs, Locked
<1>3. LockInv'
  BY <1>0, ThreadsAssumption
  DEF QueryCurrentFence, Goto, engine, vidsch, TypeOK, LockInv, Locked
<1>4. CountInv'
  BY <1>0, BoundsAssumption
  DEF QueryCurrentFence, Goto, engine, vidsch, TypeOK, CountInv, R
<1>5. OwnerInv'
  BY <1>0, <1>1, OwnerFrame
  DEF QueryCurrentFence, Goto, engine, vidsch, TypeOK
<1>6. CompletionInv'
  BY <1>0, <1>1, CompletionFrame
  DEF QueryCurrentFence, Goto, engine, vidsch, TypeOK, Completing
<1>7. LocalInv'
  BY <1>0, BoundsAssumption
  DEF QueryCurrentFence, Goto, engine, vidsch, TypeOK, LocalInv,
      NoMissedFence, FenceIds
<1>8. HeadInv'
  BY <1>0, <1>1, HeadFrame
  DEF QueryCurrentFence, Goto, engine, vidsch, TypeOK, WillCheck, R
<1>9. RequestInv'
  BY <1>0, <1>1, RequestFrame
  DEF QueryCurrentFence, Goto, engine, vidsch, TypeOK
<1>10. AcknowledgeInv'
  BY <1>0, <1>1, AcknowledgeFrame
  DEF QueryCurrentFence, Goto, engine, vidsch, TypeOK, WillCheck, R
<1> QED
  BY <1>2, <1>3, <1>4, <1>5, <1>6, <1>7, <1>8, <1>9, <1>10 DEF IndInv

\* The load of query_current_fence preserves IndInv.
LEMMA QcLoadInd ==
  ASSUME MaxSubmit < U32, IndInv, NEW t \in Threads, QcLoad(t)
  PROVE  IndInv'
<1>0. /\ TypeOK /\ LockInv /\ CountInv /\ OwnerInv /\ CompletionInv
      /\ LocalInv /\ HeadInv /\ RequestInv /\ AcknowledgeInv
  BY DEF IndInv
<1>1. /\ \A u \in Threads :
          /\ Holding(u)' <=> Holding(u)
          /\ Completing(u)' <=> Completing(u)
          /\ Preempting(u)' <=> Preempting(u)
          /\ HasRequest(u)' <=> HasRequest(u)
  BY <1>0
  DEF QcLoad, Goto, engine, vidsch, TypeOK, Holding, Completing, HasRequest,
      Preempting, Locked
<1>2. TypeOK'
  BY <1>0, BoundsAssumption, ThreadsAssumption
  DEF QcLoad, Goto, engine, vidsch, TypeOK, FenceIds, PCs, Locked
<1>3. LockInv'
  BY <1>0, ThreadsAssumption
  DEF QcLoad, Goto, engine, vidsch, TypeOK, LockInv, Locked
<1>4. CountInv'
  BY <1>0, BoundsAssumption
  DEF QcLoad, Goto, engine, vidsch, TypeOK, CountInv, R
<1>5. OwnerInv'
  BY <1>0, <1>1, OwnerFrame
  DEF QcLoad, Goto, engine, vidsch, TypeOK
<1>6. CompletionInv'
  BY <1>0, <1>1, CompletionFrame
  DEF QcLoad, Goto, engine, vidsch, TypeOK, Completing
<1>7. LocalInv'
  BY <1>0, BoundsAssumption, SMTT(30)
  DEF QcLoad, Goto, engine, vidsch, TypeOK, LocalInv, NoMissedFence, FenceIds
<1>8. HeadInv'
  BY <1>0, <1>1, HeadFrame
  DEF QcLoad, Goto, engine, vidsch, TypeOK, WillCheck, R
<1>9. RequestInv'
  BY <1>0, <1>1, RequestFrame
  DEF QcLoad, Goto, engine, vidsch, TypeOK
<1>10. AcknowledgeInv'
  BY <1>0, <1>1, AcknowledgeFrame
  DEF QcLoad, Goto, engine, vidsch, TypeOK, WillCheck, R
<1> QED
  BY <1>2, <1>3, <1>4, <1>5, <1>6, <1>7, <1>8, <1>9, <1>10 DEF IndInv

\* EngineState::submit preserves IndInv.
LEMMA SubmitInd ==
  ASSUME MaxSubmit < U32, IndInv, Submit
  PROVE  IndInv'
<1>0. /\ TypeOK /\ LockInv /\ CountInv /\ OwnerInv /\ CompletionInv
      /\ LocalInv /\ HeadInv /\ RequestInv /\ AcknowledgeInv
  BY DEF IndInv
<1>1. \A u \in Threads :
        /\ Holding(u)' <=> Holding(u)
        /\ Completing(u)' <=> Completing(u)
        /\ Preempting(u)' <=> Preempting(u)
        /\ HasRequest(u)' <=> HasRequest(u)
  BY <1>0
  DEF Submit, engine, locals, vidsch, WrappingSucc, TypeOK, Holding,
      Completing, HasRequest, Preempting, Locked
<1>2. TypeOK'
  BY <1>0, BoundsAssumption, ThreadsAssumption, SMTT(30)
  DEF Submit, engine, locals, vidsch, WrappingSucc, TypeOK, FenceIds, PCs,
      Locked
<1>3. LockInv'
  BY <1>0, ThreadsAssumption
  DEF Submit, engine, locals, vidsch, WrappingSucc, TypeOK, LockInv, Locked
<1>4. CountInv'
  BY <1>0, BoundsAssumption, SMTT(30)
  DEF Submit, engine, locals, vidsch, WrappingSucc, TypeOK, CountInv, R
<1>5. OwnerInv'
  <2>1. /\ running' = running \cup {submits + 1} /\ fence' = fence
        /\ pending_fences' = pending_fences /\ submits' = submits + 1
        /\ R' = R /\ R \in Nat
    BY <1>0, BoundsAssumption, SMTT(30) DEF Submit, locals, WrappingSucc, TypeOK, CountInv, R
  <2>2. /\ running' \cap pending_fences' = {}
        /\ \A g \in running' \cup pending_fences' : R' < g /\ g <= submits'
    <3>1. \A g \in running \cup pending_fences : R < g /\ g <= submits /\ g \in Nat
      BY <1>0, SMTT(30) DEF OwnerInv, TypeOK, FenceIds
    <3>2. R <= submits /\ submits \in Nat /\ running \cap pending_fences = {}
      BY <1>0 DEF OwnerInv, CountInv, TypeOK
    <3> QED BY <2>1, <3>1, <3>2, SMTT(30)
  <2>3. \A u \in Threads : Holding(u)' =>
            /\ R' < fence'[u] /\ fence'[u] <= submits'
            /\ fence'[u] \notin running' \cup pending_fences'
    <3>1. \A u \in Threads : fence[u] \in Nat /\ submits \in Nat
      BY <1>0, SMTT(30) DEF TypeOK, FenceIds
    <3> QED BY <1>0, <1>1, <2>1, <3>1, SMTT(30) DEF OwnerInv
  <2>4. \A u, v \in Threads :
            Holding(u)' /\ Holding(v)' /\ fence'[u] = fence'[v] => u = v
    BY <1>0, <1>1, <2>1 DEF OwnerInv, TypeOK
  <2>5. \A g \in (R' + 1) .. submits' :
            \/ g \in running' \cup pending_fences'
            \/ \E u \in Threads : Holding(u)' /\ fence'[u] = g
    <3>1. \A g \in (R + 1) .. (submits + 1) :
              g = submits + 1 \/ g \in (R + 1) .. submits
      BY <1>0, <2>1, SMTT(30) DEF TypeOK
    <3> QED BY <1>0, <1>1, <2>1, <3>1 DEF OwnerInv
  <2> QED BY <2>2, <2>3, <2>4, <2>5 DEF OwnerInv
<1>6. CompletionInv'
  BY <1>0, <1>1, CompletionFrame
  DEF Submit, engine, locals, vidsch, WrappingSucc, TypeOK, Completing
<1>7. LocalInv'
  BY <1>0, BoundsAssumption
  DEF Submit, engine, locals, vidsch, WrappingSucc, TypeOK, LocalInv,
      NoMissedFence, FenceIds
<1>8. HeadInv'
  BY <1>0, <1>1, HeadFrame
  DEF Submit, engine, locals, vidsch, WrappingSucc, TypeOK, WillCheck, R
<1>9. RequestInv'
  <2>1. /\ preempting = 0 /\ last_preemption_fence = 0
        /\ \A u \in Threads : ~HasRequest(u) /\ pc[u] # "nq_preempted"
    BY <1>0 DEF Submit, RequestInv
  <2>2. \A u \in Threads : ~Preempting(u) /\ pc[u] # "pr_report"
    BY <2>1 DEF HasRequest, Preempting
  <2> QED BY <1>1, <2>1, <2>2 DEF Submit, locals, RequestInv
<1>10. AcknowledgeInv'
  BY <1>0 DEF Submit, RequestInv, AcknowledgeInv
<1> QED
  BY <1>2, <1>3, <1>4, <1>5, <1>6, <1>7, <1>8, <1>9, <1>10 DEF IndInv

-----------------------------------------------------------------------------
(* Main theorems.                                                          *)

\* One step of the engine, by any thread in any order, preserves IndInv.
LEMMA NextInd ==
  ASSUME MaxSubmit < U32, IndInv, [Next]_vars
  PROVE  IndInv'
<1>1. CASE Submit
  BY <1>1, SubmitInd
<1>2. ASSUME NEW t \in Threads, NEW f \in running, NotifyFence(t, f)
      PROVE  IndInv'
  BY <1>2, NotifyFenceInd
<1>3. ASSUME NEW t \in Threads, PreemptCommand(t) \/ QueryCurrentFence(t)
      PROVE  IndInv'
  BY <1>3, PreemptCommandInd, QueryCurrentFenceInd
<1>4. ASSUME NEW t \in Threads, NotifyQueuedFences(t)
      PROVE  IndInv'
  BY <1>4, NqLoadInd, NqLockInd, NqPopInd, NqStopInd, NqNotifyInd,
     NqCompleteInd, NqSubmittedInd, NqSwapInd, NqPreemptedInd
  DEF NotifyQueuedFences
<1>5. ASSUME NEW t \in Threads, Step(t)
      PROVE  IndInv'
  BY <1>4, <1>5, NfLoadInd, NfNotifyInd, NfCompleteInd, NfInsertInd,
     PrCompletedInd, PrSubmittedInd, PrReportInd, PrStoreInd, QcLoadInd
  DEF Step
<1>6. CASE UNCHANGED vars
  <2> USE <1>6 DEF vars, engine, locals, vidsch
  <2>1. /\ R' = R
        /\ \A u \in Threads :
            /\ Holding(u)' <=> Holding(u)
            /\ Completing(u)' <=> Completing(u)
            /\ Preempting(u)' <=> Preempting(u)
            /\ HasRequest(u)' <=> HasRequest(u)
    <3>1. pc' = pc /\ then' = then /\ reported' = reported
      OBVIOUS
    <3> QED BY <3>1 DEF R, Holding, Completing, Preempting, HasRequest
  <2>2. TypeOK' /\ LockInv' /\ CountInv' /\ LocalInv'
    BY DEF IndInv, TypeOK, LockInv, CountInv, LocalInv, NoMissedFence, R
  <2>3. OwnerInv'
    BY <2>1, OwnerFrame DEF IndInv
  <2>4. CompletionInv'
    BY <2>1, CompletionFrame DEF IndInv
  <2>5. RequestInv'
    BY <2>1, RequestFrame DEF IndInv
  <2>6. \A u \in Threads : \A S \in SUBSET PCs : WillCheck(u, S)' <=> WillCheck(u, S)
    BY <2>1 DEF WillCheck
  <2>7. HeadInv' /\ AcknowledgeInv'
    BY <2>1, <2>6 DEF IndInv, HeadInv, AcknowledgeInv, PCs, Locked
  <2> QED BY <2>2, <2>3, <2>4, <2>5, <2>7 DEF IndInv
<1> QED
  BY <1>1, <1>2, <1>3, <1>5, <1>6 DEF Next

\* IndInv holds in every reachable state, for any number of threads.
THEOREM Inductive ==
  ASSUME MaxSubmit < U32
  PROVE  Spec => []IndInv
<1>1. Init => IndInv
  BY InitInd
<1>2. IndInv /\ [Next]_vars => IndInv'
  BY NextInd
<1> QED BY <1>1, <1>2, PTL DEF Spec

\* The engine's state is well typed.
THEOREM TypeCorrect ==
  ASSUME MaxSubmit < U32
  PROVE  Spec => []TypeOK
<1>1. IndInv => TypeOK
  BY DEF IndInv
<1> QED BY <1>1, Inductive, PTL

\* VidSch is told of the fences 1, 2, 3, ... in this order, whatever threads
\* call notify_fence and whenever they do.
THEOREM InOrder ==
  ASSUME MaxSubmit < U32
  PROVE  Spec => []CompletionsInOrder
<1>1. IndInv => CompletionsInOrder
  <2> SUFFICES ASSUME IndInv PROVE CompletionsInOrder
    OBVIOUS
  <2>1. /\ Len(reported) <= submits /\ submits < U32 /\ submits \in Nat
        /\ reported \in Seq(FenceIds)
        /\ \A i \in DOMAIN reported : reported[i] = i
    BY BoundsAssumption, SMTT(30) DEF IndInv, TypeOK, CountInv, R
  <2>2. \A i \in DOMAIN reported : i \in Nat /\ 1 <= i /\ i < U32
    BY <2>1, BoundsAssumption, SMTT(30)
  <2>3. \A i \in DOMAIN reported : i # 1 => i - 1 \in DOMAIN reported
    BY <2>1, SMTT(30)
  <2> QED BY <2>1, <2>2, <2>3, BoundsAssumption, SMTT(30) DEF CompletionsInOrder, WrappingSucc
<1> QED BY <1>1, Inductive, PTL

\* The "missed fence" panic of notify_queued_fences is unreachable.
THEOREM NoPanic ==
  ASSUME MaxSubmit < U32
  PROVE  Spec => []NoMissedFence
<1>1. IndInv => NoMissedFence
  BY DEF IndInv, LocalInv
<1> QED BY <1>1, Inductive, PTL

\* A fence that query_current_fence answers with has been reported.
THEOREM QueryIsHonest ==
  ASSUME MaxSubmit < U32
  PROVE  Spec => []CompletedWasReported
<1>1. IndInv => CompletedWasReported
  <2> SUFFICES ASSUME IndInv, last_completed_fence # 0
               PROVE  \E i \in DOMAIN reported : reported[i] = last_completed_fence
    BY DEF CompletedWasReported
  <2>1. /\ reported \in Seq(FenceIds)
        /\ \A i \in DOMAIN reported : reported[i] = i
        /\ last_completed_fence \in Nat
    BY SMTT(30) DEF IndInv, TypeOK, CountInv, FenceIds
  <2>2. last_completed_fence <= Len(reported)
    BY <2>1, SMTT(30) DEF IndInv, CompletionInv, R
  <2> QED BY <2>1, <2>2, SMTT(30)
<1> QED BY <1>1, Inductive, PTL

\* When everything has returned, no fence is stuck in pending_fences.
THEOREM NothingLeftBehind ==
  ASSUME MaxSubmit < U32
  PROVE  Spec => []NoFenceLeftBehind
<1>1. IndInv => NoFenceLeftBehind
  <2> SUFFICES ASSUME IndInv, Quiet
               PROVE  /\ pending_fences = {} /\ R = submits
                      /\ last_completed_fence = last_submitted_fence
    BY DEF NoFenceLeftBehind, R
  <2>1. \A t \in Threads :
            ~Holding(t) /\ ~Completing(t) /\ ~WillCheck(t, {"nq_lock", "nq_loop"})
    BY DEF Quiet, Holding, Completing, WillCheck
  <2>2. R + 1 \notin pending_fences /\ R \in Nat /\ submits \in Nat
    BY <2>1, SMTT(30) DEF IndInv, HeadInv, TypeOK, R
  <2>3. R = submits
    <3> SUFFICES ASSUME R # submits PROVE FALSE
      OBVIOUS
    <3>1. R + 1 \in (R + 1) .. submits
      BY <2>2, SMTT(30) DEF IndInv, CountInv
    <3>2. R + 1 \in running \cup pending_fences
      BY <2>1, <3>1 DEF IndInv, OwnerInv
    <3> QED BY <2>2, <3>2 DEF Quiet
  <2>4. pending_fences = {}
    BY <2>3, SMTT(30) DEF IndInv, OwnerInv, TypeOK, FenceIds
  <2> QED BY <2>1, <2>3, <2>4 DEF IndInv, CompletionInv, CountInv
<1> QED BY <1>1, Inductive, PTL

\* ... and no preemption request waits for an acknowledgement.
THEOREM NoRequestLeftBehind ==
  ASSUME MaxSubmit < U32
  PROVE  Spec => []NoPreemptionLeftBehind
<1>1. IndInv /\ NoFenceLeftBehind => NoPreemptionLeftBehind
  <2> SUFFICES ASSUME IndInv, NoFenceLeftBehind, Quiet, preempting # 0
               PROVE  FALSE
    BY DEF NoPreemptionLeftBehind
  <2>1. \A t \in Threads :
            /\ ~HasRequest(t) /\ pc[t] # "nq_preempted"
            /\ ~WillCheck(t, {"nq_lock", "nq_loop", "nq_submitted", "nq_swap"})
    BY DEF Quiet, HasRequest, Preempting, Completing, WillCheck, Locked
  <2>2. last_preemption_fence # 0
    BY <2>1 DEF IndInv, RequestInv
  <2> QED BY <2>1, <2>2 DEF IndInv, AcknowledgeInv, NoFenceLeftBehind, R
<1> QED BY <1>1, Inductive, NothingLeftBehind, PTL

\* A preemption is acknowledged once, and after all submitted fences.
THEOREM PreemptionSound ==
  ASSUME MaxSubmit < U32
  PROVE  Spec => []PreemptionReportSound
<1>1. IndInv => PreemptionReportSound
  <2> SUFFICES ASSUME IndInv, NEW t \in Threads,
                      pc[t] \in {"nq_preempted", "pr_report"}
               PROVE  /\ pc[t] = "pr_report" => preemption[t] = preempting
                      /\ pc[t] = "nq_preempted" => swapped[t] = preempting
                      /\ last_completed[t] = last_submitted_fence
                      /\ R = submits
                      /\ \A u \in Threads \ {t} :
                            pc[u] \notin {"nq_preempted", "pr_report"}
    BY DEF PreemptionReportSound, R
  <2>1. \A u \in Threads : pc[u] = "pr_report" => HasRequest(u)
    BY DEF HasRequest, Preempting
  <2>2. \A u \in Threads : pc[u] = "nq_preempted" => lock = u
    BY DEF IndInv, LockInv, Locked
  <2>3. last_completed[t] = submits /\ last_submitted_fence = submits
    BY DEF IndInv, RequestInv, CountInv
  <2>4. R = submits
    BY <2>3, SMTT(30) DEF IndInv, LocalInv, CompletionInv, CountInv, TypeOK, FenceIds, R
  <2>5. pc[t] = "pr_report" => preemption[t] = preempting
    BY <2>1 DEF IndInv, RequestInv
  <2>6. pc[t] = "nq_preempted" =>
            swapped[t] = preempting /\ \A u \in Threads : ~HasRequest(u)
    BY DEF IndInv, RequestInv
  <2>7. \A u \in Threads : HasRequest(t) /\ HasRequest(u) => t = u
    BY DEF IndInv, RequestInv
  <2>8. ASSUME NEW u \in Threads \ {t}, pc[u] \in {"nq_preempted", "pr_report"}
        PROVE  FALSE
    <3>1. CASE pc[t] = "nq_preempted"
      BY <2>1, <2>2, <2>6, <2>8, <3>1
    <3>2. CASE pc[t] = "pr_report" /\ pc[u] = "pr_report"
      BY <2>1, <2>7, <3>2
    <3>3. CASE pc[t] = "pr_report" /\ pc[u] = "nq_preempted"
      <4>1. ~HasRequest(t)
        BY <3>3 DEF IndInv, RequestInv
      <4> QED BY <2>1, <3>3, <4>1
    <3> QED BY <2>8, <3>1, <3>2, <3>3
  <2> QED BY <2>3, <2>4, <2>5, <2>6, <2>8
<1> QED BY <1>1, Inductive, PTL

\* Everything VidSch is told of fences and preemptions is complete and sound: the
\* four theorems above together.
THEOREM Complete ==
  ASSUME MaxSubmit < U32
  PROVE  Spec => []ReportsComplete
<1>1. CompletedWasReported /\ PreemptionReportSound /\ NoFenceLeftBehind /\ NoPreemptionLeftBehind
        => ReportsComplete
  BY DEF ReportsComplete
<1> QED BY <1>1, QueryIsHonest, PreemptionSound, NothingLeftBehind, NoRequestLeftBehind, PTL

\* No store of last_completed_fence skips a fence or goes back.
THEOREM Monotone ==
  ASSUME MaxSubmit < U32
  PROVE  Spec => CompletedAdvances
<1>1. IndInv /\ [Next]_vars =>
        [last_completed_fence' # last_completed_fence
            => last_completed_fence' = WrappingSucc(last_completed_fence)]_vars
  <2> SUFFICES ASSUME IndInv, Next, last_completed_fence' # last_completed_fence
               PROVE  last_completed_fence' = WrappingSucc(last_completed_fence)
    BY DEF vars, engine
  <2>1. PICK t \in Threads : NfComplete(t) \/ NqComplete(t)
    BY DEF Next, Step, NotifyQueuedFences, Submit, NotifyFence, NfLoad,
           NfNotify, NfInsert, NqLoad, NqLock, NqPop, NqStop, NqNotify,
           NqSubmitted, NqSwap, NqPreempted, PreemptCommand, PrCompleted,
           PrSubmitted, PrReport, PrStore, QueryCurrentFence, QcLoad, engine
  <2>2. last_completed_fence' = fence[t] /\ Completing(t)
    BY <2>1 DEF NfComplete, NqComplete, Completing
  <2>3. last_completed_fence + 1 = R /\ fence[t] = R
    BY <2>2 DEF IndInv, CompletionInv
  <2>4. R < U32 /\ R \in Nat
    BY BoundsAssumption, SMTT(30) DEF IndInv, CountInv, TypeOK, R
  <2> QED BY <2>2, <2>3, <2>4, BoundsAssumption DEF WrappingSucc, IndInv, TypeOK, FenceIds
<1> QED BY <1>1, Inductive, PTL DEF Spec, CompletedAdvances

\* The engine implements FenceService: its initial state maps to the initial
\* state, and every step of every thread to a step of the service or to none.
THEOREM Refinement ==
  ASSUME MaxSubmit < U32
  PROVE  Spec => RefinesService
<1>1. Init => Service!Init
  BY DEF Init, Service!Init
<1>2. IndInv /\ PreemptionReportSound /\ [Next]_vars => [Service!Next]_(Service!vars)
  <2> SUFFICES ASSUME IndInv, PreemptionReportSound, [Next]_vars
               PROVE  [Service!Next]_(Service!vars)
    OBVIOUS
  <2> USE DEF Service!Next, Service!vars
  <2>1. CASE Submit
    BY <2>1 DEF Submit, Service!Submit
  <2>2. ASSUME NEW t \in Threads, NfNotify(t) \/ NqNotify(t)
        PROVE  Service!Complete
    <3>1. R < fence[t] /\ fence[t] <= submits
      BY <2>2 DEF NfNotify, NqNotify, Holding, IndInv, OwnerInv
    <3>2. fence[t] \in Nat /\ submits \in Nat /\ R \in Nat
      BY SMTT(30) DEF IndInv, TypeOK, FenceIds, R
    <3>3. R < submits
      BY <3>1, <3>2, SMTT(30)
    <3>4. reported \in Seq(FenceIds) /\ reported' = Append(reported, fence[t])
      BY <2>2 DEF NfNotify, NqNotify, ReportCompleted, IndInv, TypeOK
    <3>5. Len(reported') = Len(reported) + 1
      BY <3>4, SMTT(30)
    <3>6. UNCHANGED <<submits, preempting>>
      BY <2>2 DEF NfNotify, NqNotify
    <3> QED BY <3>3, <3>5, <3>6 DEF R, Service!Complete
  <2>3. ASSUME NEW t \in Threads, NqPreempted(t) \/ PrReport(t)
        PROVE  Service!Acknowledge
    <3>1. pc[t] = "nq_preempted" \/ HasRequest(t)
      BY <2>3 DEF NqPreempted, PrReport, HasRequest, Preempting
    <3>2. preempting # 0
      BY <3>1 DEF IndInv, RequestInv
    <3> QED
      BY <2>3, <3>2 DEF NqPreempted, PrReport, PreemptionReportSound,
                        Service!Acknowledge
  <2>4. ASSUME NEW t \in Threads, PreemptCommand(t)
        PROVE  Service!Preempt
    BY <2>4, SMTT(30) DEF PreemptCommand, Service!Preempt, IndInv, TypeOK
  <2>5. ASSUME NEW t \in Threads, NEW f \in running, NotifyFence(t, f)
        PROVE  UNCHANGED Service!vars
    BY <2>5 DEF NotifyFence, vidsch
  <2>6. ASSUME NEW t \in Threads,
               \/ QueryCurrentFence(t) \/ NfLoad(t) \/ NfComplete(t) \/ NfInsert(t)
               \/ NqLoad(t) \/ NqLock(t) \/ NqPop(t) \/ NqStop(t) \/ NqComplete(t)
               \/ NqSubmitted(t) \/ NqSwap(t) \/ PrCompleted(t) \/ PrSubmitted(t)
               \/ PrStore(t) \/ QcLoad(t)
        PROVE  UNCHANGED Service!vars
    BY <2>6 DEF QueryCurrentFence, NfLoad, NfComplete, NfInsert, NqLoad, NqLock,
                NqPop, NqStop, NqComplete, NqSubmitted, NqSwap, PrCompleted,
                PrSubmitted, PrStore, QcLoad, vidsch
  <2>7. CASE UNCHANGED vars
    BY <2>7 DEF vars, vidsch
  <2> QED
    BY <2>1, <2>2, <2>3, <2>4, <2>5, <2>6, <2>7
    DEF Next, Step, NotifyQueuedFences
<1> QED
  BY <1>1, <1>2, Inductive, PreemptionSound, PTL
  DEF Spec, RefinesService, Service!Spec
=============================================================================
