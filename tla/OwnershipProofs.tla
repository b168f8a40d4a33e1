-------------------------- MODULE OwnershipProofs ---------------------------
(***************************************************************************)
(* Proofs that what is handed around has one owner at a time.              *)
(*                                                                         *)
(* ResourceIds, for any number of threads and any range of identifiers, as *)
(* long as no two threads meet at the end of the counter: an identifier    *)
(* that is handed out is in range, and until a transfer fails it has one   *)
(* owner and the host knows no resource of that name.                      *)
(*                                                                         *)
(* DeviceQueue, for queues of any size and any set of requests, blocking   *)
(* or not: slots and descriptors are conserved, the buffers of a chain     *)
(* stay untouched while the device has it, a caller gets its own response, *)
(* and over indirect descriptors no request is lost.                       *)
(***************************************************************************)
EXTENDS ResourceIds, DeviceQueue, DistinctSeqs

\* Zenon first: the leaves that need arithmetic, records or sequences name SMT.
USE ZenonT(30), SMTT(30)

-----------------------------------------------------------------------------
(* ResourceIds: the invariant.                                             *)

\* The identifier of a creation under way, and the one of a resource that is held.
Taken(t) == IF pc[t] \in {"got", "wait"} THEN {id[t]} ELSE {}
Kept(t) == {held[t]} \ {NoId}
Loose == Range(freed) \cup orphans \cup unrefs \cup unrefed

\* Identifiers that were handed out are below the counter, unless it has wrapped.
Below(i) == i \in 1 .. MAX - 1 /\ (next # 0 => i < next)
BelowInv ==
    /\ \A i \in Loose : Below(i)
    /\ \A t \in Threads : \A i \in Taken(t) \cup Kept(t) : Below(i)

\* The counter is 0 only until the thread that made it wrap has put it back.
StoreInv ==
    /\ \A t, u \in Threads : pc[t] = "store" /\ pc[u] = "store" => t = u
    /\ next = 0 <=> \E t \in Threads : pc[t] = "store"

\* A thread owns nothing while it creates a resource.
WaitInv ==
    /\ \A t \in creating : pc[t] = "wait" /\ reply[t] = "none"
    /\ \A t \in Threads : pc[t] # "idle" => held[t] = NoId

\* Every resource of the host has an owner, or a creation or a release behind it.
AliveInv ==
    \A i \in alive :
        \/ i \in orphans \cup unrefs
        \/ \E t \in Threads : \/ i \in Kept(t)
                              \/ pc[t] = "wait" /\ reply[t] = "ok" /\ id[t] = i

\* The places are disjoint.
ApartInv ==
    /\ Distinct(freed)
    /\ Range(freed) \cap (orphans \cup unrefs \cup unrefed) = {}
    /\ orphans \cap (unrefs \cup unrefed) = {} /\ unrefs \cap unrefed = {}
    /\ \A t \in Threads : (Taken(t) \cup Kept(t)) \cap Loose = {}
    /\ \A t, u \in Threads : Taken(t) \cap Kept(u) = {}
    /\ \A t, u \in Threads : t # u => Taken(t) \cap Taken(u) = {} /\ Kept(t) \cap Kept(u) = {}

IdsInd ==
    /\ IdsTypeOK /\ BelowInv /\ StoreInv /\ WaitInv /\ AliveInv
    /\ errors = 0 => ApartInv

-----------------------------------------------------------------------------
(* What does not change.                                                   *)

\* The counter stays where it is.
LEMMA SameBelow ==
    ASSUME next' = next, NEW i, Below(i)
    PROVE  Below(i)'
BY DEF Below

\* A step that moves no identifier.
LEMMA SamePlaces ==
    ASSUME IdsInd, IdsTypeOK', StoreInv', WaitInv', AliveInv',
           UNCHANGED <<next, freed, held, orphans, unrefs, unrefed, errors>>,
           \A t \in Threads : Taken(t)' = Taken(t)
    PROVE  IdsInd'
<1>1. Loose' = Loose /\ \A t \in Threads : Kept(t)' = Kept(t)
  BY DEF Loose, Kept
<1>2. BelowInv'
  BY <1>1, SameBelow DEF IdsInd, BelowInv
<1>3. errors' = 0 => ApartInv'
  BY <1>1 DEF IdsInd, ApartInv
<1> QED BY <1>2, <1>3 DEF IdsInd

-----------------------------------------------------------------------------
(* SimpleIdAllocator::next.                                                *)

\* An identifier comes from the free list, or the thread goes on to the counter.
LEMMA NextPopKeeps ==
    ASSUME ResourceIdsAssumption, IdsInd, NEW t \in Threads, NextPop(t)
    PROVE  IdsInd'
<1>t. /\ freed \in Seq(U32 \ {NoId}) /\ id \in [Threads -> U32]
      /\ pc \in [Threads -> {"idle", "add", "store", "got", "wait"}]
  BY DEF IdsInd, IdsTypeOK
<1>1. /\ pc[t] = "idle" /\ held[t] = NoId
      /\ UNCHANGED <<next, held, creating, reply, orphans, unrefs, unrefed, alive, errors>>
  BY DEF NextPop, release
<1>2. \A u \in Threads \ {t} : pc'[u] = pc[u] /\ id'[u] = id[u]
  BY <1>t DEF NextPop
<1>3. pc'[t] \in {"got", "add"}
  BY <1>t DEF NextPop
<1>4. StoreInv' /\ WaitInv'
  <2>1. StoreInv'
    BY <1>1, <1>2, <1>3 DEF IdsInd, StoreInv
  <2>2. WaitInv'
    BY <1>1, <1>2, <1>3 DEF IdsInd, WaitInv, IdsTypeOK
  <2> QED BY <2>1, <2>2
<1>5. AliveInv'
  <2>1. \A u \in Threads : pc[u] = "wait" => pc'[u] = "wait" /\ id'[u] = id[u]
    BY <1>1, <1>2
  <2> QED BY <2>1, <1>1, SMTT(30) DEF IdsInd, AliveInv, Kept
<1>6. CASE freed = <<>>
  <2>1. freed' = freed /\ id' = id /\ pc' = [pc EXCEPT ![t] = "add"]
    BY <1>6 DEF NextPop
  <2>2. IdsTypeOK'
    BY <2>1, <1>1, <1>t DEF IdsInd, IdsTypeOK
  <2>3. \A u \in Threads : Taken(u)' = Taken(u)
    BY <2>1, <1>1, <1>2, <1>t DEF Taken
  <2> QED BY <2>1, <2>2, <2>3, <1>1, <1>4, <1>5, SamePlaces
<1>7. CASE freed # <<>>
  <2>h. PICK h : h = Head(freed)
    OBVIOUS
  <2>1. freed' = Tail(freed) /\ id' = [id EXCEPT ![t] = h] /\ pc' = [pc EXCEPT ![t] = "got"]
    BY <1>7, <2>h DEF NextPop
  <2>2. h \in U32 \ {NoId} /\ h \in Range(freed) /\ freed' \in Seq(U32 \ {NoId}) /\ Range(freed') \subseteq Range(freed)
    BY <2>1, <2>h, <1>7, <1>t, TailSubset
  <2>3. IdsTypeOK'
    BY <2>1, <2>2, <1>1, <1>t DEF IdsInd, IdsTypeOK
  <2>4. /\ Taken(t) = {} /\ Taken(t)' = {h} /\ \A u \in Threads : Kept(u)' = Kept(u)
        /\ \A u \in Threads \ {t} : Taken(u)' = Taken(u)
    BY <2>1, <1>1, <1>2, <1>t DEF Taken, Kept
  <2>5. BelowInv'
    <3>1. Loose' \subseteq Loose /\ h \in Loose
      BY <2>2, <1>1 DEF Loose
    <3> QED BY <3>1, <2>4, <1>1, SameBelow DEF IdsInd, BelowInv
  <2>6. ASSUME errors' = 0 PROVE ApartInv'
    <3>1. ApartInv
      BY <2>6, <1>1 DEF IdsInd
    <3>2. Range(freed') = Range(freed) \ {h} /\ Distinct(freed')
      BY <3>1, <2>1, <2>h, <1>7, <1>t, TailRange DEF ApartInv
    <3>3. Loose' = Loose \ {h} /\ h \in Loose
      BY <3>1, <3>2, <2>2, <1>1 DEF ApartInv, Loose
    <3> QED BY <3>1, <3>2, <3>3, <2>4, <1>1, SMTT(30) DEF ApartInv
  <2> QED BY <2>3, <2>5, <2>6, <1>4, <1>5 DEF IdsInd
<1> QED BY <1>6, <1>7

\* The counter gives a number that nobody has, or wraps.
LEMMA NextAddKeeps ==
    ASSUME ResourceIdsAssumption, ~RaceAtEnd, IdsInd, NEW t \in Threads, NextAdd(t)
    PROVE  IdsInd'
<1>t. /\ id \in [Threads -> U32] /\ next \in U32 /\ MAX \in Nat \ {0}
      /\ pc \in [Threads -> {"idle", "add", "store", "got", "wait"}]
  BY DEF IdsInd, IdsTypeOK, ResourceIdsAssumption
<1>n. PICK n \in U32 : n = next
  BY <1>t
<1>1. /\ pc[t] = "add" /\ NotAtEnd(t)
      /\ id' = [id EXCEPT ![t] = n] /\ next' = (n + 1) % (MAX + 1)
      /\ pc' = [pc EXCEPT ![t] = IF n # MAX THEN "got" ELSE "store"]
      /\ UNCHANGED <<freed, held, creating, reply, orphans, unrefs, unrefed, alive, errors>>
  BY <1>n DEF NextAdd, release
<1>2. \A u \in Threads : pc[u] # "store"
  BY <1>1 DEF NotAtEnd
<1>3. n \in 1 .. MAX
  BY <1>2, <1>n, <1>t, SMTT(30) DEF IdsInd, StoreInv, U32
<1>4. n # MAX => n \in 1 .. MAX - 1 /\ next' = n + 1 /\ next' \in U32 /\ next' # 0
  BY <1>1, <1>3, <1>t, SMTT(30) DEF U32
<1>5. n = MAX => next' = 0 /\ next' \in U32
  BY <1>1, <1>3, <1>t, SMTT(30) DEF U32
<1>6. /\ pc'[t] = (IF n # MAX THEN "got" ELSE "store") /\ id'[t] = n
      /\ \A u \in Threads \ {t} : pc'[u] = pc[u] /\ id'[u] = id[u]
  BY <1>1, <1>t
<1>7. IdsTypeOK'
  <2>1. pc' \in [Threads -> {"idle", "add", "store", "got", "wait"}] /\ id' \in [Threads -> U32]
    BY <1>1, <1>t
  <2>2. next' \in U32
    BY <1>4, <1>5
  <2> QED BY <2>1, <2>2, <1>1 DEF IdsInd, IdsTypeOK
<1>8. StoreInv'
  BY <1>2, <1>4, <1>5, <1>6 DEF StoreInv
<1>9. WaitInv' /\ AliveInv'
  <2>1. \A u \in Threads : pc[u] = "wait" => pc'[u] = "wait" /\ id'[u] = id[u]
    BY <1>1, <1>6
  <2>2. WaitInv'
    BY <2>1, <1>1, <1>6 DEF IdsInd, WaitInv, IdsTypeOK
  <2>3. AliveInv'
    BY <2>1, <1>1 DEF IdsInd, AliveInv, Kept
  <2> QED BY <2>2, <2>3
<1>10. /\ Loose' = Loose /\ Taken(t) = {} /\ \A u \in Threads : Kept(u)' = Kept(u)
       /\ \A u \in Threads \ {t} : Taken(u)' = Taken(u)
       /\ Taken(t)' = IF n # MAX THEN {n} ELSE {}
  <2>1. Loose' = Loose /\ \A u \in Threads : Kept(u)' = Kept(u)
    BY <1>1 DEF Kept, Loose
  <2>2. Taken(t) = {} /\ \A u \in Threads \ {t} : Taken(u)' = Taken(u)
    BY <1>1, <1>6 DEF Taken
  <2>3. Taken(t)' = IF n # MAX THEN {n} ELSE {}
    <3>1. CASE n # MAX
      BY <3>1, <1>6 DEF Taken
    <3>2. CASE n = MAX
      BY <3>2, <1>6 DEF Taken
    <3> QED BY <3>1, <3>2
  <2> QED BY <2>1, <2>2, <2>3
<1>11. \A i : Below(i) => Below(i)' /\ i # n
  <2> SUFFICES ASSUME NEW i, Below(i) PROVE Below(i)' /\ i # n
    OBVIOUS
  <2>1. i \in 1 .. MAX - 1 /\ i < n
    BY <1>3, <1>n, SMTT(30) DEF Below
  <2> QED BY <2>1, <1>3, <1>4, <1>5, <1>t, SMTT(30) DEF Below
<1>12. BelowInv'
  <2>1. n # MAX => Below(n)'
    BY <1>3, <1>4, <1>t, SMTT(30) DEF Below
  <2> QED BY <2>1, <1>10, <1>11 DEF IdsInd, BelowInv
<1>13. errors' = 0 => ApartInv'
  <2>1. n \notin Loose /\ \A u \in Threads : n \notin Taken(u) \cup Kept(u)
    BY <1>11 DEF IdsInd, BelowInv
  <2> QED BY <2>1, <1>1, <1>10, SMTT(30) DEF IdsInd, ApartInv
<1> QED BY <1>7, <1>8, <1>9, <1>12, <1>13 DEF IdsInd

\* The counter is put back.
LEMMA NextStoreKeeps ==
    ASSUME ResourceIdsAssumption, IdsInd, NEW t \in Threads, NextStore(t)
    PROVE  IdsInd'
<1>t. /\ id \in [Threads -> U32] /\ MAX \in Nat \ {0}
      /\ pc \in [Threads -> {"idle", "add", "store", "got", "wait"}]
  BY DEF IdsInd, IdsTypeOK, ResourceIdsAssumption
<1>1. /\ pc[t] = "store" /\ next' = MAX
      /\ pc' = [pc EXCEPT ![t] = "idle"] /\ id' = [id EXCEPT ![t] = NoId]
      /\ UNCHANGED <<freed, held, creating, reply, orphans, unrefs, unrefed, alive, errors>>
  BY DEF NextStore, release
<1>2. pc'[t] = "idle" /\ \A u \in Threads \ {t} : pc'[u] = pc[u] /\ id'[u] = id[u]
  BY <1>1, <1>t
<1>3. IdsTypeOK'
  <2>1. pc' \in [Threads -> {"idle", "add", "store", "got", "wait"}] /\ id' \in [Threads -> U32]
    BY <1>1, <1>t, SMTT(30) DEF U32, NoId
  <2> QED BY <2>1, <1>1, <1>t, SMTT(30) DEF IdsInd, IdsTypeOK, U32
<1>4. StoreInv'
  BY <1>1, <1>2, <1>t DEF IdsInd, StoreInv
<1>5. WaitInv' /\ AliveInv'
  <2>1. \A u \in Threads : pc[u] = "wait" => pc'[u] = "wait" /\ id'[u] = id[u]
    BY <1>1, <1>2
  <2>2. WaitInv'
    BY <2>1, <1>1, <1>2 DEF IdsInd, WaitInv, IdsTypeOK
  <2>3. AliveInv'
    BY <2>1, <1>1 DEF IdsInd, AliveInv, Kept
  <2> QED BY <2>2, <2>3
<1>6. Loose' = Loose /\ \A u \in Threads : Kept(u)' = Kept(u) /\ Taken(u)' = Taken(u)
  BY <1>1, <1>2 DEF Taken, Kept, Loose
<1>7. \A i : Below(i) => Below(i)'
  BY <1>1, <1>t, SMTT(30) DEF Below
<1>8. BelowInv'
  BY <1>6, <1>7 DEF IdsInd, BelowInv
<1>9. errors' = 0 => ApartInv'
  BY <1>1, <1>6 DEF IdsInd, ApartInv
<1> QED BY <1>3, <1>4, <1>5, <1>8, <1>9 DEF IdsInd

-----------------------------------------------------------------------------
(* Creation.                                                               *)

\* The command is sent.
LEMMA CreateKeeps ==
    ASSUME ResourceIdsAssumption, IdsInd, NEW t \in Threads, Create(t)
    PROVE  IdsInd'
<1>t. /\ id \in [Threads -> U32] /\ reply \in [Threads -> {"none", "ok", "err"}]
      /\ pc \in [Threads -> {"idle", "add", "store", "got", "wait"}] /\ creating \subseteq Threads
  BY DEF IdsInd, IdsTypeOK
<1>0. pc[t] = "got" /\ id[t] # 0
  <2>1. id[t] \in Taken(t)
    BY DEF Create, Taken
  <2> QED BY <2>1, SMTT(30) DEF Create, IdsInd, BelowInv, Below
<1>1. /\ pc' = [pc EXCEPT ![t] = "wait"] /\ creating' = creating \cup {t}
      /\ reply' = [reply EXCEPT ![t] = "none"]
      /\ UNCHANGED <<next, freed, id, held, orphans, unrefs, unrefed, alive, errors>>
  BY <1>0 DEF Create, allocator, release
<1>2. /\ pc'[t] = "wait" /\ reply'[t] = "none"
      /\ \A u \in Threads \ {t} : pc'[u] = pc[u] /\ reply'[u] = reply[u]
  BY <1>1, <1>t
<1>3. IdsTypeOK'
  <2>1. /\ pc' \in [Threads -> {"idle", "add", "store", "got", "wait"}]
        /\ reply' \in [Threads -> {"none", "ok", "err"}] /\ creating' \subseteq Threads
    BY <1>1, <1>t
  <2> QED BY <2>1, <1>1 DEF IdsInd, IdsTypeOK
<1>4. StoreInv'
  BY <1>0, <1>1, <1>2, SMTT(30) DEF IdsInd, StoreInv
<1>5. WaitInv'
  BY <1>0, <1>1, <1>2, <1>t DEF IdsInd, WaitInv
<1>6. AliveInv'
  BY <1>0, <1>1, <1>2, SMTT(30) DEF IdsInd, AliveInv, Kept
<1>7. \A u \in Threads : Taken(u)' = Taken(u)
  BY <1>0, <1>1, <1>2 DEF Taken
<1> QED BY <1>1, <1>3, <1>4, <1>5, <1>6, <1>7, SamePlaces

\* What a thread that leaves a creation with its identifier i leaves unchanged.
LEMMA LeavesCreation ==
    ASSUME ResourceIdsAssumption, IdsInd, NEW t \in Threads, pc[t] = "wait",
           pc' = [pc EXCEPT ![t] = "idle"], id' = [id EXCEPT ![t] = NoId],
           UNCHANGED <<next, alive, unrefs, unrefed, errors>>
    PROVE  /\ Taken(t) = {id[t]} /\ Taken(t)' = {} /\ Below(id[t]) /\ id[t] \in U32 \ {NoId}
           /\ \A u \in Threads \ {t} : /\ pc'[u] = pc[u] /\ id'[u] = id[u]
                                       /\ Taken(u)' = Taken(u)
           /\ pc' \in [Threads -> {"idle", "add", "store", "got", "wait"}]
           /\ id' \in [Threads -> U32]
           /\ StoreInv'
<1>t. /\ id \in [Threads -> U32] /\ MAX \in Nat \ {0}
      /\ pc \in [Threads -> {"idle", "add", "store", "got", "wait"}]
  BY DEF IdsInd, IdsTypeOK, ResourceIdsAssumption
<1>1. /\ pc'[t] = "idle" /\ \A u \in Threads \ {t} : pc'[u] = pc[u] /\ id'[u] = id[u]
      /\ pc' \in [Threads -> {"idle", "add", "store", "got", "wait"}] /\ id' \in [Threads -> U32]
  BY <1>t, SMTT(30) DEF U32, NoId
<1>2. /\ Taken(t) = {id[t]} /\ Taken(t)' = {} /\ \A u \in Threads \ {t} : Taken(u)' = Taken(u)
  BY <1>1 DEF Taken
<1>3. Below(id[t]) /\ id[t] \in U32 \ {NoId}
  BY <1>2, <1>t, SMTT(30) DEF IdsInd, BelowInv, Below, NoId
<1>4. StoreInv'
  BY <1>1 DEF IdsInd, StoreInv
<1> QED BY <1>1, <1>2, <1>3, <1>4

LEMMA CreateOkKeeps ==
    ASSUME ResourceIdsAssumption, IdsInd, NEW t \in Threads, CreateOk(t)
    PROVE  IdsInd'
<1>i. PICK i : i = id[t]
  OBVIOUS
<1>1. /\ pc[t] = "wait" /\ reply[t] = "ok" /\ held' = [held EXCEPT ![t] = i]
      /\ id' = [id EXCEPT ![t] = NoId] /\ pc' = [pc EXCEPT ![t] = "idle"]
      /\ reply' = [reply EXCEPT ![t] = "none"]
      /\ UNCHANGED <<next, freed, creating, orphans, unrefs, unrefed, alive, errors>>
  BY <1>i DEF CreateOk, allocator, release
<1>2. /\ Taken(t) = {i} /\ Taken(t)' = {} /\ Below(i) /\ i \in U32 \ {NoId}
      /\ \A u \in Threads \ {t} : pc'[u] = pc[u] /\ id'[u] = id[u] /\ Taken(u)' = Taken(u)
      /\ pc' \in [Threads -> {"idle", "add", "store", "got", "wait"}] /\ id' \in [Threads -> U32]
      /\ StoreInv'
  BY <1>1, <1>i, LeavesCreation
<1>t. held \in [Threads -> U32] /\ reply \in [Threads -> {"none", "ok", "err"}] /\ creating \subseteq Threads
  BY DEF IdsInd, IdsTypeOK
<1>3. /\ held' \in [Threads -> U32] /\ reply' \in [Threads -> {"none", "ok", "err"}]
      /\ held'[t] = i /\ \A u \in Threads \ {t} : held'[u] = held[u] /\ reply'[u] = reply[u]
  BY <1>1, <1>2, <1>t
<1>4. Kept(t)' = {i} /\ \A u \in Threads \ {t} : Kept(u)' = Kept(u)
  BY <1>2, <1>3 DEF Kept
<1>5. IdsTypeOK'
  BY <1>1, <1>2, <1>3 DEF IdsInd, IdsTypeOK
<1>6. WaitInv'
  <2>1. t \notin creating /\ pc'[t] = "idle"
    BY <1>1 DEF IdsInd, WaitInv, IdsTypeOK
  <2> QED BY <2>1, <1>1, <1>2, <1>3, <1>t DEF IdsInd, WaitInv
<1>7. AliveInv'
  <2> SUFFICES ASSUME NEW j \in alive
               PROVE  \/ j \in orphans \cup unrefs
                      \/ \E u \in Threads : \/ j \in Kept(u)'
                                            \/ pc'[u] = "wait" /\ reply'[u] = "ok" /\ id'[u] = j
    BY <1>1 DEF AliveInv
  <2>1. CASE j = i
    BY <2>1, <1>4
  <2>2. CASE j # i /\ j \notin orphans \cup unrefs
    <3>1. PICK u \in Threads : \/ j \in Kept(u)
                               \/ pc[u] = "wait" /\ reply[u] = "ok" /\ id[u] = j
      BY <2>2 DEF IdsInd, AliveInv
    <3>2. u # t
      <4>1. Kept(t) = {}
        BY <1>1 DEF Kept, IdsInd, WaitInv
      <4> QED BY <3>1, <4>1, <2>2, <1>i
    <3> QED BY <3>1, <3>2, <1>2, <1>3, <1>4
  <2> QED BY <2>1, <2>2
<1>8. Loose' = Loose
  BY <1>1 DEF Loose
<1>9. BelowInv'
  BY <1>1, <1>2, <1>4, <1>8, SameBelow DEF IdsInd, BelowInv
<1>10. errors' = 0 => ApartInv'
  BY <1>1, <1>2, <1>4, <1>8, SMTT(30) DEF IdsInd, ApartInv
<1> QED BY <1>2, <1>5, <1>6, <1>7, <1>9, <1>10 DEF IdsInd

\* The caller gives up: the identifier is lost.
LEMMA CreateTimeoutKeeps ==
    ASSUME ResourceIdsAssumption, IdsInd, NEW t \in Threads, CreateTimeout(t)
    PROVE  IdsInd'
<1>i. PICK i : i = id[t]
  OBVIOUS
<1>1. /\ pc[t] = "wait" /\ reply[t] = "none" /\ orphans' = orphans \cup {i} /\ creating' = creating \ {t}
      /\ id' = [id EXCEPT ![t] = NoId] /\ pc' = [pc EXCEPT ![t] = "idle"]
      /\ UNCHANGED <<next, freed, held, reply, unrefs, unrefed, alive, errors>>
  BY <1>i DEF CreateTimeout, allocator, release
<1>2. /\ Taken(t) = {i} /\ Taken(t)' = {} /\ Below(i) /\ i \in U32 \ {NoId}
      /\ \A u \in Threads \ {t} : pc'[u] = pc[u] /\ id'[u] = id[u] /\ Taken(u)' = Taken(u)
      /\ pc' \in [Threads -> {"idle", "add", "store", "got", "wait"}] /\ id' \in [Threads -> U32]
      /\ StoreInv'
  BY <1>1, <1>i, LeavesCreation
<1>3. \A u \in Threads : Kept(u)' = Kept(u)
  BY <1>1 DEF Kept
<1>4. IdsTypeOK'
  BY <1>1, <1>2 DEF IdsInd, IdsTypeOK
<1>5. WaitInv'
  BY <1>1, <1>2 DEF IdsInd, WaitInv, IdsTypeOK
<1>6. AliveInv'
  <2>1. \A u \in Threads : reply[u] = "ok" => u # t
    BY <1>1
  <2> QED BY <2>1, <1>1, <1>2, <1>3, SMTT(30) DEF IdsInd, AliveInv
<1>7. Loose' = Loose \cup {i}
  BY <1>1 DEF Loose
<1>8. BelowInv'
  BY <1>1, <1>2, <1>3, <1>7, SameBelow DEF IdsInd, BelowInv
<1>9. ASSUME errors' = 0 PROVE ApartInv'
  <2>1. ApartInv
    BY <1>1, <1>9 DEF IdsInd
  <2>2. i \notin Loose /\ i \notin Range(freed) \cup unrefs \cup unrefed
    BY <2>1, <1>2 DEF ApartInv, Loose
  <2>3. \A u \in Threads : i \notin Kept(u) /\ i \notin Taken(u)'
    BY <2>1, <1>2 DEF ApartInv
  <2> QED BY <2>1, <2>2, <2>3, <1>1, <1>2, <1>3, <1>7, SMTT(30) DEF ApartInv
<1> QED BY <1>2, <1>4, <1>5, <1>6, <1>8, <1>9 DEF IdsInd

\* The host refuses: the identifier goes to the free list.
LEMMA CreateErrKeeps ==
    ASSUME ResourceIdsAssumption, IdsInd, NEW t \in Threads, CreateErr(t)
    PROVE  IdsInd'
<1>i. PICK i : i = id[t]
  OBVIOUS
<1>1. /\ pc[t] = "wait" /\ reply[t] = "err" /\ freed' = Append(freed, i)
      /\ id' = [id EXCEPT ![t] = NoId] /\ pc' = [pc EXCEPT ![t] = "idle"]
      /\ reply' = [reply EXCEPT ![t] = "none"]
      /\ UNCHANGED <<next, held, creating, orphans, unrefs, unrefed, alive, errors>>
  BY <1>i DEF CreateErr, release
<1>2. /\ Taken(t) = {i} /\ Taken(t)' = {} /\ Below(i) /\ i \in U32 \ {NoId}
      /\ \A u \in Threads \ {t} : pc'[u] = pc[u] /\ id'[u] = id[u] /\ Taken(u)' = Taken(u)
      /\ pc' \in [Threads -> {"idle", "add", "store", "got", "wait"}] /\ id' \in [Threads -> U32]
      /\ StoreInv'
  BY <1>1, <1>i, LeavesCreation
<1>t. /\ reply \in [Threads -> {"none", "ok", "err"}] /\ creating \subseteq Threads
      /\ freed \in Seq(U32 \ {NoId})
  BY DEF IdsInd, IdsTypeOK
<1>3. /\ reply' \in [Threads -> {"none", "ok", "err"}]
      /\ \A u \in Threads \ {t} : reply'[u] = reply[u]
      /\ \A u \in Threads : Kept(u)' = Kept(u)
  BY <1>1, <1>t DEF Kept
<1>4. /\ freed' \in Seq(U32 \ {NoId}) /\ Range(freed') = Range(freed) \cup {i}
      /\ Distinct(freed) /\ i \notin Range(freed) => Distinct(freed')
  BY <1>1, <1>2, <1>t, AppendRange, SMTT(30)
<1>5. IdsTypeOK'
  BY <1>1, <1>2, <1>3, <1>4 DEF IdsInd, IdsTypeOK
<1>6. WaitInv'
  <2>1. t \notin creating /\ pc'[t] = "idle"
    BY <1>1 DEF IdsInd, WaitInv, IdsTypeOK
  <2> QED BY <2>1, <1>1, <1>2, <1>3, <1>t DEF IdsInd, WaitInv
<1>7. AliveInv'
  <2>1. \A u \in Threads : reply[u] = "ok" => u # t
    BY <1>1
  <2> QED BY <2>1, <1>1, <1>2, <1>3, SMTT(30) DEF IdsInd, AliveInv
<1>8. Loose' = Loose \cup {i}
  BY <1>1, <1>4 DEF Loose
<1>9. BelowInv'
  BY <1>1, <1>2, <1>3, <1>8, SameBelow, SMTT(30) DEF IdsInd, BelowInv
<1>10. ASSUME errors' = 0 PROVE ApartInv'
  <2>1. ApartInv
    BY <1>1, <1>10 DEF IdsInd
  <2>2. i \notin Loose /\ i \notin Range(freed) \cup orphans \cup unrefs \cup unrefed
    BY <2>1, <1>2 DEF ApartInv, Loose
  <2>3. \A u \in Threads : i \notin Kept(u) /\ i \notin Taken(u)'
    BY <2>1, <1>2 DEF ApartInv
  <2> QED BY <2>1, <2>2, <2>3, <1>1, <1>2, <1>3, <1>4, <1>8, SMTT(30) DEF ApartInv
<1> QED BY <1>2, <1>5, <1>6, <1>7, <1>9, <1>10 DEF IdsInd

-----------------------------------------------------------------------------
(* Release, and the host.                                                  *)

\* After a failed transfer only the range and the owners of what is alive are claimed.
LEMMA TransferErrKeeps ==
    ASSUME ResourceIdsAssumption, IdsInd, NEW t \in Threads, TransferErr(t)
    PROVE  IdsInd'
<1>i. PICK i : i = held[t]
  OBVIOUS
<1>1. /\ i # NoId /\ errors < MaxTransferErr /\ errors' = errors + 1 /\ freed' = Append(freed, i)
      /\ UNCHANGED <<next, pc, id, creating, reply, orphans, held, unrefs, unrefed, alive>>
  BY <1>i DEF TransferErr, creation, release
<1>t. /\ freed \in Seq(U32 \ {NoId}) /\ held \in [Threads -> U32]
      /\ errors \in 0 .. MaxTransferErr /\ MaxTransferErr \in Nat
  BY DEF IdsInd, IdsTypeOK, ResourceIdsAssumption
<1>2. i \in Kept(t) /\ i \in U32 \ {NoId} /\ Below(i)
  BY <1>i, <1>1, <1>t DEF IdsInd, BelowInv, Kept
<1>3. freed' \in Seq(U32 \ {NoId}) /\ Range(freed') = Range(freed) \cup {i}
  BY <1>1, <1>2, <1>t, AppendRange, SMTT(30)
<1>4. errors' \in 0 .. MaxTransferErr /\ errors' # 0
  BY <1>1, <1>t, SMTT(30)
<1>5. IdsTypeOK'
  BY <1>1, <1>3, <1>4 DEF IdsInd, IdsTypeOK
<1>6. \A u \in Threads : Taken(u)' = Taken(u) /\ Kept(u)' = Kept(u)
  BY <1>1 DEF Taken, Kept
<1>7. Loose' = Loose \cup {i}
  BY <1>1, <1>3 DEF Loose
<1>8. BelowInv'
  BY <1>1, <1>2, <1>6, <1>7, SameBelow DEF IdsInd, BelowInv
<1>9. StoreInv' /\ WaitInv'
  BY <1>1 DEF IdsInd, StoreInv, WaitInv
<1>10. AliveInv'
  BY <1>1, <1>6 DEF IdsInd, AliveInv
<1> QED BY <1>4, <1>5, <1>8, <1>9, <1>10 DEF IdsInd

\* The resource is given up.
LEMMA ResourceUnrefKeeps ==
    ASSUME ResourceIdsAssumption, IdsInd, NEW t \in Threads, ResourceUnref(t)
    PROVE  IdsInd'
<1>i. PICK i : i = held[t]
  OBVIOUS
<1>1. /\ i # NoId /\ unrefs' = unrefs \cup {i} /\ held' = [held EXCEPT ![t] = NoId]
      /\ UNCHANGED <<next, freed, pc, id, creating, reply, orphans, unrefed, alive, errors>>
  BY <1>i DEF ResourceUnref, creation, allocator
<1>t. held \in [Threads -> U32] /\ NoId \in U32 /\ unrefs \subseteq U32
  BY SMTT(30) DEF IdsInd, IdsTypeOK, ResourceIdsAssumption, U32, NoId
<1>2. i \in Kept(t) /\ Kept(t) = {i} /\ i \in U32 \ {NoId} /\ Below(i)
  BY <1>i, <1>1, <1>t DEF IdsInd, BelowInv, Kept
<1>3. /\ held' \in [Threads -> U32] /\ held'[t] = NoId /\ \A u \in Threads \ {t} : held'[u] = held[u]
  BY <1>1, <1>t
<1>4. /\ Kept(t)' = {} /\ \A u \in Threads \ {t} : Kept(u)' = Kept(u)
      /\ \A u \in Threads : Taken(u)' = Taken(u)
  BY <1>1, <1>3 DEF Taken, Kept
<1>5. IdsTypeOK'
  BY <1>1, <1>2, <1>3, <1>t DEF IdsInd, IdsTypeOK
<1>6. Loose' = Loose \cup {i}
  BY <1>1 DEF Loose
<1>7. BelowInv'
  BY <1>1, <1>2, <1>4, <1>6, SameBelow DEF IdsInd, BelowInv
<1>8. StoreInv' /\ WaitInv'
  BY <1>1, <1>3 DEF IdsInd, StoreInv, WaitInv
<1>9. AliveInv'
  BY <1>1, <1>2, <1>4, SMTT(30) DEF IdsInd, AliveInv
<1>10. ASSUME errors' = 0 PROVE ApartInv'
  <2>1. ApartInv
    BY <1>1, <1>10 DEF IdsInd
  <2>2. i \notin Loose /\ i \notin Range(freed) \cup orphans \cup unrefed
    BY <2>1, <1>2 DEF ApartInv, Loose
  <2>3. \A u \in Threads : i \notin Kept(u)' /\ i \notin Taken(u)
    BY <2>1, <1>2, <1>4, SMTT(30) DEF ApartInv
  <2> QED BY <2>1, <2>2, <2>3, <1>1, <1>4, <1>6, SMTT(30) DEF ApartInv
<1> QED BY <1>5, <1>7, <1>8, <1>9, <1>10 DEF IdsInd

\* The release is answered, and the identifier goes to the free list.
LEMMA FreeKeeps ==
    ASSUME ResourceIdsAssumption, IdsInd, NEW i \in U32, FreeResourceId(i)
    PROVE  IdsInd'
<1>1. /\ i \in unrefed /\ unrefed' = unrefed \ {i} /\ freed' = Append(freed, i)
      /\ UNCHANGED <<next, pc, id, creating, reply, orphans, held, unrefs, alive, errors>>
  BY DEF FreeResourceId, creation
<1>2. i \in Loose /\ Below(i) /\ i \in U32 \ {NoId} /\ freed \in Seq(U32 \ {NoId})
  BY <1>1, SMTT(30) DEF Loose, IdsInd, BelowInv, Below, IdsTypeOK, NoId
<1>3. /\ freed' \in Seq(U32 \ {NoId}) /\ Range(freed') = Range(freed) \cup {i}
      /\ Distinct(freed) /\ i \notin Range(freed) => Distinct(freed')
  BY <1>1, <1>2, AppendRange, SMTT(30)
<1>4. IdsTypeOK'
  BY <1>1, <1>3 DEF IdsInd, IdsTypeOK
<1>5. \A u \in Threads : Taken(u)' = Taken(u) /\ Kept(u)' = Kept(u)
  BY <1>1 DEF Taken, Kept
<1>6. Loose' \subseteq Loose
  BY <1>1, <1>2, <1>3 DEF Loose
<1>7. BelowInv'
  BY <1>1, <1>5, <1>6, SameBelow DEF IdsInd, BelowInv
<1>8. StoreInv' /\ WaitInv'
  BY <1>1 DEF IdsInd, StoreInv, WaitInv
<1>9. AliveInv'
  BY <1>1, <1>5 DEF IdsInd, AliveInv
<1>10. ASSUME errors' = 0 PROVE ApartInv'
  <2>1. ApartInv
    BY <1>1, <1>10 DEF IdsInd
  <2>2. i \notin Range(freed) \cup orphans \cup unrefs
    BY <2>1, <1>1 DEF ApartInv
  <2>3. \A u \in Threads : (Taken(u)' \cup Kept(u)') \cap Loose' = {}
    BY <2>1, <1>5, <1>6 DEF ApartInv
  <2> QED BY <2>1, <2>2, <2>3, <1>1, <1>3, <1>5, SMTT(30) DEF ApartInv
<1> QED BY <1>4, <1>7, <1>8, <1>9, <1>10 DEF IdsInd

\* The host executes a creation or refuses it.
LEMMA HostCreateKeeps ==
    ASSUME ResourceIdsAssumption, IdsInd, NEW t \in Threads, HostCreate(t)
    PROVE  IdsInd'
<1>t. /\ reply \in [Threads -> {"none", "ok", "err"}] /\ creating \subseteq Threads
      /\ alive \subseteq U32 /\ id \in [Threads -> U32]
  BY DEF IdsInd, IdsTypeOK
<1>1. /\ t \in creating /\ creating' = creating \ {t}
      /\ UNCHANGED <<next, freed, pc, id, held, orphans, unrefs, unrefed, errors>>
  BY DEF HostCreate, allocator, release
<1>2. PICK a \in {"ok", "err"} :
        /\ reply' = [reply EXCEPT ![t] = a]
        /\ alive' = alive \/ (a = "ok" /\ alive' = alive \cup {id[t]})
  BY DEF HostCreate
<1>3. pc[t] = "wait" /\ reply[t] = "none"
  BY <1>1 DEF IdsInd, WaitInv
<1>4. /\ reply' \in [Threads -> {"none", "ok", "err"}] /\ reply'[t] = a
      /\ \A u \in Threads \ {t} : reply'[u] = reply[u]
  BY <1>2, <1>t
<1>5. IdsTypeOK'
  BY <1>1, <1>2, <1>4, <1>t, SMTT(30) DEF IdsInd, IdsTypeOK
<1>6. StoreInv' /\ WaitInv'
  <2>1. StoreInv'
    BY <1>1 DEF IdsInd, StoreInv
  <2>2. WaitInv'
    BY <1>1, <1>4, <1>t DEF IdsInd, WaitInv
  <2> QED BY <2>1, <2>2
<1>7. AliveInv'
  <2>1. \A u \in Threads : Kept(u)' = Kept(u)
    BY <1>1 DEF Kept
  <2>2. \A u \in Threads : reply[u] = "ok" => reply'[u] = "ok"
    BY <1>3, <1>4
  <2>3. CASE alive' = alive
    BY <2>1, <2>2, <2>3, <1>1, SMTT(30) DEF IdsInd, AliveInv
  <2>4. CASE a = "ok" /\ alive' = alive \cup {id[t]}
    BY <2>1, <2>2, <2>4, <1>1, <1>3, <1>4, SMTT(30) DEF IdsInd, AliveInv
  <2> QED BY <2>3, <2>4, <1>2
<1>8. \A u \in Threads : Taken(u)' = Taken(u)
  BY <1>1 DEF Taken
<1> QED BY <1>1, <1>5, <1>6, <1>7, <1>8, SamePlaces

\* The host executes a creation that nobody waits for.
LEMMA HostCreateOrphanKeeps ==
    ASSUME ResourceIdsAssumption, IdsInd, NEW i \in U32, HostCreateOrphan(i)
    PROVE  IdsInd'
<1>1. /\ i \in orphans /\ alive' = alive \cup {i}
      /\ UNCHANGED <<next, freed, pc, id, creating, reply, orphans, held, unrefs, unrefed, errors>>
  BY DEF HostCreateOrphan, allocator, creation, release
<1>2. IdsTypeOK'
  BY <1>1 DEF IdsInd, IdsTypeOK
<1>3. StoreInv' /\ WaitInv'
  BY <1>1 DEF IdsInd, StoreInv, WaitInv
<1>4. \A u \in Threads : Taken(u)' = Taken(u) /\ Kept(u)' = Kept(u)
  BY <1>1 DEF Taken, Kept
<1>5. AliveInv'
  BY <1>1, <1>4, SMTT(30) DEF IdsInd, AliveInv
<1> QED BY <1>1, <1>2, <1>3, <1>4, <1>5, SamePlaces

\* The host executes a release.
LEMMA HostUnrefKeeps ==
    ASSUME ResourceIdsAssumption, IdsInd, NEW i \in U32, HostUnref(i)
    PROVE  IdsInd'
<1>1. /\ i \in unrefs /\ unrefs' = unrefs \ {i} /\ unrefed' = unrefed \cup {i} /\ alive' = alive \ {i}
      /\ UNCHANGED <<next, freed, pc, id, creating, reply, orphans, held, errors>>
  BY DEF HostUnref, allocator, creation
<1>2. IdsTypeOK'
  BY <1>1 DEF IdsInd, IdsTypeOK
<1>3. StoreInv' /\ WaitInv'
  BY <1>1 DEF IdsInd, StoreInv, WaitInv
<1>4. \A u \in Threads : Taken(u)' = Taken(u) /\ Kept(u)' = Kept(u)
  BY <1>1 DEF Taken, Kept
<1>5. AliveInv'
  BY <1>1, <1>4 DEF IdsInd, AliveInv
<1>6. Loose' = Loose
  BY <1>1 DEF Loose
<1>7. BelowInv'
  BY <1>1, <1>4, <1>6, SameBelow DEF IdsInd, BelowInv
<1>8. ASSUME errors' = 0 PROVE ApartInv'
  <2>1. ApartInv
    BY <1>1, <1>8 DEF IdsInd
  <2> QED BY <2>1, <1>1, <1>4, <1>6 DEF ApartInv
<1> QED BY <1>2, <1>3, <1>5, <1>7, <1>8 DEF IdsInd

-----------------------------------------------------------------------------
(* The theorems.                                                           *)

\* The disjoint places, the range and the owners of what the host knows are preserved
\* by every interleaving of the threads, the handler and the host.
THEOREM IdsInductive ==
    ASSUME ResourceIdsAssumption, ~RaceAtEnd PROVE IdsSpec => []IdsInd
<1>1. IdsInit => IdsInd
  <2> SUFFICES ASSUME IdsInit PROVE IdsInd
    OBVIOUS
  <2>1. MAX \in Nat \ {0} /\ MaxTransferErr \in Nat
    BY DEF ResourceIdsAssumption
  <2>2. IdsTypeOK
    BY <2>1, SMTT(30) DEF IdsInit, IdsTypeOK, U32, NoId
  <2>3. Range(<<>>) = {} /\ Distinct(<<>>)
    BY SMTT(30) DEF Range, Distinct
  <2>4. Loose = {} /\ \A t \in Threads : Taken(t) = {} /\ Kept(t) = {}
    BY <2>3 DEF IdsInit, Loose, Taken, Kept
  <2>5. BelowInv /\ StoreInv /\ WaitInv /\ AliveInv
    BY <2>4, SMTT(30) DEF IdsInit, BelowInv, StoreInv, WaitInv, AliveInv
  <2>6. ApartInv
    BY <2>3, <2>4 DEF IdsInit, ApartInv
  <2> QED BY <2>2, <2>5, <2>6 DEF IdsInd
<1>2. IdsInd /\ [IdsNext]_idsVars => IdsInd'
  <2> SUFFICES ASSUME IdsInd, [IdsNext]_idsVars PROVE IdsInd'
    OBVIOUS
  <2>1. ASSUME NEW t \in Threads, NextPop(t) \/ NextAdd(t) \/ NextStore(t) PROVE IdsInd'
    BY <2>1, NextPopKeeps, NextAddKeeps, NextStoreKeeps
  <2>2. ASSUME NEW t \in Threads, Create(t) \/ CreateOk(t) \/ CreateErr(t) \/ CreateTimeout(t)
        PROVE  IdsInd'
    BY <2>2, CreateKeeps, CreateOkKeeps, CreateErrKeeps, CreateTimeoutKeeps
  <2>3. ASSUME NEW t \in Threads, TransferErr(t) \/ ResourceUnref(t) \/ HostCreate(t) PROVE IdsInd'
    BY <2>3, TransferErrKeeps, ResourceUnrefKeeps, HostCreateKeeps
  <2>4. ASSUME NEW i \in U32, HostUnref(i) \/ FreeResourceId(i) \/ HostCreateOrphan(i) PROVE IdsInd'
    BY <2>4, HostUnrefKeeps, FreeKeeps, HostCreateOrphanKeeps
  <2>5. CASE UNCHANGED idsVars
    <3>1. /\ IdsTypeOK' /\ StoreInv' /\ WaitInv'
      BY <2>5 DEF idsVars, IdsInd, IdsTypeOK, StoreInv, WaitInv
    <3>2. \A u \in Threads : Taken(u)' = Taken(u) /\ Kept(u)' = Kept(u)
      BY <2>5 DEF idsVars, Taken, Kept
    <3>3. AliveInv'
      BY <3>2, <2>5 DEF idsVars, IdsInd, AliveInv
    <3> QED BY <3>1, <3>2, <3>3, <2>5, SamePlaces DEF idsVars
  <2> QED BY <2>1, <2>2, <2>3, <2>4, <2>5 DEF IdsNext
<1> QED BY <1>1, <1>2, PTL DEF IdsSpec

-----------------------------------------------------------------------------
(* DeviceQueue.                                                            *)

\* The types of the variables; the bounds on the lengths follow from the rest.
TypeInv ==
    /\ indirect \in BOOLEAN
    /\ chan \subseteq Requests
    /\ msg \in BOOLEAN /\ irq \in BOOLEAN /\ interrupt \in BOOLEAN
    /\ free \in Seq(Slots) /\ used \in Seq(Tokens) /\ descs \in Seq(Tokens)
    /\ inputs \in [Slots -> Requests \cup {Nothing}]
    /\ outputs \in [Slots -> Requests \cup {Nothing, "zeroed"}]
    /\ callbacks \in [Slots -> Requests \cup {Nothing}]
    /\ indices \in [Tokens -> Slots \cup {Nothing}]
    /\ ring \in [Tokens -> [slot : {0} \cup Slots, chain : Seq(Tokens)]]
    /\ hpc \in {"select", "request", "response", "callback", "write", "set"}
    /\ cur \in Slots \cup {Nothing}
    /\ callback \in Requests \cup {Nothing} /\ output \in Requests \cup {Nothing, "zeroed"}
    /\ status \in [Requests -> {"new", "sent", "waiting", "timed_out", "timeout", "io_error", "ok"}]
    /\ cancel \in [Requests -> BOOLEAN] /\ done \in [Requests -> BOOLEAN]
    /\ data \in [Requests -> Requests \cup {Nothing, "zeroed"}]
    /\ result \in [Requests -> Requests \cup {Nothing, "zeroed"}]

\* A token either has a slot and a chain that it heads, or neither.
RingInv ==
    \A t \in Tokens :
        IF indices[t] = Nothing
        THEN ring[t] = NoEntry
        ELSE /\ ring[t].slot = indices[t] /\ ring[t].chain # <<>>
             /\ Head(ring[t].chain) = t /\ Distinct(ring[t].chain)
             /\ indirect => Len(ring[t].chain) = 1

\* The places of a slot exclude each other; over indirect descriptors it has one.
SlotInv ==
    /\ Distinct(free) /\ cur \notin Range(free)
    /\ \A t \in Tokens : indices[t] # Nothing => indices[t] \notin Range(free) /\ indices[t] # cur
    /\ \A t, u \in Tokens : indices[t] # Nothing /\ indices[t] = indices[u] => t = u
    /\ indirect => \A i \in Slots : i \in Range(free) \/ i = cur \/ \E t \in Tokens : indices[t] = i

\* Free list and chains divide the descriptors.
DescInv ==
    /\ Distinct(descs)
    /\ \A t \in Tokens : Range(ring[t].chain) \cap Range(descs) = {}
    /\ \A t, u \in Tokens : t # u => Range(ring[t].chain) \cap Range(ring[u].chain) = {}
    /\ \A d \in Tokens : d \in Range(descs) \/ \E t \in Tokens : d \in Range(ring[t].chain)

UsedInv == Distinct(used) /\ \A t \in Range(used) : indices[t] # Nothing

\* The buffers of a chain belong to one request.
BufferInv ==
    \A t \in Tokens : indices[t] # Nothing =>
        LET i == indices[t] IN
        /\ inputs[i] \in Requests /\ callbacks[i] = inputs[i]
        /\ outputs[i] \in {"zeroed", inputs[i]}
        /\ t \in Range(used) => outputs[i] = inputs[i]

\* What the handler holds between the steps of response().
HandInv ==
    /\ hpc \in {"callback", "write"} <=> cur # Nothing
    /\ hpc = "callback" => callback \in Requests /\ outputs[cur] = callback
    /\ hpc = "write" => callback \in Blocking /\ output = callback
    /\ hpc = "set" => callback \in Blocking
    /\ hpc \in {"select", "request", "response"} => callback = Nothing

\* A caller that still waits finds its response when the event is set.
AnswerInv ==
    \A r \in Requests :
        /\ data[r] \in {Nothing, r} /\ result[r] \in {Nothing, r} /\ status[r] # "io_error"
        /\ cancel[r] => status[r] = "timeout"
        /\ status[r] \in {"waiting", "timed_out", "timeout"} => r \in Blocking
        /\ status[r] = "waiting" /\ (done[r] \/ (hpc = "set" /\ callback = r)) => data[r] = r

\* A request that was not made yet is nowhere.
NewInv ==
    \A r \in Requests : status[r] = "new" =>
        /\ r \notin chan /\ callback # r /\ ~done[r]
        /\ \A t \in Tokens : indices[t] # Nothing => inputs[indices[t]] # r

QueueInd ==
    /\ TypeInv /\ RingInv /\ SlotInv /\ DescInv /\ UsedInv /\ BufferInv /\ HandInv
    /\ AnswerInv /\ NewInv /\ RequestsKeptIndirect

-----------------------------------------------------------------------------
(* Each part of the invariant depends on a few variables.                  *)

BufferOf(i, t) ==
    /\ inputs[i] \in Requests /\ callbacks[i] = inputs[i] /\ outputs[i] \in {"zeroed", inputs[i]}
    /\ t \in Range(used) => outputs[i] = inputs[i]

\* A buffer that is left as it is still belongs to its request.
LEMMA BufferKept ==
    ASSUME NEW t, NEW i, BufferOf(i, t), inputs'[i] = inputs[i], outputs'[i] = outputs[i],
           callbacks'[i] = callbacks[i], t \in Range(used') => t \in Range(used)
    PROVE  BufferOf(i, t)'
  BY DEF BufferOf

Somewhere(r) == status[r] = "new" \/ r \in chan \/ InDevice(r) \/ callback = r \/ Answered(r)

\* No request is lost in a step after which each is still somewhere.
LEMMA NoneLost ==
    ASSUME QueueInd, indirect' = indirect, \A r \in Requests : Somewhere(r) => Somewhere(r)'
    PROVE  RequestsKeptIndirect'
  BY DEF QueueInd, RequestsKeptIndirect, RequestsKept, Somewhere

LEMMA Frames ==
    /\ RingInv /\ UNCHANGED <<ring, indices, indirect>> => RingInv'
    /\ SlotInv /\ UNCHANGED <<free, indices, cur, indirect>> => SlotInv'
    /\ DescInv /\ UNCHANGED <<descs, ring>> => DescInv'
    /\ UsedInv /\ UNCHANGED <<used, indices>> => UsedInv'
    /\ BufferInv /\ UNCHANGED <<indices, inputs, outputs, callbacks, used>> => BufferInv'
    /\ HandInv /\ UNCHANGED <<hpc, cur, callback, output, outputs>> => HandInv'
    /\ AnswerInv /\ UNCHANGED <<data, result, status, cancel, done, hpc, callback>> => AnswerInv'
    /\ NewInv /\ UNCHANGED <<status, chan, callback, done, indices, inputs>> => NewInv'
    /\ RequestsKeptIndirect /\ UNCHANGED <<indirect, status, chan, ring, inputs, callback, done>>
         => RequestsKeptIndirect'
<1>1. RingInv /\ UNCHANGED <<ring, indices, indirect>> => RingInv'
  BY SMTT(30) DEF RingInv
<1>2. SlotInv /\ UNCHANGED <<free, indices, cur, indirect>> => SlotInv'
  BY SMTT(30) DEF SlotInv
<1>3. DescInv /\ UNCHANGED <<descs, ring>> => DescInv'
  BY DEF DescInv
<1>4. UsedInv /\ UNCHANGED <<used, indices>> => UsedInv'
  BY DEF UsedInv
<1>5. BufferInv /\ UNCHANGED <<indices, inputs, outputs, callbacks, used>> => BufferInv'
  BY DEF BufferInv
<1>6. HandInv /\ UNCHANGED <<hpc, cur, callback, output, outputs>> => HandInv'
  BY DEF HandInv
<1>7. RequestsKeptIndirect /\ UNCHANGED <<indirect, status, chan, ring, inputs, callback, done>>
         => RequestsKeptIndirect'
  BY DEF RequestsKeptIndirect, RequestsKept, InDevice, Answered
<1>8. AnswerInv /\ UNCHANGED <<data, result, status, cancel, done, hpc, callback>> => AnswerInv'
  BY DEF AnswerInv
<1>9. NewInv /\ UNCHANGED <<status, chan, callback, done, indices, inputs>> => NewInv'
  BY DEF NewInv
<1> QED BY <1>1, <1>2, <1>3, <1>4, <1>5, <1>6, <1>7, <1>8, <1>9

\* The absent marker is none of the values it stands beside.
LEMMA NoneApart == DeviceQueueAssumption => Nothing \notin Slots /\ Nothing \notin Requests /\ 0 \notin Slots
BY SMTT(30) DEF DeviceQueueAssumption, Slots, Requests

\* An entry that has a chain is an entry.
LEMMA EntryThere ==
    ASSUME NEW i, NEW c, c # <<>>
    PROVE  [slot |-> i, chain |-> c] # NoEntry
  BY SMTT(30) DEF NoEntry

\* A token with an entry on the ring is one with a slot.
LEMMA EntryIndex ==
    ASSUME RingInv, NEW t \in Tokens
    PROVE  ring[t] # NoEntry <=> indices[t] # Nothing
<1>1. ASSUME indices[t] # Nothing PROVE ring[t] # NoEntry
  BY <1>1, SMTT(30) DEF RingInv, NoEntry
<1> QED BY <1>1 DEF RingInv

-----------------------------------------------------------------------------
(* The callers, the device and the interrupt.                              *)

LEMMA RequestKeeps ==
    ASSUME DeviceQueueAssumption, QueueInd, NEW r \in Requests, Request(r), UNCHANGED indirect
    PROVE  QueueInd'
<1>1. /\ status[r] = "new" /\ chan' = chan \cup {r} /\ msg' = TRUE
      /\ UNCHANGED <<indirect, irq, free, inputs, outputs, callbacks, indices, descs, ring, used,
                     interrupt, hpc, cur, callback, output, cancel, data, done, result>>
  BY DEF Request, buffers, virtqueue, handler, block
<1>2. PICK s \in {"waiting", "sent"} :
        status' = [status EXCEPT ![r] = s] /\ (s = "waiting" => r \in Blocking)
  BY DEF Request
<1>3. TypeInv'
  BY <1>1, <1>2, SMTT(30) DEF QueueInd, TypeInv
<1>4. status'[r] = s /\ \A q \in Requests \ {r} : status'[q] = status[q]
  BY <1>2 DEF QueueInd, TypeInv
<1>5. AnswerInv' /\ NewInv'
  BY <1>1, <1>2, <1>4 DEF QueueInd, AnswerInv, NewInv
<1>6. RequestsKeptIndirect'
  BY <1>1, <1>4, SMTT(30) DEF QueueInd, RequestsKeptIndirect, RequestsKept, InDevice, Answered
<1> QED BY <1>1, <1>3, <1>5, <1>6, Frames DEF QueueInd

LEMMA ReadKeeps ==
    ASSUME DeviceQueueAssumption, QueueInd, NEW r \in Requests, Read(r), UNCHANGED indirect
    PROVE  QueueInd'
<1>1. /\ status[r] = "waiting" /\ done[r]
      /\ result' = [result EXCEPT ![r] = data[r]] /\ data' = [data EXCEPT ![r] = Nothing]
      /\ UNCHANGED <<indirect, chan, msg, irq, free, inputs, outputs, callbacks, indices, descs, ring,
                     used, interrupt, hpc, cur, callback, output, cancel, done>>
  BY DEF Read, channel, buffers, virtqueue, handler
<1>2. data[r] = r /\ r \in Blocking /\ r # Nothing
  BY <1>1, NoneApart DEF QueueInd, AnswerInv
<1>3. status' = [status EXCEPT ![r] = "ok"]
  BY <1>2 DEF Read
<1>4. TypeInv'
  BY <1>1, <1>3, SMTT(30) DEF QueueInd, TypeInv
<1>5. /\ status'[r] = "ok" /\ data'[r] = Nothing /\ result'[r] = r
      /\ \A q \in Requests \ {r} : status'[q] = status[q] /\ data'[q] = data[q] /\ result'[q] = result[q]
  BY <1>1, <1>2, <1>3 DEF QueueInd, TypeInv
<1>6. AnswerInv' /\ NewInv'
  <2>1. AnswerInv /\ NewInv
    BY DEF QueueInd
  <2>2. AnswerInv'
    BY <2>1, <1>1, <1>5, SMTT(30) DEF AnswerInv
  <2>3. NewInv'
    BY <2>1, <1>1, <1>5, SMTT(30) DEF NewInv
  <2> QED BY <2>2, <2>3
<1>7. RequestsKeptIndirect'
  <2>1. ASSUME NEW q \in Requests, Somewhere(q) PROVE Somewhere(q)'
    <3>1. CASE q = r
      BY <3>1, <1>1, <1>2, <1>5, SMTT(30) DEF Somewhere, Answered
    <3>2. CASE q # r
      BY <2>1, <3>2, <1>1, <1>5, SMTT(30) DEF Somewhere, InDevice, Answered
    <3> QED BY <3>1, <3>2
  <2> QED BY <1>1, <2>1, NoneLost
<1> QED BY <1>1, <1>4, <1>6, <1>7, Frames DEF QueueInd

LEMMA TimeoutKeeps ==
    ASSUME DeviceQueueAssumption, QueueInd, NEW r \in Requests, Timeout(r) \/ Cancel(r), UNCHANGED indirect
    PROVE  QueueInd'
<1>1. UNCHANGED <<indirect, chan, msg, irq, free, inputs, outputs, callbacks, indices, descs, ring,
                  used, interrupt, hpc, cur, callback, output, data, done, result>>
  BY DEF Timeout, Cancel, channel, buffers, virtqueue, handler, block
<1>2. PICK s \in {"timed_out", "timeout"}, c \in BOOLEAN :
        /\ status[r] \in {"waiting", "timed_out"} /\ status' = [status EXCEPT ![r] = s]
        /\ cancel' = [cancel EXCEPT ![r] = c] /\ (c => s = "timeout")
  <2>1. CASE Timeout(r)
    <3>1. status[r] = "waiting" /\ status' = [status EXCEPT ![r] = "timed_out"] /\ cancel' = cancel
      BY <2>1 DEF Timeout, block
    <3>2. cancel' = [cancel EXCEPT ![r] = FALSE]
      <4>1. cancel[r] = FALSE
        BY <3>1 DEF QueueInd, AnswerInv, TypeInv
      <4> QED BY <3>1, <4>1 DEF QueueInd, TypeInv
    <3> QED BY <3>1, <3>2
  <2>2. CASE Cancel(r)
    BY <2>2 DEF Cancel
  <2> QED BY <2>1, <2>2
<1>3. TypeInv'
  BY <1>1, <1>2, SMTT(30) DEF QueueInd, TypeInv
<1>4. /\ status'[r] = s /\ cancel'[r] = c
      /\ \A q \in Requests \ {r} : status'[q] = status[q] /\ cancel'[q] = cancel[q]
  BY <1>2 DEF QueueInd, TypeInv
<1>5. r \in Blocking
  BY <1>2 DEF QueueInd, AnswerInv
<1>6. AnswerInv' /\ NewInv'
  BY <1>1, <1>2, <1>4, <1>5 DEF QueueInd, AnswerInv, NewInv
<1>7. RequestsKeptIndirect'
  BY <1>1, <1>2, <1>4, <1>5, SMTT(30) DEF QueueInd, RequestsKeptIndirect, RequestsKept, InDevice, Answered
<1> QED BY <1>1, <1>3, <1>6, <1>7, Frames DEF QueueInd

LEMMA DeviceUseKeeps ==
    ASSUME DeviceQueueAssumption, QueueInd, NEW t \in Tokens, DeviceUse(t), UNCHANGED indirect
    PROVE  QueueInd'
<1>i. PICK i : i = ring[t].slot
  OBVIOUS
<1>1. /\ ring[t] # NoEntry /\ outputs' = [outputs EXCEPT ![i] = inputs[i]]
      /\ used' = Append(used, t) /\ interrupt' = TRUE
      /\ UNCHANGED <<indirect, chan, msg, irq, free, inputs, callbacks, indices, descs, ring,
                     hpc, cur, callback, output, cancel, data, done, status, result>>
  BY <1>i DEF DeviceUse, channel, handler, block, caller
<1>2. indices[t] = i /\ i \in Slots /\ i # Nothing /\ inputs[i] \in Requests /\ i # cur
  <2>1. indices[t] # Nothing
    BY <1>1, EntryIndex DEF QueueInd
  <2>2. indices[t] = i
    BY <2>1, <1>i DEF QueueInd, RingInv
  <2> QED BY <2>1, <2>2, SMTT(30) DEF QueueInd, TypeInv, BufferInv, SlotInv
<1>3. t \notin Range(used)
  BY SMTT(30) DEF QueueInd, TypeInv, DeviceUse, Range
<1>4. used' \in Seq(Tokens) /\ Range(used') = Range(used) \cup {t} /\ Distinct(used')
  BY <1>1, <1>3, AppendRange, SMTT(30) DEF QueueInd, TypeInv, UsedInv
<1>5. TypeInv'
  BY <1>1, <1>2, <1>4 DEF QueueInd, TypeInv
<1>6. outputs'[i] = inputs[i] /\ \A j \in Slots \ {i} : outputs'[j] = outputs[j]
  BY <1>1, <1>2 DEF QueueInd, TypeInv
<1>7. UsedInv'
  BY <1>1, <1>2, <1>4 DEF QueueInd, UsedInv
<1>8. BufferInv'
  <2>1. ASSUME NEW u \in Tokens, indices[u] # Nothing, u # t
        PROVE  indices[u] \in Slots \ {i}
    BY <1>2, <2>1, SMTT(30) DEF QueueInd, SlotInv, TypeInv
  <2> QED BY <1>1, <1>2, <1>4, <1>6, <2>1 DEF QueueInd, BufferInv
<1>9. HandInv'
  <2>1. cur # Nothing => outputs'[cur] = outputs[cur]
    BY <1>2, <1>6 DEF QueueInd, TypeInv
  <2> QED BY <1>1, <2>1 DEF QueueInd, HandInv
<1> QED BY <1>1, <1>5, <1>7, <1>8, <1>9, Frames DEF QueueInd

\* Dpc, SelectIrq, SelectMsg and ResponseNone move the events and the handler only.
LEMMA SelectKeeps ==
    ASSUME DeviceQueueAssumption, QueueInd, Dpc \/ SelectIrq \/ SelectMsg \/ ResponseNone, UNCHANGED indirect
    PROVE  QueueInd'
<1>1. /\ UNCHANGED <<indirect, chan, free, inputs, outputs, callbacks, indices, descs, ring, used,
                     cur, callback, output, cancel, data, done, status, result>>
      /\ irq' \in BOOLEAN /\ msg' \in BOOLEAN /\ interrupt' \in BOOLEAN
      /\ hpc' = hpc \/ (hpc \in {"select", "response"} /\ hpc' \in {"request", "response"})
  BY DEF QueueInd, TypeInv, Dpc, SelectIrq, SelectMsg, ResponseNone, channel, buffers, virtqueue,
         handler, block, caller
<1>2. TypeInv'
  BY <1>1 DEF QueueInd, TypeInv
<1>3. HandInv' /\ AnswerInv'
  BY <1>1 DEF QueueInd, HandInv, AnswerInv
<1> QED BY <1>1, <1>2, <1>3, Frames DEF QueueInd

-----------------------------------------------------------------------------
(* request() and push_to_device.                                           *)

LEMMA RequestNoneKeeps ==
    ASSUME DeviceQueueAssumption, QueueInd, RequestNone, UNCHANGED indirect
    PROVE  QueueInd'
<1>1. /\ hpc = "request" /\ hpc' = "select"
      /\ UNCHANGED <<indirect, chan, msg, irq, inputs, outputs, callbacks, indices, descs, ring, used,
                     interrupt, cur, callback, output, cancel, data, done, status, result>>
  BY DEF RequestNone, channel, virtqueue, block, caller
<1>2. free' \in Seq(Slots) /\ Distinct(free') /\ Range(free') = Range(free)
  <2>1. CASE free = <<>>
    BY <2>1 DEF RequestNone, QueueInd, TypeInv, SlotInv
  <2>2. CASE free # <<>>
    <3>1. free \in Seq(Slots) /\ Distinct(free) /\ free' = Append(Tail(free), Head(free))
      BY <2>2 DEF RequestNone, QueueInd, TypeInv, SlotInv
    <3>2. /\ Head(free) \in Slots /\ Head(free) \in Range(free) /\ Tail(free) \in Seq(Slots)
          /\ Range(Tail(free)) = Range(free) \ {Head(free)} /\ Distinct(Tail(free))
      BY <2>2, <3>1, TailRange
    <3>3. PICK f, h : f = Tail(free) /\ h = Head(free)
      OBVIOUS
    <3>4. /\ f \in Seq(Slots) /\ h \in Slots /\ Distinct(f) /\ Range(f) = Range(free) \ {h}
          /\ h \in Range(free) /\ free' = Append(f, h)
      BY <3>1, <3>2, <3>3
    <3>5. /\ Append(f, h) \in Seq(Slots) /\ Distinct(Append(f, h))
          /\ Range(Append(f, h)) = Range(f) \cup {h}
      BY <3>4, AppendRange, SMTT(30)
    <3> QED BY <3>4, <3>5
  <2> QED BY <2>1, <2>2
<1>3. TypeInv'
  BY <1>1, <1>2 DEF QueueInd, TypeInv
<1>4. SlotInv'
  BY <1>1, <1>2, SMTT(30) DEF QueueInd, SlotInv
<1>5. HandInv' /\ AnswerInv'
  BY <1>1 DEF QueueInd, HandInv, AnswerInv
<1> QED BY <1>1, <1>3, <1>4, <1>5, Frames DEF QueueInd

\* What request() does to the slots, whether add succeeds or not.
LEMMA TakeSlot ==
    ASSUME DeviceQueueAssumption, QueueInd, NEW r \in Requests,
           PushToDevice(r) \/ PushToDeviceFull(r), NEW i, i = Head(free)
    PROVE  /\ i \in Slots /\ i \in Range(free) /\ i # cur /\ \A t \in Tokens : indices[t] # i
           /\ free' \in Seq(Slots) /\ Distinct(free') /\ Range(free') = Range(free) \ {i}
           /\ inputs'[i] = r /\ outputs'[i] = "zeroed" /\ callbacks'[i] = r
           /\ \A j \in Slots \ {i} : /\ inputs'[j] = inputs[j] /\ outputs'[j] = outputs[j]
                                    /\ callbacks'[j] = callbacks[j]
           /\ inputs' \in [Slots -> Requests \cup {Nothing}]
           /\ outputs' \in [Slots -> Requests \cup {Nothing, "zeroed"}]
           /\ callbacks' \in [Slots -> Requests \cup {Nothing}]
<1>1. /\ free # <<>> /\ free \in Seq(Slots) /\ Distinct(free) /\ free' = Tail(free)
      /\ inputs' = [inputs EXCEPT ![i] = r] /\ outputs' = [outputs EXCEPT ![i] = "zeroed"]
      /\ callbacks' = [callbacks EXCEPT ![i] = r]
  BY DEF PushToDevice, PushToDeviceFull, QueueInd, TypeInv, SlotInv
<1>2. /\ i \in Slots /\ i \in Range(free)
      /\ free' \in Seq(Slots) /\ Distinct(free') /\ Range(free') = Range(free) \ {i}
  BY <1>1, TailRange
<1>3. i # cur /\ \A t \in Tokens : indices[t] # i
  BY <1>2, NoneApart, SMTT(30) DEF QueueInd, SlotInv
<1>4. /\ inputs'[i] = r /\ outputs'[i] = "zeroed" /\ callbacks'[i] = r
      /\ \A j \in Slots \ {i} : /\ inputs'[j] = inputs[j] /\ outputs'[j] = outputs[j]
                               /\ callbacks'[j] = callbacks[j]
      /\ inputs' \in [Slots -> Requests \cup {Nothing}]
      /\ outputs' \in [Slots -> Requests \cup {Nothing, "zeroed"}]
      /\ callbacks' \in [Slots -> Requests \cup {Nothing}]
  BY <1>1, <1>2 DEF QueueInd, TypeInv
<1> QED BY <1>2, <1>3, <1>4

LEMMA PushKeeps ==
    ASSUME DeviceQueueAssumption, QueueInd, NEW r \in Requests, PushToDevice(r), UNCHANGED indirect
    PROVE  QueueInd'
<1>i. PICK i : i = Head(free)
  OBVIOUS
<1>t. PICK t : t = Head(descs)
  OBVIOUS
<1>c. PICK c : c = SubSeq(descs, 1, Needed)
  OBVIOUS
<1>1. /\ hpc = "request" /\ r \in chan /\ chan' = chan \ {r} /\ CanAdd
      /\ indices' = [indices EXCEPT ![t] = i] /\ ring' = [ring EXCEPT ![t] = [slot |-> i, chain |-> c]]
      /\ UNCHANGED <<indirect, msg, irq, used, interrupt, hpc, cur, callback,
                     output, cancel, data, done, status, result>>
  BY <1>i, <1>t, <1>c DEF PushToDevice, handler, block, caller
<1>2. /\ i \in Slots /\ i \in Range(free) /\ i # cur /\ \A u \in Tokens : indices[u] # i
      /\ free' \in Seq(Slots) /\ Distinct(free') /\ Range(free') = Range(free) \ {i}
  BY <1>i, TakeSlot
<1>3. /\ inputs'[i] = r /\ outputs'[i] = "zeroed" /\ callbacks'[i] = r
      /\ \A j \in Slots \ {i} : /\ inputs'[j] = inputs[j] /\ outputs'[j] = outputs[j]
                                /\ callbacks'[j] = callbacks[j]
      /\ inputs' \in [Slots -> Requests \cup {Nothing}]
      /\ outputs' \in [Slots -> Requests \cup {Nothing, "zeroed"}]
      /\ callbacks' \in [Slots -> Requests \cup {Nothing}]
  BY <1>i, TakeSlot
<1>4. /\ c \in Seq(Tokens) /\ Distinct(c) /\ c # <<>> /\ Len(c) = Needed /\ Head(c) = t
      /\ descs' \in Seq(Tokens) /\ Distinct(descs')
      /\ Range(c) \cap Range(descs') = {} /\ Range(c) \cup Range(descs') = Range(descs)
  <2>1. descs \in Seq(Tokens) /\ Distinct(descs) /\ Needed \in 1 .. Len(descs)
    BY <1>1, SMTT(30) DEF QueueInd, TypeInv, DescInv, CanAdd, Needed
  <2>2. descs' = SubSeq(descs, Needed + 1, Len(descs))
    BY DEF PushToDevice
  <2>3. PICK n : n = Needed
    OBVIOUS
  <2>4. n \in 1 .. Len(descs) /\ c = FirstPart(descs, n) /\ descs' = LastPart(descs, n)
    BY <2>1, <2>2, <2>3, <1>c DEF FirstPart, LastPart
  <2>5. /\ c \in Seq(Tokens) /\ descs' \in Seq(Tokens) /\ Distinct(c) /\ Distinct(descs')
        /\ c # <<>> /\ Len(c) = n /\ Head(c) = Head(descs)
        /\ Range(c) \cap Range(descs') = {} /\ Range(c) \cup Range(descs') = Range(descs)
    BY <2>1, <2>4, SplitRange, SMTT(30)
  <2> QED BY <2>3, <2>5, <1>t
<1>5. t \in Tokens /\ t \in Range(c)
  <2>1. Len(c) \in Nat \ {0} /\ DOMAIN c = 1 .. Len(c) /\ Head(c) = c[1] /\ c[1] \in Tokens
    BY <1>4, SMTT(30)
  <2> QED BY <1>4, <2>1, SMTT(30) DEF Range
<1>6. indices[t] = Nothing /\ ring[t].chain = <<>>
  <2>1. t \in Range(descs)
    BY <1>4, <1>5
  <2>2. ASSUME indices[t] # Nothing PROVE t \in Range(ring[t].chain)
    <3>1. ring[t].chain \in Seq(Tokens) /\ ring[t].chain # <<>> /\ Head(ring[t].chain) = t
      BY <1>5, <2>2 DEF QueueInd, RingInv, TypeInv
    <3> QED BY <3>1, TailSubset
  <2>3. indices[t] = Nothing
    BY <1>5, <2>1, <2>2 DEF QueueInd, DescInv
  <2> QED BY <1>5, <2>3, SMTT(30) DEF QueueInd, RingInv, NoEntry
<1>7. /\ indices'[t] = i /\ ring'[t] = [slot |-> i, chain |-> c] /\ ring'[t].slot = i /\ ring'[t].chain = c
      /\ \A u \in Tokens \ {t} : indices'[u] = indices[u] /\ ring'[u] = ring[u]
  BY <1>1, <1>5 DEF QueueInd, TypeInv
<1>8. TypeInv'
  <2>1. ring' \in [Tokens -> [slot : {0} \cup Slots, chain : Seq(Tokens)]]
    BY <1>1, <1>2, <1>4 DEF QueueInd, TypeInv
  <2>2. indices' \in [Tokens -> Slots \cup {Nothing}]
    BY <1>1, <1>2 DEF QueueInd, TypeInv
  <2> QED BY <1>1, <1>2, <1>3, <1>4, <2>1, <2>2 DEF QueueInd, TypeInv
<1>9. RingInv'
  <2>1. indirect => Len(c) = 1
    BY <1>4 DEF Needed
  <2>2. /\ indices'[t] # Nothing /\ ring'[t].slot = indices'[t] /\ ring'[t].chain # <<>>
        /\ Head(ring'[t].chain) = t /\ Distinct(ring'[t].chain)
        /\ indirect' => Len(ring'[t].chain) = 1
    <3>1. i # Nothing /\ indirect' = indirect
      BY <1>1, <1>2, NoneApart
    <3>2. c # <<>> /\ Head(c) = t /\ Distinct(c)
      BY <1>4
    <3>3. ring'[t].slot = indices'[t] /\ ring'[t].chain = c /\ indices'[t] # Nothing
      BY <3>1, <1>7
    <3> QED BY <3>1, <3>2, <3>3, <2>1, SMTT(30)
  <2>3. SUFFICES ASSUME NEW u \in Tokens
                 PROVE  IF indices'[u] = Nothing
                        THEN ring'[u] = NoEntry
                        ELSE /\ ring'[u].slot = indices'[u] /\ ring'[u].chain # <<>>
                             /\ Head(ring'[u].chain) = u /\ Distinct(ring'[u].chain)
                             /\ indirect' => Len(ring'[u].chain) = 1
    BY DEF RingInv
  <2>4. CASE u # t
    <3>1. indices'[u] = indices[u] /\ ring'[u] = ring[u] /\ indirect' = indirect
      BY <2>4, <1>1, <1>7
    <3> QED BY <3>1, SMTT(30) DEF QueueInd, RingInv
  <2> QED BY <2>2, <2>4
<1>10. SlotInv'
  <2>1. \A u \in Tokens : indices'[u] # Nothing => indices'[u] \notin Range(free') /\ indices'[u] # cur
    BY <1>2, <1>7 DEF QueueInd, SlotInv
  <2>2. \A u, v \in Tokens : indices'[u] # Nothing /\ indices'[u] = indices'[v] => u = v
    BY <1>2, <1>7, SMTT(30) DEF QueueInd, SlotInv
  <2>3. indirect => \A j \in Slots : j \in Range(free') \/ j = cur \/ \E u \in Tokens : indices'[u] = j
    <3>1. SUFFICES ASSUME indirect, NEW j \in Slots
                   PROVE  j \in Range(free') \/ j = cur \/ \E u \in Tokens : indices'[u] = j
      OBVIOUS
    <3>2. CASE \E u \in Tokens : indices[u] = j
      BY <3>2, <1>5, <1>6, <1>7, NoneApart
    <3> QED BY <3>1, <3>2, <1>2, <1>5, <1>7 DEF QueueInd, SlotInv
  <2> QED BY <1>1, <1>2, <2>1, <2>2, <2>3, SMTT(30) DEF QueueInd, SlotInv
<1>11. DescInv'
  <2>1. \A u \in Tokens : Range(ring'[u].chain) \cap Range(descs') = {}
    BY <1>4, <1>7 DEF QueueInd, DescInv
  <2>2. \A u, v \in Tokens : u # v => Range(ring'[u].chain) \cap Range(ring'[v].chain) = {}
    <3>1. \A u \in Tokens \ {t} : Range(ring[u].chain) \cap Range(c) = {}
      BY <1>4 DEF QueueInd, DescInv
    <3> QED BY <3>1, <1>7, SMTT(30) DEF QueueInd, DescInv
  <2>3. ASSUME NEW d \in Tokens
        PROVE  d \in Range(descs') \/ \E u \in Tokens : d \in Range(ring'[u].chain)
    <3>1. CASE d \in Range(descs)
      BY <3>1, <1>4, <1>5, <1>7
    <3>2. CASE \E u \in Tokens : d \in Range(ring[u].chain)
      <4>1. Range(<<>>) = {}
        BY SMTT(30) DEF Range
      <4> QED BY <3>2, <4>1, <1>6, <1>7
    <3> QED BY <3>1, <3>2 DEF QueueInd, DescInv
  <2> QED BY <1>4, <2>1, <2>2, <2>3 DEF DescInv
<1>12. UsedInv'
  <2>1. Range(used) \subseteq Tokens
    BY SMTT(30) DEF QueueInd, TypeInv, Range
  <2> QED BY <1>1, <1>2, <1>7, <2>1, NoneApart DEF QueueInd, UsedInv
<1>13. \A u \in Tokens \ {t} : indices[u] # Nothing => indices[u] \in Slots \ {i}
  BY <1>2 DEF QueueInd, TypeInv
<1>14. t \notin Range(used)
  BY <1>6 DEF QueueInd, UsedInv
<1>15. BufferInv'
  <2>1. SUFFICES ASSUME NEW u \in Tokens, indices'[u] # Nothing PROVE BufferOf(indices[u], u)'
    BY DEF BufferInv, BufferOf
  <2>2. CASE u = t
    <3>1. /\ indices'[u] = i /\ inputs'[i] = r /\ outputs'[i] = "zeroed" /\ callbacks'[i] = r
          /\ u \notin Range(used')
      BY <2>2, <1>1, <1>3, <1>7, <1>14
    <3> QED BY <3>1 DEF BufferOf
  <2>3. CASE u # t
    <3>1. PICK j : j = indices[u]
      OBVIOUS
    <3>2. j # Nothing /\ indices'[u] = j /\ j \in Slots \ {i}
      BY <3>1, <2>1, <2>3, <1>7, <1>13
    <3>3. BufferOf(j, u)
      BY <3>1, <3>2 DEF QueueInd, BufferInv, BufferOf
    <3>4. used' = used /\ inputs'[j] = inputs[j] /\ outputs'[j] = outputs[j] /\ callbacks'[j] = callbacks[j]
      BY <3>2, <1>1, <1>3
    <3>5. BufferOf(j, u)'
      BY <3>3, <3>4, BufferKept
    <3> QED BY <3>2, <3>5 DEF BufferOf
  <2> QED BY <2>2, <2>3
<1>16. NewInv'
  BY <1>1, <1>3, <1>7, <1>13, SMTT(30) DEF QueueInd, NewInv
<1>17. HandInv' /\ AnswerInv'
  BY <1>1 DEF QueueInd, HandInv, AnswerInv
<1>18. RequestsKeptIndirect'
  <2>1. ASSUME NEW q \in Requests, InDevice(q) PROVE InDevice(q)'
    <3>1. PICK u \in Tokens : ring[u] # NoEntry /\ inputs[ring[u].slot] = q
      BY <2>1 DEF InDevice
    <3>2. u # t /\ ring[u].slot \in Slots \ {i}
      BY <3>1, <1>2, <1>5, <1>6, EntryIndex, SMTT(30) DEF QueueInd, RingInv, TypeInv
    <3>3. ring'[u] # NoEntry /\ inputs'[ring'[u].slot] = q
      BY <3>1, <3>2, <1>3, <1>7
    <3> QED BY <3>3 DEF InDevice
  <2>2. InDevice(r)'
    <3>1. ring'[t] # NoEntry
      BY <1>4, <1>7, EntryThere
    <3>2. ring'[t] # NoEntry /\ inputs'[ring'[t].slot] = r
      BY <3>1, <1>3, <1>7
    <3> QED BY <3>2, <1>5 DEF InDevice
  <2>3. ASSUME NEW q \in Requests, Somewhere(q) PROVE Somewhere(q)'
    <3>1. q \in chan => q \in chan' \/ q = r
      BY <1>1
    <3>2. status'[q] = status[q] /\ callback' = callback /\ (Answered(q) => Answered(q)')
      BY <1>1 DEF Answered
    <3> QED BY <2>1, <2>2, <2>3, <3>1, <3>2 DEF Somewhere
  <2> QED BY <1>1, <2>3, NoneLost
<1> QED BY <1>8, <1>9, <1>10, <1>11, <1>12, <1>15, <1>16, <1>17, <1>18 DEF QueueInd

-----------------------------------------------------------------------------
(* response(), pop_from_device and the callbacks.                          *)

LEMMA PopKeeps ==
    ASSUME DeviceQueueAssumption, QueueInd, PopFromDevice, UNCHANGED indirect
    PROVE  QueueInd'
<1>t. PICK t : t = Head(used)
  OBVIOUS
<1>i. PICK i : i = indices[t]
  OBVIOUS
<1>c. PICK c : c = ring[t].chain
  OBVIOUS
<1>1. /\ hpc = "response" /\ used # <<>> /\ i # Nothing /\ descs' = c \o descs
      /\ ring' = [ring EXCEPT ![t] = NoEntry] /\ used' = Tail(used)
      /\ indices' = [indices EXCEPT ![t] = Nothing] /\ cur' = i /\ callback' = callbacks[i]
      /\ callbacks' = [callbacks EXCEPT ![i] = Nothing] /\ hpc' = "callback"
      /\ UNCHANGED <<indirect, chan, msg, irq, free, inputs, outputs, interrupt, output,
                     cancel, data, done, status, result>>
  BY <1>t, <1>i, <1>c DEF PopFromDevice, UsedSlot, channel, block, caller
<1>2. /\ t \in Tokens /\ t \in Range(used) /\ used' \in Seq(Tokens)
      /\ Range(used') = Range(used) \ {t} /\ Distinct(used')
  <2>1. used \in Seq(Tokens) /\ Distinct(used)
    BY DEF QueueInd, TypeInv, UsedInv
  <2> QED BY <2>1, <1>1, <1>t, TailRange
<1>3. i \in Slots /\ c \in Seq(Tokens) /\ descs \in Seq(Tokens) /\ cur = Nothing /\ callback = Nothing
  BY <1>1, <1>2, <1>i, <1>c DEF QueueInd, TypeInv, HandInv
<1>4. Distinct(c) /\ Distinct(descs) /\ Range(c) \cap Range(descs) = {} /\ ring[t].slot = i
  BY <1>1, <1>2, <1>i, <1>c DEF QueueInd, RingInv, DescInv
<1>5. descs' \in Seq(Tokens) /\ Range(descs') = Range(c) \cup Range(descs) /\ Distinct(descs')
  BY <1>1, <1>3, <1>4, ConcatRange, SMTT(30)
<1>6. /\ inputs[i] \in Requests /\ callbacks[i] = inputs[i] /\ outputs[i] = inputs[i]
  BY <1>1, <1>2, <1>i DEF QueueInd, BufferInv
<1>7. /\ indices'[t] = Nothing /\ ring'[t] = NoEntry
      /\ \A u \in Tokens \ {t} : indices'[u] = indices[u] /\ ring'[u] = ring[u]
      /\ callbacks'[i] = Nothing /\ \A j \in Slots \ {i} : callbacks'[j] = callbacks[j]
  BY <1>1, <1>2, <1>3 DEF QueueInd, TypeInv
<1>8. TypeInv'
  <2>1. ring' \in [Tokens -> [slot : {0} \cup Slots, chain : Seq(Tokens)]]
    <3>1. NoEntry \in [slot : {0} \cup Slots, chain : Seq(Tokens)]
      BY SMTT(30) DEF NoEntry
    <3> HIDE DEF NoEntry
    <3> QED BY <1>1, <1>2, <3>1 DEF QueueInd, TypeInv
  <2>2. indices' \in [Tokens -> Slots \cup {Nothing}] /\ callbacks' \in [Slots -> Requests \cup {Nothing}]
    BY <1>1, <1>2, <1>3 DEF QueueInd, TypeInv
  <2> QED BY <1>1, <1>2, <1>3, <1>5, <1>6, <2>1, <2>2 DEF QueueInd, TypeInv
<1>9. RingInv'
  <2>1. SUFFICES ASSUME NEW u \in Tokens
                 PROVE  IF indices'[u] = Nothing
                        THEN ring'[u] = NoEntry
                        ELSE /\ ring'[u].slot = indices'[u] /\ ring'[u].chain # <<>>
                             /\ Head(ring'[u].chain) = u /\ Distinct(ring'[u].chain)
                             /\ indirect' => Len(ring'[u].chain) = 1
    BY DEF RingInv
  <2>2. CASE u # t
    <3>1. indices'[u] = indices[u] /\ ring'[u] = ring[u] /\ indirect' = indirect
      BY <2>2, <1>1, <1>7
    <3> QED BY <3>1, SMTT(30) DEF QueueInd, RingInv
  <2> QED BY <1>7, <2>2
<1>10. \A u \in Tokens \ {t} : indices[u] # Nothing => indices[u] \in Slots \ {i}
  BY <1>1, <1>2, <1>i, SMTT(30) DEF QueueInd, SlotInv, TypeInv
<1>11. SlotInv'
  <2>1. i \notin Range(free)
    BY <1>1, <1>2, <1>i DEF QueueInd, SlotInv
  <2>2. \A u \in Tokens : indices'[u] # Nothing => indices'[u] \notin Range(free) /\ indices'[u] # i
    BY <1>7, <1>10 DEF QueueInd, SlotInv
  <2>3. \A u, v \in Tokens : indices'[u] # Nothing /\ indices'[u] = indices'[v] => u = v
    BY <1>7, SMTT(30) DEF QueueInd, SlotInv
  <2>4. indirect => \A j \in Slots : j \in Range(free) \/ j = i \/ \E u \in Tokens : indices'[u] = j
    <3>1. SUFFICES ASSUME indirect, NEW j \in Slots, j # i, j \notin Range(free)
                   PROVE  \E u \in Tokens : indices'[u] = j
      OBVIOUS
    <3>2. j # Nothing
      BY NoneApart
    <3>3. PICK u \in Tokens : indices[u] = j
      BY <3>1, <3>2, <1>3 DEF QueueInd, SlotInv
    <3> QED BY <3>1, <3>3, <1>7, <1>i
  <2> QED BY <1>1, <2>1, <2>2, <2>3, <2>4, SMTT(30) DEF QueueInd, SlotInv
<1>12. DescInv'
  <2>1. ring'[t].chain = <<>> /\ Range(<<>>) = {}
    BY <1>7, SMTT(30) DEF NoEntry, Range
  <2>2. \A u \in Tokens \ {t} : Range(ring[u].chain) \cap Range(c) = {}
    BY <1>2, <1>c DEF QueueInd, DescInv
  <2>3. \A u \in Tokens : Range(ring'[u].chain) \cap Range(descs') = {}
    BY <1>5, <1>7, <2>1, <2>2 DEF QueueInd, DescInv
  <2>4. \A u, v \in Tokens : u # v => Range(ring'[u].chain) \cap Range(ring'[v].chain) = {}
    BY <1>7, <2>1, SMTT(30) DEF QueueInd, DescInv
  <2>5. ASSUME NEW d \in Tokens, d \notin Range(descs')
        PROVE  \E u \in Tokens : d \in Range(ring'[u].chain)
    <3>1. PICK u \in Tokens : d \in Range(ring[u].chain)
      BY <1>5, <2>5 DEF QueueInd, DescInv
    <3> QED BY <3>1, <2>5, <1>5, <1>7, <1>c
  <2> QED BY <1>5, <2>3, <2>4, <2>5 DEF DescInv
<1>13. UsedInv'
  <2>1. Range(used') \subseteq Tokens \ {t}
    <3>1. Range(used) \subseteq Tokens
      BY SMTT(30) DEF QueueInd, TypeInv, Range
    <3> QED BY <3>1, <1>2
  <2> QED BY <1>2, <1>7, <2>1 DEF QueueInd, UsedInv
<1>14. BufferInv'
  <2>1. SUFFICES ASSUME NEW u \in Tokens, indices'[u] # Nothing PROVE BufferOf(indices[u], u)'
    BY DEF BufferInv, BufferOf
  <2>2. PICK j : j = indices[u]
    OBVIOUS
  <2>3. u # t /\ j # Nothing /\ indices'[u] = j /\ j \in Slots \ {i}
    BY <2>1, <2>2, <1>7, <1>10
  <2>4. BufferOf(j, u)
    BY <2>2, <2>3 DEF QueueInd, BufferInv, BufferOf
  <2>5. /\ u \in Range(used') => u \in Range(used)
        /\ inputs'[j] = inputs[j] /\ outputs'[j] = outputs[j] /\ callbacks'[j] = callbacks[j]
    BY <2>3, <1>1, <1>2, <1>7
  <2>6. BufferOf(j, u)'
    BY <2>4, <2>5, BufferKept
  <2> QED BY <2>3, <2>6 DEF BufferOf
<1>15. NewInv'
  <2>1. \A q \in Requests : status[q] = "new" => q # inputs[i]
    BY <1>1, <1>2, <1>i DEF QueueInd, NewInv
  <2> QED BY <1>1, <1>6, <1>7, <2>1, SMTT(30) DEF QueueInd, NewInv
<1>16. HandInv'
  BY <1>1, <1>6 DEF QueueInd, HandInv
<1>17. AnswerInv'
  BY <1>1 DEF QueueInd, AnswerInv
<1>18. RequestsKeptIndirect'
  <2>1. ASSUME NEW q \in Requests, InDevice(q), q # inputs[i] PROVE InDevice(q)'
    <3>1. PICK u \in Tokens : ring[u] # NoEntry /\ inputs[ring[u].slot] = q
      BY <2>1 DEF InDevice
    <3>2. u # t
      BY <3>1, <2>1, <1>4
    <3>3. ring'[u] # NoEntry /\ inputs'[ring'[u].slot] = q
      BY <3>1, <3>2, <1>1, <1>7
    <3> QED BY <3>3 DEF InDevice
  <2>2. callback' = inputs[i] /\ callback \notin Requests
    BY <1>1, <1>3, <1>6, NoneApart
  <2> QED BY <1>1, <2>1, <2>2, SMTT(30) DEF QueueInd, RequestsKeptIndirect, RequestsKept, Answered
<1> QED BY <1>8, <1>9, <1>11, <1>12, <1>13, <1>14, <1>15, <1>16, <1>17, <1>18 DEF QueueInd

\* mark_free puts the handler's slot back without touching a chain's.
LEMMA MarkFreeKeeps ==
    ASSUME DeviceQueueAssumption, QueueInd, NEW n \in {"response", "set"}, MarkFree(n), cur # Nothing,
           UNCHANGED <<indirect, indices, used, ring>>
    PROVE  /\ SlotInv' /\ BufferInv' /\ cur' = Nothing /\ hpc' = n
           /\ free' \in Seq(Slots)
           /\ inputs' \in [Slots -> Requests \cup {Nothing}]
           /\ outputs' \in [Slots -> Requests \cup {Nothing, "zeroed"}]
           /\ callbacks' \in [Slots -> Requests \cup {Nothing}]
           /\ \A t \in Tokens : indices[t] # Nothing => inputs'[indices[t]] = inputs[indices[t]]
           /\ \A r \in Requests : InDevice(r) => InDevice(r)'
<1>1. /\ inputs' = [inputs EXCEPT ![cur] = Nothing] /\ outputs' = [outputs EXCEPT ![cur] = Nothing]
      /\ callbacks' = [callbacks EXCEPT ![cur] = Nothing]
      /\ free' = Append(free, cur) /\ cur' = Nothing /\ hpc' = n
  BY DEF MarkFree
<1>2. cur \in Slots /\ free \in Seq(Slots) /\ Distinct(free) /\ cur \notin Range(free)
  BY DEF QueueInd, TypeInv, SlotInv
<1>3. free' \in Seq(Slots) /\ Distinct(free') /\ Range(free') = Range(free) \cup {cur}
  BY <1>1, <1>2, AppendRange, SMTT(30)
<1>4. \A t \in Tokens : indices[t] # Nothing => indices[t] \in Slots \ {cur}
  BY DEF QueueInd, TypeInv, SlotInv
<1>5. SlotInv'
  <2>1. Nothing \notin Range(free')
    <3>1. Range(free) \subseteq Slots
      BY <1>2, SMTT(30) DEF Range
    <3> QED BY <3>1, <1>2, <1>3, NoneApart
  <2>2. \A t \in Tokens : indices[t] # Nothing => indices[t] \notin Range(free') /\ indices[t] # Nothing
    BY <1>3, <1>4 DEF QueueInd, SlotInv
  <2>3. indirect => \A i \in Slots : i \in Range(free') \/ \E t \in Tokens : indices[t] = i
    BY <1>3 DEF QueueInd, SlotInv
  <2> QED BY <1>1, <1>3, <2>1, <2>2, <2>3 DEF QueueInd, SlotInv
<1>6. \A j \in Slots \ {cur} : /\ inputs'[j] = inputs[j] /\ outputs'[j] = outputs[j]
                              /\ callbacks'[j] = callbacks[j]
  BY <1>1 DEF QueueInd, TypeInv
<1>7. BufferInv'
  BY <1>4, <1>6 DEF QueueInd, BufferInv
<1>8. /\ inputs' \in [Slots -> Requests \cup {Nothing}]
      /\ outputs' \in [Slots -> Requests \cup {Nothing, "zeroed"}]
      /\ callbacks' \in [Slots -> Requests \cup {Nothing}]
  BY <1>1, <1>2 DEF QueueInd, TypeInv
<1>9. ASSUME NEW r \in Requests, InDevice(r) PROVE InDevice(r)'
  <2>1. PICK t \in Tokens : ring[t] # NoEntry /\ inputs[ring[t].slot] = r
    BY <1>9 DEF InDevice
  <2>2. ring[t].slot = indices[t] /\ indices[t] # Nothing
    BY <2>1, EntryIndex DEF QueueInd, RingInv
  <2>3. inputs'[ring[t].slot] = r
    BY <2>1, <2>2, <1>4, <1>6
  <2> QED BY <2>1, <2>3 DEF InDevice
<1> QED BY <1>1, <1>3, <1>4, <1>5, <1>6, <1>7, <1>8, <1>9

LEMMA CompleteAsyncKeeps ==
    ASSUME DeviceQueueAssumption, QueueInd, CompleteAsync, UNCHANGED indirect
    PROVE  QueueInd'
<1>c. PICK c : c = callback
  OBVIOUS
<1>1. /\ hpc = "callback" /\ c \in Async /\ status' = [status EXCEPT ![c] = "ok"] /\ callback' = Nothing
      /\ MarkFree("response") /\ cur # Nothing
      /\ UNCHANGED <<indirect, chan, msg, irq, indices, descs, ring, used, interrupt, output,
                     cancel, data, done, result>>
  BY <1>c DEF CompleteAsync, channel, virtqueue, block, QueueInd, HandInv
<1>2. /\ SlotInv' /\ BufferInv' /\ cur' = Nothing /\ hpc' = "response" /\ free' \in Seq(Slots)
      /\ inputs' \in [Slots -> Requests \cup {Nothing}]
      /\ outputs' \in [Slots -> Requests \cup {Nothing, "zeroed"}]
      /\ callbacks' \in [Slots -> Requests \cup {Nothing}]
      /\ \A t \in Tokens : indices[t] # Nothing => inputs'[indices[t]] = inputs[indices[t]]
      /\ \A r \in Requests : InDevice(r) => InDevice(r)'
  BY <1>1, MarkFreeKeeps
<1>3. c \in Requests /\ c \notin Blocking
  BY <1>1 DEF Requests, DeviceQueueAssumption
<1>4. status'[c] = "ok" /\ \A q \in Requests \ {c} : status'[q] = status[q]
  BY <1>1, <1>3 DEF QueueInd, TypeInv
<1>5. TypeInv'
  BY <1>1, <1>2, <1>3 DEF QueueInd, TypeInv
<1>6. HandInv'
  BY <1>1, <1>2 DEF HandInv
<1>7. AnswerInv'
  <2>1. AnswerInv
    BY DEF QueueInd
  <2> QED BY <2>1, <1>1, <1>2, <1>3, <1>4, SMTT(30) DEF AnswerInv
<1>8. NewInv'
  <2>1. NewInv /\ Nothing \notin Requests
    BY NoneApart DEF QueueInd
  <2> QED BY <2>1, <1>1, <1>2, <1>4, SMTT(30) DEF NewInv
<1>9. RequestsKeptIndirect'
  <2>1. ASSUME NEW q \in Requests, Somewhere(q) PROVE Somewhere(q)'
    <3>1. CASE q = c
      BY <3>1, <1>3, <1>4 DEF Somewhere, Answered
    <3>2. CASE q # c
      BY <2>1, <3>2, <1>c, <1>1, <1>2, <1>4, SMTT(30) DEF Somewhere, Answered
    <3> QED BY <3>1, <3>2
  <2> QED BY <1>1, <2>1, NoneLost
<1> QED BY <1>1, <1>2, <1>5, <1>6, <1>7, <1>8, <1>9, Frames DEF QueueInd

LEMMA CompleteBlockingKeeps ==
    ASSUME DeviceQueueAssumption, QueueInd, CompleteBlocking, UNCHANGED indirect
    PROVE  QueueInd'
<1>1. /\ hpc = "callback" /\ callback \in Blocking /\ cur # Nothing /\ callback \in Requests
      /\ UNCHANGED <<indirect, chan, msg, irq, indices, descs, ring, used, interrupt, callback,
                     cancel, data, done, status, result>>
  BY DEF CompleteBlocking, channel, virtqueue, block, caller, QueueInd, HandInv
<1>2. CASE cancel[callback]
  <2>1. MarkFree("set") /\ output' = output
    BY <1>2 DEF CompleteBlocking
  <2>2. /\ SlotInv' /\ BufferInv' /\ cur' = Nothing /\ hpc' = "set" /\ free' \in Seq(Slots)
        /\ inputs' \in [Slots -> Requests \cup {Nothing}]
        /\ outputs' \in [Slots -> Requests \cup {Nothing, "zeroed"}]
        /\ callbacks' \in [Slots -> Requests \cup {Nothing}]
        /\ \A t \in Tokens : indices[t] # Nothing => inputs'[indices[t]] = inputs[indices[t]]
        /\ \A r \in Requests : InDevice(r) => InDevice(r)'
    BY <1>1, <2>1, MarkFreeKeeps
  <2>3. TypeInv'
    BY <1>1, <2>1, <2>2 DEF QueueInd, TypeInv
  <2>4. HandInv'
    BY <1>1, <2>2 DEF HandInv
  <2>5. AnswerInv'
    BY <1>1, <1>2, <2>2 DEF QueueInd, AnswerInv
  <2>6. NewInv'
    BY <1>1, <2>2 DEF QueueInd, NewInv
  <2>7. RequestsKeptIndirect'
    BY <1>1, <2>2, SMTT(30) DEF QueueInd, RequestsKeptIndirect, RequestsKept, Answered
  <2> QED BY <1>1, <2>2, <2>3, <2>4, <2>5, <2>6, <2>7, Frames DEF QueueInd
<1>3. CASE ~cancel[callback]
  <2>1. /\ hpc' = "write" /\ output' = outputs[cur] /\ outputs' = [outputs EXCEPT ![cur] = Nothing]
        /\ UNCHANGED <<free, inputs, callbacks, cur>>
    BY <1>3 DEF CompleteBlocking
  <2>2. TypeInv'
    <3>1. output' \in Requests \cup {Nothing, "zeroed"}
      BY <1>1, <2>1 DEF QueueInd, TypeInv
    <3> QED BY <1>1, <2>1, <3>1 DEF QueueInd, TypeInv
  <2>3. BufferInv'
    <3>1. \A t \in Tokens : indices[t] # Nothing => indices[t] \in Slots \ {cur}
      BY DEF QueueInd, TypeInv, SlotInv
    <3>2. \A j \in Slots \ {cur} : outputs'[j] = outputs[j]
      BY <2>1 DEF QueueInd, TypeInv
    <3> QED BY <1>1, <2>1, <3>1, <3>2 DEF QueueInd, BufferInv
  <2>4. HandInv'
    BY <1>1, <2>1 DEF QueueInd, HandInv
  <2>5. AnswerInv'
    BY <1>1, <2>1 DEF QueueInd, AnswerInv
  <2> QED BY <1>1, <2>1, <2>2, <2>3, <2>4, <2>5, Frames DEF QueueInd
<1> QED BY <1>2, <1>3

LEMMA WriteKeeps ==
    ASSUME DeviceQueueAssumption, QueueInd, Write, UNCHANGED indirect
    PROVE  QueueInd'
<1>1. /\ hpc = "write" /\ data' = [data EXCEPT ![callback] = callback] /\ output' = Nothing
      /\ MarkFree("set") /\ cur # Nothing /\ callback \in Blocking /\ callback \in Requests
      /\ UNCHANGED <<indirect, chan, msg, irq, indices, descs, ring, used, interrupt, callback,
                     cancel, done, status, result>>
  BY DEF Write, channel, virtqueue, caller, QueueInd, HandInv, Requests
<1>2. /\ SlotInv' /\ BufferInv' /\ cur' = Nothing /\ hpc' = "set" /\ free' \in Seq(Slots)
      /\ inputs' \in [Slots -> Requests \cup {Nothing}]
      /\ outputs' \in [Slots -> Requests \cup {Nothing, "zeroed"}]
      /\ callbacks' \in [Slots -> Requests \cup {Nothing}]
      /\ \A t \in Tokens : indices[t] # Nothing => inputs'[indices[t]] = inputs[indices[t]]
      /\ \A r \in Requests : InDevice(r) => InDevice(r)'
  BY <1>1, MarkFreeKeeps
<1>3. data'[callback] = callback /\ \A q \in Requests \ {callback} : data'[q] = data[q]
  BY <1>1 DEF QueueInd, TypeInv
<1>4. TypeInv'
  BY <1>1, <1>2 DEF QueueInd, TypeInv
<1>5. HandInv'
  BY <1>1, <1>2 DEF HandInv
<1>6. AnswerInv'
  BY <1>1, <1>2, <1>3 DEF QueueInd, AnswerInv
<1>7. NewInv'
  BY <1>1, <1>2 DEF QueueInd, NewInv
<1>8. RequestsKeptIndirect'
  BY <1>1, <1>2, SMTT(30) DEF QueueInd, RequestsKeptIndirect, RequestsKept, Answered
<1> QED BY <1>1, <1>2, <1>4, <1>5, <1>6, <1>7, <1>8, Frames DEF QueueInd

LEMMA SetEventKeeps ==
    ASSUME DeviceQueueAssumption, QueueInd, SetEvent, UNCHANGED indirect
    PROVE  QueueInd'
<1>c. PICK c : c = callback
  OBVIOUS
<1>1. /\ hpc = "set" /\ done' = [done EXCEPT ![c] = TRUE] /\ callback' = Nothing /\ hpc' = "response"
      /\ c \in Blocking /\ c \in Requests
      /\ UNCHANGED <<indirect, chan, msg, irq, free, inputs, outputs, callbacks, indices, descs, ring, used,
                     interrupt, cur, output, cancel, data, status, result>>
  BY <1>c DEF SetEvent, channel, buffers, virtqueue, caller, QueueInd, HandInv, Requests
<1>2. done'[c] = TRUE /\ \A q \in Requests \ {c} : done'[q] = done[q]
  BY <1>1 DEF QueueInd, TypeInv
<1>3. TypeInv'
  BY <1>1 DEF QueueInd, TypeInv
<1>4. HandInv'
  BY <1>1 DEF QueueInd, HandInv
<1>5. AnswerInv'
  BY <1>1, <1>2, <1>c DEF QueueInd, AnswerInv
<1>6. NewInv'
  BY <1>1, <1>2, <1>c, NoneApart DEF QueueInd, NewInv
<1>7. RequestsKeptIndirect'
  BY <1>1, <1>2, <1>c, SMTT(30) DEF QueueInd, RequestsKeptIndirect, RequestsKept, InDevice, Answered
<1> QED BY <1>1, <1>3, <1>4, <1>5, <1>6, <1>7, Frames DEF QueueInd

-----------------------------------------------------------------------------
(* Counting slots and descriptors.                                         *)

INSTANCE FiniteSetTheorems

\* Over indirect descriptors add never fails when there is a free slot: were all
\* descriptors heads of chains, their slots would be all the slots there are.
LEMMA RoomIndirect ==
    ASSUME DeviceQueueAssumption, QueueInd, indirect, free # <<>>
    PROVE  CanAdd
<1>1. SUFFICES ASSUME ~CanAdd PROVE FALSE
  OBVIOUS
<1>2. descs \in Seq(Tokens) /\ ~(Len(descs) >= 1)
  BY <1>1 DEF CanAdd, Needed, QueueInd, TypeInv
<1>3. Range(descs) = {}
  BY <1>2, SMTT(30) DEF Range
<1>4. ASSUME NEW d \in Tokens PROVE indices[d] # Nothing
  <2>1. PICK t \in Tokens : d \in Range(ring[t].chain)
    BY <1>3 DEF QueueInd, DescInv
  <2>2. ring[t].chain \in Seq(Tokens)
    BY DEF QueueInd, TypeInv
  <2>3. indices[t] # Nothing
    <3>1. SUFFICES ASSUME indices[t] = Nothing PROVE FALSE
      OBVIOUS
    <3>2. ring[t] = NoEntry
      BY <3>1 DEF QueueInd, RingInv
    <3>3. NoEntry.chain = <<>>
      BY SMTT(30) DEF NoEntry
    <3>4. Range(<<>>) = {}
      BY SMTT(30) DEF Range
    <3> QED BY <2>1, <3>2, <3>3, <3>4
  <2>4. Len(ring[t].chain) = 1 /\ Head(ring[t].chain) = t
    BY <2>3 DEF QueueInd, RingInv
  <2>5. d = t
    BY <2>1, <2>2, <2>4, SMTT(30) DEF Range
  <2> QED BY <2>3, <2>5
<1>i. PICK i : i = Head(free)
  OBVIOUS
<1>5. i \in Slots /\ i \in Range(free)
  BY <1>i, TailRange DEF QueueInd, TypeInv, SlotInv
<1>6. indices \in [Tokens -> Slots \ {i}]
  BY <1>4, <1>5, SMTT(30) DEF QueueInd, TypeInv, SlotInv
<1>7. /\ IsFiniteSet(Slots) /\ IsFiniteSet(Tokens) /\ Tokens = Slots
      /\ IsFiniteSet(Slots \ {i}) /\ Cardinality(Slots \ {i}) < Cardinality(Tokens)
  <2>1. IsFiniteSet(Slots) /\ Tokens = Slots
    BY FS_Interval, SMTT(30) DEF Slots, Tokens, DeviceQueueAssumption
  <2>2. IsFiniteSet(Slots \ {i}) /\ Cardinality(Slots \ {i}) = Cardinality(Slots) - 1
    BY <1>5, <2>1, FS_RemoveElement
  <2>3. Cardinality(Slots) \in Nat
    BY <2>1, FS_CardinalityType
  <2> QED BY <2>1, <2>2, <2>3, SMTT(30)
<1>8. \E t, u \in Tokens : t # u /\ indices[t] = indices[u]
  BY <1>6, <1>7, FS_PigeonHole, SMTT(30)
<1> QED BY <1>4, <1>8 DEF QueueInd, SlotInv

LEMMA PushFullKeeps ==
    ASSUME DeviceQueueAssumption, QueueInd, NEW r \in Requests, PushToDeviceFull(r), UNCHANGED indirect
    PROVE  QueueInd'
<1>i. PICK i : i = Head(free)
  OBVIOUS
<1>1. /\ hpc = "request" /\ r \in chan /\ chan' = chan \ {r} /\ ~indirect
      /\ UNCHANGED <<indirect, msg, irq, indices, descs, ring, used, interrupt, hpc, cur, callback,
                     output, cancel, data, done, status, result>>
  BY RoomIndirect DEF PushToDeviceFull, virtqueue, handler, block, caller
<1>2. /\ i \in Slots /\ i \in Range(free) /\ i # cur /\ \A t \in Tokens : indices[t] # i
      /\ free' \in Seq(Slots) /\ Distinct(free') /\ Range(free') = Range(free) \ {i}
  BY <1>i, TakeSlot
<1>3. /\ \A j \in Slots \ {i} : /\ inputs'[j] = inputs[j] /\ outputs'[j] = outputs[j]
                                /\ callbacks'[j] = callbacks[j]
      /\ inputs' \in [Slots -> Requests \cup {Nothing}]
      /\ outputs' \in [Slots -> Requests \cup {Nothing, "zeroed"}]
      /\ callbacks' \in [Slots -> Requests \cup {Nothing}]
  BY <1>i, TakeSlot
<1>4. TypeInv'
  BY <1>1, <1>2, <1>3 DEF QueueInd, TypeInv
<1>5. SlotInv'
  BY <1>1, <1>2, SMTT(30) DEF QueueInd, SlotInv
<1>6. \A t \in Tokens : indices[t] # Nothing => indices[t] \in Slots \ {i}
  BY <1>2 DEF QueueInd, TypeInv
<1>7. BufferInv'
  <2>1. SUFFICES ASSUME NEW u \in Tokens, indices'[u] # Nothing PROVE BufferOf(indices[u], u)'
    BY DEF BufferInv, BufferOf
  <2>2. PICK j : j = indices[u]
    OBVIOUS
  <2>3. j # Nothing /\ indices'[u] = j /\ j \in Slots \ {i}
    BY <2>1, <2>2, <1>1, <1>6
  <2>4. BufferOf(j, u)
    BY <2>2, <2>3 DEF QueueInd, BufferInv, BufferOf
  <2>5. used' = used /\ inputs'[j] = inputs[j] /\ outputs'[j] = outputs[j] /\ callbacks'[j] = callbacks[j]
    BY <2>3, <1>1, <1>3
  <2>6. BufferOf(j, u)'
    BY <2>4, <2>5, BufferKept
  <2> QED BY <2>3, <2>6 DEF BufferOf
<1>8. NewInv'
  <2>1. SUFFICES ASSUME NEW q \in Requests, status'[q] = "new"
                 PROVE  /\ q \notin chan' /\ callback' # q /\ ~done'[q]
                        /\ \A u \in Tokens : indices'[u] # Nothing => inputs'[indices'[u]] # q
    BY DEF NewInv
  <2>2. /\ q \notin chan /\ callback # q /\ ~done[q]
        /\ \A u \in Tokens : indices[u] # Nothing => inputs[indices[u]] # q
    BY <2>1, <1>1 DEF QueueInd, NewInv
  <2> QED BY <2>2, <1>1, <1>3, <1>6
<1>9. HandInv'
  <2>1. HandInv
    BY DEF QueueInd
  <2>2. hpc' = hpc /\ cur' = cur /\ callback' = callback /\ output' = output /\ hpc = "request"
    BY <1>1
  <2> QED BY <2>1, <2>2 DEF HandInv
<1>10. AnswerInv'
  BY <1>1, Frames DEF QueueInd
<1>11. RequestsKeptIndirect'
  BY <1>1 DEF RequestsKeptIndirect
<1> QED BY <1>1, <1>4, <1>5, <1>7, <1>8, <1>9, <1>10, <1>11, Frames DEF QueueInd

\* A sequence without repetition is no longer than the set it is over.
LEMMA DistinctLen ==
    ASSUME NEW N \in Nat, NEW s \in Seq(1 .. N), Distinct(s)
    PROVE  Len(s) <= N
<1>1. Len(s) \in Nat /\ s \in [1 .. Len(s) -> 1 .. N]
  BY SMTT(30)
<1>2. /\ IsFiniteSet(1 .. N) /\ Cardinality(1 .. N) = N
      /\ IsFiniteSet(1 .. Len(s)) /\ Cardinality(1 .. Len(s)) = Len(s)
  <2>1. N \in Int /\ Len(s) \in Int /\ 1 \in Int
    BY <1>1, SMTT(30)
  <2>2. ASSUME NEW n \in Nat PROVE IsFiniteSet(1 .. n) /\ Cardinality(1 .. n) = n
    <3>1. Cardinality(1 .. n) = IF 1 > n THEN 0 ELSE n - 1 + 1
      BY FS_Interval, SMTT(30)
    <3>2. (IF 1 > n THEN 0 ELSE n - 1 + 1) = n
      BY SMTT(30)
    <3>3. IsFiniteSet(1 .. n)
      BY FS_Interval, SMTT(30)
    <3> QED BY <3>1, <3>2, <3>3, SMTT(30)
  <2> QED BY <2>2, <1>1
<1>3. CASE N < Len(s)
  <2>1. PICK x, y \in 1 .. Len(s) : x # y /\ s[x] = s[y]
    BY <1>1, <1>2, <1>3, FS_PigeonHole
  <2> QED BY <2>1 DEF Distinct
<1> QED BY <1>1, <1>3, SMTT(30)

-----------------------------------------------------------------------------
(* What the invariant means.                                               *)

\* A place is one: the invariant leaves a slot a single place over indirect
\* descriptors.
LEMMA OneSlotPlace ==
    ASSUME DeviceQueueAssumption, QueueInd
    PROVE  SlotsConserved
<1>1. SUFFICES ASSUME indirect, NEW i \in Slots PROVE \E p : SlotPlaces(i) = {p}
  BY FS_Singleton DEF SlotsConserved
<1>2. i # Nothing /\ DOMAIN free = 1 .. Len(free)
  BY NoneApart, SMTT(30) DEF QueueInd, TypeInv
<1>3. CASE i \in Range(free)
  <2>1. PICK k \in DOMAIN free : free[k] = i
    BY <1>3 DEF Range
  <2>2. Positions(i, free) = {k}
    BY <1>2, <2>1 DEF Positions, QueueInd, SlotInv, Distinct
  <2>3. cur # i /\ {u \in Tokens : indices[u] = i} = {}
    BY <1>2, <1>3 DEF QueueInd, SlotInv
  <2>4. SlotPlaces(i) = {<<"free", k>>}
    BY <2>2, <2>3 DEF SlotPlaces
  <2> QED BY <2>4
<1>4. CASE i \notin Range(free)
  <2>1. Positions(i, free) = {}
    BY <1>4 DEF Positions, Range
  <2>2. CASE i = cur
    <3>1. {u \in Tokens : indices[u] = i} = {}
      BY <1>2, <2>2 DEF QueueInd, SlotInv
    <3>2. SlotPlaces(i) = {<<"handler", i>>}
      BY <2>1, <2>2, <3>1 DEF SlotPlaces
    <3> QED BY <3>2
  <2>3. CASE i # cur
    <3>1. PICK t \in Tokens : indices[t] = i
      BY <1>1, <1>4, <2>3 DEF QueueInd, SlotInv
    <3>2. {u \in Tokens : indices[u] = i} = {t}
      BY <1>2, <3>1 DEF QueueInd, SlotInv
    <3>3. SlotPlaces(i) = {<<"token", t>>}
      BY <2>1, <2>3, <3>2 DEF SlotPlaces
    <3> QED BY <3>3
  <2> QED BY <2>2, <2>3
<1> QED BY <1>3, <1>4

LEMMA OneDescriptorPlace ==
    ASSUME QueueInd
    PROVE  DescriptorsConserved
<1>1. SUFFICES ASSUME NEW d \in Tokens PROVE \E p : DescriptorPlaces(d) = {p}
  BY FS_Singleton DEF DescriptorsConserved
<1>2. DOMAIN descs = 1 .. Len(descs)
  BY SMTT(30) DEF QueueInd, TypeInv
<1>3. CASE d \in Range(descs)
  <2>1. PICK k \in DOMAIN descs : descs[k] = d
    BY <1>3 DEF Range
  <2>2. Positions(d, descs) = {k}
    BY <1>2, <2>1 DEF Positions, QueueInd, DescInv, Distinct
  <2>3. {u \in Tokens : d \in Range(ring[u].chain)} = {}
    BY <1>3 DEF QueueInd, DescInv
  <2>4. DescriptorPlaces(d) = {<<"free", k>>}
    BY <2>2, <2>3 DEF DescriptorPlaces
  <2> QED BY <2>4
<1>4. CASE d \notin Range(descs)
  <2>1. Positions(d, descs) = {}
    BY <1>4 DEF Positions, Range
  <2>2. PICK t \in Tokens : d \in Range(ring[t].chain)
    BY <1>4 DEF QueueInd, DescInv
  <2>3. {u \in Tokens : d \in Range(ring[u].chain)} = {t}
    BY <2>2 DEF QueueInd, DescInv
  <2>4. DescriptorPlaces(d) = {<<"chain", t>>}
    BY <2>1, <2>3 DEF DescriptorPlaces
  <2> QED BY <2>4
<1> QED BY <1>3, <1>4

LEMMA Meaning ==
    ASSUME DeviceQueueAssumption, QueueInd
    PROVE  SlotsOwned
<1>1. TypeOK
  <2>1. Len(free) <= SIZE
    BY DistinctLen DEF QueueInd, TypeInv, SlotInv, Slots, DeviceQueueAssumption
  <2>2. Len(descs) <= SIZE
    BY DistinctLen DEF QueueInd, TypeInv, DescInv, Tokens, DeviceQueueAssumption
  <2> QED BY <2>1, <2>2 DEF QueueInd, TypeInv, TypeOK
<1>2. DeviceOwnsBuffers
  <2>1. SUFFICES ASSUME NEW t \in Tokens, ring[t] # NoEntry
                 PROVE  LET i == ring[t].slot IN
                        /\ indices[t] = i /\ i \notin Range(free) /\ cur # i
                        /\ inputs[i] \in Requests /\ callbacks[i] = inputs[i]
                        /\ outputs[i] \in {"zeroed", inputs[i]}
    BY DEF DeviceOwnsBuffers
  <2>2. indices[t] # Nothing
    BY <2>1, EntryIndex DEF QueueInd
  <2>3. ring[t].slot = indices[t]
    BY <2>2 DEF QueueInd, RingInv
  <2> QED BY <2>2, <2>3 DEF QueueInd, SlotInv, BufferInv
<1>3. OwnResponse /\ NoIoError
  BY DEF QueueInd, HandInv, AnswerInv, OwnResponse, NoIoError
<1> QED BY <1>1, <1>2, <1>3, OneSlotPlace, OneDescriptorPlace DEF SlotsOwned, QueueInd

-----------------------------------------------------------------------------

LEMMA Starts == DeviceQueueAssumption /\ Init => QueueInd
<1> SUFFICES ASSUME DeviceQueueAssumption, Init PROVE QueueInd
  OBVIOUS
<1>1. SIZE \in Nat /\ Slots = 1 .. SIZE /\ Tokens = 1 .. SIZE
  BY DEF DeviceQueueAssumption, Slots, Tokens
<1>2. free \in Seq(Slots) /\ Len(free) = SIZE /\ \A i \in Slots : free[i] = i
  <2>1. free = [i \in 1 .. SIZE |-> i]
    BY <1>1 DEF Init
  <2> QED BY <1>1, <2>1, SMTT(30)
<1>3. descs \in Seq(Tokens) /\ Len(descs) = SIZE /\ \A i \in Tokens : descs[i] = i
  <2>1. descs = [i \in 1 .. SIZE |-> i]
    BY <1>1 DEF Init
  <2> QED BY <1>1, <2>1, SMTT(30)
<1>4. Distinct(free) /\ Range(free) = Slots /\ Distinct(descs) /\ Range(descs) = Tokens
  BY <1>1, <1>2, <1>3, SMTT(30) DEF Distinct, Range
<1>5. NoEntry \in [slot : {0} \cup Slots, chain : Seq(Tokens)]
  BY SMTT(30) DEF NoEntry
<1>6. Range(<<>>) = {} /\ Distinct(<<>>) /\ NoEntry.chain = <<>>
  BY SMTT(30) DEF Range, Distinct, NoEntry
<1>7. TypeInv
  <2>1. ring \in [Tokens -> [slot : {0} \cup Slots, chain : Seq(Tokens)]]
    BY <1>5 DEF Init
  <2>2. /\ inputs \in [Slots -> Requests \cup {Nothing}]
        /\ outputs \in [Slots -> Requests \cup {Nothing, "zeroed"}]
        /\ callbacks \in [Slots -> Requests \cup {Nothing}]
        /\ indices \in [Tokens -> Slots \cup {Nothing}] /\ used \in Seq(Tokens)
    BY SMTT(30) DEF Init
  <2>3. /\ status \in [Requests -> {"new", "sent", "waiting", "timed_out", "timeout", "io_error", "ok"}]
        /\ cancel \in [Requests -> BOOLEAN] /\ done \in [Requests -> BOOLEAN]
        /\ data \in [Requests -> Requests \cup {Nothing, "zeroed"}]
        /\ result \in [Requests -> Requests \cup {Nothing, "zeroed"}]
    BY DEF Init
  <2>4. /\ indirect \in BOOLEAN /\ chan = {} /\ msg \in BOOLEAN /\ irq \in BOOLEAN
        /\ interrupt \in BOOLEAN /\ hpc = "select" /\ cur = Nothing /\ callback = Nothing /\ output = Nothing
    BY DEF Init
  <2> QED BY <1>2, <1>3, <2>1, <2>2, <2>3, <2>4 DEF TypeInv
<1>8. RingInv
  BY DEF Init, RingInv
<1>9. SlotInv
  BY <1>4, NoneApart DEF Init, SlotInv
<1>10. DescInv
  <2>1. \A t \in Tokens : Range(ring[t].chain) = {}
    BY <1>6 DEF Init
  <2> QED BY <1>4, <2>1 DEF DescInv
<1>11. UsedInv
  BY <1>6 DEF Init, UsedInv
<1>12. BufferInv /\ NewInv
  BY NoneApart DEF Init, BufferInv, NewInv
<1>13. HandInv /\ AnswerInv /\ RequestsKeptIndirect
  BY DEF Init, HandInv, AnswerInv, RequestsKeptIndirect, RequestsKept
<1> QED BY <1>7, <1>8, <1>9, <1>10, <1>11, <1>12, <1>13 DEF QueueInd

LEMMA StepKeeps ==
    ASSUME DeviceQueueAssumption, QueueInd, [Next]_vars
    PROVE  QueueInd'
<1>1. CASE UNCHANGED vars
  <2>1. /\ UNCHANGED <<indirect, chan, msg, irq, free, inputs, outputs, callbacks, indices>>
        /\ UNCHANGED <<descs, ring, used, interrupt, hpc, cur, callback, output>>
        /\ UNCHANGED <<cancel, data, done, status, result>>
    BY <1>1 DEF vars, channel, buffers, virtqueue, handler, block, caller
  <2>2. TypeInv'
    BY <2>1 DEF QueueInd, TypeInv
  <2> QED BY <2>1, <2>2, Frames DEF QueueInd
<1>2. CASE Next
  <2> UNCHANGED indirect
    BY <1>2 DEF Next
  <2>1. CASE \E r \in Requests : Request(r) \/ Caller(r)
    BY <2>1, RequestKeeps, ReadKeeps, TimeoutKeeps DEF Caller
  <2>2. CASE \E t \in Tokens : DeviceUse(t)
    BY <2>2, DeviceUseKeeps
  <2>3. CASE Dpc
    BY <2>3, SelectKeeps
  <2>4. CASE Handler
    BY <2>4, SelectKeeps, RequestNoneKeeps, PushKeeps, PushFullKeeps, PopKeeps, CompleteAsyncKeeps,
       CompleteBlockingKeeps, WriteKeeps, SetEventKeeps DEF Handler
  <2> QED BY <1>2, <2>1, <2>2, <2>3, <2>4 DEF Next
<1> QED BY <1>1, <1>2

\* The invariant holds in every reachable state of the queue.
THEOREM QueueInductive ==
    ASSUME DeviceQueueAssumption
    PROVE  Spec => []QueueInd
<1>1. Init => QueueInd
  BY Starts
<1>2. QueueInd /\ [Next]_vars => QueueInd'
  BY StepKeeps
<1> QED BY <1>1, <1>2, PTL DEF Spec

\* For any number of slots and requests, Queue::request and Queue::response conserve
\* slots and descriptors, leave the device the buffers of its chains, hand every caller
\* the response to its own request and, over indirect descriptors, lose no request.
THEOREM SlotsStayOwned ==
    ASSUME DeviceQueueAssumption
    PROVE  Spec => []SlotsOwned
<1>1. QueueInd => SlotsOwned
  BY Meaning
<1> QED BY <1>1, QueueInductive, PTL

-----------------------------------------------------------------------------
(* ResourceIds: one owner.                                                 *)

\* Disjoint places make the places of an identifier at most one.
LEMMA AtMostOnePlace ==
    ASSUME IdsInd, ApartInv, NEW i \in U32 \ {NoId}
    PROVE  Cardinality(Places(i)) <= 1
<1>1. \A p, q \in Places(i) : p = q
  <2>a. DOMAIN freed = 1 .. Len(freed)
    BY SMTT(30) DEF IdsInd, IdsTypeOK
  <2>1. /\ \A k \in DOMAIN freed : freed[k] = i => i \in Range(freed)
        /\ \A j, k \in DOMAIN freed : freed[j] = i /\ freed[k] = i => j = k
    BY <2>a DEF Range, ApartInv, Distinct
  <2>2. \A t \in Threads : /\ pc[t] \in {"got", "wait"} /\ id[t] = i => i \in Taken(t)
                           /\ held[t] = i => i \in Kept(t)
    BY DEF Taken, Kept
  <2>3. ASSUME NEW t \in Threads, i \in Taken(t)
        PROVE  i \notin Loose /\ \A u \in Threads : i \notin Kept(u) /\ (u # t => i \notin Taken(u))
    BY <2>3 DEF ApartInv
  <2>4. ASSUME NEW t \in Threads, i \in Kept(t)
        PROVE  i \notin Loose /\ \A u \in Threads : i \notin Taken(u) /\ (u # t => i \notin Kept(u))
    BY <2>4 DEF ApartInv
  <2>5. /\ i \in Range(freed) => i \notin orphans \cup unrefs \cup unrefed
        /\ i \in orphans => i \notin unrefs \cup unrefed
        /\ i \in unrefs => i \notin unrefed
    BY DEF ApartInv
  <2>6. i \in Range(freed) \cup orphans \cup unrefs \cup unrefed => i \in Loose
    BY DEF Loose
  <2> DEFINE F == {<<"free", k>> : k \in {j \in DOMAIN freed : freed[j] = i}}
             C == {<<"creating", t>> : t \in {u \in Threads : pc[u] \in {"got", "wait"} /\ id[u] = i}}
             H == {<<"held", t>> : t \in {u \in Threads : held[u] = i}}
             L == {<<"lost", j>> : j \in orphans \cap {i}}
             U == {<<"unref", j>> : j \in unrefs \cap {i}}
             D == {<<"unrefed", j>> : j \in unrefed \cap {i}}
  <2>7. Places(i) = F \cup C \cup H \cup L \cup U \cup D
    BY DEF Places
  <2>8. \A p, q \in F : p = q
    BY <2>1
  <2>9. \A p, q \in C : p = q
    BY <2>2, <2>3
  <2>10. \A p, q \in H : p = q
    BY <2>2, <2>4
  <2>11. (\A p, q \in L : p = q) /\ (\A p, q \in U : p = q) /\ (\A p, q \in D : p = q)
    OBVIOUS
  <2>12. /\ F # {} => i \in Range(freed)
         /\ C # {} => \E t \in Threads : i \in Taken(t)
         /\ H # {} => \E t \in Threads : i \in Kept(t)
         /\ (L # {} => i \in orphans) /\ (U # {} => i \in unrefs) /\ (D # {} => i \in unrefed)
    BY <2>1, <2>2
  <2> HIDE DEF F, C, H, L, U, D
  <2>13. /\ C # {} => F = {} /\ H = {} /\ L = {} /\ U = {} /\ D = {}
         /\ H # {} => F = {} /\ C = {} /\ L = {} /\ U = {} /\ D = {}
    BY <2>3, <2>4, <2>6, <2>12
  <2>14. /\ F # {} => L = {} /\ U = {} /\ D = {}
         /\ L # {} => U = {} /\ D = {}
         /\ U # {} => D = {}
    BY <2>5, <2>12
  <2> QED BY <2>7, <2>8, <2>9, <2>10, <2>11, <2>13, <2>14
<1>2. CASE Places(i) = {}
  BY <1>2, FS_EmptySet, SMTT(30)
<1>3. ASSUME NEW p \in Places(i) PROVE Cardinality(Places(i)) <= 1
  <2>1. Places(i) = {p}
    BY <1>1
  <2>2. Cardinality({p}) = 1
    BY FS_Singleton
  <2>3. Cardinality(Places(i)) = 1
    BY <2>1, <2>2
  <2> QED BY <2>3, SMTT(30)
<1> QED BY <1>2, <1>3

\* Until a transfer fails, an identifier has one owner and is handed out only when the
\* host neither knows it nor is about to; it is always in the range that the comment
\* of next() gives, unless two threads meet at the end of the counter
\* (SimpleIdAllocator, resource_create, resource_unref).
THEOREM IdentifiersOwned ==
    ASSUME ResourceIdsAssumption, ~RaceAtEnd PROVE IdsSpec => []IdsOwned
<1>1. IdsInd => IdsOwned
  <2> SUFFICES ASSUME IdsInd PROVE IdsOwned
    OBVIOUS
  <2>1. OneOwner
    BY AtMostOnePlace DEF IdsInd, OneOwner
  <2>2. InRange
    BY DEF IdsInd, BelowInv, Below, Taken, InRange
  <2>3. FreshOnHost
    <3> SUFFICES ASSUME errors = 0, NEW t \in Threads, pc[t] = "got"
                 PROVE  id[t] \notin alive \cup orphans \cup unrefs
      BY DEF FreshOnHost
    <3>1. ApartInv /\ id[t] \in Taken(t)
      BY DEF IdsInd, Taken
    <3>2. id[t] \notin orphans \cup unrefs /\ \A u \in Threads : id[t] \notin Kept(u)
      BY <3>1 DEF ApartInv, Loose
    <3>3. ASSUME NEW u \in Threads, pc[u] = "wait" PROVE id[u] # id[t]
      <4>1. id[u] \in Taken(u) /\ u # t
        BY <3>3 DEF Taken
      <4> QED BY <3>1, <4>1 DEF ApartInv
    <3> QED BY <3>2, <3>3 DEF IdsInd, AliveInv
  <2> QED BY <2>1, <2>2, <2>3 DEF IdsInd, IdsOwned
<1> QED BY <1>1, IdsInductive, PTL
=============================================================================
