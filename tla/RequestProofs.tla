--------------------------- MODULE RequestProofs ----------------------------
(***************************************************************************)
(* Proofs about the way of a request to the handler thread, and about what *)
(* its completion sets free.                                               *)
(*                                                                         *)
(* AsyncQueue, for any set of producers, any capacity of the array and any *)
(* number of requests: the two-level queue implements RequestChannel, and  *)
(* the wake-up event is never missed.                                      *)
(*                                                                         *)
(* CommandBatch, for any set of batches and any number of commands: the    *)
(* reference count is the number of commands under way and of references   *)
(* the submitter holds, so that its last owner is the last.                *)
(*                                                                         *)
(* BusyEvents, for any set of escapes and any finite set of batches:       *)
(* whoever waits for an allocation to become idle hears of it.             *)
(***************************************************************************)
EXTENDS AsyncQueue, CommandBatch, BusyEvents, DistinctSeqs

\* Zenon first: the leaves that need arithmetic, records or sequences name SMT.
USE ZenonT(30), SMTT(30)

\* A request that has left the producer's hands: the one being pushed has not while
\* its producer is on the way to `slow'.
Entered(r) ==
    r[2] < pushed[r[1]] \/ (r[2] = pushed[r[1]] /\ pc[r[1]] # "slow")

Queued == Range(fast) \cup Range(slow) \cup ({held} \ {NoRequest})

\* A request is in one place of the queue, once, and was pushed before.
PlacesInv ==
    /\ held = NoRequest <=> hpc # "force_push"
    /\ Distinct(fast) /\ Distinct(slow)
    /\ Range(fast) \cap Range(slow) = {}
    /\ held \notin Range(fast) \cup Range(slow)
    /\ \A r \in Queued \cup Range(popped) : Entered(r)

\* A request the handler would sleep on has a producer about to set the event; between
\* its two pops the handler may have overlooked what was spilled since.
WakeInv ==
    /\ NoLostWakeup
    /\ hpc = "fast_pop" /\ ~event /\ fast = <<>> /\ slow # <<>>
         => \E p \in Producers : pc[p] = "set"

\* A request on its way to `slow' has a number.
SpillInv == \A p \in Producers : pc[p] = "slow" => pushed[p] > 0

IndInv == TypeOK /\ PlacesInv /\ WakeInv /\ SpillInv

-----------------------------------------------------------------------------
(* The steps of the producers (AsyncQueue::push and kick).                 *)

\* The first half of push: the request goes to `fast', or is carried on to `slow'.
LEMMA PushFastKeeps ==
    ASSUME IndInv, NEW p \in Producers, PushFast(p)
    PROVE  /\ IndInv'
           /\ \/ Channel!Push(<<p, pushed[p] + 1>>) /\ <<p, pushed[p] + 1>> \in Requests
              \/ UNCHANGED Channel!vars
<1> USE AsyncQueueAssumption
<1>r. PICK r : r = <<p, pushed[p] + 1>>
  OBVIOUS
<1>1. /\ pushed[p] \in Nat /\ pushed[p] + 1 \in 1 .. MaxPush /\ r \in Requests
      /\ pushed' \in [Producers -> 0 .. MaxPush]
      /\ \A q \in Producers : pushed'[q] = IF q = p THEN pushed[p] + 1 ELSE pushed[q]
  BY <1>r, SMTT(30) DEF IndInv, TypeOK, PushFast, Requests
<1>2. r[1] = p /\ r[2] = pushed[p] + 1 /\ r # NoRequest
  BY <1>1, <1>r DEF Requests
<1>3. ~Entered(r)
  BY <1>1, <1>2, SMTT(30) DEF Entered
<1>4. UNCHANGED <<slow, event, hpc, held, popped>>
  BY DEF PushFast, consumer
<1>5. /\ pc' \in [Producers -> {"idle", "slow", "set"}]
      /\ \A q \in Producers : q # p => pc'[q] = pc[q]
      /\ pc'[p] \in {"slow", "set"} /\ pc[p] = "idle"
  BY DEF IndInv, TypeOK, PushFast
<1>6. \A x \in Requests : Entered(x) => Entered(x)'
  <2> SUFFICES ASSUME NEW x \in Requests, Entered(x) PROVE Entered(x)'
    OBVIOUS
  <2>1. x[1] \in Producers /\ x[2] \in Nat
    BY SMTT(30) DEF Requests
  <2>2. pushed[x[1]] \in Nat /\ x[2] <= pushed[x[1]]
    BY <2>1, SMTT(30) DEF Entered, IndInv, TypeOK
  <2>3. CASE x[1] = p
    BY <2>1, <2>2, <2>3, <1>1, SMTT(30) DEF Entered
  <2>4. CASE x[1] # p
    BY <2>1, <2>2, <2>4, <1>1, <1>5 DEF Entered
  <2> QED BY <2>3, <2>4
<1>7. Queued \cup Range(popped) \subseteq Requests
  BY SMTT(30) DEF Queued, IndInv, TypeOK, Range
<1>8. r \notin Queued \cup Range(popped)
  BY <1>3 DEF IndInv, PlacesInv
<1>s. SpillInv'
  <2> SUFFICES ASSUME NEW q \in Producers, pc'[q] = "slow" PROVE pushed'[q] > 0
    BY DEF SpillInv
  <2>1. CASE q = p
    BY <2>1, <1>1, SMTT(30)
  <2>2. CASE q # p
    BY <2>2, <1>1, <1>5 DEF IndInv, SpillInv
  <2> QED BY <2>1, <2>2
<1>9. CASE Len(fast) < FastCap
  <2>1. fast' = Append(fast, r) /\ pc'[p] = "set"
    BY <1>9, <1>5, <1>r, SMTT(30) DEF PushFast, IndInv, TypeOK
  <2>2. fast \in Seq(Requests) /\ Distinct(fast) /\ r \notin Range(fast)
    BY <1>8 DEF IndInv, TypeOK, PlacesInv, Queued
  <2>3. /\ fast' \in Seq(Requests) /\ Len(fast') = Len(fast) + 1 /\ fast' # <<>>
        /\ Range(fast') = Range(fast) \cup {r} /\ Distinct(fast')
    BY <2>1, <2>2, <1>1, AppendRange
  <2>4. TypeOK'
    BY <2>2, <2>3, <1>1, <1>4, <1>5, <1>9, SMTT(30) DEF IndInv, TypeOK
  <2>5. Queued' = Queued \cup {r} /\ UNCHANGED popped
    BY <2>3, <1>4, <1>2 DEF Queued
  <2>6. Entered(r)'
    BY <2>1, <1>1, <1>2 DEF Entered
  <2>7. PlacesInv'
    <3>1. \A x \in (Queued \cup Range(popped))' : Entered(x)'
      BY <2>5, <2>6, <1>6, <1>7 DEF IndInv, PlacesInv
    <3>2. held' \notin Range(fast') \cup Range(slow')
      BY <2>3, <1>2, <1>4, <1>8 DEF IndInv, PlacesInv, Queued
    <3>3. Range(fast') \cap Range(slow') = {}
      BY <2>3, <1>4, <1>8 DEF IndInv, PlacesInv, Queued
    <3> QED BY <3>1, <3>2, <3>3, <2>3, <1>4 DEF IndInv, PlacesInv
  <2>8. WakeInv'
    BY <2>1 DEF WakeInv, NoLostWakeup
  <2>9. Channel!Push(r)
    <3>1. \A i \in 1 .. Len(popped) : popped[i] # r
      BY <1>8, SMTT(30) DEF Range, IndInv, TypeOK
    <3> QED BY <3>1, <2>5, <1>8 DEF Channel!Push, Queued
  <2> QED BY <2>4, <2>7, <2>8, <2>9, <1>1, <1>r, <1>s DEF IndInv
<1>10. CASE Len(fast) = FastCap
  <2>1. fast' = fast
    BY <1>10, SMTT(30) DEF PushFast
  <2>2. TypeOK'
    BY <2>1, <1>1, <1>4, <1>5 DEF IndInv, TypeOK
  <2>3. Queued' = Queued /\ popped' = popped
    BY <2>1, <1>4 DEF Queued
  <2>4. PlacesInv'
    BY <2>1, <2>3, <1>4, <1>6, <1>7 DEF IndInv, PlacesInv
  <2>5. \A q \in Producers : pc[q] = "set" => pc'[q] = "set"
    BY <1>5
  <2>6. WakeInv'
    BY <2>1, <2>5, <1>4 DEF IndInv, WakeInv, NoLostWakeup
  <2> QED BY <2>2, <2>3, <2>4, <2>6, <1>s DEF IndInv, Channel!vars, Queued
<1> QED BY <1>9, <1>10 DEF PushFast, IndInv, TypeOK

\* The second half of push: the request that found `fast' full goes to `slow'.
LEMMA PushSlowKeeps ==
    ASSUME IndInv, NEW p \in Producers, PushSlow(p)
    PROVE  IndInv' /\ Channel!Push(<<p, pushed[p]>>) /\ <<p, pushed[p]>> \in Requests
<1> USE AsyncQueueAssumption
<1>r. PICK r : r = <<p, pushed[p]>>
  OBVIOUS
<1>1. /\ pc[p] = "slow" /\ slow' = Append(slow, r)
      /\ UNCHANGED <<fast, event, pushed, hpc, held, popped>>
  BY <1>r DEF PushSlow, consumer, Current
<1>2. /\ pc' \in [Producers -> {"idle", "slow", "set"}]
      /\ \A q \in Producers : pc'[q] = IF q = p THEN "set" ELSE pc[q]
  BY DEF IndInv, TypeOK, PushSlow
<1>3. r \in Requests /\ r[1] = p /\ r[2] = pushed[p] /\ pushed[p] \in Nat /\ r # NoRequest
  <2>1. pushed[p] \in 1 .. MaxPush
    BY <1>1, SMTT(30) DEF IndInv, TypeOK, SpillInv
  <2> QED BY <2>1, <1>r, SMTT(30) DEF Requests
<1>4. ~Entered(r) /\ Entered(r)'
  BY <1>1, <1>2, <1>3, SMTT(30) DEF Entered
<1>5. \A x \in Requests : Entered(x) => Entered(x)'
  BY <1>1, <1>2 DEF Entered, Requests
<1>6. Queued \cup Range(popped) \subseteq Requests
  BY SMTT(30) DEF Queued, IndInv, TypeOK, Range
<1>7. r \notin Queued \cup Range(popped)
  BY <1>4 DEF IndInv, PlacesInv
<1>8. /\ slow' \in Seq(Requests) /\ Range(slow') = Range(slow) \cup {r} /\ Distinct(slow')
  <2>1. slow \in Seq(Requests) /\ Distinct(slow) /\ r \notin Range(slow)
    BY <1>7 DEF IndInv, TypeOK, PlacesInv, Queued
  <2> QED BY <2>1, <1>1, <1>3, AppendRange
<1>9. TypeOK'
  BY <1>1, <1>2, <1>8 DEF IndInv, TypeOK
<1>10. Queued' = Queued \cup {r} /\ popped' = popped
  BY <1>1, <1>3, <1>8 DEF Queued
<1>11. PlacesInv'
  <2>1. \A x \in (Queued \cup Range(popped))' : Entered(x)'
    BY <1>10, <1>4, <1>5, <1>6 DEF IndInv, PlacesInv
  <2>2. held' \notin Range(fast') \cup Range(slow')
    BY <1>1, <1>3, <1>7, <1>8 DEF IndInv, PlacesInv, Queued
  <2>3. Range(fast') \cap Range(slow') = {}
    BY <1>1, <1>7, <1>8 DEF IndInv, PlacesInv, Queued
  <2> QED BY <2>1, <2>2, <2>3, <1>1, <1>8 DEF IndInv, PlacesInv
<1>12. WakeInv'
  BY <1>2 DEF WakeInv, NoLostWakeup
<1>13. Channel!Push(r)
  <2>1. \A i \in 1 .. Len(popped) : popped[i] # r
    BY <1>7, SMTT(30) DEF Range, IndInv, TypeOK
  <2> QED BY <2>1, <1>7, <1>10 DEF Channel!Push, Queued
<1>14. SpillInv'
  BY <1>1, <1>2 DEF IndInv, SpillInv
<1> QED BY <1>3, <1>9, <1>11, <1>12, <1>13, <1>14, <1>r DEF IndInv

\* The end of push, and kick: the event is set.
LEMMA SetEventKeeps ==
    ASSUME IndInv, Kick \/ \E p \in Producers : SetEvent(p)
    PROVE  IndInv' /\ UNCHANGED Channel!vars
<1>1. event' = TRUE /\ UNCHANGED <<fast, slow, pushed, hpc, held, popped>>
  BY DEF SetEvent, Kick, producer, consumer
<1>2. /\ pc' \in [Producers -> {"idle", "slow", "set"}]
      /\ \A q \in Producers : pc'[q] = "slow" <=> pc[q] = "slow"
  BY DEF IndInv, TypeOK, SetEvent, Kick, producer
<1>3. TypeOK'
  BY <1>1, <1>2 DEF IndInv, TypeOK
<1>4. Queued' = Queued /\ popped' = popped
  BY <1>1 DEF Queued
<1>5. \A x \in Requests : Entered(x) => Entered(x)'
  BY <1>1, <1>2 DEF Entered, Requests
<1>6. Queued \cup Range(popped) \subseteq Requests
  BY SMTT(30) DEF Queued, IndInv, TypeOK, Range
<1>7. PlacesInv'
  BY <1>1, <1>4, <1>5, <1>6 DEF IndInv, PlacesInv
<1>8. WakeInv'
  BY <1>1 DEF WakeInv, NoLostWakeup
<1>9. SpillInv'
  BY <1>1, <1>2 DEF IndInv, SpillInv
<1> QED BY <1>3, <1>4, <1>7, <1>8, <1>9 DEF IndInv, Channel!vars, Queued

-----------------------------------------------------------------------------
(* The steps of the handler thread (AsyncQueue::pop).                      *)

\* The wait ends and consumes the event.
LEMMA WakeKeeps ==
    ASSUME IndInv, Wake
    PROVE  IndInv' /\ UNCHANGED Channel!vars
<1>1. /\ event' = FALSE /\ hpc = "wait" /\ hpc' = "slow_pop"
      /\ UNCHANGED <<fast, slow, pc, pushed, held, popped>>
  BY DEF Wake, producer
<1>s. SpillInv'
  BY <1>1 DEF IndInv, SpillInv
<1>2. TypeOK'
  BY <1>1 DEF IndInv, TypeOK
<1>3. Queued' = Queued
  BY <1>1 DEF Queued
<1>4. \A x \in Queued \cup Range(popped) : Entered(x)' <=> Entered(x)
  BY <1>1 DEF Entered
<1>5. PlacesInv'
  BY <1>1, <1>3, <1>4 DEF IndInv, PlacesInv
<1>6. WakeInv'
  BY <1>1 DEF WakeInv, NoLostWakeup
<1> QED BY <1>1, <1>2, <1>3, <1>5, <1>6, <1>s DEF IndInv, Channel!vars, Queued

\* The head of `slow' is taken, and is nowhere but with the handler.
LEMMA PopSlowKeeps ==
    ASSUME IndInv, PopSlow
    PROVE  IndInv' /\ UNCHANGED Channel!vars
<1> USE AsyncQueueAssumption
<1>1. hpc = "slow_pop" /\ UNCHANGED <<fast, event, pc, pushed, popped>>
  BY DEF PopSlow, producer
<1>s. SpillInv'
  BY <1>1 DEF IndInv, SpillInv
<1>2. held = NoRequest
  BY <1>1 DEF IndInv, PlacesInv
<1>3. CASE slow # <<>>
  <2>1. held' = Head(slow) /\ slow' = Tail(slow) /\ hpc' = "force_push"
    BY <1>3 DEF PopSlow
  <2>2. slow \in Seq(Requests) /\ Distinct(slow)
    BY DEF IndInv, TypeOK, PlacesInv
  <2>3. /\ held' \in Requests /\ held' \in Range(slow) /\ slow' \in Seq(Requests)
        /\ Range(slow') = Range(slow) \ {held'} /\ Distinct(slow')
    BY <2>1, <2>2, <1>3, TailRange
  <2>4. held' # NoRequest
    BY <2>3 DEF Requests
  <2>5. TypeOK'
    BY <2>1, <2>3, <1>1 DEF IndInv, TypeOK
  <2>6. Queued' = Queued
    BY <2>3, <2>4, <1>1, <1>2 DEF Queued
  <2>7. \A x \in Queued \cup Range(popped) : Entered(x)' <=> Entered(x)
    BY <1>1 DEF Entered
  <2>8. PlacesInv'
    <3>1. held' \notin Range(fast') \cup Range(slow')
      BY <2>3, <1>1 DEF IndInv, PlacesInv
    <3>2. Range(fast') \cap Range(slow') = {}
      BY <2>3, <1>1 DEF IndInv, PlacesInv
    <3> QED BY <3>1, <3>2, <2>1, <2>3, <2>4, <2>6, <2>7, <1>1 DEF IndInv, PlacesInv
  <2>9. WakeInv'
    BY <2>1 DEF WakeInv, NoLostWakeup
  <2> QED BY <2>5, <2>6, <2>8, <2>9, <1>1, <1>s DEF IndInv, Channel!vars, Queued
<1>4. CASE slow = <<>>
  <2>1. hpc' = "fast_pop" /\ UNCHANGED <<held, slow>>
    BY <1>4 DEF PopSlow
  <2>2. TypeOK'
    BY <2>1, <1>1 DEF IndInv, TypeOK
  <2>3. Queued' = Queued
    BY <2>1, <1>1 DEF Queued
  <2>4. \A x \in Queued \cup Range(popped) : Entered(x)' <=> Entered(x)
    BY <1>1 DEF Entered
  <2>5. PlacesInv'
    BY <2>1, <2>3, <2>4, <1>1, <1>2 DEF IndInv, PlacesInv
  <2>6. WakeInv'
    BY <2>1, <1>4 DEF WakeInv, NoLostWakeup
  <2> QED BY <2>2, <2>3, <2>5, <2>6, <1>1, <1>s DEF IndInv, Channel!vars, Queued
<1> QED BY <1>3, <1>4

\* The request enters `fast', at the price of the oldest one there when it is full,
\* which is then the one received.
LEMMA ForcePushKeeps ==
    ASSUME IndInv, ForcePush
    PROVE  IndInv' /\ (UNCHANGED Channel!vars \/ Channel!Receive)
<1> USE AsyncQueueAssumption
<1>1. /\ hpc = "force_push" /\ held' = NoRequest
      /\ UNCHANGED <<slow, event, pc, pushed>>
  BY DEF ForcePush, producer
<1>s. SpillInv'
  BY <1>1 DEF IndInv, SpillInv
<1>2. held \in Requests /\ held # NoRequest /\ held \notin Range(fast) \cup Range(slow)
  BY <1>1 DEF IndInv, TypeOK, PlacesInv
<1>3. fast \in Seq(Requests) /\ Distinct(fast) /\ Len(fast) <= FastCap /\ slow \in Seq(Requests)
  BY DEF IndInv, TypeOK, PlacesInv
<1>4. \A x : Entered(x)' <=> Entered(x)
  BY <1>1 DEF Entered
<1>5. NoRequest \notin Range(fast) \cup Range(slow) \cup {held}
  BY <1>2, <1>3, SMTT(30) DEF Range, Requests
<1>6. CASE Len(fast) < FastCap
  <2>1. fast' = Append(fast, held) /\ hpc' = "fast_pop" /\ popped' = popped
    BY <1>6, <1>3, SMTT(30) DEF ForcePush
  <2>2. /\ fast' \in Seq(Requests) /\ Len(fast') = Len(fast) + 1 /\ fast' # <<>>
        /\ Range(fast') = Range(fast) \cup {held} /\ Distinct(fast')
    BY <2>1, <1>2, <1>3, AppendRange
  <2>3. TypeOK'
    BY <2>1, <2>2, <1>1, <1>3, <1>6, SMTT(30) DEF IndInv, TypeOK
  <2>4. Queued' = Queued
    BY <2>2, <1>1, <1>2 DEF Queued
  <2>5. PlacesInv'
    <3>1. held' \notin Range(fast') \cup Range(slow')
      BY <2>2, <1>1, <1>5
    <3>2. Range(fast') \cap Range(slow') = {}
      BY <2>2, <1>1, <1>2 DEF IndInv, PlacesInv
    <3> QED BY <3>1, <3>2, <2>1, <2>2, <2>4, <1>1, <1>4 DEF IndInv, PlacesInv
  <2>6. WakeInv'
    BY <2>1, <2>2 DEF WakeInv, NoLostWakeup
  <2> QED BY <2>1, <2>3, <2>4, <2>5, <2>6, <1>s DEF IndInv, Channel!vars, Queued
<1>7. CASE Len(fast) = FastCap
  <2>1. /\ fast' = Append(Tail(fast), held) /\ popped' = Append(popped, Head(fast))
        /\ hpc' = "slow_pop"
    BY <1>7, <1>3, SMTT(30) DEF ForcePush
  <2>2. fast # <<>>
    BY <1>7, <1>3
  <2>3. /\ Head(fast) \in Requests /\ Head(fast) \in Range(fast)
        /\ Tail(fast) \in Seq(Requests) /\ Len(Tail(fast)) = Len(fast) - 1
        /\ Range(Tail(fast)) = Range(fast) \ {Head(fast)} /\ Distinct(Tail(fast))
    BY <2>2, <1>3, TailRange
  <2>4. /\ fast' \in Seq(Requests) /\ Len(fast') = Len(Tail(fast)) + 1
        /\ Range(fast') = Range(Tail(fast)) \cup {held} /\ Distinct(fast')
    <3>1. held \notin Range(Tail(fast))
      BY <2>3, <1>2
    <3>2. PICK rest : rest = Tail(fast)
      OBVIOUS
    <3>3. rest \in Seq(Requests) /\ Distinct(rest) /\ held \notin Range(rest)
      BY <3>1, <3>2, <2>3
    <3>4. /\ Append(rest, held) \in Seq(Requests)
          /\ Len(Append(rest, held)) = Len(rest) + 1
          /\ Range(Append(rest, held)) = Range(rest) \cup {held}
          /\ Distinct(Append(rest, held))
      BY <3>3, <1>2, AppendRange
    <3> QED BY <3>2, <3>4, <2>1
  <2>5. popped' \in Seq(Requests) /\ Range(popped') = Range(popped) \cup {Head(fast)}
    BY <2>1, <2>3, AppendRange, SMTT(30) DEF IndInv, TypeOK
  <2>6. TypeOK'
    BY <2>1, <2>3, <2>4, <2>5, <1>1, <1>3, <1>7, SMTT(30) DEF IndInv, TypeOK
  <2>7. Queued' = Queued \ {Head(fast)} /\ Head(fast) \in Queued
    <3>1. Head(fast) \notin Range(slow) /\ Head(fast) # held
      BY <2>3, <1>2 DEF IndInv, PlacesInv
    <3> QED BY <3>1, <2>3, <2>4, <1>1, <1>2 DEF Queued
  <2>8. PlacesInv'
    <3>1. held' \notin Range(fast') \cup Range(slow')
      BY <2>3, <2>4, <1>1, <1>5
    <3>2. Range(fast') \cap Range(slow') = {}
      BY <2>3, <2>4, <1>1, <1>2 DEF IndInv, PlacesInv
    <3>3. \A x \in (Queued \cup Range(popped))' : Entered(x)'
      BY <2>5, <2>7, <1>4 DEF IndInv, PlacesInv
    <3> QED BY <3>1, <3>2, <3>3, <2>1, <2>4, <1>1 DEF IndInv, PlacesInv
  <2>9. WakeInv'
    BY <2>1 DEF WakeInv, NoLostWakeup
  <2>10. Channel!Receive
    <3>1. Channel!Pop(Head(fast))
      BY <2>1, <2>7 DEF Channel!Pop, Queued
    <3> QED BY <3>1, <2>3 DEF Channel!Receive
  <2> QED BY <2>6, <2>8, <2>9, <2>10, <1>s DEF IndInv
<1> QED BY <1>3, <1>6, <1>7 DEF ForcePush

\* The oldest request of `fast' is received; without one the thread goes back to wait.
LEMMA PopFastKeeps ==
    ASSUME IndInv, PopFast
    PROVE  IndInv' /\ (UNCHANGED Channel!vars \/ Channel!Receive)
<1> USE AsyncQueueAssumption
<1>1. hpc = "fast_pop" /\ UNCHANGED <<slow, event, pc, pushed, held>>
  BY DEF PopFast, producer
<1>s. SpillInv'
  BY <1>1 DEF IndInv, SpillInv
<1>2. held = NoRequest /\ fast \in Seq(Requests) /\ Distinct(fast) /\ Len(fast) <= FastCap
  BY <1>1 DEF IndInv, TypeOK, PlacesInv
<1>3. \A x : Entered(x)' <=> Entered(x)
  BY <1>1 DEF Entered
<1>4. CASE fast # <<>>
  <2>1. fast' = Tail(fast) /\ popped' = Append(popped, Head(fast)) /\ hpc' = "slow_pop"
    BY <1>4 DEF PopFast
  <2>2. /\ Head(fast) \in Requests /\ Head(fast) \in Range(fast)
        /\ fast' \in Seq(Requests) /\ Len(fast') = Len(fast) - 1
        /\ Range(fast') = Range(fast) \ {Head(fast)} /\ Distinct(fast')
    BY <2>1, <1>2, <1>4, TailRange
  <2>3. popped' \in Seq(Requests) /\ Range(popped') = Range(popped) \cup {Head(fast)}
    BY <2>1, <2>2, AppendRange, SMTT(30) DEF IndInv, TypeOK
  <2>4. TypeOK'
    BY <2>1, <2>2, <2>3, <1>1, <1>2, SMTT(30) DEF IndInv, TypeOK
  <2>5. Queued' = Queued \ {Head(fast)} /\ Head(fast) \in Queued
    <3>1. Head(fast) \notin Range(slow)
      BY <2>2 DEF IndInv, PlacesInv
    <3> QED BY <3>1, <2>2, <1>1, <1>2 DEF Queued
  <2>6. PlacesInv'
    <3>1. held' \notin Range(fast') \cup Range(slow')
      BY <2>2, <1>1 DEF IndInv, PlacesInv
    <3>2. Range(fast') \cap Range(slow') = {}
      BY <2>2, <1>1 DEF IndInv, PlacesInv
    <3>3. \A x \in (Queued \cup Range(popped))' : Entered(x)'
      BY <2>3, <2>5, <1>3 DEF IndInv, PlacesInv
    <3> QED BY <3>1, <3>2, <3>3, <2>1, <2>2, <1>1, <1>2 DEF IndInv, PlacesInv
  <2>7. WakeInv'
    BY <2>1 DEF WakeInv, NoLostWakeup
  <2>8. Channel!Receive
    <3>1. Channel!Pop(Head(fast))
      BY <2>1, <2>5 DEF Channel!Pop, Queued
    <3> QED BY <3>1, <2>2 DEF Channel!Receive
  <2> QED BY <2>4, <2>6, <2>7, <2>8, <1>s DEF IndInv
<1>5. CASE fast = <<>>
  <2>1. hpc' = "wait" /\ UNCHANGED <<fast, popped>>
    BY <1>5 DEF PopFast
  <2>2. TypeOK'
    BY <2>1, <1>1 DEF IndInv, TypeOK
  <2>3. Queued' = Queued
    BY <2>1, <1>1 DEF Queued
  <2>4. PlacesInv'
    BY <2>1, <2>3, <1>1, <1>2, <1>3 DEF IndInv, PlacesInv
  <2>5. WakeInv'
    BY <2>1, <1>1, <1>5 DEF IndInv, WakeInv, NoLostWakeup
  <2> QED BY <2>1, <2>2, <2>3, <2>4, <2>5, <1>s DEF IndInv, Channel!vars, Queued
<1> QED BY <1>4, <1>5

-----------------------------------------------------------------------------
(* The theorems.                                                           *)

\* Every step keeps the invariant and is a step of the channel, or none.
LEMMA Steps ==
    ASSUME IndInv, [Next]_vars
    PROVE  IndInv' /\ [Channel!Next]_Channel!vars
<1>1. ASSUME NEW p \in Producers, PushFast(p) PROVE IndInv' /\ [Channel!Next]_Channel!vars
  <2>1. /\ IndInv'
        /\ \/ Channel!Push(<<p, pushed[p] + 1>>) /\ <<p, pushed[p] + 1>> \in Requests
           \/ UNCHANGED Channel!vars
    BY <1>1, PushFastKeeps
  <2> QED BY <2>1 DEF Channel!Next
<1>2. ASSUME NEW p \in Producers, PushSlow(p) PROVE IndInv' /\ [Channel!Next]_Channel!vars
  BY <1>2, PushSlowKeeps DEF Channel!Next
<1>3. CASE Kick \/ \E p \in Producers : SetEvent(p)
  BY <1>3, SetEventKeeps
<1>4. CASE Handler
  BY <1>4, WakeKeeps, PopSlowKeeps, ForcePushKeeps, PopFastKeeps DEF Handler, Channel!Next
<1>5. CASE UNCHANGED vars
  <2>1. UNCHANGED <<fast, slow, event, pc, pushed, hpc, held, popped>>
    BY <1>5 DEF vars, channel, producer, consumer
  <2>2. TypeOK'
    BY <2>1 DEF IndInv, TypeOK
  <2>3. Queued' = Queued /\ \A x : Entered(x)' <=> Entered(x)
    BY <2>1 DEF Queued, Entered
  <2>4. PlacesInv'
    BY <2>1, <2>3 DEF IndInv, PlacesInv
  <2>5. WakeInv' /\ SpillInv'
    BY <2>1 DEF IndInv, WakeInv, NoLostWakeup, SpillInv
  <2> QED BY <2>1, <2>2, <2>3, <2>4, <2>5 DEF IndInv, Channel!vars, Queued
<1> QED BY <1>1, <1>2, <1>3, <1>4, <1>5 DEF Next

\* The initial states, of the queue and of the channel (AsyncQueue::new).
LEMMA Initially == Init => IndInv /\ Channel!Init
<1> SUFFICES ASSUME Init PROVE IndInv /\ Channel!Init
  OBVIOUS
<1> USE AsyncQueueAssumption DEF Init
<1>1. Range(fast) = {} /\ Range(slow) = {} /\ Range(popped) = {} /\ Queued = {}
  BY SMTT(30) DEF Range, Queued
<1>2. TypeOK
  <2>1. <<>> \in Seq(Requests) /\ Len(<<>>) <= FastCap
    BY SMTT(30)
  <2>2. /\ pc \in [Producers -> {"idle", "slow", "set"}]
        /\ pushed \in [Producers -> 0 .. MaxPush]
    BY SMTT(30)
  <2> QED BY <2>1, <2>2 DEF TypeOK
<1>3. PlacesInv
  BY <1>1, SMTT(30) DEF PlacesInv, Distinct
<1>4. WakeInv /\ SpillInv
  BY DEF WakeInv, NoLostWakeup, SpillInv
<1> QED BY <1>1, <1>2, <1>3, <1>4 DEF IndInv, Channel!Init, Queued

\* A request is in one place of the two-level queue at a time and entered once, in
\* every interleaving of any number of pushes with the handler's pops (ArraySegQueue).
THEOREM Inductive == Spec => []IndInv
<1>1. Init => IndInv
  BY Initially
<1>2. IndInv /\ [Next]_vars => IndInv'
  BY Steps
<1> QED BY <1>1, <1>2, PTL DEF Spec

\* The handler never sleeps on a request whose producer has set the event: setting it
\* after the push (AsyncQueue::push), with a wait that consumes it, misses nothing.
THEOREM WakeUp == Spec => []NoLostWakeup
<1>1. IndInv => NoLostWakeup
  BY DEF IndInv, WakeInv
<1> QED BY <1>1, Inductive, PTL

\* The two-level queue implements RequestChannel: the spill, and the re-entry of
\* a spilled request by force_push, lose nothing and deliver nothing twice.
THEOREM ImplementsChannel == Spec => Channel!Spec
<1>1. Init => Channel!Init
  BY Initially
<1>2. IndInv /\ [Next]_vars => [Channel!Next]_Channel!vars
  BY Steps
<1> QED BY <1>1, <1>2, Inductive, PTL DEF Spec, Channel!Spec

-----------------------------------------------------------------------------
(* CommandBatch.                                                           *)

INSTANCE FiniteSetTheorems

\* The commands of b that hold a reference, and the references of the submitter: its
\* own, and the clone it is about to queue.
Out(b) == Of(b, queued \cup responses)
Own(b) ==
    CASE point[b] = "push" -> 2
      [] point[b] \in {"clone", "drop", "into_inner"} -> 1
      [] OTHER -> 0

\* The count is exact; the allocations are marked busy as long as it is positive; and
\* the fence is reported, or about to be, by at most one owner, after it is zero.
BatchInv(b) ==
    /\ IsFiniteSet(Out(b)) /\ Cardinality(Out(b)) <= cmd[b]
    /\ strong[b] = Cardinality(Out(b)) + Own(b)
    /\ strong[b] > 0 => allocated[b] = TRUE
    /\ point[b] = "idle" => cmd[b] = 0
    /\ point[b] \in {"clone", "push"} => cmd[b] < Cmds
    /\ point[b] \in {"into_inner", "notify", "ok"} => cmd[b] = Cmds
    /\ point[b] = "notify" => strong[b] = 0
    /\ point[b] \notin {"error", "ok"} => completed[b] = 0
    /\ handling = b => strong[b] = 0 /\ completed[b] = 0 /\ point[b] \in {"error", "ok"}
    /\ completed[b] <= 1 /\ (completed[b] = 1 => strong[b] = 0)

\* A command is queued or answered, and its number has been passed.
CommandsInv ==
    /\ queued \cap responses = {}
    /\ \A c \in queued \cup responses : c[2] <= cmd[c[1]]

BatchIndInv ==
    /\ BatchTypeOK /\ CommandsInv
    /\ \A b \in Batches : BatchInv(b)

-----------------------------------------------------------------------------
\* A batch the step is not about keeps its part of the invariant.
LEMMA BatchFrame ==
    ASSUME NEW b \in Batches, BatchInv(b), Out(b)' = Out(b), cmd'[b] = cmd[b],
           strong'[b] = strong[b], point'[b] = point[b], allocated'[b] = allocated[b],
           completed'[b] = completed[b], handling' = b <=> handling = b
    PROVE  BatchInv(b)'
<1>1. Own(b)' = Own(b)
  BY DEF Own
<1> QED BY <1>1 DEF BatchInv

\* The bounds on a reference count (Arc) that follow from the number of commands.
LEMMA CountBound ==
    ASSUME CommandBatchAssumption, NEW b \in Batches, BatchInv(b), BatchTypeOK
    PROVE  /\ strong[b] \in 0 .. Cmds + 1
           /\ Cardinality(Out(b)) \in Nat
           /\ cmd[b] \in 0 .. Cmds
<1>1. Cardinality(Out(b)) \in Nat
  BY FS_CardinalityType DEF BatchInv
<1> QED BY <1>1 DEF BatchTypeOK

\* The steps of the submitter that leave the commands alone: Arc::new, the clone, the
\* drop of references and into_inner.
LEMMA SubmitterKeeps ==
    ASSUME CommandBatchAssumption, BatchIndInv, NEW b \in Batches,
           \/ SubmitBatch(b) \/ Clone(b) \/ PushFails(b) \/ Drop(b) \/ IntoInner(b)
           \/ NotifyLast(b)
    PROVE  BatchIndInv'
<1> USE DEF CommandBatchAssumption
<1>1. UNCHANGED <<cmd, queued, responses, handling>>
  BY DEF SubmitBatch, Clone, PushFails, Drop, IntoInner, NotifyLast
<1>2. \A a \in Batches : Out(a)' = Out(a)
  BY <1>1 DEF Out, Of
<1>3. CommandsInv'
  BY <1>1 DEF BatchIndInv, CommandsInv
<1>4. BatchInv(b) /\ BatchTypeOK /\ Cardinality(Out(b)) \in Nat /\ strong[b] \in 0 .. Cmds + 1
      /\ cmd[b] \in 0 .. Cmds
  BY CountBound DEF BatchIndInv
<1>5. \A a \in Batches \ {b} :
        /\ strong'[a] = strong[a] /\ point'[a] = point[a] /\ allocated'[a] = allocated[a]
        /\ completed'[a] = completed[a]
  BY <1>4 DEF BatchTypeOK, SubmitBatch, Clone, PushFails, Drop, IntoInner, NotifyLast
<1>6. \A a \in Batches \ {b} : BatchInv(a)'
  BY <1>1, <1>2, <1>5, BatchFrame DEF BatchIndInv
<1>7. IsFiniteSet(Out(b)')
  BY <1>2, <1>4 DEF BatchInv
<1>8. Cardinality(Out(b))' = Cardinality(Out(b))
  BY <1>2
<1>9. BatchTypeOK' /\ BatchInv(b)'
  <2>1. CASE SubmitBatch(b)
    <3>1. /\ point[b] = "idle" /\ point' = [point EXCEPT ![b] = "clone"]
          /\ strong' = [strong EXCEPT ![b] = 1]
          /\ allocated' = [allocated EXCEPT ![b] = TRUE] /\ completed' = completed
      BY <2>1 DEF SubmitBatch
    <3>2. BatchTypeOK'
      BY <3>1, <1>1, <1>4, SMTT(30) DEF BatchTypeOK
    <3>3. Own(b)' = 1 /\ Own(b) = 0
      BY <3>1, <1>4 DEF BatchTypeOK, Own
    <3>4. /\ point'[b] = "clone" /\ strong'[b] = 1 /\ allocated'[b] = TRUE /\ cmd[b] = 0
          /\ Cardinality(Out(b)) = 0 /\ completed'[b] = 0 /\ handling # b
      BY <3>1, <3>3, <1>4, SMTT(30) DEF BatchTypeOK, BatchInv
    <3> QED BY <3>2, <3>3, <3>4, <1>1, <1>4, <1>7, <1>8, SMTT(30) DEF BatchInv
  <2>2. CASE Clone(b)
    <3>1. /\ point[b] = "clone" /\ point' = [point EXCEPT ![b] = "push"]
          /\ strong' = [strong EXCEPT ![b] = @ + 1] /\ UNCHANGED <<allocated, completed>>
      BY <2>2 DEF Clone
    <3>2. Own(b)' = 2 /\ Own(b) = 1
      BY <3>1, <1>4 DEF BatchTypeOK, Own
    <3>3. /\ point'[b] = "push" /\ strong'[b] = strong[b] + 1 /\ cmd[b] < Cmds
          /\ strong[b] = Cardinality(Out(b)) + 1 /\ Cardinality(Out(b)) <= cmd[b]
          /\ completed[b] = 0 /\ handling # b
      BY <3>1, <3>2, <1>4 DEF BatchTypeOK, BatchInv
    <3>4. BatchTypeOK'
      <4>1. strong[b] + 1 \in 0 .. Cmds + 1
        BY <3>3, <1>4, SMTT(30)
      <4> QED BY <4>1, <3>1, <1>1, <1>4 DEF BatchTypeOK
    <3> QED BY <3>1, <3>2, <3>3, <3>4, <1>1, <1>4, <1>7, <1>8, SMTT(30) DEF BatchInv
  <2>3. CASE PushFails(b)
    <3>1. /\ point[b] = "push" /\ point' = [point EXCEPT ![b] = "drop"]
          /\ strong' = [strong EXCEPT ![b] = @ - 1] /\ UNCHANGED <<allocated, completed>>
      BY <2>3 DEF PushFails
    <3>2. Own(b)' = 1 /\ Own(b) = 2
      BY <3>1, <1>4 DEF BatchTypeOK, Own
    <3>3. /\ point'[b] = "drop" /\ strong'[b] = strong[b] - 1
          /\ strong[b] = Cardinality(Out(b)) + 2 /\ completed[b] = 0 /\ handling # b
      BY <3>1, <3>2, <1>4 DEF BatchTypeOK, BatchInv
    <3>4. BatchTypeOK'
      <4>1. strong[b] - 1 \in 0 .. Cmds + 1
        BY <3>3, <1>4, SMTT(30)
      <4> QED BY <4>1, <3>1, <1>1, <1>4 DEF BatchTypeOK
    <3> QED BY <3>1, <3>2, <3>3, <3>4, <1>1, <1>4, <1>7, <1>8, SMTT(30) DEF BatchInv
  <2>4. CASE Drop(b)
    <3>1. /\ point[b] = "drop" /\ point' = [point EXCEPT ![b] = "error"]
          /\ strong' = [strong EXCEPT ![b] = @ - 1] /\ completed' = completed
          /\ allocated' = [allocated EXCEPT ![b] = strong[b] > 1]
      BY <2>4 DEF Drop
    <3>2. Own(b)' = 0 /\ Own(b) = 1
      BY <3>1, <1>4 DEF BatchTypeOK, Own
    <3>3. /\ point'[b] = "error" /\ strong'[b] = strong[b] - 1
          /\ strong[b] = Cardinality(Out(b)) + 1 /\ completed[b] = 0 /\ handling # b
      BY <3>1, <3>2, <1>4 DEF BatchTypeOK, BatchInv
    <3>4. (strong[b] > 1) \in BOOLEAN /\ allocated'[b] = (strong[b] > 1)
      BY <3>1, <1>4, SMTT(30) DEF BatchTypeOK
    <3>5. BatchTypeOK'
      <4>1. strong[b] - 1 \in 0 .. Cmds + 1
        BY <3>3, <1>4, SMTT(30)
      <4>2. strong' \in [Batches -> 0 .. Cmds + 1]
        BY <4>1, <3>1, <1>4 DEF BatchTypeOK
      <4>3. allocated' \in [Batches -> BOOLEAN]
        BY <3>1, <3>4, <1>4 DEF BatchTypeOK
      <4> QED BY <4>2, <4>3, <3>1, <1>1, <1>4 DEF BatchTypeOK
    <3>6. strong'[b] > 0 => allocated'[b] = TRUE
      <4>1. ASSUME strong[b] > 1 PROVE allocated'[b] = TRUE
        <5>1. (strong[b] > 1) = TRUE
          BY <4>1
        <5> QED BY <3>4, <5>1
      <4>2. strong'[b] > 0 => strong[b] > 1
        BY <3>3, <1>4, SMTT(30)
      <4> QED BY <4>1, <4>2
    <3> QED BY <3>1, <3>2, <3>3, <3>5, <3>6, <1>1, <1>4, <1>7, <1>8, SMTT(30) DEF BatchInv
  <2>5. CASE IntoInner(b)
    <3>1. /\ point[b] = "into_inner"
          /\ point' = [point EXCEPT ![b] = IF strong[b] = 1 THEN "notify" ELSE "ok"]
          /\ strong' = [strong EXCEPT ![b] = @ - 1] /\ UNCHANGED <<allocated, completed>>
      BY <2>5 DEF IntoInner
    <3>2. Own(b)' = 0 /\ Own(b) = 1
      BY <3>1, <1>4 DEF BatchTypeOK, Own
    <3>3. /\ point'[b] = IF strong[b] = 1 THEN "notify" ELSE "ok"
          /\ strong'[b] = strong[b] - 1 /\ cmd[b] = Cmds
          /\ strong[b] = Cardinality(Out(b)) + 1 /\ completed[b] = 0 /\ handling # b
      BY <3>1, <3>2, <1>4 DEF BatchTypeOK, BatchInv
    <3>4. BatchTypeOK'
      <4>1. strong[b] - 1 \in 0 .. Cmds + 1
        BY <3>3, <1>4, SMTT(30)
      <4> QED BY <4>1, <3>1, <1>1, <1>4 DEF BatchTypeOK
    <3> QED BY <3>1, <3>2, <3>3, <3>4, <1>1, <1>4, <1>7, <1>8, SMTT(30) DEF BatchInv
  <2>6. CASE NotifyLast(b)
    <3>1. /\ point[b] = "notify" /\ point' = [point EXCEPT ![b] = "ok"] /\ strong' = strong
          /\ allocated' = [allocated EXCEPT ![b] = FALSE]
          /\ completed' = [completed EXCEPT ![b] = @ + 1]
      BY <2>6 DEF NotifyLast
    <3>2. Own(b)' = 0 /\ Own(b) = 0
      BY <3>1, <1>4 DEF BatchTypeOK, Own
    <3>3. /\ point'[b] = "ok" /\ cmd[b] = Cmds /\ strong[b] = 0 /\ completed[b] = 0
          /\ completed'[b] = 1 /\ strong[b] = Cardinality(Out(b)) /\ handling # b
      BY <3>1, <3>2, <1>4, SMTT(30) DEF BatchTypeOK, BatchInv
    <3>4. BatchTypeOK'
      BY <3>1, <1>1, <1>4, SMTT(30) DEF BatchTypeOK
    <3>5. strong'[b] = 0 /\ cmd'[b] = Cmds /\ handling' # b
      BY <3>1, <3>3, <1>1
    <3>6. /\ IsFiniteSet(Out(b)') /\ Cardinality(Out(b)') <= cmd'[b]
          /\ strong'[b] = Cardinality(Out(b)') + Own(b)'
      BY <3>2, <3>3, <3>5, <1>1, <1>4, <1>7, <1>8 DEF BatchInv
    <3> QED BY <3>3, <3>4, <3>5, <3>6, SMTT(30) DEF BatchInv
  <2> QED BY <2>1, <2>2, <2>3, <2>4, <2>5, <2>6
<1> QED BY <1>3, <1>6, <1>9 DEF BatchIndInv

\* A command is queued with its reference (request_async_dma_batched).
LEMMA PushCommandKeeps ==
    ASSUME CommandBatchAssumption, BatchIndInv, NEW b \in Batches, PushCommand(b)
    PROVE  BatchIndInv'
<1> USE DEF CommandBatchAssumption
<1>c. PICK c : c = <<b, cmd[b] + 1>>
  OBVIOUS
<1>1. /\ point[b] = "push" /\ queued' = queued \cup {c} /\ cmd' = [cmd EXCEPT ![b] = @ + 1]
      /\ point' = [point EXCEPT ![b] = IF cmd[b] + 1 = Cmds THEN "into_inner" ELSE "clone"]
      /\ UNCHANGED <<strong, responses, handling, allocated, completed>>
  BY <1>c DEF PushCommand
<1>2. BatchInv(b) /\ BatchTypeOK /\ Cardinality(Out(b)) \in Nat /\ strong[b] \in 0 .. Cmds + 1
      /\ cmd[b] \in 0 .. Cmds
  BY CountBound DEF BatchIndInv
<1>3. cmd[b] < Cmds /\ completed[b] = 0 /\ handling # b
  BY <1>1, <1>2 DEF BatchInv
<1>4. c \in Commands /\ c[1] = b /\ c[2] = cmd[b] + 1
  BY <1>c, <1>2, <1>3, SMTT(30) DEF Commands
<1>5. c \notin queued \cup responses
  BY <1>2, <1>4, SMTT(30) DEF BatchIndInv, CommandsInv
<1>6. BatchTypeOK'
  <2>1. cmd[b] + 1 \in 0 .. Cmds
    BY <1>2, <1>3, SMTT(30)
  <2> QED BY <2>1, <1>1, <1>2, <1>4 DEF BatchTypeOK
<1>7. \A a \in Batches : cmd'[a] = IF a = b THEN cmd[b] + 1 ELSE cmd[a]
  BY <1>1, <1>2 DEF BatchTypeOK
<1>8. CommandsInv'
  <2>1. queued' \cap responses' = {}
    BY <1>1, <1>5 DEF BatchIndInv, CommandsInv
  <2>2. ASSUME NEW d \in queued' \cup responses' PROVE d[2] <= cmd'[d[1]]
    <3>1. CASE d = c
      BY <3>1, <1>2, <1>4, <1>7, SMTT(30)
    <3>2. CASE d # c
      <4>1. d \in queued \cup responses /\ d \in Commands
        BY <3>2, <1>1, <1>2 DEF BatchTypeOK
      <4>2. d[1] \in Batches /\ d[2] \in Nat /\ d[2] <= cmd[d[1]]
        BY <4>1, SMTT(30) DEF Commands, BatchIndInv, CommandsInv
      <4> QED BY <4>2, <1>2, <1>7, SMTT(30) DEF BatchTypeOK
    <3> QED BY <3>1, <3>2
  <2> QED BY <2>1, <2>2 DEF CommandsInv
<1>9. \A a \in Batches \ {b} : Out(a)' = Out(a)
  BY <1>1, <1>4 DEF Out, Of
<1>10. \A a \in Batches \ {b} : BatchInv(a)'
  <2>1. \A a \in Batches \ {b} : point'[a] = point[a]
    BY <1>1, <1>2 DEF BatchTypeOK
  <2> QED BY <2>1, <1>1, <1>7, <1>9, BatchFrame DEF BatchIndInv
<1>11. Out(b)' = Out(b) \cup {c} /\ c \notin Out(b)
  BY <1>1, <1>4, <1>5 DEF Out, Of
<1>12. IsFiniteSet(Out(b)') /\ Cardinality(Out(b)') = Cardinality(Out(b)) + 1
  BY <1>11, <1>2, FS_AddElement, SMTT(30) DEF BatchInv
<1>13. Own(b) = 2 /\ Own(b)' = 1
  BY <1>1, <1>2 DEF BatchTypeOK, Own
<1>14. point'[b] = IF cmd[b] + 1 = Cmds THEN "into_inner" ELSE "clone"
  BY <1>1, <1>2 DEF BatchTypeOK
<1>15. BatchInv(b)'
  BY <1>1, <1>2, <1>3, <1>7, <1>12, <1>13, <1>14, SMTT(30) DEF BatchInv
<1> QED BY <1>6, <1>8, <1>10, <1>15 DEF BatchIndInv

\* The device answers a command: the reference stays.
LEMMA AnswerCommandKeeps ==
    ASSUME CommandBatchAssumption, BatchIndInv, NEW c \in Commands, AnswerCommand(c)
    PROVE  BatchIndInv'
<1>1. /\ c \in queued /\ queued' = queued \ {c} /\ responses' = responses \cup {c}
      /\ UNCHANGED <<point, cmd, strong, handling, allocated, completed>>
  BY DEF AnswerCommand
<1>2. queued' \cup responses' = queued \cup responses
  BY <1>1
<1>3. BatchTypeOK'
  BY <1>1 DEF BatchIndInv, BatchTypeOK
<1>4. CommandsInv'
  BY <1>1, <1>2 DEF BatchIndInv, CommandsInv
<1>5. \A a \in Batches : Out(a)' = Out(a)
  BY <1>2 DEF Out
<1>6. \A a \in Batches : BatchInv(a)'
  BY <1>1, <1>5, BatchFrame DEF BatchIndInv
<1> QED BY <1>3, <1>4, <1>6 DEF BatchIndInv

\* The handler gives up the reference of a response, and knows if it was the last.
LEMMA HandleResponseKeeps ==
    ASSUME CommandBatchAssumption, BatchIndInv, NEW c \in Commands, HandleResponse(c)
    PROVE  BatchIndInv'
<1> USE DEF CommandBatchAssumption
<1>b. PICK b \in Batches : b = c[1]
  BY DEF Commands
<1>1. /\ handling = None /\ c \in responses /\ responses' = responses \ {c}
      /\ strong' = [strong EXCEPT ![b] = @ - 1]
      /\ handling' = IF strong[b] = 1 THEN b ELSE None
      /\ UNCHANGED <<point, cmd, queued, allocated, completed>>
  BY <1>b DEF HandleResponse
<1>2. BatchInv(b) /\ BatchTypeOK /\ Cardinality(Out(b)) \in Nat /\ strong[b] \in 0 .. Cmds + 1
      /\ cmd[b] \in 0 .. Cmds
  BY CountBound DEF BatchIndInv
<1>3. c \in Out(b) /\ Out(b)' = Out(b) \ {c}
  BY <1>1, <1>b DEF Out, Of, BatchIndInv, CommandsInv
<1>4. /\ IsFiniteSet(Out(b)') /\ Cardinality(Out(b)') = Cardinality(Out(b)) - 1
      /\ Cardinality(Out(b)') \in Nat
  BY <1>2, <1>3, FS_RemoveElement, FS_CardinalityType, SMTT(30) DEF BatchInv
<1>5. Own(b) \in Nat /\ Own(b)' = Own(b)
  BY <1>1 DEF Own
<1>6. strong'[b] = strong[b] - 1 /\ \A a \in Batches \ {b} : strong'[a] = strong[a]
  BY <1>1, <1>2 DEF BatchTypeOK
<1>7. BatchTypeOK'
  <2>1. strong[b] - 1 \in 0 .. Cmds + 1
    BY <1>2, <1>4, <1>5, SMTT(30) DEF BatchInv
  <2> QED BY <2>1, <1>1, <1>2 DEF BatchTypeOK
<1>8. CommandsInv'
  BY <1>1 DEF BatchIndInv, CommandsInv
<1>9. \A a \in Batches \ {b} : BatchInv(a)'
  <2>1. \A a \in Batches \ {b} : Out(a)' = Out(a)
    BY <1>1, <1>b DEF Out, Of
  <2>2. \A a \in Batches \ {b} : handling' = a <=> handling = a
    BY <1>1
  <2> QED BY <2>1, <2>2, <1>1, <1>6, BatchFrame DEF BatchIndInv
<1>10. completed[b] = 0 /\ strong[b] > 0
  BY <1>2, <1>4, <1>5, SMTT(30) DEF BatchInv, BatchTypeOK
<1>11. strong[b] = 1 => Own(b) = 0 /\ Cardinality(Out(b)) = 1
  BY <1>2, <1>4, <1>5, SMTT(30) DEF BatchInv
<1>12. strong[b] = 1 => point[b] \in {"error", "ok"}
  <2>1. strong[b] = 1 => cmd[b] > 0
    BY <1>2, <1>11, SMTT(30) DEF BatchInv
  <2> QED BY <2>1, <1>2, <1>10, <1>11, SMTT(30) DEF BatchInv, Own, BatchTypeOK
<1>13. BatchInv(b)'
  BY <1>1, <1>2, <1>4, <1>5, <1>6, <1>10, <1>12, SMTT(30) DEF BatchInv
<1> QED BY <1>7, <1>8, <1>9, <1>13 DEF BatchIndInv

\* The handler completes the batch whose last reference it took.
LEMMA CompleteKeeps ==
    ASSUME CommandBatchAssumption, BatchIndInv, Complete
    PROVE  BatchIndInv'
<1> USE DEF CommandBatchAssumption
<1>b. PICK b \in Batches : b = handling
  BY DEF Complete, BatchIndInv, BatchTypeOK
<1>1. /\ handling' = None /\ allocated' = [allocated EXCEPT ![b] = FALSE]
      /\ completed' = [completed EXCEPT ![b] = @ + 1]
      /\ UNCHANGED <<point, cmd, strong, queued, responses>>
  BY <1>b DEF Complete
<1>2. BatchInv(b) /\ BatchTypeOK
  BY DEF BatchIndInv
<1>3. BatchTypeOK'
  BY <1>1, <1>2, SMTT(30) DEF BatchTypeOK
<1>4. CommandsInv'
  BY <1>1 DEF BatchIndInv, CommandsInv
<1>5. \A a \in Batches : Out(a)' = Out(a) /\ Own(a)' = Own(a)
  BY <1>1 DEF Out, Of, Own
<1>6. \A a \in Batches \ {b} : BatchInv(a)'
  <2>1. \A a \in Batches \ {b} : completed'[a] = completed[a] /\ allocated'[a] = allocated[a]
    BY <1>1, <1>2 DEF BatchTypeOK
  <2>2. \A a \in Batches \ {b} : handling' = a <=> handling = a
    BY <1>1, <1>b
  <2> QED BY <2>1, <2>2, <1>1, <1>5, BatchFrame DEF BatchIndInv
<1>7. BatchInv(b)'
  <2>1. completed'[b] = 1 /\ strong[b] = 0 /\ point[b] \in {"error", "ok"} /\ handling' # b
    BY <1>1, <1>2, <1>b, SMTT(30) DEF BatchInv, BatchTypeOK
  <2> QED BY <2>1, <1>1, <1>2, <1>5, SMTT(30) DEF BatchInv
<1> QED BY <1>3, <1>4, <1>6, <1>7 DEF BatchIndInv

-----------------------------------------------------------------------------
(* The theorems.                                                           *)

\* The strong count of a batch's Arc is the number of commands queued or unhandled and
\* of references its submitter holds, whatever fails.
THEOREM BatchInductive == ASSUME CommandBatchAssumption PROVE BatchSpec => []BatchIndInv
<1>1. BatchInit => BatchIndInv
  <2> SUFFICES ASSUME BatchInit PROVE BatchIndInv
    OBVIOUS
  <2> USE DEF BatchInit
  <2>1. BatchTypeOK
    BY SMTT(30) DEF BatchTypeOK, CommandBatchAssumption
  <2>2. \A b \in Batches : Out(b) = {} /\ Own(b) = 0
    BY DEF Out, Of, Own
  <2>3. \A b \in Batches : BatchInv(b)
    BY <2>2, FS_EmptySet, SMTT(30) DEF BatchInv, CommandBatchAssumption
  <2> QED BY <2>1, <2>3 DEF BatchIndInv, CommandsInv
<1>2. BatchIndInv /\ [BatchNext]_batchVars => BatchIndInv'
  <2> SUFFICES ASSUME BatchIndInv, [BatchNext]_batchVars PROVE BatchIndInv'
    OBVIOUS
  <2>1. ASSUME NEW b \in Batches, SubmitBatch(b) \/ Submitter(b) PROVE BatchIndInv'
    BY <2>1, SubmitterKeeps, PushCommandKeeps DEF Submitter
  <2>2. ASSUME NEW c \in Commands, AnswerCommand(c) \/ HandleResponse(c) PROVE BatchIndInv'
    BY <2>2, AnswerCommandKeeps, HandleResponseKeeps
  <2>3. CASE Complete
    BY <2>3, CompleteKeeps
  <2>4. CASE UNCHANGED batchVars
    <3>1. \A b \in Batches : Out(b)' = Out(b)
      BY <2>4 DEF batchVars, Out, Of
    <3>2. \A b \in Batches : BatchInv(b)'
      BY <3>1, <2>4, BatchFrame DEF batchVars, BatchIndInv
    <3>3. BatchTypeOK' /\ CommandsInv'
      BY <2>4 DEF batchVars, BatchIndInv, BatchTypeOK, CommandsInv
    <3> QED BY <3>2, <3>3 DEF BatchIndInv
  <2> QED BY <2>1, <2>2, <2>3, <2>4 DEF BatchNext
<1> QED BY <1>1, <1>2, PTL DEF BatchSpec

\* The fence of a batch is reported at most once, and, unless its submission failed
\* half-way, after every command of the batch was queued and answered
\* (submit_command_batch and Callback::DmaCompletedBatched race for the last reference).
THEOREM FenceLast == ASSUME CommandBatchAssumption PROVE BatchSpec => []FenceAfterAllCommands
<1>1. BatchIndInv => FenceAfterAllCommands
  <2> SUFFICES ASSUME BatchIndInv, NEW b \in Batches
               PROVE  /\ completed[b] <= 1
                      /\ completed[b] = 1 /\ point[b] # "error" =>
                           cmd[b] = Cmds /\ Of(b, queued \cup responses) = {}
    BY DEF FenceAfterAllCommands
  <2>1. BatchInv(b) /\ BatchTypeOK /\ Cardinality(Out(b)) \in Nat
    BY CountBound DEF BatchIndInv
  <2>2. ASSUME completed[b] = 1, point[b] # "error" PROVE cmd[b] = Cmds /\ Out(b) = {}
    <3>1. point[b] = "ok" /\ cmd[b] = Cmds /\ strong[b] = 0
      BY <2>1, <2>2, SMTT(30) DEF BatchInv, BatchTypeOK
    <3>2. Own(b) = 0
      BY <3>1 DEF Own
    <3>3. Cardinality(Out(b)) = 0
      BY <2>1, <3>1, <3>2, SMTT(30) DEF BatchInv
    <3> QED BY <2>1, <3>1, <3>3, FS_EmptySet DEF BatchInv
  <2> QED BY <2>1, <2>2 DEF BatchInv, Out
<1> QED BY <1>1, BatchInductive, PTL

\* The allocations of a batch stay marked busy while a command that uses them is
\* unanswered, also when the submission failed half-way (AllocationsBatch::drop).
THEOREM BusyWhileUsed == ASSUME CommandBatchAssumption PROVE BatchSpec => []AllocationsBusyWhileInUse
<1>1. BatchIndInv => AllocationsBusyWhileInUse
  <2> SUFFICES ASSUME BatchIndInv, NEW b \in Batches, Of(b, queued \cup responses) # {}
               PROVE  allocated[b]
    BY DEF AllocationsBusyWhileInUse
  <2>1. BatchInv(b) /\ Cardinality(Out(b)) \in Nat
    BY CountBound DEF BatchIndInv
  <2>2. Cardinality(Out(b)) # 0
    BY <2>1, FS_EmptySet DEF BatchInv, Out
  <2>3. Own(b) \in Nat
    BY DEF Own
  <2>4. strong[b] > 0
    BY <2>1, <2>2, <2>3, SMTT(30) DEF BatchInv
  <2> QED BY <2>1, <2>4 DEF BatchInv
<1> QED BY <1>1, BatchInductive, PTL

\* For batches of any size, some of which fail half-way: the fence of a batch is
\* reported once, after all of its commands, and its allocations are busy until then
\* (AllocationsBatch).
THEOREM FenceOnceAndLast == ASSUME CommandBatchAssumption PROVE BatchSpec => []BatchOnce
<1>1. BatchIndInv => BatchTypeOK
  BY DEF BatchIndInv
<1> QED BY <1>1, BatchInductive, FenceLast, BusyWhileUsed, PTL DEF BatchOnce

-----------------------------------------------------------------------------
(* BusyEvents.                                                             *)

\* Batches between the two changes they make to the count, and those that made one.
Marked == {b \in UserBatches : batch[b] \in {"counted", "cleared", "busy"}}
Used == \E b \in UserBatches : batch[b] # "new"
SettingIdle == \E b \in UserBatches : batch[b] = "last"

BusyTypeOK ==
    /\ task \in [Callers -> [file : Files \cup {NoFile}, wait : BOOLEAN]]
    /\ batch \in [UserBatches -> {"new", "counted", "cleared", "busy", "last", "signal", "done"}]
    /\ at \in [Callers -> {"start", "check", "clear", "set", "wait", "blocked", "awake", "report", "done"}]
    /\ sync \in Seq(Files) /\ refs \in [Files -> Int]

\* An escape named the file; one is between the attachment and its test of is_busy.
Asked(f) == \E c \in Callers : at[c] # "start" /\ task[c].file = f
Testing(f) == \E c \in Callers : at[c] \in {"check", "clear", "set"} /\ task[c].file = f

\* A file that was asked for is set, or will be: by the escape, or by the last user.
FileInv(f) ==
    Asked(f) => \/ f \in signalled \cup missed \/ Testing(f)
                \/ f \in Range(sync) /\ ~Quiet

\* The event is clear only as long as nobody has used the allocation, or somebody does.
EventInv ==
    /\ Used /\ count = 0 => idle \/ SettingIdle
    /\ (\E c \in Callers : at[c] = "blocked") => Used

BusyInd ==
    /\ BusyTypeOK /\ count = Cardinality(Marked) /\ EventInv
    /\ \A f \in Files : refs[f] = Attachments(f) /\ FileInv(f)

-----------------------------------------------------------------------------
LEMMA MarkedFinite ==
    ASSUME BusyEventsAssumption
    PROVE  IsFiniteSet(Marked) /\ Cardinality(Marked) \in Nat /\ (Marked = {} <=> Cardinality(Marked) = 0)
<1>1. IsFiniteSet(Marked)
  BY FS_Subset DEF Marked, BusyEventsAssumption
<1> QED BY <1>1, FS_CardinalityType, FS_EmptySet

LEMMA AttachmentsType ==
    ASSUME sync \in Seq(Files), NEW f
    PROVE  /\ IsFiniteSet({i \in 1 .. Len(sync) : sync[i] = f}) /\ Attachments(f) \in Nat
           /\ DOMAIN sync = 1 .. Len(sync) /\ Len(sync) \in Nat
<1>1. DOMAIN sync = 1 .. Len(sync) /\ Len(sync) \in Nat
  BY SMTT(30)
<1>2. IsFiniteSet(1 .. Len(sync))
  BY <1>1, FS_Interval, SMTT(30)
<1>3. IsFiniteSet({i \in 1 .. Len(sync) : sync[i] = f})
  BY <1>2, FS_Subset
<1> QED BY <1>1, <1>3, FS_CardinalityType DEF Attachments

\* mark_busy and mark_free: as the count is exact, the batch that is told that it was
\* the last is followed by no other that would signal.
LEMMA BatchStepKeeps ==
    ASSUME BusyEventsAssumption, BusyInd, NEW b \in UserBatches, BatchStep(b)
    PROVE  BusyInd'
<1> USE DEF BusyTypeOK
<1>1. BusyTypeOK /\ count = Cardinality(Marked) /\ EventInv /\ IsFiniteSet(Marked) /\ count \in Nat
  BY MarkedFinite DEF BusyInd
<1>2. \A f \in Files : refs[f] = Attachments(f) /\ FileInv(f)
  BY DEF BusyInd
<1>3. ASSUME MarkBusy(b) PROVE BusyInd'
  <2>1. Marked' = Marked \cup {b} /\ b \notin Marked
    BY <1>1, <1>3 DEF MarkBusy, Marked
  <2>2. count' = Cardinality(Marked') /\ count' # 0
    <3>1. Cardinality(Marked') = count + 1
      BY <1>1, <2>1, FS_AddElement
    <3> QED BY <1>1, <1>3, <3>1, SMTT(30) DEF MarkBusy
  <2>3. BusyTypeOK' /\ Used'
    BY <1>1, <1>3 DEF MarkBusy, userEvents, Used
  <2>4. EventInv'
    BY <2>2, <2>3 DEF EventInv
  <2>5. ~Quiet' /\ UNCHANGED <<task, at, sync, signalled, refs, missed>>
    BY <1>1, <1>3 DEF MarkBusy, userEvents, Quiet
  <2>6. \A f \in Files : (refs[f] = Attachments(f) /\ FileInv(f))'
    BY <1>2, <2>5 DEF Attachments, FileInv, Asked, Testing
  <2> QED BY <2>2, <2>3, <2>4, <2>6 DEF BusyInd
<1>4. ASSUME ClearIdle(b) PROVE BusyInd'
  <2>1. Marked' = Marked /\ b \in Marked
    BY <1>1, <1>4 DEF ClearIdle, Marked
  <2>2. count' = Cardinality(Marked') /\ count' # 0
    BY <1>1, <1>4, <2>1, MarkedFinite DEF ClearIdle
  <2>3. BusyTypeOK' /\ Used'
    BY <1>1, <1>4 DEF ClearIdle, userEvents, Used
  <2>4. EventInv'
    BY <2>2, <2>3 DEF EventInv
  <2>5. ~Quiet' /\ UNCHANGED <<task, at, sync, signalled, refs, missed>>
    BY <1>1, <1>4 DEF ClearIdle, userEvents, Quiet
  <2>6. \A f \in Files : (refs[f] = Attachments(f) /\ FileInv(f))'
    BY <1>2, <2>5 DEF Attachments, FileInv, Asked, Testing
  <2> QED BY <2>2, <2>3, <2>4, <2>6 DEF BusyInd
<1>5. ASSUME ClearFiles(b) PROVE BusyInd'
  <2>1. Marked' = Marked /\ b \in Marked
    BY <1>1, <1>5 DEF ClearFiles, Marked
  <2>2. count' = Cardinality(Marked') /\ count' # 0
    BY <1>1, <1>5, <2>1, MarkedFinite DEF ClearFiles, allocation
  <2>3. BusyTypeOK' /\ Used'
    BY <1>1, <1>5 DEF ClearFiles, allocation, Used
  <2>4. EventInv'
    BY <2>2, <2>3 DEF EventInv
  <2>5. ~Quiet' /\ UNCHANGED <<task, at, sync, refs, missed>> /\ signalled' = signalled \ Range(sync)
    BY <1>1, <1>5 DEF ClearFiles, allocation, Quiet
  <2>6. \A f \in Files : (refs[f] = Attachments(f) /\ FileInv(f))'
    BY <1>2, <2>5 DEF Attachments, FileInv, Asked, Testing
  <2> QED BY <2>2, <2>3, <2>4, <2>6 DEF BusyInd
<1>6. ASSUME MarkFree(b) PROVE BusyInd'
  <2>1. Marked' = Marked \ {b} /\ b \in Marked
    BY <1>1, <1>6 DEF MarkFree, Marked
  <2>2. count' = Cardinality(Marked') /\ count' = count - 1
    BY <1>1, <1>6, <2>1, FS_RemoveElement DEF MarkFree
  <2>3. BusyTypeOK' /\ Used'
    BY <1>1, <1>6 DEF MarkFree, userEvents, Used
  <2>4. UNCHANGED <<task, at, sync, signalled, refs, missed, idle>>
    BY <1>6 DEF MarkFree, userEvents
  <2>5. CASE LastBatch
    <3>1. batch'[b] = "last"
      BY <1>1, <1>6, <2>5 DEF MarkFree
    <3>2. ~Quiet' /\ SettingIdle'
      BY <3>1 DEF Quiet, SettingIdle
    <3>3. EventInv'
      BY <2>3, <3>2 DEF EventInv
    <3>4. \A f \in Files : (refs[f] = Attachments(f) /\ FileInv(f))'
      BY <1>2, <2>4, <3>2 DEF Attachments, FileInv, Asked, Testing
    <3> QED BY <2>2, <2>3, <3>3, <3>4 DEF BusyInd
  <2>6. CASE ~LastBatch
    <3>1. Marked # {b}
      BY <1>1, <2>6, FS_Singleton DEF LastBatch
    <3>2. PICK u \in Marked : u # b
      BY <2>1, <3>1
    <3>3. ~Quiet'
      BY <3>2, <1>6 DEF MarkFree, Marked, Quiet
    <3>4. count' # 0
      BY <1>1, <2>1, <2>2, <2>6, MarkedFinite, SMTT(30) DEF LastBatch
    <3>5. EventInv'
      BY <2>3, <3>4 DEF EventInv
    <3>6. \A f \in Files : (refs[f] = Attachments(f) /\ FileInv(f))'
      BY <1>2, <2>4, <3>3 DEF Attachments, FileInv, Asked, Testing
    <3> QED BY <2>2, <2>3, <3>5, <3>6 DEF BusyInd
  <2> QED BY <2>5, <2>6
<1>7. ASSUME SetIdle(b) PROVE BusyInd'
  <2>1. Marked' = Marked
    BY <1>1, <1>7 DEF SetIdle, Marked
  <2>2. count' = Cardinality(Marked')
    BY <1>1, <1>7, <2>1 DEF SetIdle
  <2>3. BusyTypeOK' /\ Used' /\ idle'
    BY <1>1, <1>7 DEF SetIdle, userEvents, Used
  <2>4. EventInv'
    BY <2>3 DEF EventInv
  <2>5. ~Quiet' /\ UNCHANGED <<task, at, sync, signalled, refs, missed>>
    BY <1>1, <1>7 DEF SetIdle, userEvents, Quiet
  <2>6. \A f \in Files : (refs[f] = Attachments(f) /\ FileInv(f))'
    BY <1>2, <2>5 DEF Attachments, FileInv, Asked, Testing
  <2> QED BY <2>2, <2>3, <2>4, <2>6 DEF BusyInd
<1>8. ASSUME SignalFiles(b) PROVE BusyInd'
  <2>1. Marked' = Marked
    BY <1>1, <1>8 DEF SignalFiles, Marked
  <2>2. count' = Cardinality(Marked') /\ UNCHANGED <<task, at, count, idle, missed>>
    BY <1>1, <1>8, <2>1 DEF SignalFiles
  <2>3. \A f \in Files : refs[f] - Attachments(f) = 0
    BY <1>1, <1>2, AttachmentsType, SMTT(30)
  <2>4. refs' = [f \in Files |-> 0] /\ sync' = <<>> /\ signalled' = signalled \cup Range(sync)
    BY <1>8, <2>3 DEF SignalFiles, Signalled
  <2>5. BusyTypeOK' /\ Used /\ Used' /\ (SettingIdle => SettingIdle')
    <3>1. sync' \in Seq(Files) /\ refs' \in [Files -> Int]
      BY <2>4, SMTT(30)
    <3>2. batch' \in [UserBatches -> {"new", "counted", "cleared", "busy", "last", "signal", "done"}]
      BY <1>1, <1>8 DEF SignalFiles
    <3> QED BY <1>1, <1>8, <3>1, <3>2 DEF SignalFiles, Used, SettingIdle
  <2>6. EventInv'
    BY <1>1, <2>2, <2>5 DEF EventInv
  <2>7. ASSUME NEW f \in Files PROVE Attachments(f)' = 0
    <3>1. {i \in 1 .. Len(sync') : sync'[i] = f} = {}
      BY <2>4, SMTT(30)
    <3> QED BY <3>1, FS_EmptySet DEF Attachments
  <2>8. \A f \in Files : (refs[f] = Attachments(f) /\ FileInv(f))'
    BY <1>2, <2>2, <2>4, <2>7 DEF FileInv, Asked, Testing
  <2> QED BY <2>2, <2>5, <2>6, <2>8 DEF BusyInd
<1> QED BY <1>3, <1>4, <1>5, <1>6, <1>7, <1>8 DEF BatchStep

\* A step of an escape that neither clears the file nor ends the test of it.
LEMMA FileFrame ==
    ASSUME BusyTypeOK, NEW f \in Files, NEW c \in Callers, NEW place,
           FileInv(f), at' = [at EXCEPT ![c] = place], UNCHANGED <<task, batch>>,
           \/ task[c].file # f
           \/ at[c] # "start" /\ (at[c] \in {"check", "clear", "set"} => place \in {"check", "clear", "set"}),
           Range(sync) \subseteq Range(sync'), f \in signalled => f \in signalled', missed \subseteq missed'
    PROVE  FileInv(f)'
<1>1. ASSUME Asked(f)' PROVE Asked(f)
  <2>1. PICK d \in Callers : at'[d] # "start" /\ task[d].file = f
    BY <1>1 DEF Asked
  <2>2. CASE d = c
    BY <2>1, <2>2 DEF Asked
  <2>3. CASE d # c
    BY <2>1, <2>3 DEF Asked, BusyTypeOK
  <2> QED BY <2>2, <2>3
<1>2. ASSUME Testing(f) PROVE Testing(f)'
  <2>1. PICK d \in Callers : at[d] \in {"check", "clear", "set"} /\ task[d].file = f
    BY <1>2 DEF Testing
  <2>2. at'[d] \in {"check", "clear", "set"}
    BY <2>1 DEF BusyTypeOK
  <2> QED BY <2>1, <2>2 DEF Testing
<1> QED BY <1>1, <1>2 DEF FileInv, Quiet

\* The RESOURCE_BUSY escape: while it tests is_busy its file may be forgotten, so it
\* sets the file itself, or clears it only while somebody is going to.
LEMMA EscapeStepKeeps ==
    ASSUME BusyEventsAssumption, BusyInd, NEW c \in Callers, EscapeStep(c)
    PROVE  BusyInd'
<1>1. BusyTypeOK /\ count = Cardinality(Marked) /\ EventInv /\ count \in Nat
  BY MarkedFinite DEF BusyInd
<1>2. \A f \in Files : refs[f] = Attachments(f) /\ FileInv(f)
  BY DEF BusyInd
<1>3. UNCHANGED <<task, batch, count, idle>>
  BY DEF EscapeStep, Attach, WithoutFile, CheckFile, ClearFile, SetFile, Wait, WakeIdle, Recheck, Report,
         allocation
<1>4. PICK place : /\ at' = [at EXCEPT ![c] = place]
                   /\ place \in {"check", "clear", "set", "wait", "blocked", "awake", "report", "done"}
                   /\ place = "blocked" => count > 0
  BY DEF EscapeStep, Attach, WithoutFile, CheckFile, ClearFile, SetFile, Wait, WakeIdle, Recheck, Report,
         AfterFile, Goto, IsBusy
<1>5. Marked' = Marked /\ (Used' <=> Used) /\ (SettingIdle' <=> SettingIdle) /\ (Quiet' <=> Quiet)
  BY <1>3 DEF Marked, Used, SettingIdle, Quiet
<1>6. EventInv'
  <2>1. count > 0 => Used
    <3>1. ASSUME count > 0 PROVE Marked # {}
      BY <1>1, <3>1, MarkedFinite, SMTT(30)
    <3> QED BY <3>1 DEF Marked, Used
  <2>2. \A d \in Callers : at'[d] = "blocked" => at[d] = "blocked" \/ count > 0
    BY <1>1, <1>4 DEF BusyTypeOK
  <2> QED BY <1>1, <1>3, <1>5, <2>1, <2>2 DEF EventInv
<1>7. at' \in [Callers -> {"start", "check", "clear", "set", "wait", "blocked", "awake", "report", "done"}]
  BY <1>1, <1>4 DEF BusyTypeOK
<1>8. ASSUME UNCHANGED <<sync, refs>>, \A f \in Files : FileInv(f)'
      PROVE  BusyInd'
  BY <1>1, <1>2, <1>3, <1>5, <1>6, <1>7, <1>8 DEF BusyInd, BusyTypeOK, Attachments
<1>9. CASE Attach(c)
  <2> DEFINE file == task[c].file
  <2>1. /\ sync' = Append(sync, file) /\ file \in Files /\ refs' = [refs EXCEPT ![file] = @ + 1]
        /\ at'[c] = "check" /\ UNCHANGED <<signalled, missed>> /\ at[c] = "start"
    BY <1>1, <1>9, <1>7 DEF Attach, Goto, BusyTypeOK
  <2>2. sync \in Seq(Files)
    BY <1>1 DEF BusyTypeOK
  <2>3. sync' \in Seq(Files) /\ Len(sync') = Len(sync) + 1 /\ Range(sync') = Range(sync) \cup {file}
    <3>1. /\ Append(sync, file) \in Seq(Files) /\ Len(Append(sync, file)) = Len(sync) + 1
          /\ Range(Append(sync, file)) = Range(sync) \cup {file}
      BY <2>1, <2>2, AppendRange
    <3> QED BY <2>1, <3>1
  <2>4. \A i \in 1 .. Len(sync) : sync'[i] = sync[i]
    BY <2>1, <2>2, SMTT(30)
  <2>5. sync'[Len(sync) + 1] = file /\ Len(sync) \in Nat
    BY <2>1, <2>2, SMTT(30)
  <2>6. ASSUME NEW f \in Files PROVE refs'[f] = Attachments(f)'
    <3> DEFINE S == {i \in 1 .. Len(sync) : sync[i] = f}
    <3>1. IsFiniteSet(S) /\ Cardinality(S) = refs[f] /\ refs[f] \in Nat
      BY <1>2, <2>2, AttachmentsType DEF Attachments
    <3>2. 1 .. Len(sync') = (1 .. Len(sync)) \cup {Len(sync) + 1} /\ Len(sync) + 1 \notin 1 .. Len(sync)
      BY <2>3, <2>5, SMTT(30)
    <3>3. CASE f = file
      <4>1. {i \in 1 .. Len(sync') : sync'[i] = f} = S \cup {Len(sync) + 1} /\ Len(sync) + 1 \notin S
        BY <3>2, <3>3, <2>4, <2>5
      <4>2. Cardinality(S \cup {Len(sync) + 1}) = refs[f] + 1
        BY <3>1, <4>1, FS_AddElement
      <4>3. refs'[f] = refs[f] + 1
        BY <1>1, <2>1, <3>3 DEF BusyTypeOK
      <4> QED BY <4>1, <4>2, <4>3 DEF Attachments
    <3>4. CASE f # file
      <4>1. {i \in 1 .. Len(sync') : sync'[i] = f} = S
        BY <3>2, <3>4, <2>4, <2>5
      <4>2. refs'[f] = refs[f]
        BY <1>1, <2>1, <3>4 DEF BusyTypeOK
      <4> QED BY <3>1, <4>1, <4>2 DEF Attachments
    <3> QED BY <3>3, <3>4
  <2>7. ASSUME NEW f \in Files PROVE FileInv(f)'
    <3>1. CASE f = file
      BY <2>1, <3>1, <1>3 DEF FileInv, Testing
    <3>2. CASE f # file
      BY <1>1, <1>2, <1>3, <1>4, <2>1, <2>3, <3>2, FileFrame
    <3> QED BY <3>1, <3>2
  <2>8. refs' \in [Files -> Int]
    BY <1>1, <2>1, SMTT(30) DEF BusyTypeOK
  <2> QED BY <1>1, <1>3, <1>5, <1>6, <1>7, <2>3, <2>6, <2>7, <2>8 DEF BusyInd, BusyTypeOK
<1>10. CASE CheckFile(c)
  <2>1. /\ UNCHANGED <<sync, refs, signalled, missed>> /\ at[c] = "check" /\ at'[c] \in {"clear", "set"}
        /\ at'[c] = place
    BY <1>1, <1>4, <1>10 DEF CheckFile, Goto, allocation, userEvents, BusyTypeOK
  <2>2. \A f \in Files : FileInv(f)'
    BY <1>1, <1>2, <1>3, <1>4, <2>1, FileFrame
  <2> QED BY <1>8, <2>1, <2>2
<1>11. CASE ClearFile(c)
  <2>1. /\ UNCHANGED <<sync, refs>> /\ signalled' = signalled \ {task[c].file}
        /\ missed' = IF task[c].file \in Range(sync) /\ ~Quiet THEN missed ELSE missed \cup {task[c].file}
    BY <1>11 DEF ClearFile, allocation
  <2>2. ASSUME NEW f \in Files PROVE FileInv(f)'
    <3>1. CASE task[c].file = f
      <4>1. f \in missed' \/ (f \in Range(sync') /\ ~Quiet')
        BY <2>1, <3>1, <1>5
      <4> QED BY <4>1 DEF FileInv
    <3>2. CASE task[c].file # f
      BY <1>1, <1>2, <1>3, <1>4, <2>1, <3>2, FileFrame
    <3> QED BY <3>1, <3>2
  <2> QED BY <1>8, <2>1, <2>2
<1>12. CASE SetFile(c)
  <2>1. UNCHANGED <<sync, refs, missed>> /\ signalled' = signalled \cup {task[c].file}
    BY <1>12 DEF SetFile, allocation
  <2>2. ASSUME NEW f \in Files PROVE FileInv(f)'
    <3>1. CASE task[c].file = f
      BY <2>1, <3>1 DEF FileInv
    <3>2. CASE task[c].file # f
      BY <1>1, <1>2, <1>3, <1>4, <2>1, <3>2, FileFrame
    <3> QED BY <3>1, <3>2
  <2> QED BY <1>8, <2>1, <2>2
<1>13. CASE WithoutFile(c) \/ Wait(c) \/ WakeIdle(c) \/ Recheck(c) \/ Report(c)
  <2>1. /\ UNCHANGED <<sync, refs, signalled, missed>>
        /\ task[c].file = NoFile \/ at[c] \in {"wait", "blocked", "awake", "report"}
    BY <1>13 DEF WithoutFile, Wait, WakeIdle, Recheck, Report, allocation, userEvents
  <2>2. \A f \in Files : FileInv(f)'
    BY <1>1, <1>2, <1>3, <1>4, <2>1, FileFrame DEF BusyEventsAssumption
  <2> QED BY <1>8, <2>1, <2>2
<1> QED BY <1>9, <1>10, <1>11, <1>12, <1>13 DEF EscapeStep

\* For any set of escapes and any finite set of batches, however mark_busy, mark_free
\* and the escapes interleave: the busy count is exact, every file that was asked for is
\* set or will be, and so is the event.
THEOREM BusyInductive == ASSUME BusyEventsAssumption PROVE BusySpec => []BusyInd
<1>1. BusyInit => BusyInd
  <2> SUFFICES ASSUME BusyInit PROVE BusyInd
    OBVIOUS
  <2>1. sync = <<>> /\ sync \in Seq(Files) /\ refs \in [Files -> Int] /\ count = 0
    BY SMTT(30) DEF BusyInit
  <2>2. BusyTypeOK
    BY <2>1 DEF BusyInit, BusyTypeOK, BusyEventsAssumption
  <2>3. Marked = {} /\ Cardinality(Marked) = 0
    BY FS_EmptySet DEF BusyInit, Marked
  <2>4. EventInv
    BY DEF BusyInit, EventInv, Used
  <2>5. ASSUME NEW f \in Files PROVE refs[f] = Attachments(f)
    <3>1. {i \in 1 .. Len(sync) : sync[i] = f} = {}
      BY <2>1, SMTT(30)
    <3> QED BY <3>1, FS_EmptySet DEF Attachments, BusyInit
  <2>6. \A f \in Files : FileInv(f)
    BY DEF BusyInit, FileInv, Asked
  <2> QED BY <2>1, <2>2, <2>3, <2>4, <2>5, <2>6 DEF BusyInd
<1>2. BusyInd /\ [BusyNext]_busyVars => BusyInd'
  <2> SUFFICES ASSUME BusyInd, [BusyNext]_busyVars PROVE BusyInd'
    OBVIOUS
  <2>1. CASE BusyNext
    BY <2>1, BatchStepKeeps, EscapeStepKeeps DEF BusyNext
  <2>2. CASE UNCHANGED busyVars
    BY <2>2 DEF BusyInd, BusyTypeOK, Marked, EventInv, Used, SettingIdle, Attachments, FileInv, Asked,
                Testing, Quiet, busyVars, allocation, userEvents
  <2> QED BY <2>1, <2>2
<1> QED BY <1>1, <1>2, PTL DEF BusySpec

\* Whoever waits for an allocation to become idle hears of it (Allocation::mark_free): a
\* sync file is referenced as often as it is listed and is set when no batch uses the
\* allocation any more, unless an escape cleared it on a stale is_busy; and a blocked
\* wait finds the event set, or the batch that sets it.
THEOREM IdleHeard == ASSUME BusyEventsAssumption PROVE BusySpec => []IdleSignalled
<1>1. BusyInd => IdleSignalled
  <2> SUFFICES ASSUME BusyInd PROVE IdleSignalled
    OBVIOUS
  <2>1. FilesSignalled
    <3>1. \A f \in Files : refs[f] = Attachments(f)
      BY DEF BusyInd
    <3>2. ASSUME Quiet, \A c \in Callers : at[c] \notin {"check", "clear", "set"},
                 NEW d \in Callers, at[d] # "start", task[d].file # NoFile
          PROVE  task[d].file \in signalled \cup missed
      <4>1. task[d].file \in Files
        BY <3>2 DEF BusyInd, BusyTypeOK
      <4>2. Asked(task[d].file) /\ ~Testing(task[d].file)
        BY <3>2 DEF Asked, Testing
      <4> QED BY <3>2, <4>1, <4>2 DEF BusyInd, FileInv
    <3> QED BY <3>1, <3>2 DEF FilesSignalled
  <2>2. WaitersWoken
    <3>1. ~IsBusy => count = 0
      BY MarkedFinite, SMTT(30) DEF BusyInd, IsBusy
    <3> QED BY <3>1 DEF WaitersWoken, BusyInd, EventInv, SettingIdle
  <2> QED BY <2>1, <2>2 DEF IdleSignalled
<1> QED BY <1>1, BusyInductive, PTL
=============================================================================
