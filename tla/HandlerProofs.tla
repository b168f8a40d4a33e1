--------------------------- MODULE HandlerProofs ----------------------------
(***************************************************************************)
(* Proofs about what the handler thread of the GPU driver works on.        *)
(*                                                                         *)
(* QueueHandler, for queues of any size and any number of requests: the    *)
(* handler thread never sleeps for good on a response of either queue, nor *)
(* on a control request while a slot is free.                              *)
(*                                                                         *)
(* FenceSubmissions, for any number of calling threads, of virtio fences   *)
(* and of WDDM fences: a WDDM fence is completed only after the response   *)
(* for its virtio fence, and, until a submission times out, no ready       *)
(* submission is forgotten in the vector.                                  *)
(***************************************************************************)
EXTENDS QueueHandler, FenceSubmissions, TLAPS

\* Zenon first: the leaves that need arithmetic, records or sequences name SMT.
USE ZenonT(30), SMTT(30)

-----------------------------------------------------------------------------
(* QueueHandler: what the loop knows.                                      *)

\* What the loop can have before it.  The responses of the control queue are always
\* followed by a look at its requests.
Todos ==
    {<<>>} \cup {<<<<"requests", q>>>> : q \in Queues}
           \cup {<<<<"responses", q>>, <<"requests", q>>>> : q \in Queues}
           \cup {<<<<"responses", "cursor">>>>}

Does(op, q) == \E k \in DOMAIN todo : todo[k] = <<op, q>>

\* A response that waits will be looked for: the interrupt, the DPC, the event or the
\* loop is on its way.
ResponseInv(q) ==
    used[q] > 0 => \/ "queue" \in isr \/ (dpc /\ "queue" \in irq)
                   \/ Irq(q) \in events \/ Does("responses", q)

\* A control request that could be sent will be looked for.
RequestInv ==
    chan["control"] > 0 /\ Free("control") > 0 /\ state # "dropped" =>
        \/ signalling["control"] > 0 \/ Msg("control") \in events
        \/ Irq("control") \in events \/ Does("requests", "control")

HandlerInd ==
    /\ HandlerTypeOK /\ kicks \in Nat /\ configs \in Nat /\ todo \in Todos
    /\ \A q \in Queues : ResponseInv(q)
    /\ RequestInv

-----------------------------------------------------------------------------
(* The events and the loop's list.                                         *)

\* The events of the select! list.
LEMMA Events ==
    /\ Range(Select) = {Irq("control"), Msg("control"), Irq("cursor"), Msg("cursor"), Config, Stop}
    /\ \A q \in Queues : Irq(q) \in Range(Select) /\ Msg(q) \in Range(Select)
<1>1. DOMAIN Select = 1 .. 6
  BY SMTT(30) DEF Select
<1>2. /\ Select[1] = Irq("control") /\ Select[2] = Msg("control") /\ Select[3] = Irq("cursor")
      /\ Select[4] = Msg("cursor") /\ Select[5] = Config /\ Select[6] = Stop
  BY DEF Select
<1>3. DOMAIN Select = {1, 2, 3, 4, 5, 6}
  BY <1>1, SMTT(30)
<1>4. Range(Select) = {Select[i] : i \in DOMAIN Select}
  BY DEF Range
<1>5. Range(Select) = {Irq("control"), Msg("control"), Irq("cursor"), Msg("cursor"), Config, Stop}
  BY <1>2, <1>3, <1>4, SMTT(30)
<1> QED BY <1>5 DEF Queues

\* The branch of the loop that each event takes.
LEMMA Branches ==
    ASSUME NEW e \in Range(Select)
    PROVE  /\ Work(e) \in Todos
           /\ \A q \in Queues : e = Irq(q) => Work(e) = <<<<"responses", q>>, <<"requests", q>>>>
           /\ e = Msg("control") => Work(e) = <<<<"requests", "control">>>>
<1> USE DEF Queues
<1>1. \A q \in Queues : Work(Irq(q)) = <<<<"responses", q>>, <<"requests", q>>>>
  <2> TAKE q \in Queues
  <2>1. /\ Irq(q)[1] = q /\ Irq(q)[2] = "irq" /\ Irq(q) # Config
        /\ Irq(q) # Msg("control") /\ Irq(q) # Msg("cursor")
    BY DEF Irq, Msg, Config
  <2> QED BY <2>1 DEF Work
<1>2. Work(Msg("control")) = <<<<"requests", "control">>>>
  BY DEF Work, Msg
<1>3. Work(Msg("cursor")) = <<<<"responses", "cursor">>>>
  BY DEF Work, Msg
<1>4. Work(Config) = <<>> /\ Work(Stop) = <<>>
  BY DEF Work, Msg, Config, Stop
<1> QED BY <1>1, <1>2, <1>3, <1>4, Events DEF Todos

\* The list is one of operations and queues.
LEMMA TodosTyped == Todos \subseteq Seq({"responses", "requests"} \X Queues)
<1> SUFFICES ASSUME NEW x \in Todos PROVE x \in Seq({"responses", "requests"} \X Queues)
  OBVIOUS
<1>s. PICK S : S = {"responses", "requests"} \X Queues
  OBVIOUS
<1>1. \A q \in Queues : <<"responses", q>> \in S /\ <<"requests", q>> \in S
  BY <1>s
<1>2. CASE x = <<>>
  BY <1>2, SMTT(30)
<1>3. CASE \E q \in Queues : x = <<<<"requests", q>>>>
  BY <1>1, <1>3, <1>s, SMTT(30)
<1>4. CASE \E q \in Queues : x = <<<<"responses", q>>, <<"requests", q>>>>
  BY <1>1, <1>4, <1>s, SMTT(30)
<1>5. CASE x = <<<<"responses", "cursor">>>>
  BY <1>1, <1>5, <1>s, SMTT(30) DEF Queues
<1> QED BY <1>2, <1>3, <1>4, <1>5 DEF Todos

\* Taking the first entry of the list leaves the others.
LEMMA TodoTail ==
    ASSUME todo \in Todos, todo # <<>>, todo' = Tail(todo)
    PROVE  /\ todo' \in Todos
           /\ \A op \in {"responses", "requests"}, q \in Queues :
                 Does(op, q) /\ Head(todo) # <<op, q>> => Does(op, q)'
           /\ \A q \in Queues : Head(todo) = <<"responses", q>> /\ q = "control" => Does("requests", q)'
<1>1. CASE \E q \in Queues : todo = <<<<"requests", q>>>>
  BY <1>1, SMTT(30) DEF Todos, Does
<1>2. CASE \E q \in Queues : todo = <<<<"responses", q>>, <<"requests", q>>>>
  <2>1. PICK q \in Queues : todo = <<<<"responses", q>>, <<"requests", q>>>>
    BY <1>2
  <2>2. todo' = <<<<"requests", q>>>>
    BY <2>1, SMTT(30)
  <2>3. DOMAIN todo = {1, 2} /\ todo[1] = <<"responses", q>> /\ todo[2] = <<"requests", q>> /\ Head(todo) = todo[1]
    BY <2>1, SMTT(30)
  <2>4. 1 \in DOMAIN todo' /\ todo'[1] = <<"requests", q>>
    BY <2>2, SMTT(30)
  <2>5. todo' \in Todos
    BY <2>2 DEF Todos
  <2>6. Does("requests", q)' /\ \A op, u : Does(op, u) => <<op, u>> \in {<<"responses", q>>, <<"requests", q>>}
    BY <2>3, <2>4 DEF Does
  <2> QED BY <2>3, <2>5, <2>6, SMTT(30)
<1>3. CASE todo = <<<<"responses", "cursor">>>>
  BY <1>3, SMTT(30) DEF Todos, Does
<1> QED BY <1>1, <1>2, <1>3 DEF Todos

-----------------------------------------------------------------------------
(* Callers, device, interrupt and DPC.                                     *)

\* Events are only added, and nothing is taken from the loop: what was on its way
\* still is.
LEMMA AddsEvents ==
    ASSUME HandlerInd, events \subseteq events', events' \subseteq Range(Select),
           UNCHANGED <<chan, busy, used, isr, irq, dpc, todo, state>>,
           UNCHANGED signalling \/ Msg("control") \in events',
           requested' \in [Queues -> Nat], signalling' \in [Queues -> Nat],
           kicks' \in Nat, configs' \in Nat, kicks' + configs' \in 0 .. MaxEvents
    PROVE  HandlerInd'
<1>1. HandlerTypeOK' /\ todo' \in Todos
  BY DEF HandlerInd, HandlerTypeOK, Free
<1>2. \A q \in Queues : ResponseInv(q)'
  BY DEF HandlerInd, ResponseInv, Does
<1>3. RequestInv'
  BY DEF HandlerInd, RequestInv, Does, Free
<1> QED BY <1>1, <1>2, <1>3 DEF HandlerInd

LEMMA PushKeeps ==
    ASSUME QueueHandlerAssumption, HandlerInd, NEW q \in Queues, Push(q)
    PROVE  HandlerInd'
<1>1. /\ requested' = [requested EXCEPT ![q] = requested[q] + 1] /\ chan' = [chan EXCEPT ![q] = chan[q] + 1]
      /\ signalling' = [signalling EXCEPT ![q] = signalling[q] + 1]
      /\ UNCHANGED <<busy, used, isr, irq, dpc, kicks, configs, events, todo, state>>
  BY DEF Push, hardware
<1>2. requested[q] \in Nat /\ chan[q] \in Nat /\ signalling[q] \in Nat /\ signalling \in [Queues -> Nat]
      /\ chan \in [Queues -> Nat]
  BY DEF HandlerInd, HandlerTypeOK
<1>3. HandlerTypeOK' /\ todo' \in Todos
  <2>1. requested' \in [Queues -> Nat] /\ chan' \in [Queues -> Nat] /\ signalling' \in [Queues -> Nat]
    BY <1>1, <1>2, SMTT(30) DEF HandlerInd, HandlerTypeOK
  <2>2. \A u \in Queues : Free(u)' = Free(u)
    BY <1>1 DEF Free
  <2> QED BY <2>1, <2>2, <1>1 DEF HandlerInd, HandlerTypeOK
<1>4. \A u \in Queues : ResponseInv(u)'
  BY <1>1 DEF HandlerInd, ResponseInv, Does
<1>5. signalling'["control"] > 0 \/ (chan'["control"] = chan["control"] /\ signalling'["control"] = signalling["control"])
  BY <1>1, <1>2, SMTT(30) DEF Queues
<1>6. RequestInv'
  BY <1>1, <1>5 DEF HandlerInd, RequestInv, Does, Free
<1> QED BY <1>1, <1>3, <1>4, <1>6 DEF HandlerInd

LEMMA SetEventKeeps ==
    ASSUME QueueHandlerAssumption, HandlerInd, NEW q \in Queues, SignalEvent(q)
    PROVE  HandlerInd'
<1>1. /\ signalling[q] > 0 /\ signalling' = [signalling EXCEPT ![q] = signalling[q] - 1]
      /\ events' = events \cup {Msg(q)}
      /\ UNCHANGED <<requested, chan, busy, used, isr, irq, dpc, kicks, configs, todo, state>>
  BY DEF SignalEvent, hardware
<1>2. signalling[q] \in Nat /\ signalling \in [Queues -> Nat] /\ events \subseteq Range(Select)
  BY DEF HandlerInd, HandlerTypeOK
<1>3. HandlerTypeOK' /\ todo' \in Todos
  <2>1. signalling' \in [Queues -> Nat]
    BY <1>1, <1>2, SMTT(30)
  <2>2. \A u \in Queues : Free(u)' = Free(u)
    BY <1>1 DEF Free
  <2>3. events' \subseteq Range(Select)
    BY <1>1, <1>2, Events
  <2> QED BY <2>1, <2>2, <2>3, <1>1 DEF HandlerInd, HandlerTypeOK
<1>4. \A u \in Queues : ResponseInv(u)'
  BY <1>1 DEF HandlerInd, ResponseInv, Does
<1>5. Msg("control") \in events' \/ signalling'["control"] = signalling["control"]
  BY <1>1, <1>2 DEF Queues
<1>6. RequestInv'
  BY <1>1, <1>5 DEF HandlerInd, RequestInv, Does, Free
<1> QED BY <1>1, <1>3, <1>4, <1>6 DEF HandlerInd

LEMMA KickKeeps ==
    ASSUME QueueHandlerAssumption, HandlerInd, ChannelKick \/ HandlerKick
    PROVE  HandlerInd'
<1>1. kicks \in Nat /\ configs \in Nat /\ MaxEvents \in Nat /\ events \subseteq Range(Select)
      /\ requested \in [Queues -> Nat] /\ signalling \in [Queues -> Nat]
  BY DEF QueueHandlerAssumption, HandlerInd, HandlerTypeOK
<1>2. /\ kicks + configs < MaxEvents /\ kicks' = kicks + 1
      /\ UNCHANGED <<requested, signalling, chan, busy, used, isr, irq, dpc, configs, todo, state>>
  BY DEF ChannelKick, HandlerKick, hardware
<1>3. kicks' \in Nat /\ kicks' + configs' \in 0 .. MaxEvents
  BY <1>1, <1>2, SMTT(30)
<1>4. events \subseteq events' /\ events' \subseteq Range(Select)
  BY <1>1, Events DEF ChannelKick, HandlerKick
<1> QED BY <1>1, <1>2, <1>3, <1>4, AddsEvents

LEMMA DeviceUseKeeps ==
    ASSUME QueueHandlerAssumption, HandlerInd, NEW q \in Queues, DeviceUse(q)
    PROVE  HandlerInd'
<1>1. /\ busy[q] > 0 /\ busy' = [busy EXCEPT ![q] = busy[q] - 1] /\ used' = [used EXCEPT ![q] = used[q] + 1]
      /\ isr' = isr \cup {"queue"}
      /\ UNCHANGED <<requested, chan, signalling, irq, dpc, kicks, configs, events, todo, state>>
  BY DEF DeviceUse, callers
<1>2. /\ SIZE \in Nat /\ busy \in [Queues -> 0 .. SIZE] /\ used \in [Queues -> 0 .. SIZE]
      /\ SIZE - busy[q] - used[q] \in 0 .. SIZE
  BY DEF QueueHandlerAssumption, HandlerInd, HandlerTypeOK, Free
<1>3. busy[q] - 1 \in 0 .. SIZE /\ used[q] + 1 \in 0 .. SIZE
  BY <1>1, <1>2, SMTT(30)
<1>4. busy' \in [Queues -> 0 .. SIZE] /\ used' \in [Queues -> 0 .. SIZE]
  BY <1>1, <1>2, <1>3
<1>5. \A u \in Queues : Free(u)' = Free(u)
  <2> TAKE u \in Queues
  <2>1. CASE u = q
    BY <2>1, <1>1, <1>2, SMTT(30) DEF Free
  <2>2. CASE u # q
    BY <2>2, <1>1, <1>2 DEF Free
  <2> QED BY <2>1, <2>2
<1>6. HandlerTypeOK' /\ todo' \in Todos
  BY <1>1, <1>4, <1>5 DEF HandlerInd, HandlerTypeOK
<1>7. \A u \in Queues : ResponseInv(u)'
  BY <1>1 DEF ResponseInv
<1>8. RequestInv'
  BY <1>1, <1>5 DEF HandlerInd, RequestInv, Does, Queues
<1> QED BY <1>1, <1>6, <1>7, <1>8 DEF HandlerInd

\* A configuration change and the interrupt it leads to.
LEMMA InterruptKeeps ==
    ASSUME QueueHandlerAssumption, HandlerInd, DeviceConfig \/ AckInterrupt \/ HandleDpc
    PROVE  HandlerInd'
<1>1. /\ UNCHANGED <<requested, chan, signalling, busy, used, kicks, todo, state>>
      /\ events \subseteq events'
  BY DEF DeviceConfig, AckInterrupt, HandleDpc, callers, hardware
<1>2. /\ kicks \in Nat /\ configs \in Nat /\ MaxEvents \in Nat /\ events \subseteq Range(Select)
      /\ isr \subseteq {"queue", "config"} /\ irq \subseteq {"queue", "config"}
  BY DEF QueueHandlerAssumption, HandlerInd, HandlerTypeOK
<1>3. /\ configs' \in Nat /\ kicks' + configs' \in 0 .. MaxEvents
  <2>1. CASE DeviceConfig
    BY <2>1, <1>2, SMTT(30) DEF DeviceConfig, callers
  <2>2. CASE AckInterrupt \/ HandleDpc
    BY <2>2, <1>1 DEF AckInterrupt, HandleDpc, hardware, HandlerInd, HandlerTypeOK
  <2> QED BY <2>1, <2>2
<1>4. /\ isr' \subseteq {"queue", "config"} /\ irq' \subseteq {"queue", "config"}
      /\ dpc' \in BOOLEAN /\ events' \subseteq Range(Select)
  <2>1. CASE DeviceConfig
    BY <2>1, <1>2 DEF DeviceConfig, HandlerInd, HandlerTypeOK
  <2>2. CASE AckInterrupt
    BY <2>2, <1>2 DEF AckInterrupt
  <2>3. CASE HandleDpc
    BY <2>3, <1>2, Events DEF HandleDpc, hardware
  <2> QED BY <2>1, <2>2, <2>3
<1>5. HandlerTypeOK' /\ todo' \in Todos
  BY <1>1, <1>3, <1>4 DEF HandlerInd, HandlerTypeOK, Free
<1>6. \A q \in Queues : ResponseInv(q)'
  <2>1. CASE DeviceConfig
    BY <2>1, <1>1 DEF DeviceConfig, HandlerInd, ResponseInv, Does
  <2>2. CASE AckInterrupt
    <3>1. irq' = irq \cup isr /\ dpc' = TRUE
      BY <2>2 DEF AckInterrupt
    <3> QED BY <3>1, <1>1 DEF HandlerInd, ResponseInv, Does
  <2>3. CASE HandleDpc
    <3>1. "queue" \in irq => \A q \in Queues : Irq(q) \in events'
      BY <2>3 DEF HandleDpc
    <3>2. isr' = isr
      BY <2>3 DEF HandleDpc, hardware
    <3> QED BY <3>1, <3>2, <1>1 DEF HandlerInd, ResponseInv, Does
  <2> QED BY <2>1, <2>2, <2>3
<1>7. RequestInv'
  BY <1>1 DEF HandlerInd, RequestInv, Does, Free
<1> QED BY <1>1, <1>2, <1>3, <1>5, <1>6, <1>7 DEF HandlerInd

-----------------------------------------------------------------------------
(* The loop.                                                               *)

\* The event that is taken becomes work.
LEMMA WakeKeeps ==
    ASSUME QueueHandlerAssumption, HandlerInd, NEW e \in Range(Select), WakeThread(e)
    PROVE  HandlerInd'
<1>1. /\ todo = <<>> /\ events' = events \ {e} /\ todo' = Work(e)
      /\ UNCHANGED <<requested, signalling, kicks, chan, busy, isr, configs, used, irq, dpc, state>>
  BY DEF WakeThread, Waiting, callers, hardware
<1>2. todo' \in Todos
  BY <1>1, Branches
<1>3. \A q \in Queues : e = Irq(q) => Does("responses", q)' /\ Does("requests", q)'
  <2> TAKE q \in Queues
  <2>1. ASSUME todo' = <<<<"responses", q>>, <<"requests", q>>>>
        PROVE  Does("responses", q)' /\ Does("requests", q)'
    <3>1. 1 \in DOMAIN todo' /\ 2 \in DOMAIN todo'
          /\ todo'[1] = <<"responses", q>> /\ todo'[2] = <<"requests", q>>
      BY <2>1, SMTT(30)
    <3> QED BY <3>1 DEF Does
  <2> QED BY <2>1, <1>1, Branches
<1>4. e = Msg("control") => Does("requests", "control")'
  <2>1. ASSUME todo' = <<<<"requests", "control">>>> PROVE Does("requests", "control")'
    <3>1. 1 \in DOMAIN todo' /\ todo'[1] = <<"requests", "control">>
      BY <2>1, SMTT(30)
    <3> QED BY <3>1 DEF Does
  <2> QED BY <2>1, <1>1, Branches
<1>5. \A op, q : ~Does(op, q)
  BY <1>1, SMTT(30) DEF Does
<1>6. HandlerTypeOK'
  <2>1. todo' \in Seq({"responses", "requests"} \X Queues)
    BY <1>2, TodosTyped
  <2>2. \A q \in Queues : Free(q)' = Free(q)
    BY <1>1 DEF Free
  <2>3. events' \subseteq Range(Select)
    BY <1>1 DEF HandlerInd, HandlerTypeOK
  <2> QED BY <2>1, <2>2, <2>3, <1>1 DEF HandlerInd, HandlerTypeOK
<1>7. \A q \in Queues : ResponseInv(q)'
  BY <1>1, <1>3, <1>5 DEF HandlerInd, ResponseInv
<1>8. RequestInv'
  <2>1. Free("control")' = Free("control")
    BY <1>1 DEF Free
  <2> QED BY <2>1, <1>1, <1>3, <1>4, <1>5 DEF HandlerInd, RequestInv, Queues
<1> QED BY <1>1, <1>2, <1>6, <1>7, <1>8 DEF HandlerInd

\* A response is taken; the look at the requests that follows will see the slot.
LEMMA ResponseKeeps ==
    ASSUME QueueHandlerAssumption, HandlerInd, NEW q \in Queues, Response(q)
    PROVE  HandlerInd'
<1>1. /\ todo # <<>> /\ Head(todo) = <<"responses", q>> /\ used[q] > 0
      /\ used' = [used EXCEPT ![q] = used[q] - 1]
      /\ UNCHANGED <<requested, signalling, kicks, chan, busy, isr, configs, irq, dpc, events, todo, state>>
  BY DEF Response, Doing, callers, hardware
<1>2. /\ SIZE \in Nat /\ busy \in [Queues -> 0 .. SIZE] /\ used \in [Queues -> 0 .. SIZE]
      /\ SIZE - busy[q] - used[q] \in 0 .. SIZE
  BY DEF QueueHandlerAssumption, HandlerInd, HandlerTypeOK, Free
<1>3. used' \in [Queues -> 0 .. SIZE] /\ \A u \in Queues \ {q} : used'[u] = used[u]
  BY <1>1, <1>2, SMTT(30)
<1>4. Free(q)' \in 0 .. SIZE /\ \A u \in Queues \ {q} : Free(u)' = Free(u)
  <2>1. used'[q] = used[q] - 1
    BY <1>1, <1>2
  <2>2. SIZE - busy[q] - (used[q] - 1) \in 0 .. SIZE
    BY <1>1, <1>2, SMTT(30)
  <2> QED BY <2>1, <2>2, <1>1, <1>3 DEF Free
<1>5. HandlerTypeOK' /\ todo' \in Todos
  BY <1>1, <1>3, <1>4 DEF HandlerInd, HandlerTypeOK
<1>6. Does("responses", q) /\ (q = "control" => Does("requests", "control"))
  <2>1. CASE \E u \in Queues : todo = <<<<"responses", u>>, <<"requests", u>>>>
    <3>1. todo = <<<<"responses", q>>, <<"requests", q>>>>
      BY <2>1, <1>1, SMTT(30)
    <3>2. 1 \in DOMAIN todo /\ 2 \in DOMAIN todo
          /\ todo[1] = <<"responses", q>> /\ todo[2] = <<"requests", q>>
      BY <3>1, SMTT(30)
    <3> QED BY <3>2 DEF Does
  <2>2. CASE todo = <<<<"responses", "cursor">>>>
    <3>1. q = "cursor" /\ 1 \in DOMAIN todo /\ todo[1] = <<"responses", q>>
      BY <2>2, <1>1, SMTT(30)
    <3> QED BY <3>1 DEF Does
  <2>3. CASE \E u \in Queues : todo = <<<<"requests", u>>>>
    BY <2>3, <1>1, SMTT(30)
  <2> QED BY <2>1, <2>2, <2>3, <1>1 DEF HandlerInd, Todos
<1>7. \A op, u : Does(op, u)' <=> Does(op, u)
  BY <1>1 DEF Does
<1>8. \A u \in Queues : ResponseInv(u)'
  BY <1>1, <1>3, <1>6, <1>7 DEF HandlerInd, ResponseInv
<1>9. RequestInv'
  <2>1. CASE q = "control"
    BY <2>1, <1>6, <1>7 DEF RequestInv
  <2>2. CASE q # "control"
    BY <2>2, <1>1, <1>4, <1>7 DEF HandlerInd, RequestInv, Queues
  <2> QED BY <2>1, <2>2
<1> QED BY <1>1, <1>5, <1>8, <1>9 DEF HandlerInd

\* A request goes to the device.
LEMMA RequestKeeps ==
    ASSUME QueueHandlerAssumption, HandlerInd, NEW q \in Queues, Request(q)
    PROVE  HandlerInd'
<1>1. /\ todo # <<>> /\ Head(todo) = <<"requests", q>> /\ chan[q] > 0 /\ Free(q) > 0
      /\ chan' = [chan EXCEPT ![q] = chan[q] - 1] /\ busy' = [busy EXCEPT ![q] = busy[q] + 1]
      /\ UNCHANGED <<requested, signalling, kicks, used, isr, configs, irq, dpc, events, todo, state>>
  BY DEF Request, Doing, callers
<1>2. /\ SIZE \in Nat /\ busy \in [Queues -> 0 .. SIZE] /\ used \in [Queues -> 0 .. SIZE]
      /\ SIZE - busy[q] - used[q] \in 0 .. SIZE /\ SIZE - busy[q] - used[q] > 0
      /\ chan \in [Queues -> Nat]
  BY <1>1 DEF QueueHandlerAssumption, HandlerInd, HandlerTypeOK, Free
<1>3. busy[q] + 1 \in 0 .. SIZE /\ SIZE - (busy[q] + 1) - used[q] \in 0 .. SIZE /\ chan[q] - 1 \in Nat
  BY <1>1, <1>2, SMTT(30)
<1>4. /\ busy' \in [Queues -> 0 .. SIZE] /\ chan' \in [Queues -> Nat]
      /\ busy'[q] = busy[q] + 1
      /\ \A u \in Queues \ {q} : busy'[u] = busy[u] /\ chan'[u] = chan[u]
  BY <1>1, <1>2, <1>3
<1>5. Free(q)' \in 0 .. SIZE /\ \A u \in Queues \ {q} : Free(u)' = Free(u)
  BY <1>1, <1>3, <1>4 DEF Free
<1>6. HandlerTypeOK' /\ todo' \in Todos
  BY <1>1, <1>4, <1>5 DEF HandlerInd, HandlerTypeOK
<1>7. \A op, u : Does(op, u)' <=> Does(op, u)
  BY <1>1 DEF Does
<1>8. \A u \in Queues : ResponseInv(u)'
  BY <1>1, <1>7 DEF HandlerInd, ResponseInv
<1>9. Does("requests", q)
  <2>s. PICK S : S = {"responses", "requests"} \X Queues
    OBVIOUS
  <2>t. todo \in Seq(S)
    BY <2>s DEF HandlerInd, HandlerTypeOK
  <2>1. 1 \in DOMAIN todo /\ todo[1] = <<"requests", q>>
    BY <1>1, <2>t, SMTT(30)
  <2> QED BY <2>1 DEF Does
<1>10. RequestInv'
  <2>1. CASE q = "control"
    BY <2>1, <1>7, <1>9 DEF RequestInv
  <2>2. CASE q # "control"
    BY <2>2, <1>1, <1>4, <1>5, <1>7 DEF HandlerInd, RequestInv, Queues
  <2> QED BY <2>1, <2>2
<1> QED BY <1>1, <1>6, <1>8, <1>10 DEF HandlerInd

\* An entry of the list is done: its queue has no response, or no request that fits.
LEMMA DoneKeeps ==
    ASSUME QueueHandlerAssumption, HandlerInd, NEW q \in Queues, ResponseNone(q) \/ RequestNone(q)
    PROVE  HandlerInd'
<1>1. /\ todo # <<>> /\ todo' = Tail(todo) /\ todo \in Todos
      /\ UNCHANGED <<requested, signalling, kicks, chan, busy, used, isr, configs, irq, dpc, events, state>>
  BY DEF ResponseNone, RequestNone, Doing, callers, hardware, HandlerInd
<1>2. /\ todo' \in Todos
      /\ \A op \in {"responses", "requests"}, u \in Queues :
            Does(op, u) /\ Head(todo) # <<op, u>> => Does(op, u)'
  BY <1>1, TodoTail
<1>3. \A u \in Queues : Free(u)' = Free(u)
  BY <1>1 DEF Free
<1>4. HandlerTypeOK'
  <2>1. todo' \in Seq({"responses", "requests"} \X Queues)
    BY <1>2, TodosTyped
  <2> QED BY <2>1, <1>1, <1>3 DEF HandlerInd, HandlerTypeOK
<1>5. \/ Head(todo) = <<"responses", q>> /\ used[q] = 0
      \/ Head(todo) = <<"requests", q>> /\ (chan[q] = 0 \/ Free(q) = 0)
  BY DEF ResponseNone, RequestNone, Doing
<1>6. \A u \in Queues : ResponseInv(u)'
  <2> TAKE u \in Queues
  <2>1. CASE Head(todo) = <<"responses", u>>
    <3>1. used[u] = 0
      BY <2>1, <1>5, SMTT(30)
    <3> QED BY <3>1, <1>1, SMTT(30) DEF ResponseInv
  <2>2. CASE Head(todo) # <<"responses", u>>
    <3>1. Does("responses", u) => Does("responses", u)'
      BY <2>2, <1>2
    <3> QED BY <3>1, <1>1 DEF HandlerInd, ResponseInv
  <2> QED BY <2>1, <2>2
<1>7. RequestInv'
  <2>1. CASE Head(todo) = <<"requests", "control">>
    <3>1. chan["control"] = 0 \/ Free("control") = 0
      BY <2>1, <1>5, SMTT(30)
    <3> QED BY <3>1, <1>1, <1>3, SMTT(30) DEF RequestInv, Queues
  <2>2. CASE Head(todo) # <<"requests", "control">>
    <3>1. Does("requests", "control") => Does("requests", "control")'
      BY <2>2, <1>2 DEF Queues
    <3> QED BY <3>1, <1>1, <1>3 DEF HandlerInd, RequestInv, Queues
  <2> QED BY <2>1, <2>2
<1> QED BY <1>1, <1>2, <1>4, <1>6, <1>7 DEF HandlerInd

\* The loop ends, and the queues are taken from the device.
LEMMA DropKeeps ==
    ASSUME QueueHandlerAssumption, HandlerInd, Exit \/ DropStop \/ DropUnset
    PROVE  HandlerInd'
<1>1. UNCHANGED <<requested, signalling, kicks, chan, isr, configs, irq, dpc, todo>>
  BY DEF Exit, DropStop, DropUnset, callers, hardware
<1>2. \A op, u : Does(op, u)' <=> Does(op, u)
  BY <1>1 DEF Does
<1>3. /\ events' \subseteq Range(Select) /\ state' \in {"running", "stopping", "exited", "dropped"}
      /\ \A q \in Queues : (Irq(q) \in events => Irq(q) \in events') /\ (Msg(q) \in events => Msg(q) \in events')
  BY Events DEF Exit, DropStop, DropUnset, HandlerInd, HandlerTypeOK, Irq, Msg, Stop
<1>4. CASE Exit \/ DropStop
  <2>1. UNCHANGED <<busy, used>> /\ state # "dropped"
    BY <1>4 DEF Exit, DropStop, Waiting, hardware
  <2>2. \A q \in Queues : Free(q)' = Free(q)
    BY <2>1 DEF Free
  <2>3. HandlerTypeOK' /\ todo' \in Todos
    BY <2>1, <2>2, <1>1, <1>3 DEF HandlerInd, HandlerTypeOK
  <2>4. \A q \in Queues : ResponseInv(q)'
    BY <2>1, <1>1, <1>2, <1>3 DEF HandlerInd, ResponseInv
  <2>5. RequestInv'
    BY <2>1, <2>2, <1>1, <1>2, <1>3 DEF HandlerInd, RequestInv, Queues
  <2> QED BY <2>3, <2>4, <2>5, <1>1 DEF HandlerInd
<1>5. CASE DropUnset
  <2>1. busy' = [q \in Queues |-> 0] /\ used' = [q \in Queues |-> 0] /\ state' = "dropped"
    BY <1>5 DEF DropUnset
  <2>2. SIZE \in Nat
    BY DEF QueueHandlerAssumption
  <2>3. busy' \in [Queues -> 0 .. SIZE] /\ used' \in [Queues -> 0 .. SIZE]
        /\ \A q \in Queues : Free(q)' \in 0 .. SIZE
    BY <2>1, <2>2, SMTT(30) DEF Free
  <2>4. HandlerTypeOK' /\ todo' \in Todos
    BY <2>3, <1>1, <1>3 DEF HandlerInd, HandlerTypeOK
  <2>5. \A q \in Queues : ResponseInv(q)'
    BY <2>1, SMTT(30) DEF ResponseInv
  <2>6. RequestInv'
    BY <2>1 DEF RequestInv
  <2> QED BY <2>4, <2>5, <2>6, <1>1 DEF HandlerInd
<1> QED BY <1>4, <1>5

-----------------------------------------------------------------------------
(* The theorems.                                                           *)

\* Work that the handler could do always has a wake-up on its way.
THEOREM HandlerInductive == ASSUME QueueHandlerAssumption PROVE HandlerSpec => []HandlerInd
<1>1. HandlerInit => HandlerInd
  <2> SUFFICES ASSUME HandlerInit PROVE HandlerInd
    OBVIOUS
  <2>1. SIZE \in Nat \ {0} /\ MaxEvents \in Nat
    BY DEF QueueHandlerAssumption
  <2>2. /\ requested \in [Queues -> Nat] /\ chan \in [Queues -> Nat] /\ signalling \in [Queues -> Nat]
        /\ busy \in [Queues -> 0 .. SIZE] /\ used \in [Queues -> 0 .. SIZE]
        /\ \A q \in Queues : Free(q) \in 0 .. SIZE
    BY <2>1, SMTT(30) DEF HandlerInit, Free
  <2>3. todo \in Todos /\ todo \in Seq({"responses", "requests"} \X Queues)
    BY SMTT(30) DEF HandlerInit, Todos
  <2>4. HandlerTypeOK /\ kicks \in Nat /\ configs \in Nat
    <3>1. kicks + configs \in 0 .. MaxEvents /\ kicks \in Nat /\ configs \in Nat
      BY <2>1, SMTT(30) DEF HandlerInit
    <3>2. /\ isr \subseteq {"queue", "config"} /\ irq \subseteq {"queue", "config"} /\ dpc \in BOOLEAN
          /\ events \subseteq Range(Select) /\ state \in {"running", "stopping", "exited", "dropped"}
      BY DEF HandlerInit
    <3> QED BY <2>2, <2>3, <3>1, <3>2 DEF HandlerTypeOK
  <2>5. (\A q \in Queues : ResponseInv(q)) /\ RequestInv
    BY SMTT(30) DEF HandlerInit, ResponseInv, RequestInv, Queues
  <2> QED BY <2>3, <2>4, <2>5 DEF HandlerInd
<1>2. QueueHandlerAssumption /\ HandlerInd /\ [HandlerNext]_handlerVars => HandlerInd'
  <2> SUFFICES ASSUME HandlerInd, [HandlerNext]_handlerVars PROVE HandlerInd'
    OBVIOUS
  <2>1. ASSUME NEW q \in Queues, Push(q) \/ SignalEvent(q) \/ DeviceUse(q) PROVE HandlerInd'
    BY <2>1, PushKeeps, SetEventKeeps, DeviceUseKeeps
  <2>2. CASE ChannelKick \/ HandlerKick
    BY <2>2, KickKeeps
  <2>3. CASE DeviceConfig \/ AckInterrupt \/ HandleDpc
    BY <2>3, InterruptKeeps
  <2>4. ASSUME NEW i \in DOMAIN Select, WakeThread(Select[i]) PROVE HandlerInd'
    <3>1. Select[i] \in Range(Select)
      BY DEF Range
    <3> QED BY <3>1, <2>4, WakeKeeps
  <2>5. ASSUME NEW q \in Queues, Response(q) \/ ResponseNone(q) \/ Request(q) \/ RequestNone(q)
        PROVE  HandlerInd'
    BY <2>5, ResponseKeeps, RequestKeeps, DoneKeeps
  <2>6. CASE Exit \/ DropStop \/ DropUnset
    BY <2>6, DropKeeps
  <2>7. CASE UNCHANGED handlerVars
    <3>1. \A q \in Queues : (Free(q)' = Free(q)) /\ (ResponseInv(q)' <=> ResponseInv(q))
      BY <2>7 DEF handlerVars, Free, ResponseInv, Does
    <3>2. RequestInv' <=> RequestInv
      BY <2>7 DEF handlerVars, Free, RequestInv, Does
    <3> QED BY <3>1, <3>2, <2>7 DEF handlerVars, HandlerInd, HandlerTypeOK
  <2> QED BY <2>1, <2>2, <2>3, <2>4, <2>5, <2>6, <2>7 DEF HandlerNext, Loop
<1> QED BY <1>1, <1>2, PTL DEF HandlerSpec

\* The handler thread never sleeps for good on a response in a used ring or on a
\* control request that a free slot could take: interrupts that coincide, events that
\* merge and a queue that was full lose no work (handler_thread_routine).
THEOREM NeverParkedOnWork ==
    ASSUME QueueHandlerAssumption PROVE HandlerSpec => []NoWorkForgotten
<1>1. QueueHandlerAssumption /\ HandlerInd => NoWorkForgotten
  <2> SUFFICES ASSUME HandlerInd PROVE NoWorkForgotten
    OBVIOUS
  <2>1. ASSUME Parked PROVE \A op, q : ~Does(op, q)
    BY <2>1, SMTT(30) DEF Parked, Does
  <2>2. \A q \in Queues : used[q] \in Nat /\ Free(q) \in Nat
    BY SMTT(30) DEF QueueHandlerAssumption, HandlerInd, HandlerTypeOK
  <2>3. ResponsesTaken
    <3> SUFFICES ASSUME Parked, NEW q \in Queues PROVE used[q] = 0
      BY DEF ResponsesTaken
    <3>1. ResponseInv(q) /\ ~Does("responses", q)
      BY <2>1 DEF HandlerInd
    <3>2. isr = {} /\ ~dpc /\ events = {}
      BY DEF Parked
    <3>3. ~(used[q] > 0)
      BY <3>1, <3>2 DEF ResponseInv
    <3> QED BY <2>2, <3>3, SMTT(30)
  <2>4. ControlRequestsSent
    BY <2>1, <2>2, SMTT(30) DEF ControlRequestsSent, Sent, Parked, HandlerInd, RequestInv, Queues
  <2> QED BY <2>3, <2>4 DEF HandlerInd, NoWorkForgotten
<1> QED BY <1>1, HandlerInductive, PTL

-----------------------------------------------------------------------------
(* FenceSubmissions: what the threads know.                                *)

\* A drawn fence is in the set before its request is with the device, and leaves it
\* when the handler reads the response.
SentInv ==
    /\ running \cup answered \subseteq unsignaled /\ running \cap answered = {}
    /\ \A f \in unsignaled : f < next_fence

\* What a thread between two steps of next_fence or of submit_fence knows of its fence.
ThreadInv(t) ==
    /\ stage[t] = "push_unsignaled" => arg[t].virtio \in VirtioFences /\ arg[t].virtio \notin unsignaled
    /\ stage[t] \in {"notify", "push_submission"} => arg[t] \in Submissions
    /\ stage[t] = "notify" => arg[t].virtio \notin unsignaled
    /\ stage[t] \in {"push_unsignaled", "notify", "push_submission"} => arg[t].virtio < next_fence

\* Nobody else is between the two steps of next_fence with the same fence, or already
\* believes it signalled.
ApartInv ==
    \A t, u \in Threads : t # u /\ stage[t] = "push_unsignaled" /\ stage[u] \in {"push_unsignaled", "notify"}
                            => arg[t].virtio # arg[u].virtio

DrawnInv(submissions) ==
    \A k \in 1 .. Len(submissions) : submissions[k].virtio < next_fence

\* Before the first timeout, a thread is on its way to look at any ready submission.
TimelyInv ==
    /\ aged = {} /\ \A t \in Threads : resubmit[t] = <<>>
    /\ DrawnInv(fence_submissions) /\ DrawnInv(scan)
    /\ \/ stage[HandlerThread] = "responses"
       \/ \E t \in Threads : stage[t] = "lock"
       \/ \A k \in 1 .. Len(fence_submissions) : ~Query(fence_submissions[k].virtio)

SubmissionsInd ==
    /\ SubmissionsTypeOK /\ arg \in [Threads -> [dxgk : Nat, virtio : Nat]]
    /\ SentInv /\ ApartInv
    /\ \A t \in Threads : ThreadInv(t)
    /\ timeouts = 0 => TimelyInv

-----------------------------------------------------------------------------
(* next_fence and the device.                                              *)

\* The counter is advanced: the number drawn is in no set and at no thread.
LEMMA NextFenceKeeps ==
    ASSUME FenceSubmissionsAssumption, SubmissionsInd, NEW t \in Callers, NextFence(t)
    PROVE  SubmissionsInd'
<1> USE DEF FenceSubmissionsAssumption, Threads
<1>n. next_fence \in Nat /\ next_fence < MaxFence /\ stage[t] = "idle" /\ next_fence \in VirtioFences
  BY SMTT(30) DEF NextFence, SubmissionsInd, SubmissionsTypeOK, VirtioFences
<1>1. /\ stage' = [stage EXCEPT ![t] = "push_unsignaled"] /\ arg' = [arg EXCEPT ![t].virtio = next_fence]
      /\ next_fence' = next_fence + 1
      /\ UNCHANGED <<unsignaled, queue, device, notified, aged, bounds>>
  BY DEF NextFence, Goto
<1>2. SubmissionsTypeOK' /\ (arg \in [Threads -> [dxgk : Nat, virtio : Nat]])'
  <2>1. arg' \in [Threads -> [dxgk : Nat, virtio : Nat]]
    BY <1>n, <1>1 DEF SubmissionsInd
  <2>2. next_fence' \in 0 .. MaxFence
    BY <1>n, <1>1, SMTT(30)
  <2> QED BY <2>1, <2>2, <1>1 DEF SubmissionsInd, SubmissionsTypeOK, queue, device, bounds
<1>g. \A f \in VirtioFences : f < next_fence => f < next_fence' /\ f # next_fence
  BY <1>n, <1>1, SMTT(30) DEF VirtioFences
<1>3. SentInv'
  <2>1. unsignaled \subseteq VirtioFences
    BY DEF SubmissionsInd, SubmissionsTypeOK
  <2> QED BY <2>1, <1>g, <1>1 DEF SubmissionsInd, SentInv, device
<1>4. arg'[t].virtio = next_fence /\ \A u \in Threads \ {t} : arg'[u] = arg[u] /\ stage'[u] = stage[u]
  BY <1>1 DEF SubmissionsInd, SubmissionsTypeOK
<1>5. \A u \in Threads \ {t} : ThreadInv(u)'
  BY <1>n, <1>1, <1>4, SMTT(30) DEF SubmissionsInd, ThreadInv, Submissions
<1>6. ThreadInv(t)'
  <2>1. next_fence \notin unsignaled
    BY <1>n, SMTT(30) DEF SubmissionsInd, SentInv
  <2>2. stage'[t] = "push_unsignaled"
    BY <1>1 DEF SubmissionsInd, SubmissionsTypeOK
  <2> QED BY <2>1, <2>2, <1>n, <1>1, <1>4, SMTT(30) DEF ThreadInv
<1>7. ApartInv'
  BY <1>n, <1>1, <1>4, SMTT(30) DEF SubmissionsInd, ApartInv, ThreadInv
<1>8. timeouts' = 0 => TimelyInv'
  <2> SUFFICES ASSUME timeouts = 0 PROVE TimelyInv'
    BY <1>1 DEF bounds
  <2>1. DrawnInv(fence_submissions)' /\ DrawnInv(scan)'
    <3>1. ASSUME NEW s \in Seq(Submissions), NEW k \in 1 .. Len(s)
          PROVE  s[k].virtio \in VirtioFences
      <4>1. s[k] \in Submissions
        BY <3>1, SMTT(30)
      <4> QED BY <4>1 DEF Submissions
    <3>2. fence_submissions \in Seq(Submissions) /\ scan \in Seq(Submissions)
      BY DEF SubmissionsInd, SubmissionsTypeOK
    <3>3. DrawnInv(fence_submissions) /\ DrawnInv(scan)
      BY DEF SubmissionsInd, TimelyInv
    <3> QED BY <3>1, <3>2, <3>3, <1>g, <1>1 DEF DrawnInv, queue
  <2>2. stage'[HandlerThread] = stage[HandlerThread]
    BY <1>4
  <2>3. (\E u \in Threads : stage[u] = "lock") => \E u \in Threads : stage'[u] = "lock"
    BY <1>n, <1>4
  <2>4. (\A k \in 1 .. Len(fence_submissions) : ~Query(fence_submissions[k].virtio))
         => \A k \in 1 .. Len(fence_submissions)' : ~Query(fence_submissions[k].virtio)'
    BY <1>n, <1>1 DEF SubmissionsInd, SubmissionsTypeOK, TimelyInv, DrawnInv, queue, Query, Submissions, VirtioFences
  <2> QED BY <2>1, <2>2, <2>3, <2>4, <1>1 DEF SubmissionsInd, TimelyInv, queue
<1> QED BY <1>2, <1>3, <1>5, <1>6, <1>7, <1>8 DEF SubmissionsInd

\* The fence enters the set, and its request goes to the device.
LEMMA PushUnsignaledKeeps ==
    ASSUME FenceSubmissionsAssumption, SubmissionsInd, NEW t \in Threads, PushUnsignaled(t)
    PROVE  SubmissionsInd'
<1>f. PICK f \in VirtioFences : f = arg[t].virtio /\ f \notin unsignaled /\ f < next_fence
  BY DEF PushUnsignaled, SubmissionsInd, ThreadInv
<1>1. /\ stage[t] = "push_unsignaled" /\ stage' = [stage EXCEPT ![t] = "idle"]
      /\ unsignaled' = unsignaled \cup {f} /\ running' = running \cup {f}
      /\ UNCHANGED <<next_fence, answered, queue, arg, notified, aged, bounds>>
  BY <1>f DEF PushUnsignaled, Goto
<1>2. SubmissionsTypeOK' /\ (arg \in [Threads -> [dxgk : Nat, virtio : Nat]])'
  BY <1>1 DEF SubmissionsInd, SubmissionsTypeOK, queue, bounds
<1>3. SentInv'
  BY <1>f, <1>1 DEF SubmissionsInd, SentInv
<1>4. stage'[t] = "idle" /\ \A u \in Threads \ {t} : stage'[u] = stage[u]
  BY <1>1 DEF SubmissionsInd, SubmissionsTypeOK
<1>5. \A u \in Threads : ThreadInv(u)'
  <2>1. ThreadInv(t)'
    BY <1>1, <1>4 DEF ThreadInv
  <2>2. ASSUME NEW u \in Threads \ {t} PROVE ThreadInv(u)'
    BY <1>1, <1>4, <1>f DEF SubmissionsInd, ThreadInv, ApartInv
  <2> QED BY <2>1, <2>2
<1>6. ApartInv'
  BY <1>1, <1>4 DEF SubmissionsInd, ApartInv
<1>7. timeouts' = 0 => TimelyInv'
  <2> SUFFICES ASSUME timeouts = 0 PROVE TimelyInv'
    BY <1>1 DEF bounds
  <2>1. (\E u \in Threads : stage[u] = "lock") => \E u \in Threads : stage'[u] = "lock"
    BY <1>1, <1>4
  <2>2. stage[HandlerThread] = "responses" => stage'[HandlerThread] = "responses"
    BY <1>1, <1>4 DEF Threads
  <2>3. (\A k \in 1 .. Len(fence_submissions) : ~Query(fence_submissions[k].virtio))
         => \A k \in 1 .. Len(fence_submissions)' : ~Query(fence_submissions[k].virtio)'
    BY <1>1 DEF queue, Query
  <2>4. DrawnInv(fence_submissions)' /\ DrawnInv(scan)'
    BY <1>1 DEF SubmissionsInd, TimelyInv, DrawnInv, queue
  <2> QED BY <2>1, <2>2, <2>3, <2>4, <1>1 DEF SubmissionsInd, TimelyInv, queue
<1> QED BY <1>2, <1>3, <1>5, <1>6, <1>7 DEF SubmissionsInd

\* The device answers.
LEMMA AnswerKeeps ==
    ASSUME SubmissionsInd, NEW f \in VirtioFences, Answer(f)
    PROVE  SubmissionsInd'
<1>1. /\ f \in running /\ running' = running \ {f} /\ answered' = answered \cup {f}
      /\ UNCHANGED <<tracker, queue, stage, arg, notified, aged, bounds>>
  BY DEF Answer
<1>2. SubmissionsTypeOK' /\ (arg \in [Threads -> [dxgk : Nat, virtio : Nat]])'
  BY <1>1 DEF SubmissionsInd, SubmissionsTypeOK, queue, bounds, tracker
<1>3. SentInv'
  BY <1>1 DEF SubmissionsInd, SentInv, tracker
<1>4. ApartInv' /\ \A u \in Threads : ThreadInv(u)'
  BY <1>1 DEF SubmissionsInd, ApartInv, ThreadInv, tracker
<1>5. timeouts' = 0 => TimelyInv'
  BY <1>1 DEF SubmissionsInd, TimelyInv, DrawnInv, Query, queue, tracker, bounds
<1> QED BY <1>2, <1>3, <1>4, <1>5 DEF SubmissionsInd

\* The handler reads a response: it is then on its way to handle_fence_submissions.
LEMMA SignalKeeps ==
    ASSUME SubmissionsInd, NEW f \in VirtioFences, Signal(f)
    PROVE  SubmissionsInd'
<1>1. /\ stage[HandlerThread] = "responses" /\ f \in answered /\ answered' = answered \ {f}
      /\ unsignaled' = unsignaled \ {f}
      /\ UNCHANGED <<next_fence, running, queue, stage, arg, notified, aged, bounds>>
  BY DEF Signal
<1>2. SubmissionsTypeOK' /\ (arg \in [Threads -> [dxgk : Nat, virtio : Nat]])'
  BY <1>1 DEF SubmissionsInd, SubmissionsTypeOK, queue, bounds
<1>3. SentInv'
  BY <1>1 DEF SubmissionsInd, SentInv
<1>4. ApartInv' /\ \A u \in Threads : ThreadInv(u)'
  BY <1>1 DEF SubmissionsInd, ApartInv, ThreadInv
<1>5. timeouts' = 0 => TimelyInv'
  BY <1>1 DEF SubmissionsInd, TimelyInv, DrawnInv, queue, bounds
<1> QED BY <1>2, <1>3, <1>4, <1>5 DEF SubmissionsInd

-----------------------------------------------------------------------------
(* Threads that move.                                                      *)

\* A step that only moves one thread, to a place where it holds nothing.
LEMMA MoveKeeps ==
    ASSUME FenceSubmissionsAssumption, SubmissionsInd, NEW t \in Threads, NEW l,
           l \in {"idle", "responses", "lock", "retain", "extend"},
           stage' = [stage EXCEPT ![t] = l],
           UNCHANGED <<tracker, device, arg, submits, timeouts>>
    PROVE  /\ stage' \in [Threads -> {"idle", "push_unsignaled", "responses", "notify",
                                   "push_submission", "lock", "retain", "extend"}]
           /\ SentInv' /\ ApartInv' /\ \A u \in Threads : ThreadInv(u)'
           /\ stage'[t] = l /\ \A u \in Threads \ {t} : stage'[u] = stage[u]
           /\ (arg \in [Threads -> [dxgk : Nat, virtio : Nat]])'
<1>1. stage'[t] = l /\ \A u \in Threads \ {t} : stage'[u] = stage[u]
  BY DEF SubmissionsInd, SubmissionsTypeOK
<1>2. SentInv'
  BY DEF SubmissionsInd, SentInv, tracker, device
<1>3. ApartInv'
  BY <1>1 DEF SubmissionsInd, ApartInv
<1>4. \A u \in Threads : ThreadInv(u)'
  <2>1. ThreadInv(t)'
    BY <1>1 DEF ThreadInv
  <2>2. ASSUME NEW u \in Threads \ {t} PROVE ThreadInv(u)'
    BY <1>1 DEF SubmissionsInd, ThreadInv, tracker
  <2> QED BY <2>1, <2>2
<1> QED BY <1>1, <1>2, <1>3, <1>4 DEF SubmissionsInd, SubmissionsTypeOK

\* Wake, ResponsesDone and NotifyNow: only the thread's place, and the record of
\* completed fences, change.
LEMMA PlacesKeep ==
    ASSUME FenceSubmissionsAssumption, SubmissionsInd,
           WakeHandler \/ ResponsesDone \/ \E t \in Threads : NotifyNow(t)
    PROVE  SubmissionsInd'
<1>1. ASSUME NEW t \in Threads, NEW l, l \in {"idle", "responses", "lock"},
             stage' = [stage EXCEPT ![t] = l], notified' \in Seq(Submissions),
             stage[t] # "lock", stage[t] = "responses" => l = "lock",
             UNCHANGED <<tracker, queue, device, arg, aged, bounds>>
      PROVE  SubmissionsInd'
  <2>1. /\ stage' \in [Threads -> {"idle", "push_unsignaled", "responses", "notify",
                                "push_submission", "lock", "retain", "extend"}]
        /\ SentInv' /\ ApartInv' /\ \A u \in Threads : ThreadInv(u)'
        /\ stage'[t] = l /\ \A u \in Threads \ {t} : stage'[u] = stage[u]
        /\ (arg \in [Threads -> [dxgk : Nat, virtio : Nat]])'
    BY <1>1, MoveKeeps DEF bounds
  <2>2. SubmissionsTypeOK'
    BY <1>1, <2>1 DEF SubmissionsInd, SubmissionsTypeOK, tracker, queue, device, bounds
  <2>3. timeouts' = 0 => TimelyInv'
    <3> SUFFICES ASSUME timeouts = 0 PROVE TimelyInv'
      BY <1>1 DEF bounds
    <3>1. stage[HandlerThread] = "responses" => stage'[HandlerThread] = "responses" \/ \E u \in Threads : stage'[u] = "lock"
      BY <1>1, <2>1 DEF Threads
    <3>2. (\E u \in Threads : stage[u] = "lock") => \E u \in Threads : stage'[u] = "lock"
      BY <1>1, <2>1
    <3>3. /\ DrawnInv(fence_submissions)' /\ DrawnInv(scan)'
          /\ (\A k \in 1 .. Len(fence_submissions) : ~Query(fence_submissions[k].virtio))
             => \A k \in 1 .. Len(fence_submissions)' : ~Query(fence_submissions[k].virtio)'
      BY <1>1 DEF SubmissionsInd, TimelyInv, DrawnInv, Query, queue, tracker
    <3> QED BY <1>1, <3>1, <3>2, <3>3 DEF SubmissionsInd, TimelyInv, queue
  <2> QED BY <2>1, <2>2, <2>3 DEF SubmissionsInd
<1>2. CASE WakeHandler
  <2>1. notified' \in Seq(Submissions) /\ HandlerThread \in Threads
    BY <1>2 DEF WakeHandler, SubmissionsInd, SubmissionsTypeOK, Threads
  <2> QED BY <1>1, <1>2, <2>1 DEF WakeHandler, Goto
<1>3. CASE ResponsesDone
  <2>1. notified' \in Seq(Submissions) /\ HandlerThread \in Threads
    BY <1>3 DEF ResponsesDone, SubmissionsInd, SubmissionsTypeOK, Threads
  <2> QED BY <1>1, <1>3, <2>1 DEF ResponsesDone, Goto
<1>4. ASSUME NEW t \in Threads, NotifyNow(t) PROVE SubmissionsInd'
  <2>1. arg[t] \in Submissions /\ notified \in Seq(Submissions)
    BY <1>4 DEF NotifyNow, SubmissionsInd, ThreadInv, SubmissionsTypeOK
  <2>2. notified' \in Seq(Submissions)
    BY <1>4, <2>1, SMTT(30) DEF NotifyNow
  <2> QED BY <1>1, <1>4, <2>2 DEF NotifyNow, Goto
<1> QED BY <1>2, <1>3, <1>4

\* submit_fence's query: when it finds the fence signalled, nobody else will enter the
\* fence in the set again.
LEMMA SubmitFenceKeeps ==
    ASSUME FenceSubmissionsAssumption, SubmissionsInd, NEW t \in Callers, NEW f \in VirtioFences,
           SubmitFence(t, f)
    PROVE  SubmissionsInd'
<1> USE DEF FenceSubmissionsAssumption
<1>1. /\ stage[t] = "idle" /\ t \in Threads /\ f < next_fence /\ submits < MaxSubmit
      /\ ~\E u \in Threads : stage[u] = "push_unsignaled" /\ arg[u].virtio = f
      /\ submits' = submits + 1
      /\ arg' = [arg EXCEPT ![t] = [dxgk |-> submits + 1, virtio |-> f]]
      /\ stage' = [stage EXCEPT ![t] = IF Query(f) THEN "notify" ELSE "push_submission"]
      /\ UNCHANGED <<tracker, queue, device, notified, aged, timeouts>>
  BY DEF SubmitFence, Goto, Threads
<1>2. submits + 1 \in DxgkFences /\ submits + 1 \in 0 .. MaxSubmit /\ f \in Nat
  BY <1>1, SMTT(30) DEF SubmissionsInd, SubmissionsTypeOK, DxgkFences, VirtioFences
<1>3. PICK s \in Submissions : s = [dxgk |-> submits + 1, virtio |-> f] /\ s.virtio = f
  <2>1. [dxgk |-> submits + 1, virtio |-> f] \in Submissions
    BY <1>2 DEF Submissions
  <2> QED BY <2>1
<1>4. SubmissionsTypeOK' /\ (arg \in [Threads -> [dxgk : Nat, virtio : Nat]])'
  <2>1. s \in [dxgk : Nat, virtio : Nat]
    BY <1>2, <1>3, SMTT(30) DEF DxgkFences
  <2>2. arg' \in [Threads -> [dxgk : Nat, virtio : Nat]]
    BY <2>1, <1>1, <1>3 DEF SubmissionsInd
  <2> QED BY <2>2, <1>1, <1>2 DEF SubmissionsInd, SubmissionsTypeOK, tracker, queue, device
<1>5. /\ stage'[t] = IF Query(f) THEN "notify" ELSE "push_submission"
      /\ arg'[t] = s /\ \A u \in Threads \ {t} : stage'[u] = stage[u] /\ arg'[u] = arg[u]
  BY <1>1, <1>3 DEF SubmissionsInd, SubmissionsTypeOK
<1>6. SentInv'
  BY <1>1 DEF SubmissionsInd, SentInv, tracker, device
<1>7. \A u \in Threads : ThreadInv(u)'
  <2>1. ThreadInv(t)'
    BY <1>1, <1>3, <1>5, SMTT(30) DEF ThreadInv, Query, tracker
  <2>2. ASSUME NEW u \in Threads \ {t} PROVE ThreadInv(u)'
    BY <1>1, <1>5 DEF SubmissionsInd, ThreadInv, tracker
  <2> QED BY <2>1, <2>2
<1>8. ApartInv'
  BY <1>1, <1>3, <1>5, SMTT(30) DEF SubmissionsInd, ApartInv
<1>9. timeouts' = 0 => TimelyInv'
  <2> SUFFICES ASSUME timeouts = 0 PROVE TimelyInv'
    BY <1>1
  <2>1. stage[HandlerThread] = "responses" => stage'[HandlerThread] = "responses"
    BY <1>1, <1>5 DEF Threads
  <2>2. (\E u \in Threads : stage[u] = "lock") => \E u \in Threads : stage'[u] = "lock"
    BY <1>1, <1>5
  <2>3. /\ DrawnInv(fence_submissions)' /\ DrawnInv(scan)'
        /\ (\A k \in 1 .. Len(fence_submissions) : ~Query(fence_submissions[k].virtio))
           => \A k \in 1 .. Len(fence_submissions)' : ~Query(fence_submissions[k].virtio)'
    BY <1>1 DEF SubmissionsInd, TimelyInv, DrawnInv, Query, queue, tracker
  <2> QED BY <1>1, <2>1, <2>2, <2>3 DEF SubmissionsInd, TimelyInv, queue
<1> QED BY <1>4, <1>6, <1>7, <1>8, <1>9 DEF SubmissionsInd

-----------------------------------------------------------------------------
(* The vector.                                                             *)

\* A submission is pushed by a thread that will then scan the vector.
LEMMA PushSubmissionKeeps ==
    ASSUME FenceSubmissionsAssumption, SubmissionsInd, NEW t \in Threads, PushSubmission(t)
    PROVE  SubmissionsInd'
<1>1. /\ stage[t] = "push_submission" /\ stage' = [stage EXCEPT ![t] = "lock"]
      /\ fence_submissions' = Append(fence_submissions, arg[t])
      /\ UNCHANGED <<lock, scan, resubmit, tracker, device, arg, notified, aged, submits, timeouts>>
  BY DEF PushSubmission, Goto, bounds
<1>2. /\ stage' \in [Threads -> {"idle", "push_unsignaled", "responses", "notify",
                              "push_submission", "lock", "retain", "extend"}]
      /\ SentInv' /\ ApartInv' /\ \A u \in Threads : ThreadInv(u)'
      /\ stage'[t] = "lock" /\ (arg \in [Threads -> [dxgk : Nat, virtio : Nat]])'
  BY <1>1, MoveKeeps
<1>s. PICK s \in Submissions : s = arg[t] /\ s.virtio < next_fence
  BY <1>1 DEF SubmissionsInd, ThreadInv
<1>3. SubmissionsTypeOK'
  BY <1>1, <1>2, <1>s, SMTT(30) DEF SubmissionsInd, SubmissionsTypeOK, tracker, device
<1>4. timeouts' = 0 => TimelyInv'
  <2> SUFFICES ASSUME timeouts = 0 PROVE TimelyInv'
    BY <1>1
  <2>1. fence_submissions \in Seq(Submissions) /\ DrawnInv(fence_submissions) /\ DrawnInv(scan)
    BY DEF SubmissionsInd, SubmissionsTypeOK, TimelyInv
  <2>2. DrawnInv(Append(fence_submissions, s))
    BY <2>1, <1>s, SMTT(30) DEF DrawnInv
  <2>3. DrawnInv(fence_submissions)' /\ DrawnInv(scan)'
    BY <2>1, <2>2, <1>1, <1>s DEF DrawnInv, tracker
  <2> QED BY <2>3, <1>1, <1>2 DEF SubmissionsInd, TimelyInv
<1> QED BY <1>2, <1>3, <1>4 DEF SubmissionsInd

\* The scan begins: the vector is looked at from its start.
LEMMA LockKeeps ==
    ASSUME FenceSubmissionsAssumption, SubmissionsInd, NEW t \in Threads, Lock(t)
    PROVE  SubmissionsInd'
<1>1. /\ stage' = [stage EXCEPT ![t] = "retain"] /\ lock' = t
      /\ scan' = fence_submissions /\ fence_submissions' = <<>>
      /\ UNCHANGED <<resubmit, tracker, device, arg, notified, aged, submits, timeouts>>
  BY DEF Lock, Goto, bounds
<1>2. /\ stage' \in [Threads -> {"idle", "push_unsignaled", "responses", "notify",
                              "push_submission", "lock", "retain", "extend"}]
      /\ SentInv' /\ ApartInv' /\ \A u \in Threads : ThreadInv(u)'
      /\ (arg \in [Threads -> [dxgk : Nat, virtio : Nat]])'
  BY <1>1, MoveKeeps
<1>3. SubmissionsTypeOK'
  BY <1>1, <1>2, SMTT(30) DEF SubmissionsInd, SubmissionsTypeOK, tracker, device
<1>4. timeouts' = 0 => TimelyInv'
  BY <1>1, SMTT(30) DEF SubmissionsInd, TimelyInv, DrawnInv, tracker
<1> QED BY <1>2, <1>3, <1>4 DEF SubmissionsInd

\* One step of retain: the submission is completed, kept because it is not ready, or,
\* after a timeout only, set aside.
LEMMA RetainKeeps ==
    ASSUME FenceSubmissionsAssumption, SubmissionsInd, NEW t \in Threads,
           RetainReady(t) \/ RetainTimeout(t) \/ RetainKeep(t)
    PROVE  SubmissionsInd'
<1>1. /\ scan # <<>> /\ scan' = Tail(scan)
      /\ UNCHANGED <<lock, tracker, device, stage, arg, submits, timeouts>>
  BY DEF RetainReady, RetainTimeout, RetainKeep, bounds
<1>s. PICK s \in Submissions : s = Head(scan)
  BY <1>1, SMTT(30) DEF SubmissionsInd, SubmissionsTypeOK
<1>2. SentInv' /\ ApartInv' /\ \A u \in Threads : ThreadInv(u)'
  BY <1>1 DEF SubmissionsInd, SentInv, ApartInv, ThreadInv, tracker, device
<1>3. scan \in Seq(Submissions) /\ scan' \in Seq(Submissions)
  BY <1>1, SMTT(30) DEF SubmissionsInd, SubmissionsTypeOK
<1>4. /\ fence_submissions' \in Seq(Submissions) /\ notified' \in Seq(Submissions)
      /\ resubmit' \in [Threads -> Seq(Submissions)] /\ aged' \subseteq DxgkFences
  <2>0. /\ fence_submissions \in Seq(Submissions) /\ notified \in Seq(Submissions)
        /\ resubmit \in [Threads -> Seq(Submissions)] /\ aged \subseteq DxgkFences
    BY DEF SubmissionsInd, SubmissionsTypeOK
  <2>1. CASE RetainReady(t)
    BY <2>0, <2>1, <1>s, SMTT(30) DEF RetainReady
  <2>2. CASE RetainTimeout(t)
    BY <2>0, <2>2, <1>s, SMTT(30) DEF RetainTimeout
  <2>3. CASE RetainKeep(t)
    BY <2>0, <2>3, <1>s, SMTT(30) DEF RetainKeep
  <2> QED BY <2>1, <2>2, <2>3
<1>5. SubmissionsTypeOK' /\ (arg \in [Threads -> [dxgk : Nat, virtio : Nat]])'
  BY <1>1, <1>3, <1>4 DEF SubmissionsInd, SubmissionsTypeOK, tracker, device
<1>6. timeouts' = 0 => TimelyInv'
  <2> SUFFICES ASSUME timeouts = 0 PROVE TimelyInv'
    BY <1>1
  <2>1. /\ fence_submissions \in Seq(Submissions) /\ DrawnInv(fence_submissions)
        /\ DrawnInv(scan) /\ aged = {}
    BY DEF SubmissionsInd, SubmissionsTypeOK, TimelyInv
  <2>2. DrawnInv(scan)'
    BY <2>1, <1>1, <1>3, SMTT(30) DEF DrawnInv, tracker
  <2>3. s.virtio < next_fence
    BY <2>1, <1>1, <1>3, <1>s, SMTT(30) DEF DrawnInv
  <2>4. CASE RetainReady(t)
    BY <2>2, <2>4, <1>1 DEF RetainReady, SubmissionsInd, TimelyInv, DrawnInv, Query, tracker
  <2>5. CASE RetainTimeout(t)
    BY <2>5, <2>1 DEF RetainTimeout
  <2>6. CASE RetainKeep(t)
    <3>1. /\ fence_submissions' = Append(fence_submissions, s) /\ ~Query(s.virtio)
          /\ UNCHANGED <<resubmit, aged>>
      BY <2>6, <1>s DEF RetainKeep
    <3>2. DrawnInv(Append(fence_submissions, s))
      BY <2>1, <2>3, SMTT(30) DEF DrawnInv
    <3>3. DrawnInv(fence_submissions)'
      BY <3>1, <3>2, <1>1 DEF DrawnInv, tracker
    <3>4. (\A k \in 1 .. Len(fence_submissions) : ~Query(fence_submissions[k].virtio))
           => \A k \in 1 .. Len(Append(fence_submissions, s)) :
                ~Query(Append(fence_submissions, s)[k].virtio)
      BY <2>1, <3>1, SMTT(30)
    <3>5. (\A k \in 1 .. Len(fence_submissions) : ~Query(fence_submissions[k].virtio))
           => \A k \in 1 .. Len(fence_submissions)' : ~Query(fence_submissions[k].virtio)'
      BY <3>1, <3>4, <1>1 DEF Query, tracker
    <3> QED BY <3>1, <3>3, <3>5, <2>2, <1>1 DEF SubmissionsInd, TimelyInv
  <2> QED BY <2>4, <2>5, <2>6
<1> QED BY <1>2, <1>5, <1>6 DEF SubmissionsInd

\* The lock is released, and the submissions set aside, none before a timeout, return.
LEMMA ReleaseKeeps ==
    ASSUME FenceSubmissionsAssumption, SubmissionsInd, NEW t \in Threads, Unlock(t) \/ Extend(t)
    PROVE  SubmissionsInd'
<1>l. PICK l \in {"idle", "extend"} : stage' = [stage EXCEPT ![t] = l]
  BY DEF Unlock, Extend, Goto
<1>1. /\ stage[t] \in {"retain", "extend"} /\ lock' = (IF Unlock(t) THEN NoThread ELSE lock)
      /\ UNCHANGED <<scan, tracker, device, arg, notified, aged, submits, timeouts>>
  BY DEF Unlock, Extend, bounds
<1>2. /\ stage' \in [Threads -> {"idle", "push_unsignaled", "responses", "notify",
                              "push_submission", "lock", "retain", "extend"}]
      /\ SentInv' /\ ApartInv' /\ \A u \in Threads : ThreadInv(u)'
      /\ \A u \in Threads \ {t} : stage'[u] = stage[u]
      /\ (arg \in [Threads -> [dxgk : Nat, virtio : Nat]])'
  BY <1>l, <1>1, MoveKeeps
<1>3. /\ fence_submissions' \in Seq(Submissions) /\ resubmit' \in [Threads -> Seq(Submissions)]
  <2>0. fence_submissions \in Seq(Submissions) /\ resubmit \in [Threads -> Seq(Submissions)]
        /\ resubmit[t] \in Seq(Submissions)
    BY DEF SubmissionsInd, SubmissionsTypeOK
  <2>1. CASE Unlock(t)
    BY <2>0, <2>1 DEF Unlock
  <2>2. CASE Extend(t)
    BY <2>0, <2>2, SMTT(30) DEF Extend
  <2> QED BY <2>1, <2>2
<1>4. SubmissionsTypeOK'
  <2>1. lock' \in Threads \cup {NoThread}
    BY <1>1 DEF SubmissionsInd, SubmissionsTypeOK
  <2> QED BY <2>1, <1>1, <1>2, <1>3 DEF SubmissionsInd, SubmissionsTypeOK, tracker, device
<1>5. timeouts' = 0 => TimelyInv'
  <2> SUFFICES ASSUME timeouts = 0 PROVE TimelyInv'
    BY <1>1
  <2>1. /\ fence_submissions \in Seq(Submissions) /\ resubmit[t] = <<>>
        /\ resubmit \in [Threads -> Seq(Submissions)] /\ \A u \in Threads : resubmit[u] = <<>>
    BY DEF SubmissionsInd, SubmissionsTypeOK, TimelyInv
  <2>2. fence_submissions' = fence_submissions /\ \A u \in Threads : resubmit'[u] = <<>>
    <3>1. CASE Unlock(t)
      BY <3>1, <2>1 DEF Unlock
    <3>2. CASE Extend(t)
      BY <3>2, <2>1, SMTT(30) DEF Extend
    <3> QED BY <3>1, <3>2
  <2>3. stage[HandlerThread] = "responses" => stage'[HandlerThread] = "responses"
    BY <1>1, <1>2 DEF Threads
  <2>4. (\E u \in Threads : stage[u] = "lock") => \E u \in Threads : stage'[u] = "lock"
    BY <1>1, <1>2
  <2>5. /\ DrawnInv(fence_submissions)' /\ DrawnInv(scan)'
        /\ (\A k \in 1 .. Len(fence_submissions) : ~Query(fence_submissions[k].virtio))
           => \A k \in 1 .. Len(fence_submissions)' : ~Query(fence_submissions[k].virtio)'
    BY <2>2, <1>1 DEF SubmissionsInd, TimelyInv, DrawnInv, Query, tracker
  <2> QED BY <2>2, <2>3, <2>4, <2>5, <1>1 DEF SubmissionsInd, TimelyInv
<1> QED BY <1>2, <1>4, <1>5 DEF SubmissionsInd

\* A timeout: nothing more is claimed of the vector.
LEMMA ElapseKeeps ==
    ASSUME FenceSubmissionsAssumption, SubmissionsInd, Elapse
    PROVE  SubmissionsInd'
<1> USE DEF FenceSubmissionsAssumption
<1>1. /\ timeouts < MaxTimeout /\ timeouts' = timeouts + 1
      /\ aged' = {s.dxgk : s \in Range(fence_submissions)}
      /\ UNCHANGED <<tracker, queue, device, stage, arg, notified, submits>>
  BY DEF Elapse
<1>2. SentInv' /\ ApartInv' /\ \A u \in Threads : ThreadInv(u)'
  BY <1>1 DEF SubmissionsInd, SentInv, ApartInv, ThreadInv, tracker, device
<1>3. aged' \subseteq DxgkFences
  <2>1. \A s \in Range(fence_submissions) : s \in Submissions
    BY SMTT(30) DEF SubmissionsInd, SubmissionsTypeOK, Range
  <2> QED BY <2>1, <1>1 DEF Submissions
<1>4. timeouts' \in 0 .. MaxTimeout /\ timeouts' # 0
  BY <1>1, SMTT(30) DEF SubmissionsInd, SubmissionsTypeOK
<1>5. SubmissionsTypeOK' /\ (arg \in [Threads -> [dxgk : Nat, virtio : Nat]])'
  BY <1>1, <1>3, <1>4 DEF SubmissionsInd, SubmissionsTypeOK, tracker, queue, device
<1> QED BY <1>2, <1>4, <1>5 DEF SubmissionsInd

-----------------------------------------------------------------------------
(* The theorems.                                                           *)

\* Every reachable state of the tracker, the vector and the threads satisfies SubmissionsInd.
THEOREM SubmissionsInductive == ASSUME FenceSubmissionsAssumption PROVE SubmissionsSpec => []SubmissionsInd
<1>1. SubmissionsInit => SubmissionsInd
  BY SMTT(30) DEF SubmissionsInit, SubmissionsInd, SubmissionsTypeOK, SentInv, ApartInv, ThreadInv, TimelyInv, DrawnInv, NoArg,
         FenceSubmissionsAssumption, Threads
<1>2. SubmissionsInd /\ [SubmissionsNext]_submissionsVars => SubmissionsInd'
  <2> SUFFICES ASSUME SubmissionsInd, [SubmissionsNext]_submissionsVars PROVE SubmissionsInd'
    OBVIOUS
  <2>1. ASSUME NEW t \in Callers, NextFence(t) PROVE SubmissionsInd'
    BY <2>1, NextFenceKeeps
  <2>2. ASSUME NEW t \in Callers, NEW f \in VirtioFences, SubmitFence(t, f) PROVE SubmissionsInd'
    BY <2>2, SubmitFenceKeeps
  <2>3. ASSUME NEW t \in Threads, Step(t) PROVE SubmissionsInd'
    BY <2>3, PushUnsignaledKeeps, PlacesKeep, PushSubmissionKeeps, LockKeeps, RetainKeeps,
       ReleaseKeeps DEF Step, HandleFenceSubmissions
  <2>4. ASSUME NEW f \in VirtioFences, Answer(f) \/ Signal(f) PROVE SubmissionsInd'
    BY <2>4, AnswerKeeps, SignalKeeps
  <2>5. CASE WakeHandler \/ ResponsesDone
    BY <2>5, PlacesKeep
  <2>6. CASE Elapse
    BY <2>6, ElapseKeeps
  <2>7. CASE UNCHANGED submissionsVars
    BY <2>7 DEF submissionsVars, tracker, queue, device, bounds, SubmissionsInd, SubmissionsTypeOK, SentInv, ApartInv,
                ThreadInv, TimelyInv, DrawnInv, Query
  <2> QED BY <2>1, <2>2, <2>3, <2>4, <2>5, <2>6, <2>7 DEF SubmissionsNext
<1> QED BY <1>1, <1>2, PTL DEF SubmissionsSpec

\* A WDDM fence is completed only after the handler has read the response for its
\* virtio fence (FenceTracker::query, submit_fence, handle_fence_submissions).
THEOREM SignalledFirst ==
    ASSUME FenceSubmissionsAssumption PROVE SubmissionsSpec => NotifiedAfterSignal
<1>1. SubmissionsInd /\ [SubmissionsNext]_submissionsVars => [NotifiesSignalled]_submissionsVars
  <2> SUFFICES ASSUME SubmissionsInd, SubmissionsNext, notified' # notified
               PROVE  notified'[Len(notified')].virtio \notin running \cup answered
    BY DEF NotifiesSignalled, submissionsVars
  <2>1. PICK t \in Threads : NotifyNow(t) \/ RetainReady(t)
    BY DEF SubmissionsNext, NextFence, SubmitFence, Step, PushUnsignaled, PushSubmission,
           HandleFenceSubmissions, Lock, RetainTimeout, RetainKeep, Unlock, Extend, Answer,
           Signal, WakeHandler, ResponsesDone, Elapse
  <2>2. PICK s \in Submissions : notified' = Append(notified, s) /\ s.virtio \notin unsignaled
    <3>1. CASE NotifyNow(t)
      BY <3>1 DEF NotifyNow, SubmissionsInd, ThreadInv
    <3>2. CASE RetainReady(t)
      <4>1. Head(scan) \in Submissions
        BY <3>2, SMTT(30) DEF RetainReady, SubmissionsInd, SubmissionsTypeOK
      <4> QED BY <3>2, <4>1 DEF RetainReady, Query
    <3> QED BY <2>1, <3>1, <3>2
  <2>3. notified'[Len(notified')] = s
    <3>1. notified \in Seq(Submissions)
      BY DEF SubmissionsInd, SubmissionsTypeOK
    <3> QED BY <3>1, <2>2, SMTT(30)
  <2> QED BY <2>2, <2>3 DEF SubmissionsInd, SentInv
<1> QED BY <1>1, SubmissionsInductive, PTL DEF SubmissionsSpec, NotifiedAfterSignal

\* Until a submission has timed out, a quiet driver keeps no submission whose virtio
\* fence is signalled: neither submit_fence between its query and its push, nor a scan
\* while the handler signals, loses one.
THEOREM NothingForgotten ==
    ASSUME FenceSubmissionsAssumption PROVE SubmissionsSpec => []NoReadySubmissionKept
<1>1. SubmissionsInd => NoReadySubmissionKept
  BY DEF SubmissionsInd, TimelyInv, NoReadySubmissionKept, ReadyNotKept, Quiet, Threads
<1> QED BY <1>1, SubmissionsInductive, PTL

-----------------------------------------------------------------------------
(* A submission is in one place.                                           *)

Ids(submissions) == {submissions[k].dxgk : k \in DOMAIN submissions}

Unique(submissions) ==
    \A j, k \in DOMAIN submissions : submissions[j].dxgk = submissions[k].dxgk => j = k

Aside(t) == Ids(resubmit[t])
Submitting(t) == IF stage[t] \in {"notify", "push_submission"} THEN {arg[t].dxgk} ELSE {}
Vectors == Ids(fence_submissions) \cup Ids(scan) \cup Ids(notified)

\* The fences submitted so far are divided among the vector, the part of it that is
\* being scanned, the completed ones and the threads.
PartsInv ==
    /\ \A d : d \in 1 .. submits <=>
                \/ d \in Vectors \/ \E t \in Threads : d \in Aside(t) \cup Submitting(t)
    /\ Ids(fence_submissions) \cap Ids(scan) = {}
    /\ Ids(notified) \cap (Ids(fence_submissions) \cup Ids(scan)) = {}
    /\ \A t \in Threads : (Aside(t) \cup Submitting(t)) \cap Vectors = {}
    /\ \A t, u \in Threads : Aside(t) \cap Submitting(u) = {}
    /\ \A t, u \in Threads : t # u => Aside(t) \cap Aside(u) = {} /\ Submitting(t) \cap Submitting(u) = {}

\* No list names a fence twice, and only the holder of the lock scans.
ListsInv ==
    /\ Unique(fence_submissions) /\ Unique(scan) /\ Unique(notified)
    /\ \A t \in Threads : Unique(resubmit[t])
    /\ \A t \in Threads : stage[t] = "retain" <=> lock = t
    /\ lock = NoThread => scan = <<>>

OnceInv == PartsInv /\ ListsInv

\* Vec::push, and the record of what was completed.
LEMMA IdsAppend ==
    ASSUME NEW s \in Seq(Submissions), NEW e \in Submissions
    PROVE  /\ Append(s, e) \in Seq(Submissions)
           /\ Ids(Append(s, e)) = Ids(s) \cup {e.dxgk}
           /\ Unique(s) /\ e.dxgk \notin Ids(s) => Unique(Append(s, e))
<1>u. PICK u : u = Append(s, e)
  OBVIOUS
<1>1. /\ u \in Seq(Submissions) /\ Len(s) \in Nat /\ DOMAIN s = 1 .. Len(s)
      /\ DOMAIN u = 1 .. Len(s) + 1
      /\ \A k \in 1 .. Len(s) : u[k] = s[k]
      /\ u[Len(s) + 1] = e
  BY <1>u, SMTT(30)
<1>2. DOMAIN u = DOMAIN s \cup {Len(s) + 1} /\ Len(s) + 1 \notin DOMAIN s
  BY <1>1, SMTT(30)
<1>3. Ids(u) = Ids(s) \cup {e.dxgk}
  <2>1. ASSUME NEW d \in Ids(u) PROVE d \in Ids(s) \cup {e.dxgk}
    BY <1>1, <1>2 DEF Ids
  <2>2. ASSUME NEW d \in Ids(s) \cup {e.dxgk} PROVE d \in Ids(u)
    BY <1>1, <1>2 DEF Ids
  <2> QED BY <2>1, <2>2
<1>4. ASSUME Unique(s), e.dxgk \notin Ids(s) PROVE Unique(u)
  BY <1>1, <1>2, <1>4, SMTT(30) DEF Unique, Ids
<1> QED BY <1>u, <1>1, <1>3, <1>4

\* One step of retain takes the first submission.
LEMMA IdsTail ==
    ASSUME NEW s \in Seq(Submissions), s # <<>>, Unique(s)
    PROVE  /\ Head(s) \in Submissions /\ Head(s).dxgk \in Ids(s)
           /\ Ids(Tail(s)) = Ids(s) \ {Head(s).dxgk}
           /\ Unique(Tail(s))
<1>u. PICK u : u = Tail(s)
  OBVIOUS
<1>1. /\ Len(s) \in Nat \ {0} /\ DOMAIN s = 1 .. Len(s) /\ DOMAIN u = 1 .. Len(s) - 1
      /\ \A k \in 1 .. Len(s) - 1 : u[k] = s[k + 1]
      /\ Head(s) = s[1] /\ s[1] \in Submissions
  BY <1>u, SMTT(30)
<1>2. 1 \in DOMAIN s /\ \A k \in DOMAIN u : k + 1 \in DOMAIN s /\ k + 1 # 1
  BY <1>1, SMTT(30)
<1>3. \A k \in DOMAIN s : k # 1 => k - 1 \in DOMAIN u /\ s[k] = u[k - 1]
  BY <1>1, SMTT(30)
<1>4. Ids(u) = Ids(s) \ {s[1].dxgk}
  <2>1. ASSUME NEW k \in DOMAIN u PROVE u[k].dxgk \in Ids(s) \ {s[1].dxgk}
    BY <1>1, <1>2, SMTT(30) DEF Ids, Unique
  <2>2. ASSUME NEW k \in DOMAIN s, s[k].dxgk # s[1].dxgk PROVE s[k].dxgk \in Ids(u)
    BY <2>2, <1>3 DEF Ids
  <2> QED BY <2>1, <2>2 DEF Ids
<1>5. Unique(u)
  <2> SUFFICES ASSUME NEW j \in DOMAIN u, NEW k \in DOMAIN u, u[j].dxgk = u[k].dxgk
               PROVE  j = k
    BY DEF Unique
  <2>1. j + 1 = k + 1
    BY <1>1, <1>2, SMTT(30) DEF Unique
  <2> QED BY <2>1, <1>1, SMTT(30)
<1>6. s[1].dxgk \in Ids(s)
  BY <1>2 DEF Ids
<1> QED BY <1>u, <1>1, <1>4, <1>5, <1>6

\* Vec::extend with the submissions that were set aside.
LEMMA IdsConcat ==
    ASSUME NEW s \in Seq(Submissions), NEW e \in Seq(Submissions)
    PROVE  /\ Ids(s \o e) = Ids(s) \cup Ids(e)
           /\ Unique(s) /\ Unique(e) /\ Ids(s) \cap Ids(e) = {} => Unique(s \o e)
<1>u. PICK u : u = s \o e
  OBVIOUS
<1>1. /\ Len(s) \in Nat /\ Len(e) \in Nat /\ DOMAIN s = 1 .. Len(s) /\ DOMAIN e = 1 .. Len(e)
      /\ DOMAIN u = 1 .. Len(s) + Len(e)
      /\ \A k \in 1 .. Len(s) : u[k] = s[k]
      /\ \A k \in Len(s) + 1 .. Len(s) + Len(e) : u[k] = e[k - Len(s)]
  BY <1>u, SMTT(30)
<1>2. \A k \in DOMAIN u : \/ k \in DOMAIN s /\ u[k] = s[k]
                          \/ k \notin DOMAIN s /\ k - Len(s) \in DOMAIN e /\ u[k] = e[k - Len(s)]
  BY <1>1, SMTT(30)
<1>3. \A k \in DOMAIN s : k \in DOMAIN u /\ u[k] = s[k]
  BY <1>1, SMTT(30)
<1>4. \A k \in DOMAIN e : k + Len(s) \in DOMAIN u /\ u[k + Len(s)] = e[k]
  <2> TAKE k \in DOMAIN e
  <2>1. k + Len(s) \in Len(s) + 1 .. Len(s) + Len(e) /\ (k + Len(s)) - Len(s) = k
    BY <1>1, SMTT(30)
  <2> QED BY <2>1, <1>1, SMTT(30)
<1>5. Ids(u) = Ids(s) \cup Ids(e)
  <2>1. ASSUME NEW k \in DOMAIN u PROVE u[k].dxgk \in Ids(s) \cup Ids(e)
    BY <1>2 DEF Ids
  <2>2. ASSUME NEW d \in Ids(s) \cup Ids(e) PROVE d \in Ids(u)
    BY <1>3, <1>4 DEF Ids
  <2> QED BY <2>1, <2>2 DEF Ids
<1>6. ASSUME Unique(s), Unique(e), Ids(s) \cap Ids(e) = {} PROVE Unique(u)
  <2> SUFFICES ASSUME NEW j \in DOMAIN u, NEW k \in DOMAIN u, u[j].dxgk = u[k].dxgk
               PROVE  j = k
    BY DEF Unique
  <2>1. CASE j \in DOMAIN s /\ k \in DOMAIN s
    BY <2>1, <1>3, <1>6 DEF Unique
  <2>2. CASE j \notin DOMAIN s /\ k \notin DOMAIN s
    <3>1. j - Len(s) = k - Len(s)
      BY <2>2, <1>2, <1>6 DEF Unique
    <3> QED BY <3>1, <1>1, SMTT(30)
  <2>3. CASE (j \in DOMAIN s) # (k \in DOMAIN s)
    BY <2>3, <1>2, <1>6, SMTT(30) DEF Ids
  <2> QED BY <2>1, <2>2, <2>3
<1> QED BY <1>u, <1>5, <1>6

\* What an action does to the sets of fences decides the division.
LEMMA SameParts ==
    ASSUME OnceInv, UNCHANGED <<fence_submissions, scan, resubmit, notified, submits>>,
           \A u \in Threads : Submitting(u)' = Submitting(u),
           \A u \in Threads : stage'[u] = "retain" <=> lock' = u,
           lock' = NoThread => scan = <<>>
    PROVE  OnceInv'
<1>1. \A u \in Threads : Aside(u)' = Aside(u)
  BY DEF Aside
<1>2. Vectors' = Vectors
  BY DEF Vectors
<1>3. PartsInv'
  BY <1>1, <1>2 DEF OnceInv, PartsInv
<1>4. ListsInv'
  BY DEF OnceInv, ListsInv
<1> QED BY <1>3, <1>4 DEF OnceInv

\* The steps that move no submission.
LEMMA IdleStepsOnce ==
    ASSUME FenceSubmissionsAssumption, SubmissionsInd, OnceInv,
           \/ \E t \in Callers : NextFence(t)
           \/ \E t \in Threads : PushUnsignaled(t)
           \/ \E f \in VirtioFences : Answer(f) \/ Signal(f)
           \/ WakeHandler \/ ResponsesDone \/ Elapse
           \/ UNCHANGED submissionsVars
    PROVE  OnceInv'
<1> USE DEF FenceSubmissionsAssumption
<1>1. UNCHANGED <<fence_submissions, scan, resubmit, notified, submits, lock>>
  BY DEF NextFence, PushUnsignaled, Answer, Signal, WakeHandler, ResponsesDone, Elapse, submissionsVars, queue, bounds
<1>2. \A u \in Threads : /\ stage'[u] = "retain" <=> stage[u] = "retain"
                         /\ Submitting(u)' = Submitting(u)
  <2>t. stage \in [Threads -> {"idle", "push_unsignaled", "responses", "notify",
                            "push_submission", "lock", "retain", "extend"}]
        /\ arg \in [Threads -> [dxgk : Nat, virtio : Nat]]
    BY DEF SubmissionsInd, SubmissionsTypeOK
  <2>1. ASSUME NEW t \in Callers, NextFence(t)
        PROVE  \A u \in Threads : /\ stage'[u] = "retain" <=> stage[u] = "retain"
                                  /\ Submitting(u)' = Submitting(u)
    <3>1. /\ stage[t] = "idle" /\ stage' = [stage EXCEPT ![t] = "push_unsignaled"]
          /\ \A u \in Threads \ {t} : arg'[u] = arg[u]
      BY <2>1, <2>t DEF NextFence, Goto
    <3> QED BY <3>1, <2>t DEF Submitting, Threads
  <2>2. ASSUME NEW t \in Threads, PushUnsignaled(t)
        PROVE  \A u \in Threads : /\ stage'[u] = "retain" <=> stage[u] = "retain"
                                  /\ Submitting(u)' = Submitting(u)
    BY <2>2, <2>t DEF PushUnsignaled, Goto, Submitting
  <2>3. ASSUME WakeHandler \/ ResponsesDone
        PROVE  \A u \in Threads : /\ stage'[u] = "retain" <=> stage[u] = "retain"
                                  /\ Submitting(u)' = Submitting(u)
    <3>1. PICK l \in {"responses", "lock"} : stage' = [stage EXCEPT ![HandlerThread] = l] /\ arg' = arg
      BY <2>3 DEF WakeHandler, ResponsesDone, Goto
    <3>2. HandlerThread \in Threads /\ stage[HandlerThread] \in {"idle", "responses"}
      BY <2>3 DEF WakeHandler, ResponsesDone, Threads
    <3> QED BY <3>1, <3>2, <2>t DEF Submitting
  <2>4. ASSUME UNCHANGED <<stage, arg>>
        PROVE  \A u \in Threads : /\ stage'[u] = "retain" <=> stage[u] = "retain"
                                  /\ Submitting(u)' = Submitting(u)
    BY <2>4 DEF Submitting
  <2>5. ASSUME (\E f \in VirtioFences : Answer(f) \/ Signal(f)) \/ Elapse \/ UNCHANGED submissionsVars
        PROVE  UNCHANGED <<stage, arg>>
    BY <2>5 DEF Answer, Signal, Elapse, submissionsVars
  <2>6. CASE \E t \in Callers : NextFence(t)
    BY <2>6, <2>1
  <2>7. CASE \E t \in Threads : PushUnsignaled(t)
    BY <2>7, <2>2
  <2>8. CASE WakeHandler \/ ResponsesDone
    BY <2>8, <2>3
  <2>9. CASE (\E f \in VirtioFences : Answer(f) \/ Signal(f)) \/ Elapse \/ UNCHANGED submissionsVars
    BY <2>9, <2>4, <2>5
  <2> QED BY <2>6, <2>7, <2>8, <2>9
<1>3. \A u \in Threads : stage'[u] = "retain" <=> lock' = u
  BY <1>1, <1>2 DEF OnceInv, ListsInv
<1>4. lock' = NoThread => scan = <<>>
  BY <1>1 DEF OnceInv, ListsInv
<1> QED BY <1>1, <1>2, <1>3, <1>4, SameParts

\* A caller takes the next number.
LEMMA SubmitOnce ==
    ASSUME FenceSubmissionsAssumption, SubmissionsInd, OnceInv,
           NEW t \in Callers, NEW f \in VirtioFences, SubmitFence(t, f)
    PROVE  OnceInv'
<1> USE DEF FenceSubmissionsAssumption
<1>d. PICK d \in Nat : d = submits + 1
  BY SMTT(30) DEF SubmissionsInd, SubmissionsTypeOK
<1>l. PICK l \in {"notify", "push_submission"} : l = IF Query(f) THEN "notify" ELSE "push_submission"
  OBVIOUS
<1>1. /\ stage[t] = "idle" /\ stage' = [stage EXCEPT ![t] = l] /\ submits' = d
      /\ arg' = [arg EXCEPT ![t] = [dxgk |-> d, virtio |-> f]]
      /\ UNCHANGED <<queue, notified>>
  BY <1>d, <1>l DEF SubmitFence, Goto
<1>2. t \in Threads /\ 1 .. d = (1 .. submits) \cup {d} /\ d \notin 1 .. submits
  BY <1>d, SMTT(30) DEF Threads, SubmissionsInd, SubmissionsTypeOK
<1>3. /\ stage'[t] = l /\ arg'[t].dxgk = d
      /\ \A u \in Threads \ {t} : stage'[u] = stage[u] /\ arg'[u] = arg[u]
  BY <1>1, <1>2 DEF SubmissionsInd, SubmissionsTypeOK
<1>4. /\ Submitting(t)' = {d} /\ Submitting(t) = {}
      /\ \A u \in Threads \ {t} : Submitting(u)' = Submitting(u)
  BY <1>1, <1>3 DEF Submitting
<1>5. Vectors' = Vectors /\ \A u \in Threads : Aside(u)' = Aside(u)
  BY <1>1 DEF Vectors, Aside, queue
<1>6. PartsInv'
  <2>1. d \notin Vectors /\ \A u \in Threads : d \notin Aside(u) \cup Submitting(u)
    BY <1>2 DEF OnceInv, PartsInv
  <2>2. \A e : e \in 1 .. submits' <=>
                 \/ e \in Vectors' \/ \E u \in Threads : e \in Aside(u)' \cup Submitting(u)'
    BY <1>1, <1>2, <1>4, <1>5, SMTT(30) DEF OnceInv, PartsInv
  <2>3. UNCHANGED <<fence_submissions, scan, notified>>
    BY <1>1 DEF queue
  <2> QED BY <2>1, <2>2, <2>3, <1>4, <1>5, SMTT(30) DEF OnceInv, PartsInv
<1>7. ListsInv'
  BY <1>1, <1>2, <1>3 DEF OnceInv, ListsInv, queue
<1> QED BY <1>6, <1>7 DEF OnceInv

\* A fence that is completed at once.
LEMMA NotifyOnce ==
    ASSUME FenceSubmissionsAssumption, SubmissionsInd, OnceInv, NEW t \in Threads, NotifyNow(t)
    PROVE  OnceInv'
<1>e. PICK e \in Submissions : e = arg[t]
  BY DEF NotifyNow, SubmissionsInd, ThreadInv
<1>1. /\ stage[t] = "notify" /\ stage' = [stage EXCEPT ![t] = "idle"]
      /\ notified' = Append(notified, e)
      /\ UNCHANGED <<arg, fence_submissions, lock, scan, resubmit, submits>>
  BY <1>e DEF NotifyNow, Goto, queue, bounds
<1>2. stage'[t] = "idle" /\ \A u \in Threads \ {t} : stage'[u] = stage[u]
  BY <1>1 DEF SubmissionsInd, SubmissionsTypeOK
<1>3. /\ Submitting(t) = {e.dxgk} /\ Submitting(t)' = {}
      /\ \A u \in Threads \ {t} : Submitting(u)' = Submitting(u)
  BY <1>e, <1>1, <1>2 DEF Submitting
<1>4. e.dxgk \notin Ids(notified)
  BY <1>3 DEF OnceInv, PartsInv, Vectors
<1>5. Ids(notified') = Ids(notified) \cup {e.dxgk} /\ Unique(notified')
  BY <1>1, <1>4, IdsAppend DEF SubmissionsInd, SubmissionsTypeOK, OnceInv, ListsInv
<1>6. Vectors' = Vectors \cup {e.dxgk} /\ \A u \in Threads : Aside(u)' = Aside(u)
  BY <1>1, <1>5 DEF Vectors, Aside
<1>7. PartsInv'
  <2>1. \A d : d \in 1 .. submits' <=>
                 \/ d \in Vectors' \/ \E u \in Threads : d \in Aside(u)' \cup Submitting(u)'
    BY <1>1, <1>3, <1>6, SMTT(30) DEF OnceInv, PartsInv
  <2>2. e.dxgk \notin Ids(fence_submissions) \cup Ids(scan)
    BY <1>3 DEF OnceInv, PartsInv, Vectors
  <2>3. Ids(notified') \cap (Ids(fence_submissions') \cup Ids(scan')) = {}
    BY <2>2, <1>1, <1>5 DEF OnceInv, PartsInv
  <2> QED BY <2>1, <2>3, <1>1, <1>3, <1>6, SMTT(30) DEF OnceInv, PartsInv
<1>8. ListsInv'
  BY <1>1, <1>2, <1>5 DEF OnceInv, ListsInv
<1> QED BY <1>7, <1>8 DEF OnceInv

\* A fence that waits goes to the vector.
LEMMA PushOnce ==
    ASSUME FenceSubmissionsAssumption, SubmissionsInd, OnceInv, NEW t \in Threads, PushSubmission(t)
    PROVE  OnceInv'
<1>e. PICK e \in Submissions : e = arg[t]
  BY DEF PushSubmission, SubmissionsInd, ThreadInv
<1>1. /\ stage[t] = "push_submission" /\ stage' = [stage EXCEPT ![t] = "lock"]
      /\ fence_submissions' = Append(fence_submissions, e)
      /\ UNCHANGED <<arg, notified, lock, scan, resubmit, submits>>
  BY <1>e DEF PushSubmission, Goto, bounds
<1>2. stage'[t] = "lock" /\ \A u \in Threads \ {t} : stage'[u] = stage[u]
  BY <1>1 DEF SubmissionsInd, SubmissionsTypeOK
<1>3. /\ Submitting(t) = {e.dxgk} /\ Submitting(t)' = {}
      /\ \A u \in Threads \ {t} : Submitting(u)' = Submitting(u)
  BY <1>e, <1>1, <1>2 DEF Submitting
<1>4. e.dxgk \notin Vectors
  BY <1>3 DEF OnceInv, PartsInv
<1>5. Ids(fence_submissions') = Ids(fence_submissions) \cup {e.dxgk} /\ Unique(fence_submissions')
  BY <1>1, <1>4, IdsAppend DEF SubmissionsInd, SubmissionsTypeOK, OnceInv, ListsInv, Vectors
<1>6. Vectors' = Vectors \cup {e.dxgk} /\ \A u \in Threads : Aside(u)' = Aside(u)
  BY <1>1, <1>5 DEF Vectors, Aside
<1>7. PartsInv'
  <2>1. \A d : d \in 1 .. submits' <=>
                 \/ d \in Vectors' \/ \E u \in Threads : d \in Aside(u)' \cup Submitting(u)'
    BY <1>1, <1>3, <1>6, SMTT(30) DEF OnceInv, PartsInv
  <2>2. /\ Ids(fence_submissions') \cap Ids(scan') = {}
        /\ Ids(notified') \cap (Ids(fence_submissions') \cup Ids(scan')) = {}
    BY <1>1, <1>4, <1>5, SMTT(30) DEF OnceInv, PartsInv, Vectors
  <2> QED BY <2>1, <2>2, <1>3, <1>6, SMTT(30) DEF OnceInv, PartsInv
<1>8. ListsInv'
  BY <1>1, <1>2, <1>5 DEF OnceInv, ListsInv
<1> QED BY <1>7, <1>8 DEF OnceInv

\* retain begins: the whole vector is to be scanned.
LEMMA LockOnce ==
    ASSUME FenceSubmissionsAssumption, SubmissionsInd, OnceInv, NEW t \in Threads, Lock(t)
    PROVE  OnceInv'
<1> USE DEF FenceSubmissionsAssumption
<1>1. /\ stage[t] = "lock" /\ stage' = [stage EXCEPT ![t] = "retain"] /\ lock = NoThread /\ lock' = t
      /\ scan' = fence_submissions /\ fence_submissions' = <<>> /\ scan = <<>>
      /\ UNCHANGED <<arg, notified, resubmit, submits>>
  BY DEF Lock, Goto, bounds, OnceInv, ListsInv
<1>2. stage'[t] = "retain" /\ \A u \in Threads \ {t} : stage'[u] = stage[u] /\ stage[u] # "retain"
  BY <1>1 DEF SubmissionsInd, SubmissionsTypeOK, OnceInv, ListsInv, Threads
<1>3. \A u \in Threads : Submitting(u)' = Submitting(u) /\ Aside(u)' = Aside(u)
  BY <1>1, <1>2 DEF Submitting, Aside
<1>4. Ids(<<>>) = {} /\ Unique(<<>>)
  BY SMTT(30) DEF Ids, Unique
<1>5. Vectors' = Vectors
  BY <1>1, <1>4 DEF Vectors
<1>6. PartsInv'
  BY <1>1, <1>3, <1>4, <1>5 DEF OnceInv, PartsInv
<1>7. ListsInv'
  BY <1>1, <1>2, <1>4 DEF OnceInv, ListsInv, Threads
<1> QED BY <1>6, <1>7 DEF OnceInv

\* One submission leaves the scan: completed, set aside or kept.
LEMMA RetainOnce ==
    ASSUME FenceSubmissionsAssumption, SubmissionsInd, OnceInv, NEW t \in Threads,
           RetainReady(t) \/ RetainTimeout(t) \/ RetainKeep(t)
    PROVE  OnceInv'
<1>1. /\ stage[t] = "retain" /\ scan # <<>> /\ scan' = Tail(scan) /\ scan \in Seq(Submissions)
      /\ UNCHANGED <<lock, stage, arg, submits>>
  BY DEF RetainReady, RetainTimeout, RetainKeep, bounds, SubmissionsInd, SubmissionsTypeOK
<1>e. PICK e : e = Head(scan)
  OBVIOUS
<1>2. /\ e \in Submissions /\ e.dxgk \in Ids(scan)
      /\ Ids(scan') = Ids(scan) \ {e.dxgk} /\ Unique(scan')
  BY <1>1, <1>e, IdsTail DEF OnceInv, ListsInv
<1>3. \A u \in Threads : Submitting(u)' = Submitting(u)
  BY <1>1 DEF Submitting
<1>4. /\ e.dxgk \notin Ids(fence_submissions) \cup Ids(notified)
      /\ \A u \in Threads : e.dxgk \notin Aside(u) \cup Submitting(u)
  BY <1>2 DEF OnceInv, PartsInv, Vectors
<1>5. /\ notified \in Seq(Submissions) /\ fence_submissions \in Seq(Submissions)
      /\ resubmit \in [Threads -> Seq(Submissions)]
  BY DEF SubmissionsInd, SubmissionsTypeOK
<1>6. lock = t /\ \A u \in Threads : stage'[u] = "retain" <=> lock' = u
  BY <1>1 DEF OnceInv, ListsInv
<1>6a. lock' = NoThread => scan' = <<>>
  BY <1>6, <1>1 DEF FenceSubmissionsAssumption, Threads
<1>7. CASE RetainReady(t)
  <2>1. notified' = Append(notified, e) /\ UNCHANGED <<fence_submissions, resubmit>>
    BY <1>7, <1>e DEF RetainReady
  <2>2. Ids(notified') = Ids(notified) \cup {e.dxgk} /\ Unique(notified')
    BY <2>1, <1>2, <1>4, <1>5, IdsAppend DEF OnceInv, ListsInv
  <2>3. Vectors' = Vectors /\ \A u \in Threads : Aside(u)' = Aside(u)
    BY <2>1, <2>2, <1>2 DEF Vectors, Aside
  <2>4. PartsInv'
    BY <2>1, <2>2, <2>3, <1>1, <1>2, <1>3, <1>4, SMTT(30) DEF OnceInv, PartsInv
  <2>5. ListsInv'
    BY <2>1, <2>2, <1>2, <1>6, <1>6a DEF OnceInv, ListsInv
  <2> QED BY <2>4, <2>5 DEF OnceInv
<1>8. CASE RetainKeep(t)
  <2>1. fence_submissions' = Append(fence_submissions, e) /\ UNCHANGED <<notified, resubmit>>
    BY <1>8, <1>e DEF RetainKeep
  <2>2. Ids(fence_submissions') = Ids(fence_submissions) \cup {e.dxgk} /\ Unique(fence_submissions')
    BY <2>1, <1>2, <1>4, <1>5, IdsAppend DEF OnceInv, ListsInv
  <2>3. Vectors' = Vectors /\ \A u \in Threads : Aside(u)' = Aside(u)
    BY <2>1, <2>2, <1>2 DEF Vectors, Aside
  <2>4. PartsInv'
    BY <2>1, <2>2, <2>3, <1>1, <1>2, <1>3, <1>4, SMTT(30) DEF OnceInv, PartsInv
  <2>5. ListsInv'
    BY <2>1, <2>2, <1>2, <1>6, <1>6a DEF OnceInv, ListsInv
  <2> QED BY <2>4, <2>5 DEF OnceInv
<1>9. CASE RetainTimeout(t)
  <2>1. /\ resubmit' = [resubmit EXCEPT ![t] = Append(resubmit[t], e)]
        /\ UNCHANGED <<notified, fence_submissions>>
    BY <1>9, <1>e DEF RetainTimeout
  <2>2. resubmit'[t] = Append(resubmit[t], e) /\ \A u \in Threads \ {t} : resubmit'[u] = resubmit[u]
    BY <2>1, <1>5
  <2>3. Ids(resubmit'[t]) = Ids(resubmit[t]) \cup {e.dxgk} /\ Unique(resubmit'[t])
    <3>1. resubmit[t] \in Seq(Submissions) /\ Unique(resubmit[t]) /\ e.dxgk \notin Ids(resubmit[t])
      BY <1>2, <1>4, <1>5 DEF OnceInv, ListsInv, Aside
    <3> QED BY <2>2, <3>1, <1>2, IdsAppend, SMTT(30)
  <2>4. /\ Aside(t)' = Aside(t) \cup {e.dxgk} /\ \A u \in Threads \ {t} : Aside(u)' = Aside(u)
        /\ Vectors' = Vectors \ {e.dxgk}
    BY <2>1, <2>2, <2>3, <1>2, <1>4 DEF Vectors, Aside
  <2>5. PartsInv'
    <3>1. \A d : d \in 1 .. submits' <=>
                   \/ d \in Vectors' \/ \E u \in Threads : d \in Aside(u)' \cup Submitting(u)'
      <4>1. e.dxgk \in Vectors
        BY <1>2 DEF Vectors
      <4> QED BY <4>1, <2>4, <1>1, <1>3, SMTT(30) DEF OnceInv, PartsInv
    <3>2. \A u, v \in Threads : u # v => Aside(u)' \cap Aside(v)' = {} /\ Submitting(u)' \cap Submitting(v)' = {}
      BY <2>4, <1>3, <1>4, SMTT(30) DEF OnceInv, PartsInv
    <3>3. \A u, v \in Threads : Aside(u)' \cap Submitting(v)' = {}
      BY <2>4, <1>3, <1>4, SMTT(30) DEF OnceInv, PartsInv
    <3>4. \A u \in Threads : (Aside(u)' \cup Submitting(u)') \cap Vectors' = {}
      BY <2>4, <1>3, <1>4, SMTT(30) DEF OnceInv, PartsInv
    <3>5. /\ Ids(fence_submissions') \cap Ids(scan') = {}
          /\ Ids(notified') \cap (Ids(fence_submissions') \cup Ids(scan')) = {}
      BY <2>1, <1>2 DEF OnceInv, PartsInv
    <3> QED BY <3>1, <3>2, <3>3, <3>4, <3>5 DEF PartsInv
  <2>6. ListsInv'
    BY <2>1, <2>2, <2>3, <1>2, <1>6, <1>6a DEF OnceInv, ListsInv
  <2> QED BY <2>5, <2>6 DEF OnceInv
<1> QED BY <1>7, <1>8, <1>9

\* retain ends, and the submissions set aside are pushed back.
LEMMA ReleaseOnce ==
    ASSUME FenceSubmissionsAssumption, SubmissionsInd, OnceInv, NEW t \in Threads, Unlock(t) \/ Extend(t)
    PROVE  OnceInv'
<1>t. /\ fence_submissions \in Seq(Submissions) /\ resubmit \in [Threads -> Seq(Submissions)]
      /\ stage \in [Threads -> {"idle", "push_unsignaled", "responses", "notify",
                           "push_submission", "lock", "retain", "extend"}]
  BY DEF SubmissionsInd, SubmissionsTypeOK
<1>1. CASE Unlock(t)
  <2>1. /\ stage[t] = "retain" /\ stage' = [stage EXCEPT ![t] = "extend"] /\ scan = <<>> /\ lock' = NoThread
        /\ UNCHANGED <<fence_submissions, scan, resubmit, notified, arg, submits>>
    BY <1>1 DEF Unlock, Goto, bounds
  <2>2. stage'[t] = "extend" /\ \A u \in Threads \ {t} : stage'[u] = stage[u]
    BY <2>1, <1>t
  <2>3. \A u \in Threads : Submitting(u)' = Submitting(u)
    BY <2>1, <2>2 DEF Submitting
  <2>4. \A u \in Threads : stage'[u] = "retain" <=> lock' = u
    BY <2>1, <2>2 DEF OnceInv, ListsInv, FenceSubmissionsAssumption, Threads
  <2> QED BY <2>1, <2>3, <2>4, SameParts
<1>2. CASE Extend(t)
  <2>1. /\ stage[t] = "extend" /\ stage' = [stage EXCEPT ![t] = "idle"]
        /\ fence_submissions' = fence_submissions \o resubmit[t]
        /\ resubmit' = [resubmit EXCEPT ![t] = <<>>]
        /\ UNCHANGED <<lock, scan, notified, arg, submits>>
    BY <1>2 DEF Extend, Goto, bounds
  <2>2. /\ stage'[t] = "idle" /\ \A u \in Threads \ {t} : stage'[u] = stage[u]
        /\ resubmit'[t] = <<>> /\ \A u \in Threads \ {t} : resubmit'[u] = resubmit[u]
    BY <2>1, <1>t
  <2>3. \A u \in Threads : Submitting(u)' = Submitting(u)
    BY <2>1, <2>2 DEF Submitting
  <2>4. Ids(<<>>) = {} /\ Unique(<<>>)
    BY SMTT(30) DEF Ids, Unique
  <2>5. Aside(t)' = {} /\ \A u \in Threads \ {t} : Aside(u)' = Aside(u)
    BY <2>2, <2>4 DEF Aside
  <2>6. resubmit[t] \in Seq(Submissions) /\ Aside(t) \cap Vectors = {}
    BY <1>t DEF OnceInv, PartsInv
  <2>7. Ids(fence_submissions') = Ids(fence_submissions) \cup Aside(t) /\ Unique(fence_submissions')
    BY <2>1, <2>6, <1>t, IdsConcat DEF OnceInv, ListsInv, Aside, Vectors
  <2>8. Vectors' = Vectors \cup Aside(t)
    BY <2>1, <2>7 DEF Vectors
  <2>9. PartsInv'
    <3>1. \A d : d \in 1 .. submits' <=>
                   \/ d \in Vectors' \/ \E u \in Threads : d \in Aside(u)' \cup Submitting(u)'
      BY <2>1, <2>3, <2>5, <2>8, SMTT(30) DEF OnceInv, PartsInv
    <3>2. \A u, v \in Threads : u # v => Aside(u)' \cap Aside(v)' = {} /\ Submitting(u)' \cap Submitting(v)' = {}
      BY <2>3, <2>5 DEF OnceInv, PartsInv
    <3>3. \A u, v \in Threads : Aside(u)' \cap Submitting(v)' = {}
      BY <2>3, <2>5 DEF OnceInv, PartsInv
    <3>4. \A u \in Threads : (Aside(u)' \cup Submitting(u)') \cap Vectors' = {}
      BY <2>3, <2>5, <2>8, SMTT(30) DEF OnceInv, PartsInv
    <3>5. /\ Ids(fence_submissions') \cap Ids(scan') = {}
          /\ Ids(notified') \cap (Ids(fence_submissions') \cup Ids(scan')) = {}
      BY <2>1, <2>6, <2>7 DEF OnceInv, PartsInv, Vectors
    <3> QED BY <3>1, <3>2, <3>3, <3>4, <3>5 DEF PartsInv
  <2>10. ListsInv'
    BY <2>1, <2>2, <2>4, <2>7 DEF OnceInv, ListsInv
  <2> QED BY <2>9, <2>10 DEF OnceInv
<1> QED BY <1>1, <1>2

\* A list without repetition holds a fence at one position or at none.
LEMMA PositionOf ==
    ASSUME NEW s, Unique(s), NEW d
    PROVE  /\ d \notin Ids(s) => Positions(d, s) = {}
           /\ d \in Ids(s) => \E k : Positions(d, s) = {k}
<1>1. d \notin Ids(s) => Positions(d, s) = {}
  BY DEF Ids, Positions
<1>2. ASSUME d \in Ids(s) PROVE \E k : Positions(d, s) = {k}
  <2>1. PICK k \in DOMAIN s : s[k].dxgk = d
    BY <1>2 DEF Ids
  <2>2. Positions(d, s) = {k}
    BY <2>1 DEF Positions, Unique
  <2> QED BY <2>2
<1> QED BY <1>1, <1>2

\* So it is one place or none.
LEMMA PlaceOf ==
    ASSUME NEW s, Unique(s), NEW d, NEW list, NEW t
    PROVE  /\ d \notin Ids(s) => PlacesIn(list, t, d, s) = {}
           /\ d \in Ids(s) => \E p : PlacesIn(list, t, d, s) = {p}
<1>1. ASSUME d \notin Ids(s) PROVE PlacesIn(list, t, d, s) = {}
  BY <1>1, PositionOf DEF PlacesIn
<1>2. ASSUME d \in Ids(s) PROVE \E p : PlacesIn(list, t, d, s) = {p}
  <2>1. PICK k : Positions(d, s) = {k}
    BY <1>2, PositionOf
  <2>2. PlacesIn(list, t, d, s) = {<<list, t, k>>}
    BY <2>1 DEF PlacesIn
  <2> QED BY <2>2
<1> QED BY <1>1, <1>2

\* The division into sets makes the places of a fence one.
LEMMA OnePlace ==
    ASSUME FenceSubmissionsAssumption, SubmissionsInd, OnceInv, NEW d \in 1 .. submits
    PROVE  \E p : Places(d) = {p}
<1>Q. PICK Q : Q = PlacesIn("queue", NoThread, d, fence_submissions)
  OBVIOUS
<1>C. PICK C : C = PlacesIn("scan", NoThread, d, scan)
  OBVIOUS
<1>N. PICK N : N = PlacesIn("notified", NoThread, d, notified)
  OBVIOUS
<1>R. PICK R : R = UNION {PlacesIn("resubmit", t, d, resubmit[t]) : t \in Threads}
  OBVIOUS
<1>S. PICK S : S = {<<"submitting", t, 0>> : t \in Submitters(d)}
  OBVIOUS
<1>0. Places(d) = S \cup Q \cup C \cup R \cup N
  BY <1>Q, <1>C, <1>N, <1>R, <1>S DEF Places
<1>1. \A u \in Threads : u \in Submitters(d) <=> d \in Submitting(u)
  BY DEF Submitting, Submitters
<1>u. Unique(fence_submissions) /\ Unique(scan) /\ Unique(notified)
      /\ \A t \in Threads : Unique(resubmit[t])
  BY DEF OnceInv, ListsInv
<1>2. /\ d \notin Ids(fence_submissions) => Q = {}
      /\ d \in Ids(fence_submissions) => \E p : Q = {p}
  BY <1>u, <1>Q, PlaceOf
<1>3. (d \notin Ids(scan) => C = {}) /\ (d \in Ids(scan) => \E p : C = {p})
  BY <1>u, <1>C, PlaceOf
<1>4. (d \notin Ids(notified) => N = {}) /\ (d \in Ids(notified) => \E p : N = {p})
  BY <1>u, <1>N, PlaceOf
<1>5. (\A t \in Threads : d \notin Submitting(t)) => S = {}
  BY <1>1, <1>S DEF Submitters
<1>p. \A t \in Threads : /\ d \notin Aside(t) => PlacesIn("resubmit", t, d, resubmit[t]) = {}
                         /\ d \in Aside(t) => \E p : PlacesIn("resubmit", t, d, resubmit[t]) = {p}
  BY <1>u, PlaceOf DEF Aside
<1>6. (\A t \in Threads : d \notin Aside(t)) => R = {}
  BY <1>p, <1>R
<1>7. CASE d \in Vectors
  <2>1. S = {} /\ R = {}
    BY <1>7, <1>5, <1>6 DEF OnceInv, PartsInv
  <2>2. \/ \E p : Q = {p} /\ C = {} /\ N = {}
        \/ \E p : Q = {} /\ C = {p} /\ N = {}
        \/ \E p : Q = {} /\ C = {} /\ N = {p}
    BY <1>7, <1>2, <1>3, <1>4 DEF OnceInv, PartsInv, Vectors
  <2> QED BY <2>1, <2>2, <1>0
<1>8. ASSUME NEW t \in Threads, d \in Submitting(t) PROVE \E p : Places(d) = {p}
  <2>1. d \notin Vectors /\ \A u \in Threads : d \notin Aside(u) /\ (u # t => d \notin Submitting(u))
    BY <1>8 DEF OnceInv, PartsInv
  <2>2. Q = {} /\ C = {} /\ N = {} /\ R = {}
    BY <2>1, <1>2, <1>3, <1>4, <1>6 DEF Vectors
  <2>3. Submitters(d) = {t}
    BY <2>1, <1>8, <1>1 DEF Submitters
  <2>4. S = {<<"submitting", t, 0>>}
    BY <2>3, <1>S
  <2> QED BY <2>2, <2>4, <1>0
<1>9. ASSUME NEW t \in Threads, d \in Aside(t) PROVE \E p : Places(d) = {p}
  <2>1. d \notin Vectors /\ \A u \in Threads : d \notin Submitting(u) /\ (u # t => d \notin Aside(u))
    BY <1>9 DEF OnceInv, PartsInv
  <2>2. Q = {} /\ C = {} /\ N = {} /\ S = {}
    BY <2>1, <1>2, <1>3, <1>4, <1>5 DEF Vectors
  <2>3. PICK p : PlacesIn("resubmit", t, d, resubmit[t]) = {p}
    BY <1>9, <1>p
  <2>4. R = {p}
    BY <2>1, <2>3, <1>p, <1>R, SMTT(30)
  <2> QED BY <2>2, <2>4, <1>0
<1> QED BY <1>7, <1>8, <1>9 DEF OnceInv, PartsInv

\* The scan of the vector under its lock, the completions and the lists set aside
\* always divide the fences submitted.
THEOREM Divided == ASSUME FenceSubmissionsAssumption PROVE SubmissionsSpec => []OnceInv
<1>1. SubmissionsInit => OnceInv
  <2> SUFFICES ASSUME SubmissionsInit PROVE OnceInv
    OBVIOUS
  <2>1. Ids(<<>>) = {} /\ Unique(<<>>)
    BY SMTT(30) DEF Ids, Unique
  <2>2. Vectors = {} /\ \A t \in Threads : Aside(t) = {} /\ Submitting(t) = {}
    BY <2>1 DEF SubmissionsInit, Vectors, Aside, Submitting
  <2>3. PartsInv
    BY <2>1, <2>2, SMTT(30) DEF SubmissionsInit, PartsInv
  <2>4. ListsInv
    BY <2>1 DEF SubmissionsInit, ListsInv, FenceSubmissionsAssumption, Threads
  <2> QED BY <2>3, <2>4 DEF OnceInv
<1>2. SubmissionsInd /\ OnceInv /\ [SubmissionsNext]_submissionsVars => OnceInv'
  <2> SUFFICES ASSUME SubmissionsInd, OnceInv, [SubmissionsNext]_submissionsVars PROVE OnceInv'
    OBVIOUS
  <2>1. ASSUME NEW t \in Callers, NextFence(t) PROVE OnceInv'
    BY <2>1, IdleStepsOnce
  <2>2. ASSUME NEW t \in Callers, NEW f \in VirtioFences, SubmitFence(t, f) PROVE OnceInv'
    BY <2>2, SubmitOnce
  <2>3. ASSUME NEW t \in Threads, Step(t) PROVE OnceInv'
    BY <2>3, IdleStepsOnce, NotifyOnce, PushOnce, LockOnce, RetainOnce, ReleaseOnce
       DEF Step, HandleFenceSubmissions
  <2>4. ASSUME NEW f \in VirtioFences, Answer(f) \/ Signal(f) PROVE OnceInv'
    BY <2>4, IdleStepsOnce
  <2>5. CASE WakeHandler \/ ResponsesDone \/ Elapse \/ UNCHANGED submissionsVars
    BY <2>5, IdleStepsOnce
  <2> QED BY <2>1, <2>2, <2>3, <2>4, <2>5 DEF SubmissionsNext
<1> QED BY <1>1, <1>2, SubmissionsInductive, PTL DEF SubmissionsSpec

INSTANCE FiniteSetTheorems

\* A submitted WDDM fence is in one place at any time and so is completed at most once,
\* and none waits for a virtio fence that has signalled: neither a second scan, a timeout
\* nor the push after a query duplicates or drops it (submit_fence and handle_fence_submissions).
THEOREM CompletedOnce ==
    ASSUME FenceSubmissionsAssumption PROVE SubmissionsSpec => []NotifiedOnce
<1>1. SubmissionsInd /\ OnceInv => SubmissionsTypeOK /\ InOnePlace
  <2> SUFFICES ASSUME SubmissionsInd, OnceInv, NEW d \in 1 .. submits PROVE Cardinality(Places(d)) = 1
    BY DEF InOnePlace, SubmissionsInd
  <2>1. PICK p : Places(d) = {p}
    BY OnePlace
  <2> QED BY <2>1, FS_Singleton
<1> QED BY <1>1, SubmissionsInductive, Divided, NothingForgotten, PTL DEF NotifiedOnce
=============================================================================
