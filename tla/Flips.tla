-------------------------------- MODULE Flips --------------------------------
(***************************************************************************)
(* Page flips.  set_vidpn_source_address puts an allocation into the queue *)
(* of every target of a source; a timer takes one flip of each queue 60    *)
(* times a second, asks the host to scan it out and reports the address of *)
(* every target to dxgkrnl as a VSync.  dxgkrnl takes the report as the end*)
(* of the flip, and may then destroy what was on the screen before.        *)
(*                                                                         *)
(* The address of a flip is that of its allocation.  The timer holds a Weak*)
(* reference while a flip is queued and a strong one while it works on it. *)
(* Requests of the timer and of destroy_allocation reach the host through  *)
(* the control queue, in order as long as its channel does not overflow.   *)
(***************************************************************************)
EXTENDS Naturals, Sequences, SequencesExt, FiniteSets

CONSTANTS
    Targets,        \* scanouts with a VidPnOutput, 1 .. n
    Allocs, Res3D,  \* allocations, and those that are 3D resources; the rest are blobs
    Cap,            \* length of a flip queue, 128 in the code
    Worlds          \* bounds, one of which a behaviour starts with: the committed
                    \* source_target_map, the allocations there are, how often
                    \* set_vidpn_source_address and control_interrupt are called

None == "none"

FlipsAssumption ==
    /\ Res3D \subseteq Allocs /\ Cap \in Nat \ {0}
    /\ \A w \in Worlds : /\ w.allocs \subseteq Allocs /\ w.flips \in Nat /\ w.vsyncs \in Nat
                        /\ \A s \in DOMAIN w.map : ToSet(w.map[s]) \subseteq Targets

VARIABLES
    world,      \* source_target_map and what is left of the bounds
    flipq,      \* VidPnOutput.flipq
    addrs,      \* FlipTimerContext.addrs, the last address taken from each queue
    vsync,      \* FlipTimerContext.vsync_enabled
    alloc,      \* Allocations: handle, strong count, created on the host, blob info
    timer,      \* the timer callback: next target, its Arc, addresses and sent flag
    ctl,        \* requests in the control channel
    event,      \* its event
    host,       \* resources, the one each target scans out, targets that went blank
    os,         \* dxgkrnl: address last reported and flips not reported yet
    last,       \* history: the latest flip asked for of each target
    skipped,    \* history: flips of a target that were reported but not scanned out
    torn        \* history: targets of which a pending flip was destroyed

vars == <<world, flipq, addrs, vsync, alloc, timer, ctl, event, host, os, last, skipped, torn>>

Init ==
    /\ world \in Worlds
    /\ flipq = [t \in Targets |-> <<>>] /\ addrs = [t \in Targets |-> None]
    /\ vsync = FALSE
    /\ alloc = [a \in Allocs |-> [handle |-> a \in world.allocs, strong |-> 1, created |-> a \in Res3D, info |-> FALSE]]
    /\ timer = [pc |-> "idle", t |-> 1, arc |-> None, scanouts |-> [t \in Targets |-> None], sent |-> FALSE]
    /\ ctl = <<>> /\ event = FALSE
    /\ host = [res |-> Allocs, scan |-> [t \in Targets |-> None], blank |-> {}]
    /\ os = [shown |-> [t \in Targets |-> None], pending |-> [t \in Targets |-> <<>>]]
    /\ last = [t \in Targets |-> None] /\ skipped = {} /\ torn = {}

-----------------------------------------------------------------------------
(********************************* dxgkrnl *********************************)

TargetsForSource(s) == ToSet(world.map[s])

\* Mutant: a full queue refuses the new flip.
ForcePushRefuses(q, a) == IF Len(q) < Cap THEN Append(q, a) ELSE q

\* force_push of a full ArrayQueue throws the oldest flip away.
ForcePush(q, a) == Append(IF Len(q) < Cap THEN q ELSE Tail(q), a)

\* queue_scanout: a source without targets is an error and nothing is queued.
QueueScanout(s, a) ==
    /\ flipq' = [t \in Targets |-> IF t \in TargetsForSource(s) THEN ForcePush(flipq[t], a) ELSE flipq[t]]
    /\ os' = [os EXCEPT !.pending = [t \in Targets |-> IF t \in TargetsForSource(s) THEN Append(@[t], a) ELSE @[t]]]
    /\ last' = [t \in Targets |-> IF t \in TargetsForSource(s) THEN a ELSE last[t]]
    /\ skipped' = {x \in skipped : x[1] \notin TargetsForSource(s)}

SetVidPnSourceAddress(s, a) ==
    /\ alloc[a].handle /\ world.flips > 0 /\ world' = [world EXCEPT !.flips = @ - 1]
    /\ QueueScanout(s, a)
    /\ UNCHANGED <<addrs, vsync, alloc, timer, ctl, event, host, torn>>

ControlInterrupt(enabled) ==
    /\ world.vsyncs > 0 /\ world' = [world EXCEPT !.vsyncs = @ - 1]
    /\ vsync # enabled /\ vsync' = enabled
    /\ enabled \/ \A t \in Targets : os.pending[t] = <<>>
    /\ UNCHANGED <<flipq, addrs, alloc, timer, ctl, event, host, os, last, skipped, torn>>

\* attach_to_device creates the resource of a blob on the host; ESCAPE_BLOB_INFO_SET
\* says how it is laid out.
CreateBlob(a) ==
    /\ alloc[a].handle /\ ~alloc[a].created /\ alloc' = [alloc EXCEPT ![a].created = TRUE]
    /\ UNCHANGED <<world, flipq, addrs, vsync, timer, ctl, event, host, os, last, skipped, torn>>
SetBlobInfo(a) ==
    /\ alloc[a].handle /\ a \notin Res3D /\ ~alloc[a].info /\ alloc' = [alloc EXCEPT ![a].info = TRUE]
    /\ UNCHANGED <<world, flipq, addrs, vsync, timer, ctl, event, host, os, last, skipped, torn>>

\* dxgkrnl destroys what no target shows or is going to; a flip of it may still be
\* pending with a later one behind it when its process ends.
Unshown(a) == \A t \in Targets : os.shown[t] # a /\ last[t] # a

\* destroy_allocation: into_inner fails while the timer holds the allocation, which
\* is then never told to the host.
DestroyAllocation(a) ==
    /\ alloc[a].handle /\ Unshown(a)
    /\ alloc' = [alloc EXCEPT ![a].handle = FALSE, ![a].strong = @ - 1]
    /\ torn' = torn \union {t \in Targets : a \in ToSet(os.pending[t])}
    /\ IF alloc[a].strong = 1 /\ alloc[a].created
         THEN ctl' = Append(ctl, [op |-> "unref", a |-> a, t |-> 0]) /\ event' = TRUE
         ELSE UNCHANGED <<ctl, event>>
    /\ UNCHANGED <<world, flipq, addrs, vsync, timer, host, os, last, skipped>>

-----------------------------------------------------------------------------
(******************************** the timer ********************************)

\* KeTimer's callback; it does not run again before it has returned.
Tick ==
    /\ timer.pc = "idle"
    /\ timer' = [timer EXCEPT !.pc = "pop", !.t = 1, !.scanouts = [t \in Targets |-> None], !.sent = FALSE]
    /\ UNCHANGED <<world, flipq, addrs, vsync, alloc, ctl, event, host, os, last, skipped, torn>>

NextTarget(tm) == [tm EXCEPT !.t = @ + 1, !.arc = None, !.pc = IF tm.t \in Targets /\ tm.t + 1 \in Targets THEN "pop" ELSE "vsync"]

Skip(t, a) == skipped' = IF last[t] = a THEN skipped \union {<<t, a>>} ELSE skipped

\* The next flip of a target.  With none the address it has is reported again.  The
\* address is stored before the code knows whether the allocation can be shown.
FlipPop ==
    LET t == timer.t
        seen == [timer EXCEPT !.scanouts[t] = IF flipq[t] = <<>> THEN addrs[t] ELSE Head(flipq[t])]
    IN  /\ timer.pc = "pop"
        /\ \/ /\ flipq[t] = <<>>
              /\ timer' = NextTarget(seen) /\ UNCHANGED <<flipq, addrs, alloc, skipped>>
           \/ /\ flipq[t] # <<>>
              /\ flipq' = [flipq EXCEPT ![t] = Tail(@)] /\ addrs' = [addrs EXCEPT ![t] = Head(flipq[t])]
              /\ IF alloc[Head(flipq[t])].strong = 0
                   THEN timer' = NextTarget(seen) /\ Skip(t, Head(flipq[t])) /\ UNCHANGED alloc
                   ELSE /\ timer' = [seen EXCEPT !.arc = Head(flipq[t]), !.pc = "scanout"]
                        /\ alloc' = [alloc EXCEPT ![Head(flipq[t])].strong = @ + 1] /\ UNCHANGED skipped
        /\ UNCHANGED <<world, vsync, ctl, event, host, os, last, torn>>

\* A resource the host does not have, and a blob without a layout, are left out.
Showable(a) == alloc[a].created /\ (a \in Res3D \/ alloc[a].info)

SetScanout(a, t) == <<[op |-> "set_scanout", a |-> a, t |-> t]>>
SetScanoutBlob(a, t) == <<[op |-> "set_scanout", a |-> a, t |-> t]>>
ResourceFlush(a, t) == <<[op |-> "flush", a |-> a, t |-> t]>>

\* The Arc is dropped at the end of the turn.  A resource whose handle went away
\* meanwhile is only freed by the driver, not by the host.
FlipScanout ==
    LET a == timer.arc
        t == timer.t
    IN  /\ timer.pc = "scanout"
        /\ alloc' = [alloc EXCEPT ![a].strong = @ - 1]
        /\ \/ /\ Showable(a)
              /\ ctl' = ctl \o (IF a \in Res3D THEN SetScanout(a, t) ELSE SetScanoutBlob(a, t)) \o ResourceFlush(a, t)
              /\ event' = TRUE /\ timer' = [NextTarget(timer) EXCEPT !.sent = TRUE] /\ UNCHANGED skipped
           \/ /\ ~Showable(a) /\ Skip(t, a)
              /\ timer' = NextTarget(timer) /\ UNCHANGED <<ctl, event>>
        /\ UNCHANGED <<world, flipq, addrs, vsync, host, os, last, torn>>

\* Mutant: the address last queued is reported.
ReportedAddrLatest(t) == last[t]

ReportedAddr(t) == timer.scanouts[t]

\* What dxgkrnl makes of a VSync: the flips up to the one reported are done.
Done(q, a) == IF a \in ToSet(q) THEN SubSeq(q, SelectInSeq(q, LAMBDA x : x = a) + 1, Len(q)) ELSE q

VSync ==
    os' = [shown |-> [t \in Targets |-> ReportedAddr(t)],
           pending |-> [t \in Targets |-> Done(os.pending[t], ReportedAddr(t))]]

FlipVSync ==
    /\ timer.pc = "vsync"
    /\ IF vsync THEN VSync ELSE UNCHANGED os
    /\ event' = (event \/ timer.sent)
    /\ timer' = [timer EXCEPT !.pc = "idle"]
    /\ UNCHANGED <<world, flipq, addrs, vsync, alloc, ctl, host, last, skipped, torn>>

-----------------------------------------------------------------------------
(********************************* the host ********************************)

Execute(h, r) ==
    CASE r.op = "set_scanout" /\ r.a \in h.res -> [h EXCEPT !.scan[r.t] = r.a, !.blank = @ \ {r.t}]
      [] r.op = "unref" -> [res |-> h.res \ {r.a},
                            scan |-> [t \in Targets |-> IF h.scan[t] = r.a THEN None ELSE h.scan[t]],
                            blank |-> h.blank \union {t \in Targets : h.scan[t] = r.a}]
      [] OTHER -> h

HandleRequests ==
    /\ event /\ event' = FALSE /\ ctl' = <<>>
    /\ host' = FoldLeft(Execute, host, ctl)
    /\ UNCHANGED <<world, flipq, addrs, vsync, alloc, timer, os, last, skipped, torn>>

Next ==
    \/ \E s \in DOMAIN world.map, a \in Allocs : SetVidPnSourceAddress(s, a)
    \/ \E e \in BOOLEAN : ControlInterrupt(e)
    \/ \E a \in Allocs : CreateBlob(a)
    \/ \E a \in Allocs : SetBlobInfo(a)
    \/ \E a \in Allocs : DestroyAllocation(a)
    \/ Tick \/ FlipPop \/ FlipScanout \/ FlipVSync
    \/ HandleRequests

Timer == Tick \/ FlipPop \/ FlipScanout \/ FlipVSync

\* The timer is periodic and the handler thread waits for the event.
Fairness == WF_vars(Timer) /\ WF_vars(HandleRequests)

Spec == Init /\ [][Next]_vars /\ Fairness

-----------------------------------------------------------------------------
(******************************** properties *******************************)

\* Once dxgkrnl has been told of a flip it may destroy what was shown before, and
\* the screen stays lit: the host is asked to scan the new allocation out before
\* the VSync and the destruction reaches it afterwards (FlipTimerContext::flip),
\* unless the flip that was reported could not be shown at all or was destroyed
\* while it was pending.
ScreenStaysLit == \A t \in host.blank : t \in torn \/ \E x \in skipped : x[1] = t

\* A target shows what was last asked for, and dxgkrnl knows while VSync is on.
Settled(t) ==
    \/ last[t] = None \/ <<t, last[t]>> \in skipped
    \/ host.scan[t] = last[t] /\ (vsync => os.shown[t] = last[t])

\* Every target shows the last flip asked for on it.
AllSettled == \A t \in Targets : Settled(t)
=============================================================================
