-------------------------------- MODULE VidPn --------------------------------
(***************************************************************************)
(* The display configuration calls: enum_cofunc_modality offers modes for  *)
(* a VidPN (a set of paths from sources to targets), commit_vidpn makes    *)
(* one current, recommend_monitor_modes lists the modes of a monitor.      *)
(*                                                                         *)
(* dxgkrnl lends handles (path infos, mode sets, mode infos) that must be  *)
(* given back, or handed over by adding a mode to its set or assigning a   *)
(* set.  The driver keeps each in a guard whose drop releases it; any call *)
(* of dxgkrnl may fail and the guards then unwind.  os is dxgkrnl's ledger *)
(* of these handles.  dxgkrnl makes these calls one at a time.             *)
(***************************************************************************)
EXTENDS Integers, Sequences, SequencesExt, FiniteSets

CONSTANTS
    Scanouts,       \* 0 .. num_scanouts - 1: the sources, and the targets
    OutputModes,    \* modes of the scanouts that have a VidPnOutput, preferred first
    VidPns,         \* VidPNs the calls are about: the sequence of paths and the mode
                    \* pinned on each source and target
    Pivots,         \* what enum_cofunc_modality must leave alone: type, source, target
    MaxFaults,      \* calls of dxgkrnl that fail in one call of the driver
    MaxCalls        \* calls of the driver

None == "none"
Outputs == DOMAIN OutputModes

VidPnAssumption ==
    /\ Outputs \subseteq Scanouts /\ MaxFaults \in Nat /\ MaxCalls \in Nat
    /\ \A o \in Outputs : OutputModes[o] # <<>>
    /\ \A v \in VidPns : \A i \in DOMAIN v.paths : {v.paths[i].src, v.paths[i].tgt} \subseteq 0..15

VARIABLES
    current,    \* VidPnOutput.current_mode of each output, an index or 0 for None
    map,        \* source_target_map
    vidpn,      \* the VidPN of the call with the mode sets and support assigned to it
    os,         \* dxgkrnl's ledger: handles lent, and whether one was misused
    held,       \* the guards of the call, in the order they were made
    iter,       \* VidPnPathInfoIter.current, the index of a path or 0
    call,       \* arguments of the call and its local variables
    pc, result, faults, calls,
    committed,  \* history: mode and targets of the last commit of each source
    disturbed   \* history: source and target pairs whose target another commit has touched

driver == <<current, map>>
frame == <<held, iter, call>>
history == <<committed, disturbed>>
vars == <<driver, vidpn, os, frame, pc, result, faults, calls, history>>

-----------------------------------------------------------------------------
(******************************* the handles *******************************)

PathInfo(i) == <<"path", i>>
SourceModeSet(s, age) == <<"source", s, age>>
TargetModeSet(t, age) == <<"target", t, age>>
MonitorModeSet(t) == <<"monitor", t, "old">>
SourceMode(set, j) == <<"mode", set, j>>
TargetMode(set, j) == <<"mode", set, j>>
MonitorMode(set, j) == <<"mode", set, j>>
PinnedSourceMode(set) == <<"mode", set, 0>>
PinnedTargetMode(set) == <<"mode", set, 0>>

InUse(o, h) == \E x \in o.live : x[1] = "mode" /\ x[2] = h

\* dxgkrnl lends a handle; takes one back, which must be out on loan with nothing
\* of it still lent.
Lend(o, h) == [live |-> o.live \union {h}, misuse |-> o.misuse \/ h \in o.live]
TakeBack(o, h) == [live |-> o.live \ {h}, misuse |-> o.misuse \/ h \notin o.live \/ InUse(o, h)]

\* The guards of a call are dropped last to first.
Unwind(o, guards) == FoldRight(LAMBDA h, acc : TakeBack(acc, h), guards, o)

Push(h) == os' = Lend(os, h) /\ held' = Append(held, h)
Pop == os' = TakeBack(os, Last(held)) /\ held' = Front(held)

\* Drop for VidPnPathInfoIter: the path it has fetched ahead goes back as well.
IterGuards == (IF iter = 0 THEN <<>> ELSE <<PathInfo(iter)>>) \o held
Return(status) ==
    /\ os' = Unwind(os, IterGuards) /\ held' = <<>> /\ iter' = 0
    /\ pc' = "idle" /\ result' = status

\* vidpn_call_status: a call of dxgkrnl that returns an error status, which the
\* driver passes on.
CallFails(status) ==
    /\ faults > 0 /\ faults' = faults - 1
    /\ Return(status) /\ UNCHANGED <<driver, vidpn, call, calls, history>>

Goto(l) == pc' = l /\ UNCHANGED <<result, faults, calls>>
Reject(status) == Return(status) /\ UNCHANGED <<driver, vidpn, call, faults, calls, history>>

-----------------------------------------------------------------------------
(****************************** what is checked ****************************)

Path == vidpn.paths[call.i]

\* check_vidpn_present_path
CheckPresentPath(p) ==
    CASE p.src \notin Scanouts -> "INVALID_SOURCE"
      [] p.tgt \notin Scanouts -> "INVALID_TARGET"
      [] p.gamma # "default" -> "GAMMA_RAMP_NOT_SUPPORTED"
      [] p.scaling \notin {"identity", "centered", "notspecified", "uninitialized"} -> "MODALITY_NOT_SUPPORTED"
      [] p.rotation \notin {"identity", "rotate90", "notspecified", "uninitialized"} -> "MODALITY_NOT_SUPPORTED"
      [] p.basis \notin {"scrgb", "uninitialized"} -> "INVALID_SOURCE_MODE"
      [] OTHER -> "ok"

\* check_vidpn_source_mode
CheckSourceMode(m) ==
    /\ m.type = "graphics" /\ m.basis \in {"scrgb", "uninitialized"}
    /\ m.access = "direct" /\ m.format = "A8R8G8B8"

\* MonitorMode::fill_graphics_info: the source mode a monitor mode is offered as.
GraphicsInfo(size) ==
    [type |-> "graphics", basis |-> "scrgb", access |-> "direct", format |-> "A8R8G8B8", size |-> size]

\* MonitorMode::fill_video_signal_info and the preference: a target or monitor mode.
SignalInfo(j, size) == [size |-> size, hz |-> 60, preferred |-> j = 1]

\* Output of the path's target, None when the scanout has no VidPnOutput.
Output(t) == IF t \in Outputs THEN OutputModes[t] ELSE <<>>

-----------------------------------------------------------------------------
(***************************** building mode sets **************************)

\* call.set names the set being filled, call.j the next mode of call.tgt's output.
ModeInfo(set, j) ==
    LET size == Output(call.tgt)[j]
    IN  IF set[1] = "source" THEN GraphicsInfo(size) ELSE SignalInfo(j, size)

\* dxgkrnl refuses a mode that differs only in preference from one of the set.
InModeSet(set, m) == \E x \in set : x.size = m.size

CreateModeInfo(handle, next) ==
    /\ call.j <= Len(Output(call.tgt))
    /\ \/ CallFails("CREATE_NEW_MODE_INFO")
       \/ /\ Push(handle) /\ Goto(next)
          /\ UNCHANGED <<driver, vidpn, iter, call, history>>

\* add_mode_autorelease: the set owns the mode; one the set has already, and one
\* dxgkrnl refuses, goes back into its guard and is released.
AddMode(next) ==
    LET m == ModeInfo(call.set, call.j)
    IN  \/ CallFails("ADD_MODE")
        \/ /\ Pop /\ Goto(next)
           /\ call' = [call EXCEPT !.j = @ + 1, !.added = IF InModeSet(@, m) THEN @ ELSE @ \union {m}]
           /\ UNCHANGED <<driver, vidpn, iter, history>>

\* A set the driver acquired is dropped when nothing is pinned, a new one made.
AcquireModeSet(set, next) ==
    \/ CallFails("ACQUIRE_MODE_SET")
    \/ /\ Push(set) /\ Goto(next) /\ UNCHANGED <<driver, vidpn, iter, call, history>>

\* The pinned mode and its set are both dropped at the end of the block.
AcquirePinned(pinned, mode, next, after) ==
    \/ CallFails("ACQUIRE_PINNED_MODE")
    \/ /\ os' = IF pinned = None THEN Unwind(os, <<Last(held)>>)
                ELSE Unwind(Lend(os, mode), <<Last(held), mode>>)
       /\ held' = Front(held)
       /\ Goto(IF pinned = None THEN next ELSE after)
       /\ UNCHANGED <<driver, vidpn, iter, call, history>>

CreateModeSet(set, next) ==
    \/ CallFails("CREATE_MODE_SET")
    \/ /\ Push(set) /\ Goto(next)
       /\ call' = [call EXCEPT !.set = set, !.j = 1, !.added = {}]
       /\ UNCHANGED <<driver, vidpn, iter, history>>

\* assign_..._mode_set_autorelease takes the set out of its guard, and puts it back
\* when dxgkrnl refuses it.
AssignModeSet(next) ==
    /\ call.j > Len(Output(call.tgt))
    /\ \/ CallFails("ASSIGN_MODE_SET")
       \/ /\ Pop /\ Goto(next)
          /\ vidpn' = [vidpn EXCEPT !.sets[call.set[1]][call.set[2]] = call.added]
          /\ UNCHANGED <<driver, iter, call, history>>

-----------------------------------------------------------------------------
(*************************** enum_cofunc_modality **************************)

Begin(op, v, args) ==
    /\ pc = "idle" /\ calls < MaxCalls /\ calls' = calls + 1
    /\ faults' = MaxFaults /\ result' = None
    /\ vidpn' = [paths |-> v.paths, pinned |-> v.pinned, sets |-> v.pinned, support |-> {}]
    /\ call' = [args EXCEPT !.op = op] /\ pc' = op
    /\ UNCHANGED <<driver, os, held, iter, history>>

Args == [op |-> None, pivot |-> [type |-> None, src |-> 0, tgt |-> 0], src |-> 0, tgt |-> 0, i |-> 0, j |-> 1,
         set |-> <<>>, added |-> {}, targets |-> <<>>, off |-> FALSE]

EnumVidPnCofuncModality ==
    \E v \in VidPns, p \in Pivots : Begin("enum", v, [Args EXCEPT !.pivot = p])

\* VidPnPathInfoIter::new: an empty topology has no first path.
IterNew ==
    /\ pc = "enum"
    /\ \/ CallFails("ACQUIRE_FIRST_PATH_INFO")
       \/ vidpn.paths = <<>> /\ Reject("DATASET_IS_EMPTY")
       \/ /\ vidpn.paths # <<>> /\ iter' = 1 /\ os' = Lend(os, PathInfo(1)) /\ Goto("next")
          /\ UNCHANGED <<driver, vidpn, held, call, history>>

\* Mutant: an error while fetching the next path forgets the current one.
NextFailsForgets ==
    /\ faults > 0 /\ faults' = faults - 1 /\ iter' = 0
    /\ os' = Unwind(os, held) /\ held' = <<>> /\ pc' = "idle" /\ result' = "ACQUIRE_NEXT_PATH_INFO"
    /\ UNCHANGED <<driver, vidpn, call, calls, history>>

NextFails == CallFails("ACQUIRE_NEXT_PATH_INFO")

\* try_next: the path after the current one is fetched first, the current one then
\* goes into a guard; on an error it is released.
TryNext ==
    /\ pc = "next"
    /\ \/ iter = 0 /\ Reject("ok")
       \/ iter # 0 /\ NextFails
       \/ /\ iter # 0 /\ iter' = IF iter < Len(vidpn.paths) THEN iter + 1 ELSE 0
          /\ os' = IF iter < Len(vidpn.paths) THEN Lend(os, PathInfo(iter + 1)) ELSE os
          /\ held' = Append(held, PathInfo(iter))
          /\ call' = [call EXCEPT !.i = iter, !.tgt = vidpn.paths[iter].tgt] /\ Goto("output")
          /\ UNCHANGED <<driver, vidpn, history>>

\* Mutant: a source pivot exempts every source.
IsPivotSourceAny == call.pivot.type = "source"

IsPivotSource == call.pivot.type = "source" /\ call.pivot.src = Path.src
IsPivotTarget == call.pivot.type = "target" /\ call.pivot.tgt = Path.tgt

PathOutput ==
    /\ pc = "output"
    /\ \/ Path.tgt \notin Outputs /\ Reject("INVALID_TARGET")
       \/ /\ Path.tgt \in Outputs
          /\ Goto(IF IsPivotSource THEN "target" ELSE "source")
          /\ UNCHANGED <<driver, vidpn, os, frame, history>>

SourceSetAcquire == pc = "source" /\ AcquireModeSet(SourceModeSet(Path.src, "old"), "source pinned")
SourcePinned ==
    /\ pc = "source pinned"
    /\ AcquirePinned(IF vidpn.pinned.source[Path.src] = {} THEN None ELSE "pinned",
                     PinnedSourceMode(Last(held)), "source new", "target")
SourceSetCreate == pc = "source new" /\ CreateModeSet(SourceModeSet(Path.src, "new"), "source mode")
SourceModeCreate == pc = "source mode" /\ CreateModeInfo(SourceMode(call.set, call.j), "source add")
SourceModeAdd == pc = "source add" /\ AddMode("source mode")
SourceSetAssign == pc = "source mode" /\ AssignModeSet("target")

TargetSetAcquire ==
    /\ pc = "target"
    /\ IF IsPivotTarget
         THEN Goto("support") /\ UNCHANGED <<driver, vidpn, os, frame, history>>
         ELSE AcquireModeSet(TargetModeSet(Path.tgt, "old"), "target pinned")
TargetPinned ==
    /\ pc = "target pinned"
    /\ AcquirePinned(IF vidpn.pinned.target[Path.tgt] = {} THEN None ELSE "pinned",
                     PinnedTargetMode(Last(held)), "target new", "support")
TargetSetCreate == pc = "target new" /\ CreateModeSet(TargetModeSet(Path.tgt, "new"), "target mode")
TargetModeCreate == pc = "target mode" /\ CreateModeInfo(TargetMode(call.set, call.j), "target add")
TargetModeAdd == pc = "target add" /\ AddMode("target mode")
TargetSetAssign == pc = "target mode" /\ AssignModeSet("support")

\* Scaling and rotation are declared where the path leaves them open and they are
\* not the pivot.
Pivoted(type) == call.pivot = [type |-> type, src |-> Path.src, tgt |-> Path.tgt]
ScalingSupport == IF Path.scaling = "unpinned" /\ ~Pivoted("scaling") THEN {"scaling"} ELSE {}
RotationSupport == IF Path.rotation = "unpinned" /\ ~Pivoted("rotation") THEN {"rotation"} ELSE {}

UpdatePathSupport ==
    LET new == ScalingSupport \union RotationSupport
    IN  /\ pc = "support"
        /\ \/ new # {} /\ CallFails("UPDATE_PATH_SUPPORT_INFO")
           \/ /\ vidpn' = [vidpn EXCEPT !.support = @ \union ({call.i} \X new)]
              /\ Pop /\ Goto("next") /\ UNCHANGED <<driver, iter, call, history>>

-----------------------------------------------------------------------------
(******************************* commit_vidpn ******************************)

CommitVidPn ==
    \E v \in VidPns, s \in Scanouts \union {Cardinality(Scanouts)}, off \in BOOLEAN :
        Begin("commit", v, [Args EXCEPT !.src = s, !.off = off])

PathsFrom(s) == SelectSeq(vidpn.paths, LAMBDA p : p.src = s)

\* Nothing is changed for a path that is powered off nor for an empty topology.
CommitStart ==
    /\ pc = "commit"
    /\ \/ call.src \notin Scanouts /\ Reject("INVALID_PARAMETER")
       \/ call.src \in Scanouts /\ (call.off \/ vidpn.paths = <<>>) /\ Reject("ok")
       \/ /\ call.src \in Scanouts /\ ~call.off
          /\ CallFails("TOPOLOGY")
       \/ /\ call.src \in Scanouts /\ ~call.off /\ vidpn.paths # <<>> /\ PathsFrom(call.src) = <<>>
          /\ Reject("SOURCE_NOT_IN_TOPOLOGY")
       \/ /\ call.src \in Scanouts /\ ~call.off /\ PathsFrom(call.src) # <<>>
          /\ Push(SourceModeSet(call.src, "old")) /\ Goto("commit pinned")
          /\ UNCHANGED <<driver, vidpn, iter, call, history>>

PinnedMode == CHOOSE m \in vidpn.pinned.source[call.src] : TRUE

CommitPinned ==
    /\ pc = "commit pinned"
    /\ \/ CallFails("ACQUIRE_PINNED_MODE")
       \/ vidpn.pinned.source[call.src] = {} /\ Reject("INVALID_PARAMETER")
       \/ /\ vidpn.pinned.source[call.src] # {}
          /\ Push(PinnedSourceMode(Last(held))) /\ Goto("commit mode")
          /\ UNCHANGED <<driver, vidpn, iter, call, history>>

CommitMode ==
    /\ pc = "commit mode"
    /\ \/ ~CheckSourceMode(PinnedMode) /\ Reject("INVALID_SOURCE_MODE")
       \/ CheckSourceMode(PinnedMode) /\ CallFails("NUM_PATHS_FROM_SOURCE")
       \/ /\ CheckSourceMode(PinnedMode) /\ call' = [call EXCEPT !.i = 1] /\ Goto("commit path")
          /\ UNCHANGED <<driver, vidpn, os, held, iter, history>>

Position(t) == {k \in DOMAIN Output(t) : Output(t)[k] = PinnedMode.size}

\* One path of the source: its info is lent for the turn of the loop only.
CommitPath ==
    LET p == PathsFrom(call.src)[call.i]
        n == CHOOSE k \in DOMAIN vidpn.paths : vidpn.paths[k] = p
        err == CASE CheckPresentPath(p) # "ok" -> CheckPresentPath(p)
                 [] p.tgt \notin Outputs -> "INVALID_TARGET"
                 [] p.tgt \in Outputs /\ Position(p.tgt) = {} -> "INVALID_SOURCE_MODE"
                 [] OTHER -> "ok"
    IN  /\ pc = "commit path" /\ call.i <= Len(PathsFrom(call.src))
        /\ \/ CallFails("ENUM_PATH_TARGETS_FROM_SOURCE")
           \/ /\ err # "ok" /\ faults' = faults /\ pc' = "idle" /\ result' = err
              /\ os' = Unwind(Lend(os, PathInfo(n)), Append(IterGuards, PathInfo(n)))
              /\ held' = <<>> /\ iter' = 0 /\ UNCHANGED <<driver, vidpn, call, calls, history>>
           \/ /\ err = "ok" /\ os' = Unwind(Lend(os, PathInfo(n)), <<PathInfo(n)>>)
              /\ current' = [current EXCEPT ![p.tgt] = CHOOSE k \in Position(p.tgt) : \A l \in Position(p.tgt) : k <= l]
              /\ call' = [call EXCEPT !.i = @ + 1, !.targets = Append(@, p.tgt)]
              /\ disturbed' = disturbed \union (Scanouts \X {p.tgt})
              /\ Goto("commit path") /\ UNCHANGED <<map, vidpn, held, iter, committed>>

\* Mutant: the targets of the source are added to those of its last commit.
StoreTargetsAppends(s) == map' = [map EXCEPT ![s] = @ \o call.targets]

StoreTargets(s) == map' = [map EXCEPT ![s] = call.targets]

CommitDone ==
    /\ pc = "commit path" /\ call.i > Len(PathsFrom(call.src))
    /\ StoreTargets(call.src)
    /\ committed' = [committed EXCEPT ![call.src] = [size |-> PinnedMode.size, targets |-> ToSet(call.targets)]]
    /\ disturbed' = disturbed \ ({call.src} \X ToSet(call.targets))
    /\ Return("ok") /\ UNCHANGED <<current, vidpn, call, faults, calls>>

-----------------------------------------------------------------------------
(***************************** the other calls *****************************)

\* recommend_monitor_modes fills a set that dxgkrnl owns.
RecommendMonitorModes ==
    \E v \in VidPns, t \in Scanouts \union {Cardinality(Scanouts)} :
        Begin("monitor", v, [Args EXCEPT !.tgt = t, !.set = MonitorModeSet(t)])

MonitorModes ==
    /\ pc = "monitor"
    /\ \/ call.tgt \notin Scanouts /\ Reject("INVALID_PARAMETER")
       \/ call.tgt \in Scanouts \ Outputs /\ Reject("CHILD_DESCRIPTOR_NOT_SUPPORTED")
       \/ call.tgt \in Outputs /\ call.j > Len(Output(call.tgt)) /\ Reject("ok")
MonitorModeCreate ==
    pc = "monitor" /\ call.tgt \in Outputs /\ CreateModeInfo(MonitorMode(call.set, call.j), "monitor add")
MonitorModeAdd == pc = "monitor add" /\ AddMode("monitor")

\* is_supported_vidpn looks at the number of paths of each source, and says yes.
IsSupportedVidPn ==
    \E v \in VidPns : Begin("supported", v, Args)
Supported ==
    /\ pc = "supported"
    /\ \/ CallFails("NUM_PATHS_FROM_SOURCE")
       \/ Reject("ok")

UpdateActivePresentPath ==
    \E v \in VidPns : v.paths # <<>> /\ Begin("active path", v, Args)
ActivePath == pc = "active path" /\ Reject(CheckPresentPath(vidpn.paths[1]))

-----------------------------------------------------------------------------
Init ==
    /\ current \in [Outputs -> {0, 1}] /\ map = [s \in Scanouts |-> <<>>]
    /\ vidpn = [paths |-> <<>>, pinned |-> <<>>, sets |-> <<>>, support |-> {}]
    /\ os = [live |-> {}, misuse |-> FALSE] /\ held = <<>> /\ iter = 0 /\ call = Args
    /\ pc = "idle" /\ result = None /\ faults = 0 /\ calls = 0
    /\ committed = [s \in Scanouts |-> [size |-> None, targets |-> {}]] /\ disturbed = {}

Next ==
    \/ EnumVidPnCofuncModality \/ IterNew \/ TryNext \/ PathOutput
    \/ SourceSetAcquire \/ SourcePinned \/ SourceSetCreate \/ SourceModeCreate \/ SourceModeAdd \/ SourceSetAssign
    \/ TargetSetAcquire \/ TargetPinned \/ TargetSetCreate \/ TargetModeCreate \/ TargetModeAdd \/ TargetSetAssign
    \/ UpdatePathSupport
    \/ CommitVidPn \/ CommitStart \/ CommitPinned \/ CommitMode \/ CommitPath \/ CommitDone
    \/ RecommendMonitorModes \/ MonitorModes \/ MonitorModeCreate \/ MonitorModeAdd
    \/ IsSupportedVidPn \/ Supported \/ UpdateActivePresentPath \/ ActivePath

Spec == Init /\ [][Next]_vars

-----------------------------------------------------------------------------
(******************************** properties *******************************)

\* Every handle dxgkrnl lends is given back or handed over exactly once, a mode set
\* never before its mode infos, whichever call of dxgkrnl fails on the way: when
\* the driver has returned nothing is on loan (the guards of vidpn.rs and
\* VidPnPathInfoIter, which holds one path more than the loop works on).
HandlesReturned == ~os.misuse /\ (pc = "idle" => os.live = {})

LastPathOf(P(_)) == CHOOSE i \in DOMAIN vidpn.paths :
                       P(vidpn.paths[i]) /\ \A k \in DOMAIN vidpn.paths : P(vidpn.paths[k]) => k <= i
Sizes(set) == {m.size : m \in set}

\* When enum_cofunc_modality succeeds, each source and target of the topology that
\* is free and not the pivot has been assigned a set with exactly the modes of its
\* output (for a source with several targets, of the last of them), one of them
\* preferred; what is pinned or the pivot has the set it had.
CofuncOffered ==
    pc = "idle" /\ call.op = "enum" /\ result = "ok" =>
        \A i \in DOMAIN vidpn.paths :
            LET p == vidpn.paths[i]
                last == vidpn.paths[LastPathOf(LAMBDA q : q.src = p.src)].tgt
            IN  /\ IF vidpn.pinned.source[p.src] # {} \/ (call.pivot.type = "source" /\ call.pivot.src = p.src)
                     THEN vidpn.sets.source[p.src] = vidpn.pinned.source[p.src]
                     ELSE vidpn.sets.source[p.src] = {GraphicsInfo(m) : m \in ToSet(Output(last))}
                /\ IF vidpn.pinned.target[p.tgt] # {} \/ (call.pivot.type = "target" /\ call.pivot.tgt = p.tgt)
                     THEN vidpn.sets.target[p.tgt] = vidpn.pinned.target[p.tgt]
                     ELSE /\ Sizes(vidpn.sets.target[p.tgt]) = ToSet(Output(p.tgt))
                          /\ Cardinality({m \in vidpn.sets.target[p.tgt] : m.preferred}) = 1

\* The map from sources to targets only ever holds whole commits, and an output
\* shows the mode of the last commit of its source, unless a commit of another
\* source, or one that failed at a later path, has changed it since (commit_vidpn
\* stores current_mode path by path and the targets at the end).
CommitWhole ==
    \A s \in Scanouts :
        /\ ToSet(map[s]) = committed[s].targets /\ IsInjective(map[s])
        /\ \A t \in committed[s].targets :
              <<s, t>> \in disturbed \/ OutputModes[t][current[t]] = committed[s].size
=============================================================================
