--------------------------------- MODULE Gpu ---------------------------------
(***************************************************************************)
(* VirtIOGpu: calls that are sequences of requests, each answered by the   *)
(* device before the next and each of which ends the call when it is       *)
(* refused.  The device has resources, guest memory attached to them, a    *)
(* scanout and 3D contexts; it may read attached memory at any time.       *)
(***************************************************************************)
EXTENDS Naturals, Sequences, FiniteSets, TLC

CONSTANTS
    Worlds,     \* scenarios: features, calls the owner makes, refusals
    Id,         \* resource id of the owner's own calls
    CapsetSize  \* bytes of a capset

VARIABLES
    world,
    frame_buffer_dma, cursor_buffer_dma,    \* Dma of the driver, or None
    live,       \* Dma objects not dropped
    rect,       \* a resolution has been set
    call,       \* call under way: its name, requests left, and its Dma
    host,       \* device: memory of each resource, scanout, contexts
    capset,     \* length of the last capset returned, and of what the device wrote
    sent,       \* commands sent
    refused,    \* calls that failed
    faults, calls

driver == <<frame_buffer_dma, cursor_buffer_dma, live, rect>>
vars == <<world, driver, call, host, capset, sent, refused, faults, calls>>

None == 0
RESOURCE_ID_FB == 1
RESOURCE_ID_CURSOR == 2
Idle == [name |-> "none", rest |-> <<>>, dma |-> None]

-----------------------------------------------------------------------------
(********************************* requests ********************************)

ResourceCreate2d(id) == [c |-> "create", id |-> id]
SetScanout(id) == [c |-> "scanout", id |-> id]
ResourceFlush(id) == [c |-> "flush", id |-> id]
TransferToHost2d(id) == [c |-> "transfer", id |-> id]
ResourceAttachBacking(id) == [c |-> "attach", id |-> id]
ResourceDetachBacking(id) == [c |-> "detach", id |-> id]
ResourceUnref(id) == [c |-> "unref", id |-> id]
UpdateCursor(id) == [c |-> "cursor", id |-> id]
GetDisplayInfo == [c |-> "display_info", id |-> 0]
GetEdid == [c |-> "edid", id |-> 0]

\* The 3D interface: requests of a context.
CtxCreate == [c |-> "ctx_create", id |-> 0]
CtxDestroy == [c |-> "ctx_destroy", id |-> 0]
CtxAttachResource(id) == [c |-> "ctx_attach", id |-> id]
CtxDetachResource(id) == [c |-> "ctx_detach", id |-> id]
ResourceCreate3d(id) == [c |-> "create", id |-> id]
Transfer3d(id) == [c |-> "transfer_3d", id |-> id]
Submit3d == [c |-> "submit_3d", id |-> 0]
ResourceCreateBlob(id) == [c |-> "create_blob", id |-> id]
GetCapset == [c |-> "capset", id |-> 0]

Local(what) == [c |-> what, id |-> 0]

Virgl == {"ctx_create", "ctx_destroy", "ctx_attach", "ctx_detach", "transfer_3d", "submit_3d", "create_blob", "capset"}

-----------------------------------------------------------------------------
(********************************** calls **********************************)

\* Mutant: the old resource is detached but stays.
TearDownKeeps ==
    IF frame_buffer_dma = None THEN <<>>
    ELSE <<SetScanout(0), ResourceDetachBacking(RESOURCE_ID_FB), Local("drop_fb")>>

\* Mutant: the memory is freed first.
TearDownDropsFirst ==
    IF frame_buffer_dma = None THEN <<>>
    ELSE <<Local("drop_fb"), SetScanout(0), ResourceDetachBacking(RESOURCE_ID_FB), ResourceUnref(RESOURCE_ID_FB)>>

\* change_resolution, first part: an existing framebuffer goes.
TearDown ==
    IF frame_buffer_dma = None THEN <<>>
    ELSE <<SetScanout(0), ResourceDetachBacking(RESOURCE_ID_FB), ResourceUnref(RESOURCE_ID_FB), Local("drop_fb")>>

ChangeResolution ==
    TearDown \o
    <<Local("rect"), ResourceCreate2d(RESOURCE_ID_FB), Local("dma"), ResourceAttachBacking(RESOURCE_ID_FB),
      SetScanout(RESOURCE_ID_FB), Local("store_fb")>>

SetupFramebuffer == <<GetDisplayInfo>> \o ChangeResolution

\* setup_cursor with an image of the right size.
SetupCursor ==
    <<Local("dma"), ResourceCreate2d(RESOURCE_ID_CURSOR), ResourceAttachBacking(RESOURCE_ID_CURSOR),
      TransferToHost2d(RESOURCE_ID_CURSOR), UpdateCursor(RESOURCE_ID_CURSOR), Local("store_cursor")>>

Flush == IF rect THEN <<TransferToHost2d(RESOURCE_ID_FB), ResourceFlush(RESOURCE_ID_FB)>> ELSE <<Local("error")>>
MoveCursor == <<UpdateCursor(RESOURCE_ID_CURSOR)>>
EdidResolutions == IF world.edid THEN <<GetEdid>> ELSE <<Local("error")>>

\* Mutant: the feature is not looked at.
RequireVirglSkipped == TRUE

RequireVirgl == world.virgl
Own3d ==
    {<<CtxCreate>>, <<CtxDestroy>>, <<CtxAttachResource(Id)>>, <<CtxDetachResource(Id)>>, <<Transfer3d(Id)>>,
     <<ResourceCreate3d(Id)>>, <<Submit3d>>, <<GetCapset>>}
    \union (IF world.blob THEN {<<ResourceCreateBlob(Id)>>} ELSE {})

\* The requests of a call.
Program(name) ==
    CASE name = "change_resolution" -> {ChangeResolution}
      [] name = "setup_framebuffer" -> {SetupFramebuffer}
      [] name = "setup_cursor" -> {SetupCursor}
      [] name = "flush" -> {Flush}
      [] name = "move_cursor" -> {MoveCursor}
      [] name = "edid" -> {EdidResolutions}
      [] name = "3d" -> IF RequireVirgl THEN Own3d ELSE {<<Local("error")>>}

Call ==
    \E name \in world.names : \E p \in Program(name) :
        /\ call = Idle /\ calls < world.calls /\ calls' = calls + 1
        /\ call' = [name |-> name, rest |-> p, dma |-> None]
        /\ UNCHANGED <<world, driver, host, capset, sent, refused, faults>>

-----------------------------------------------------------------------------
(******************************** the device *******************************)

Known(id) == id \in DOMAIN host.res
Backed(id) == Known(id) /\ host.res[id] # None

\* What the device must refuse.
Refuses(r) ==
    CASE r.c \in {"create", "create_blob"} -> Known(r.id)
      [] r.c = "scanout" -> r.id # 0 /\ ~Known(r.id)
      [] r.c \in {"flush", "unref", "transfer_3d"} -> ~Known(r.id)
      [] r.c = "transfer" -> ~Backed(r.id)
      [] r.c = "attach" -> ~Known(r.id) \/ Backed(r.id)
      [] r.c = "detach" -> ~Backed(r.id)
      [] r.c = "ctx_create" -> host.ctx
      [] r.c \in {"ctx_destroy", "submit_3d"} -> ~host.ctx
      [] r.c \in {"ctx_attach", "ctx_detach"} -> ~host.ctx \/ ~Known(r.id)
      [] OTHER -> FALSE

\* What it does otherwise.
Does(r) ==
    CASE r.c \in {"create", "create_blob"} -> [host EXCEPT !.res = (r.id :> None) @@ @]
      [] r.c = "attach" -> [host EXCEPT !.res[r.id] = call.dma]
      [] r.c = "detach" -> [host EXCEPT !.res[r.id] = None]
      [] r.c = "unref" -> [host EXCEPT !.res = [i \in DOMAIN @ \ {r.id} |-> @[i]],
                                       !.scanout = IF @ = r.id THEN 0 ELSE @]
      [] r.c = "scanout" -> [host EXCEPT !.scanout = r.id]
      [] r.c = "ctx_create" -> [host EXCEPT !.ctx = TRUE]
      [] r.c = "ctx_destroy" -> [host EXCEPT !.ctx = FALSE]
      [] OTHER -> host

-----------------------------------------------------------------------------
(********************************** steps **********************************)

Drops(d) == live' = live \ {d}
Advance == call' = IF Len(call.rest) = 1 THEN Idle ELSE [call EXCEPT !.rest = Tail(@)]

\* A request that is answered; cursor commands have no answer to look at, and the
\* length of a capset is the one the device wrote, up to the size of the buffer.
Request ==
    LET r == Head(call.rest)
    IN  /\ call # Idle /\ r.c \notin {"rect", "dma", "drop_fb", "store_fb", "store_cursor", "error"}
        /\ ~Refuses(r)
        /\ host' = Does(r) /\ Advance /\ sent' = sent \union {r.c}
        /\ IF r.c = "capset" THEN \E n \in 0 .. CapsetSize + 1 :
                capset' = [wrote |-> n, got |-> IF n < CapsetSize THEN n ELSE CapsetSize]
           ELSE UNCHANGED capset
        /\ UNCHANGED <<world, driver, refused, faults, calls>>

\* A refusal ends the call, and drops the Dma it has not stored.
Fail ==
    /\ call' = Idle /\ refused' = refused \union {<<call.name, call.rest[1].c>>}
    /\ Drops(call.dma)
    /\ UNCHANGED <<world, frame_buffer_dma, cursor_buffer_dma, rect, host, capset, calls>>

RequestRefused ==
    LET r == Head(call.rest)
    IN  call # Idle /\ r.c # "cursor" /\ Refuses(r) /\ sent' = sent \union {r.c} /\ Fail /\ UNCHANGED faults

\* The device may also refuse for reasons of its own, and Dma::new may fail.
RequestFails ==
    /\ call # Idle /\ Head(call.rest).c \notin {"rect", "drop_fb", "store_fb", "store_cursor", "error", "cursor"}
    /\ faults < world.faults /\ faults' = faults + 1
    /\ Fail /\ UNCHANGED sent

LocalStep ==
    LET c == Head(call.rest).c
        d == calls
    IN  /\ call # Idle
        /\ \/ /\ c = "rect" /\ rect' = TRUE /\ Advance /\ UNCHANGED <<frame_buffer_dma, cursor_buffer_dma, live>>
           \/ /\ c = "dma" /\ live' = live \union {d}
              /\ call' = [call EXCEPT !.rest = Tail(@), !.dma = d]
              /\ UNCHANGED <<frame_buffer_dma, cursor_buffer_dma, rect>>
           \/ /\ c = "drop_fb" /\ Drops(frame_buffer_dma) /\ frame_buffer_dma' = None /\ Advance
              /\ UNCHANGED <<cursor_buffer_dma, rect>>
           \/ /\ c = "store_fb" /\ frame_buffer_dma' = call.dma /\ Advance
              /\ UNCHANGED <<live, cursor_buffer_dma, rect>>
           \/ /\ c = "store_cursor" /\ cursor_buffer_dma' = call.dma /\ Drops(cursor_buffer_dma) /\ Advance
              /\ UNCHANGED <<frame_buffer_dma, rect>>
        /\ UNCHANGED <<world, host, capset, sent, refused, faults, calls>>

\* Calls that return before they send anything.
Error == call # Idle /\ Head(call.rest).c = "error" /\ Fail /\ UNCHANGED <<sent, faults>>

Init ==
    /\ world \in Worlds
    /\ frame_buffer_dma = None /\ cursor_buffer_dma = None /\ live = {} /\ rect = FALSE /\ call = Idle
    /\ host = [res |-> [i \in {} |-> 0], scanout |-> 0, ctx |-> FALSE]
    /\ capset = [wrote |-> 0, got |-> 0] /\ sent = {} /\ refused = {} /\ faults = 0 /\ calls = 0

Next == Call \/ Request \/ RequestRefused \/ RequestFails \/ LocalStep \/ Error
Spec == Init /\ [][Next]_vars

-----------------------------------------------------------------------------
(******************************** properties *******************************)

\* The memory that the device has attached has not been freed (change_resolution,
\* setup_cursor).  The exception: the device, or the allocation, failed a request.
BackingAlive == faults = 0 => \A i \in DOMAIN host.res : host.res[i] = None \/ host.res[i] \in live

\* As long as nothing fails at the device, setting up and changing the framebuffer
\* never fails, in whatever order the calls are made: the driver leaves the host as
\* the next call expects it.
SetupSucceeds ==
    faults = 0 => \A r \in refused : r[1] \notin {"change_resolution", "setup_framebuffer", "move_cursor"}

\* Commands of a feature are sent only if it was negotiated, and a capset is as long
\* as what the device wrote of it.
CommandsNegotiated ==
    /\ (sent \intersect Virgl # {} => world.virgl) /\ ("create_blob" \in sent => world.blob) /\ ("edid" \in sent => world.edid)
    /\ capset.got <= capset.wrote
=============================================================================
