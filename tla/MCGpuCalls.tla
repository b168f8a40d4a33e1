----------------------------- MODULE MCGpuCalls -----------------------------
(* The calls dxgkrnl makes into the GPU driver, for TLC: calls, threads, timer *)
(* and interrupts that wait for each other.                                    *)
(* A behaviour is one of a single part, which `part' names.  ResourceIds and    *)
(* BusyEvents have their own variables, which stay as they are at first in     *)
(* behaviours of the other parts; the variables of each of those are the first *)
(* of v1, v2, ...                                                              *)
EXTENDS ResourceIds, BusyEvents, TLC

CONSTANTS
    NoValue, Unused,
    o1, o2, o3             \* allocations, BARs

VARIABLES part,
    v1, v2, v3, v4, v5, v6, v7, v8, v9, v10, v11, v12, v13, v14, v15, v16, v17,
    v18, v19, v20, v21, v22

slots == <<v1, v2, v3, v4, v5, v6, v7, v8, v9, v10, v11, v12, v13, v14, v15, v16, v17,
           v18, v19, v20, v21, v22>>
vars == <<part, slots, idsVars, busyVars>>

ASSUME ResourceIdsAssumption
ASSUME BusyEventsAssumption

-----------------------------------------------------------------------------
(* Adapter: two BARs, two starts, two interrupts.                             *)

Ad == INSTANCE Adapter WITH
    SmallBars <- {o1, o2}, RegisterBar <- o2, MaxIrqs <- 2, MaxStarts <- 2,
    phase <- v1, at <- v2, faults <- v3, init <- v4, todo <- v5, mapped <- v6,
    pci_bars <- v7, transport <- v8, status <- v9, rings <- v10, dma <- v11,
    poked <- v12, starts <- v13, thread <- v14, events <- v15, irqs <- v16,
    dpc <- v17, timer <- v18, callback <- v19, flip_ctx <- v20, flips <- v21,
    display <- v22

ASSUME Ad!AdapterAssumption

-----------------------------------------------------------------------------
(* DmaBuffers: a 3D resource that is cache-coherent and a blob of three pages, *)
(* one DMA buffer, two fences.                                                *)

Dm == INSTANCE DmaBuffers WITH
    Allocs <- {o1, o2}, Blobs <- {o2}, Coherent <- {o1}, Pages <- 3, Bufs <- {o3},
    Spaces <- {1, 3}, MaxFence <- 2, buf <- v1, map <- v2, accepted <- v3,
    busy <- v4, leaked <- v5, next <- v6, chan <- v7, jobs <- v8, submitted <- v9,
    completed <- v10, host <- v11, gpuva <- v12

ASSUME Dm!DmaBuffersAssumption

-----------------------------------------------------------------------------
(* Flips: more flips than a queue holds on one target; a source cloned to two; *)
(* two sources and a blob.                                                    *)

FlipWorlds == {
    [map |-> << <<1>> >>, allocs |-> {o1, o2}, flips |-> 3, vsyncs |-> 2],
    [map |-> << <<1, 2>> >>, allocs |-> {o1, o2}, flips |-> 2, vsyncs |-> 1],
    [map |-> << <<1>>, <<2>> >>, allocs |-> {o1, o3}, flips |-> 2, vsyncs |-> 0]}

Fl == INSTANCE Flips WITH
    Targets <- {1, 2}, Worlds <- FlipWorlds, Allocs <- {o1, o2, o3}, Res3D <- {o1, o2},
    Cap <- 1, world <- v1, flipq <- v2, addrs <- v3, vsync <- v4, alloc <- v5,
    timer <- v6, ctl <- v7, event <- v8, host <- v9, os <- v10, last <- v11,
    skipped <- v12, torn <- v13

ASSUME Fl!FlipsAssumption

-----------------------------------------------------------------------------
(* Escapes: three threads ask for the same capability set, for different ones, *)
(* for the layouts of two resources through one device, through two, and set   *)
(* and read a blob's info.                                                    *)

Capset(i, r) == [op |-> "capset", id |-> i, room |-> r]
Info(r, dev, ask) == [op |-> "info", res |-> r, device |-> dev, ask |-> ask]
Set(r, v) == [op |-> "set", res |-> r, value |-> v]
Offer(i, v, s) == [id |-> i, version |-> v, size |-> s]
Give(x, y, z) == "c1" :> x @@ "c2" :> y @@ "c3" :> z

Offers == {<<Offer(2, 1, 3), NoValue, Offer(9, 1, 1), Offer(4, 2, 9)>>, <<NoValue, Offer(1, 1, 5), Offer(6, 3, 2)>>}
EscapeTasks ==
    {Give(Capset(2, 2), Capset(2, 8), Capset(4, 8)),
     Give(Capset(6, 8), Capset(1, 2), Capset(6, 1)),
     Give(Info("r1", "d1", TRUE), Info("r2", "d1", TRUE), Info("r1", "d2", TRUE)),
     Give(Info("r1", "d1", TRUE), Info("r1", "d1", TRUE), Info("r1", "d1", FALSE)),
     Give(Info("b1", "d1", TRUE), Set("b1", 7), Info("r2", "d3", TRUE))}
EscapeWorlds ==
    {[tasks |-> t, capsets |-> o, shadow |-> {"d1", "d2"}, faults |-> f] : t \in EscapeTasks, o \in Offers, f \in 0 .. 2}

Es == INSTANCE Escapes WITH
    Callers <- {"c1", "c2", "c3"}, Devices <- {"d1", "d2", "d3"},
    Allocs3D <- {"r1", "r2"}, Blobs <- {"b1"}, Worlds <- EscapeWorlds,
    PageRoom <- 6, None <- NoValue, world <- v1, pc <- v2, got <- v3, data <- v4,
    dataLock <- v5, layouts <- v6, info <- v7, query <- v8, queryLock <- v9,
    queue <- v10, answer <- v11, created <- v12, backed <- v13, budget <- v14,
    refused <- v15

-----------------------------------------------------------------------------
(* BusyEvents: a plain wait beside a sync file, a file that is also waited for, *)
(* one file attached twice, and two files.                                     *)

BusyTasks ==
    {[c1 |-> [file |-> f1, wait |-> TRUE], c2 |-> [file |-> f2, wait |-> FALSE]] :
       f1 \in {NoFile, "f1"}, f2 \in {"f1", "f2"}}

-----------------------------------------------------------------------------
(* Displays: widths at the nibble boundaries, EDIDs of zero to three blocks    *)
(* and a bit.                                                                 *)

Detailed ==
    {[h |-> h, hBlank |-> hb, v |-> v, vBlank |-> 35, clock |-> k] :
       h \in {255, 256, 1280, 4095}, hb \in {80, 300}, v \in {255, 1024}, k \in {0, 256}}
Standard ==
    { <<NoValue, [h |-> 1280, ratio |-> 3, refresh |-> 0], [h |-> 1920, ratio |-> 4, refresh |-> 0]>>,
      <<[h |-> 640, ratio |-> 2, refresh |-> 15], [h |-> 1280, ratio |-> 1, refresh |-> 63],
        [h |-> 2288, ratio |-> 4, refresh |-> 1]>> }
Rect(w, h) == [width |-> w, height |-> h]
Display(sizes, rects) ==
    {[detailed |-> m, standard |-> s, size |-> z, rect |-> r, enabled |-> r.width # 0] :
       m \in Detailed, s \in Standard, z \in sizes, r \in rects}
OfScanouts(s) == [vga |-> Len(s) = 1, answered |-> TRUE, scanouts |-> s]
DisplayWorlds ==
    {OfScanouts(<<m>>) : m \in Display({127, 128, 200, 256, 384}, {Rect(0, 0), Rect(1280, 1024), Rect(800, 479)})}
    \union {OfScanouts(<<m, n>>) : m \in {x \in Display({128}, {Rect(0, 0)}) : x.detailed.h = 1280},
                       n \in {NoValue} \union {x \in Display({256}, {Rect(640, 480)}) :
                                              x.detailed.h = 256 /\ x.detailed.hBlank = 80}}
    \union {[vga |-> TRUE, answered |-> FALSE, scanouts |-> <<NoValue>>]}

Di == INSTANCE Displays WITH
    Worlds <- DisplayWorlds, Rooms <- {64, 128}, None <- NoValue, world <- v1,
    phase <- v2, outputs <- v3, children <- v4, connected <- v5, offset <- v6,
    complete <- v7

-----------------------------------------------------------------------------
(***************************** the specification ****************************)

Unused15 == v16 = Unused /\ v17 = Unused /\ v18 = Unused /\ v19 = Unused /\ v20 = Unused /\ v21 = Unused /\ v22 = Unused
Unused13 == v14 = Unused /\ v15 = Unused /\ Unused15
Unused12 == v13 = Unused /\ Unused13
Unused10 == v11 = Unused /\ v12 = Unused /\ Unused12
Unused7 == v8 = Unused /\ v9 = Unused /\ v10 = Unused /\ Unused10

Unused0 == v1 = Unused /\ v2 = Unused /\ v3 = Unused /\ v4 = Unused /\ v5 = Unused /\ v6 = Unused /\ v7 = Unused /\ Unused7

Init ==
    /\ IdsInit /\ BusyInit
    /\ \/ part = "adapter" /\ Ad!Init
       \/ part = "dma" /\ Dm!Init /\ Unused12
       \/ part = "flips" /\ Fl!Init /\ Unused13
       \/ part = "escapes" /\ Es!Init /\ Unused15
       \/ part = "displays" /\ Di!Init /\ Unused7
       \/ part \in {"ids", "busy"} /\ Unused0
    /\ part # "busy" => task = CHOOSE t \in Tasks : TRUE

Kept15 == UNCHANGED <<v16, v17, v18, v19, v20, v21, v22>>
Kept13 == UNCHANGED <<v14, v15>> /\ Kept15
Kept12 == UNCHANGED <<v13>> /\ Kept13
Kept10 == UNCHANGED <<v11, v12>> /\ Kept12
Kept7 == UNCHANGED <<v8, v9, v10>> /\ Kept10

OfAdapter == part = "adapter" /\ UNCHANGED <<part, idsVars, busyVars>>
OfDmaBuffers == part = "dma" /\ Kept12 /\ UNCHANGED <<part, idsVars, busyVars>>
OfFlips == part = "flips" /\ Kept13 /\ UNCHANGED <<part, idsVars, busyVars>>
OfEscapes == part = "escapes" /\ Kept15 /\ UNCHANGED <<part, idsVars, busyVars>>
OfBusyEvents == part = "busy" /\ UNCHANGED <<part, slots, idsVars>>
OfDisplays == part = "displays" /\ Kept7 /\ UNCHANGED <<part, idsVars, busyVars>>
OfIds == part = "ids" /\ UNCHANGED <<part, slots, busyVars>>

Next ==
    \/ OfAdapter /\ Ad!Next
    \/ OfDmaBuffers /\ Dm!Next
    \/ OfFlips /\ Fl!Next
    \/ OfEscapes /\ Es!Next
    \/ OfBusyEvents /\ BusyNext
    \/ OfDisplays /\ Di!Next
    \/ OfIds /\ IdsNext

\* Calls of dxgkrnl go on, and so do the driver's threads, its DPC and its timer; the host
\* answers.
Fairness ==
    /\ WF_vars(OfAdapter /\ Ad!DxgkCall) /\ WF_vars(OfAdapter /\ Ad!HandlerWakes)
    /\ WF_vars(OfAdapter /\ Ad!HandlerWorks) /\ WF_vars(OfAdapter /\ Ad!Flip) /\ WF_vars(OfAdapter /\ Ad!Dpc)
    /\ WF_vars(OfDmaBuffers /\ Dm!Answer)
    /\ WF_vars(OfFlips /\ Fl!Timer) /\ WF_vars(OfFlips /\ Fl!HandleRequests)
    /\ WF_vars(OfEscapes /\ Es!Next)
    /\ \A x \in UserBatches : WF_vars(OfBusyEvents /\ BatchStep(x))
    /\ \A x \in Callers : WF_vars(OfBusyEvents /\ EscapeStep(x))
    /\ WF_vars(OfDisplays /\ Di!Next)

Spec == Init /\ [][Next]_vars /\ Fairness

-----------------------------------------------------------------------------
(******************************** properties ********************************)

\* No thread, timer or interrupt of the adapter uses registers that are unmapped or
\* rings that are freed, and once the adapter is removed nothing of it is left (order of
\* the destructors, StopDevice, RemoveDevice).
NothingOutlives == part = "adapter" => Ad!RegistersMapped /\ Ad!RingsAllocated /\ Ad!NothingOutlives

\* An allocation is busy exactly as long as work that uses it is under way, and the host
\* has all its pages or none (render, present, paging and submission of DMA buffers).
BusyAndBacked == part = "dma" => Dm!BusyMatchesWork /\ Dm!BackingWhole

\* A screen does not show a resource that is gone, and a flip is not reported ahead of
\* its turn (flip queue, 60 Hz timer).
ScreenStaysLit == part = "flips" => Fl!ScreenStaysLit

\* An escape returns the layout and the capability set of what it asked for, and a device
\* has one query buffer (locks and caches behind the escapes).
EscapesAnswered == part = "escapes" => Es!LayoutsRight /\ Es!CapsetsRight /\ Es!OneQueryBuffer

\* The modes offered are those the display's EDID means.
ModesMeant == part = "displays" => Di!ModesMeant

\* Calls return: StopDevice and RemoveDevice are not starved by flips and interrupts, no
\* escape leaves a lock behind, and no wait for an idle allocation misses its wake-up.
Returned ==
    /\ part = "adapter" => ~Ad!Stopping
    /\ part = "escapes" => Es!AllReturned
    /\ part = "busy" => EscapesReturned

\* Work is done: every fence handed over is completed whichever path its buffer took, the
\* last flip asked for comes to the screen, and every display becomes a child.
Settled ==
    /\ part = "dma" => Dm!NoneOwed
    /\ part = "flips" => Fl!AllSettled
    /\ part = "displays" => Di!AllReported
CallsServed == []<>(Returned /\ Settled)
=============================================================================
