---------------------------- MODULE MCGpuObjects ----------------------------
(* The objects of the GPU driver, for TLC: what it keeps for the host and for  *)
(* dxgkrnl, and whether the two sides agree.                                   *)
(* A behaviour is one of a single part, which `part' names.  The slots of a    *)
(* queue (DeviceQueue) have their own variables, which stay as they are at     *)
(* first in behaviours of the other parts; the variables of each of those are  *)
(* the first of v1, v2, ...                                                    *)
EXTENDS DeviceQueue, TLC

CONSTANTS
    Parts,              \* the parts to check, of those of SumInit
    NoValue, Unused,
    o1, o2, o3, o4, o5, \* allocations, outputs, devices
    t1, t2              \* threads

VARIABLES part, v1, v2, v3, v4, v5, v6, v7, v8, v9, v10, v11, v12, v13

slots == <<part, v1, v2, v3, v4, v5, v6, v7, v8, v9, v10, v11, v12, v13>>
sumVars == <<slots, vars>>

\* No part tells its threads apart, and the run checks invariants only.
ThreadSymmetry == Permutations({t1, t2})

ASSUME DeviceQueueAssumption

-----------------------------------------------------------------------------
(* Allocations: two blobs that share one unit of the window; a 3D resource    *)
(* that two devices open; one opened twice while requests fail; a blob mapped *)
(* while they do.                                                             *)

AllocationWorlds == {
    [devs |-> {o4}, allocs |-> {o2, o3}, units |-> {1}, ctxs |-> 1, opens |-> 1, faults |-> 0],
    [devs |-> {o4, o5}, allocs |-> {o1}, units |-> {1}, ctxs |-> 2, opens |-> 1, faults |-> 0],
    [devs |-> {o4}, allocs |-> {o1}, units |-> {1}, ctxs |-> 2, opens |-> 2, faults |-> 1],
    [devs |-> {o4}, allocs |-> {o2}, units |-> {1}, ctxs |-> 1, opens |-> 1, faults |-> 1]}

Al == INSTANCE Allocations WITH
    Threads <- {t1, t2}, Devices <- {o4, o5}, Res3D <- {o1}, Blobs <- {o2, o3},
    Worlds <- AllocationWorlds, world <- v1, dev <- v2, alloc <- v3, ds <- v4,
    lock <- v5, th <- v6, host <- v7, window <- v8, faults <- v9

ASSUME Al!AllocationsAssumption

-----------------------------------------------------------------------------
(* VidPn: scanout 0 lists a mode twice, scanout 2 has no output.  VidPNs with  *)
(* no path; one per source; a source cloned to two targets; paths the driver   *)
(* cannot serve: a missing output, a source that is not there, gamma, scaling, *)
(* rotation, colours.                                                         *)

OutputModes == 0 :> <<"1080p", "720p", "720p">> @@ 1 :> <<"720p">>

Good(s, t) == [src |-> s, tgt |-> t, gamma |-> "default", scaling |-> "identity",
               rotation |-> "identity", basis |-> "scrgb"]
Open(s, t) == [Good(s, t) EXCEPT !.scaling = "unpinned", !.rotation = "unpinned"]
Pin(s, t) == [source |-> [i \in 0..3 |-> s[i + 1]], target |-> [i \in 0..3 |-> t[i + 1]]]
Free == {}
Unpinned == <<Free, Free, Free, Free>>
Graphics(format, size) ==
    {[type |-> "graphics", basis |-> "scrgb", access |-> "direct", format |-> format, size |-> size]}
Sized(size) == Graphics("A8R8G8B8", size)
Odd == Graphics("R5G6B5", "720p")
VidPN(paths, source, target) == [paths |-> paths, pinned |-> Pin(source, target)]

VidPNs == {
    VidPN(<<>>, Unpinned, Unpinned),
    VidPN(<<Open(0, 1), Good(1, 0)>>, <<Free, Sized("720p"), Free, Free>>, Unpinned),
    VidPN(<<Good(0, 0), Open(0, 1)>>, Unpinned, <<Free, Sized("720p"), Free, Free>>),
    VidPN(<<Good(0, 0), Good(0, 1)>>, <<Sized("720p"), Free, Free, Free>>, Unpinned),
    VidPN(<<Good(0, 0), Good(0, 1)>>, <<Sized("1080p"), Free, Free, Free>>, Unpinned),
    VidPN(<<Good(1, 0), Good(0, 2)>>, <<Sized("720p"), Odd, Free, Free>>, Unpinned),
    VidPN(<<[Good(3, 0) EXCEPT !.gamma = "rgb256"]>>, Unpinned, Unpinned),
    VidPN(<<Good(0, 3)>>, <<Sized("720p"), Free, Free, Free>>, Unpinned)}
    \union {VidPN(<<p>>, <<Sized("720p"), Free, Free, Free>>, Unpinned) :
              p \in {[Good(0, 0) EXCEPT !.gamma = "rgb256"], [Good(0, 0) EXCEPT !.scaling = "stretched"],
                     [Good(0, 0) EXCEPT !.rotation = "rotate180"], [Good(0, 0) EXCEPT !.basis = "yuv"]}}

Pivot(type, target) == [type |-> type, src |-> 0, tgt |-> target]
Pivots == {Pivot("none", 0), Pivot("source", 0), Pivot("target", 1), Pivot("scaling", 1), Pivot("rotation", 1)}

Vp == INSTANCE VidPn WITH
    Scanouts <- 0 .. 2, OutputModes <- OutputModes, VidPns <- VidPNs,
    Pivots <- Pivots, MaxFaults <- 1, MaxCalls <- 2, current <- v1, map <- v2,
    vidpn <- v3, os <- v4, held <- v5, iter <- v6, call <- v7, pc <- v8,
    result <- v9, faults <- v10, calls <- v11, committed <- v12, disturbed <- v13

ASSUME Vp!VidPnAssumption

-----------------------------------------------------------------------------
(* Cursor: one target with longer sequences of calls, and a source cloned to  *)
(* two; shapes of every kind on a cursor of three by two pixels.               *)

CursorWorlds == {
    [targets |-> <<o1>>, calls |-> 3, faults |-> 0], [targets |-> <<o1>>, calls |-> 2, faults |-> 1],
    [targets |-> <<o1, o2>>, calls |-> 2, faults |-> 0]}

Shape(kind, w, h, P(_, _)) ==
    [kind |-> kind, w |-> w, h |-> h, hot |-> <<1, 0>>, px |-> [y \in 0 .. h - 1 |-> [x \in 0 .. w - 1 |-> P(y, x)]]]

Red(y, x) == <<0, 0, 255, 255>>
Inverted(y, x) == IF y = 0 /\ x = 1 THEN <<1, 1>> ELSE <<1, 0>>
Arrow(y, x) == IF x = 0 THEN <<0, 1>> ELSE IF y = 0 THEN <<0, 0>> ELSE <<1, 1>>
Masked(y, x) == IF x = y THEN <<9, 0, 255, 0>> ELSE <<0, 0, 0, 255>>

Shapes == {
    Shape("bgra", 2, 2, Red), Shape("mono", 2, 2, Inverted), Shape("mono", 3, 2, Arrow), Shape("masked", 2, 2, Masked)}

Cu == INSTANCE Cursor WITH
    None <- NoValue, Outputs <- {o1, o2}, Threads <- {t1, t2}, Ids <- {1, 2, 3},
    Width <- 3, Height <- 2, Mode <- <<2, 1>>, Shapes <- Shapes,
    Points <- {<<-1, 1>>, <<1, 2>>}, Worlds <- CursorWorlds, cursor <- v1,
    pixels <- v2, lock <- v3, call <- v4, free <- v5, content <- v6, plane <- v7,
    cursorq <- v8, world <- v9, faulty <- v10, want <- v11

ASSUME Cu!CursorAssumption

-----------------------------------------------------------------------------
(* AdapterCaps: a small, a large and an absent window of shared memory.        *)

CapsWorlds ==
    {[features |-> w[1], capsets |-> {2}, vga |-> TRUE, shmem |-> [start |-> w[2], len |-> w[3]]] :
       w \in {<<{"VIRGL", "RESOURCE_BLOB"}, 0, 0>>, <<{"VIRGL", "RESOURCE_BLOB"}, 4096, 262144>>,
              <<{"VIRGL", "RESOURCE_BLOB", "CONTEXT_INIT"}, 4096, 256>>}}
Command(tag, shadow, length) == [id |-> tag, shadow |-> shadow, length |-> length, room |-> 2]
Creation(kind, guest, count, command, fits) ==
    [kind |-> kind, guest |-> guest, count |-> count, cmd |-> command, fits |-> fits,
     resource |-> kind = "3D", size |-> 4]
CapsAllocations ==
    {Creation(k, FALSE, 1, Command("Submit", FALSE, 2), TRUE) : k \in {"blob", "3D", "unknown"}}
    \union {Creation("3D", FALSE, 1, m, TRUE) :
              m \in {Command("Submit", FALSE, 1), Command("Submit", TRUE, 2), Command("Fence", FALSE, 2)}}
    \union {Creation("blob", TRUE, 1, NoValue, TRUE), Creation("blob", FALSE, 2, NoValue, TRUE),
            Creation("blob", FALSE, 1, NoValue, FALSE)}
Surfaces ==
    {[type |-> t, width |-> 3, height |-> 2, format |-> "B8G8R8A8"] : t \in {"primary", "shadow", "staging", "gdi"}}

Ac == INSTANCE AdapterCaps WITH
    Worlds <- CapsWorlds, Allocations <- CapsAllocations, Surfaces <- Surfaces,
    None <- NoValue, world <- v1, started <- v2, told <- v3, last <- v4

-----------------------------------------------------------------------------
(* OffsetAllocator: five allocations of any size up to most of the space.      *)

Oa == INSTANCE OffsetAllocator WITH
    Space <- 37, MaxAllocs <- 5, Requests <- {0, 1, 9, 17}, a <- v1, live <- v2

-----------------------------------------------------------------------------
(***************************** the specification ****************************)

Unused12 == v13 = Unused
Unused11 == v12 = Unused /\ Unused12
Unused9 == v10 = Unused /\ v11 = Unused /\ Unused11
Unused4 == v5 = Unused /\ v6 = Unused /\ v7 = Unused /\ v8 = Unused /\ v9 = Unused /\ Unused9
Unused2 == v3 = Unused /\ v4 = Unused /\ Unused4
Unused0 == v1 = Unused /\ v2 = Unused /\ Unused2

SumInit ==
    /\ part \in Parts /\ Init
    /\ part # "slots" => indirect
    /\ \/ part = "allocations" /\ Al!Init /\ Unused9
       \/ part = "vidpn" /\ Vp!Init
       \/ part = "cursor" /\ Cu!Init /\ Unused11
       \/ part = "caps" /\ Ac!Init /\ Unused4
       \/ part = "offsets" /\ Oa!Init /\ Unused2
       \/ part = "slots" /\ Unused0

Kept12 == UNCHANGED v13
Kept11 == UNCHANGED v12 /\ Kept12
Kept9 == UNCHANGED <<v10, v11>> /\ Kept11
Kept4 == UNCHANGED <<v5, v6, v7, v8, v9>> /\ Kept9
Kept2 == UNCHANGED <<v3, v4>> /\ Kept4

OnSlots ==
    \/ part = "allocations" /\ Al!Next /\ Kept9
    \/ part = "vidpn" /\ Vp!Next
    \/ part = "cursor" /\ Cu!Next /\ Kept11
    \/ part = "caps" /\ Ac!Next /\ Kept4
    \/ part = "offsets" /\ Oa!Next /\ Kept2

SumNext ==
    \/ OnSlots /\ UNCHANGED <<part, vars>>
    \/ part = "slots" /\ Next /\ UNCHANGED slots

SumSpec == SumInit /\ [][SumNext]_sumVars

-----------------------------------------------------------------------------
(******************************** properties ********************************)

\* The host knows what the driver has open and no more, a window of the BAR belongs to
\* the one blob mapped there, and nothing is left behind (create, open, map, close,
\* destroy of allocations).
AllocationsAgree == part = "allocations" => Al!HostKnowsOpen /\ Al!WindowMapped /\ Al!NothingLost

\* Every object of the VidPN interface is returned on every path, the modes offered are
\* those the outputs have, and a commit takes effect whole.
VidPnServed == part = "vidpn" => Vp!HandlesReturned /\ Vp!CofuncOffered /\ Vp!CommitWhole

\* The cursor shown is the last shape asked for, at the last position, with its pixels
\* (SetPointerShape, SetPointerPosition).
CursorShown == part = "cursor" => Cu!CursorShown

\* What the adapter reports of segments, engines and page tables agrees with where it
\* places allocations and what it accepts.
AnswersAgree == part = "caps" => Ac!PlacementsAgree /\ Ac!EnginesAgree

\* The regions of the window tile it, free neighbours are merged, the bins hold exactly
\* the free regions and the report does not overstate them (offset allocator).
RegionsTile == part = "offsets" => Oa!RegionsTile /\ Oa!BinsAgree /\ Oa!ReportHonest
=============================================================================
