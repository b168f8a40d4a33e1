---------------------------- MODULE AdapterCaps ----------------------------
(***************************************************************************)
(* What the driver tells the operating system about the adapter, one       *)
(* answer at a time: capabilities, memory segments, the layout of the GPU  *)
(* page tables, the engines, and with each allocation where it may live.   *)
(* The answers come from different places in the code and have to agree.   *)
(*                                                                         *)
(* Addresses and sizes of segments are in megabytes, of allocations in     *)
(* pixels of four bytes.                                                   *)
(***************************************************************************)
EXTENDS Integers, FiniteSets, FiniteSetsExt

CONSTANTS
  Worlds,        \* the device's features, its shared memory window, whether it is a VGA
  Allocations,   \* requests of the user mode driver to create an allocation
  Surfaces,      \* standard allocations
  None

VARIABLES
  world,
  started,       \* whether the adapter has a state (check_state!)
  told,          \* what query_info answered: private, caps, count, segments, mmu
  last           \* the last of the other calls: [kind, arg, status, value]

vars == <<world, started, told, last>>

----------------------------------------------------------------------------
(* MemorySegment. *)

ImplicitSystemMemory == 0
Aperture3D == 1
BlobMappable == 2
BlobHost3D == 3
SegmentCount == 3

Index(segment) == segment - 1

\* The mask of a single segment, as a set of indices.
Mask(segment) == {Index(segment)}

Phys(segment) ==
  CASE segment = Aperture3D -> 3072 [] segment = BlobHost3D -> 28672 [] segment = BlobMappable -> 131072

\* Mutant: the host's blobs are given 128 gigabytes.
SegmentSizeLarge(segment, shmem) ==
  CASE segment = Aperture3D -> 1024 [] segment = BlobHost3D -> 131072 [] segment = BlobMappable -> shmem.len

SegmentSize(segment, shmem) ==
  CASE segment = Aperture3D -> 1024 [] segment = BlobHost3D -> 16384 [] segment = BlobMappable -> shmem.len

SegmentFlags(segment) ==
  CASE segment = Aperture3D -> {"Aperture", "CacheCoherent", "DirectFlip"}
    [] segment = BlobHost3D -> {"CacheCoherent", "CpuVisible", "DirectFlip"}
    [] segment = BlobMappable -> {"CacheCoherent", "CpuVisible", "DirectFlip"}

\* fill_desc3 and fill_desc4: only the mappable segment has an address of its own.
FillDesc(segment, shmem) ==
  [base |-> Phys(segment), size |-> SegmentSize(segment, shmem), flags |-> SegmentFlags(segment),
   cpu |-> IF segment = BlobMappable THEN shmem.start ELSE None]

----------------------------------------------------------------------------
(* Engine: three engines of their own, the other nodes are of one kind. *)

OtherStart == 3
OtherCount == 61
TotalCount == OtherStart + OtherCount

\* Mutant: one node too few.
OtherEndShort == OtherStart + OtherCount - 2

OtherEnd == OtherStart + OtherCount - 1

TryFromNodeOrdinal(node) ==
  CASE node = 0 -> [kind |-> "Graphics", i |-> 0]
    [] node = 1 -> [kind |-> "PhysicalOther", i |-> 0]
    [] node = 2 -> [kind |-> "Copy", i |-> 0]
    [] node \in OtherStart..OtherEnd -> [kind |-> "Other", i |-> node - OtherStart]
    [] OTHER -> None

NodeOrdinal(engine) ==
  CASE engine.kind = "Graphics" -> 0 [] engine.kind = "PhysicalOther" -> 1
    [] engine.kind = "Copy" -> 2 [] engine.kind = "Other" -> OtherStart + engine.i

FillMetadata(engine) ==
  CASE engine.kind = "Graphics" -> [type |-> "3D", mmu |-> FALSE]
    [] engine.kind = "PhysicalOther" -> [type |-> "OTHER", mmu |-> FALSE]
    [] engine.kind = "Copy" -> [type |-> "COPY", mmu |-> TRUE]
    [] engine.kind = "Other" -> [type |-> "OTHER", mmu |-> TRUE]

\* The answer to a call that is remembered only until the next one.
Answer(kind, arg, status, value) ==
  /\ last' = [kind |-> kind, arg |-> arg, status |-> status,
             value |-> IF status = "SUCCESS" THEN value ELSE None]
  /\ UNCHANGED <<world, started, told>>

\* Answered also by an adapter that was not started.
GetNodeMetadata(node) ==
  LET engine == TryFromNodeOrdinal(node)
  IN  IF engine = None THEN Answer("node", node, "INVALID_PARAMETER", None)
      ELSE Answer("node", node, "SUCCESS", FillMetadata(engine))

----------------------------------------------------------------------------
(* query_info.  An adapter without state answers UNSUCCESSFUL and a buffer that is too  *)
(* small is refused (check_buffer_size!); either leaves what was told before.           *)

Tell(fits, key, value) ==
  /\ told' = IF started /\ fits THEN [told EXCEPT ![key] = value] ELSE told
  /\ UNCHANGED <<world, started, last>>

QueryPrivate(fits) ==
  Tell(fits, "private",
       [supports3d |-> {"VIRGL", "RESOURCE_BLOB", "CONTEXT_INIT"} \subseteq world.features,
        capsets |-> world.capsets, shmem |-> TRUE])

QueryDriverCaps(fits) ==
  Tell(fits, "caps",
       [pagingNode |-> 2, nodes |-> TotalCount, nonVga |-> world.vga, pointer |-> 64,
        flips |-> 1, mmu |-> TRUE, preemption |-> "DMA_BUFFER_BOUNDARY"])

\* Every segment's descriptor is written at the place of its index; paging buffers are
\* in system memory.
Descriptors ==
  [s \in {Index(t) + 1: t \in 1..SegmentCount} |-> FillDesc(s, world.shmem)]

\* QUERYSEGMENT3: the count is answered with and without descriptors.
QuerySegments3(fits, descriptors) ==
  /\ told' = IF ~started \/ ~fits THEN told
             ELSE [told EXCEPT !.count = SegmentCount,
                               !.segments = IF descriptors THEN Descriptors ELSE @]
  /\ UNCHANGED <<world, started, last>>

\* QUERYSEGMENT4 without descriptors.
QuerySegmentCount(fits) == Tell(fits, "count", 3)

\* QUERYSEGMENT4 with as many descriptors as counted, which is asserted.
QuerySegments4(fits) == told.count = 3 /\ Tell(fits, "segments", Descriptors)

QueryGpuMmuCaps(fits) == Tell(fits, "mmu", [addressBits |-> 48, levels |-> 3])

\* PAGE_TABLE_DESC: an entry has 8 bytes, the tables live in system memory.
PageTableDesc(level) ==
  [indexBits |-> 12, bytes |-> 4096 * 8, segment |-> ImplicitSystemMemory, align |-> 4096]

\* Mutant: the number of levels itself is a level.
KnownLevelLoose(level) == level <= 3

KnownLevel(level) == level < 3

QueryPageTableLevel(level, fits) ==
  Answer("level", level,
         IF ~started THEN "UNSUCCESSFUL" ELSE IF ~fits THEN "BUFFER_TOO_SMALL"
         ELSE IF KnownLevel(level) THEN "SUCCESS" ELSE "INVALID_PARAMETER",
         PageTableDesc(level))

\* Constants that nothing else depends on, two questions answered with nothing, and the
\* questions the driver does not know.  The history buffers are as many as fit.
QueryOther(type, fits) ==
  Answer("other", type,
         IF ~started THEN "UNSUCCESSFUL"
         ELSE IF type \in {"HISTORYBUFFERPRECISION", "NODEPERFDATA", "ADAPTERPERFDATA"} THEN "SUCCESS"
         ELSE IF type # "DISPLAY_DRIVERCAPS_EXTENSION" THEN "NOT_SUPPORTED"
         ELSE IF fits THEN "SUCCESS" ELSE "BUFFER_TOO_SMALL", None)

----------------------------------------------------------------------------
(* Allocations. *)

\* The command sent along with a resource: nothing, or exactly one submission.
CommandAccepted(cmd) ==
  cmd # None => (cmd.id = "Submit" /\ ~cmd.shadow /\ cmd.length = cmd.room)

\* The caller's handle of the allocation is also that of the resource, if one is created.
Handles(request) == {"allocation"} \union (IF request.resource THEN {"resource"} ELSE {})

\* allocate_full's placement of a blob.
PlaceBlob(request) ==
  [segment |-> BlobHost3D, supported |-> Mask(BlobHost3D), eviction |-> {},
   cpuVisible |-> FALSE, physical |-> TRUE, size |-> request.size, handles |-> Handles(request)]

\* Mutant: a 3D resource is evicted to the segment of its own number.
Place3DEvicted(request) ==
  [segment |-> Aperture3D, supported |-> Mask(Aperture3D), eviction |-> {SegmentCount},
   cpuVisible |-> TRUE, physical |-> FALSE, size |-> request.size, handles |-> Handles(request)]

\* allocate_full's placement of a 3D resource: evicted to the first segment.
Place3D(request) ==
  [segment |-> Aperture3D, supported |-> Mask(Aperture3D), eviction |-> {0},
   cpuVisible |-> TRUE, physical |-> FALSE, size |-> request.size, handles |-> Handles(request)]

\* The first of allocate_full's refusals that applies, or success.  A blob needs an
\* identifier, a 3D resource the host to create it, both memory: `served' is whether
\* they get it.
AllocationStatus(request, served) ==
  IF ~started THEN "UNSUCCESSFUL"
  ELSE IF request.count > 1 THEN "NO_MEMORY"
  ELSE IF ~CommandAccepted(request.cmd) THEN "INVALID_PARAMETER"
  ELSE IF ~request.fits THEN "BUFFER_TOO_SMALL"
  ELSE IF request.kind \notin {"blob", "3D"} THEN "INVALID_PARAMETER"
  ELSE IF request.kind = "blob" /\ request.guest THEN "NO_MEMORY"
  ELSE IF ~served THEN "FAILED" ELSE "SUCCESS"

\* Adapter::allocate and allocate_full: one allocation at a time.
AllocateFull(request, served) ==
  Answer("allocation", request, AllocationStatus(request, served),
         IF request.kind = "blob" THEN PlaceBlob(request) ELSE Place3D(request))

\* Bytes of a row.
Pitch(surface) == surface.width * 4

\* Mutant: the size of the resource is counted in pixels.
SizePixels(surface) == surface.width * surface.height

\* All supported formats have four bytes a pixel.
SurfaceSize(surface) == surface.width * surface.height * 4

\* The private data written for a standard allocation: a 3D texture, no command.
TextureOf(surface) ==
  [kind |-> "3D", guest |-> FALSE, count |-> 1, cmd |-> None, fits |-> TRUE,
   resource |-> TRUE, size |-> SurfaceSize(surface)]

\* get_standard_allocation_driver_data: without room for the private data only its size
\* is told.  The shared primary surface is told no pitch.
DescribeStandard(surface, room) ==
  Answer("standard", surface,
    IF ~room THEN "SIZES"
    ELSE IF surface.type \in {"primary", "shadow", "staging"} THEN "SUCCESS" ELSE "NOT_SUPPORTED",
    [texture |-> TextureOf(surface),
     pitch |-> IF surface.type = "primary" THEN None ELSE Pitch(surface),
     coherent |-> surface.type # "primary",
     format |-> IF surface.type = "staging" THEN "B8G8R8X8" ELSE surface.format])

----------------------------------------------------------------------------
Init ==
  /\ world \in Worlds /\ started = FALSE
  /\ told = [private |-> None, caps |-> None, count |-> None, segments |-> None, mmu |-> None]
  /\ last = [kind |-> "none", arg |-> None, status |-> "SUCCESS", value |-> None]

\* The start fills in the state, the stop clears it.
Start == ~started /\ started' = TRUE /\ UNCHANGED <<world, told, last>>
Stop == started /\ started' = FALSE /\ UNCHANGED <<world, told, last>>

Asking ==
  \/ \E fits \in BOOLEAN:
       \/ QueryPrivate(fits) \/ QueryDriverCaps(fits) \/ QuerySegmentCount(fits)
       \/ QuerySegments4(fits) \/ QueryGpuMmuCaps(fits)
       \/ \E descriptors \in BOOLEAN: QuerySegments3(fits, descriptors)
       \/ \E level \in 0..3: QueryPageTableLevel(level, fits)
       \/ \E type \in {"HISTORYBUFFERPRECISION", "DISPLAY_DRIVERCAPS_EXTENSION", "UNKNOWN"}:
            QueryOther(type, fits)
  \/ \E node \in 0..TotalCount: GetNodeMetadata(node)

\* The operating system creates what a standard allocation was described to be.
AllocateStandard(served) ==
  /\ last.kind = "standard" /\ last.status = "SUCCESS"
  /\ AllocateFull(last.value.texture, served)

Creating ==
  \/ \E r \in Allocations, served \in BOOLEAN: AllocateFull(r, served)
  \/ \E s \in Surfaces, room \in BOOLEAN: DescribeStandard(s, room)
  \/ \E served \in BOOLEAN: AllocateStandard(served)

Next == Start \/ Stop \/ Asking \/ Creating
Spec == Init /\ [][Next]_vars

----------------------------------------------------------------------------
Overlap(a, b) == a.base < b.base + b.size /\ b.base < a.base + a.size

Succeeded(kind) == last.kind = kind /\ last.status = "SUCCESS"

\* The segments announced are as many as counted and do not overlap.  An allocation
\* prefers a segment it supports, all it names are announced whenever that happens, and
\* one the processor may map lies in an aperture or in a segment with an address of its
\* own.  A standard allocation's rows make up the size of its texture, and allocate_full
\* refuses no texture it was described as, except for want of state or resources.
PlacementsAgree ==
  /\ told.segments # None =>
       /\ DOMAIN told.segments = 1..told.count
       /\ \A s, t \in DOMAIN told.segments: s # t => ~Overlap(told.segments[s], told.segments[t])
  /\ Succeeded("allocation") =>
       LET a == last.value
       IN  /\ a.segment - 1 \in a.supported
           /\ told.segments # None =>
                /\ {a.segment} \union {i + 1: i \in a.supported \union a.eviction} \subseteq DOMAIN told.segments
                /\ a.cpuVisible => \/ "Aperture" \in told.segments[a.segment].flags
                                   \/ told.segments[a.segment].cpu # None
  /\ (last.kind = "allocation" /\ last.arg \in {TextureOf(s): s \in Surfaces}) =>
       last.status \in {"SUCCESS", "UNSUCCESSFUL", "FAILED"}
  /\ (Succeeded("standard") /\ last.value.pitch # None) =>
       last.value.pitch * last.arg.height = last.value.texture.size

\* The page table levels counted are described and no others, their index bits with the
\* page's make up the address, and a table has an entry for every index.  Every node
\* counted is an engine whose ordinal is the node, no other is, and the paging node is a
\* copy engine behind the MMU.
EnginesAgree ==
  /\ (told.mmu # None /\ last.kind = "level" /\ last.status \in {"SUCCESS", "INVALID_PARAMETER"}) =>
       /\ last.status = "SUCCESS" <=> last.arg < told.mmu.levels
       /\ last.arg < told.mmu.levels => last.value.bytes = 8 * 2^last.value.indexBits
       /\ MapThenSumSet(LAMBDA l: PageTableDesc(l).indexBits, 0..(told.mmu.levels - 1)) + 12
            = told.mmu.addressBits
  /\ (told.caps # None /\ last.kind = "node") =>
       LET n == last.arg
       IN  /\ last.status = "SUCCESS" <=> n < told.caps.nodes
           /\ n < told.caps.nodes => NodeOrdinal(TryFromNodeOrdinal(n)) = n
           /\ n = told.caps.pagingNode => last.value = [type |-> "COPY", mmu |-> told.caps.mmu]
=============================================================================
