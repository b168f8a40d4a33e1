-------------------------- MODULE MCVirtioDevices --------------------------
(* The device drivers of the virtio-drivers crate, each with its device, for   *)
(* TLC.                                                                        *)
(* A behaviour is one of a single part, which `part' names.  Console, Network  *)
(* and Events have their own variables, which stay as they are at first in     *)
(* behaviours of the other parts; the variables of each of those are the first *)
(* of v1, v2, ...                                                              *)
EXTENDS Console, Network, Events, TLC

CONSTANTS
    NoValue, Unused

VARIABLES part,
    v1, v2, v3, v4, v5, v6, v7, v8, v9, v10, v11, v12, v13, v14, v15, v16

slots == <<v1, v2, v3, v4, v5, v6, v7, v8, v9, v10, v11, v12, v13, v14, v15, v16>>
vars == <<part, slots, consoleVars, netVars, eventsVars>>

ASSUME ConsoleAssumption
ASSUME NetworkAssumption
ASSUME EventsAssumption

-----------------------------------------------------------------------------
(* Vsock: one connection with three bytes from the peer or two to it, or two  *)
(* connections with one byte each way.  Counters wrap at 8.                   *)

VsockBounds == {
    [opened |-> 1, to |-> 1, from |-> 3], [opened |-> 1, to |-> 2, from |-> 1], [opened |-> 2, to |-> 1, from |-> 1]}

Vs == INSTANCE Vsock WITH
    CAP <- 2, PBUF <- 1, W <- 8, RxBuffers <- 2, MaxTx <- 1, Bounds <- VsockBounds,
    conn <- v1, listening <- v2, tx <- v3, rx <- v4, got <- v5, clean <- v6,
    peer <- v7, bound <- v8

ASSUME Vs!VsockAssumption

-----------------------------------------------------------------------------
(* DriverLifecycle: every driver on every transport.                          *)

DriverNames == {"blk", "console", "input", "net", "rng", "rtc", "9p", "socket", "sound", "gpu"}

Dl == INSTANCE DriverLifecycle WITH
    Drivers <- DriverNames, Transports <- {"legacy", "modern", "pci", "hyp_pci"},
    MaxChanges <- 2, driver <- v1, transport <- v2, todo <- v3, made <- v4,
    phase <- v5, live <- v6, posted <- v7, status <- v8, enabled <- v9,
    letting <- v10, config <- v11, reading <- v12, got <- v13, ever <- v14

-----------------------------------------------------------------------------
(* Requests: several requests to a block device, on a queue that takes two or *)
(* three of them; every status of every device.                               *)

RequestWorld(k, n, i, f, r, s) ==
    [kind |-> k, size |-> n, indirect |-> i, flush |-> f, requests |-> r, statuses |-> s]
RequestWorlds ==
    {RequestWorld("blk", 8, FALSE, FALSE, 3, {1}), RequestWorld("blk", 4, TRUE, TRUE, 2, {1}),
     RequestWorld("blk", 4, FALSE, TRUE, 1, 1 .. 4)}
      \union {RequestWorld(k, 4, FALSE, FALSE, 2, 1 .. 9) : k \in {"rng", "rtc", "9p"}}

Rq == INSTANCE Requests WITH
    Worlds <- RequestWorlds, Slots <- {"first", "second"}, Sectors <- {0, 1},
    Values <- {"one"}, world <- v1, q <- v2, req <- v3, sent <- v4, disk <- v5,
    truth <- v6

-----------------------------------------------------------------------------
(* Sound: direct and indirect descriptors without faults, and with a device   *)
(* that fails.                                                                *)

SoundWorlds ==
    {[indirect |-> i, statuses |-> {"Ok"},
      budget |-> [control |-> 2, xfer |-> 2, nb |-> 1, errors |-> 0]] : i \in BOOLEAN} \union
    {[indirect |-> TRUE, statuses |-> {"Ok", "IoErr"},
      budget |-> [control |-> 2, xfer |-> 1, nb |-> 1, errors |-> 1]]}

So == INSTANCE Sound WITH
    Worlds <- SoundWorlds, QUEUE_SIZE <- 6, Jacks <- 1, Streams <- 1,
    Formats <- {5}, world <- v1, set_up <- v2, jack_infos <- v3, pcm_infos <- v4,
    chmap_infos <- v5, pcm_parameters <- v6, accepted <- v7, tx_queue <- v8,
    call <- v9, token_buf <- v10, played <- v11, returned <- v12, left <- v13,
    refused <- v14, panicked <- v15, budget <- v16

-----------------------------------------------------------------------------
(* Gpu: the 2D calls, the 3D calls, and refusals by the device.               *)

GpuWorlds ==
    {[virgl |-> FALSE, blob |-> FALSE, edid |-> x, faults |-> 0, calls |-> 4,
      names |-> {"change_resolution", "setup_framebuffer", "setup_cursor", "flush", "move_cursor", "edid", "3d"}]
        : x \in BOOLEAN} \union
    {[virgl |-> TRUE, blob |-> x, edid |-> TRUE, faults |-> 0, calls |-> 4, names |-> {"3d"}] : x \in BOOLEAN} \union
    {[virgl |-> FALSE, blob |-> FALSE, edid |-> FALSE, faults |-> 2, calls |-> 3,
      names |-> {"change_resolution", "setup_cursor", "flush"}]}

Gp == INSTANCE Gpu WITH
    Worlds <- GpuWorlds, Id <- 3, CapsetSize <- 1, world <- v1,
    frame_buffer_dma <- v2, cursor_buffer_dma <- v3, live <- v4, rect <- v5,
    call <- v6, host <- v7, capset <- v8, sent <- v9, refused <- v10,
    faults <- v11, calls <- v12

-----------------------------------------------------------------------------
(* Pci: machines with a few functions.  A configuration word has ten bits.    *)

F(dev, function) == [bus |-> 0, device |-> dev, function |-> function]

NoBar == [kind |-> "none", size |-> 0]
Top == [kind |-> "top", size |-> 0]
Region(kind, size) == [kind |-> kind, size |-> size]
Zero == <<0, 0, 0, 0, 0, 0>>

Cap(n, type, len, bar, offset, length) ==
    [vndr |-> type # 0, next |-> n, type |-> type, len |-> len, bar |-> bar, id |-> 1,
     offset |-> offset, length |-> length, multiplier |-> 4]

\* Common, notify, ISR and device structures in BAR `bar', after an MSI-X capability,
\* with a second common capability that must not be taken.
CapList(bar, odd, room, dev) ==
    (64 :> Cap(80, 0, 12, 0, 0, 0)) @@
    (80 :> Cap(96, 1, 16, bar, 0, 56)) @@
    (96 :> [Cap(116, 2, 20, bar, 64, 6) EXCEPT !.multiplier = IF odd THEN 3 ELSE 4]) @@
    (116 :> Cap(132, 3, 16, bar, 72, 4)) @@
    (132 :> Cap(148, 4, 16, bar, 96, room)) @@
    (148 :> Cap(dev, 1, 16, bar, 64, 64)) @@
    (164 :> Cap(7, 8, 24, bar, 0, 16))

Function(vendor, id, bars, firmware, command, list) ==
    [vendor |-> vendor, id |-> id, bars |-> [i \in 0 .. 5 |-> bars[i + 1]], firmware |-> firmware,
     command |-> command, caps |-> list, ptr |-> 64]

Modern == <<Region("io", 8), Region("mem32", 16), NoBar, NoBar, Region("mem64", 128), Top>>
Packed == <<Region("mem32", 32), Region("mem64", 128), Top, Region("mem64", 2048), Top, NoBar>>
Single(kind) == <<Region(kind, 128), NoBar, NoBar, NoBar, NoBar, Region("mem64", 16)>>

Bridge == Function(1, 2, <<NoBar, NoBar, NoBar, NoBar, NoBar, NoBar>>, Zero, {}, CapList(0, FALSE, 0, 0))
Display(command, firmware) == Function(6900, 4176, Modern, firmware, command, CapList(4, FALSE, 14, 164))
Disk(odd, room) == Function(6900, 4097, Packed, Zero, {"MEMORY_SPACE"}, CapList(1, odd, room, 0))
Typed(kind) == Function(6900, 4097, Single(kind), Zero, {"IO_SPACE"}, CapList(0, FALSE, 8, 0))

Machine(cam, kind, last, bus) == [cam |-> cam, kind |-> kind, start |-> 256, end |-> last, bus |-> bus]

Machines ==
    {Machine(cam, kind, 1020,
             (F(0, 0) :> Bridge) @@ (F(1, 0) :> Display(command, firmware)) @@ (F(1, 1) :> Disk(FALSE, room))) :
       cam \in {"MmioCam", "Ecam"}, kind \in {"Pci", "HypPci"},
       command \in {{}, {"IO_SPACE", "MEMORY_SPACE", "BUS_MASTER"}},
       firmware \in {Zero, <<257, 512, 0, 0, 128, 1>>}, room \in {14, 32, 33}}
    \union {Machine("MmioCam", "Pci", last, (F(0, 1) :> Disk(odd, 8)) @@ (F(1, 1) :> Display({}, Zero))) :
              last \in {500, 640, 1000}, odd \in BOOLEAN}
    \union {Machine("MmioCam", "Pci", 1000, (F(1, 0) :> Typed(kind))) : kind \in {"mem32", "mem1m", "reserved", "io"}}

FieldAccesses ==
    {[offset |-> 0, size |-> 8], [offset |-> 8, size |-> 4], [offset |-> 12, size |-> 2],
     [offset |-> 28, size |-> 4], [offset |-> 32, size |-> 1]}

Pc == INSTANCE Pci WITH
    W <- 10, Worlds <- Machines, MAX_DEVICES <- 2, MAX_FUNCTIONS <- 2,
    Accesses <- FieldAccesses, None <- NoValue, world <- v1, regs <- v2, given <- v3,
    pc <- v4, next <- v5, found <- v6, probe <- v7, infos <- v8, start <- v9,
    caps <- v10, stage <- v11, regions <- v12, access <- v13

-----------------------------------------------------------------------------
(***************************** the specification ****************************)

Unused14 == v15 = Unused /\ v16 = Unused
Unused13 == v14 = Unused /\ Unused14
Unused12 == v13 = Unused /\ Unused13
Unused8 == v9 = Unused /\ v10 = Unused /\ v11 = Unused /\ v12 = Unused /\ Unused12
Unused6 == v7 = Unused /\ v8 = Unused /\ Unused8
Unused0 ==
    v1 = Unused /\ v2 = Unused /\ v3 = Unused /\ v4 = Unused /\ v5 = Unused /\ v6 = Unused /\ Unused6

Init ==
    /\ \/ part = "vsock" /\ Vs!Init /\ Unused8
       \/ part = "lifecycle" /\ Dl!Init /\ Unused14
       \/ part = "requests" /\ Rq!Init /\ Unused6
       \/ part = "sound" /\ So!Init
       \/ part = "gpu" /\ Gp!Init /\ Unused12
       \/ part = "pci" /\ Pc!Init /\ Unused13
       \/ part \in {"console", "network", "events"} /\ Unused0
    /\ ConsoleInit /\ NetInit /\ EventsInit
    /\ part # "network" => version1
    /\ part # "events" => owning

Kept14 == UNCHANGED <<v15, v16>>
Kept13 == UNCHANGED <<v14>> /\ Kept14
Kept12 == UNCHANGED <<v13>> /\ Kept13
Kept8 == UNCHANGED <<v9, v10, v11, v12>> /\ Kept12
Kept6 == UNCHANGED <<v7, v8>> /\ Kept8

OfSlots == UNCHANGED <<part, consoleVars, netVars, eventsVars>>
OfVsock == part = "vsock" /\ Kept8 /\ OfSlots
OfConsole == part = "console" /\ UNCHANGED <<part, slots, netVars, eventsVars>>
OfNetwork == part = "network" /\ UNCHANGED <<part, slots, consoleVars, eventsVars>>
OfEvents == part = "events" /\ UNCHANGED <<part, slots, consoleVars, netVars>>

Step ==
    \/ part = "lifecycle" /\ Dl!Next /\ Kept14
    \/ part = "requests" /\ Rq!Next /\ Kept6
    \/ part = "sound" /\ So!Next
    \/ part = "gpu" /\ Gp!Next /\ Kept12
    \/ part = "pci" /\ Pc!Next /\ Kept13

Next ==
    \/ OfVsock /\ Vs!Next
    \/ OfConsole /\ ConsoleNext
    \/ OfNetwork /\ NetNext
    \/ OfEvents /\ EventsNext
    \/ OfSlots /\ Step

\* The owner of a connection keeps polling and the peer keeps taking packets; the owner of
\* a console keeps reading and the device delivers.
Fairness ==
    /\ WF_vars(OfVsock /\ Vs!Poll) /\ SF_vars(OfVsock /\ Vs!PeerTake)
    /\ WF_vars(OfConsole /\ Read) /\ WF_vars(OfConsole /\ WaitForReceive)
    /\ WF_vars(OfConsole /\ Consume) /\ WF_vars(OfConsole /\ DeviceReceives)

Spec == Init /\ [][Next]_vars /\ Fairness

-----------------------------------------------------------------------------
(******************************** properties ********************************)

\* A connection delivers the peer's bytes once each and in order, and never sends more
\* than the peer has room for (ring buffer and credit of the vsock driver).  What a
\* transfer reports as played was played, in order; driver and device agree on a
\* stream's parameters; buffers of a transfer live until the device is done (sound).
StreamsHonest ==
    /\ part = "vsock" => Vs!BytesInOrder /\ Vs!CreditHonest
    /\ part = "sound" => So!PlayedInOrder /\ So!ParametersAgree /\ So!BuffersKept

\* While a driver is made, used and dropped the device never has memory that was freed,
\* and a value of the configuration that is read in halves is one the device had
\* (order of construction and destruction, read_consistent).
DeviceKeptSafe == part = "lifecycle" => Dl!NoDmaAfterFree /\ Dl!ConfigNotTorn

\* A request that returns success was carried out by the device for this request, on
\* the right sector, with the answer that belongs to it (blk, rng, rtc, 9p).
OkMeansDone == part = "requests" => Rq!OkMeansDone

\* The memory the device uses for a resource is alive, a call the device does not refuse
\* succeeds, and no command needs a feature that was not negotiated (gpu driver).
ResourcesBacked == part = "gpu" => Gp!BackingAlive /\ Gp!SetupSucceeds /\ Gp!CommandsNegotiated

\* The scan finds every function, sizing a BAR goes unnoticed, windows do not overlap,
\* and every access of the transport is to a register of the device (PCI transport).
DevicesReached ==
    part = "pci" => Pc!SizingInvisible /\ Pc!ScanComplete /\ Pc!WindowsDisjoint /\ Pc!AccessesDecoded

\* An owner that polls learns of the peer's credit or of the end of the connection, and one
\* that reads gets everything that was typed (vsock and console drivers).
OwnersServed ==
    /\ part = "vsock" => ~Vs!CreditAwaited
    /\ part = "console" => AllRead
OwnersProgress == []<>OwnersServed
=============================================================================
