-------------------------------- MODULE Pci --------------------------------
(***************************************************************************)
(* How a VirtIO device is found on a PCI bus and mapped: enumeration of    *)
(* the bus, sizing of the base address registers (BARs) by writing all     *)
(* ones to them, assignment of addresses as the aarch64 example does it,   *)
(* the walk of the capability list in `PciTransport::new' (and its pKVM    *)
(* twin `HypPciTransport::new'), and the register accesses the transport   *)
(* then makes.  One thread runs the code; a step is one write to           *)
(* configuration space with the reads around it, so that every             *)
(* intermediate state of the device's decoders is a state of the model.    *)
(*                                                                         *)
(* A configuration word has W bits (32 in the code): 2^W plays the part of *)
(* 4 GiB, and a 64-bit quantity has 2 * W bits.                            *)
(***************************************************************************)
EXTENDS Integers, Sequences, FiniteSets, SequencesExt

CONSTANTS
  W,          \* bits of a configuration word
  Worlds,     \* the machines: [cam, kind, start, end, bus], bus a function from
              \* the device functions that answer to what they are
  MAX_DEVICES, MAX_FUNCTIONS,   \* 32 and 8 in the code
  Accesses,   \* [offset, size] of the configuration fields a driver reads
  None        \* no value

VARIABLES
  world,      \* the machine of this behaviour
  regs,       \* device function -> [command, bars]: what its registers hold
  given,      \* device function -> the six BAR values firmware or the allocator wrote
  pc,         \* where the code is
  next,       \* the iterator of enumerate_bus
  found,      \* the functions it returned, in order
  probe,      \* the locals of bar_info
  infos,      \* what bars() collected: index -> BarInfo or None
  start,      \* PciMemory32Allocator: first free address
  caps,       \* the capability walk: next offset, and the structures kept
  stage,      \* which region PciTransport::new is mapping
  regions,    \* structure name -> [paddr, length] of the transport
  access      \* the last physical range the transport touched, or None

scanVars == <<next, found>>
allocVars == <<infos, start, given>>
newVars == <<caps, stage, regions>>
vars == <<world, regs, given, pc, next, found, probe, infos, start, caps, stage, regions, access>>

Word == 2^W
BARS == 0..5
IO == "IO_SPACE"
MEM == "MEMORY_SPACE"
MASTER == "BUS_MASTER"

----------------------------------------------------------------------------
(* The configuration access mechanism. *)

\* Mutant: the function number overlaps the low bit of the device number.
CamOffsetNarrow(cam, df, register) ==
  (df.bus * 256 + df.device * 4 + df.function) * (IF cam = "Ecam" THEN 4096 ELSE 256) + register

\* The byte offset of a register within the CAM; the fields do not overlap, so that
\* the code's `|' adds them.
CamOffset(cam, df, register) ==
  (df.bus * 256 + df.device * 8 + df.function) * (IF cam = "Ecam" THEN 4096 ELSE 256) + register

\* The function the root complex selects for that offset.
Selected(cam, address) ==
  LET bdf == address \div (IF cam = "Ecam" THEN 4096 ELSE 256)
  IN  [bus |-> bdf \div 256, device |-> (bdf \div 8) % 32, function |-> bdf % 8]

\* The function an access through MmioCam or HypCam reaches.
Reached(df) == Selected(world.cam, CamOffset(world.cam, df, 0))

Present(df) == Reached(df) \in DOMAIN world.bus
Device(df) == world.bus[Reached(df)]

\* The low bits of a BAR that tell its type, as the device hard-wires them.
Flags(bar) == CASE bar.kind = "io" -> 1
                [] bar.kind = "mem32" -> 0
                [] bar.kind = "mem1m" -> 2
                [] bar.kind = "mem64" -> 4
                [] bar.kind = "reserved" -> 6
                [] OTHER -> 0

\* What a BAR register holds after `w' is written to it: only the bits above the
\* size of the region are there.
Latch(bars, i, w) ==
  CASE bars[i].kind = "none" -> 0
    [] bars[i].kind = "top" ->
         LET unit == bars[i - 1].size \div Word IN IF unit < 2 THEN w ELSE w - (w % unit)
    [] OTHER -> (IF bars[i].size < Word THEN w - (w % bars[i].size) ELSE 0) + Flags(bars[i])

WriteBar(df, i, w) ==
  regs' = [regs EXCEPT ![Reached(df)].bars[i] = Latch(Device(df).bars, i, w)]

\* set_command: replaces the whole command register.
SetCommand(df, command) == regs' = [regs EXCEPT ![Reached(df)].command = command]

Command(df) == regs[Reached(df)].command
Bar(df, i) == regs[Reached(df)].bars[i]

----------------------------------------------------------------------------
(* enumerate_bus: every function number of every device number is read. *)

\* Mutant: the last function of a device is skipped.
FollowingShort(df) ==
  IF df.function + 2 >= MAX_FUNCTIONS THEN [df EXCEPT !.function = 0, !.device = @ + 1]
                                      ELSE [df EXCEPT !.function = @ + 1]

Following(df) ==
  IF df.function + 1 >= MAX_FUNCTIONS THEN [df EXCEPT !.function = 0, !.device = @ + 1]
                                      ELSE [df EXCEPT !.function = @ + 1]

\* DeviceType::try_from: the VirtIO device numbers that are known (both balloon numbers
\* are the one balloon type), None for the others.
KnownType(number) == IF number = 5 THEN 13
                     ELSE IF number \in 1..13 \union 16..25 THEN number ELSE None

GPU == 16

\* device_type: the transitional ids from 0x1000, then 0x1040 + the VirtIO number.
DeviceType(id) ==
  IF id \in 4096..4101 THEN <<1, 2, 13, 3, 8, 4>>[id - 4095]
  ELSE IF id = 4105 THEN 9
  ELSE IF id >= 4160 THEN KnownType(id - 4160) ELSE None

VirtioDeviceType(d) == IF d.vendor = 6900 THEN DeviceType(d.id) ELSE None

\* The loop of enumerate_pci: a function that is a VirtIO device has its BARs sized.
EnumerateNext ==
  /\ pc = "scan"
  /\ IF next.device < MAX_DEVICES
     THEN /\ next' = Following(next)
          /\ found' = IF Present(next) THEN Append(found, next) ELSE found
          /\ pc' = IF Present(next) /\ VirtioDeviceType(Device(next)) # None
                   THEN "bars" ELSE "scan"
     ELSE pc' = "done" /\ UNCHANGED scanVars
  /\ probe' = [probe EXCEPT !.index = 0]
  /\ infos' = [i \in BARS |-> None]
  /\ UNCHANGED <<world, regs, given, start, newVars, access>>

Current == Last(found)

----------------------------------------------------------------------------
(* bar_info: the BAR is sized with address decoding off, and put back. *)

\* Mutant: only the memory decoder is looked at before the sizing.
DisableDecodeLazy(command) == IF command = {IO, MEM, MASTER} THEN command ELSE command \ {IO, MEM}

DisableDecode(command) == command \ {IO, MEM}

\* A call of bar_info for BAR i; `ret' is where it returns to.
BarInfoDisable(i, ret) ==
  /\ probe' = [index |-> i, ret |-> ret, command |-> Command(Current), orig |-> 0, mask |-> 0,
               topOrig |-> 0, topMask |-> 0]
  /\ SetCommand(Current, DisableDecode(Command(Current)))
  /\ pc' = "ones"
  /\ UNCHANGED <<world, scanVars, allocVars, newVars, access>>

BarInfoOnes ==
  /\ pc = "ones"
  /\ probe' = [probe EXCEPT !.orig = Bar(Current, probe.index)]
  /\ WriteBar(Current, probe.index, Word - 1)
  /\ pc' = "mask"
  /\ UNCHANGED <<world, scanVars, allocVars, newVars, access>>

IsWide(orig) == orig % 8 = 4

\* The mask is read; a 64-bit BAR has its upper half sized too, and an error if there
\* is no room for one: that return leaves the BAR and the command as they are.
BarInfoMask ==
  /\ pc = "mask"
  /\ LET mask == Bar(Current, probe.index)
     IN  IF IsWide(probe.orig) /\ probe.index >= 5
         THEN pc' = "failed" /\ UNCHANGED <<regs, probe>>
         ELSE IF IsWide(probe.orig)
         THEN /\ probe' = [probe EXCEPT !.mask = mask, !.topOrig = Bar(Current, probe.index + 1)]
              /\ WriteBar(Current, probe.index + 1, Word - 1)
              /\ pc' = "top"
         ELSE /\ probe' = [probe EXCEPT !.mask = mask,
                                        !.topMask = IF mask = 0 THEN 0 ELSE Word - 1]
              /\ pc' = "restore"
              /\ UNCHANGED regs
  /\ UNCHANGED <<world, scanVars, allocVars, newVars, access>>

BarInfoTop ==
  /\ pc = "top"
  /\ probe' = [probe EXCEPT !.topMask = Bar(Current, probe.index + 1)]
  /\ WriteBar(Current, probe.index + 1, probe.topOrig)
  /\ pc' = "restore"
  /\ UNCHANGED <<world, scanVars, allocVars, newVars, access>>

BarInfoRestore ==
  /\ pc = "restore"
  /\ WriteBar(Current, probe.index, probe.orig)
  /\ pc' = "enable"
  /\ UNCHANGED <<world, scanVars, allocVars, newVars, access, probe>>

BarInfoEnable ==
  /\ pc = "enable"
  /\ SetCommand(Current, probe.command)
  /\ pc' = probe.ret
  /\ UNCHANGED <<world, scanVars, allocVars, newVars, access, probe>>

\* The bits below the address: two in an I/O BAR, four in a memory BAR.
SizeFlags(p) == IF p.orig % 2 = 1 THEN 4 ELSE 16

\* MemoryBarType::try_from.
MemoryBarType(bits) == <<"Width32", "Below1MiB", "Width64", "invalid">>[bits + 1]

\* What bar_info returns for the values it read: None for a BAR that reads back zero,
\* and the two's complement of the writable bits as its size.
SizeOf(p) ==
  LET mask == p.mask + p.topMask * Word
  IN  (Word * Word - (mask - (mask % SizeFlags(p)))) % (Word * Word)

BarInfo(p) ==
  IF p.mask + p.topMask * Word = 0 THEN None
  ELSE IF p.orig % 2 = 1
  THEN [kind |-> "IO", type |-> "IO", address |-> p.orig - (p.orig % 4), size |-> SizeOf(p) % Word]
  ELSE [kind |-> "Memory", type |-> MemoryBarType((p.orig % 8) \div 2),
        address |-> p.orig - (p.orig % 16) + p.topOrig * Word, size |-> SizeOf(p)]

\* bars: all six, a 64-bit BAR taking two entries.
BarsCall ==
  /\ pc = "bars"
  /\ BarInfoDisable(probe.index, "bars_got")

TakesTwoEntries(info) == info # None /\ info.type = "Width64"

BarsGot ==
  /\ pc = "bars_got"
  /\ LET info == BarInfo(probe)
         step == IF TakesTwoEntries(info) THEN 2 ELSE 1
     IN  IF info # None /\ info.type = "invalid"
         THEN pc' = "failed" /\ UNCHANGED <<infos, probe>>
         ELSE /\ infos' = [infos EXCEPT ![probe.index] = info]
              /\ probe' = [probe EXCEPT !.index = IF @ + step < 6 THEN @ + step ELSE 0]
              /\ pc' = IF probe.index + step < 6 THEN "bars" ELSE "assign"
  /\ UNCHANGED <<world, regs, given, start, scanVars, newVars, access>>

----------------------------------------------------------------------------
(* allocate_bars of the example: 32-bit addresses for the memory BARs. *)

\* Mutant: the region is not aligned to its size.
AlignUpNot(value, alignment) == value

AlignUp(value, alignment) == ((value - 1) \div alignment) * alignment + alignment

IsPowerOfTwo(n) == \E k \in 0..2 * W: n = 2^k

\* One BAR of the loop; probe.index is its bar_index.
AssignBar ==
  /\ pc = "assign"
  /\ LET i == probe.index
         info == infos[i]
         wanted == info # None /\ info.kind = "Memory" /\ info.size < Word
         address == AlignUp(start, info.size)
     IN  IF wanted /\ (info.type = "Below1MiB" \/ ~IsPowerOfTwo(info.size)
                         \/ address + info.size > world.end)
         THEN pc' = "failed" /\ UNCHANGED <<regs, given, start, probe>>
         ELSE IF wanted
         THEN /\ WriteBar(Current, i, address)
              /\ start' = address + info.size
              /\ given' = [given EXCEPT ![Reached(Current)][i] = regs'[Reached(Current)].bars[i]]
              /\ pc' = IF info.type = "Width64" THEN "assign_top"
                       ELSE IF i < 5 THEN "assign" ELSE "command"
              /\ probe' = [probe EXCEPT !.index = IF info.type = "Width64" \/ i = 5 THEN i ELSE i + 1]
         ELSE /\ pc' = IF i < 5 THEN "assign" ELSE "command"
              /\ probe' = [probe EXCEPT !.index = IF i = 5 THEN i ELSE i + 1]
              /\ UNCHANGED <<regs, given, start>>
  /\ UNCHANGED <<world, scanVars, infos, newVars, access>>

\* set_bar_64: the upper word, zero because the address is below 2^W.
AssignTop ==
  /\ pc = "assign_top"
  /\ WriteBar(Current, probe.index + 1, 0)
  /\ given' = [given EXCEPT ![Reached(Current)][probe.index + 1] = 0]
  /\ probe' = [probe EXCEPT !.index = @ + 1]
  /\ pc' = "assign"
  /\ UNCHANGED <<world, scanVars, infos, start, newVars, access>>

\* The decoders go on, and PciTransport::new reads the ids and the capability pointer.
EnableDevice ==
  /\ pc = "command"
  /\ SetCommand(Current, {IO, MEM, MASTER})
  /\ caps' = [at |-> Device(Current).ptr, common |-> None, notify |-> None, isr |-> None,
              device |-> None, shmem |-> None, multiplier |-> 0]
  /\ regions' = [s \in {} |-> None]
  /\ pc' = "caps"
  /\ UNCHANGED <<world, scanVars, allocVars, probe, stage, access>>

----------------------------------------------------------------------------
(* PciTransport::new: the first usable capability of each type is kept. *)

\* CapabilityIterator::next: where the list goes on, None at its end or at an offset
\* that cannot be one.
NextOffset(n) == IF n < 64 \/ n % 4 # 0 THEN None ELSE n

\* HypPciTransport::new: which structure a capability describes.
HypMatches(name, cap) ==
  CASE name = "common" -> cap.type = 1
    [] name = "notify" -> cap.type = 2 /\ cap.len >= 20
    [] name = "isr" -> cap.type = 3
    [] name = "device" -> cap.type = 4
    [] name = "shmem" -> FALSE

\* PciTransport::new: a GPU's host-visible shared memory is looked for as well.
PciMatches(name, cap) ==
  IF name = "shmem" THEN cap.type = 8 /\ DeviceType(Device(Current).id) = GPU /\ cap.id = 1
                    ELSE HypMatches(name, cap)

\* Mutant: a later capability of the same type replaces the first.
KeepsLast(name, cap) == PciMatches(name, cap)

Keeps(name, cap) ==
  /\ caps[name] = None
  /\ IF world.kind = "Pci" THEN PciMatches(name, cap) ELSE HypMatches(name, cap)

CapabilityNext ==
  /\ pc = "caps"
  /\ IF caps.at = None
     THEN /\ pc' = IF caps.common = None THEN "failed" ELSE "region"
          /\ stage' = "common"
          /\ UNCHANGED caps
     ELSE LET cap == Device(Current).caps[caps.at]
              info == [bar |-> cap.bar, offset |-> cap.offset, length |-> cap.length]
              usable == cap.vndr /\ cap.len >= 16
          IN  /\ caps' = [name \in DOMAIN caps |->
                            CASE name = "at" -> NextOffset(cap.next)
                              [] name = "multiplier" ->
                                   IF usable /\ Keeps("notify", cap) THEN cap.multiplier
                                                                     ELSE caps.multiplier
                              [] OTHER -> IF usable /\ Keeps(name, cap) THEN info ELSE caps[name]]
              /\ UNCHANGED <<pc, stage>>
  /\ UNCHANGED <<world, regs, allocVars, scanVars, probe, regions, access>>

\* get_bar_region and get_bar_region_slice: the BAR of the structure is sized again.
RegionCall ==
  /\ pc = "region"
  /\ BarInfoDisable(caps[stage].bar, "region_got")

SizeAlign(name) == CASE name = "common" -> <<56, 8>>
                     [] name = "notify" -> <<2, 2>>
                     [] name = "isr" -> <<1, 1>>
                     [] name = "device" -> <<4, 4>>

\* Mutant: the end of the structure is not compared with the end of the BAR.
RegionFitsStart(info, s, name) == s.offset < info.size /\ SizeAlign(name)[1] <= s.length

RegionFits(info, s, name) == s.offset + s.length <= info.size /\ SizeAlign(name)[1] <= s.length

\* get_bar_region: the address that mmio_phys_to_virt returns must be; the mapping is
\* page-granular, so that it has the alignment of the physical address.
PciRegionUsable(info, s, name) ==
  /\ info # None
  /\ info.kind = "Memory"
  /\ info.type # "invalid"
  /\ info.address # 0
  /\ RegionFits(info, s, name)
  /\ (info.address + s.offset) % SizeAlign(name)[2] = 0

\* The pKVM get_bar_region makes the same checks on the physical address itself.
HypRegionUsable(info, s, name) == PciRegionUsable(info, s, name)

RegionUsable(info, s, name) ==
  IF world.kind = "Pci" THEN PciRegionUsable(info, s, name) ELSE HypRegionUsable(info, s, name)

\* The order in which the constructor maps the regions; the device structure is optional.
NextStage == CASE stage = "common" -> "notify"
               [] stage = "notify" -> "isr"
               [] stage = "isr" -> "device"
               [] stage = "device" -> "none"

RegionGot ==
  /\ pc = "region_got"
  /\ LET info == BarInfo(probe)
         s == caps[stage]
         last == NextStage = "none" \/ (NextStage = "device" /\ caps.device = None)
     IN  IF RegionUsable(info, s, stage)
         THEN /\ regions' = [n \in DOMAIN regions \union {stage} |->
                               IF n = stage THEN [paddr |-> info.address + s.offset, length |-> s.length]
                                            ELSE regions[n]]
              /\ stage' = NextStage
              /\ pc' = IF last THEN "ready"
                       ELSE IF caps[NextStage] = None THEN "failed"
                       ELSE IF NextStage = "notify" /\ caps.multiplier % 2 # 0 THEN "failed"
                       ELSE "region"
         ELSE pc' = "failed" /\ UNCHANGED <<regions, stage>>
  /\ UNCHANGED <<world, regs, allocVars, scanVars, probe, caps, access>>

----------------------------------------------------------------------------
(* The transport in use. *)

Touch(name, offset, size) == access' = [name |-> name, lo |-> regions[name].paddr + offset, size |-> size]

Using == UNCHANGED <<world, regs, allocVars, scanVars, probe, newVars>>

\* CommonCfg: offset and size of its fields.
CommonCfg == [device_feature_select |-> <<0, 4>>, device_feature |-> <<4, 4>>,
              driver_feature_select |-> <<8, 4>>, driver_feature |-> <<12, 4>>,
              device_status |-> <<20, 1>>, config_generation |-> <<21, 1>>,
              queue_select |-> <<22, 2>>, queue_size |-> <<24, 2>>, queue_enable |-> <<28, 2>>,
              queue_notify_off |-> <<30, 2>>, queue_desc |-> <<32, 8>>,
              queue_driver |-> <<40, 8>>, queue_device |-> <<48, 8>>]

\* The fields each operation of the transport reads or writes, in order: the feature words
\* and the registers of a queue are reached through a selector.
Operations ==
  {<<"device_feature_select", "device_feature", "device_feature_select", "device_feature">>,
   <<"driver_feature_select", "driver_feature", "driver_feature_select", "driver_feature">>,
   <<"queue_select", "queue_size">>,
   <<"device_status">>,
   <<"queue_select", "queue_size", "queue_desc", "queue_driver", "queue_device", "queue_enable">>,
   <<"queue_select", "queue_enable">>,
   <<"queue_select", "queue_notify_off">>,
   <<"config_generation">>}

\* One access of one of those operations; HypIoRegion asserts that it is in the region.
CommonAccess(field) ==
  /\ pc = "ready"
  /\ Touch("common", CommonCfg[field][1], CommonCfg[field][2])
  /\ UNCHANGED pc /\ Using

\* notify: the queue's doorbell, a word of the region; beyond its end the unwrap panics.
PciNotify(offset) ==
  IF offset \div 2 < regions["notify"].length \div 2
  THEN Touch("notify", 2 * (offset \div 2), 2) /\ UNCHANGED pc
  ELSE pc' = "failed" /\ UNCHANGED access

\* The same through HypIoRegion::write, which asserts that the bytes are in the region.
HypNotify(offset) ==
  IF offset + 2 <= regions["notify"].length
  THEN Touch("notify", offset, 2) /\ UNCHANGED pc
  ELSE pc' = "failed" /\ UNCHANGED access

Notify(off) ==
  /\ pc = "ready"
  /\ IF world.kind = "Pci" THEN PciNotify(off * caps.multiplier) ELSE HypNotify(off * caps.multiplier)
  /\ Using

AckInterrupt ==
  /\ pc = "ready"
  /\ Touch("isr", 0, 1)
  /\ UNCHANGED pc /\ Using

\* Mutant: the offset of the field is compared with the length, not its end.
FieldFitsStart(a) == (regions["device"].length \div 4) * 4 >= a.offset

\* The length is that of a slice of words.
FieldFits(a) == (regions["device"].length \div 4) * 4 >= a.offset + a.size

\* The length is in bytes.
HypFieldFits(a) == regions["device"].length >= a.offset + a.size

\* read_config_space and write_config_space: ConfigSpaceMissing and ConfigSpaceTooSmall
\* touch nothing.
ConfigAccess(a) ==
  /\ pc = "ready"
  /\ IF "device" \in DOMAIN regions /\ (IF world.kind = "Pci" THEN FieldFits(a) ELSE HypFieldFits(a))
     THEN Touch("device", a.offset, a.size)
     ELSE UNCHANGED access
  /\ UNCHANGED pc /\ Using

\* The device has been used; the loop of enumerate_pci goes on.
NextDevice ==
  /\ pc = "ready"
  /\ pc' = "scan"
  /\ access' = None
  /\ Using

----------------------------------------------------------------------------
Init ==
  /\ world \in Worlds
  /\ regs = [df \in DOMAIN world.bus |->
               [command |-> world.bus[df].command,
                bars |-> [i \in BARS |-> Latch(world.bus[df].bars, i, world.bus[df].firmware[i + 1])]]]
  /\ given = [df \in DOMAIN world.bus |-> regs[df].bars]
  /\ pc = "scan"
  /\ next = [bus |-> 0, device |-> 0, function |-> 0]
  /\ found = << >>
  /\ probe = [index |-> 0]
  /\ infos = [i \in BARS |-> None]
  /\ start = world.start
  /\ caps = [at |-> None]
  /\ stage = "none"
  /\ regions = [s \in {} |-> None]
  /\ access = None

Next ==
  \/ EnumerateNext
  \/ BarsCall \/ BarsGot
  \/ BarInfoOnes \/ BarInfoMask \/ BarInfoTop \/ BarInfoRestore \/ BarInfoEnable
  \/ AssignBar \/ AssignTop \/ EnableDevice
  \/ CapabilityNext \/ RegionCall \/ RegionGot
  \/ AckInterrupt \/ NextDevice
  \/ \E field \in UNION {ToSet(op): op \in Operations}: CommonAccess(field)
  \/ \E off \in 0..1: Notify(off)
  \/ \E a \in Accesses: ConfigAccess(a)

Spec == Init /\ [][Next]_vars

----------------------------------------------------------------------------
(* Properties. *)

Decoding(df) == regs[df].command \cap {IO, MEM} # {}
Sizing == {"ones", "mask", "top", "restore", "enable"}

\* The window a memory BAR of the device claims.
Window(df, i) ==
  LET bar == world.bus[df].bars[i]
      low == regs[df].bars[i]
      base == low - (low % 16) + (IF bar.kind = "mem64" THEN regs[df].bars[i + 1] * Word ELSE 0)
  IN  [lo |-> base, hi |-> base + bar.size]

MemoryBars(df) == {i \in BARS: world.bus[df].bars[i].kind \in {"mem32", "mem64", "mem1m"}}

\* Sizing a BAR is invisible to the rest of the machine: a device that decodes addresses
\* never has the sizing pattern in a BAR, and when bar_info is done every BAR holds again
\* what was assigned to it.  The one return that leaves the pattern in the BAR (a 64-bit
\* type in the last slot) leaves the decoders off.
SizingInvisible ==
  \A df \in DOMAIN world.bus:
    /\ Decoding(df) => regs[df].bars = given[df]
    /\ (pc \notin Sizing /\ regs[df].bars # given[df]) =>
         (pc = "failed" /\ ~Decoding(df) /\ world.bus[df].bars[5].kind = "mem64")

\* Enumeration misses no function and reports none twice.
ScanComplete ==
  pc = "done" =>
    /\ ToSet(found) = DOMAIN world.bus
    /\ IsInjective(found)

\* The BARs of the devices in use are where they were assigned: windows aligned to their
\* size, inside the range of the allocator, and none overlapping another.
WindowsDisjoint ==
  LET used == {df \in ToSet(found): MEM \in regs[df].command /\ VirtioDeviceType(world.bus[df]) # None
                                      /\ (df = Current => pc \in {"caps", "region", "ready", "done", "scan"})}
      windows == UNION {{<<df, i>>: i \in {j \in MemoryBars(df): world.bus[df].bars[j].size < Word}}: df \in used}
  IN  \A a, b \in windows:
        LET x == Window(a[1], a[2])
            y == Window(b[1], b[2])
        IN  /\ x.lo % (x.hi - x.lo) = 0
            /\ world.start <= x.lo /\ x.hi <= world.end
            /\ a # b => (x.hi <= y.lo \/ y.hi <= x.lo)

\* The structure the device means by a name: the first capability of its type.
TypeOf(name) == CASE name = "common" -> 1 [] name = "notify" -> 2 [] name = "isr" -> 3 [] name = "device" -> 4

Meant(name) ==
  LET list == world.bus[Current].caps
      at == CHOOSE o \in DOMAIN list: /\ list[o].type = TypeOf(name)
                                     /\ \A p \in DOMAIN list: list[p].type = TypeOf(name) => o <= p
  IN  list[at]

\* Every register the transport touches is one of the structure it is meant for, in a BAR
\* the device decodes: the bytes lie within the capability's range and within the window
\* of its BAR.
AccessesDecoded ==
  access # None =>
    LET cap == Meant(access.name)
        window == Window(Current, cap.bar)
    IN  /\ MEM \in regs[Current].command
        /\ window.lo + cap.offset <= access.lo
        /\ access.lo + access.size <= window.lo + cap.offset + cap.length
        /\ access.lo + access.size <= window.hi
=============================================================================
