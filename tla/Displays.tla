------------------------------ MODULE Displays ------------------------------
(***************************************************************************)
(* What the driver learns about the host's displays at start-up and tells  *)
(* the operating system: it asks the host for each scanout's EDID, decodes *)
(* the timings into a list of modes, reports one child device for each     *)
(* scanout and hands out the EDID piece by piece.                          *)
(*                                                                         *)
(* A world says what the monitors mean; the EDID holds it in VESA's        *)
(* encoding, which the driver has to undo.                                 *)
(***************************************************************************)
EXTENDS Integers, Sequences, SequencesExt

CONSTANTS
  Worlds,   \* [vga, answered, scanouts]: scanouts is a sequence of
            \* [detailed, standard, size, rect, enabled], None where GET_EDID is refused
  Rooms,    \* sizes of the buffers the operating system reads an EDID with
  None

VARIABLES
  world,
  phase,      \* "starting" up to GET_DISPLAY_INFO, then "probing"; "started" or "failed"
  outputs,    \* state.outputs of the scanouts set up so far
  children,   \* the child descriptors filled in
  connected,  \* the children reported connected
  offset,     \* scanout -> bytes of its EDID the operating system has read
  complete    \* scanouts answered with MONITOR_NO_MORE_DESCRIPTOR_DATA

osvars == <<children, connected, offset, complete>>
vars == <<world, phase, outputs, osvars>>

NumScanouts == Len(world.scanouts)
Lower(a, b) == IF a < b THEN a ELSE b

----------------------------------------------------------------------------
(* The encoding, as the monitor writes it: eight bytes of the first        *)
(* detailed timing, two of each standard timing.                           *)

Ratios == <<<<16, 10>>, <<4, 3>>, <<5, 4>>, <<16, 9>>>>

EncodeDetailed(t) ==
  << t.clock % 256, t.clock \div 256, t.h % 256, t.hBlank % 256,
     (t.h \div 256) * 16 + (t.hBlank \div 256), t.v % 256, t.vBlank % 256,
     (t.v \div 256) * 16 + (t.vBlank \div 256) >>

\* A standard timing is a width and a ratio; the low six bits are the refresh rate.
EncodeStandard(t) ==
  IF t = None THEN <<1, 1>> ELSE <<(t.h \div 8) - 31, (t.ratio - 1) * 64 + t.refresh>>

\* The size the host reports may be short of the base block.
HostEdid(scanout) ==
  [size |-> scanout.size, detailed |-> EncodeDetailed(scanout.detailed),
   standard |-> [i \in DOMAIN scanout.standard |-> EncodeStandard(scanout.standard[i])]]

----------------------------------------------------------------------------
(* edid.rs: byte i of the code's slice is element i + 1. *)

\* AspectRatio::from_bits and v_pixels.
FromBits(bits) == Ratios[bits + 1]
VPixels(ratio, h) == (h * ratio[2]) \div ratio[1]

\* StandardTiming::parse.
ParseStandard(bytes) ==
  LET h == (bytes[1] + 31) * 8
  IN  IF bytes = <<1, 1>> THEN None
      ELSE [width |-> h, height |-> VPixels(FromBits((bytes[2] \div 64) % 4), h)]

\* Mutant: the upper bits are taken from the low nibble.
UpperLow(byte) == (byte % 16) * 256

\* (byte & 0xF0) << 4.
Upper(byte) == (byte \div 16) * 256

\* (byte & 0x0F) << 8.
UpperBlank(byte) == (byte % 16) * 256

\* DetailedTiming::parse: the bits or'ed together are disjoint.
ParseDetailed(bytes) ==
  LET clock == bytes[1] + 256 * bytes[2]
      h == bytes[3] + Upper(bytes[5])
      v == bytes[6] + Upper(bytes[8])
  IN  IF clock = 0 \/ h = 0 \/ v = 0 THEN None
      ELSE [h |-> h, hBlank |-> bytes[4] + UpperBlank(bytes[5]),
            v |-> v, vBlank |-> bytes[7] + UpperBlank(bytes[8]), clock |-> clock]

HasBaseBlock(edid) == edid.size >= 128

PreferredTiming(edid) == IF HasBaseBlock(edid) THEN ParseDetailed(edid.detailed) ELSE None

\* None stands for the IoError.
PreferredResolution(edid) ==
  LET t == PreferredTiming(edid)
  IN  IF t = None THEN None ELSE [width |-> t.h, height |-> t.v]

Area(mode) == mode.width * mode.height

\* Mutant: smallest first.
LargerReversed(a, b) == Area(a) < Area(b)

Larger(a, b) == Area(a) > Area(b)

\* A stable insertion into a list sorted by Larger.
InsertMode(list, mode) ==
  LET before == SelectSeq(list, LAMBDA m: ~Larger(mode, m))
  IN  before \o <<mode>> \o SelectSeq(list, LAMBDA m: Larger(mode, m))

StandardTimings(edid) ==
  IF ~HasBaseBlock(edid) THEN <<>>
  ELSE FoldLeft(InsertMode, <<>>,
         SelectSeq([i \in DOMAIN edid.standard |-> ParseStandard(edid.standard[i])],
                   LAMBDA m: m # None))

----------------------------------------------------------------------------
(* Start-up. *)

\* Mutant: the mode is added to the list of its standard timings unfiltered.
ModesRepeated(preferred, edid) == <<preferred>> \o StandardTimings(edid)

Modes(preferred, edid) ==
  <<preferred>> \o SelectSeq(StandardTimings(edid), LAMBDA m: m # preferred)

\* VidPnOutput::new: a display the host shows too small falls back to the EDID's mode.
NewOutput(info, edid) ==
  LET preferred == IF info.rect.width < 640 \/ info.rect.height < 480
                   THEN PreferredResolution(edid) ELSE info.rect
  IN  [modes |-> Modes(preferred, edid), edid |-> edid,
       current |-> IF info.enabled THEN 1 ELSE None]

\* The state of the adapter is there from now on, also when the start fails later.
GetDisplayInfo ==
  /\ phase = "starting"
  /\ phase' = IF world.answered THEN "probing" ELSE "failed"
  /\ UNCHANGED <<world, outputs, osvars>>

\* One turn of the loop over scanouts: get_edid fails or the EDID has no preferred
\* timing and the start fails with the outputs so far, or one more output is set up.
SetUpOutput ==
  /\ phase = "probing" /\ Len(outputs) < NumScanouts
  /\ LET info == world.scanouts[Len(outputs) + 1]
     IN  IF info # None /\ PreferredResolution(HostEdid(info)) # None
         THEN /\ outputs' = Append(outputs, NewOutput(info, HostEdid(info)))
              /\ phase' = phase
         ELSE phase' = "failed" /\ UNCHANGED outputs
  /\ UNCHANGED <<world, osvars>>

\* The empty cursor, the flip timer and, on a VGA, the ownership of the display may each
\* fail; otherwise the number of scanouts is returned as the number of children.
FinishStart ==
  /\ phase = "probing" /\ Len(outputs) = NumScanouts
  /\ phase' \in {"started", "failed"}
  /\ UNCHANGED <<world, outputs, osvars>>

----------------------------------------------------------------------------
(* What the operating system asks, of an adapter that was started (check_state! holds). *)
(* Child i of the code is scanout i + 1.                                                *)

\* Mutant: the terminating descriptor is filled in as well.
ChildCountAll(size) == size

\* Room for the children and a terminating descriptor of zeros.
ChildCount(size) == size - 1

\* A VGA's outputs are part of the machine, others may be plugged.
ChildDescriptor(i) ==
  [uid |-> i, awareness |-> IF world.vga THEN "AlwaysConnected" ELSE "Interruptible",
   technology |-> IF world.vga THEN "INTERNAL" ELSE "OTHER"]

\* The buffer has room for the children announced and the terminator.
QueryChildRelations ==
  /\ phase = "started"
  /\ children' = [i \in 1..ChildCount(NumScanouts + 1) |-> ChildDescriptor(i)]
  /\ UNCHANGED <<world, phase, outputs, connected, offset, complete>>

\* Asked for the connection, the answer is whether there is a queue handler; any other
\* question succeeds with nothing filled in.  A child out of range fails the assertion.
QueryChildStatus(uid, type) ==
  /\ phase = "started" /\ uid <= NumScanouts
  /\ connected' = IF type = "connection" THEN connected \union {uid} ELSE connected
  /\ UNCHANGED <<world, phase, outputs, children, offset, complete>>

\* Mutant: the whole reported size, whatever there is room for.
EdidLengthAll(edid) == edid.size

\* Adapter::get_edid: no more than the first extension is passed on.
EdidLength(edid) == Lower(256, edid.size)

\* Mutant: the end is noticed only past it.
AtEndLate(from, len) == from > len

AtEnd(from, len) == from >= len

\* The operating system reads on from where it is.  A child out of range is an invalid
\* parameter and a missing output has no descriptor: neither answer changes anything.
QueryDeviceDescriptor(uid, room) ==
  /\ phase = "started"
  /\ IF uid > NumScanouts \/ uid > Len(outputs) THEN UNCHANGED <<offset, complete>>
     ELSE LET len == EdidLength(outputs[uid].edid)
          IN  IF AtEnd(offset[uid], len)
              THEN complete' = complete \union {uid} /\ UNCHANGED offset
              ELSE /\ offset' = [offset EXCEPT ![uid] = @ + Lower(room, len - offset[uid])]
                   /\ UNCHANGED complete
  /\ UNCHANGED <<world, phase, outputs, children, connected>>

----------------------------------------------------------------------------
Init ==
  /\ world \in Worlds /\ phase = "starting" /\ outputs = <<>>
  /\ children = <<>> /\ connected = {}
  /\ offset = [i \in 1..NumScanouts |-> 0] /\ complete = {}

Next ==
  \/ GetDisplayInfo \/ SetUpOutput \/ FinishStart \/ QueryChildRelations
  \/ \E uid \in 1..NumScanouts, type \in {"connection", "rotation"}: QueryChildStatus(uid, type)
  \/ \E uid \in 1..(NumScanouts + 1), room \in Rooms: QueryDeviceDescriptor(uid, room)

\* The operating system asks what it has not been told.
Spec == Init /\ [][Next]_vars /\ WF_vars(Next)

----------------------------------------------------------------------------
Meant(t) == [width |-> t.h, height |-> (t.h * Ratios[t.ratio][2]) \div Ratios[t.ratio][1]]

\* The modes of an output are the ones its monitor means: the preferred mode first,
\* from the host's window or else the detailed timing, then the standard timings,
\* largest first, none of them the preferred one again.  The detailed timing comes
\* out of its encoding as it went in.
ModesMeant ==
  \A i \in DOMAIN outputs:
    LET info == world.scanouts[i]
        modes == outputs[i].modes
        preferred == IF info.rect.width >= 640 /\ info.rect.height >= 480 THEN info.rect
                     ELSE [width |-> info.detailed.h, height |-> info.detailed.v]
    IN  /\ modes[1] = preferred /\ preferred \notin ToSet(Tail(modes))
        /\ PreferredTiming(outputs[i].edid) = info.detailed
        /\ ToSet(Tail(modes)) = {Meant(info.standard[j]):
             j \in {k \in DOMAIN info.standard: info.standard[k] # None}} \ {preferred}
        /\ \A j, k \in 2..Len(modes): j < k => Area(modes[j]) >= Area(modes[k])

\* Every scanout is a child and is connected, and every EDID is read to the end of its base block and
\* first extension and not beyond, unless the start failed.
AllReported ==
  phase # "failed" =>
    /\ [i \in DOMAIN children |-> children[i].uid] = [i \in 1..NumScanouts |-> i]
    /\ connected = 1..NumScanouts
    /\ complete = 1..NumScanouts
    /\ \A i \in 1..NumScanouts: offset[i] = Lower(256, world.scanouts[i].size)
=============================================================================
