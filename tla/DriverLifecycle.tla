--------------------------- MODULE DriverLifecycle ---------------------------
(***************************************************************************)
(* From Transport to driver and back: the constructors of the virtio       *)
(* drivers, what they leave behind when one of their steps fails, and their*)
(* destruction, over the four transports.                                  *)
(*                                                                         *)
(* A device works on the queues it was given once the driver has set       *)
(* DRIVER_OK, until it has carried out a reset or let a queue go.  It may  *)
(* change its configuration at any time.  A write of the status register is*)
(* carried out at once over MMIO; over PCI the device takes its time with a*)
(* reset, and a modern MMIO device with letting a queue go: there the code *)
(* waits.                                                                  *)
(*                                                                         *)
(* A constructor is the sequence of its steps, a destruction the sequence  *)
(* of what Rust drops: on an error the locals in reverse order and the     *)
(* transport, which is a parameter, last; of a driver its Drop and then the*)
(* fields in the order of their declaration.                               *)
(***************************************************************************)
EXTENDS Naturals, Sequences, SequencesExt, FiniteSets

CONSTANTS
    Drivers,        \* drivers that are made
    Transports,     \* transports they are made on
    MaxChanges      \* changes of the device's configuration

VARIABLES
    driver, transport,
    todo,       \* steps left
    made,       \* locals of the constructor, in the order of their declaration
    phase,      \* "new", "up", "drop" or "gone"
    live,       \* DMA memory allocated: <<"ring", q>>, <<"buf", q>>
    posted,     \* queues with buffers of the driver in them
    status,     \* device: "off", "init", "ok", or "resetting"
    enabled,    \* device: queues it has been given
    letting,    \* device: queues it is about to let go
    config,     \* device: generation and the two halves of a value
    reading,    \* read_consistent: generation and halves read so far
    got,        \* what the constructor took the value for
    ever        \* history: values the configuration has had

mem == <<live, posted>>
dev == <<status, enabled, letting, config, ever>>
vars == <<driver, transport, todo, made, phase, mem, dev, reading, got>>

-----------------------------------------------------------------------------
(*************************** steps of constructors *************************)

BeginInit == [op |-> "begin_init", q |-> 0]
ReadConfig == [op |-> "read_config", q |-> 0]
ReadConsistent == [op |-> "read_consistent", q |-> 0]
NewQueue(q) == [op |-> "queue", q |-> q]
Owning(q) == [op |-> "owning", q |-> q]     \* an OwningQueue around queue q
Post(q) == [op |-> "post", q |-> q]         \* buffers of the driver into queue q
FinishInit == [op |-> "finish_init", q |-> 0]
Build == [op |-> "build", q |-> 0]          \* the struct owns everything from here

BlkNew == <<BeginInit, ReadConsistent, NewQueue(0), FinishInit>>
ConsoleNew == <<BeginInit, NewQueue(0), NewQueue(1), FinishInit, Build, Post(0)>>
InputNew == <<BeginInit, NewQueue(0), NewQueue(1), Post(0), FinishInit>>
NetRawNew == <<BeginInit, ReadConsistent, ReadConfig, NewQueue(1), NewQueue(0), FinishInit, Build>>
NetNew == NetRawNew \o <<Post(0)>>
RngNew == <<BeginInit, NewQueue(0), FinishInit>>
RtcNew == <<BeginInit, NewQueue(0), FinishInit>>
\* read_mount_tag reads a length and then as many bytes.
P9New == <<BeginInit, NewQueue(0), FinishInit, ReadConsistent>>
SocketNew == <<BeginInit, ReadConsistent, NewQueue(0), NewQueue(1), NewQueue(2), Owning(0), FinishInit>>
SoundNew == <<BeginInit, NewQueue(0), NewQueue(1), Owning(1), NewQueue(2), NewQueue(3), ReadConfig, FinishInit>>
GpuNew == <<BeginInit, ReadConfig, NewQueue(0), NewQueue(1), FinishInit>>

New(d) ==
    CASE d = "blk" -> BlkNew [] d = "console" -> ConsoleNew [] d = "input" -> InputNew
      [] d = "net" -> NetNew [] d = "rng" -> RngNew [] d = "rtc" -> RtcNew [] d = "9p" -> P9New
      [] d = "socket" -> SocketNew [] d = "sound" -> SoundNew [] d = "gpu" -> GpuNew

\* Destructions: queue_unset, the transport, a ring, buffers, one after the other.
Unset(q) == [op |-> "queue_unset", q |-> q]
DropTransport == [op |-> "transport", q |-> 0]
DropRing(q) == [op |-> "ring", q |-> q]
DropBuf(q) == [op |-> "buf", q |-> q]

BlkDrop == <<Unset(0), DropTransport, DropRing(0)>>
ConsoleDrop == <<Unset(0), Unset(1), DropTransport, DropRing(0), DropRing(1), DropBuf(0)>>
InputDrop == <<Unset(0), Unset(1), DropTransport, DropRing(0), DropRing(1), DropBuf(0)>>
NetDrop == <<Unset(0), Unset(1), DropTransport, DropRing(0), DropRing(1), DropBuf(0)>>
RngDrop == <<Unset(0), DropTransport, DropRing(0)>>
RtcDrop == <<Unset(0), DropTransport, DropRing(0)>>
P9Drop == <<DropTransport, DropRing(0)>>
\* An OwningQueue frees its buffers and then its ring.
OwningDrop(q) == <<DropBuf(q), DropRing(q)>>
SocketDrop == <<Unset(0), Unset(1), Unset(2), DropTransport>> \o OwningDrop(0) \o <<DropRing(1), DropRing(2)>>
SoundDrop == <<DropTransport, DropRing(0)>> \o OwningDrop(1) \o <<DropRing(2), DropRing(3)>>
GpuDrop == <<Unset(0), Unset(1), DropTransport, DropRing(0), DropRing(1)>>

Destruct(d) ==
    CASE d = "blk" -> BlkDrop [] d = "console" -> ConsoleDrop [] d = "input" -> InputDrop
      [] d = "net" -> NetDrop [] d = "rng" -> RngDrop [] d = "rtc" -> RtcDrop [] d = "9p" -> P9Drop
      [] d = "socket" -> SocketDrop [] d = "sound" -> SoundDrop [] d = "gpu" -> GpuDrop

\* What is dropped when a constructor fails.  VirtIONet's receive buffers are
\* declared after the VirtIONetRaw that has been built.
Unwind ==
    IF Build \in ToSet(made)
    THEN (IF driver = "net" THEN <<DropBuf(0)>> ELSE <<>>) \o Destruct(driver)
    ELSE FlattenSeq([i \in 1 .. Len(made) |->
             LET s == made[Len(made) + 1 - i]
             IN  CASE s.op = "queue" -> <<DropRing(s.q)>> [] s.op = "owning" -> OwningDrop(s.q)
                   [] s.op = "post" -> <<>>]) \o <<DropTransport>>

-----------------------------------------------------------------------------
(******************************** transports *******************************)

Working == status \in {"ok", "resetting"}

QueueSet(q) == enabled' = enabled \union {q}
QueueUsed(q) == q \in enabled

\* MMIO: a legacy device loses the queue's address at once, a modern one is asked
\* to let it go; PCI has no such operation.
MmioQueueUnset(t, q) ==
    IF t = "legacy" THEN enabled' = enabled \ {q} /\ UNCHANGED letting
    ELSE letting' = (IF q \in enabled THEN letting \union {q} ELSE letting) /\ UNCHANGED enabled
PciQueueUnset(t, q) == UNCHANGED <<enabled, letting>>
HypPciQueueUnset(t, q) == UNCHANGED <<enabled, letting>>

QueueUnset(t, q) ==
    CASE t \in {"legacy", "modern"} -> MmioQueueUnset(t, q) [] t = "pci" -> PciQueueUnset(t, q)
      [] t = "hyp_pci" -> HypPciQueueUnset(t, q)

MmioDrop == status' = "off" /\ enabled' = {} /\ letting' = {}

\* Mutant: the reset is not waited for.
PciResetDoneAlways == TRUE

\* The status register is written, and read until it is empty.
PciResetDone == status # "resetting"
PciDrop == status' = (IF status = "ok" THEN "resetting" ELSE "off") /\ UNCHANGED <<enabled, letting>>

\* HypPciTransport is dropped without a reset.
HypPciDrop == UNCHANGED <<status, enabled, letting>>

TransportDrop(t) ==
    CASE t \in {"legacy", "modern"} -> MmioDrop [] t = "pci" -> PciDrop [] t = "hyp_pci" -> HypPciDrop

-----------------------------------------------------------------------------
(***************************** the constructor *****************************)

NoRead == [gen |-> 0, lo |-> 0, hi |-> 0, at |-> "start"]

\* `made` holds locals that have to be dropped, an OwningQueue in place of its queue.
Declared(s) ==
    CASE s.op \in {"queue", "build", "post"} -> Append(made, s)
      [] s.op = "owning" -> Append(SelectSeq(made, LAMBDA x : x.q # s.q \/ x.op # "queue"), s)
      [] OTHER -> made

Done(s) ==
    /\ made' = Declared(s) /\ todo' = Tail(todo)
    /\ phase' = IF Len(todo) = 1 THEN "up" ELSE phase
    /\ UNCHANGED <<driver, transport>>
Fail ==
    /\ phase' = "drop" /\ todo' = Unwind
    /\ UNCHANGED <<driver, transport, made, mem, dev, reading, got>>

Doing(op) == phase = "new" /\ Head(todo).op = op

\* begin_init resets the device and negotiates.
Begin ==
    /\ Doing("begin_init") /\ Done(BeginInit)
    /\ status' = "init" /\ enabled' = {} /\ letting' = {}
    /\ UNCHANGED <<mem, config, ever, reading, got>>

\* A single field; there may be no configuration space, or too small a one.
ReadField ==
    \/ Doing("read_config") /\ Done(ReadConfig) /\ UNCHANGED <<mem, dev, reading, got>>
    \/ Doing("read_config") /\ Fail

\* read_consistent: the generation, what is to be read, and the generation again.
ReadStart ==
    /\ Doing("read_consistent") /\ reading.at = "start"
    /\ reading' = [reading EXCEPT !.gen = config.gen, !.at = "lo"]
    /\ UNCHANGED <<driver, transport, todo, made, phase, mem, dev, got>>
ReadLow ==
    /\ Doing("read_consistent") /\ reading.at = "lo"
    /\ reading' = [reading EXCEPT !.lo = config.lo, !.at = "hi"]
    /\ UNCHANGED <<driver, transport, todo, made, phase, mem, dev, got>>
ReadHigh ==
    /\ Doing("read_consistent") /\ reading.at = "hi"
    /\ reading' = [reading EXCEPT !.hi = config.hi, !.at = "check"]
    /\ UNCHANGED <<driver, transport, todo, made, phase, mem, dev, got>>

\* Mutant: what was read is taken as it is.
ConsistentAlways == TRUE

Consistent == reading.gen = config.gen

ReadCheck ==
    /\ Doing("read_consistent") /\ reading.at = "check"
    /\ \/ /\ Consistent /\ got' = <<reading.lo, reading.hi>> /\ Done(ReadConsistent) /\ UNCHANGED <<mem, dev>>
       \/ /\ ~Consistent /\ UNCHANGED <<driver, transport, todo, made, phase, mem, dev, got>>
    /\ reading' = NoRead
ReadFails == Doing("read_consistent") /\ reading.at = "check" /\ Consistent /\ Fail

\* VirtQueue::new: a queue in use, a device whose queue is too short and memory
\* that cannot be had are errors before the device hears of the queue.
MakeQueue ==
    LET q == Head(todo).q
    IN  \/ /\ Doing("queue") /\ ~QueueUsed(q) /\ Done(NewQueue(q))
           /\ live' = live \union {<<"ring", q>>} /\ QueueSet(q)
           /\ UNCHANGED <<posted, status, letting, config, ever, reading, got>>
        \/ /\ Doing("queue") /\ Fail

\* Buffers are put into the queue; an empty queue takes them all.
PostBuffers ==
    LET s == Head(todo)
    IN  /\ Doing("post") \/ Doing("owning")
        /\ Done(s) /\ live' = live \union {<<"buf", s.q>>} /\ posted' = posted \union {s.q}
        /\ UNCHANGED <<dev, reading, got>>

\* receive_begin refuses a buffer that is too short, the first one.
PostFails == Doing("post") /\ driver = "net" /\ Fail

Finish ==
    /\ Doing("finish_init") /\ Done(FinishInit) /\ status' = "ok"
    /\ UNCHANGED <<mem, enabled, letting, config, ever, reading, got>>

Built == Doing("build") /\ Done(Build) /\ UNCHANGED <<mem, dev, reading, got>>

-----------------------------------------------------------------------------
(***************************** the destruction *****************************)

DropDriver ==
    /\ phase = "up" /\ phase' = "drop" /\ todo' = Destruct(driver)
    /\ UNCHANGED <<driver, transport, made, mem, dev, reading, got>>

Dropping(op) == phase = "drop" /\ todo # <<>> /\ Head(todo).op = op
Dropped ==
    /\ todo' = Tail(todo) /\ phase' = IF Len(todo) = 1 THEN "gone" ELSE phase
    /\ UNCHANGED <<driver, transport, made, reading, got>>

\* A modern queue_unset returns once the device has let the queue go.
DropUnset ==
    LET q == Head(todo).q
    IN  /\ Dropping("queue_unset")
        /\ \/ q \notin letting /\ (q \in enabled => transport # "modern")
              /\ QueueUnset(transport, q) /\ Dropped
           \/ q \in enabled \ letting /\ transport = "modern" /\ QueueUnset(transport, q)
              /\ UNCHANGED <<driver, transport, todo, made, phase, reading, got>>
        /\ UNCHANGED <<mem, status, config, ever>>

DropTheTransport ==
    /\ Dropping("transport")
    /\ \/ transport # "pci" /\ TransportDrop(transport) /\ Dropped
       \/ transport = "pci" /\ status \in {"init", "ok"} /\ TransportDrop(transport)
          /\ UNCHANGED <<driver, transport, todo, made, phase, reading, got>>
       \/ transport = "pci" /\ status \in {"off", "resetting"} /\ PciResetDone /\ Dropped
          /\ UNCHANGED <<status, enabled, letting>>
    /\ UNCHANGED <<mem, config, ever>>

DropMemory ==
    LET s == Head(todo)
    IN  /\ Dropping("ring") \/ Dropping("buf")
        /\ live' = live \ {<<s.op, s.q>>} /\ Dropped
        /\ UNCHANGED <<posted, dev>>

-----------------------------------------------------------------------------
(******************************** the device *******************************)

DeviceResets ==
    /\ status = "resetting" /\ status' = "off" /\ enabled' = {} /\ letting' = {}
    /\ UNCHANGED <<driver, transport, todo, made, phase, mem, config, ever, reading, got>>

DeviceLetsGo ==
    /\ letting # {} /\ enabled' = enabled \ letting /\ letting' = {}
    /\ UNCHANGED <<driver, transport, todo, made, phase, mem, status, config, ever, reading, got>>

\* The two halves change together, and the generation with them.
DeviceReconfigures ==
    /\ config.gen < MaxChanges
    /\ config' = [gen |-> config.gen + 1, lo |-> config.lo + 1, hi |-> config.hi + 1]
    /\ ever' = ever \union {<<config'.lo, config'.hi>>}
    /\ UNCHANGED <<driver, transport, todo, made, phase, mem, status, enabled, letting, reading, got>>

Init ==
    /\ driver \in Drivers /\ transport \in Transports
    /\ todo = New(driver) /\ made = <<>> /\ phase = "new"
    /\ live = {} /\ posted = {}
    /\ status = "off" /\ enabled = {} /\ letting = {}
    /\ config = [gen |-> 0, lo |-> 0, hi |-> 0] /\ ever = {<<0, 0>>}
    /\ reading = NoRead /\ got = <<0, 0>>

Next ==
    \/ Begin \/ ReadField \/ ReadStart \/ ReadLow \/ ReadHigh \/ ReadCheck \/ ReadFails
    \/ MakeQueue \/ PostBuffers \/ PostFails \/ Finish \/ Built
    \/ DropDriver \/ DropUnset \/ DropTheTransport \/ DropMemory
    \/ DeviceResets \/ DeviceLetsGo \/ DeviceReconfigures

Spec == Init /\ [][Next]_vars

-----------------------------------------------------------------------------
(******************************** properties *******************************)

DeviceMayTouch ==
    IF Working THEN {<<"ring", q>> : q \in enabled} \union {<<"buf", q>> : q \in enabled \cap posted} ELSE {}

\* Memory is freed only once the device does not work on it any more: after
\* queue_unset or the reset, whichever the transport has, also when a constructor
\* fails half-way (the Drop implementations of the drivers and transports).  The
\* exceptions are VirtIO9p::new, which reads the mount tag when the device is live,
\* and HypPciTransport, which has neither.
NoDmaAfterFree ==
    \/ driver = "9p" /\ phase = "drop"
    \/ transport = "hyp_pci" /\ phase \in {"drop", "gone"}
    \/ DeviceMayTouch \subseteq live

\* A value read in two halves is one the device had, however often it changed
\* meanwhile (Transport::read_consistent).
ConfigNotTorn == got \in ever
=============================================================================
