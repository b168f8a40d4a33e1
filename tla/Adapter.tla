------------------------------- MODULE Adapter -------------------------------
(***************************************************************************)
(* The life of an adapter: DxgkDdiAddDevice, StartDevice with every point  *)
(* at which it can give up, StopDevice (with or without the release of the *)
(* boot display) and RemoveDevice, against what runs beside them once      *)
(* StartDevice has created it: the handler thread, the flip timer, the     *)
(* interrupt routine and its DPC.                                          *)
(*                                                                         *)
(* The subject is ownership.  StartDevice maps the device's BARs into a    *)
(* static table, resets the device and hands it rings in DMA memory, starts*)
(* a thread and a timer; what an early return leaves behind is decided by  *)
(* the order in which Rust drops the locals and fields involved, and that  *)
(* order is what the actions below spell out.                              *)
(***************************************************************************)
EXTENDS Naturals, FiniteSets

CONSTANTS
    SmallBars,      \* memory BARs of at most 32768 bytes: StartDevice maps these
    RegisterBar,    \* the one of them that holds the virtio registers
    MaxIrqs,        \* bound: interrupts the device raises in one start
    MaxStarts       \* bound: calls of StartDevice

AdapterAssumption ==
    /\ RegisterBar \in SmallBars /\ IsFiniteSet(SmallBars)
    /\ MaxIrqs \in Nat /\ MaxStarts \in Nat

VARIABLES
    phase,          \* what dxgkrnl is doing with the adapter
    at,             \* the next step of the call in progress
    faults,         \* history: the steps at which StartDevice returned an error
    init,           \* InitOption<AdapterState>::init
    todo,           \* BARs the mapping loop has still to look at
    mapped,         \* MAPPED_BARS[i].valid
    pci_bars,       \* the BARs the interface knows of, for its Drop
    transport,      \* the PciTransport exists
    status,         \* device status register: "reset", "driver" or "ok"
    rings,          \* queues whose addresses the device has been given
    dma,            \* queues whose ring memory is allocated
    poked,          \* the registers were written through an unmapped BAR
    starts

VARIABLES
    thread,         \* the handler thread: "none", "waiting", "working", "exited"
    events,         \* events signalled to it, of {"irq", "msg", "stop"}
    irqs,           \* interrupts raised since StartDevice
    dpc,            \* a DPC is queued
    timer,          \* the flip timer: "none", "idle" (allocated), "armed"
    callback,       \* its callback: "none", "entered", "flipping"
    flip_ctx,       \* Box<FlipTimerContext> is allocated
    flips,          \* flips waiting in the flip queues
    display         \* system_display_info is known

life == <<phase, at, faults, init, starts>>
hw == <<todo, mapped, pci_bars, transport, status, rings, dma, poked>>
worker == <<thread, events>>
isr == <<irqs, dpc>>
clock == <<timer, callback, flip_ctx, flips>>
vars == <<life, hw, worker, isr, clock, display>>

Queues == {"control", "cursor"}

Init ==
    /\ phase = "absent" /\ at = "none" /\ faults = {} /\ init = FALSE
    /\ starts = 0
    /\ todo = {} /\ mapped = {} /\ pci_bars = {} /\ transport = FALSE /\ status = "reset"
    /\ rings = {} /\ dma = {} /\ poked = FALSE
    /\ thread = "none" /\ events = {} /\ irqs = 0 /\ dpc = FALSE
    /\ timer = "none" /\ callback = "none" /\ flip_ctx = FALSE /\ flips = 0
    /\ display = FALSE

-----------------------------------------------------------------------------
(***************************** dropping things *****************************)

\* BarMapping::map and store_mapping; BarMapping::unmap of those that are valid.
Mapping(b) == mapped' = mapped \union {b}

Unmapping(bars) == mapped' = mapped \ bars

\* Drop for DxgkInterface: only BARs recorded in pci_bars are unmapped.
UnmapBars == Unmapping(pci_bars) /\ pci_bars' = {}

\* Drop for PciTransport: status := 0 and wait for it, through the BAR.  The
\* device forgets the queues it was given.
ResetDevice ==
    /\ transport' = FALSE
    /\ poked' = (poked \/ (transport /\ RegisterBar \notin mapped))
    /\ status' = IF transport THEN "reset" ELSE status
    /\ rings' = IF transport THEN {} ELSE rings

\* An error return from StartDevice before AdapterState exists: pci_transport
\* is dropped, then pci_root and the interface in it.
GiveUp(step) ==
    /\ ResetDevice /\ UnmapBars /\ dma' = {} /\ todo' = {}
    /\ phase' = "failed" /\ at' = "none" /\ faults' = faults \union {step}
    /\ UNCHANGED <<init, starts, worker, isr, clock, display>>

\* An error return once AdapterState exists: it stays, with all it owns.
ReturnError(step) ==
    /\ phase' = "failed" /\ at' = "none" /\ faults' = faults \union {step}
    /\ UNCHANGED <<init, starts, hw, display>>

\* The next step of the call in progress.
Goto(step) == at' = step /\ UNCHANGED <<phase, faults, init, starts>>

-----------------------------------------------------------------------------
(******************************* StartDevice *******************************)

\* DxgkDdiAddDevice.
AddDevice ==
    /\ phase = "absent" /\ starts < MaxStarts
    /\ phase' = "added"
    /\ UNCHANGED <<at, faults, init, starts, hw, worker, isr, clock, display>>

\* DxgkDdiStartDevice, first use or again after a stop.
StartDevice ==
    /\ phase = "added" /\ starts < MaxStarts
    /\ phase' = "starting" /\ at' = "bars" /\ starts' = starts + 1
    /\ UNCHANGED <<faults, init, hw, worker, isr, clock, display>>

\* The PCI location, the device information, the configuration header and the
\* BAR sizes are read; nothing is held yet when one of them fails.
ReadBars ==
    /\ at = "bars"
    /\ \/ Goto("map") /\ todo' = SmallBars
       \/ /\ phase' = "failed" /\ at' = "none" /\ faults' = faults \union {"bars"}
          /\ UNCHANGED <<init, starts, todo>>
    /\ UNCHANGED <<mapped, pci_bars, transport, status, rings, dma, poked>>
    /\ UNCHANGED <<worker, isr, clock, display>>

\* The loop over the small BARs: BarMapping::map of one of them.  On an error the
\* interface is dropped with pci_bars still empty.
MapBar(b) ==
    /\ at = "map" /\ b \in todo
    /\ \/ /\ Mapping(b) /\ todo' = todo \ {b}
          /\ Goto("map")
          /\ UNCHANGED <<pci_bars, transport, status, rings, dma, poked, worker,
                         isr, clock, display>>
       \/ GiveUp("map")

\* Mutant: the BARs are recorded only after the transport was probed.
RecordBarsLate ==
    /\ at = "map" /\ todo = {}
    /\ \/ /\ transport' = TRUE /\ status' = "reset"
          /\ Goto("negotiate")
          /\ UNCHANGED <<todo, mapped, pci_bars, rings, dma, poked, worker, isr, clock,
                         display>>
       \/ GiveUp("transport")

\* pci_bars is recorded, the interrupt resource found, and PciTransport::new
\* probes the device.
RecordBars ==
    /\ at = "map" /\ todo = {}
    /\ \/ /\ pci_bars' = SmallBars /\ transport' = TRUE /\ status' = "reset"
          /\ Goto("negotiate")
          /\ UNCHANGED <<todo, mapped, rings, dma, poked, worker, isr, clock, display>>
       \/ /\ phase' = "failed" /\ at' = "none"
          /\ faults' = faults \union {"transport"}
          /\ Unmapping(SmallBars)
          /\ UNCHANGED <<init, starts, todo, pci_bars, transport, status, rings,
                         dma, poked, worker, isr, clock, display>>

\* shmem must exist; begin_init; the configuration is read; finish_init.
Negotiate ==
    /\ at = "negotiate"
    /\ \/ /\ status' = "ok" /\ Goto("queue")
          /\ UNCHANGED <<todo, mapped, pci_bars, transport, rings, dma, poked, worker,
                         isr, clock, display>>
       \/ GiveUp("negotiate")

\* QueueHandler::new, Queue::new: VirtQueue::init for the two queues, in order,
\* each handing its ring memory to the device.  When the cursor queue cannot be
\* made, the control queue is dropped, and then the transport.
NewQueue ==
    /\ at = "queue"
    /\ LET q == IF "control" \in dma THEN "cursor" ELSE "control" IN
       \/ /\ dma' = dma \union {q} /\ rings' = rings \union {q}
          /\ Goto(IF q = "cursor" THEN "data" ELSE "queue")
          /\ UNCHANGED <<todo, mapped, pci_bars, transport, status, poked, worker, isr,
                         clock, display>>
       \/ /\ dma' = {} /\ Goto("unwind") /\ UNCHANGED <<todo, mapped, pci_bars, transport,
                 status, rings, poked, worker, isr, clock, display>>

\* ... and then what QueueHandler::new had been given: the transport first.
Unwind == at = "unwind" /\ GiveUp("queue")

\* The Thread box, then Arc<GpuData>, which takes the interface.  When the latter
\* cannot be allocated the interface goes first and the transport after it.
NewData ==
    /\ at = "data"
    /\ \/ /\ init' = TRUE /\ at' = "thread"
          /\ UNCHANGED <<phase, faults, starts, hw, worker, isr, clock, display>>
       \/ GiveUp("thread_box")
       \/ /\ UnmapBars /\ Goto("unwind_data")
          /\ UNCHANGED <<todo, transport, status, rings, dma, poked, worker, isr,
                         clock, display>>

UnwindData == at = "unwind_data" /\ GiveUp("data")

\* KeThread::spawn: the thread runs handler_thread_routine on the QueueHandler.
Spawn == thread' = "waiting"

\* start_handler_thread and Thread::start.
SpawnThread ==
    /\ at = "thread"
    /\ \/ Spawn /\ Goto("requests") /\ UNCHANGED hw /\ UNCHANGED display
       \/ ReturnError("thread") /\ UNCHANGED thread
    /\ UNCHANGED <<events, isr, clock>>

\* The blocking requests: capset information, display information, one EDID per
\* scanout, the empty cursor.
Requests ==
    /\ at = "requests"
    /\ \/ events' = events \union {"msg"} /\ Goto("timer") /\ UNCHANGED <<hw, display>>
       \/ ReturnError("requests") /\ UNCHANGED events
    /\ UNCHANGED <<thread, isr, clock>>

\* KeTimer::new_hires and start_periodic.
Arm == timer' = "armed"

\* FlipTimer::try_new and start, then its owner is set.
StartTimer ==
    /\ at = "timer"
    /\ \/ /\ Arm /\ flip_ctx' = TRUE /\ Goto("display")
          /\ UNCHANGED <<hw, display>>
       \/ ReturnError("timer") /\ UNCHANGED <<timer, flip_ctx>>
    /\ UNCHANGED <<worker, isr, callback, flips>>

\* A VGA adapter takes over the boot display.
AcquireDisplay ==
    /\ at = "display"
    /\ \/ \E vga \in BOOLEAN : display' = vga /\ phase' = "started" /\ at' = "none"
          /\ UNCHANGED <<faults, init, starts, hw>>
       \/ ReturnError("display")
    /\ UNCHANGED <<worker, isr, clock>>

-----------------------------------------------------------------------------
(********************* what runs beside the DXGK calls *********************)

\* interrupt_routine: handle_interrupt acknowledges and queues the DPC.  Without a
\* state the interrupt is not ours.
Interrupt ==
    /\ status = "ok" /\ irqs < MaxIrqs
    /\ irqs' = irqs + 1
    /\ dpc' = (dpc \/ init)
    /\ UNCHANGED <<life, hw, worker, clock, display>>

\* QueueHandler::handle_dpc: the irq events of the handler thread.
SetIrqEvents == events' = events \union {"irq"}

\* dpc_routine, Adapter::handle_dpc: nothing to wake once the state is gone.
Dpc ==
    /\ dpc /\ dpc' = FALSE
    /\ IF init THEN SetIrqEvents ELSE UNCHANGED events
    /\ UNCHANGED <<life, hw, thread, irqs, clock, display>>

\* select!: the lowest signalled event wins, and "stop" is the last of them.
HandlerWakes ==
    /\ thread = "waiting" /\ events # {}
    /\ IF events = {"stop"}
       THEN thread' = "exited" /\ events' = {}
       ELSE /\ thread' = "working"
            /\ \E e \in events \ {"stop"} : events' = events \ {e}
    /\ UNCHANGED <<life, hw, isr, clock, display>>

\* One pass over responses and requests, touching the queues and the registers.
HandlerWorks ==
    /\ thread = "working" /\ thread' = "waiting"
    /\ poked' = (poked \/ RegisterBar \notin mapped)
    /\ UNCHANGED <<life, todo, mapped, pci_bars, transport, status, rings, dma, events,
                   isr, clock, display>>

\* queue_scanout from a running system.
QueueFlip ==
    /\ phase = "started" /\ flips = 0 /\ flips' = 1
    /\ UNCHANGED <<life, hw, worker, isr, timer, callback, flip_ctx, display>>

\* The timer expires: timer_trampoline, then flip() reads its context, sends what
\* is queued and kicks the handler only if it sent something.
TimerFires ==
    /\ timer = "armed" /\ callback = "none"
    /\ callback' = "flipping"
    /\ UNCHANGED <<life, hw, worker, isr, timer, flip_ctx, flips, display>>

Flip ==
    /\ callback = "flipping" /\ callback' = "none"
    /\ events' = IF flips > 0 /\ thread \in {"waiting", "working"}
                 THEN events \union {"msg"} ELSE events
    /\ flips' = 0
    /\ UNCHANGED <<life, hw, thread, isr, timer, flip_ctx, display>>

-----------------------------------------------------------------------------
(************************* StopDevice, RemoveDevice *************************)

\* Adapter::stop, or stop_and_release when the boot display was taken over:
\* flip_timer.take() and its stop.
StopDevice ==
    /\ phase = "started"
    /\ phase' = "stopping" /\ at' = "cancel"
    /\ UNCHANGED <<faults, init, starts, hw, worker, isr, clock, display>>

\* drop(Box<Adapter>): the fields in order, state before flip_timer.
RemoveDevice ==
    /\ phase \in {"added", "failed"}
    /\ phase' = "removing"
    /\ at' = IF init THEN "stop_thread" ELSE "cancel"
    /\ UNCHANGED <<faults, init, starts, hw, worker, isr, clock, display>>

\* Cancelling comes back at once, the callback may be running.
CancelTimer ==
    /\ at = "cancel" /\ timer' = IF timer = "none" THEN "none" ELSE "idle"
    /\ Goto("delete")
    /\ UNCHANGED <<hw, worker, isr, callback, flip_ctx, flips, display>>

\* Mutant: ExDeleteTimer does not wait for the callback.
DeleteTimerNoWait ==
    /\ at = "delete"
    /\ timer' = "none" /\ flip_ctx' = FALSE
    /\ IF phase = "removing"
       THEN phase' = "absent" /\ at' = "none"
       ELSE phase' = phase /\ at' = IF init THEN "stop_thread" ELSE "cleared"
    /\ UNCHANGED <<faults, init, starts, hw, worker, isr, callback, flips, display>>

\* Drop for KeTimer: ExDeleteTimer with Wait; then Box<FlipTimerContext> goes.
DeleteTimer ==
    /\ at = "delete" /\ callback = "none"
    /\ timer' = "none" /\ flip_ctx' = FALSE
    /\ IF phase = "removing"
       THEN phase' = "absent" /\ at' = "none"
       ELSE phase' = phase /\ at' = IF init THEN "stop_thread" ELSE "cleared"
    /\ UNCHANGED <<faults, init, starts, hw, worker, isr, callback, flips, display>>

\* Mutant: the handler thread is kicked instead of told to stop.
StopThreadKick ==
    /\ at = "stop_thread"
    /\ init' = FALSE
    /\ events' = IF thread = "none" THEN events ELSE events \union {"msg"}
    /\ at' = "join"
    /\ UNCHANGED <<phase, faults, starts, hw, thread, isr, clock, display>>

\* InitOption::drop_if_init clears the flag and drops AdapterState; Drop for
\* QueueHandler begins: the stop event.
StopThread ==
    /\ at = "stop_thread"
    /\ init' = FALSE
    /\ events' = IF thread = "none" THEN events ELSE events \union {"stop"}
    /\ at' = "join"
    /\ UNCHANGED <<phase, faults, starts, hw, thread, isr, clock, display>>

\* join(INFINITE); queue_unset, which the PCI transport ignores.
JoinThread ==
    /\ at = "join" /\ thread \in {"none", "exited"}
    /\ thread' = "none" /\ events' = {}
    /\ Goto("drop_handler")
    /\ UNCHANGED <<hw, isr, clock, display>>

\* Mutant: the interface is dropped before the transport.
DropHandlerDataFirst ==
    /\ at = "drop_handler"
    /\ IF pci_bars # {}
       THEN UnmapBars /\ UNCHANGED <<todo, transport, status, rings, dma, poked, at>>
       ELSE ResetDevice /\ dma' = {} /\ at' = "cleared"
            /\ UNCHANGED <<todo, mapped, pci_bars>>
    /\ UNCHANGED <<phase, faults, init, starts, worker, isr, clock, display>>

\* Mutant: the queues are declared before the transport.
DropHandlerQueuesFirst ==
    /\ at = "drop_handler"
    /\ IF dma # {}
       THEN dma' = {} /\ UNCHANGED <<todo, mapped, pci_bars, transport, status, rings, poked, at>>
       ELSE ResetDevice /\ UnmapBars /\ UNCHANGED <<todo, dma>> /\ at' = "cleared"
    /\ UNCHANGED <<phase, faults, init, starts, worker, isr, clock, display>>

\* The fields of QueueHandler in order: the transport resets the device, the
\* queues free their rings, and the last Arc<GpuData> unmaps the BARs.
DropHandler ==
    /\ at = "drop_handler"
    /\ IF transport
       THEN ResetDevice /\ UNCHANGED <<todo, mapped, pci_bars, dma, at>>
       ELSE /\ UnmapBars /\ dma' = {} /\ at' = "cleared"
            /\ UNCHANGED <<todo, transport, status, rings, poked>>
    /\ UNCHANGED <<phase, faults, init, starts, worker, isr, clock, display>>

\* The state is gone: StopDevice returns, RemoveDevice goes on to flip_timer.
Cleared ==
    /\ at = "cleared"
    /\ IF phase = "removing"
       THEN at' = "cancel" /\ UNCHANGED phase
       ELSE at' = "none" /\ phase' = "added"
    /\ irqs' = 0 /\ display' = FALSE
    /\ UNCHANGED <<faults, init, starts, hw, worker, dpc, clock>>

DxgkCall ==
    \/ ReadBars \/ (\E b \in SmallBars : MapBar(b)) \/ RecordBars \/ Negotiate
    \/ NewQueue \/ Unwind \/ NewData \/ UnwindData \/ SpawnThread \/ Requests
    \/ StartTimer \/ AcquireDisplay
    \/ CancelTimer \/ DeleteTimer \/ StopThread \/ JoinThread \/ DropHandler \/ Cleared

Next ==
    \/ AddDevice \/ StartDevice \/ StopDevice \/ RemoveDevice \/ DxgkCall
    \/ Interrupt \/ Dpc \/ HandlerWakes \/ HandlerWorks
    \/ QueueFlip \/ TimerFires \/ Flip

\* Kernel threads are scheduled: a call in progress, the handler thread, a timer
\* callback and a queued DPC each take their next step eventually.  Nothing makes
\* dxgkrnl call, the device interrupt or the timer expire.
Fairness ==
    /\ WF_vars(DxgkCall) /\ WF_vars(HandlerWakes) /\ WF_vars(HandlerWorks)
    /\ WF_vars(Flip) /\ WF_vars(Dpc)

Spec == Init /\ [][Next]_vars /\ Fairness

-----------------------------------------------------------------------------
(******************************** properties *******************************)

\* Nothing drives the device through a BAR that is no longer mapped, whatever step
\* of StartDevice failed.  (When GpuData cannot be allocated the interface is
\* dropped before the transport, and this does not hold.)
RegistersMapped == "data" \notin faults => ~poked

\* A device that is running knows only rings whose memory is still allocated: on
\* every way out of StartDevice and StopDevice the reset comes before the memory
\* goes.  (When the cursor queue cannot be made, the control queue's memory goes
\* before the reset, and this does not hold.)
RingsAllocated == status = "ok" /\ at # "unwind" => rings \subseteq dma

\* What runs beside the DXGK calls never outlives what it uses: the handler thread
\* the queues and the transport, the timer's callback the flip context; and an
\* adapter that is gone has left nothing behind.  (When a BAR cannot be mapped,
\* the BARs mapped before it stay mapped.)
NothingOutlives ==
    /\ thread \in {"waiting", "working"} => dma = Queues /\ transport
    /\ callback = "flipping" => flip_ctx
    /\ phase = "absent" =>
         /\ thread = "none" /\ timer = "none" /\ dma = {} /\ status = "reset"
         /\ "map" \notin faults => mapped = {}

\* StopDevice or RemoveDevice is under way.
Stopping == phase \in {"stopping", "removing"}
=============================================================================
