----------------------------- MODULE Allocations -----------------------------
(***************************************************************************)
(* Allocations, the devices that open them and the objects of the host     *)
(* behind both: virtio contexts, resources, the attachment of a resource   *)
(* to a context and the blobs mapped into the device's memory window.      *)
(*                                                                         *)
(* An Arc<Allocation> and an Arc<DeviceSpecificAllocation> (one per context*)
(* and allocation, found through the Weak references of the allocation's   *)
(* device_specific map) decide when the host is told to let go.  Threads of*)
(* dxgkrnl run the DDI calls concurrently; the steps below end where the   *)
(* code sends a request and waits, or gives another thread the chance to   *)
(* act between two of its reads and writes.  A request that fails may have *)
(* been carried out (the answer timed out) or not.                         *)
(*                                                                         *)
(* A resource id is the allocation's name (ResourceIds has the ids) and a  *)
(* blob takes one unit of the window.  dxgkrnl closes what it opened before*)
(* it destroys an allocation or a device.                                  *)
(***************************************************************************)
EXTENDS Naturals, FiniteSets, Functions

CONSTANTS
    Threads, Devices,
    Res3D,          \* allocations made with ALLOCATE_3D
    Blobs,          \* allocations made with ALLOCATE_BLOB, mappable
    Worlds          \* bounds, one of which a behaviour starts with: the devices and
                    \* allocations that are made (devs, allocs), the units of the
                    \* memory window, contexts still to be created (ctxs), handles
                    \* open on one allocation in one context (opens), kinds of fault
                    \* after which calls are still made (faults)

Allocs == Res3D \union Blobs
Ctxs == UNION {1..w.ctxs : w \in Worlds}
None == 0

AllocationsAssumption ==
    /\ IsFiniteSet(Threads) /\ IsFiniteSet(Devices) /\ IsFiniteSet(Allocs)
    /\ Res3D \intersect Blobs = {}
    /\ \A w \in Worlds : /\ w.devs \subseteq Devices /\ w.allocs \subseteq Allocs /\ None \notin w.units
                        /\ w.ctxs \in Nat /\ w.opens \in Nat /\ w.faults \in Nat

VARIABLES
    world,      \* the bounds of this behaviour
    dev,        \* the Devices: their handle, DeviceContexts and Context3Ds
    alloc,      \* the Allocations: their handle, strong count, flags and offset
    ds,         \* DeviceSpecificAllocation of a context and an allocation
    lock,       \* the thread that holds an allocation's device_specific mutex
    th,         \* the call a thread is in
    host,       \* contexts, resources, attachments and mapped blobs of the host
    window,     \* units the offset allocator has free
    faults      \* history: what went wrong so far

vars == <<world, dev, alloc, ds, lock, th, host, window, faults>>

Idle == [pc |-> "idle", d |-> None, a |-> None, ctx |-> None, virgl |-> FALSE,
         off |-> None, then |-> "done"]

Init ==
    /\ world \in Worlds
    /\ dev = [d \in Devices |-> [st |-> IF d \in world.devs THEN "none" ELSE "gone",
              contexts |-> "none", main |-> None, capset |-> "none",
              blit |-> None, query |-> FALSE]]
    /\ alloc = [a \in Allocs |-> [st |-> IF a \in world.allocs THEN "none" ELSE "gone", handle |-> FALSE, strong |-> 0,
                                  created |-> FALSE, mapped |-> FALSE, off |-> None]]
    /\ ds = [k \in Ctxs \X Allocs |-> [strong |-> 0, handles |-> 0, d |-> None, virgl |-> FALSE, entry |-> FALSE]]
    /\ lock = [a \in Allocs |-> None]
    /\ th = [t \in Threads |-> Idle]
    /\ host = [ctx |-> {}, res |-> {}, att |-> {}, win |-> <<>>]
    /\ window = world.units /\ faults = {}

-----------------------------------------------------------------------------
(********************************* requests ********************************)

\* GpuChannel's blocking requests: the answer is OK_NODATA and the host has done
\* what was asked, or the call returns an error.
Answered(new) == host' = new /\ UNCHANGED faults

Failed(new) == host' \in {host, new} /\ faults' = faults \union {"request"}

\* What the host does on each command.
HostCreate(r) == [host EXCEPT !.res = @ \union {r}]
HostAttach(c, r) == [host EXCEPT !.att = @ \union {<<c, r>>}]
HostDetach(c, r) == [host EXCEPT !.att = @ \ {<<c, r>>}]
HostUnref(r) == [host EXCEPT !.res = @ \ {r}, !.att = {p \in @ : p[2] # r},
                             !.win = Restrict(@, DOMAIN @ \ {r})]
HostMap(r, o) == [host EXCEPT !.win = [x \in DOMAIN @ \union {r} |-> IF x = r THEN o ELSE @[x]]]
HostUnmap(r) == [host EXCEPT !.win = Restrict(@, DOMAIN @ \ {r})]
HostDestroyCtx(h, cs) == [h EXCEPT !.ctx = @ \ cs, !.att = {p \in @ : p[1] \notin cs}]

\* The host refuses a context or resource it does not know.
Known(c, r) == c \in host.ctx /\ r \in host.res

-----------------------------------------------------------------------------
(*************************** calls and references **************************)

At(t, pc) == th[t].pc = pc
D(t) == th[t].d
A(t) == th[t].a

\* A thread makes calls while few enough things have gone wrong.
Free(t) == At(t, "idle") /\ Cardinality(faults) <= world.faults

Enter(t, pc, d, a, then) ==
    /\ Free(t)
    /\ th' = [th EXCEPT ![t] = [Idle EXCEPT !.pc = pc, !.d = d, !.a = a, !.then = then]]

Goto(t, pc) == th' = [th EXCEPT ![t].pc = pc]
Return(t) == th' = [th EXCEPT ![t] = Idle]

\* TaggedExt::from_arc_handle_clone and from_arc_handle_owned, into_arc_handle:
\* one more strong reference, or the one the handle stood for.
ArcClone(a) == alloc' = [alloc EXCEPT ![a].strong = @ + 1]
ArcOwned(a) == [alloc EXCEPT ![a].handle = FALSE]

\* DxgkInterface::allocation_from_handle: a handle dxgkrnl knows is cloned.
FromHandle(a) == alloc[a].handle /\ ArcClone(a)

\* A strong reference goes out of scope.  The last one frees the Allocation and
\* nothing tells the host.
DropArc(a, why) ==
    /\ alloc' = [alloc EXCEPT ![a].strong = @ - 1, ![a].st = IF alloc[a].strong = 1 THEN "gone" ELSE @]
    /\ faults' = faults \union why \union (IF alloc[a].strong = 1 THEN {"dropped"} ELSE {})

\* Mutant: the resource is destroyed although it is still in use.
IntoInnerAlways(t, a, base) ==
    /\ alloc' = [base EXCEPT ![a].strong = 0, ![a].st = "gone"]
    /\ th' = [th EXCEPT ![t] = [Idle EXCEPT !.pc = "destroy", !.a = a]]

\* Arc::into_inner of the references counted in base: only the last owner gets
\* the Allocation, and goes on to destroy it.
IntoInner(t, a, base) ==
    \/ /\ base[a].strong = 1
       /\ alloc' = [base EXCEPT ![a].strong = 0, ![a].st = "gone"]
       /\ th' = [th EXCEPT ![t] = [Idle EXCEPT !.pc = "destroy", !.a = a]]
    \/ /\ base[a].strong > 1
       /\ alloc' = [base EXCEPT ![a].strong = @ - 1]
       /\ Return(t)

-----------------------------------------------------------------------------
(*************************** devices and contexts **************************)

CreateDevice(d) ==
    /\ dev[d].st = "none"
    /\ dev' = [dev EXCEPT ![d].st = "live"]
    /\ UNCHANGED <<alloc, ds, lock, th, host, window, world, faults>>

\* Context3D::try_new and GpuChannel::context_create.  An id that was taken and a
\* context the host made are lost when the answer does not come.
NewContext(t, d, slot, good, bad, next) ==
    /\ world.ctxs > 0 /\ world' = [world EXCEPT !.ctxs = @ - 1]
    /\ LET c == world.ctxs
           made == [host EXCEPT !.ctx = @ \union {c}]
       IN \/ /\ host' = made
             /\ faults' = faults \union (IF good[slot] # None THEN {"reinit"} ELSE {})
             /\ dev' = [dev EXCEPT ![d] = [good EXCEPT ![slot] = c]]
             /\ th' = [th EXCEPT ![t] = next]
          \/ Failed(made) /\ dev' = [dev EXCEPT ![d] = bad] /\ Return(t)
    /\ UNCHANGED <<alloc, ds, lock, window>>

\* Device::init_context.  A context that is there already is replaced and stays
\* on the host.  Venus gets a virgl context for blits beside it.
InitContext(t, d, capset, good, bad) ==
    NewContext(t, d, "main", [good EXCEPT !.capset = capset], bad,
               IF capset = "venus" THEN [Idle EXCEPT !.pc = "blit", !.d = d] ELSE Idle)

\* The escape CONTEXT_INIT.
ContextInit(t, d) ==
    /\ Free(t) /\ dev[d].st = "live"
    /\ \E capset \in {"virgl", "venus"} : InitContext(t, d, capset, dev[d], dev[d])

InitBlit(t) == At(t, "blit") /\ NewContext(t, D(t), "blit", dev[D(t)], dev[D(t)], Idle)

\* DxgkDdiCreateContext.  A GDI or system context also initialises the device.
\* The DeviceContext has been given away before that can fail: dxgkrnl never
\* destroys it, and the Device it holds is never dropped.
CreateContext(t, d, gdi) ==
    /\ Free(t) /\ dev[d].st = "live" /\ dev[d].contexts = "none"
    /\ LET with(c) == [dev[d] EXCEPT !.contexts = c]
       IN \/ gdi /\ InitContext(t, d, "virgl", with("one"), with("lost"))
          \/ /\ ~gdi /\ dev' = [dev EXCEPT ![d] = with("one")]
             /\ UNCHANGED <<alloc, ds, lock, th, host, window, world, faults>>

DestroyContext(d) ==
    /\ dev[d].st = "live" /\ dev[d].contexts = "one"
    /\ dev' = [dev EXCEPT ![d].contexts = "none"]
    /\ UNCHANGED <<alloc, ds, lock, th, host, window, world, faults>>

ContextsOf(d) == {dev[d].main, dev[d].blit} \ {None}

\* Mutant: the context for blits is forgotten.
DropDeviceKeepsBlit(d) ==
    LET h == IF dev[d].query THEN HostUnref(d) ELSE host
    IN Answered(HostDestroyCtx(h, {dev[d].main})) \/ Failed(HostDestroyCtx(h, {dev[d].main}))

\* Drop for Device: the query buffer and both contexts go.
DropDevice(d) ==
    LET h == IF dev[d].query THEN HostUnref(d) ELSE host
    IN Answered(HostDestroyCtx(h, ContextsOf(d))) \/ Failed(HostDestroyCtx(h, ContextsOf(d)))

\* DxgkDdiDestroyDevice, when nothing of the device is in use any more.
DestroyDevice(d) ==
    /\ dev[d].st = "live" /\ dev[d].contexts # "one"
    /\ \A t \in Threads : D(t) # d
    /\ \A k \in Ctxs \X Allocs : ds[k].handles > 0 => ds[k].d # d
    /\ dev' = [dev EXCEPT ![d].st = "gone"]
    /\ IF dev[d].contexts = "lost" THEN UNCHANGED <<host, faults>> ELSE DropDevice(d)
    /\ UNCHANGED <<alloc, ds, lock, th, window, world>>

-----------------------------------------------------------------------------
(************************* allocating and destroying ***********************)

Born(a) == [alloc EXCEPT ![a].st = "live", ![a].handle = TRUE, ![a].strong = 1]

\* Adapter::allocate_full, GpuChannel::resource_create_3d.  A failure after the
\* host made the resource leaves it there.
Allocate3D(a) ==
    /\ a \in Res3D /\ alloc[a].st = "none"
    /\ \/ Answered(HostCreate(a)) /\ alloc' = [Born(a) EXCEPT ![a].created = TRUE]
       \/ Failed(HostCreate(a)) /\ alloc' = [alloc EXCEPT ![a].st = "gone"]
    /\ UNCHANGED <<dev, ds, lock, th, window, world>>

\* A blob only gets its id; the first context it is attached to creates it.
AllocateBlob(a) ==
    /\ a \in Blobs /\ alloc[a].st = "none"
    /\ alloc' = Born(a)
    /\ UNCHANGED <<dev, ds, lock, th, host, window, world, faults>>

\* Adapter::deallocate.
Deallocate(t, a) == alloc[a].handle /\ IntoInner(t, a, ArcOwned(a))

\* DxgkDdiDestroyAllocation, after what was opened has been closed.  Escapes of
\* other threads may still hold the allocation.
DestroyAllocation(t, a) ==
    /\ Free(t)
    /\ \A k \in Ctxs \X Allocs : k[2] = a => ds[k].handles = 0
    /\ \A u \in Threads : A(u) = a => th[u].then \notin {"open", "close"}
    /\ Deallocate(t, a)
    /\ UNCHANGED <<dev, ds, lock, host, window, world, faults>>

\* Adapter::destroy_allocation_inner: a mapped blob is unmapped first.  map is
\* unwrapped.
DestroyInner(t) ==
    /\ At(t, "destroy")
    /\ LET a == A(t)
       IN th' = [th EXCEPT ![t].pc = IF ~alloc[a].mapped THEN "unref"
                                     ELSE IF alloc[a].off = None THEN "panic" ELSE "free",
                           ![t].off = alloc[a].off, ![t].then = "unref"]
    /\ UNCHANGED <<dev, alloc, ds, lock, host, window, world, faults>>

\* GpuChannel::resource_unref, an asynchronous request.
Unref(t) ==
    /\ At(t, "unref")
    /\ Answered(HostUnref(A(t))) \/ Failed(HostUnref(A(t)))
    /\ Return(t)
    /\ UNCHANGED <<dev, alloc, ds, lock, window, world>>

-----------------------------------------------------------------------------
(***************************** opening a resource **************************)

\* Leaving attach_to_device: an open gives its Arc back and has a handle, the
\* layout query goes on with the DeviceSpecificAllocation it got.
Attached(t, c, new) ==
    LET open == th[t].then = "open"
    IN /\ ds' = [ds EXCEPT ![<<c, A(t)>>] = [new EXCEPT !.handles = IF open THEN @ + 1 ELSE @]]
       /\ \/ open /\ DropArc(A(t), {}) /\ Return(t)
          \/ /\ ~open /\ th' = [th EXCEPT ![t].pc = "layout", ![t].ctx = c]
             /\ UNCHANGED <<alloc, faults>>

\* An error on the way: the mutex and the Arcs go, what the host did stays.
GiveUp(t, why) ==
    /\ lock' = [lock EXCEPT ![A(t)] = None]
    /\ DropArc(A(t), why) /\ Return(t)
    /\ UNCHANGED <<dev, ds, window, world>>

\* Device::open_allocation.
DeviceOpen(t, d, a) == FromHandle(a) /\ Enter(t, "attach", d, a, "open")

\* DxgkDdiOpenAllocation.
OpenAllocation(t, d, a) ==
    /\ dev[d].st = "live" /\ DeviceOpen(t, d, a)
    /\ \A k \in Ctxs \X {a} : ds[k].handles < world.opens
    /\ UNCHANGED <<dev, ds, lock, host, window, world, faults>>

\* The escape RESOURCE_INFO on a 3D resource: Device::query_layout, for devices
\* with a virgl context beside their own.
ResourceInfo(t, d, a) ==
    /\ a \in Res3D /\ dev[d].st = "live" /\ dev[d].blit # None
    /\ Enter(t, "attach", d, a, "info") /\ FromHandle(a)
    /\ UNCHANGED <<dev, ds, lock, host, window, world, faults>>

\* Another thread has dropped its last reference and has yet to detach.
Crossing(t) == \E u \in Threads \ {t} : At(u, "detach") /\ D(u) = D(t) /\ A(u) = A(t)

\* Allocation::attach_to_device under the device_specific mutex: the object the
\* context has, if its Weak can be upgraded, or a new one.  The CREATED flag is
\* set before the blob is created.
AttachToDevice(t) ==
    /\ At(t, "attach") /\ lock[A(t)] = None
    /\ LET a == A(t)
           c == dev[D(t)].main
           old == ds[<<c, a>>]
       IN \/ c = None /\ GiveUp(t, {}) /\ UNCHANGED host
          \/ /\ c # None /\ old.entry /\ old.strong > 0
             /\ Attached(t, c, [old EXCEPT !.strong = @ + 1])
             /\ UNCHANGED <<dev, lock, host, window, world>>
          \/ /\ c # None /\ ~(old.entry /\ old.strong > 0)
             /\ lock' = [lock EXCEPT ![a] = t]
             /\ alloc' = [alloc EXCEPT ![a].created = TRUE]
             /\ th' = [th EXCEPT ![t].pc = IF alloc[a].created THEN "virgl" ELSE "blob", ![t].ctx = c]
             /\ faults' = faults \union (IF Crossing(t) THEN {"crossed"} ELSE {})
             /\ UNCHANGED <<dev, ds, host, window, world>>

\* A request to attach a resource to a context, with what follows its answer.
AttachRequest(t, c, next) ==
    \/ Known(c, A(t)) /\ host' = HostAttach(c, A(t)) /\ next
    \/ host' \in {host} \union {HostAttach(c, x) : x \in {A(t)} \intersect host.res} /\ GiveUp(t, {"request"})

\* DeviceSpecificAllocation::new, step by step: the blob ...
CreateBlob(t) ==
    /\ At(t, "blob")
    /\ \/ /\ dev[D(t)].main \in host.ctx /\ Answered(HostCreate(A(t))) /\ Goto(t, "virgl")
          /\ UNCHANGED <<dev, alloc, ds, lock, window, world>>
       \/ host' \in {host, HostCreate(A(t))} /\ GiveUp(t, {"request"})

ShadowVirgl(t) == A(t) \in Res3D /\ dev[D(t)].capset # "virgl"

\* ... the virgl context beside a Venus context ...
AttachVirgl(t) ==
    /\ At(t, "virgl")
    /\ LET next == Goto(t, "main") /\ UNCHANGED <<dev, alloc, ds, lock, window, world, faults>>
       IN \/ ~ShadowVirgl(t) /\ next /\ UNCHANGED host
          \/ ShadowVirgl(t) /\ dev[D(t)].blit = None /\ GiveUp(t, {"request"}) /\ UNCHANGED host
          \/ ShadowVirgl(t) /\ dev[D(t)].blit # None /\ AttachRequest(t, dev[D(t)].blit, next)

\* ... and the device's own context.
AttachMain(t) ==
    /\ At(t, "main")
    /\ LET a == A(t)
           c == th[t].ctx
           new == [strong |-> 1, handles |-> 0, d |-> D(t), virgl |-> ShadowVirgl(t), entry |-> TRUE]
           next == /\ Attached(t, c, new)
                   /\ lock' = [lock EXCEPT ![a] = None]
                   /\ UNCHANGED <<dev, window, world>>
       IN AttachRequest(t, dev[D(t)].main, next)

-----------------------------------------------------------------------------
(*********************** using and closing a resource **********************)

\* DeviceSpecificAllocation::ensure_virgl_attached: the flag is set before the
\* request is made, and stays when it fails.
EnsureVirgl(k, d) ==
    LET needed == dev[d].capset # "virgl" /\ ~ds[k].virgl
        c == dev[d].blit
    IN /\ ds' = [ds EXCEPT ![k].virgl = @ \/ needed]
       /\ \/ ~needed /\ UNCHANGED <<host, faults>>
          \/ needed /\ Known(c, k[2]) /\ Answered(HostAttach(c, k[2]))
          \/ needed /\ UNCHANGED host /\ faults' = faults \union {"request"}

\* A blit of Device::present from or to an open allocation.
Present(t, d, k) ==
    /\ Free(t) /\ dev[d].st = "live" /\ ds[k].handles > 0 /\ ds[k].d = d
    /\ EnsureVirgl(k, d)
    /\ UNCHANGED <<dev, alloc, lock, th, window, world>>

Layout(t) ==
    /\ At(t, "layout") /\ EnsureVirgl(<<th[t].ctx, A(t)>>, D(t)) /\ Goto(t, "query")
    /\ UNCHANGED <<dev, alloc, lock, window, world>>

\* QueryBuffer::new: a resource attached to the virgl context, with backing.  What
\* the host made stays when a later step fails.
NewQueryBuffer(d) ==
    LET made == [HostCreate(d) EXCEPT !.att = @ \union {<<dev[d].blit, d>>}]
    IN \/ Answered(made) /\ dev' = [dev EXCEPT ![d].query = TRUE]
       \/ Failed(made) /\ UNCHANGED dev

\* The rest of query_layout: a query buffer on the first query, the request, and
\* the DeviceSpecificAllocation is dropped.
QueryLayout(t) ==
    /\ At(t, "query")
    /\ LET k == <<th[t].ctx, A(t)>>
       IN /\ \/ ~dev[D(t)].query /\ NewQueryBuffer(D(t))
             \/ dev[D(t)].query /\ UNCHANGED <<host, faults, dev>>
          /\ ds' = [ds EXCEPT ![k].strong = @ - 1]
          /\ th' = [th EXCEPT ![t].pc = IF ds[k].strong = 1 THEN "detach" ELSE "leave",
                              ![t].virgl = ds[k].virgl]
    /\ UNCHANGED <<alloc, lock, window, world>>

\* Device::close_allocation upgrades the Weak<Allocation>, and detach_from_device
\* drops the handle's reference before it takes the mutex.
DeviceClose(t, d, k) ==
    /\ alloc[k[2]].strong > 0 /\ ArcClone(k[2])
    /\ ds' = [ds EXCEPT ![k].handles = @ - 1, ![k].strong = @ - 1]
    /\ th' = [th EXCEPT ![t] = [Idle EXCEPT !.d = d, !.a = k[2], !.ctx = dev[d].main, !.then = "close",
                    !.pc = IF ds[k].strong = 1 THEN "detach" ELSE "entry", !.virgl = ds[k].virgl]]

\* DxgkDdiCloseAllocation.
CloseAllocation(t, d, k) ==
    /\ Free(t) /\ ds[k].handles > 0 /\ ds[k].d = d /\ DeviceClose(t, d, k)
    /\ UNCHANGED <<dev, lock, host, window, world, faults>>

\* Drop for DeviceSpecificAllocation: the shadow context first, and the other one
\* only if that went well.
Detach(t) ==
    /\ At(t, "detach")
    /\ LET a == A(t)
           some == IF th[t].virgl THEN HostDetach(dev[D(t)].blit, a) ELSE host
           all == [some EXCEPT !.att = @ \ {<<dev[D(t)].main, a>>}]
       IN Answered(all) \/ Failed(some)
    /\ Goto(t, IF th[t].then = "close" THEN "entry" ELSE "leave")
    /\ UNCHANGED <<dev, alloc, ds, lock, window, world>>

\* The rest of detach_from_device: the dead entry is removed.  If another thread
\* was there first, close_allocation returns an error and drops its Arc.
RemoveEntry(t) ==
    /\ At(t, "entry") /\ lock[A(t)] = None
    /\ LET k == <<th[t].ctx, A(t)>>
       IN \/ /\ ~ds[k].entry
             /\ DropArc(A(t), {}) /\ Return(t) /\ UNCHANGED ds
          \/ /\ ds[k].entry
             /\ ds' = [ds EXCEPT ![k].entry = ds[k].strong # 0]
             /\ IntoInner(t, A(t), alloc) /\ UNCHANGED faults
    /\ UNCHANGED <<dev, lock, host, window, world>>

\* An escape ends and drops its Arc.
Leave(t) ==
    /\ At(t, "leave") /\ DropArc(A(t), {}) /\ Return(t)
    /\ UNCHANGED <<dev, ds, lock, host, window, world>>

-----------------------------------------------------------------------------
(******************************* mapping blobs *****************************)

\* The escape BLOB_MAP: whether the blob is mapped is read first.
BlobMap(t, d, a, unmap) ==
    /\ a \in Blobs /\ dev[d].st = "live" /\ FromHandle(a)
    /\ Enter(t, IF unmap # alloc[a].mapped THEN "leave" ELSE IF unmap THEN "take" ELSE "map", d, a, "info")
    /\ UNCHANGED <<dev, ds, lock, host, window, world, faults>>

\* GpuChannel::resource_map_blob.  The units allocated are lost if the host
\* refuses, as it does when the blob is mapped already.
MapBlob(t) ==
    /\ At(t, "map")
    /\ LET a == A(t)
       IN \/ (window = {} \/ dev[D(t)].main = None) /\ Goto(t, "leave") /\ UNCHANGED <<host, window, faults>>
          \/ \E o \in window :
                /\ dev[D(t)].main # None /\ window' = window \ {o}
                /\ \/ /\ a \in host.res /\ a \notin DOMAIN host.win
                      /\ Answered(HostMap(a, o))
                      /\ th' = [th EXCEPT ![t].pc = "flag", ![t].off = o]
                   \/ /\ host' \in {host} \union {HostMap(x, o) : x \in {a} \intersect (host.res \ DOMAIN host.win)}
                      /\ faults' = faults \union {"request"}
                      /\ Goto(t, "leave")
    /\ UNCHANGED <<dev, alloc, ds, lock, world>>

\* The rest of Allocation::map_blob: the flag, then the offset.  What the escape
\* does afterwards can fail and leaves the blob mapped.
SetMapped(t) ==
    /\ At(t, "flag") /\ alloc' = [alloc EXCEPT ![A(t)].mapped = TRUE] /\ Goto(t, "store")
    /\ UNCHANGED <<dev, ds, lock, host, window, world, faults>>

StoreOffset(t) ==
    /\ At(t, "store") /\ alloc' = [alloc EXCEPT ![A(t)].off = th[t].off] /\ Goto(t, "leave")
    /\ UNCHANGED <<dev, ds, lock, host, window, world, faults>>

\* Mutant: the offset is read and stays where it is.
TakeOffsetKeeps(t) ==
    /\ At(t, "take") /\ alloc' = [alloc EXCEPT ![A(t)].mapped = FALSE]
    /\ th' = [th EXCEPT ![t].pc = "free", ![t].off = alloc[A(t)].off, ![t].then = "leave"]
    /\ UNCHANGED <<dev, ds, lock, host, window, world, faults>>

\* Allocation::unmap_blob: the flag is cleared and the offset unwrapped.
TakeOffset(t) ==
    /\ At(t, "take") /\ alloc' = [alloc EXCEPT ![A(t)].mapped = FALSE, ![A(t)].off = None]
    /\ th' = [th EXCEPT ![t].pc = IF alloc[A(t)].off = None THEN "panic" ELSE "free",
                        ![t].off = alloc[A(t)].off, ![t].then = "leave"]
    /\ UNCHANGED <<dev, ds, lock, host, window, world, faults>>

\* GpuChannel::resource_unmap_blob: the units are free before the host is asked.
FreeOffset(t) ==
    /\ At(t, "free") /\ window' = window \union {th[t].off} /\ Goto(t, "unmap")
    /\ UNCHANGED <<dev, alloc, ds, lock, host, world, faults>>

\* The answer is not looked at.
UnmapBlob(t) ==
    /\ At(t, "unmap") /\ (Answered(HostUnmap(A(t))) \/ Failed(HostUnmap(A(t))))
    /\ Goto(t, th[t].then)
    /\ UNCHANGED <<dev, alloc, ds, lock, window, world>>

-----------------------------------------------------------------------------
\* DxgkDdiEscape.
Escape(t) ==
    \/ \E d \in Devices : ContextInit(t, d)
    \/ \E d \in Devices, a \in Allocs :
          ResourceInfo(t, d, a) \/ \E unmap \in BOOLEAN : BlobMap(t, d, a, unmap)

Call(t) ==
    \/ \E d \in Devices, gdi \in BOOLEAN : CreateContext(t, d, gdi)
    \/ \E d \in Devices, a \in Allocs : OpenAllocation(t, d, a)
    \/ \E d \in Devices, k \in Ctxs \X Allocs : Present(t, d, k) \/ CloseAllocation(t, d, k)
    \/ \E a \in Allocs : DestroyAllocation(t, a)

Step(t) ==
    \/ InitBlit(t) \/ DestroyInner(t) \/ Unref(t)
    \/ AttachToDevice(t) \/ CreateBlob(t) \/ AttachVirgl(t) \/ AttachMain(t)
    \/ Layout(t) \/ QueryLayout(t) \/ Detach(t) \/ RemoveEntry(t) \/ Leave(t)
    \/ MapBlob(t) \/ SetMapped(t) \/ StoreOffset(t) \/ TakeOffset(t) \/ FreeOffset(t) \/ UnmapBlob(t)

Next ==
    \/ \E t \in Threads : Escape(t) \/ Call(t) \/ Step(t)
    \/ \E d \in Devices : CreateDevice(d) \/ DestroyContext(d) \/ DestroyDevice(d)
    \/ \E a \in Allocs : Allocate3D(a) \/ AllocateBlob(a)

Spec == Init /\ [][Next]_vars

-----------------------------------------------------------------------------
(******************************** properties *******************************)

\* What a device has open exists on the host and is attached to the device's
\* context, and to its virgl context once the driver counts on it (a request
\* that fails there leaves the flag set): the commands of the device may name
\* it.  Two cases are excepted: a second CONTEXT_INIT, and an attach that
\* overtakes the detach of the last handle closed (allocation.rs drops the
\* reference before it takes the mutex).
HostKnowsOpen ==
    faults \intersect {"crossed", "reinit"} = {} =>
        \A k \in Ctxs \X Allocs : ds[k].strong > 0 =>
            /\ k \in host.att /\ k[2] \in host.res
            /\ ds[k].virgl /\ "request" \notin faults => <<dev[ds[k].d].blit, k[2]>> \in host.att

\* A blob whose offset the driver has stored is where the host mapped it, the
\* units are not free, and no other stored blob has them: two mappings handed
\* to processes never show the same part of the window.
WindowMapped ==
    LET stored == {a \in Blobs : alloc[a].st = "live" /\ alloc[a].off # None}
    IN /\ \A a \in stored : /\ alloc[a].off \notin window
                             /\ a \in DOMAIN host.win /\ host.win[a] = alloc[a].off
       /\ \A a, b \in stored : alloc[a].off = alloc[b].off => a = b

\* Once every allocation and device is gone and no call is in progress, nothing
\* is left on the host and the window is free again, unless something went wrong
\* that the code does not undo: a failed request, a second CONTEXT_INIT, the
\* last reference dropped by an escape or by a close that found no entry.
NothingLost ==
    /\ faults = {}
    /\ \A t \in Threads : At(t, "idle")
    /\ \A d \in Devices : dev[d].st # "live"
    /\ \A a \in Allocs : alloc[a].st # "live"
    => host.ctx = {} /\ host.res = {} /\ host.att = {} /\ host.win = <<>> /\ window = world.units
=============================================================================
