----------------------------- MODULE ResourceIds -----------------------------
(***************************************************************************)
(* The identifiers of host resources (gpu-wddm/src/queue.rs):              *)
(* SimpleIdAllocator, shared by every thread that creates a resource, and  *)
(* the commands that take an identifier from it and give it back.  Each    *)
(* thread owns at most one resource here.  The host keeps the set of the   *)
(* resources it knows and refuses to create one that it already has.       *)
(***************************************************************************)
EXTENDS Integers, Sequences, FiniteSets

CONSTANTS
    Threads,
    MAX,            \* u32::MAX
    RaceAtEnd,      \* two threads may be in next() when the counter is at MAX
    MaxTimeout,     \* bound: blocking creations that time out
    MaxTransferErr  \* bound: transfers to the host that fail

ResourceIdsAssumption ==
    /\ MAX \in Nat \ {0} /\ RaceAtEnd \in BOOLEAN
    /\ MaxTimeout \in Nat /\ MaxTransferErr \in Nat

NoId == 0
U32 == 0 .. MAX

VARIABLES
    next, freed,     \* SimpleIdAllocator
    pc, id,         \* of each thread in a creation
    held,           \* resource that the thread has created, or None
    creating,       \* threads whose creation the host has not executed
    reply,          \* response to the creation: "none", "ok" or "err"
    orphans,        \* creations whose caller has timed out
    unrefs,         \* RESOURCE_UNREF commands under way
    unrefed,        \* responses to them that the handler has not seen
    alive,          \* resources that the host knows
    errors          \* transfers that have failed

allocator == <<next, freed>>
creation == <<pc, id, creating, reply, orphans>>
release == <<unrefs, unrefed>>
idsVars == <<next, freed, pc, id, held, creating, reply, orphans, unrefs, unrefed, alive, errors>>

\* SimpleIdAllocator::new(1).
IdsInit ==
    /\ next = 1 /\ freed = <<>>
    /\ pc = [t \in Threads |-> "idle"] /\ id = [t \in Threads |-> NoId]
    /\ held = [t \in Threads |-> NoId]
    /\ creating = {} /\ reply = [t \in Threads |-> "none"] /\ orphans = {}
    /\ unrefs = {} /\ unrefed = {} /\ alive = {} /\ errors = 0

-----------------------------------------------------------------------------
(* SimpleIdAllocator::next.                                                *)

\* After 2^32 - 1 identifiers only one thread at a time is past the free list.
NotAtEnd(t) ==
    next = MAX \/ (\E u \in Threads : pc[u] = "store")
        => \A u \in Threads \ {t} : pc[u] \notin {"add", "store"}

\* Mutant: the id stays in the list.
NextPopPeek(t) ==
    /\ pc[t] = "idle" /\ held[t] = NoId
    /\ IF freed # <<>>
         THEN /\ id' = [id EXCEPT ![t] = Head(freed)] /\ pc' = [pc EXCEPT ![t] = "got"]
              /\ UNCHANGED freed
         ELSE pc' = [pc EXCEPT ![t] = "add"] /\ UNCHANGED <<id, freed>>
    /\ UNCHANGED <<next, held, creating, reply, orphans, release, alive, errors>>

\* Under the lock: the oldest freed id, if there is one.
NextPop(t) ==
    /\ pc[t] = "idle" /\ held[t] = NoId
    /\ IF freed # <<>>
         THEN /\ id' = [id EXCEPT ![t] = Head(freed)] /\ pc' = [pc EXCEPT ![t] = "got"]
              /\ freed' = Tail(freed)
         ELSE pc' = [pc EXCEPT ![t] = "add"] /\ UNCHANGED <<id, freed>>
    /\ UNCHANGED <<next, held, creating, reply, orphans, release, alive, errors>>

\* Mutant: the counter is not put back when it has reached its end.
NextAddOnly(t) ==
    /\ pc[t] = "add" /\ (RaceAtEnd \/ NotAtEnd(t))
    /\ id' = [id EXCEPT ![t] = next] /\ next' = (next + 1) % (MAX + 1)
    /\ pc' = [pc EXCEPT ![t] = IF next # MAX THEN "got" ELSE "idle"]
    /\ UNCHANGED <<freed, held, creating, reply, orphans, release, alive, errors>>

\* fetch_add, after the lock was dropped: it wraps.
NextAdd(t) ==
    /\ pc[t] = "add" /\ (RaceAtEnd \/ NotAtEnd(t))
    /\ id' = [id EXCEPT ![t] = next] /\ next' = (next + 1) % (MAX + 1)
    /\ pc' = [pc EXCEPT ![t] = IF next # MAX THEN "got" ELSE "store"]
    /\ UNCHANGED <<freed, held, creating, reply, orphans, release, alive, errors>>

\* At u32::MAX the counter is put back and None returned.
NextStore(t) ==
    /\ pc[t] = "store"
    /\ next' = MAX /\ pc' = [pc EXCEPT ![t] = "idle"]
    /\ id' = [id EXCEPT ![t] = NoId]
    /\ UNCHANGED <<freed, held, creating, reply, orphans, release, alive, errors>>

-----------------------------------------------------------------------------
(* resource_create_2d and resource_create_3d.                              *)

\* next_resource_id drops a zero id; otherwise the command is sent.
Create(t) ==
    /\ pc[t] = "got"
    /\ IF id[t] = 0 THEN pc' = [pc EXCEPT ![t] = "idle"] /\ UNCHANGED creating
                    ELSE pc' = [pc EXCEPT ![t] = "wait"] /\ creating' = creating \cup {t}
    /\ reply' = [reply EXCEPT ![t] = "none"]
    /\ UNCHANGED <<allocator, id, held, orphans, release, alive, errors>>

CreateOk(t) ==
    /\ pc[t] = "wait" /\ reply[t] = "ok"
    /\ held' = [held EXCEPT ![t] = id[t]] /\ id' = [id EXCEPT ![t] = NoId]
    /\ pc' = [pc EXCEPT ![t] = "idle"] /\ reply' = [reply EXCEPT ![t] = "none"]
    /\ UNCHANGED <<allocator, creating, orphans, release, alive, errors>>

\* Mutant: the id is given back on a timeout as well, though the host may still
\* execute the command.
CreateTimeoutFree(t) ==
    /\ pc[t] = "wait" /\ reply[t] = "none" /\ Cardinality(orphans) < MaxTimeout
    /\ orphans' = orphans \cup {id[t]} /\ creating' = creating \ {t}
    /\ freed' = Append(freed, id[t])
    /\ pc' = [pc EXCEPT ![t] = "idle"] /\ id' = [id EXCEPT ![t] = NoId]
    /\ UNCHANGED <<next, held, reply, release, alive, errors>>

\* request_blocking returns with a timeout: the id is not given back.
CreateTimeout(t) ==
    /\ pc[t] = "wait" /\ reply[t] = "none" /\ Cardinality(orphans) < MaxTimeout
    /\ orphans' = orphans \cup {id[t]} /\ creating' = creating \ {t}
    /\ pc' = [pc EXCEPT ![t] = "idle"] /\ id' = [id EXCEPT ![t] = NoId]
    /\ UNCHANGED <<allocator, held, reply, release, alive, errors>>

\* Mutant: the id is given back after it has been reset.
CreateErrLate(t) ==
    /\ pc[t] = "wait" /\ reply[t] = "err"
    /\ freed' = Append(freed, NoId) /\ id' = [id EXCEPT ![t] = NoId]
    /\ pc' = [pc EXCEPT ![t] = "idle"] /\ reply' = [reply EXCEPT ![t] = "none"]
    /\ UNCHANGED <<next, held, creating, orphans, release, alive, errors>>

\* The host refused: the id is given back.
CreateErr(t) ==
    /\ pc[t] = "wait" /\ reply[t] = "err"
    /\ freed' = Append(freed, id[t]) /\ id' = [id EXCEPT ![t] = NoId]
    /\ pc' = [pc EXCEPT ![t] = "idle"] /\ reply' = [reply EXCEPT ![t] = "none"]
    /\ UNCHANGED <<next, held, creating, orphans, release, alive, errors>>

-----------------------------------------------------------------------------
(* Use and release of a resource.                                          *)

\* resource_transfer_to_host_2d that the host answers with an error: the id is
\* given back, though the caller keeps the resource.
TransferErr(t) ==
    /\ held[t] # NoId /\ errors < MaxTransferErr
    /\ errors' = errors + 1
    /\ freed' = Append(freed, held[t])
    /\ UNCHANGED <<next, creation, held, release, alive>>

\* Mutant: the id is given back when the command is queued.
ResourceUnrefEarly(t) ==
    /\ held[t] # NoId
    /\ unrefs' = unrefs \cup {held[t]} /\ held' = [held EXCEPT ![t] = NoId]
    /\ freed' = Append(freed, held[t])
    /\ UNCHANGED <<next, creation, unrefed, alive, errors>>

\* resource_unref queues the command with the callback FreeResourceId.
ResourceUnref(t) ==
    /\ held[t] # NoId
    /\ unrefs' = unrefs \cup {held[t]} /\ held' = [held EXCEPT ![t] = NoId]
    /\ UNCHANGED <<allocator, creation, unrefed, alive, errors>>

\* response(): Callback::FreeResourceId.
FreeResourceId(i) ==
    /\ i \in unrefed
    /\ unrefed' = unrefed \ {i}
    /\ freed' = Append(freed, i)
    /\ UNCHANGED <<next, creation, held, unrefs, alive, errors>>

-----------------------------------------------------------------------------
(* The host.                                                               *)

HostCreate(t) ==
    /\ t \in creating
    /\ creating' = creating \ {t}
    /\ \/ /\ id[t] \notin alive /\ alive' = alive \cup {id[t]}
          /\ reply' = [reply EXCEPT ![t] = "ok"]
       \/ reply' = [reply EXCEPT ![t] = "err"] /\ UNCHANGED alive
    /\ UNCHANGED <<allocator, pc, id, held, orphans, release, errors>>

HostCreateOrphan(i) ==
    /\ i \in orphans \ alive
    /\ alive' = alive \cup {i}
    /\ UNCHANGED <<allocator, creation, held, release, errors>>

HostUnref(i) ==
    /\ i \in unrefs
    /\ unrefs' = unrefs \ {i} /\ unrefed' = unrefed \cup {i}
    /\ alive' = alive \ {i}
    /\ UNCHANGED <<allocator, creation, held, errors>>

-----------------------------------------------------------------------------
IdsNext ==
    \/ \E t \in Threads :
        \/ NextPop(t) \/ NextAdd(t) \/ NextStore(t)
        \/ Create(t) \/ CreateOk(t) \/ CreateErr(t) \/ CreateTimeout(t)
        \/ TransferErr(t) \/ ResourceUnref(t) \/ HostCreate(t)
    \/ \E i \in U32 : HostUnref(i) \/ FreeResourceId(i) \/ HostCreateOrphan(i)

IdsSpec == IdsInit /\ [][IdsNext]_idsVars

-----------------------------------------------------------------------------
(* Properties.                                                             *)

\* Each variable has the type of what it models.
IdsTypeOK ==
    /\ next \in U32 /\ freed \in Seq(U32 \ {NoId})
    /\ pc \in [Threads -> {"idle", "add", "store", "got", "wait"}]
    /\ id \in [Threads -> U32] /\ held \in [Threads -> U32]
    /\ creating \subseteq Threads /\ reply \in [Threads -> {"none", "ok", "err"}]
    /\ orphans \subseteq U32 /\ unrefs \subseteq U32 /\ unrefed \subseteq U32
    /\ alive \subseteq U32 /\ errors \in 0 .. MaxTransferErr

\* Where the identifier i is: at a position of the free list, with a thread that has
\* taken it for a creation under way or owns the resource, lost to a timed-out
\* creation, or in a release under way.
Places(i) ==
    {<<"free", k>> : k \in {j \in DOMAIN freed : freed[j] = i}}
    \cup {<<"creating", t>> : t \in {u \in Threads : pc[u] \in {"got", "wait"} /\ id[u] = i}}
    \cup {<<"held", t>> : t \in {u \in Threads : held[u] = i}}
    \cup {<<"lost", j>> : j \in orphans \cap {i}}
    \cup {<<"unref", j>> : j \in unrefs \cap {i}}
    \cup {<<"unrefed", j>> : j \in unrefed \cap {i}}

\* As long as no transfer fails, an identifier is in one place at a time.
OneOwner == errors = 0 => \A i \in U32 \ {NoId} : Cardinality(Places(i)) <= 1

\* As long as no transfer fails, an identifier is handed out only when the host has no
\* resource of that name, nor a command under way that creates or destroys one: a
\* response that arrives after the caller gave up never makes two resources share an
\* identifier.
FreshOnHost ==
    errors = 0 => \A t \in Threads :
        pc[t] = "got" => id[t] \notin alive \cup orphans \cup unrefs

\* next() returns an id of [initial; u32::MAX) (the comment at queue.rs 1260), also
\* when the counter has reached its end.
InRange == \A t \in Threads : pc[t] = "got" => id[t] \in 1 .. MAX - 1

\* A resource identifier has one owner, is not given out while the host still knows a
\* resource of that name, and stays in range.
IdsOwned == IdsTypeOK /\ OneOwner /\ FreshOnHost /\ InRange
=============================================================================
