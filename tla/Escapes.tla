------------------------------ MODULE Escapes ------------------------------
(***************************************************************************)
(* The escapes that ask the host something and keep the answer: CAPSET     *)
(* reads a capability set through a per-set cache, RESOURCE_INFO finds out *)
(* the layout of a 3D resource with a query buffer each device shares, and *)
(* BLOB_INFO_SET records what a blob holds.  Several threads are in them   *)
(* at once.  Start-up discovers which capability sets there are.           *)
(*                                                                         *)
(* The host executes the control queue in order.  A blocking request times *)
(* out after a second; the host may still execute it later.                *)
(***************************************************************************)
EXTENDS Integers, Sequences, SequencesExt, FiniteSets

CONSTANTS
  Callers,     \* threads, one escape each
  Devices,
  Allocs3D,    \* 3D resources
  Blobs,       \* blob resources
  Worlds,      \* what there is to do, and what the host has
  PageRoom,    \* largest answer that fits a page with its header
  None

VARIABLES
  world,
  pc, got,     \* caller -> where it is, and what it returns to user mode
  data,        \* capset id -> the cached capability set
  dataLock,    \* capset id -> who holds the cache's lock for writing
  layouts,     \* 3D resource -> its cached layout
  info,        \* blob -> BlobInfo
  query,       \* device -> its query buffer
  queryLock,   \* device -> who holds it
  queue,       \* requests the host has not executed
  answer,      \* caller -> the answer it is woken with
  created,     \* query resources the host has
  backed,      \* those it may write through
  budget,      \* refusals and timeouts left
  refused      \* resources whose layout the host refused, devices whose backing it did

caches == <<data, layouts, info, query>>
locks == <<dataLock, queryLock>>
hostvars == <<created, backed, budget, refused>>
vars == <<world, pc, got, caches, locks, queue, answer, hostvars>>

Task(c) == world.tasks[c]

----------------------------------------------------------------------------
(* Discovery: one GET_CAPSET_INFO for each of num_capsets. *)

CapsetIds == 1..6
NoInfo == [version |-> 0, size |-> 0]

\* Mutant: the info is stored under the index asked for.
InfosByIndex(offers) ==
  [id \in CapsetIds |-> IF id \in DOMAIN offers /\ offers[id] # None
                        THEN [version |-> offers[id].version, size |-> offers[id].size] ELSE NoInfo]

\* get_capset_infos: a refused index or an unknown id is skipped, the info stored by id.
Infos(offers) ==
  [id \in CapsetIds |->
     LET of == {i \in DOMAIN offers: offers[i] # None /\ offers[i].id = id}
     IN  IF of = {} THEN NoInfo
         ELSE LET last == CHOOSE i \in of: \A j \in of: j <= i
              IN  [version |-> offers[last].version, size |-> offers[last].size]]

\* The mask told to user mode.
Mask(offers) == {offers[i].id: i \in {j \in DOMAIN offers: offers[j] # None}} \intersect CapsetIds

\* What the host has for an id, None if nothing.
HostInfo(id) ==
  LET of == {i \in DOMAIN world.capsets: world.capsets[i] # None /\ world.capsets[i].id = id}
  IN  IF of = {} THEN None ELSE world.capsets[CHOOSE i \in of: TRUE]

----------------------------------------------------------------------------
(* Requests. *)

Ask(c, cmd, arg) ==
  /\ queue' = Append(queue, [by |-> c, cmd |-> cmd, arg |-> arg])
  /\ answer' = [answer EXCEPT ![c] = None]

\* The answer, if it came before the timeout.
Woken(c) == answer[c] # None
Silent == UNCHANGED <<queue, answer>>

Waiting(c) == pc[c] \in {"capset", "create", "backing", "layout"}

Done(c, result) ==
  /\ pc' = [pc EXCEPT ![c] = "done"]
  /\ got' = [got EXCEPT ![c] = result]

Goto(c, there) == pc' = [pc EXCEPT ![c] = there] /\ UNCHANGED got

----------------------------------------------------------------------------
(* CAPSET *)

CapsetRead(c) ==
  LET id == Task(c).id
  IN  /\ pc[c] = "start" /\ Task(c).op = "capset"
      /\ dataLock[id] = None
      /\ Goto(c, IF data[id] = None THEN "write" ELSE "copy")
      /\ Silent
      /\ UNCHANGED <<world, caches, locks, hostvars>>

\* The lock is held for writing while get_capset waits for the host.  A set that does not
\* fit a page is refused.
CapsetWrite(c) ==
  LET id == Task(c).id
      known == Infos(world.capsets)[id]
  IN  /\ pc[c] = "write"
      /\ dataLock[id] = None
      /\ IF known.size > PageRoom THEN Done(c, None) /\ Silent /\ UNCHANGED locks
         ELSE /\ Goto(c, "capset")
              /\ Ask(c, "capset", [id |-> id, version |-> known.version])
              /\ dataLock' = [dataLock EXCEPT ![id] = c]
              /\ UNCHANGED queryLock
      /\ UNCHANGED <<world, caches, hostvars>>

\* Only an OK_CAPSET answer is kept.
CapsetStore(id, a) ==
  data' = IF a = "ok" THEN [data EXCEPT ![id] = [id |-> id, version |-> Infos(world.capsets)[id].version]]
          ELSE data

CapsetAnswer(c) ==
  LET id == Task(c).id
  IN  /\ pc[c] = "capset" /\ Woken(c)
      /\ IF answer[c] = "ok" THEN Goto(c, "copy") ELSE Done(c, None)
      /\ CapsetStore(id, answer[c])
      /\ dataLock' = [dataLock EXCEPT ![id] = None]
      /\ Silent
      /\ UNCHANGED <<world, layouts, info, query, queryLock, hostvars>>

\* As much as the caller has room for.
CapsetCopy(c) ==
  LET id == Task(c).id
      size == Infos(world.capsets)[id].size
  IN  /\ pc[c] = "copy"
      /\ dataLock[id] = None
      /\ Done(c, [set |-> data[id], size |-> IF Task(c).room < size THEN Task(c).room ELSE size])
      /\ Silent
      /\ UNCHANGED <<world, caches, locks, hostvars>>

----------------------------------------------------------------------------
(* RESOURCE_INFO and BLOB_INFO_SET *)

\* The resource as user mode sees it, from a copy: a 3D resource with the layout kept for
\* it (an unknown one has the invalid modifier and no planes), a blob with its info.
Reply(r) ==
  IF r \in Allocs3D
  THEN [tag |-> "3d", modifier |-> layouts[r], offsets |-> layouts[r], planes |-> IF layouts[r] = None THEN 0 ELSE 1]
  ELSE [tag |-> "blob", info |-> info[r], info_valid |-> info[r] # None]

\* The escape then overwrites the layout of a 3D resource with the one it found, plane by
\* plane.
Told(reply, l) ==
  [reply EXCEPT !.modifier = l, !.planes = IF l = None THEN 0 ELSE 1,
                !.offsets = IF l = None THEN @ ELSE l]

\* A layout is only looked for when user mode has none, of a 3D resource; it comes from
\* the cache, or from a device that has a virgl context for it.
InfoStart(c) ==
  LET t == Task(c)
      l == IF t.res \in Allocs3D /\ t.ask THEN layouts[t.res] ELSE None
      look == t.res \in Allocs3D /\ t.ask /\ l = None /\ t.device \in world.shadow
  IN  /\ pc[c] = "start" /\ t.op = "info"
      /\ pc' = [pc EXCEPT ![c] = IF look THEN "lock" ELSE "done"]
      /\ got' = [got EXCEPT ![c] = IF t.res \in Blobs THEN Reply(t.res) ELSE Told(Reply(t.res), l)]
      /\ Silent
      /\ UNCHANGED <<world, caches, locks, hostvars>>

\* Mutant: the query buffer is used without waiting for its lock.
InfoLockNot(c) ==
  LET d == Task(c).device
  IN  /\ pc[c] = "lock"
      /\ queryLock' = [queryLock EXCEPT ![d] = c]
      /\ IF query[d] = None THEN Goto(c, "create") /\ Ask(c, "create", d)
         ELSE Goto(c, "layout") /\ Ask(c, "layout", [device |-> d, res |-> Task(c).res])
      /\ UNCHANGED <<world, caches, dataLock, hostvars>>

\* The first to query through a device makes its query buffer.
InfoLock(c) ==
  LET d == Task(c).device
  IN  /\ pc[c] = "lock"
      /\ queryLock[d] = None
      /\ queryLock' = [queryLock EXCEPT ![d] = c]
      /\ IF query[d] = None THEN Goto(c, "create") /\ Ask(c, "create", d)
         ELSE Goto(c, "layout") /\ Ask(c, "layout", [device |-> d, res |-> Task(c).res])
      /\ UNCHANGED <<world, caches, dataLock, hostvars>>

Unlock(c) == queryLock' = [queryLock EXCEPT ![Task(c).device] = None] /\ UNCHANGED dataLock

\* QueryBuffer::new: the resource, then its backing.
CreateAnswer(c) ==
  /\ pc[c] = "create" /\ Woken(c)
  /\ IF answer[c] = "ok"
     THEN Goto(c, "backing") /\ Ask(c, "backing", [device |-> Task(c).device, n |-> created[Task(c).device]])
          /\ UNCHANGED locks
     ELSE Done(c, None) /\ Silent /\ Unlock(c)
  /\ UNCHANGED <<world, caches, hostvars>>

\* submit_command_sync only looks at whether an answer came.
BackingAnswer(c) ==
  LET d == Task(c).device
  IN  /\ pc[c] = "backing" /\ Woken(c)
      /\ query' = [query EXCEPT ![d] = [n |-> created[d], content |-> None]]
      /\ Goto(c, "layout")
      /\ Ask(c, "layout", [device |-> d, res |-> Task(c).res])
      /\ UNCHANGED <<world, data, layouts, info, locks, hostvars>>

\* The query buffer is read with its lock held.
LayoutAnswer(c) ==
  /\ pc[c] = "layout" /\ Woken(c)
  /\ pc' = [pc EXCEPT ![c] = "store"]
  /\ got' = [got EXCEPT ![c] = Told(@, query[Task(c).device].content)]
  /\ Unlock(c)
  /\ Silent
  /\ UNCHANGED <<world, caches, hostvars>>

\* Allocation::query_layout keeps what the device found.
LayoutStore(c) ==
  /\ pc[c] = "store"
  /\ layouts' = [layouts EXCEPT ![Task(c).res] = got[c].modifier]
  /\ pc' = [pc EXCEPT ![c] = "done"]
  /\ Silent
  /\ UNCHANGED <<world, got, data, info, query, locks, hostvars>>

BlobInfoSet(c) ==
  /\ pc[c] = "start" /\ Task(c).op = "set"
  /\ info' = [info EXCEPT ![Task(c).res] = Task(c).value]
  /\ Done(c, None)
  /\ Silent
  /\ UNCHANGED <<world, data, layouts, query, locks, hostvars>>

\* Mutant: the error path leaves the query buffer locked.
TimeoutKeeps(c) ==
  /\ Waiting(c) /\ ~Woken(c) /\ budget > 0
  /\ budget' = budget - 1
  /\ Done(c, None)
  /\ dataLock' = [id \in CapsetIds |-> IF dataLock[id] = c THEN None ELSE dataLock[id]]
  /\ Silent
  /\ UNCHANGED <<world, caches, queryLock, created, backed, refused>>

\* The wait ends with an error, which releases the lock on its way out.
Timeout(c) ==
  /\ Waiting(c) /\ ~Woken(c) /\ budget > 0
  /\ budget' = budget - 1
  /\ Done(c, None)
  /\ dataLock' = [id \in CapsetIds |-> IF dataLock[id] = c THEN None ELSE dataLock[id]]
  /\ queryLock' = [d \in Devices |-> IF queryLock[d] = c THEN None ELSE queryLock[d]]
  /\ Silent
  /\ UNCHANGED <<world, caches, created, backed, refused>>

----------------------------------------------------------------------------
(* The host. *)

Answered(a) ==
  /\ queue' = Tail(queue)
  /\ answer' = [answer EXCEPT ![Head(queue).by] = IF Waiting(Head(queue).by) THEN a ELSE @]
  /\ UNCHANGED <<world, pc, got, data, layouts, info, locks>>

HostCapset ==
  /\ queue # <<>> /\ Head(queue).cmd = "capset"
  /\ LET has == HostInfo(Head(queue).arg.id)
     IN  Answered(IF has # None /\ has.version = Head(queue).arg.version THEN "ok" ELSE "err")
  /\ UNCHANGED <<query, hostvars>>

HostCreate ==
  /\ queue # <<>> /\ Head(queue).cmd = "create"
  /\ created' = [created EXCEPT ![Head(queue).arg] = @ + 1]
  /\ Answered("ok")
  /\ UNCHANGED <<query, backed, budget, refused>>

HostBacking ==
  /\ queue # <<>> /\ Head(queue).cmd = "backing"
  /\ backed' = backed \union {Head(queue).arg}
  /\ Answered("ok")
  /\ UNCHANGED <<query, created, budget, refused>>

\* The layout is written into the query buffer, if the host has its pages.
HostLayout ==
  LET d == Head(queue).arg.device
  IN  /\ queue # <<>> /\ Head(queue).cmd = "layout"
      /\ query' = IF [device |-> d, n |-> query[d].n] \in backed
                  THEN [query EXCEPT ![d].content = Head(queue).arg.res] ELSE query
      /\ Answered("ok")
      /\ UNCHANGED hostvars

HostRefuses ==
  /\ queue # <<>> /\ budget > 0
  /\ budget' = budget - 1
  /\ refused' = refused \union CASE Head(queue).cmd = "layout" -> {Head(queue).arg.res}
                                 [] Head(queue).cmd = "backing" -> {Head(queue).arg.device}
                                 [] OTHER -> {}
  /\ Answered("err")
  /\ UNCHANGED <<query, created, backed>>

----------------------------------------------------------------------------
Init ==
  /\ world \in Worlds
  /\ pc = [c \in Callers |-> "start"] /\ got = [c \in Callers |-> None]
  /\ data = [id \in CapsetIds |-> None] /\ dataLock = [id \in CapsetIds |-> None]
  /\ layouts = [r \in Allocs3D |-> None] /\ info = [r \in Blobs |-> None]
  /\ query = [d \in Devices |-> None] /\ queryLock = [d \in Devices |-> None]
  /\ queue = <<>> /\ answer = [c \in Callers |-> None]
  /\ created = [d \in Devices |-> 0] /\ backed = {}
  /\ budget = world.faults /\ refused = {}

Next ==
  \/ \E c \in Callers:
       \/ CapsetRead(c) \/ CapsetWrite(c) \/ CapsetAnswer(c) \/ CapsetCopy(c)
       \/ InfoStart(c) \/ InfoLock(c) \/ CreateAnswer(c) \/ BackingAnswer(c) \/ LayoutAnswer(c) \/ LayoutStore(c)
       \/ BlobInfoSet(c) \/ Timeout(c)
  \/ HostCapset \/ HostCreate \/ HostBacking \/ HostLayout \/ HostRefuses

Spec == Init /\ [][Next]_vars /\ WF_vars(Next)

----------------------------------------------------------------------------
(* Properties. *)

\* A layout kept for a resource, or told to user mode, is that resource's: two queries
\* through one device's query buffer never mix, even when one of them timed out and is
\* executed late.  The exceptions are a query the host refused, whose answer is not
\* looked at, and a query buffer whose backing it refused.
LayoutsRight ==
  \A r \in Allocs3D:
    LET excused == r \in refused \/ refused \intersect Devices # {}
        right(l) == l \in {None, r} \/ excused
    IN  /\ right(layouts[r])
        /\ \A c \in Callers:
             pc[c] \in {"store", "done"} /\ Task(c).op = "info" /\ Task(c).res = r /\ got[c] # None
               => right(got[c].modifier) /\ (got[c].planes > 0 => got[c].offsets = got[c].modifier)

\* Every capability set user mode is told it may use can be had: the cache of an id holds
\* that id's set in the version the host announced, a caller gets as much of it as it
\* asked for, and a set in the mask is only refused by the host itself or by a timeout.
CapsetsRight ==
  /\ \A id \in CapsetIds: data[id] # None =>
       data[id].id = id /\ HostInfo(id) # None /\ data[id].version = HostInfo(id).version
  /\ \A c \in Callers:
       pc[c] = "done" /\ Task(c).op = "capset" =>
         IF got[c] # None THEN got[c].set.id = Task(c).id /\ got[c].size <= Task(c).room
         ELSE \/ Task(c).id \notin Mask(world.capsets)
              \/ budget < world.faults
              \/ HostInfo(Task(c).id).size > PageRoom

\* A device has one query buffer: the host makes another only after an attempt failed.
OneQueryBuffer ==
  \A d \in Devices: created[d] <= 1 + (world.faults - budget)

\* Every escape has returned.
AllReturned == \A c \in Callers: pc[c] = "done"
=============================================================================
