----------------------------- MODULE VirtQueue ------------------------------
(***************************************************************************)
(* VirtQueue of virtio-drivers/src/queue.rs: the split virtqueue, down to  *)
(* the free list threaded through desc_shadow, the indirect lists, the two *)
(* rings, their wrapping indices and the suppression of notifications.     *)
(*                                                                         *)
(* add() is cut where the device can look: the descriptors and the ring    *)
(* slot are written, then the index is published, then should_notify() is  *)
(* asked.  The index is a Release store and avail_event or flags an        *)
(* Acquire load, with no fence in between, so on a machine with store      *)
(* buffers (tso) the load may be served before the store is visible.       *)
(* Callers poll with can_pop, so the suppression of interrupts (used_event,*)
(* set_dev_notify) is left out.                                            *)
(***************************************************************************)
EXTENDS Integers, Sequences, FiniteSets

CONSTANTS
    SIZE,       \* descriptors and ring slots, a power of 2
    IDX,        \* the indices wrap at IDX, which stands for 2^16
    Requests,   \* buffer lists a caller may pass to add
    None

ASSUME VirtQueueAssumption ==
    /\ SIZE \in Nat \ {0} /\ IDX \in Nat /\ IDX % SIZE = 0 /\ IDX > SIZE
    /\ None \notin Requests \cup (0 .. SIZE)

Descs == 0 .. SIZE - 1
Buffers(r, n) == [k \in 1 .. n |-> <<r, k>>]    \* InputOutputIter

VARIABLES
    indirect, event_idx, tso,                   \* negotiated; the machine
    desc_shadow, desc, free_head, num_used, indirect_lists,
    ring, avail_idx, pub_idx,                   \* avail.ring; ours; avail.idx as the device sees it
    used, used_idx, last_used_idx,              \* used.ring, used.idx
    avail_event, no_notify,                     \* used.avail_event, used.flags
    reqs,                                       \* what each caller has in the queue
    pc,                                         \* where the driver's thread is
    dev, dev_avail, fetched, kicked             \* the device

descs == <<desc_shadow, desc, free_head, num_used, indirect_lists>>
avail == <<ring, avail_idx, pub_idx>>
usedRing == <<used, used_idx>>
device == <<dev, dev_avail, fetched, kicked>>
suppress == <<avail_event, no_notify>>
vars == <<indirect, event_idx, tso, descs, avail, usedRing, last_used_idx, suppress, reqs, pc, device>>

Unset == [addr |-> None, next |-> 0, flags |-> {}]
Idle == [token |-> None, len |-> 0]

\* Descriptor::set_buf, unset_buf and next.
SetBuf(d, addr, flags) == [d EXCEPT !.addr = addr, !.flags = flags]
UnsetBuf(d) == [d EXCEPT !.addr = None]
NextOf(d) == IF "NEXT" \in d.flags THEN d.next ELSE None

\* VirtQueue::init: descriptor i points to i + 1, the last one past the end.
Init ==
    /\ indirect \in BOOLEAN /\ event_idx \in BOOLEAN /\ tso \in BOOLEAN
    /\ desc_shadow = [i \in Descs |-> [Unset EXCEPT !.next = i + 1]]
    /\ desc = [i \in Descs |-> [Unset EXCEPT !.next = IF i < SIZE - 1 THEN i + 1 ELSE 0]]
    /\ free_head = 0 /\ num_used = 0 /\ indirect_lists = [i \in Descs |-> <<>>]
    /\ ring = [i \in Descs |-> 0] /\ avail_idx = 0 /\ pub_idx = 0
    /\ used = [i \in Descs |-> 0] /\ used_idx = 0 /\ last_used_idx = 0
    /\ avail_event = 0 /\ no_notify = FALSE
    /\ reqs = [r \in Requests |-> Idle] /\ pc = "idle"
    /\ dev = "sleep" /\ dev_avail = 0 /\ fetched = [i \in Descs |-> <<>>] /\ kicked = FALSE

-----------------------------------------------------------------------------
(* The driver.                                                             *)

\* The first n descriptors of the free list.
FreeChain(n) ==
    LET follow[k \in 1 .. n] == IF k = 1 THEN free_head ELSE desc_shadow[follow[k - 1]].next
    IN  follow

QueueFull(n) == num_used + 1 > SIZE \/ n > SIZE \/ (~indirect /\ num_used + n > SIZE)

\* Mutant: the last descriptor of a chain keeps its NEXT flag.
AddDirectUnterminated(r, n) ==
    LET c == FreeChain(n)
        set == [i \in Descs |-> IF \E k \in 1 .. n : c[k] = i
                   THEN LET k == CHOOSE j \in 1 .. n : c[j] = i
                        IN  SetBuf(desc_shadow[i], <<r, k>>, {"NEXT"})
                   ELSE desc_shadow[i]]
    IN  /\ desc_shadow' = set
        /\ desc' = [i \in Descs |-> IF \E k \in 1 .. n : c[k] = i THEN set[i] ELSE desc[i]]
        /\ free_head' = desc_shadow[c[n]].next
        /\ num_used' = num_used + n
        /\ UNCHANGED indirect_lists

\* add_direct: one descriptor per buffer, written to the shadow and copied (write_desc).
AddDirect(r, n) ==
    LET c == FreeChain(n)
        set == [i \in Descs |-> IF \E k \in 1 .. n : c[k] = i
                   THEN LET k == CHOOSE j \in 1 .. n : c[j] = i
                        IN  SetBuf(desc_shadow[i], <<r, k>>, IF k = n THEN {} ELSE {"NEXT"})
                   ELSE desc_shadow[i]]
    IN  /\ desc_shadow' = set
        /\ desc' = [i \in Descs |-> IF \E k \in 1 .. n : c[k] = i THEN set[i] ELSE desc[i]]
        /\ free_head' = desc_shadow[c[n]].next
        /\ num_used' = num_used + n
        /\ UNCHANGED indirect_lists

\* add_indirect: one descriptor that points to a list of its own.
AddIndirect(r, n) ==
    LET head == free_head
        d == SetBuf(desc_shadow[head], <<None, head>>, {"INDIRECT"})
    IN  /\ indirect_lists' = [indirect_lists EXCEPT ![head] = Buffers(r, n)]
        /\ desc_shadow' = [desc_shadow EXCEPT ![head] = d] /\ desc' = [desc EXCEPT ![head] = d]
        /\ free_head' = d.next
        /\ num_used' = num_used + 1

\* add(), up to the ring slot; QueueFull is answered before anything is written.
Add(r, n) ==
    /\ pc = "idle" /\ reqs[r] = Idle /\ ~QueueFull(n)
    /\ IF indirect /\ n > 1 THEN AddIndirect(r, n) ELSE AddDirect(r, n)
    /\ ring' = [ring EXCEPT ![avail_idx % SIZE] = free_head]
    /\ reqs' = [reqs EXCEPT ![r] = [token |-> free_head, len |-> n]]
    /\ pc' = "publish"
    /\ UNCHANGED <<indirect, event_idx, tso, avail_idx, pub_idx, usedRing, last_used_idx, suppress, device>>

\* The index is stored; without a store buffer the device sees it at once.
Publish ==
    /\ pc = "publish"
    /\ avail_idx' = (avail_idx + 1) % IDX
    /\ pub_idx' = IF tso THEN pub_idx ELSE avail_idx'
    /\ pc' = "notify"
    /\ UNCHANGED <<indirect, event_idx, tso, descs, ring, usedRing, last_used_idx, suppress, reqs, device>>

\* The store leaves the store buffer.
Commit ==
    /\ pub_idx # avail_idx /\ (pc = "publish" => tso)
    /\ pub_idx' = (pub_idx + 1) % IDX
    /\ UNCHANGED <<indirect, event_idx, tso, descs, ring, avail_idx, usedRing, last_used_idx,
                   suppress, reqs, pc, device>>

\* Mutant: one add late, as if avail_event named the last entry seen.
ShouldNotifyLate ==
    IF event_idx THEN avail_idx > (avail_event + 1) % IDX ELSE ~no_notify

\* should_notify: a plain comparison of wrapping indices.
ShouldNotify ==
    IF event_idx THEN avail_idx >= (avail_event + 1) % IDX ELSE ~no_notify

\* The caller notifies; the register write drains the store buffer before it.
Notify ==
    /\ pc = "notify"
    /\ pc' = "idle"
    /\ IF ShouldNotify THEN kicked' = TRUE /\ pub_idx' = avail_idx
                       ELSE UNCHANGED <<kicked, pub_idx>>
    /\ UNCHANGED <<indirect, event_idx, tso, descs, ring, avail_idx, usedRing, last_used_idx,
                   suppress, reqs, dev, dev_avail, fetched>>

\* The chain that starts at head, as recycle_descriptors walks the shadow.
ShadowChain(head, n) ==
    LET walk[k \in 1 .. n] ==
            IF k = 1 THEN head
            ELSE IF walk[k - 1] = None THEN None ELSE NextOf(desc_shadow[walk[k - 1]])
    IN  walk

\* Mutant: the chain is not linked back to the rest of the free list.
RecycleUnlinked(head, n) ==
    /\ free_head' = head
    /\ IF "INDIRECT" \in desc_shadow[head].flags
       THEN /\ desc_shadow' = [desc_shadow EXCEPT ![head].addr = None]
            /\ indirect_lists' = [indirect_lists EXCEPT ![head] = <<>>]
            /\ num_used' = num_used - 1
            /\ UNCHANGED desc
       ELSE LET c == ShadowChain(head, n)
                set == [i \in Descs |-> IF \E k \in 1 .. n : c[k] = i
                           THEN UnsetBuf(desc_shadow[i]) ELSE desc_shadow[i]]
            IN  /\ desc_shadow' = set
                /\ desc' = [i \in Descs |-> IF \E k \in 1 .. n : c[k] = i THEN set[i] ELSE desc[i]]
                /\ num_used' = num_used - n
                /\ UNCHANGED indirect_lists

\* recycle_descriptors: the chain goes to the front of the free list.
Recycle(head, n) ==
    /\ free_head' = head
    /\ IF "INDIRECT" \in desc_shadow[head].flags
       THEN /\ desc_shadow' = [desc_shadow EXCEPT ![head].addr = None, ![head].next = free_head]
            /\ indirect_lists' = [indirect_lists EXCEPT ![head] = <<>>]
            /\ num_used' = num_used - 1
            /\ UNCHANGED desc
       ELSE LET c == ShadowChain(head, n)
                set == [i \in Descs |-> IF \E k \in 1 .. n : c[k] = i
                           THEN [UnsetBuf(desc_shadow[i]) EXCEPT !.next = IF i = c[n] THEN free_head ELSE @]
                           ELSE desc_shadow[i]]
            IN  /\ desc_shadow' = set
                /\ desc' = [i \in Descs |-> IF \E k \in 1 .. n : c[k] = i THEN set[i] ELSE desc[i]]
                /\ num_used' = num_used - n
                /\ UNCHANGED indirect_lists

\* can_pop, peek_used
CanPop == last_used_idx # used_idx
PeekUsed == IF CanPop THEN used[last_used_idx % SIZE] ELSE None

\* pop_used of r's token; NotReady and WrongToken change nothing.
PopUsed(r) ==
    /\ pc = "idle" /\ reqs[r] # Idle
    /\ CanPop /\ PeekUsed = reqs[r].token
    /\ Recycle(reqs[r].token, reqs[r].len)
    /\ last_used_idx' = (last_used_idx + 1) % IDX
    /\ reqs' = [reqs EXCEPT ![r] = Idle]
    /\ UNCHANGED <<indirect, event_idx, tso, avail, usedRing, suppress, pc, device>>

-----------------------------------------------------------------------------
(* The device (external): it takes chains in ring order, completes them in *)
(* any order, and before it sleeps it allows notifications and looks again.*)

DeviceChain(head) ==
    IF "INDIRECT" \in desc[head].flags THEN indirect_lists[head]
    ELSE LET walk[k \in 1 .. SIZE + 1] ==
                 IF k = 1 THEN head
                 ELSE IF walk[k - 1] = None THEN None ELSE NextOf(desc[walk[k - 1]])
             n == Cardinality({k \in 1 .. SIZE + 1 : walk[k] # None})
         IN  [k \in 1 .. n |-> desc[walk[k]].addr]

DeviceFetch ==
    /\ dev = "awake" /\ dev_avail # pub_idx
    /\ LET head == ring[dev_avail % SIZE]
       IN  fetched' = [fetched EXCEPT ![head] = DeviceChain(head)]
    /\ dev_avail' = (dev_avail + 1) % IDX
    /\ no_notify' \in IF event_idx THEN {FALSE} ELSE {no_notify, TRUE}
    /\ UNCHANGED <<indirect, event_idx, tso, descs, avail, usedRing, last_used_idx, avail_event,
                   reqs, pc, dev, kicked>>

DeviceUse(head) ==
    /\ fetched[head] # <<>>
    /\ fetched' = [fetched EXCEPT ![head] = <<>>]
    /\ used' = [used EXCEPT ![used_idx % SIZE] = head]
    /\ used_idx' = (used_idx + 1) % IDX
    /\ UNCHANGED <<indirect, event_idx, tso, descs, avail, last_used_idx, suppress, reqs, pc,
                   dev, dev_avail, kicked>>

DeviceIdle ==
    /\ dev = "awake" /\ dev_avail = pub_idx
    /\ dev' = "check" /\ no_notify' = FALSE
    /\ avail_event' = IF event_idx THEN dev_avail ELSE avail_event
    /\ UNCHANGED <<indirect, event_idx, tso, descs, avail, usedRing, last_used_idx, reqs, pc,
                   dev_avail, fetched, kicked>>

DeviceRecheck ==
    /\ dev = "check"
    /\ dev' = IF dev_avail # pub_idx THEN "awake" ELSE "sleep"
    /\ UNCHANGED <<indirect, event_idx, tso, descs, avail, usedRing, last_used_idx, suppress, reqs,
                   pc, dev_avail, fetched, kicked>>

DeviceWake ==
    /\ dev = "sleep" /\ kicked
    /\ dev' = "awake" /\ kicked' = FALSE
    /\ UNCHANGED <<indirect, event_idx, tso, descs, avail, usedRing, last_used_idx, suppress, reqs,
                   pc, dev_avail, fetched>>

-----------------------------------------------------------------------------
Driver ==
    \/ \E r \in Requests : (\E n \in 1 .. SIZE : Add(r, n)) \/ PopUsed(r)
    \/ Publish \/ Notify

Device == DeviceFetch \/ (\E h \in Descs : DeviceUse(h)) \/ DeviceIdle \/ DeviceRecheck \/ DeviceWake

Next == Driver \/ Commit \/ Device

\* The driver's calls run to their end and used buffers are popped, store
\* buffers drain, and the device works off what it has seen.
Fairness ==
    /\ WF_vars(Publish) /\ WF_vars(Notify) /\ WF_vars(Commit) /\ WF_vars(\E r \in Requests : PopUsed(r))
    /\ WF_vars(Device) /\ \A h \in Descs : WF_vars(DeviceUse(h))

Spec == Init /\ [][Next]_vars /\ Fairness

-----------------------------------------------------------------------------
(* Properties.                                                             *)

InQueue == {r \in Requests : reqs[r] # Idle}

\* The descriptors of the requests in the queue and of the free list, each
\* once: a free list of SIZE - num_used entries that ends past the table.
\* This is what lets recycle_descriptors find neither a shorter nor a longer
\* chain than the caller's buffers (its panics), whatever order the device
\* completes them in, and what add_indirect asserts of its list.
DescriptorsPartitioned ==
    LET chain(r) == IF "INDIRECT" \in desc_shadow[reqs[r].token].flags
                    THEN <<reqs[r].token>> ELSE ShadowChain(reqs[r].token, reqs[r].len)
        free == FreeChain(SIZE - num_used)
        Chains == {<<None, k>> : k \in DOMAIN free}
                      \cup UNION {{<<r, k>> : k \in DOMAIN chain(r)} : r \in InQueue}
        at(e) == IF e[1] = None THEN free[e[2]] ELSE chain(e[1])[e[2]]
    IN  /\ Cardinality(Chains) = SIZE
        /\ {at(e) : e \in Chains} = Descs
        /\ \A r \in InQueue : "NEXT" \notin desc_shadow[chain(r)[Len(chain(r))]].flags
        /\ \A i \in Descs : indirect_lists[i] # <<>> =>
               \E r \in InQueue : reqs[r].token = i /\ indirect_lists[i] = Buffers(r, reqs[r].len)

\* Whatever chain the device holds is the buffer list of one request in the
\* queue, complete and in order: no slot or descriptor is reused under it,
\* and none is visible before it is filled.
DeviceSeesRequests ==
    \A h \in Descs : fetched[h] # <<>> =>
        \E r \in InQueue : reqs[r].token = h /\ fetched[h] = Buffers(r, reqs[r].len)

\* A device that sleeps has seen every published entry or has been notified:
\* should_notify() "will be false if the device has suppressed notifications"
\* and, the caller relies on it, only then.
NoMissedKick ==
    dev = "sleep" /\ dev_avail # pub_idx /\ pc = "idle" => kicked

\* Without store buffers, every request added is used and popped, across the
\* wrap of the indices and for both ways of suppressing notifications.
EveryRequestPopped ==
    \A r \in Requests : ~tso /\ reqs[r] # Idle ~> reqs[r] = Idle
=============================================================================
