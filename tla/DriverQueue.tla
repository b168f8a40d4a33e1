---------------------------- MODULE DriverQueue ----------------------------
(***************************************************************************)
(* A VirtQueue as the drivers above it use it: a stack of free             *)
(* descriptors, the chains given to the device, and the ring of the chains *)
(* it has used, in the device's order.  A chain is named by its first      *)
(* descriptor, its token.  How the rings bring this about is the matter of *)
(* module VirtQueue.                                                       *)
(***************************************************************************)
LOCAL INSTANCE Naturals
LOCAL INSTANCE Sequences

NoChains == [t \in {} |-> t]

NewVirtQueue(size, indirect) ==
    [size |-> size, indirect |-> indirect, free |-> [i \in 1 .. size |-> i - 1],
     chains |-> NoChains, used |-> <<>>]

\* A chain of several buffers takes one descriptor of the ring when they are indirect.
Needed(q, n) == IF q.indirect THEN 1 ELSE n

AvailableDesc(q) ==
    CASE ~q.indirect -> Len(q.free) [] q.indirect /\ q.free = <<>> -> 0 [] OTHER -> q.size

CanAdd(q, n) == Len(q.free) >= Needed(q, n) /\ n <= q.size

\* add: n buffers, and c, what they are about.
Token(q) == Head(q.free)
AddChain(q, n, c) ==
    LET k == Needed(q, n)
        t == Token(q)
    IN  [q EXCEPT !.free = SubSeq(q.free, k + 1, Len(q.free)),
                  !.chains = [u \in DOMAIN q.chains \cup {t} |->
                                IF u = t THEN [descs |-> SubSeq(q.free, 1, k), about |-> c] ELSE q.chains[u]]]

CanPop(q) == q.used # <<>>
PeekUsed(q) == Head(q.used).tok

\* Mutant: whatever was used is taken for the chain asked for.
PopsAny(q, t) == CanPop(q)

\* pop_used returns NotReady, or WrongToken, unless t is the next one used.
Pops(q, t) == CanPop(q) /\ PeekUsed(q) = t

\* Mutant: the descriptors go below the free ones.
PopUsedBelow(q) ==
    LET t == PeekUsed(q)
    IN  [q EXCEPT !.free = q.free \o q.chains[t].descs,
                  !.chains = [u \in DOMAIN q.chains \ {t} |-> q.chains[u]],
                  !.used = Tail(q.used)]

\* The descriptors of a chain go back on top of the free ones, in their order.
PopUsed(q) ==
    LET t == PeekUsed(q)
    IN  [q EXCEPT !.free = q.chains[t].descs \o q.free,
                  !.chains = [u \in DOMAIN q.chains \ {t} |-> q.chains[u]],
                  !.used = Tail(q.used)]

Response(q) == Head(q.used).resp

\* The device has used chain t and written resp into its buffers.
Held(q) == DOMAIN q.chains \ {q.used[i].tok : i \in 1 .. Len(q.used)}
Use(q, t, resp) == [q EXCEPT !.used = Append(q.used, [tok |-> t, resp |-> resp])]
=============================================================================
