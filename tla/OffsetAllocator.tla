--------------------------- MODULE OffsetAllocator ---------------------------
(***************************************************************************)
(* The offset allocator that hands out the pages of the host-visible       *)
(* window: free regions are kept in lists, one per size class, and the     *)
(* regions of the whole space are linked to their neighbours so that a     *)
(* freed one is merged with them.  A size class is a small floating-point  *)
(* number with a three-bit mantissa; two levels of bit masks find the      *)
(* first class that has a region.  One call runs at a time (the allocator  *)
(* is behind a spin lock), so that a call is one step.                     *)
(***************************************************************************)
EXTENDS Integers, FiniteSets, FiniteSetsExt, Sequences

CONSTANTS
  Space,      \* size of the space, in units
  MaxAllocs,  \* max_allocs: nodes there are
  Requests    \* the sizes asked for

VARIABLES
  a,          \* the Allocator
  live        \* node -> size asked for, of the allocations handed out

vars == <<a, live>>

None == -1
Nodes == 0..MaxAllocs - 1

----------------------------------------------------------------------------
(* small_float *)

HighestBit(size) == CHOOSE k \in 0..30: 2^k <= size /\ size < 2^(k + 1)

RoundDown(size) ==
  IF size < 8 THEN size
  ELSE LET start == HighestBit(size) - 3
       IN  (start + 1) * 8 + ((size \div 2^start) % 8)

\* A mantissa that rounds up to eight carries into the exponent.
RoundUp(size) ==
  IF size < 8 THEN size
  ELSE LET start == HighestBit(size) - 3
       IN  (start + 1) * 8 + ((size \div 2^start) % 8) + (IF size % 2^start # 0 THEN 1 ELSE 0)

FloatToUint(f) == IF f < 8 THEN f ELSE ((f % 8) + 8) * 2^(f \div 8 - 1)

\* ext::min_allocator_size
MinAllocatorSize(size) == FloatToUint(RoundUp(size))

Bins == 0..RoundUp(Space)

----------------------------------------------------------------------------
(* The Allocator: the bits of used_bins and used_bins_top are sets, of bins and of   *)
(* groups of eight bins.                                                             *)

BlankNode == [data_offset |-> 0, data_size |-> 0, bin_list_prev |-> None, bin_list_next |-> None,
              neighbor_prev |-> None, neighbor_next |-> None, used |-> FALSE]

\* find_lowest_bit_set_after
LowestFrom(bits, first) ==
  LET after == {i \in bits: i >= first} IN IF after = {} THEN None ELSE Min(after)

\* The bit of an empty bin is cleared, and that of its group if it was the last.
ClearBits(s, bin) ==
  IF s.bin_indices[bin] # None THEN s
  ELSE LET left == s.used_bins \ {bin}
       IN  [s EXCEPT !.used_bins = left,
                     !.used_bins_top = IF \E i \in left: i \div 8 = bin \div 8 THEN @ ELSE @ \ {bin \div 8}]

\* insert_node_into_bin: the node it takes is s.free_nodes[s.free_offset].
Insert(s, size, offset) ==
  LET bin == RoundDown(size)
      node == s.free_nodes[s.free_offset]
      first == s.bin_indices[bin]
      taken == [s.nodes EXCEPT ![node] = [BlankNode EXCEPT !.data_offset = offset, !.data_size = size,
                                                           !.bin_list_next = first]]
  IN  [s EXCEPT !.used_bins = IF first = None THEN @ \union {bin} ELSE @,
                !.used_bins_top = IF first = None THEN @ \union {bin \div 8} ELSE @,
                !.nodes = IF first = None THEN taken ELSE [taken EXCEPT ![first].bin_list_prev = node],
                !.bin_indices[bin] = node,
                !.free_nodes[s.free_offset] = None,
                !.free_offset = @ - 1,
                !.free_storage = @ + size]

\* A node back on the stack.  What a node off the lists still holds is never read before
\* insert_node_into_bin overwrites it: the model blanks it.
Release(s, node) ==
  [s EXCEPT !.free_offset = @ + 1, !.free_nodes[s.free_offset + 1] = node, !.nodes[node] = BlankNode]

\* Mutant: the list goes on without its head, but the new head still points back.
RemoveStale(s, node) ==
  LET n == s.nodes[node]
      prev == n.bin_list_prev
      bin == RoundDown(n.data_size)
      unlinked == IF prev # None
                  THEN [s EXCEPT !.nodes[prev].bin_list_next = n.bin_list_next]
                  ELSE ClearBits([s EXCEPT !.bin_indices[bin] = n.bin_list_next], bin)
  IN  [Release(unlinked, node) EXCEPT !.free_storage = @ - n.data_size]

\* remove_node_from_bin
Remove(s, node) ==
  LET n == s.nodes[node]
      prev == n.bin_list_prev
      next == n.bin_list_next
      bin == RoundDown(n.data_size)
      back == IF next = None THEN s.nodes ELSE [s.nodes EXCEPT ![next].bin_list_prev = prev]
      unlinked == IF prev # None
                  THEN [s EXCEPT !.nodes = [back EXCEPT ![prev].bin_list_next = next]]
                  ELSE ClearBits([s EXCEPT !.nodes = back, !.bin_indices[bin] = next], bin)
  IN  [Release(unlinked, node) EXCEPT !.free_storage = @ - n.data_size]

\* Mutant: once the group has bits, the search does not go on to later groups.
ChooseBinNear(s, size) ==
  LET min == RoundUp(size)
      top == min \div 8
      later == LowestFrom(s.used_bins_top, top + 1)
  IN  IF top \in s.used_bins_top THEN LowestFrom({i \in s.used_bins: i \div 8 = top}, min)
      ELSE IF later = None THEN None
      ELSE Min({i \in s.used_bins: i \div 8 = later})

\* The bin allocate takes a region from: the smallest class in the group of the rounded
\* size, else the smallest class of a later group; None if there is none.
ChooseBin(s, size) ==
  LET min == RoundUp(size)
      top == min \div 8
      leaf == LowestFrom({i \in s.used_bins: i \div 8 = top}, min)
      later == LowestFrom(s.used_bins_top, top + 1)
  IN  IF top \in s.used_bins_top /\ leaf # None THEN leaf
      ELSE IF later = None THEN None
      ELSE Min({i \in s.used_bins: i \div 8 = later})

\* Mutant: the neighbour after the remainder keeps pointing at the allocation.
SplitUnlinked(s, node, size, total) ==
  LET n == s.nodes[node]
      rest == s.free_nodes[s.free_offset]
      grown == Insert(s, total - size, n.data_offset + size)
  IN  IF total = size THEN s
      ELSE [grown EXCEPT !.nodes[rest].neighbor_prev = node, !.nodes[rest].neighbor_next = n.neighbor_next,
                         !.nodes[node].neighbor_next = rest]

\* The rest of the region goes back to a lower bin, linked between its neighbours.
Split(s, node, size, total) ==
  LET n == s.nodes[node]
      rest == s.free_nodes[s.free_offset]
      grown == Insert(s, total - size, n.data_offset + size)
      nodes == [grown.nodes EXCEPT ![rest].neighbor_prev = node, ![rest].neighbor_next = n.neighbor_next,
                                   ![node].neighbor_next = rest]
  IN  IF total = size THEN s
      ELSE [grown EXCEPT !.nodes = IF n.neighbor_next = None THEN nodes
                                   ELSE [nodes EXCEPT ![n.neighbor_next].neighbor_prev = rest]]

\* allocate: the first region of the bin, None when there is no bin or no node left.
Allocate(size) ==
  LET bin == ChooseBin(a, size)
      node == a.bin_indices[bin]
      n == a.nodes[node]
      next == n.bin_list_next
      marked == [a.nodes EXCEPT ![node].data_size = size, ![node].used = TRUE,
                                  ![node].bin_list_next = None]
      popped == [a EXCEPT !.nodes = IF next = None THEN marked
                                    ELSE [marked EXCEPT ![next].bin_list_prev = None],
                          !.bin_indices[bin] = next,
                          !.free_storage = @ - n.data_size]
  IN  IF a.free_offset = 0 \/ bin = None THEN UNCHANGED vars
      ELSE /\ a' = Split(ClearBits(popped, bin), node, size, n.data_size)
           /\ live' = [m \in DOMAIN live \union {node} |-> IF m = node THEN size ELSE live[m]]

Free1(s, node) == node # None /\ ~s.nodes[node].used

\* Mutant: a free region before the freed one is not merged with it.
MergePrevNot(s, node) == [s |-> s, offset |-> s.nodes[node].data_offset, size |-> s.nodes[node].data_size]

\* The region before, if it is free, is taken out of its bin and added to this one.
MergePrev(s, node) ==
  LET n == s.nodes[node]
      prev == n.neighbor_prev
  IN  IF ~Free1(s, prev) THEN [s |-> s, offset |-> n.data_offset, size |-> n.data_size]
      ELSE [s |-> [Remove(s, prev) EXCEPT !.nodes[node].neighbor_prev = s.nodes[prev].neighbor_prev],
            offset |-> s.nodes[prev].data_offset,
            size |-> n.data_size + s.nodes[prev].data_size]

\* The same with the region after.
MergeNext(m, node) ==
  LET next == m.s.nodes[node].neighbor_next
  IN  IF ~Free1(m.s, next) THEN m
      ELSE [m EXCEPT !.s = [Remove(m.s, next) EXCEPT !.nodes[node].neighbor_next = m.s.nodes[next].neighbor_next],
                     !.size = @ + m.s.nodes[next].data_size]

\* free: the combined region goes into its bin under the node just released.
Free(node) ==
  LET m == MergeNext(MergePrev(a, node), node)
      prev == m.s.nodes[node].neighbor_prev
      next == m.s.nodes[node].neighbor_next
      s == Release(m.s, node)
      combined == s.free_nodes[s.free_offset]
      inserted == Insert(s, m.size, m.offset)
      forth == IF next = None THEN inserted.nodes
               ELSE [inserted.nodes EXCEPT ![combined].neighbor_next = next, ![next].neighbor_prev = combined]
      both == IF prev = None THEN forth
              ELSE [forth EXCEPT ![combined].neighbor_prev = prev, ![prev].neighbor_next = combined]
  IN  /\ a' = [inserted EXCEPT !.nodes = both]
      /\ live' = [m2 \in DOMAIN live \ {node} |-> live[m2]]

\* storage_report: nothing while there is no node left.
StorageReport(s) ==
  IF s.free_offset = 0 THEN [total |-> 0, largest |-> 0]
  ELSE [total |-> s.free_storage,
        largest |-> IF s.used_bins_top = {} THEN 0
                    ELSE FloatToUint(Max({i \in s.used_bins: i \div 8 = Max(s.used_bins_top)}))]

\* storage_report_full, for one bin: its list walked from the head.
Count(s, bin) ==
  LET seen[k \in 0..MaxAllocs] ==
        IF k = 0 THEN <<s.bin_indices[bin], 0>>
        ELSE LET before == seen[k - 1]
             IN  IF before[1] = None THEN before
                 ELSE <<s.nodes[before[1]].bin_list_next, before[2] + 1>>
  IN  seen[MaxAllocs][2]

----------------------------------------------------------------------------
\* The state after reset: one node for the whole space.  free_nodes is a stack with its
\* top at free_offset.
Fresh ==
  Insert([free_storage |-> 0, used_bins_top |-> {}, used_bins |-> {},
          bin_indices |-> [i \in Bins |-> None],
          nodes |-> [i \in Nodes |-> BlankNode],
          free_nodes |-> [i \in Nodes |-> MaxAllocs - i - 1],
          free_offset |-> MaxAllocs - 1], Space, 0)

NoneLive == [m \in {} |-> 0]

Init == a = Fresh /\ live = NoneLive

Reset == a' = Fresh /\ live' = NoneLive

Next ==
  \/ Reset
  \/ \E size \in Requests: Allocate(size)
  \/ \E node \in DOMAIN live: Free(node)

Spec == Init /\ [][Next]_vars

----------------------------------------------------------------------------
(* Properties. *)

Free0 == {a.free_nodes[i]: i \in 0..a.free_offset}
InUse == Nodes \ Free0
FreeRegions == {n \in InUse: ~a.nodes[n].used}
End(n) == a.nodes[n].data_offset + a.nodes[n].data_size

\* The regions tile the space: each node's neighbour starts where it ends and points back
\* at it, the handed-out ones are exactly those marked used with the size asked for, and
\* no two free neighbours are left unmerged.  In particular no two allocations overlap.
RegionsTile ==
  /\ \E first \in InUse: a.nodes[first].data_offset = 0 /\ a.nodes[first].neighbor_prev = None
  /\ \A n \in InUse:
       LET next == a.nodes[n].neighbor_next
       IN  IF next = None THEN End(n) = Space
           ELSE /\ next \in InUse
                /\ a.nodes[next].data_offset = End(n)
                /\ a.nodes[next].neighbor_prev = n
                /\ a.nodes[n].used \/ a.nodes[next].used
  /\ {n \in InUse: a.nodes[n].used} = DOMAIN live
  /\ \A n \in DOMAIN live: a.nodes[n].data_size = live[n]   \* allocation_size

\* What the bins say is so: each list holds regions of its class, doubly linked, every
\* free region is on one, the bits are set for exactly the bins that have a list, and
\* free_storage is what the free regions add up to.
BinsAgree ==
  /\ \A n \in FreeRegions:
       LET r == a.nodes[n]
           bin == RoundDown(r.data_size)
       IN  /\ IF r.bin_list_prev = None THEN a.bin_indices[bin] = n
              ELSE r.bin_list_prev \in FreeRegions /\ a.nodes[r.bin_list_prev].bin_list_next = n
           /\ r.bin_list_next # None => r.bin_list_next \in FreeRegions /\ a.nodes[r.bin_list_next].bin_list_prev = n
  /\ \A bin \in Bins: a.bin_indices[bin] # None =>
       a.bin_indices[bin] \in FreeRegions /\ RoundDown(a.nodes[a.bin_indices[bin]].data_size) = bin
  /\ \A bin \in Bins: Count(a, bin) = Cardinality({n \in FreeRegions: RoundDown(a.nodes[n].data_size) = bin})
  /\ a.used_bins = {bin \in Bins: a.bin_indices[bin] # None}
  /\ a.used_bins_top = {bin \div 8: bin \in a.used_bins}
  /\ a.free_storage = MapThenSumSet(LAMBDA n: a.nodes[n].data_size, FreeRegions)

\* The report can be relied on: while there are nodes, a region of the size it calls the
\* largest can be had; a request is refused only when every free region, rounded down to
\* its class, is smaller than the request rounded up to one; and a region as large as
\* min_allocator_size says always serves it.
ReportHonest ==
  LET r == StorageReport(a)
      got(size) == a.free_offset > 0 /\ ChooseBin(a, size) # None
  IN  /\ r.largest > 0 => got(r.largest)
      /\ r.largest <= r.total
      /\ \A size \in Requests:
           got(size) <=> /\ a.free_offset > 0
                         /\ \E n \in FreeRegions:
                              FloatToUint(RoundDown(a.nodes[n].data_size)) >= MinAllocatorSize(size)
=============================================================================
