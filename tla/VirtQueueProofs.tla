-------------------------- MODULE VirtQueueProofs ---------------------------
(***************************************************************************)
(* Proofs about VirtQueue, for any number of descriptors that divides the  *)
(* wrap of the indices and any set of requests: the descriptors are        *)
(* divided between the free list and the chains of the requests, and the   *)
(* device reads the buffers of requests that are in the queue.             *)
(*                                                                         *)
(* The invariant is that of the lists, and that every index is a position  *)
(* that only grows, taken modulo IDX.                                      *)
(***************************************************************************)
EXTENDS VirtQueueLists

\* Zenon first: the leaves that need arithmetic, records or sequences name SMT.
USE ZenonT(30), SMTT(30)

-----------------------------------------------------------------------------
(* Remainders: the indices wrap, and a slot is an index & (SIZE - 1).      *)

\* The quotient and the remainder.
LEMMA Division ==
    ASSUME NEW m \in Nat \ {0}, NEW x \in Nat
    PROVE  /\ x = (m * (x \div m)) + (x % m)
           /\ x \div m \in Nat /\ x % m \in 0 .. m - 1
BY SMTT(30)

\* A larger quotient is a whole divisor larger.
LEMMA Times ==
    ASSUME NEW m \in Nat \ {0}, NEW q \in Nat, NEW p \in Nat, q < p
    PROVE  m * p >= (m * q) + m /\ m * p \in Nat /\ m * q \in Nat
<1>1. PICK d \in Nat : p = q + 1 + d
  <2>1. p - q - 1 \in Nat /\ p = q + 1 + (p - q - 1)
    BY SMTT(30)
  <2> QED BY <2>1
<1>2. m * p = (m * q) + m + (m * d)
  BY <1>1, SMTT(30)
<1>3. m * d \in Nat /\ m * q \in Nat
  BY SMTT(30)
<1> QED BY <1>2, <1>3, SMTT(30)

\* Equal summands cancel.
LEMMA Cancel ==
    ASSUME NEW w \in Nat, NEW r \in Nat, NEW s \in Nat, w + r = w + s
    PROVE  r = s
BY SMTT(30)

\* The remainder is the only number below m that differs by a multiple of m.
LEMMA Remainder ==
    ASSUME NEW m \in Nat \ {0}, NEW x \in Nat, NEW q \in Nat, NEW r \in 0 .. m - 1, x = (m * q) + r
    PROVE  x % m = r
<1>1. PICK p \in Nat, s \in 0 .. m - 1 : x = (m * p) + s /\ s = x % m
  BY Division
<1>2. ~(p < q)
  BY <1>1, Times, SMTT(30)
<1>3. ~(q < p)
  BY <1>1, Times, SMTT(30)
<1>4. p = q
  BY <1>2, <1>3, SMTT(30)
<1>5. m * p \in Nat /\ r \in Nat /\ s \in Nat
  BY <1>1, SMTT(30)
<1>6. (m * p) + r = (m * p) + s
  BY <1>1, <1>4
<1>7. r = s
  BY <1>5, <1>6, Cancel
<1> QED BY <1>1, <1>7

\* Adding 1 to a wrapped index gives the wrapped next position (wrapping_add).
LEMMA NextRemainder ==
    ASSUME NEW m \in Nat \ {0}, NEW x \in Nat
    PROVE  (x + 1) % m = ((x % m) + 1) % m
<1>1. PICK q \in Nat, r \in 0 .. m - 1 : x = (m * q) + r /\ r = x % m
  BY Division
<1>2. x = (m * q) + r /\ q \in Nat /\ r \in 0 .. m - 1 /\ q + 1 \in Nat /\ x + 1 \in Nat
  BY <1>1, SMTT(30)
<1>3. r = x % m
  BY <1>1
<1>4. CASE r + 1 = m
  <2>1. x + 1 = (m * (q + 1)) + 0 /\ 0 \in 0 .. m - 1
    BY <1>2, <1>4, SMTT(30)
  <2>2. (x + 1) % m = 0
    BY <1>2, <2>1, Remainder
  <2>3. r + 1 = (m * 1) + 0 /\ r + 1 \in Nat /\ 1 \in Nat
    BY <1>2, <1>4, SMTT(30)
  <2>4. (r + 1) % m = 0
    BY <2>1, <2>3, Remainder
  <2> QED BY <1>3, <2>2, <2>4
<1>5. CASE r + 1 # m
  <2>1. x + 1 = (m * q) + (r + 1) /\ r + 1 \in 0 .. m - 1
    BY <1>2, <1>5, SMTT(30)
  <2>2. (x + 1) % m = r + 1
    BY <1>2, <2>1, Remainder
  <2>3. r + 1 = (m * 0) + (r + 1) /\ r + 1 \in Nat /\ 0 \in Nat
    BY <1>2, SMTT(30)
  <2>4. (r + 1) % m = r + 1
    BY <2>1, <2>3, Remainder
  <2> QED BY <1>3, <2>2, <2>4
<1> QED BY <1>4, <1>5

\* Two positions less than m apart have different remainders: different slots.
LEMMA Apart ==
    ASSUME NEW m \in Nat \ {0}, NEW x \in Nat, NEW y \in Nat, x < y, y < x + m
    PROVE  x % m # y % m
<1>1. PICK q \in Nat, r \in 0 .. m - 1 : x = (m * q) + r /\ r = x % m
  BY Division
<1>2. PICK p \in Nat, s \in 0 .. m - 1 : y = (m * p) + s /\ s = y % m
  BY Division
<1>3. SUFFICES ASSUME r = s PROVE FALSE
  BY <1>1, <1>2
<1>4. /\ x = (m * q) + r /\ y = (m * p) + r /\ q \in Nat /\ p \in Nat
      /\ m * p \in Nat /\ m * q \in Nat /\ r \in Nat
  BY <1>1, <1>2, <1>3, SMTT(30)
<1>5. ~(q < p)
  BY <1>4, Times, SMTT(30)
<1>6. ~(p < q)
  BY <1>4, Times, SMTT(30)
<1>7. p = q
  BY <1>4, <1>5, <1>6, SMTT(30)
<1>8. x = y
  BY <1>4, <1>7
<1> QED BY <1>8, SMTT(30)

\* The slot of a wrapped index is the slot of its position, as SIZE divides 2^16.
LEMMA SameSlot ==
    ASSUME NEW m \in Nat \ {0}, NEW n \in Nat \ {0}, n % m = 0, NEW x \in Nat
    PROVE  (x % n) % m = x % m
<1>1. PICK q \in Nat, r \in 0 .. n - 1 : x = (n * q) + r /\ r = x % n
  BY Division
<1>2. PICK c \in Nat : n = m * c
  <2>1. n = (m * (n \div m)) + (n % m) /\ n \div m \in Nat
    BY Division
  <2>2. n = m * (n \div m)
    BY <2>1, SMTT(30)
  <2> QED BY <2>1, <2>2
<1>3. r \in Nat /\ q \in Nat /\ x = (n * q) + r
  BY <1>1, SMTT(30)
<1>4. PICK p \in Nat, s \in 0 .. m - 1 : r = (m * p) + s /\ s = r % m
  BY <1>3, Division
<1>5. r = (m * p) + s /\ p \in Nat /\ s \in 0 .. m - 1
  BY <1>4
<1>6. x = (m * ((c * q) + p)) + s /\ (c * q) + p \in Nat
  <2>1. n * q = m * (c * q) /\ c * q \in Nat
    BY <1>3, <1>2, SMTT(30)
  <2>2. PICK d \in Nat : d = c * q
    BY <2>1
  <2>3. m * (d + p) = (m * d) + (m * p) /\ m * d \in Nat /\ m * p \in Nat
    BY <1>5, <2>2, SMTT(30)
  <2>4. x = (m * d) + ((m * p) + s)
    BY <1>3, <1>5, <2>1, <2>2
  <2>5. PICK g \in Nat, h \in Nat : g = m * d /\ h = m * p
    BY <2>3
  <2>6. g + (h + s) = (g + h) + s
    BY <1>5, <2>5, SMTT(30)
  <2>7. x = (m * (d + p)) + s
    BY <2>3, <2>4, <2>5, <2>6
  <2>8. d + p \in Nat
    BY <1>5, <2>2, SMTT(30)
  <2> QED BY <2>2, <2>7, <2>8
<1>7. x % m = s
  BY <1>5, <1>6, Remainder
<1> QED BY <1>1, <1>4, <1>7

-----------------------------------------------------------------------------
(* The rings.                                                              *)

\* The entries from position a up to, not including, b of a ring are distinct, and
\* none has been overwritten: there are at most SIZE.
Queue(f, a, b) ==
    /\ a \in Nat /\ b \in Nat /\ a <= b /\ b <= a + SIZE /\ f \in [Descs -> Descs]
    /\ \A x, y \in a .. b - 1 : f[x % SIZE] = f[y % SIZE] => x = y

Entries(f, a, b) == {f[x % SIZE] : x \in a .. b - 1}

\* The slots and the increments of wrapped indices.
LEMMA Slot ==
    ASSUME NEW x \in Nat
    PROVE  x % SIZE \in Descs /\ (x % IDX) % SIZE = x % SIZE
           /\ (x + 1) % IDX = ((x % IDX) + 1) % IDX
<1>1. SIZE \in Nat \ {0} /\ IDX \in Nat \ {0} /\ IDX % SIZE = 0
  BY VirtQueueAssumption, SMTT(30)
<1>2. x % SIZE \in Descs
  BY <1>1, Division DEF Descs
<1>3. (x % IDX) % SIZE = x % SIZE
  BY <1>1, SameSlot
<1>4. (x + 1) % IDX = ((x % IDX) + 1) % IDX
  BY <1>1, NextRemainder
<1> QED BY <1>2, <1>3, <1>4

\* f maps m numbers to n numbers without repetition.
Embeds(f, m, n) ==
    f \in [0 .. m - 1 -> 0 .. n - 1] /\ \A x, y \in 0 .. m - 1 : f[x] = f[y] => x = y

\* Then there are at least m of the n.
LEMMA PigeonHole ==
    ASSUME NEW m \in Nat, NEW n \in Nat, NEW f, Embeds(f, m, n)
    PROVE  m <= n
<1>k. PICK K : K = {k \in Nat : \A j \in Nat : (\E h : Embeds(h, j, k)) => j <= k}
  OBVIOUS
<1>1. 0 \in K
  <2>1. ASSUME NEW j \in Nat, NEW h, Embeds(h, j, 0) PROVE j <= 0
    <3>1. SUFFICES ASSUME j > 0 PROVE FALSE
      BY SMTT(30)
    <3>2. h[0] \in 0 .. 0 - 1
      BY <2>1, <3>1, SMTT(30) DEF Embeds
    <3> QED BY <3>2, SMTT(30)
  <2> QED BY <2>1, <1>k
<1>2. ASSUME NEW k \in 0 .. n - 1, k \in K PROVE k + 1 \in K
  <2>1. ASSUME NEW j \in Nat, NEW h, Embeds(h, j, k + 1), j > 0 PROVE j <= k + 1
    <3>g. PICK g : g = [x \in 0 .. (j - 1) - 1 |-> IF h[x] = k THEN h[j - 1] ELSE h[x]]
      OBVIOUS
    <3>1. /\ j - 1 \in 0 .. j - 1 /\ j - 1 \in Nat /\ k \in Nat
          /\ \A x \in 0 .. (j - 1) - 1 : x \in 0 .. j - 1 /\ x # j - 1
      BY <2>1, SMTT(30)
    <3>2. \A x \in 0 .. j - 1 : h[x] \in 0 .. k
      BY <2>1, <3>1, SMTT(30) DEF Embeds
    <3>3. \A x, y \in 0 .. j - 1 : h[x] = h[y] => x = y
      BY <2>1 DEF Embeds
    <3>4. \A x \in 0 .. (j - 1) - 1 : g[x] = IF h[x] = k THEN h[j - 1] ELSE h[x]
      BY <3>g
    <3>5. \A x \in 0 .. (j - 1) - 1 : g[x] \in 0 .. k - 1
      <4> TAKE x \in 0 .. (j - 1) - 1
      <4>1. g[x] \in 0 .. k /\ g[x] # k
        BY <3>1, <3>2, <3>3, <3>4
      <4> QED BY <4>1, <3>1, SMTT(30)
    <3>6. \A x, y \in 0 .. (j - 1) - 1 : g[x] = g[y] => x = y
      BY <3>1, <3>3, <3>4
    <3>7. Embeds(g, j - 1, k)
      BY <3>5, <3>6, <3>g DEF Embeds
    <3>8. j - 1 <= k
      BY <3>1, <3>7, <1>2, <1>k
    <3> QED BY <3>8, <3>1, SMTT(30)
  <2>2. \A j \in Nat : (\E h : Embeds(h, j, k + 1)) => j <= k + 1
    BY <2>1, SMTT(30)
  <2> QED BY <2>2, <1>k, SMTT(30)
<1>3. n \in K
  BY <1>1, <1>2, SetInduction, SMTT(30)
<1> QED BY <1>3, <1>k

\* Entries that are distinct are at most as many as there are descriptors.
LEMMA RingBound ==
    ASSUME NEW a \in Nat, NEW b \in Nat, a <= b, NEW s \in [a .. b -> Descs],
           \A x, y \in a .. b : s[x] = s[y] => x = y
    PROVE  b + 1 <= a + SIZE
<1>1. SIZE \in Nat /\ Descs = 0 .. SIZE - 1
  BY VirtQueueAssumption DEF Descs
<1>m. PICK m : m = (b - a) + 1
  OBVIOUS
<1>f. PICK f : f = [x \in 0 .. m - 1 |-> s[a + x]]
  OBVIOUS
<1>2. m \in Nat /\ \A x \in 0 .. m - 1 : a + x \in a .. b
  BY <1>m, SMTT(30)
<1>3. Embeds(f, m, SIZE)
  <2>1. \A x \in 0 .. m - 1 : f[x] = s[a + x] /\ f[x] \in 0 .. SIZE - 1
    BY <1>1, <1>2, <1>f
  <2>2. ASSUME NEW x \in 0 .. m - 1, NEW y \in 0 .. m - 1, f[x] = f[y] PROVE x = y
    <3>1. s[a + x] = s[a + y] /\ a + x \in a .. b /\ a + y \in a .. b
      BY <2>1, <2>2, <1>2
    <3>2. a + x = a + y
      BY <3>1
    <3>3. x \in Int /\ y \in Int
      BY <1>2, SMTT(30)
    <3> QED BY <3>2, <3>3, SMTT(30)
  <2> QED BY <2>1, <2>2, <1>f DEF Embeds
<1>4. m <= SIZE
  BY <1>1, <1>2, <1>3, PigeonHole
<1> QED BY <1>1, <1>4, <1>m, SMTT(30)

\* The ring g is f with the entry h at position b.
Pushed(f, b, h, g) == g = [f EXCEPT ![b % SIZE] = h]

\* A new entry overwrites none that is still to be read (avail.ring in add, used.ring in
\* the device): the check is only on descriptors, and this is why it is enough.
LEMMA RingPush ==
    ASSUME NEW f, NEW a, NEW b, Queue(f, a, b), NEW h \in Descs, h \notin Entries(f, a, b), NEW g,
           Pushed(f, b, h, g)
    PROVE  Queue(g, a, b + 1) /\ Entries(g, a, b + 1) = Entries(f, a, b) \cup {h}
<1>1. /\ a \in Nat /\ b \in Nat /\ a <= b /\ f \in [Descs -> Descs]
      /\ \A x, y \in a .. b - 1 : f[x % SIZE] = f[y % SIZE] => x = y
      /\ SIZE \in Nat \ {0}
  BY VirtQueueAssumption DEF Queue
<1>2. \A x \in a .. b - 1 : f[x % SIZE] # h /\ f[x % SIZE] \in Descs /\ x % SIZE \in Descs /\ x \in Nat
  <2> TAKE x \in a .. b - 1
  <2>1. x \in Nat
    BY <1>1, SMTT(30)
  <2> QED BY <2>1, <1>1, Slot DEF Entries
<1>s. PICK s : s = [x \in a .. b |-> IF x = b THEN h ELSE f[x % SIZE]]
  OBVIOUS
<1>i. \A x \in a .. b : x = b \/ x \in a .. b - 1
  BY <1>1, SMTT(30)
<1>3. s \in [a .. b -> Descs] /\ \A x, y \in a .. b : s[x] = s[y] => x = y
  <2>1. \A x \in a .. b : s[x] = IF x = b THEN h ELSE f[x % SIZE]
    BY <1>s
  <2>2. \A x \in a .. b : s[x] \in Descs
    BY <2>1, <1>2, <1>i
  <2>3. \A x, y \in a .. b : s[x] = s[y] => x = y
    BY <2>1, <1>1, <1>2, <1>i
  <2> QED BY <2>2, <2>3, <1>s
<1>4. b + 1 <= a + SIZE
  BY <1>1, <1>3, RingBound
<1>5. \A x \in a .. b - 1 : x % SIZE # b % SIZE
  <2> TAKE x \in a .. b - 1
  <2>1. x \in Nat /\ x < b /\ b < x + SIZE
    BY <1>1, <1>4, SMTT(30)
  <2> QED BY <2>1, <1>1, Apart
<1>6. g \in [Descs -> Descs] /\ g[b % SIZE] = h /\ \A x \in a .. b - 1 : g[x % SIZE] = f[x % SIZE]
  <2>1. b % SIZE \in Descs
    BY <1>1, Slot
  <2> QED BY <2>1, <1>1, <1>2, <1>5 DEF Pushed
<1>7. \A x \in a .. b : g[x % SIZE] = s[x]
  BY <1>6, <1>i, <1>s
<1>8. (b + 1) - 1 = b /\ b + 1 \in Nat /\ a <= b + 1
  BY <1>1, SMTT(30)
<1>9. Queue(g, a, b + 1)
  <2>1. \A x, y \in a .. b : g[x % SIZE] = g[y % SIZE] => x = y
    BY <1>3, <1>7
  <2> QED BY <2>1, <1>1, <1>4, <1>6, <1>8 DEF Queue
<1>10. Entries(g, a, b + 1) = Entries(f, a, b) \cup {h}
  <2>1. Entries(g, a, b + 1) = {g[x % SIZE] : x \in a .. b}
    BY <1>8 DEF Entries
  <2>2. b \in a .. b /\ \A x \in a .. b - 1 : x \in a .. b
    BY <1>1, SMTT(30)
  <2> QED BY <2>1, <2>2, <1>6, <1>i DEF Entries
<1> QED BY <1>9, <1>10

\* The oldest entry is read, and no other is lost.
LEMMA RingPop ==
    ASSUME NEW f, NEW a, NEW b, Queue(f, a, b), a # b
    PROVE  /\ Queue(f, a + 1, b) /\ f[a % SIZE] \in Entries(f, a, b) /\ f[a % SIZE] \in Descs
           /\ Entries(f, a + 1, b) = Entries(f, a, b) \ {f[a % SIZE]}
<1>1. /\ a \in Nat /\ b \in Nat /\ a < b /\ f \in [Descs -> Descs] /\ b <= a + SIZE
      /\ \A x, y \in a .. b - 1 : f[x % SIZE] = f[y % SIZE] => x = y
      /\ SIZE \in Nat \ {0}
  BY VirtQueueAssumption, SMTT(30) DEF Queue
<1>2. a \in a .. b - 1 /\ \A x \in a .. b - 1 : x = a \/ x \in a + 1 .. b - 1
  BY <1>1, SMTT(30)
<1>3. \A x \in a + 1 .. b - 1 : x # a /\ x \in a .. b - 1
  BY <1>1, SMTT(30)
<1>4. a + 1 \in Nat /\ a + 1 <= b /\ b <= (a + 1) + SIZE
  BY <1>1, SMTT(30)
<1>5. Queue(f, a + 1, b)
  BY <1>1, <1>3, <1>4 DEF Queue
<1>6. f[a % SIZE] \in Entries(f, a, b) /\ f[a % SIZE] \in Descs
  BY <1>1, <1>2, Slot DEF Entries
<1>7. Entries(f, a + 1, b) = Entries(f, a, b) \ {f[a % SIZE]}
  BY <1>1, <1>2, <1>3 DEF Entries
<1> QED BY <1>5, <1>6, <1>7

-----------------------------------------------------------------------------
(* The steps.                                                              *)

\* The chain that starts at h is in the queue.
Held(h) == \E r \in InQueue : reqs[r].token = h

\* The entries written in the available ring; the last may not be published yet.
Written(A) == IF pc = "publish" THEN A + 1 ELSE A

\* The indices are positions D <= P <= A and L <= U that only grow, modulo IDX.
Flow(D, P, A, L, U) ==
    /\ dev_avail = D % IDX /\ pub_idx = P % IDX /\ avail_idx = A % IDX
    /\ last_used_idx = L % IDX /\ used_idx = U % IDX
    /\ D <= P /\ P <= A
    /\ Queue(ring, D, Written(A)) /\ Queue(used, L, U)
    /\ Entries(ring, D, Written(A)) \cap Entries(used, L, U) = {}
    /\ \A h \in Entries(ring, D, Written(A)) \cup Entries(used, L, U) : Held(h) /\ fetched[h] = <<>>
    /\ DeviceSeesRequests

\* The inductive invariant.
FlowInv == \E D, P, A, L, U \in Nat : Flow(D, P, A, L, U)
IndInv == TypeInv /\ ListsInv /\ FlowInv

\* VirtQueue::new establishes the invariant.
LEMMA InitInv == Init => IndInv
<1> SUFFICES ASSUME Init PROVE IndInv
  OBVIOUS
<1>0. SIZE \in Nat \ {0} /\ IDX \in Nat \ {0} /\ None \notin Requests /\ None \notin Descs /\ 0 \in Descs
  BY VirtQueueAssumption, SMTT(30) DEF Descs
<1>1. \A i \in Descs : i \in Nat /\ i + 1 \in Nat /\ (IF i < SIZE - 1 THEN i + 1 ELSE 0) \in Nat
  BY <1>0, SMTT(30) DEF Descs
<1>2. \A x \in Nat : [Unset EXCEPT !.next = x] = [addr |-> None, next |-> x, flags |-> {}]
  BY SMTT(30) DEF Unset
<1>3. /\ desc_shadow = [i \in Descs |-> [addr |-> None, next |-> i + 1, flags |-> {}]]
      /\ desc = [i \in Descs |-> [addr |-> None, next |-> IF i < SIZE - 1 THEN i + 1 ELSE 0, flags |-> {}]]
  BY <1>1, <1>2 DEF Init
<1>4. TypeInv
  <2>1. None \in Addrs
    BY DEF Addrs
  <2>2. desc_shadow \in [Descs -> DescType] /\ desc \in [Descs -> DescType]
    BY <2>1, <1>1, <1>3 DEF DescType
  <2>3. Idle \in [token : Descs \cup {None}, len : 0 .. SIZE]
    BY <1>0, SMTT(30) DEF Idle
  <2>4. <<>> \in Seq(Requests \X Nat)
    BY SMTT(30)
  <2>5. /\ indirect \in BOOLEAN /\ event_idx \in BOOLEAN /\ tso \in BOOLEAN
        /\ free_head \in Nat /\ num_used \in Int /\ Free \in Nat
        /\ ring \in [Descs -> Descs] /\ used \in [Descs -> Descs] /\ pc \in {"idle", "publish", "notify"}
    BY <1>0, SMTT(30) DEF Init, Free
  <2>6. /\ indirect_lists \in [Descs -> Seq(Requests \X Nat)] /\ fetched \in [Descs -> Seq(Requests \X Nat)]
        /\ reqs \in [Requests -> [token : Descs \cup {None}, len : 0 .. SIZE]]
    BY <2>3, <2>4 DEF Init
  <2> QED BY <2>2, <2>5, <2>6 DEF TypeInv
<1>5. InQueue = {}
  BY DEF Init, InQueue
<1>6. ListsInv
  <2>w. PICK who : who = [i \in Descs |-> None]
    OBVIOUS
  <2>n. PICK num : num = [i \in Descs |-> i + 1]
    OBVIOUS
  <2>1. who \in Owners /\ num \in Numbers
    <3>1. \A i \in Descs : i + 1 \in Nat \ {0}
      BY <1>0, SMTT(30) DEF Descs
    <3> QED BY <3>1, <2>w, <2>n DEF Owners, Numbers
  <2>2. Free = SIZE /\ free_head = 0
    BY <1>0, SMTT(30) DEF Free, Init
  <2>3. FreeList(who, num)
    <3>1. free_head \in Descs /\ who[free_head] = None /\ num[free_head] = 1
      BY <2>2, <2>w, <2>n, <1>0, SMTT(30)
    <3>2. ASSUME NEW i \in Descs
          PROVE  /\ num[i] <= Free
                 /\ num[i] < Free => /\ desc_shadow[i].next \in Descs
                                     /\ who[desc_shadow[i].next] = None
                                     /\ num[desc_shadow[i].next] = num[i] + 1
      <4>1. desc_shadow[i].next = i + 1 /\ num[i] = i + 1
        BY <1>3, <2>n
      <4>2. i + 1 <= SIZE /\ (i + 1 < SIZE => i + 1 \in Descs)
        BY <1>0, SMTT(30) DEF Descs
      <4> QED BY <4>1, <4>2, <2>2, <2>w, <2>n
    <3> QED BY <3>1, <3>2 DEF FreeList
  <2>4. \A i \in Descs : who[i] = None /\ indirect_lists[i] = <<>>
    BY <2>w DEF Init
  <2>5. \A i, j \in Descs : num[i] = num[j] => i = j
    BY <2>n, <1>1, SMTT(30)
  <2>6. Lists(who, num)
    BY <2>3, <2>4, <2>5, <1>5 DEF Lists
  <2> QED BY <2>1, <2>6 DEF ListsInv
<1>7. FlowInv
  <2>1. 0 % IDX = 0
    BY <1>0, Remainder, SMTT(30)
  <2>2. Written(0) = 0
    BY DEF Init, Written
  <2>3. 0 .. 0 - 1 = {}
    BY SMTT(30)
  <2>4. Queue(ring, 0, 0) /\ Queue(used, 0, 0) /\ Entries(ring, 0, 0) = {} /\ Entries(used, 0, 0) = {}
    BY <2>3, <1>0, <1>4, SMTT(30) DEF Queue, Entries, TypeInv
  <2>5. DeviceSeesRequests
    BY DEF Init, DeviceSeesRequests
  <2>6. /\ dev_avail = 0 % IDX /\ pub_idx = 0 % IDX /\ avail_idx = 0 % IDX
        /\ last_used_idx = 0 % IDX /\ used_idx = 0 % IDX
    BY <2>1 DEF Init
  <2>7. Flow(0, 0, 0, 0, 0)
    BY <2>2, <2>4, <2>5, <2>6, SMTT(30) DEF Flow
  <2> QED BY <2>7 DEF FlowInv
<1> QED BY <1>4, <1>6, <1>7 DEF IndInv

\* add keeps the invariant.
LEMMA AddKeeps ==
    ASSUME IndInv, NEW r \in Requests, NEW n \in 1 .. SIZE, Add(r, n)
    PROVE  IndInv'
<1>0. TypeInv /\ ListsInv /\ FlowInv
  BY DEF IndInv
<1>1. PICK who \in Owners, num \in Numbers : Lists(who, num)
  BY <1>0 DEF ListsInv
<1>2. PICK D, P, A, L, U \in Nat : Flow(D, P, A, L, U)
  BY <1>0 DEF FlowInv
<1>3. /\ pc = "idle" /\ reqs[r] = Idle /\ ~QueueFull(n)
      /\ ring' = [ring EXCEPT ![avail_idx % SIZE] = free_head]
      /\ reqs' = [reqs EXCEPT ![r] = [token |-> free_head, len |-> n]]
      /\ pc' = "publish" /\ indirect' = indirect /\ event_idx' = event_idx /\ tso' = tso
      /\ avail_idx' = avail_idx /\ pub_idx' = pub_idx /\ used' = used /\ used_idx' = used_idx
      /\ last_used_idx' = last_used_idx /\ dev_avail' = dev_avail /\ fetched' = fetched
  BY DEF Add, usedRing, device
<1>4. PICK c : AddEffect(who, num, r, n, c)
  <2>1. CASE indirect /\ n > 1
    <3>1. AddIndirect(r, n)
      BY <2>1 DEF Add
    <3> QED BY <2>1, <3>1, <1>0, <1>1, <1>3, AddIndirectEffect
  <2>2. CASE ~(indirect /\ n > 1)
    <3>1. AddDirect(r, n)
      BY <2>2 DEF Add
    <3> QED BY <2>2, <3>1, <1>0, <1>1, <1>3, AddDirectEffect
  <2> QED BY <2>1, <2>2
<1>5. ListsInv'
  <2>1. \E w \in Owners, m \in Numbers : Lists(w, m)'
    BY <1>0, <1>1, <1>3, <1>4, AddLists
  <2> QED BY <2>1 DEF ListsInv
<1>6. free_head \in Descs /\ who[free_head] = None /\ r # None /\ None \notin Requests
  <2>1. Free > 0
    BY <1>0, <1>4, SMTT(30) DEF AddEffect, TypeInv
  <2>2. free_head \in Descs /\ who[free_head] = None
    BY <2>1, <1>1 DEF Lists, FreeList
  <2> QED BY <2>2, VirtQueueAssumption
<1>7. TypeInv'
  <2>1. /\ desc_shadow' \in [Descs -> DescType] /\ desc' \in [Descs -> DescType]
        /\ indirect_lists' \in [Descs -> Seq(Requests \X Nat)]
    BY <1>4 DEF AddEffect
  <2>2. free_head' \in Nat
    <3>1. PICK i \in Descs : free_head' = desc_shadow[i].next
      BY <1>4 DEF AddEffect
    <3>2. desc_shadow[i] \in DescType
      BY <1>0 DEF TypeInv
    <3> QED BY <3>1, <3>2 DEF DescType
  <2>3. num_used' \in Int /\ Free' \in Nat
    <3>1. c \in 1 .. Free /\ num_used' = num_used + c /\ num_used \in Int /\ Free \in Nat
      BY <1>0, <1>4 DEF AddEffect, TypeInv
    <3>2. SIZE \in Nat
      BY VirtQueueAssumption
    <3> QED BY <3>1, <3>2, SMTT(30) DEF Free
  <2>4. ring' \in [Descs -> Descs]
    BY <1>0, <1>3, <1>6 DEF TypeInv
  <2>5. reqs' \in [Requests -> [token : Descs \cup {None}, len : 0 .. SIZE]]
    <3>1. [token |-> free_head, len |-> n] \in [token : Descs \cup {None}, len : 0 .. SIZE]
      BY <1>6, SMTT(30)
    <3> QED BY <3>1, <1>0, <1>3 DEF TypeInv
  <2> QED BY <2>1, <2>2, <2>3, <2>4, <2>5, <1>0, <1>3 DEF TypeInv
<1>8. /\ reqs'[r] = [token |-> free_head, len |-> n]
      /\ \A q \in Requests : q # r => reqs'[q] = reqs[q]
  BY <1>0, <1>3 DEF TypeInv
<1>9. InQueue' = InQueue \cup {r} /\ r \notin InQueue
  <2>1. reqs'[r] # Idle
    <3>1. free_head # None
      BY <1>6, VirtQueueAssumption, SMTT(30) DEF Descs
    <3> QED BY <3>1, <1>8, SMTT(30) DEF Idle
  <2> QED BY <2>1, <1>3, <1>8 DEF InQueue
<1>10. \A q \in InQueue : reqs'[q] = reqs[q]
  BY <1>8, <1>9 DEF InQueue
<1>11. ~Held(free_head)
  <2>1. ASSUME NEW q \in InQueue PROVE reqs[q].token # free_head
    <3>1. who[reqs[q].token] = q /\ q \in Requests
      BY <1>1 DEF Lists, InQueue
    <3> QED BY <3>1, <1>6
  <2> QED BY <2>1 DEF Held
<1>12. fetched[free_head] = <<>>
  <2>1. DeviceSeesRequests
    BY <1>2 DEF Flow
  <2> QED BY <2>1, <1>6, <1>11 DEF DeviceSeesRequests, Held
<1>13. Written(A) = A /\ Written(A)' = A + 1
  BY <1>3 DEF Written
<1>14. /\ avail_idx = A % IDX /\ Queue(ring, D, A) /\ Queue(used, L, U)
       /\ Entries(ring, D, A) \cap Entries(used, L, U) = {}
       /\ \A h \in Entries(ring, D, A) \cup Entries(used, L, U) : Held(h) /\ fetched[h] = <<>>
  BY <1>2, <1>13 DEF Flow
<1>h. PICK h : h = free_head /\ h \in Descs
  BY <1>6
<1>g. PICK g : g = ring'
  OBVIOUS
<1>15. Pushed(ring, A, h, g)
  BY <1>3, <1>14, <1>g, <1>h, Slot DEF Pushed
<1>16. Queue(g, D, A + 1) /\ Entries(g, D, A + 1) = Entries(ring, D, A) \cup {h}
  <2>1. h \notin Entries(ring, D, A)
    BY <1>11, <1>14, <1>h
  <2>2. Queue(ring, D, A) /\ h \in Descs
    BY <1>14, <1>h
  <2> QED BY <2>1, <2>2, <1>15, RingPush, SMTT(30)
<1>17. \A x : Held(x) => Held(x)'
  BY <1>9, <1>10 DEF Held
<1>18. Held(h)'
  <2>1. r \in InQueue' /\ reqs'[r].token = h
    BY <1>8, <1>9, <1>h, SMTT(30)
  <2> QED BY <2>1 DEF Held
<1>19. h \notin Entries(used, L, U)
  BY <1>11, <1>14, <1>h
<1>20. DeviceSeesRequests'
  <2>1. DeviceSeesRequests
    BY <1>2 DEF Flow
  <2> SUFFICES ASSUME NEW x \in Descs, fetched'[x] # <<>>
               PROVE  \E q \in InQueue' : reqs'[q].token = x /\ fetched'[x] = Buffers(q, reqs'[q].len)
    BY DEF DeviceSeesRequests
  <2>2. PICK q \in InQueue : reqs[q].token = x /\ fetched[x] = Buffers(q, reqs[q].len)
    BY <2>1, <1>3 DEF DeviceSeesRequests
  <2> QED BY <2>2, <1>3, <1>9, <1>10
<1>21. \A x \in Entries(g, D, A + 1) \cup Entries(used, L, U) : Held(x)' /\ fetched'[x] = <<>>
  BY <1>3, <1>12, <1>14, <1>16, <1>17, <1>18, <1>h
<1>22. Entries(g, D, A + 1) \cap Entries(used, L, U) = {}
  BY <1>14, <1>16, <1>19
<1>23. /\ dev_avail' = D % IDX /\ pub_idx' = P % IDX /\ avail_idx' = A % IDX
       /\ last_used_idx' = L % IDX /\ used_idx' = U % IDX /\ D <= P /\ P <= A
  BY <1>2, <1>3 DEF Flow
<1>24. Flow(D, P, A, L, U)'
  <2>1. used' = used /\ ring' = g
    BY <1>3, <1>g
  <2> QED BY <2>1, <1>13, <1>14, <1>16, <1>20, <1>21, <1>22, <1>23 DEF Flow
<1>25. FlowInv'
  BY <1>24 DEF FlowInv
<1> QED BY <1>5, <1>7, <1>25 DEF IndInv

\* pop_used keeps the invariant.
LEMMA PopUsedKeeps ==
    ASSUME IndInv, NEW r \in Requests, PopUsed(r)
    PROVE  IndInv'
<1>0. TypeInv /\ ListsInv /\ FlowInv
  BY DEF IndInv
<1>1. PICK who \in Owners, num \in Numbers : Lists(who, num)
  BY <1>0 DEF ListsInv
<1>2. PICK D, P, A, L, U \in Nat : Flow(D, P, A, L, U)
  BY <1>0 DEF FlowInv
<1>3. /\ pc = "idle" /\ r \in InQueue /\ last_used_idx # used_idx
      /\ used[last_used_idx % SIZE] = reqs[r].token
      /\ Recycle(reqs[r].token, reqs[r].len)
      /\ last_used_idx' = (last_used_idx + 1) % IDX
      /\ reqs' = [reqs EXCEPT ![r] = Idle]
      /\ pc' = pc /\ indirect' = indirect /\ event_idx' = event_idx /\ tso' = tso
      /\ avail_idx' = avail_idx /\ pub_idx' = pub_idx /\ used' = used /\ used_idx' = used_idx
      /\ ring' = ring /\ dev_avail' = dev_avail /\ fetched' = fetched
  BY DEF PopUsed, InQueue, CanPop, PeekUsed, usedRing, device, avail
<1>4. PICK c : PopEffect(who, num, r, c)
  BY <1>0, <1>1, <1>3, RecycleEffect
<1>5. ListsInv'
  <2>1. \E w \in Owners, m \in Numbers : Lists(w, m)'
    BY <1>0, <1>1, <1>3, <1>4, PopLists
  <2> QED BY <2>1 DEF ListsInv
<1>h. PICK h : h = reqs[r].token /\ h \in Descs
  BY <1>1, <1>3 DEF Lists
<1>6. TypeInv'
  <2>1. /\ desc_shadow' \in [Descs -> DescType] /\ desc' \in [Descs -> DescType]
        /\ indirect_lists' \in [Descs -> Seq(Requests \X Nat)]
    BY <1>4 DEF PopEffect
  <2>2. free_head' \in Nat
    BY <1>4, <1>h, SMTT(30) DEF PopEffect, Descs
  <2>3. num_used' \in Int /\ Free' \in Nat
    <3>1. c \in Nat /\ num_used' = num_used - c /\ num_used \in Int /\ Free \in Nat
      BY <1>0, <1>4 DEF PopEffect, TypeInv
    <3>2. SIZE \in Nat
      BY VirtQueueAssumption
    <3> QED BY <3>1, <3>2, SMTT(30) DEF Free
  <2>4. reqs' \in [Requests -> [token : Descs \cup {None}, len : 0 .. SIZE]]
    <3>1. Idle \in [token : Descs \cup {None}, len : 0 .. SIZE]
      BY VirtQueueAssumption, SMTT(30) DEF Idle
    <3> QED BY <3>1, <1>0, <1>3 DEF TypeInv
  <2> QED BY <2>1, <2>2, <2>3, <2>4, <1>0, <1>3 DEF TypeInv
<1>7. reqs'[r] = Idle /\ \A q \in Requests : q # r => reqs'[q] = reqs[q]
  BY <1>0, <1>3 DEF TypeInv
<1>8. /\ \A q \in InQueue : q # r => q \in InQueue' /\ reqs'[q] = reqs[q]
  BY <1>7 DEF InQueue
<1>9. L # U
  BY <1>2, <1>3 DEF Flow
<1>10. /\ last_used_idx = L % IDX /\ Queue(ring, D, Written(A)) /\ Queue(used, L, U)
       /\ Entries(ring, D, Written(A)) \cap Entries(used, L, U) = {}
       /\ \A x \in Entries(ring, D, Written(A)) \cup Entries(used, L, U) : Held(x) /\ fetched[x] = <<>>
       /\ DeviceSeesRequests
  BY <1>2 DEF Flow
<1>11. used[L % SIZE] = h
  BY <1>3, <1>10, <1>h, Slot
<1>12. /\ Queue(used, L + 1, U) /\ h \in Entries(used, L, U)
       /\ Entries(used, L + 1, U) = Entries(used, L, U) \ {h}
  BY <1>9, <1>10, <1>11, RingPop
<1>13. \A x : Held(x) /\ x # h => Held(x)'
  BY <1>8, <1>h DEF Held
<1>14. DeviceSeesRequests'
  <2> SUFFICES ASSUME NEW x \in Descs, fetched'[x] # <<>>
               PROVE  \E q \in InQueue' : reqs'[q].token = x /\ fetched'[x] = Buffers(q, reqs'[q].len)
    BY DEF DeviceSeesRequests
  <2>1. PICK q \in InQueue : reqs[q].token = x /\ fetched[x] = Buffers(q, reqs[q].len)
    BY <1>10, <1>3 DEF DeviceSeesRequests
  <2>2. x # h
    BY <1>3, <1>10, <1>12
  <2> QED BY <2>1, <2>2, <1>3, <1>8, <1>h
<1>15. \A x \in Entries(ring, D, Written(A)) \cup Entries(used, L + 1, U) : Held(x)' /\ fetched'[x] = <<>>
  BY <1>3, <1>10, <1>12, <1>13
<1>16. Entries(ring, D, Written(A)) \cap Entries(used, L + 1, U) = {}
  BY <1>10, <1>12
<1>17. /\ dev_avail' = D % IDX /\ pub_idx' = P % IDX /\ avail_idx' = A % IDX
       /\ used_idx' = U % IDX /\ D <= P /\ P <= A
  BY <1>2, <1>3 DEF Flow
<1>18. last_used_idx' = (L + 1) % IDX /\ L + 1 \in Nat
  <2>1. (L + 1) % IDX = ((L % IDX) + 1) % IDX
    BY Slot
  <2> QED BY <2>1, <1>3, <1>10, SMTT(30)
<1>19. Flow(D, P, A, L + 1, U)'
  <2>1. Written(A)' = Written(A)
    BY <1>3 DEF Written
  <2> QED BY <2>1, <1>3, <1>10, <1>12, <1>14, <1>15, <1>16, <1>17, <1>18 DEF Flow
<1>20. FlowInv'
  BY <1>18, <1>19 DEF FlowInv
<1> QED BY <1>5, <1>6, <1>20 DEF IndInv

\* The store of the index, its way out of the store buffer and the notification only
\* move the published position, never past what is written.
LEMMA IndexKeeps ==
    ASSUME IndInv, Publish \/ Commit \/ Notify
    PROVE  IndInv'
<1>0. TypeInv /\ ListsInv /\ FlowInv
  BY DEF IndInv
<1>1. PICK D, P, A, L, U \in Nat : Flow(D, P, A, L, U)
  BY <1>0 DEF FlowInv
<1>2. /\ UNCHANGED <<indirect, event_idx, tso, descs, ring, used, used_idx, last_used_idx, reqs,
                     dev_avail, fetched>>
      /\ pc' \in {"idle", "publish", "notify"}
  BY <1>0 DEF Publish, Commit, Notify, usedRing, device, TypeInv
<1>3. /\ desc_shadow' = desc_shadow /\ desc' = desc /\ free_head' = free_head /\ num_used' = num_used
      /\ indirect_lists' = indirect_lists /\ ring' = ring /\ used' = used /\ reqs' = reqs
      /\ fetched' = fetched /\ dev_avail' = dev_avail /\ used_idx' = used_idx
      /\ last_used_idx' = last_used_idx
  BY <1>2 DEF descs
<1>4. ListsInv'
  BY <1>0, <1>2, ListsFrame
<1>5. TypeInv'
  <2>1. Free' = Free
    BY <1>3 DEF Free
  <2> QED BY <2>1, <1>0, <1>2, <1>3 DEF TypeInv
<1>6. InQueue' = InQueue /\ \A x : Held(x)' <=> Held(x)
  BY <1>3 DEF InQueue, Held
<1>7. DeviceSeesRequests'
  BY <1>1, <1>3, <1>6 DEF Flow, DeviceSeesRequests
<1>8. /\ dev_avail' = D % IDX /\ pub_idx = P % IDX /\ avail_idx = A % IDX
      /\ last_used_idx' = L % IDX /\ used_idx' = U % IDX /\ D <= P /\ P <= A
      /\ Queue(ring, D, Written(A)) /\ Queue(used, L, U)
      /\ Entries(ring, D, Written(A)) \cap Entries(used, L, U) = {}
      /\ \A x \in Entries(ring, D, Written(A)) \cup Entries(used, L, U) : Held(x) /\ fetched[x] = <<>>
  BY <1>1, <1>3 DEF Flow
<1>9. ASSUME NEW B \in Nat, NEW Q \in Nat, Written(B)' = Written(A), D <= Q, Q <= B,
             pub_idx' = Q % IDX, avail_idx' = B % IDX
      PROVE  IndInv'
  <2>1. Flow(D, Q, B, L, U)'
    BY <1>3, <1>6, <1>7, <1>8, <1>9 DEF Flow
  <2>2. FlowInv'
    BY <2>1 DEF FlowInv
  <2> QED BY <2>2, <1>4, <1>5 DEF IndInv
<1>10. CASE Publish
  <2>1. /\ pc = "publish" /\ pc' = "notify" /\ avail_idx' = (avail_idx + 1) % IDX
        /\ pub_idx' = IF tso THEN pub_idx ELSE avail_idx'
    BY <1>10 DEF Publish
  <2>2. Written(A + 1)' = Written(A) /\ A + 1 \in Nat /\ D <= A + 1 /\ P <= A + 1 /\ A + 1 <= A + 1
    BY <2>1, <1>8, SMTT(30) DEF Written
  <2>3. avail_idx' = (A + 1) % IDX
    <3>1. (A + 1) % IDX = ((A % IDX) + 1) % IDX
      BY Slot
    <3> QED BY <3>1, <2>1, <1>8
  <2>4. CASE tso
    BY <2>1, <2>2, <2>3, <2>4, <1>8, <1>9
  <2>5. CASE ~tso
    BY <2>1, <2>2, <2>3, <2>5, <1>8, <1>9
  <2> QED BY <2>4, <2>5
<1>11. CASE Commit
  <2>1. pub_idx # avail_idx /\ pub_idx' = (pub_idx + 1) % IDX /\ avail_idx' = avail_idx /\ pc' = pc
    BY <1>11 DEF Commit
  <2>2. P # A
    BY <2>1, <1>8
  <2>3. P + 1 \in Nat /\ P + 1 <= A /\ D <= P + 1 /\ Written(A)' = Written(A)
    BY <2>1, <2>2, <1>8, SMTT(30) DEF Written
  <2>4. pub_idx' = (P + 1) % IDX
    <3>1. (P + 1) % IDX = ((P % IDX) + 1) % IDX
      BY Slot
    <3> QED BY <3>1, <2>1, <1>8
  <2> QED BY <2>1, <2>3, <2>4, <1>8, <1>9
<1>12. CASE Notify
  <2>1. /\ pc = "notify" /\ pc' = "idle" /\ avail_idx' = avail_idx
        /\ pub_idx' = pub_idx \/ pub_idx' = avail_idx
    BY <1>12 DEF Notify
  <2>2. Written(A)' = Written(A) /\ A <= A /\ D <= A
    BY <2>1, <1>8, SMTT(30) DEF Written
  <2> QED BY <2>1, <2>2, <1>8, <1>9
<1> QED BY <1>10, <1>11, <1>12

\* The device returns a chain it holds.
LEMMA UseKeeps ==
    ASSUME IndInv, NEW h \in Descs, DeviceUse(h)
    PROVE  IndInv'
<1>0. TypeInv /\ ListsInv /\ FlowInv
  BY DEF IndInv
<1>2. PICK D, P, A, L, U \in Nat : Flow(D, P, A, L, U)
  BY <1>0 DEF FlowInv
<1>3. /\ fetched[h] # <<>> /\ fetched' = [fetched EXCEPT ![h] = <<>>]
      /\ used' = [used EXCEPT ![used_idx % SIZE] = h] /\ used_idx' = (used_idx + 1) % IDX
      /\ UNCHANGED <<indirect, event_idx, tso, descs, ring, avail_idx, pub_idx, last_used_idx,
                     reqs, pc, dev_avail>>
  BY DEF DeviceUse, avail
<1>4. /\ desc_shadow' = desc_shadow /\ desc' = desc /\ free_head' = free_head /\ num_used' = num_used
      /\ indirect_lists' = indirect_lists /\ ring' = ring /\ reqs' = reqs /\ pc' = pc
      /\ dev_avail' = dev_avail /\ last_used_idx' = last_used_idx /\ avail_idx' = avail_idx
      /\ pub_idx' = pub_idx
  BY <1>3 DEF descs
<1>5. ListsInv'
  BY <1>0, <1>3, ListsFrame
<1>6. /\ dev_avail = D % IDX /\ pub_idx = P % IDX /\ avail_idx = A % IDX
      /\ last_used_idx = L % IDX /\ used_idx = U % IDX /\ D <= P /\ P <= A
      /\ Queue(ring, D, Written(A)) /\ Queue(used, L, U)
      /\ Entries(ring, D, Written(A)) \cap Entries(used, L, U) = {}
      /\ \A x \in Entries(ring, D, Written(A)) \cup Entries(used, L, U) : Held(x) /\ fetched[x] = <<>>
      /\ DeviceSeesRequests
  BY <1>2 DEF Flow
<1>7. TypeInv'
  <2>1. Free' = Free
    BY <1>4 DEF Free
  <2>2. <<>> \in Seq(Requests \X Nat)
    BY SMTT(30)
  <2>3. fetched' \in [Descs -> Seq(Requests \X Nat)] /\ used' \in [Descs -> Descs]
    BY <2>2, <1>0, <1>3 DEF TypeInv
  <2> QED BY <2>1, <2>3, <1>0, <1>3, <1>4 DEF TypeInv
<1>8. InQueue' = InQueue /\ \A x : Held(x)' <=> Held(x)
  BY <1>4 DEF InQueue, Held
<1>9. /\ \A x \in Descs : x # h => fetched'[x] = fetched[x]
      /\ fetched'[h] = <<>>
  BY <1>0, <1>3 DEF TypeInv
<1>10. h \notin Entries(ring, D, Written(A)) /\ h \notin Entries(used, L, U)
  BY <1>3, <1>6
<1>g. PICK g : g = used'
  OBVIOUS
<1>11. Pushed(used, U, h, g)
  BY <1>3, <1>6, <1>g, Slot DEF Pushed
<1>12. Queue(g, L, U + 1) /\ Entries(g, L, U + 1) = Entries(used, L, U) \cup {h}
  <2>1. Queue(used, L, U)
    BY <1>6
  <2> QED BY <2>1, <1>10, <1>11, RingPush, SMTT(30)
<1>13. Held(h)
  BY <1>3, <1>6 DEF DeviceSeesRequests, Held
<1>14. DeviceSeesRequests'
  <2> SUFFICES ASSUME NEW x \in Descs, fetched'[x] # <<>>
               PROVE  \E q \in InQueue' : reqs'[q].token = x /\ fetched'[x] = Buffers(q, reqs'[q].len)
    BY DEF DeviceSeesRequests
  <2> QED BY <1>4, <1>6, <1>8, <1>9, SMTT(30) DEF DeviceSeesRequests
<1>15. \A x \in Entries(ring, D, Written(A)) \cup Entries(g, L, U + 1) : Held(x)' /\ fetched'[x] = <<>>
  <2> TAKE x \in Entries(ring, D, Written(A)) \cup Entries(g, L, U + 1)
  <2>1. CASE x = h
    BY <2>1, <1>8, <1>9, <1>13
  <2>2. CASE x # h
    <3>1. Held(x) /\ fetched[x] = <<>>
      BY <2>2, <1>6, <1>12
    <3>2. x \in Descs
      <4>1. PICK who \in Owners, num \in Numbers : Lists(who, num)
        BY <1>0 DEF ListsInv
      <4>2. PICK q \in InQueue : reqs[q].token = x
        BY <3>1 DEF Held
      <4> QED BY <4>1, <4>2 DEF Lists
    <3> QED BY <2>2, <3>1, <3>2, <1>8, <1>9
  <2> QED BY <2>1, <2>2
<1>16. Entries(ring, D, Written(A)) \cap Entries(g, L, U + 1) = {}
  BY <1>6, <1>10, <1>12
<1>17. used_idx' = (U + 1) % IDX /\ U + 1 \in Nat
  <2>1. (U + 1) % IDX = ((U % IDX) + 1) % IDX
    BY Slot
  <2> QED BY <2>1, <1>3, <1>6, SMTT(30)
<1>18. Flow(D, P, A, L, U + 1)'
  <2>1. Written(A)' = Written(A)
    BY <1>4 DEF Written
  <2> QED BY <2>1, <1>4, <1>6, <1>12, <1>14, <1>15, <1>16, <1>17, <1>g DEF Flow
<1>19. FlowInv'
  BY <1>17, <1>18 DEF FlowInv
<1> QED BY <1>5, <1>7, <1>19 DEF IndInv

\* The steps that touch neither ring nor descriptors, and stuttering.
LEMMA OtherKeeps ==
    ASSUME IndInv, DeviceIdle \/ DeviceRecheck \/ DeviceWake \/ UNCHANGED vars
    PROVE  IndInv'
<1>0. TypeInv /\ ListsInv /\ FlowInv
  BY DEF IndInv
<1>1. PICK D, P, A, L, U \in Nat : Flow(D, P, A, L, U)
  BY <1>0 DEF FlowInv
<1>2. UNCHANGED <<indirect, event_idx, tso, descs, ring, avail_idx, pub_idx, used, used_idx, last_used_idx, reqs,
                  pc, dev_avail, fetched>>
  BY DEF DeviceIdle, DeviceRecheck, DeviceWake, vars, avail, usedRing, device
<1>3. /\ desc_shadow' = desc_shadow /\ desc' = desc /\ free_head' = free_head /\ num_used' = num_used
      /\ indirect_lists' = indirect_lists /\ ring' = ring /\ used' = used /\ reqs' = reqs
      /\ fetched' = fetched /\ dev_avail' = dev_avail /\ used_idx' = used_idx /\ pc' = pc
      /\ last_used_idx' = last_used_idx /\ avail_idx' = avail_idx /\ pub_idx' = pub_idx
  BY <1>2 DEF descs
<1>4. ListsInv'
  BY <1>0, <1>2, ListsFrame
<1>5. TypeInv'
  <2>1. Free' = Free
    BY <1>3 DEF Free
  <2> QED BY <2>1, <1>0, <1>2, <1>3 DEF TypeInv
<1>6. InQueue' = InQueue /\ \A x : Held(x)' <=> Held(x)
  BY <1>3 DEF InQueue, Held
<1>7. DeviceSeesRequests' /\ Written(A)' = Written(A)
  BY <1>1, <1>3, <1>6 DEF Flow, DeviceSeesRequests, Written
<1>8. Flow(D, P, A, L, U)'
  BY <1>1, <1>3, <1>6, <1>7 DEF Flow
<1>9. FlowInv'
  BY <1>8 DEF FlowInv
<1> QED BY <1>4, <1>5, <1>9 DEF IndInv

-----------------------------------------------------------------------------
(* The walk of the device.                                                 *)

\* The device reads, from the table that write_desc fills, the buffers of the request.
LEMMA DeviceWalk ==
    ASSUME TypeInv, NEW who \in Owners, NEW num \in Numbers, Lists(who, num), NEW r \in InQueue,
           Cardinality(1 .. reqs[r].len) = reqs[r].len
    PROVE  DeviceChain(reqs[r].token) = Buffers(r, reqs[r].len)
<1>1. PICK a : a = reqs[r].token
  OBVIOUS
<1>2. PICK n : n = reqs[r].len
  OBVIOUS
<1>3. /\ n \in Nat \ {0} /\ None \notin Descs /\ r # None
      /\ n \in 1 .. SIZE /\ a \in Descs /\ who[a] = r /\ num[a] = 1 /\ SIZE \in Nat
  <2>1. n \in 1 .. SIZE /\ a \in Descs /\ who[a] = r /\ num[a] = 1
    BY <1>1, <1>2 DEF Lists
  <2>2. SIZE \in Nat /\ None \notin Descs /\ r # None
    BY VirtQueueAssumption, SMTT(30) DEF Descs, InQueue
  <2> QED BY <2>1, <2>2, SMTT(30)
<1>4. Chained(who, num, a)
  BY <1>3 DEF Lists
<1>5. CASE InList(r)
  <2>1. desc[a].flags = {"INDIRECT"} /\ indirect_lists[a] = Buffers(r, n)
    BY <1>2, <1>3, <1>4, <1>5 DEF Chained, ChainLen
  <2> QED BY <2>1, <1>1, <1>2 DEF DeviceChain
<1>6. CASE ~InList(r)
  <2>0. PICK g : IsChain(who, num, r, n, g)
    BY <1>2, <1>6, ChainWalk
  <2>1. /\ g \in [1 .. n -> Descs] /\ g[1] = a
        /\ \A k \in 1 .. n : who[g[k]] = r /\ num[g[k]] = k
        /\ \A k \in 1 .. n : NextOf(desc_shadow[g[k]]) = IF k = n THEN None ELSE g[k + 1]
    BY <1>1, <2>0 DEF IsChain
  <2>2. ASSUME NEW k \in 1 .. n
        PROVE  desc[g[k]] = desc_shadow[g[k]] /\ desc[g[k]].addr = <<r, k>>
    <3>1. g[k] \in Descs /\ who[g[k]] = r /\ num[g[k]] = k
      BY <2>1
    <3>2. Chained(who, num, g[k])
      BY <3>1, <1>3 DEF Lists
    <3> QED BY <3>1, <3>2, <1>6 DEF Chained
  <2>3. "INDIRECT" \notin desc[a].flags
    <3>1. /\ desc[a] = desc_shadow[a] /\ num[a] <= ChainLen(r)
          /\ num[a] < ChainLen(r) => desc_shadow[a].flags = {"NEXT"}
          /\ num[a] = ChainLen(r) => desc_shadow[a].flags = {}
      BY <1>3, <1>4, <1>6 DEF Chained
    <3>2. ChainLen(r) = n
      BY <1>2, <1>6 DEF ChainLen
    <3> QED BY <3>1, <3>2, <1>3, SMTT(30)
  <2>4. PICK w : w = [k \in 1 .. SIZE + 1 |-> IF k <= n THEN g[k] ELSE None]
    OBVIOUS
  <2>5. ASSUME NEW k \in 1 .. SIZE + 1, k # 1
        PROVE  w[k] = IF w[k - 1] = None THEN None ELSE NextOf(desc[w[k - 1]])
    <3>1. k - 1 \in 1 .. SIZE + 1 /\ (k - 1) + 1 = k
      BY <2>5, <1>3, SMTT(30)
    <3>2. CASE k <= n
      <4>1. k - 1 \in 1 .. n /\ k - 1 # n /\ k \in 1 .. n
        BY <3>1, <3>2, <1>3, SMTT(30)
      <4>2. w[k - 1] = g[k - 1] /\ g[k - 1] \in Descs /\ w[k] = g[k]
        BY <3>1, <3>2, <4>1, <2>4, <2>1, SMTT(30)
      <4>3. NextOf(desc[g[k - 1]]) = g[k]
        BY <2>1, <2>2, <3>1, <4>1
      <4> QED BY <4>2, <4>3, <1>3
    <3>3. CASE k = n + 1
      <4>1. k - 1 \in 1 .. n /\ k - 1 = n /\ ~(k <= n)
        BY <3>3, <1>3, SMTT(30)
      <4>2. w[k - 1] = g[k - 1] /\ g[k - 1] \in Descs /\ w[k] = None
        BY <3>1, <4>1, <2>4, <2>1, SMTT(30)
      <4>3. NextOf(desc[g[k - 1]]) = None
        BY <2>1, <2>2, <4>1
      <4> QED BY <4>2, <4>3, <1>3
    <3>4. CASE k > n + 1
      <4>1. ~(k - 1 <= n) /\ ~(k <= n)
        BY <3>4, <1>3, SMTT(30)
      <4> QED BY <2>4, <3>1, <4>1
    <3> QED BY <3>2, <3>3, <3>4, <1>3, SMTT(30)
  <2>6. w[1] = a
    BY <2>1, <2>4, <1>3, SMTT(30)
  <2>7. w = [k \in 1 .. SIZE + 1 |-> IF k = 1 THEN a
                  ELSE IF w[k - 1] = None THEN None ELSE NextOf(desc[w[k - 1]])]
    BY <2>4, <2>5, <2>6
  <2> DEFINE W == CHOOSE f : f = [k \in 1 .. SIZE + 1 |-> IF k = 1 THEN a
                  ELSE IF f[k - 1] = None THEN None ELSE NextOf(desc[f[k - 1]])]
  <2>8. DeviceChain(a) = [k \in 1 .. Cardinality({k \in 1 .. SIZE + 1 : W[k] # None}) |-> desc[W[k]].addr]
    BY <2>3 DEF DeviceChain
  <2>9. W = [k \in 1 .. SIZE + 1 |-> IF k = 1 THEN a
                  ELSE IF W[k - 1] = None THEN None ELSE NextOf(desc[W[k - 1]])]
    BY <2>7
  <2> HIDE DEF W
  <2>13. SIZE + 1 \in Nat
    BY <1>3, SMTT(30)
  <2>14. SameSteps(SIZE + 1, w, W)
    <3>1. W[1] = w[1]
      BY <1>3, <2>6, <2>9, SMTT(30)
    <3>2. ASSUME NEW k \in 2 .. SIZE + 1, w[k - 1] = W[k - 1] PROVE w[k] = W[k]
      <4>1. k \in 1 .. SIZE + 1 /\ k # 1
        BY <1>3, SMTT(30)
      <4>2. W[k] = IF W[k - 1] = None THEN None ELSE NextOf(desc[W[k - 1]])
        BY <2>9, <4>1
      <4> QED BY <2>5, <3>2, <4>1, <4>2
    <3> QED BY <3>1, <3>2 DEF SameSteps
  <2>15. \A k \in 1 .. SIZE + 1 : w[k] = W[k]
    BY <2>13, <2>14, SameTrail, SMTT(30)
  <2>16. {k \in 1 .. SIZE + 1 : W[k] # None} = 1 .. n
    <3>1. \A k \in 1 .. n : k \in 1 .. SIZE + 1 /\ k <= n /\ g[k] \in Descs
      BY <1>3, <2>1, SMTT(30)
    <3>2. \A k \in 1 .. SIZE + 1 : ~(k <= n) => w[k] = None
      BY <2>4
    <3>3. \A k \in 1 .. n : w[k] = g[k]
      BY <2>4, <3>1
    <3> QED BY <3>1, <3>2, <3>3, <2>15, <1>3, SMTT(30)
  <2>17. Cardinality(1 .. n) = n
    BY <1>2
  <2>18. \A k \in 1 .. n : W[k] = g[k]
    BY <2>4, <2>15, <1>3, SMTT(30)
  <2>19. DeviceChain(a) = [k \in 1 .. n |-> desc[W[k]].addr]
    BY <2>8, <2>16, <2>17
  <2>20. \A k \in 1 .. n : desc[W[k]].addr = <<r, k>>
    BY <2>2, <2>18
  <2>21. DeviceChain(a) = Buffers(r, n)
    BY <2>19, <2>20 DEF Buffers
  <2> QED BY <2>21, <1>1, <1>2
<1> QED BY <1>5, <1>6

\* A device that reads the chain of a request finds its buffers.
ChainsRead == \A r \in InQueue : DeviceChain(reqs[r].token) = Buffers(r, reqs[r].len)

\* The device takes the next entry of the available ring and reads its chain.
LEMMA FetchKeeps ==
    ASSUME IndInv, DeviceFetch, ChainsRead
    PROVE  IndInv'
<1>0. TypeInv /\ ListsInv /\ FlowInv
  BY DEF IndInv
<1>1. PICK who \in Owners, num \in Numbers : Lists(who, num)
  BY <1>0 DEF ListsInv
<1>2. PICK D, P, A, L, U \in Nat : Flow(D, P, A, L, U)
  BY <1>0 DEF FlowInv
<1>3. /\ dev_avail # pub_idx /\ dev_avail' = (dev_avail + 1) % IDX
      /\ fetched' = [fetched EXCEPT ![ring[dev_avail % SIZE]] = DeviceChain(ring[dev_avail % SIZE])]
      /\ UNCHANGED <<indirect, event_idx, tso, descs, ring, avail_idx, pub_idx, used, used_idx,
                     last_used_idx, reqs, pc>>
  BY DEF DeviceFetch, usedRing, avail
<1>4. /\ desc_shadow' = desc_shadow /\ desc' = desc /\ free_head' = free_head /\ num_used' = num_used
      /\ indirect_lists' = indirect_lists /\ ring' = ring /\ used' = used /\ reqs' = reqs /\ pc' = pc
      /\ used_idx' = used_idx /\ last_used_idx' = last_used_idx /\ avail_idx' = avail_idx
      /\ pub_idx' = pub_idx
  BY <1>3 DEF descs
<1>5. ListsInv'
  BY <1>0, <1>3, ListsFrame
<1>6. /\ dev_avail = D % IDX /\ pub_idx = P % IDX /\ avail_idx = A % IDX
      /\ last_used_idx = L % IDX /\ used_idx = U % IDX /\ D <= P /\ P <= A
      /\ Queue(ring, D, Written(A)) /\ Queue(used, L, U)
      /\ Entries(ring, D, Written(A)) \cap Entries(used, L, U) = {}
      /\ \A x \in Entries(ring, D, Written(A)) \cup Entries(used, L, U) : Held(x) /\ fetched[x] = <<>>
      /\ DeviceSeesRequests
  BY <1>2 DEF Flow
<1>7. D # P
  BY <1>3, <1>6
<1>8. D # Written(A) /\ D + 1 <= P /\ D + 1 \in Nat
  BY <1>6, <1>7, SMTT(30) DEF Written
<1>h. PICK h : h = ring[D % SIZE]
  OBVIOUS
<1>9. /\ Queue(ring, D + 1, Written(A)) /\ h \in Entries(ring, D, Written(A)) /\ h \in Descs
      /\ Entries(ring, D + 1, Written(A)) = Entries(ring, D, Written(A)) \ {h}
  BY <1>6, <1>8, <1>h, RingPop
<1>10. PICK r \in InQueue : reqs[r].token = h
  BY <1>6, <1>9 DEF Held
<1>11. DeviceChain(h) = Buffers(r, reqs[r].len)
  <2>1. DeviceChain(reqs[r].token) = Buffers(r, reqs[r].len)
    BY <1>10 DEF ChainsRead
  <2> QED BY <2>1, <1>10
<1>12. fetched' = [fetched EXCEPT ![h] = Buffers(r, reqs[r].len)]
  <2>1. ring[dev_avail % SIZE] = h
    BY <1>6, <1>h, Slot
  <2> QED BY <2>1, <1>3, <1>11
<1>13. TypeInv'
  <2>1. Free' = Free
    BY <1>4 DEF Free
  <2>2. Buffers(r, reqs[r].len) \in Seq(Requests \X Nat)
    <3>1. r \in Requests /\ reqs[r].len \in Nat
      BY <1>0, <1>10, SMTT(30) DEF InQueue, TypeInv
    <3> QED BY <3>1, BuffersType
  <2>3. fetched' \in [Descs -> Seq(Requests \X Nat)]
    BY <2>2, <1>0, <1>12 DEF TypeInv
  <2> QED BY <2>1, <2>3, <1>0, <1>3, <1>4 DEF TypeInv
<1>14. InQueue' = InQueue /\ \A x : Held(x)' <=> Held(x)
  BY <1>4 DEF InQueue, Held
<1>15. /\ \A x \in Descs : x # h => fetched'[x] = fetched[x]
       /\ fetched'[h] = Buffers(r, reqs[r].len)
  BY <1>0, <1>9, <1>12 DEF TypeInv
<1>16. DeviceSeesRequests'
  <2> SUFFICES ASSUME NEW x \in Descs, fetched'[x] # <<>>
               PROVE  \E q \in InQueue' : reqs'[q].token = x /\ fetched'[x] = Buffers(q, reqs'[q].len)
    BY DEF DeviceSeesRequests
  <2>0. reqs' = reqs /\ InQueue' = InQueue
    BY <1>4, <1>14
  <2>1. CASE x = h
    BY <2>0, <2>1, <1>10, <1>15
  <2>2. CASE x # h
    <3>1. fetched'[x] = fetched[x] /\ fetched[x] # <<>>
      BY <2>2, <1>15
    <3>2. PICK q \in InQueue : reqs[q].token = x /\ fetched[x] = Buffers(q, reqs[q].len)
      BY <3>1, <1>6 DEF DeviceSeesRequests
    <3> QED BY <2>0, <3>1, <3>2
  <2> QED BY <2>1, <2>2
<1>17. \A x \in Entries(ring, D + 1, Written(A)) \cup Entries(used, L, U) : Held(x)' /\ fetched'[x] = <<>>
  <2> TAKE x \in Entries(ring, D + 1, Written(A)) \cup Entries(used, L, U)
  <2>1. x # h /\ Held(x) /\ fetched[x] = <<>>
    BY <1>6, <1>9
  <2>2. x \in Descs
    <3>1. PICK q \in InQueue : reqs[q].token = x
      BY <2>1 DEF Held
    <3> QED BY <3>1, <1>1 DEF Lists
  <2> QED BY <2>1, <2>2, <1>14, <1>15
<1>18. dev_avail' = (D + 1) % IDX
  <2>1. (D + 1) % IDX = ((D % IDX) + 1) % IDX
    BY Slot
  <2> QED BY <2>1, <1>3, <1>6
<1>19. Entries(ring, D + 1, Written(A)) \cap Entries(used, L, U) = {}
  BY <1>6, <1>9
<1>20. Flow(D + 1, P, A, L, U)'
  <2>1. Written(A)' = Written(A)
    BY <1>4 DEF Written
  <2> QED BY <2>1, <1>4, <1>6, <1>8, <1>9, <1>16, <1>17, <1>18, <1>19 DEF Flow
<1>21. FlowInv'
  BY <1>8, <1>20 DEF FlowInv
<1> QED BY <1>5, <1>13, <1>21 DEF IndInv

-----------------------------------------------------------------------------
(* The parts of DescriptorsPartitioned.                                    *)

ChainOf(r) == IF "INDIRECT" \in desc_shadow[reqs[r].token].flags
              THEN <<reqs[r].token>> ELSE ShadowChain(reqs[r].token, reqs[r].len)
FreeOnes == FreeChain(SIZE - num_used)
Cells == {<<None, k>> : k \in DOMAIN FreeOnes}
             \cup UNION {{<<r, k>> : k \in DOMAIN ChainOf(r)} : r \in InQueue}
At(e) == IF e[1] = None THEN FreeOnes[e[2]] ELSE ChainOf(e[1])[e[2]]

\* The free list has SIZE - num_used elements.
LEMMA FreeOnesWalk ==
    ASSUME TypeInv, NEW who \in Owners, NEW num \in Numbers, Lists(who, num)
    PROVE  /\ DOMAIN FreeOnes = 1 .. Free
           /\ \A k \in 1 .. Free : FreeOnes[k] \in Descs /\ who[FreeOnes[k]] = None /\ num[FreeOnes[k]] = k
<1>1. Free \in Nat /\ FreeOnes = FreeChain(Free)
  BY DEF TypeInv, Free, FreeOnes
<1>2. CASE Free = 0
  <2>0. PICK g : g = [k \in 1 .. 0 |-> 0]
    OBVIOUS
  <2>1. g = [k \in 1 .. 0 |-> IF k = 1 THEN free_head ELSE desc_shadow[g[k - 1]].next]
    BY <2>0, SMTT(30)
  <2> DEFINE V == CHOOSE f : f = [k \in 1 .. 0 |-> IF k = 1 THEN free_head ELSE desc_shadow[f[k - 1]].next]
  <2>2. FreeChain(0) = V
    BY DEF FreeChain
  <2>3. V = [k \in 1 .. 0 |-> IF k = 1 THEN free_head ELSE desc_shadow[V[k - 1]].next]
    BY <2>1
  <2> HIDE DEF V
  <2>4. DOMAIN V = 1 .. 0
    BY <2>3
  <2> QED BY <1>1, <1>2, <2>2, <2>4, SMTT(30)
<1>3. CASE Free # 0
  <2>1. PICK n \in 1 .. Free : n = Free
    BY <1>1, <1>3, SMTT(30)
  <2>2. /\ FreeChain(n) \in [1 .. n -> Descs]
        /\ \A k \in 1 .. n : who[FreeChain(n)[k]] = None /\ num[FreeChain(n)[k]] = k
    BY FreeWalk
  <2>3. FreeOnes = FreeChain(n)
    BY <1>1, <2>1
  <2>4. /\ FreeOnes \in [1 .. n -> Descs]
        /\ \A k \in 1 .. n : who[FreeOnes[k]] = None /\ num[FreeOnes[k]] = k
    BY <2>2, <2>3
  <2> QED BY <2>1, <2>4
<1> QED BY <1>2, <1>3

\* The chain of a request has as many descriptors as it has buffers, or one.
LEMMA ChainOfWalk ==
    ASSUME TypeInv, NEW who \in Owners, NEW num \in Numbers, Lists(who, num), NEW r \in InQueue
    PROVE  /\ ChainLen(r) \in Nat \ {0} /\ DOMAIN ChainOf(r) = 1 .. ChainLen(r)
           /\ Len(ChainOf(r)) = ChainLen(r)
           /\ \A k \in 1 .. ChainLen(r) :
                 ChainOf(r)[k] \in Descs /\ who[ChainOf(r)[k]] = r /\ num[ChainOf(r)[k]] = k
<1>h. PICK h : h = reqs[r].token
  OBVIOUS
<1>n. PICK n : n = reqs[r].len
  OBVIOUS
<1>1. n \in Nat \ {0} /\ r # None /\ h \in Descs /\ who[h] = r /\ num[h] = 1
  <2>1. r # None
    BY VirtQueueAssumption DEF InQueue
  <2>2. h \in Descs /\ n \in 1 .. SIZE /\ who[h] = r /\ num[h] = 1
    BY <1>h, <1>n DEF Lists
  <2> QED BY <2>1, <2>2, SMTT(30)
<1>2. Chained(who, num, h)
  BY <1>1 DEF Lists
<1>3. CASE InList(r)
  <2>1. ChainLen(r) = 1 /\ desc_shadow[h].flags = {"INDIRECT"}
    BY <1>1, <1>2, <1>3 DEF Chained, ChainLen
  <2>2. ChainOf(r) = <<h>>
    BY <2>1, <1>h DEF ChainOf
  <2>3. \A k \in 1 .. 1 : k = 1
    BY SMTT(30)
  <2> QED BY <2>1, <2>2, <2>3, <1>1, SMTT(30)
<1>4. CASE ~InList(r)
  <2>1. ChainLen(r) = n /\ "INDIRECT" \notin desc_shadow[h].flags
    <3>1. /\ num[h] <= ChainLen(r)
          /\ num[h] < ChainLen(r) => desc_shadow[h].flags = {"NEXT"}
          /\ num[h] = ChainLen(r) => desc_shadow[h].flags = {}
      BY <1>1, <1>2, <1>4 DEF Chained
    <3>2. ChainLen(r) = n
      BY <1>4, <1>n DEF ChainLen
    <3> QED BY <3>1, <3>2, <1>1, SMTT(30)
  <2>2. PICK c : c = ShadowChain(reqs[r].token, n)
    OBVIOUS
  <2>3. c \in [1 .. n -> Descs] /\ \A k \in 1 .. n : who[c[k]] = r /\ num[c[k]] = k
    BY <2>2, <1>4, <1>n, ShadowWalk, SMTT(30)
  <2>4. ChainOf(r) = c
    BY <2>1, <2>2, <1>h, <1>n DEF ChainOf
  <2>5. Len(c) = n
    BY <2>3, <1>1, SMTT(30)
  <2> QED BY <2>1, <2>3, <2>4, <2>5, <1>1
<1> QED BY <1>3, <1>4

\* The elements of the free list and of the chains are the descriptors, each once.
LEMMA CellsAreDescs ==
    ASSUME TypeInv, NEW who \in Owners, NEW num \in Numbers, Lists(who, num)
    PROVE  /\ Cells = {<<who[i], num[i]>> : i \in Descs}
           /\ \A i \in Descs : At(<<who[i], num[i]>>) = i
<1>0. None \notin Requests /\ InQueue \subseteq Requests
  BY VirtQueueAssumption DEF InQueue
<1>1. /\ DOMAIN FreeOnes = 1 .. Free
      /\ \A k \in 1 .. Free : FreeOnes[k] \in Descs /\ who[FreeOnes[k]] = None /\ num[FreeOnes[k]] = k
  BY FreeOnesWalk
<1>2. \A r \in InQueue :
           /\ DOMAIN ChainOf(r) = 1 .. ChainLen(r)
           /\ \A k \in 1 .. ChainLen(r) :
                 ChainOf(r)[k] \in Descs /\ who[ChainOf(r)[k]] = r /\ num[ChainOf(r)[k]] = k
  BY ChainOfWalk, SMTT(30)
<1>i. \A i, j \in Descs : who[i] = who[j] /\ num[i] = num[j] => i = j
  BY DEF Lists
<1>3. ASSUME NEW i \in Descs, who[i] = None
      PROVE  <<who[i], num[i]>> \in Cells /\ At(<<who[i], num[i]>>) = i
  <2>1. num[i] \in 1 .. Free
    <3>1. num[i] <= Free /\ num[i] \in Nat \ {0} /\ Free \in Nat
      BY <1>3 DEF Lists, FreeList, Numbers, TypeInv
    <3> QED BY <3>1, SMTT(30)
  <2>2. FreeOnes[num[i]] = i
    BY <2>1, <1>1, <1>3, <1>i
  <2>3. <<None, num[i]>> \in Cells
    BY <2>1, <1>1 DEF Cells
  <2>4. At(<<None, num[i]>>) = FreeOnes[num[i]]
    BY DEF At
  <2> QED BY <2>2, <2>3, <2>4, <1>3
<1>4. ASSUME NEW i \in Descs, who[i] # None
      PROVE  <<who[i], num[i]>> \in Cells /\ At(<<who[i], num[i]>>) = i
  <2>r. PICK r : r = who[i]
    OBVIOUS
  <2>1. r \in InQueue /\ num[i] \in 1 .. ChainLen(r)
    <3>1. Chained(who, num, i)
      BY <1>4 DEF Lists
    <3>2. r \in InQueue /\ num[i] <= ChainLen(r) /\ num[i] \in Nat \ {0}
      BY <3>1, <2>r DEF Chained, Numbers
    <3>3. ChainLen(r) \in Nat
      BY <3>2, ChainOfWalk
    <3> QED BY <3>2, <3>3, SMTT(30)
  <2>2. ChainOf(r)[num[i]] = i
    BY <2>1, <2>r, <1>2, <1>i, SMTT(30)
  <2>3. <<r, num[i]>> \in Cells
    <3>1. <<r, num[i]>> \in {<<r, k>> : k \in DOMAIN ChainOf(r)}
      BY <2>1, <1>2
    <3>2. \A q \in InQueue : {<<q, k>> : k \in DOMAIN ChainOf(q)} \subseteq Cells
      BY DEF Cells
    <3> QED BY <3>1, <3>2, <2>1
  <2>4. At(<<r, num[i]>>) = ChainOf(r)[num[i]]
    <3>1. r # None
      BY <2>1, <1>0
    <3> QED BY <3>1 DEF At
  <2> QED BY <2>2, <2>3, <2>4, <2>r
<1>5. ASSUME NEW e \in Cells PROVE \E i \in Descs : e = <<who[i], num[i]>>
  <2>1. CASE e \in {<<None, k>> : k \in DOMAIN FreeOnes}
    <3>1. PICK k \in 1 .. Free : e = <<None, k>>
      BY <2>1, <1>1
    <3> QED BY <3>1, <1>1
  <2>2. CASE e \in UNION {{<<r, k>> : k \in DOMAIN ChainOf(r)} : r \in InQueue}
    <3>1. PICK r \in InQueue : e \in {<<r, k>> : k \in DOMAIN ChainOf(r)}
      BY <2>2
    <3>2. PICK k \in 1 .. ChainLen(r) : e = <<r, k>>
      BY <3>1, <1>2
    <3> QED BY <3>2, <1>2, SMTT(30)
  <2> QED BY <2>1, <2>2, <1>5 DEF Cells
<1> QED BY <1>3, <1>4, <1>5

\* The chains end, and the lists of buffers that are kept are those of requests.
LEMMA ChainEnds ==
    ASSUME TypeInv, NEW who \in Owners, NEW num \in Numbers, Lists(who, num)
    PROVE  /\ \A r \in InQueue : "NEXT" \notin desc_shadow[ChainOf(r)[Len(ChainOf(r))]].flags
           /\ \A i \in Descs : indirect_lists[i] # <<>> =>
                 \E r \in InQueue : reqs[r].token = i /\ indirect_lists[i] = Buffers(r, reqs[r].len)
<1>1. ASSUME NEW r \in InQueue PROVE "NEXT" \notin desc_shadow[ChainOf(r)[Len(ChainOf(r))]].flags
  <2>1. /\ ChainLen(r) \in Nat \ {0} /\ Len(ChainOf(r)) = ChainLen(r)
        /\ \A k \in 1 .. ChainLen(r) :
                 ChainOf(r)[k] \in Descs /\ who[ChainOf(r)[k]] = r /\ num[ChainOf(r)[k]] = k
    BY ChainOfWalk, SMTT(30)
  <2>2. ChainLen(r) \in 1 .. ChainLen(r)
    BY <2>1, SMTT(30)
  <2>3. PICK i \in Descs : i = ChainOf(r)[Len(ChainOf(r))] /\ who[i] = r /\ num[i] = ChainLen(r)
    BY <2>1, <2>2
  <2>4. r # None
    BY VirtQueueAssumption DEF InQueue
  <2>5. Chained(who, num, i)
    BY <2>3, <2>4 DEF Lists
  <2>6. desc_shadow[i].flags = IF InList(r) THEN {"INDIRECT"} ELSE {}
    BY <2>3, <2>5 DEF Chained
  <2> QED BY <2>3, <2>6, SMTT(30)
<1>2. ASSUME NEW i \in Descs, indirect_lists[i] # <<>>
      PROVE  \E r \in InQueue : reqs[r].token = i /\ indirect_lists[i] = Buffers(r, reqs[r].len)
  <2>1. Chained(who, num, i)
    BY <1>2 DEF Lists
  <2>r. PICK r : r = who[i]
    OBVIOUS
  <2>2. r \in InQueue /\ InList(r) /\ num[i] <= ChainLen(r) /\ indirect_lists[i] = Buffers(r, reqs[r].len)
    BY <2>1, <2>r, <1>2 DEF Chained
  <2>3. num[i] = 1
    BY <2>2, SMTT(30) DEF ChainLen, Numbers
  <2>4. reqs[r].token \in Descs /\ who[reqs[r].token] = r /\ num[reqs[r].token] = 1
    BY <2>2 DEF Lists
  <2>5. reqs[r].token = i
    BY <2>3, <2>4, <2>r, SMTT(30) DEF Lists
  <2> QED BY <2>2, <2>5
<1> QED BY <1>1, <1>2

-----------------------------------------------------------------------------
(* The theorems.                                                           *)

INSTANCE FiniteSetTheorems

\* There are SIZE descriptors.
LEMMA DescsFinite == IsFiniteSet(Descs) /\ Cardinality(Descs) = SIZE
<1>1. SIZE \in Nat \ {0}
  BY VirtQueueAssumption
<1>2. 0 \in Int /\ SIZE - 1 \in Int
  BY <1>1, SMTT(30)
<1>3. IsFiniteSet(0 .. SIZE - 1) /\ Cardinality(0 .. SIZE - 1) = IF 0 > SIZE - 1 THEN 0
                                                                ELSE (SIZE - 1) - 0 + 1
  BY <1>2, FS_Interval
<1> QED BY <1>1, <1>3, SMTT(30) DEF Descs

\* The device finds the buffers of every request.
LEMMA IndRead == IndInv => ChainsRead
<1> SUFFICES ASSUME IndInv, NEW r \in InQueue
             PROVE  DeviceChain(reqs[r].token) = Buffers(r, reqs[r].len)
  BY DEF ChainsRead
<1>1. TypeInv
  BY DEF IndInv
<1>2. PICK who \in Owners, num \in Numbers : Lists(who, num)
  BY DEF IndInv, ListsInv
<1>3. reqs[r].len \in 1 .. SIZE /\ SIZE \in Nat
  BY <1>2, VirtQueueAssumption DEF Lists
<1>4. Cardinality(1 .. reqs[r].len) = reqs[r].len
  BY <1>3, FS_Interval, SMTT(30)
<1> QED BY <1>1, <1>2, <1>4, DeviceWalk

\* Every step keeps the invariant.
LEMMA Step == IndInv /\ [Next]_vars => IndInv'
<1> SUFFICES ASSUME IndInv, [Next]_vars PROVE IndInv'
  OBVIOUS
<1>1. CASE \E r \in Requests : \E n \in 1 .. SIZE : Add(r, n)
  BY <1>1, AddKeeps
<1>2. CASE \E r \in Requests : PopUsed(r)
  BY <1>2, PopUsedKeeps
<1>3. CASE Publish \/ Commit \/ Notify
  BY <1>3, IndexKeeps
<1>4. CASE DeviceFetch
  BY <1>4, FetchKeeps, IndRead
<1>5. CASE \E h \in Descs : DeviceUse(h)
  BY <1>5, UseKeeps
<1>6. CASE DeviceIdle \/ DeviceRecheck \/ DeviceWake \/ UNCHANGED vars
  BY <1>6, OtherKeeps
<1> QED BY <1>1, <1>2, <1>3, <1>4, <1>5, <1>6 DEF Next, Driver, Device

\* Every descriptor is in the free list or in the chain of one request, and every entry
\* of the rings that is still to be read names a request in the queue, each at most once
\* (add, pop_used and recycle_descriptors, against a device that completes in any order).
THEOREM QueueInductive == Spec => []IndInv
<1>1. Init => IndInv
  BY InitInv
<1>2. IndInv /\ [Next]_vars => IndInv'
  BY Step
<1> QED BY <1>1, <1>2, PTL DEF Spec

\* For any queue size: whatever chain the device holds is the complete buffer list of a
\* request in the queue, across every wrap of the indices and with a store buffer (add
\* fills the descriptors and the slot before it publishes the index).
THEOREM DeviceReadsRequests == Spec => []DeviceSeesRequests
<1>1. IndInv => DeviceSeesRequests
  BY DEF IndInv, FlowInv, Flow
<1> QED BY <1>1, QueueInductive, PTL

\* The invariant implies what the runs check of the descriptors.
LEMMA Partition == IndInv => DescriptorsPartitioned
<1> SUFFICES ASSUME IndInv PROVE DescriptorsPartitioned
  OBVIOUS
<1>0. TypeInv
  BY DEF IndInv
<1>1. PICK who \in Owners, num \in Numbers : Lists(who, num)
  BY DEF IndInv, ListsInv
<1>2. /\ Cells = {<<who[i], num[i]>> : i \in Descs}
      /\ \A i \in Descs : At(<<who[i], num[i]>>) = i
  BY <1>0, <1>1, CellsAreDescs
<1>3. {At(e) : e \in Cells} = Descs
  BY <1>2
<1>4. Cardinality(Cells) = SIZE
  <2>f. PICK f : f = [i \in Descs |-> <<who[i], num[i]>>]
    OBVIOUS
  <2>1. f \in [Descs -> Cells] /\ \A e \in Cells : \E i \in Descs : f[i] = e
    BY <2>f, <1>2
  <2>2. \A i, j \in Descs : f[i] = f[j] => i = j
    BY <2>f, <1>1 DEF Lists
  <2>3. f \in Injection(Descs, Cells) /\ f \in Surjection(Descs, Cells)
    BY <2>1, <2>2 DEF Injection, Surjection, IsInjective
  <2>4. IsFiniteSet(Descs) /\ Cardinality(Descs) = SIZE
    BY DescsFinite
  <2> QED BY <2>3, <2>4, FS_Surjection
<1>5. /\ \A r \in InQueue : "NEXT" \notin desc_shadow[ChainOf(r)[Len(ChainOf(r))]].flags
      /\ \A i \in Descs : indirect_lists[i] # <<>> =>
            \E r \in InQueue : reqs[r].token = i /\ indirect_lists[i] = Buffers(r, reqs[r].len)
  BY <1>0, <1>1, ChainEnds
<1> QED BY <1>3, <1>4, <1>5 DEF DescriptorsPartitioned, Cells, At, ChainOf, FreeOnes

\* For any queue size: the free list and the chains of the requests are a partition of
\* the table, so recycle_descriptors meets neither a shorter nor a longer chain than the
\* buffers of the caller, and pops in any order leak no descriptor.
THEOREM PartitionInvariant == Spec => []DescriptorsPartitioned
<1>1. IndInv => DescriptorsPartitioned
  BY Partition
<1> QED BY <1>1, QueueInductive, PTL
=============================================================================
