--------------------------- MODULE VirtQueueLists ---------------------------
(***************************************************************************)
(* The free list and the chains of VirtQueue, for any number of            *)
(* descriptors and any set of requests.                                    *)
(*                                                                         *)
(* Every descriptor has an owner (a request, or None for the free list)    *)
(* and a number in its owner's list, and the next fields follow the        *)
(* numbers: what the code never stores, and the links stand for.  add and  *)
(* pop_used keep such owners and numbers, and a walk along the links meets *)
(* the descriptors of one owner in the order of their numbers.             *)
(***************************************************************************)
EXTENDS VirtQueue, TLAPS

\* Zenon first: the leaves that need arithmetic, records or sequences name SMT.
USE ZenonT(30), SMTT(30)

-----------------------------------------------------------------------------
(* The lists.                                                              *)

\* The length of the free list.
Free == SIZE - num_used
\* r has a list of its own (add_indirect), and the descriptors it takes.
InList(r) == indirect = TRUE /\ reqs[r].len > 1
ChainLen(r) == IF InList(r) THEN 1 ELSE reqs[r].len
Addrs == {None} \cup (Requests \X Nat) \cup ({None} \X Descs)
DescType == [addr : Addrs, next : Nat, flags : SUBSET {"NEXT", "INDIRECT"}]

\* The types; num_used stays within the table because the free list never runs out.
TypeInv ==
    /\ indirect \in BOOLEAN /\ event_idx \in BOOLEAN /\ tso \in BOOLEAN
    /\ desc_shadow \in [Descs -> DescType] /\ desc \in [Descs -> DescType]
    /\ free_head \in Nat /\ num_used \in Int /\ Free \in Nat
    /\ indirect_lists \in [Descs -> Seq(Requests \X Nat)]
    /\ ring \in [Descs -> Descs] /\ used \in [Descs -> Descs]
    /\ reqs \in [Requests -> [token : Descs \cup {None}, len : 0 .. SIZE]]
    /\ fetched \in [Descs -> Seq(Requests \X Nat)]
    /\ pc \in {"idle", "publish", "notify"}

\* The free list: descriptor i is its num[i]-th element if who[i] is None.
FreeList(who, num) ==
    /\ Free > 0 => free_head \in Descs /\ who[free_head] = None /\ num[free_head] = 1
    /\ \A i \in Descs : who[i] = None =>
          /\ num[i] <= Free
          /\ num[i] < Free => /\ desc_shadow[i].next \in Descs
                              /\ who[desc_shadow[i].next] = None
                              /\ num[desc_shadow[i].next] = num[i] + 1

\* A request's chain: descriptor i is its num[i]-th element if who[i] is the request.
Chained(who, num, i) ==
    LET r == who[i] IN
    /\ r \in InQueue /\ num[i] <= ChainLen(r)
    /\ desc[i] = desc_shadow[i]
    /\ num[i] < ChainLen(r) =>
          /\ desc_shadow[i].flags = {"NEXT"} /\ desc_shadow[i].next \in Descs
          /\ who[desc_shadow[i].next] = r /\ num[desc_shadow[i].next] = num[i] + 1
    /\ num[i] = ChainLen(r) => desc_shadow[i].flags = IF InList(r) THEN {"INDIRECT"} ELSE {}
    /\ IF InList(r) THEN indirect_lists[i] = Buffers(r, reqs[r].len)
                    ELSE indirect_lists[i] = <<>> /\ desc_shadow[i].addr = <<r, num[i]>>

\* The free list and the chains, with an owner and a number for every descriptor.
Lists(who, num) ==
    /\ FreeList(who, num)
    /\ \A i \in Descs : IF who[i] = None THEN indirect_lists[i] = <<>> ELSE Chained(who, num, i)
    /\ \A r \in InQueue : /\ reqs[r].token \in Descs /\ reqs[r].len \in 1 .. SIZE
                          /\ who[reqs[r].token] = r /\ num[reqs[r].token] = 1
    /\ \A i, j \in Descs : who[i] = who[j] /\ num[i] = num[j] => i = j

Owners == [Descs -> Requests \cup {None}]
Numbers == [Descs -> Nat \ {0}]

\* Some owners and numbers fit.
ListsInv == \E who \in Owners, num \in Numbers : Lists(who, num)

\* Steps that leave the descriptors and the requests alone keep the lists.
LEMMA ListsFrame ==
    ASSUME ListsInv, UNCHANGED <<descs, reqs, indirect>>
    PROVE  ListsInv'
<1>1. PICK who \in Owners, num \in Numbers : Lists(who, num)
  BY DEF ListsInv
<1>2. /\ desc_shadow' = desc_shadow /\ desc' = desc /\ free_head' = free_head /\ num_used' = num_used
      /\ indirect_lists' = indirect_lists /\ reqs' = reqs /\ indirect' = indirect
  BY DEF descs
<1>3. Free' = Free /\ InQueue' = InQueue
  BY <1>2 DEF Free, InQueue
<1>4. \A r : ChainLen(r)' = ChainLen(r) /\ (InList(r)' <=> InList(r))
  BY <1>2 DEF ChainLen, InList
<1>5. FreeList(who, num)'
  BY <1>1, <1>2, <1>3 DEF Lists, FreeList
<1>6. ASSUME NEW i \in Descs, Chained(who, num, i) PROVE Chained(who, num, i)'
  BY <1>2, <1>3, <1>4, <1>6 DEF Chained
<1>7. Lists(who, num)'
  BY <1>1, <1>2, <1>3, <1>5, <1>6 DEF Lists
<1> QED BY <1>1, <1>7 DEF ListsInv

-----------------------------------------------------------------------------
(* add.                                                                    *)

\* The descriptors that a chain of c takes from the front of the free list.
Took(who, num, c, i) == who[i] = None /\ num[i] <= c

\* What add_direct and add_indirect do to the descriptors.
AddEffect(who, num, r, n, c) ==
    /\ c \in 1 .. Free /\ num_used' = num_used + c
    /\ c = IF indirect /\ n > 1 THEN 1 ELSE n
    /\ \E i \in Descs : who[i] = None /\ num[i] = c /\ free_head' = desc_shadow[i].next
    /\ desc_shadow' \in [Descs -> DescType] /\ desc' \in [Descs -> DescType]
    /\ indirect_lists' \in [Descs -> Seq(Requests \X Nat)]
    /\ \A i \in Descs :
          IF Took(who, num, c, i)
          THEN /\ desc'[i] = desc_shadow'[i] /\ desc_shadow'[i].next = desc_shadow[i].next
               /\ desc_shadow'[i].flags = IF indirect /\ n > 1 THEN {"INDIRECT"}
                                          ELSE IF num[i] = n THEN {} ELSE {"NEXT"}
               /\ IF indirect /\ n > 1
                  THEN indirect_lists'[i] = Buffers(r, n)
                  ELSE indirect_lists'[i] = indirect_lists[i] /\ desc_shadow'[i].addr = <<r, num[i]>>
          ELSE /\ desc'[i] = desc[i] /\ desc_shadow'[i] = desc_shadow[i]
               /\ indirect_lists'[i] = indirect_lists[i]

\* add moves descriptors from the front of the free list to the chain of the request.
LEMMA AddLists ==
    ASSUME TypeInv, NEW who \in Owners, NEW num \in Numbers, Lists(who, num),
           NEW r \in Requests, NEW n \in 1 .. SIZE, NEW c, reqs[r] = Idle, AddEffect(who, num, r, n, c),
           reqs' = [reqs EXCEPT ![r] = [token |-> free_head, len |-> n]], indirect' = indirect
    PROVE  \E w \in Owners, m \in Numbers : Lists(w, m)'
<1>1. /\ c \in 1 .. Free /\ c \in Nat \ {0} /\ Free \in Nat /\ num_used' = num_used + c /\ num_used \in Int
      /\ SIZE \in Nat /\ n \in Nat \ {0} /\ None \notin Requests /\ None \notin Descs /\ r # None
      /\ c = IF indirect /\ n > 1 THEN 1 ELSE n
  <2>1. SIZE \in Nat /\ None \notin Requests /\ None \notin Descs
    BY VirtQueueAssumption, SMTT(30) DEF Descs
  <2>2. Free \in Nat /\ num_used \in Int
    BY DEF TypeInv
  <2>3. c \in 1 .. Free /\ num_used' = num_used + c /\ c = IF indirect /\ n > 1 THEN 1 ELSE n
    BY DEF AddEffect
  <2>4. n \in Nat \ {0} /\ r # None /\ c \in Nat \ {0}
    BY <2>1, <2>2, <2>3, SMTT(30)
  <2> QED BY <2>1, <2>2, <2>3, <2>4
<1>2. /\ reqs'[r] = [token |-> free_head, len |-> n]
      /\ \A q \in Requests : q # r => reqs'[q] = reqs[q]
  BY DEF TypeInv
<1>3. free_head \in Descs /\ who[free_head] = None /\ num[free_head] = 1
  BY <1>1, SMTT(30) DEF Lists, FreeList
<1>4. r \notin InQueue /\ InQueue' = InQueue \cup {r}
  <2>1. reqs'[r] # Idle
    BY <1>1, <1>2, <1>3, SMTT(30) DEF Idle
  <2> QED BY <2>1, <1>2 DEF InQueue
<1>5. ChainLen(r)' = c /\ (InList(r)' <=> indirect /\ n > 1) /\ reqs'[r].len = n
  <2>1. reqs'[r].len = n /\ indirect \in BOOLEAN
    BY <1>2 DEF TypeInv
  <2> QED BY <1>1, <2>1 DEF ChainLen, InList
<1>6. ASSUME NEW q \in InQueue
      PROVE  /\ ChainLen(q)' = ChainLen(q) /\ (InList(q)' <=> InList(q)) /\ reqs'[q] = reqs[q]
             /\ q # r /\ q # None /\ q \in Requests /\ q \in InQueue'
  <2>1. q # r /\ q \in Requests
    BY <1>4 DEF InQueue
  <2>2. reqs'[q] = reqs[q]
    BY <1>2, <2>1
  <2> QED BY <2>1, <2>2, <1>1, <1>4, SMTT(30) DEF ChainLen, InList
<1>7. Free' = Free - c
  BY <1>1, SMTT(30) DEF Free
<1>w. PICK w : w = [i \in Descs |-> IF Took(who, num, c, i) THEN r ELSE who[i]]
  OBVIOUS
<1>m. PICK m : m = [i \in Descs |-> IF who[i] = None /\ ~Took(who, num, c, i) THEN num[i] - c ELSE num[i]]
  OBVIOUS
<1>8. ASSUME NEW i \in Descs
      PROVE  /\ num[i] \in Nat \ {0} /\ who[i] \in Requests \cup {None}
             /\ Took(who, num, c, i) <=> who[i] = None /\ num[i] <= c
             /\ Took(who, num, c, i) => w[i] = r /\ m[i] = num[i]
             /\ ~Took(who, num, c, i) => w[i] = who[i]
             /\ ~Took(who, num, c, i) /\ who[i] = None => m[i] = num[i] - c /\ num[i] > c
             /\ who[i] # None => m[i] = num[i] /\ who[i] \in InQueue /\ who[i] # r /\ Chained(who, num, i)
  <2>1. num[i] \in Nat \ {0} /\ who[i] \in Requests \cup {None}
    BY DEF Numbers, Owners
  <2>2. Took(who, num, c, i) <=> who[i] = None /\ num[i] <= c
    BY DEF Took
  <2>3. who[i] # None => who[i] \in InQueue /\ Chained(who, num, i)
    BY DEF Lists, Chained
  <2> QED BY <2>1, <2>2, <2>3, <1>1, <1>4, <1>w, <1>m, SMTT(30)
<1>9. w \in Owners /\ m \in Numbers
  <2>1. \A i \in Descs : w[i] \in Requests \cup {None} /\ m[i] \in Nat \ {0}
    BY <1>1, <1>8, SMTT(30)
  <2> QED BY <2>1, <1>w, <1>m DEF Owners, Numbers
<1>t. ASSUME NEW i \in Descs
      PROVE  IF Took(who, num, c, i)
          THEN /\ desc'[i] = desc_shadow'[i] /\ desc_shadow'[i].next = desc_shadow[i].next
               /\ desc_shadow'[i].flags = IF indirect /\ n > 1 THEN {"INDIRECT"}
                                          ELSE IF num[i] = n THEN {} ELSE {"NEXT"}
               /\ IF indirect /\ n > 1
                  THEN indirect_lists'[i] = Buffers(r, n)
                  ELSE indirect_lists'[i] = indirect_lists[i] /\ desc_shadow'[i].addr = <<r, num[i]>>
          ELSE /\ desc'[i] = desc[i] /\ desc_shadow'[i] = desc_shadow[i]
               /\ indirect_lists'[i] = indirect_lists[i]
  BY DEF AddEffect
<1>n. ASSUME NEW i \in Descs, who[i] = None, num[i] < Free
      PROVE  /\ desc_shadow[i].next \in Descs
             /\ who[desc_shadow[i].next] = None /\ num[desc_shadow[i].next] = num[i] + 1
  BY <1>n DEF Lists, FreeList
<1>10. FreeList(w, m)'
  <2>1. ASSUME Free' > 0 PROVE free_head' \in Descs /\ w[free_head'] = None /\ m[free_head'] = 1
    <3>1. PICK i \in Descs : who[i] = None /\ num[i] = c /\ free_head' = desc_shadow[i].next
      BY DEF AddEffect
    <3>2. num[i] < Free
      BY <2>1, <3>1, <1>1, <1>7, SMTT(30)
    <3>3. free_head' \in Descs /\ who[free_head'] = None /\ num[free_head'] = c + 1
      BY <3>1, <3>2, <1>n
    <3>4. ~Took(who, num, c, free_head')
      BY <3>3, <1>1, SMTT(30) DEF Took
    <3> QED BY <3>3, <3>4, <1>1, <1>8, SMTT(30)
  <2>2. ASSUME NEW i \in Descs, w[i] = None
        PROVE  /\ m[i] <= Free'
               /\ m[i] < Free' => /\ desc_shadow'[i].next \in Descs
                                  /\ w[desc_shadow'[i].next] = None
                                  /\ m[desc_shadow'[i].next] = m[i] + 1
    <3>1. who[i] = None /\ ~Took(who, num, c, i) /\ m[i] = num[i] - c /\ num[i] > c /\ num[i] \in Nat
      BY <2>2, <1>1, <1>8
    <3>2. num[i] <= Free
      BY <3>1 DEF Lists, FreeList
    <3>3. ASSUME m[i] < Free'
          PROVE  /\ desc_shadow'[i].next \in Descs
                 /\ w[desc_shadow'[i].next] = None
                 /\ m[desc_shadow'[i].next] = m[i] + 1
      <4>1. num[i] < Free
        BY <3>1, <3>3, <1>1, <1>7, SMTT(30)
      <4>2. PICK j \in Descs : j = desc_shadow[i].next /\ who[j] = None /\ num[j] = num[i] + 1
        BY <3>1, <4>1, <1>n
      <4>3. desc_shadow'[i].next = j
        BY <4>2, <3>1, <1>t
      <4>4. ~Took(who, num, c, j)
        BY <4>2, <3>1, <1>1, SMTT(30) DEF Took
      <4>5. w[j] = None /\ m[j] = num[j] - c
        BY <4>2, <4>4, <1>8
      <4>6. m[j] = m[i] + 1
        BY <4>2, <4>5, <3>1, <1>1, SMTT(30)
      <4> QED BY <4>3, <4>5, <4>6
    <3>4. m[i] <= Free'
      BY <3>1, <3>2, <1>1, <1>7, SMTT(30)
    <3> QED BY <3>3, <3>4
  <2> QED BY <2>1, <2>2 DEF FreeList
<1>11. ASSUME NEW i \in Descs, w[i] = None PROVE indirect_lists'[i] = <<>>
  <2>1. ~Took(who, num, c, i) /\ who[i] = None
    BY <1>11, <1>1, <1>8
  <2>2. indirect_lists[i] = <<>>
    BY <2>1 DEF Lists
  <2> QED BY <2>1, <2>2, <1>t
<1>12. ASSUME NEW i \in Descs, w[i] # None PROVE Chained(w, m, i)'
  <2>1. CASE Took(who, num, c, i)
    <3>1. w[i] = r /\ m[i] = num[i] /\ num[i] <= c /\ who[i] = None /\ num[i] \in Nat
      BY <2>1, <1>8
    <3>2. r \in InQueue'
      BY <1>4
    <3>3. ASSUME num[i] < c
          PROVE  /\ desc_shadow'[i].flags = {"NEXT"} /\ desc_shadow'[i].next \in Descs
                 /\ w[desc_shadow'[i].next] = r /\ m[desc_shadow'[i].next] = num[i] + 1
      <4>0. ~(indirect /\ n > 1) /\ c = n /\ num[i] # n /\ num[i] < Free /\ num[i] + 1 <= c
        BY <3>1, <3>3, <1>1, <1>8, SMTT(30)
      <4>1. desc_shadow'[i].flags = {"NEXT"} /\ desc_shadow'[i].next = desc_shadow[i].next
        BY <4>0, <2>1, <1>t
      <4>2. PICK j \in Descs : j = desc_shadow[i].next /\ who[j] = None /\ num[j] = num[i] + 1
        BY <3>1, <4>0, <1>n
      <4>3. Took(who, num, c, j)
        BY <4>0, <4>2 DEF Took
      <4>4. w[j] = r /\ m[j] = num[i] + 1
        BY <4>2, <4>3, <1>8
      <4> QED BY <4>1, <4>2, <4>4
    <3>4. num[i] = c => desc_shadow'[i].flags = IF InList(r)' THEN {"INDIRECT"} ELSE {}
      BY <2>1, <1>1, <1>5, <1>t
    <3>5. indirect_lists[i] = <<>>
      BY <3>1 DEF Lists
    <3>6. IF InList(r)' THEN indirect_lists'[i] = Buffers(r, reqs'[r].len)
                        ELSE indirect_lists'[i] = <<>> /\ desc_shadow'[i].addr = <<r, m[i]>>
      BY <2>1, <3>1, <3>5, <1>5, <1>t
    <3>7. desc'[i] = desc_shadow'[i]
      BY <2>1, <1>t
    <3> QED BY <3>1, <3>2, <3>3, <3>4, <3>6, <3>7, <1>5 DEF Chained
  <2>2. CASE ~Took(who, num, c, i)
    <3>1. PICK q : q = who[i]
      OBVIOUS
    <3>2. q # None /\ q \in InQueue /\ w[i] = q /\ m[i] = num[i] /\ Chained(who, num, i)
      BY <2>2, <3>1, <1>8, <1>12
    <3>3. desc'[i] = desc[i] /\ desc_shadow'[i] = desc_shadow[i] /\ indirect_lists'[i] = indirect_lists[i]
      BY <2>2, <1>t
    <3>4. /\ num[i] <= ChainLen(q) /\ desc[i] = desc_shadow[i]
          /\ num[i] < ChainLen(q) =>
                /\ desc_shadow[i].flags = {"NEXT"} /\ desc_shadow[i].next \in Descs
                /\ who[desc_shadow[i].next] = q /\ num[desc_shadow[i].next] = num[i] + 1
          /\ num[i] = ChainLen(q) => desc_shadow[i].flags = IF InList(q) THEN {"INDIRECT"} ELSE {}
          /\ IF InList(q) THEN indirect_lists[i] = Buffers(q, reqs[q].len)
                          ELSE indirect_lists[i] = <<>> /\ desc_shadow[i].addr = <<q, num[i]>>
      BY <3>1, <3>2 DEF Chained
    <3>5. /\ ChainLen(q)' = ChainLen(q) /\ (InList(q)' <=> InList(q)) /\ reqs'[q] = reqs[q]
          /\ q \in InQueue'
      BY <3>2, <1>6
    <3>6. ASSUME num[i] < ChainLen(q)
          PROVE  w[desc_shadow[i].next] = q /\ m[desc_shadow[i].next] = num[i] + 1
      <4>1. PICK j \in Descs : j = desc_shadow[i].next /\ who[j] = q /\ num[j] = num[i] + 1
        BY <3>4, <3>6
      <4>2. ~Took(who, num, c, j)
        BY <4>1, <3>2 DEF Took
      <4>3. w[j] = q /\ m[j] = num[j]
        BY <4>1, <4>2, <3>2, <1>8
      <4> QED BY <4>1, <4>3
    <3> QED BY <3>2, <3>3, <3>4, <3>5, <3>6 DEF Chained
  <2> QED BY <2>1, <2>2
<1>13. ASSUME NEW q \in InQueue'
       PROVE  /\ reqs'[q].token \in Descs /\ reqs'[q].len \in 1 .. SIZE
              /\ w[reqs'[q].token] = q /\ m[reqs'[q].token] = 1
  <2>1. CASE q = r
    <3>1. Took(who, num, c, free_head)
      BY <1>1, <1>3, SMTT(30) DEF Took
    <3>2. w[free_head] = r /\ m[free_head] = 1
      BY <3>1, <1>3, <1>8
    <3> QED BY <2>1, <3>2, <1>2, <1>3, SMTT(30)
  <2>2. CASE q # r
    <3>1. q \in InQueue
      BY <2>2, <1>4, <1>13
    <3>2. PICK j : j = reqs[q].token /\ j \in Descs /\ reqs[q].len \in 1 .. SIZE /\ who[j] = q /\ num[j] = 1
      BY <3>1 DEF Lists
    <3>3. q # None /\ reqs'[q] = reqs[q]
      BY <3>1, <1>6
    <3>4. ~Took(who, num, c, j)
      BY <3>2, <3>3 DEF Took
    <3>5. w[j] = q /\ m[j] = 1
      BY <3>2, <3>3, <3>4, <1>8
    <3> QED BY <3>2, <3>3, <3>5
  <2> QED BY <2>1, <2>2
<1>14. ASSUME NEW i \in Descs, NEW j \in Descs, w[i] = w[j], m[i] = m[j] PROVE i = j
  <2>0. who[i] = who[j] /\ num[i] = num[j] => i = j
    BY DEF Lists
  <2>1. CASE Took(who, num, c, i) /\ Took(who, num, c, j)
    BY <2>0, <2>1, <1>8, <1>14
  <2>2. CASE Took(who, num, c, i) /\ ~Took(who, num, c, j)
    BY <2>2, <1>1, <1>8, <1>14
  <2>3. CASE ~Took(who, num, c, i) /\ Took(who, num, c, j)
    BY <2>3, <1>1, <1>8, <1>14
  <2>4. CASE ~Took(who, num, c, i) /\ ~Took(who, num, c, j)
    <3>1. who[i] = who[j]
      BY <2>4, <1>8, <1>14
    <3>2. num[i] = num[j]
      BY <2>4, <3>1, <1>1, <1>8, <1>14, SMTT(30)
    <3> QED BY <3>1, <3>2, <2>0
  <2> QED BY <2>1, <2>2, <2>3, <2>4
<1>15. \A i \in Descs : IF w[i] = None THEN indirect_lists'[i] = <<>> ELSE Chained(w, m, i)'
  BY <1>11, <1>12
<1>16. Lists(w, m)'
  BY <1>10, <1>13, <1>14, <1>15 DEF Lists
<1> QED BY <1>9, <1>16

\* The buffers of a request, as a sequence.
LEMMA BuffersType ==
    ASSUME NEW r \in Requests, NEW n \in Nat
    PROVE  Buffers(r, n) \in Seq(Requests \X Nat)
<1>1. Buffers(r, n) \in [1 .. n -> Requests \X Nat]
  BY SMTT(30) DEF Buffers
<1> QED BY <1>1, SMTT(30)

\* set_buf leaves next alone.
LEMMA SetBufType ==
    ASSUME NEW d \in DescType, NEW a \in Addrs, NEW f \in SUBSET {"NEXT", "INDIRECT"}
    PROVE  /\ SetBuf(d, a, f) \in DescType /\ SetBuf(d, a, f).next = d.next
           /\ SetBuf(d, a, f).addr = a /\ SetBuf(d, a, f).flags = f
BY DEF DescType, SetBuf

\* add_indirect takes the first descriptor and points it to a list of its own.
LEMMA AddIndirectEffect ==
    ASSUME TypeInv, NEW who \in Owners, NEW num \in Numbers, Lists(who, num),
           NEW r \in Requests, NEW n \in 1 .. SIZE, ~QueueFull(n), indirect /\ n > 1, AddIndirect(r, n)
    PROVE  AddEffect(who, num, r, n, 1)
<1>1. 1 \in 1 .. Free /\ n \in Nat /\ Free \in Nat /\ num_used \in Int /\ Free > 0
  BY VirtQueueAssumption, SMTT(30) DEF QueueFull, TypeInv, Free
<1>2. free_head \in Descs /\ who[free_head] = None /\ num[free_head] = 1
  BY <1>1 DEF Lists, FreeList
<1>h. PICK h : h = free_head
  OBVIOUS
<1>3. ASSUME NEW i \in Descs PROVE i = h <=> Took(who, num, 1, i)
  <2>1. ASSUME Took(who, num, 1, i) PROVE i = h
    <3>1. num[i] = 1 /\ who[i] = None
      BY <2>1, SMTT(30) DEF Took, Numbers
    <3> QED BY <3>1, <1>2, <1>h, SMTT(30) DEF Lists
  <2> QED BY <2>1, <1>2, <1>h, SMTT(30) DEF Took
<1>d. PICK d : d = SetBuf(desc_shadow[h], <<None, h>>, {"INDIRECT"})
  OBVIOUS
<1>4. /\ indirect_lists' = [indirect_lists EXCEPT ![h] = Buffers(r, n)]
      /\ desc_shadow' = [desc_shadow EXCEPT ![h] = d] /\ desc' = [desc EXCEPT ![h] = d]
      /\ free_head' = d.next
      /\ num_used' = num_used + 1
  BY <1>h, <1>d DEF AddIndirect
<1>5. d \in DescType /\ d.next = desc_shadow[h].next /\ d.flags = {"INDIRECT"}
  <2>1. <<None, h>> \in Addrs /\ {"INDIRECT"} \in SUBSET {"NEXT", "INDIRECT"} /\ desc_shadow[h] \in DescType
    BY <1>2, <1>h DEF Addrs, TypeInv
  <2> QED BY <1>d, <2>1, SetBufType, SMTT(30)
<1>6. Buffers(r, n) \in Seq(Requests \X Nat)
  BY <1>1, BuffersType
<1>7. /\ desc_shadow' \in [Descs -> DescType] /\ desc' \in [Descs -> DescType]
      /\ indirect_lists' \in [Descs -> Seq(Requests \X Nat)]
  BY <1>4, <1>5, <1>6 DEF TypeInv
<1>8. \E i \in Descs : who[i] = None /\ num[i] = 1 /\ free_head' = desc_shadow[i].next
  BY <1>2, <1>4, <1>5, <1>h
<1>9. ASSUME NEW i \in Descs
      PROVE  IF Took(who, num, 1, i)
          THEN /\ desc'[i] = desc_shadow'[i] /\ desc_shadow'[i].next = desc_shadow[i].next
               /\ desc_shadow'[i].flags = IF indirect /\ n > 1 THEN {"INDIRECT"}
                                          ELSE IF num[i] = n THEN {} ELSE {"NEXT"}
               /\ IF indirect /\ n > 1
                  THEN indirect_lists'[i] = Buffers(r, n)
                  ELSE indirect_lists'[i] = indirect_lists[i] /\ desc_shadow'[i].addr = <<r, num[i]>>
          ELSE /\ desc'[i] = desc[i] /\ desc_shadow'[i] = desc_shadow[i]
               /\ indirect_lists'[i] = indirect_lists[i]
  <2>0. /\ indirect_lists \in [Descs -> Seq(Requests \X Nat)]
        /\ desc_shadow \in [Descs -> DescType] /\ desc \in [Descs -> DescType]
    BY DEF TypeInv
  <2>1. CASE i = h
    <3>1. desc_shadow'[i] = d /\ desc'[i] = d /\ indirect_lists'[i] = Buffers(r, n)
      BY <2>0, <2>1, <1>4
    <3> QED BY <3>1, <2>1, <1>3, <1>5
  <2>2. CASE i # h
    <3>1. desc_shadow'[i] = desc_shadow[i] /\ desc'[i] = desc[i] /\ indirect_lists'[i] = indirect_lists[i]
      BY <2>0, <2>2, <1>4
    <3> QED BY <3>1, <2>2, <1>3
  <2> QED BY <2>1, <2>2
<1> QED BY <1>1, <1>4, <1>7, <1>8, <1>9 DEF AddEffect

-----------------------------------------------------------------------------
(* pop_used.                                                               *)

\* What recycle_descriptors does to the descriptors.
PopEffect(who, num, r, c) ==
    /\ c = ChainLen(r) /\ c \in Nat \ {0} /\ num_used' = num_used - c /\ free_head' = reqs[r].token
    /\ desc_shadow' \in [Descs -> DescType] /\ desc' \in [Descs -> DescType]
    /\ indirect_lists' \in [Descs -> Seq(Requests \X Nat)]
    /\ \A i \in Descs :
          IF who[i] = r
          THEN /\ desc_shadow'[i].next = IF num[i] = c THEN free_head ELSE desc_shadow[i].next
               /\ indirect_lists'[i] = <<>>
          ELSE /\ desc'[i] = desc[i] /\ desc_shadow'[i] = desc_shadow[i]
               /\ indirect_lists'[i] = indirect_lists[i]

\* pop_used puts the chain before the free list, whatever order the device chose.
LEMMA PopLists ==
    ASSUME TypeInv, NEW who \in Owners, NEW num \in Numbers, Lists(who, num),
           NEW r \in InQueue, NEW c, PopEffect(who, num, r, c),
           reqs' = [reqs EXCEPT ![r] = Idle], indirect' = indirect
    PROVE  \E w \in Owners, m \in Numbers : Lists(w, m)'
<1>1. /\ c = ChainLen(r) /\ c \in Nat \ {0} /\ num_used' = num_used - c /\ free_head' = reqs[r].token
      /\ Free \in Nat /\ num_used \in Int /\ SIZE \in Nat
      /\ r \in Requests /\ r # None
  <2>1. SIZE \in Nat /\ r # None /\ r \in Requests
    BY VirtQueueAssumption DEF InQueue
  <2> QED BY <2>1 DEF PopEffect, TypeInv
<1>2. reqs'[r] = Idle /\ \A q \in Requests : q # r => reqs'[q] = reqs[q]
  BY <1>1 DEF TypeInv
<1>3. InQueue' = InQueue \ {r}
  BY <1>2 DEF InQueue
<1>4. /\ reqs[r].token \in Descs /\ who[reqs[r].token] = r /\ num[reqs[r].token] = 1
  BY DEF Lists
<1>5. ASSUME NEW q \in InQueue, q # r
      PROVE  /\ ChainLen(q)' = ChainLen(q) /\ (InList(q)' <=> InList(q)) /\ reqs'[q] = reqs[q]
             /\ q # None /\ q \in Requests /\ q \in InQueue'
  <2>1. q \in Requests /\ q # None
    BY VirtQueueAssumption DEF InQueue
  <2>2. reqs'[q] = reqs[q]
    BY <1>2, <1>5, <2>1
  <2> QED BY <2>1, <2>2, <1>3, <1>5, SMTT(30) DEF ChainLen, InList
<1>6. Free' = Free + c
  BY <1>1, SMTT(30) DEF Free
<1>w. PICK w : w = [i \in Descs |-> IF who[i] = r THEN None ELSE who[i]]
  OBVIOUS
<1>m. PICK m : m = [i \in Descs |-> IF who[i] = None THEN num[i] + c ELSE num[i]]
  OBVIOUS
<1>7. ASSUME NEW i \in Descs
      PROVE  /\ num[i] \in Nat \ {0} /\ who[i] \in Requests \cup {None}
             /\ w[i] = None <=> who[i] \in {None, r}
             /\ w[i] # None => w[i] = who[i]
             /\ who[i] = None => m[i] = num[i] + c
             /\ who[i] = r => m[i] = num[i] /\ num[i] <= c
             /\ who[i] # None => m[i] = num[i] /\ who[i] \in InQueue /\ Chained(who, num, i)
  <2>1. num[i] \in Nat \ {0} /\ who[i] \in Requests \cup {None}
    BY DEF Numbers, Owners
  <2>2. who[i] # None => who[i] \in InQueue /\ Chained(who, num, i) /\ num[i] <= ChainLen(who[i])
    BY DEF Lists, Chained
  <2> QED BY <2>1, <2>2, <1>1, <1>w, <1>m
<1>8. w \in Owners /\ m \in Numbers
  <2>1. \A i \in Descs : w[i] \in Requests \cup {None} /\ m[i] \in Nat \ {0}
    BY <1>1, <1>7, SMTT(30)
  <2> QED BY <2>1, <1>w, <1>m DEF Owners, Numbers
<1>9. ASSUME NEW i \in Descs
      PROVE  IF who[i] = r
          THEN /\ desc_shadow'[i].next = IF num[i] = c THEN free_head ELSE desc_shadow[i].next
               /\ indirect_lists'[i] = <<>>
          ELSE /\ desc'[i] = desc[i] /\ desc_shadow'[i] = desc_shadow[i]
               /\ indirect_lists'[i] = indirect_lists[i]
  BY DEF PopEffect
<1>10. FreeList(w, m)'
  <2>1. free_head' \in Descs /\ w[free_head'] = None /\ m[free_head'] = 1
    BY <1>1, <1>4, <1>7
  <2>2. ASSUME NEW i \in Descs, w[i] = None
        PROVE  /\ m[i] <= Free'
               /\ m[i] < Free' => /\ desc_shadow'[i].next \in Descs
                                  /\ w[desc_shadow'[i].next] = None
                                  /\ m[desc_shadow'[i].next] = m[i] + 1
    <3>1. CASE who[i] = r
      <4>1. m[i] = num[i] /\ num[i] <= c /\ num[i] \in Nat /\ Chained(who, num, i)
        BY <3>1, <1>1, <1>7
      <4>2. m[i] <= Free'
        BY <4>1, <1>1, <1>6, SMTT(30)
      <4>3. ASSUME m[i] < Free'
            PROVE  /\ desc_shadow'[i].next \in Descs
                   /\ w[desc_shadow'[i].next] = None /\ m[desc_shadow'[i].next] = m[i] + 1
        <5>1. CASE num[i] = c
          <6>1. Free > 0
            BY <4>1, <4>3, <5>1, <1>1, <1>6, SMTT(30)
          <6>2. free_head \in Descs /\ who[free_head] = None /\ num[free_head] = 1
            BY <6>1 DEF Lists, FreeList
          <6>3. desc_shadow'[i].next = free_head
            BY <3>1, <5>1, <1>9
          <6>4. w[free_head] = None /\ m[free_head] = 1 + c
            BY <6>2, <1>7
          <6> QED BY <6>2, <6>3, <6>4, <5>1, <4>1, <1>1, SMTT(30)
        <5>2. CASE num[i] # c
          <6>1. num[i] < ChainLen(r)
            BY <5>2, <4>1, <1>1, SMTT(30)
          <6>2. PICK j \in Descs : j = desc_shadow[i].next /\ who[j] = r /\ num[j] = num[i] + 1
            BY <6>1, <4>1, <3>1 DEF Chained
          <6>3. desc_shadow'[i].next = j
            BY <3>1, <5>2, <6>2, <1>9
          <6>4. w[j] = None /\ m[j] = num[i] + 1
            BY <6>2, <1>1, <1>7
          <6> QED BY <6>3, <6>4, <4>1
        <5> QED BY <5>1, <5>2
      <4> QED BY <4>2, <4>3
    <3>2. CASE who[i] = None
      <4>1. m[i] = num[i] + c /\ num[i] \in Nat
        BY <3>2, <1>7
      <4>2. num[i] <= Free
        BY <3>2 DEF Lists, FreeList
      <4>3. ASSUME m[i] < Free'
            PROVE  /\ desc_shadow'[i].next \in Descs
                   /\ w[desc_shadow'[i].next] = None /\ m[desc_shadow'[i].next] = m[i] + 1
        <5>1. num[i] < Free
          BY <4>1, <4>3, <1>1, <1>6, SMTT(30)
        <5>2. PICK j \in Descs : j = desc_shadow[i].next /\ who[j] = None /\ num[j] = num[i] + 1
          BY <5>1, <3>2 DEF Lists, FreeList
        <5>3. desc_shadow'[i].next = j
          BY <3>2, <5>2, <1>1, <1>9
        <5>4. w[j] = None /\ m[j] = num[j] + c
          BY <5>2, <1>7
        <5>5. m[j] = m[i] + 1
          BY <4>1, <5>2, <5>4, <1>1, SMTT(30)
        <5> QED BY <5>3, <5>4, <5>5
      <4>4. m[i] <= Free'
        BY <4>1, <4>2, <1>1, <1>6, SMTT(30)
      <4> QED BY <4>3, <4>4
    <3> QED BY <2>2, <3>1, <3>2, <1>7
  <2> QED BY <2>1, <2>2 DEF FreeList
<1>11. ASSUME NEW i \in Descs, w[i] = None PROVE indirect_lists'[i] = <<>>
  <2>1. CASE who[i] = r
    BY <2>1, <1>9
  <2>2. CASE who[i] = None
    <3>1. indirect_lists[i] = <<>>
      BY <2>2 DEF Lists
    <3> QED BY <2>2, <3>1, <1>1, <1>9
  <2> QED BY <1>11, <2>1, <2>2, <1>7
<1>12. ASSUME NEW i \in Descs, w[i] # None PROVE Chained(w, m, i)'
  <2>1. PICK q : q = who[i]
    OBVIOUS
  <2>2. q # None /\ q # r /\ q \in InQueue /\ w[i] = q /\ m[i] = num[i] /\ Chained(who, num, i)
    BY <2>1, <1>7, <1>12
  <2>3. desc'[i] = desc[i] /\ desc_shadow'[i] = desc_shadow[i] /\ indirect_lists'[i] = indirect_lists[i]
    BY <2>1, <2>2, <1>9
  <2>4. /\ num[i] <= ChainLen(q) /\ desc[i] = desc_shadow[i]
        /\ num[i] < ChainLen(q) =>
              /\ desc_shadow[i].flags = {"NEXT"} /\ desc_shadow[i].next \in Descs
              /\ who[desc_shadow[i].next] = q /\ num[desc_shadow[i].next] = num[i] + 1
        /\ num[i] = ChainLen(q) => desc_shadow[i].flags = IF InList(q) THEN {"INDIRECT"} ELSE {}
        /\ IF InList(q) THEN indirect_lists[i] = Buffers(q, reqs[q].len)
                        ELSE indirect_lists[i] = <<>> /\ desc_shadow[i].addr = <<q, num[i]>>
    BY <2>1, <2>2 DEF Chained
  <2>5. /\ ChainLen(q)' = ChainLen(q) /\ (InList(q)' <=> InList(q)) /\ reqs'[q] = reqs[q]
        /\ q \in InQueue'
    BY <2>2, <1>5
  <2>6. ASSUME num[i] < ChainLen(q)
        PROVE  w[desc_shadow[i].next] = q /\ m[desc_shadow[i].next] = num[i] + 1
    <3>1. PICK j \in Descs : j = desc_shadow[i].next /\ who[j] = q /\ num[j] = num[i] + 1
      BY <2>4, <2>6
    <3>2. w[j] = q /\ m[j] = num[j]
      BY <3>1, <2>2, <1>7
    <3> QED BY <3>1, <3>2
  <2> QED BY <2>2, <2>3, <2>4, <2>5, <2>6 DEF Chained
<1>13. ASSUME NEW q \in InQueue'
       PROVE  /\ reqs'[q].token \in Descs /\ reqs'[q].len \in 1 .. SIZE
              /\ w[reqs'[q].token] = q /\ m[reqs'[q].token] = 1
  <2>1. q \in InQueue /\ q # r
    BY <1>3, <1>13
  <2>2. PICK j : j = reqs[q].token /\ j \in Descs /\ reqs[q].len \in 1 .. SIZE /\ who[j] = q /\ num[j] = 1
    BY <2>1 DEF Lists
  <2>3. q # None /\ reqs'[q] = reqs[q]
    BY <2>1, <1>5
  <2>4. w[j] = q /\ m[j] = 1
    BY <2>1, <2>2, <2>3, <1>7
  <2> QED BY <2>2, <2>3, <2>4
<1>14. ASSUME NEW i \in Descs, NEW j \in Descs, w[i] = w[j], m[i] = m[j] PROVE i = j
  <2>0. who[i] = who[j] /\ num[i] = num[j] => i = j
    BY DEF Lists
  <2>1. CASE w[i] # None
    BY <2>0, <2>1, <1>7, <1>14
  <2>2. CASE who[i] = who[j]
    <3>1. num[i] = num[j]
      BY <2>2, <1>1, <1>7, <1>14, SMTT(30)
    <3> QED BY <2>0, <2>2, <3>1
  <2>3. CASE who[i] = r /\ who[j] = None
    BY <2>3, <1>1, <1>7, <1>14, SMTT(30)
  <2>4. CASE who[i] = None /\ who[j] = r
    BY <2>4, <1>1, <1>7, <1>14, SMTT(30)
  <2> QED BY <2>1, <2>2, <2>3, <2>4, <1>7, <1>14
<1>15. \A i \in Descs : IF w[i] = None THEN indirect_lists'[i] = <<>> ELSE Chained(w, m, i)'
  BY <1>11, <1>12
<1>16. Lists(w, m)'
  BY <1>10, <1>13, <1>14, <1>15 DEF Lists
<1> QED BY <1>8, <1>16

-----------------------------------------------------------------------------
(* Lists that are numbered in the order of their links.                    *)

INSTANCE WellFoundedInduction

\* A set of numbers that is not empty has a least one.
LEMMA LeastNumber ==
    ASSUME NEW T, T \subseteq Nat, T # {}
    PROVE  \E x \in T : \A y \in T : ~(y < x)
<1>1. PICK R : R = OpToRel(<, Nat)
  OBVIOUS
<1>2. IsWellFoundedOn(R, Nat)
  BY <1>1, NatLessThanWellFounded
<1>3. PICK x \in T : \A y \in T : ~(<<y, x>> \in R)
  BY <1>2, WFMin
<1>4. \A y \in T : y < x => <<y, x>> \in R
  BY <1>1 DEF OpToRel
<1> QED BY <1>3, <1>4

\* Induction up to n, for a property given as a set.
LEMMA SetInduction ==
    ASSUME NEW S, NEW n \in Nat, 0 \in S, \A k \in 0 .. n - 1 : k \in S => k + 1 \in S
    PROVE  0 .. n \subseteq S
<1>t. PICK T : T = {k \in 0 .. n : k \notin S}
  OBVIOUS
<1>1. SUFFICES ASSUME T # {} PROVE FALSE
  BY <1>t
<1>2. T \subseteq Nat
  BY <1>t, SMTT(30)
<1>3. PICK x \in T : \A y \in T : ~(y < x)
  BY <1>1, <1>2, LeastNumber
<1>4. x \in 1 .. n /\ x - 1 \in 0 .. n - 1
  BY <1>3, <1>t, SMTT(30)
<1>5. x - 1 \in S
  BY <1>3, <1>4, <1>t, SMTT(30)
<1> QED BY <1>4, <1>5, <1>3, <1>t, SMTT(30)

\* The elements of S are numbered from a on in the order of nx, as far as n.
Numbered(S, a, n, nx, num) ==
    /\ a \in S /\ num[a] = 1 /\ \A i \in S : num[i] \in Nat \ {0}
    /\ \A i \in S : num[i] < n => nx[i] \in S /\ num[nx[i]] = num[i] + 1
    /\ \A i, j \in S : num[i] = num[j] => i = j

\* The first n elements of that list.
Walk(S, a, n, nx, num, g) ==
    /\ g \in [1 .. n -> S] /\ g[1] = a
    /\ \A k \in 1 .. n : num[g[k]] = k
    /\ \A k \in 2 .. n : g[k] = nx[g[k - 1]]

\* A numbered list has a walk: its first n elements in order.
LEMMA Trail ==
    ASSUME NEW S, NEW a, NEW n \in Nat \ {0}, NEW nx, NEW num, Numbered(S, a, n, nx, num)
    PROVE  \E g : Walk(S, a, n, nx, num, g)
<1> USE DEF Numbered
<1>1. PICK K : K = {k \in Nat : k + 1 \in 1 .. n => \E i \in S : num[i] = k + 1}
  OBVIOUS
<1>2. 0 \in K
  BY <1>1, SMTT(30)
<1>3. ASSUME NEW k \in 0 .. (n - 1) - 1, k \in K PROVE k + 1 \in K
  <2>1. PICK i \in S : num[i] = k + 1
    BY <1>1, <1>3, SMTT(30)
  <2>2. nx[i] \in S /\ num[nx[i]] = (k + 1) + 1
    BY <2>1, SMTT(30)
  <2> QED BY <1>1, <2>2, SMTT(30)
<1>4. 0 .. n - 1 \subseteq K
  <2>1. n - 1 \in Nat
    BY SMTT(30)
  <2> QED BY <1>2, <1>3, <2>1, SetInduction
<1>5. \A k \in 1 .. n : \E i \in S : num[i] = k
  <2> TAKE k \in 1 .. n
  <2>1. k - 1 \in K /\ (k - 1) + 1 = k
    BY <1>4, SMTT(30)
  <2> QED BY <1>1, <2>1
<1>6. PICK g : g = [k \in 1 .. n |-> CHOOSE i \in S : num[i] = k]
  OBVIOUS
<1>7. \A k \in 1 .. n : g[k] \in S /\ num[g[k]] = k
  BY <1>5, <1>6
<1>8. g \in [1 .. n -> S]
  BY <1>6, <1>7
<1>9. g[1] = a
  BY <1>7, SMTT(30)
<1>10. ASSUME NEW k \in 2 .. n PROVE g[k] = nx[g[k - 1]]
  <2>1. k - 1 \in 1 .. n /\ k - 1 < n /\ (k - 1) + 1 = k /\ k \in 1 .. n
    BY SMTT(30)
  <2>2. g[k - 1] \in S /\ num[g[k - 1]] = k - 1
    BY <1>7, <2>1
  <2>3. nx[g[k - 1]] \in S /\ num[nx[g[k - 1]]] = k
    BY <2>1, <2>2
  <2> QED BY <1>7, <2>1, <2>3, SMTT(30)
<1> QED BY <1>7, <1>8, <1>9, <1>10, SMTT(30) DEF Walk

\* Two walks of n steps that start alike and go on alike.
SameSteps(n, g, h) ==
    g[1] = h[1] /\ \A k \in 2 .. n : g[k - 1] = h[k - 1] => g[k] = h[k]

\* Two walks with the same start and the same steps are the same.
LEMMA SameTrail ==
    ASSUME NEW n \in Nat, NEW g, NEW h, SameSteps(n, g, h)
    PROVE  \A k \in 1 .. n : g[k] = h[k]
<1> USE DEF SameSteps
<1>1. PICK K : K = {k \in Nat : k + 1 \in 1 .. n => g[k + 1] = h[k + 1]}
  OBVIOUS
<1>2. 0 \in K
  BY <1>1, SMTT(30)
<1>3. ASSUME NEW k \in 0 .. n - 1, k \in K PROVE k + 1 \in K
  <2>1. SUFFICES ASSUME (k + 1) + 1 \in 1 .. n PROVE g[(k + 1) + 1] = h[(k + 1) + 1]
    BY <1>1, SMTT(30)
  <2>2. (k + 1) + 1 \in 2 .. n /\ ((k + 1) + 1) - 1 = k + 1 /\ k + 1 \in 1 .. n
    BY <2>1, SMTT(30)
  <2>3. g[k + 1] = h[k + 1]
    BY <1>1, <1>3, <2>2
  <2> QED BY <2>2, <2>3
<1>4. 0 .. n \subseteq K
  BY <1>2, <1>3, SetInduction
<1> TAKE k \in 1 .. n
<1>5. k - 1 \in K /\ (k - 1) + 1 = k
  BY <1>4, SMTT(30)
<1> QED BY <1>1, <1>5

-----------------------------------------------------------------------------
(* The walks of the driver.                                                *)

\* Following next from free_head gives the elements of the free list in order, as
\* add_direct takes them.
LEMMA FreeWalk ==
    ASSUME TypeInv, NEW who \in Owners, NEW num \in Numbers, Lists(who, num), NEW n \in 1 .. Free
    PROVE  /\ FreeChain(n) \in [1 .. n -> Descs]
           /\ \A k \in 1 .. n : who[FreeChain(n)[k]] = None /\ num[FreeChain(n)[k]] = k
<1>s. PICK S : S = {i \in Descs : who[i] = None}
  OBVIOUS
<1>n. PICK nx : nx = [i \in Descs |-> desc_shadow[i].next]
  OBVIOUS
<1>m. PICK mm : mm = [i \in S |-> num[i]]
  OBVIOUS
<1>0. n \in Nat \ {0} /\ Free \in Nat /\ n <= Free
  BY SMTT(30) DEF TypeInv
<1>1. free_head \in S /\ mm[free_head] = 1
  BY <1>0, <1>s, <1>m, SMTT(30) DEF Lists, FreeList
<1>2. mm \in [S -> Nat \ {0}]
  BY <1>s, <1>m DEF Numbers
<1>3. \A i \in S : mm[i] < n => nx[i] \in S /\ mm[nx[i]] = mm[i] + 1
  <2> SUFFICES ASSUME NEW i \in S, mm[i] < n PROVE nx[i] \in S /\ mm[nx[i]] = mm[i] + 1
    OBVIOUS
  <2>1. i \in Descs /\ who[i] = None /\ num[i] < Free /\ mm[i] = num[i]
    BY <1>0, <1>s, <1>m, SMTT(30) DEF Numbers
  <2>2. nx[i] \in Descs /\ who[nx[i]] = None /\ num[nx[i]] = num[i] + 1
    BY <2>1, <1>n DEF Lists, FreeList
  <2> QED BY <2>1, <2>2, <1>s, <1>m
<1>4. \A i, j \in S : mm[i] = mm[j] => i = j
  BY <1>s, <1>m, SMTT(30) DEF Lists
<1>5. Numbered(S, free_head, n, nx, mm)
  BY <1>1, <1>2, <1>3, <1>4 DEF Numbered
<1>6. PICK g : Walk(S, free_head, n, nx, mm, g)
  BY <1>0, <1>5, Trail
<1>7. /\ g = [k \in 1 .. n |-> g[k]] /\ g[1] = free_head
      /\ \A k \in 1 .. n : g[k] \in Descs /\ who[g[k]] = None /\ num[g[k]] = k
      /\ \A k \in 2 .. n : g[k] = desc_shadow[g[k - 1]].next /\ k - 1 \in 1 .. n /\ k \in 1 .. n /\ k # 1
  <2>1. \A k \in 2 .. n : k - 1 \in 1 .. n /\ k \in 1 .. n /\ k # 1
    BY SMTT(30)
  <2>2. \A k \in 1 .. n : g[k] \in S /\ mm[g[k]] = k
    BY <1>6 DEF Walk
  <2>3. \A k \in 1 .. n : g[k] \in Descs /\ who[g[k]] = None /\ num[g[k]] = k
    BY <2>2, <1>s, <1>m
  <2>4. \A k \in 2 .. n : g[k] = nx[g[k - 1]]
    BY <1>6 DEF Walk
  <2>5. \A k \in 2 .. n : g[k] = desc_shadow[g[k - 1]].next
    BY <2>1, <2>3, <2>4, <1>n
  <2> QED BY <1>6, <2>1, <2>3, <2>5 DEF Walk
<1>8. g = [k \in 1 .. n |-> IF k = 1 THEN free_head ELSE desc_shadow[g[k - 1]].next]
  <2>1. \A k \in 1 .. n : k = 1 \/ k \in 2 .. n
    BY SMTT(30)
  <2> QED BY <1>7, <2>1
<1>9. FreeChain(n) = CHOOSE f : f = [k \in 1 .. n |-> IF k = 1 THEN free_head ELSE desc_shadow[f[k - 1]].next]
  BY DEF FreeChain
<1>10. FreeChain(n) = [k \in 1 .. n |-> IF k = 1 THEN free_head ELSE desc_shadow[FreeChain(n)[k - 1]].next]
  BY <1>8, <1>9
<1>11. PICK h : h = FreeChain(n)
  OBVIOUS
<1>12. h = [k \in 1 .. n |-> IF k = 1 THEN free_head ELSE desc_shadow[h[k - 1]].next]
  BY <1>10, <1>11
<1>13. g[1] = h[1]
  BY <1>0, <1>7, <1>12, SMTT(30)
<1>14. SameSteps(n, g, h)
  <2>1. ASSUME NEW k \in 2 .. n, g[k - 1] = h[k - 1] PROVE g[k] = h[k]
    <3>1. h[k] = desc_shadow[h[k - 1]].next
      BY <1>7, <1>12, SMTT(30)
    <3> QED BY <1>7, <2>1, <3>1
  <2> QED BY <1>13, <2>1 DEF SameSteps
<1>15. \A k \in 1 .. n : g[k] = h[k]
  BY <1>0, <1>14, SameTrail, SMTT(30)
<1>16. h \in [1 .. n -> Descs]
  BY <1>7, <1>12, <1>15
<1>17. \A k \in 1 .. n : who[h[k]] = None /\ num[h[k]] = k
  BY <1>7, <1>15
<1> QED BY <1>11, <1>16, <1>17

\* add_direct takes the first n descriptors of the free list and links them up.
LEMMA AddDirectEffect ==
    ASSUME TypeInv, NEW who \in Owners, NEW num \in Numbers, Lists(who, num),
           NEW r \in Requests, NEW n \in 1 .. SIZE, ~QueueFull(n), ~(indirect /\ n > 1), AddDirect(r, n)
    PROVE  AddEffect(who, num, r, n, n)
<1>1. n \in 1 .. Free /\ n \in Nat /\ Free \in Nat /\ num_used \in Int
  BY VirtQueueAssumption, SMTT(30) DEF QueueFull, TypeInv, Free
<1> DEFINE c == FreeChain(n)
<1>2. c \in [1 .. n -> Descs] /\ \A k \in 1 .. n : who[c[k]] = None /\ num[c[k]] = k
  BY <1>1, FreeWalk
<1> HIDE DEF c
<1>3. ASSUME NEW i \in Descs PROVE (\E k \in 1 .. n : c[k] = i) <=> Took(who, num, n, i)
  <2>1. ASSUME NEW k \in 1 .. n, c[k] = i PROVE Took(who, num, n, i)
    BY <2>1, <1>2, SMTT(30) DEF Took
  <2>2. ASSUME Took(who, num, n, i) PROVE \E k \in 1 .. n : c[k] = i
    <3>1. num[i] \in 1 .. n /\ who[i] = None
      BY <2>2, <1>1, SMTT(30) DEF Took, Numbers
    <3>2. c[num[i]] \in Descs /\ who[c[num[i]]] = None /\ num[c[num[i]]] = num[i]
      BY <1>2, <3>1
    <3>3. c[num[i]] = i
      BY <3>1, <3>2, SMTT(30) DEF Lists
    <3> QED BY <3>1, <3>3
  <2> QED BY <2>1, <2>2
<1>4. ASSUME NEW i \in Descs, Took(who, num, n, i)
      PROVE  (CHOOSE j \in 1 .. n : c[j] = i) = num[i] /\ num[i] \in 1 .. n
  <2>1. PICK k \in 1 .. n : c[k] = i
    BY <1>3, <1>4
  <2>2. \A j \in 1 .. n : c[j] = i => j = num[i]
    BY <1>2
  <2>3. (CHOOSE j \in 1 .. n : c[j] = i) \in 1 .. n /\ c[CHOOSE j \in 1 .. n : c[j] = i] = i
    BY <2>1
  <2> QED BY <2>2, <2>3
<1> DEFINE set == [i \in Descs |-> IF \E k \in 1 .. n : c[k] = i
                   THEN LET k == CHOOSE j \in 1 .. n : c[j] = i
                        IN  SetBuf(desc_shadow[i], <<r, k>>, IF k = n THEN {} ELSE {"NEXT"})
                   ELSE desc_shadow[i]]
<1>5. /\ desc_shadow' = set
      /\ desc' = [i \in Descs |-> IF \E k \in 1 .. n : c[k] = i THEN set[i] ELSE desc[i]]
      /\ free_head' = desc_shadow[c[n]].next
      /\ num_used' = num_used + n /\ indirect_lists' = indirect_lists
  BY DEF AddDirect, c
<1> HIDE DEF set
<1>6. ASSUME NEW i \in Descs
      PROVE  /\ Took(who, num, n, i) =>
                    /\ set[i] = SetBuf(desc_shadow[i], <<r, num[i]>>, IF num[i] = n THEN {} ELSE {"NEXT"})
                    /\ desc'[i] = set[i] /\ num[i] \in Nat
             /\ ~Took(who, num, n, i) => set[i] = desc_shadow[i] /\ desc'[i] = desc[i]
  <2>1. CASE Took(who, num, n, i)
    <3>1. \E k \in 1 .. n : c[k] = i
      BY <1>3, <2>1
    <3>2. (CHOOSE j \in 1 .. n : c[j] = i) = num[i] /\ num[i] \in Nat
      BY <1>4, <2>1, SMTT(30)
    <3>3. set[i] = LET k == CHOOSE j \in 1 .. n : c[j] = i
                   IN  SetBuf(desc_shadow[i], <<r, k>>, IF k = n THEN {} ELSE {"NEXT"})
      BY <3>1 DEF set
    <3>4. set[i] = SetBuf(desc_shadow[i], <<r, num[i]>>, IF num[i] = n THEN {} ELSE {"NEXT"})
      BY <3>2, <3>3
    <3>5. desc'[i] = set[i]
      BY <1>5, <3>1
    <3> QED BY <2>1, <3>2, <3>4, <3>5
  <2>2. CASE ~Took(who, num, n, i)
    <3>1. ~(\E k \in 1 .. n : c[k] = i)
      BY <1>3, <2>2
    <3>2. set[i] = desc_shadow[i]
      BY <3>1 DEF set
    <3>3. desc'[i] = desc[i]
      BY <1>5, <3>1
    <3> QED BY <2>2, <3>2, <3>3
  <2> QED BY <2>1, <2>2
<1>7. ASSUME NEW i \in Descs
      PROVE  /\ set[i] \in DescType /\ desc'[i] \in DescType
             /\ Took(who, num, n, i) =>
                   /\ desc'[i] = set[i] /\ set[i].next = desc_shadow[i].next
                   /\ set[i].flags = IF num[i] = n THEN {} ELSE {"NEXT"}
                   /\ set[i].addr = <<r, num[i]>>
  <2>0. desc_shadow[i] \in DescType /\ desc[i] \in DescType
    BY DEF TypeInv
  <2>1. CASE Took(who, num, n, i)
    <3>1. <<r, num[i]>> \in Addrs /\ (IF num[i] = n THEN {} ELSE {"NEXT"}) \in SUBSET {"NEXT", "INDIRECT"}
      BY <1>6, <2>1 DEF Addrs
    <3> QED BY <1>6, <2>0, <2>1, <3>1, SetBufType, SMTT(30)
  <2>2. CASE ~Took(who, num, n, i)
    BY <1>6, <2>0, <2>2
  <2> QED BY <2>1, <2>2
<1>8. set = [i \in Descs |-> set[i]] /\ desc' = [i \in Descs |-> desc'[i]]
  BY <1>5 DEF set
<1>9. desc_shadow' \in [Descs -> DescType] /\ desc' \in [Descs -> DescType]
  <2>1. set \in [Descs -> DescType]
    BY <1>7, <1>8
  <2>2. desc' \in [Descs -> DescType]
    BY <1>7, <1>8
  <2> QED BY <2>1, <2>2, <1>5
<1>10. indirect_lists' \in [Descs -> Seq(Requests \X Nat)]
  BY <1>5 DEF TypeInv
<1>11. \E i \in Descs : who[i] = None /\ num[i] = n /\ free_head' = desc_shadow[i].next
  BY <1>1, <1>2, <1>5, SMTT(30)
<1>12. ASSUME NEW i \in Descs
       PROVE  IF Took(who, num, n, i)
          THEN /\ desc'[i] = desc_shadow'[i] /\ desc_shadow'[i].next = desc_shadow[i].next
               /\ desc_shadow'[i].flags = IF indirect /\ n > 1 THEN {"INDIRECT"}
                                          ELSE IF num[i] = n THEN {} ELSE {"NEXT"}
               /\ IF indirect /\ n > 1
                  THEN indirect_lists'[i] = Buffers(r, n)
                  ELSE indirect_lists'[i] = indirect_lists[i] /\ desc_shadow'[i].addr = <<r, num[i]>>
          ELSE /\ desc'[i] = desc[i] /\ desc_shadow'[i] = desc_shadow[i]
               /\ indirect_lists'[i] = indirect_lists[i]
  BY <1>5, <1>6, <1>7
<1> QED BY <1>1, <1>5, <1>9, <1>10, <1>11, <1>12 DEF AddEffect

\* g is the chain of the request r.
IsChain(who, num, r, n, g) ==
    /\ g \in [1 .. n -> Descs]
    /\ g[1] = reqs[r].token
    /\ \A k \in 1 .. n : who[g[k]] = r /\ num[g[k]] = k
    /\ \A k \in 1 .. n : NextOf(desc_shadow[g[k]]) = IF k = n THEN None ELSE g[k + 1]

\* The chain of a request that is not in an indirect list ends at its length: next()
\* of its last descriptor is None.
LEMMA ChainWalk ==
    ASSUME TypeInv, NEW who \in Owners, NEW num \in Numbers, Lists(who, num),
           NEW r \in InQueue, ~InList(r), NEW n, n = reqs[r].len
    PROVE  \E g : IsChain(who, num, r, n, g)
<1>s. PICK S : S = {i \in Descs : who[i] = r}
  OBVIOUS
<1>n. PICK nx : nx = [i \in Descs |-> desc_shadow[i].next]
  OBVIOUS
<1>m. PICK mm : mm = [i \in S |-> num[i]]
  OBVIOUS
<1>t. PICK a : a = reqs[r].token
  OBVIOUS
<1>0. n \in Nat \ {0} /\ ChainLen(r) = n /\ r # None
  BY VirtQueueAssumption, SMTT(30) DEF Lists, ChainLen, InQueue
<1>1. a \in S /\ mm[a] = 1
  BY <1>s, <1>m, <1>t DEF Lists
<1>2. \A i \in S : mm[i] \in Nat \ {0}
  BY <1>s, <1>m DEF Numbers
<1>3. ASSUME NEW i \in S
      PROVE  /\ i \in Descs /\ mm[i] = num[i] /\ num[i] <= n /\ num[i] \in Nat
             /\ mm[i] < n => nx[i] \in S /\ mm[nx[i]] = mm[i] + 1 /\ desc_shadow[i].flags = {"NEXT"}
             /\ mm[i] = n => desc_shadow[i].flags = {}
  <2>1. i \in Descs /\ who[i] = r /\ mm[i] = num[i] /\ num[i] \in Nat
    BY <1>s, <1>m DEF Numbers
  <2>2. Chained(who, num, i)
    BY <2>1, <1>0 DEF Lists
  <2>3. /\ num[i] <= n
        /\ num[i] < n => /\ desc_shadow[i].flags = {"NEXT"} /\ desc_shadow[i].next \in Descs
                         /\ who[desc_shadow[i].next] = r /\ num[desc_shadow[i].next] = num[i] + 1
        /\ num[i] = n => desc_shadow[i].flags = {}
    BY <2>1, <2>2, <1>0 DEF Chained
  <2> QED BY <2>1, <2>3, <1>s, <1>n, <1>m
<1>4. \A i, j \in S : mm[i] = mm[j] => i = j
  BY <1>s, <1>m, SMTT(30) DEF Lists
<1>5. Numbered(S, a, n, nx, mm)
  BY <1>1, <1>2, <1>3, <1>4 DEF Numbered
<1>6. PICK g : Walk(S, a, n, nx, mm, g)
  BY <1>0, <1>5, Trail
<1>7. \A k \in 1 .. n : g[k] \in S /\ g[k] \in Descs /\ who[g[k]] = r /\ mm[g[k]] = k /\ num[g[k]] = k
  <2>1. \A k \in 1 .. n : g[k] \in S /\ mm[g[k]] = k
    BY <1>6 DEF Walk
  <2> QED BY <2>1, <1>s, <1>m
<1>8. g \in [1 .. n -> Descs] /\ g[1] = reqs[r].token
  BY <1>6, <1>7, <1>t DEF Walk
<1>9. ASSUME NEW k \in 1 .. n PROVE NextOf(desc_shadow[g[k]]) = IF k = n THEN None ELSE g[k + 1]
  <2>1. CASE k = n
    <3>1. desc_shadow[g[k]].flags = {}
      BY <1>3, <1>7, <2>1
    <3> QED BY <2>1, <3>1 DEF NextOf
  <2>2. CASE k # n
    <3>1. k < n /\ k + 1 \in 2 .. n /\ (k + 1) - 1 = k
      BY <2>2, <1>0, SMTT(30)
    <3>2. desc_shadow[g[k]].flags = {"NEXT"}
      BY <1>3, <1>7, <3>1
    <3>3. g[k + 1] = nx[g[k]]
      BY <1>6, <3>1, SMTT(30) DEF Walk
    <3> QED BY <2>2, <3>2, <3>3, <1>n, <1>7 DEF NextOf
  <2> QED BY <2>1, <2>2
<1> QED BY <1>7, <1>8, <1>9 DEF IsChain

\* recycle_descriptors walks exactly the descriptors of the request.
LEMMA ShadowWalk ==
    ASSUME TypeInv, NEW who \in Owners, NEW num \in Numbers, Lists(who, num),
           NEW r \in InQueue, ~InList(r), NEW n, n = reqs[r].len, NEW h, h = ShadowChain(reqs[r].token, n)
    PROVE  h \in [1 .. n -> Descs] /\ \A k \in 1 .. n : who[h[k]] = r /\ num[h[k]] = k
<1>1. PICK a : a = reqs[r].token
  OBVIOUS
<1>c. PICK g : IsChain(who, num, r, n, g)
  BY ChainWalk
<1>2. /\ g \in [1 .. n -> Descs] /\ g[1] = a
      /\ \A k \in 1 .. n : who[g[k]] = r /\ num[g[k]] = k
      /\ \A k \in 1 .. n : NextOf(desc_shadow[g[k]]) = IF k = n THEN None ELSE g[k + 1]
  BY <1>1, <1>c DEF IsChain
<1>3. n \in Nat \ {0} /\ None \notin Descs
  BY VirtQueueAssumption, SMTT(30) DEF Lists, Descs
<1>4. ASSUME NEW k \in 1 .. n, k # 1
      PROVE  /\ g[k] = NextOf(desc_shadow[g[k - 1]]) /\ g[k - 1] # None
             /\ k - 1 \in 1 .. n
  <2>1. k - 1 \in 1 .. n /\ k - 1 # n /\ (k - 1) + 1 = k
    BY <1>3, <1>4, SMTT(30)
  <2>2. NextOf(desc_shadow[g[k - 1]]) = g[k] /\ g[k - 1] \in Descs
    BY <1>2, <2>1
  <2> QED BY <2>1, <2>2, <1>3
<1>5. g = [k \in 1 .. n |-> IF k = 1 THEN a
                            ELSE IF g[k - 1] = None THEN None ELSE NextOf(desc_shadow[g[k - 1]])]
  BY <1>2, <1>4
<1> DEFINE V == CHOOSE f : f = [k \in 1 .. n |-> IF k = 1 THEN a
                            ELSE IF f[k - 1] = None THEN None ELSE NextOf(desc_shadow[f[k - 1]])]
<1>c1. ShadowChain(a, n) = V
  BY DEF ShadowChain
<1>c2. h = ShadowChain(a, n)
  BY <1>1
<1>7. V = [k \in 1 .. n |-> IF k = 1 THEN a
                            ELSE IF V[k - 1] = None THEN None ELSE NextOf(desc_shadow[V[k - 1]])]
  BY <1>5
<1> HIDE DEF V
<1>6. h = V
  BY <1>c1, <1>c2
<1>8. SameSteps(n, g, V)
  <2>1. V[1] = g[1]
    BY <1>2, <1>3, <1>7, SMTT(30)
  <2>2. ASSUME NEW k \in 2 .. n, g[k - 1] = V[k - 1] PROVE g[k] = V[k]
    <3>1. k \in 1 .. n /\ k # 1
      BY SMTT(30)
    <3>2. V[k] = IF V[k - 1] = None THEN None ELSE NextOf(desc_shadow[V[k - 1]])
      BY <1>7, <3>1
    <3> QED BY <1>4, <2>2, <3>1, <3>2
  <2> QED BY <2>1, <2>2 DEF SameSteps
<1>9. \A k \in 1 .. n : g[k] = V[k]
  BY <1>3, <1>8, SameTrail, SMTT(30)
<1>10. \A k \in 1 .. n : V[k] \in Descs /\ who[V[k]] = r /\ num[V[k]] = k
  BY <1>2, <1>9
<1>11. V = [k \in 1 .. n |-> V[k]]
  BY <1>7
<1> QED BY <1>6, <1>10, <1>11

\* recycle_descriptors clears the chain and links its end to the old free list.
LEMMA RecycleEffect ==
    ASSUME TypeInv, NEW who \in Owners, NEW num \in Numbers, Lists(who, num),
           NEW r \in InQueue, Recycle(reqs[r].token, reqs[r].len)
    PROVE  PopEffect(who, num, r, ChainLen(r))
<1>h. PICK h : h = reqs[r].token
  OBVIOUS
<1>n. PICK n : n = reqs[r].len
  OBVIOUS
<1>1. /\ n \in Nat \ {0} /\ None \notin Descs /\ r # None /\ free_head \in Nat
      /\ h \in Descs /\ who[h] = r /\ num[h] = 1
  <2>1. r # None /\ None \notin Descs
    BY VirtQueueAssumption, SMTT(30) DEF Descs, InQueue
  <2>2. h \in Descs /\ n \in 1 .. SIZE /\ who[h] = r /\ num[h] = 1
    BY <1>h, <1>n DEF Lists
  <2>3. free_head \in Nat
    BY DEF TypeInv
  <2> QED BY <2>1, <2>2, <2>3, SMTT(30)
<1>2. Chained(who, num, h)
  BY <1>1 DEF Lists
<1>3. \A i \in Descs : who[i] = r => num[i] \in Nat \ {0} /\ num[i] <= ChainLen(r)
  <2> SUFFICES ASSUME NEW i \in Descs, who[i] = r PROVE num[i] \in Nat \ {0} /\ num[i] <= ChainLen(r)
    OBVIOUS
  <2>1. Chained(who, num, i)
    BY <1>1 DEF Lists
  <2> QED BY <2>1 DEF Chained, Numbers
<1>4. CASE InList(r)
  <2>1. ChainLen(r) = 1 /\ desc_shadow[h].flags = {"INDIRECT"}
    BY <1>1, <1>2, <1>4 DEF Chained, ChainLen
  <2>2. \A i \in Descs : who[i] = r => i = h /\ num[i] = 1
    <3> SUFFICES ASSUME NEW i \in Descs, who[i] = r PROVE i = h /\ num[i] = 1
      OBVIOUS
    <3>1. num[i] = 1
      BY <1>3, <2>1, SMTT(30)
    <3> QED BY <3>1, <1>1, SMTT(30) DEF Lists
  <2>3. /\ free_head' = h /\ num_used' = num_used - 1 /\ desc' = desc
        /\ desc_shadow' = [desc_shadow EXCEPT ![h].addr = None, ![h].next = free_head]
        /\ indirect_lists' = [indirect_lists EXCEPT ![h] = <<>>]
    BY <2>1, <1>h DEF Recycle
  <2>4. desc_shadow'[h] \in DescType /\ desc_shadow'[h].next = free_head
    <3>1. desc_shadow'[h] = [[desc_shadow[h] EXCEPT !.addr = None] EXCEPT !.next = free_head]
      BY <2>3, <1>1 DEF TypeInv
    <3>2. desc_shadow[h] \in DescType /\ None \in Addrs
      BY <1>1 DEF TypeInv, Addrs
    <3> QED BY <3>1, <3>2, <1>1 DEF DescType
  <2>5. /\ desc_shadow' = [i \in Descs |-> desc_shadow'[i]]
        /\ \A i \in Descs : i # h => desc_shadow'[i] = desc_shadow[i]
    BY <2>3 DEF TypeInv
  <2>6. desc_shadow' \in [Descs -> DescType]
    <3>1. \A i \in Descs : desc_shadow'[i] \in DescType
      BY <2>4, <2>5 DEF TypeInv
    <3> QED BY <3>1, <2>5
  <2>7. desc' \in [Descs -> DescType] /\ indirect_lists' \in [Descs -> Seq(Requests \X Nat)]
    <3>1. <<>> \in Seq(Requests \X Nat)
      BY SMTT(30)
    <3> QED BY <3>1, <2>3 DEF TypeInv
  <2>8. \A i \in Descs : indirect_lists'[i] = IF i = h THEN <<>> ELSE indirect_lists[i]
    BY <2>3, <1>1 DEF TypeInv
  <2>9. ASSUME NEW i \in Descs
        PROVE  IF who[i] = r
          THEN /\ desc_shadow'[i].next = IF num[i] = 1 THEN free_head ELSE desc_shadow[i].next
               /\ indirect_lists'[i] = <<>>
          ELSE /\ desc'[i] = desc[i] /\ desc_shadow'[i] = desc_shadow[i]
               /\ indirect_lists'[i] = indirect_lists[i]
    BY <1>1, <2>2, <2>3, <2>4, <2>5, <2>8
  <2> QED BY <1>h, <2>1, <2>3, <2>6, <2>7, <2>9, SMTT(30) DEF PopEffect
<1>5. CASE ~InList(r)
  <2>0. ChainLen(r) = n /\ "INDIRECT" \notin desc_shadow[h].flags
    BY <1>1, <1>2, <1>5, <1>n, SMTT(30) DEF Chained, ChainLen
  <2>c. PICK c : c = ShadowChain(reqs[r].token, n)
    OBVIOUS
  <2>1. c \in [1 .. n -> Descs] /\ \A k \in 1 .. n : who[c[k]] = r /\ num[c[k]] = k
    BY <2>c, <1>5, <1>n, ShadowWalk, SMTT(30)
  <2>s. PICK set : set = [i \in Descs |-> IF \E k \in 1 .. n : c[k] = i
                           THEN [UnsetBuf(desc_shadow[i]) EXCEPT !.next = IF i = c[n] THEN free_head ELSE @]
                           ELSE desc_shadow[i]]
    OBVIOUS
  <2>2. /\ free_head' = h /\ num_used' = num_used - n /\ indirect_lists' = indirect_lists
        /\ desc_shadow' = set
        /\ desc' = [i \in Descs |-> IF \E k \in 1 .. n : c[k] = i THEN set[i] ELSE desc[i]]
    BY <2>0, <2>c, <2>s, <1>h, <1>n, SMTT(30) DEF Recycle
  <2>3. ASSUME NEW i \in Descs PROVE (\E k \in 1 .. n : c[k] = i) <=> who[i] = r
    <3>1. ASSUME who[i] = r PROVE \E k \in 1 .. n : c[k] = i
      <4>1. num[i] \in 1 .. n
        BY <3>1, <1>1, <1>3, <2>0, SMTT(30)
      <4>2. c[num[i]] \in Descs /\ who[c[num[i]]] = r /\ num[c[num[i]]] = num[i]
        BY <4>1, <2>1
      <4>3. c[num[i]] = i
        BY <4>2, <3>1, SMTT(30) DEF Lists
      <4> QED BY <4>1, <4>3
    <3> QED BY <3>1, <2>1
  <2>4. ASSUME NEW i \in Descs, who[i] = r PROVE i = c[n] <=> num[i] = n
    <3>1. n \in 1 .. n
      BY <1>1, SMTT(30)
    <3>2. c[n] \in Descs /\ who[c[n]] = r /\ num[c[n]] = n
      BY <3>1, <2>1
    <3> QED BY <3>2, <2>4, SMTT(30) DEF Lists
  <2>5. ASSUME NEW i \in Descs, who[i] = r
        PROVE  /\ set[i] \in DescType
               /\ set[i].next = IF num[i] = n THEN free_head ELSE desc_shadow[i].next
    <3>1. \E k \in 1 .. n : c[k] = i
      BY <2>3, <2>5
    <3>2. set[i] = [UnsetBuf(desc_shadow[i]) EXCEPT !.next = IF i = c[n] THEN free_head ELSE @]
      BY <3>1, <2>s
    <3>3. desc_shadow[i] \in DescType /\ None \in Addrs
      BY DEF TypeInv, Addrs
    <3>4. UnsetBuf(desc_shadow[i]) \in DescType /\ UnsetBuf(desc_shadow[i]).next = desc_shadow[i].next
      BY <3>3 DEF UnsetBuf, DescType
    <3>u. PICK u \in DescType : u = UnsetBuf(desc_shadow[i]) /\ u.next = desc_shadow[i].next
      BY <3>4
    <3>5. set[i] = [u EXCEPT !.next = IF num[i] = n THEN free_head ELSE @]
      BY <3>2, <3>u, <2>4, <2>5
    <3> QED BY <3>5, <3>u, <1>1 DEF DescType
  <2>6. ASSUME NEW i \in Descs, who[i] # r PROVE set[i] = desc_shadow[i] /\ desc'[i] = desc[i]
    <3>1. ~(\E k \in 1 .. n : c[k] = i)
      BY <2>3, <2>6
    <3>2. set[i] = desc_shadow[i]
      BY <3>1, <2>s
    <3>3. desc'[i] = desc[i]
      BY <3>1, <2>2
    <3> QED BY <3>2, <3>3
  <2>7. ASSUME NEW i \in Descs PROVE set[i] \in DescType /\ desc'[i] \in DescType
    <3>1. desc_shadow[i] \in DescType /\ desc[i] \in DescType
      BY DEF TypeInv
    <3>2. CASE who[i] = r
      <4>1. desc'[i] = set[i]
        BY <3>2, <2>2, <2>3
      <4> QED BY <4>1, <3>2, <2>5
    <3> QED BY <3>1, <3>2, <2>6
  <2>8. set = [i \in Descs |-> set[i]] /\ desc' = [i \in Descs |-> desc'[i]]
    BY <2>s, <2>2
  <2>9. desc_shadow' \in [Descs -> DescType] /\ desc' \in [Descs -> DescType]
    <3>1. set \in [Descs -> DescType]
      BY <2>7, <2>8
    <3>2. desc' \in [Descs -> DescType]
      BY <2>7, <2>8
    <3> QED BY <3>1, <3>2, <2>2
  <2>10. indirect_lists' \in [Descs -> Seq(Requests \X Nat)]
    BY <2>2 DEF TypeInv
  <2>11. ASSUME NEW i \in Descs, who[i] = r PROVE indirect_lists[i] = <<>>
    <3>1. Chained(who, num, i)
      BY <2>11, <1>1 DEF Lists
    <3> QED BY <3>1, <2>11, <1>5 DEF Chained
  <2>12. ASSUME NEW i \in Descs
        PROVE  IF who[i] = r
          THEN /\ desc_shadow'[i].next = IF num[i] = n THEN free_head ELSE desc_shadow[i].next
               /\ indirect_lists'[i] = <<>>
          ELSE /\ desc'[i] = desc[i] /\ desc_shadow'[i] = desc_shadow[i]
               /\ indirect_lists'[i] = indirect_lists[i]
    BY <2>2, <2>5, <2>6, <2>11
  <2> QED BY <1>1, <1>h, <2>0, <2>2, <2>9, <2>10, <2>12 DEF PopEffect
<1> QED BY <1>4, <1>5
=============================================================================
