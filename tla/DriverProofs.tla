---------------------------- MODULE DriverProofs ----------------------------
(***************************************************************************)
(* The drivers that keep buffers in a queue: what add, pop_used and the    *)
(* device's use of a chain do to a queue, and from it that characters,     *)
(* events and packets reach their owner whole, once each and in order.     *)
(***************************************************************************)
EXTENDS Console, Network, Events, DistinctSeqs

\* Zenon first: the leaves that need arithmetic, records or sequences name SMT.
USE ZenonT(30), SMTT(30)

-----------------------------------------------------------------------------
(******************************** the queue ********************************)

IsQueue(q) ==
    q = [size |-> q.size, indirect |-> q.indirect, free |-> q.free, chains |-> q.chains, used |-> q.used]

\* A queue is a record, of which some fields are replaced.
LEMMA QueueExcept ==
    ASSUME NEW q, IsQueue(q), NEW fr, NEW ch, NEW us
    PROVE  /\ [q EXCEPT !.free = fr, !.chains = ch]
                = [size |-> q.size, indirect |-> q.indirect, free |-> fr, chains |-> ch, used |-> q.used]
           /\ [q EXCEPT !.free = fr, !.chains = ch, !.used = us]
                = [size |-> q.size, indirect |-> q.indirect, free |-> fr, chains |-> ch, used |-> us]
<1>1. PICK a, b, c, d, e : q = [size |-> a, indirect |-> b, free |-> c, chains |-> d, used |-> e]
  BY DEF IsQueue
<1>2. q.size = a /\ q.indirect = b /\ q.used = e
  BY <1>1, SMTT(30)
<1>3. PICK f : f = [q EXCEPT !.free = fr]
  OBVIOUS
<1>4. f = [size |-> a, indirect |-> b, free |-> fr, chains |-> d, used |-> e]
  BY <1>1, <1>3, SMTT(30)
<1>5. PICK g : g = [f EXCEPT !.chains = ch]
  OBVIOUS
<1>6. g = [size |-> a, indirect |-> b, free |-> fr, chains |-> ch, used |-> e]
  BY <1>4, <1>5, SMTT(30)
<1>7. [g EXCEPT !.used = us] = [size |-> a, indirect |-> b, free |-> fr, chains |-> ch, used |-> us]
  BY <1>6, SMTT(30)
<1>8. /\ [q EXCEPT !.free = fr, !.chains = ch] = g
      /\ [q EXCEPT !.free = fr, !.chains = ch, !.used = us] = [g EXCEPT !.used = us]
  BY <1>3, <1>5, Zenon
<1> QED BY <1>2, <1>6, <1>7, <1>8

\* add takes its descriptors off the free ones, and enters one chain under its token.
AfterAdd(p, q, n, c, t) ==
    /\ IsQueue(p) /\ p.size = q.size /\ p.indirect = q.indirect /\ p.used = q.used
    /\ p.free = SubSeq(q.free, Needed(q, n) + 1, Len(q.free))
    /\ DOMAIN p.chains = DOMAIN q.chains \cup {t}
    /\ p.chains[t] = [descs |-> SubSeq(q.free, 1, Needed(q, n)), about |-> c]
    /\ \A u \in DOMAIN q.chains : u # t => p.chains[u] = q.chains[u]

LEMMA AddFields ==
    ASSUME NEW q, IsQueue(q), NEW n, NEW c
    PROVE  AfterAdd(AddChain(q, n, c), q, n, c, Token(q))
<1> DEFINE t == Token(q)
           fr == SubSeq(q.free, Needed(q, n) + 1, Len(q.free))
           ch == [u \in DOMAIN q.chains \cup {t} |->
                    IF u = t THEN [descs |-> SubSeq(q.free, 1, Needed(q, n)), about |-> c] ELSE q.chains[u]]
<1>1. AddChain(q, n, c) = [q EXCEPT !.free = fr, !.chains = ch]
  BY DEF AddChain
<1>2. /\ DOMAIN ch = DOMAIN q.chains \cup {t}
      /\ ch[t] = [descs |-> SubSeq(q.free, 1, Needed(q, n)), about |-> c]
      /\ \A u \in DOMAIN q.chains : u # t => ch[u] = q.chains[u]
  BY Zenon
<1> HIDE DEF fr, ch
<1>3. AddChain(q, n, c) = [size |-> q.size, indirect |-> q.indirect, free |-> fr, chains |-> ch, used |-> q.used]
  BY <1>1, QueueExcept
<1>4. PICK p : p = AddChain(q, n, c)
  OBVIOUS
<1>5. IsQueue(p) /\ p.size = q.size /\ p.indirect = q.indirect /\ p.used = q.used /\ p.free = fr /\ p.chains = ch
  BY <1>3, <1>4, SMTT(30) DEF IsQueue
<1> QED BY <1>2, <1>4, <1>5 DEF fr, AfterAdd

\* pop_used gives the descriptors of the first used chain back, and forgets the chain.
AfterPop(p, q, t) ==
    /\ IsQueue(p) /\ p.size = q.size /\ p.indirect = q.indirect /\ p.used = Tail(q.used)
    /\ p.free = q.chains[t].descs \o q.free
    /\ DOMAIN p.chains = DOMAIN q.chains \ {t}
    /\ \A u \in DOMAIN q.chains \ {t} : p.chains[u] = q.chains[u]

LEMMA PopFields ==
    ASSUME NEW q, IsQueue(q)
    PROVE  AfterPop(PopUsed(q), q, PeekUsed(q))
<1> DEFINE t == PeekUsed(q)
           fr == q.chains[t].descs \o q.free
           ch == [u \in DOMAIN q.chains \ {t} |-> q.chains[u]]
           us == Tail(q.used)
<1>1. PopUsed(q) = [q EXCEPT !.free = fr, !.chains = ch, !.used = us]
  BY DEF PopUsed
<1>2. DOMAIN ch = DOMAIN q.chains \ {t} /\ \A u \in DOMAIN q.chains \ {t} : ch[u] = q.chains[u]
  BY Zenon
<1> HIDE DEF fr, ch, us
<1>3. PopUsed(q) = [size |-> q.size, indirect |-> q.indirect, free |-> fr, chains |-> ch, used |-> us]
  BY <1>1, QueueExcept
<1>4. PICK p : p = PopUsed(q)
  OBVIOUS
<1>5. IsQueue(p) /\ p.size = q.size /\ p.indirect = q.indirect /\ p.used = us /\ p.free = fr /\ p.chains = ch
  BY <1>3, <1>4, SMTT(30) DEF IsQueue
<1> QED BY <1>2, <1>4, <1>5 DEF fr, us, AfterPop

\* The device adds to the used ring and changes nothing else.
AfterUse(p, q, e) ==
    /\ IsQueue(p) /\ p.size = q.size /\ p.indirect = q.indirect
    /\ p.used = Append(q.used, e) /\ p.free = q.free /\ p.chains = q.chains

LEMMA UseFields ==
    ASSUME NEW q, IsQueue(q), NEW t, NEW r
    PROVE  AfterUse(Use(q, t, r), q, [tok |-> t, resp |-> r])
<1> DEFINE us == Append(q.used, [tok |-> t, resp |-> r])
<1>1. Use(q, t, r) = [q EXCEPT !.used = us]
  BY DEF Use
<1> HIDE DEF us
<1>2. Use(q, t, r) = [size |-> q.size, indirect |-> q.indirect, free |-> q.free, chains |-> q.chains, used |-> us]
  BY <1>1, SMTT(30) DEF IsQueue
<1>3. PICK p : p = Use(q, t, r)
  OBVIOUS
<1>4. /\ IsQueue(p) /\ p.size = q.size /\ p.indirect = q.indirect /\ p.used = us
      /\ p.free = q.free /\ p.chains = q.chains
  BY <1>2, <1>3, SMTT(30) DEF IsQueue
<1> QED BY <1>3, <1>4 DEF us, AfterUse

\* A queue in which every chain has one descriptor, its token: each token of S is either
\* free or names a chain, and what is used is a chain, once.  R is what the device writes.
Ring(q, S, R) ==
    /\ IsQueue(q) /\ q.indirect = FALSE
    /\ q.free \in Seq(S) /\ Distinct(q.free)
    /\ Range(q.free) \cup DOMAIN q.chains = S /\ Range(q.free) \cap DOMAIN q.chains = {}
    /\ \A t \in DOMAIN q.chains : q.chains[t].descs = <<t>>
    /\ q.used \in Seq([tok : S, resp : R])
    /\ \A i \in 1 .. Len(q.used) : q.used[i].tok \in DOMAIN q.chains
    /\ \A i, j \in 1 .. Len(q.used) : q.used[i].tok = q.used[j].tok => i = j

\* The chains whose buffer the driver will not lose to a response in B.
Good(q, B) ==
    {t \in DOMAIN q.chains : \A i \in 1 .. Len(q.used) : q.used[i].tok = t => q.used[i].resp \notin B}

\* What add, pop_used and the device make of queue q: p.
Added(p, q, t, c) ==
    /\ p.used = q.used /\ p.size = q.size
    /\ t \notin DOMAIN q.chains /\ DOMAIN p.chains = DOMAIN q.chains \cup {t} /\ p.chains[t].about = c
    /\ \A u \in DOMAIN q.chains : p.chains[u] = q.chains[u]

Popped(p, q, t, r) ==
    /\ q.used[1].tok = t /\ q.used[1].resp = r /\ t \in DOMAIN q.chains
    /\ p.free # <<>> /\ Token(p) = t /\ p.size = q.size
    /\ Len(q.used) \in Nat \ {0} /\ Len(p.used) = Len(q.used) - 1
    /\ \A i \in 1 .. Len(p.used) : p.used[i] = q.used[i + 1] /\ p.used[i].tok # t
    /\ DOMAIN p.chains = DOMAIN q.chains \ {t}
    /\ \A u \in DOMAIN p.chains : p.chains[u] = q.chains[u]

Filled(p, q, t, r) ==
    /\ p.free = q.free /\ p.chains = q.chains /\ p.size = q.size /\ t \in DOMAIN q.chains
    /\ Len(q.used) \in Nat /\ Len(p.used) = Len(q.used) + 1
    /\ \A i \in 1 .. Len(q.used) : p.used[i] = q.used[i] /\ q.used[i].tok # t
    /\ p.used[Len(q.used) + 1].tok = t /\ p.used[Len(q.used) + 1].resp = r

\* The token of a new chain was free.
LEMMA RingAdd ==
    ASSUME NEW S, NEW R, NEW q, Ring(q, S, R), q.free # <<>>, NEW c
    PROVE  Ring(AddChain(q, 1, c), S, R) /\ Added(AddChain(q, 1, c), q, Token(q), c) /\ Token(q) \in S
<1>p. PICK p : p = AddChain(q, 1, c)
  OBVIOUS
<1>t. PICK t : t = Token(q)
  OBVIOUS
<1>1. /\ IsQueue(q) /\ q.indirect = FALSE /\ q.free \in Seq(S) /\ Distinct(q.free)
      /\ Range(q.free) \cup DOMAIN q.chains = S /\ Range(q.free) \cap DOMAIN q.chains = {}
      /\ \A u \in DOMAIN q.chains : q.chains[u].descs = <<u>>
      /\ q.used \in Seq([tok : S, resp : R])
      /\ \A i \in 1 .. Len(q.used) : q.used[i].tok \in DOMAIN q.chains
      /\ \A i, j \in 1 .. Len(q.used) : q.used[i].tok = q.used[j].tok => i = j
  BY Zenon DEF Ring
<1>2. Needed(q, 1) = 1
  BY <1>1 DEF Needed
<1>3. /\ IsQueue(p) /\ p.size = q.size /\ p.indirect = FALSE /\ p.used = q.used
      /\ p.free = SubSeq(q.free, 1 + 1, Len(q.free)) /\ DOMAIN p.chains = DOMAIN q.chains \cup {t}
      /\ p.chains[t] = [descs |-> SubSeq(q.free, 1, 1), about |-> c]
      /\ \A u \in DOMAIN q.chains : u # t => p.chains[u] = q.chains[u]
  <2>1. IsQueue(q) /\ q.indirect = FALSE
    BY <1>1
  <2>a. AfterAdd(p, q, 1, c, t)
    BY <1>p, <1>t, <2>1, AddFields
  <2>2. /\ IsQueue(p) /\ p.size = q.size /\ p.indirect = q.indirect /\ p.used = q.used
        /\ p.free = SubSeq(q.free, Needed(q, 1) + 1, Len(q.free)) /\ DOMAIN p.chains = DOMAIN q.chains \cup {t}
        /\ p.chains[t] = [descs |-> SubSeq(q.free, 1, Needed(q, 1)), about |-> c]
        /\ \A u \in DOMAIN q.chains : u # t => p.chains[u] = q.chains[u]
    BY <2>a DEF AfterAdd
  <2> QED BY <1>2, <2>1, <2>2
<1>f. PICK f : f = q.free
  OBVIOUS
<1>4. f \in Seq(S) /\ Distinct(f) /\ f # <<>> /\ 1 \in 1 .. Len(f)
  BY <1>f, <1>1, SMTT(30)
<1>5. t = Head(f)
  BY <1>f, <1>t DEF Token
<1>a. PICK a : a = FirstPart(f, 1)
  OBVIOUS
<1>b. PICK b : b = LastPart(f, 1)
  OBVIOUS
<1>6. /\ a \in Seq(S) /\ b \in Seq(S) /\ Distinct(b) /\ Len(a) = 1 /\ a # <<>> /\ Head(a) = Head(f)
      /\ Range(a) \cap Range(b) = {} /\ Range(a) \cup Range(b) = Range(f)
  <2>1. /\ FirstPart(f, 1) \in Seq(S) /\ LastPart(f, 1) \in Seq(S) /\ Distinct(LastPart(f, 1))
        /\ FirstPart(f, 1) # <<>> /\ Len(FirstPart(f, 1)) = 1 /\ Head(FirstPart(f, 1)) = Head(f)
        /\ Range(FirstPart(f, 1)) \cap Range(LastPart(f, 1)) = {}
        /\ Range(FirstPart(f, 1)) \cup Range(LastPart(f, 1)) = Range(f)
    BY <1>4, SplitRange
  <2> QED BY <1>a, <1>b, <2>1
<1>7. a = <<t>> /\ DOMAIN a = {1} /\ a[1] = t
  BY <1>5, <1>6, SMTT(30)
<1>8. Range(a) = {t}
  BY <1>7 DEF Range
<1>9. t \in S /\ t \notin DOMAIN q.chains /\ Range(b) = Range(f) \ {t}
  BY <1>f, <1>6, <1>8, <1>1
<1>10. p.free = b /\ p.chains[t] = [descs |-> <<t>>, about |-> c]
  BY <1>3, <1>a, <1>b, <1>f, <1>7 DEF FirstPart, LastPart
<1>11. p.chains[t].descs = <<t>> /\ p.chains[t].about = c
  BY <1>10, SMTT(30)
<1>12. Ring(p, S, R)
  <2>1. Range(p.free) \cup DOMAIN p.chains = S /\ Range(p.free) \cap DOMAIN p.chains = {}
    BY <1>f, <1>1, <1>3, <1>9, <1>10
  <2>2. \A u \in DOMAIN p.chains : p.chains[u].descs = <<u>>
    BY <1>1, <1>3, <1>11
  <2>3. \A i \in 1 .. Len(p.used) : p.used[i].tok \in DOMAIN p.chains
    BY <1>1, <1>3
  <2> QED BY <2>1, <2>2, <2>3, <1>1, <1>3, <1>6, <1>10, Zenon DEF Ring
<1>13. Added(p, q, t, c)
  BY <1>3, <1>9, <1>11 DEF Added
<1> QED BY <1>p, <1>t, <1>9, <1>12, <1>13

\* A new chain is one whose buffer will not be lost.
LEMMA GoodAdd ==
    ASSUME NEW S, NEW R, NEW B, NEW q, Ring(q, S, R), NEW p, NEW t, NEW c, Added(p, q, t, c)
    PROVE  Good(p, B) = Good(q, B) \cup {t} /\ t \notin Good(q, B)
<1>a. t \notin DOMAIN q.chains /\ DOMAIN p.chains = DOMAIN q.chains \cup {t} /\ p.used = q.used
  BY DEF Added
<1>1. \A i \in 1 .. Len(q.used) : q.used[i].tok \in DOMAIN q.chains
  BY Zenon DEF Ring
<1>2. \A i \in 1 .. Len(q.used) : q.used[i].tok # t
  BY <1>a, <1>1
<1> QED BY <1>a, <1>2, Zenon DEF Good

\* The descriptor that pop_used frees is the next one to be taken.
LEMMA RingPop ==
    ASSUME NEW S, NEW R, NEW q, Ring(q, S, R), CanPop(q)
    PROVE  /\ Ring(PopUsed(q), S, R) /\ Popped(PopUsed(q), q, PeekUsed(q), Response(q))
           /\ PeekUsed(q) \in S /\ Response(q) \in R
<1>p. PICK p : p = PopUsed(q)
  OBVIOUS
<1>t. PICK t : t = PeekUsed(q)
  OBVIOUS
<1>r. PICK r : r = Response(q)
  OBVIOUS
<1>1. /\ IsQueue(q) /\ q.indirect = FALSE /\ q.free \in Seq(S) /\ Distinct(q.free)
      /\ Range(q.free) \cup DOMAIN q.chains = S /\ Range(q.free) \cap DOMAIN q.chains = {}
      /\ \A u \in DOMAIN q.chains : q.chains[u].descs = <<u>>
      /\ q.used \in Seq([tok : S, resp : R])
      /\ \A i \in 1 .. Len(q.used) : q.used[i].tok \in DOMAIN q.chains
      /\ \A i, j \in 1 .. Len(q.used) : q.used[i].tok = q.used[j].tok => i = j
  BY Zenon DEF Ring
<1>us. PICK us : us = q.used
  OBVIOUS
<1>vs. PICK vs : vs = Tail(us)
  OBVIOUS
<1>2. /\ us \in Seq([tok : S, resp : R]) /\ us # <<>>
      /\ \A i \in 1 .. Len(us) : us[i].tok \in DOMAIN q.chains
      /\ \A i, j \in 1 .. Len(us) : us[i].tok = us[j].tok => i = j
  BY <1>1, <1>us DEF CanPop
<1>3. /\ Len(us) \in Nat \ {0} /\ 1 \in 1 .. Len(us) /\ Head(us) = us[1] /\ us[1] \in [tok : S, resp : R]
      /\ vs \in Seq([tok : S, resp : R]) /\ Len(vs) = Len(us) - 1
      /\ \A i \in 1 .. Len(vs) : i + 1 \in 1 .. Len(us) /\ i + 1 # 1 /\ vs[i] = us[i + 1]
  <2>1. PICK E : E = [tok : S, resp : R]
    OBVIOUS
  <2>2. us \in Seq(E) /\ us # <<>>
    BY <1>2, <2>1
  <2>3. /\ Len(us) \in Nat \ {0} /\ 1 \in 1 .. Len(us) /\ Head(us) = us[1] /\ us[1] \in E
        /\ vs \in Seq(E) /\ Len(vs) = Len(us) - 1
    BY <2>2, <1>vs, SMTT(30)
  <2>4. \A i \in 1 .. Len(vs) : i + 1 \in 1 .. Len(us) /\ i + 1 # 1 /\ vs[i] = us[i + 1]
    BY <2>2, <2>3, <1>vs, SMTT(30)
  <2> QED BY <2>1, <2>3, <2>4
<1>4. us[1].tok = t /\ us[1].resp = r /\ r \in R /\ t \in S
  BY <1>3, <1>us, <1>t, <1>r, SMTT(30) DEF PeekUsed, Response
<1>5. t \in DOMAIN q.chains
  BY <1>2, <1>3, <1>4
<1>6. \A i \in 1 .. Len(vs) : vs[i].tok # t /\ vs[i].tok \in DOMAIN q.chains
  BY <1>2, <1>3, <1>4
<1>7. \A i, j \in 1 .. Len(vs) : vs[i].tok = vs[j].tok => i = j
  <2> TAKE i, j \in 1 .. Len(vs)
  <2> HAVE vs[i].tok = vs[j].tok
  <2>1. i + 1 \in 1 .. Len(us) /\ j + 1 \in 1 .. Len(us) /\ us[i + 1].tok = us[j + 1].tok
    BY <1>3
  <2>2. i + 1 = j + 1
    BY <2>1, <1>2
  <2> QED BY <2>2, SMTT(30)
<1>8. /\ IsQueue(p) /\ p.size = q.size /\ p.indirect = FALSE /\ p.used = vs
      /\ p.free = <<t>> \o q.free /\ DOMAIN p.chains = DOMAIN q.chains \ {t}
      /\ \A u \in DOMAIN q.chains \ {t} : p.chains[u] = q.chains[u]
  <2>1. AfterPop(p, q, t)
    BY <1>p, <1>t, <1>1, PopFields
  <2> QED BY <2>1, <1>us, <1>vs, <1>1, <1>5, Zenon DEF AfterPop
<1>9. /\ <<t>> \in Seq(S) /\ DOMAIN <<t>> = {1} /\ <<t>>[1] = t
  BY <1>4, SMTT(30)
<1>10. Range(<<t>>) = {t} /\ Distinct(<<t>>)
  <2>1. Len(<<t>>) = 1 /\ 1 .. 1 = {1}
    BY SMTT(30)
  <2> QED BY <1>9, <2>1, SMTT(30) DEF Range, Distinct
<1>11. /\ p.free \in Seq(S) /\ Distinct(p.free) /\ Range(p.free) = {t} \cup Range(q.free)
  <2>1. PICK f : f = q.free
    OBVIOUS
  <2>2. f \in Seq(S) /\ Distinct(f) /\ Range(<<t>>) \cap Range(f) = {}
    BY <2>1, <1>1, <1>5, <1>10
  <2>3. PICK a : a = <<t>>
    OBVIOUS
  <2>4. a \in Seq(S) /\ Distinct(a) /\ Range(a) = {t} /\ Range(a) \cap Range(f) = {}
    BY <2>2, <2>3, <1>9, <1>10
  <2>5. a \o f \in Seq(S) /\ Range(a \o f) = Range(a) \cup Range(f) /\ Distinct(a \o f)
    BY <2>2, <2>4, ConcatRange, SMTT(30)
  <2>6. p.free = a \o f
    BY <2>1, <2>3, <1>8
  <2> QED BY <2>1, <2>4, <2>5, <2>6
<1>12. p.free # <<>> /\ Token(p) = t
  <2>1. PICK f : f = q.free /\ f \in Seq(S)
    BY <1>1
  <2>2. <<t>> \o f # <<>> /\ Head(<<t>> \o f) = t
    BY <2>1, <1>4, SMTT(30)
  <2> QED BY <2>1, <2>2, <1>8 DEF Token
<1>13. Ring(p, S, R)
  <2>1. Range(p.free) \cup DOMAIN p.chains = S /\ Range(p.free) \cap DOMAIN p.chains = {}
    BY <1>1, <1>4, <1>5, <1>8, <1>11
  <2>2. \A u \in DOMAIN p.chains : p.chains[u].descs = <<u>>
    BY <1>1, <1>8
  <2>3. \A i \in 1 .. Len(p.used) : p.used[i].tok \in DOMAIN p.chains
    BY <1>6, <1>8
  <2> QED BY <2>1, <2>2, <2>3, <1>3, <1>7, <1>8, <1>11, Zenon DEF Ring
<1>16. \A i \in 1 .. Len(p.used) : p.used[i] = q.used[i + 1] /\ p.used[i].tok # t
  BY <1>us, <1>3, <1>6, <1>8
<1>17. Popped(p, q, t, r)
  BY <1>us, <1>3, <1>4, <1>5, <1>8, <1>12, <1>16 DEF Popped
<1> QED BY <1>p, <1>t, <1>r, <1>4, <1>13, <1>17

\* A chain that is popped was one whose buffer is not lost, unless the response was in B.
LEMMA GoodPop ==
    ASSUME NEW S, NEW R, NEW B, NEW q, Ring(q, S, R), NEW p, NEW t, NEW r, Popped(p, q, t, r)
    PROVE  Good(p, B) = Good(q, B) \ {t} /\ (t \in Good(q, B) <=> r \notin B)
<1>1. PICK us, vs : us = q.used /\ vs = p.used
  OBVIOUS
<1>2. /\ us[1].tok = t /\ us[1].resp = r /\ Len(us) \in Nat \ {0} /\ Len(vs) = Len(us) - 1
      /\ \A i \in 1 .. Len(vs) : vs[i] = us[i + 1]
  BY <1>1, Zenon DEF Popped
<1>a. t \in DOMAIN q.chains /\ DOMAIN p.chains = DOMAIN q.chains \ {t}
  BY DEF Popped
<1>3. /\ 1 \in 1 .. Len(us)
      /\ \A i \in 1 .. Len(vs) : i + 1 \in 1 .. Len(us) /\ vs[i] = us[i + 1]
      /\ \A i \in 1 .. Len(us) : i = 1 \/ (i - 1 \in 1 .. Len(vs) /\ vs[i - 1] = us[i])
  BY <1>2, SMTT(30)
<1>4. \A i, j \in 1 .. Len(us) : us[i].tok = us[j].tok => i = j
  BY <1>1, Zenon DEF Ring
<1>5. ASSUME NEW u \in DOMAIN q.chains, u # t
      PROVE  (\A i \in 1 .. Len(vs) : vs[i].tok = u => vs[i].resp \notin B)
               <=> (\A i \in 1 .. Len(us) : us[i].tok = u => us[i].resp \notin B)
  <2>1. ASSUME NEW i \in 1 .. Len(vs), \A j \in 1 .. Len(us) : us[j].tok = u => us[j].resp \notin B
        PROVE  vs[i].tok = u => vs[i].resp \notin B
    BY <2>1, <1>3
  <2>2. ASSUME NEW i \in 1 .. Len(us), \A j \in 1 .. Len(vs) : vs[j].tok = u => vs[j].resp \notin B
        PROVE  us[i].tok = u => us[i].resp \notin B
    <3>1. CASE i = 1
      BY <3>1, <1>2, <1>5
    <3>2. CASE i - 1 \in 1 .. Len(vs) /\ vs[i - 1] = us[i]
      BY <3>2, <2>2
    <3> QED BY <3>1, <3>2, <1>3
  <2> QED BY <2>1, <2>2
<1>6. Good(p, B) = Good(q, B) \ {t}
  BY <1>1, <1>a, <1>5, Zenon DEF Good
<1>7. t \in Good(q, B) <=> r \notin B
  <2>1. 1 \in 1 .. Len(us) /\ \A i \in 1 .. Len(us) : us[i].tok = t => i = 1
    BY <1>2, <1>3, <1>4
  <2>2. (\A i \in 1 .. Len(us) : us[i].tok = t => us[i].resp \notin B) <=> r \notin B
    BY <2>1, <1>2
  <2> QED BY <1>1, <1>a, <2>2 DEF Good
<1> QED BY <1>6, <1>7

\* The device uses a chain that it holds, which it has not used yet.
LEMMA RingUse ==
    ASSUME NEW S, NEW R, NEW q, Ring(q, S, R), NEW t \in Held(q), NEW r \in R
    PROVE  Ring(Use(q, t, r), S, R) /\ Filled(Use(q, t, r), q, t, r) /\ CanPop(Use(q, t, r)) /\ t \in S
<1>p. PICK p : p = Use(q, t, r)
  OBVIOUS
<1>1. /\ IsQueue(q) /\ q.indirect = FALSE /\ q.free \in Seq(S) /\ Distinct(q.free)
      /\ Range(q.free) \cup DOMAIN q.chains = S /\ Range(q.free) \cap DOMAIN q.chains = {}
      /\ \A u \in DOMAIN q.chains : q.chains[u].descs = <<u>>
      /\ q.used \in Seq([tok : S, resp : R])
      /\ \A i \in 1 .. Len(q.used) : q.used[i].tok \in DOMAIN q.chains
      /\ \A i, j \in 1 .. Len(q.used) : q.used[i].tok = q.used[j].tok => i = j
  BY Zenon DEF Ring
<1>us. PICK us : us = q.used
  OBVIOUS
<1>e. PICK e : e = [tok |-> t, resp |-> r]
  OBVIOUS
<1>vs. PICK vs : vs = Append(us, e)
  OBVIOUS
<1>2. t \in DOMAIN q.chains /\ t \in S /\ \A i \in 1 .. Len(us) : us[i].tok # t /\ us[i].tok \in DOMAIN q.chains
  BY <1>1, <1>us, Zenon DEF Held
<1>3. e \in [tok : S, resp : R] /\ e.tok = t /\ e.resp = r
  BY <1>e, <1>2, SMTT(30)
<1>4. us \in Seq([tok : S, resp : R]) /\ \A i, j \in 1 .. Len(us) : us[i].tok = us[j].tok => i = j
  BY <1>1, <1>us
<1>5. /\ Len(us) \in Nat /\ vs \in Seq([tok : S, resp : R]) /\ Len(vs) = Len(us) + 1
      /\ \A i \in 1 .. Len(us) : vs[i] = us[i]
      /\ vs[Len(us) + 1] = e
  BY <1>vs, <1>3, <1>4, SMTT(30)
<1>6. /\ \A i \in 1 .. Len(vs) : i \in 1 .. Len(us) \/ i = Len(us) + 1
      /\ \A i \in 1 .. Len(us) : i \in 1 .. Len(vs)
      /\ Len(us) + 1 \in 1 .. Len(vs)
  BY <1>5, SMTT(30)
<1>7. \A i \in 1 .. Len(vs) : vs[i].tok \in DOMAIN q.chains
  BY <1>2, <1>3, <1>5, <1>6
<1>8. \A i, j \in 1 .. Len(vs) : vs[i].tok = vs[j].tok => i = j
  BY <1>2, <1>3, <1>4, <1>5, <1>6
<1>9. /\ IsQueue(p) /\ p.size = q.size /\ p.indirect = FALSE /\ p.used = vs
      /\ p.free = q.free /\ p.chains = q.chains
  <2>1. IsQueue(q) /\ q.indirect = FALSE
    BY <1>1
  <2>2. AfterUse(p, q, e)
    BY <1>p, <1>e, <2>1, UseFields
  <2> QED BY <1>us, <1>vs, <2>1, <2>2 DEF AfterUse
<1>10. Ring(p, S, R)
  BY <1>1, <1>5, <1>7, <1>8, <1>9, Zenon DEF Ring
<1>13. vs # <<>>
  BY <1>5, SMTT(30)
<1>14. Filled(p, q, t, r)
  BY <1>us, <1>2, <1>3, <1>5, <1>9 DEF Filled
<1> QED BY <1>p, <1>2, <1>9, <1>10, <1>13, <1>14 DEF CanPop

\* The buffer of a chain that is used with a response in B will be lost.
LEMMA GoodUse ==
    ASSUME NEW B, NEW q, NEW p, NEW t, NEW r, Filled(p, q, t, r)
    PROVE  /\ t \in Good(q, B)
           /\ r \in B => Good(p, B) = Good(q, B) \ {t}
           /\ r \notin B => Good(p, B) = Good(q, B)
<1>1. PICK us, vs : us = q.used /\ vs = p.used
  OBVIOUS
<1>2. /\ Len(us) \in Nat /\ Len(vs) = Len(us) + 1 /\ vs[Len(us) + 1].tok = t /\ vs[Len(us) + 1].resp = r
      /\ \A i \in 1 .. Len(us) : vs[i] = us[i] /\ us[i].tok # t
  BY <1>1, Zenon DEF Filled
<1>a. t \in DOMAIN q.chains /\ p.chains = q.chains
  BY DEF Filled
<1>3. /\ \A i \in 1 .. Len(vs) : i \in 1 .. Len(us) \/ i = Len(us) + 1
      /\ \A i \in 1 .. Len(us) : i \in 1 .. Len(vs)
      /\ Len(us) + 1 \in 1 .. Len(vs)
  BY <1>2, SMTT(30)
<1>4. t \in Good(q, B)
  BY <1>1, <1>a, <1>2 DEF Good
<1>5. ASSUME NEW u \in DOMAIN q.chains
      PROVE  (\A i \in 1 .. Len(vs) : vs[i].tok = u => vs[i].resp \notin B)
               <=> /\ \A i \in 1 .. Len(us) : us[i].tok = u => us[i].resp \notin B
                   /\ u = t => r \notin B
  BY <1>2, <1>3, Zenon
<1>6. \A u : u \in Good(p, B) <=> u \in Good(q, B) /\ (u = t => r \notin B)
  BY <1>1, <1>a, <1>5, Zenon DEF Good
<1> QED BY <1>4, <1>6

-----------------------------------------------------------------------------
(******************************** Console **********************************)

\* The state of a console as its calls see it: the buffer is the driver's, with the
\* characters from c + 1 to len in it, or the device's, and then the driver has handed
\* out all of it.  The characters that were handed out, those in the buffer and those
\* not yet received follow one another.
Receiving(q, tok, c, len, rec, buf, typ) ==
    /\ Ring(q, {0, 1}, 1 .. Page)
    /\ c \in Nat /\ len \in Nat /\ c <= len /\ len <= Page
    /\ buf \in [1 .. Page -> Nat] /\ rec \in Seq(Nat) /\ typ \in Seq(Nat)
    /\ tok = NoToken => DOMAIN q.chains = {}
    /\ tok # NoToken => DOMAIN q.chains = {tok} /\ c = len
    /\ Len(rec) + (len - c) + (IF CanPop(q) THEN Response(q) ELSE 0) + Len(typ) = Input
    /\ \A i \in 1 .. Len(rec) : rec[i] = i
    /\ \A i \in c + 1 .. len : buf[i] = Len(rec) + (i - c)
    /\ CanPop(q) => \A i \in 1 .. Response(q) : buf[i] = Len(rec) + i
    /\ \A i \in 1 .. Len(typ) : typ[i] = (Input - Len(typ)) + i

ConsoleInd ==
    /\ reading \in 0 .. Page
    /\ Receiving(receiveq, receive_token, cursor, pending_len, received, queue_buf_rx, typed)

\* A place of a sequence that has grown by one is an old one, or the new one.
LEMMA UpToNext ==
    ASSUME NEW n \in Nat, NEW i \in 1 .. n + 1
    PROVE  i \in 1 .. n \/ i = n + 1
  BY SMTT(30)

\* A length is a number.
LEMMA LenNat ==
    ASSUME NEW S, NEW s \in Seq(S)
    PROVE  Len(s) \in Nat
  BY SMTT(30)

Concatenated(s, a, b, S) ==
    /\ s \in Seq(S) /\ Len(s) = Len(a) + Len(b)
    /\ \A i \in 1 .. Len(a) : s[i] = a[i]
    /\ \A i \in Len(a) + 1 .. Len(a) + Len(b) : s[i] = b[i - Len(a)]

\* The elements of two sequences, one after the other.
LEMMA ConcatAt ==
    ASSUME NEW S, NEW a \in Seq(S), NEW b \in Seq(S)
    PROVE  Concatenated(a \o b, a, b, S)
<1>s. PICK s : s = a \o b
  OBVIOUS
<1>n. PICK n, m \in Nat : n = Len(a) /\ m = Len(b)
  BY SMTT(30)
<1>1. s \in Seq(S) /\ Len(s) = n + m
  BY <1>s, <1>n, SMTT(30)
<1>2. \A i \in 1 .. n : s[i] = a[i]
  BY <1>s, <1>n, SMTT(30)
<1>3. \A i \in n + 1 .. n + m : s[i] = b[i - n]
  BY <1>s, <1>n, SMTT(30)
<1> QED BY <1>s, <1>n, <1>1, <1>2, <1>3 DEF Concatenated

\* In a ring without chains nothing is used.
LEMMA NothingUsed ==
    ASSUME NEW S, NEW R, NEW q, Ring(q, S, R), DOMAIN q.chains = {}
    PROVE  ~CanPop(q)
<1>1. PICK us : us = q.used
  OBVIOUS
<1>2. us \in Seq([tok : S, resp : R]) /\ \A i \in 1 .. Len(us) : us[i].tok \in {}
  BY <1>1, Zenon DEF Ring
<1>3. PICK E : E = [tok : S, resp : R]
  OBVIOUS
<1>4. us \in Seq(E) /\ \A i \in 1 .. Len(us) : FALSE
  BY <1>2, <1>3
<1>5. us = <<>>
  BY <1>4, SMTT(30)
<1> QED BY <1>1, <1>5 DEF CanPop

\* finish_receive turns what the device has written into what the driver hands out.
LEMMA FinishKeeps ==
    ASSUME Page \in Nat, Input \in Nat,
           NEW q, NEW tok, NEW c, NEW len, NEW rec, NEW buf, NEW typ,
           Receiving(q, tok, c, len, rec, buf, typ), tok # NoToken, Pops(q, tok)
    PROVE  Receiving(PopUsed(q), NoToken, 0, Response(q), rec, buf, typ)
<1>p. PICK p : p = PopUsed(q)
  OBVIOUS
<1>r. PICK r : r = Response(q)
  OBVIOUS
<1>1. CanPop(q) /\ PeekUsed(q) = tok
  BY DEF Pops
<1>2. Ring(q, {0, 1}, 1 .. Page) /\ DOMAIN q.chains = {tok}
  BY DEF Receiving
<1>3. Ring(p, {0, 1}, 1 .. Page) /\ r \in 1 .. Page /\ DOMAIN p.chains = DOMAIN q.chains \ {tok}
  <2>1. Ring(p, {0, 1}, 1 .. Page) /\ r \in 1 .. Page /\ Popped(p, q, tok, r)
    BY <1>p, <1>r, <1>1, <1>2, RingPop
  <2> QED BY <2>1 DEF Popped
<1>4. DOMAIN p.chains = {} /\ ~CanPop(p)
  BY <1>2, <1>3, NothingUsed
<1>5. /\ c \in Nat /\ len \in Nat /\ c = len
      /\ buf \in [1 .. Page -> Nat] /\ rec \in Seq(Nat) /\ typ \in Seq(Nat)
      /\ Len(rec) + (len - c) + r + Len(typ) = Input
      /\ \A i \in 1 .. Len(rec) : rec[i] = i
      /\ \A i \in 1 .. r : buf[i] = Len(rec) + i
      /\ \A i \in 1 .. Len(typ) : typ[i] = (Input - Len(typ)) + i
  BY <1>1, <1>r, Zenon DEF Receiving
<1>6. PICK l, m \in Nat : l = Len(rec) /\ m = Len(typ)
  BY <1>5, SMTT(30)
<1>7. r \in Nat /\ 0 <= r /\ r <= Page /\ l + (r - 0) + 0 + m = Input
  BY <1>3, <1>5, <1>6, SMTT(30)
<1>8. \A i \in 0 + 1 .. r : buf[i] = l + (i - 0)
  BY <1>5, <1>6, <1>7, SMTT(30)
<1>9. Len(rec) + (r - 0) + (IF CanPop(p) THEN Response(p) ELSE 0) + Len(typ) = Input
  BY <1>4, <1>6, <1>7
<1>10. 0 \in Nat
  BY SMTT(30)
<1>11. Receiving(p, NoToken, 0, r, rec, buf, typ)
  BY <1>3, <1>4, <1>5, <1>6, <1>7, <1>8, <1>9, <1>10, Zenon DEF Receiving
<1> QED BY <1>11, <1>p, <1>r

\* poll_retrieve makes a request only when everything has been handed out.
LEMMA PollKeeps ==
    ASSUME Page \in Nat, Input \in Nat,
           NEW q, NEW tok, NEW c, NEW len, NEW rec, NEW buf, NEW typ,
           Receiving(q, tok, c, len, rec, buf, typ)
    PROVE  LET p == PollRetrieve(q, tok, c, len)
           IN  Receiving(p.q, p.tok, c, len, rec, buf, typ)
<1>1. CASE ~(tok = NoToken /\ c = len)
  <2>1. PollRetrieve(q, tok, c, len) = [q |-> q, tok |-> tok]
    BY <1>1, Zenon DEF PollRetrieve
  <2>2. [q |-> q, tok |-> tok].q = q /\ [q |-> q, tok |-> tok].tok = tok
    BY SMTT(30)
  <2> QED BY <2>1, <2>2
<1>2. CASE tok = NoToken /\ c = len
  <2>p. PICK p : p = AddChain(q, 1, "rx")
    OBVIOUS
  <2>t. PICK t : t = Token(q)
    OBVIOUS
  <2>1. PollRetrieve(q, tok, c, len) = [q |-> p, tok |-> t]
    BY <1>2, <2>p, <2>t DEF PollRetrieve
  <2>2. [q |-> p, tok |-> t].q = p /\ [q |-> p, tok |-> t].tok = t
    BY SMTT(30)
  <2>3. Ring(q, {0, 1}, 1 .. Page) /\ DOMAIN q.chains = {}
    BY <1>2 DEF Receiving
  <2>4. ~CanPop(q)
    BY <2>3, NothingUsed
  <2>5. q.free # <<>>
    <3>1. 0 \in Range(q.free)
      BY <2>3, Zenon DEF Ring
    <3>2. PICK f : f = q.free
      OBVIOUS
    <3>3. CASE f = <<>>
      <4>1. DOMAIN f = {}
        BY <3>3, SMTT(30)
      <4> QED BY <4>1, <3>1, <3>2 DEF Range
    <3> QED BY <3>2, <3>3
  <2>6. /\ Ring(p, {0, 1}, 1 .. Page) /\ t \in {0, 1} /\ p.used = q.used
        /\ DOMAIN p.chains = DOMAIN q.chains \cup {t}
    <3>1. Ring(p, {0, 1}, 1 .. Page) /\ t \in {0, 1} /\ Added(p, q, t, "rx")
      BY <2>p, <2>t, <2>3, <2>5, RingAdd
    <3> QED BY <3>1 DEF Added
  <2>7. t # NoToken
    BY <2>6, SMTT(30) DEF NoToken
  <2>8. ~CanPop(p) /\ DOMAIN p.chains = {t}
    BY <2>3, <2>4, <2>6 DEF CanPop
  <2>9. Receiving(p, t, c, len, rec, buf, typ)
    BY <1>2, <2>4, <2>6, <2>7, <2>8, Zenon DEF Receiving
  <2> QED BY <2>1, <2>2, <2>9
<1> QED BY <1>1, <1>2

\* The arithmetic of a copy: of n characters, from place c + 1 to place l + 1.
CopiedFrom(i, l, n, c, len) ==
    i - l \in 1 .. n /\ c + (i - l) \in c + 1 .. len /\ l + ((c + (i - l)) - c) = i

LEMMA CopyIndex ==
    ASSUME NEW c \in Nat, NEW n \in Nat, NEW len \in Nat, c + n <= len, NEW l \in Nat, NEW i \in l + 1 .. l + n
    PROVE  CopiedFrom(i, l, n, c, len)
  BY SMTT(30) DEF CopiedFrom

Balanced(l, m, n, len) == l + (len - len) + n + (m - n) = l + m

LEMMA CopyBalance ==
    ASSUME NEW l \in Nat, NEW m \in Nat, NEW n \in Nat, NEW len \in Nat, n <= m
    PROVE  Balanced(l, m, n, len)
  BY SMTT(30) DEF Balanced

\* Handing out n of the characters in the buffer.
LEMMA TakeKeeps ==
    ASSUME Page \in Nat, Input \in Nat,
           NEW q, NEW tok, NEW c, NEW len, NEW rec, NEW buf, NEW typ,
           Receiving(q, tok, c, len, rec, buf, typ),
           NEW n \in 1 .. (len - c), NEW more \in Seq(Nat), Len(more) = n,
           \A i \in 1 .. n : more[i] = buf[c + i]
    PROVE  Receiving(q, tok, c + n, len, rec \o more, buf, typ)
<1>1. /\ Ring(q, {0, 1}, 1 .. Page) /\ c \in Nat /\ len \in Nat /\ c <= len /\ len <= Page
      /\ buf \in [1 .. Page -> Nat] /\ rec \in Seq(Nat) /\ typ \in Seq(Nat)
      /\ tok = NoToken => DOMAIN q.chains = {}
      /\ tok # NoToken => c = len
      /\ Len(rec) + (len - c) + (IF CanPop(q) THEN Response(q) ELSE 0) + Len(typ) = Input
      /\ \A i \in 1 .. Len(rec) : rec[i] = i
      /\ \A i \in c + 1 .. len : buf[i] = Len(rec) + (i - c)
      /\ \A i \in 1 .. Len(typ) : typ[i] = (Input - Len(typ)) + i
  BY Zenon DEF Receiving
<1>2. c # len /\ n \in Nat /\ 1 <= n /\ c + n <= len /\ c + n \in Nat
  BY <1>1, SMTT(30)
<1>3. tok = NoToken /\ DOMAIN q.chains = {} /\ ~CanPop(q)
  BY <1>1, <1>2, NothingUsed
<1>a. c \in Nat /\ len \in Nat /\ rec \in Seq(Nat) /\ typ \in Seq(Nat)
  BY <1>1
<1>4. PICK l, m \in Nat : l = Len(rec) /\ m = Len(typ)
  BY <1>a, LenNat
<1>5. PICK nrec : nrec = rec \o more
  OBVIOUS
<1>6. /\ nrec \in Seq(Nat) /\ Len(nrec) = l + n
      /\ \A i \in 1 .. l : nrec[i] = rec[i]
      /\ \A i \in l + 1 .. l + n : nrec[i] = more[i - l]
  <2>1. more \in Seq(Nat) /\ Len(more) = n /\ n \in Nat
    BY <1>2
  <2>2. Concatenated(nrec, rec, more, Nat)
    BY <1>a, <1>5, <2>1, ConcatAt
  <2> QED BY <1>4, <2>1, <2>2 DEF Concatenated
<1>7. l + (len - c) + 0 + m = Input
  BY <1>1, <1>3, <1>4, Zenon
<1>8. Len(nrec) + (len - (c + n)) + 0 + Len(typ) = Input
  <2>1. Len(nrec) = l + n
    BY <1>6
  <2> QED BY <1>a, <1>2, <1>4, <1>7, <2>1, SMTT(30)
<1>9. \A i \in 1 .. Len(nrec) : nrec[i] = i
  <2> TAKE i \in 1 .. Len(nrec)
  <2>1. CASE i \in 1 .. l
    BY <2>1, <1>1, <1>4, <1>6
  <2>2. CASE i \in l + 1 .. l + n
    <3>1. i - l \in 1 .. n /\ c + (i - l) \in c + 1 .. len /\ l + ((c + (i - l)) - c) = i
      <4>1. CopiedFrom(i, l, n, c, len)
        BY <2>2, <1>a, <1>2, <1>4, CopyIndex
      <4> QED BY <4>1 DEF CopiedFrom
    <3>2. nrec[i] = buf[c + (i - l)]
      BY <2>2, <3>1, <1>6
    <3> QED BY <3>1, <3>2, <1>1, <1>4
  <2> QED BY <2>1, <2>2, <1>2, <1>4, <1>6, SMTT(30)
<1>10. \A i \in (c + n) + 1 .. len : buf[i] = Len(nrec) + (i - (c + n))
  <2> TAKE i \in (c + n) + 1 .. len
  <2>1. i \in c + 1 .. len /\ l + (i - c) = (l + n) + (i - (c + n))
    BY <1>1, <1>2, <1>4, SMTT(30)
  <2> QED BY <2>1, <1>1, <1>4, <1>6
<1>11. Len(nrec) + (len - (c + n)) + (IF CanPop(q) THEN Response(q) ELSE 0) + Len(typ) = Input
  BY <1>3, <1>8
<1>12. Receiving(q, tok, c + n, len, nrec, buf, typ)
  BY <1>1, <1>2, <1>3, <1>6, <1>9, <1>10, <1>11, Zenon DEF Receiving
<1> QED BY <1>5, <1>12

\* The device fills the buffer while the driver has nothing in it.
LEMMA FillKeeps ==
    ASSUME Page \in Nat, Input \in Nat,
           NEW q, NEW tok, NEW c, NEW len, NEW rec, NEW buf, NEW typ,
           Receiving(q, tok, c, len, rec, buf, typ),
           NEW t \in Held(q), NEW n \in 1 .. Page, n <= Len(typ)
    PROVE  Receiving(Use(q, t, n), tok, c, len, rec,
                     [i \in 1 .. Page |-> IF i <= n THEN typ[i] ELSE buf[i]],
                     SubSeq(typ, n + 1, Len(typ)))
<1>1. /\ Ring(q, {0, 1}, 1 .. Page) /\ c \in Nat /\ len \in Nat /\ c <= len /\ len <= Page
      /\ buf \in [1 .. Page -> Nat] /\ rec \in Seq(Nat) /\ typ \in Seq(Nat)
      /\ tok = NoToken => DOMAIN q.chains = {}
      /\ tok # NoToken => DOMAIN q.chains = {tok} /\ c = len
      /\ Len(rec) + (len - c) + (IF CanPop(q) THEN Response(q) ELSE 0) + Len(typ) = Input
      /\ \A i \in 1 .. Len(rec) : rec[i] = i
      /\ \A i \in 1 .. Len(typ) : typ[i] = (Input - Len(typ)) + i
  BY Zenon DEF Receiving
<1>a. c \in Nat /\ len \in Nat /\ rec \in Seq(Nat) /\ typ \in Seq(Nat)
  BY <1>1
<1>p. PICK p : p = Use(q, t, n)
  OBVIOUS
<1>2. /\ Ring(p, {0, 1}, 1 .. Page) /\ t \in DOMAIN q.chains /\ p.chains = q.chains
      /\ Len(q.used) \in Nat /\ Len(p.used) = Len(q.used) + 1 /\ CanPop(p)
      /\ \A i \in 1 .. Len(q.used) : p.used[i] = q.used[i] /\ q.used[i].tok # t
      /\ p.used[Len(q.used) + 1].tok = t /\ p.used[Len(q.used) + 1].resp = n
  <2>1. Ring(q, {0, 1}, 1 .. Page)
    BY <1>1
  <2>2. Ring(p, {0, 1}, 1 .. Page) /\ Filled(p, q, t, n) /\ CanPop(p)
    BY <1>p, <2>1, RingUse
  <2> QED BY <2>2 DEF Filled
<1>3. tok # NoToken /\ DOMAIN q.chains = {tok} /\ t = tok /\ c = len
  BY <1>1, <1>2
<1>4. \A i \in 1 .. Len(q.used) : FALSE
  <2>1. \A i \in 1 .. Len(q.used) : q.used[i].tok \in DOMAIN q.chains
    BY <1>1, Zenon DEF Ring
  <2> QED BY <2>1, <1>2, <1>3
<1>5. Len(q.used) = 0
  BY <1>2, <1>4, SMTT(30)
<1>6. ~CanPop(q)
  <2>1. PICK us, E : us = q.used /\ us \in Seq(E)
    BY <1>1, Zenon DEF Ring
  <2>2. us = <<>>
    BY <2>1, <1>5, SMTT(30)
  <2> QED BY <2>1, <2>2 DEF CanPop
<1>7. Response(p) = n
  <2>1. PICK vs, E : vs = p.used /\ vs \in Seq(E)
    BY <1>2, Zenon DEF Ring
  <2>2. Len(vs) = 1 /\ vs[1].resp = n
    BY <2>1, <1>2, <1>5, SMTT(30)
  <2>3. Head(vs) = vs[1]
    BY <2>1, <2>2, SMTT(30)
  <2> QED BY <2>1, <2>2, <2>3 DEF Response
<1>8. PICK l, m \in Nat : l = Len(rec) /\ m = Len(typ)
  BY <1>a, LenNat
<1>9. l + (len - c) + 0 + m = Input
  BY <1>1, <1>6, <1>8, Zenon
<1>10. n \in Nat /\ 1 <= n /\ n <= m /\ n <= Page
  BY <1>8, SMTT(30)
<1>11. l + m = Input
  BY <1>a, <1>3, <1>8, <1>9, SMTT(30)
<1>12. PICK nbuf : nbuf = [i \in 1 .. Page |-> IF i <= n THEN typ[i] ELSE buf[i]]
  OBVIOUS
<1>13. \A i \in 1 .. n : nbuf[i] = l + i
  <2> TAKE i \in 1 .. n
  <2>1. i \in 1 .. Page /\ i \in 1 .. m /\ i <= n /\ (Input - m) + i = l + i
    BY <1>10, <1>11, <1>8, SMTT(30)
  <2> QED BY <2>1, <1>1, <1>8, <1>12
<1>14. nbuf \in [1 .. Page -> Nat]
  <2>1. \A i \in 1 .. Page : i <= n => typ[i] \in Nat
    BY <1>a, <1>8, <1>10, SMTT(30)
  <2> QED BY <2>1, <1>1, <1>12
<1>15. PICK ntyp : ntyp = SubSeq(typ, n + 1, Len(typ))
  OBVIOUS
<1>16. ntyp \in Seq(Nat) /\ Len(ntyp) = m - n /\ \A i \in 1 .. m - n : ntyp[i] = typ[i + n]
  <2>1. n + 1 \in 1 .. m + 1 /\ \A i \in n + 1 .. m : i \in 1 .. Len(typ)
    BY <1>8, <1>10, SMTT(30)
  <2>2. ntyp \in Seq(Nat) /\ Len(ntyp) = IF n + 1 <= m THEN m - (n + 1) + 1 ELSE 0
    <3>1. \A i \in n + 1 .. m : typ[i] \in Nat
      BY <1>a, <2>1, SMTT(30)
    <3> QED BY <1>15, <1>8, <1>10, <1>a, <3>1, SMTT(30)
  <2>3. Len(ntyp) = m - n
    BY <1>8, <1>10, <2>2, SMTT(30)
  <2>4. ASSUME NEW i \in 1 .. m - n PROVE ntyp[i] = typ[i + n]
    BY <1>15, <1>8, <1>10, <1>a, <2>1, SMTT(30)
  <2> QED BY <2>2, <2>3, <2>4
<1>17. \A i \in 1 .. Len(ntyp) : ntyp[i] = (Input - Len(ntyp)) + i
  <2> TAKE i \in 1 .. Len(ntyp)
  <2>1. i \in 1 .. m - n
    BY <1>16
  <2>2. i + n \in 1 .. m /\ (Input - m) + (i + n) = (Input - (m - n)) + i
    BY <2>1, <1>8, <1>10, SMTT(30)
  <2> QED BY <2>1, <2>2, <1>1, <1>8, <1>16
<1>18. Len(rec) + (len - c) + n + Len(ntyp) = Input
  <2>1. Len(ntyp) = m - n
    BY <1>16
  <2>2. l + (len - len) + n + (m - n) = Input
    <3>1. Balanced(l, m, n, len)
      BY <1>a, <1>8, <1>10, CopyBalance
    <3> QED BY <3>1, <1>11 DEF Balanced
  <2> QED BY <2>1, <2>2, <1>3, <1>8
<1>19. \A i \in c + 1 .. len : nbuf[i] = Len(rec) + (i - c)
  BY <1>a, <1>3, SMTT(30)
<1>20. Receiving(p, tok, c, len, rec, nbuf, ntyp)
  BY <1>1, <1>2, <1>3, <1>7, <1>8, <1>13, <1>14, <1>16, <1>17, <1>18, <1>19, Zenon DEF Receiving
<1> QED BY <1>p, <1>12, <1>15, <1>20

\* n characters that follow the a-th.
Run(a, n) == [i \in 1 .. n |-> a + i]

Joined(a, n, m) == Run(a, n) \o Run(a + n, m) = Run(a, n + m)

LEMMA RunConcat ==
    ASSUME NEW a \in Nat, NEW n \in Nat, NEW m \in Nat
    PROVE  Joined(a, n, m)
<1>1. PICK x, y : x = Run(a, n) /\ y = Run(a + n, m)
  OBVIOUS
<1>2. /\ x \in Seq(Nat) /\ Len(x) = n /\ \A i \in 1 .. n : x[i] = a + i
  BY <1>1, SMTT(30) DEF Run
<1>3. /\ y \in Seq(Nat) /\ Len(y) = m /\ \A i \in 1 .. m : y[i] = (a + n) + i
  BY <1>1, SMTT(30) DEF Run
<1>4. PICK z : z = x \o y
  OBVIOUS
<1>5. /\ z \in Seq(Nat) /\ Len(z) = n + m
      /\ \A i \in 1 .. n : z[i] = x[i]
      /\ \A i \in n + 1 .. n + m : z[i] = y[i - n]
  <2>1. x \in Seq(Nat) /\ Len(x) = n /\ y \in Seq(Nat) /\ Len(y) = m
    BY <1>2, <1>3
  <2>2. Concatenated(x \o y, x, y, Nat)
    BY <2>1, ConcatAt
  <2> QED BY <1>4, <2>1, <2>2 DEF Concatenated
<1>6. \A i \in 1 .. n + m : z[i] = a + i
  <2> TAKE i \in 1 .. n + m
  <2>1. CASE i \in 1 .. n
    BY <2>1, <1>2, <1>5
  <2>2. CASE i \in n + 1 .. n + m
    <3>1. i - n \in 1 .. m /\ (a + n) + (i - n) = a + i
      BY <2>2, SMTT(30)
    <3> QED BY <2>2, <3>1, <1>3, <1>5
  <2> QED BY <2>1, <2>2, SMTT(30)
<1>7. z = [i \in 1 .. n + m |-> a + i]
  BY <1>5, <1>6, SMTT(30)
<1> QED BY <1>1, <1>4, <1>7 DEF Run, Joined

LEMMA IsRun ==
    ASSUME NEW a \in Nat, NEW n \in Nat, NEW s \in Seq(Nat), Len(s) = n, \A i \in 1 .. n : s[i] = a + i
    PROVE  s = Run(a, n)
  BY SMTT(30) DEF Run

InOrder(q, c, len, rec, buf, typ) ==
    rec \o SubSeq(buf, c + 1, len)
        \o (IF CanPop(q) THEN SubSeq(buf, 1, Response(q)) ELSE <<>>) \o typ
      = [i \in 1 .. Input |-> i]

\* The state of a console is one in which nothing is lost, doubled or out of order.
LEMMA ReceivingInOrder ==
    ASSUME Page \in Nat, Input \in Nat,
           NEW q, NEW tok, NEW c, NEW len, NEW rec, NEW buf, NEW typ,
           Receiving(q, tok, c, len, rec, buf, typ)
    PROVE  InOrder(q, c, len, rec, buf, typ)
<1>1. /\ c \in Nat /\ len \in Nat /\ c <= len /\ len <= Page
      /\ buf \in [1 .. Page -> Nat] /\ rec \in Seq(Nat) /\ typ \in Seq(Nat)
      /\ Len(rec) + (len - c) + (IF CanPop(q) THEN Response(q) ELSE 0) + Len(typ) = Input
      /\ \A i \in 1 .. Len(rec) : rec[i] = i
      /\ \A i \in c + 1 .. len : buf[i] = Len(rec) + (i - c)
      /\ CanPop(q) => \A i \in 1 .. Response(q) : buf[i] = Len(rec) + i
      /\ \A i \in 1 .. Len(typ) : typ[i] = (Input - Len(typ)) + i
  BY Zenon DEF Receiving
<1>a. c \in Nat /\ len \in Nat /\ c <= len /\ len <= Page /\ rec \in Seq(Nat) /\ typ \in Seq(Nat)
  BY <1>1
<1>b. PICK r : r = IF CanPop(q) THEN Response(q) ELSE 0
  OBVIOUS
<1>2. r \in 0 .. Page
  <2>1. CASE CanPop(q)
    <3>1. Ring(q, {0, 1}, 1 .. Page)
      BY DEF Receiving
    <3>2. Response(q) \in 1 .. Page
      BY <2>1, <3>1, RingPop
    <3> QED BY <2>1, <3>2, <1>b, SMTT(30)
  <2>2. CASE ~CanPop(q)
    BY <2>2, <1>b, SMTT(30)
  <2> QED BY <2>1, <2>2
<1>3. PICK l, m \in Nat : l = Len(rec) /\ m = Len(typ)
  BY <1>a, LenNat
<1>4. PICK k \in Nat : k = len - c
  BY <1>a, SMTT(30)
<1>5. r \in Nat /\ l + k + r + m = Input
  BY <1>1, <1>2, <1>3, <1>4, <1>b, SMTT(30)
<1>6. rec = Run(0, l)
  <2>1. \A i \in 1 .. l : rec[i] = 0 + i
    BY <1>1, <1>3, SMTT(30)
  <2> QED BY <2>1, <1>a, <1>3, IsRun
<1>7. SubSeq(buf, c + 1, len) = Run(0 + l, k)
  <2>1. PICK s : s = SubSeq(buf, c + 1, len)
    OBVIOUS
  <2>2. buf \in Seq(Nat) /\ Len(buf) = Page
    BY <1>1, SMTT(30)
  <2>3. \A i \in c + 1 .. len : buf[i] \in Nat
    <3>1. \A i \in c + 1 .. len : i \in 1 .. Page
      BY <1>a, SMTT(30)
    <3> QED BY <3>1, <1>1
  <2>4. s \in Seq(Nat) /\ Len(s) = IF c + 1 <= len THEN len - (c + 1) + 1 ELSE 0
    BY <2>1, <2>2, <2>3, <1>a, SMTT(30)
  <2>5. Len(s) = k
    BY <2>4, <1>a, <1>4, SMTT(30)
  <2>6. \A i \in 1 .. k : s[i] = buf[c + i]
    BY <2>1, <2>2, <1>a, <1>4, SMTT(30)
  <2>7. \A i \in 1 .. k : c + i \in c + 1 .. len /\ l + ((c + i) - c) = (0 + l) + i
    BY <1>a, <1>3, <1>4, SMTT(30)
  <2>a. \A i \in c + 1 .. len : buf[i] = l + (i - c)
    BY <1>1, <1>3
  <2>8. \A i \in 1 .. k : s[i] = (0 + l) + i
    BY <2>6, <2>7, <2>a
  <2>9. 0 + l \in Nat
    BY <1>3, SMTT(30)
  <2> QED BY <2>1, <2>4, <2>5, <2>8, <2>9, <1>4, IsRun
<1>8. (IF CanPop(q) THEN SubSeq(buf, 1, Response(q)) ELSE <<>>) = Run(0 + (l + k), r)
  <2>1. CASE CanPop(q)
    <3>1. r = Response(q) /\ \A i \in 1 .. r : buf[i] = l + i
      BY <2>1, <1>1, <1>3, <1>b
    <3>2. PICK s : s = SubSeq(buf, 1, r)
      OBVIOUS
    <3>3. buf \in Seq(Nat) /\ Len(buf) = Page
      BY <1>1, SMTT(30)
    <3>4. s \in Seq(Nat) /\ Len(s) = r /\ \A i \in 1 .. r : s[i] = buf[i]
      BY <3>2, <3>3, <1>2, SMTT(30)
    <3>5. k = 0
      <4>1. DOMAIN q.chains # {}
        BY <2>1, NothingUsed DEF Receiving
      <4>2. c = len
        BY <4>1, Zenon DEF Receiving
      <4> QED BY <4>2, <1>4, <1>a, SMTT(30)
    <3>6. 0 + (l + k) \in Nat /\ \A i \in 1 .. r : l + i = (0 + (l + k)) + i
      BY <3>5, <1>3, <1>5, SMTT(30)
    <3>7. \A i \in 1 .. r : s[i] = (0 + (l + k)) + i
      BY <3>1, <3>4, <3>6
    <3>8. s = Run(0 + (l + k), r)
      BY <3>4, <3>6, <3>7, <1>5, IsRun
    <3> QED BY <2>1, <3>1, <3>2, <3>8
  <2>2. CASE ~CanPop(q)
    <3>1. r = 0
      BY <2>2, <1>b
    <3>2. Run(0 + (l + k), 0) = <<>>
      BY SMTT(30) DEF Run
    <3> QED BY <2>2, <3>1, <3>2
  <2> QED BY <2>1, <2>2
<1>9. typ = Run(0 + ((l + k) + r), m)
  <2>0. l \in Nat /\ k \in Nat /\ m \in Nat
    BY <1>3, <1>4
  <2>1. 0 + ((l + k) + r) \in Nat /\ Input - m = 0 + ((l + k) + r)
    BY <2>0, <1>5, SMTT(30)
  <2>2. \A i \in 1 .. m : typ[i] = (0 + ((l + k) + r)) + i
    BY <2>1, <1>1, <1>3
  <2> QED BY <2>1, <2>2, <1>a, <1>3, IsRun
<1>c. 0 \in Nat /\ l + k \in Nat /\ (l + k) + r \in Nat
  BY <1>5, SMTT(30)
<1>10. Run(0, l) \o Run(0 + l, k) = Run(0, l + k)
  <2>1. Joined(0, l, k)
    BY <1>c, RunConcat
  <2> QED BY <2>1 DEF Joined
<1>11. Run(0, l + k) \o Run(0 + (l + k), r) = Run(0, (l + k) + r)
  <2>1. Joined(0, l + k, r)
    BY <1>c, <1>5, RunConcat
  <2> QED BY <2>1 DEF Joined
<1>12. Run(0, (l + k) + r) \o Run(0 + ((l + k) + r), m) = Run(0, ((l + k) + r) + m)
  <2>1. Joined(0, (l + k) + r, m)
    BY <1>c, RunConcat
  <2> QED BY <2>1 DEF Joined
<1>13. Run(0, Input) = [i \in 1 .. Input |-> i]
  BY SMTT(30) DEF Run
<1>14. ((l + k) + r) + m = Input
  BY <1>5
<1> QED BY <1>6, <1>7, <1>8, <1>9, <1>10, <1>11, <1>12, <1>13, <1>14 DEF InOrder

\* The calls of the owner and the device keep the console receiving.
LEMMA ConsoleInitially ==
    ASSUME ConsoleAssumption, ConsoleInit
    PROVE  ConsoleInd
<1>q. PICK q : q = NewVirtQueue(2, FALSE)
  OBVIOUS
<1>1. Page \in Nat /\ Input \in Nat
  BY SMTT(30) DEF ConsoleAssumption
<1>2. /\ IsQueue(q) /\ q.indirect = FALSE /\ q.free = [i \in 1 .. 2 |-> i - 1]
      /\ q.chains = NoChains /\ q.used = <<>>
  BY <1>q, SMTT(30) DEF NewVirtQueue, IsQueue
<1>3. DOMAIN q.chains = {}
  BY <1>2 DEF NoChains
<1>4. PICK f : f = q.free
  OBVIOUS
<1>5. f \in Seq({0, 1}) /\ DOMAIN f = {1, 2} /\ Len(f) = 2 /\ f[1] = 0 /\ f[2] = 1
  BY <1>2, <1>4, SMTT(30)
<1>6. Distinct(f)
  BY <1>5, SMTT(30) DEF Distinct
<1>7. Range(f) = {0, 1}
  BY <1>5, SMTT(30) DEF Range
<1>8. q.used \in Seq([tok : {0, 1}, resp : 1 .. Page]) /\ Len(q.used) = 0 /\ 1 .. 0 = {}
  BY <1>2, SMTT(30)
<1>9. Ring(q, {0, 1}, 1 .. Page)
  BY <1>2, <1>3, <1>4, <1>5, <1>6, <1>7, <1>8, Zenon DEF Ring
<1>10. ~CanPop(q)
  BY <1>2 DEF CanPop
<1>11. received = <<>> /\ queue_buf_rx = [i \in 1 .. Page |-> 0] /\ typed = [i \in 1 .. Input |-> i]
  BY DEF ConsoleInit
<1>12. /\ received \in Seq(Nat) /\ Len(received) = 0 /\ typed \in Seq(Nat) /\ Len(typed) = Input
       /\ queue_buf_rx \in [1 .. Page -> Nat]
  BY <1>1, <1>11, SMTT(30)
<1>13. \A i \in 1 .. Input : typed[i] = (Input - Input) + i
  BY <1>1, <1>11, SMTT(30)
<1>14. /\ Len(received) + (0 - 0) + 0 + Len(typed) = Input /\ 0 \in Nat /\ 0 <= 0 /\ 0 <= Page
       /\ \A i \in 1 .. Len(received) : received[i] = i
       /\ \A i \in 0 + 1 .. 0 : queue_buf_rx[i] = Len(received) + (i - 0)
  BY <1>1, <1>12, SMTT(30)
<1>15. Receiving(q, NoToken, 0, 0, received, queue_buf_rx, typed)
  BY <1>3, <1>9, <1>10, <1>12, <1>13, <1>14, Zenon DEF Receiving
<1>16. PICK p : p = PollRetrieve(q, NoToken, 0, 0)
  OBVIOUS
<1>17. Receiving(p.q, p.tok, 0, 0, received, queue_buf_rx, typed)
  BY <1>1, <1>15, <1>16, PollKeeps
<1>18. receiveq = p.q /\ receive_token = p.tok /\ cursor = 0 /\ pending_len = 0 /\ reading = 0
  BY <1>q, <1>16 DEF ConsoleInit
<1>19. reading \in 0 .. Page
  BY <1>1, <1>18, SMTT(30)
<1> QED BY <1>17, <1>18, <1>19 DEF ConsoleInd

LEMMA FinishedKeeps ==
    ASSUME ConsoleAssumption, ConsoleInd
    PROVE  LET f == FinishReceive
           IN  Receiving(f.q, f.tok, f.cur, f.len, received, queue_buf_rx, typed)
<1>1. Page \in Nat /\ Input \in Nat
  BY SMTT(30) DEF ConsoleAssumption
<1>2. Receiving(receiveq, receive_token, cursor, pending_len, received, queue_buf_rx, typed)
  BY DEF ConsoleInd
<1>3. CASE receive_token # NoToken /\ Pops(receiveq, receive_token)
  <2>1. PICK p, r : p = PopUsed(receiveq) /\ r = Response(receiveq)
    OBVIOUS
  <2>2. FinishReceive = [q |-> p, tok |-> NoToken, cur |-> 0, len |-> r]
    BY <1>3, <2>1 DEF FinishReceive
  <2>3. PICK f : f = FinishReceive
    OBVIOUS
  <2>4. f.q = p /\ f.tok = NoToken /\ f.cur = 0 /\ f.len = r
    BY <2>2, <2>3, SMTT(30)
  <2>5. Receiving(p, NoToken, 0, r, received, queue_buf_rx, typed)
    BY <1>1, <1>2, <1>3, <2>1, FinishKeeps
  <2> QED BY <2>3, <2>4, <2>5
<1>4. CASE ~(receive_token # NoToken /\ Pops(receiveq, receive_token))
  <2>2. FinishReceive = [q |-> receiveq, tok |-> receive_token, cur |-> cursor, len |-> pending_len]
    BY <1>4, Zenon DEF FinishReceive
  <2>3. PICK f : f = FinishReceive
    OBVIOUS
  <2>4. f.q = receiveq /\ f.tok = receive_token /\ f.cur = cursor /\ f.len = pending_len
    BY <2>2, <2>3, SMTT(30)
  <2> QED BY <2>3, <2>4, <1>2
<1> QED BY <1>3, <1>4

LEMMA ConsoleStep ==
    ASSUME ConsoleAssumption, ConsoleInd, [ConsoleNext]_consoleVars
    PROVE  ConsoleInd'
<1>1. Page \in Nat /\ Input \in Nat
  BY SMTT(30) DEF ConsoleAssumption
<1>2. Receiving(receiveq, receive_token, cursor, pending_len, received, queue_buf_rx, typed)
  BY DEF ConsoleInd
<1>f. PICK f : f = FinishReceive
  OBVIOUS
<1>3. Receiving(f.q, f.tok, f.cur, f.len, received, queue_buf_rx, typed)
  BY <1>f, FinishedKeeps
<1>4. reading \in 0 .. Page
  BY DEF ConsoleInd
<1>5. CASE Recv
  <2>1. /\ IF f.cur = f.len THEN Become(f.q, f.tok, f.cur, f.len) /\ UNCHANGED received
           ELSE LET p == PollRetrieve(f.q, f.tok, f.cur + 1, f.len)
                IN  Become(p.q, p.tok, f.cur + 1, f.len) /\ received' = Append(received, queue_buf_rx[f.cur + 1])
        /\ UNCHANGED <<reading, typed>>
    BY <1>5, <1>f, Zenon DEF Recv
  <2>2. CASE f.cur = f.len
    BY <2>1, <2>2, <1>3, <1>4 DEF Become, ConsoleInd
  <2>3. CASE f.cur # f.len
    <3>1. PICK c, len : c = f.cur /\ len = f.len
      OBVIOUS
    <3>2. PICK x : x = queue_buf_rx[c + 1]
      OBVIOUS
    <3>3. c \in Nat /\ len \in Nat /\ c <= len /\ len <= Page /\ queue_buf_rx \in [1 .. Page -> Nat] /\ received \in Seq(Nat)
      BY <1>3, <3>1 DEF Receiving
    <3>4. 1 \in 1 .. (len - c) /\ c + 1 \in 1 .. Page
      BY <2>3, <3>1, <3>3, <1>1, SMTT(30)
    <3>5. x \in Nat
      BY <3>2, <3>3, <3>4
    <3>6. <<x>> \in Seq(Nat) /\ Len(<<x>>) = 1 /\ \A i \in 1 .. 1 : <<x>>[i] = queue_buf_rx[c + i]
      BY <3>2, <3>5, SMTT(30)
    <3>7. Receiving(f.q, f.tok, c + 1, len, received \o <<x>>, queue_buf_rx, typed)
      BY <1>1, <1>3, <3>1, <3>4, <3>6, TakeKeeps
    <3>8. received \o <<x>> = Append(received, x)
      BY <3>3, <3>5, SMTT(30)
    <3>9. PICK p : p = PollRetrieve(f.q, f.tok, c + 1, len)
      OBVIOUS
    <3>10. Receiving(p.q, p.tok, c + 1, len, received \o <<x>>, queue_buf_rx, typed)
      BY <1>1, <3>7, <3>9, PollKeeps
    <3>11. Become(p.q, p.tok, c + 1, len) /\ received' = Append(received, x) /\ UNCHANGED <<reading, typed>>
      BY <2>1, <2>3, <3>1, <3>2, <3>9
    <3> QED BY <3>8, <3>10, <3>11, <1>4 DEF Become, ConsoleInd
  <2> QED BY <2>2, <2>3
<1>6. CASE ReadReady
  BY <1>6, <1>f, <1>3, <1>4, Zenon DEF ReadReady, Become, ConsoleInd
<1>7. CASE AckInterrupt
  BY <1>7, <1>f, <1>3, <1>4, Zenon DEF AckInterrupt, Become, ConsoleInd
<1>8. CASE Read
  <2>p. PICK p : p = PollRetrieve(receiveq, receive_token, cursor, pending_len)
    OBVIOUS
  <2>1. PICK n \in 1 .. Page : /\ reading' = n /\ Become(p.q, p.tok, cursor, pending_len)
                               /\ UNCHANGED <<typed, received>>
    BY <1>8, <2>p, Zenon DEF Read
  <2>2. Receiving(p.q, p.tok, cursor, pending_len, received, queue_buf_rx, typed)
    BY <1>1, <1>2, <2>p, PollKeeps
  <2>3. n \in 0 .. Page
    BY <1>1, SMTT(30)
  <2> QED BY <2>1, <2>2, <2>3 DEF Become, ConsoleInd
<1>9. CASE WaitForReceive
  BY <1>9, <1>f, <1>3, <1>4, Zenon DEF WaitForReceive, Become, ConsoleInd
<1>10. CASE Consume
  <2>n. PICK n : n = IF reading < pending_len - cursor THEN reading ELSE pending_len - cursor
    OBVIOUS
  <2>1. /\ reading > 0 /\ cursor # pending_len
        /\ received' = received \o SubSeq(queue_buf_rx, cursor + 1, cursor + n)
        /\ cursor' = cursor + n /\ reading' = 0
        /\ UNCHANGED <<receiveq, queue_buf_rx, pending_len, receive_token, typed>>
    BY <1>10, <2>n, Zenon DEF Consume, Empty
  <2>2. /\ cursor \in Nat /\ pending_len \in Nat /\ cursor <= pending_len /\ pending_len <= Page
        /\ queue_buf_rx \in [1 .. Page -> Nat]
    BY <1>2 DEF Receiving
  <2>3. n \in 1 .. (pending_len - cursor)
    BY <2>n, <2>1, <2>2, <1>1, <1>4, SMTT(30)
  <2>4. PICK more : more = SubSeq(queue_buf_rx, cursor + 1, cursor + n)
    OBVIOUS
  <2>5. more \in Seq(Nat) /\ Len(more) = n /\ \A i \in 1 .. n : more[i] = queue_buf_rx[cursor + i]
    <3>1. queue_buf_rx \in Seq(Nat) /\ Len(queue_buf_rx) = Page
      BY <2>2, <1>1, SMTT(30)
    <3>2. \A i \in cursor + 1 .. cursor + n : i \in 1 .. Page
      BY <2>2, <2>3, <1>1, SMTT(30)
    <3>3. n \in Nat /\ 1 <= n /\ cursor + n <= Page /\ cursor \in Nat
      BY <2>2, <2>3, <1>1, SMTT(30)
    <3>4. \A i \in cursor + 1 .. cursor + n : queue_buf_rx[i] \in Nat
      BY <3>2, <2>2
    <3>5. more \in Seq(Nat) /\ Len(more) = IF cursor + 1 <= cursor + n THEN (cursor + n) - (cursor + 1) + 1 ELSE 0
      BY <2>4, <3>1, <3>3, <3>4, <1>1, SMTT(30)
    <3>6. Len(more) = n
      BY <3>3, <3>5, SMTT(30)
    <3>7. \A i \in 1 .. n : more[i] = queue_buf_rx[cursor + i]
      BY <2>4, <3>1, <3>3, <1>1, SMTT(30)
    <3> QED BY <3>5, <3>6, <3>7
  <2>6. Receiving(receiveq, receive_token, cursor + n, pending_len, received \o more, queue_buf_rx, typed)
    BY <1>1, <1>2, <2>3, <2>5, TakeKeeps
  <2>7. 0 \in 0 .. Page
    BY <1>1, SMTT(30)
  <2> QED BY <2>1, <2>4, <2>6, <2>7 DEF ConsoleInd
<1>11. CASE SendBytes
  BY <1>11, <1>2, <1>4 DEF SendBytes, ConsoleInd, drv
<1>12. CASE DeviceReceives
  <2>1. PICK t \in Held(receiveq), n \in 1 .. Page :
          /\ n <= Len(typed)
          /\ queue_buf_rx' = [i \in 1 .. Page |-> IF i <= n THEN typed[i] ELSE queue_buf_rx[i]]
          /\ typed' = SubSeq(typed, n + 1, Len(typed))
          /\ receiveq' = Use(receiveq, t, n)
          /\ UNCHANGED <<cursor, pending_len, receive_token, reading, received>>
    BY <1>12 DEF DeviceReceives
  <2>2. Receiving(Use(receiveq, t, n), receive_token, cursor, pending_len, received,
                  [i \in 1 .. Page |-> IF i <= n THEN typed[i] ELSE queue_buf_rx[i]],
                  SubSeq(typed, n + 1, Len(typed)))
    BY <1>1, <1>2, <2>1, FillKeeps
  <2> QED BY <2>1, <2>2, <1>4 DEF ConsoleInd
<1>13. CASE UNCHANGED consoleVars
  BY <1>13, <1>2, <1>4 DEF consoleVars, drv, ConsoleInd
<1> QED BY <1>5, <1>6, <1>7, <1>8, <1>9, <1>10, <1>11, <1>12, <1>13 DEF ConsoleNext

\* However recv, read, read_ready and interrupts alternate, what the owner has read, what
\* is in the buffer and what has not been received yet is what was typed, in order
\* (VirtIOConsole::recv, finish_receive, poll_retrieve, and Read of embedded-io).
THEOREM CharactersKept ==
    ASSUME ConsoleAssumption
    PROVE  ConsoleSpec => []CharactersInOrder
<1>1. ConsoleInit => ConsoleInd
  BY ConsoleInitially
<1>2. ConsoleInd /\ [ConsoleNext]_consoleVars => ConsoleInd'
  BY ConsoleStep
<1>3. ConsoleInd => CharactersInOrder
  <2>1. Page \in Nat /\ Input \in Nat
    BY SMTT(30) DEF ConsoleAssumption
  <2> SUFFICES ASSUME ConsoleInd PROVE CharactersInOrder
    OBVIOUS
  <2>3. Receiving(receiveq, receive_token, cursor, pending_len, received, queue_buf_rx, typed)
    BY DEF ConsoleInd
  <2>4. InOrder(receiveq, cursor, pending_len, received, queue_buf_rx, typed)
    BY <2>1, <2>3, ReceivingInOrder
  <2> QED BY <2>4 DEF InOrder, CharactersInOrder
<1> QED BY <1>1, <1>2, <1>3, PTL DEF ConsoleSpec

-----------------------------------------------------------------------------
(******************************** counting *********************************)

\* What these proofs use of cardinalities.  It follows from the library's theorems
\* (CountingHolds, below), which are brought in only when the last lemmas are proved.
Counting ==
    /\ \A G, t : IsFiniteSet(G) /\ t \notin G =>
         /\ IsFiniteSet(G \cup {t}) /\ Cardinality(G) \in Nat
         /\ Cardinality(G \cup {t}) = Cardinality(G) + 1
    /\ \A G : \A t \in G : IsFiniteSet(G) =>
         /\ IsFiniteSet(G \ {t}) /\ Cardinality(G) \in Nat
         /\ Cardinality(G \ {t}) = Cardinality(G) - 1
    /\ \A S : \A T \in SUBSET S : IsFiniteSet(S) =>
         IsFiniteSet(T) /\ Cardinality(T) \in Nat /\ Cardinality(T) <= Cardinality(S)
    /\ \A n \in Nat : IsFiniteSet(0 .. n - 1) /\ Cardinality(0 .. n - 1) = n /\ IsFiniteSet(1 .. n)
    /\ Cardinality({}) = 0

\* One element more, and one less.
LEMMA OneMore ==
    ASSUME Counting, NEW G, IsFiniteSet(G), NEW t, t \notin G
    PROVE  /\ IsFiniteSet(G \cup {t}) /\ Cardinality(G) \in Nat
           /\ Cardinality(G \cup {t}) = Cardinality(G) + 1
  BY Zenon DEF Counting

LEMMA OneLess ==
    ASSUME Counting, NEW G, IsFiniteSet(G), NEW t \in G
    PROVE  /\ IsFiniteSet(G \ {t}) /\ Cardinality(G) \in Nat
           /\ Cardinality(G \ {t}) = Cardinality(G) - 1
  BY Zenon DEF Counting

LEMMA FiniteSub ==
    ASSUME Counting, NEW S, IsFiniteSet(S), NEW T \in SUBSET S
    PROVE  IsFiniteSet(T) /\ Cardinality(T) \in Nat /\ Cardinality(T) <= Cardinality(S)
  BY Zenon DEF Counting

\* The numbers below n, and those up to n.
LEMMA FiniteTo ==
    ASSUME Counting, NEW n \in Nat
    PROVE  IsFiniteSet(0 .. n - 1) /\ Cardinality(0 .. n - 1) = n /\ IsFiniteSet(1 .. n)
  BY Zenon DEF Counting

LEMMA NoneThere ==
    ASSUME Counting
    PROVE  Cardinality({}) = 0
  BY Zenon DEF Counting

\* The chains of a ring with finitely many tokens can be counted.
LEMMA GoodFinite ==
    ASSUME Counting, NEW S, IsFiniteSet(S), NEW R, NEW B, NEW q, Ring(q, S, R)
    PROVE  /\ IsFiniteSet(Good(q, B)) /\ Cardinality(Good(q, B)) \in Nat
           /\ IsFiniteSet(DOMAIN q.chains) /\ Cardinality(DOMAIN q.chains) \in Nat
           /\ Cardinality(Good(q, B)) <= Cardinality(DOMAIN q.chains)
<1>1. PICK D : D = DOMAIN q.chains
  OBVIOUS
<1>2. D \in SUBSET S
  BY <1>1, Zenon DEF Ring
<1>3. IsFiniteSet(D) /\ Cardinality(D) \in Nat
  BY <1>2, FiniteSub
<1>4. PICK G : G = Good(q, B)
  OBVIOUS
<1>5. G \in SUBSET D
  BY <1>1, <1>4 DEF Good
<1>6. IsFiniteSet(G) /\ Cardinality(G) \in Nat /\ Cardinality(G) <= Cardinality(D)
  BY <1>3, <1>5, FiniteSub
<1> QED BY <1>1, <1>3, <1>4, <1>6

\* The token of the next chain is not that of a chain.
LEMMA TokenFree ==
    ASSUME NEW S, NEW R, NEW q, Ring(q, S, R), q.free # <<>>
    PROVE  Token(q) \in S /\ Token(q) \notin DOMAIN q.chains
  BY RingAdd DEF Added

-----------------------------------------------------------------------------
(******************************** Events ***********************************)

EventType == [n : Nat, code : Codes \cup {0}]
Results == {Result(e) : e \in EventType}
Overlong == {"overlong"}

\* Events that were handed out, or are about to be.
Handed == Len(got) + (IF pc = 2 THEN 1 ELSE 0)

\* The filled buffers in a used ring are those of the events after the h-th, in order.
Reported(us, bufs, fil, h) ==
    /\ \A i \in 1 .. Len(us) : us[i].resp = "ok" =>
         bufs[us[i].tok].n \in h + 1 .. Len(fil) /\ bufs[us[i].tok] = fil[bufs[us[i].tok].n]
    /\ \A i, j \in 1 .. Len(us) :
         i < j /\ us[i].resp = "ok" /\ us[j].resp = "ok" => bufs[us[i].tok].n < bufs[us[j].tok].n
    /\ \A k \in h + 1 .. Len(fil) :
         \E i \in 1 .. Len(us) : us[i].resp = "ok" /\ bufs[us[i].tok].n = k

\* The buffers: a taken one is the next to be posted, and those that were not lost are
\* with the device, but for the one that is taken.
BuffersRound ==
    /\ Ring(queue, Tokens, {"ok", "overlong"})
    /\ \A t \in DOMAIN queue.chains : queue.chains[t].about = t
    /\ failed = FALSE
    /\ pc # 1 => queue.free # <<>> /\ Token(queue) = taken
    /\ Cardinality(Good(queue, Overlong)) + (IF pc = 1 THEN 0 ELSE 1) = EventSize - overlong

EventsRound ==
    /\ ~owning => \A i \in 1 .. Len(queue.used) : queue.used[i].resp = "ok"
    /\ buffers \in [Tokens -> EventType] /\ filled \in Seq(EventType) /\ got \in Seq(Results)
    /\ Handed <= Len(filled)
    /\ \A i \in 1 .. Len(got) : got[i] = Result(filled[i])
    /\ pc = 2 => buffers[taken] = filled[Handed]
    /\ Reported(queue.used, buffers, filled, Handed)

EventsInd == pc \in 1 .. 3 /\ overlong \in Nat /\ BuffersRound /\ EventsRound /\ AnswerWhole

\* The first filled buffer in the used ring is that of the next event.
LEMMA ReportedPop ==
    ASSUME NEW us, NEW vs, NEW bufs, NEW fil, NEW h \in Nat, Len(fil) \in Nat, h <= Len(fil),
           Len(us) \in Nat \ {0}, Len(vs) = Len(us) - 1, \A i \in 1 .. Len(vs) : vs[i] = us[i + 1],
           Reported(us, bufs, fil, h)
    PROVE  /\ us[1].resp # "ok" => Reported(vs, bufs, fil, h)
           /\ us[1].resp = "ok" => /\ h + 1 <= Len(fil) /\ bufs[us[1].tok] = fil[h + 1]
                                   /\ Reported(vs, bufs, fil, h + 1)
<1>a. PICK N \in Nat : N = Len(fil)
  OBVIOUS
<1>x. \A i \in 1 .. Len(us) : us[i].resp = "ok" =>
        bufs[us[i].tok].n \in h + 1 .. N /\ bufs[us[i].tok] = fil[bufs[us[i].tok].n]
  BY <1>a, Zenon DEF Reported
<1>y. \A i, j \in 1 .. Len(us) :
        i < j /\ us[i].resp = "ok" /\ us[j].resp = "ok" => bufs[us[i].tok].n < bufs[us[j].tok].n
  BY Zenon DEF Reported
<1>z. \A k \in h + 1 .. N : \E i \in 1 .. Len(us) : us[i].resp = "ok" /\ bufs[us[i].tok].n = k
  BY <1>a, Zenon DEF Reported
<1>2. /\ 1 \in 1 .. Len(us)
      /\ \A i \in 1 .. Len(vs) : i \in Nat /\ i + 1 \in 1 .. Len(us) /\ 1 < i + 1 /\ vs[i] = us[i + 1]
      /\ \A i \in 1 .. Len(us) : i = 1 \/ (1 < i /\ i - 1 \in 1 .. Len(vs) /\ vs[i - 1] = us[i])
  BY SMTT(30)
<1>3. \A i, j \in 1 .. Len(vs) : i < j => i + 1 < j + 1
  BY SMTT(30)
<1>4. \A i, j \in 1 .. Len(vs) :
        i < j /\ vs[i].resp = "ok" /\ vs[j].resp = "ok" => bufs[vs[i].tok].n < bufs[vs[j].tok].n
  <2> TAKE i, j \in 1 .. Len(vs)
  <2> HAVE i < j /\ vs[i].resp = "ok" /\ vs[j].resp = "ok"
  <2>1. /\ i + 1 \in 1 .. Len(us) /\ j + 1 \in 1 .. Len(us) /\ i + 1 < j + 1
        /\ vs[i] = us[i + 1] /\ vs[j] = us[j + 1]
    BY <1>2, <1>3
  <2>2. PICK a, b : a = i + 1 /\ b = j + 1
    OBVIOUS
  <2>3. /\ a \in 1 .. Len(us) /\ b \in 1 .. Len(us) /\ a < b /\ vs[i] = us[a] /\ vs[j] = us[b]
        /\ us[a].resp = "ok" /\ us[b].resp = "ok"
    BY <2>1, <2>2
  <2> QED BY <1>y, <2>3
<1>5. ASSUME us[1].resp # "ok" PROVE Reported(vs, bufs, fil, h)
  <2>1. ASSUME NEW i \in 1 .. Len(vs), vs[i].resp = "ok"
        PROVE  bufs[vs[i].tok].n \in h + 1 .. N /\ bufs[vs[i].tok] = fil[bufs[vs[i].tok].n]
    <3>1. PICK a \in 1 .. Len(us) : vs[i] = us[a]
      BY <1>2
    <3> QED BY <2>1, <3>1, <1>x
  <2>2. \A k \in h + 1 .. N : \E i \in 1 .. Len(vs) : vs[i].resp = "ok" /\ bufs[vs[i].tok].n = k
    <3> TAKE k \in h + 1 .. N
    <3>1. PICK i \in 1 .. Len(us) : us[i].resp = "ok" /\ bufs[us[i].tok].n = k
      BY <1>z
    <3>2. i - 1 \in 1 .. Len(vs) /\ vs[i - 1] = us[i]
      BY <1>2, <1>5, <3>1
    <3> QED BY <3>1, <3>2
  <2> QED BY <2>1, <2>2, <1>4, <1>a DEF Reported
<1>6. ASSUME us[1].resp = "ok"
      PROVE  /\ h + 1 <= Len(fil) /\ bufs[us[1].tok] = fil[h + 1]
             /\ Reported(vs, bufs, fil, h + 1)
  <2>1. PICK m : m = bufs[us[1].tok].n
    OBVIOUS
  <2>2. m \in h + 1 .. N /\ bufs[us[1].tok] = fil[m]
    BY <1>x, <1>2, <1>6, <2>1
  <2>3. h + 1 \in h + 1 .. N
    BY <2>2, SMTT(30)
  <2>4. PICK i \in 1 .. Len(us) : us[i].resp = "ok" /\ bufs[us[i].tok].n = h + 1
    BY <1>z, <2>3
  <2>5. m = h + 1
    <3>1. CASE i = 1
      BY <3>1, <2>1, <2>4
    <3>2. CASE 1 < i
      <4>1. m < h + 1
        <5>1. 1 \in 1 .. Len(us)
          BY <1>2
        <5> QED BY <3>2, <5>1, <1>y, <1>6, <2>1, <2>4
      <4> QED BY <4>1, <2>2, SMTT(30)
    <3> QED BY <3>1, <3>2, <1>2
  <2>6. ASSUME NEW j \in 1 .. Len(vs), vs[j].resp = "ok"
        PROVE  bufs[vs[j].tok].n \in (h + 1) + 1 .. N /\ bufs[vs[j].tok] = fil[bufs[vs[j].tok].n]
    <3>1. PICK w : w = bufs[vs[j].tok].n
      OBVIOUS
    <3>2. m < w /\ w \in h + 1 .. N /\ bufs[vs[j].tok] = fil[w]
      <4>1. j + 1 \in 1 .. Len(us) /\ 1 < j + 1 /\ vs[j] = us[j + 1] /\ us[j + 1].resp = "ok"
        BY <2>6, <1>2
      <4>2. PICK a : a = j + 1
        OBVIOUS
      <4>3. a \in 1 .. Len(us) /\ 1 < a /\ us[a].resp = "ok" /\ w = bufs[us[a].tok].n /\ bufs[vs[j].tok] = bufs[us[a].tok]
        BY <4>1, <4>2, <3>1
      <4>4. 1 \in 1 .. Len(us)
        BY <1>2
      <4>5. m < w
        BY <4>3, <4>4, <1>y, <1>6, <2>1
      <4> QED BY <4>3, <4>5, <1>x
    <3>3. w \in (h + 1) + 1 .. N
      BY <3>2, <2>5, SMTT(30)
    <3> QED BY <3>1, <3>2, <3>3
  <2>7. \A k \in (h + 1) + 1 .. N : \E j \in 1 .. Len(vs) : vs[j].resp = "ok" /\ bufs[vs[j].tok].n = k
    <3> TAKE k \in (h + 1) + 1 .. N
    <3>1. k \in h + 1 .. N /\ k # h + 1
      BY SMTT(30)
    <3>2. PICK j \in 1 .. Len(us) : us[j].resp = "ok" /\ bufs[us[j].tok].n = k
      BY <1>z, <3>1
    <3>3. j # 1
      BY <3>1, <3>2, <2>1, <2>5
    <3>4. j - 1 \in 1 .. Len(vs) /\ vs[j - 1] = us[j]
      BY <1>2, <3>3
    <3> QED BY <3>2, <3>4
  <2>8. Reported(vs, bufs, fil, h + 1)
    BY <2>6, <2>7, <1>4, <1>a DEF Reported
  <2>9. h + 1 <= N
    BY <2>3, SMTT(30)
  <2> QED BY <2>2, <2>5, <2>8, <2>9, <1>a
<1> QED BY <1>5, <1>6

\* A sequence with one more element at its end.
Longer(new, old) ==
    Len(old) \in Nat /\ Len(new) = Len(old) + 1 /\ \A i \in 1 .. Len(old) : new[i] = old[i]

\* A chain used without an event leaves the events in the ring as they are.
LEMMA ReportedNot ==
    ASSUME NEW us, NEW vs, NEW bufs, NEW fil, NEW h \in Nat,
           Longer(vs, us), vs[Len(us) + 1].resp # "ok", Reported(us, bufs, fil, h)
    PROVE  Reported(vs, bufs, fil, h)
<1>a. Len(us) \in Nat /\ Len(vs) = Len(us) + 1 /\ \A i \in 1 .. Len(us) : vs[i] = us[i]
  BY DEF Longer
<1>1. /\ \A i \in 1 .. Len(vs) : i \in 1 .. Len(us) \/ i = Len(us) + 1
      /\ \A i \in 1 .. Len(us) : i \in 1 .. Len(vs)
  BY <1>a, SMTT(30)
<1>2. \A i \in 1 .. Len(vs) : vs[i].resp = "ok" => i \in 1 .. Len(us) /\ vs[i] = us[i]
  BY <1>a, <1>1
<1>3. \A i \in 1 .. Len(vs) : vs[i].resp = "ok" =>
        bufs[vs[i].tok].n \in h + 1 .. Len(fil) /\ bufs[vs[i].tok] = fil[bufs[vs[i].tok].n]
  BY <1>2, Zenon DEF Reported
<1>4. \A i, j \in 1 .. Len(vs) :
        i < j /\ vs[i].resp = "ok" /\ vs[j].resp = "ok" => bufs[vs[i].tok].n < bufs[vs[j].tok].n
  BY <1>2, Zenon DEF Reported
<1>5. \A k \in h + 1 .. Len(fil) : \E i \in 1 .. Len(vs) : vs[i].resp = "ok" /\ bufs[vs[i].tok].n = k
  <2> TAKE k \in h + 1 .. Len(fil)
  <2>1. PICK i \in 1 .. Len(us) : us[i].resp = "ok" /\ bufs[us[i].tok].n = k
    BY Zenon DEF Reported
  <2> QED BY <2>1, <1>a, <1>1
<1> QED BY <1>3, <1>4, <1>5 DEF Reported

\* A buffer that is filled is the last one in the used ring, with the last event in it.
LEMMA ReportedOne ==
    ASSUME NEW us, NEW vs, NEW bufs, NEW fil, NEW h \in Nat, NEW t, NEW nbufs, NEW nfil,
           Longer(vs, us), vs[Len(us) + 1].tok = t, vs[Len(us) + 1].resp = "ok",
           Longer(nfil, fil), nbufs[t] = nfil[Len(fil) + 1], nbufs[t].n = Len(fil) + 1,
           h <= Len(fil), \A i \in 1 .. Len(us) : nbufs[us[i].tok] = bufs[us[i].tok],
           Reported(us, bufs, fil, h)
    PROVE  Reported(vs, nbufs, nfil, h)
<1>a. PICK N \in Nat : N = Len(fil) /\ Len(nfil) = N + 1 /\ \A k \in 1 .. N : nfil[k] = fil[k]
  BY DEF Longer
<1>b. PICK L \in Nat : L = Len(us) /\ Len(vs) = L + 1 /\ \A i \in 1 .. L : vs[i] = us[i]
  BY DEF Longer
<1>1. /\ \A i \in 1 .. L : us[i].resp = "ok" =>
           bufs[us[i].tok].n \in h + 1 .. N /\ bufs[us[i].tok] = fil[bufs[us[i].tok].n]
      /\ \A i, j \in 1 .. L :
           i < j /\ us[i].resp = "ok" /\ us[j].resp = "ok" => bufs[us[i].tok].n < bufs[us[j].tok].n
      /\ \A k \in h + 1 .. N :
           \E i \in 1 .. L : us[i].resp = "ok" /\ bufs[us[i].tok].n = k
  BY <1>a, <1>b, Zenon DEF Reported
<1>2. /\ \A i \in 1 .. L + 1 : i \in 1 .. L \/ i = L + 1
      /\ \A i \in 1 .. L : i \in 1 .. L + 1
      /\ L + 1 \in 1 .. L + 1 /\ \A i \in 1 .. L + 1 : ~(L + 1 < i)
  BY SMTT(30)
<1>3. \A i \in 1 .. L : vs[i].tok = us[i].tok /\ vs[i].resp = us[i].resp /\ nbufs[vs[i].tok] = bufs[us[i].tok]
  BY <1>b
<1>4. vs[L + 1].tok = t /\ vs[L + 1].resp = "ok" /\ nbufs[t].n = N + 1 /\ nbufs[t] = nfil[N + 1]
  BY <1>a, <1>b
<1>5. /\ \A k \in h + 1 .. N : k \in h + 1 .. N + 1 /\ k \in 1 .. N /\ k < N + 1
      /\ N + 1 \in h + 1 .. N + 1
      /\ \A k \in h + 1 .. N + 1 : k \in h + 1 .. N \/ k = N + 1
  BY <1>a, SMTT(30)
<1>6. ASSUME NEW i \in 1 .. L + 1, vs[i].resp = "ok"
      PROVE  nbufs[vs[i].tok].n \in h + 1 .. N + 1 /\ nbufs[vs[i].tok] = nfil[nbufs[vs[i].tok].n]
  <2>1. CASE i \in 1 .. L
    <3>1. PICK k : k = bufs[us[i].tok].n
      OBVIOUS
    <3>2. k \in h + 1 .. N /\ bufs[us[i].tok] = fil[k]
      BY <2>1, <3>1, <1>1, <1>3, <1>6
    <3>3. k \in h + 1 .. N + 1 /\ nfil[k] = fil[k]
      BY <3>2, <1>5, <1>a
    <3> QED BY <3>1, <3>2, <3>3, <2>1, <1>3
  <2>2. CASE i = L + 1
    BY <2>2, <1>4, <1>5
  <2> QED BY <2>1, <2>2, <1>2
<1>7. ASSUME NEW i \in 1 .. L + 1, NEW j \in 1 .. L + 1, i < j, vs[i].resp = "ok", vs[j].resp = "ok"
      PROVE  nbufs[vs[i].tok].n < nbufs[vs[j].tok].n
  <2>1. i \in 1 .. L
    BY <1>2, <1>7
  <2>2. CASE j \in 1 .. L
    BY <2>1, <2>2, <1>1, <1>3, <1>7
  <2>3. CASE j = L + 1
    <3>1. PICK k : k = bufs[us[i].tok].n
      OBVIOUS
    <3>2. us[i].resp = "ok" /\ nbufs[vs[i].tok].n = k
      BY <2>1, <3>1, <1>3, <1>7
    <3>3. k \in h + 1 .. N
      BY <2>1, <3>1, <3>2, <1>1
    <3>4. k < N + 1
      BY <3>3, <1>5
    <3> QED BY <2>3, <3>2, <3>4, <1>4
  <2> QED BY <2>2, <2>3, <1>2
<1>8. ASSUME NEW k \in h + 1 .. N + 1
      PROVE  \E i \in 1 .. L + 1 : vs[i].resp = "ok" /\ nbufs[vs[i].tok].n = k
  <2>1. CASE k = N + 1
    BY <2>1, <1>2, <1>4
  <2>2. CASE k \in h + 1 .. N
    <3>1. PICK i \in 1 .. L : us[i].resp = "ok" /\ bufs[us[i].tok].n = k
      BY <2>2, <1>1
    <3> QED BY <3>1, <1>2, <1>3
  <2> QED BY <2>1, <2>2, <1>5
<1>9. Len(vs) = L + 1 /\ Len(nfil) = N + 1
  BY <1>a, <1>b
<1> QED BY <1>6, <1>7, <1>8, <1>9 DEF Reported

PostedQueue(n, f) ==
    [NewVirtQueue(n, FALSE) EXCEPT
        !.free = <<>>, !.chains = [t \in 0 .. n - 1 |-> [descs |-> <<t>>, about |-> f[t]]]]

AllPosted(q, n, f) ==
    /\ IsQueue(q) /\ q.indirect = FALSE /\ q.free = <<>> /\ q.used = <<>>
    /\ DOMAIN q.chains = 0 .. n - 1
    /\ \A t \in 0 .. n - 1 : q.chains[t].descs = <<t>> /\ q.chains[t].about = f[t]

\* The device has at first every buffer.
LEMMA PostedFields ==
    ASSUME NEW n, NEW f
    PROVE  AllPosted(PostedQueue(n, f), n, f)
<1>q. PICK q : q = PostedQueue(n, f)
  OBVIOUS
<1>1. PICK new : new = NewVirtQueue(n, FALSE)
  OBVIOUS
<1>2. IsQueue(new) /\ new.indirect = FALSE /\ new.used = <<>>
  BY <1>1, SMTT(30) DEF NewVirtQueue, IsQueue
<1>3. PICK ch : ch = [t \in 0 .. n - 1 |-> [descs |-> <<t>>, about |-> f[t]]]
  OBVIOUS
<1>4. q = [size |-> new.size, indirect |-> new.indirect, free |-> <<>>, chains |-> ch, used |-> new.used]
  <2>1. q = [new EXCEPT !.free = <<>>, !.chains = ch]
    BY <1>q, <1>1, <1>3 DEF PostedQueue
  <2> QED BY <2>1, <1>2, QueueExcept
<1>5. IsQueue(q) /\ q.indirect = FALSE /\ q.free = <<>> /\ q.chains = ch /\ q.used = <<>>
  BY <1>2, <1>4, SMTT(30) DEF IsQueue
<1>6. DOMAIN ch = 0 .. n - 1 /\ \A t \in 0 .. n - 1 : ch[t].descs = <<t>> /\ ch[t].about = f[t]
  BY <1>3, SMTT(30)
<1> QED BY <1>q, <1>5, <1>6 DEF AllPosted

LEMMA PostedRing ==
    ASSUME NEW n, NEW f, NEW R, NEW q, AllPosted(q, n, f)
    PROVE  Ring(q, 0 .. n - 1, R) /\ Len(q.used) = 0
<1>s. PICK S : S = 0 .. n - 1
  OBVIOUS
<1>1. /\ <<>> \in Seq(S) /\ <<>> \in Seq([tok : S, resp : R])
      /\ Len(<<>>) = 0 /\ 1 .. 0 = {} /\ DOMAIN <<>> = {}
  BY SMTT(30)
<1>2. Distinct(<<>>) /\ Range(<<>>) = {}
  BY <1>1 DEF Distinct, Range
<1> QED BY <1>s, <1>1, <1>2, Zenon DEF Ring, AllPosted

LEMMA PostedGood ==
    ASSUME Counting, NEW n \in Nat \ {0}, NEW B, NEW q, DOMAIN q.chains = 0 .. n - 1, Len(q.used) = 0
    PROVE  Cardinality(Good(q, B)) = n
<1>1. Good(q, B) = 0 .. n - 1
  <2>1. 1 .. 0 = {}
    BY SMTT(30)
  <2> QED BY <2>1 DEF Good
<1>2. Cardinality(0 .. n - 1) = n
  BY FiniteTo
<1> QED BY <1>1, <1>2

LEMMA EventsInitially ==
    ASSUME Counting, EventsAssumption, EventsInit
    PROVE  EventsInd
<1>1. EventSize \in Nat \ {0}
  BY DEF EventsAssumption
<1>2. /\ queue = PostedAll /\ buffers = [t \in Tokens |-> [n |-> 0, code |-> 0]]
      /\ pc = 1 /\ got = <<>> /\ failed = FALSE /\ filled = <<>> /\ overlong = 0 /\ answer = IoError
  BY DEF EventsInit
<1>3. PICK f : f = [t \in Tokens |-> t]
  OBVIOUS
<1>4. queue = PostedQueue(EventSize, f)
  <2>1. [t \in 0 .. EventSize - 1 |-> [descs |-> <<t>>, about |-> f[t]]]
          = [t \in 0 .. EventSize - 1 |-> [descs |-> <<t>>, about |-> t]]
    BY <1>3, Zenon DEF Tokens
  <2> QED BY <2>1, <1>2 DEF PostedAll, PostedQueue, Tokens
<1>5. PICK R : R = {"ok", "overlong"}
  OBVIOUS
<1>6. /\ Ring(queue, 0 .. EventSize - 1, R) /\ DOMAIN queue.chains = 0 .. EventSize - 1
      /\ queue.used = <<>> /\ Len(queue.used) = 0
      /\ \A t \in 0 .. EventSize - 1 : queue.chains[t].about = f[t]
      /\ Cardinality(Good(queue, Overlong)) = EventSize
  <2>1. AllPosted(queue, EventSize, f)
    BY <1>4, PostedFields
  <2>2. Ring(queue, 0 .. EventSize - 1, R) /\ Len(queue.used) = 0
    BY <2>1, PostedRing
  <2> QED BY <1>1, <2>1, <2>2, PostedGood DEF AllPosted
<1>7. BuffersRound
  <2>1. \A t \in DOMAIN queue.chains : queue.chains[t].about = t
    BY <1>3, <1>6 DEF Tokens
  <2>2. EventSize + 0 = EventSize - overlong
    BY <1>1, <1>2, SMTT(30)
  <2> QED BY <2>1, <2>2, <1>2, <1>5, <1>6, Zenon DEF BuffersRound, Tokens
<1>8. Handed = 0 /\ Len(filled) = 0 /\ Len(got) = 0 /\ 1 .. 0 = {} /\ 0 + 1 .. 0 = {} /\ 0 <= 0
  BY <1>2, SMTT(30) DEF Handed
<1>9. filled \in Seq(EventType) /\ got \in Seq(Results)
  BY <1>2, SMTT(30)
<1>10. buffers \in [Tokens -> EventType]
  BY <1>2, SMTT(30) DEF EventType
<1>11. Reported(queue.used, buffers, filled, Handed)
  BY <1>6, <1>8, Zenon DEF Reported
<1>12. EventsRound
  BY <1>2, <1>6, <1>8, <1>9, <1>10, <1>11, SMTT(30) DEF EventsRound
<1>13. pc \in 1 .. 3 /\ overlong \in Nat
  BY <1>2, SMTT(30)
<1> QED BY <1>2, <1>7, <1>12, <1>13 DEF EventsInd, AnswerWhole

\* Steps that leave the queue alone: the handler, and the queries.
LEMMA HandleKeeps ==
    ASSUME EventsInd, Handle
    PROVE  EventsInd'
<1>1. /\ pc = 2 /\ pc' = 3 /\ got' = Append(got, Result(buffers[taken]))
      /\ UNCHANGED <<owning, queue, buffers, taken, failed, filled, overlong, config, answer>>
  <2>1. pc \in 1 .. 3 /\ Order[pc] = "handle"
    BY DEF EventsInd, Handle, At
  <2>2. pc = 2
    BY <2>1, SMTT(30) DEF Order
  <2>3. pc' = pc + 1
    BY <2>2, SMTT(30) DEF Handle, Advance
  <2>4. pc' = 3
    BY <2>2, <2>3, SMTT(30)
  <2> QED BY <2>2, <2>4 DEF Handle, device, conf
<1>2. BuffersRound /\ EventsRound /\ AnswerWhole /\ overlong \in Nat
  BY DEF EventsInd
<1>3. BuffersRound'
  <2>1. pc # 1 /\ pc' # 1
    BY <1>1, SMTT(30)
  <2> QED BY <2>1, <1>1, <1>2 DEF BuffersRound
<1>4. /\ filled \in Seq(EventType) /\ got \in Seq(Results) /\ Handed <= Len(filled)
      /\ \A i \in 1 .. Len(got) : got[i] = Result(filled[i])
      /\ buffers[taken] = filled[Handed] /\ Reported(queue.used, buffers, filled, Handed)
  BY <1>1, <1>2 DEF EventsRound
<1>5. PICK l, n \in Nat : l = Len(got) /\ n = Len(filled)
  BY <1>4, LenNat
<1>6. Handed = l + 1 /\ l + 1 \in 1 .. n
  BY <1>1, <1>4, <1>5, SMTT(30) DEF Handed
<1>7. PICK x : x = Result(filled[l + 1])
  OBVIOUS
<1>8. filled[l + 1] \in EventType
  BY <1>4, <1>5, <1>6, SMTT(30)
<1>9. x \in Results /\ got' = Append(got, x)
  BY <1>1, <1>4, <1>6, <1>7, <1>8 DEF Results
<1>10. /\ Append(got, x) \in Seq(Results) /\ Len(Append(got, x)) = l + 1
       /\ \A i \in 1 .. l : Append(got, x)[i] = got[i]
       /\ Append(got, x)[l + 1] = x
  <2>1. PICK g, S : g = got /\ S = Results
    OBVIOUS
  <2>2. g \in Seq(S) /\ x \in S /\ l = Len(g)
    BY <2>1, <1>4, <1>5, <1>9
  <2>3. /\ Append(g, x) \in Seq(S) /\ Len(Append(g, x)) = l + 1
        /\ \A i \in 1 .. l : Append(g, x)[i] = g[i]
        /\ Append(g, x)[l + 1] = x
    BY <2>2, SMTT(30)
  <2> QED BY <2>1, <2>3
<1>11. \A e : Result(e)' = Result(e)
  BY <1>1 DEF Result
<1>12. Results' = Results
  BY <1>11 DEF Results, EventType
<1>13. Handed' = l + 1
  BY <1>1, <1>9, <1>10, SMTT(30) DEF Handed
<1>14. \A i \in 1 .. l + 1 : got'[i] = Result(filled[i])
  <2>1. \A i \in 1 .. l + 1 : i \in 1 .. l \/ i = l + 1
    BY SMTT(30)
  <2> QED BY <2>1, <1>4, <1>5, <1>7, <1>9, <1>10
<1>15. (\A i \in 1 .. Len(got) : got[i] = Result(filled[i]))'
  BY <1>14, <1>9, <1>10, <1>1 DEF Result
<1>16. pc' # 2
  BY <1>1, SMTT(30)
<1>17. EventsRound'
  BY <1>1, <1>2, <1>4, <1>5, <1>6, <1>9, <1>10, <1>12, <1>13, <1>15, <1>16, Zenon DEF EventsRound, EventType
<1>18. pc' \in 1 .. 3
  BY <1>1, SMTT(30)
<1> QED BY <1>1, <1>2, <1>3, <1>17, <1>18 DEF EventsInd, AnswerWhole

LEMMA QueryKeeps ==
    ASSUME EventsInd, EventsAssumption, Name \/ Bits \/ Ids \/ AbsInfo
    PROVE  EventsInd'
<1>1. config' \in Nat
  BY DEF Name, Bits, Ids, AbsInfo, Query, EventsAssumption
<1>2. AnswerWhole'
  <2>1. ASSUME NEW wanted \in Nat PROVE Exactly(wanted) # IoError => Exactly(wanted) = config'
    <3>1. PICK c : c = config'
      OBVIOUS
    <3>2. [size |-> c, copied |-> IF c < wanted THEN c ELSE wanted].size = c
      BY SMTT(30)
    <3>3. c = wanted => [size |-> c, copied |-> IF c < wanted THEN c ELSE wanted].copied = c
      BY <1>1, <3>1, SMTT(30)
    <3> QED BY <3>1, <3>2, <3>3 DEF Exactly, QueryConfigSelect
  <2>2. SizeOfDevIDs \in Nat /\ SizeOfAbsInfo \in Nat
    BY SMTT(30) DEF SizeOfDevIDs, SizeOfAbsInfo
  <2>3. QueryConfigSelectAlloc # IoError => QueryConfigSelectAlloc = config'
    BY DEF QueryConfigSelectAlloc
  <2> QED BY <2>1, <2>2, <2>3 DEF Name, Bits, Ids, AbsInfo, Answer, AnswerWhole
<1>3. UNCHANGED <<owning, queue, buffers, taken, pc, got, failed, filled, overlong>>
  BY DEF Name, Bits, Ids, AbsInfo, Query, ring, device
<1>4. BuffersRound' /\ EventsRound'
  BY <1>3 DEF EventsInd, BuffersRound, EventsRound, Handed, Results, Result
<1> QED BY <1>2, <1>3, <1>4 DEF EventsInd

\* A popped buffer holds the next event, and its token will be given out next; one with
\* an overlong length had been lost when the device used it.
LEMMA PopKeeps ==
    ASSUME Counting, EventsInd, EventsAssumption, Pop
    PROVE  EventsInd'
<1>q. PICK q, p, t, r, G, H : /\ q = queue /\ p = queue' /\ t = taken' /\ r = Response(queue)
                              /\ G = Good(queue, Overlong) /\ H = Good(queue, Overlong)'
  OBVIOUS
<1>r. PICK R : R = {"ok", "overlong"}
  OBVIOUS
<1>1. /\ pc = 1 /\ CanPop(q) /\ p = PopUsed(q) /\ t = PeekUsed(q)
      /\ UNCHANGED <<owning, buffers, got, failed, filled, overlong, config, answer>>
  <2>1. pc \in 1 .. 3 /\ Order[pc] = "pop"
    BY DEF EventsInd, Pop, At
  <2>2. pc = 1
    BY <2>1, SMTT(30) DEF Order
  <2> QED BY <2>2, <1>q DEF Pop, device, conf
<1>2. /\ BuffersRound /\ EventsRound /\ AnswerWhole /\ overlong \in Nat
      /\ Ring(q, Tokens, R)
      /\ \A u \in DOMAIN q.chains : q.chains[u].about = u
  BY <1>q, <1>r DEF EventsInd, BuffersRound
<1>3. Ring(p, Tokens, R) /\ Popped(p, q, t, r) /\ r \in R
  <2>1. CanPop(q) /\ Ring(q, Tokens, R) /\ p = PopUsed(q) /\ t = PeekUsed(q) /\ r = Response(q)
    BY <1>1, <1>2, <1>q
  <2>2. Ring(PopUsed(q), Tokens, R) /\ Popped(PopUsed(q), q, PeekUsed(q), Response(q)) /\ Response(q) \in R
    BY <2>1, RingPop
  <2> QED BY <2>1, <2>2
<1>4. H = G \ {t} /\ (t \in G <=> r \notin Overlong)
  <2>1. PICK B : B = Overlong
    OBVIOUS
  <2>2. Good(p, B) = Good(q, B) \ {t} /\ (t \in Good(q, B) <=> r \notin B)
    BY <1>2, <1>3, GoodPop
  <2>3. G = Good(q, B) /\ H = Good(p, B)
    BY <2>1, <1>q
  <2> QED BY <2>1, <2>2, <2>3
<1>5. IsFiniteSet(G)
  BY <1>2, <1>q, FiniteTo, GoodFinite DEF EventsAssumption, Tokens
<1>6. /\ q.used[1].resp = r /\ q.used[1].tok = t /\ p.free # <<>> /\ Token(p) = t
      /\ Len(q.used) \in Nat \ {0} /\ Len(p.used) = Len(q.used) - 1
      /\ \A i \in 1 .. Len(p.used) : p.used[i] = q.used[i + 1]
      /\ \A u \in DOMAIN p.chains : p.chains[u].about = u
  BY <1>2, <1>3 DEF Popped
<1>7. 1 \in 1 .. Len(q.used) /\ \A i \in 1 .. Len(p.used) : i + 1 \in 1 .. Len(q.used)
  BY <1>6, SMTT(30)
<1>8. /\ ~owning => \A i \in 1 .. Len(q.used) : q.used[i].resp = "ok"
      /\ buffers \in [Tokens -> EventType] /\ filled \in Seq(EventType) /\ got \in Seq(Results)
      /\ Handed <= Len(filled)
      /\ \A i \in 1 .. Len(got) : got[i] = Result(filled[i])
      /\ Reported(q.used, buffers, filled, Handed)
  BY <1>2, <1>q DEF EventsRound
<1>9. PICK l, n \in Nat : l = Len(got) /\ n = Len(filled)
  BY <1>8, LenNat
<1>10. Handed = l
  BY <1>1, <1>9, SMTT(30) DEF Handed
<1>11. PICK us, vs : us = q.used /\ vs = p.used
  OBVIOUS
<1>12. /\ r # "ok" => Reported(vs, buffers, filled, l)
       /\ r = "ok" => /\ l + 1 <= n /\ buffers[t] = filled[l + 1]
                      /\ Reported(vs, buffers, filled, l + 1)
  <2>1. /\ Len(filled) \in Nat /\ l <= Len(filled) /\ Len(us) \in Nat \ {0} /\ Len(vs) = Len(us) - 1
        /\ \A i \in 1 .. Len(vs) : vs[i] = us[i + 1]
        /\ Reported(us, buffers, filled, l)
    BY <1>6, <1>8, <1>9, <1>10, <1>11
  <2>2. /\ us[1].resp # "ok" => Reported(vs, buffers, filled, l)
        /\ us[1].resp = "ok" => /\ l + 1 <= Len(filled) /\ buffers[us[1].tok] = filled[l + 1]
                                /\ Reported(vs, buffers, filled, l + 1)
    BY <2>1, ReportedPop
  <2> QED BY <2>2, <1>6, <1>9, <1>11
<1>13. ~owning => \A i \in 1 .. Len(p.used) : p.used[i].resp = "ok"
  BY <1>6, <1>7, <1>8
<1>14. ~owning => r = "ok"
  BY <1>6, <1>7, <1>8
<1>15. Results' = Results /\ \A e : Result(e)' = Result(e)
  BY <1>1 DEF Results, EventType, Result
<1>16. /\ buffers' \in [Tokens -> EventType]' /\ (filled \in Seq(EventType))' /\ (got \in Seq(Results))'
       /\ (\A i \in 1 .. Len(got) : got[i] = Result(filled[i]))'
  BY <1>1, <1>8, <1>15 DEF EventType
<1>17. AnswerWhole' /\ overlong' \in Nat
  BY <1>1, <1>2 DEF AnswerWhole
<1>18. CASE r = "ok"
  <2>1. pc' = 2
    <3>1. Advance
      BY <1>18, <1>q DEF Pop
    <3> QED BY <3>1, <1>1, SMTT(30) DEF Advance
  <2>2. Handed' = l + 1
    BY <2>1, <1>1, <1>9, SMTT(30) DEF Handed
  <2>3. pc # 2 /\ pc' # 1 /\ pc' \in 1 .. 3
    BY <2>1, <1>1, SMTT(30)
  <2>4. t \in G
    BY <1>4, <1>18 DEF Overlong
  <2>5. Cardinality(G) \in Nat /\ Cardinality(H) = Cardinality(G) - 1
    BY <2>4, <1>4, <1>5, OneLess
  <2>6. Cardinality(G) + 0 = EventSize - overlong
    BY <1>1, <1>2, <1>q DEF BuffersRound
  <2>7. Cardinality(H) + 1 = EventSize - overlong
    BY <2>5, <2>6, <1>2, SMTT(30) DEF EventsAssumption
  <2>8. BuffersRound'
    BY <2>3, <2>7, <1>1, <1>2, <1>3, <1>6, <1>q, <1>r, Zenon DEF BuffersRound, Tokens
  <2>9. EventsRound'
    BY <2>1, <2>2, <1>1, <1>9, <1>11, <1>12, <1>13, <1>16, <1>18, <1>q, Zenon DEF EventsRound
  <2> QED BY <2>3, <2>8, <2>9, <1>17 DEF EventsInd
<1>19. CASE r = "overlong"
  <2>1. pc' = 1
    BY <1>1, <1>14, <1>19, <1>q DEF Pop
  <2>2. Handed' = l
    BY <2>1, <1>1, <1>9, SMTT(30) DEF Handed
  <2>3. pc' # 2 /\ pc' \in 1 .. 3
    BY <2>1, SMTT(30)
  <2>4. H = G
    BY <1>4, <1>19 DEF Overlong
  <2>5. BuffersRound'
    BY <2>1, <2>4, <1>1, <1>2, <1>3, <1>6, <1>q, <1>r, Zenon DEF BuffersRound, Tokens
  <2>6. l <= n
    BY <1>8, <1>9, <1>10
  <2>7. r # "ok"
    BY <1>19
  <2>8. EventsRound'
    BY <2>2, <2>3, <2>6, <2>7, <1>1, <1>9, <1>11, <1>12, <1>13, <1>16, <1>q, Zenon DEF EventsRound
  <2> QED BY <2>3, <2>5, <2>8, <1>17 DEF EventsInd
<1> QED BY <1>3, <1>18, <1>19, <1>r

\* The buffer gets its token again.
LEMMA AddKeeps ==
    ASSUME Counting, EventsInd, EventsAssumption, AddBufferToQueue
    PROVE  EventsInd'
<1>q. PICK q, p, G, H : /\ q = queue /\ p = queue'
                        /\ G = Good(queue, Overlong) /\ H = Good(queue, Overlong)'
  OBVIOUS
<1>r. PICK R : R = {"ok", "overlong"}
  OBVIOUS
<1>1. /\ pc = 3 /\ pc' = 1 /\ p = AddChain(q, 1, taken) /\ failed' = (failed \/ Token(q) # taken)
      /\ UNCHANGED <<owning, buffers, taken, got, filled, overlong, config, answer>>
  <2>1. pc \in 1 .. 3 /\ Order[pc] = "add"
    BY DEF EventsInd, AddBufferToQueue, At
  <2>2. pc = 3
    BY <2>1, SMTT(30) DEF Order
  <2>3. pc' = 1
    BY <2>2 DEF AddBufferToQueue, Advance
  <2> QED BY <2>2, <2>3, <1>q DEF AddBufferToQueue, device, conf
<1>2. pc # 1 /\ pc # 2 /\ pc' # 2 /\ pc' \in 1 .. 3
  BY <1>1, SMTT(30)
<1>3. /\ BuffersRound /\ EventsRound /\ AnswerWhole /\ overlong \in Nat
      /\ Ring(q, Tokens, R) /\ q.free # <<>> /\ Token(q) = taken
      /\ \A u \in DOMAIN q.chains : q.chains[u].about = u
      /\ failed = FALSE /\ Cardinality(G) + 1 = EventSize - overlong
  BY <1>2, <1>q, <1>r DEF EventsInd, BuffersRound
<1>4. Ring(p, Tokens, R) /\ Added(p, q, taken, taken)
  BY <1>1, <1>3, RingAdd
<1>5. H = G \cup {taken} /\ taken \notin G
  <2>1. PICK B : B = Overlong
    OBVIOUS
  <2>2. Good(p, B) = Good(q, B) \cup {taken} /\ taken \notin Good(q, B)
    BY <1>3, <1>4, GoodAdd, SMTT(30)
  <2>3. G = Good(q, B) /\ H = Good(p, B)
    BY <2>1, <1>q
  <2> QED BY <2>2, <2>3
<1>6. IsFiniteSet(G)
  BY <1>3, <1>q, FiniteTo, GoodFinite DEF EventsAssumption, Tokens
<1>7. Cardinality(G) \in Nat /\ Cardinality(H) = Cardinality(G) + 1
  BY <1>5, <1>6, OneMore
<1>8. Cardinality(H) + 0 = EventSize - overlong
  BY <1>3, <1>7, SMTT(30)
<1>9. p.used = q.used /\ \A u \in DOMAIN p.chains : p.chains[u].about = u
  BY <1>3, <1>4 DEF Added
<1>10. BuffersRound'
  BY <1>1, <1>3, <1>4, <1>8, <1>9, <1>q, <1>r, Zenon DEF BuffersRound, Tokens
<1>11. Handed' = Handed
  BY <1>1, <1>2 DEF Handed
<1>12. Results' = Results /\ \A e : Result(e)' = Result(e)
  BY <1>1 DEF Results, EventType, Result
<1>13. EventsRound'
  BY <1>1, <1>2, <1>3, <1>9, <1>11, <1>12, <1>q, Zenon DEF EventsRound, EventType, Tokens
<1> QED BY <1>1, <1>2, <1>3, <1>10, <1>13 DEF EventsInd, AnswerWhole

\* The device fills a buffer that is not the one the driver has taken.
LEMMA ReportKeeps ==
    ASSUME EventsInd, EventsAssumption, DeviceReports
    PROVE  EventsInd'
<1>q. PICK q, p, G, H, l, n : /\ q = queue /\ p = queue' /\ l = Len(got) /\ n = Len(filled)
                              /\ G = Good(queue, Overlong) /\ H = Good(queue, Overlong)'
  OBVIOUS
<1>r. PICK R : R = {"ok", "overlong"}
  OBVIOUS
<1>1. PICK t \in Held(q), c \in Codes :
        /\ filled' = Append(filled, [n |-> n + 1, code |-> c])
        /\ buffers' = [buffers EXCEPT ![q.chains[t].about] = [n |-> n + 1, code |-> c]]
        /\ p = Use(q, t, "ok")
        /\ UNCHANGED <<owning, taken, pc, got, failed, overlong, config, answer>>
  BY <1>q DEF DeviceReports, conf
<1>e. PICK e : e = [n |-> n + 1, code |-> c]
  OBVIOUS
<1>2. /\ BuffersRound /\ EventsRound /\ AnswerWhole /\ overlong \in Nat /\ pc \in 1 .. 3
      /\ Ring(q, Tokens, R)
      /\ \A u \in DOMAIN q.chains : q.chains[u].about = u
      /\ pc # 1 => q.free # <<>> /\ Token(q) = taken
  BY <1>q, <1>r DEF EventsInd, BuffersRound
<1>3. /\ ~owning => \A i \in 1 .. Len(q.used) : q.used[i].resp = "ok"
      /\ buffers \in [Tokens -> EventType] /\ filled \in Seq(EventType) /\ got \in Seq(Results)
      /\ Handed <= n
      /\ \A i \in 1 .. l : got[i] = Result(filled[i])
      /\ pc = 2 => buffers[taken] = filled[Handed]
      /\ Reported(q.used, buffers, filled, Handed)
  BY <1>2, <1>q DEF EventsRound
<1>4. l \in Nat /\ n \in Nat
  BY <1>3, <1>q, LenNat
<1>5. PICK h \in Nat : h = Handed /\ (pc = 2 => h = l + 1) /\ l <= h /\ h <= n
  BY <1>3, <1>4, <1>q, SMTT(30) DEF Handed
<1>6. Ring(p, Tokens, R) /\ Filled(p, q, t, "ok") /\ t \in Tokens
  BY <1>1, <1>2, <1>r, RingUse
<1>7. H = G
  <2>1. "ok" \notin Overlong
    BY DEF Overlong
  <2>2. PICK r, B : B = Overlong /\ r = "ok" /\ r \notin B /\ Filled(p, q, t, r)
    BY <2>1, <1>6
  <2>3. Good(p, B) = Good(q, B)
    BY <2>2, GoodUse
  <2> QED BY <2>2, <2>3, <1>q
<1>8. /\ p.free = q.free /\ p.chains = q.chains /\ t \in DOMAIN q.chains
      /\ Len(q.used) \in Nat /\ Len(p.used) = Len(q.used) + 1
      /\ \A i \in 1 .. Len(q.used) : p.used[i] = q.used[i] /\ q.used[i].tok # t
      /\ p.used[Len(q.used) + 1].tok = t /\ p.used[Len(q.used) + 1].resp = "ok"
  BY <1>6 DEF Filled
<1>9. e \in EventType /\ e.n = n + 1
  BY <1>4, <1>e, SMTT(30) DEF EventType
<1>10. PICK nf, nb : nf = filled' /\ nb = buffers'
  OBVIOUS
<1>11. nf = Append(filled, e) /\ nb = [buffers EXCEPT ![t] = e]
  <2>1. q.chains[t].about = t
    BY <1>2, <1>8
  <2> QED BY <2>1, <1>1, <1>e, <1>10
<1>12. nf \in Seq(EventType) /\ Len(nf) = n + 1 /\ nf[n + 1] = e /\ \A k \in 1 .. n : nf[k] = filled[k]
  <2>1. PICK s, S : s = filled /\ S = EventType
    OBVIOUS
  <2>2. s \in Seq(S) /\ e \in S /\ n = Len(s) /\ nf = Append(s, e)
    BY <2>1, <1>3, <1>9, <1>11, <1>q
  <2>3. nf \in Seq(S) /\ Len(nf) = n + 1 /\ nf[n + 1] = e /\ \A k \in 1 .. n : nf[k] = s[k]
    BY <2>2, SMTT(30)
  <2> QED BY <2>1, <2>3
<1>13. /\ nb \in [Tokens -> EventType] /\ nb[t] = e
       /\ \A u \in Tokens : u # t => nb[u] = buffers[u]
  BY <1>3, <1>6, <1>9, <1>11
<1>14. pc = 2 => nb[taken] = filled[h]
  <2> SUFFICES ASSUME pc = 2 PROVE nb[taken] = filled[h]
    OBVIOUS
  <2>1. pc # 1
    BY SMTT(30)
  <2>2. q.free # <<>> /\ Token(q) = taken
    BY <2>1, <1>2
  <2>3. taken \in Tokens /\ taken \notin DOMAIN q.chains
    BY <2>2, <1>2, TokenFree
  <2> QED BY <2>3, <1>3, <1>5, <1>8, <1>13
<1>15. PICK us, vs : us = q.used /\ vs = p.used
  OBVIOUS
<1>16. \A i \in 1 .. Len(us) : us[i].tok \in Tokens /\ us[i].tok # t
  <2>1. \A i \in 1 .. Len(us) : us[i].tok \in DOMAIN q.chains
    BY <1>2, <1>15, Zenon DEF Ring
  <2>2. \A u \in DOMAIN q.chains : u \in Tokens
    BY <1>2, Zenon DEF Ring
  <2> QED BY <2>1, <2>2, <1>8, <1>15
<1>17. Reported(vs, nb, nf, h)
  <2>1. Longer(vs, us) /\ vs[Len(us) + 1].tok = t /\ vs[Len(us) + 1].resp = "ok"
    BY <1>8, <1>15 DEF Longer
  <2>2. /\ h <= Len(filled) /\ Reported(us, buffers, filled, h)
        /\ nb[t] = nf[Len(filled) + 1] /\ nb[t].n = Len(filled) + 1
    BY <1>3, <1>5, <1>9, <1>12, <1>13, <1>15, <1>q
  <2>4. Longer(nf, filled)
    BY <1>4, <1>12, <1>q DEF Longer
  <2>3. \A i \in 1 .. Len(us) : nb[us[i].tok] = buffers[us[i].tok]
    BY <1>13, <1>16
  <2> QED BY <2>1, <2>2, <2>3, <2>4, ReportedOne
<1>18. ~owning => \A i \in 1 .. Len(p.used) : p.used[i].resp = "ok"
  <2>1. \A i \in 1 .. Len(p.used) : i \in 1 .. Len(q.used) \/ i = Len(q.used) + 1
    BY <1>8, SMTT(30)
  <2> QED BY <2>1, <1>3, <1>8
<1>19. BuffersRound'
  <2>1. Ring(queue, Tokens, {"ok", "overlong"})'
    BY <1>6, <1>q, <1>r DEF Tokens
  <2>2. (\A u \in DOMAIN queue.chains : queue.chains[u].about = u)'
    BY <1>2, <1>8, <1>q
  <2>3. (pc # 1 => queue.free # <<>> /\ Token(queue) = taken)'
    BY <1>1, <1>2, <1>8, <1>q DEF Token
  <2>4. failed' = FALSE /\ (Cardinality(Good(queue, Overlong)) + (IF pc = 1 THEN 0 ELSE 1) = EventSize - overlong)'
    BY <1>1, <1>2, <1>7, <1>q DEF BuffersRound
  <2> QED BY <2>1, <2>2, <2>3, <2>4 DEF BuffersRound
<1>20. Results' = Results /\ EventType' = EventType /\ Tokens' = Tokens /\ Handed' = h /\ \A x : Result(x)' = Result(x)
  BY <1>1, <1>5 DEF Results, EventType, Result, Tokens, Handed
<1>21. h <= n + 1 /\ (\A i \in 1 .. l : i \in 1 .. n) /\ (pc = 2 => h \in 1 .. n)
  BY <1>4, <1>5, SMTT(30)
<1>22. \A i \in 1 .. l : got[i] = Result(nf[i])
  BY <1>3, <1>12, <1>21
<1>23. pc = 2 => nb[taken] = nf[h]
  BY <1>12, <1>14, <1>21
<1>24. EventsRound'
  <2>1. (~owning => \A i \in 1 .. Len(queue.used) : queue.used[i].resp = "ok")'
    BY <1>1, <1>18, <1>q
  <2>2. (buffers \in [Tokens -> EventType] /\ filled \in Seq(EventType) /\ got \in Seq(Results))'
    BY <1>1, <1>3, <1>10, <1>12, <1>13, <1>20
  <2>3. (Handed <= Len(filled))' /\ (pc = 2 => buffers[taken] = filled[Handed])'
    BY <1>1, <1>10, <1>12, <1>20, <1>21, <1>23
  <2>4. (\A i \in 1 .. Len(got) : got[i] = Result(filled[i]))'
    BY <1>1, <1>10, <1>20, <1>22, <1>q
  <2>5. Reported(queue.used, buffers, filled, Handed)'
    BY <1>10, <1>15, <1>17, <1>20, <1>q DEF Reported
  <2> QED BY <2>1, <2>2, <2>3, <2>4, <2>5 DEF EventsRound
<1> QED BY <1>1, <1>2, <1>19, <1>24 DEF EventsInd, AnswerWhole

\* A buffer used with an overlong length is lost, and counted.
LEMMA OverlongKeeps ==
    ASSUME Counting, EventsInd, EventsAssumption, DeviceOverlong
    PROVE  EventsInd'
<1>q. PICK q, p, G, H : /\ q = queue /\ p = queue'
                        /\ G = Good(queue, Overlong) /\ H = Good(queue, Overlong)'
  OBVIOUS
<1>c. "overlong" # "ok" /\ "overlong" \in Overlong
  BY SMTT(30) DEF Overlong
<1>r. PICK R, r : R = {"ok", "overlong"} /\ r = "overlong" /\ r \in R /\ r # "ok" /\ r \in Overlong
  BY <1>c
<1>1. PICK t \in Held(q) :
        /\ owning /\ overlong' = overlong + 1 /\ p = Use(q, t, r)
        /\ UNCHANGED <<owning, buffers, taken, pc, got, failed, filled, config, answer>>
  BY <1>q, <1>r DEF DeviceOverlong, conf
<1>2. /\ BuffersRound /\ EventsRound /\ AnswerWhole /\ overlong \in Nat /\ pc \in 1 .. 3
      /\ Ring(q, Tokens, R) /\ Reported(q.used, buffers, filled, Handed)
      /\ filled \in Seq(EventType) /\ got \in Seq(Results)
      /\ \A u \in DOMAIN q.chains : q.chains[u].about = u
      /\ pc # 1 => q.free # <<>> /\ Token(q) = taken
  BY <1>q, <1>r DEF EventsInd, BuffersRound, EventsRound
<1>3. Ring(p, Tokens, R) /\ Filled(p, q, t, r)
  BY <1>1, <1>2, <1>r, RingUse
<1>4. t \in G /\ H = G \ {t}
  <2>1. PICK B : B = Overlong /\ r \in B
    BY <1>r
  <2>2. t \in Good(q, B) /\ Good(p, B) = Good(q, B) \ {t}
    BY <2>1, <1>3, GoodUse, SMTT(30)
  <2> QED BY <2>1, <2>2, <1>q
<1>5. IsFiniteSet(G)
  BY <1>2, <1>q, FiniteTo, GoodFinite DEF EventsAssumption, Tokens
<1>6. Cardinality(G) \in Nat /\ Cardinality(H) = Cardinality(G) - 1
  BY <1>4, <1>5, OneLess
<1>7. PICK k : k = (IF pc = 1 THEN 0 ELSE 1) /\ k \in Int
  BY SMTT(30)
<1>8. Cardinality(G) + k = EventSize - overlong
  BY <1>2, <1>7, <1>q DEF BuffersRound
<1>9. Cardinality(H) + k = EventSize - overlong' /\ overlong' \in Nat
  <2>1. PICK g \in Nat : g = Cardinality(G) /\ Cardinality(H) = g - 1
    BY <1>6
  <2>2. EventSize \in Nat /\ g + k = EventSize - overlong
    BY <2>1, <1>8 DEF EventsAssumption
  <2> QED BY <2>1, <2>2, <1>1, <1>2, <1>7, SMTT(30)
<1>10. /\ p.free = q.free /\ p.chains = q.chains
       /\ Len(q.used) \in Nat /\ Len(p.used) = Len(q.used) + 1
       /\ \A i \in 1 .. Len(q.used) : p.used[i] = q.used[i]
       /\ p.used[Len(q.used) + 1].resp = r
  BY <1>3 DEF Filled
<1>11. BuffersRound'
  <2>1. Cardinality(Good(queue, Overlong))' + (IF pc' = 1 THEN 0 ELSE 1) = EventSize - overlong'
    BY <1>1, <1>7, <1>9, <1>q
  <2>2. Ring(queue, Tokens, {"ok", "overlong"})'
    BY <1>3, <1>q, <1>r DEF Tokens
  <2>3. (\A u \in DOMAIN queue.chains : queue.chains[u].about = u)'
    BY <1>2, <1>10, <1>q
  <2>4. (pc # 1 => queue.free # <<>> /\ Token(queue) = taken)'
    BY <1>1, <1>2, <1>10, <1>q DEF Token
  <2>5. failed' = FALSE
    BY <1>1, <1>2 DEF BuffersRound
  <2> QED BY <2>1, <2>2, <2>3, <2>4, <2>5 DEF BuffersRound
<1>12. PICK h : h = Handed
  OBVIOUS
<1>13. h \in Nat
  BY <1>2, <1>12, LenNat, SMTT(30) DEF Handed
<1>14. PICK us, vs : us = q.used /\ vs = p.used
  OBVIOUS
<1>15. Reported(vs, buffers, filled, h)
  <2>1. Longer(vs, us) /\ vs[Len(us) + 1].resp # "ok" /\ Reported(us, buffers, filled, h)
    BY <1>2, <1>10, <1>12, <1>14, <1>r DEF Longer
  <2> QED BY <2>1, <1>13, ReportedNot
<1>16. Results' = Results /\ Handed' = h /\ \A e : Result(e)' = Result(e)
  BY <1>1, <1>12 DEF Results, EventType, Result, Handed
<1>17. EventsRound'
  BY <1>1, <1>2, <1>12, <1>14, <1>15, <1>16, <1>q, Zenon DEF EventsRound, EventType, Tokens
<1> QED BY <1>1, <1>2, <1>9, <1>11, <1>17 DEF EventsInd, AnswerWhole

LEMMA EventsStep ==
    ASSUME Counting, EventsInd, EventsAssumption, [EventsNext]_eventsVars
    PROVE  EventsInd'
<1>1. CASE UNCHANGED eventsVars
  <2>1. UNCHANGED <<owning, queue, buffers, taken, pc, got, failed, filled, overlong, config, answer>>
    BY <1>1 DEF eventsVars, ring, device, conf
  <2>2. BuffersRound' /\ EventsRound' /\ AnswerWhole'
    BY <2>1 DEF EventsInd, BuffersRound, EventsRound, AnswerWhole, Handed, Results, Result
  <2> QED BY <2>1, <2>2 DEF EventsInd
<1>2. CASE EventsNext
  BY <1>2, PopKeeps, HandleKeeps, AddKeeps, QueryKeeps, ReportKeeps, OverlongKeeps DEF EventsNext
<1> QED BY <1>1, <1>2

-----------------------------------------------------------------------------
(******************************** Network **********************************)

NetToks == 0 .. NetSize - 1
Frame == [frame : Nat, len : Nat, hdr : Nat]
Runt == {DeviceHdr - 1}

\* The table, the buffers and the receive queue agree.
RxRound(q, rb, ix, u) ==
    /\ Ring(q, NetToks, Nat)
    /\ \A t \in DOMAIN q.chains : q.chains[t].about \in Buffers /\ q.chains[t].about \notin u
    /\ \A t \in DOMAIN q.chains : ix[q.chains[t].about] = t /\ rb[t] = q.chains[t].about
    /\ \A t \in NetToks : t \notin DOMAIN q.chains => rb[t] = NoBuffer

\* The device reported length r: below that of its header, or it wrote frame f behind it.
RxEntry(r, f, h) == r = h - 1 \/ (r = h + f.len /\ f.hdr = h)

RxFilled(q, m, h) ==
    \A i \in 1 .. Len(q.used) : RxEntry(q.used[i].resp, m[q.chains[q.used[i].tok].about], h)

RxHeld(u, pl, m, h) == \A b \in u : pl[b] = m[b].len /\ m[b].hdr = h

TxWhole(q, h) ==
    IsQueue(q) /\ \A t \in DOMAIN q.chains :
        q.chains[t].about.hdr = h /\ q.chains[t].about.packet \in Nat \ {0}

Sent(w) == w \in Seq(Nat) /\ \A i \in 1 .. Len(w) : w[i] # 0

RxTyped ==
    /\ version1 \in BOOLEAN /\ frames \in Nat /\ runts \in Nat /\ user \in SUBSET Buffers
    /\ rx_buffers \in [NetToks -> Buffers \cup {NoBuffer}] /\ idx \in [Buffers -> NetToks]
    /\ packet_len \in [Buffers -> Nat] /\ mem \in [Buffers -> Frame]

RxCounted == Cardinality(Good(rxq, Runt)) + Cardinality(user) = NetSize - runts

RxInd ==
    /\ RxTyped /\ RxCounted
    /\ RxRound(rxq, rx_buffers, idx, user) /\ RxFilled(rxq, mem, DeviceHdr)
    /\ RxHeld(user, packet_len, mem, DeviceHdr)

TxInd == sends \in Nat /\ TxWhole(txq, DeviceHdr) /\ Sent(wire)

NetworkInd == RxInd /\ TxInd

\* The driver's header is the device's.
LEMMA Headers ==
    ASSUME version1 \in BOOLEAN
    PROVE  HdrSize(legacy_header) = DeviceHdr /\ DeviceHdr \in Nat \ {0}
<1>1. 10 \in Nat \ {0} /\ 12 \in Nat \ {0}
  BY SMTT(30)
<1> QED BY <1>1 DEF HdrSize, legacy_header, DeviceHdr

LEMMA TxAdd ==
    ASSUME NEW q, NEW h, TxWhole(q, h), NEW n, NEW c, c.hdr = h, c.packet \in Nat \ {0}
    PROVE  TxWhole(AddChain(q, n, c), h)
<1>1. PICK p, t : p = AddChain(q, n, c) /\ t = Token(q)
  OBVIOUS
<1>2. IsQueue(q) /\ \A u \in DOMAIN q.chains : q.chains[u].about.hdr = h /\ q.chains[u].about.packet \in Nat \ {0}
  BY DEF TxWhole
<1>3. /\ IsQueue(p) /\ DOMAIN p.chains = DOMAIN q.chains \cup {t}
      /\ p.chains[t] = [descs |-> SubSeq(q.free, 1, Needed(q, n)), about |-> c]
      /\ \A u \in DOMAIN q.chains : u # t => p.chains[u] = q.chains[u]
  <2>1. AfterAdd(p, q, n, c, t)
    BY <1>1, <1>2, AddFields
  <2> QED BY <2>1 DEF AfterAdd
<1>4. p.chains[t].about = c
  BY <1>3, SMTT(30)
<1> QED BY <1>1, <1>2, <1>3, <1>4 DEF TxWhole

LEMMA TxPop ==
    ASSUME NEW q, NEW h, TxWhole(q, h)
    PROVE  TxWhole(PopUsed(q), h)
<1>1. PICK p, t : p = PopUsed(q) /\ t = PeekUsed(q)
  OBVIOUS
<1>2. IsQueue(q) /\ \A u \in DOMAIN q.chains : q.chains[u].about.hdr = h /\ q.chains[u].about.packet \in Nat \ {0}
  BY DEF TxWhole
<1>3. /\ IsQueue(p) /\ DOMAIN p.chains = DOMAIN q.chains \ {t}
      /\ \A u \in DOMAIN q.chains \ {t} : p.chains[u] = q.chains[u]
  <2>1. AfterPop(p, q, t)
    BY <1>1, <1>2, PopFields
  <2> QED BY <2>1 DEF AfterPop
<1> QED BY <1>1, <1>2, <1>3 DEF TxWhole

LEMMA TxUse ==
    ASSUME NEW q, NEW h, TxWhole(q, h), NEW t, NEW r
    PROVE  TxWhole(Use(q, t, r), h)
<1>1. PICK p : p = Use(q, t, r)
  OBVIOUS
<1>2. IsQueue(q) /\ \A u \in DOMAIN q.chains : q.chains[u].about.hdr = h /\ q.chains[u].about.packet \in Nat \ {0}
  BY DEF TxWhole
<1>3. IsQueue(p) /\ p.chains = q.chains
  <2>1. PICK e : e = [tok |-> t, resp |-> r]
    OBVIOUS
  <2>2. AfterUse(p, q, e)
    BY <1>1, <1>2, <2>1, UseFields
  <2> QED BY <2>2 DEF AfterUse
<1> QED BY <1>1, <1>2, <1>3 DEF TxWhole

\* Steps on the side of transmission.
LEMMA TransmitKeeps ==
    ASSUME NetworkInd, TransmitBegin \/ TransmitComplete \/ Send \/ SendReturns \/ DeviceSends
    PROVE  NetworkInd'
<1>1. UNCHANGED <<version1, rxq, rx_buffers, mem, user, idx, packet_len, frames, runts>>
  BY DEF TransmitBegin, TransmitComplete, Send, SendReturns, DeviceSends, rx
<1>2. RxInd /\ version1 \in BOOLEAN /\ TxWhole(txq, DeviceHdr) /\ Sent(wire) /\ sends \in Nat
  BY DEF NetworkInd, RxInd, RxTyped, TxInd
<1>3. PICK h : h = DeviceHdr /\ h = HdrSize(legacy_header) /\ DeviceHdr' = h
  BY <1>1, <1>2, Headers DEF DeviceHdr
<1>4. RxInd'
  BY <1>1, <1>2, <1>3 DEF RxInd, RxTyped, RxCounted, Runt
<1>5. PICK s : s = sends + 1
  OBVIOUS
<1>6. s \in Nat /\ s # 0
  BY <1>2, <1>5, SMTT(30)
<1>7. PICK c : c = [packet |-> s, hdr |-> h]
  OBVIOUS
<1>8. c.packet \in Nat \ {0} /\ c.hdr = h
  BY <1>6, <1>7, SMTT(30)
<1>9. CASE TransmitBegin \/ Send
  <2>1. PICK n : txq' = AddChain(txq, n, c)
    BY <1>3, <1>5, <1>7, <1>9 DEF TransmitBegin, Send
  <2>2. TxWhole(txq', h)
    BY <2>1, <1>2, <1>3, <1>8, TxAdd
  <2>3. sends' = s /\ wire' = wire
    BY <1>5, <1>9 DEF TransmitBegin, Send
  <2> QED BY <2>2, <2>3, <1>2, <1>3, <1>4, <1>6 DEF NetworkInd, TxInd
<1>10. CASE TransmitComplete \/ SendReturns
  <2>1. txq' = PopUsed(txq) /\ UNCHANGED <<wire, sends>>
    BY <1>10 DEF TransmitComplete, SendReturns
  <2>2. TxWhole(txq', h)
    BY <2>1, <1>2, <1>3, TxPop
  <2> QED BY <2>1, <2>2, <1>2, <1>3, <1>4 DEF NetworkInd, TxInd
<1>11. CASE DeviceSends
  <2>1. PICK t \in Held(txq) :
          /\ wire' = Append(wire, IF txq.chains[t].about.hdr = h THEN txq.chains[t].about.packet ELSE 0)
          /\ txq' = Use(txq, t, 0) /\ sends' = sends
    BY <1>3, <1>11 DEF DeviceSends
  <2>2. PICK k : k = txq.chains[t].about.packet
    OBVIOUS
  <2>3. t \in DOMAIN txq.chains
    BY DEF Held
  <2>4. k \in Nat /\ k # 0 /\ wire' = Append(wire, k)
    BY <2>1, <2>2, <2>3, <1>2, <1>3 DEF TxWhole
  <2>5. Sent(wire')
    <3>1. PICK w : w = wire /\ w \in Seq(Nat) /\ \A i \in 1 .. Len(w) : w[i] # 0
      BY <1>2 DEF Sent
    <3>2. Append(w, k) \in Seq(Nat) /\ \A i \in 1 .. Len(Append(w, k)) : Append(w, k)[i] # 0
      BY <2>4, <3>1, SMTT(30)
    <3> QED BY <2>4, <3>1, <3>2 DEF Sent
  <2>6. TxWhole(txq', h)
    BY <2>1, <1>2, <1>3, TxUse
  <2> QED BY <2>1, <2>5, <2>6, <1>2, <1>3, <1>4 DEF NetworkInd, TxInd
<1> QED BY <1>9, <1>10, <1>11

\* The lemmas below are about one step of the receive queue, from q to p, with the header h.
LEMMA FilledPop ==
    ASSUME NEW q, NEW p, NEW t, NEW r, NEW m, NEW h, Ring(p, NetToks, Nat), Popped(p, q, t, r), RxFilled(q, m, h)
    PROVE  RxFilled(p, m, h)
<1>1. PICK us, vs : us = q.used /\ vs = p.used
  OBVIOUS
<1>2. Len(us) \in Nat \ {0} /\ Len(vs) = Len(us) - 1 /\ \A i \in 1 .. Len(vs) : vs[i] = us[i + 1]
  BY <1>1, Zenon DEF Popped
<1>3. \A u \in DOMAIN p.chains : p.chains[u] = q.chains[u]
  BY Zenon DEF Popped
<1>4. \A i \in 1 .. Len(vs) : vs[i].tok \in DOMAIN p.chains
  BY <1>1, Zenon DEF Ring
<1>5. ASSUME NEW i \in 1 .. Len(vs)
      PROVE  RxEntry(vs[i].resp, m[p.chains[vs[i].tok].about], h)
  <2>1. i + 1 \in 1 .. Len(us)
    BY <1>2, SMTT(30)
  <2>2. PICK j \in 1 .. Len(us) : vs[i] = us[j]
    BY <2>1, <1>2
  <2>3. p.chains[vs[i].tok] = q.chains[us[j].tok]
    BY <2>2, <1>3, <1>4
  <2>4. RxEntry(us[j].resp, m[q.chains[us[j].tok].about], h)
    BY <1>1, Zenon DEF RxFilled
  <2> QED BY <2>2, <2>3, <2>4
<1> QED BY <1>1, <1>5 DEF RxFilled

LEMMA FilledAdd ==
    ASSUME NEW q, NEW p, NEW t, NEW c, NEW m, NEW h, Ring(q, NetToks, Nat), Added(p, q, t, c), RxFilled(q, m, h)
    PROVE  RxFilled(p, m, h)
<1>1. p.used = q.used /\ \A u \in DOMAIN q.chains : p.chains[u] = q.chains[u]
  BY DEF Added
<1>2. \A i \in 1 .. Len(q.used) : p.chains[q.used[i].tok] = q.chains[q.used[i].tok]
  <2>1. \A i \in 1 .. Len(q.used) : q.used[i].tok \in DOMAIN q.chains
    BY Zenon DEF Ring
  <2> QED BY <2>1, <1>1
<1> QED BY <1>1, <1>2 DEF RxFilled

\* The device used the buffer of t; m is the memory before, n after.
LEMMA FilledUse ==
    ASSUME NEW q, NEW p, NEW t, NEW r, NEW m, NEW n, NEW h, Filled(p, q, t, r), RxFilled(q, m, h),
           \A i \in 1 .. Len(q.used) : n[q.chains[q.used[i].tok].about] = m[q.chains[q.used[i].tok].about],
           RxEntry(r, n[q.chains[t].about], h)
    PROVE  RxFilled(p, n, h)
<1>1. PICK us, vs : us = q.used /\ vs = p.used
  OBVIOUS
<1>2. /\ Len(us) \in Nat /\ Len(vs) = Len(us) + 1 /\ \A i \in 1 .. Len(us) : vs[i] = us[i]
      /\ vs[Len(us) + 1].tok = t /\ vs[Len(us) + 1].resp = r /\ p.chains = q.chains
  BY <1>1, Zenon DEF Filled
<1>3. \A i \in 1 .. Len(vs) : i \in 1 .. Len(us) \/ i = Len(us) + 1
  <2>1. PICK k \in Nat : k = Len(us) /\ Len(vs) = k + 1
    BY <1>2
  <2>2. \A i \in 1 .. k + 1 : i \in 1 .. k \/ i = k + 1
    BY UpToNext
  <2> QED BY <2>1, <2>2
<1>4. ASSUME NEW i \in 1 .. Len(vs)
      PROVE  RxEntry(vs[i].resp, n[p.chains[vs[i].tok].about], h)
  <2>1. CASE i = Len(us) + 1
    BY <2>1, <1>2
  <2>2. CASE i \in 1 .. Len(us)
    <3>1. RxEntry(us[i].resp, m[q.chains[us[i].tok].about], h)
      BY <2>2, <1>1, Zenon DEF RxFilled
    <3>2. vs[i] = us[i] /\ n[q.chains[us[i].tok].about] = m[q.chains[us[i].tok].about]
      BY <2>2, <1>1, <1>2
    <3> QED BY <3>1, <3>2, <1>2
  <2> QED BY <2>1, <2>2, <1>3
<1> QED BY <1>1, <1>4 DEF RxFilled

\* receive: the buffer leaves the table; it is the owner's, or lost.
LEMMA RoundPop ==
    ASSUME NEW q, NEW p, NEW t \in NetToks, NEW r, NEW rb \in [NetToks -> Buffers \cup {NoBuffer}],
           NEW ix, NEW u, NEW v,
           RxRound(q, rb, ix, u), Ring(p, NetToks, Nat), Popped(p, q, t, r),
           v = u \/ v = u \cup {q.chains[t].about}
    PROVE  RxRound(p, [rb EXCEPT ![t] = NoBuffer], ix, v)
<1>1. PICK nrb : nrb = [rb EXCEPT ![t] = NoBuffer]
  OBVIOUS
<1>2. nrb[t] = NoBuffer /\ \A s \in NetToks : s # t => nrb[s] = rb[s]
  BY <1>1
<1>3. t \in DOMAIN q.chains /\ DOMAIN p.chains = DOMAIN q.chains \ {t} /\ \A s \in DOMAIN p.chains : p.chains[s] = q.chains[s]
  BY DEF Popped
<1>4. /\ \A s \in DOMAIN q.chains : q.chains[s].about \in Buffers /\ q.chains[s].about \notin u
      /\ \A s \in DOMAIN q.chains : ix[q.chains[s].about] = s /\ rb[s] = q.chains[s].about
      /\ \A s \in NetToks : s \notin DOMAIN q.chains => rb[s] = NoBuffer
  BY Zenon DEF RxRound
<1>5. \A s \in DOMAIN q.chains : s \in NetToks
  BY Zenon DEF RxRound, Ring
<1>6. ASSUME NEW s \in DOMAIN p.chains
      PROVE  /\ p.chains[s].about \in Buffers /\ p.chains[s].about \notin v
             /\ ix[p.chains[s].about] = s /\ nrb[s] = p.chains[s].about
  <2>1. s \in DOMAIN q.chains /\ s # t /\ p.chains[s] = q.chains[s]
    BY <1>3
  <2>2. nrb[s] = rb[s]
    BY <2>1, <1>2, <1>5
  <2>5. ix[q.chains[s].about] = s /\ ix[q.chains[t].about] = t
    BY <2>1, <1>3, Zenon DEF RxRound
  <2>3. q.chains[s].about # q.chains[t].about
    BY <2>1, <2>5
  <2>4. q.chains[s].about \notin v
    BY <2>1, <2>3, <1>4
  <2> QED BY <2>1, <2>2, <2>4, <1>4
<1>7. ASSUME NEW s \in NetToks, s \notin DOMAIN p.chains
      PROVE  nrb[s] = NoBuffer
  <2>1. CASE s = t
    BY <2>1, <1>2
  <2>2. CASE s # t
    <3>1. s \notin DOMAIN q.chains
      BY <2>2, <1>3, <1>7
    <3>2. rb[s] = NoBuffer
      BY <3>1, Zenon DEF RxRound
    <3> QED BY <2>2, <3>2, <1>2
  <2> QED BY <2>1, <2>2
<1> QED BY <1>1, <1>6, <1>7 DEF RxRound

\* recycle_rx_buffer: the place of the token is free, and becomes the buffer's.
LEMMA RoundAdd ==
    ASSUME NEW q, NEW p, NEW t \in NetToks, NEW b \in Buffers, NEW rb \in [NetToks -> Buffers \cup {NoBuffer}],
           NEW ix \in [Buffers -> NetToks], NEW u, b \in u,
           RxRound(q, rb, ix, u), Ring(p, NetToks, Nat), Added(p, q, t, b)
    PROVE  RxRound(p, [rb EXCEPT ![t] = b], [ix EXCEPT ![b] = t], u \ {b}) /\ rb[t] = NoBuffer
<1>1. PICK nrb, nix : nrb = [rb EXCEPT ![t] = b] /\ nix = [ix EXCEPT ![b] = t]
  OBVIOUS
<1>2. nrb[t] = b /\ (\A s \in NetToks : s # t => nrb[s] = rb[s])
  BY <1>1
<1>3. nix[b] = t /\ \A c \in Buffers : c # b => nix[c] = ix[c]
  BY <1>1
<1>4. /\ t \notin DOMAIN q.chains /\ DOMAIN p.chains = DOMAIN q.chains \cup {t} /\ p.chains[t].about = b
      /\ \A s \in DOMAIN q.chains : p.chains[s] = q.chains[s]
  BY DEF Added
<1>5. /\ \A s \in DOMAIN q.chains : q.chains[s].about \in Buffers /\ q.chains[s].about \notin u
      /\ \A s \in DOMAIN q.chains : ix[q.chains[s].about] = s /\ rb[s] = q.chains[s].about
      /\ \A s \in NetToks : s \notin DOMAIN q.chains => rb[s] = NoBuffer
  BY Zenon DEF RxRound
<1>6. \A s \in DOMAIN q.chains : s \in NetToks
  BY Zenon DEF RxRound, Ring
<1>7. ASSUME NEW s \in DOMAIN p.chains
      PROVE  /\ p.chains[s].about \in Buffers /\ p.chains[s].about \notin u \ {b}
             /\ nix[p.chains[s].about] = s /\ nrb[s] = p.chains[s].about
  <2>1. CASE s = t
    BY <2>1, <1>2, <1>3, <1>4
  <2>2. CASE s # t
    <3>1. s \in DOMAIN q.chains /\ p.chains[s] = q.chains[s] /\ s \in NetToks
      BY <2>2, <1>4, <1>6
    <3>2. q.chains[s].about \in Buffers /\ q.chains[s].about \notin u /\ q.chains[s].about # b
      BY <3>1, <1>5
    <3>3. nix[q.chains[s].about] = s /\ nrb[s] = q.chains[s].about
      BY <2>2, <3>1, <3>2, <1>2, <1>3, <1>5
    <3> QED BY <3>1, <3>2, <3>3
  <2> QED BY <2>1, <2>2
<1>8. \A s \in NetToks : s \notin DOMAIN p.chains => nrb[s] = NoBuffer
  BY <1>2, <1>4, <1>5
<1>9. rb[t] = NoBuffer
  BY <1>4, <1>5
<1>10. RxRound(p, nrb, nix, u \ {b})
  BY <1>7, <1>8 DEF RxRound
<1> QED BY <1>1, <1>9, <1>10

LEMMA RoundUse ==
    ASSUME NEW q, NEW p, NEW t, NEW r, NEW rb, NEW ix, NEW u,
           RxRound(q, rb, ix, u), Ring(p, NetToks, Nat), Filled(p, q, t, r)
    PROVE  RxRound(p, rb, ix, u)
<1>1. p.chains = q.chains
  BY DEF Filled
<1> QED BY <1>1 DEF RxRound

\* The chains and the owner's buffers can be counted.
LEMMA NetFinite ==
    ASSUME Counting, NetworkAssumption, NEW q, NEW B, Ring(q, NetToks, Nat), NEW u \in SUBSET Buffers
    PROVE  IsFiniteSet(Good(q, B)) /\ IsFiniteSet(u)
<1>1. IsFiniteSet(NetToks)
  BY FiniteTo DEF NetworkAssumption, NetToks
<1>2. IsFiniteSet(Good(q, B))
  BY <1>1, GoodFinite
<1>3. IsFiniteSet(Buffers)
  BY FiniteTo DEF Buffers, NetworkAssumption
<1>4. IsFiniteSet(u)
  BY <1>3, FiniteSub
<1> QED BY <1>2, <1>4

LEMMA ReceiveKeeps ==
    ASSUME Counting, RxInd, NetworkAssumption, Receive
    PROVE  RxInd'
<1>q. PICK q, p, t, b, r, h : /\ q = rxq /\ p = rxq' /\ t = PeekUsed(rxq) /\ b = rx_buffers[PeekUsed(rxq)]
                              /\ r = Response(rxq) /\ h = DeviceHdr
  OBVIOUS
<1>1. /\ RxTyped /\ RxCounted /\ RxRound(q, rx_buffers, idx, user) /\ RxFilled(q, mem, h)
      /\ RxHeld(user, packet_len, mem, h) /\ Ring(q, NetToks, Nat)
  BY <1>q DEF RxInd, RxRound
<1>2. h = HdrSize(legacy_header) /\ h \in Nat \ {0} /\ version1 \in BOOLEAN
  BY <1>1, <1>q, Headers DEF RxTyped
<1>3. /\ Ring(PopUsed(q), NetToks, Nat) /\ Popped(PopUsed(q), q, t, r) /\ t \in NetToks /\ r \in Nat
  <2>1. CanPop(q) /\ t = PeekUsed(q) /\ r = Response(q)
    BY <1>q DEF Receive, CanRecv
  <2>2. /\ Ring(PopUsed(q), NetToks, Nat) /\ Popped(PopUsed(q), q, PeekUsed(q), Response(q))
        /\ PeekUsed(q) \in NetToks /\ Response(q) \in Nat
    BY <2>1, <1>1, RingPop
  <2> QED BY <2>1, <2>2
<1>4. t \in DOMAIN q.chains /\ q.used[1].tok = t /\ q.used[1].resp = r /\ Len(q.used) \in Nat \ {0}
  BY <1>3 DEF Popped
<1>5. b = q.chains[t].about /\ b \in Buffers /\ b \notin user /\ idx[b] = t
  <2>1. /\ q.chains[t].about \in Buffers /\ q.chains[t].about \notin user
        /\ idx[q.chains[t].about] = t /\ rx_buffers[t] = q.chains[t].about
    BY <1>1, <1>4 DEF RxRound
  <2> QED BY <2>1, <1>q
<1>6. RxEntry(r, mem[b], h)
  <2>1. 1 \in 1 .. Len(q.used)
    BY <1>4, SMTT(30)
  <2>2. RxEntry(q.used[1].resp, mem[q.chains[q.used[1].tok].about], h)
    BY <2>1, <1>1 DEF RxFilled
  <2> QED BY <2>2, <1>4, <1>5
<1>7. /\ p = PopUsed(q) /\ rx_buffers' = [rx_buffers EXCEPT ![t] = NoBuffer]
      /\ UNCHANGED <<version1, mem, idx, frames, runts>>
  BY <1>5, <1>q DEF Receive
<1>8. /\ user' = IF r >= h THEN user \cup {b} ELSE user
      /\ packet_len' = IF r >= h THEN [packet_len EXCEPT ![b] = r - h] ELSE packet_len
  BY <1>2, <1>5, <1>q DEF Receive, PacketLen
<1>9. RxFilled(p, mem, h) /\ Ring(p, NetToks, Nat) /\ Popped(p, q, t, r)
  BY <1>1, <1>3, <1>7, FilledPop
<1>10. RxRound(p, rx_buffers', idx, user')
  <2>1. rx_buffers \in [NetToks -> Buffers \cup {NoBuffer}] /\ (user' = user \/ user' = user \cup {q.chains[t].about})
    BY <1>1, <1>5, <1>8 DEF RxTyped
  <2> QED BY <2>1, <1>1, <1>3, <1>7, <1>9, RoundPop
<1>11. mem[b].len \in Nat /\ b \in Buffers
  <2>1. mem[b] \in Frame
    BY <1>1, <1>5 DEF RxTyped
  <2> QED BY <2>1, <1>5, SMTT(30) DEF Frame
<1>12. DeviceHdr' = h
  BY <1>7, <1>q DEF DeviceHdr
<1>13. PICK B, G, H : B = Runt /\ G = Good(q, B) /\ H = Good(p, B)
  OBVIOUS
<1>14. H = G \ {t} /\ (t \in G <=> r \notin B)
  BY <1>1, <1>9, <1>13, GoodPop, SMTT(30)
<1>15. Cardinality(G) + Cardinality(user) = NetSize - runts
  BY <1>1, <1>13, <1>q DEF RxCounted
<1>16. IsFiniteSet(G) /\ IsFiniteSet(user)
  BY <1>1, <1>13, NetFinite DEF RxTyped
<1>17. Runt' = B
  BY <1>7, <1>13 DEF Runt, DeviceHdr
<1>18. CASE r >= h
  <2>1. r = h + mem[b].len /\ mem[b].hdr = h /\ r # h - 1 /\ r - h = mem[b].len
    <3>1. PICK n \in Nat : n = mem[b].len
      BY <1>11
    <3>2. r # h - 1
      BY <1>2, <1>3, <1>18, SMTT(30)
    <3>3. r = h + n /\ mem[b].hdr = h
      BY <3>1, <3>2, <1>6 DEF RxEntry
    <3>4. r - h = n
      BY <3>3, <1>2, SMTT(30)
    <3> QED BY <3>1, <3>2, <3>3, <3>4
  <2>2. user' = user \cup {b} /\ packet_len' = [packet_len EXCEPT ![b] = mem[b].len]
    BY <2>1, <1>8, <1>18
  <2>3. t \in G
    BY <2>1, <1>13, <1>14, <1>q DEF Runt
  <2>4. RxCounted'
    <3>1. Cardinality(G) \in Nat /\ Cardinality(H) = Cardinality(G) - 1
      BY <2>3, <1>14, <1>16, OneLess
    <3>2. Cardinality(user) \in Nat /\ Cardinality(user') = Cardinality(user) + 1
      BY <2>2, <1>5, <1>16, OneMore
    <3>3. Cardinality(H) + Cardinality(user') = NetSize - runts
      <4>1. PICK g, n \in Nat : /\ g = Cardinality(G) /\ Cardinality(H) = g - 1
                                 /\ n = Cardinality(user) /\ Cardinality(user') = n + 1
        BY <3>1, <3>2
      <4>2. (g - 1) + (n + 1) = g + n
        BY SMTT(30)
      <4> QED BY <4>1, <4>2, <1>15
    <3> QED BY <3>3, <1>7, <1>13, <1>17, <1>q DEF RxCounted
  <2>5. RxTyped'
    BY <2>2, <1>1, <1>3, <1>5, <1>7, <1>11 DEF RxTyped, NetToks, Buffers, Frame
  <2>6. RxHeld(user', packet_len', mem, h)
    <3>1. packet_len \in [Buffers -> Nat] /\ \A c \in user : c \in Buffers
      BY <1>1 DEF RxTyped
    <3>2. packet_len'[b] = mem[b].len /\ \A c \in Buffers : c # b => packet_len'[c] = packet_len[c]
      BY <2>2, <3>1, <1>5
    <3> QED BY <2>1, <2>2, <3>1, <3>2, <1>1 DEF RxHeld
  <2> QED BY <2>4, <2>5, <2>6, <1>7, <1>9, <1>10, <1>12, <1>q DEF RxInd
<1>19. CASE ~(r >= h)
  <2>1. r = h - 1
    <3>1. PICK n \in Nat : n = mem[b].len
      BY <1>11
    <3>2. r # h + n
      BY <1>2, <1>3, <1>19, SMTT(30)
    <3> QED BY <3>1, <3>2, <1>6 DEF RxEntry
  <2>2. user' = user /\ packet_len' = packet_len
    BY <1>8, <1>19
  <2>3. H = G
    BY <2>1, <1>13, <1>14, <1>q DEF Runt
  <2>4. RxCounted'
    BY <2>2, <2>3, <1>7, <1>13, <1>15, <1>17, <1>q DEF RxCounted
  <2>5. RxTyped'
    BY <2>2, <1>1, <1>3, <1>7 DEF RxTyped, NetToks, Buffers, Frame
  <2> QED BY <2>2, <2>4, <2>5, <1>1, <1>7, <1>9, <1>10, <1>12, <1>q DEF RxInd
<1> QED BY <1>18, <1>19

LEMMA RecycleKeeps ==
    ASSUME Counting, RxInd, NetworkAssumption, RecycleRxBuffer
    PROVE  RxInd'
<1>q. PICK q, p, t, h : q = rxq /\ p = rxq' /\ t = Token(rxq) /\ h = DeviceHdr
  OBVIOUS
<1>1. /\ RxTyped /\ RxCounted /\ RxRound(q, rx_buffers, idx, user) /\ RxFilled(q, mem, h)
      /\ RxHeld(user, packet_len, mem, h) /\ Ring(q, NetToks, Nat)
  BY <1>q DEF RxInd, RxRound
<1>2. PICK b \in user :
        /\ CanAdd(q, 1) /\ Recycle(b) /\ p = AddChain(q, 1, b) /\ user' = user \ {b}
        /\ UNCHANGED <<version1, mem, packet_len, frames, runts>>
  BY <1>q DEF RecycleRxBuffer, ReceiveBegin
<1>3. /\ rx_buffers \in [NetToks -> Buffers \cup {NoBuffer}] /\ idx \in [Buffers -> NetToks]
      /\ user \in SUBSET Buffers /\ b \in Buffers
  BY <1>1 DEF RxTyped
<1>4. q.free # <<>>
  <2>1. Len(q.free) >= 1
    BY <1>1, <1>2 DEF CanAdd, Needed, Ring
  <2>2. PICK f : f = q.free
    OBVIOUS
  <2> QED BY <2>1, <2>2, SMTT(30)
<1>5. Ring(p, NetToks, Nat) /\ Added(p, q, t, b) /\ t \in NetToks
  <2>1. t = Token(q)
    BY <1>q
  <2> QED BY <2>1, <1>1, <1>2, <1>4, RingAdd
<1>6. RxRound(p, [rx_buffers EXCEPT ![t] = b], [idx EXCEPT ![b] = t], user \ {b}) /\ rx_buffers[t] = NoBuffer
  BY <1>1, <1>3, <1>5, RoundAdd
<1>7. idx' = [idx EXCEPT ![b] = t] /\ rx_buffers' = [rx_buffers EXCEPT ![t] = b]
  BY <1>2, <1>6, <1>q DEF Recycle
<1>8. RxRound(p, rx_buffers', idx', user') /\ RxFilled(p, mem, h)
  BY <1>1, <1>2, <1>5, <1>6, <1>7, FilledAdd
<1>9. DeviceHdr' = h
  BY <1>2, <1>q DEF DeviceHdr
<1>10. PICK B, G, H : B = Runt /\ G = Good(q, B) /\ H = Good(p, B)
  OBVIOUS
<1>11. H = G \cup {t} /\ t \notin G
  BY <1>1, <1>5, <1>10, GoodAdd, SMTT(30)
<1>12. Cardinality(G) + Cardinality(user) = NetSize - runts
  BY <1>1, <1>10, <1>q DEF RxCounted
<1>13. IsFiniteSet(G) /\ IsFiniteSet(user)
  BY <1>1, <1>3, <1>10, NetFinite
<1>14. RxCounted'
  <2>1. Cardinality(G) \in Nat /\ Cardinality(H) = Cardinality(G) + 1
    BY <1>11, <1>13, OneMore
  <2>2. Cardinality(user) \in Nat /\ Cardinality(user') = Cardinality(user) - 1
    BY <1>2, <1>13, OneLess
  <2>3. PICK g, n \in Nat : /\ g = Cardinality(G) /\ Cardinality(H) = g + 1
                            /\ n = Cardinality(user) /\ Cardinality(user') = n - 1
    BY <2>1, <2>2
  <2>4. (g + 1) + (n - 1) = g + n
    BY SMTT(30)
  <2>5. Cardinality(H) + Cardinality(user') = NetSize - runts
    BY <2>3, <2>4, <1>12
  <2>6. Runt' = B
    BY <1>2, <1>10 DEF Runt, DeviceHdr
  <2> QED BY <2>5, <2>6, <1>2, <1>10, <1>q DEF RxCounted
<1>15. RxTyped'
  BY <1>1, <1>2, <1>3, <1>5, <1>7 DEF RxTyped, NetToks, Buffers, Frame
<1>16. RxHeld(user', packet_len, mem, h)
  BY <1>1, <1>2 DEF RxHeld
<1> QED BY <1>2, <1>8, <1>9, <1>14, <1>15, <1>16, <1>q DEF RxInd

\* The device writes a packet into a buffer it holds.
LEMMA DeliverKeeps ==
    ASSUME RxInd, NetworkAssumption, DeviceDelivers
    PROVE  RxInd'
<1>q. PICK q, p, h : q = rxq /\ p = rxq' /\ h = DeviceHdr
  OBVIOUS
<1>1. /\ RxTyped /\ RxCounted /\ RxRound(q, rx_buffers, idx, user) /\ RxFilled(q, mem, h)
      /\ RxHeld(user, packet_len, mem, h) /\ Ring(q, NetToks, Nat) /\ frames \in Nat
  BY <1>q DEF RxInd, RxRound, RxTyped
<1>2. h \in Nat \ {0}
  BY <1>1, <1>q, Headers DEF RxTyped
<1>3. PICK t \in Held(q), n \in Lengths :
        /\ frames' = frames + 1
        /\ mem' = [mem EXCEPT ![q.chains[t].about] = [frame |-> frames + 1, len |-> n, hdr |-> h]]
        /\ p = Use(q, t, h + n)
        /\ UNCHANGED <<version1, rx_buffers, user, idx, packet_len, runts>>
  BY <1>q DEF DeviceDelivers
<1>4. n \in Nat
  BY DEF NetworkAssumption
<1>5. PICK b, f, r : b = q.chains[t].about /\ f = [frame |-> frames + 1, len |-> n, hdr |-> h] /\ r = h + n
  OBVIOUS
<1>6. f \in Frame /\ f.len = n /\ f.hdr = h /\ frames + 1 \in Nat /\ r \in Nat /\ r # h - 1
  BY <1>1, <1>2, <1>4, <1>5, SMTT(30) DEF Frame
<1>7. Ring(p, NetToks, Nat) /\ Filled(p, q, t, r) /\ t \in NetToks
  <2>1. p = Use(q, t, r)
    BY <1>3, <1>5
  <2> QED BY <2>1, <1>1, <1>6, RingUse
<1>8. /\ t \in DOMAIN q.chains /\ \A i \in 1 .. Len(q.used) : q.used[i].tok # t
  BY <1>7 DEF Filled
<1>9. \A s \in DOMAIN q.chains : q.chains[s].about \in Buffers /\ q.chains[s].about \notin user /\ idx[q.chains[s].about] = s
  BY <1>1 DEF RxRound
<1>10. b \in Buffers /\ b \notin user /\ idx[b] = t
  BY <1>5, <1>8, <1>9
<1>11. mem' \in [Buffers -> Frame] /\ mem'[b] = f /\ \A c \in Buffers : c # b => mem'[c] = mem[c]
  <2>1. mem \in [Buffers -> Frame] /\ mem' = [mem EXCEPT ![b] = f]
    BY <1>1, <1>3, <1>5 DEF RxTyped
  <2> QED BY <2>1, <1>6, <1>10
<1>12. ASSUME NEW i \in 1 .. Len(q.used)
       PROVE  mem'[q.chains[q.used[i].tok].about] = mem[q.chains[q.used[i].tok].about]
  <2>1. PICK s \in DOMAIN q.chains : s = q.used[i].tok /\ s # t
    <3>1. q.used[i].tok \in DOMAIN q.chains
      BY <1>1, Zenon DEF Ring
    <3> QED BY <3>1, <1>8
  <2>2. q.chains[s].about \in Buffers /\ q.chains[s].about # b
    BY <2>1, <1>9, <1>10
  <2> QED BY <2>1, <2>2, <1>11
<1>13. RxFilled(p, mem', h)
  <2>1. RxEntry(r, mem'[q.chains[t].about], h)
    BY <1>5, <1>6, <1>11 DEF RxEntry
  <2>2. PICK m, o : m = mem' /\ o = mem
    OBVIOUS
  <2>3. /\ RxFilled(q, o, h) /\ RxEntry(r, m[q.chains[t].about], h)
        /\ \A i \in 1 .. Len(q.used) : m[q.chains[q.used[i].tok].about] = o[q.chains[q.used[i].tok].about]
    BY <2>1, <2>2, <1>1, <1>12
  <2>4. RxFilled(p, m, h)
    BY <2>3, <1>7, FilledUse
  <2> QED BY <2>2, <2>4
<1>14. RxRound(p, rx_buffers, idx, user)
  BY <1>1, <1>7, RoundUse
<1>15. RxHeld(user, packet_len, mem', h)
  <2>1. \A c \in user : c \in Buffers /\ c # b
    BY <1>1, <1>10 DEF RxTyped
  <2> QED BY <2>1, <1>1, <1>11 DEF RxHeld
<1>16. RxTyped'
  BY <1>1, <1>3, <1>6, <1>11 DEF RxTyped, NetToks, Buffers, Frame
<1>17. RxCounted' /\ DeviceHdr' = h
  <2>a. r \notin Runt
    BY <1>6, <1>q DEF Runt
  <2>1. PICK B : B = Runt /\ r \notin B
    BY <2>a
  <2>2. Good(p, B) = Good(q, B)
    BY <2>1, <1>7, GoodUse
  <2>3. Runt' = B /\ DeviceHdr' = h
    BY <2>1, <1>3, <1>q DEF Runt, DeviceHdr
  <2> QED BY <2>1, <2>2, <2>3, <1>1, <1>3, <1>q DEF RxCounted
<1> QED BY <1>3, <1>13, <1>14, <1>15, <1>16, <1>17, <1>q DEF RxInd

\* A length below that of the header costs a buffer, which is counted.
LEMMA RuntKeeps ==
    ASSUME Counting, RxInd, NetworkAssumption, DeviceRunt
    PROVE  RxInd'
<1>q. PICK q, p, h, r : q = rxq /\ p = rxq' /\ h = DeviceHdr /\ r = DeviceHdr - 1
  OBVIOUS
<1>1. /\ RxTyped /\ RxCounted /\ RxRound(q, rx_buffers, idx, user) /\ RxFilled(q, mem, h)
      /\ RxHeld(user, packet_len, mem, h) /\ Ring(q, NetToks, Nat) /\ runts \in Nat /\ user \in SUBSET Buffers
  BY <1>q DEF RxInd, RxRound, RxTyped
<1>2. h \in Nat \ {0}
  BY <1>1, <1>q, Headers DEF RxTyped
<1>3. PICK t \in Held(q) :
        /\ runts' = runts + 1 /\ p = Use(q, t, r)
        /\ UNCHANGED <<version1, rx_buffers, mem, user, idx, packet_len, frames>>
  BY <1>q DEF DeviceRunt
<1>4. r \in Nat /\ runts + 1 \in Nat /\ r = h - 1
  BY <1>1, <1>2, <1>q, SMTT(30)
<1>5. Ring(p, NetToks, Nat) /\ Filled(p, q, t, r)
  BY <1>1, <1>3, <1>4, RingUse
<1>6. RxFilled(p, mem, h)
  <2>1. RxEntry(r, mem[q.chains[t].about], h)
    BY <1>4 DEF RxEntry
  <2>2. PICK m : m = mem
    OBVIOUS
  <2>3. RxFilled(q, m, h) /\ RxEntry(r, m[q.chains[t].about], h)
    BY <2>1, <2>2, <1>1
  <2>4. RxFilled(p, m, h)
    BY <2>3, <1>5, FilledUse
  <2> QED BY <2>2, <2>4
<1>7. RxRound(p, rx_buffers, idx, user)
  BY <1>1, <1>5, RoundUse
<1>8. PICK B, G, H : B = Runt /\ G = Good(q, B) /\ H = Good(p, B)
  OBVIOUS
<1>9. t \in G /\ H = G \ {t}
  <2>1. r \in B
    BY <1>8, <1>q DEF Runt
  <2> QED BY <2>1, <1>5, <1>8, GoodUse, SMTT(30)
<1>10. IsFiniteSet(G) /\ IsFiniteSet(user)
  BY <1>1, <1>8, NetFinite
<1>11. RxCounted' /\ DeviceHdr' = h
  <2>1. Cardinality(G) \in Nat /\ Cardinality(H) = Cardinality(G) - 1
    BY <1>9, <1>10, OneLess
  <2>2. PICK n : n = Cardinality(user)
    OBVIOUS
  <2>3. n \in Nat
    BY <2>2, <1>10, FiniteSub
  <2>4. Cardinality(G) + n = NetSize - runts /\ NetSize \in Nat
    BY <2>2, <1>1, <1>8, <1>q DEF RxCounted, NetworkAssumption
  <2>5. PICK g \in Nat : g = Cardinality(G) /\ Cardinality(H) = g - 1 /\ g + n = NetSize - runts
    BY <2>1, <2>4
  <2>6. (g - 1) + n = NetSize - (runts + 1)
    BY <2>3, <2>4, <2>5, <1>1, SMTT(30)
  <2>7. Runt' = B /\ DeviceHdr' = h
    BY <1>3, <1>8, <1>q DEF Runt, DeviceHdr
  <2> QED BY <2>2, <2>5, <2>6, <2>7, <1>3, <1>8, <1>q DEF RxCounted
<1>12. RxTyped'
  BY <1>1, <1>3, <1>4 DEF RxTyped, NetToks, Buffers, Frame
<1> QED BY <1>1, <1>3, <1>6, <1>7, <1>11, <1>12, <1>q DEF RxInd

LEMMA NetworkInitially ==
    ASSUME Counting, NetworkAssumption, NetInit
    PROVE  NetworkInd
<1>1. NetSize \in Nat \ {0}
  BY DEF NetworkAssumption
<1>2. PICK f : f = [t \in NetToks |-> t + 1]
  OBVIOUS
<1>3. /\ version1 \in BOOLEAN /\ rxq = Posted /\ rx_buffers = f /\ user = {} /\ runts = 0 /\ frames = 0 /\ sends = 0
      /\ idx = [b \in Buffers |-> b - 1] /\ packet_len = [b \in Buffers |-> 0]
      /\ mem = [b \in Buffers |-> [frame |-> 0, len |-> 0, hdr |-> 0]]
      /\ txq = NewVirtQueue(NetSize, FALSE) /\ wire = <<>>
  BY <1>2 DEF NetInit, NetToks
<1>4. rxq = PostedQueue(NetSize, f)
  <2>1. \A t \in NetToks : f[t] = t + 1
    BY <1>2
  <2>2. [t \in 0 .. NetSize - 1 |-> [descs |-> <<t>>, about |-> t + 1]] = [t \in 0 .. NetSize - 1 |-> [descs |-> <<t>>, about |-> f[t]]]
    BY <2>1 DEF NetToks
  <2> QED BY <2>2, <1>3 DEF Posted, PostedQueue
<1>5. AllPosted(rxq, NetSize, f)
  BY <1>4, PostedFields
<1>6. Ring(rxq, NetToks, Nat) /\ Len(rxq.used) = 0
  BY <1>5, PostedRing DEF NetToks
<1>7. DOMAIN rxq.chains = NetToks /\ \A t \in NetToks : rxq.chains[t].about = t + 1
  BY <1>2, <1>5 DEF AllPosted, NetToks
<1>8. /\ \A t \in NetToks : t + 1 \in Buffers /\ (t + 1) - 1 = t
      /\ \A b \in Buffers : b - 1 \in NetToks
      /\ 0 \in Nat /\ 1 .. 0 = {}
  BY <1>1, SMTT(30) DEF NetToks, Buffers
<1>9. RxTyped
  <2>1. f \in [NetToks -> Buffers \cup {NoBuffer}] /\ idx \in [Buffers -> NetToks] /\ packet_len \in [Buffers -> Nat]
    BY <1>2, <1>3, <1>8
  <2>2. [frame |-> 0, len |-> 0, hdr |-> 0] \in Frame
    BY SMTT(30) DEF Frame
  <2>3. mem \in [Buffers -> Frame]
    BY <2>2, <1>3
  <2> QED BY <2>1, <2>3, <1>3, <1>8 DEF RxTyped
<1>10. RxRound(rxq, rx_buffers, idx, user)
  <2>1. ASSUME NEW t \in NetToks
        PROVE  /\ rxq.chains[t].about \in Buffers /\ rxq.chains[t].about \notin user
               /\ idx[rxq.chains[t].about] = t /\ rx_buffers[t] = rxq.chains[t].about
    <3>1. rxq.chains[t].about = t + 1 /\ t + 1 \in Buffers
      BY <1>7, <1>8
    <3>2. idx[t + 1] = t /\ rx_buffers[t] = t + 1
      BY <3>1, <1>2, <1>3, <1>8
    <3> QED BY <3>1, <3>2, <1>3
  <2> QED BY <2>1, <1>6, <1>7, Zenon DEF RxRound
<1>11. RxFilled(rxq, mem, DeviceHdr) /\ RxHeld(user, packet_len, mem, DeviceHdr)
  BY <1>3, <1>6, <1>8 DEF RxFilled, RxHeld
<1>12. RxCounted
  <2>1. Cardinality(Good(rxq, Runt)) = NetSize
    BY <1>1, <1>6, <1>7, PostedGood DEF NetToks
  <2>2. Cardinality(user) = 0
    BY <1>3, NoneThere
  <2>3. NetSize + 0 = NetSize - 0
    BY <1>1, SMTT(30)
  <2> QED BY <2>1, <2>2, <2>3, <1>3 DEF RxCounted
<1>13. TxWhole(txq, DeviceHdr)
  <2>1. IsQueue(txq) /\ txq.chains = NoChains
    BY <1>3, SMTT(30) DEF NewVirtQueue, IsQueue
  <2>2. DOMAIN NoChains = {}
    BY DEF NoChains
  <2> QED BY <2>1, <2>2 DEF TxWhole
<1>14. Sent(wire)
  BY <1>3, SMTT(30) DEF Sent
<1> QED BY <1>3, <1>8, <1>9, <1>10, <1>11, <1>12, <1>13, <1>14 DEF NetworkInd, RxInd, TxInd

LEMMA NetworkStep ==
    ASSUME Counting, NetworkInd, NetworkAssumption, [NetNext]_netVars
    PROVE  NetworkInd'
<1>1. RxInd /\ TxInd
  BY DEF NetworkInd
<1>2. CASE UNCHANGED netVars
  <2>1. UNCHANGED <<version1, rxq, rx_buffers, mem, user, idx, packet_len, frames, runts, txq, wire, sends>>
    BY <1>2 DEF netVars, rx
  <2>2. UNCHANGED DeviceHdr
    BY <2>1 DEF DeviceHdr
  <2>3. RxInd'
    BY <2>1, <2>2, <1>1 DEF RxInd, RxTyped, RxCounted, Runt
  <2>4. TxInd'
    BY <2>1, <2>2, <1>1 DEF TxInd
  <2> QED BY <2>3, <2>4 DEF NetworkInd
<1>3. CASE Receive \/ RecycleRxBuffer \/ DeviceDelivers \/ DeviceRunt
  <2>1. RxInd'
    BY <1>1, <1>3, ReceiveKeeps, RecycleKeeps, DeliverKeeps, RuntKeeps
  <2>2. UNCHANGED <<version1, txq, wire, sends>>
    BY <1>3 DEF Receive, RecycleRxBuffer, DeviceDelivers, DeviceRunt
  <2>3. TxInd'
    BY <2>2, <1>1 DEF TxInd, DeviceHdr
  <2> QED BY <2>1, <2>3 DEF NetworkInd
<1>4. CASE TransmitBegin \/ TransmitComplete \/ Send \/ SendReturns \/ DeviceSends
  BY <1>4, TransmitKeeps
<1> QED BY <1>2, <1>3, <1>4 DEF NetNext

-----------------------------------------------------------------------------
(******************************** theorems *********************************)

INSTANCE FiniteSetTheorems

\* The facts about cardinalities that were assumed so far hold.
LEMMA CountingHolds == Counting
<1>1. ASSUME NEW G, IsFiniteSet(G), NEW t, t \notin G
      PROVE  /\ IsFiniteSet(G \cup {t}) /\ Cardinality(G) \in Nat
             /\ Cardinality(G \cup {t}) = Cardinality(G) + 1
  BY <1>1, FS_CardinalityType, FS_AddElement
<1>2. ASSUME NEW G, IsFiniteSet(G), NEW t \in G
      PROVE  /\ IsFiniteSet(G \ {t}) /\ Cardinality(G) \in Nat
             /\ Cardinality(G \ {t}) = Cardinality(G) - 1
  BY <1>2, FS_CardinalityType, FS_RemoveElement
<1>3. ASSUME NEW S, IsFiniteSet(S), NEW T \in SUBSET S
      PROVE  IsFiniteSet(T) /\ Cardinality(T) \in Nat /\ Cardinality(T) <= Cardinality(S)
  BY <1>3, FS_Subset, FS_CardinalityType
<1>4. ASSUME NEW n \in Nat
      PROVE  IsFiniteSet(0 .. n - 1) /\ Cardinality(0 .. n - 1) = n /\ IsFiniteSet(1 .. n)
  <2>1. 0 \in Int /\ 1 \in Int /\ n - 1 \in Int /\ n \in Int
    BY SMTT(30)
  <2>2. IsFiniteSet(0 .. n - 1) /\ IsFiniteSet(1 .. n)
    BY <2>1, FS_Interval
  <2>3. PICK a, b \in Int : a = 0 /\ b = n - 1
    BY <2>1
  <2>4. Cardinality(a .. b) = IF a > b THEN 0 ELSE b - a + 1
    BY FS_Interval
  <2>5. (IF a > b THEN 0 ELSE b - a + 1) = n
    BY <2>3, SMTT(30)
  <2> QED BY <2>2, <2>3, <2>4, <2>5
<1>5. Cardinality({}) = 0
  BY FS_EmptySet
<1> QED BY <1>1, <1>2, <1>3, <1>4, <1>5, Zenon DEF Counting

\* VirtIOInput, and the queues of events of VirtIOSound and VirtIOSocket, hand out the
\* events of the device once each and in its order, post each buffer again under the token
\* it had, lose only buffers whose length was overlong, and read a configuration value whole
\* or not at all: for any queue size, in whatever order the device fills the buffers.
THEOREM EventsKept ==
    ASSUME EventsAssumption
    PROVE  EventsSpec => []InputInOrder
<1>1. EventsInit => EventsInd
  BY EventsInitially, CountingHolds
<1>2. EventsInd /\ [EventsNext]_eventsVars => EventsInd'
  BY EventsStep, CountingHolds
<1>3. EventsInd => InputInOrder
  <2> SUFFICES ASSUME EventsInd PROVE InputInOrder
    OBVIOUS
  <2>1. EventsInOrder
    BY DEF EventsInd, EventsRound, EventsInOrder
  <2>2. pc = 1 => Cardinality(DOMAIN queue.chains) >= EventSize - overlong
    <3>1. PICK R, B : R = {"ok", "overlong"} /\ B = Overlong
      OBVIOUS
    <3>2. Ring(queue, Tokens, R)
      BY <3>1 DEF EventsInd, BuffersRound
    <3>3. /\ Cardinality(Good(queue, B)) \in Nat /\ Cardinality(DOMAIN queue.chains) \in Nat
          /\ Cardinality(Good(queue, B)) <= Cardinality(DOMAIN queue.chains)
      BY <3>2, FiniteTo, GoodFinite, CountingHolds DEF EventsAssumption, Tokens
    <3>4. pc = 1 => Cardinality(Good(queue, B)) + 0 = EventSize - overlong
      BY <3>1 DEF EventsInd, BuffersRound
    <3>5. PICK g, d \in Nat : g = Cardinality(Good(queue, B)) /\ d = Cardinality(DOMAIN queue.chains) /\ g <= d
      BY <3>3
    <3>6. overlong \in Nat /\ EventSize \in Nat
      BY DEF EventsInd, EventsAssumption
    <3> QED BY <3>4, <3>5, <3>6, SMTT(30)
  <2>3. TokensKept
    BY <2>2 DEF EventsInd, BuffersRound, TokensKept
  <2> QED BY <2>1, <2>3 DEF EventsInd, InputInOrder
<1> QED BY <1>1, <1>2, <1>3, PTL DEF EventsSpec

\* VirtIONet keeps its table of receive buffers and its receive queue in step, whatever the
\* order in which packets arrive and their buffers are recycled: a buffer is with the device
\* under its own token or with the owner, never both, and is lost only to a packet shorter
\* than its header; and with either header packets are received and sent whole.
THEOREM PacketsKept ==
    ASSUME NetworkAssumption
    PROVE  NetSpec => []PacketsIntact
<1>1. NetInit => NetworkInd
  BY NetworkInitially, CountingHolds
<1>2. NetworkInd /\ [NetNext]_netVars => NetworkInd'
  BY NetworkStep, CountingHolds
<1>3. NetworkInd => PacketsIntact
  <2> SUFFICES ASSUME NetworkInd PROVE PacketsIntact
    OBVIOUS
  <2>1. /\ RxTyped /\ RxCounted /\ RxRound(rxq, rx_buffers, idx, user) /\ Ring(rxq, NetToks, Nat)
        /\ RxHeld(user, packet_len, mem, DeviceHdr) /\ Sent(wire)
    BY DEF NetworkInd, RxInd, TxInd, RxRound
  <2>2. /\ \A t \in DOMAIN rxq.chains : rx_buffers[t] = rxq.chains[t].about
        /\ \A t \in DOMAIN rxq.chains : rxq.chains[t].about \notin user
    BY <2>1 DEF RxRound
  <2>3. \A t \in DOMAIN rx_buffers : rx_buffers[t] # NoBuffer => t \in DOMAIN rxq.chains
    <3>1. DOMAIN rx_buffers = NetToks
      BY <2>1 DEF RxTyped
    <3> QED BY <3>1, <2>1 DEF RxRound
  <2>4. Cardinality(DOMAIN rxq.chains) + Cardinality(user) >= NetSize - runts
    <3>1. PICK B : B = Runt
      OBVIOUS
    <3>2. IsFiniteSet(NetToks)
      BY FiniteTo, CountingHolds DEF NetworkAssumption, NetToks
    <3>3. /\ Cardinality(Good(rxq, B)) \in Nat /\ Cardinality(DOMAIN rxq.chains) \in Nat
          /\ Cardinality(Good(rxq, B)) <= Cardinality(DOMAIN rxq.chains)
      BY <3>2, <2>1, GoodFinite, CountingHolds
    <3>4. IsFiniteSet(user) /\ runts \in Nat /\ NetSize \in Nat
      BY <2>1, NetFinite, CountingHolds DEF RxTyped, NetworkAssumption
    <3>5. Cardinality(user) \in Nat
      BY <3>4, FiniteSub, CountingHolds
    <3>6. Cardinality(Good(rxq, B)) + Cardinality(user) = NetSize - runts
      BY <3>1, <2>1 DEF RxCounted
    <3>7. PICK g, d, n \in Nat : /\ g = Cardinality(Good(rxq, B)) /\ d = Cardinality(DOMAIN rxq.chains) /\ g <= d
                                 /\ n = Cardinality(user) /\ g + n = NetSize - runts
      BY <3>3, <3>5, <3>6
    <3>8. d + n >= NetSize - runts
      BY <3>4, <3>7, SMTT(30)
    <3> QED BY <3>7, <3>8
  <2>5. BuffersOwned
    BY <2>2, <2>3, <2>4 DEF BuffersOwned
  <2>6. HdrSize(legacy_header) = DeviceHdr
    BY <2>1, Headers DEF RxTyped
  <2>7. \A b \in user : Packet(b) = [frame |-> mem[b].frame, len |-> mem[b].len]
    BY <2>1, <2>6 DEF RxHeld, Packet
  <2>8. FramesWhole
    BY <2>1, <2>7 DEF FramesWhole, Sent
  <2> QED BY <2>5, <2>8 DEF PacketsIntact
<1> QED BY <1>1, <1>2, <1>3, PTL DEF NetSpec
=============================================================================
