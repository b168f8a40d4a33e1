--------------------------- MODULE DistinctSeqs ---------------------------
(***************************************************************************)
(* Sequences without repetition, as queues of things that are in one place *)
(* at a time, and what the queue operations do to the set of elements.     *)
(***************************************************************************)
EXTENDS Integers, Sequences, Functions, TLAPS

\* Zenon first: the leaves that need arithmetic, records or sequences name SMT.
USE ZenonT(30), SMTT(30)

Distinct(s) == \A i, j \in 1 .. Len(s) : s[i] = s[j] => i = j

\* Append adds one element, and keeps distinct elements distinct if it is new
\* (ArrayQueue::push, SegQueue::push).
LEMMA AppendRange ==
    ASSUME NEW S, NEW s \in Seq(S), NEW e \in S
    PROVE  /\ Append(s, e) \in Seq(S) /\ Len(Append(s, e)) = Len(s) + 1
           /\ Range(Append(s, e)) = Range(s) \cup {e}
           /\ Append(s, e) # <<>>
           /\ Distinct(s) /\ e \notin Range(s) => Distinct(Append(s, e))
<1> DEFINE u == Append(s, e)
<1>1. u \in Seq(S) /\ Len(u) = Len(s) + 1 /\ u # <<>>
  <2>1. u \in Seq(S) /\ Len(u) = Len(s) + 1 /\ Len(s) \in Nat
    BY SMTT(30)
  <2> HIDE DEF u
  <2> QED BY <2>1, SMTT(30)
<1>2. \A i \in 1 .. Len(s) : u[i] = s[i]
  BY SMTT(30)
<1>3. u[Len(s) + 1] = e
  BY SMTT(30)
<1>4. Len(s) \in Nat /\ DOMAIN s = 1 .. Len(s) /\ DOMAIN u = 1 .. Len(s) + 1
  BY <1>1, SMTT(30)
<1> HIDE DEF u
<1>5. Range(u) = Range(s) \cup {e}
  <2>1. ASSUME NEW x \in Range(u) PROVE x \in Range(s) \cup {e}
    <3>1. PICK i \in 1 .. Len(s) + 1 : x = u[i]
      BY <1>4 DEF Range
    <3>2. CASE i \in 1 .. Len(s)
      BY <3>1, <3>2, <1>2, <1>4 DEF Range
    <3>3. CASE i = Len(s) + 1
      BY <3>1, <3>3, <1>3
    <3> QED BY <3>2, <3>3, <1>4, SMTT(30)
  <2>2. ASSUME NEW x \in Range(s) PROVE x \in Range(u)
    <3>1. PICK i \in 1 .. Len(s) : x = s[i]
      BY <1>4 DEF Range
    <3>2. i \in 1 .. Len(s) + 1 /\ x = u[i]
      BY <3>1, <1>2, <1>4, SMTT(30)
    <3> QED BY <3>2, <1>4 DEF Range
  <2>3. e \in Range(u)
    <3>1. Len(s) + 1 \in 1 .. Len(s) + 1
      BY <1>4, SMTT(30)
    <3> QED BY <3>1, <1>3, <1>4 DEF Range
  <2> QED BY <2>1, <2>2, <2>3
<1>6. ASSUME Distinct(s), e \notin Range(s) PROVE Distinct(u)
  <2> SUFFICES ASSUME NEW i \in 1 .. Len(u), NEW j \in 1 .. Len(u), u[i] = u[j]
               PROVE  i = j
    BY DEF Distinct
  <2>1. \A k \in 1 .. Len(s) : u[k] # e
    BY <1>2, <1>4, <1>6 DEF Range
  <2>2. CASE i \in 1 .. Len(s) /\ j \in 1 .. Len(s)
    BY <2>2, <1>2, <1>6 DEF Distinct
  <2>3. CASE i = Len(s) + 1 \/ j = Len(s) + 1
    BY <2>3, <2>1, <1>1, <1>3, <1>4, SMTT(30)
  <2> QED BY <2>2, <2>3, <1>1, <1>4, SMTT(30)
<1> QED BY <1>1, <1>5, <1>6 DEF u

\* Tail removes the head and nothing else when the elements are distinct
\* (ArrayQueue::pop, SegQueue::pop).
LEMMA TailRange ==
    ASSUME NEW S, NEW s \in Seq(S), s # <<>>, Distinct(s)
    PROVE  /\ Head(s) \in S /\ Head(s) \in Range(s)
           /\ Tail(s) \in Seq(S) /\ Len(Tail(s)) = Len(s) - 1
           /\ Range(Tail(s)) = Range(s) \ {Head(s)}
           /\ Distinct(Tail(s))
<1> DEFINE u == Tail(s)
<1>1. u \in Seq(S) /\ Len(u) = Len(s) - 1 /\ Len(s) \in Nat \ {0}
  BY SMTT(30)
<1>2. \A i \in 1 .. Len(u) : u[i] = s[i + 1]
  BY SMTT(30)
<1>3. Head(s) = s[1] /\ Head(s) \in S
  BY <1>1, SMTT(30)
<1>4. DOMAIN s = 1 .. Len(s) /\ DOMAIN u = 1 .. Len(u)
  BY <1>1, SMTT(30)
<1> HIDE DEF u
<1>5. Head(s) \in Range(s)
  BY <1>1, <1>3, <1>4, SMTT(30) DEF Range
<1>6. Range(u) = Range(s) \ {Head(s)}
  <2>1. ASSUME NEW x \in Range(u) PROVE x \in Range(s) \ {Head(s)}
    <3>1. PICK i \in 1 .. Len(u) : x = u[i]
      BY <1>4 DEF Range
    <3>2. i + 1 \in 1 .. Len(s) /\ 1 \in 1 .. Len(s) /\ i + 1 # 1 /\ x = s[i + 1]
      BY <3>1, <1>1, <1>2, SMTT(30)
    <3> QED BY <3>2, <1>3, <1>4 DEF Range, Distinct
  <2>2. ASSUME NEW x \in Range(s), x # Head(s) PROVE x \in Range(u)
    <3>1. PICK i \in 1 .. Len(s) : x = s[i]
      BY <1>4 DEF Range
    <3>2. i # 1
      BY <3>1, <2>2, <1>3
    <3>3. i - 1 \in 1 .. Len(u) /\ x = u[i - 1]
      BY <3>1, <3>2, <1>1, <1>2, SMTT(30)
    <3> QED BY <3>3, <1>4 DEF Range
  <2> QED BY <2>1, <2>2
<1>7. Distinct(u)
  <2> SUFFICES ASSUME NEW i \in 1 .. Len(u), NEW j \in 1 .. Len(u), u[i] = u[j]
               PROVE  i = j
    BY DEF Distinct
  <2>1. i + 1 \in 1 .. Len(s) /\ j + 1 \in 1 .. Len(s) /\ s[i + 1] = s[j + 1]
    BY <1>1, <1>2, SMTT(30)
  <2> QED BY <2>1, SMTT(30) DEF Distinct
<1> QED BY <1>1, <1>3, <1>5, <1>6, <1>7 DEF u

\* Tail of any sequence adds no element.
LEMMA TailSubset ==
    ASSUME NEW S, NEW s \in Seq(S), s # <<>>
    PROVE  /\ Head(s) \in S /\ Head(s) \in Range(s)
           /\ Tail(s) \in Seq(S) /\ Range(Tail(s)) \subseteq Range(s)
<1>u. PICK u : u = Tail(s)
  OBVIOUS
<1>1. /\ u \in Seq(S) /\ Len(s) \in Nat \ {0} /\ DOMAIN s = 1 .. Len(s)
      /\ DOMAIN u = 1 .. Len(s) - 1 /\ \A i \in 1 .. Len(s) - 1 : u[i] = s[i + 1]
  BY <1>u, SMTT(30)
<1>2. Head(s) = s[1] /\ s[1] \in S /\ 1 \in DOMAIN s
  BY <1>1, SMTT(30)
<1>3. \A i \in DOMAIN u : i + 1 \in DOMAIN s /\ u[i] = s[i + 1]
  BY <1>1, SMTT(30)
<1> QED BY <1>u, <1>1, <1>2, <1>3, SMTT(30) DEF Range

\* The first n elements of a sequence, and the others.
FirstPart(s, n) == SubSeq(s, 1, n)
LastPart(s, n) == SubSeq(s, n + 1, Len(s))

\* The two parts of a sequence without repetition share no element
\* (VirtQueue::add takes the first descriptors of the free list).
LEMMA SplitRange ==
    ASSUME NEW S, NEW s \in Seq(S), Distinct(s), NEW n \in 1 .. Len(s)
    PROVE  /\ FirstPart(s, n) \in Seq(S) /\ LastPart(s, n) \in Seq(S)
           /\ Distinct(FirstPart(s, n)) /\ Distinct(LastPart(s, n))
           /\ FirstPart(s, n) # <<>> /\ Len(FirstPart(s, n)) = n /\ Head(FirstPart(s, n)) = Head(s)
           /\ Range(FirstPart(s, n)) \cap Range(LastPart(s, n)) = {}
           /\ Range(FirstPart(s, n)) \cup Range(LastPart(s, n)) = Range(s)
<1>a. PICK a : a = FirstPart(s, n)
  OBVIOUS
<1>b. PICK b : b = LastPart(s, n)
  OBVIOUS
<1>l. PICK l \in Nat : l = Len(s)
  BY SMTT(30)
<1>1. n \in Nat /\ 1 <= n /\ n <= l /\ DOMAIN s = 1 .. l
  BY <1>l, SMTT(30)
<1>2. /\ a \in Seq(S) /\ Len(a) = n /\ DOMAIN a = 1 .. n
      /\ \A i \in 1 .. n : a[i] = s[i]
  BY <1>a, <1>1, <1>l, SMTT(30) DEF FirstPart
<1>c. b = SubSeq(s, n + 1, Len(s))
  BY <1>b DEF LastPart
<1>3. /\ b \in Seq(S) /\ Len(b) = l - n /\ DOMAIN b = 1 .. l - n
      /\ \A i \in 1 .. l - n : b[i] = s[i + n]
  <2>1. n + 1 \in 1 .. l + 1 /\ \A i \in n + 1 .. l : i \in 1 .. Len(s)
    BY <1>1, <1>l, SMTT(30)
  <2>2. b \in Seq(S) /\ Len(b) = IF n + 1 <= l THEN l - (n + 1) + 1 ELSE 0
    <3>1. \A i \in n + 1 .. l : s[i] \in S
      BY <2>1, SMTT(30)
    <3> QED BY <1>c, <1>1, <1>l, <3>1, SMTT(30)
  <2>4. Len(b) = l - n
    BY <1>1, <2>2, SMTT(30)
  <2>3. ASSUME NEW i \in 1 .. l - n PROVE b[i] = s[i + n]
    BY <1>c, <1>1, <1>l, <2>1, SMTT(30)
  <2> QED BY <2>2, <2>3, <2>4, SMTT(30)
<1>4. a # <<>> /\ Head(a) = Head(s)
  BY <1>1, <1>2, <1>l, SMTT(30)
<1>5. Distinct(a)
  BY <1>1, <1>2, <1>l, SMTT(30) DEF Distinct
<1>d. \A x, y \in 1 .. l : s[x] = s[y] => x = y
  BY <1>l DEF Distinct
<1>6. Distinct(b)
  <2> SUFFICES ASSUME NEW i \in 1 .. l - n, NEW j \in 1 .. l - n, b[i] = b[j] PROVE i = j
    BY <1>3 DEF Distinct
  <2>1. i + n \in 1 .. l /\ j + n \in 1 .. l /\ s[i + n] = s[j + n]
    BY <1>1, <1>3, SMTT(30)
  <2>2. i + n = j + n
    BY <2>1, <1>d
  <2> QED BY <2>2, <1>1, SMTT(30)
<1>7. Range(a) \cap Range(b) = {}
  <2> SUFFICES ASSUME NEW i \in 1 .. n, NEW j \in 1 .. l - n, a[i] = b[j] PROVE FALSE
    BY <1>2, <1>3, SMTT(30) DEF Range
  <2>1. i \in 1 .. l /\ j + n \in 1 .. l /\ s[i] = s[j + n]
    BY <1>1, <1>2, <1>3, SMTT(30)
  <2>2. i = j + n
    BY <2>1, <1>d
  <2> QED BY <2>2, <1>1, SMTT(30)
<1>8. Range(a) \cup Range(b) = Range(s)
  <2>1. ASSUME NEW i \in 1 .. n PROVE a[i] \in Range(s)
    BY <1>1, <1>2, SMTT(30) DEF Range
  <2>2. ASSUME NEW i \in 1 .. l - n PROVE b[i] \in Range(s)
    <3>1. i + n \in 1 .. l
      BY <1>1, SMTT(30)
    <3> QED BY <3>1, <1>1, <1>3 DEF Range
  <2>3. ASSUME NEW i \in 1 .. l PROVE s[i] \in Range(a) \cup Range(b)
    <3>1. CASE i <= n
      <4>1. i \in 1 .. n
        BY <3>1, <1>1, SMTT(30)
      <4> QED BY <4>1, <1>2 DEF Range
    <3>2. CASE ~(i <= n)
      <4>1. i - n \in 1 .. l - n /\ (i - n) + n = i
        BY <3>2, <1>1, SMTT(30)
      <4> QED BY <4>1, <1>3 DEF Range
    <3> QED BY <3>1, <3>2
  <2>4. Range(a) \subseteq Range(s)
    BY <2>1, <1>2 DEF Range
  <2>5. Range(b) \subseteq Range(s)
    BY <2>2, <1>3 DEF Range
  <2>6. Range(s) \subseteq Range(a) \cup Range(b)
    <3> SUFFICES ASSUME NEW x \in Range(s) PROVE x \in Range(a) \cup Range(b)
      OBVIOUS
    <3>1. PICK i \in 1 .. l : x = s[i]
      BY <1>1 DEF Range
    <3> QED BY <3>1, <2>3
  <2> QED BY <2>4, <2>5, <2>6
<1> QED BY <1>a, <1>b, <1>2, <1>3, <1>4, <1>5, <1>6, <1>7, <1>8

\* Two sequences that share no element are joined (recycle_descriptors).
LEMMA ConcatRange ==
    ASSUME NEW S, NEW a \in Seq(S), NEW b \in Seq(S)
    PROVE  /\ a \o b \in Seq(S) /\ Range(a \o b) = Range(a) \cup Range(b)
           /\ Distinct(a) /\ Distinct(b) /\ Range(a) \cap Range(b) = {} => Distinct(a \o b)
<1>s. PICK s : s = a \o b
  OBVIOUS
<1>n. PICK n \in Nat : n = Len(a)
  BY SMTT(30)
<1>m. PICK m \in Nat : m = Len(b)
  BY SMTT(30)
<1>1. /\ s \in Seq(S) /\ Len(s) = n + m /\ DOMAIN s = 1 .. n + m
      /\ DOMAIN a = 1 .. n /\ DOMAIN b = 1 .. m
      /\ \A i \in 1 .. n : s[i] = a[i]
      /\ \A i \in n + 1 .. n + m : s[i] = b[i - n]
  BY <1>s, <1>n, <1>m, SMTT(30)
<1>2. \A i \in DOMAIN s : \/ i \in 1 .. n /\ s[i] = a[i]
                          \/ i \notin 1 .. n /\ i - n \in 1 .. m /\ s[i] = b[i - n]
  BY <1>1, SMTT(30)
<1>3. \A i \in 1 .. m : i + n \in DOMAIN s /\ s[i + n] = b[i]
  <2> TAKE i \in 1 .. m
  <2>1. i + n \in n + 1 .. n + m /\ (i + n) - n = i
    BY SMTT(30)
  <2> QED BY <2>1, <1>1, SMTT(30)
<1>4. Range(s) = Range(a) \cup Range(b)
  <2>1. ASSUME NEW i \in DOMAIN s PROVE s[i] \in Range(a) \cup Range(b)
    BY <1>1, <1>2 DEF Range
  <2>2. ASSUME NEW i \in 1 .. n PROVE a[i] \in Range(s)
    <3>1. i \in DOMAIN s /\ s[i] = a[i]
      BY <1>1, SMTT(30)
    <3> QED BY <3>1 DEF Range
  <2>3. ASSUME NEW i \in 1 .. m PROVE b[i] \in Range(s)
    BY <1>3 DEF Range
  <2> QED BY <2>1, <2>2, <2>3, <1>1, SMTT(30) DEF Range
<1>5. ASSUME Distinct(a), Distinct(b), Range(a) \cap Range(b) = {} PROVE Distinct(s)
  <2> SUFFICES ASSUME NEW i \in DOMAIN s, NEW j \in DOMAIN s, s[i] = s[j] PROVE i = j
    BY <1>1 DEF Distinct
  <2>1. CASE i \in 1 .. n /\ j \in 1 .. n
    BY <2>1, <1>1, <1>5, <1>n, SMTT(30) DEF Distinct
  <2>2. CASE i \notin 1 .. n /\ j \notin 1 .. n
    <3>1. i - n = j - n
      BY <2>2, <1>2, <1>5, <1>m DEF Distinct
    <3> QED BY <3>1, <1>1, SMTT(30)
  <2>3. CASE (i \in 1 .. n) # (j \in 1 .. n)
    <3>1. ASSUME NEW x \in 1 .. n, NEW y \in 1 .. m PROVE a[x] # b[y]
      BY <1>1, <1>5 DEF Range
    <3>2. CASE i \in 1 .. n /\ j \notin 1 .. n
      BY <3>1, <3>2, <1>2
    <3>3. CASE i \notin 1 .. n /\ j \in 1 .. n
      BY <3>1, <3>3, <1>2
    <3> QED BY <3>2, <3>3, <2>3, SMTT(30)
  <2> QED BY <2>1, <2>2, <2>3
<1> QED BY <1>s, <1>1, <1>4, <1>5
=============================================================================
