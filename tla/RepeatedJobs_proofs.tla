------------------------- MODULE RepeatedJobs_proofs -------------------------
(***************************************************************************)
(* Proofs about the repeated jobs of the server loop: whatever is added,   *)
(* run, put off and removed, no job is overlooked and none is late.        *)
(***************************************************************************)
EXTENDS RepeatedJobs, FiniteSetTheorems, SequenceTheorems, WellFoundedInduction, TLAPS

(***************************************************************************)
(* Numbers and lists.                                                      *)
(***************************************************************************)

LEMMA LeastOf ==
  ASSUME NEW S, S \subseteq Nat, S # {}
  PROVE  \E d \in S : \A e \in S : d <= e
<1>1. \E d \in S : \A e \in S : ~(<<e, d>> \in OpToRel(<, Nat))
  BY NatLessThanWellFounded, WFMin
<1>2. PICK d \in S : \A e \in S : ~(<<e, d>> \in OpToRel(<, Nat))
  BY <1>1
<1>3. ASSUME NEW e \in S PROVE d <= e
  <2>1. ~(e < d)
    BY <1>2 DEF OpToRel
  <2> QED BY <2>1
<1> QED BY <1>3

LEMMA MinOf ==
  ASSUME NEW S, S \subseteq Nat, S # {}
  PROVE  Min(S) \in S /\ \A e \in S : Min(S) <= e
BY LeastOf DEF Min

LEMMA MaxOf ==
  ASSUME NEW n \in Nat, NEW S, S \subseteq 1 .. n, S # {}
  PROVE  Max(S) \in S /\ \A e \in S : Max(S) >= e
<1> DEFINE T == {n - k : k \in S}
<1>1. T \subseteq Nat /\ T # {}
  <2>1. \A k \in S : n - k \in Nat
    OBVIOUS
  <2> QED BY <2>1
<1>2. PICK d \in T : \A e \in T : d <= e
  BY <1>1, LeastOf
<1>3. PICK k \in S : d = n - k
  BY <1>2
<1>4. \A e \in S : k >= e
  <2>1. TAKE e \in S
  <2>2. n - k <= n - e
    BY <1>2, <1>3
  <2> QED BY <2>2
<1> QED BY <1>4 DEF Max

LEMMA ElementsOfSeq ==
  ASSUME NEW S, NEW list \in Seq(S)
  PROVE  DOMAIN list = 1 .. Len(list) /\ Len(list) \in Nat /\ \A k \in DOMAIN list : list[k] \in S
OBVIOUS

LEMMA ListType ==
  ASSUME JobsAssumption, NEW list \in Seq(Job)
  PROVE  /\ DOMAIN list = 1 .. Len(list) /\ Len(list) \in Nat
         /\ \A k \in DOMAIN list :
              /\ list[k] \in Job
              /\ list[k].id \in JobIds /\ list[k].next \in Nat
              /\ list[k].interval \in Intervals /\ list[k].interval \in Nat
<1>1. /\ DOMAIN list = 1 .. Len(list) /\ Len(list) \in Nat
      /\ \A k \in DOMAIN list : list[k] \in Job
  BY ElementsOfSeq
<1>2. \A job \in Job : job.id \in JobIds /\ job.next \in Nat /\ job.interval \in Intervals
  BY DEF Job
<1> QED BY <1>1, <1>2 DEF JobsAssumption

LEMMA PlaceIs ==
  ASSUME NEW list, Distinct(list), NEW k \in DOMAIN list
  PROVE  Place(list, list[k].id) = k
BY DEF Place, Distinct

Sorted(list) == \A i, k \in DOMAIN list : i <= k => list[i].next <= list[k].next

(***************************************************************************)
(* Jobs are removed from a list.                                           *)
(***************************************************************************)

\* r is what is left of the first n of list, each at place e[k] of list.
IsPart(e, r, list, n, ids) ==
  /\ r \in Seq(Job)
  /\ \A k \in DOMAIN r : /\ e[k] \in 1 .. n /\ r[k] = list[e[k]]
                         /\ list[e[k]].id \notin ids
  /\ \A i, k \in DOMAIN r : i < k => e[i] < e[k]
  /\ \A m \in 1 .. n : list[m].id \notin ids => \E k \in DOMAIN r : e[k] = m

LEMMA PartGrows ==
  ASSUME NEW list \in Seq(Job), NEW ids, NEW n \in 1 .. Len(list),
         NEW e, NEW r, IsPart(e, r, list, n - 1, ids), list[n].id \notin ids
  PROVE  \E f : IsPart(f, Append(r, list[n]), list, n, ids)
<1> DEFINE new == Append(r, list[n])
           f == [k \in 1 .. Len(r) + 1 |-> IF k = Len(r) + 1 THEN n ELSE e[k]]
<1>1. r \in Seq(Job) /\ Len(r) \in Nat /\ DOMAIN r = 1 .. Len(r) /\ n \in Nat /\ list[n] \in Job
  BY ElementsOfSeq DEF IsPart
<1>2. /\ new \in Seq(Job) /\ DOMAIN new = 1 .. Len(r) + 1
      /\ \A k \in 1 .. Len(r) : new[k] = r[k]
      /\ new[Len(r) + 1] = list[n]
  BY <1>1
<1> HIDE DEF new
<1>3. /\ f[Len(r) + 1] = n
      /\ \A k \in DOMAIN r : f[k] = e[k] /\ e[k] \in 1 .. n - 1
  BY <1>1 DEF IsPart
<1> HIDE DEF f
<1>4. ASSUME NEW k \in DOMAIN new
      PROVE  f[k] \in 1 .. n /\ new[k] = list[f[k]] /\ list[f[k]].id \notin ids
  <2>1. CASE k = Len(r) + 1
    BY <1>1, <1>2, <1>3, <2>1
  <2>2. CASE k \in DOMAIN r
    BY <1>1, <1>2, <1>3, <2>2 DEF IsPart
  <2> QED BY <1>1, <1>2, <2>1, <2>2
<1>5. ASSUME NEW i \in DOMAIN new, NEW k \in DOMAIN new, i < k
      PROVE  f[i] < f[k]
  <2>1. i \in DOMAIN r
    BY <1>1, <1>2, <1>5
  <2>2. CASE k = Len(r) + 1
    BY <1>1, <1>3, <2>1, <2>2
  <2>3. CASE k \in DOMAIN r
    BY <1>3, <1>5, <2>1, <2>3 DEF IsPart
  <2> QED BY <1>1, <1>2, <2>2, <2>3
<1>6. ASSUME NEW m \in 1 .. n, list[m].id \notin ids
      PROVE  \E k \in DOMAIN new : f[k] = m
  <2>1. CASE m = n
    BY <1>1, <1>2, <1>3, <2>1
  <2>2. CASE m \in 1 .. n - 1
    <3>1. PICK k \in DOMAIN r : e[k] = m
      BY <1>6, <2>2 DEF IsPart
    <3> QED BY <1>1, <1>2, <1>3, <3>1
  <2> QED BY <1>1, <2>1, <2>2
<1> QED BY <1>2, <1>4, <1>5, <1>6 DEF IsPart, new

Kept(list, ids, before, k) ==
  IF list[k].id \in ids THEN before ELSE Append(before, list[k])

\* There is a function of what is left of the first k; by contradiction, with the least k for
\* which there is none.
LEMMA WithoutSteps ==
  ASSUME NEW list, Len(list) \in Nat, NEW ids
  PROVE  \E f : /\ f[0] = <<>>
                /\ \A k \in 1 .. Len(list) : f[k] = Kept(list, ids, f[k - 1], k)
                /\ Without(list, ids) = f[Len(list)]
<1> DEFINE Is(f, m) ==
             f = [k \in 0 .. m |-> IF k = 0 THEN <<>> ELSE Kept(list, ids, f[k - 1], k)]
           None == {m \in 0 .. Len(list) : ~ \E f : Is(f, m)}
<1>1. None = {}
  <2>1. SUFFICES ASSUME None # {} PROVE FALSE
    OBVIOUS
  <2>2. None \subseteq Nat
    OBVIOUS
  <2>3. PICK m \in None : \A k \in None : m <= k
    BY <2>1, <2>2, LeastOf
  <2>4. m \in 0 .. Len(list) /\ ~ \E f : Is(f, m)
    BY <2>3
  <2>5. CASE m = 0
    <3> DEFINE g == [k \in 0 .. 0 |-> <<>>]
    <3>1. Is(g, 0)
      OBVIOUS
    <3> QED BY <3>1, <2>4, <2>5
  <2>6. CASE m # 0
    <3>1. m - 1 \in 0 .. Len(list) /\ m - 1 \notin None
      BY <2>3, <2>4, <2>6
    <3>2. PICK g : Is(g, m - 1)
      BY <3>1
    <3> DEFINE h == [k \in 0 .. m |-> IF k < m THEN g[k] ELSE Kept(list, ids, g[m - 1], m)]
    <3>3. \A k \in 0 .. m - 1 : g[k] = IF k = 0 THEN <<>> ELSE Kept(list, ids, g[k - 1], k)
      BY <3>2
    <3>4. ASSUME NEW k \in 0 .. m
          PROVE  h[k] = IF k = 0 THEN <<>> ELSE Kept(list, ids, h[k - 1], k)
      <4>1. CASE k = 0
        <5>1. 0 \in 0 .. m - 1 /\ 0 \in 0 .. m /\ 0 < m
          BY <2>4, <2>6
        <5>2. h[0] = g[0] /\ g[0] = <<>>
          BY <5>1, <3>3
        <5> QED BY <4>1, <5>2
      <4>2. CASE k # 0 /\ k < m
        <5>1. k - 1 \in 0 .. m /\ k - 1 < m /\ k \in 0 .. m - 1
          BY <4>2, <2>4
        <5>2. h[k] = g[k] /\ h[k - 1] = g[k - 1]
          BY <5>1, <4>2
        <5> QED BY <5>1, <5>2, <4>2, <3>3
      <4>3. CASE k = m
        <5>1. m - 1 \in 0 .. m /\ m - 1 < m
          BY <2>4, <2>6
        <5>2. h[m - 1] = g[m - 1] /\ h[m] = Kept(list, ids, g[m - 1], m)
          BY <5>1, <2>4
        <5> QED BY <5>2, <4>3, <2>6
      <4> QED BY <4>1, <4>2, <4>3, <2>4
    <3>5. h = [k \in 0 .. m |-> h[k]]
      OBVIOUS
    <3> HIDE DEF h
    <3>6. Is(h, m)
      BY <3>4, <3>5
    <3> QED BY <3>6, <2>4
  <2> QED BY <2>5, <2>6
<1>2. \E f : Is(f, Len(list))
  BY <1>1
<1> DEFINE kept == CHOOSE f : Is(f, Len(list))
<1>3. Is(kept, Len(list))
  BY <1>2
<1>4. Without(list, ids) = kept[Len(list)]
  BY DEF Without, Kept
<1> HIDE DEF kept
<1>5. kept[0] = <<>> /\ \A k \in 1 .. Len(list) : kept[k] = Kept(list, ids, kept[k - 1], k)
  BY <1>3
<1> QED BY <1>4, <1>5

LEMMA WithoutIsPart ==
  ASSUME NEW list \in Seq(Job), NEW ids
  PROVE  \E e : IsPart(e, Without(list, ids), list, Len(list), ids)
<1>1. Len(list) \in Nat
  BY ElementsOfSeq
<1>2. PICK f : /\ f[0] = <<>>
               /\ \A k \in 1 .. Len(list) : f[k] = Kept(list, ids, f[k - 1], k)
               /\ Without(list, ids) = f[Len(list)]
  BY <1>1, WithoutSteps
<1> DEFINE Wrong == {n \in 0 .. Len(list) : ~ \E e : IsPart(e, f[n], list, n, ids)}
<1>3. Wrong = {}
  <2>1. SUFFICES ASSUME Wrong # {} PROVE FALSE
    OBVIOUS
  <2>2. Wrong \subseteq Nat
    BY <1>1
  <2>3. PICK n \in Wrong : \A m \in Wrong : n <= m
    BY <2>1, <2>2, LeastOf
  <2>4. n # 0
    <3>1. IsPart(<<>>, <<>>, list, 0, ids)
      BY DEF IsPart
    <3> QED BY <1>2, <2>3, <3>1
  <2>5. n \in 1 .. Len(list) /\ n - 1 \in 0 .. Len(list) /\ n - 1 \notin Wrong
    BY <1>1, <2>3, <2>4
  <2>6. PICK e : IsPart(e, f[n - 1], list, n - 1, ids)
    BY <2>5
  <2>7. CASE list[n].id \notin ids
    BY <1>2, <2>3, <2>5, <2>6, <2>7, PartGrows DEF Kept
  <2>8. CASE list[n].id \in ids
    <3>1. f[n] = f[n - 1]
      BY <1>2, <2>5, <2>8 DEF Kept
    <3>2. IsPart(e, f[n - 1], list, n, ids)
      <4>1. \A m \in 1 .. n : m \in 1 .. n - 1 \/ m = n
        BY <2>5
      <4>2. 1 .. n - 1 \subseteq 1 .. n
        BY <2>5
      <4> QED BY <2>6, <2>8, <4>1, <4>2 DEF IsPart
    <3> QED BY <2>3, <3>1, <3>2
  <2> QED BY <2>7, <2>8
<1>4. Len(list) \in 0 .. Len(list) /\ Len(list) \notin Wrong
  BY <1>1, <1>3
<1> QED BY <1>2, <1>4

\* What is left keeps its order.
LEMMA PartKeeps ==
  ASSUME JobsAssumption, NEW list \in Seq(Job), Distinct(list), NEW ids, NEW e, NEW r,
         IsPart(e, r, list, Len(list), ids)
  PROVE  /\ r \in Seq(Job) /\ Distinct(r) /\ IdsOf(r) = IdsOf(list) \ ids
         /\ Len(r) <= Len(list)
         /\ Sorted(list) => Sorted(r)
<1>1. /\ DOMAIN list = 1 .. Len(list) /\ Len(list) \in Nat
      /\ r \in Seq(Job) /\ DOMAIN r = 1 .. Len(r) /\ Len(r) \in Nat
  BY ListType DEF IsPart
<1>2. /\ \A k \in DOMAIN r : /\ e[k] \in DOMAIN list /\ r[k] = list[e[k]] /\ e[k] \in Nat
                             /\ list[e[k]].id \notin ids
      /\ \A i, k \in DOMAIN r : i < k => e[i] < e[k]
      /\ \A m \in DOMAIN list : list[m].id \notin ids => \E k \in DOMAIN r : e[k] = m
  BY <1>1 DEF IsPart
<1>3. \A i, k \in DOMAIN r : e[i] = e[k] => i = k
  BY <1>1, <1>2
<1>4. Distinct(r)
  BY <1>2, <1>3 DEF Distinct
<1>5. IdsOf(r) = IdsOf(list) \ ids
  BY <1>2 DEF IdsOf
<1>6. \A i, k \in DOMAIN r : i <= k => e[i] <= e[k]
  BY SMTT(30), <1>1, <1>2
<1>7. Sorted(list) => Sorted(r)
  BY <1>2, <1>6 DEF Sorted
<1>8. Len(r) <= Len(list)
  <2> DEFINE f == [k \in 1 .. Len(r) |-> e[k]]
  <2>1. f \in Injection(1 .. Len(r), 1 .. Len(list))
    BY <1>1, <1>2, <1>3 DEF Injection, IsInjective
  <2>2. /\ IsFiniteSet(1 .. Len(list)) /\ Cardinality(1 .. Len(list)) = Len(list)
        /\ Cardinality(1 .. Len(r)) = Len(r)
    <3>1. ASSUME NEW n \in Nat PROVE IsFiniteSet(1 .. n) /\ Cardinality(1 .. n) = n
      BY FS_Interval
    <3> QED BY <1>1, <3>1
  <2> QED BY <2>1, <2>2, FS_Injection
<1> QED BY <1>1, <1>4, <1>5, <1>7, <1>8

LEMMA WithoutKeeps ==
  ASSUME JobsAssumption, NEW list \in Seq(Job), Distinct(list), NEW ids
  PROVE  LET r == Without(list, ids)
         IN /\ r \in Seq(Job) /\ Distinct(r) /\ IdsOf(r) = IdsOf(list) \ ids
            /\ Sorted(list) => Sorted(r)
            /\ \A k \in DOMAIN r : \E m \in DOMAIN list : r[k] = list[m]
<1>1. PICK e : IsPart(e, Without(list, ids), list, Len(list), ids)
  BY WithoutIsPart
<1>2. DOMAIN list = 1 .. Len(list)
  BY ListType
<1> QED BY <1>1, <1>2, PartKeeps DEF IsPart

(***************************************************************************)
(* A job is put into a list.                                               *)
(***************************************************************************)

LEMMA InsertAtIs ==
  ASSUME JobsAssumption, NEW list \in Seq(Job), NEW p \in 1 .. Len(list) + 1, NEW job \in Job
  PROVE  LET r == InsertAt(list, p, job)
         IN /\ r \in Seq(Job) /\ Len(r) = Len(list) + 1
            /\ DOMAIN r = 1 .. Len(list) + 1
            /\ \A k \in DOMAIN r :
                 r[k] = IF k < p THEN list[k] ELSE IF k = p THEN job ELSE list[k - 1]
<1> DEFINE front == SubSeq(list, 1, p - 1)
           back == SubSeq(list, p, Len(list))
           r == front \o <<job>> \o back
<1>1. Len(list) \in Nat /\ DOMAIN list = 1 .. Len(list) /\ p \in Nat
  BY ListType
<1>2. /\ front \in Seq(Job) /\ Len(front) = p - 1
      /\ \A k \in 1 .. p - 1 : front[k] = list[k]
  BY <1>1
<1>3. /\ back \in Seq(Job) /\ Len(back) = Len(list) - p + 1
      /\ \A k \in 1 .. Len(list) - p + 1 : back[k] = list[p + k - 1]
  BY <1>1
<1>4. InsertAt(list, p, job) = r
  BY DEF InsertAt
<1> HIDE DEF front, back
<1>5. /\ r \in Seq(Job) /\ Len(r) = Len(list) + 1
      /\ \A k \in 1 .. p - 1 : r[k] = front[k]
      /\ r[p] = job
      /\ \A k \in p + 1 .. Len(list) + 1 : r[k] = back[k - p]
  <2> DEFINE middle == front \o <<job>>
  <2>1. /\ middle \in Seq(Job) /\ Len(middle) = p
        /\ \A k \in 1 .. p - 1 : middle[k] = front[k]
        /\ middle[p] = job
    BY <1>1, <1>2
  <2> HIDE DEF middle
  <2>2. r = middle \o back
    BY DEF r, middle
  <2>3. /\ r \in Seq(Job) /\ Len(r) = p + Len(back)
        /\ \A k \in 1 .. p : r[k] = middle[k]
        /\ \A k \in p + 1 .. p + Len(back) : r[k] = back[k - p]
    <3>1. /\ r \in Seq(Job) /\ Len(r) = Len(middle) + Len(back)
          /\ \A k \in 1 .. Len(middle) + Len(back) :
               r[k] = IF k <= Len(middle) THEN middle[k] ELSE back[k - Len(middle)]
      <4> DEFINE both == middle \o back
      <4>1. middle \in Seq(Job) /\ back \in Seq(Job)
        BY <1>3, <2>1
      <4>2. /\ both \in Seq(Job) /\ Len(both) = Len(middle) + Len(back)
            /\ \A k \in 1 .. Len(middle) + Len(back) :
                 both[k] = IF k <= Len(middle) THEN middle[k] ELSE back[k - Len(middle)]
        BY <4>1, ConcatProperties
      <4>3. r = both
        BY <2>2
      <4> HIDE DEF both
      <4> QED BY <4>2, <4>3
    <3>2. Len(middle) = p /\ p \in Nat /\ Len(back) \in Nat
      BY <1>1, <1>3, <2>1
    <3> QED BY SMTT(30), <3>1, <3>2
  <2>4. p + Len(back) = Len(list) + 1
    BY <1>1, <1>3
  <2>5. 1 .. p - 1 \subseteq 1 .. p /\ p \in 1 .. p
    BY <1>1
  <2> QED BY <2>1, <2>3, <2>4, <2>5
<1> HIDE DEF r
<1>6. ASSUME NEW k \in 1 .. Len(list) + 1
      PROVE  r[k] = IF k < p THEN list[k] ELSE IF k = p THEN job ELSE list[k - 1]
  <2>1. CASE k < p
    BY <1>1, <1>2, <1>5, <2>1
  <2>2. CASE k = p
    BY <1>5, <2>2
  <2>3. CASE k > p
    <3>1. k \in p + 1 .. Len(list) + 1 /\ k - p \in 1 .. Len(list) - p + 1 /\ p + (k - p) - 1 = k - 1
      BY <1>1, <2>3
    <3>2. r[k] = back[k - p] /\ back[k - p] = list[p + (k - p) - 1]
      BY <1>3, <1>5, <3>1
    <3> QED BY <1>1, <2>3, <3>1, <3>2
  <2> QED BY <1>1, <2>1, <2>2, <2>3
<1>7. DOMAIN r = 1 .. Len(list) + 1
  BY <1>5, ListType
<1> QED BY <1>4, <1>5, <1>6, <1>7

LEMMA InsertKeeps ==
  ASSUME JobsAssumption, NEW list \in Seq(Job), NEW p \in 1 .. Len(list) + 1, NEW job \in Job,
         Distinct(list), job.id \notin IdsOf(list)
  PROVE  LET r == InsertAt(list, p, job)
         IN /\ r \in Seq(Job) /\ Distinct(r) /\ IdsOf(r) = IdsOf(list) \cup {job.id}
            /\ \A k \in DOMAIN r : r[k] = job \/ \E m \in DOMAIN list : r[k] = list[m]
            /\ (/\ Sorted(list)
                /\ \A k \in DOMAIN list : k < p => list[k].next <= job.next
                /\ \A k \in DOMAIN list : k >= p => job.next <= list[k].next) => Sorted(r)
<1> DEFINE r == InsertAt(list, p, job)
<1>1. /\ Len(list) \in Nat /\ DOMAIN list = 1 .. Len(list) /\ p \in Nat
      /\ r \in Seq(Job) /\ DOMAIN r = 1 .. Len(list) + 1
      /\ \A k \in DOMAIN r :
           r[k] = IF k < p THEN list[k] ELSE IF k = p THEN job ELSE list[k - 1]
  BY ListType, InsertAtIs
<1> HIDE DEF r
<1> DEFINE old(k) == IF k < p THEN k ELSE k - 1
<1>2. /\ p \in DOMAIN r /\ r[p] = job
      /\ \A k \in DOMAIN r : k # p => old(k) \in DOMAIN list /\ r[k] = list[old(k)]
  BY <1>1
<1>3. \A i, k \in DOMAIN r : i # p /\ k # p /\ old(i) = old(k) => i = k
  BY <1>1
<1>4. \A i, k \in DOMAIN r : i # p /\ k # p /\ i <= k => old(i) <= old(k)
  BY <1>1
<1>5. \A m \in DOMAIN list : \E k \in DOMAIN r : k # p /\ old(k) = m
  <2>1. ASSUME NEW m \in DOMAIN list PROVE \E k \in DOMAIN r : k # p /\ old(k) = m
    <3>1. CASE m < p
      BY <1>1, <3>1
    <3>2. CASE ~(m < p)
      <4>1. m + 1 \in DOMAIN r /\ m + 1 # p /\ old(m + 1) = m
        BY <1>1, <3>2
      <4> QED BY <4>1
    <3> QED BY <3>1, <3>2
  <2> QED BY <2>1
<1>6. \A k \in DOMAIN r : /\ k < p => k # p /\ old(k) = k
                          /\ k > p => k # p /\ old(k) >= p
  BY <1>1
<1> HIDE DEF old
<1>7. Distinct(r)
  <2>1. ASSUME NEW i \in DOMAIN r, NEW k \in DOMAIN r, r[i].id = r[k].id PROVE i = k
    <3>1. CASE i = p
      BY <1>2, <2>1, <3>1 DEF IdsOf
    <3>2. CASE k = p
      BY <1>2, <2>1, <3>2 DEF IdsOf
    <3>3. CASE i # p /\ k # p
      BY <1>2, <1>3, <2>1, <3>3 DEF Distinct
    <3> QED BY <3>1, <3>2, <3>3
  <2> QED BY <2>1 DEF Distinct
<1>8. IdsOf(r) = IdsOf(list) \cup {job.id}
  BY <1>2, <1>5 DEF IdsOf
<1>9. ASSUME Sorted(list),
             \A k \in DOMAIN list : k < p => list[k].next <= job.next,
             \A k \in DOMAIN list : k >= p => job.next <= list[k].next
      PROVE  Sorted(r)
  <2>1. ASSUME NEW i \in DOMAIN r, NEW k \in DOMAIN r, i <= k PROVE r[i].next <= r[k].next
    <3>1. CASE i = p /\ k = p
      <4>1. job.next \in Nat
        BY DEF Job
      <4> QED BY <1>2, <3>1, <4>1
    <3>2. CASE i = p /\ k # p
      <4>1. k > p
        BY <1>1, <2>1, <3>2
      <4> QED BY <1>2, <1>6, <1>9, <3>2, <4>1
    <3>3. CASE i # p /\ k = p
      <4>1. i < p
        BY <1>1, <2>1, <3>3
      <4> QED BY <1>2, <1>6, <1>9, <3>3, <4>1
    <3>4. CASE i # p /\ k # p
      BY <1>2, <1>4, <1>9, <2>1, <3>4 DEF Sorted
    <3> QED BY <3>1, <3>2, <3>3, <3>4
  <2> QED BY <2>1 DEF Sorted
<1>10. \A k \in DOMAIN r : r[k] = job \/ \E m \in DOMAIN list : r[k] = list[m]
  BY <1>2
<1> QED BY <1>1, <1>7, <1>8, <1>9, <1>10 DEF r

(***************************************************************************)
(* A job is added.                                                         *)
(***************************************************************************)

Begun(interval) == [max |-> now + interval, after |-> 0]

Tried(list, interval, s, k) ==
  IF s.after # k - 1 \/ list[k].next >= s.max THEN s
  ELSE [max |-> IF list[k].interval = interval /\ list[k].next > s.max - Second
                THEN list[k].next ELSE s.max,
        after |-> k]

\* As for Without.
LEMMA SearchSteps ==
  ASSUME NEW list, Len(list) \in Nat, NEW interval
  PROVE  \E f : /\ f[0] = Begun(interval)
                /\ \A k \in 1 .. Len(list) : f[k] = Tried(list, interval, f[k - 1], k)
                /\ Search(list, interval) = f[Len(list)]
<1> DEFINE Is(f, m) ==
             f = [k \in 0 .. m |-> IF k = 0 THEN Begun(interval)
                                   ELSE Tried(list, interval, f[k - 1], k)]
           None == {m \in 0 .. Len(list) : ~ \E f : Is(f, m)}
<1>1. None = {}
  <2>1. SUFFICES ASSUME None # {} PROVE FALSE
    OBVIOUS
  <2>2. None \subseteq Nat
    OBVIOUS
  <2>3. PICK m \in None : \A k \in None : m <= k
    BY <2>1, <2>2, LeastOf
  <2>4. m \in 0 .. Len(list) /\ ~ \E f : Is(f, m)
    BY <2>3
  <2>5. CASE m = 0
    <3> DEFINE g == [k \in 0 .. 0 |-> Begun(interval)]
    <3>1. Is(g, 0)
      OBVIOUS
    <3> QED BY <3>1, <2>4, <2>5
  <2>6. CASE m # 0
    <3>1. m - 1 \in 0 .. Len(list) /\ m - 1 \notin None
      <4>1. m - 1 \in 0 .. Len(list) /\ ~(m <= m - 1)
        BY <2>4, <2>6
      <4> HIDE DEF None
      <4> QED BY <2>3, <4>1
    <3>2. PICK g : Is(g, m - 1)
      BY <3>1
    <3> DEFINE h == [k \in 0 .. m |-> IF k < m THEN g[k] ELSE Tried(list, interval, g[m - 1], m)]
    <3>3. \A k \in 0 .. m - 1 :
            g[k] = IF k = 0 THEN Begun(interval) ELSE Tried(list, interval, g[k - 1], k)
      BY <3>2
    <3>4. ASSUME NEW k \in 0 .. m
          PROVE  h[k] = IF k = 0 THEN Begun(interval) ELSE Tried(list, interval, h[k - 1], k)
      <4>1. CASE k = 0
        <5>1. 0 \in 0 .. m - 1 /\ 0 \in 0 .. m /\ 0 < m
          BY <2>4, <2>6
        <5>2. h[0] = g[0] /\ g[0] = Begun(interval)
          BY <5>1, <3>3
        <5> QED BY <4>1, <5>2
      <4>2. CASE k # 0 /\ k < m
        <5>1. k - 1 \in 0 .. m /\ k - 1 < m /\ k \in 0 .. m - 1
          BY <4>2, <2>4
        <5>2. h[k] = g[k] /\ h[k - 1] = g[k - 1]
          BY <5>1, <4>2
        <5> QED BY <5>1, <5>2, <4>2, <3>3
      <4>3. CASE k = m
        <5>1. m - 1 \in 0 .. m /\ m - 1 < m
          BY <2>4, <2>6
        <5>2. h[m - 1] = g[m - 1] /\ h[m] = Tried(list, interval, g[m - 1], m)
          BY <5>1, <2>4
        <5> QED BY <5>2, <4>3, <2>6
      <4> QED BY <4>1, <4>2, <4>3, <2>4
    <3>5. h = [k \in 0 .. m |-> h[k]]
      OBVIOUS
    <3> HIDE DEF h
    <3>6. Is(h, m)
      BY <3>4, <3>5
    <3> QED BY <3>6, <2>4
  <2> QED BY <2>5, <2>6
<1>2. \E f : Is(f, Len(list))
  BY <1>1
<1> DEFINE found == CHOOSE f : Is(f, Len(list))
<1>3. Is(found, Len(list))
  BY <1>2
<1>4. Search(list, interval) = found[Len(list)]
  BY DEF Search, Begun, Tried
<1> HIDE DEF found
<1>5. /\ found[0] = Begun(interval)
      /\ \A k \in 1 .. Len(list) : found[k] = Tried(list, interval, found[k - 1], k)
  BY <1>3
<1> QED BY <1>4, <1>5

\* What has been found when the first n jobs of the list have been looked at.
Fitting(s, list, interval, n) ==
  /\ s.after \in 0 .. n /\ s.max \in Nat /\ s.max <= now + interval
  /\ s.max = now + interval \/ \E k \in 1 .. n : s.max = list[k].next
  /\ s.after < n => list[s.after + 1].next >= s.max
  /\ Sorted(list) => \A k \in 1 .. s.after : list[k].next <= s.max

LEMMA SearchFits ==
  ASSUME JobsAssumption, NEW list \in Seq(Job), NEW interval \in Intervals, now \in Nat
  PROVE  Fitting(Search(list, interval), list, interval, Len(list))
<1>1. /\ DOMAIN list = 1 .. Len(list) /\ Len(list) \in Nat
      /\ \A k \in 1 .. Len(list) : list[k].next \in Nat
      /\ interval \in Nat /\ Second \in Nat
  BY ListType DEF JobsAssumption
<1>2. PICK f : /\ f[0] = Begun(interval)
               /\ \A k \in 1 .. Len(list) : f[k] = Tried(list, interval, f[k - 1], k)
               /\ Search(list, interval) = f[Len(list)]
  BY <1>1, SearchSteps
<1> DEFINE Wrong == {n \in 0 .. Len(list) : ~Fitting(f[n], list, interval, n)}
<1>3. Wrong = {}
  <2>1. SUFFICES ASSUME Wrong # {} PROVE FALSE
    OBVIOUS
  <2>2. Wrong \subseteq Nat
    BY <1>1
  <2>3. PICK n \in Wrong : \A m \in Wrong : n <= m
    BY <2>1, <2>2, LeastOf
  <2>4. n # 0
    <3>1. Fitting(Begun(interval), list, interval, 0)
      BY <1>1 DEF Fitting, Begun
    <3> QED BY <1>2, <2>3, <3>1
  <2>5. n \in 1 .. Len(list) /\ n - 1 \in 0 .. Len(list) /\ n - 1 \notin Wrong
    BY <1>1, <2>3, <2>4
  <2> DEFINE s == f[n - 1]
             r == f[n]
  <2>6. Fitting(s, list, interval, n - 1)
    BY <2>5
  <2>7. r = Tried(list, interval, s, n)
    BY <1>2, <2>5
  <2> HIDE DEF s, r
  <2>8. /\ s.after \in 0 .. n - 1 /\ s.max \in Nat /\ s.max <= now + interval
        /\ s.max = now + interval \/ \E k \in 1 .. n : s.max = list[k].next
    BY <2>5, <2>6 DEF Fitting
  <2>9. CASE s.after # n - 1 \/ list[n].next >= s.max
    <3>1. r = s
      BY <2>7, <2>9 DEF Tried
    <3>2. s.after < n => list[s.after + 1].next >= s.max
      <4>1. CASE s.after = n - 1
        <5>1. s.after + 1 = n
          BY <2>5, <4>1
        <5> QED BY <2>9, <4>1, <5>1
      <4>2. CASE s.after # n - 1
        BY <2>5, <2>6, <2>8, <4>2 DEF Fitting
      <4> QED BY <4>1, <4>2
    <3>3. Fitting(s, list, interval, n)
      BY <2>5, <2>6, <2>8, <3>2 DEF Fitting
    <3> QED BY <2>3, <3>1, <3>3 DEF r
  <2>10. CASE ~(s.after # n - 1 \/ list[n].next >= s.max)
    <3> DEFINE max == IF list[n].interval = interval /\ list[n].next > s.max - Second
                      THEN list[n].next ELSE s.max
    <3>1. r = [max |-> max, after |-> n]
      BY <2>7, <2>10 DEF Tried
    <3>2. max \in Nat /\ list[n].next \in Nat /\ list[n].next <= max /\ max <= s.max
      BY <1>1, <2>5, <2>8, <2>10
    <3>3. max = now + interval \/ \E k \in 1 .. n : max = list[k].next
      BY <2>5, <2>8
    <3> HIDE DEF max
    <3>4. r.max = max /\ r.after = n
      BY <3>1
    <3>5. max <= now + interval
      BY <1>1, <2>8, <3>2
    <3>6. Sorted(list) => \A k \in 1 .. n : list[k].next <= max
      <4>1. ASSUME Sorted(list), NEW k \in 1 .. n PROVE list[k].next <= max
        <5>1. k \in DOMAIN list /\ n \in DOMAIN list /\ k <= n /\ list[k].next \in Nat
          BY <1>1, <2>5
        <5>2. list[k].next <= list[n].next
          BY <4>1, <5>1 DEF Sorted
        <5> QED BY <3>2, <5>1, <5>2
      <4> QED BY <4>1
    <3>7. Fitting(r, list, interval, n)
      BY <2>5, <3>2, <3>3, <3>4, <3>5, <3>6 DEF Fitting
    <3> QED BY <2>3, <3>7 DEF r
  <2> QED BY <2>9, <2>10
<1>4. Len(list) \in 0 .. Len(list) /\ Len(list) \notin Wrong
  BY <1>1, <1>3
<1> QED BY <1>2, <1>4

LEMMA AddedKeeps ==
  ASSUME JobsAssumption, NEW list \in Seq(Job), Distinct(list), NEW id \in JobIds, id \notin IdsOf(list),
         NEW interval \in Intervals, now \in Nat
  PROVE  LET r == Added(list, id, interval)
         IN /\ r \in Seq(Job) /\ Distinct(r) /\ IdsOf(r) = IdsOf(list) \cup {id}
            /\ Sorted(list) => Sorted(r)
            /\ \A k \in DOMAIN r :
                 \/ \E m \in DOMAIN list : r[k] = list[m]
                 \/ /\ r[k].interval = interval /\ r[k].next <= now + interval
                    /\ r[k].next = now + interval \/ \E m \in DOMAIN list : r[k].next = list[m].next
<1> DEFINE s == Search(list, interval)
           job == [id |-> id, next |-> s.max, interval |-> interval]
           p == s.after + 1
           r == InsertAt(list, p, job)
<1>1. DOMAIN list = 1 .. Len(list) /\ Len(list) \in Nat /\ \A k \in DOMAIN list : list[k].next \in Nat
  BY ListType
<1>2. Fitting(s, list, interval, Len(list))
  BY SearchFits
<1>3. Added(list, id, interval) = r
  BY DEF Added
<1> HIDE DEF s
<1>4. /\ s.after \in 0 .. Len(list) /\ s.max \in Nat /\ s.max <= now + interval
      /\ s.max = now + interval \/ \E k \in DOMAIN list : s.max = list[k].next
      /\ s.after < Len(list) => list[s.after + 1].next >= s.max
      /\ Sorted(list) => \A k \in 1 .. s.after : list[k].next <= s.max
  BY <1>1, <1>2 DEF Fitting
<1>5. job \in Job /\ job.id = id /\ job.next = s.max /\ job.interval = interval
  BY <1>4 DEF Job
<1> HIDE DEF job
<1>6. p \in 1 .. Len(list) + 1
  BY <1>1, <1>4
<1>7. ASSUME Sorted(list)
      PROVE  /\ \A k \in DOMAIN list : k < p => list[k].next <= job.next
             /\ \A k \in DOMAIN list : k >= p => job.next <= list[k].next
  <2>1. ASSUME NEW k \in DOMAIN list, k < p PROVE list[k].next <= job.next
    <3>1. k \in 1 .. s.after
      BY <1>1, <1>4, <2>1
    <3> QED BY <1>4, <1>5, <1>7, <3>1
  <2>2. ASSUME NEW k \in DOMAIN list, k >= p PROVE job.next <= list[k].next
    <3>1. p \in DOMAIN list /\ s.after < Len(list)
      BY <1>1, <1>4, <2>2
    <3>2. list[p].next <= list[k].next /\ list[p].next >= s.max
      BY <1>4, <1>7, <2>2, <3>1 DEF Sorted
    <3> QED BY <1>1, <1>4, <1>5, <3>1, <3>2
  <2> QED BY <2>1, <2>2
<1>8. /\ r \in Seq(Job) /\ Distinct(r) /\ IdsOf(r) = IdsOf(list) \cup {id}
      /\ \A k \in DOMAIN r : r[k] = job \/ \E m \in DOMAIN list : r[k] = list[m]
      /\ (/\ Sorted(list)
          /\ \A k \in DOMAIN list : k < p => list[k].next <= job.next
          /\ \A k \in DOMAIN list : k >= p => job.next <= list[k].next) => Sorted(r)
  BY <1>5, <1>6, InsertKeeps
<1> HIDE DEF p, r
<1>9. Sorted(list) => Sorted(r)
  BY <1>7, <1>8
<1>10. ASSUME NEW k \in DOMAIN r
       PROVE  \/ \E m \in DOMAIN list : r[k] = list[m]
              \/ /\ r[k].interval = interval /\ r[k].next <= now + interval
                 /\ r[k].next = now + interval \/ \E m \in DOMAIN list : r[k].next = list[m].next
  BY <1>4, <1>5, <1>8
<1> QED BY <1>3, <1>8, <1>9, <1>10

(***************************************************************************)
(* A job that has run is moved.                                            *)
(***************************************************************************)

LEMMA RemoveAtIs ==
  ASSUME JobsAssumption, NEW list \in Seq(Job), NEW p \in DOMAIN list
  PROVE  LET r == RemoveAt(list, p)
         IN /\ r \in Seq(Job) /\ Len(r) = Len(list) - 1 /\ DOMAIN r = 1 .. Len(list) - 1
            /\ \A k \in DOMAIN r : r[k] = IF k < p THEN list[k] ELSE list[k + 1]
<1> DEFINE front == SubSeq(list, 1, p - 1)
           back == SubSeq(list, p + 1, Len(list))
           r == front \o back
<1>1. Len(list) \in Nat /\ DOMAIN list = 1 .. Len(list) /\ p \in 1 .. Len(list)
  BY ListType
<1>2. /\ front \in Seq(Job) /\ Len(front) = p - 1
      /\ \A k \in 1 .. p - 1 : front[k] = list[k]
  BY <1>1
<1>3. /\ back \in Seq(Job) /\ Len(back) = Len(list) - p
      /\ \A k \in 1 .. Len(list) - p : back[k] = list[p + k]
  BY <1>1
<1>4. RemoveAt(list, p) = r
  BY DEF RemoveAt
<1> HIDE DEF front, back
<1>5. /\ r \in Seq(Job) /\ Len(r) = Len(front) + Len(back)
      /\ \A k \in 1 .. Len(front) + Len(back) :
           r[k] = IF k <= Len(front) THEN front[k] ELSE back[k - Len(front)]
  BY <1>2, <1>3, ConcatProperties
<1> HIDE DEF r
<1>6. Len(r) = Len(list) - 1
  BY <1>1, <1>2, <1>3, <1>5
<1>7. ASSUME NEW k \in 1 .. Len(list) - 1
      PROVE  r[k] = IF k < p THEN list[k] ELSE list[k + 1]
  <2>1. r[k] = IF k <= p - 1 THEN front[k] ELSE back[k - (p - 1)]
    BY <1>1, <1>2, <1>3, <1>5
  <2>2. CASE k < p
    BY <1>1, <1>2, <2>1, <2>2
  <2>3. CASE ~(k < p)
    <3>1. k - (p - 1) \in 1 .. Len(list) - p /\ p + (k - (p - 1)) = k + 1
      BY <1>1, <2>3
    <3>2. r[k] = back[k - (p - 1)]
      BY <1>1, <2>1, <2>3
    <3> QED BY <1>3, <2>3, <3>1, <3>2
  <2> QED BY <2>2, <2>3
<1>8. DOMAIN r = 1 .. Len(list) - 1
  BY <1>5, <1>6, ListType
<1> QED BY <1>4, <1>5, <1>6, <1>7, <1>8

\* r is list, the first job moved to place m.
Placed(r, list, m) ==
  /\ DOMAIN r = DOMAIN list
  /\ \A k \in DOMAIN r :
       r[k] = IF k < m THEN list[k + 1] ELSE IF k = m THEN list[1] ELSE list[k]

\* A job is moved to just behind another one: in general, and if it was the first.
LEMMA BehindIs ==
  ASSUME JobsAssumption, NEW list \in Seq(Job), Distinct(list),
         NEW a \in DOMAIN list, NEW m \in DOMAIN list, a # m
  PROVE  LET r == After(RemoveAt(list, a), list[m].id, list[a])
         IN /\ r \in Seq(Job) /\ Distinct(r) /\ IdsOf(r) = IdsOf(list)
            /\ \A k \in DOMAIN r : \E i \in DOMAIN list : r[k] = list[i]
            /\ a = 1 => Placed(r, list, m)
<1> DEFINE rest == RemoveAt(list, a)
           p == IF m < a THEN m ELSE m - 1
           r == InsertAt(rest, p + 1, list[a])
<1>1. /\ Len(list) \in Nat /\ DOMAIN list = 1 .. Len(list) /\ list[a] \in Job
      /\ a \in 1 .. Len(list) /\ m \in 1 .. Len(list)
  BY ListType
<1>2. /\ rest \in Seq(Job) /\ Len(rest) = Len(list) - 1 /\ DOMAIN rest = 1 .. Len(list) - 1
      /\ \A k \in DOMAIN rest : rest[k] = IF k < a THEN list[k] ELSE list[k + 1]
  BY RemoveAtIs
<1> HIDE DEF rest
<1> DEFINE old(k) == IF k < a THEN k ELSE k + 1
<1>3. /\ \A k \in DOMAIN rest : old(k) \in DOMAIN list /\ old(k) # a /\ rest[k] = list[old(k)]
      /\ \A i, k \in DOMAIN rest : old(i) = old(k) => i = k
      /\ p \in DOMAIN rest /\ old(p) = m
  BY SMTT(30), <1>1, <1>2
<1>4. \A i \in DOMAIN list : i # a => \E k \in DOMAIN rest : old(k) = i
  <2>1. ASSUME NEW i \in DOMAIN list, i # a PROVE \E k \in DOMAIN rest : old(k) = i
    <3>1. CASE i < a
      BY <1>1, <1>2, <3>1
    <3>2. CASE i > a
      <4>1. i - 1 \in DOMAIN rest /\ old(i - 1) = i
        BY <1>1, <1>2, <3>2
      <4> QED BY <4>1
    <3> QED BY <1>1, <2>1, <3>1, <3>2
  <2> QED BY <2>1
<1>5. p \in 1 .. Len(list) - 1
  BY <1>2, <1>3
<1> HIDE DEF old, p
<1>6. Distinct(rest)
  BY <1>3 DEF Distinct
<1>7. IdsOf(rest) \cup {list[a].id} = IdsOf(list) /\ list[a].id \notin IdsOf(rest)
  BY <1>3, <1>4 DEF IdsOf, Distinct
<1>8. rest[p].id = list[m].id
  BY <1>3
<1>9. Place(rest, list[m].id) = p
  BY <1>3, <1>6, <1>8, PlaceIs
<1>10. After(rest, list[m].id, list[a]) = r
  BY <1>9 DEF After
<1>11. p + 1 \in 1 .. Len(rest) + 1
  BY <1>1, <1>2, <1>5
<1>12. /\ r \in Seq(Job) /\ Distinct(r) /\ IdsOf(r) = IdsOf(list)
       /\ \A k \in DOMAIN r : r[k] = list[a] \/ \E i \in DOMAIN rest : r[k] = rest[i]
  BY ZenonT(30), <1>1, <1>2, <1>6, <1>7, <1>11, InsertKeeps
<1>13. /\ DOMAIN r = 1 .. Len(rest) + 1
       /\ \A k \in DOMAIN r :
            r[k] = IF k < p + 1 THEN rest[k] ELSE IF k = p + 1 THEN list[a] ELSE rest[k - 1]
  <2>1. rest \in Seq(Job) /\ list[a] \in Job
    BY <1>1, <1>2
  <2> QED BY <1>11, <2>1, InsertAtIs
<1> HIDE DEF r
<1>14. ASSUME a = 1
       PROVE  Placed(r, list, m)
  <2>1. m = p + 1
    BY <1>1, <1>14 DEF p
  <2>2. DOMAIN r = DOMAIN list
    BY <1>1, <1>2, <1>13
  <2>3. ASSUME NEW k \in DOMAIN r
        PROVE  r[k] = IF k < m THEN list[k + 1] ELSE IF k = m THEN list[1] ELSE list[k]
    <3>1. k \in 1 .. Len(list)
      BY <1>1, <2>2
    <3>2. CASE k < m
      <4>1. k \in DOMAIN rest /\ ~(k < a)
        BY <1>1, <1>2, <1>14, <3>1, <3>2
      <4> QED BY <1>2, <1>13, <2>1, <3>2, <4>1
    <3>3. CASE k = m
      BY <1>1, <1>13, <1>14, <2>1, <3>3
    <3>4. CASE k > m
      <4>1. k - 1 \in DOMAIN rest /\ ~(k - 1 < a) /\ k - 1 + 1 = k /\ ~(k < m) /\ k # m
        BY <1>1, <1>2, <1>14, <3>1, <3>4
      <4> QED BY <1>2, <1>13, <2>1, <4>1
    <3> QED BY <1>1, <3>1, <3>2, <3>3, <3>4
  <2> QED BY <2>2, <2>3 DEF Placed
<1>15. \A k \in DOMAIN r : \E i \in DOMAIN list : r[k] = list[i]
  BY <1>3, <1>12
<1> QED BY <1>10, <1>12, <1>14, <1>15 DEF rest

(***************************************************************************)
(* The inductive invariant.                                                *)
(***************************************************************************)

\* The walk stands at a job that is still in the list; when it began, one was due.
Walk ==
  round.phase = "jobs" /\ ~broken /\ round.at # NoJob =>
    \E i \in DOMAIN jobs :
      jobs[i].id = round.at /\ (round.lastNow = NoJob => jobs[i].next > round.current)

\* If a job is due, the walk is at the first one; what is behind the last due one is not due, nor
\* is what was run.
InPlace(list, r) ==
  /\ \A i \in DOMAIN list : list[i].next <= r.current => list[1].id = r.at
  /\ \A i \in DOMAIN list : list[i].id = r.lastNow /\ list[1].next <= r.current =>
       /\ list[i].next <= r.current
       /\ \A k \in DOMAIN list : k > i => list[k].next > r.current
  /\ \A i \in DOMAIN list : list[i].id = r.last => list[i].next > r.current

Timely ==
  ~tied /\ ~broken =>
    /\ Sorted(jobs)
    /\ \A k \in DOMAIN jobs : jobs[k].next <= now + jobs[k].interval
    /\ round.phase = "network" => \A k \in DOMAIN jobs : round.current < jobs[k].next
    /\ round.phase = "jobs" => InPlace(jobs, round)

JobsInv ==
  /\ JobsTypeOK /\ Walk /\ Timely
  /\ \A k \in DOMAIN jobs : jobs[k].interval >= MinInterval

\* The facts about the list that the steps need.
LEMMA Known ==
  ASSUME JobsAssumption, JobsInv
  PROVE  /\ jobs \in Seq(Job) /\ Distinct(jobs)
         /\ DOMAIN jobs = 1 .. Len(jobs) /\ Len(jobs) \in Nat
         /\ \A k \in DOMAIN jobs :
              /\ jobs[k] \in Job /\ jobs[k].id \in JobIds /\ jobs[k].id # NoJob
              /\ jobs[k].next \in Nat /\ jobs[k].interval \in Nat
              /\ jobs[k].interval >= MinInterval
         /\ now \in Nat /\ round.current \in Nat /\ round.current <= now
         /\ MinInterval \in Nat /\ MinInterval > 0 /\ NoJob \notin JobIds
<1>1. jobs \in Seq(Job) /\ Distinct(jobs) /\ now \in 0 .. MaxTime /\ round.current \in 0 .. now
  BY DEF JobsInv, JobsTypeOK
<1>2. /\ DOMAIN jobs = 1 .. Len(jobs) /\ Len(jobs) \in Nat
      /\ \A k \in DOMAIN jobs :
           jobs[k] \in Job /\ jobs[k].id \in JobIds /\ jobs[k].next \in Nat /\ jobs[k].interval \in Nat
  BY <1>1, ListType
<1>3. NoJob \notin JobIds /\ MinInterval \in Nat /\ MinInterval > 0 /\ MaxTime \in Nat
  BY DEF JobsAssumption
<1>4. now \in Nat /\ round.current \in Nat /\ round.current <= now
  BY <1>1, <1>3
<1>5. \A k \in DOMAIN jobs : jobs[k].interval >= MinInterval
  BY DEF JobsInv
<1>6. \A k \in DOMAIN jobs : jobs[k].id # NoJob
  BY <1>2, <1>3
<1> QED BY <1>1, <1>2, <1>3, <1>4, <1>5, <1>6

\* The job at place m is one that the job that has run may go behind.
Behind(timed, next, m) ==
  \/ timed[m].id = round.last /\ timed[m].next = next
  \/ /\ timed[m].id = round.lastNow \/ timed[m].next < next
     /\ m = Len(timed) \/ timed[m + 1].next >= next

\* Where the job goes that has run.
LEMMA PredecessorIs ==
  ASSUME JobsAssumption, NEW timed \in Seq(Job), Distinct(timed), NEW next \in Nat,
         Uses(timed, next) \ {NoJob} \subseteq IdsOf(timed), round.lastNow # NoJob
  PROVE  \E m \in DOMAIN timed :
           timed[m].id = Predecessor(timed, next) /\ Behind(timed, next, m)
<1>1. /\ DOMAIN timed = 1 .. Len(timed) /\ Len(timed) \in Nat
      /\ \A k \in DOMAIN timed : timed[k].next \in Nat
  BY ListType
<1>2. CASE Batched(timed, next)
  <2>1. PICK m \in DOMAIN timed : timed[m].id = round.last
    BY <1>2 DEF Batched, IdsOf
  <2>2. Entry(timed, round.last) = timed[m]
    BY <2>1, PlaceIs DEF Entry
  <2>3. timed[m].next = next /\ Predecessor(timed, next) = round.last
    BY <1>2, <2>2 DEF Batched, Predecessor
  <2> QED BY <2>1, <2>3 DEF Behind
<1>3. CASE ~Batched(timed, next)
  <2>1. PICK l \in DOMAIN timed : timed[l].id = round.lastNow
    BY <1>3 DEF Uses, IdsOf
  <2>2. Place(timed, round.lastNow) = l
    BY <2>1, PlaceIs
  <2> DEFINE stops == {k \in l .. Len(timed) : k = Len(timed) \/ timed[k + 1].next >= next}
  <2>3. Predecessor(timed, next) = timed[Min(stops)].id
    BY <1>3, <2>2 DEF Predecessor
  <2>4. stops \subseteq Nat /\ stops # {}
    <3>1. l \in Nat /\ Len(timed) \in stops
      BY <1>1
    <3> QED BY <3>1
  <2>5. Min(stops) \in stops /\ \A k \in stops : Min(stops) <= k
    BY <2>4, MinOf
  <2> DEFINE m == Min(stops)
  <2>6. m \in l .. Len(timed) /\ (m = Len(timed) \/ timed[m + 1].next >= next)
    BY <2>5
  <2>10. /\ l \in Nat /\ l >= 1 /\ Len(timed) \in Nat
         /\ m \in Nat /\ m >= l /\ m <= Len(timed)
    <3>1. l \in Nat /\ l >= 1 /\ Len(timed) \in Nat
      BY <1>1
    <3> HIDE DEF m
    <3> QED BY <2>6, <3>1
  <2>7. \A k \in l .. Len(timed) : k < m => k # Len(timed) /\ ~(timed[k + 1].next >= next)
    <3>1. TAKE k \in l .. Len(timed)
    <3>2. HAVE k < m
    <3>3. ~(m <= k)
      <4>1. k \in Nat
        BY <2>10
      <4> HIDE DEF m
      <4> QED BY <2>10, <3>2, <4>1
    <3>4. k \notin stops
      BY <2>5, <3>3
    <3> QED BY <3>4
  <2> HIDE DEF m
  <2>8. m \in DOMAIN timed
    BY <1>1, <2>10
  <2>9. timed[m].id = round.lastNow \/ timed[m].next < next
    <3>1. CASE m = l
      BY <2>1, <3>1
    <3>2. CASE m # l
      <4>1. m - 1 \in l .. Len(timed) /\ m - 1 < m /\ m - 1 + 1 = m
        <5>1. m # l
          BY <2>1, <3>2
        <5> QED BY <2>10, <5>1
      <4>2. ~(timed[m].next >= next)
        BY <2>7, <4>1
      <4> QED BY <1>1, <2>8, <4>2
    <3> QED BY <3>1, <3>2
  <2> QED BY <2>3, <2>6, <2>8, <2>9 DEF m, Behind
<1> QED BY <1>2, <1>3

LEMMA TimedIs ==
  ASSUME JobsAssumption, NEW list \in Seq(Job), Distinct(list), NEW a \in DOMAIN list,
         list[a].id = round.at, NEW next \in Nat
  PROVE  LET timed == Timed(list, next)
         IN /\ timed \in Seq(Job) /\ Distinct(timed) /\ IdsOf(timed) = IdsOf(list)
            /\ DOMAIN timed = DOMAIN list /\ Len(timed) = Len(list)
            /\ timed[a].id = round.at /\ timed[a].next = next
            /\ timed[a].interval = list[a].interval
            /\ \A k \in DOMAIN list : k # a => timed[k] = list[k]
            /\ Entry(timed, round.at) = timed[a] /\ Place(timed, round.at) = a
<1> DEFINE timed == Timed(list, next)
           job == [id |-> list[a].id, next |-> next, interval |-> list[a].interval]
<1>1. list[a] = [id |-> list[a].id, next |-> list[a].next, interval |-> list[a].interval] /\ list[a] \in Job
  <2>1. list[a] \in Job
    BY ListType
  <2> QED BY <2>1 DEF Job
<1>2. Place(list, round.at) = a
  BY PlaceIs
<1>3. [list[a] EXCEPT !.next = next] = job
  BY <1>1
<1>4. timed = [list EXCEPT ![a].next = next]
  BY <1>2 DEF Timed
<1>5. timed = [list EXCEPT ![a] = job]
  <2>1. timed = [list EXCEPT ![a] = [list[a] EXCEPT !.next = next]]
    BY <1>4
  <2> QED BY <1>3, <2>1
<1>6. job \in Job
  BY <1>1 DEF Job
<1>7. job.id = list[a].id /\ job.next = next /\ job.interval = list[a].interval
  OBVIOUS
<1> HIDE DEF job, timed
<1>8. /\ timed \in Seq(Job) /\ DOMAIN timed = DOMAIN list /\ Len(timed) = Len(list)
      /\ timed[a] = job /\ \A k \in DOMAIN list : k # a => timed[k] = list[k]
  BY <1>5, <1>6
<1>9. \A k \in DOMAIN list : timed[k].id = list[k].id
  BY <1>7, <1>8
<1>10. Distinct(timed) /\ IdsOf(timed) = IdsOf(list)
  BY <1>8, <1>9 DEF Distinct, IdsOf
<1>11. Place(timed, round.at) = a
  BY <1>8, <1>9, <1>10, PlaceIs
<1> QED BY <1>7, <1>8, <1>9, <1>10, <1>11 DEF timed, Entry


(***************************************************************************)
(* Each step keeps the invariant.                                          *)
(***************************************************************************)

LEMMA AddKeeps ==
  ASSUME JobsAssumption, JobsInv, NEW id \in JobIds, NEW interval \in Intervals,
         AddJob(id, interval)
  PROVE  JobsInv'
<1>1. /\ jobs \in Seq(Job) /\ Distinct(jobs) /\ now \in Nat /\ round.current \in Nat
      /\ round.current <= now /\ MinInterval \in Nat /\ MinInterval > 0
      /\ \A k \in DOMAIN jobs : /\ jobs[k].next \in Nat /\ jobs[k].interval \in Nat
                                /\ jobs[k].interval >= MinInterval
      /\ interval \in Nat
  BY Known DEF JobsAssumption
<1>2. /\ round.phase \in {"idle", "network"} /\ id \in fresh
      /\ UNCHANGED <<now, round, callbacks, tied, broken>>
  BY DEF AddJob
<1>3. CASE UNCHANGED <<jobs, fresh>>
  BY <1>2, <1>3 DEF JobsInv, JobsTypeOK, Walk, Timely, InPlace, IdsOf, Distinct, Sorted
<1>4. CASE ~(interval < MinInterval) /\ jobs' = Added(jobs, id, interval) /\ fresh' = fresh \ {id}
  <2>1. id \notin IdsOf(jobs) /\ fresh \subseteq JobIds \ IdsOf(jobs)
    BY <1>2 DEF JobsInv, JobsTypeOK
  <2>2. /\ jobs' \in Seq(Job) /\ Distinct(jobs') /\ IdsOf(jobs') = IdsOf(jobs) \cup {id}
        /\ Sorted(jobs) => Sorted(jobs')
        /\ \A k \in DOMAIN jobs' :
             \/ \E m \in DOMAIN jobs : jobs'[k] = jobs[m]
             \/ /\ jobs'[k].interval = interval /\ jobs'[k].next <= now + interval
                /\ \/ jobs'[k].next = now + interval
                   \/ \E m \in DOMAIN jobs : jobs'[k].next = jobs[m].next
    BY <1>1, <1>4, <2>1, AddedKeeps
  <2>3. JobsTypeOK'
    <3>1. fresh' \subseteq JobIds \ IdsOf(jobs')
      BY <1>4, <2>1, <2>2
    <3> QED BY <1>2, <2>2, <3>1 DEF JobsInv, JobsTypeOK, IdsOf, Distinct
  <2>4. Walk'
    BY <1>2 DEF Walk
  <2>5. \A k \in DOMAIN jobs' : jobs'[k].interval >= MinInterval
    BY <1>1, <1>4, <2>2
  <2>6. ASSUME ~tied, ~broken PROVE Timely'
    <3>1. /\ Sorted(jobs)
          /\ \A k \in DOMAIN jobs : jobs[k].next <= now + jobs[k].interval
          /\ round.phase = "network" => \A k \in DOMAIN jobs : round.current < jobs[k].next
      BY <2>6 DEF JobsInv, Timely
    <3>2. Sorted(jobs)'
      BY <2>2, <3>1 DEF Sorted
    <3>3. \A k \in DOMAIN jobs' : jobs'[k].next <= now + jobs'[k].interval
      BY <2>2, <3>1
    <3>4. ASSUME round.phase = "network", NEW k \in DOMAIN jobs'
          PROVE  round.current < jobs'[k].next
      <4>1. round.current < now + interval
        BY <1>1, <1>4
      <4> QED BY <2>2, <3>1, <3>4, <4>1
    <3> QED BY <1>2, <3>2, <3>3, <3>4 DEF Timely
  <2>7. Timely'
    BY <1>2, <2>6 DEF Timely
  <2> QED BY <2>3, <2>4, <2>5, <2>7 DEF JobsInv
<1> QED BY <1>3, <1>4 DEF AddJob

LEMMA RemoveKeeps ==
  ASSUME JobsAssumption, JobsInv, NEW id \in JobIds, RemoveJob(id)
  PROVE  JobsInv'
<1>1. jobs \in Seq(Job) /\ Distinct(jobs) /\ \A k \in DOMAIN jobs : jobs[k].interval >= MinInterval
  BY Known
<1>2. /\ round.phase \in {"idle", "network"} /\ jobs' = Without(jobs, {id})
      /\ UNCHANGED <<now, fresh, round, callbacks, tied, broken>>
  BY DEF RemoveJob
<1>3. /\ jobs' \in Seq(Job) /\ Distinct(jobs') /\ IdsOf(jobs') = IdsOf(jobs) \ {id}
      /\ Sorted(jobs) => Sorted(jobs')
      /\ \A k \in DOMAIN jobs' : \E m \in DOMAIN jobs : jobs'[k] = jobs[m]
  <2> DEFINE r == Without(jobs, {id})
  <2>1. /\ r \in Seq(Job) /\ Distinct(r) /\ IdsOf(r) = IdsOf(jobs) \ {id}
        /\ Sorted(jobs) => Sorted(r)
        /\ \A k \in DOMAIN r : \E m \in DOMAIN jobs : r[k] = jobs[m]
    BY <1>1, WithoutKeeps
  <2>2. jobs' = r
    BY <1>2
  <2> HIDE DEF r
  <2> QED BY <2>1, <2>2
<1>4. JobsTypeOK'
  <2>1. fresh' \subseteq JobIds \ IdsOf(jobs')
    BY <1>2, <1>3 DEF JobsInv, JobsTypeOK
  <2> QED BY <1>2, <1>3, <2>1 DEF JobsInv, JobsTypeOK, IdsOf, Distinct
<1>5. Walk'
  BY <1>2 DEF Walk
<1>6. \A k \in DOMAIN jobs' : jobs'[k].interval >= MinInterval
  BY <1>1, <1>3
<1>7. ASSUME ~tied, ~broken PROVE Timely'
  <2>1. /\ Sorted(jobs)
        /\ \A k \in DOMAIN jobs : jobs[k].next <= now + jobs[k].interval
        /\ round.phase = "network" => \A k \in DOMAIN jobs : round.current < jobs[k].next
    BY <1>7 DEF JobsInv, Timely
  <2>2. Sorted(jobs)'
    BY <1>3, <2>1 DEF Sorted
  <2>3. \A k \in DOMAIN jobs' : jobs'[k].next <= now + jobs'[k].interval
    BY <1>3, <2>1
  <2>4. round.phase = "network" => \A k \in DOMAIN jobs' : round.current < jobs'[k].next
    BY <1>3, <2>1
  <2> QED BY <1>2, <2>2, <2>3, <2>4 DEF Timely
<1>8. Timely'
  BY <1>2, <1>7 DEF Timely
<1> QED BY <1>4, <1>5, <1>6, <1>8 DEF JobsInv

LEMMA TickKeeps ==
  ASSUME JobsAssumption, JobsInv, Tick
  PROVE  JobsInv'
<1>1. /\ now' = now + 1 /\ now < MaxTime
      /\ UNCHANGED <<jobs, fresh, round, callbacks, tied, broken>>
  BY DEF Tick
<1>2. /\ now \in Nat /\ round.current \in Nat /\ round.current <= now /\ MaxTime \in Nat
      /\ \A k \in DOMAIN jobs : jobs[k].next \in Nat /\ jobs[k].interval \in Nat
  BY Known DEF JobsAssumption
<1>3. now' \in 0 .. MaxTime /\ round'.current \in 0 .. now'
  BY <1>1, <1>2
<1>4. JobsTypeOK'
  BY <1>1, <1>3 DEF JobsInv, JobsTypeOK, IdsOf, Distinct
<1>5. Timely'
  <2>1. ASSUME \A k \in DOMAIN jobs : jobs[k].next <= now + jobs[k].interval
        PROVE  \A k \in DOMAIN jobs : jobs[k].next <= now' + jobs[k].interval
    <3>1. TAKE k \in DOMAIN jobs
    <3>2. /\ jobs[k].next <= now + jobs[k].interval /\ jobs[k].next \in Nat
          /\ jobs[k].interval \in Nat
      BY <1>2, <2>1
    <3> QED BY <1>1, <1>2, <3>2
  <2> QED BY <1>1, <2>1 DEF JobsInv, Timely, Sorted, InPlace
<1>6. Walk' /\ \A k \in DOMAIN jobs' : jobs'[k].interval >= MinInterval
  BY <1>1 DEF JobsInv, Walk
<1> QED BY <1>4, <1>5, <1>6 DEF JobsInv


LEMMA RoundType ==
  ASSUME JobsInv
  PROVE  /\ round = [phase |-> round.phase, current |-> round.current, at |-> round.at,
                     lastNow |-> round.lastNow, last |-> round.last]
         /\ round.phase \in {"idle", "jobs", "network"} /\ round.current \in 0 .. now
         /\ round.at \in JobIds \cup {NoJob} /\ round.lastNow \in JobIds \cup {NoJob}
         /\ round.last \in JobIds \cup {NoJob}
BY DEF JobsInv, JobsTypeOK

LEMMA LastDueIs ==
  ASSUME JobsAssumption, JobsInv
  PROVE  \/ LastDue(now) = NoJob /\ (jobs # <<>> => jobs[1].next > now)
         \/ \E l \in DOMAIN jobs :
              /\ LastDue(now) = jobs[l].id
              /\ \A i \in 1 .. l : jobs[i].next <= now
              /\ l < Len(jobs) => jobs[l + 1].next > now
<1> DEFINE due == {k \in DOMAIN jobs : \A i \in 1 .. k : jobs[i].next <= now}
<1>1. /\ DOMAIN jobs = 1 .. Len(jobs) /\ Len(jobs) \in Nat /\ now \in Nat
      /\ \A k \in DOMAIN jobs : jobs[k].next \in Nat
      /\ jobs \in Seq(Job)
  BY Known
<1>2. CASE due = {}
  <2>1. LastDue(now) = NoJob
    BY <1>2 DEF LastDue
  <2>2. ASSUME jobs # <<>> PROVE jobs[1].next > now
    <3>1. 1 \in DOMAIN jobs
      BY <1>1, <2>2
    <3>2. ~ \A i \in 1 .. 1 : jobs[i].next <= now
      BY <1>2, <3>1
    <3> QED BY <1>1, <3>1, <3>2
  <2> QED BY <2>1, <2>2
<1>3. CASE due # {}
  <2>1. due \subseteq 1 .. Len(jobs)
    BY <1>1
  <2>2. Max(due) \in due /\ \A e \in due : Max(due) >= e
    BY <1>1, <1>3, <2>1, MaxOf
  <2> DEFINE l == Max(due)
  <2>3. LastDue(now) = jobs[l].id
    BY <1>3 DEF LastDue
  <2>4. /\ l \in DOMAIN jobs /\ \A i \in 1 .. l : jobs[i].next <= now
        /\ l + 1 \in due => l >= l + 1
    BY <2>2
  <2> HIDE DEF l
  <2>5. ASSUME l < Len(jobs) PROVE jobs[l + 1].next > now
    <3>1. l \in Nat /\ l + 1 \in DOMAIN jobs /\ l + 1 \notin due
      BY <1>1, <2>4, <2>5
    <3>2. PICK i \in 1 .. l + 1 : ~(jobs[i].next <= now)
      BY <3>1
    <3>3. i = l + 1
      BY <2>4, <3>1, <3>2
    <3> QED BY <1>1, <3>1, <3>2, <3>3
  <2> QED BY <2>3, <2>4, <2>5
<1> QED BY <1>2, <1>3

LEMMA BeginKeeps ==
  ASSUME JobsAssumption, JobsInv, BeginRound
  PROVE  JobsInv'
<1> DEFINE begun == [phase |-> "jobs", current |-> now, lastNow |-> LastDue(now), last |-> NoJob,
                     at |-> IF jobs = <<>> THEN NoJob ELSE jobs[1].id]
<1>1. /\ round.phase = "idle" /\ ~broken /\ round' = begun
      /\ UNCHANGED <<now, jobs, fresh, callbacks, tied, broken>>
  BY DEF BeginRound
<1>2. /\ DOMAIN jobs = 1 .. Len(jobs) /\ Len(jobs) \in Nat /\ now \in Nat
      /\ jobs \in Seq(Job) /\ Distinct(jobs)
      /\ \A k \in DOMAIN jobs : /\ jobs[k].next \in Nat /\ jobs[k].interval >= MinInterval
                                /\ jobs[k].id \in JobIds /\ jobs[k].id # NoJob
  BY Known
<1>3. \/ LastDue(now) = NoJob /\ (jobs # <<>> => jobs[1].next > now)
      \/ \E l \in DOMAIN jobs :
           /\ LastDue(now) = jobs[l].id
           /\ \A i \in 1 .. l : jobs[i].next <= now
           /\ l < Len(jobs) => jobs[l + 1].next > now
  BY LastDueIs
<1>4. \A k \in DOMAIN jobs : jobs # <<>> /\ 1 \in DOMAIN jobs /\ 1 <= k
  BY <1>2
<1>5. jobs = <<>> \/ 1 \in DOMAIN jobs
  BY <1>2
<1>6. LastDue(now) \in JobIds \cup {NoJob}
  BY <1>2, <1>3
<1>7. /\ begun.phase = "jobs" /\ begun.current = now /\ begun.lastNow = LastDue(now)
      /\ begun.last = NoJob
      /\ jobs = <<>> => begun.at = NoJob
      /\ jobs # <<>> => begun.at = jobs[1].id
  OBVIOUS
<1>8. begun \in [phase : {"idle", "jobs", "network"}, current : 0 .. now,
                 at : JobIds \cup {NoJob}, lastNow : JobIds \cup {NoJob}, last : JobIds \cup {NoJob}]
  BY <1>2, <1>5, <1>6
<1> HIDE DEF begun
<1>9. JobsTypeOK'
  BY <1>1, <1>8 DEF JobsInv, JobsTypeOK, IdsOf, Distinct
<1>10. Walk'
  <2>1. ASSUME begun.at # NoJob
        PROVE  \E i \in DOMAIN jobs :
                 jobs[i].id = begun.at /\ (begun.lastNow = NoJob => jobs[i].next > begun.current)
    <3>1. jobs # <<>> /\ 1 \in DOMAIN jobs /\ jobs[1].id = begun.at
      BY <1>5, <1>7, <2>1
    <3>2. begun.lastNow = NoJob => jobs[1].next > begun.current
      BY <1>2, <1>3, <1>7, <3>1
    <3> QED BY <3>1, <3>2
  <2> QED BY <1>1, <2>1 DEF Walk
<1>11. ASSUME ~tied, ~broken PROVE Timely'
  <2>1. Sorted(jobs) /\ \A k \in DOMAIN jobs : jobs[k].next <= now + jobs[k].interval
    BY <1>11 DEF JobsInv, Timely
  <2>2. \A i \in DOMAIN jobs : jobs[i].next <= begun.current => jobs[1].id = begun.at
    BY <1>4, <1>7
  <2>3. ASSUME NEW i \in DOMAIN jobs, jobs[i].id = begun.lastNow, jobs[1].next <= begun.current
        PROVE  /\ jobs[i].next <= begun.current
               /\ \A k \in DOMAIN jobs : k > i => jobs[k].next > begun.current
    <3>1. PICK l \in DOMAIN jobs : /\ LastDue(now) = jobs[l].id
                                   /\ \A j \in 1 .. l : jobs[j].next <= now
                                   /\ l < Len(jobs) => jobs[l + 1].next > now
      BY <1>2, <1>3, <1>7, <2>3
    <3>2. i = l /\ i \in 1 .. i
      BY <1>2, <1>7, <2>3, <3>1 DEF Distinct
    <3>3. ASSUME NEW k \in DOMAIN jobs, k > i PROVE jobs[k].next > begun.current
      <4>1. i < Len(jobs) /\ i + 1 \in DOMAIN jobs /\ i + 1 <= k
        BY <1>2, <3>3
      <4>2. jobs[i + 1].next <= jobs[k].next /\ jobs[i + 1].next > now
        BY <2>1, <3>1, <3>2, <3>3, <4>1 DEF Sorted
      <4> QED BY <1>2, <1>7, <4>1, <4>2
    <3> QED BY <1>7, <3>1, <3>2, <3>3
  <2>4. \A i \in DOMAIN jobs : jobs[i].id = begun.last => jobs[i].next > begun.current
    BY <1>2, <1>7
  <2>5. InPlace(jobs, begun)
    BY <2>2, <2>3, <2>4 DEF InPlace
  <2> QED BY <1>1, <1>7, <2>1, <2>5 DEF Timely, Sorted, InPlace
<1>12. Timely'
  BY <1>1, <1>11 DEF Timely
<1> QED BY <1>1, <1>2, <1>9, <1>10, <1>12 DEF JobsInv

LEMMA EndJobsKeeps ==
  ASSUME JobsAssumption, JobsInv, EndJobs
  PROVE  JobsInv'
<1>1. /\ round.phase = "jobs" /\ ~broken /\ ~Due
      /\ round' = [round EXCEPT !.phase = "network"]
      /\ UNCHANGED <<now, jobs, fresh, callbacks, tied, broken>>
  BY DEF EndJobs
<1>2. /\ DOMAIN jobs = 1 .. Len(jobs) /\ Len(jobs) \in Nat
      /\ Distinct(jobs) /\ round.current \in Nat
      /\ \A k \in DOMAIN jobs : /\ jobs[k].next \in Nat /\ jobs[k].interval >= MinInterval
                                /\ jobs[k].id # NoJob
  BY Known
<1>3. round' = [phase |-> "network", current |-> round.current, at |-> round.at,
                lastNow |-> round.lastNow, last |-> round.last]
  BY <1>1, RoundType
<1>4. JobsTypeOK'
  BY <1>1, <1>3, RoundType DEF JobsInv, JobsTypeOK, IdsOf, Distinct
<1>5. Walk'
  BY <1>3 DEF Walk
<1>6. ASSUME ~tied, ~broken PROVE Timely'
  <2>1. /\ Sorted(jobs) /\ InPlace(jobs, round)
        /\ \A k \in DOMAIN jobs : jobs[k].next <= now + jobs[k].interval
    BY <1>1, <1>6 DEF JobsInv, Timely
  <2>2. ASSUME NEW k \in DOMAIN jobs, jobs[k].next <= round.current PROVE FALSE
    <3>1. 1 \in DOMAIN jobs /\ 1 <= k
      BY <1>2
    <3>2. jobs[1].id = round.at
      BY <2>1, <2>2 DEF InPlace
    <3>3. Entry(jobs, round.at) = jobs[1]
      BY <1>2, <3>1, <3>2, PlaceIs DEF Entry
    <3>4. jobs[1].next <= jobs[k].next /\ ~(jobs[1].next <= round.current)
      BY <1>1, <1>2, <2>1, <3>1, <3>2, <3>3 DEF Due, Sorted
    <3> QED BY <1>2, <2>2, <3>1, <3>4
  <2>3. \A k \in DOMAIN jobs : round.current < jobs[k].next
    BY <1>2, <2>2
  <2> QED BY <1>1, <1>3, <2>1, <2>3 DEF Timely, Sorted
<1>7. Timely'
  BY <1>1, <1>6 DEF Timely
<1> QED BY <1>1, <1>2, <1>4, <1>5, <1>7 DEF JobsInv

LEMMA EndRoundKeeps ==
  ASSUME JobsAssumption, JobsInv, EndRound
  PROVE  JobsInv'
<1>1. /\ round' = [phase |-> "idle", current |-> round.current, at |-> NoJob,
                   lastNow |-> NoJob, last |-> NoJob]
      /\ callbacks' = <<>> /\ UNCHANGED <<now, jobs, fresh, tied, broken>>
  BY DEF EndRound, Idle
<1>2. JobsTypeOK'
  BY <1>1, RoundType DEF JobsInv, JobsTypeOK, IdsOf, Distinct
<1>3. Walk' /\ Timely' /\ \A k \in DOMAIN jobs' : jobs'[k].interval >= MinInterval
  BY <1>1 DEF JobsInv, Walk, Timely, Sorted
<1> QED BY <1>2, <1>3 DEF JobsInv


\* The job that is run.
LEMMA RunAt ==
  ASSUME JobsAssumption, JobsInv, Due
  PROVE  /\ round.phase = "jobs" /\ ~broken /\ round.lastNow # NoJob /\ round.at # NoJob
         /\ \E a \in DOMAIN jobs :
              /\ jobs[a].id = round.at /\ Place(jobs, round.at) = a
              /\ Entry(jobs, round.at) = jobs[a] /\ jobs[a].next <= round.current
              /\ Later(jobs[a]) \in Nat /\ Later(jobs[a]) >= round.current
              /\ Later(jobs[a]) <= now + jobs[a].interval
<1>1. /\ round.phase = "jobs" /\ ~broken /\ round.at # NoJob
      /\ Entry(jobs, round.at).next <= round.current
  BY DEF Due
<1>2. PICK a \in DOMAIN jobs :
        jobs[a].id = round.at /\ (round.lastNow = NoJob => jobs[a].next > round.current)
  BY <1>1 DEF JobsInv, Walk
<1>3. /\ Distinct(jobs) /\ jobs[a].next \in Nat /\ jobs[a].interval \in Nat
      /\ jobs[a].interval >= MinInterval /\ now \in Nat /\ round.current \in Nat
      /\ round.current <= now /\ MinInterval \in Nat /\ MinInterval > 0
  BY Known
<1>4. Place(jobs, round.at) = a /\ Entry(jobs, round.at) = jobs[a]
  BY <1>2, <1>3, PlaceIs DEF Entry
<1>5. jobs[a].next <= round.current /\ round.lastNow # NoJob
  BY <1>1, <1>2, <1>3, <1>4
<1>6. /\ Later(jobs[a]) \in Nat /\ Later(jobs[a]) >= round.current
      /\ Later(jobs[a]) <= now + jobs[a].interval
  BY <1>3, <1>5 DEF Later
<1> QED BY <1>1, <1>2, <1>4, <1>5, <1>6

\* The list after a job has run and has been moved: in general, and if the job was the first.
LEMMA MovedIs ==
  ASSUME JobsAssumption, NEW list \in Seq(Job), Distinct(list), NEW b \in DOMAIN list,
         list[b].id = round.at, NEW next \in Nat, round.lastNow # NoJob,
         Uses(Timed(list, next), next) \ {NoJob} \subseteq IdsOf(list)
  PROVE  LET timed == Timed(list, next)
             r == Moved(timed, next)
         IN /\ r \in Seq(Job) /\ Distinct(r) /\ IdsOf(r) = IdsOf(list)
            /\ \A k \in DOMAIN r : \E i \in DOMAIN timed : r[k] = timed[i]
            /\ b = 1 => \E m \in DOMAIN timed : Behind(timed, next, m) /\ Placed(r, timed, m)
<1> DEFINE timed == Timed(list, next)
           r == Moved(timed, next)
<1>1. /\ timed \in Seq(Job) /\ Distinct(timed) /\ IdsOf(timed) = IdsOf(list)
      /\ DOMAIN timed = DOMAIN list
      /\ timed[b].id = round.at /\ timed[b].next = next
      /\ Entry(timed, round.at) = timed[b] /\ Place(timed, round.at) = b
  BY TimedIs
<1>2. Uses(timed, next) \ {NoJob} \subseteq IdsOf(timed)
  BY <1>1
<1> HIDE DEF timed
<1>3. PICK m \in DOMAIN timed :
        timed[m].id = Predecessor(timed, next) /\ Behind(timed, next, m)
  BY <1>1, <1>2, PredecessorIs
<1>4. CASE m = b
  <2>1. r = timed
    BY <1>1, <1>3, <1>4 DEF Moved
  <2>2. b = 1 => Placed(r, timed, m)
    <3>1. DOMAIN timed = 1 .. Len(timed)
      BY <1>1, ElementsOfSeq
    <3>2. \A k \in DOMAIN timed : ~(k < 1)
      BY <3>1
    <3> QED BY <1>4, <2>1, <3>2 DEF Placed
  <2> QED BY <1>1, <1>3, <2>1, <2>2 DEF timed
<1>5. CASE m # b
  <2>1. timed[m].id # round.at
    BY <1>1, <1>3, <1>5 DEF Distinct
  <2>2. r = After(RemoveAt(timed, b), timed[m].id, timed[b])
    BY <1>1, <1>3, <2>1 DEF Moved
  <2> DEFINE q == After(RemoveAt(timed, b), timed[m].id, timed[b])
  <2>3. /\ q \in Seq(Job) /\ Distinct(q) /\ IdsOf(q) = IdsOf(timed)
        /\ \A k \in DOMAIN q : \E i \in DOMAIN timed : q[k] = timed[i]
        /\ b = 1 => Placed(q, timed, m)
    <3>1. /\ timed \in Seq(Job) /\ Distinct(timed)
          /\ b \in DOMAIN timed /\ m \in DOMAIN timed /\ b # m
      BY <1>1, <1>5
    <3> QED BY <3>1, BehindIs
  <2>4. r = q
    BY <2>2
  <2> HIDE DEF q
  <2> QED BY <1>1, <1>3, <2>3, <2>4 DEF timed
<1> QED BY <1>4, <1>5

\* A list of which all but the first are in order is in order once the first is at its place.
LEMMA SortedMoved ==
  ASSUME JobsAssumption, NEW timed \in Seq(Job), NEW m \in DOMAIN timed, NEW r,
         Placed(r, timed, m),
         \A i, k \in DOMAIN timed : 1 < i /\ i <= k => timed[i].next <= timed[k].next,
         m = 1 \/ timed[m].next <= timed[1].next,
         m = Len(timed) \/ timed[m + 1].next >= timed[1].next
  PROVE  Sorted(r)
<1>1. /\ DOMAIN timed = 1 .. Len(timed) /\ Len(timed) \in Nat
      /\ \A k \in DOMAIN timed : timed[k].next \in Nat
      /\ DOMAIN r = DOMAIN timed
      /\ \A k \in DOMAIN r :
           r[k] = IF k < m THEN timed[k + 1] ELSE IF k = m THEN timed[1] ELSE timed[k]
  BY ListType DEF Placed
<1>2. /\ m \in Nat /\ 1 <= m /\ m <= Len(timed) /\ 1 \in DOMAIN timed
      /\ timed[1].next \in Nat
  BY <1>1
<1>3. ASSUME NEW k \in DOMAIN r, k < m
      PROVE  /\ r[k] = timed[k + 1] /\ k + 1 \in DOMAIN timed /\ 1 < k + 1 /\ k + 1 <= m
             /\ r[k].next <= timed[1].next
  <2>1. r[k] = timed[k + 1] /\ k + 1 \in DOMAIN timed /\ 1 < k + 1 /\ k + 1 <= m /\ m # 1
    BY <1>1, <1>2, <1>3
  <2>2. timed[k + 1].next <= timed[m].next /\ timed[m].next <= timed[1].next
    BY <2>1
  <2> QED BY <1>1, <1>2, <2>1, <2>2
<1>4. ASSUME NEW k \in DOMAIN r, k > m
      PROVE  r[k] = timed[k] /\ k \in DOMAIN timed /\ 1 < k /\ r[k].next >= timed[1].next
  <2>1. /\ r[k] = timed[k] /\ k \in DOMAIN timed /\ 1 < k
        /\ m # Len(timed) /\ m + 1 \in DOMAIN timed /\ 1 < m + 1 /\ m + 1 <= k
    BY <1>1, <1>2, <1>4
  <2>2. timed[m + 1].next <= timed[k].next /\ timed[m + 1].next >= timed[1].next
    BY <2>1
  <2> QED BY <1>1, <1>2, <2>1, <2>2
<1>5. r[m] = timed[1]
  BY <1>1, <1>2
<1>6. ASSUME NEW i \in DOMAIN r, NEW k \in DOMAIN r, i <= k
      PROVE  r[i].next <= r[k].next
  <2>1. i \in Nat /\ k \in Nat
    BY <1>1
  <2>2. CASE k < m
    <3>1. i < m /\ i + 1 <= k + 1
      BY <1>2, <1>6, <2>1, <2>2
    <3> QED BY <1>3, <1>6, <2>2, <3>1
  <2>3. CASE i < m /\ k = m
    BY <1>3, <1>5, <2>3
  <2>4. CASE i < m /\ k > m
    <3>1. r[i].next <= timed[1].next /\ timed[1].next <= r[k].next /\ r[i] = timed[i + 1]
          /\ r[k] = timed[k] /\ i + 1 \in DOMAIN timed
      BY <1>3, <1>4, <2>4
    <3> QED BY <1>1, <1>2, <3>1
  <2>5. CASE i = m /\ k = m
    BY <1>2, <1>5, <2>5
  <2>6. CASE i = m /\ k > m
    BY <1>4, <1>5, <2>6, <1>2
  <2>7. CASE i > m
    <3>1. k > m
      BY <1>2, <1>6, <2>1, <2>7
    <3> QED BY <1>4, <1>6, <2>7, <3>1
  <2> QED BY <1>2, <1>6, <2>1, <2>2, <2>3, <2>4, <2>5, <2>6, <2>7
<1> QED BY <1>6 DEF Sorted


\* What a job that runs leaves of the list, if it is in order: the job was the first, the one
\* that followed it is the first of the others.
LEMMA RunFirst ==
  ASSUME JobsAssumption, JobsInv, NEW ids, NEW e, NEW list,
         IsPart(e, list, jobs, Len(jobs), ids),
         NEW a \in DOMAIN jobs, jobs[a].id = round.at, jobs[a].next <= round.current,
         InPlace(jobs, round),
         NextOf(jobs, round.at) \in IdsOf(list) \cup {NoJob}
  PROVE  /\ a = 1
         /\ \A b \in DOMAIN list : list[b].id = round.at => b = 1
         /\ Len(list) = 0 \/ 1 \in DOMAIN list
         /\ round.at \in IdsOf(list) =>
              \A k \in DOMAIN list : k > 1 => 2 \in DOMAIN list /\ list[2].id = NextOf(jobs, round.at)
         /\ round.at \notin IdsOf(list) =>
              \A k \in DOMAIN list : 1 \in DOMAIN list /\ list[1].id = NextOf(jobs, round.at)
<1>1. /\ DOMAIN jobs = 1 .. Len(jobs) /\ Len(jobs) \in Nat
      /\ jobs \in Seq(Job) /\ Distinct(jobs)
      /\ \A k \in DOMAIN jobs : jobs[k].id # NoJob
  BY Known
<1>2. /\ list \in Seq(Job) /\ Distinct(list)
      /\ DOMAIN list = 1 .. Len(list) /\ Len(list) \in Nat
  BY <1>1, PartKeeps, ElementsOfSeq
<1>3. /\ \A k \in DOMAIN list : e[k] \in DOMAIN jobs /\ list[k] = jobs[e[k]] /\ e[k] \in Nat /\ e[k] >= 1
      /\ \A i, k \in DOMAIN list : i < k => e[i] < e[k]
  BY <1>1 DEF IsPart
<1>4. a = 1
  <2>1. jobs[1].id = round.at /\ 1 \in DOMAIN jobs
    BY <1>1 DEF InPlace
  <2> QED BY <1>1, <2>1 DEF Distinct
<1>5. \A k \in DOMAIN list : 1 \in DOMAIN list /\ 1 <= k
  BY <1>2
<1>6. ASSUME NEW b \in DOMAIN list, list[b].id = round.at PROVE b = 1 /\ e[b] = 1
  <2>1. e[b] = 1
    BY <1>1, <1>3, <1>4, <1>6 DEF Distinct
  <2>2. 1 < b => e[1] < e[b] /\ e[1] >= 1 /\ e[1] \in Nat
    BY <1>3, <1>5
  <2> QED BY <1>2, <1>5, <2>1, <2>2
<1>7. Len(list) = 0 \/ 1 \in DOMAIN list
  BY <1>2
<1>8. Place(jobs, round.at) = 1
  BY <1>1, <1>4, PlaceIs
<1>9. ASSUME NEW k \in DOMAIN list, list[k].id # round.at
      PROVE  \E s \in DOMAIN list : list[s].id = NextOf(jobs, round.at) /\ e[s] = 2
  <2>1. e[k] # 1 /\ e[k] \in DOMAIN jobs /\ e[k] \in Nat /\ e[k] >= 1
    BY <1>3, <1>4, <1>9
  <2>2. 2 \in DOMAIN jobs /\ Len(jobs) # 1
    BY <1>1, <2>1
  <2>3. NextOf(jobs, round.at) = jobs[2].id
    BY <1>8, <2>2 DEF NextOf
  <2>4. PICK s \in DOMAIN list : list[s].id = jobs[2].id
    BY <1>1, <2>2, <2>3 DEF IdsOf
  <2>5. e[s] = 2
    BY <1>1, <1>3, <2>2, <2>4 DEF Distinct
  <2> QED BY <2>3, <2>4, <2>5
<1>10. ASSUME round.at \in IdsOf(list), NEW k \in DOMAIN list, k > 1
       PROVE  2 \in DOMAIN list /\ list[2].id = NextOf(jobs, round.at)
  <2>1. PICK b \in DOMAIN list : list[b].id = round.at
    BY <1>10 DEF IdsOf
  <2>2. b = 1 /\ e[1] = 1 /\ list[k].id # round.at
    BY <1>2, <1>5, <1>6, <1>10, <2>1 DEF Distinct
  <2>3. PICK s \in DOMAIN list : list[s].id = NextOf(jobs, round.at) /\ e[s] = 2
    BY <1>9, <2>2
  <2>4. 2 \in DOMAIN list
    BY <1>2, <1>10
  <2>5. e[1] < e[2] /\ e[2] \in Nat
    BY <1>3, <1>5, <2>4
  <2>6. s # 1 /\ ~(2 < s)
    BY <1>3, <2>2, <2>3, <2>4, <2>5
  <2>7. s = 2
    BY <1>2, <2>6
  <2> QED BY <2>3, <2>4, <2>7
<1>11. ASSUME round.at \notin IdsOf(list), NEW k \in DOMAIN list
       PROVE  1 \in DOMAIN list /\ list[1].id = NextOf(jobs, round.at)
  <2>1. \A i \in DOMAIN list : list[i].id # round.at
    BY <1>11 DEF IdsOf
  <2>2. PICK s \in DOMAIN list : list[s].id = NextOf(jobs, round.at) /\ e[s] = 2
    BY <1>9, <2>1
  <2>3. 1 \in DOMAIN list /\ e[1] # 1 /\ e[1] \in Nat /\ e[1] >= 1
    BY <1>3, <1>4, <1>5, <2>1
  <2>4. ~(1 < s)
    BY <1>3, <2>2, <2>3
  <2>5. s = 1
    BY <1>2, <2>4
  <2> QED BY <2>2, <2>5
<1> QED BY <1>4, <1>6, <1>7, <1>10, <1>11

\* A job that runs and is no longer in the list.
LEMMA GoneInPlace ==
  ASSUME JobsAssumption, JobsInv, NEW ids, NEW e, NEW list,
         IsPart(e, list, jobs, Len(jobs), ids),
         NEW a \in DOMAIN jobs, jobs[a].id = round.at, jobs[a].next <= round.current,
         Sorted(jobs), InPlace(jobs, round), round.at \notin IdsOf(list),
         NextOf(jobs, round.at) \in IdsOf(list) \cup {NoJob},
         NEW after, after.at = NextOf(jobs, round.at), after.last = round.last,
         after.lastNow = round.lastNow, after.current = round.current
  PROVE  InPlace(list, after)
<1>1. /\ DOMAIN jobs = 1 .. Len(jobs) /\ Len(jobs) \in Nat
      /\ jobs \in Seq(Job) /\ Distinct(jobs) /\ round.current \in Nat
      /\ \A k \in DOMAIN jobs : jobs[k].next \in Nat
  BY Known
<1>2. /\ \A k \in DOMAIN list : e[k] \in DOMAIN jobs /\ list[k] = jobs[e[k]]
      /\ \A i, k \in DOMAIN list : i < k => e[i] < e[k]
  BY <1>1 DEF IsPart
<1>3. DOMAIN list = 1 .. Len(list) /\ Len(list) \in Nat
  BY <1>1, PartKeeps, ElementsOfSeq
<1>4. \A k \in DOMAIN list : 1 \in DOMAIN list /\ list[1].id = NextOf(jobs, round.at)
  BY RunFirst
<1>5. jobs[1].next <= round.current
  BY RunFirst
<1>6. ASSUME NEW i \in DOMAIN list, list[i].id = round.lastNow
      PROVE  /\ list[i].next <= round.current
             /\ \A k \in DOMAIN list : k > i => list[k].next > round.current
  <2>1. /\ jobs[e[i]].next <= round.current
        /\ \A k \in DOMAIN jobs : k > e[i] => jobs[k].next > round.current
    BY <1>2, <1>5, <1>6 DEF InPlace
  <2>2. ASSUME NEW k \in DOMAIN list, k > i PROVE list[k].next > round.current
    <3>1. e[i] < e[k] /\ e[k] \in DOMAIN jobs /\ e[i] \in DOMAIN jobs
      BY <1>2, <1>3, <2>2
    <3>2. e[k] > e[i]
      BY <1>1, <3>1
    <3> QED BY <1>2, <2>1, <3>1, <3>2
  <2> QED BY <1>2, <2>1, <2>2
<1>7. \A i \in DOMAIN list : list[i].id = round.last => list[i].next > round.current
  BY <1>2 DEF InPlace
<1> QED BY <1>4, <1>6, <1>7 DEF InPlace


\* A job that runs and is moved.
LEMMA MovedInPlace ==
  ASSUME JobsAssumption, JobsInv, NEW ids, NEW e, NEW list,
         IsPart(e, list, jobs, Len(jobs), ids),
         NEW a \in DOMAIN jobs, jobs[a].id = round.at, jobs[a].next <= round.current,
         Sorted(jobs), InPlace(jobs, round), round.at \in IdsOf(list), round.lastNow # NoJob,
         NextOf(jobs, round.at) \in IdsOf(list) \cup {NoJob},
         NEW next \in Nat, next > round.current,
         Uses(Timed(list, next), next) \ {NoJob} \subseteq IdsOf(list),
         NEW after, after.at = NextOf(jobs, round.at), after.last = round.at,
         after.lastNow = round.lastNow, after.current = round.current
  PROVE  /\ Sorted(Moved(Timed(list, next), next))
         /\ InPlace(Moved(Timed(list, next), next), after)
<1> DEFINE timed == Timed(list, next)
           r == Moved(timed, next)
<1>1. /\ DOMAIN jobs = 1 .. Len(jobs) /\ Len(jobs) \in Nat
      /\ jobs \in Seq(Job) /\ Distinct(jobs) /\ round.current \in Nat
      /\ \A k \in DOMAIN jobs : jobs[k].next \in Nat
  BY Known
<1>2. /\ list \in Seq(Job) /\ Distinct(list) /\ Sorted(list)
      /\ DOMAIN list = 1 .. Len(list) /\ Len(list) \in Nat
      /\ \A k \in DOMAIN list : list[k].next \in Nat
  BY <1>1, PartKeeps, ListType
<1>3. /\ \A k \in DOMAIN list : e[k] \in DOMAIN jobs /\ list[k] = jobs[e[k]] /\ e[k] \in Nat
      /\ \A i, k \in DOMAIN list : i < k => e[i] < e[k]
  BY <1>1 DEF IsPart
<1>4. /\ a = 1
      /\ \A k \in DOMAIN list : k > 1 => 2 \in DOMAIN list /\ list[2].id = NextOf(jobs, round.at)
      /\ \A b \in DOMAIN list : list[b].id = round.at => b = 1
  BY RunFirst
<1>5. 1 \in DOMAIN list /\ list[1].id = round.at
  BY <1>4 DEF IdsOf
<1>6. jobs[1].next <= round.current /\ jobs[1].id = round.at /\ 1 \in DOMAIN jobs
  BY <1>4
<1>7. /\ timed \in Seq(Job) /\ DOMAIN timed = DOMAIN list /\ Len(timed) = Len(list)
      /\ timed[1].id = round.at /\ timed[1].next = next
      /\ \A k \in DOMAIN list : k # 1 => timed[k] = list[k]
  BY <1>2, <1>5, TimedIs
<1>0. PICK m \in DOMAIN timed : Behind(timed, next, m) /\ Placed(r, timed, m)
  <2>1. list \in Seq(Job) /\ Distinct(list)
    BY <1>2
  <2>2. 1 = 1 => \E m \in DOMAIN timed : Behind(timed, next, m) /\ Placed(r, timed, m)
    BY <1>5, <2>1, MovedIs
  <2> QED BY <2>2
<1> HIDE DEF timed, r
<1>8. /\ \/ timed[m].id = round.last /\ timed[m].next = next
         \/ /\ timed[m].id = round.lastNow \/ timed[m].next < next
            /\ m = Len(timed) \/ timed[m + 1].next >= next
      /\ DOMAIN r = DOMAIN timed
      /\ \A k \in DOMAIN r :
           r[k] = IF k < m THEN timed[k + 1] ELSE IF k = m THEN timed[1] ELSE timed[k]
  BY <1>0 DEF Behind, Placed
<1>9. m \in Nat /\ 1 <= m /\ m <= Len(timed)
  BY <1>2, <1>7
\* What the job before the walk's first one, the last due one and the others are.
<1>10. round.last # round.at
  BY <1>1, <1>6 DEF InPlace
<1>11. ASSUME NEW i \in DOMAIN list, list[i].id = round.lastNow
       PROVE  /\ list[i].next <= round.current
              /\ \A k \in DOMAIN list : k > i => list[k].next > round.current
  <2>1. /\ jobs[e[i]].next <= round.current
        /\ \A k \in DOMAIN jobs : k > e[i] => jobs[k].next > round.current
    BY <1>3, <1>6, <1>11 DEF InPlace
  <2>2. ASSUME NEW k \in DOMAIN list, k > i PROVE list[k].next > round.current
    <3>1. e[i] < e[k] /\ e[k] \in DOMAIN jobs /\ e[i] \in Nat /\ e[k] \in Nat
      BY <1>2, <1>3, <2>2
    <3>2. e[k] > e[i]
      BY <3>1
    <3> QED BY <1>3, <2>1, <3>1, <3>2
  <2> QED BY <1>3, <2>1, <2>2
<1>12. m = 1 \/ timed[m].next <= next
  <2>1. CASE timed[m].id = round.lastNow /\ m # 1
    <3>1. timed[m] = list[m] /\ m \in DOMAIN list
      BY <1>7, <2>1
    <3>2. list[m].next <= round.current /\ list[m].next \in Nat
      BY <1>2, <1>11, <2>1, <3>1
    <3> QED BY <1>1, <3>1, <3>2
  <2>2. CASE timed[m].next = next \/ timed[m].next < next
    <3>1. timed[m].next \in Nat
      BY <1>7, ListType
    <3> QED BY <2>2, <3>1
  <2> QED BY <1>8, <2>1, <2>2
<1>13. m = Len(timed) \/ timed[m + 1].next >= next
  <2>1. ASSUME timed[m].id = round.last, timed[m].next = next, m # Len(timed)
        PROVE  timed[m + 1].next >= next
    <3>1. m # 1
      BY <1>7, <1>10, <2>1
    <3>2. /\ m + 1 \in DOMAIN list /\ m + 1 # 1 /\ m \in DOMAIN list /\ m <= m + 1
          /\ timed[m] = list[m]
      BY <1>2, <1>7, <1>9, <2>1, <3>1
    <3>3. list[m].next <= list[m + 1].next /\ timed[m + 1] = list[m + 1]
      BY <1>2, <1>7, <3>2 DEF Sorted
    <3> QED BY <1>2, <2>1, <3>2, <3>3
  <2> QED BY <1>8, <2>1
<1>14. \A i, k \in DOMAIN timed : 1 < i /\ i <= k => timed[i].next <= timed[k].next
  <2>1. ASSUME NEW i \in DOMAIN timed, NEW k \in DOMAIN timed, 1 < i, i <= k
        PROVE  timed[i].next <= timed[k].next
    <3>1. i # 1 /\ k # 1
      BY <1>2, <1>7, <2>1
    <3> QED BY <1>2, <1>7, <2>1, <3>1 DEF Sorted
  <2> QED BY <2>1
<1>15. Sorted(r)
  BY <1>0, <1>7, <1>12, <1>13, <1>14, SortedMoved
\* Each place of the new list is one of the old: the first one of the job that was run, the
\* others in their order.
<1>16. ASSUME NEW k \in DOMAIN r
       PROVE  /\ k = m => r[k].id = round.at /\ r[k].next = next
              /\ k < m => k + 1 \in DOMAIN list /\ r[k] = list[k + 1]
              /\ k > m => k \in DOMAIN list /\ k > 1 /\ r[k] = list[k]
              /\ k # m => r[k].id # round.at
  <2>1. k \in Nat /\ 1 <= k /\ k <= Len(list) /\ k \in DOMAIN list
    BY <1>2, <1>7, <1>8
  <2>2. k = m => r[k].id = round.at /\ r[k].next = next
    BY <1>7, <1>8
  <2>3. ASSUME k < m
        PROVE  k + 1 \in DOMAIN list /\ r[k] = list[k + 1] /\ r[k].id # round.at
    <3>1. k + 1 \in DOMAIN list /\ k + 1 # 1
      BY <1>2, <1>7, <1>9, <2>1, <2>3
    <3>2. r[k] = list[k + 1]
      BY <1>7, <1>8, <2>3, <3>1
    <3> QED BY <1>4, <3>1, <3>2
  <2>4. ASSUME k > m
        PROVE  k \in DOMAIN list /\ k > 1 /\ r[k] = list[k] /\ r[k].id # round.at
    <3>1. k > 1 /\ k # 1 /\ ~(k < m) /\ k # m
      BY <1>9, <2>1, <2>4
    <3>2. r[k] = list[k]
      BY <1>7, <1>8, <2>1, <3>1
    <3> QED BY <1>4, <2>1, <3>1, <3>2
  <2> QED BY <1>9, <2>1, <2>2, <2>3, <2>4
<1>17. DOMAIN r = 1 .. Len(list)
  BY <1>2, <1>7, <1>8
<1>18. ASSUME NEW i \in DOMAIN r, r[i].next <= round.current
       PROVE  1 \in DOMAIN r /\ m > 1 /\ r[1].id = NextOf(jobs, round.at)
  <2>1. i \in Nat /\ 1 <= i /\ i <= Len(list) /\ 1 \in DOMAIN r /\ i # m
    BY <1>1, <1>2, <1>16, <1>17, <1>18
  <2>2. m # 1
    <3>1. SUFFICES ASSUME m = 1 PROVE FALSE
      OBVIOUS
    <3>2. list[1].id = round.lastNow
      <4>1. timed[1].id # round.last /\ ~(timed[1].next < next)
        BY <1>7, <1>10
      <4> QED BY <1>5, <1>7, <1>8, <3>1, <4>1
    <3>3. i > 1 /\ i \in DOMAIN list /\ r[i] = list[i]
      BY <1>9, <1>16, <2>1, <3>1
    <3>4. list[i].next > round.current /\ list[i].next \in Nat
      BY <1>2, <1>5, <1>11, <3>2, <3>3
    <3> QED BY <1>1, <1>18, <3>3, <3>4
  <2>3. m > 1 /\ 1 < m
    BY <1>9, <2>2
  <2>4. 1 + 1 \in DOMAIN list /\ r[1] = list[1 + 1]
    BY <1>16, <2>1, <2>3
  <2>5. list[2].id = NextOf(jobs, round.at)
    BY <1>4, <2>4
  <2> QED BY <2>1, <2>3, <2>4, <2>5
<1>19. ASSUME NEW i \in DOMAIN r, r[i].id = round.lastNow, r[1].next <= round.current
       PROVE  /\ r[i].next <= round.current
              /\ \A k \in DOMAIN r : k > i => r[k].next > round.current
  <2>1. 1 \in DOMAIN r /\ m > 1 /\ i \in Nat /\ 1 <= i
    BY <1>9, <1>17, <1>18, <1>19
  <2>2. r[1] = list[2] /\ 2 \in DOMAIN list
    <3>1. 1 < m /\ 1 + 1 = 2
      BY <2>1
    <3> QED BY <1>16, <2>1, <3>1
  <2>3. i # m
    <3>1. SUFFICES ASSUME i = m PROVE FALSE
      OBVIOUS
    <3>2. list[1].id = round.lastNow
      BY <1>5, <1>16, <1>19, <3>1
    <3>3. list[2].next > round.current /\ list[2].next \in Nat
      BY <1>2, <1>5, <1>11, <2>2, <3>2
    <3> QED BY <1>1, <1>19, <2>2, <3>3
  <2>4. PICK j \in DOMAIN list : r[i] = list[j] /\ (i < m => j = i + 1) /\ (i > m => j = i)
    <3>1. CASE i < m
      <4>1. i + 1 \in DOMAIN list /\ r[i] = list[i + 1] /\ ~(i > m)
        BY <1>9, <1>16, <2>1, <3>1
      <4> QED BY <3>1, <4>1
    <3>2. CASE i > m
      <4>1. i \in DOMAIN list /\ r[i] = list[i] /\ ~(i < m)
        BY <1>9, <1>16, <2>1, <3>2
      <4> QED BY <3>2, <4>1
    <3> QED BY <1>9, <2>1, <2>3, <3>1, <3>2
  <2>5. /\ list[j].next <= round.current
        /\ \A k \in DOMAIN list : k > j => list[k].next > round.current
    BY <1>11, <1>19, <2>4
  <2>6. ASSUME NEW k \in DOMAIN r, k > i PROVE r[k].next > round.current
    <3>1. k \in Nat
      BY <1>17
    <3>2. CASE k = m
      BY <1>1, <1>16, <3>2
    <3>3. CASE k < m
      <4>1. k + 1 \in DOMAIN list /\ r[k] = list[k + 1] /\ i < m /\ k + 1 > i + 1
        BY <1>9, <1>16, <2>1, <2>6, <3>1, <3>3
      <4> QED BY <2>4, <2>5, <4>1
    <3>4. CASE k > m
      <4>1. k \in DOMAIN list /\ r[k] = list[k]
        BY <1>16, <3>4
      <4>2. k > j
        <5>1. CASE i < m
          BY <1>9, <2>1, <2>4, <3>1, <3>4, <5>1
        <5>2. CASE i > m
          BY <2>4, <2>6, <5>2
        <5> QED BY <1>9, <2>1, <2>3, <5>1, <5>2
      <4> QED BY <2>5, <4>1, <4>2
    <3> QED BY <1>9, <3>1, <3>2, <3>3, <3>4
  <2> QED BY <2>4, <2>5, <2>6
<1>20. \A i \in DOMAIN r : r[i].id = round.at => r[i].next > round.current
  BY <1>16
<1>21. InPlace(r, after)
  BY <1>18, <1>19, <1>20 DEF InPlace
<1> QED BY <1>15, <1>21 DEF r, timed


LEMMA RunKeeps ==
  ASSUME JobsAssumption, JobsInv, Due, NEW ids, NEW e, NEW list,
         IsPart(e, list, jobs, Len(jobs), ids), NEW calls \in Seq(JobIds), RunJob(list, calls)
  PROVE  JobsInv'
<1>1. /\ jobs \in Seq(Job) /\ Distinct(jobs)
      /\ DOMAIN jobs = 1 .. Len(jobs) /\ Len(jobs) \in Nat
      /\ \A k \in DOMAIN jobs :
           /\ jobs[k].id \in JobIds /\ jobs[k].next \in Nat /\ jobs[k].interval \in Nat
           /\ jobs[k].interval >= MinInterval
      /\ now \in Nat /\ round.current \in Nat
  BY Known
<1>2. round.phase = "jobs" /\ ~broken /\ round.lastNow # NoJob
  BY RunAt
<1>3. PICK a \in DOMAIN jobs :
        /\ jobs[a].id = round.at /\ Place(jobs, round.at) = a
        /\ Entry(jobs, round.at) = jobs[a] /\ jobs[a].next <= round.current
        /\ Later(jobs[a]) \in Nat /\ Later(jobs[a]) >= round.current
        /\ Later(jobs[a]) <= now + jobs[a].interval
  BY RunAt
<1> DEFINE next == Later(jobs[a])
           saved == NextOf(jobs, round.at)
           timed == Timed(list, next)
           moved == Moved(timed, next)
           uses == Uses(timed, next)
           moves == round.at \in IdsOf(list)
<1>4. /\ broken' = ~ (({saved, PreviousOf(jobs, round.at)} \cup (IF moves THEN uses ELSE {})) \ {NoJob}
                        \subseteq IdsOf(list))
      /\ jobs' = IF moves /\ ~broken' THEN moved ELSE list
      /\ tied' = (tied \/ (moves /\ next = round.current))
      /\ callbacks' = calls \o callbacks
      /\ round' = [round EXCEPT !.at = saved, !.last = IF moves THEN round.at ELSE @]
      /\ UNCHANGED <<now, fresh>>
  BY <1>3 DEF RunJob
<1>5. next \in Nat /\ next >= round.current /\ next <= now + jobs[a].interval
  BY <1>3
<1>6. saved \in JobIds \cup {NoJob}
  <2>1. CASE Place(jobs, round.at) = Len(jobs)
    BY <2>1 DEF NextOf
  <2>2. CASE Place(jobs, round.at) # Len(jobs)
    <3>1. a + 1 \in DOMAIN jobs /\ saved = jobs[a + 1].id
      BY <1>1, <1>3, <2>2 DEF NextOf
    <3> QED BY <1>1, <3>1
  <2> QED BY <2>1, <2>2
<1>7. /\ list \in Seq(Job) /\ Distinct(list) /\ IdsOf(list) = IdsOf(jobs) \ ids
      /\ Sorted(jobs) => Sorted(list)
  BY <1>1, PartKeeps
<1>8. \A k \in DOMAIN list : \E i \in DOMAIN jobs : list[k] = jobs[i]
  BY <1>1 DEF IsPart
<1>9. ASSUME ~broken' PROVE saved \in IdsOf(list) \cup {NoJob}
  BY <1>4, <1>9
<1>10. ASSUME ~broken', moves PROVE uses \ {NoJob} \subseteq IdsOf(list)
  BY <1>4, <1>10
<1> HIDE DEF next, saved
<1>11. ASSUME ~broken', moves
       PROVE  /\ moved \in Seq(Job) /\ Distinct(moved) /\ IdsOf(moved) = IdsOf(list)
              /\ \A k \in DOMAIN moved :
                   \/ \E i \in DOMAIN jobs : moved[k] = jobs[i]
                   \/ moved[k].next = next /\ moved[k].interval = jobs[a].interval
  <2>1. PICK b \in DOMAIN list : list[b].id = round.at
    BY <1>11 DEF IdsOf
  <2>2. list[b] = jobs[a]
    BY <1>3, <1>8, <2>1, <1>1 DEF Distinct
  <2>3. /\ moved \in Seq(Job) /\ Distinct(moved) /\ IdsOf(moved) = IdsOf(list)
        /\ \A k \in DOMAIN moved : \E i \in DOMAIN timed : moved[k] = timed[i]
    BY <1>2, <1>5, <1>7, <1>10, <1>11, <2>1, MovedIs
  <2>4. /\ DOMAIN timed = DOMAIN list
        /\ timed[b].next = next /\ timed[b].interval = list[b].interval
        /\ \A k \in DOMAIN list : k # b => timed[k] = list[k]
    BY <1>5, <1>7, <2>1, TimedIs
  <2> HIDE DEF moved, timed
  <2>5. ASSUME NEW k \in DOMAIN moved
        PROVE  \/ \E i \in DOMAIN jobs : moved[k] = jobs[i]
               \/ moved[k].next = next /\ moved[k].interval = jobs[a].interval
    <3>1. PICK i \in DOMAIN list : moved[k] = timed[i]
      BY <2>3, <2>4
    <3> QED BY <1>8, <2>2, <2>4, <3>1
  <2> QED BY <2>3, <2>5
<1>12. /\ jobs' \in Seq(Job) /\ Distinct(jobs') /\ IdsOf(jobs') = IdsOf(list)
       /\ \A k \in DOMAIN jobs' :
            \/ \E i \in DOMAIN jobs : jobs'[k] = jobs[i]
            \/ jobs'[k].next = next /\ jobs'[k].interval = jobs[a].interval
  <2>1. CASE moves /\ ~broken'
    <3>1. jobs' = moved
      BY <1>4, <2>1
    <3> HIDE DEF moved
    <3> QED BY <1>11, <2>1, <3>1
  <2>2. CASE ~(moves /\ ~broken')
    <3>1. jobs' = list
      BY <1>4, <2>2
    <3> QED BY <1>7, <1>8, <3>1
  <2> QED BY <2>1, <2>2
<1>13. /\ round' = [phase |-> "jobs", current |-> round.current, at |-> saved,
                    lastNow |-> round.lastNow, last |-> IF moves THEN round.at ELSE round.last]
  BY <1>2, <1>4, RoundType
<1>14. JobsTypeOK'
  <2>1. fresh' \subseteq JobIds \ IdsOf(jobs')
    BY <1>4, <1>7, <1>12 DEF JobsInv, JobsTypeOK
  <2>2. callbacks' \in Seq(JobIds)
    BY <1>4 DEF JobsInv, JobsTypeOK
  <2>3. tied' \in BOOLEAN
    <3>1. tied \in BOOLEAN
      BY DEF JobsInv, JobsTypeOK
    <3> QED BY <1>4, <3>1, Zenon
  <2>4. broken' \in BOOLEAN
    <3> HIDE DEF saved, uses, moves
    <3> QED BY <1>4, Zenon
  <2>5. round' \in [phase : {"idle", "jobs", "network"}, current : 0 .. now,
                    at : JobIds \cup {NoJob}, lastNow : JobIds \cup {NoJob},
                    last : JobIds \cup {NoJob}]
    <3> HIDE DEF moves
    <3> QED BY <1>6, <1>13, RoundType
  <2>6. now' \in 0 .. MaxTime /\ now' = now
    BY <1>4 DEF JobsInv, JobsTypeOK
  <2> QED BY <1>12, <2>1, <2>2, <2>3, <2>4, <2>5, <2>6 DEF JobsTypeOK, IdsOf, Distinct
<1>15. Walk'
  <2>1. ASSUME ~broken', saved # NoJob PROVE \E i \in DOMAIN jobs' : jobs'[i].id = saved
    <3>1. saved \in IdsOf(jobs')
      BY <1>9, <1>12, <2>1
    <3> QED BY <3>1 DEF IdsOf
  <2> QED BY <1>2, <1>13, <2>1 DEF Walk
<1>16. \A k \in DOMAIN jobs' : jobs'[k].interval >= MinInterval
  BY <1>1, <1>12
<1>17. ASSUME ~tied', ~broken' PROVE Timely'
  <2>1. ~tied /\ ~(moves /\ next = round.current)
    BY <1>4, <1>17
  <2>2. /\ Sorted(jobs) /\ InPlace(jobs, round)
        /\ \A k \in DOMAIN jobs : jobs[k].next <= now + jobs[k].interval
    BY <1>2, <2>1 DEF JobsInv, Timely
  <2>3. \A k \in DOMAIN jobs' : jobs'[k].next <= now' + jobs'[k].interval
    BY <1>4, <1>5, <1>12, <2>2
  <2> DEFINE after == [phase |-> "jobs", current |-> round.current, at |-> saved,
                       lastNow |-> round.lastNow,
                       last |-> IF moves THEN round.at ELSE round.last]
  <2>4. /\ after.at = NextOf(jobs, round.at) /\ after.current = round.current
        /\ after.lastNow = round.lastNow
        /\ moves => after.last = round.at
        /\ ~moves => after.last = round.last
    BY DEF saved
  <2>5. NextOf(jobs, round.at) \in IdsOf(list) \cup {NoJob}
    BY <1>9, <1>17 DEF saved
  <2>6. round' = after
    BY <1>13
  <2> HIDE DEF after
  <2>7. CASE moves
    <3>1. next > round.current
      BY <1>1, <1>5, <2>1, <2>7
    <3>2. jobs' = moved
      BY <1>4, <1>17, <2>7
    <3>3. Sorted(moved) /\ InPlace(moved, after)
      BY <1>2, <1>3, <1>5, <1>10, <1>17, <2>2, <2>4, <2>5, <2>7, <3>1, MovedInPlace
    <3> HIDE DEF moved
    <3>4. Sorted(jobs') /\ InPlace(jobs', round')
      BY <2>6, <3>2, <3>3
    <3> QED BY <1>13, <2>3, <3>4 DEF Timely, Sorted, InPlace
  <2>8. CASE ~moves
    <3>1. jobs' = list
      BY <1>4, <2>8
    <3>2. InPlace(list, after)
      BY <1>3, <2>2, <2>4, <2>5, <2>8, GoneInPlace
    <3>3. Sorted(jobs') /\ InPlace(jobs', round')
      BY <1>7, <2>2, <2>6, <3>1, <3>2
    <3> QED BY <1>13, <2>3, <3>3 DEF Timely, Sorted, InPlace
  <2> QED BY <2>7, <2>8
<1>18. Timely'
  BY <1>17 DEF Timely
<1> QED BY <1>14, <1>15, <1>16, <1>18 DEF JobsInv

(***************************************************************************)
(* The theorems.                                                           *)
(***************************************************************************)

LEMMA InvKept ==
  ASSUME JobsAssumption, JobsInv, [JobsNext]_jobVars
  PROVE  JobsInv'
<1>1. CASE RunPlain
  <2> DEFINE e == [k \in 1 .. Len(jobs) |-> k]
  <2>1. jobs \in Seq(Job) /\ DOMAIN jobs = 1 .. Len(jobs)
    BY Known
  <2>2. IsPart(e, jobs, jobs, Len(jobs), {})
    BY <2>1 DEF IsPart
  <2> HIDE DEF e
  <2>3. Due /\ RunJob(jobs, <<>>) /\ <<>> \in Seq(JobIds)
    BY <1>1 DEF RunPlain
  <2> QED BY <2>2, <2>3, RunKeeps
<1>2. CASE RunDelays
  <2> DEFINE e == [k \in 1 .. Len(jobs) |-> k]
  <2>1. jobs \in Seq(Job) /\ DOMAIN jobs = 1 .. Len(jobs)
    BY Known
  <2>2. IsPart(e, jobs, jobs, Len(jobs), {})
    BY <2>1 DEF IsPart
  <2> HIDE DEF e
  <2>3. Due /\ RunJob(jobs, <<round.at>>)
    BY <1>2 DEF RunDelays
  <2>4. <<round.at>> \in Seq(JobIds)
    <3>1. round.at \in JobIds
      BY <2>3, RoundType DEF Due
    <3> QED BY <3>1
  <2> QED BY <2>2, <2>3, <2>4, RunKeeps
<1>3. ASSUME NEW ids \in SUBSET IdsOf(jobs), RunRemoves(ids) PROVE JobsInv'
  <2>1. jobs \in Seq(Job)
    BY Known
  <2>2. PICK e : IsPart(e, Without(jobs, ids), jobs, Len(jobs), ids)
    BY <2>1, WithoutIsPart
  <2>3. Due /\ RunJob(Without(jobs, ids), <<>>) /\ <<>> \in Seq(JobIds)
    BY <1>3 DEF RunRemoves
  <2> QED BY <2>2, <2>3, RunKeeps
<1>4. CASE UNCHANGED jobVars
  BY <1>4 DEF jobVars, JobsInv, JobsTypeOK, Walk, Timely, InPlace, IdsOf, Distinct, Sorted
<1> QED BY <1>1, <1>2, <1>3, <1>4, TickKeeps, BeginKeeps, EndJobsKeeps, EndRoundKeeps, AddKeeps,
           RemoveKeeps DEF JobsNext

LEMMA InvAlways ==
  ASSUME JobsAssumption
  PROVE  JobsSpec => []JobsInv
<1>1. JobsInit => JobsInv
  <2> SUFFICES ASSUME JobsInit PROVE JobsInv
    OBVIOUS
  <2>1. Idle \in [phase : {"idle", "jobs", "network"}, current : 0 .. 0,
                  at : JobIds \cup {NoJob}, lastNow : JobIds \cup {NoJob},
                  last : JobIds \cup {NoJob}] /\ Idle.phase = "idle"
    BY DEF Idle
  <2>2. 0 \in 0 .. MaxTime
    BY DEF JobsAssumption
  <2>3. DOMAIN <<>> = {} /\ <<>> \in Seq(Job) /\ <<>> \in Seq(JobIds)
    OBVIOUS
  <2>4. Distinct(jobs) /\ IdsOf(jobs) = {} /\ Sorted(jobs)
    BY <2>3 DEF JobsInit, Distinct, IdsOf, Sorted
  <2>5. JobsTypeOK
    BY <2>1, <2>2, <2>3, <2>4 DEF JobsInit, JobsTypeOK
  <2>6. Walk /\ Timely /\ \A k \in DOMAIN jobs : jobs[k].interval >= MinInterval
    BY <2>1, <2>3, <2>4 DEF JobsInit, Walk, Timely
  <2> QED BY <2>5, <2>6 DEF JobsInv
<1>2. JobsInv /\ [JobsNext]_jobVars => JobsInv'
  BY InvKept
<1> QED BY <1>1, <1>2, PTL DEF JobsSpec

\* The list holds jobs, each once, and the local variables of an iteration name jobs
\* (open62541.c 18022-18221).
THEOREM TypesKept ==
  ASSUME JobsAssumption
  PROVE  JobsSpec => []JobsTypeOK
<1>1. JobsInv => JobsTypeOK
  BY DEF JobsInv
<1> QED BY <1>1, InvAlways, PTL

\* After an iteration each job is due after its time, and none later than its interval
\* allows (processRepeatedJobs and addRepeatedJob, 18037-18064, 18147-18183).
THEOREM NoneOverlooked ==
  ASSUME JobsAssumption
  PROVE  JobsSpec => []Punctual
<1>1. JobsInv => Punctual
  BY DEF JobsInv, Timely, Punctual
<1> QED BY <1>1, InvAlways, PTL

=============================================================================
