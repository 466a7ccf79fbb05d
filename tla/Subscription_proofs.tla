------------------------ MODULE Subscription_proofs ------------------------
(***************************************************************************)
(* Proofs about the subscriptions of a session: what was not processed can *)
(* be asked for again, the client holds the last sample or it is to come,  *)
(* and messages and values come in order.                                  *)
(***************************************************************************)
EXTENDS Subscription, SequenceTheorems, WellFoundedInduction, TLAPS

(***************************************************************************)
(* Numbers, lists and recursive functions.                                 *)
(***************************************************************************)

LEMMA LeastOf ==
  ASSUME NEW S, S \subseteq Nat, S # {}
  PROVE  \E d \in S : \A e \in S : d <= e
<1>1. \E d \in S : \A e \in S : ~(<<e, d>> \in OpToRel(<, Nat))
  BY NatLessThanWellFounded, WFMin
<1>2. PICK d \in S : \A e \in S : ~(<<e, d>> \in OpToRel(<, Nat))
  BY <1>1
<1>3. ASSUME NEW e \in S PROVE d <= e
  <2>1. ~(e < d)
    BY <1>2 DEF OpToRel
  <2> QED BY <2>1
<1> QED BY <1>3

LEMMA MaxOf ==
  ASSUME NEW n \in Nat, NEW S, S \subseteq 1 .. n, S # {}
  PROVE  Max(S) \in S /\ \A e \in S : Max(S) >= e
<1> DEFINE T == {n - k : k \in S}
<1>1. T \subseteq Nat /\ T # {}
  <2>1. \A k \in S : n - k \in Nat
    OBVIOUS
  <2> QED BY <2>1
<1>2. PICK d \in T : \A e \in T : d <= e
  BY <1>1, LeastOf
<1>3. PICK k \in S : d = n - k
  BY <1>2
<1>4. \A e \in S : k >= e
  <2>1. TAKE e \in S
  <2>2. n - k <= n - e
    BY <1>2, <1>3
  <2> QED BY <2>2
<1> QED BY <1>4 DEF Max

LEMMA ElementsOfSeq ==
  ASSUME NEW S, NEW list \in Seq(S)
  PROVE  DOMAIN list = 1 .. Len(list) /\ Len(list) \in Nat /\ \A k \in DOMAIN list : list[k] \in S
OBVIOUS

\* f is computed from a base and by steps within S, the first n of them.
IsComputed(f, n, base, step, S) ==
  f \in [0 .. n -> S] /\ f[0] = base /\ \A k \in 1 .. n : f[k] = step[<<k, f[k - 1]>>]

\* A recursive function exists if its values stay in a set; by contradiction, with the least
\* number of steps for which there is none.
LEMMA Computed ==
  ASSUME NEW S, NEW N \in Nat, NEW base \in S, NEW step \in [(1 .. N) \X S -> S]
  PROVE  \E f : IsComputed(f, N, base, step, S)
<1> DEFINE None == {m \in 0 .. N : ~ \E f : IsComputed(f, m, base, step, S)}
<1>1. None = {}
  <2>1. SUFFICES ASSUME None # {} PROVE FALSE
    OBVIOUS
  <2>2. None \subseteq Nat
    OBVIOUS
  <2>3. PICK m \in None : \A k \in None : m <= k
    BY <2>1, <2>2, LeastOf
  <2>4. m \in 0 .. N /\ ~ \E f : IsComputed(f, m, base, step, S)
    BY <2>3
  <2>5. m # 0
    <3>1. IsComputed([k \in 0 .. 0 |-> base], 0, base, step, S)
      BY DEF IsComputed
    <3> QED BY <2>4, <3>1
  <2>6. m - 1 \in 0 .. N /\ m - 1 \notin None /\ m \in 1 .. N
    BY <2>3, <2>4, <2>5
  <2>7. PICK g : IsComputed(g, m - 1, base, step, S)
    BY <2>6
  <2> DEFINE h == [k \in 0 .. m |-> IF k < m THEN g[k] ELSE step[<<m, g[m - 1]>>]]
  <2>8. g \in [0 .. m - 1 -> S] /\ g[0] = base /\ \A k \in 1 .. m - 1 : g[k] = step[<<k, g[k - 1]>>]
    BY <2>7 DEF IsComputed
  <2>9. g[m - 1] \in S /\ step[<<m, g[m - 1]>>] \in S
    <3>1. g[m - 1] \in S
      BY <2>6, <2>8
    <3>2. <<m, g[m - 1]>> \in (1 .. N) \X S
      BY <2>6, <3>1
    <3> QED BY <3>1, <3>2
  <2>10. h \in [0 .. m -> S]
    BY <2>6, <2>8, <2>9
  <2>11. h[0] = base
    BY <2>6, <2>8
  <2>12. ASSUME NEW k \in 1 .. m PROVE h[k] = step[<<k, h[k - 1]>>]
    <3>1. k - 1 \in 0 .. m /\ k - 1 < m /\ h[k - 1] = g[k - 1]
      BY <2>6
    <3>2. CASE k < m
      <4>1. h[k] = g[k] /\ k \in 1 .. m - 1
        BY <2>6, <3>2
      <4> QED BY <2>8, <3>1, <4>1
    <3>3. CASE k = m
      BY <2>6, <3>1, <3>3
    <3> QED BY <2>6, <3>2, <3>3
  <2> HIDE DEF h
  <2>13. IsComputed(h, m, base, step, S)
    BY <2>10, <2>11, <2>12 DEF IsComputed
  <2> QED BY <2>4, <2>13
<1>2. N \in 0 .. N /\ N \notin None
  BY <1>1
<1> QED BY <1>2

\* Induction, with a set for the property.
LEMMA Reached ==
  ASSUME NEW P, NEW N \in Nat, 0 \in P, \A k \in 1 .. N : k - 1 \in P => k \in P
  PROVE  \A k \in 0 .. N : k \in P
<1> DEFINE Out == {k \in 0 .. N : k \notin P}
<1>1. Out = {}
  <2>1. SUFFICES ASSUME Out # {} PROVE FALSE
    OBVIOUS
  <2>2. Out \subseteq Nat
    OBVIOUS
  <2>3. PICK k \in Out : \A m \in Out : k <= m
    BY <2>1, <2>2, LeastOf
  <2>4. k \in 1 .. N /\ k - 1 \in 0 .. N
    BY <2>3
  <2>5. k - 1 \notin Out
    BY <2>3, <2>4
  <2> QED BY <2>3, <2>4, <2>5
<1> QED BY <1>1

\* What the first value of a function has and each hands on, all have.
LEMMA StaysIn ==
  ASSUME NEW S, NEW N \in Nat, NEW f, f[0] \in S,
         \A k \in 1 .. N : f[k - 1] \in S => f[k] \in S
  PROVE  \A k \in 0 .. N : f[k] \in S
<1> DEFINE P == {k \in 0 .. N : f[k] \in S}
<1>1. 0 \in P /\ \A k \in 1 .. N : k - 1 \in P => k \in P
  OBVIOUS
<1> HIDE DEF P
<1>2. \A k \in 0 .. N : k \in P
  BY <1>1, Reached
<1> QED BY <1>2 DEF P

(***************************************************************************)
(* What is left of a list.                                                 *)
(***************************************************************************)

\* r is the first n of list but for those at other places than the given, each from e[k].
IsPart(e, r, list, n, places) ==
  /\ \A k \in DOMAIN r : e[k] \in 1 .. n /\ e[k] \in places /\ r[k] = list[e[k]]
  /\ \A i, k \in DOMAIN r : i < k => e[i] < e[k]
  /\ \A m \in 1 .. n : m \in places => \E k \in DOMAIN r : e[k] = m

LEMMA PartGrows ==
  ASSUME NEW S, NEW list \in Seq(S), NEW places, NEW n \in 1 .. Len(list), n \in places,
         NEW e, NEW r \in Seq(S), IsPart(e, r, list, n - 1, places)
  PROVE  \E f : IsPart(f, Append(r, list[n]), list, n, places)
<1> DEFINE new == Append(r, list[n])
           f == [k \in 1 .. Len(r) + 1 |-> IF k = Len(r) + 1 THEN n ELSE e[k]]
<1>1. Len(r) \in Nat /\ DOMAIN r = 1 .. Len(r) /\ n \in Nat /\ list[n] \in S
  BY ElementsOfSeq
<1>2. /\ DOMAIN new = 1 .. Len(r) + 1
      /\ \A k \in 1 .. Len(r) : new[k] = r[k]
      /\ new[Len(r) + 1] = list[n]
  BY <1>1
<1> HIDE DEF new
<1>3. /\ f[Len(r) + 1] = n
      /\ \A k \in DOMAIN r : f[k] = e[k] /\ e[k] \in 1 .. n - 1
  BY <1>1 DEF IsPart
<1> HIDE DEF f
<1>4. ASSUME NEW k \in DOMAIN new
      PROVE  f[k] \in 1 .. n /\ new[k] = list[f[k]] /\ f[k] \in places
  <2>1. CASE k = Len(r) + 1
    BY <1>1, <1>2, <1>3, <2>1
  <2>2. CASE k \in DOMAIN r
    BY <1>1, <1>2, <1>3, <2>2 DEF IsPart
  <2> QED BY <1>1, <1>2, <2>1, <2>2
<1>5. ASSUME NEW i \in DOMAIN new, NEW k \in DOMAIN new, i < k
      PROVE  f[i] < f[k]
  <2>1. i \in DOMAIN r
    BY <1>1, <1>2, <1>5
  <2>2. CASE k = Len(r) + 1
    BY <1>1, <1>3, <2>1, <2>2
  <2>3. CASE k \in DOMAIN r
    BY <1>3, <1>5, <2>1, <2>3 DEF IsPart
  <2> QED BY <1>1, <1>2, <2>2, <2>3
<1>6. ASSUME NEW m \in 1 .. n, m \in places
      PROVE  \E k \in DOMAIN new : f[k] = m
  <2>1. CASE m = n
    BY <1>1, <1>2, <1>3, <2>1
  <2>2. CASE m \in 1 .. n - 1
    <3>1. PICK k \in DOMAIN r : e[k] = m
      BY <1>6, <2>2 DEF IsPart
    <3> QED BY <1>1, <1>2, <1>3, <3>1
  <2> QED BY <1>1, <2>1, <2>2
<1> QED BY SMTT(30), <1>2, <1>4, <1>5, <1>6 DEF IsPart, new

Chosen(list, places, before, k) ==
  IF k \in places THEN Append(before, list[k]) ELSE before

LEMMA SelectedSteps ==
  ASSUME NEW S, NEW list \in Seq(S), NEW places
  PROVE  \E f : /\ \A k \in 0 .. Len(list) : f[k] \in Seq(S)
                /\ f[0] = <<>>
                /\ \A k \in 1 .. Len(list) : f[k] = Chosen(list, places, f[k - 1], k)
                /\ Selected(list, places) = f[Len(list)]
<1> DEFINE step == [p \in (1 .. Len(list)) \X Seq(S) |-> Chosen(list, places, p[2], p[1])]
           Is(f) == f = [k \in 0 .. Len(list) |->
                           IF k = 0 THEN <<>> ELSE Chosen(list, places, f[k - 1], k)]
<1>1. Len(list) \in Nat /\ <<>> \in Seq(S)
  OBVIOUS
<1>2. step \in [(1 .. Len(list)) \X Seq(S) -> Seq(S)]
  <2>1. ASSUME NEW p \in (1 .. Len(list)) \X Seq(S)
        PROVE  Chosen(list, places, p[2], p[1]) \in Seq(S)
    <3>1. p[1] \in 1 .. Len(list) /\ p[2] \in Seq(S)
      BY <2>1
    <3>2. list[p[1]] \in S
      BY <3>1, ElementsOfSeq
    <3>3. Append(p[2], list[p[1]]) \in Seq(S)
      BY <3>1, <3>2
    <3> QED BY <3>1, <3>3 DEF Chosen
  <2> QED BY <2>1
<1>3. PICK g : IsComputed(g, Len(list), <<>>, step, Seq(S))
  <2> HIDE DEF step
  <2> QED BY <1>1, <1>2, Computed
<1>4. /\ g \in [0 .. Len(list) -> Seq(S)] /\ g[0] = <<>>
      /\ \A k \in 1 .. Len(list) : g[k] = Chosen(list, places, g[k - 1], k)
  <2>1. \A k \in 1 .. Len(list) : k - 1 \in 0 .. Len(list)
    BY <1>1
  <2> QED BY <1>3, <2>1 DEF IsComputed
<1>5. Is(g)
  <2>1. g = [k \in 0 .. Len(list) |-> g[k]]
    BY <1>4
  <2>2. \A k \in 0 .. Len(list) : g[k] = IF k = 0 THEN <<>> ELSE Chosen(list, places, g[k - 1], k)
    BY <1>1, <1>4
  <2> QED BY <2>1, <2>2
<1> DEFINE chosen == CHOOSE f : Is(f)
<1>6. Is(chosen)
  BY <1>5
<1>7. Selected(list, places) = chosen[Len(list)]
  BY DEF Selected, Chosen
<1> HIDE DEF chosen
<1>8. \A k \in 0 .. Len(list) : chosen[k] = IF k = 0 THEN <<>> ELSE Chosen(list, places, chosen[k - 1], k)
  BY <1>6
<1>9. chosen[0] = <<>> /\ \A k \in 1 .. Len(list) : chosen[k] = Chosen(list, places, chosen[k - 1], k)
  BY <1>1, <1>8
<1>10. \A k \in 0 .. Len(list) : chosen[k] \in Seq(S)
  <2>1. ASSUME NEW k \in 1 .. Len(list), chosen[k - 1] \in Seq(S) PROVE chosen[k] \in Seq(S)
    <3>1. list[k] \in S
      BY ElementsOfSeq
    <3>2. Append(chosen[k - 1], list[k]) \in Seq(S)
      BY <2>1, <3>1
    <3> QED BY <1>9, <2>1, <3>2 DEF Chosen
  <2> QED BY <1>1, <1>9, <2>1, StaysIn
<1> QED BY <1>7, <1>9, <1>10

LEMMA SelectedIs ==
  ASSUME NEW S, NEW list \in Seq(S), NEW places
  PROVE  /\ Selected(list, places) \in Seq(S)
         /\ \E e : IsPart(e, Selected(list, places), list, Len(list), places)
<1>1. PICK f : /\ \A k \in 0 .. Len(list) : f[k] \in Seq(S)
               /\ f[0] = <<>>
               /\ \A k \in 1 .. Len(list) : f[k] = Chosen(list, places, f[k - 1], k)
               /\ Selected(list, places) = f[Len(list)]
  BY SelectedSteps
<1>2. Len(list) \in Nat
  OBVIOUS
<1> DEFINE Part == {n \in 0 .. Len(list) : \E e : IsPart(e, f[n], list, n, places)}
<1>3. 0 \in Part
  <2>1. IsPart(<<>>, <<>>, list, 0, places)
    BY DEF IsPart
  <2> QED BY <1>1, <1>2, <2>1
<1>4. ASSUME NEW n \in 1 .. Len(list), n - 1 \in Part PROVE n \in Part
  <2>1. n - 1 \in 0 .. Len(list) /\ f[n - 1] \in Seq(S) /\ n \in 0 .. Len(list)
    BY <1>1, <1>2
  <2>2. PICK e : IsPart(e, f[n - 1], list, n - 1, places)
    BY <1>4
  <2>3. CASE n \in places
    <3>1. f[n] = Append(f[n - 1], list[n])
      BY <1>1, <2>3 DEF Chosen
    <3>2. \E h : IsPart(h, Append(f[n - 1], list[n]), list, n, places)
      BY <2>1, <2>2, <2>3, PartGrows
    <3> QED BY <2>1, <3>1, <3>2
  <2>4. CASE n \notin places
    <3>1. f[n] = f[n - 1]
      BY <1>1, <2>4 DEF Chosen
    <3>2. IsPart(e, f[n - 1], list, n, places)
      <4>1. \A m \in 1 .. n : m \in 1 .. n - 1 \/ m = n
        OBVIOUS
      <4>2. 1 .. n - 1 \subseteq 1 .. n
        OBVIOUS
      <4> QED BY <2>2, <2>4, <4>1, <4>2 DEF IsPart
    <3> QED BY <2>1, <3>1, <3>2
  <2> QED BY <2>3, <2>4
<1>5. Len(list) \in Part
  <2> HIDE DEF Part
  <2>1. \A k \in 0 .. Len(list) : k \in Part
    BY <1>2, <1>3, <1>4, Reached
  <2> QED BY <1>2, <2>1
<1>6. Selected(list, places) \in Seq(S)
  BY <1>1, <1>2
<1> QED BY <1>1, <1>5, <1>6


(***************************************************************************)
(* The samples that wait for being published.                              *)
(***************************************************************************)

LEMMA ItemType ==
  ASSUME SubscriptionAssumption, NEW items \in Seq(Item)
  PROVE  /\ DOMAIN items = 1 .. Len(items) /\ Len(items) \in Nat
         /\ \A k \in DOMAIN items :
              /\ items[k] \in Item /\ items[k].id \in ItemIds
              /\ items[k].queue \in Seq(0 .. MaxValue)
              /\ DOMAIN items[k].queue = 1 .. Len(items[k].queue) /\ Len(items[k].queue) \in Nat
              /\ items[k].last \in NoValue .. MaxValue
<1>1. /\ DOMAIN items = 1 .. Len(items) /\ Len(items) \in Nat
      /\ \A k \in DOMAIN items : items[k] \in Item
  BY ElementsOfSeq
<1>2. \A item \in Item : /\ item.id \in ItemIds /\ item.queue \in Seq(0 .. MaxValue)
                         /\ item.last \in NoValue .. MaxValue
  BY DEF Item
<1>3. \A queue1 \in Seq(0 .. MaxValue) : DOMAIN queue1 = 1 .. Len(queue1) /\ Len(queue1) \in Nat
  BY ElementsOfSeq
<1> QED BY <1>1, <1>2, <1>3

LEMMA SamplesOfIs ==
  ASSUME NEW item, item.id \in ItemIds, item.queue \in Seq(0 .. MaxValue)
  PROVE  /\ SamplesOf(item) \in Seq(Notification) /\ Len(SamplesOf(item)) = Len(item.queue)
         /\ \A j \in 1 .. Len(item.queue) :
              SamplesOf(item)[j] = [item |-> item.id, value |-> item.queue[j]]
<1> DEFINE n == Len(item.queue)
           s == [j \in 1 .. n |-> [item |-> item.id, value |-> item.queue[j]]]
<1>1. DOMAIN item.queue = 1 .. n /\ n \in Nat /\ \A j \in 1 .. n : item.queue[j] \in 0 .. MaxValue
  BY ElementsOfSeq
<1>2. SamplesOf(item) = s
  BY <1>1 DEF SamplesOf
<1> HIDE DEF n
<1>3. \A j \in 1 .. n : [item |-> item.id, value |-> item.queue[j]] \in Notification
  BY <1>1 DEF Notification
<1>4. s \in Seq(Notification) /\ Len(s) = n
  BY <1>1, <1>3
<1> QED BY <1>2, <1>4 DEF n

LEMMA ListedIs ==
  ASSUME SubscriptionAssumption, NEW items \in Seq(Item)
  PROVE  /\ \A n \in 0 .. Len(items) : Listed(items)[n] \in Seq(Notification)
         /\ Listed(items)[0] = <<>>
         /\ \A n \in 1 .. Len(items) :
              Listed(items)[n] = Listed(items)[n - 1] \o SamplesOf(items[n])
<1> DEFINE N == Len(items)
           S == Seq(Notification)
           step == [p \in (1 .. N) \X S |-> p[2] \o SamplesOf(items[p[1]])]
           Is(f) == f = [n \in 0 .. N |-> IF n = 0 THEN <<>>
                                          ELSE f[n - 1] \o SamplesOf(items[n])]
<1>1. N \in Nat /\ <<>> \in S /\ \A n \in 1 .. N : SamplesOf(items[n]) \in S
  <2>1. ASSUME NEW n \in 1 .. N PROVE SamplesOf(items[n]) \in S
    <3>1. items[n].id \in ItemIds /\ items[n].queue \in Seq(0 .. MaxValue)
      BY ItemType
    <3> QED BY <3>1, SamplesOfIs
  <2> QED BY <2>1
<1> HIDE DEF N
<1>2. step \in [(1 .. N) \X S -> S]
  <2>1. ASSUME NEW p \in (1 .. N) \X S PROVE p[2] \o SamplesOf(items[p[1]]) \in S
    <3>1. p[2] \in S /\ SamplesOf(items[p[1]]) \in S
      BY <1>1, <2>1
    <3> QED BY <3>1
  <2> QED BY <2>1
<1>3. PICK g : IsComputed(g, N, <<>>, step, S)
  <2> HIDE DEF step, S
  <2> QED BY <1>1, <1>2, Computed
<1>4. /\ g \in [0 .. N -> S] /\ g[0] = <<>>
      /\ \A n \in 1 .. N : g[n] = g[n - 1] \o SamplesOf(items[n])
  <2>1. g \in [0 .. N -> S] /\ g[0] = <<>> /\ \A n \in 1 .. N : g[n] = step[<<n, g[n - 1]>>]
    <3> HIDE DEF step, S
    <3> QED BY <1>3 DEF IsComputed
  <2>2. \A n \in 1 .. N : n - 1 \in 0 .. N /\ g[n - 1] \in S
    BY <1>1, <2>1
  <2>3. \A n \in 1 .. N : step[<<n, g[n - 1]>>] = g[n - 1] \o SamplesOf(items[n])
    <3>1. TAKE n \in 1 .. N
    <3>2. <<n, g[n - 1]>> \in (1 .. N) \X S
      BY <2>2
    <3> HIDE DEF S
    <3> QED BY <3>2
  <2> HIDE DEF step, S
  <2> QED BY <2>1, <2>3
<1>5. Is(g)
  <2> HIDE DEF S
  <2>1. g = [n \in 0 .. N |-> g[n]]
    BY <1>4
  <2>2. \A n \in 0 .. N : g[n] = IF n = 0 THEN <<>> ELSE g[n - 1] \o SamplesOf(items[n])
    BY <1>1, <1>4
  <2> QED BY <2>1, <2>2
<1> DEFINE listed == CHOOSE f : Is(f)
<1>6. Is(listed)
  BY <1>5
<1>7. Listed(items) = listed
  BY DEF Listed, N
<1> HIDE DEF listed
<1>8. \A n \in 0 .. N : listed[n] = IF n = 0 THEN <<>> ELSE listed[n - 1] \o SamplesOf(items[n])
  BY <1>6
<1>9. listed[0] = <<>> /\ \A n \in 1 .. N : listed[n] = listed[n - 1] \o SamplesOf(items[n])
  <2>1. 0 \in 0 .. N /\ \A n \in 1 .. N : n \in 0 .. N /\ n # 0
    BY <1>1
  <2> HIDE DEF S
  <2> QED BY <2>1, <1>8
<1>10. \A n \in 0 .. N : listed[n] \in S
  <2>1. ASSUME NEW n \in 1 .. N, listed[n - 1] \in S PROVE listed[n] \in S
    <3>1. SamplesOf(items[n]) \in S
      BY <1>1
    <3>2. listed[n - 1] \o SamplesOf(items[n]) \in S
      BY <2>1, <3>1, ConcatProperties
    <3> QED BY <1>9, <3>2
  <2> HIDE DEF S
  <2> QED BY <1>1, <1>9, <2>1, StaysIn
<1> QED BY <1>7, <1>9, <1>10 DEF N

SampleAt(items, k, j) == [item |-> items[k].id, value |-> items[k].queue[j]]

\* Each element of s is a sample of one of the first n items, and each of those is in s, at
\* the place that follows from how many come before.
Arranged(items, s, n) ==
  /\ \A p \in 1 .. Len(s) :
       \E k \in 1 .. n : /\ p - Before(items, k) \in 1 .. Len(items[k].queue)
                         /\ s[p] = SampleAt(items, k, p - Before(items, k))
  /\ \A k \in 1 .. n : \A j \in 1 .. Len(items[k].queue) :
       /\ Before(items, k) + j \in 1 .. Len(s)
       /\ s[Before(items, k) + j] = SampleAt(items, k, j)

LEMMA SamplesArranged ==
  ASSUME SubscriptionAssumption, NEW items \in Seq(Item)
  PROVE  /\ Samples(items) \in Seq(Notification)
         /\ Arranged(items, Samples(items), Len(items))
         /\ \A k \in DOMAIN items : Before(items, k) \in Nat
<1> DEFINE N == Len(items)
           L == Listed(items)
           P == {n \in 0 .. N : Arranged(items, L[n], n)}
<1>1. /\ N \in Nat /\ DOMAIN items = 1 .. N
      /\ \A k \in 1 .. N : /\ Len(items[k].queue) \in Nat /\ items[k].id \in ItemIds
                           /\ items[k].queue \in Seq(0 .. MaxValue)
  BY ItemType
<1>2. /\ \A n \in 0 .. N : L[n] \in Seq(Notification)
      /\ L[0] = <<>>
      /\ \A n \in 1 .. N : L[n] = L[n - 1] \o SamplesOf(items[n])
  BY ListedIs
<1>3. \A k \in 1 .. N : Before(items, k) = Len(L[k - 1])
  BY DEF Before
<1> HIDE DEF N, L
<1>4. 0 \in P
  <2>1. Arranged(items, <<>>, 0)
    BY DEF Arranged
  <2> QED BY <1>1, <1>2, <2>1
<1>5. ASSUME NEW n \in 1 .. N, n - 1 \in P PROVE n \in P
  <2> DEFINE old == L[n - 1]
             added == SamplesOf(items[n])
             new == L[n]
  <2>1. /\ old \in Seq(Notification) /\ added \in Seq(Notification)
        /\ Len(old) \in Nat /\ Len(added) = Len(items[n].queue) /\ Len(added) \in Nat
        /\ \A j \in 1 .. Len(added) : added[j] = SampleAt(items, n, j)
    <3>1. n - 1 \in 0 .. N
      BY <1>1
    <3>2. old \in Seq(Notification)
      BY <1>2, <3>1
    <3>3. /\ added \in Seq(Notification) /\ Len(added) = Len(items[n].queue)
          /\ \A j \in 1 .. Len(items[n].queue) : added[j] = SampleAt(items, n, j)
      BY <1>1, SamplesOfIs DEF SampleAt
    <3> QED BY <3>2, <3>3, <1>1, ElementsOfSeq
  <2>2. new = old \o added
    BY <1>2
  <2>3. Before(items, n) = Len(old) /\ Arranged(items, old, n - 1)
    BY <1>3, <1>5
  <2> HIDE DEF old, added, new
  <2>4. /\ Len(new) = Len(old) + Len(added)
        /\ \A p \in 1 .. Len(old) : new[p] = old[p]
        /\ \A j \in 1 .. Len(added) : new[Len(old) + j] = added[j]
    <3>1. /\ Len(old \o added) = Len(old) + Len(added)
          /\ \A p \in 1 .. Len(old) + Len(added) :
               (old \o added)[p] = IF p <= Len(old) THEN old[p] ELSE added[p - Len(old)]
      BY <2>1, ConcatProperties
    <3>2. \A j \in 1 .. Len(added) : /\ Len(old) + j \in 1 .. Len(old) + Len(added)
                                      /\ ~(Len(old) + j <= Len(old)) /\ Len(old) + j - Len(old) = j
      BY <2>1
    <3>3. \A p \in 1 .. Len(old) : p \in 1 .. Len(old) + Len(added) /\ p <= Len(old)
      BY <2>1
    <3> QED BY <2>2, <3>1, <3>2, <3>3
  <2>5. ASSUME NEW p \in 1 .. Len(new)
        PROVE  \E k \in 1 .. n : /\ p - Before(items, k) \in 1 .. Len(items[k].queue)
                                 /\ new[p] = SampleAt(items, k, p - Before(items, k))
    <3>1. CASE p \in 1 .. Len(old)
      <4>1. PICK k \in 1 .. n - 1 : /\ p - Before(items, k) \in 1 .. Len(items[k].queue)
                                    /\ old[p] = SampleAt(items, k, p - Before(items, k))
        BY <2>3, <3>1 DEF Arranged
      <4>2. k \in 1 .. n
        BY <1>1
      <4> QED BY <2>4, <3>1, <4>1, <4>2
    <3>2. CASE p > Len(old)
      <4>1. p - Len(old) \in 1 .. Len(added) /\ Len(old) + (p - Len(old)) = p
        BY <2>1, <2>4, <3>2
      <4>2. new[p] = added[p - Len(old)]
        BY <2>4, <4>1
      <4>3. new[p] = SampleAt(items, n, p - Before(items, n))
        BY <2>1, <2>3, <4>1, <4>2
      <4>4. n \in 1 .. n /\ p - Before(items, n) \in 1 .. Len(items[n].queue)
        BY <1>1, <2>1, <2>3, <4>1
      <4> QED BY <4>3, <4>4
    <3> QED BY <2>1, <2>4, <3>1, <3>2
  <2>6. ASSUME NEW k \in 1 .. n, NEW j \in 1 .. Len(items[k].queue)
        PROVE  /\ Before(items, k) + j \in 1 .. Len(new)
               /\ new[Before(items, k) + j] = SampleAt(items, k, j)
    <3>1. CASE k = n
      <4>1. j \in 1 .. Len(added) /\ Len(old) \in Nat
        BY <2>1, <3>1
      <4>2. Len(old) + j \in 1 .. Len(new)
        BY <2>1, <2>4, <4>1
      <4>3. new[Len(old) + j] = SampleAt(items, n, j)
        BY <2>1, <2>4, <4>1
      <4> QED BY <2>3, <3>1, <4>2, <4>3
    <3>2. CASE k # n
      <4>1. k \in 1 .. n - 1
        BY <1>1, <3>2
      <4>2. Before(items, k) + j \in 1 .. Len(old) /\ old[Before(items, k) + j] = SampleAt(items, k, j)
        BY <2>3, <4>1 DEF Arranged
      <4> QED BY <2>1, <2>4, <4>2
    <3> QED BY <3>1, <3>2
  <2>7. Arranged(items, new, n)
    BY <2>5, <2>6 DEF Arranged
  <2> QED BY <1>1, <2>7 DEF new
<1>6. N \in P
  <2> HIDE DEF P
  <2>1. \A k \in 0 .. N : k \in P
    BY <1>1, <1>4, <1>5, Reached
  <2> QED BY <1>1, <2>1
<1>7. Samples(items) = L[N]
  BY DEF Samples, L, N
<1>8. L[N] \in Seq(Notification)
  BY <1>1, <1>2
<1>9. \A k \in 1 .. N : Before(items, k) \in Nat
  <2>1. TAKE k \in 1 .. N
  <2>2. k - 1 \in 0 .. N
    BY <1>1
  <2>3. L[k - 1] \in Seq(Notification)
    BY <1>2, <2>2
  <2> QED BY <1>3, <2>3, ElementsOfSeq
<1> QED BY <1>1, <1>6, <1>7, <1>8, <1>9 DEF N

(***************************************************************************)
(* Types.                                                                  *)
(***************************************************************************)

LEMMA Constants ==
  ASSUME SubscriptionAssumption
  PROVE  /\ MaxSub \in Nat /\ MaxValue \in Nat /\ MaxRequest \in Nat /\ MaxGiveUp \in Nat
         /\ MaxPerPublish \in Nat /\ MaxPerPublish > 0 /\ MaxRetransmission \in Nat
         /\ KeepAliveLimits.min \in Nat /\ KeepAliveLimits.max \in Nat
         /\ KeepAliveLimits.min <= KeepAliveLimits.max
         /\ LifeTimeLimits.min \in Nat /\ LifeTimeLimits.max \in Nat
         /\ LifeTimeLimits.min <= LifeTimeLimits.max
         /\ QueueSizeLimits.min \in Nat /\ QueueSizeLimits.max \in Nat
         /\ QueueSizeLimits.min <= QueueSizeLimits.max /\ QueueSizeLimits.min > 0
         /\ \A id \in SubIds : MaxItem[id] \in Nat /\ 1 .. MaxItem[id] \subseteq ItemIds
         /\ SubIds \subseteq Nat /\ ItemIds \subseteq Nat \ {0}
         /\ \A on \in Modes : on \in BOOLEAN
         /\ \A s \in Settings : s.keepAlive \in Nat /\ s.life \in Nat /\ s.perPublish \in Nat
         /\ \A s \in ItemSettings : s.size \in Nat /\ s.oldest \in BOOLEAN
<1>1. /\ MaxSub \in Nat /\ MaxValue \in Nat /\ MaxRequest \in Nat /\ MaxGiveUp \in Nat
      /\ MaxPerPublish \in Nat /\ MaxPerPublish > 0 /\ MaxRetransmission \in Nat
  BY DEF SubscriptionAssumption
<1>2. \A limits \in {KeepAliveLimits, LifeTimeLimits, QueueSizeLimits} :
        limits.min \in Nat /\ limits.max \in Nat /\ limits.min <= limits.max
  BY DEF SubscriptionAssumption
<1>3. QueueSizeLimits.min > 0 /\ MaxItem \in [SubIds -> Nat]
  BY DEF SubscriptionAssumption, SubIds
<1>4. \A id \in SubIds : MaxItem[id] \in Nat /\ 1 .. MaxItem[id] \subseteq ItemIds
  BY <1>3 DEF ItemIds
<1>5. SubIds \subseteq Nat /\ ItemIds \subseteq Nat \ {0}
  BY <1>1, <1>3 DEF SubIds, ItemIds
<1>6. Modes \subseteq BOOLEAN
  BY DEF SubscriptionAssumption
<1>7. \A s \in Settings : s.keepAlive \in Nat /\ s.life \in Nat /\ s.perPublish \in Nat
  BY DEF SubscriptionAssumption
<1>8. \A s \in ItemSettings : s.size \in Nat /\ s.oldest \in BOOLEAN
  BY DEF SubscriptionAssumption
<1>9. \A on \in Modes : on \in BOOLEAN
  BY <1>6
<1> QED BY <1>1, <1>2, <1>3, <1>4, <1>5, <1>7, <1>8, <1>9

LEMMA BoundedIs ==
  ASSUME NEW n \in Nat, NEW limits, limits.min \in Nat, limits.max \in Nat,
         limits.min <= limits.max
  PROVE  Bounded(n, limits) \in limits.min .. limits.max
BY DEF Bounded

\* The subscriptions of a session that numbered them up to last.
Subscriptions(last) ==
  {sub \in ServerSubscription :
     sub.id <= last /\ sub.life <= sub.lifeTime /\ sub.lastItem <= MaxItem[sub.id]}

\* Equal in all that matters to what is sent.
Alike(new, old) ==
  /\ new.id = old.id /\ new.seq = old.seq /\ new.lastItem = old.lastItem
  /\ new.items = old.items /\ new.retransmission = old.retransmission

LEMMA SubscriptionType ==
  ASSUME SubscriptionAssumption, NEW last, NEW sub \in Subscriptions(last)
  PROVE  /\ sub \in ServerSubscription
         /\ sub.id \in SubIds /\ sub.id <= last /\ sub.enabled \in BOOLEAN
         /\ sub.maxKeepAlive \in Nat /\ sub.maxKeepAlive <= KeepAliveLimits.max
         /\ sub.lifeTime \in Nat /\ sub.life \in Nat /\ sub.life <= sub.lifeTime
         /\ sub.perPublish \in 1 .. MaxPerPublish /\ sub.perPublish \in Nat
         /\ sub.keepAlive \in 0 .. KeepAliveLimits.max
         /\ sub.seq \in Nat /\ sub.lastItem \in Nat /\ sub.lastItem <= MaxItem[sub.id]
         /\ sub.items \in Seq(Item) /\ sub.retransmission \in Seq(Message)
<1>1. /\ sub \in ServerSubscription /\ sub.id <= last /\ sub.life <= sub.lifeTime
      /\ sub.lastItem <= MaxItem[sub.id]
  BY DEF Subscriptions
<1>2. /\ sub.id \in SubIds /\ sub.enabled \in BOOLEAN
      /\ sub.maxKeepAlive \in KeepAliveLimits.min .. KeepAliveLimits.max
      /\ sub.lifeTime \in Nat /\ sub.life \in Nat /\ sub.perPublish \in 1 .. MaxPerPublish
      /\ sub.keepAlive \in 0 .. KeepAliveLimits.max /\ sub.seq \in Nat /\ sub.lastItem \in Nat
      /\ sub.items \in Seq(Item) /\ sub.retransmission \in Seq(Message)
  BY <1>1 DEF ServerSubscription
<1>3. sub.maxKeepAlive \in Nat /\ sub.maxKeepAlive <= KeepAliveLimits.max /\ sub.perPublish \in Nat
  <2>1. KeepAliveLimits.min \in Nat /\ KeepAliveLimits.max \in Nat /\ MaxPerPublish \in Nat
    BY Constants
  <2> QED BY <1>2, <2>1
<1> QED BY <1>1, <1>2, <1>3

LEMMA TypedList ==
  ASSUME NEW last, NEW list
  PROVE  (/\ list \in Seq(ServerSubscription)
          /\ \A k \in DOMAIN list : /\ list[k].id <= last /\ list[k].life <= list[k].lifeTime
                                    /\ list[k].lastItem <= MaxItem[list[k].id])
         <=> list \in Seq(Subscriptions(last))
<1>1. ASSUME list \in Seq(Subscriptions(last))
      PROVE  /\ list \in Seq(ServerSubscription)
             /\ \A k \in DOMAIN list : /\ list[k].id <= last /\ list[k].life <= list[k].lifeTime
                                       /\ list[k].lastItem <= MaxItem[list[k].id]
  <2>1. Subscriptions(last) \subseteq ServerSubscription
    BY DEF Subscriptions
  <2>2. list \in Seq(ServerSubscription)
    BY <1>1, <2>1, SeqMonotonic
  <2>3. \A k \in DOMAIN list : list[k] \in Subscriptions(last)
    BY <1>1, ElementsOfSeq
  <2> QED BY <2>2, <2>3 DEF Subscriptions
<1>2. ASSUME list \in Seq(ServerSubscription),
             \A k \in DOMAIN list : /\ list[k].id <= last /\ list[k].life <= list[k].lifeTime
                                    /\ list[k].lastItem <= MaxItem[list[k].id]
      PROVE  list \in Seq(Subscriptions(last))
  <2>1. /\ DOMAIN list = 1 .. Len(list) /\ Len(list) \in Nat
        /\ \A k \in DOMAIN list : list[k] \in ServerSubscription
    BY <1>2, ElementsOfSeq
  <2>2. \A k \in 1 .. Len(list) : list[k] \in Subscriptions(last)
    BY <1>2, <2>1 DEF Subscriptions
  <2>3. list = [k \in 1 .. Len(list) |-> list[k]]
    BY <1>2, <2>1
  <2> QED BY <2>1, <2>2, <2>3
<1> QED BY <1>1, <1>2

LEMMA RevisedIs ==
  ASSUME SubscriptionAssumption, NEW s \in Settings, NEW sub,
         sub \in [id : SubIds, enabled : BOOLEAN, maxKeepAlive : Nat, lifeTime : Nat,
                  perPublish : Nat, keepAlive : 0 .. KeepAliveLimits.max, life : Nat, seq : Nat,
                  late : BOOLEAN, lastItem : Nat, items : Seq(Item), retransmission : Seq(Message)]
  PROVE  /\ Revised(sub, s) \in ServerSubscription /\ Alike(Revised(sub, s), sub)
         /\ Revised(sub, s).life = sub.life /\ Revised(sub, s).keepAlive = sub.keepAlive
<1> DEFINE keepAlive == Bounded(s.keepAlive, KeepAliveLimits)
           life == Bounded(s.life, LifeTimeLimits)
           time == IF life < 3 * keepAlive THEN 3 * keepAlive ELSE life
           per == IF s.perPublish \in 1 .. MaxPerPublish THEN s.perPublish ELSE MaxPerPublish
<1>1. /\ s.keepAlive \in Nat /\ s.life \in Nat /\ s.perPublish \in Nat
      /\ KeepAliveLimits.min \in Nat /\ KeepAliveLimits.max \in Nat
      /\ KeepAliveLimits.min <= KeepAliveLimits.max
      /\ LifeTimeLimits.min \in Nat /\ LifeTimeLimits.max \in Nat
      /\ LifeTimeLimits.min <= LifeTimeLimits.max /\ MaxPerPublish \in Nat /\ MaxPerPublish > 0
  BY Constants
<1>2. /\ keepAlive \in KeepAliveLimits.min .. KeepAliveLimits.max
      /\ life \in LifeTimeLimits.min .. LifeTimeLimits.max
  BY <1>1, BoundedIs
<1> HIDE DEF keepAlive, life
<1>3. time \in Nat /\ per \in 1 .. MaxPerPublish
  BY <1>1, <1>2
<1> DEFINE r == [sub EXCEPT !.maxKeepAlive = keepAlive, !.lifeTime = time, !.perPublish = per]
<1>4. Revised(sub, s) = r
  BY Zenon DEF Revised, keepAlive, life
<1> HIDE DEF time, per
<1>5. r \in ServerSubscription
  BY <1>2, <1>3 DEF ServerSubscription
<1>6. Alike(r, sub) /\ r.life = sub.life /\ r.keepAlive = sub.keepAlive
  BY DEF Alike
<1> QED BY <1>4, <1>5, <1>6

\* A subscription of which one of the counters or modes is set.
LEMMA SetCounters ==
  ASSUME NEW sub \in ServerSubscription
  PROVE  /\ \A n \in 0 .. KeepAliveLimits.max :
              /\ [sub EXCEPT !.keepAlive = n] \in ServerSubscription
              /\ Alike([sub EXCEPT !.keepAlive = n], sub)
              /\ [sub EXCEPT !.keepAlive = n].life = sub.life
              /\ [sub EXCEPT !.keepAlive = n].lifeTime = sub.lifeTime
         /\ \A n \in Nat :
              /\ [sub EXCEPT !.life = n] \in ServerSubscription
              /\ Alike([sub EXCEPT !.life = n], sub)
              /\ [sub EXCEPT !.life = n].life = n
              /\ [sub EXCEPT !.life = n].lifeTime = sub.lifeTime
         /\ \A on \in BOOLEAN :
              /\ [sub EXCEPT !.late = on] \in ServerSubscription
              /\ Alike([sub EXCEPT !.late = on], sub)
              /\ [sub EXCEPT !.late = on].life = sub.life
              /\ [sub EXCEPT !.late = on].lifeTime = sub.lifeTime
         /\ \A on \in BOOLEAN :
              /\ [sub EXCEPT !.enabled = on] \in ServerSubscription
              /\ Alike([sub EXCEPT !.enabled = on], sub)
              /\ [sub EXCEPT !.enabled = on].life = sub.life
              /\ [sub EXCEPT !.enabled = on].lifeTime = sub.lifeTime
<1>1. \A n \in 0 .. KeepAliveLimits.max :
        /\ [sub EXCEPT !.keepAlive = n] \in ServerSubscription
        /\ Alike([sub EXCEPT !.keepAlive = n], sub)
        /\ [sub EXCEPT !.keepAlive = n].life = sub.life
        /\ [sub EXCEPT !.keepAlive = n].lifeTime = sub.lifeTime
  BY DEF ServerSubscription, Alike
<1>2. \A n \in Nat :
        /\ [sub EXCEPT !.life = n] \in ServerSubscription
        /\ Alike([sub EXCEPT !.life = n], sub)
        /\ [sub EXCEPT !.life = n].life = n
        /\ [sub EXCEPT !.life = n].lifeTime = sub.lifeTime
  BY DEF ServerSubscription, Alike
<1>3. \A on \in BOOLEAN :
        /\ [sub EXCEPT !.late = on] \in ServerSubscription
        /\ Alike([sub EXCEPT !.late = on], sub)
        /\ [sub EXCEPT !.late = on].life = sub.life
        /\ [sub EXCEPT !.late = on].lifeTime = sub.lifeTime
  BY DEF ServerSubscription, Alike
<1>4. \A on \in BOOLEAN :
        /\ [sub EXCEPT !.enabled = on] \in ServerSubscription
        /\ Alike([sub EXCEPT !.enabled = on], sub)
        /\ [sub EXCEPT !.enabled = on].life = sub.life
        /\ [sub EXCEPT !.enabled = on].lifeTime = sub.lifeTime
  BY DEF ServerSubscription, Alike
<1> QED BY <1>1, <1>2, <1>3, <1>4

\* An item that is given, like item, another queue, mode or setting.
LEMMA SetItem ==
  ASSUME NEW item \in Item, NEW new,
         new = [id |-> item.id, reporting |-> new.reporting, size |-> new.size,
                oldest |-> new.oldest, queue |-> new.queue, last |-> new.last],
         new.reporting \in BOOLEAN, new.size \in QueueSizeLimits.min .. QueueSizeLimits.max,
         new.oldest \in BOOLEAN, new.queue \in Seq(0 .. MaxValue), new.last \in NoValue .. MaxValue
  PROVE  new \in Item
<1>1. item.id \in ItemIds
  BY DEF Item
<1> QED BY <1>1 DEF Item

\* Elements of s from place a to place b.
LEMMA PartOfSeq ==
  ASSUME NEW S, NEW s \in Seq(S), NEW a \in Nat \ {0}, NEW b \in 0 .. Len(s)
  PROVE  /\ SubSeq(s, a, b) \in Seq(S)
         /\ Len(SubSeq(s, a, b)) = (IF a <= b THEN b - a + 1 ELSE 0)
         /\ DOMAIN SubSeq(s, a, b) = 1 .. Len(SubSeq(s, a, b))
         /\ \A k \in 1 .. Len(SubSeq(s, a, b)) : SubSeq(s, a, b)[k] = s[a + k - 1]
<1>1. Len(s) \in Nat /\ \A k \in 1 .. Len(s) : s[k] \in S
  BY ElementsOfSeq
<1>2. \A k \in a .. b : s[k] \in S
  BY <1>1
<1>3. /\ SubSeq(s, a, b) \in Seq(S)
      /\ Len(SubSeq(s, a, b)) = IF a <= b THEN b - a + 1 ELSE 0
      /\ \A k \in 1 .. b - a + 1 : SubSeq(s, a, b)[k] = s[a + k - 1]
  <2>1. a \in Int /\ b \in Int
    BY <1>1
  <2> QED BY <1>2, <2>1, SubSeqProperties
<1>4. \A k \in 1 .. Len(SubSeq(s, a, b)) : k \in 1 .. b - a + 1
  BY <1>1, <1>3
<1> QED BY <1>3, <1>4, ElementsOfSeq

(***************************************************************************)
(* What a message takes from the queues.                                   *)
(***************************************************************************)

\* The message holds the samples that its length takes from the queues, and no other.
IsNote(items, note) ==
  /\ \A p \in DOMAIN note : \E k \in DOMAIN items :
       /\ p - Before(items, k) \in 1 .. Len(items[k].queue)
       /\ p - Before(items, k) <= Taken(items, Len(note), k)
       /\ note[p] = SampleAt(items, k, p - Before(items, k))
  /\ \A k \in DOMAIN items : \A j \in 1 .. Len(items[k].queue) :
       j <= Taken(items, Len(note), k) =>
         Before(items, k) + j \in DOMAIN note /\ note[Before(items, k) + j] = SampleAt(items, k, j)

LEMMA NoteIs ==
  ASSUME SubscriptionAssumption, NEW items \in Seq(Item), NEW n \in 0 .. Len(Samples(items))
  PROVE  /\ SubSeq(Samples(items), 1, n) \in Seq(Notification)
         /\ Len(SubSeq(Samples(items), 1, n)) = n
         /\ IsNote(items, SubSeq(Samples(items), 1, n))
<1> DEFINE all == Samples(items)
           note == SubSeq(all, 1, n)
<1>1. /\ all \in Seq(Notification) /\ Arranged(items, all, Len(items))
      /\ \A k \in DOMAIN items : Before(items, k) \in Nat
  BY SamplesArranged
<1>2. /\ DOMAIN items = 1 .. Len(items) /\ Len(all) \in Nat
      /\ \A k \in DOMAIN items : Len(items[k].queue) \in Nat
  BY <1>1, ItemType, ElementsOfSeq
<1> HIDE DEF all
<1>3. note \in Seq(Notification) /\ Len(note) = n /\ DOMAIN note = 1 .. n /\ n \in Nat
      /\ \A p \in 1 .. n : note[p] = all[p]
  <2>1. n \in 0 .. Len(all) /\ 1 \in Nat \ {0}
    BY DEF all
  <2>2. /\ note \in Seq(Notification) /\ Len(note) = (IF 1 <= n THEN n - 1 + 1 ELSE 0)
        /\ DOMAIN note = 1 .. Len(note) /\ \A k \in 1 .. Len(note) : note[k] = all[1 + k - 1]
    BY <1>1, <2>1, PartOfSeq
  <2>3. Len(note) = n
    BY <2>1, <2>2, <1>2
  <2>4. \A p \in 1 .. n : 1 + p - 1 = p
    BY <1>2, <2>1
  <2> QED BY <1>2, <2>1, <2>2, <2>3, <2>4
<1> HIDE DEF note
<1>4. n <= Len(all)
  BY <1>2 DEF all
<1>5. ASSUME NEW p \in DOMAIN note
      PROVE  \E k \in DOMAIN items :
               /\ p - Before(items, k) \in 1 .. Len(items[k].queue)
               /\ p - Before(items, k) <= Taken(items, Len(note), k)
               /\ note[p] = SampleAt(items, k, p - Before(items, k))
  <2>1. p \in 1 .. Len(all) /\ p \in 1 .. n /\ note[p] = all[p]
    BY <1>2, <1>3, <1>4
  <2>2. PICK k \in 1 .. Len(items) : /\ p - Before(items, k) \in 1 .. Len(items[k].queue)
                                     /\ all[p] = SampleAt(items, k, p - Before(items, k))
    BY <1>1, <2>1 DEF Arranged
  <2>3. Before(items, k) \in Nat
    BY <1>1, <1>2
  <2>4. p - Before(items, k) <= Taken(items, Len(note), k)
    BY <1>2, <1>3, <2>1, <2>2, <2>3 DEF Taken
  <2> QED BY <1>2, <2>1, <2>2, <2>4
<1>6. ASSUME NEW k \in DOMAIN items, NEW j \in 1 .. Len(items[k].queue),
             j <= Taken(items, Len(note), k)
      PROVE  Before(items, k) + j \in DOMAIN note /\ note[Before(items, k) + j] = SampleAt(items, k, j)
  <2>1. /\ Before(items, k) + j \in 1 .. Len(all)
        /\ all[Before(items, k) + j] = SampleAt(items, k, j)
    BY <1>1, <1>2 DEF Arranged
  <2>2. Before(items, k) \in Nat /\ j \in Nat \ {0}
    BY <1>1, <1>2
  <2>3. Before(items, k) + j \in 1 .. n
    BY <1>3, <1>6, <2>2 DEF Taken
  <2> QED BY <1>3, <2>1, <2>3
<1>7. IsNote(items, note)
  BY <1>5, <1>6 DEF IsNote
<1> QED BY <1>3, <1>7 DEF note, all

LEMMA TakenType ==
  ASSUME SubscriptionAssumption, NEW items \in Seq(Item), NEW n \in Nat, NEW k \in DOMAIN items
  PROVE  Taken(items, n, k) \in Nat
<1>1. Before(items, k) \in Nat
  BY SamplesArranged
<1> QED BY <1>1 DEF Taken

\* What is left of the queue of an item.
IsRest(rest, list, n) ==
  /\ Len(rest) = (IF n <= Len(list) THEN Len(list) - n ELSE 0)
  /\ \A q \in 1 .. Len(rest) : n + q \in 1 .. Len(list) /\ rest[q] = list[n + q]

LEMMA RestIs ==
  ASSUME NEW S, NEW list \in Seq(S), NEW n \in Nat
  PROVE  /\ SubSeq(list, 1 + n, Len(list)) \in Seq(S)
         /\ IsRest(SubSeq(list, 1 + n, Len(list)), list, n)
<1> DEFINE rest == SubSeq(list, 1 + n, Len(list))
<1>1. Len(list) \in Nat /\ 1 + n \in Nat \ {0} /\ Len(list) \in 0 .. Len(list)
  OBVIOUS
<1>2. /\ rest \in Seq(S)
      /\ Len(rest) = (IF 1 + n <= Len(list) THEN Len(list) - (1 + n) + 1 ELSE 0)
      /\ \A k \in 1 .. Len(rest) : rest[k] = list[1 + n + k - 1]
  BY <1>1, PartOfSeq
<1> HIDE DEF rest
<1>3. Len(rest) = (IF n <= Len(list) THEN Len(list) - n ELSE 0)
  BY <1>1, <1>2
<1>4. \A q \in 1 .. Len(rest) : n + q \in 1 .. Len(list) /\ 1 + n + q - 1 = n + q
  BY <1>1, <1>3
<1> QED BY <1>2, <1>3, <1>4 DEF IsRest, rest

LEMMA ItemsAfterIs ==
  ASSUME SubscriptionAssumption, NEW items \in Seq(Item), NEW n \in Nat
  PROVE  /\ ItemsAfter(items, n) \in Seq(Item)
         /\ DOMAIN ItemsAfter(items, n) = DOMAIN items
         /\ \A k \in DOMAIN items :
              /\ ItemsAfter(items, n)[k].id = items[k].id
              /\ ItemsAfter(items, n)[k].last = items[k].last
              /\ IsRest(ItemsAfter(items, n)[k].queue, items[k].queue, Taken(items, n, k))
<1>1. DOMAIN items = 1 .. Len(items) /\ Len(items) \in Nat /\ \A k \in DOMAIN items : items[k] \in Item
  BY ElementsOfSeq
<1> DEFINE rest(k) == SubSeq(items[k].queue, 1 + Taken(items, n, k), Len(items[k].queue))
           new == [k \in DOMAIN items |-> [items[k] EXCEPT !.queue = rest(k)]]
<1>2. ASSUME NEW k \in DOMAIN items
      PROVE  /\ rest(k) \in Seq(0 .. MaxValue)
             /\ IsRest(rest(k), items[k].queue, Taken(items, n, k))
  <2>1. Taken(items, n, k) \in Nat /\ items[k].queue \in Seq(0 .. MaxValue)
    BY TakenType, ItemType
  <2> QED BY <2>1, RestIs
<1>3. ItemsAfter(items, n) = new
  BY Zenon DEF ItemsAfter
<1> HIDE DEF rest
<1>4. ASSUME NEW k \in DOMAIN items
      PROVE  /\ new[k] \in Item /\ new[k].id = items[k].id /\ new[k].last = items[k].last
             /\ new[k].queue = rest(k)
  BY <1>1, <1>2 DEF Item
<1>5. new \in Seq(Item) /\ DOMAIN new = DOMAIN items
  <2>1. new = [k \in 1 .. Len(items) |-> new[k]]
    BY <1>1
  <2> HIDE DEF new
  <2>2. \A k \in 1 .. Len(items) : new[k] \in Item
    BY <1>1, <1>4
  <2> QED BY <1>1, <2>1, <2>2
<1> QED BY <1>2, <1>3, <1>4, <1>5

LEMMA RetainedIs ==
  ASSUME SubscriptionAssumption, NEW messages \in Seq(Message), NEW m \in Message
  PROVE  /\ Retained(messages, m) \in Seq(Message)
         /\ 1 \in DOMAIN Retained(messages, m) /\ Retained(messages, m)[1] = m
         /\ \A k \in DOMAIN Retained(messages, m) :
              k # 1 => k - 1 \in DOMAIN messages /\ Retained(messages, m)[k] = messages[k - 1]
         /\ MaxRetransmission = 0 => \A k \in DOMAIN messages :
              k + 1 \in DOMAIN Retained(messages, m) /\ Retained(messages, m)[k + 1] = messages[k]
<1> DEFINE rest == IF MaxRetransmission > 0 /\ Len(messages) >= MaxRetransmission
                   THEN Front(messages) ELSE messages
           r == Retained(messages, m)
<1>1. /\ DOMAIN messages = 1 .. Len(messages) /\ Len(messages) \in Nat
      /\ \A k \in DOMAIN messages : messages[k] \in Message
      /\ MaxRetransmission \in Nat
  BY ElementsOfSeq, Constants
<1>2. /\ rest \in Seq(Message) /\ Len(rest) \in 0 .. Len(messages)
      /\ \A k \in 1 .. Len(rest) : rest[k] = messages[k]
      /\ MaxRetransmission = 0 => rest = messages
  <2>1. CASE MaxRetransmission > 0 /\ Len(messages) >= MaxRetransmission
    <3>1. rest = SubSeq(messages, 1, Len(messages) - 1)
      BY <2>1 DEF Front
    <3>2. Len(messages) - 1 \in 0 .. Len(messages) /\ 1 \in Nat \ {0}
      BY <1>1, <2>1
    <3> HIDE DEF rest
    <3>3. /\ rest \in Seq(Message)
          /\ Len(rest) = (IF 1 <= Len(messages) - 1 THEN Len(messages) - 1 - 1 + 1 ELSE 0)
          /\ \A k \in 1 .. Len(rest) : rest[k] = messages[1 + k - 1]
      BY <3>1, <3>2, PartOfSeq
    <3>4. \A k \in 1 .. Len(rest) : 1 + k - 1 = k
      BY <3>3, <3>2
    <3>5. Len(rest) \in 0 .. Len(messages)
      <4>1. Len(messages) - 1 \in Nat
        BY <1>1, <2>1
      <4>2. Len(messages) \in Nat
        OBVIOUS
      <4>3. Len(rest) = IF 1 <= Len(messages) - 1 THEN Len(messages) - 1 - 1 + 1 ELSE 0
        BY <3>3
      <4>4. CASE 1 <= Len(messages) - 1
        BY <4>2, <4>3, <4>4
      <4>5. CASE ~(1 <= Len(messages) - 1)
        BY <4>2, <4>3, <4>5
      <4> QED BY <4>4, <4>5
    <3>6. MaxRetransmission # 0
      BY <1>1, <2>1
    <3> QED BY <3>3, <3>4, <3>5, <3>6
  <2>2. CASE ~(MaxRetransmission > 0 /\ Len(messages) >= MaxRetransmission)
    BY <1>1, <2>2
  <2> QED BY <2>1, <2>2
<1>3. r = <<m>> \o rest
  BY DEF Retained
<1> HIDE DEF r, rest
<1>4. /\ r \in Seq(Message) /\ Len(r) = 1 + Len(rest)
      /\ \A k \in 1 .. Len(r) : r[k] = IF k = 1 THEN m ELSE rest[k - 1]
  <2>1. <<m>> \in Seq(Message) /\ Len(<<m>>) = 1 /\ <<m>>[1] = m
    OBVIOUS
  <2>2. /\ r \in Seq(Message) /\ Len(r) = 1 + Len(rest)
        /\ \A k \in 1 .. 1 + Len(rest) : r[k] = IF k <= 1 THEN <<m>>[k] ELSE rest[k - 1]
    <3>1. /\ <<m>> \o rest \in Seq(Message) /\ Len(<<m>> \o rest) = Len(<<m>>) + Len(rest)
          /\ \A k \in 1 .. Len(<<m>>) + Len(rest) :
               (<<m>> \o rest)[k] = IF k <= Len(<<m>>) THEN <<m>>[k] ELSE rest[k - Len(<<m>>)]
      BY <1>2, <2>1, ConcatProperties
    <3> QED BY <1>3, <2>1, <3>1
  <2>3. \A k \in 1 .. Len(r) : k <= 1 <=> k = 1
    BY <1>1, <1>2, <2>2
  <2> QED BY <2>1, <2>2, <2>3
<1>5. DOMAIN r = 1 .. Len(r)
  BY <1>4, ElementsOfSeq
<1>6. \A k \in 1 .. Len(r) : k # 1 => k - 1 \in 1 .. Len(rest) /\ k - 1 \in DOMAIN messages
  BY <1>1, <1>2, <1>4
<1>7. \A k \in DOMAIN r : k # 1 => k - 1 \in DOMAIN messages /\ r[k] = messages[k - 1]
  BY <1>2, <1>4, <1>5, <1>6
<1>8. ASSUME MaxRetransmission = 0, NEW k \in DOMAIN messages
      PROVE  k + 1 \in DOMAIN r /\ r[k + 1] = messages[k]
  <2>1. Len(r) = 1 + Len(messages)
    BY <1>2, <1>4, <1>8
  <2>2. k + 1 \in 1 .. Len(r) /\ k + 1 # 1 /\ (k + 1) - 1 = k
    BY <1>1, <2>1
  <2> QED BY <1>5, <1>7, <2>2
<1>9. 1 \in DOMAIN r /\ r[1] = m
  BY <1>2, <1>4, <1>5
<1> QED BY <1>4, <1>7, <1>8, <1>9 DEF r

(***************************************************************************)
(* One publish callback.                                                   *)
(***************************************************************************)

\* What a publish callback works on.
PublishStates(last) ==
  [subs : Seq(Subscriptions(last)), queue : Seq(PublishRequest), wire : Seq(PublishResponse),
   again : BOOLEAN]

\* The list with another subscription at one place.
LEMMA InPlace ==
  ASSUME NEW last, NEW list \in Seq(Subscriptions(last)), NEW k \in DOMAIN list,
         NEW sub \in Subscriptions(last)
  PROVE  /\ [list EXCEPT ![k] = sub] \in Seq(Subscriptions(last))
         /\ DOMAIN [list EXCEPT ![k] = sub] = DOMAIN list
         /\ [list EXCEPT ![k] = sub][k] = sub
         /\ \A i \in DOMAIN list : i # k => [list EXCEPT ![k] = sub][i] = list[i]
<1>1. DOMAIN list = 1 .. Len(list)
  BY ElementsOfSeq
<1>2. [list EXCEPT ![k] = sub] \in Seq(Subscriptions(last))
  BY <1>1, ExceptSeq
<1> QED BY <1>2

\* The subscriptions of new are some of those of old, each once.
Thinned(new, old) ==
  \E e : /\ \A i \in DOMAIN new : e[i] \in DOMAIN old /\ Alike(new[i], old[e[i]])
         /\ \A i, k \in DOMAIN new : e[i] = e[k] => i = k

LEMMA ThinnedInPlace ==
  ASSUME NEW last, NEW list \in Seq(Subscriptions(last)), NEW k \in DOMAIN list,
         NEW sub \in Subscriptions(last), Alike(sub, list[k])
  PROVE  Thinned([list EXCEPT ![k] = sub], list)
<1> DEFINE new == [list EXCEPT ![k] = sub]
           e == [i \in DOMAIN list |-> i]
<1>1. DOMAIN new = DOMAIN list /\ new[k] = sub /\ \A i \in DOMAIN list : i # k => new[i] = list[i]
  BY InPlace
<1> HIDE DEF new
<1>2. \A i \in DOMAIN new : Alike(new[i], list[i])
  BY <1>1 DEF Alike
<1>3. /\ \A i \in DOMAIN new : e[i] \in DOMAIN list /\ Alike(new[i], list[e[i]])
      /\ \A i, j \in DOMAIN new : e[i] = e[j] => i = j
  BY <1>1, <1>2
<1> QED BY <1>3 DEF Thinned, new

LEMMA RemovedIs ==
  ASSUME NEW S, NEW list \in Seq(S), NEW k \in DOMAIN list
  PROVE  /\ RemoveAt(list, k) \in Seq(S)
         /\ DOMAIN RemoveAt(list, k) = 1 .. Len(list) - 1
         /\ \A i \in 1 .. Len(list) - 1 : RemoveAt(list, k)[i] = list[IF i < k THEN i ELSE i + 1]
<1> DEFINE a == SubSeq(list, 1, k - 1)
           b == SubSeq(list, k + 1, Len(list))
           r == a \o b
<1>1. DOMAIN list = 1 .. Len(list) /\ Len(list) \in Nat /\ k \in 1 .. Len(list) /\ k \in Nat
  BY ElementsOfSeq
<1>2. a \in Seq(S) /\ Len(a) = k - 1 /\ \A i \in 1 .. Len(a) : a[i] = list[i]
  <2>1. 1 \in Nat \ {0} /\ k - 1 \in 0 .. Len(list)
    BY <1>1
  <2>2. /\ a \in Seq(S) /\ Len(a) = (IF 1 <= k - 1 THEN k - 1 - 1 + 1 ELSE 0)
        /\ \A i \in 1 .. Len(a) : a[i] = list[1 + i - 1]
    BY <2>1, PartOfSeq
  <2> HIDE DEF a
  <2>3. Len(a) = k - 1
    <3>1. Len(a) = IF 1 <= k - 1 THEN k - 1 - 1 + 1 ELSE 0
      BY <2>2
    <3>2. CASE k = 1
      BY <3>1, <3>2
    <3>3. CASE k # 1
      BY <1>1, <3>1, <3>3
    <3> QED BY <3>2, <3>3
  <2>4. \A i \in 1 .. Len(a) : 1 + i - 1 = i
    BY <1>1, <2>3
  <2> QED BY <2>2, <2>3, <2>4
<1>3. b \in Seq(S) /\ Len(b) = Len(list) - k /\ \A i \in 1 .. Len(b) : b[i] = list[k + i]
  <2>1. k + 1 \in Nat \ {0} /\ Len(list) \in 0 .. Len(list)
    BY <1>1
  <2>2. /\ b \in Seq(S) /\ Len(b) = (IF k + 1 <= Len(list) THEN Len(list) - (k + 1) + 1 ELSE 0)
        /\ \A i \in 1 .. Len(b) : b[i] = list[k + 1 + i - 1]
    BY <2>1, PartOfSeq
  <2> HIDE DEF b
  <2>3. Len(b) = Len(list) - k
    <3>1. Len(b) = IF k + 1 <= Len(list) THEN Len(list) - (k + 1) + 1 ELSE 0
      BY <2>2
    <3> QED BY <1>1, <3>1
  <2>4. \A i \in 1 .. Len(b) : k + 1 + i - 1 = k + i
    BY <1>1, <2>3
  <2> QED BY <2>2, <2>3, <2>4
<1> HIDE DEF a, b
<1>4. /\ r \in Seq(S) /\ Len(r) = Len(a) + Len(b)
      /\ \A i \in 1 .. Len(a) + Len(b) : r[i] = IF i <= Len(a) THEN a[i] ELSE b[i - Len(a)]
  BY <1>2, <1>3, ConcatProperties
<1> HIDE DEF r
<1>5. Len(a) + Len(b) = Len(list) - 1
  BY <1>1, <1>2, <1>3
<1>6. ASSUME NEW i \in 1 .. Len(list) - 1
      PROVE  r[i] = list[IF i < k THEN i ELSE i + 1]
  <2>1. CASE i < k
    <3>1. i \in 1 .. Len(a) /\ i <= Len(a)
      BY <1>1, <1>2, <2>1
    <3> QED BY <1>2, <1>4, <1>5, <2>1, <3>1
  <2>2. CASE ~(i < k)
    <3>1. i - Len(a) \in 1 .. Len(b) /\ ~(i <= Len(a)) /\ k + (i - Len(a)) = i + 1
      BY <1>1, <1>2, <1>3, <2>2
    <3> QED BY <1>3, <1>4, <1>5, <2>2, <3>1
  <2> QED BY <2>1, <2>2
<1>7. RemoveAt(list, k) = r
  BY DEF RemoveAt, r, a, b
<1>8. DOMAIN r = 1 .. Len(list) - 1
  BY <1>4, <1>5, ElementsOfSeq
<1> QED BY <1>4, <1>6, <1>7, <1>8

LEMMA ThinnedWithout ==
  ASSUME NEW S, NEW old \in Seq(S), NEW list \in Seq(S), Thinned(list, old), NEW k \in DOMAIN list
  PROVE  Thinned(RemoveAt(list, k), old)
<1> DEFINE new == RemoveAt(list, k)
<1>1. /\ DOMAIN list = 1 .. Len(list) /\ Len(list) \in Nat
      /\ DOMAIN new = 1 .. Len(list) - 1
      /\ \A i \in DOMAIN new : new[i] = list[IF i < k THEN i ELSE i + 1]
  BY ElementsOfSeq, RemovedIs
<1> HIDE DEF new
<1>2. PICK e : /\ \A i \in DOMAIN list : e[i] \in DOMAIN old /\ Alike(list[i], old[e[i]])
               /\ \A i, j \in DOMAIN list : e[i] = e[j] => i = j
  BY DEF Thinned
<1> DEFINE place(i) == IF i < k THEN i ELSE i + 1
           f == [i \in DOMAIN new |-> e[place(i)]]
<1>3. \A i \in DOMAIN new : place(i) \in DOMAIN list
  BY <1>1
<1>4. \A i, j \in DOMAIN new : place(i) = place(j) => i = j
  BY <1>1
<1>5. \A i \in DOMAIN new : new[i] = list[place(i)] /\ f[i] = e[place(i)]
  BY <1>1
<1> HIDE DEF place, f
<1>6. /\ \A i \in DOMAIN new : f[i] \in DOMAIN old /\ Alike(new[i], old[f[i]])
      /\ \A i, j \in DOMAIN new : f[i] = f[j] => i = j
  <2>1. ASSUME NEW i \in DOMAIN new PROVE f[i] \in DOMAIN old /\ Alike(new[i], old[f[i]])
    <3>1. place(i) \in DOMAIN list
      BY <1>3
    <3>2. e[place(i)] \in DOMAIN old /\ Alike(list[place(i)], old[e[place(i)]])
      BY <1>2, <3>1
    <3> QED BY <1>5, <3>2
  <2>2. ASSUME NEW i \in DOMAIN new, NEW j \in DOMAIN new, f[i] = f[j] PROVE i = j
    <3>1. e[place(i)] = e[place(j)]
      BY <1>5, <2>2
    <3>2. place(i) = place(j)
      BY <1>2, <1>3, <3>1
    <3> QED BY <1>4, <3>2
  <2> QED BY <2>1, <2>2
<1> QED BY <1>6 DEF Thinned, new

\* What sending a message with this note makes of a subscription.
SentFrom(new, old, note, m) ==
  /\ new.id = old.id /\ new.lastItem = old.lastItem
  /\ new.items = ItemsAfter(old.items, Len(note))
  /\ new.seq = Numbered(old, note)
  /\ new.retransmission = IF note = <<>> THEN old.retransmission
                          ELSE Retained(old.retransmission, m)

\* The callback has answered a request.
Answered(r, t, k) ==
  \E note \in Seq(Notification), w \in PublishResponse :
    /\ IsNote(t.subs[k].items, note)
    /\ w.good /\ w.message = [sub |-> t.subs[k].id, seq |-> t.subs[k].seq + 1, note |-> note]
    /\ r.wire = Append(t.wire, w)
    /\ DOMAIN r.subs = DOMAIN t.subs
    /\ \A i \in DOMAIN t.subs : i # k => r.subs[i] = t.subs[i]
    /\ SentFrom(r.subs[k], t.subs[k], note, w.message)

\* The state with the keep-alive counter of a subscription at n.
CountedAs(t, k, n) ==
  [subs |-> [t.subs EXCEPT ![k] = [t.subs[k] EXCEPT !.keepAlive = n]],
   queue |-> t.queue, wire |-> t.wire, again |-> FALSE]

LEMMA CountedIs ==
  ASSUME SubscriptionAssumption, NEW last, NEW t \in PublishStates(last), NEW k \in DOMAIN t.subs,
         NEW n \in 0 .. KeepAliveLimits.max
  PROVE  /\ CountedAs(t, k, n) \in PublishStates(last)
         /\ DOMAIN CountedAs(t, k, n).subs = DOMAIN t.subs
         /\ Thinned(CountedAs(t, k, n).subs, t.subs)
         /\ Alike(CountedAs(t, k, n).subs[k], t.subs[k])
         /\ \A i \in DOMAIN t.subs : i # k => CountedAs(t, k, n).subs[i] = t.subs[i]
         /\ CountedAs(t, k, n).queue = t.queue /\ CountedAs(t, k, n).wire = t.wire
         /\ CountedAs(t, k, n).again = FALSE
<1> DEFINE sub == t.subs[k]
           new == [sub EXCEPT !.keepAlive = n]
<1>1. /\ t.subs \in Seq(Subscriptions(last)) /\ t.queue \in Seq(PublishRequest)
      /\ t.wire \in Seq(PublishResponse)
  BY DEF PublishStates
<1>2. sub \in Subscriptions(last)
  BY <1>1, ElementsOfSeq
<1>3. /\ sub \in ServerSubscription /\ sub.id <= last /\ sub.life <= sub.lifeTime
      /\ sub.lastItem <= MaxItem[sub.id]
  BY <1>2 DEF Subscriptions
<1>4. /\ new \in ServerSubscription /\ Alike(new, sub)
      /\ new.life = sub.life /\ new.lifeTime = sub.lifeTime
  BY <1>3, SetCounters
<1> HIDE DEF new
<1>5. new \in Subscriptions(last)
  BY <1>3, <1>4 DEF Subscriptions, Alike
<1> DEFINE list == [t.subs EXCEPT ![k] = new]
<1>6. /\ list \in Seq(Subscriptions(last)) /\ DOMAIN list = DOMAIN t.subs /\ list[k] = new
      /\ \A i \in DOMAIN t.subs : i # k => list[i] = t.subs[i]
  BY <1>1, <1>5, InPlace
<1>7. Thinned(list, t.subs)
  BY <1>1, <1>4, <1>5, ThinnedInPlace
<1> HIDE DEF list
<1>8. CountedAs(t, k, n) = [subs |-> list, queue |-> t.queue, wire |-> t.wire, again |-> FALSE]
  BY DEF CountedAs, list, new
<1> QED BY <1>1, <1>4, <1>6, <1>7, <1>8 DEF PublishStates

LEMMA ThinnedTwice ==
  ASSUME NEW new, NEW list, NEW old, Thinned(new, list), Thinned(list, old)
  PROVE  Thinned(new, old)
<1>1. PICK e : /\ \A i \in DOMAIN new : e[i] \in DOMAIN list /\ Alike(new[i], list[e[i]])
               /\ \A i, j \in DOMAIN new : e[i] = e[j] => i = j
  BY DEF Thinned
<1>2. PICK d : /\ \A i \in DOMAIN list : d[i] \in DOMAIN old /\ Alike(list[i], old[d[i]])
               /\ \A i, j \in DOMAIN list : d[i] = d[j] => i = j
  BY DEF Thinned
<1> DEFINE f == [i \in DOMAIN new |-> d[e[i]]]
<1>3. \A i \in DOMAIN new : f[i] = d[e[i]]
  OBVIOUS
<1> HIDE DEF f
<1>4. \A i \in DOMAIN new : f[i] \in DOMAIN old
  BY <1>1, <1>2, <1>3
<1>5. \A i \in DOMAIN new : Alike(new[i], old[f[i]])
  BY <1>1, <1>2, <1>3 DEF Alike
<1>6. \A i, j \in DOMAIN new : f[i] = f[j] => i = j
  BY <1>1, <1>2, <1>3
<1> QED BY <1>4, <1>5, <1>6 DEF Thinned

LEMMA ThinnedNot == ASSUME NEW list PROVE Thinned(list, list)
<1> DEFINE e == [i \in DOMAIN list |-> i]
<1>1. /\ \A i \in DOMAIN list : e[i] \in DOMAIN list /\ Alike(list[i], list[e[i]])
      /\ \A i, j \in DOMAIN list : e[i] = e[j] => i = j
  BY DEF Alike
<1> QED BY <1>1 DEF Thinned

LEMMA OverdueIs ==
  ASSUME SubscriptionAssumption, NEW last, NEW t \in PublishStates(last), NEW k \in DOMAIN t.subs
  PROVE  /\ Overdue(t, k) \in PublishStates(last) /\ Thinned(Overdue(t, k).subs, t.subs)
         /\ Overdue(t, k).wire = t.wire /\ Overdue(t, k).again = FALSE
<1> DEFINE sub == t.subs[k]
           late == [sub EXCEPT !.late = TRUE]
           older == [sub EXCEPT !.life = sub.life + 1]
           list == IF ~sub.late THEN [t.subs EXCEPT ![k] = late]
                   ELSE IF sub.life + 1 > sub.lifeTime THEN RemoveAt(t.subs, k)
                   ELSE [t.subs EXCEPT ![k] = older]
<1>1. /\ t.subs \in Seq(Subscriptions(last)) /\ t.queue \in Seq(PublishRequest)
      /\ t.wire \in Seq(PublishResponse)
  BY DEF PublishStates
<1>2. sub \in Subscriptions(last)
  BY <1>1, ElementsOfSeq
<1>3. /\ sub \in ServerSubscription /\ sub.id <= last /\ sub.life <= sub.lifeTime
      /\ sub.lastItem <= MaxItem[sub.id] /\ sub.life \in Nat /\ sub.lifeTime \in Nat
  BY <1>2, SubscriptionType
<1>4. late \in Subscriptions(last) /\ Alike(late, sub)
  <2>1. /\ late \in ServerSubscription /\ Alike(late, sub)
        /\ late.life = sub.life /\ late.lifeTime = sub.lifeTime
    BY <1>3, SetCounters
  <2> HIDE DEF late
  <2> QED BY <1>3, <2>1 DEF Subscriptions, Alike
<1>5. ASSUME ~(sub.life + 1 > sub.lifeTime)
      PROVE  older \in Subscriptions(last) /\ Alike(older, sub)
  <2>1. sub.life + 1 \in Nat /\ sub.life + 1 <= sub.lifeTime
    BY <1>3, <1>5
  <2>2. /\ older \in ServerSubscription /\ Alike(older, sub)
        /\ older.life = sub.life + 1 /\ older.lifeTime = sub.lifeTime
    BY <1>3, <2>1, SetCounters
  <2> HIDE DEF older
  <2> QED BY <1>3, <2>1, <2>2 DEF Subscriptions, Alike
<1>6. Overdue(t, k) = [subs |-> list, queue |-> t.queue, wire |-> t.wire, again |-> FALSE]
  BY Zenon DEF Overdue
<1> HIDE DEF late, older
<1>7. list \in Seq(Subscriptions(last)) /\ Thinned(list, t.subs)
  <2>1. CASE ~sub.late
    <3>1. list = [t.subs EXCEPT ![k] = late]
      BY <2>1
    <3> HIDE DEF list
    <3> QED BY <1>1, <1>4, <3>1, InPlace, ThinnedInPlace
  <2>2. CASE sub.late /\ sub.life + 1 > sub.lifeTime
    <3>1. list = RemoveAt(t.subs, k)
      BY <2>2
    <3> HIDE DEF list
    <3>2. Thinned(t.subs, t.subs)
      BY ThinnedNot
    <3> QED BY <1>1, <3>1, <3>2, RemovedIs, ThinnedWithout
  <2>3. CASE sub.late /\ ~(sub.life + 1 > sub.lifeTime)
    <3>1. list = [t.subs EXCEPT ![k] = older]
      BY <2>3
    <3> HIDE DEF list
    <3> QED BY <1>1, <1>5, <2>3, <3>1, InPlace, ThinnedInPlace
  <2> QED BY <2>1, <2>2, <2>3
<1> HIDE DEF list
<1> QED BY <1>1, <1>6, <1>7 DEF PublishStates

LEMMA RespondIs ==
  ASSUME SubscriptionAssumption, NEW last, NEW t \in PublishStates(last), NEW k \in DOMAIN t.subs,
         t.queue # <<>>, NEW note \in Seq(Notification), IsNote(t.subs[k].items, note),
         NEW more \in BOOLEAN
  PROVE  /\ Respond(t, k, note, more) \in PublishStates(last)
         /\ Respond(t, k, note, more).again => k \in DOMAIN Respond(t, k, note, more).subs
         /\ Answered(Respond(t, k, note, more), t, k)
<1> DEFINE sub == t.subs[k]
           message == [sub |-> sub.id, seq |-> sub.seq + 1, note |-> note]
           kept == IF note = <<>> THEN sub.retransmission ELSE Retained(sub.retransmission, message)
           new == [sub EXCEPT !.items = ItemsAfter(sub.items, Len(note)),
                     !.seq = Numbered(sub, note), !.retransmission = kept,
                     !.late = FALSE, !.keepAlive = 0, !.life = 0]
           list == [t.subs EXCEPT ![k] = new]
           w == [request |-> Head(t.queue).id, good |-> TRUE, results |-> Head(t.queue).results,
                 message |-> message, more |-> more]
           r == Respond(t, k, note, more)
<1>1. /\ t.subs \in Seq(Subscriptions(last)) /\ t.queue \in Seq(PublishRequest)
      /\ t.wire \in Seq(PublishResponse)
  BY DEF PublishStates
<1>2. sub \in Subscriptions(last)
  BY <1>1, ElementsOfSeq
<1>3. /\ sub \in ServerSubscription /\ sub.id <= last /\ sub.lifeTime \in Nat
      /\ sub.lastItem <= MaxItem[sub.id] /\ sub.id \in SubIds /\ sub.seq \in Nat
      /\ sub.items \in Seq(Item) /\ sub.retransmission \in Seq(Message)
  BY <1>2, SubscriptionType
<1>4. message \in Message
  BY <1>3 DEF Message, SubIds
<1> HIDE DEF message
<1>5. /\ ItemsAfter(sub.items, Len(note)) \in Seq(Item) /\ kept \in Seq(Message)
      /\ Numbered(sub, note) \in Nat
  <2>1. Len(note) \in Nat
    OBVIOUS
  <2>2. ItemsAfter(sub.items, Len(note)) \in Seq(Item)
    BY <1>3, <2>1, ItemsAfterIs
  <2>3. Retained(sub.retransmission, message) \in Seq(Message)
    BY <1>3, <1>4, RetainedIs
  <2>4. Numbered(sub, note) \in Nat
    BY <1>3 DEF Numbered
  <2> QED BY <1>3, <2>2, <2>3, <2>4
<1> HIDE DEF kept
<1>6. /\ new \in ServerSubscription /\ new.id = sub.id /\ new.lastItem = sub.lastItem
      /\ new.items = ItemsAfter(sub.items, Len(note)) /\ new.seq = Numbered(sub, note)
      /\ new.retransmission = kept /\ new.life = 0 /\ new.lifeTime = sub.lifeTime
  <2>1. 0 \in 0 .. KeepAliveLimits.max /\ 0 \in Nat /\ FALSE \in BOOLEAN
    BY Constants
  <2> QED BY <1>3, <1>5, <2>1 DEF ServerSubscription
<1> HIDE DEF new
<1>7. new \in Subscriptions(last)
  BY <1>3, <1>6 DEF Subscriptions
<1>8. /\ list \in Seq(Subscriptions(last)) /\ DOMAIN list = DOMAIN t.subs /\ list[k] = new
      /\ \A i \in DOMAIN t.subs : i # k => list[i] = t.subs[i]
  BY <1>1, <1>7, InPlace
<1> HIDE DEF list
<1>9. Head(t.queue) \in PublishRequest /\ Tail(t.queue) \in Seq(PublishRequest)
  BY <1>1, HeadTailProperties
<1>10. w \in PublishResponse /\ w.good /\ w.message = message
  BY <1>4, <1>9 DEF PublishRequest, PublishResponse
<1> HIDE DEF w
<1>11. Append(t.wire, w) \in Seq(PublishResponse)
  BY <1>1, <1>10
<1>12. r = [subs |-> list, queue |-> Tail(t.queue), wire |-> Append(t.wire, w), again |-> more]
  BY Zenon DEF Respond, list, new, kept, message, w
<1> HIDE DEF r
<1>13. r \in PublishStates(last)
  BY <1>8, <1>9, <1>11, <1>12 DEF PublishStates
<1>14. r.wire = Append(t.wire, w) /\ r.subs = list
  BY <1>12
<1>15. SentFrom(list[k], sub, note, message)
  BY <1>6, <1>8 DEF SentFrom, kept
<1>16. Answered(r, t, k)
  <2>1. w.message = [sub |-> sub.id, seq |-> sub.seq + 1, note |-> note]
    BY <1>10 DEF message
  <2>2. /\ r.wire = Append(t.wire, w) /\ DOMAIN r.subs = DOMAIN t.subs
        /\ \A i \in DOMAIN t.subs : i # k => r.subs[i] = t.subs[i]
        /\ SentFrom(r.subs[k], sub, note, w.message)
    BY <1>8, <1>10, <1>14, <1>15
  <2> QED BY <1>10, <2>1, <2>2 DEF Answered
<1> QED BY <1>8, <1>13, <1>14, <1>16 DEF r

LEMMA AnsweredAlike ==
  ASSUME SubscriptionAssumption, NEW r, NEW t, NEW c, NEW k \in DOMAIN t.subs, Answered(r, c, k),
         DOMAIN c.subs = DOMAIN t.subs, Alike(c.subs[k], t.subs[k]), c.wire = t.wire,
         \A i \in DOMAIN t.subs : i # k => c.subs[i] = t.subs[i]
  PROVE  Answered(r, t, k)
<1>1. PICK note \in Seq(Notification), w \in PublishResponse :
        /\ IsNote(c.subs[k].items, note)
        /\ w.good /\ w.message = [sub |-> c.subs[k].id, seq |-> c.subs[k].seq + 1, note |-> note]
        /\ r.wire = Append(c.wire, w)
        /\ DOMAIN r.subs = DOMAIN c.subs
        /\ \A i \in DOMAIN c.subs : i # k => r.subs[i] = c.subs[i]
        /\ SentFrom(r.subs[k], c.subs[k], note, w.message)
  BY Zenon DEF Answered
<1>2. /\ c.subs[k].items = t.subs[k].items /\ c.subs[k].id = t.subs[k].id
      /\ c.subs[k].seq = t.subs[k].seq /\ c.subs[k].lastItem = t.subs[k].lastItem
      /\ c.subs[k].retransmission = t.subs[k].retransmission
  BY DEF Alike
<1>3. SentFrom(r.subs[k], t.subs[k], note, w.message)
  BY <1>1, <1>2 DEF SentFrom, Numbered
<1>4. IsNote(t.subs[k].items, note)
  BY <1>1, <1>2
<1>5. /\ w.message = [sub |-> t.subs[k].id, seq |-> t.subs[k].seq + 1, note |-> note]
      /\ r.wire = Append(t.wire, w)
      /\ DOMAIN r.subs = DOMAIN t.subs
      /\ \A i \in DOMAIN t.subs : i # k => r.subs[i] = t.subs[i]
  BY <1>1, <1>2
<1> QED BY <1>1, <1>3, <1>4, <1>5 DEF Answered

\* What one callback makes of t: a request is answered, or nothing is sent.
Called(r, t, k) ==
  \/ link = "up" /\ k \in DOMAIN t.subs /\ Answered(r, t, k)
  \/ Thinned(r.subs, t.subs) /\ r.wire = t.wire

LEMMA PublishOnceIs ==
  ASSUME SubscriptionAssumption, NEW last, NEW t \in PublishStates(last), NEW k \in DOMAIN t.subs
  PROVE  /\ PublishOnce(t, k) \in PublishStates(last)
         /\ PublishOnce(t, k).again => k \in DOMAIN PublishOnce(t, k).subs
         /\ Called(PublishOnce(t, k), t, k)
<1> DEFINE sub == t.subs[k]
           samples == IF sub.enabled THEN Samples(sub.items) ELSE <<>>
           n == Least(sub.perPublish, Len(samples))
           note == SubSeq(samples, 1, n)
           count == IF sub.keepAlive < sub.maxKeepAlive THEN sub.keepAlive + 1 ELSE sub.keepAlive
           m == IF note = <<>> THEN count ELSE sub.keepAlive
           c == CountedAs(t, k, m)
           more == Len(samples) > sub.perPublish
           r == PublishOnce(t, k)
<1>1. /\ t.subs \in Seq(Subscriptions(last)) /\ t.queue \in Seq(PublishRequest)
      /\ t.wire \in Seq(PublishResponse)
  BY DEF PublishStates
<1>2. sub \in Subscriptions(last)
  BY <1>1, ElementsOfSeq
<1>3. /\ sub.items \in Seq(Item) /\ sub.perPublish \in Nat /\ sub.perPublish > 0
      /\ sub.keepAlive \in Nat /\ sub.maxKeepAlive \in Nat /\ sub.enabled \in BOOLEAN
      /\ sub.keepAlive <= KeepAliveLimits.max /\ sub.maxKeepAlive <= KeepAliveLimits.max
      /\ KeepAliveLimits.max \in Nat
  <2>1. KeepAliveLimits.max \in Nat
    BY Constants
  <2>2. /\ sub.items \in Seq(Item) /\ sub.perPublish \in 1 .. MaxPerPublish /\ sub.perPublish \in Nat
        /\ sub.keepAlive \in 0 .. KeepAliveLimits.max /\ sub.enabled \in BOOLEAN
        /\ sub.maxKeepAlive \in Nat /\ sub.maxKeepAlive <= KeepAliveLimits.max
    BY <1>2, SubscriptionType
  <2> QED BY <2>1, <2>2
<1>4. count \in 0 .. KeepAliveLimits.max
  BY <1>3
<1>5. /\ note \in Seq(Notification) /\ IsNote(sub.items, note)
  <2>1. Samples(sub.items) \in Seq(Notification) /\ Len(Samples(sub.items)) \in Nat
    BY <1>3, SamplesArranged, ElementsOfSeq
  <2>2. CASE sub.enabled
    <3>1. samples = Samples(sub.items)
      BY <2>2
    <3>2. n \in 0 .. Len(Samples(sub.items))
      BY <1>3, <2>1, <3>1 DEF Least
    <3> HIDE DEF n, samples
    <3> QED BY <1>3, <3>1, <3>2, NoteIs
  <2>3. CASE ~sub.enabled
    <3>1. samples = <<>> /\ Len(<<>>) = 0
      BY <2>3
    <3>2. n = 0
      BY <1>3, <3>1 DEF Least
    <3>3. note = <<>>
      BY <3>1, <3>2, SubSeqEmpty
    <3>4. 0 \in 0 .. Len(Samples(sub.items))
      BY <2>1
    <3>5. SubSeq(Samples(sub.items), 1, 0) = <<>>
      BY SubSeqEmpty
    <3>6. /\ SubSeq(Samples(sub.items), 1, 0) \in Seq(Notification)
          /\ IsNote(sub.items, SubSeq(Samples(sub.items), 1, 0))
      BY <1>3, <3>4, NoteIs
    <3> QED BY <3>3, <3>5, <3>6
  <2> QED BY <2>2, <2>3
<1> HIDE DEF note, n
<1>6. m \in 0 .. KeepAliveLimits.max
  BY <1>3, <1>4
<1>7. more \in BOOLEAN
  OBVIOUS
<1> HIDE DEF count
<1>8. c = [subs |-> [t.subs EXCEPT ![k] =
                       [sub EXCEPT !.keepAlive = IF note = <<>> THEN count ELSE @]],
           queue |-> t.queue, wire |-> t.wire, again |-> FALSE]
  BY Zenon DEF CountedAs
<1>9. r = IF (note = <<>> /\ count < sub.maxKeepAlive) \/ link # "up" THEN c
          ELSE IF t.queue = <<>> THEN Overdue(c, k)
          ELSE Respond(c, k, note, more)
  BY <1>8 DEF PublishOnce, note, n, count
<1> HIDE DEF m, more, samples, r
<1>10. /\ c \in PublishStates(last) /\ DOMAIN c.subs = DOMAIN t.subs
       /\ Thinned(c.subs, t.subs) /\ Alike(c.subs[k], t.subs[k])
       /\ \A i \in DOMAIN t.subs : i # k => c.subs[i] = t.subs[i]
       /\ c.queue = t.queue /\ c.wire = t.wire /\ c.again = FALSE
  BY <1>6, CountedIs, ZenonT(30)
<1> HIDE DEF c
<1>11. CASE r = c
  BY <1>10, <1>11 DEF Called, r
<1>12. CASE r = Overdue(c, k)
  <2>1. /\ r \in PublishStates(last) /\ Thinned(r.subs, c.subs)
        /\ r.wire = c.wire /\ r.again = FALSE
    BY <1>10, <1>12, OverdueIs
  <2>2. Thinned(r.subs, t.subs)
    BY <1>10, <2>1, ThinnedTwice
  <2> QED BY <1>10, <2>1, <2>2 DEF Called, r
<1>13. CASE link = "up" /\ t.queue # <<>> /\ r = Respond(c, k, note, more)
  <2>1. c.subs[k].items = sub.items
    BY <1>10 DEF Alike
  <2>2. IsNote(c.subs[k].items, note) /\ c.queue # <<>> /\ k \in DOMAIN c.subs
    BY <1>5, <1>10, <1>13, <2>1
  <2>3. /\ r \in PublishStates(last)
        /\ r.again => k \in DOMAIN r.subs
        /\ Answered(r, c, k)
    BY <1>5, <1>7, <1>10, <1>13, <2>2, RespondIs
  <2>4. Answered(r, t, k)
    BY <1>10, <2>3, AnsweredAlike
  <2> QED BY <1>13, <2>3, <2>4 DEF Called, r
<1> QED BY <1>9, <1>11, <1>12, <1>13

\* The states of the calls, of which each that is to be followed by another still has the
\* subscription.
LEMMA PublishedIs ==
  ASSUME SubscriptionAssumption, NEW last, NEW t \in PublishStates(last), NEW k \in DOMAIN t.subs
  PROVE  \E f : /\ \A n \in 0 .. Len(t.queue) : f[n] \in PublishStates(last)
                /\ Called(f[0], t, k)
                /\ \A n \in 1 .. Len(t.queue) : f[n] = f[n - 1] \/ Called(f[n], f[n - 1], k)
                /\ Published(t, k) = f[Len(t.queue)]
<1> DEFINE N == Len(t.queue)
           S == {s \in PublishStates(last) : s.again => k \in DOMAIN s.subs}
           next(s) == IF s.again THEN PublishOnce(s, k) ELSE s
           step == [p \in (1 .. N) \X S |-> next(p[2])]
           Is(f) == f = [n \in 0 .. N |-> IF n = 0 THEN PublishOnce(t, k)
                                          ELSE IF f[n - 1].again THEN PublishOnce(f[n - 1], k)
                                          ELSE f[n - 1]]
<1>1. N \in Nat
  <2>1. t.queue \in Seq(PublishRequest)
    BY DEF PublishStates
  <2> QED BY <2>1
<1>2. PublishOnce(t, k) \in S /\ Called(PublishOnce(t, k), t, k)
  BY PublishOnceIs
<1>3. ASSUME NEW s \in S
      PROVE  next(s) \in S /\ (next(s) = s \/ Called(next(s), s, k))
  <2>1. CASE s.again
    <3>1. k \in DOMAIN s.subs /\ s \in PublishStates(last) /\ next(s) = PublishOnce(s, k)
      BY <2>1
    <3>2. /\ PublishOnce(s, k) \in PublishStates(last)
          /\ PublishOnce(s, k).again => k \in DOMAIN PublishOnce(s, k).subs
          /\ Called(PublishOnce(s, k), s, k)
      BY <3>1, PublishOnceIs
    <3> QED BY <3>1, <3>2
  <2>2. CASE ~s.again
    BY <2>2
  <2> QED BY <2>1, <2>2
<1> HIDE DEF N, S, next
<1>4. step \in [(1 .. N) \X S -> S]
  BY <1>3
<1>5. PICK g : IsComputed(g, N, PublishOnce(t, k), step, S)
  <2> HIDE DEF step
  <2> QED BY <1>1, <1>2, <1>4, Computed
<1>6. /\ g \in [0 .. N -> S] /\ g[0] = PublishOnce(t, k)
      /\ \A n \in 1 .. N : g[n] = next(g[n - 1])
  <2>1. \A n \in 1 .. N : n - 1 \in 0 .. N
    BY <1>1
  <2>2. g \in [0 .. N -> S] /\ g[0] = PublishOnce(t, k) /\ \A n \in 1 .. N : g[n] = step[<<n, g[n - 1]>>]
    <3> HIDE DEF step
    <3> QED BY <1>5 DEF IsComputed
  <2>3. \A n \in 1 .. N : <<n, g[n - 1]>> \in (1 .. N) \X S
    BY <2>1, <2>2
  <2>4. \A n \in 1 .. N : step[<<n, g[n - 1]>>] = next(g[n - 1])
    BY <2>3
  <2> HIDE DEF step
  <2> QED BY <2>2, <2>4
<1>7. Is(g)
  <2>1. g = [n \in 0 .. N |-> g[n]]
    BY <1>6
  <2>2. ASSUME NEW n \in 0 .. N
        PROVE  g[n] = IF n = 0 THEN PublishOnce(t, k)
                      ELSE IF g[n - 1].again THEN PublishOnce(g[n - 1], k) ELSE g[n - 1]
    <3>1. CASE n = 0
      BY <1>6, <3>1
    <3>2. CASE n # 0
      <4>1. n \in 1 .. N
        BY <1>1, <3>2
      <4>2. g[n] = next(g[n - 1])
        BY <1>6, <4>1
      <4> QED BY <3>2, <4>2 DEF next
    <3> QED BY <3>1, <3>2
  <2> QED BY <2>1, <2>2
<1> DEFINE calls == CHOOSE f : Is(f)
<1>8. Is(calls)
  BY <1>7
<1>9. Published(t, k) = calls[N]
  BY Zenon DEF Published, N
<1> HIDE DEF calls
<1>10. \A n \in 0 .. N : calls[n] = IF n = 0 THEN PublishOnce(t, k)
                                    ELSE IF calls[n - 1].again THEN PublishOnce(calls[n - 1], k)
                                    ELSE calls[n - 1]
  BY <1>8
<1>11. calls[0] = PublishOnce(t, k) /\ \A n \in 1 .. N : calls[n] = next(calls[n - 1])
  <2>1. 0 \in 0 .. N /\ \A n \in 1 .. N : n \in 0 .. N /\ n # 0
    BY <1>1
  <2> QED BY <1>10, <2>1 DEF next
<1>12. \A n \in 0 .. N : calls[n] \in S
  <2>1. \A n \in 1 .. N : calls[n - 1] \in S => calls[n] \in S
    BY <1>3, <1>11
  <2> QED BY <1>1, <1>2, <1>11, <2>1, StaysIn
<1>13. \A n \in 0 .. N : calls[n] \in PublishStates(last)
  BY <1>12 DEF S
<1>14. \A n \in 1 .. N : calls[n] = calls[n - 1] \/ Called(calls[n], calls[n - 1], k)
  <2>1. \A n \in 1 .. N : n - 1 \in 0 .. N
    BY <1>1
  <2> QED BY <1>3, <1>11, <1>12, <2>1
<1> QED BY <1>2, <1>9, <1>11, <1>13, <1>14 DEF N

(***************************************************************************)
(* Acknowledgements.                                                       *)
(***************************************************************************)

AckStates(last) == [subs : Seq(Subscriptions(last)), results : Results]

\* Some of the messages with the given numbers are not retained any more.
Fewer(new, old, numbers) ==
  /\ new.id = old.id /\ new.seq = old.seq /\ new.lastItem = old.lastItem /\ new.items = old.items
  /\ \A m \in DOMAIN new.retransmission : \E j \in DOMAIN old.retransmission :
       new.retransmission[m] = old.retransmission[j]
  /\ \A j \in DOMAIN old.retransmission :
       \/ \E m \in DOMAIN new.retransmission : new.retransmission[m] = old.retransmission[j]
       \/ old.retransmission[j].seq \in numbers

\* The numbers that the first n acknowledgements deleted of a subscription.
Deleted(id, acks, results, n) ==
  {acks[i].seq : i \in {j \in 1 .. n : acks[j].sub = id /\ results[j] = "good"}}

LEMMA FewerNot == ASSUME NEW sub, NEW numbers PROVE Fewer(sub, sub, numbers)
BY DEF Fewer

LEMMA FewerTwice ==
  ASSUME NEW new, NEW sub, NEW old, NEW a, NEW b, NEW c, Fewer(new, sub, a), Fewer(sub, old, b),
         a \subseteq c, b \subseteq c
  PROVE  Fewer(new, old, c)
<1>1. /\ new.id = old.id /\ new.seq = old.seq /\ new.lastItem = old.lastItem /\ new.items = old.items
  BY DEF Fewer
<1>2. ASSUME NEW m \in DOMAIN new.retransmission
      PROVE  \E j \in DOMAIN old.retransmission : new.retransmission[m] = old.retransmission[j]
  <2>1. PICK i \in DOMAIN sub.retransmission : new.retransmission[m] = sub.retransmission[i]
    BY DEF Fewer
  <2>2. PICK j \in DOMAIN old.retransmission : sub.retransmission[i] = old.retransmission[j]
    BY DEF Fewer
  <2> QED BY <2>1, <2>2
<1>3. ASSUME NEW j \in DOMAIN old.retransmission, old.retransmission[j].seq \notin c
      PROVE  \E m \in DOMAIN new.retransmission : new.retransmission[m] = old.retransmission[j]
  <2>1. PICK i \in DOMAIN sub.retransmission : sub.retransmission[i] = old.retransmission[j]
    BY <1>3 DEF Fewer
  <2>2. PICK m \in DOMAIN new.retransmission : new.retransmission[m] = sub.retransmission[i]
    BY <1>3, <2>1 DEF Fewer
  <2> QED BY <2>1, <2>2
<1> QED BY <1>1, <1>2, <1>3 DEF Fewer

\* One acknowledgement and what it is answered.
Dealt(r, a, ack) ==
  \E result \in {"good", "unknown", "gone"} :
    /\ r.results = Append(a.results, result)
    /\ DOMAIN r.subs = DOMAIN a.subs
    /\ \A k \in DOMAIN a.subs :
         Fewer(r.subs[k], a.subs[k],
               IF a.subs[k].id = ack.sub /\ result = "good" THEN {ack.seq} ELSE {})

LEMMA AcknowledgeIs ==
  ASSUME SubscriptionAssumption, NEW last, NEW a \in AckStates(last), NEW ack \in [sub : SubIds, seq : Nat]
  PROVE  Acknowledge(a, ack) \in AckStates(last) /\ Dealt(Acknowledge(a, ack), a, ack)
<1> DEFINE here == {i \in DOMAIN a.subs : a.subs[i].id = ack.sub}
           i == CHOOSE j \in here : TRUE
           messages == a.subs[i].retransmission
           named == {k \in DOMAIN messages : messages[k].seq = ack.seq}
           left == Selected(messages, DOMAIN messages \ named)
           r == Acknowledge(a, ack)
<1>1. a.subs \in Seq(Subscriptions(last)) /\ a.results \in Results
  BY DEF AckStates
<1>2. ASSUME NEW result \in {"good", "unknown", "gone"}
      PROVE  Append(a.results, result) \in Results
  BY <1>1 DEF Results
<1>3. r = IF here = {} THEN [a EXCEPT !.results = Append(@, "gone")]
          ELSE IF named = {} THEN [a EXCEPT !.results = Append(@, "unknown")]
          ELSE [subs |-> [a.subs EXCEPT ![i] = [@ EXCEPT !.retransmission = left]],
                results |-> Append(a.results, "good")]
  BY Zenon DEF Acknowledge
<1>4. ASSUME NEW result \in {"unknown", "gone"},
             r = [a EXCEPT !.results = Append(@, result)]
      PROVE  r \in AckStates(last) /\ Dealt(r, a, ack)
  <2>1. r.subs = a.subs /\ r.results = Append(a.results, result) /\ r \in AckStates(last)
    BY <1>1, <1>2, <1>4 DEF AckStates
  <2> HIDE DEF r
  <2>2. \A k \in DOMAIN a.subs :
          Fewer(r.subs[k], a.subs[k],
                IF a.subs[k].id = ack.sub /\ result = "good" THEN {ack.seq} ELSE {})
    BY <2>1, FewerNot
  <2>3. DOMAIN r.subs = DOMAIN a.subs
    BY <2>1
  <2> QED BY <2>1, <2>2, <2>3 DEF Dealt
<1>5. ASSUME here # {}, named # {},
             r = [subs |-> [a.subs EXCEPT ![i] = [@ EXCEPT !.retransmission = left]],
                  results |-> Append(a.results, "good")]
      PROVE  r \in AckStates(last) /\ Dealt(r, a, ack)
  <2> DEFINE sub == a.subs[i]
             new == [sub EXCEPT !.retransmission = left]
             list == [a.subs EXCEPT ![i] = new]
  <2>1. i \in DOMAIN a.subs /\ sub.id = ack.sub
    BY <1>5
  <2> HIDE DEF i
  <2>2. sub \in Subscriptions(last)
    BY <1>1, <2>1, ElementsOfSeq
  <2>3. /\ sub \in ServerSubscription /\ sub.id <= last /\ sub.life <= sub.lifeTime
        /\ sub.lastItem <= MaxItem[sub.id] /\ messages \in Seq(Message)
    BY <2>2, SubscriptionType
  <2>4. /\ left \in Seq(Message)
        /\ \E e : IsPart(e, left, messages, Len(messages), DOMAIN messages \ named)
    BY <2>3, SelectedIs
  <2> HIDE DEF left
  <2>5. /\ new \in ServerSubscription /\ new.id = sub.id /\ new.seq = sub.seq
        /\ new.lastItem = sub.lastItem /\ new.items = sub.items /\ new.retransmission = left
        /\ new.life = sub.life /\ new.lifeTime = sub.lifeTime
    BY <2>3, <2>4 DEF ServerSubscription
  <2>6. Fewer(new, sub, {ack.seq})
    <3>1. PICK e : IsPart(e, left, messages, Len(messages), DOMAIN messages \ named)
      BY <2>4
    <3>2. \A m \in DOMAIN left : e[m] \in DOMAIN messages /\ left[m] = messages[e[m]]
      BY <3>1 DEF IsPart
    <3>3. \A j \in DOMAIN messages :
            (\E m \in DOMAIN left : left[m] = messages[j]) \/ messages[j].seq \in {ack.seq}
      <4>1. DOMAIN messages = 1 .. Len(messages)
        BY <2>3, ElementsOfSeq
      <4>2. ASSUME NEW j \in DOMAIN messages, messages[j].seq # ack.seq
            PROVE  \E m \in DOMAIN left : left[m] = messages[j]
        <5>1. j \in 1 .. Len(messages) /\ j \in DOMAIN messages \ named
          BY <4>1, <4>2
        <5>2. \E m \in DOMAIN left : e[m] = j
          BY <3>1, <5>1 DEF IsPart
        <5> QED BY <3>2, <5>2
      <4> QED BY <4>2
    <3> HIDE DEF named, new
    <3> QED BY <2>5, <3>2, <3>3 DEF Fewer
  <2> HIDE DEF new
  <2>7. new \in Subscriptions(last)
    BY <2>3, <2>5 DEF Subscriptions
  <2>8. /\ list \in Seq(Subscriptions(last)) /\ DOMAIN list = DOMAIN a.subs /\ list[i] = new
        /\ \A k \in DOMAIN a.subs : k # i => list[k] = a.subs[k]
    BY <1>1, <2>1, <2>7, InPlace
  <2>9. list = [a.subs EXCEPT ![i] = [@ EXCEPT !.retransmission = left]]
    BY Zenon DEF new
  <2> HIDE DEF list
  <2>10. r.subs = list /\ r.results = Append(a.results, "good") /\ r \in AckStates(last)
    <3>1. r = [subs |-> list, results |-> Append(a.results, "good")]
      BY <1>5, <2>9
    <3> HIDE DEF r
    <3>2. Append(a.results, "good") \in Results
      BY <1>2
    <3> QED BY <2>8, <3>1, <3>2 DEF AckStates
  <2> HIDE DEF r, here, messages, named
  <2>11. ASSUME NEW k \in DOMAIN a.subs
         PROVE  Fewer(list[k], a.subs[k],
                      IF a.subs[k].id = ack.sub /\ "good" = "good" THEN {ack.seq} ELSE {})
    <3>1. CASE k = i
      BY <2>1, <2>6, <2>8, <3>1
    <3>2. CASE k # i
      BY <2>8, <3>2, FewerNot
    <3> QED BY <3>1, <3>2
  <2> QED BY <2>8, <2>10, <2>11 DEF Dealt
<1> QED BY <1>3, <1>4, <1>5

LEMMA DeletedGrows ==
  ASSUME NEW id, NEW acks, NEW r, NEW n \in Nat, r \in Results, Len(r) = n,
         NEW result \in {"good", "unknown", "gone"}
  PROVE  /\ Deleted(id, acks, r, n) \subseteq Deleted(id, acks, Append(r, result), n + 1)
         /\ (IF id = acks[n + 1].sub /\ result = "good" THEN {acks[n + 1].seq} ELSE {})
              \subseteq Deleted(id, acks, Append(r, result), n + 1)
<1> DEFINE words == {"good", "unknown", "gone"}
           new == Append(r, result)
<1>1. r \in Seq(words) /\ result \in words
  BY DEF Results
<1> HIDE DEF words
<1>2. /\ \A i \in 1 .. n : new[i] = r[i]
      /\ new[n + 1] = result
  BY <1>1, AppendProperties
<1> HIDE DEF new
<1>3. n + 1 \in 1 .. n + 1 /\ \A i \in 1 .. n : i \in 1 .. n + 1
  OBVIOUS
<1>4. Deleted(id, acks, r, n) \subseteq Deleted(id, acks, new, n + 1)
  BY <1>2, <1>3 DEF Deleted
<1>5. id = acks[n + 1].sub /\ result = "good" => acks[n + 1].seq \in Deleted(id, acks, new, n + 1)
  BY <1>2, <1>3 DEF Deleted
<1> QED BY <1>4, <1>5 DEF new

\* What the first n acknowledgements have made of a list.
DealtWith(a, list, acks, n) ==
  /\ Len(a.results) = n /\ DOMAIN a.subs = DOMAIN list
  /\ \A k \in DOMAIN list :
       Fewer(a.subs[k], list[k], Deleted(list[k].id, acks, a.results, n))

LEMMA AcknowledgedIs ==
  ASSUME SubscriptionAssumption, NEW last, subs \in Seq(Subscriptions(last)), NEW acks \in Acks
  PROVE  /\ Acknowledged(acks) \in AckStates(last)
         /\ DealtWith(Acknowledged(acks), subs, acks, Len(acks))
<1> DEFINE N == Len(acks)
           S == AckStates(last)
           base == [subs |-> subs, results |-> <<>>]
           step == [p \in (1 .. N) \X S |-> Acknowledge(p[2], acks[p[1]])]
           Is(f) == f = [k \in 0 .. N |-> IF k = 0 THEN [subs |-> subs, results |-> <<>>]
                                          ELSE Acknowledge(f[k - 1], acks[k])]
<1>1. N \in Nat /\ \A n \in 1 .. N : acks[n] \in [sub : SubIds, seq : Nat]
  BY ElementsOfSeq DEF Acks
<1>2. base \in S
  <2>1. <<>> \in Results
    BY DEF Results
  <2> QED BY <2>1 DEF AckStates
<1>3. ASSUME NEW n \in 1 .. N, NEW a \in S
      PROVE  Acknowledge(a, acks[n]) \in S /\ Dealt(Acknowledge(a, acks[n]), a, acks[n])
  BY <1>1, AcknowledgeIs
<1> HIDE DEF N, S
<1>4. step \in [(1 .. N) \X S -> S]
  BY <1>3
<1>5. PICK g : IsComputed(g, N, base, step, S)
  <2> HIDE DEF step, base
  <2> QED BY <1>1, <1>2, <1>4, Computed
<1>6. /\ g \in [0 .. N -> S] /\ g[0] = base
      /\ \A n \in 1 .. N : g[n] = Acknowledge(g[n - 1], acks[n])
  <2>1. \A n \in 1 .. N : n - 1 \in 0 .. N
    BY <1>1
  <2>2. g \in [0 .. N -> S] /\ g[0] = base /\ \A n \in 1 .. N : g[n] = step[<<n, g[n - 1]>>]
    <3> HIDE DEF step, base
    <3> QED BY <1>5 DEF IsComputed
  <2>3. \A n \in 1 .. N : <<n, g[n - 1]>> \in (1 .. N) \X S
    BY <2>1, <2>2
  <2>4. \A n \in 1 .. N : step[<<n, g[n - 1]>>] = Acknowledge(g[n - 1], acks[n])
    BY <2>3
  <2> HIDE DEF step, base
  <2> QED BY <2>2, <2>4
<1>7. Is(g)
  <2>1. g = [n \in 0 .. N |-> g[n]]
    BY <1>6
  <2>2. ASSUME NEW n \in 0 .. N
        PROVE  g[n] = IF n = 0 THEN base ELSE Acknowledge(g[n - 1], acks[n])
    <3>1. n = 0 \/ n \in 1 .. N
      BY <1>1
    <3> HIDE DEF base
    <3> QED BY <1>1, <1>6, <3>1
  <2> QED BY <2>1, <2>2
<1> DEFINE acked == CHOOSE f : Is(f)
<1>8. Is(acked)
  BY <1>7
<1>9. Acknowledged(acks) = acked[N]
  BY Zenon DEF Acknowledged, N
<1> HIDE DEF acked
<1>10. \A n \in 0 .. N : acked[n] = IF n = 0 THEN base ELSE Acknowledge(acked[n - 1], acks[n])
  BY <1>8
<1>11. acked[0] = base /\ \A n \in 1 .. N : acked[n] = Acknowledge(acked[n - 1], acks[n])
  <2>1. 0 \in 0 .. N /\ \A n \in 1 .. N : n \in 0 .. N /\ n # 0
    BY <1>1
  <2> HIDE DEF base
  <2> QED BY <1>10, <2>1
<1>12. \A n \in 0 .. N : acked[n] \in S
  <2>1. \A n \in 1 .. N : acked[n - 1] \in S => acked[n] \in S
    BY <1>3, <1>11
  <2> HIDE DEF base
  <2> QED BY <1>1, <1>2, <1>11, <2>1, StaysIn
<1> DEFINE P == {n \in 0 .. N : DealtWith(acked[n], subs, acks, n)}
<1>13. 0 \in P
  <2>1. acked[0].subs = subs /\ acked[0].results = <<>>
    BY <1>11
  <2> QED BY <1>1, <2>1, FewerNot DEF DealtWith
<1>14. ASSUME NEW n \in 1 .. N, n - 1 \in P PROVE n \in P
  <2> DEFINE a == acked[n - 1]
             r == acked[n]
  <2>1. n - 1 \in 0 .. N /\ n \in 0 .. N /\ n - 1 \in Nat /\ (n - 1) + 1 = n
    BY <1>1
  <2>2. a \in S /\ r \in S /\ Dealt(r, a, acks[n]) /\ DealtWith(a, subs, acks, n - 1)
    BY <1>3, <1>11, <1>12, <1>14, <2>1
  <2> HIDE DEF a, r
  <2>3. PICK result \in {"good", "unknown", "gone"} :
          /\ r.results = Append(a.results, result)
          /\ DOMAIN r.subs = DOMAIN a.subs
          /\ \A k \in DOMAIN a.subs :
               Fewer(r.subs[k], a.subs[k],
                     IF a.subs[k].id = acks[n].sub /\ result = "good" THEN {acks[n].seq} ELSE {})
    BY <2>2 DEF Dealt
  <2>4. a.results \in Results /\ Len(a.results) = n - 1
    BY <2>2 DEF AckStates, S, DealtWith
  <2>5. Len(r.results) = n
    <3> DEFINE words == {"good", "unknown", "gone"}
    <3>1. a.results \in Seq(words) /\ result \in words
      BY <2>4 DEF Results
    <3> HIDE DEF words
    <3>2. Len(Append(a.results, result)) = Len(a.results) + 1
      BY <3>1, AppendProperties
    <3> QED BY <2>1, <2>3, <2>4, <3>2
  <2>6. ASSUME NEW k \in DOMAIN subs
        PROVE  Fewer(r.subs[k], subs[k], Deleted(subs[k].id, acks, r.results, n))
    <3> DEFINE one == IF a.subs[k].id = acks[n].sub /\ result = "good" THEN {acks[n].seq} ELSE {}
               before == Deleted(subs[k].id, acks, a.results, n - 1)
               now == Deleted(subs[k].id, acks, r.results, n)
    <3>1. Fewer(a.subs[k], subs[k], before) /\ Fewer(r.subs[k], a.subs[k], one)
      BY <2>2, <2>3 DEF DealtWith
    <3>2. a.subs[k].id = subs[k].id
      BY <3>1 DEF Fewer
    <3>3. before \subseteq now /\ one \subseteq now
      <4>1. /\ Deleted(subs[k].id, acks, a.results, n - 1)
                 \subseteq Deleted(subs[k].id, acks, Append(a.results, result), (n - 1) + 1)
            /\ (IF subs[k].id = acks[(n - 1) + 1].sub /\ result = "good"
                THEN {acks[(n - 1) + 1].seq} ELSE {})
                 \subseteq Deleted(subs[k].id, acks, Append(a.results, result), (n - 1) + 1)
        BY <2>1, <2>4, DeletedGrows
      <4> QED BY <2>1, <2>3, <3>2, <4>1
    <3> HIDE DEF one, before, now
    <3>4. Fewer(r.subs[k], subs[k], now)
      BY <3>1, <3>3, FewerTwice
    <3> QED BY <3>4 DEF now
  <2>7. DealtWith(r, subs, acks, n)
    BY <2>2, <2>3, <2>5, <2>6 DEF DealtWith
  <2> QED BY <2>1, <2>7 DEF r
<1> HIDE DEF P
<1>15. \A n \in 0 .. N : n \in P
  BY <1>1, <1>13, <1>14, Reached
<1>16. N \in P /\ N \in 0 .. N
  BY <1>1, <1>15
<1> QED BY <1>9, <1>12, <1>16 DEF P, N, S

(***************************************************************************)
(* The inductive invariant.  Its parts are about values, not variables:    *)
(* v is the value of the variable, g the numbers processed, told the       *)
(* values the handlers got, w the messages under way, c the client.        *)
(***************************************************************************)

Unique(list) == \A i, k \in DOMAIN list : list[i].id = list[k].id => i = k

Ordered(values) == \A a, b \in DOMAIN values : a <= b => values[a] <= values[b]

\* The value is not newer than what there is of an item.
NotNewer(v, item) == v <= item.last /\ \A q \in DOMAIN item.queue : v <= item.queue[q]

\* The samples of an item are in order, and the last one is the last in the queue.
ItemFine(item, v) ==
  /\ item.last <= v /\ Ordered(item.queue)
  /\ item.queue # <<>> => item.queue[Len(item.queue)] = item.last

ItemsFine(sub, v, told) ==
  /\ Unique(sub.items)
  /\ \A k \in DOMAIN sub.items :
       /\ sub.items[k].id <= sub.lastItem /\ ItemFine(sub.items[k], v)
       /\ NotNewer(told[sub.items[k].id], sub.items[k])
  /\ \A i \in ItemIds : i > sub.lastItem => told[i] = NoValue

\* A response that tells values.
Tells(r) == r.good /\ r.message.note # <<>>

\* A message under way is one that was sent: retained as it is, if it is retained,
\* and not newer than what is still to be sent.
Fits(m, sub) ==
  /\ m.seq \in 1 .. sub.seq
  /\ \A k \in DOMAIN sub.retransmission :
       sub.retransmission[k].seq = m.seq => sub.retransmission[k] = m
  /\ \A p \in DOMAIN m.note :
       /\ m.note[p].item <= sub.lastItem
       /\ \A k \in DOMAIN sub.items :
            m.note[p].item = sub.items[k].id => NotNewer(m.note[p].value, sub.items[k])

OnTheWay(sub, w) ==
  \A j \in DOMAIN w : Tells(w[j]) /\ w[j].message.sub = sub.id => Fits(w[j].message, sub)

Numbers(sub, g) ==
  /\ g \subseteq 1 .. sub.seq
  /\ \A k \in DOMAIN sub.retransmission :
       sub.retransmission[k].sub = sub.id /\ sub.retransmission[k].seq \in 1 .. sub.seq

\* Every number was processed or is that of a message retained.
AllThere(sub, g) ==
  \A n \in 1 .. sub.seq :
    n \in g \/ \E k \in DOMAIN sub.retransmission : sub.retransmission[k].seq = n

\* A message retained and not processed tells the last value of the item.
Untold(sub, g, item) ==
  \E k \in DOMAIN sub.retransmission :
    /\ sub.retransmission[k].seq \notin g
    /\ \E p \in DOMAIN sub.retransmission[k].note :
         sub.retransmission[k].note[p] = [item |-> item.id, value |-> item.last]

Retrievable(sub, g, told) ==
  /\ AllThere(sub, g)
  /\ \A k \in DOMAIN sub.items :
       \/ sub.items[k].queue # <<>>
       \/ sub.items[k].last = told[sub.items[k].id]
       \/ Untold(sub, g, sub.items[k])

Followed(sub, c) ==
  /\ sub.id \in c.subs
  /\ \A k \in DOMAIN sub.items : <<sub.id, sub.items[k].id>> \in c.items

SubFine(sub, w, v, g, told, c, lost) ==
  /\ ItemsFine(sub, v, told) /\ OnTheWay(sub, w) /\ Numbers(sub, g) /\ Followed(sub, c)
  /\ lost \/ MaxRetransmission # 0 \/ Retrievable(sub, g, told)

ListFine(list, w, v, g, told, c, lost) ==
  /\ Unique(list)
  /\ \A k \in DOMAIN list : SubFine(list[k], w, v, g[list[k].id], told[list[k].id], c, lost)

\* A message under way is newer than what was processed, and its values are in order.
NewsFine(m, g, told) ==
  /\ \A n \in g : n < m.seq
  /\ \A p \in DOMAIN m.note : told[m.note[p].item] <= m.note[p].value
  /\ \A p, q \in DOMAIN m.note :
       p <= q /\ m.note[p].item = m.note[q].item => m.note[p].value <= m.note[q].value

\* The second of two messages is the newer one.
InTurn(a, b) ==
  /\ a.seq < b.seq
  /\ \A p \in DOMAIN a.note, q \in DOMAIN b.note :
       a.note[p].item = b.note[q].item => a.note[p].value <= b.note[q].value

WireFine(w, up, last, g, told) ==
  /\ \A j \in DOMAIN w : w[j].good => up = "up" /\ w[j].message.sub \in 1 .. last
  /\ \A j \in DOMAIN w :
       Tells(w[j]) => NewsFine(w[j].message, g[w[j].message.sub], told[w[j].message.sub])
  /\ \A i, j \in DOMAIN w :
       i < j /\ Tells(w[i]) /\ Tells(w[j]) /\ w[i].message.sub = w[j].message.sub =>
         InTurn(w[i].message, w[j].message)

NoneYet(last, g, told) ==
  \A id \in SubIds : id > last => g[id] = {} /\ \A i \in ItemIds : told[id][i] = NoValue

Inv ==
  /\ TypeOK
  /\ link = "none" => subs = <<>> /\ lastSub = 0
  /\ NoneYet(lastSub, got, seen)
  /\ WireFine(wire, link, lastSub, got, seen)
  /\ ListFine(subs, wire, value, got, seen, client, early)

LEMMA AlikeFine ==
  ASSUME NEW new, NEW old, Alike(new, old), NEW w, NEW v, NEW g, NEW told, NEW c, NEW lost,
         SubFine(old, w, v, g, told, c, lost)
  PROVE  SubFine(new, w, v, g, told, c, lost)
<1>1. /\ new.id = old.id /\ new.seq = old.seq /\ new.lastItem = old.lastItem
      /\ new.items = old.items /\ new.retransmission = old.retransmission
  BY DEF Alike
<1>2. /\ ItemsFine(old, v, told) /\ OnTheWay(old, w) /\ Numbers(old, g) /\ Followed(old, c)
      /\ lost \/ MaxRetransmission # 0 \/ Retrievable(old, g, told)
  BY DEF SubFine
<1>3. ItemsFine(new, v, told)
  BY <1>1, <1>2 DEF ItemsFine
<1>4. \A m : Fits(m, old) => Fits(m, new)
  BY <1>1 DEF Fits
<1>5. OnTheWay(new, w)
  BY <1>1, <1>2, <1>4 DEF OnTheWay
<1>6. Numbers(new, g) /\ Followed(new, c)
  BY <1>1, <1>2 DEF Numbers, Followed
<1>7. Retrievable(old, g, told) => Retrievable(new, g, told)
  <2>1. AllThere(old, g) => AllThere(new, g)
    BY <1>1 DEF AllThere
  <2>2. \A item : Untold(old, g, item) => Untold(new, g, item)
    BY <1>1 DEF Untold
  <2> QED BY <1>1, <2>1, <2>2 DEF Retrievable
<1> QED BY <1>2, <1>3, <1>5, <1>6, <1>7 DEF SubFine

LEMMA ThinnedFine ==
  ASSUME NEW new, NEW old, Thinned(new, old), NEW w, NEW v, NEW g, NEW told, NEW c, NEW lost,
         ListFine(old, w, v, g, told, c, lost)
  PROVE  ListFine(new, w, v, g, told, c, lost)
<1>1. PICK e : /\ \A i \in DOMAIN new : e[i] \in DOMAIN old /\ Alike(new[i], old[e[i]])
               /\ \A i, k \in DOMAIN new : e[i] = e[k] => i = k
  BY DEF Thinned
<1>2. \A i \in DOMAIN new : new[i].id = old[e[i]].id
  BY <1>1 DEF Alike
<1>3. Unique(new)
  BY <1>1, <1>2 DEF ListFine, Unique
<1>4. ASSUME NEW k \in DOMAIN new
      PROVE  SubFine(new[k], w, v, g[new[k].id], told[new[k].id], c, lost)
  <2>1. SubFine(old[e[k]], w, v, g[new[k].id], told[new[k].id], c, lost)
    BY <1>1, <1>2 DEF ListFine
  <2> QED BY <1>1, <2>1, AlikeFine
<1> QED BY <1>3, <1>4 DEF ListFine

(***************************************************************************)
(* A message is sent.                                                      *)
(***************************************************************************)

LEMMA ItemValues ==
  ASSUME SubscriptionAssumption, NEW items \in Seq(Item), NEW k \in DOMAIN items
  PROVE  /\ items[k].last \in Int /\ items[k].id \in Nat
         /\ DOMAIN items[k].queue = 1 .. Len(items[k].queue) /\ Len(items[k].queue) \in Nat
         /\ \A q \in DOMAIN items[k].queue : items[k].queue[q] \in Nat
         /\ items[k].queue = <<>> <=> Len(items[k].queue) = 0
<1>1. /\ items[k].id \in ItemIds /\ items[k].queue \in Seq(0 .. MaxValue)
      /\ items[k].last \in NoValue .. MaxValue
  BY ItemType
<1>2. MaxValue \in Nat /\ ItemIds \subseteq Nat \ {0}
  BY Constants
<1>3. items[k].last \in Int /\ items[k].id \in Nat
  <2>1. items[k].last \in Int
    BY <1>1
  <2> QED BY <1>1, <1>2, <2>1
<1>4. /\ DOMAIN items[k].queue = 1 .. Len(items[k].queue) /\ Len(items[k].queue) \in Nat
      /\ \A q \in DOMAIN items[k].queue : items[k].queue[q] \in 0 .. MaxValue
  BY <1>1, ElementsOfSeq
<1>5. items[k].queue = <<>> <=> Len(items[k].queue) = 0
  BY <1>1
<1> QED BY <1>3, <1>4, <1>5

\* An item of which the first t samples were taken.
LEMMA ItemRest ==
  ASSUME SubscriptionAssumption, NEW olds \in Seq(Item), NEW news \in Seq(Item), NEW k,
         k \in DOMAIN olds, k \in DOMAIN news, NEW t \in Nat, NEW v,
         news[k].id = olds[k].id, news[k].last = olds[k].last,
         IsRest(news[k].queue, olds[k].queue, t), ItemFine(olds[k], v)
  PROVE  /\ ItemFine(news[k], v)
         /\ \A x \in Int : NotNewer(x, olds[k]) => NotNewer(x, news[k])
         /\ \A j \in 1 .. Len(olds[k].queue) : j <= t => NotNewer(olds[k].queue[j], news[k])
         /\ news[k].queue = <<>> => Len(olds[k].queue) <= t
<1> DEFINE o == olds[k].queue
           n == news[k].queue
<1>1. /\ DOMAIN o = 1 .. Len(o) /\ Len(o) \in Nat /\ \A q \in 1 .. Len(o) : o[q] \in Nat
      /\ DOMAIN n = 1 .. Len(n) /\ Len(n) \in Nat /\ \A q \in 1 .. Len(n) : n[q] \in Nat
      /\ n = <<>> <=> Len(n) = 0
      /\ o = <<>> <=> Len(o) = 0
      /\ olds[k].last \in Int
  BY ItemValues
<1>2. /\ Len(n) = (IF t <= Len(o) THEN Len(o) - t ELSE 0)
      /\ \A q \in 1 .. Len(n) : t + q \in 1 .. Len(o) /\ n[q] = o[t + q]
  BY DEF IsRest
<1>3. /\ olds[k].last <= v /\ Ordered(o)
      /\ o # <<>> => o[Len(o)] = olds[k].last
  BY DEF ItemFine
<1> HIDE DEF o, n
<1>a. Len(o) \in Nat /\ Len(n) \in Nat /\ t \in Nat
  BY <1>1
<1>b. /\ t <= Len(o) => Len(n) = Len(o) - t
      /\ ~(t <= Len(o)) => Len(n) = 0
  <2>1. Len(n) = IF t <= Len(o) THEN Len(o) - t ELSE 0
    BY <1>2
  <2> QED BY <2>1
<1>4. Ordered(n)
  <2>1. \A a, b \in 1 .. Len(n) : a <= b => t + a <= t + b
    BY <1>1
  <2> QED BY <1>1, <1>2, <1>3, <2>1 DEF Ordered
<1>5. n # <<>> => o # <<>> /\ n[Len(n)] = o[Len(o)]
  <2>1. SUFFICES ASSUME n # <<>> PROVE o # <<>> /\ n[Len(n)] = o[Len(o)]
    OBVIOUS
  <2>2. Len(n) > 0
    BY <1>1, <2>1
  <2>3. t <= Len(o) /\ Len(n) = Len(o) - t
    BY <1>a, <1>b, <2>2
  <2>4. t + Len(n) = Len(o) /\ Len(n) \in 1 .. Len(n) /\ Len(o) # 0
    BY <1>a, <2>2, <2>3
  <2> QED BY <1>1, <1>2, <2>4
<1>6. ItemFine(news[k], v)
  BY <1>3, <1>4, <1>5 DEF ItemFine, n, o
<1>7. ASSUME NEW x \in Int, NotNewer(x, olds[k]) PROVE NotNewer(x, news[k])
  <2>1. x <= olds[k].last /\ \A q \in 1 .. Len(o) : x <= o[q]
    BY <1>1, <1>7 DEF NotNewer, o
  <2>2. \A q \in 1 .. Len(n) : x <= n[q]
    BY <1>2, <2>1
  <2> QED BY <1>1, <2>1, <2>2 DEF NotNewer, n
<1>8. ASSUME NEW j \in 1 .. Len(o), j <= t PROVE NotNewer(o[j], news[k])
  <2>1. Len(o) \in 1 .. Len(o) /\ j <= Len(o) /\ o # <<>>
    BY <1>1
  <2>2. o[j] <= olds[k].last
    BY <1>1, <1>3, <2>1 DEF Ordered
  <2>3. ASSUME NEW q \in 1 .. Len(n) PROVE o[j] <= n[q]
    <3>1. t + q \in 1 .. Len(o) /\ n[q] = o[t + q]
      BY <1>2
    <3>2. j <= t + q
      BY <1>a, <1>8
    <3> QED BY <1>1, <1>3, <3>1, <3>2 DEF Ordered
  <2> QED BY <1>1, <2>2, <2>3 DEF NotNewer, n
<1>9. n = <<>> => Len(o) <= t
  <2>1. n = <<>> => Len(n) = 0
    BY <1>1
  <2> QED BY <1>a, <1>b, <2>1
<1> QED BY <1>6, <1>7, <1>8, <1>9 DEF n, o

\* Where a notification in a message comes from.
LEMMA NoteFrom ==
  ASSUME SubscriptionAssumption, NEW items \in Seq(Item), Unique(items), NEW note, IsNote(items, note),
         NEW p \in DOMAIN note
  PROVE  /\ \E k \in DOMAIN items : note[p].item = items[k].id
         /\ \A k \in DOMAIN items : note[p].item = items[k].id =>
              /\ p - Before(items, k) \in 1 .. Len(items[k].queue)
              /\ p - Before(items, k) <= Taken(items, Len(note), k)
              /\ note[p].value = items[k].queue[p - Before(items, k)]
<1>1. PICK k \in DOMAIN items : /\ p - Before(items, k) \in 1 .. Len(items[k].queue)
                                /\ p - Before(items, k) <= Taken(items, Len(note), k)
                                /\ note[p] = SampleAt(items, k, p - Before(items, k))
  BY DEF IsNote
<1>2. note[p].item = items[k].id /\ note[p].value = items[k].queue[p - Before(items, k)]
  BY <1>1 DEF SampleAt
<1>3. \A i \in DOMAIN items : note[p].item = items[i].id => i = k
  BY <1>2 DEF Unique
<1> QED BY <1>1, <1>2, <1>3

\* The values of a message are newer than what was told before, and not newer than what
\* is left, and in order.
LEMMA NoteInOrder ==
  ASSUME SubscriptionAssumption, NEW items \in Seq(Item), Unique(items),
         NEW note \in Seq(Notification), IsNote(items, note), NEW v,
         \A k \in DOMAIN items : ItemFine(items[k], v)
  PROVE  /\ \A p \in DOMAIN note : \A k \in DOMAIN items : note[p].item = items[k].id =>
              /\ NotNewer(note[p].value, ItemsAfter(items, Len(note))[k])
              /\ \A x \in Int : NotNewer(x, items[k]) => x <= note[p].value
         /\ \A p, q \in DOMAIN note :
              p <= q /\ note[p].item = note[q].item => note[p].value <= note[q].value
<1> DEFINE n == Len(note)
           news == ItemsAfter(items, n)
<1>1. DOMAIN note = 1 .. n /\ n \in Nat
  BY ElementsOfSeq
<1>2. /\ news \in Seq(Item) /\ DOMAIN news = DOMAIN items
      /\ \A k \in DOMAIN items :
           /\ news[k].id = items[k].id /\ news[k].last = items[k].last
           /\ IsRest(news[k].queue, items[k].queue, Taken(items, n, k))
  BY <1>1, ItemsAfterIs
<1> HIDE DEF news
<1>3. ASSUME NEW p \in DOMAIN note, NEW k \in DOMAIN items, note[p].item = items[k].id
      PROVE  /\ NotNewer(note[p].value, news[k])
             /\ \A x \in Int : NotNewer(x, items[k]) => x <= note[p].value
  <2> DEFINE j == p - Before(items, k)
  <2>1. /\ j \in 1 .. Len(items[k].queue) /\ j <= Taken(items, n, k)
        /\ note[p].value = items[k].queue[j]
    BY <1>3, NoteFrom
  <2> HIDE DEF j
  <2>2. Taken(items, n, k) \in Nat
    BY <1>1, TakenType
  <2>3. NotNewer(note[p].value, news[k])
    BY <1>2, <2>1, <2>2, ItemRest
  <2>4. DOMAIN items[k].queue = 1 .. Len(items[k].queue)
    BY ItemType
  <2> QED BY <2>1, <2>3, <2>4 DEF NotNewer
<1>4. ASSUME NEW p \in DOMAIN note, NEW q \in DOMAIN note, p <= q, note[p].item = note[q].item
      PROVE  note[p].value <= note[q].value
  <2>1. PICK k \in DOMAIN items : note[p].item = items[k].id
    BY NoteFrom
  <2> DEFINE a == p - Before(items, k)
             b == q - Before(items, k)
  <2>2. /\ a \in 1 .. Len(items[k].queue) /\ note[p].value = items[k].queue[a]
        /\ b \in 1 .. Len(items[k].queue) /\ note[q].value = items[k].queue[b]
    <3>1. note[q].item = items[k].id
      BY <1>4, <2>1
    <3> QED BY <2>1, <3>1, NoteFrom
  <2>3. Before(items, k) \in Nat /\ p \in Nat /\ q \in Nat
    BY <1>1, SamplesArranged
  <2>4. a <= b
    BY <1>4, <2>3
  <2> HIDE DEF a, b
  <2>5. Ordered(items[k].queue) /\ DOMAIN items[k].queue = 1 .. Len(items[k].queue)
    BY ItemType DEF ItemFine
  <2> QED BY <2>2, <2>4, <2>5 DEF Ordered
<1> QED BY <1>3, <1>4 DEF news

LEMMA MessageType ==
  ASSUME SubscriptionAssumption, NEW m \in Message
  PROVE  /\ m.seq \in Nat /\ m.note \in Seq(Notification)
         /\ \A p \in DOMAIN m.note :
              m.note[p].item \in ItemIds /\ m.note[p].item \in Nat /\ m.note[p].value \in Nat
<1>1. m.seq \in Nat /\ m.note \in Seq(Notification)
  BY DEF Message
<1>2. \A p \in DOMAIN m.note : m.note[p] \in Notification
  BY <1>1, ElementsOfSeq
<1>3. \A n \in Notification : n.item \in ItemIds /\ n.value \in 0 .. MaxValue
  BY DEF Notification
<1>4. MaxValue \in Nat /\ ItemIds \subseteq Nat \ {0}
  BY Constants
<1>5. ASSUME NEW n \in Notification PROVE n.item \in ItemIds /\ n.item \in Nat /\ n.value \in Nat
  <2>1. n.item \in ItemIds /\ n.value \in 0 .. MaxValue
    BY <1>3
  <2>2. n.value \in Nat
    BY <1>4, <2>1
  <2> QED BY <1>4, <2>1, <2>2
<1> QED BY <1>1, <1>2, <1>5

LEMMA TellingType ==
  ASSUME NEW w \in Seq(PublishResponse), NEW r \in PublishResponse
  PROVE  /\ Append(w, r) \in Seq(PublishResponse)
         /\ DOMAIN w = 1 .. Len(w) /\ Len(w) \in Nat
         /\ DOMAIN Append(w, r) = 1 .. Len(w) + 1 /\ Append(w, r)[Len(w) + 1] = r
         /\ \A j \in DOMAIN w : j \in DOMAIN Append(w, r) /\ Append(w, r)[j] = w[j]
         /\ \A j \in DOMAIN Append(w, r) : j \in DOMAIN w \/ j = Len(w) + 1
         /\ \A j \in DOMAIN w : w[j].message \in Message
<1>1. DOMAIN w = 1 .. Len(w) /\ Len(w) \in Nat /\ \A j \in DOMAIN w : w[j] \in PublishResponse
  BY ElementsOfSeq
<1>2. /\ Append(w, r) \in Seq(PublishResponse) /\ Len(Append(w, r)) = Len(w) + 1
      /\ \A j \in 1 .. Len(w) : Append(w, r)[j] = w[j]
      /\ Append(w, r)[Len(w) + 1] = r
  BY AppendProperties
<1>3. DOMAIN Append(w, r) = 1 .. Len(w) + 1
  BY <1>2, ElementsOfSeq
<1>4. \A x \in PublishResponse : x.message \in Message
  BY DEF PublishResponse
<1> QED BY <1>1, <1>2, <1>3, <1>4

\* The subscription that sends a message, and the message.
LEMMA SentFine ==
  ASSUME SubscriptionAssumption, NEW last, NEW old \in Subscriptions(last), NEW note \in Seq(Notification),
         IsNote(old.items, note), NEW m \in Message,
         m = [sub |-> old.id, seq |-> old.seq + 1, note |-> note],
         NEW new, SentFrom(new, old, note, m),
         NEW w \in Seq(PublishResponse), NEW r \in PublishResponse, r.good, r.message = m,
         NEW v, NEW g, NEW told \in [ItemIds -> NoValue .. MaxValue], NEW c, NEW lost,
         SubFine(old, w, v, g, told, c, lost)
  PROVE  /\ SubFine(new, Append(w, r), v, g, told, c, lost)
         /\ note # <<>> => NewsFine(m, g, told)
         /\ \A x \in Message : Fits(x, old) => InTurn(x, m)
<1> DEFINE n == Len(note)
           olds == old.items
           news == ItemsAfter(olds, n)
           kept == old.retransmission
<1>1. /\ olds \in Seq(Item) /\ kept \in Seq(Message) /\ old.seq \in Nat /\ old.id \in SubIds
      /\ old.lastItem \in Nat
  BY SubscriptionType
<1>2. /\ ItemsFine(old, v, told) /\ OnTheWay(old, w) /\ Numbers(old, g) /\ Followed(old, c)
      /\ lost \/ MaxRetransmission # 0 \/ Retrievable(old, g, told)
  BY DEF SubFine
<1>3. /\ Unique(olds)
      /\ \A k \in DOMAIN olds : /\ olds[k].id <= old.lastItem /\ ItemFine(olds[k], v)
                                /\ NotNewer(told[olds[k].id], olds[k])
      /\ \A i \in ItemIds : i > old.lastItem => told[i] = NoValue
  BY <1>2 DEF ItemsFine
<1>4. /\ new.id = old.id /\ new.lastItem = old.lastItem /\ new.items = news
      /\ new.seq = Numbered(old, note)
      /\ new.retransmission = IF note = <<>> THEN kept ELSE Retained(kept, m)
  BY DEF SentFrom
<1>5. m.sub = old.id /\ m.seq = old.seq + 1 /\ m.note = note
  OBVIOUS
<1>6. DOMAIN note = 1 .. n /\ n \in Nat
  BY ElementsOfSeq
<1>7. /\ news \in Seq(Item) /\ DOMAIN news = DOMAIN olds
      /\ \A k \in DOMAIN olds :
           /\ news[k].id = olds[k].id /\ news[k].last = olds[k].last
           /\ IsRest(news[k].queue, olds[k].queue, Taken(olds, n, k))
           /\ Taken(olds, n, k) \in Nat
  BY <1>1, <1>6, ItemsAfterIs, TakenType
<1>8. /\ \A p \in DOMAIN note : \A k \in DOMAIN olds : note[p].item = olds[k].id =>
           /\ NotNewer(note[p].value, news[k])
           /\ \A x \in Int : NotNewer(x, olds[k]) => x <= note[p].value
      /\ \A p, q \in DOMAIN note :
           p <= q /\ note[p].item = note[q].item => note[p].value <= note[q].value
  BY <1>1, <1>3, NoteInOrder
<1>9. \A p \in DOMAIN note : \E k \in DOMAIN olds : note[p].item = olds[k].id
  BY <1>1, <1>3, NoteFrom
<1>10. \A k \in DOMAIN olds :
         /\ ItemFine(news[k], v)
         /\ \A x \in Int : NotNewer(x, olds[k]) => NotNewer(x, news[k])
         /\ news[k].queue = <<>> => Len(olds[k].queue) <= Taken(olds, n, k)
  <2> HIDE DEF news, olds
  <2> QED BY <1>1, <1>3, <1>7, ItemRest
<1>11. \A k \in DOMAIN olds : olds[k].id \in ItemIds /\ told[olds[k].id] \in Int
  <2>1. \A k \in DOMAIN olds : olds[k].id \in ItemIds
    BY <1>1, ItemType
  <2>2. MaxValue \in Nat
    BY Constants
  <2> QED BY <2>1, <2>2
<1> HIDE DEF news, olds, kept, n
<1>12. ItemsFine(new, v, told)
  <2>1. Unique(news)
    BY <1>3, <1>7 DEF Unique
  <2>2. \A k \in DOMAIN news :
          /\ news[k].id <= old.lastItem /\ ItemFine(news[k], v)
          /\ NotNewer(told[news[k].id], news[k])
    BY <1>3, <1>7, <1>10, <1>11
  <2> QED BY <1>3, <1>4, <2>1, <2>2 DEF ItemsFine
<1>13. Numbers(old, g) /\ g \subseteq 1 .. old.seq
       /\ \A k \in DOMAIN kept : kept[k].sub = old.id /\ kept[k].seq \in 1 .. old.seq
  BY <1>2 DEF Numbers, kept
<1>14. /\ new.seq \in {old.seq, old.seq + 1}
       /\ note # <<>> => new.seq = m.seq
       /\ note = <<>> => new.seq = old.seq
  BY <1>4, <1>5 DEF Numbered
<1>15. \A k \in DOMAIN new.retransmission :
         \/ note # <<>> /\ new.retransmission[k] = m
         \/ \E j \in DOMAIN kept : new.retransmission[k] = kept[j]
  <2>1. CASE note = <<>>
    BY <1>4, <2>1
  <2>2. CASE note # <<>>
    <3>1. new.retransmission = Retained(kept, m)
      BY <1>4, <2>2
    <3>2. /\ Retained(kept, m)[1] = m
          /\ \A k \in DOMAIN Retained(kept, m) :
               k # 1 => k - 1 \in DOMAIN kept /\ Retained(kept, m)[k] = kept[k - 1]
      BY <1>1, RetainedIs
    <3> QED BY <2>2, <3>1, <3>2
  <2> QED BY <2>1, <2>2
<1>16. Numbers(new, g)
  <2>1. 1 .. old.seq \subseteq 1 .. new.seq
    BY <1>1, <1>14
  <2>2. note # <<>> => m.seq \in 1 .. new.seq
    BY <1>1, <1>5, <1>14
  <2>3. ASSUME NEW k \in DOMAIN new.retransmission
        PROVE  new.retransmission[k].sub = new.id /\ new.retransmission[k].seq \in 1 .. new.seq
    BY <1>4, <1>5, <1>13, <1>15, <2>1, <2>2
  <2> QED BY <1>13, <2>1, <2>3 DEF Numbers
<1>17. Followed(new, c)
  <2>1. \A k \in DOMAIN news : <<old.id, news[k].id>> \in c.items
    BY <1>2, <1>7 DEF Followed, olds
  <2> QED BY <1>2, <1>4, <2>1 DEF Followed
<1>18. ASSUME NEW x \in Message, Fits(x, old)
       PROVE  Fits(x, new) /\ InTurn(x, m)
  <2>1. /\ x.seq \in 1 .. old.seq
        /\ \A k \in DOMAIN kept : kept[k].seq = x.seq => kept[k] = x
        /\ \A p \in DOMAIN x.note :
             /\ x.note[p].item <= old.lastItem
             /\ \A k \in DOMAIN olds : x.note[p].item = olds[k].id => NotNewer(x.note[p].value, olds[k])
    BY <1>18 DEF Fits, olds, kept
  <2>2. \A p \in DOMAIN x.note : x.note[p].value \in Int
    BY MessageType
  <2>3. x.seq \in 1 .. new.seq /\ x.seq < m.seq
    BY <1>1, <1>5, <1>14, <2>1
  <2>4. \A k \in DOMAIN new.retransmission :
          new.retransmission[k].seq = x.seq => new.retransmission[k] = x
    <3>1. x.seq # m.seq
      BY <1>1, <1>5, <2>1
    <3> QED BY <1>15, <2>1, <3>1
  <2>5. \A p \in DOMAIN x.note :
          /\ x.note[p].item <= new.lastItem
          /\ \A k \in DOMAIN news : x.note[p].item = news[k].id => NotNewer(x.note[p].value, news[k])
    BY <1>4, <1>7, <1>10, <2>1, <2>2
  <2>6. Fits(x, new)
    BY <1>4, <2>3, <2>4, <2>5 DEF Fits
  <2>7. \A p \in DOMAIN x.note, q \in DOMAIN m.note :
          x.note[p].item = m.note[q].item => x.note[p].value <= m.note[q].value
    BY <1>5, <1>8, <1>9, <2>1, <2>2
  <2> QED BY <2>3, <2>6, <2>7 DEF InTurn
<1>19. ASSUME note # <<>>
       PROVE  Fits(m, new)
  <2>1. m.seq \in 1 .. new.seq
    BY <1>1, <1>5, <1>14, <1>19
  <2>2. \A k \in DOMAIN new.retransmission :
          new.retransmission[k].seq = m.seq => new.retransmission[k] = m
    <3>1. \A k \in DOMAIN kept : kept[k].seq # m.seq
      BY <1>1, <1>5, <1>13
    <3> QED BY <1>15, <3>1
  <2>3. \A p \in DOMAIN m.note :
          /\ m.note[p].item <= new.lastItem
          /\ \A k \in DOMAIN news : m.note[p].item = news[k].id => NotNewer(m.note[p].value, news[k])
    BY <1>3, <1>4, <1>5, <1>7, <1>8, <1>9
  <2> QED BY <1>4, <2>1, <2>2, <2>3 DEF Fits
<1>20. OnTheWay(new, Append(w, r))
  <2>1. /\ \A j \in DOMAIN Append(w, r) : j \in DOMAIN w \/ j = Len(w) + 1
        /\ Append(w, r)[Len(w) + 1] = r
        /\ \A j \in DOMAIN w : Append(w, r)[j] = w[j] /\ w[j].message \in Message
    BY TellingType
  <2>2. ASSUME NEW j \in DOMAIN Append(w, r), Tells(Append(w, r)[j]),
               Append(w, r)[j].message.sub = new.id
        PROVE  Fits(Append(w, r)[j].message, new)
    <3>1. CASE j \in DOMAIN w
      <4>1. Tells(w[j]) /\ w[j].message.sub = old.id
        BY <1>4, <2>1, <2>2, <3>1
      <4>2. Fits(w[j].message, old)
        BY <1>2, <3>1, <4>1 DEF OnTheWay
      <4> QED BY <1>18, <2>1, <3>1, <4>2
    <3>2. CASE j = Len(w) + 1
      BY <1>5, <1>19, <2>1, <2>2, <3>2 DEF Tells
    <3> QED BY <2>1, <3>1, <3>2
  <2> QED BY <2>2 DEF OnTheWay
<1>21. note # <<>> => NewsFine(m, g, told)
  <2>1. ASSUME NEW x \in g PROVE x < m.seq
    <3>1. x \in 1 .. old.seq
      BY <1>13
    <3> QED BY <1>1, <1>5, <3>1
  <2>2. \A p \in DOMAIN note : told[note[p].item] <= note[p].value
    BY <1>3, <1>8, <1>9, <1>11
  <2> QED BY <1>5, <1>8, <2>1, <2>2 DEF NewsFine
<1>22. ASSUME MaxRetransmission = 0, Retrievable(old, g, told)
       PROVE  Retrievable(new, g, told)
  <2>1. \A j \in DOMAIN kept : \E k \in DOMAIN new.retransmission : new.retransmission[k] = kept[j]
    <3>1. CASE note = <<>>
      BY <1>4, <3>1
    <3>2. CASE note # <<>>
      <4>1. new.retransmission = Retained(kept, m)
        BY <1>4, <3>2
      <4> QED BY <1>1, <1>22, <4>1, RetainedIs
    <3> QED BY <3>1, <3>2
  <2>2. note # <<>> => \E k \in DOMAIN new.retransmission : new.retransmission[k] = m
    <3>1. note # <<>> => new.retransmission = Retained(kept, m)
      BY <1>4
    <3>2. 1 \in DOMAIN Retained(kept, m) /\ Retained(kept, m)[1] = m
      BY <1>1, RetainedIs
    <3> QED BY <3>1, <3>2
  <2>3. AllThere(new, g)
    <3>1. ASSUME NEW i \in 1 .. new.seq, i \notin g
          PROVE  \E k \in DOMAIN new.retransmission : new.retransmission[k].seq = i
      <4>1. CASE i \in 1 .. old.seq
        <5>1. \E j \in DOMAIN kept : kept[j].seq = i
          BY <1>22, <3>1, <4>1 DEF Retrievable, AllThere, kept
        <5> QED BY <2>1, <5>1
      <4>2. CASE i \notin 1 .. old.seq
        <5>1. i = m.seq /\ note # <<>>
          BY <1>1, <1>5, <1>14, <4>2
        <5> QED BY <2>2, <5>1
      <4> QED BY <4>1, <4>2
    <3> QED BY <3>1 DEF AllThere
  <2>4. \A item : Untold(old, g, item) => Untold(new, g, item)
    BY <2>1 DEF Untold, kept
  <2>5. ASSUME NEW k \in DOMAIN news, news[k].queue = <<>>
        PROVE  news[k].last = told[news[k].id] \/ Untold(new, g, news[k])
    <3>1. k \in DOMAIN olds /\ news[k].id = olds[k].id /\ news[k].last = olds[k].last
      BY <1>7, <2>5
    <3>2. CASE olds[k].queue = <<>>
      <4>1. olds[k].last = told[olds[k].id] \/ Untold(old, g, olds[k])
        BY <1>22, <3>1, <3>2 DEF Retrievable, olds
      <4>2. Untold(new, g, olds[k]) => Untold(new, g, news[k])
        BY <3>1 DEF Untold
      <4> QED BY <2>4, <3>1, <4>1, <4>2
    <3>3. CASE olds[k].queue # <<>>
      <4> DEFINE j == Len(olds[k].queue)
                 p == Before(olds, k) + j
      <4>1. /\ j \in 1 .. Len(olds[k].queue) /\ j <= Taken(olds, n, k)
            /\ olds[k].queue[j] = olds[k].last
        <5>1. Len(olds[k].queue) \in Nat /\ Len(olds[k].queue) # 0
          BY <1>1, <3>1, <3>3, ItemValues
        <5> QED BY <1>3, <1>10, <2>5, <3>1, <3>3, <5>1 DEF ItemFine
      <4> HIDE DEF j
      <4>2. p \in DOMAIN note /\ note[p] = SampleAt(olds, k, j)
        <5>1. IsNote(olds, note)
          BY DEF olds
        <5> QED BY <3>1, <4>1, <5>1 DEF IsNote, n
      <4>3. note[p] = [item |-> news[k].id, value |-> news[k].last] /\ note # <<>>
        BY <1>6, <3>1, <4>1, <4>2 DEF SampleAt
      <4> HIDE DEF p
      <4>4. m.seq \notin g
        BY <1>1, <1>5, <1>13
      <4>5. PICK i \in DOMAIN new.retransmission : new.retransmission[i] = m
        BY <2>2, <4>3
      <4>6. /\ new.retransmission[i].seq \notin g /\ p \in DOMAIN new.retransmission[i].note
            /\ new.retransmission[i].note[p] = [item |-> news[k].id, value |-> news[k].last]
        BY <1>5, <4>2, <4>3, <4>4, <4>5
      <4> QED BY <4>6 DEF Untold
    <3> QED BY <3>2, <3>3
  <2> QED BY <1>4, <2>3, <2>5 DEF Retrievable
<1>23. lost \/ MaxRetransmission # 0 \/ Retrievable(new, g, told)
  BY <1>2, <1>22
<1> QED BY <1>12, <1>16, <1>17, <1>18, <1>20, <1>21, <1>23 DEF SubFine

\* A callback that answers a request keeps what is under way in order, and the list fine.
LEMMA AnsweredFine ==
  ASSUME SubscriptionAssumption, NEW last, NEW t \in PublishStates(last), NEW k \in DOMAIN t.subs,
         NEW r, Answered(r, t, k), NEW v, NEW g,
         NEW told \in [SubIds -> [ItemIds -> NoValue .. MaxValue]], NEW c, NEW lost,
         WireFine(t.wire, "up", last, g, told), ListFine(t.subs, t.wire, v, g, told, c, lost)
  PROVE  WireFine(r.wire, "up", last, g, told) /\ ListFine(r.subs, r.wire, v, g, told, c, lost)
<1> DEFINE w == t.wire
           old == t.subs[k]
           new == r.subs[k]
<1>1. PICK note \in Seq(Notification), x \in PublishResponse :
        /\ IsNote(old.items, note)
        /\ x.good /\ x.message = [sub |-> old.id, seq |-> old.seq + 1, note |-> note]
        /\ r.wire = Append(w, x)
        /\ DOMAIN r.subs = DOMAIN t.subs
        /\ \A i \in DOMAIN t.subs : i # k => r.subs[i] = t.subs[i]
        /\ SentFrom(new, old, note, x.message)
  BY Zenon DEF Answered
<1> DEFINE m == x.message
<1>2. t.subs \in Seq(Subscriptions(last)) /\ w \in Seq(PublishResponse)
  BY DEF PublishStates
<1>3. /\ \A i \in DOMAIN t.subs : t.subs[i] \in Subscriptions(last)
      /\ old \in Subscriptions(last) /\ m \in Message
  <2>1. \A y \in PublishResponse : y.message \in Message
    BY DEF PublishResponse
  <2> QED BY <1>2, <2>1, ElementsOfSeq
<1>4. /\ DOMAIN w = 1 .. Len(w) /\ Len(w) \in Nat
      /\ r.wire[Len(w) + 1] = x /\ DOMAIN r.wire = 1 .. Len(w) + 1
      /\ \A j \in DOMAIN w : j \in DOMAIN r.wire /\ r.wire[j] = w[j]
      /\ \A j \in DOMAIN r.wire : j \in DOMAIN w \/ j = Len(w) + 1
      /\ \A j \in DOMAIN w : w[j].message \in Message
  BY <1>1, <1>2, TellingType
<1>5. /\ Unique(t.subs)
      /\ \A i \in DOMAIN t.subs :
           SubFine(t.subs[i], w, v, g[t.subs[i].id], told[t.subs[i].id], c, lost)
  BY DEF ListFine
<1>6. /\ old.id \in SubIds /\ old.id <= last /\ old.id \in Nat /\ old.id > 0
      /\ told[old.id] \in [ItemIds -> NoValue .. MaxValue]
  <2>1. old.id \in SubIds /\ old.id <= last
    BY <1>3, SubscriptionType
  <2> QED BY <2>1 DEF SubIds
<1>7. /\ m.sub = old.id /\ m.note = note
      /\ m = [sub |-> old.id, seq |-> old.seq + 1, note |-> note]
  BY <1>1
<1> HIDE DEF m, old, new, w
<1>8. /\ SubFine(new, r.wire, v, g[old.id], told[old.id], c, lost)
      /\ note # <<>> => NewsFine(m, g[old.id], told[old.id])
      /\ \A y \in Message : Fits(y, old) => InTurn(y, m)
  <2>1. SubFine(old, w, v, g[old.id], told[old.id], c, lost)
    BY <1>5 DEF old
  <2>2. SentFrom(new, old, note, m) /\ IsNote(old.items, note)
    BY <1>1 DEF m
  <2>3. /\ SubFine(new, Append(w, x), v, g[old.id], told[old.id], c, lost)
        /\ note # <<>> => NewsFine(m, g[old.id], told[old.id])
        /\ \A y \in Message : Fits(y, old) => InTurn(y, m)
    <3>1. x.message = m /\ x.good /\ note \in Seq(Notification) /\ x \in PublishResponse
      BY <1>1 DEF m
    <3>2. old \in Subscriptions(last) /\ m \in Message /\ w \in Seq(PublishResponse)
      BY <1>2, <1>3
    <3> DEFINE gs == g[old.id]
               vs == told[old.id]
    <3>3. vs \in [ItemIds -> NoValue .. MaxValue] /\ SubFine(old, w, v, gs, vs, c, lost)
      BY <1>6, <2>1
    <3> HIDE DEF gs, vs
    <3>4. m = [sub |-> old.id, seq |-> old.seq + 1, note |-> note]
      BY <1>7
    <3>5. /\ SubFine(new, Append(w, x), v, gs, vs, c, lost)
          /\ note # <<>> => NewsFine(m, gs, vs)
          /\ \A y \in Message : Fits(y, old) => InTurn(y, m)
      BY <2>2, <3>1, <3>2, <3>3, <3>4, SentFine
    <3> QED BY <3>5 DEF gs, vs
  <2> QED BY <1>1, <2>3
<1>9. new.id = old.id
  BY <1>1 DEF SentFrom
<1>10. \A i \in DOMAIN r.subs : r.subs[i].id = t.subs[i].id
  BY <1>1, <1>9 DEF old, new
<1>11. Unique(r.subs)
  BY <1>1, <1>5, <1>10 DEF Unique
<1>12. ASSUME NEW i \in DOMAIN r.subs
       PROVE  SubFine(r.subs[i], r.wire, v, g[r.subs[i].id], told[r.subs[i].id], c, lost)
  <2>1. CASE i = k
    BY <1>8, <1>9, <2>1 DEF new
  <2>2. CASE i # k
    <3> DEFINE sub == t.subs[i]
    <3>1. i \in DOMAIN t.subs /\ r.subs[i] = sub
      BY <1>1, <2>2
    <3>2. sub.id # m.sub
      BY <1>5, <1>7, <2>2, <3>1 DEF Unique, old
    <3>3. SubFine(sub, w, v, g[sub.id], told[sub.id], c, lost)
      BY <1>5, <3>1
    <3> HIDE DEF sub
    <3>4. OnTheWay(sub, r.wire)
      <4>1. ASSUME NEW j \in DOMAIN r.wire, Tells(r.wire[j]), r.wire[j].message.sub = sub.id
            PROVE  Fits(r.wire[j].message, sub)
        <5>1. j \in DOMAIN w
          BY <1>4, <3>2, <4>1 DEF m
        <5> QED BY <1>4, <3>3, <4>1, <5>1 DEF SubFine, OnTheWay
      <4> QED BY <4>1 DEF OnTheWay
    <3>5. SubFine(sub, r.wire, v, g[sub.id], told[sub.id], c, lost)
      BY <3>3, <3>4 DEF SubFine
    <3> QED BY <3>1, <3>5
  <2> QED BY <2>1, <2>2
<1>13. \A j \in DOMAIN r.wire : r.wire[j].good => r.wire[j].message.sub \in 1 .. last
  <2>1. m.sub \in 1 .. last
    BY <1>6, <1>7
  <2>2. \A j \in DOMAIN w : w[j].good => w[j].message.sub \in 1 .. last
    BY DEF WireFine, w
  <2> QED BY <1>4, <2>1, <2>2 DEF m
<1>14. \A j \in DOMAIN r.wire : Tells(r.wire[j]) =>
         NewsFine(r.wire[j].message, g[r.wire[j].message.sub], told[r.wire[j].message.sub])
  <2>1. Tells(x) => NewsFine(x.message, g[x.message.sub], told[x.message.sub])
    BY <1>7, <1>8 DEF Tells, m
  <2>2. \A j \in DOMAIN w : Tells(w[j]) =>
          NewsFine(w[j].message, g[w[j].message.sub], told[w[j].message.sub])
    BY DEF WireFine, w
  <2> QED BY <1>4, <2>1, <2>2
<1>15. ASSUME NEW i \in DOMAIN r.wire, NEW j \in DOMAIN r.wire, i < j,
              Tells(r.wire[i]), Tells(r.wire[j]), r.wire[i].message.sub = r.wire[j].message.sub
       PROVE  InTurn(r.wire[i].message, r.wire[j].message)
  <2>1. i \in DOMAIN w
    BY <1>4, <1>15
  <2>2. CASE j \in DOMAIN w
    BY <1>4, <1>15, <2>1, <2>2 DEF WireFine, w
  <2>3. CASE j = Len(w) + 1
    <3>1. w[i].message.sub = old.id /\ Tells(w[i]) /\ w[i].message \in Message
      BY <1>4, <1>7, <1>15, <2>1, <2>3 DEF m
    <3>2. Fits(w[i].message, old)
      BY <1>5, <2>1, <3>1 DEF SubFine, OnTheWay, old
    <3> QED BY <1>4, <1>8, <2>1, <2>3, <3>1, <3>2 DEF m
  <2> QED BY <1>4, <2>2, <2>3
<1>16. WireFine(r.wire, "up", last, g, told)
  BY <1>13, <1>14, <1>15 DEF WireFine
<1>17. ListFine(r.subs, r.wire, v, g, told, c, lost)
  BY <1>11, <1>12 DEF ListFine
<1> QED BY <1>16, <1>17

LEMMA CalledFine ==
  ASSUME SubscriptionAssumption, NEW last, NEW t \in PublishStates(last), NEW k,
         NEW r, Called(r, t, k), NEW v, NEW g,
         NEW told \in [SubIds -> [ItemIds -> NoValue .. MaxValue]], NEW c, NEW lost,
         WireFine(t.wire, link, last, g, told), ListFine(t.subs, t.wire, v, g, told, c, lost)
  PROVE  WireFine(r.wire, link, last, g, told) /\ ListFine(r.subs, r.wire, v, g, told, c, lost)
<1>1. CASE link = "up" /\ k \in DOMAIN t.subs /\ Answered(r, t, k)
  <2>1. k \in DOMAIN t.subs /\ WireFine(t.wire, "up", last, g, told)
    BY <1>1
  <2> QED BY <1>1, <2>1, AnsweredFine
<1>2. CASE Thinned(r.subs, t.subs) /\ r.wire = t.wire
  <2>1. ListFine(r.subs, t.wire, v, g, told, c, lost)
    BY <1>2, ThinnedFine
  <2> QED BY <1>2, <2>1
<1> QED BY <1>1, <1>2 DEF Called

LEMMA PublishedFine ==
  ASSUME SubscriptionAssumption, NEW last, NEW t \in PublishStates(last), NEW k \in DOMAIN t.subs,
         NEW v, NEW g, NEW told \in [SubIds -> [ItemIds -> NoValue .. MaxValue]], NEW c, NEW lost,
         WireFine(t.wire, link, last, g, told), ListFine(t.subs, t.wire, v, g, told, c, lost)
  PROVE  /\ WireFine(Published(t, k).wire, link, last, g, told)
         /\ ListFine(Published(t, k).subs, Published(t, k).wire, v, g, told, c, lost)
<1>1. PICK f : /\ \A n \in 0 .. Len(t.queue) : f[n] \in PublishStates(last)
               /\ Called(f[0], t, k)
               /\ \A n \in 1 .. Len(t.queue) : f[n] = f[n - 1] \/ Called(f[n], f[n - 1], k)
               /\ Published(t, k) = f[Len(t.queue)]
  BY PublishedIs
<1>2. Len(t.queue) \in Nat
  <2>1. t.queue \in Seq(PublishRequest)
    BY DEF PublishStates
  <2> QED BY <2>1
<1> DEFINE N == Len(t.queue)
           P == {n \in 0 .. N : /\ WireFine(f[n].wire, link, last, g, told)
                                /\ ListFine(f[n].subs, f[n].wire, v, g, told, c, lost)}
<1>3. 0 \in P
  <2>1. WireFine(f[0].wire, link, last, g, told) /\ ListFine(f[0].subs, f[0].wire, v, g, told, c, lost)
    BY <1>1, CalledFine
  <2> QED BY <1>2, <2>1
<1>4. ASSUME NEW n \in 1 .. N, n - 1 \in P PROVE n \in P
  <2> DEFINE s == f[n - 1]
  <2>1. s \in PublishStates(last) /\ n \in 0 .. N
    BY <1>1, <1>2
  <2>2. WireFine(s.wire, link, last, g, told) /\ ListFine(s.subs, s.wire, v, g, told, c, lost)
    BY <1>4
  <2>3. f[n] = s \/ Called(f[n], s, k)
    BY <1>1
  <2> HIDE DEF s
  <2>4. /\ WireFine(f[n].wire, link, last, g, told)
        /\ ListFine(f[n].subs, f[n].wire, v, g, told, c, lost)
    <3>1. CASE f[n] = s
      BY <2>2, <3>1
    <3>2. CASE Called(f[n], s, k)
      BY <2>1, <2>2, <3>2, CalledFine
    <3> QED BY <2>3, <3>1, <3>2
  <2> QED BY <2>1, <2>4
<1>5. N \in P
  <2> HIDE DEF P
  <2>1. \A n \in 0 .. N : n \in P
    BY <1>2, <1>3, <1>4, Reached
  <2> QED BY <1>2, <2>1
<1> QED BY <1>1, <1>5

LEMMA PublishedType ==
  ASSUME SubscriptionAssumption, NEW last, NEW t \in PublishStates(last), NEW k \in DOMAIN t.subs
  PROVE  Published(t, k) \in PublishStates(last)
<1>1. PICK f : /\ \A n \in 0 .. Len(t.queue) : f[n] \in PublishStates(last)
               /\ Published(t, k) = f[Len(t.queue)]
  BY PublishedIs
<1>2. Len(t.queue) \in Nat
  <2>1. t.queue \in Seq(PublishRequest)
    BY DEF PublishStates
  <2> QED BY <2>1
<1> QED BY <1>1, <1>2

\* A list of which messages were deleted that had been processed.
LEMMA FewerFine ==
  ASSUME NEW new, NEW old, DOMAIN new = DOMAIN old, NEW numbers,
         \A k \in DOMAIN old : Fewer(new[k], old[k], numbers[k]),
         NEW w, NEW v, NEW g, NEW told, NEW c, NEW lost, NEW lost2,
         lost => lost2, lost2 \/ \A k \in DOMAIN old : numbers[k] \subseteq g[old[k].id],
         ListFine(old, w, v, g, told, c, lost)
  PROVE  ListFine(new, w, v, g, told, c, lost2)
<1>1. \A k \in DOMAIN old : new[k].id = old[k].id
  BY DEF Fewer
<1>2. Unique(new)
  BY <1>1 DEF ListFine, Unique
<1>3. ASSUME NEW k \in DOMAIN old
      PROVE  SubFine(new[k], w, v, g[old[k].id], told[old[k].id], c, lost2)
  <2> DEFINE n == new[k]
             o == old[k]
             gs == g[old[k].id]
             vs == told[old[k].id]
  <2>1. /\ n.id = o.id /\ n.seq = o.seq /\ n.lastItem = o.lastItem /\ n.items = o.items
        /\ \A m \in DOMAIN n.retransmission : \E j \in DOMAIN o.retransmission :
             n.retransmission[m] = o.retransmission[j]
        /\ \A j \in DOMAIN o.retransmission :
             \/ \E m \in DOMAIN n.retransmission : n.retransmission[m] = o.retransmission[j]
             \/ o.retransmission[j].seq \in numbers[k]
    BY DEF Fewer
  <2>2. lost2 \/ numbers[k] \subseteq gs
    OBVIOUS
  <2>3. SubFine(o, w, v, gs, vs, c, lost)
    BY DEF ListFine
  <2> HIDE DEF n, o, gs, vs
  <2>4. /\ ItemsFine(o, v, vs) /\ OnTheWay(o, w) /\ Numbers(o, gs) /\ Followed(o, c)
        /\ lost \/ MaxRetransmission # 0 \/ Retrievable(o, gs, vs)
    BY <2>3 DEF SubFine
  <2>5. ItemsFine(n, v, vs) /\ Followed(n, c)
    BY <2>1, <2>4 DEF ItemsFine, Followed
  <2>6. OnTheWay(n, w)
    <3>1. \A m : Fits(m, o) => Fits(m, n)
      <4>1. SUFFICES ASSUME NEW m, Fits(m, o) PROVE Fits(m, n)
        OBVIOUS
      <4>2. \A i \in DOMAIN n.retransmission :
              n.retransmission[i].seq = m.seq => n.retransmission[i] = m
        BY <2>1, <4>1 DEF Fits
      <4> QED BY <2>1, <4>1, <4>2 DEF Fits
    <3> QED BY <2>1, <2>4, <3>1 DEF OnTheWay
  <2>7. Numbers(n, gs)
    <3>1. \A m \in DOMAIN n.retransmission :
            n.retransmission[m].sub = o.id /\ n.retransmission[m].seq \in 1 .. o.seq
      BY <2>1, <2>4 DEF Numbers
    <3> QED BY <2>1, <2>4, <3>1 DEF Numbers
  <2>8. ASSUME Retrievable(o, gs, vs), numbers[k] \subseteq gs PROVE Retrievable(n, gs, vs)
    <3>1. \A j \in DOMAIN o.retransmission : o.retransmission[j].seq \notin gs =>
            \E m \in DOMAIN n.retransmission : n.retransmission[m] = o.retransmission[j]
      BY <2>1, <2>8
    <3>2. AllThere(n, gs)
      <4>1. ASSUME NEW i \in 1 .. n.seq, i \notin gs
            PROVE  \E m \in DOMAIN n.retransmission : n.retransmission[m].seq = i
        <5>1. PICK j \in DOMAIN o.retransmission : o.retransmission[j].seq = i
          BY <2>1, <2>8, <4>1 DEF Retrievable, AllThere
        <5>2. PICK m \in DOMAIN n.retransmission : n.retransmission[m] = o.retransmission[j]
          BY <3>1, <4>1, <5>1
        <5> QED BY <5>1, <5>2
      <4> QED BY <4>1 DEF AllThere
    <3>3. ASSUME NEW item, Untold(o, gs, item) PROVE Untold(n, gs, item)
      <4>1. PICK j \in DOMAIN o.retransmission :
              /\ o.retransmission[j].seq \notin gs
              /\ \E p \in DOMAIN o.retransmission[j].note :
                   o.retransmission[j].note[p] = [item |-> item.id, value |-> item.last]
        BY <3>3 DEF Untold
      <4>2. PICK m \in DOMAIN n.retransmission : n.retransmission[m] = o.retransmission[j]
        BY <3>1, <4>1
      <4> QED BY <4>1, <4>2 DEF Untold
    <3> QED BY <2>1, <2>8, <3>2, <3>3 DEF Retrievable
  <2>9. SubFine(n, w, v, gs, vs, c, lost2)
    BY <2>2, <2>4, <2>5, <2>6, <2>7, <2>8 DEF SubFine
  <2> QED BY <2>9 DEF n, gs, vs
<1> QED BY <1>1, <1>2, <1>3 DEF ListFine

\* Service_Publish, up to the answers.
LEMMA ServedIs ==
  ASSUME SubscriptionAssumption, subs \in Seq(Subscriptions(lastSub)), queue \in Seq(PublishRequest),
         wire \in Seq(PublishResponse), NEW id \in 1 .. MaxRequest, NEW acks \in Acks
  PROVE  /\ Served(id, acks) \in PublishStates(lastSub)
         /\ \A c, lost, lost2 :
              /\ WireFine(wire, link, lastSub, got, seen)
              /\ ListFine(subs, wire, value, got, seen, c, lost)
              /\ lost => lost2
              /\ lost2 \/ ~Premature(acks)
              /\ seen \in [SubIds -> [ItemIds -> NoValue .. MaxValue]]
              => /\ WireFine(Served(id, acks).wire, link, lastSub, got, seen)
                 /\ ListFine(Served(id, acks).subs, Served(id, acks).wire, value, got, seen, c, lost2)
<1> DEFINE a == Acknowledged(acks)
           queued == [subs |-> a.subs, wire |-> wire, again |-> FALSE,
                      queue |-> Append(queue, [id |-> id, results |-> a.results])]
           late == LateOnes(a.subs)
           k == CHOOSE i \in late : \A j \in late : i <= j
           refusal == [request |-> id, good |-> FALSE, results |-> <<>>,
                       message |-> [sub |-> 0, seq |-> 0, note |-> <<>>], more |-> FALSE]
           refused == [Present EXCEPT !.wire = Append(@, refusal)]
           r == Served(id, acks)
<1>1. a \in AckStates(lastSub) /\ DealtWith(a, subs, acks, Len(acks))
  BY AcknowledgedIs
<1>2. a.subs \in Seq(Subscriptions(lastSub)) /\ a.results \in Results
  BY <1>1 DEF AckStates
<1>3. r = IF subs = <<>> THEN refused ELSE IF late = {} THEN queued ELSE Published(queued, k)
  BY Zenon DEF Served
<1>4. refusal \in PublishResponse
  <2>1. <<>> \in Results /\ <<>> \in Seq(Notification)
    BY DEF Results
  <2>2. [sub |-> 0, seq |-> 0, note |-> <<>>] \in Message
    <3>1. 0 \in 0 .. MaxSub
      BY Constants
    <3> QED BY <2>1, <3>1 DEF Message
  <2> QED BY <2>1, <2>2 DEF PublishResponse
<1>5. /\ refused \in PublishStates(lastSub) /\ refused.subs = subs
      /\ refused.wire = Append(wire, refusal)
  <2> DEFINE more == Append(wire, refusal)
  <2>1. more \in Seq(PublishResponse)
    <3> HIDE DEF refusal
    <3> QED BY <1>4, AppendProperties
  <2>2. Present \in PublishStates(lastSub) /\ Present.wire = wire /\ Present.subs = subs
    BY DEF Present, PublishStates
  <2>3. refused = [Present EXCEPT !.wire = more]
    BY Zenon, <2>2
  <2> HIDE DEF more, refused
  <2>4. /\ refused \in PublishStates(lastSub) /\ refused.subs = subs
        /\ refused.wire = more
    BY <2>1, <2>2, <2>3 DEF PublishStates
  <2> QED BY <2>4 DEF more
<1>6. queued \in PublishStates(lastSub)
  <2>1. [id |-> id, results |-> a.results] \in PublishRequest
    BY <1>2 DEF PublishRequest
  <2>2. Append(queue, [id |-> id, results |-> a.results]) \in Seq(PublishRequest)
    BY <2>1, AppendProperties
  <2> HIDE DEF a
  <2> QED BY <1>2, <2>2 DEF PublishStates
<1>7. late # {} => k \in DOMAIN queued.subs
  <2>1. late \subseteq DOMAIN a.subs /\ late \subseteq Nat
    <3>1. DOMAIN a.subs = 1 .. Len(a.subs)
      BY <1>2, ElementsOfSeq
    <3> QED BY <3>1 DEF LateOnes
  <2> HIDE DEF late
  <2>2. late # {} => \E i \in late : \A j \in late : i <= j
    BY <2>1, LeastOf
  <2>3. late # {} => k \in late
    BY <2>2
  <2> HIDE DEF k, a
  <2> QED BY <2>1, <2>3
<1> HIDE DEF k, late
<1>8. r \in PublishStates(lastSub)
  <2> HIDE DEF queued, refused, r
  <2> QED BY <1>3, <1>5, <1>6, <1>7, PublishedType
<1>9. ASSUME NEW c, NEW lost, NEW lost2,
             WireFine(wire, link, lastSub, got, seen),
             ListFine(subs, wire, value, got, seen, c, lost), lost => lost2,
             lost2 \/ ~Premature(acks),
             seen \in [SubIds -> [ItemIds -> NoValue .. MaxValue]]
      PROVE  /\ WireFine(r.wire, link, lastSub, got, seen)
             /\ ListFine(r.subs, r.wire, value, got, seen, c, lost2)
  <2>1. ListFine(a.subs, wire, value, got, seen, c, lost2)
    <3> DEFINE numbers == [i \in DOMAIN subs |-> Deleted(subs[i].id, acks, a.results, Len(acks))]
    <3>1. /\ DOMAIN a.subs = DOMAIN subs
          /\ \A i \in DOMAIN subs : Fewer(a.subs[i], subs[i], numbers[i])
      BY <1>1 DEF DealtWith
    <3>2. lost2 \/ \A i \in DOMAIN subs : numbers[i] \subseteq got[subs[i].id]
      <4>1. ASSUME ~Premature(acks), NEW i \in DOMAIN subs, NEW n \in numbers[i]
            PROVE  n \in got[subs[i].id]
        <5>1. PICK j \in 1 .. Len(acks) : /\ acks[j].sub = subs[i].id /\ a.results[j] = "good"
                                          /\ n = acks[j].seq
          BY <4>1 DEF Deleted
        <5>2. j \in DOMAIN acks
          BY ElementsOfSeq DEF Acks
        <5> QED BY <4>1, <5>1, <5>2 DEF Premature
      <4> QED BY <1>9, <4>1
    <3> HIDE DEF numbers, a
    <3> QED BY <1>9, <3>1, <3>2, FewerFine
  <2>2. CASE subs = <<>>
    <3>1. r = refused /\ DOMAIN subs = {}
      BY <1>3, <2>2
    <3>2. r.wire = Append(wire, refusal) /\ r.subs = subs
      <4> HIDE DEF refusal, r, refused
      <4> QED BY <1>5, <3>1
    <3>3. ~refusal.good
      OBVIOUS
    <3> HIDE DEF refusal, r
    <3>4. /\ \A j \in DOMAIN r.wire : j \in DOMAIN wire \/ r.wire[j] = refusal
          /\ \A j \in DOMAIN wire : r.wire[j] = wire[j]
      BY <1>4, <3>2, TellingType
    <3>5. WireFine(r.wire, link, lastSub, got, seen)
      BY <1>9, <3>3, <3>4 DEF WireFine, Tells
    <3>6. ListFine(r.subs, r.wire, value, got, seen, c, lost2)
      BY <3>1, <3>2 DEF ListFine, Unique
    <3> QED BY <3>5, <3>6
  <2>3. CASE subs # <<>> /\ late = {}
    <3>1. r.wire = wire /\ r.subs = a.subs
      <4>1. r = queued
        BY <1>3, <2>3
      <4> HIDE DEF r, a
      <4> QED BY <4>1
    <3> QED BY <1>9, <2>1, <3>1
  <2>4. CASE subs # <<>> /\ late # {}
    <3>1. queued.wire = wire /\ queued.subs = a.subs
      OBVIOUS
    <3>2. r = Published(queued, k) /\ k \in DOMAIN queued.subs
      BY <1>3, <1>7, <2>4
    <3> HIDE DEF queued, r, a
    <3> QED BY <1>6, <1>9, <2>1, <3>1, <3>2, PublishedFine
  <2> QED BY <2>2, <2>3, <2>4
<1> QED BY <1>8, <1>9

\* A client that knows no less.
LEMMA FollowedStill ==
  ASSUME NEW list, NEW w, NEW v, NEW g, NEW told, NEW c, NEW d, NEW lost,
         ListFine(list, w, v, g, told, c, lost),
         c.subs \subseteq d.subs, c.items \subseteq d.items
  PROVE  ListFine(list, w, v, g, told, d, lost)
<1>1. \A sub : Followed(sub, c) => Followed(sub, d)
  BY DEF Followed
<1> QED BY <1>1 DEF ListFine, SubFine

(***************************************************************************)
(* A message is received.                                                  *)
(***************************************************************************)

LEMMA SuffixIs ==
  ASSUME NEW w \in Seq(PublishResponse), NEW n \in DOMAIN w
  PROVE  /\ SubSeq(w, n + 1, Len(w)) \in Seq(PublishResponse)
         /\ \A j \in DOMAIN SubSeq(w, n + 1, Len(w)) :
              n + j \in DOMAIN w /\ n < n + j /\ SubSeq(w, n + 1, Len(w))[j] = w[n + j]
         /\ \A i, j \in DOMAIN SubSeq(w, n + 1, Len(w)) : i < j => n + i < n + j
<1> DEFINE r == SubSeq(w, n + 1, Len(w))
<1>1. DOMAIN w = 1 .. Len(w) /\ Len(w) \in Nat /\ n \in Nat
  BY ElementsOfSeq
<1>2. SubSeq(w, 1 + n, Len(w)) \in Seq(PublishResponse) /\ IsRest(SubSeq(w, 1 + n, Len(w)), w, n)
  BY <1>1, RestIs
<1>3. 1 + n = n + 1
  BY <1>1
<1>4. r \in Seq(PublishResponse) /\ IsRest(r, w, n)
  BY <1>2, <1>3
<1> HIDE DEF r
<1>5. DOMAIN r = 1 .. Len(r) /\ Len(r) \in Nat
  BY <1>4, ElementsOfSeq
<1>6. \A j \in DOMAIN r : n + j \in DOMAIN w /\ r[j] = w[n + j]
  BY <1>1, <1>4, <1>5 DEF IsRest
<1>7. \A j \in DOMAIN r : n < n + j
  BY <1>1, <1>5
<1>8. \A i, j \in DOMAIN r : i < j => n + i < n + j
  BY <1>1, <1>5
<1> QED BY <1>4, <1>6, <1>7, <1>8 DEF r

LEMMA SuffixFine ==
  ASSUME NEW w \in Seq(PublishResponse), NEW n \in DOMAIN w, NEW up, NEW last, NEW v, NEW g, NEW told,
         NEW list, NEW c, NEW lost
  PROVE  /\ WireFine(w, up, last, g, told) => WireFine(SubSeq(w, n + 1, Len(w)), up, last, g, told)
         /\ ListFine(list, w, v, g, told, c, lost) =>
              ListFine(list, SubSeq(w, n + 1, Len(w)), v, g, told, c, lost)
<1> DEFINE r == SubSeq(w, n + 1, Len(w))
<1>1. /\ \A j \in DOMAIN r : n + j \in DOMAIN w /\ n < n + j /\ r[j] = w[n + j]
      /\ \A i, j \in DOMAIN r : i < j => n + i < n + j
  BY SuffixIs
<1> HIDE DEF r
<1>2. ASSUME WireFine(w, up, last, g, told) PROVE WireFine(r, up, last, g, told)
  <2>1. \A j \in DOMAIN r : r[j].good => up = "up" /\ r[j].message.sub \in 1 .. last
    BY <1>1, <1>2 DEF WireFine
  <2>2. \A j \in DOMAIN r : Tells(r[j]) => NewsFine(r[j].message, g[r[j].message.sub], told[r[j].message.sub])
    BY <1>1, <1>2 DEF WireFine
  <2>3. ASSUME NEW i \in DOMAIN r, NEW j \in DOMAIN r, i < j, Tells(r[i]), Tells(r[j]),
               r[i].message.sub = r[j].message.sub
        PROVE  InTurn(r[i].message, r[j].message)
    BY <1>1, <1>2, <2>3 DEF WireFine
  <2> QED BY <2>1, <2>2, <2>3 DEF WireFine
<1>3. \A sub : OnTheWay(sub, w) => OnTheWay(sub, r)
  BY <1>1 DEF OnTheWay
<1>4. ListFine(list, w, v, g, told, c, lost) => ListFine(list, r, v, g, told, c, lost)
  BY <1>3 DEF ListFine, SubFine
<1> QED BY <1>2, <1>4 DEF r

\* What the handlers got after a message: the last value told of each item the client knows.
Heard(t, m, told, known) ==
  \A i \in ItemIds :
    \/ /\ t[i] = told[i]
       /\ (\A p \in DOMAIN m.note : m.note[p].item # i) \/ <<m.sub, i>> \notin known
    \/ \E p \in DOMAIN m.note :
         /\ m.note[p].item = i /\ t[i] = m.note[p].value
         /\ \A q \in DOMAIN m.note : m.note[q].item = i => q <= p

LEMMA HandledIs ==
  ASSUME SubscriptionAssumption, NEW m \in Message, m.sub \in SubIds,
         seen \in [SubIds -> [ItemIds -> NoValue .. MaxValue]]
  PROVE  /\ Handled(m) \in [ItemIds -> NoValue .. MaxValue]
         /\ Heard(Handled(m), m, seen[m.sub], client.items)
         /\ m.note = <<>> => Handled(m) = seen[m.sub]
<1> DEFINE told(i) == {k \in DOMAIN m.note : m.note[k].item = i}
           t(i) == IF told(i) = {} \/ <<m.sub, i>> \notin client.items THEN seen[m.sub][i]
                   ELSE m.note[Max(told(i))].value
<1>1. m.note \in Seq(Notification) /\ \A p \in DOMAIN m.note : m.note[p] \in Notification
  BY ElementsOfSeq DEF Message
<1>2. DOMAIN m.note = 1 .. Len(m.note) /\ Len(m.note) \in Nat
  BY <1>1, ElementsOfSeq
<1>3. Handled(m) = [i \in ItemIds |-> t(i)]
  BY Zenon DEF Handled
<1>4. seen[m.sub] \in [ItemIds -> NoValue .. MaxValue]
  OBVIOUS
<1>5. ASSUME NEW i \in ItemIds, told(i) # {}
      PROVE  Max(told(i)) \in told(i) /\ \A q \in told(i) : Max(told(i)) >= q
  <2>1. told(i) \subseteq 1 .. Len(m.note)
    BY <1>2
  <2> HIDE DEF told
  <2> QED BY <1>2, <1>5, <2>1, MaxOf
<1>6. ASSUME NEW i \in ItemIds, told(i) # {}, <<m.sub, i>> \in client.items
      PROVE  \E p \in DOMAIN m.note :
               /\ m.note[p].item = i /\ t(i) = m.note[p].value
               /\ \A q \in DOMAIN m.note : m.note[q].item = i => q <= p
  <2> DEFINE p == Max(told(i))
  <2>1. p \in told(i) /\ \A q \in told(i) : p >= q
    BY <1>5, <1>6
  <2>2. t(i) = m.note[p].value
    BY <1>6
  <2> HIDE DEF p, t
  <2>3. p \in DOMAIN m.note /\ m.note[p].item = i
    BY <2>1
  <2>4. \A q \in DOMAIN m.note : m.note[q].item = i => q <= p
    <3>1. TAKE q \in DOMAIN m.note
    <3>2. m.note[q].item = i => p >= q
      BY <2>1
    <3> QED BY <1>2, <2>3, <3>2
  <2> QED BY <2>2, <2>3, <2>4
<1>7. ASSUME NEW i \in ItemIds
      PROVE  t(i) \in NoValue .. MaxValue
  <2>1. CASE told(i) = {} \/ <<m.sub, i>> \notin client.items
    <3>1. t(i) = seen[m.sub][i]
      BY <2>1
    <3> HIDE DEF t
    <3> QED BY <1>4, <3>1
  <2>2. CASE told(i) # {} /\ <<m.sub, i>> \in client.items
    <3>1. PICK p \in DOMAIN m.note : t(i) = m.note[p].value
      BY <1>6, <2>2
    <3> HIDE DEF t
    <3>2. m.note[p].value \in 0 .. MaxValue
      BY <1>1 DEF Notification
    <3>3. MaxValue \in Nat
      BY Constants
    <3> QED BY <3>1, <3>2, <3>3 DEF NoValue
  <2> QED BY <2>1, <2>2
<1>8. ASSUME NEW i \in ItemIds, told(i) = {} \/ <<m.sub, i>> \notin client.items
      PROVE  /\ t(i) = seen[m.sub][i]
             /\ (\A p \in DOMAIN m.note : m.note[p].item # i) \/ <<m.sub, i>> \notin client.items
  BY <1>8
<1> HIDE DEF t
<1>9. Handled(m) \in [ItemIds -> NoValue .. MaxValue]
  BY <1>3, <1>7
<1>10. \A i \in ItemIds : Handled(m)[i] = t(i)
  BY <1>3
<1>11. Heard(Handled(m), m, seen[m.sub], client.items)
  <2> HIDE DEF told
  <2> QED BY <1>6, <1>8, <1>10 DEF Heard
<1>12. ASSUME m.note = <<>> PROVE Handled(m) = seen[m.sub]
  <2>1. \A i \in ItemIds : told(i) = {}
    BY <1>12
  <2> HIDE DEF told
  <2>2. \A i \in ItemIds : Handled(m)[i] = seen[m.sub][i]
    BY <1>8, <1>10, <2>1
  <2> QED BY <1>4, <1>9, <2>2
<1> QED BY <1>9, <1>11, <1>12

\* A subscription of which the client processes a message.
LEMMA ProcessedSub ==
  ASSUME SubscriptionAssumption, NEW last, NEW sub \in Subscriptions(last), NEW w, NEW n \in DOMAIN w,
         NEW m \in Message, Tells(w[n]), w[n].message = m, m.sub = sub.id,
         NEW v, NEW g, NEW c, NEW lost,
         NEW told \in [ItemIds -> NoValue .. MaxValue], NEW t \in [ItemIds -> NoValue .. MaxValue],
         NewsFine(m, g, told), Heard(t, m, told, c.items), SubFine(sub, w, v, g, told, c, lost)
  PROVE  SubFine(sub, w, v, g \cup {m.seq}, t, c, lost)
<1>1. /\ ItemsFine(sub, v, told) /\ OnTheWay(sub, w) /\ Numbers(sub, g) /\ Followed(sub, c)
      /\ lost \/ MaxRetransmission # 0 \/ Retrievable(sub, g, told)
  BY DEF SubFine
<1>2. Fits(m, sub)
  BY <1>1 DEF OnTheWay
<1>3. /\ sub.items \in Seq(Item) /\ sub.lastItem \in Nat
      /\ \A k \in DOMAIN sub.items : /\ sub.items[k].id \in ItemIds /\ sub.items[k].last \in Int
                                     /\ sub.items[k].id \in Nat
  <2>1. sub.items \in Seq(Item) /\ sub.lastItem \in Nat
    BY SubscriptionType
  <2> QED BY <2>1, ItemType, ItemValues
<1>4. /\ \A p \in DOMAIN m.note : m.note[p].item \in ItemIds /\ m.note[p].value \in Nat
      /\ DOMAIN m.note \subseteq Nat
  <2>1. m.note \in Seq(Notification)
    BY MessageType
  <2> QED BY <2>1, MessageType, ElementsOfSeq
<1>5. /\ \A i \in ItemIds : told[i] \in Int /\ t[i] \in Int
      /\ ItemIds \subseteq Nat
  <2>1. MaxValue \in Nat /\ ItemIds \subseteq Nat
    BY Constants
  <2>2. NoValue .. MaxValue \subseteq Int
    OBVIOUS
  <2> QED BY <2>1, <2>2
<1>6. ItemsFine(sub, v, t)
  <2>1. \A k \in DOMAIN sub.items : NotNewer(t[sub.items[k].id], sub.items[k])
    <3>1. TAKE k \in DOMAIN sub.items
    <3>2. NotNewer(told[sub.items[k].id], sub.items[k])
      BY <1>1 DEF ItemsFine
    <3>3. \A p \in DOMAIN m.note :
            m.note[p].item = sub.items[k].id => NotNewer(m.note[p].value, sub.items[k])
      BY <1>2 DEF Fits
    <3>4. \/ t[sub.items[k].id] = told[sub.items[k].id]
          \/ \E p \in DOMAIN m.note :
               m.note[p].item = sub.items[k].id /\ t[sub.items[k].id] = m.note[p].value
      <4>1. sub.items[k].id \in ItemIds
        BY <1>3
      <4>2. \A i \in ItemIds :
              t[i] = told[i] \/ \E p \in DOMAIN m.note : m.note[p].item = i /\ t[i] = m.note[p].value
        BY DEF Heard
      <4> QED BY <4>1, <4>2
    <3> QED BY <3>2, <3>3, <3>4
  <2>2. ASSUME NEW i \in ItemIds, i > sub.lastItem PROVE t[i] = NoValue
    <3>1. told[i] = NoValue
      BY <1>1, <2>2 DEF ItemsFine
    <3>2. \A p \in DOMAIN m.note : m.note[p].item # i
      BY <1>2, <1>3, <1>5, <2>2 DEF Fits
    <3> QED BY <3>1, <3>2 DEF Heard
  <2> QED BY <1>1, <2>1, <2>2 DEF ItemsFine
<1>7. Numbers(sub, g \cup {m.seq})
  BY <1>1, <1>2 DEF Numbers, Fits
<1>8. ASSUME Retrievable(sub, g, told) PROVE Retrievable(sub, g \cup {m.seq}, t)
  <2>1. AllThere(sub, g \cup {m.seq})
    BY <1>8 DEF Retrievable, AllThere
  <2>2. ASSUME NEW k \in DOMAIN sub.items
        PROVE  \/ sub.items[k].queue # <<>>
               \/ sub.items[k].last = t[sub.items[k].id]
               \/ Untold(sub, g \cup {m.seq}, sub.items[k])
    <3> DEFINE item == sub.items[k]
    <3>1. item.id \in ItemIds /\ item.last \in Int
      BY <1>3
    <3>2. \A p \in DOMAIN m.note : m.note[p].item = item.id => m.note[p].value <= item.last
      BY <1>2 DEF Fits, NotNewer
    <3>3. \A p \in DOMAIN m.note : m.note[p].item = item.id => told[item.id] <= m.note[p].value
      BY DEF NewsFine
    <3>4. <<m.sub, item.id>> \in c.items
      BY <1>1 DEF Followed
    <3>5. CASE item.last = told[item.id]
      <4>1. t[item.id] = told[item.id] \/ \E p \in DOMAIN m.note :
              m.note[p].item = item.id /\ t[item.id] = m.note[p].value
        BY <3>1 DEF Heard
      <4> HIDE DEF item
      <4>2. t[item.id] = item.last
        <5>1. \A p \in DOMAIN m.note : m.note[p].item = item.id => m.note[p].value = item.last
          BY <1>4, <3>1, <3>2, <3>3, <3>5
        <5> QED BY <3>5, <4>1, <5>1
      <4> QED BY <4>2 DEF item
    <3>6. CASE Untold(sub, g, item)
      <4>1. PICK q \in DOMAIN sub.retransmission :
              /\ sub.retransmission[q].seq \notin g
              /\ \E p \in DOMAIN sub.retransmission[q].note :
                   sub.retransmission[q].note[p] = [item |-> item.id, value |-> item.last]
        BY <3>6 DEF Untold
      <4>2. CASE sub.retransmission[q].seq # m.seq
        <5>1. sub.retransmission[q].seq \notin g \cup {m.seq}
          BY <4>1, <4>2
        <5>2. Untold(sub, g \cup {m.seq}, item)
          <6> HIDE DEF item
          <6> QED BY <4>1, <5>1 DEF Untold
        <5> QED BY <5>2
      <4>3. CASE sub.retransmission[q].seq = m.seq
        <5>1. sub.retransmission[q] = m
          BY <1>2, <4>3 DEF Fits
        <5>2. PICK p \in DOMAIN m.note : m.note[p] = [item |-> item.id, value |-> item.last]
          BY <4>1, <5>1
        <5>3. m.note[p].item = item.id /\ m.note[p].value = item.last
          <6> HIDE DEF item
          <6> QED BY <5>2
        <5>4. PICK r \in DOMAIN m.note :
                /\ m.note[r].item = item.id /\ t[item.id] = m.note[r].value
                /\ \A q2 \in DOMAIN m.note : m.note[q2].item = item.id => q2 <= r
          BY <3>1, <3>4, <5>3 DEF Heard
        <5> HIDE DEF item
        <5>5. p <= r
          BY <5>3, <5>4
        <5>6. m.note[p].value <= m.note[r].value
          BY <5>3, <5>4, <5>5 DEF NewsFine
        <5>7. m.note[r].value <= item.last
          BY <3>2, <5>4
        <5>8. m.note[r].value \in Nat
          BY <1>4
        <5>9. t[item.id] = item.last
          BY <3>1, <5>3, <5>4, <5>6, <5>7, <5>8
        <5> QED BY <5>9 DEF item
      <4> QED BY <4>2, <4>3
    <3> QED BY <1>8, <3>5, <3>6 DEF Retrievable
  <2> QED BY <2>1, <2>2 DEF Retrievable
<1> QED BY <1>1, <1>6, <1>7, <1>8 DEF SubFine

\* The messages after one that is processed.
LEMMA LaterNews ==
  ASSUME SubscriptionAssumption, NEW m \in Message, NEW b \in Message, InTurn(m, b),
         NEW g, NEW told, NEW t, NEW known,
         NewsFine(m, g, told), NewsFine(b, g, told), Heard(t, m, told, known)
  PROVE  NewsFine(b, g \cup {m.seq}, t)
<1>1. \A p \in DOMAIN b.note : b.note[p].item \in ItemIds
  BY MessageType
<1>2. \A n \in g \cup {m.seq} : n < b.seq
  BY DEF NewsFine, InTurn
<1>3. ASSUME NEW p \in DOMAIN b.note PROVE t[b.note[p].item] <= b.note[p].value
  <2>1. \/ t[b.note[p].item] = told[b.note[p].item]
        \/ \E q \in DOMAIN m.note : /\ m.note[q].item = b.note[p].item
                                    /\ t[b.note[p].item] = m.note[q].value
    BY <1>1 DEF Heard
  <2>2. told[b.note[p].item] <= b.note[p].value
    BY DEF NewsFine
  <2>3. \A q \in DOMAIN m.note : m.note[q].item = b.note[p].item => m.note[q].value <= b.note[p].value
    BY DEF InTurn
  <2> QED BY <2>1, <2>2, <2>3
<1> QED BY <1>2, <1>3 DEF NewsFine

LEMMA ProcessedWire ==
  ASSUME SubscriptionAssumption, NEW w \in Seq(PublishResponse), NEW n \in DOMAIN w, NEW up,
         NEW last, NEW g, NEW told, NEW t, NEW known, NEW id, NEW seq,
         id \in DOMAIN g, id \in DOMAIN told,
         Tells(w[n]), w[n].message.sub = id, w[n].message.seq = seq,
         WireFine(w, up, last, g, told), Heard(t, w[n].message, told[id], known)
  PROVE  WireFine(SubSeq(w, n + 1, Len(w)), up, last,
                  [g EXCEPT ![id] = @ \cup {seq}], [told EXCEPT ![id] = t])
<1> DEFINE r == SubSeq(w, n + 1, Len(w))
           h == [g EXCEPT ![id] = @ \cup {seq}]
           u == [told EXCEPT ![id] = t]
<1>1. \A j \in DOMAIN r : n + j \in DOMAIN w /\ n < n + j /\ r[j] = w[n + j]
  BY SuffixIs
<1>2. WireFine(r, up, last, g, told)
  BY SuffixFine
<1>3. \A j \in DOMAIN w : w[j].message \in Message
  BY TellingType
<1>4. \A i : i # id => h[i] = g[i] /\ u[i] = told[i]
  OBVIOUS
<1>5. h[id] = g[id] \cup {seq} /\ u[id] = t
  OBVIOUS
<1> HIDE DEF r, h, u
<1>6. ASSUME NEW j \in DOMAIN r, Tells(r[j])
      PROVE  NewsFine(r[j].message, h[r[j].message.sub], u[r[j].message.sub])
  <2>1. NewsFine(r[j].message, g[r[j].message.sub], told[r[j].message.sub])
    BY <1>2, <1>6 DEF WireFine
  <2>2. CASE r[j].message.sub # id
    BY <1>4, <2>1, <2>2
  <2>3. CASE r[j].message.sub = id
    <3>1. InTurn(w[n].message, r[j].message)
      BY <1>1, <1>6, <2>3 DEF WireFine
    <3>2. NewsFine(w[n].message, g[id], told[id])
      BY DEF WireFine
    <3>3. w[n].message \in Message /\ r[j].message \in Message
      BY <1>1, <1>3
    <3>4. NewsFine(r[j].message, g[id] \cup {w[n].message.seq}, t)
      BY <2>1, <2>3, <3>1, <3>2, <3>3, LaterNews
    <3> QED BY <1>5, <2>3, <3>4
  <2> QED BY <2>2, <2>3
<1>7. WireFine(r, up, last, h, u)
  BY <1>2, <1>6 DEF WireFine
<1> QED BY <1>7 DEF r, h, u

LEMMA ProcessedList ==
  ASSUME SubscriptionAssumption, NEW last, NEW list \in Seq(Subscriptions(last)),
         NEW w \in Seq(PublishResponse), NEW n \in DOMAIN w, NEW up, NEW v, NEW g, NEW c, NEW lost,
         NEW told \in [SubIds -> [ItemIds -> NoValue .. MaxValue]],
         NEW t \in [ItemIds -> NoValue .. MaxValue], NEW id, NEW seq,
         id \in DOMAIN g, id \in SubIds,
         Tells(w[n]), w[n].message.sub = id, w[n].message.seq = seq,
         Heard(t, w[n].message, told[id], c.items),
         WireFine(w, up, last, g, told), ListFine(list, w, v, g, told, c, lost)
  PROVE  ListFine(list, SubSeq(w, n + 1, Len(w)), v,
                  [g EXCEPT ![id] = @ \cup {seq}], [told EXCEPT ![id] = t], c, lost)
<1> DEFINE h == [g EXCEPT ![id] = @ \cup {seq}]
           u == [told EXCEPT ![id] = t]
           m == w[n].message
<1>1. m \in Message
  BY TellingType
<1>2. \A i : i # id => h[i] = g[i] /\ u[i] = told[i]
  OBVIOUS
<1>3. h[id] = g[id] \cup {m.seq} /\ u[id] = t /\ told[id] \in [ItemIds -> NoValue .. MaxValue]
  OBVIOUS
<1>4. NewsFine(m, g[id], told[id])
  BY DEF WireFine
<1> HIDE DEF h, u
<1>5. ASSUME NEW k \in DOMAIN list
      PROVE  SubFine(list[k], w, v, h[list[k].id], u[list[k].id], c, lost)
  <2>1. SubFine(list[k], w, v, g[list[k].id], told[list[k].id], c, lost)
    BY DEF ListFine
  <2>2. list[k] \in Subscriptions(last)
    BY ElementsOfSeq
  <2>3. CASE list[k].id # id
    BY <1>2, <2>1, <2>3
  <2>4. CASE list[k].id = id
    <3> DEFINE sub == list[k]
               known == told[id]
               numbers == g[id]
    <3>1. /\ sub \in Subscriptions(last) /\ m.sub = sub.id
          /\ SubFine(sub, w, v, numbers, known, c, lost)
      BY <2>1, <2>2, <2>4
    <3>2. /\ known \in [ItemIds -> NoValue .. MaxValue] /\ NewsFine(m, numbers, known)
          /\ Heard(t, m, known, c.items)
      BY <1>3, <1>4
    <3> HIDE DEF sub, known, numbers, m
    <3>3. Tells(w[n]) /\ w[n].message = m
      BY DEF m
    <3>4. SubFine(sub, w, v, numbers \cup {m.seq}, t, c, lost)
      BY <1>1, <3>1, <3>2, <3>3, ProcessedSub
    <3> QED BY <1>3, <2>4, <3>4 DEF sub, numbers
  <2> QED BY <2>3, <2>4
<1>6. ListFine(list, w, v, h, u, c, lost)
  BY <1>5 DEF ListFine
<1>7. ListFine(list, SubSeq(w, n + 1, Len(w)), v, h, u, c, lost)
  BY <1>6, SuffixFine
<1> QED BY <1>7 DEF h, u

(***************************************************************************)
(* A change of one subscription.                                           *)
(***************************************************************************)

LEMMA ReplacedFine ==
  ASSUME NEW last, NEW list \in Seq(Subscriptions(last)), NEW k \in DOMAIN list,
         NEW sub \in Subscriptions(last), sub.id = list[k].id,
         NEW w, NEW v, NEW g, NEW told, NEW c, NEW d, NEW lost,
         ListFine(list, w, v, g, told, c, lost),
         SubFine(sub, w, v, g[sub.id], told[sub.id], d, lost),
         \A i \in DOMAIN list : list[i].id # sub.id /\ Followed(list[i], c) => Followed(list[i], d)
  PROVE  ListFine([list EXCEPT ![k] = sub], w, v, g, told, d, lost)
<1> DEFINE new == [list EXCEPT ![k] = sub]
<1>1. DOMAIN new = DOMAIN list /\ new[k] = sub /\ \A i \in DOMAIN list : i # k => new[i] = list[i]
  BY InPlace
<1> HIDE DEF new
<1>2. \A i \in DOMAIN list : new[i].id = list[i].id
  BY <1>1
<1>3. Unique(new)
  BY <1>1, <1>2 DEF ListFine, Unique
<1>4. ASSUME NEW i \in DOMAIN list
      PROVE  SubFine(new[i], w, v, g[new[i].id], told[new[i].id], d, lost)
  <2>1. CASE i = k
    BY <1>1, <2>1
  <2>2. CASE i # k
    <3>1. new[i] = list[i] /\ list[i].id # sub.id
      BY <1>1, <2>2 DEF ListFine, Unique
    <3>2. SubFine(list[i], w, v, g[list[i].id], told[list[i].id], c, lost)
      BY DEF ListFine
    <3>3. Followed(list[i], d)
      BY <3>1, <3>2 DEF SubFine
    <3> QED BY <3>1, <3>2, <3>3 DEF SubFine
  <2> QED BY <2>1, <2>2
<1>5. ListFine(new, w, v, g, told, d, lost)
  BY <1>1, <1>3, <1>4 DEF ListFine
<1> QED BY <1>5 DEF new

\* An item that knows no less than another.
Later(new, old, v) ==
  /\ new.id = old.id
  /\ ItemFine(old, v) => ItemFine(new, v) /\ \A x \in Int : NotNewer(x, old) => NotNewer(x, new)
  /\ new.queue = <<>> => old.queue = <<>> /\ new.last = old.last

\* A subscription with one item in the place of another.
LEMMA ItemReplaced ==
  ASSUME SubscriptionAssumption, NEW last, NEW sub \in Subscriptions(last), NEW new, NEW k \in DOMAIN sub.items,
         new.id = sub.id, new.seq = sub.seq, new.lastItem = sub.lastItem,
         new.retransmission = sub.retransmission, DOMAIN new.items = DOMAIN sub.items,
         \A i \in DOMAIN sub.items : i # k => new.items[i] = sub.items[i],
         NEW w \in Seq(PublishResponse), NEW v, NEW g, NEW told \in [ItemIds -> NoValue .. MaxValue],
         NEW c, NEW lost,
         Later(new.items[k], sub.items[k], v), SubFine(sub, w, v, g, told, c, lost)
  PROVE  SubFine(new, w, v, g, told, c, lost)
<1>1. /\ ItemsFine(sub, v, told) /\ OnTheWay(sub, w) /\ Numbers(sub, g) /\ Followed(sub, c)
      /\ lost \/ MaxRetransmission # 0 \/ Retrievable(sub, g, told)
  BY DEF SubFine
<1>2. \A i \in DOMAIN sub.items : new.items[i].id = sub.items[i].id
  BY DEF Later
<1>3. \A i \in DOMAIN sub.items : sub.items[i].id \in ItemIds
  <2>1. sub.items \in Seq(Item)
    BY SubscriptionType
  <2> QED BY <2>1, ItemType
<1>4. \A i \in ItemIds : told[i] \in Int
  <2>1. MaxValue \in Nat
    BY Constants
  <2> QED BY <2>1 DEF NoValue
<1>5. /\ ItemFine(new.items[k], v)
      /\ \A x \in Int : NotNewer(x, sub.items[k]) => NotNewer(x, new.items[k])
  BY <1>1 DEF ItemsFine, Later
<1>6. /\ \A i \in DOMAIN sub.items : ItemFine(new.items[i], v)
      /\ \A x \in Int : \A i \in DOMAIN sub.items :
           NotNewer(x, sub.items[i]) => NotNewer(x, new.items[i])
  BY <1>1, <1>5 DEF ItemsFine
<1>7. ItemsFine(new, v, told)
  <2>1. Unique(new.items)
    BY <1>1, <1>2 DEF ItemsFine, Unique
  <2>2. ASSUME NEW i \in DOMAIN new.items
        PROVE  /\ new.items[i].id <= new.lastItem /\ ItemFine(new.items[i], v)
               /\ NotNewer(told[new.items[i].id], new.items[i])
    <3>1. /\ sub.items[i].id <= sub.lastItem /\ NotNewer(told[sub.items[i].id], sub.items[i])
      BY <1>1 DEF ItemsFine
    <3>2. told[sub.items[i].id] \in Int
      BY <1>3, <1>4
    <3> QED BY <1>2, <1>6, <3>1, <3>2
  <2>3. \A i \in ItemIds : i > new.lastItem => told[i] = NoValue
    BY <1>1 DEF ItemsFine
  <2> QED BY <2>1, <2>2, <2>3 DEF ItemsFine
<1>8. OnTheWay(new, w)
  <2>1. SUFFICES ASSUME NEW j \in DOMAIN w, Tells(w[j]) /\ w[j].message.sub = new.id
                 PROVE  Fits(w[j].message, new)
    BY DEF OnTheWay
  <2> DEFINE m == w[j].message
  <2>2. Fits(m, sub)
    BY <1>1, <2>1 DEF OnTheWay
  <2>3. m \in Message
    BY TellingType
  <2> HIDE DEF m
  <2>4. \A p \in DOMAIN m.note : m.note[p].value \in Int
    BY <2>3, MessageType
  <2>5. ASSUME NEW p \in DOMAIN m.note, NEW i \in DOMAIN sub.items, m.note[p].item = new.items[i].id
        PROVE  NotNewer(m.note[p].value, new.items[i])
    <3>1. NotNewer(m.note[p].value, sub.items[i])
      BY <1>2, <2>2, <2>5 DEF Fits
    <3> QED BY <1>6, <2>4, <3>1
  <2>6. Fits(m, new)
    BY <2>2, <2>5 DEF Fits
  <2> QED BY <2>6 DEF m
<1>9. Numbers(new, g) /\ Followed(new, c)
  BY <1>1, <1>2 DEF Numbers, Followed
<1>10. ASSUME Retrievable(sub, g, told) PROVE Retrievable(new, g, told)
  <2>1. AllThere(new, g)
    BY <1>10 DEF Retrievable, AllThere
  <2>2. ASSUME NEW i \in DOMAIN new.items
        PROVE  \/ new.items[i].queue # <<>>
               \/ new.items[i].last = told[new.items[i].id]
               \/ Untold(new, g, new.items[i])
    <3>1. CASE new.items[i].queue # <<>>
      BY <3>1
    <3>2. CASE new.items[i].queue = <<>>
      <4>1. sub.items[i].queue = <<>> /\ new.items[i].last = sub.items[i].last
        BY <3>2 DEF Later
      <4>2. Untold(sub, g, sub.items[i]) => Untold(new, g, new.items[i])
        BY <1>2, <4>1 DEF Untold
      <4> QED BY <1>2, <1>10, <4>1, <4>2 DEF Retrievable
    <3> QED BY <3>1, <3>2
  <2> QED BY <2>1, <2>2 DEF Retrievable
<1> QED BY <1>1, <1>7, <1>8, <1>9, <1>10 DEF SubFine

(***************************************************************************)
(* Sampling.                                                               *)
(***************************************************************************)

\* Elements of a queue that follow one another.
IsWindow(new, old) ==
  \E d \in Nat : /\ Len(new) + d <= Len(old)
                 /\ \A q \in 1 .. Len(new) : new[q] = old[q + d]

LEMMA RoomIs ==
  ASSUME NEW S, NEW full \in Seq(S), NEW size \in Nat, size > 0, NEW oldest
  PROVE  LET room == IF Len(full) < size THEN full ELSE IF oldest THEN Tail(full) ELSE Front(full)
         IN room \in Seq(S) /\ IsWindow(room, full)
<1>1. Len(full) \in Nat
  OBVIOUS
<1>2. IsWindow(full, full)
  <2>1. 0 \in Nat /\ Len(full) + 0 <= Len(full) /\ \A q \in 1 .. Len(full) : full[q] = full[q + 0]
    BY <1>1
  <2> QED BY <2>1 DEF IsWindow
<1>3. ASSUME ~(Len(full) < size)
      PROVE  /\ Tail(full) \in Seq(S) /\ IsWindow(Tail(full), full)
             /\ Front(full) \in Seq(S) /\ IsWindow(Front(full), full)
  <2>1. Len(full) > 0
    BY <1>1, <1>3
  <2>2. /\ Tail(full) \in Seq(S) /\ Len(Tail(full)) = Len(full) - 1
        /\ \A i \in 1 .. Len(Tail(full)) : Tail(full)[i] = full[i + 1]
    <3>1. full # <<>>
      BY <2>1
    <3> QED BY <3>1, HeadTailProperties
  <2>3. IsWindow(Tail(full), full)
    <3> DEFINE t == Tail(full)
    <3>1. Len(t) + 1 <= Len(full) /\ \A i \in 1 .. Len(t) : t[i] = full[i + 1]
      BY <1>1, <2>2
    <3> HIDE DEF t
    <3>2. IsWindow(t, full)
      BY <3>1 DEF IsWindow
    <3> QED BY <3>2 DEF t
  <2>4. /\ Front(full) \in Seq(S)
        /\ Len(Front(full)) = (IF 1 <= Len(full) - 1 THEN Len(full) - 1 - 1 + 1 ELSE 0)
        /\ \A k \in 1 .. Len(Front(full)) : Front(full)[k] = full[1 + k - 1]
    <3>1. 1 \in Nat \ {0} /\ Len(full) - 1 \in 0 .. Len(full)
      BY <1>1, <2>1
    <3> QED BY <3>1, PartOfSeq DEF Front
  <2>5. IsWindow(Front(full), full)
    <3> DEFINE t == Front(full)
    <3>1. Len(t) \in Nat /\ Len(t) = (IF 1 <= Len(full) - 1 THEN Len(full) - 1 - 1 + 1 ELSE 0)
      BY <2>4, ElementsOfSeq
    <3>2. \A k \in 1 .. Len(t) : t[k] = full[1 + k - 1]
      BY <2>4
    <3> HIDE DEF t
    <3>3. Len(t) + 0 <= Len(full)
      BY <1>1, <3>1
    <3>4. \A k \in 1 .. Len(t) : 1 + k - 1 = k + 0
      BY <3>1
    <3>5. IsWindow(t, full)
      BY <3>2, <3>3, <3>4 DEF IsWindow
    <3> QED BY <3>5 DEF t
  <2> QED BY <2>2, <2>3, <2>4, <2>5
<1> QED BY <1>2, <1>3

\* A queue with the newest value after some of its samples.
LEMMA QueuedIs ==
  ASSUME NEW v \in Nat, NEW old \in Seq(Nat), NEW room \in Seq(Nat), IsWindow(room, old),
         NEW last \in Int, last <= v, Ordered(old), old # <<>> => old[Len(old)] = last
  PROVE  /\ Ordered(Append(room, v)) /\ Append(room, v)[Len(Append(room, v))] = v
         /\ \A x \in Int : x <= last /\ (\A q \in DOMAIN old : x <= old[q]) =>
              \A q \in DOMAIN Append(room, v) : x <= Append(room, v)[q]
<1> DEFINE new == Append(room, v)
<1>1. /\ DOMAIN old = 1 .. Len(old) /\ Len(old) \in Nat /\ \A q \in 1 .. Len(old) : old[q] \in Nat
      /\ Len(room) \in Nat
  BY ElementsOfSeq
<1>2. /\ new \in Seq(Nat) /\ Len(new) = Len(room) + 1 /\ new[Len(room) + 1] = v
      /\ \A q \in 1 .. Len(room) : new[q] = room[q]
  BY AppendProperties
<1>3. DOMAIN new = 1 .. Len(room) + 1
  BY <1>2, ElementsOfSeq
<1> HIDE DEF new
<1>4. PICK d \in Nat : Len(room) + d <= Len(old) /\ \A q \in 1 .. Len(room) : room[q] = old[q + d]
  BY DEF IsWindow
<1>5. \A q \in 1 .. Len(room) : q + d \in 1 .. Len(old) /\ new[q] = old[q + d]
  <2>1. TAKE q \in 1 .. Len(room)
  <2>2. q + d \in 1 .. Len(old)
    BY <1>1, <1>4
  <2>3. new[q] = room[q] /\ room[q] = old[q + d]
    BY <1>2, <1>4
  <2> QED BY <2>2, <2>3
<1>6. \A q \in 1 .. Len(old) : old[q] <= v
  <2>1. TAKE q \in 1 .. Len(old)
  <2>2. old # <<>> /\ Len(old) \in 1 .. Len(old) /\ q <= Len(old)
    BY <1>1
  <2>3. old[q] <= old[Len(old)] /\ old[Len(old)] = last
    BY <1>1, <2>2 DEF Ordered
  <2> QED BY <1>1, <2>3
<1>7. Ordered(new)
  <2>1. SUFFICES ASSUME NEW a \in 1 .. Len(room) + 1, NEW b \in 1 .. Len(room) + 1, a <= b
                 PROVE  new[a] <= new[b]
    BY <1>3 DEF Ordered
  <2>2. CASE b = Len(room) + 1
    <3>1. CASE a = Len(room) + 1
      BY <1>2, <2>2, <3>1
    <3>2. CASE a # Len(room) + 1
      <4>1. a \in 1 .. Len(room)
        BY <1>1, <3>2
      <4> QED BY <1>2, <1>5, <1>6, <2>2, <4>1
    <3> QED BY <3>1, <3>2
  <2>3. CASE b # Len(room) + 1
    <3>1. a \in 1 .. Len(room) /\ b \in 1 .. Len(room) /\ a + d <= b + d
      BY <1>1, <2>1, <2>3
    <3>2. old[a + d] <= old[b + d]
      BY <1>1, <1>5, <3>1 DEF Ordered
    <3> QED BY <1>5, <3>1, <3>2
  <2> QED BY <2>2, <2>3
<1>8. ASSUME NEW x \in Int, x <= last, \A q \in DOMAIN old : x <= old[q], NEW q \in 1 .. Len(room) + 1
      PROVE  x <= new[q]
  <2>1. CASE q = Len(room) + 1
    BY <1>2, <1>8, <2>1
  <2>2. CASE q # Len(room) + 1
    <3>1. q \in 1 .. Len(room)
      BY <1>1, <2>2
    <3> QED BY <1>1, <1>5, <1>8, <3>1
  <2> QED BY <2>1, <2>2
<1> QED BY <1>2, <1>3, <1>7, <1>8 DEF new

LEMMA SampledIs ==
  ASSUME SubscriptionAssumption, value \in 0 .. MaxValue, NEW item \in Item
  PROVE  /\ Sampled(item) \in Item /\ Later(Sampled(item), item, value)
         /\ item.last = NoValue => Sampled(item).queue # <<>>
<1> DEFINE room == IF Len(item.queue) < item.size THEN item.queue
                   ELSE IF item.oldest THEN Tail(item.queue) ELSE Front(item.queue)
           queued == Append(room, value)
           new == [item EXCEPT !.last = value, !.queue = queued]
<1>1. /\ item.size \in Nat /\ item.size > 0 /\ MaxValue \in Nat /\ value \in Nat
      /\ item.last \in Int /\ item.queue \in Seq(0 .. MaxValue)
  <2>1. /\ item.size \in QueueSizeLimits.min .. QueueSizeLimits.max
        /\ item.last \in NoValue .. MaxValue /\ item.queue \in Seq(0 .. MaxValue)
    BY DEF Item
  <2>2. /\ QueueSizeLimits.min \in Nat /\ QueueSizeLimits.min > 0 /\ QueueSizeLimits.max \in Nat
        /\ MaxValue \in Nat
    BY Constants
  <2> QED BY <2>1, <2>2
<1>2. Sampled(item) = IF value = item.last THEN item ELSE new
  BY Zenon DEF Sampled
<1>3. room \in Seq(0 .. MaxValue) /\ IsWindow(room, item.queue)
  BY <1>1, RoomIs
<1> HIDE DEF room
<1>4. queued \in Seq(0 .. MaxValue) /\ queued # <<>>
  <2>1. queued \in Seq(0 .. MaxValue) /\ Len(queued) = Len(room) + 1
    BY <1>3, AppendProperties
  <2>2. Len(room) \in Nat
    BY <1>3
  <2> HIDE DEF queued
  <2>3. queued # <<>>
    BY <2>1, <2>2
  <2> QED BY <2>1, <2>3
<1>5. item.queue \in Seq(Nat) /\ room \in Seq(Nat)
  <2>1. 0 .. MaxValue \subseteq Nat
    OBVIOUS
  <2> QED BY <1>1, <1>3, <2>1, SeqMonotonic
<1>6. ASSUME ItemFine(item, value)
      PROVE  /\ Ordered(queued) /\ queued[Len(queued)] = value
             /\ \A x \in Int : x <= item.last /\ (\A q \in DOMAIN item.queue : x <= item.queue[q]) =>
                  \A q \in DOMAIN queued : x <= queued[q]
             /\ item.last <= value
  BY <1>1, <1>3, <1>5, <1>6, QueuedIs DEF ItemFine
<1> HIDE DEF queued
<1>7. /\ new \in Item /\ new.id = item.id /\ new.last = value /\ new.queue = queued
  <2>1. value \in NoValue .. MaxValue
    BY <1>1 DEF NoValue
  <2> QED BY <1>4, <2>1 DEF Item
<1> HIDE DEF new
<1>8. Later(new, item, value)
  <2>1. ASSUME ItemFine(item, value) PROVE ItemFine(new, value)
    BY <1>1, <1>6, <1>7, <2>1 DEF ItemFine
  <2>2. ASSUME ItemFine(item, value), NEW x \in Int, NotNewer(x, item) PROVE NotNewer(x, new)
    <3>1. x <= item.last /\ \A q \in DOMAIN item.queue : x <= item.queue[q]
      BY <2>2 DEF NotNewer
    <3>2. \A q \in DOMAIN queued : x <= queued[q]
      BY <1>6, <2>2, <3>1
    <3>3. x <= value
      BY <1>1, <1>6, <2>2, <3>1
    <3> QED BY <1>7, <3>2, <3>3 DEF NotNewer
  <2> QED BY <1>4, <1>7, <2>1, <2>2 DEF Later
<1>9. Later(item, item, value)
  BY DEF Later
<1>10. item.last = NoValue => Sampled(item).queue # <<>>
  BY <1>1, <1>2, <1>4, <1>7 DEF NoValue
<1> QED BY <1>2, <1>7, <1>8, <1>9, <1>10

(***************************************************************************)
(* The actions that change one subscription.                               *)
(***************************************************************************)

LEMMA Typed ==
  ASSUME SubscriptionAssumption, TypeOK
  PROVE  /\ subs \in Seq(Subscriptions(lastSub)) /\ value \in 0 .. MaxValue /\ value \in Nat
         /\ lastSub \in Nat /\ lastSub <= MaxSub
         /\ queue \in Seq(PublishRequest) /\ wire \in Seq(PublishResponse) /\ client \in Client
         /\ got \in [SubIds -> SUBSET Nat] /\ seen \in [SubIds -> [ItemIds -> NoValue .. MaxValue]]
<1>1. subs \in Seq(Subscriptions(lastSub))
  BY TypedList DEF TypeOK
<1>2. MaxValue \in Nat /\ MaxSub \in Nat
  BY Constants
<1>3. value \in 0 .. MaxValue /\ lastSub \in 0 .. MaxSub
  BY DEF TypeOK
<1>4. value \in Nat /\ lastSub \in Nat /\ lastSub <= MaxSub
  BY <1>2, <1>3
<1> QED BY <1>1, <1>3, <1>4 DEF TypeOK

\* A step that changes the subscriptions and what the client notes of them.
LEMMA SubsChanged ==
  ASSUME SubscriptionAssumption, Inv, subs' \in Seq(Subscriptions(lastSub)), client' \in Client,
         UNCHANGED <<value, lastSub, queue, wire, link, history>>, delayed' \in BOOLEAN,
         link # "none", ListFine(subs', wire, value, got, seen, client', early)
  PROVE  Inv'
<1>1. /\ value' = value /\ lastSub' = lastSub /\ queue' = queue /\ wire' = wire /\ link' = link
      /\ got' = got /\ seen' = seen /\ early' = early
  BY DEF history
<1>2. /\ subs' \in Seq(ServerSubscription)
      /\ \A k \in DOMAIN subs' : /\ subs'[k].id <= lastSub /\ subs'[k].life <= subs'[k].lifeTime
                                 /\ subs'[k].lastItem <= MaxItem[subs'[k].id]
  BY TypedList
<1>3. TypeOK'
  BY <1>1, <1>2 DEF Inv, TypeOK
<1> QED BY <1>1, <1>3 DEF Inv

LEMMA FoundAt ==
  ASSUME subs \in Seq(Subscriptions(lastSub)), NEW id, Exists(id)
  PROVE  /\ At(id) \in DOMAIN subs /\ Sub(id) = subs[At(id)] /\ Sub(id).id = id
         /\ Sub(id) \in Subscriptions(lastSub) /\ subs # <<>>
<1>1. At(id) \in Positions(id)
  BY DEF At, Exists
<1>2. At(id) \in DOMAIN subs /\ Sub(id) = subs[At(id)] /\ Sub(id).id = id
  BY <1>1 DEF Positions, Sub
<1> QED BY <1>2, ElementsOfSeq

LEMMA OneReplaced ==
  ASSUME SubscriptionAssumption, Inv, NEW id, Exists(id), NEW sub \in Subscriptions(lastSub), sub.id = id,
         client' \in Client, SubFine(sub, wire, value, got[id], seen[id], client', early),
         \A i \in DOMAIN subs : subs[i].id # id /\ Followed(subs[i], client) => Followed(subs[i], client'),
         subs' = [subs EXCEPT ![At(id)] = sub],
         UNCHANGED <<value, lastSub, queue, delayed, wire, link, history>>
  PROVE  Inv'
<1>1. /\ TypeOK /\ (link = "none" => subs = <<>>)
      /\ ListFine(subs, wire, value, got, seen, client, early)
  BY DEF Inv
<1>2. subs \in Seq(Subscriptions(lastSub)) /\ delayed \in BOOLEAN
  BY <1>1, Typed DEF TypeOK
<1>3. /\ At(id) \in DOMAIN subs /\ subs[At(id)].id = id /\ subs # <<>>
  BY <1>2, FoundAt
<1>4. [subs EXCEPT ![At(id)] = sub] \in Seq(Subscriptions(lastSub))
  BY <1>2, <1>3, InPlace
<1>5. ListFine([subs EXCEPT ![At(id)] = sub], wire, value, got, seen, client', early)
  BY <1>1, <1>2, <1>3, ReplacedFine
<1> QED BY <1>1, <1>2, <1>3, <1>4, <1>5, SubsChanged

\* The subscription is changed, and the client notes nothing.
LEMMA OneChanged ==
  ASSUME SubscriptionAssumption, Inv, NEW id, Exists(id), NEW sub \in Subscriptions(lastSub), sub.id = id,
         SubFine(sub, wire, value, got[id], seen[id], client, early),
         subs' = [subs EXCEPT ![At(id)] = sub],
         UNCHANGED <<value, lastSub, queue, delayed, wire, link, client, history>>
  PROVE  Inv'
<1>1. client' = client /\ client \in Client
  BY DEF Inv, TypeOK
<1>2. /\ SubFine(sub, wire, value, got[id], seen[id], client', early) /\ client' \in Client
      /\ \A i \in DOMAIN subs : Followed(subs[i], client) => Followed(subs[i], client')
  BY <1>1
<1> QED BY <1>2, OneReplaced

LEMMA SubIsFine ==
  ASSUME SubscriptionAssumption, Inv, NEW id, Exists(id)
  PROVE  /\ SubFine(Sub(id), wire, value, got[id], seen[id], client, early)
         /\ id \in SubIds /\ Sub(id) \in Subscriptions(lastSub)
         /\ seen[id] \in [ItemIds -> NoValue .. MaxValue]
<1>1. TypeOK /\ ListFine(subs, wire, value, got, seen, client, early)
  BY DEF Inv
<1>2. /\ subs \in Seq(Subscriptions(lastSub))
      /\ seen \in [SubIds -> [ItemIds -> NoValue .. MaxValue]]
  BY <1>1, Typed
<1>3. /\ At(id) \in DOMAIN subs /\ Sub(id) = subs[At(id)] /\ Sub(id).id = id
      /\ Sub(id) \in Subscriptions(lastSub)
  BY <1>2, FoundAt
<1>4. id \in SubIds
  BY <1>3, SubscriptionType
<1> QED BY <1>1, <1>2, <1>3, <1>4 DEF ListFine

LEMMA TouchedIs ==
  ASSUME SubscriptionAssumption, NEW last, NEW sub \in ServerSubscription,
         sub.id <= last, sub.lastItem <= MaxItem[sub.id]
  PROVE  [sub EXCEPT !.life = 0] \in Subscriptions(last) /\ Alike([sub EXCEPT !.life = 0], sub)
<1> DEFINE new == [sub EXCEPT !.life = 0]
<1>1. /\ new \in ServerSubscription /\ Alike(new, sub) /\ new.life = 0 /\ new.lifeTime = sub.lifeTime
  BY SetCounters
<1>2. sub.lifeTime \in Nat
  BY DEF ServerSubscription
<1> HIDE DEF new
<1>3. new.life <= new.lifeTime /\ new.id <= last /\ new.lastItem <= MaxItem[new.id]
  BY <1>1, <1>2 DEF Alike
<1> QED BY <1>1, <1>3 DEF Subscriptions, new

\* A service that leaves what is sent alone.
LEMMA TouchedKeeps ==
  ASSUME SubscriptionAssumption, Inv, NEW id, Exists(id), NEW sub \in ServerSubscription,
         Alike(sub, Sub(id)), subs' = Touched(id, sub),
         UNCHANGED <<value, lastSub, queue, delayed, wire, link, client, history>>
  PROVE  Inv'
<1> DEFINE new == [sub EXCEPT !.life = 0]
<1>1. /\ SubFine(Sub(id), wire, value, got[id], seen[id], client, early)
      /\ Sub(id) \in Subscriptions(lastSub)
  BY SubIsFine
<1>2. Sub(id).id = id
  BY FoundAt, Typed DEF Inv
<1>3. Sub(id).id <= lastSub /\ Sub(id).lastItem <= MaxItem[Sub(id).id]
  BY <1>1, SubscriptionType
<1>4. new \in Subscriptions(lastSub) /\ Alike(new, sub)
  BY <1>3, TouchedIs DEF Alike
<1>5. subs' = [subs EXCEPT ![At(id)] = new]
  BY DEF Touched
<1> HIDE DEF new
<1>6. Alike(new, Sub(id)) /\ new.id = id
  BY <1>2, <1>4 DEF Alike
<1>7. SubFine(new, wire, value, got[id], seen[id], client, early)
  BY <1>1, <1>6, AlikeFine
<1> QED BY <1>4, <1>5, <1>6, <1>7, OneChanged

LEMMA ModifySubscriptionKeeps ==
  ASSUME SubscriptionAssumption, Inv, NEW id, NEW s \in Settings, ModifySubscription(id, s)
  PROVE  Inv'
<1>1. /\ Exists(id) /\ subs' = Touched(id, Revised(Sub(id), s))
      /\ UNCHANGED <<value, lastSub, queue, delayed, wire, link, client, history>>
  BY DEF ModifySubscription
<1>2. Sub(id) \in Subscriptions(lastSub)
  BY <1>1, SubIsFine
<1>3. Sub(id) \in ServerSubscription
  BY <1>2 DEF Subscriptions
<1>4. Sub(id) \in [id : SubIds, enabled : BOOLEAN, maxKeepAlive : Nat, lifeTime : Nat,
                   perPublish : Nat, keepAlive : 0 .. KeepAliveLimits.max, life : Nat, seq : Nat,
                   late : BOOLEAN, lastItem : Nat, items : Seq(Item), retransmission : Seq(Message)]
  <2>1. /\ KeepAliveLimits.min .. KeepAliveLimits.max \subseteq Nat
        /\ 1 .. MaxPerPublish \subseteq Nat
    <3>1. KeepAliveLimits.min \in Nat /\ KeepAliveLimits.max \in Nat /\ MaxPerPublish \in Nat
      BY Constants
    <3> QED BY <3>1
  <2> QED BY <1>3, <2>1 DEF ServerSubscription
<1>5. Revised(Sub(id), s) \in ServerSubscription /\ Alike(Revised(Sub(id), s), Sub(id))
  BY <1>4, RevisedIs
<1> QED BY <1>1, <1>5, TouchedKeeps

LEMMA SetPublishingModeKeeps ==
  ASSUME SubscriptionAssumption, Inv, NEW id, NEW on \in Modes, SetPublishingMode(id, on)
  PROVE  Inv'
<1>1. /\ Exists(id) /\ subs' = Touched(id, [Sub(id) EXCEPT !.enabled = on])
      /\ UNCHANGED <<value, lastSub, queue, delayed, wire, link, client, history>>
  BY DEF SetPublishingMode
<1>2. Sub(id) \in ServerSubscription
  BY <1>1, SubIsFine DEF Subscriptions
<1>3. on \in BOOLEAN
  BY Zenon, Constants
<1>4. /\ [Sub(id) EXCEPT !.enabled = on] \in ServerSubscription
      /\ Alike([Sub(id) EXCEPT !.enabled = on], Sub(id))
  BY <1>2, <1>3, SetCounters
<1> QED BY <1>1, <1>4, TouchedKeeps

LEMMA RepublishKeeps ==
  ASSUME SubscriptionAssumption, Inv, NEW id, Republish(id)
  PROVE  Inv'
<1>1. /\ Exists(id) /\ subs' = Touched(id, Sub(id))
      /\ UNCHANGED <<value, lastSub, queue, delayed, wire, link, client, history>>
  BY DEF Republish
<1>2. Sub(id) \in ServerSubscription /\ Alike(Sub(id), Sub(id))
  BY <1>1, SubIsFine DEF Subscriptions, Alike
<1> QED BY <1>1, <1>2, TouchedKeeps

(***************************************************************************)
(* The actions that change an item.                                        *)
(***************************************************************************)

LEMMA ItemFound ==
  ASSUME SubscriptionAssumption, Inv, NEW id, Exists(id), NEW i, HasItem(Sub(id), i)
  PROVE  /\ ItemAt(Sub(id), i) \in DOMAIN Sub(id).items
         /\ ItemOf(id, i) = Sub(id).items[ItemAt(Sub(id), i)]
         /\ ItemOf(id, i) \in Item /\ ItemOf(id, i).id = i
<1>1. /\ ItemAt(Sub(id), i) \in DOMAIN Sub(id).items
      /\ Sub(id).items[ItemAt(Sub(id), i)].id = i
  BY DEF HasItem, ItemAt
<1>2. Sub(id).items \in Seq(Item)
  BY SubIsFine, SubscriptionType
<1>3. Sub(id).items[ItemAt(Sub(id), i)] \in Item
  BY <1>1, <1>2, ElementsOfSeq
<1> QED BY <1>1, <1>3 DEF ItemOf

LEMMA WithItemIs ==
  ASSUME SubscriptionAssumption, Inv, NEW id, Exists(id), NEW i, HasItem(Sub(id), i),
         NEW item \in Item, item.id = i, Later(item, ItemOf(id, i), value)
  PROVE  /\ WithItem(id, item) \in Subscriptions(lastSub) /\ WithItem(id, item).id = id
         /\ SubFine(WithItem(id, item), wire, value, got[id], seen[id], client, early)
<1> DEFINE sub == Sub(id)
           k == ItemAt(sub, i)
           items == [sub.items EXCEPT ![k] = item]
           new == [sub EXCEPT !.items = items]
<1>1. /\ SubFine(sub, wire, value, got[id], seen[id], client, early)
      /\ sub \in Subscriptions(lastSub) /\ seen[id] \in [ItemIds -> NoValue .. MaxValue]
  BY SubIsFine
<1>2. k \in DOMAIN sub.items /\ ItemOf(id, i) = sub.items[k]
  BY ItemFound
<1>3. WithItem(id, item) = new
  BY Zenon DEF WithItem
<1>4. sub \in ServerSubscription /\ sub.items \in Seq(Item) /\ sub.id = id
  BY <1>1, SubscriptionType, FoundAt, Typed DEF Inv
<1> HIDE DEF sub, k
<1>5. /\ items \in Seq(Item) /\ DOMAIN items = DOMAIN sub.items
      /\ items[k] = item /\ \A j \in DOMAIN sub.items : j # k => items[j] = sub.items[j]
  <2>1. k \in 1 .. Len(sub.items)
    BY <1>2, <1>4, ElementsOfSeq
  <2> QED BY <1>2, <1>4, <2>1, ExceptSeq
<1> HIDE DEF items
<1>6. /\ new \in ServerSubscription /\ new.items = items /\ new.id = sub.id /\ new.seq = sub.seq
      /\ new.lastItem = sub.lastItem /\ new.retransmission = sub.retransmission
      /\ new.life = sub.life /\ new.lifeTime = sub.lifeTime
  BY <1>4, <1>5 DEF ServerSubscription
<1> HIDE DEF new
<1>7. new \in Subscriptions(lastSub)
  BY <1>1, <1>6 DEF Subscriptions
<1>8. wire \in Seq(PublishResponse)
  BY Typed DEF Inv
<1>9. Later(new.items[k], sub.items[k], value)
  BY <1>2, <1>5, <1>6
<1>10. SubFine(new, wire, value, got[id], seen[id], client, early)
  BY <1>1, <1>2, <1>5, <1>6, <1>8, <1>9, ItemReplaced
<1> QED BY <1>3, <1>4, <1>6, <1>7, <1>10

LEMMA SampleKeeps ==
  ASSUME SubscriptionAssumption, Inv, NEW id, NEW i, Sample(id, i)
  PROVE  Inv'
<1> DEFINE item == Sampled(ItemOf(id, i))
           sub == WithItem(id, item)
<1>1. /\ Exists(id) /\ HasItem(Sub(id), i) /\ subs' = [subs EXCEPT ![At(id)] = sub]
      /\ UNCHANGED <<value, lastSub, queue, delayed, wire, link, client, history>>
  BY DEF Sample
<1>2. ItemOf(id, i) \in Item /\ ItemOf(id, i).id = i /\ value \in 0 .. MaxValue
  BY <1>1, ItemFound, Typed DEF Inv
<1>3. item \in Item /\ Later(item, ItemOf(id, i), value)
  BY <1>2, SampledIs
<1>4. item.id = i
  BY <1>2, <1>3 DEF Later
<1> HIDE DEF item
<1>5. /\ sub \in Subscriptions(lastSub) /\ sub.id = id
      /\ SubFine(sub, wire, value, got[id], seen[id], client, early)
  BY <1>1, <1>3, <1>4, WithItemIs
<1> HIDE DEF sub
<1> QED BY <1>1, <1>5, OneChanged

LEMMA SetMonitoringModeKeeps ==
  ASSUME SubscriptionAssumption, Inv, NEW id, NEW i, NEW reporting \in Modes,
         SetMonitoringMode(id, i, reporting)
  PROVE  Inv'
<1> DEFINE item == [ItemOf(id, i) EXCEPT !.reporting = reporting]
           sub == WithItem(id, item)
<1>1. /\ Exists(id) /\ HasItem(Sub(id), i) /\ subs' = [subs EXCEPT ![At(id)] = sub]
      /\ UNCHANGED <<value, lastSub, queue, delayed, wire, link, client, history>>
  BY DEF SetMonitoringMode
<1>2. ItemOf(id, i) \in Item /\ ItemOf(id, i).id = i
  BY <1>1, ItemFound
<1>3. reporting \in BOOLEAN
  BY Zenon, Constants
<1>4. /\ item \in Item /\ item.id = ItemOf(id, i).id /\ item.last = ItemOf(id, i).last
      /\ item.queue = ItemOf(id, i).queue
  BY <1>2, <1>3 DEF Item
<1> HIDE DEF item
<1>5. Later(item, ItemOf(id, i), value)
  BY <1>4 DEF Later, ItemFine, NotNewer
<1>6. /\ sub \in Subscriptions(lastSub) /\ sub.id = id
      /\ SubFine(sub, wire, value, got[id], seen[id], client, early)
  BY <1>1, <1>2, <1>4, <1>5, WithItemIs
<1> HIDE DEF sub
<1> QED BY <1>1, <1>6, OneChanged

LEMMA ModifyItemKeeps ==
  ASSUME SubscriptionAssumption, Inv, NEW id, NEW i, NEW s \in ItemSettings, ModifyItem(id, i, s)
  PROVE  Inv'
<1> DEFINE size == Bounded(s.size, QueueSizeLimits)
           item == [ItemOf(id, i) EXCEPT !.size = size, !.oldest = s.oldest]
           sub == WithItem(id, item)
           new == [sub EXCEPT !.life = 0]
<1>1. /\ Exists(id) /\ HasItem(Sub(id), i) /\ subs' = Touched(id, sub)
      /\ UNCHANGED <<value, lastSub, queue, delayed, wire, link, client, history>>
  BY DEF ModifyItem
<1>2. ItemOf(id, i) \in Item /\ ItemOf(id, i).id = i
  BY <1>1, ItemFound
<1>3. size \in QueueSizeLimits.min .. QueueSizeLimits.max /\ s.oldest \in BOOLEAN
  BY Constants, BoundedIs
<1> HIDE DEF size
<1>4. /\ item \in Item /\ item.id = ItemOf(id, i).id /\ item.last = ItemOf(id, i).last
      /\ item.queue = ItemOf(id, i).queue
  BY <1>2, <1>3 DEF Item
<1> HIDE DEF item
<1>5. Later(item, ItemOf(id, i), value)
  BY <1>4 DEF Later, ItemFine, NotNewer
<1>6. /\ sub \in Subscriptions(lastSub) /\ sub.id = id
      /\ SubFine(sub, wire, value, got[id], seen[id], client, early)
  BY <1>1, <1>2, <1>4, <1>5, WithItemIs
<1>7. subs' = [subs EXCEPT ![At(id)] = new]
  BY <1>1 DEF Touched
<1> HIDE DEF sub
<1>8. new \in Subscriptions(lastSub) /\ Alike(new, sub)
  <2>1. sub \in ServerSubscription /\ sub.id <= lastSub /\ sub.lastItem <= MaxItem[sub.id]
    BY <1>6 DEF Subscriptions
  <2> QED BY <2>1, TouchedIs
<1> HIDE DEF new
<1>9. new.id = id /\ SubFine(new, wire, value, got[id], seen[id], client, early)
  BY <1>6, <1>8, AlikeFine DEF Alike
<1> QED BY <1>1, <1>7, <1>8, <1>9, OneChanged

LEMMA ConsIs ==
  ASSUME NEW S, NEW e \in S, NEW list \in Seq(S)
  PROVE  /\ <<e>> \o list \in Seq(S) /\ DOMAIN (<<e>> \o list) = 1 .. Len(list) + 1
         /\ DOMAIN list = 1 .. Len(list) /\ Len(list) \in Nat
         /\ 1 \in DOMAIN (<<e>> \o list) /\ (<<e>> \o list)[1] = e
         /\ \A k \in DOMAIN (<<e>> \o list) :
              k # 1 => k - 1 \in DOMAIN list /\ (<<e>> \o list)[k] = list[k - 1]
<1> DEFINE new == <<e>> \o list
<1>1. <<e>> \in Seq(S) /\ Len(<<e>>) = 1 /\ <<e>>[1] = e
  OBVIOUS
<1>2. DOMAIN list = 1 .. Len(list) /\ Len(list) \in Nat
  OBVIOUS
<1>3. /\ new \in Seq(S) /\ Len(new) = 1 + Len(list)
      /\ \A i \in 1 .. 1 + Len(list) : new[i] = IF i <= 1 THEN <<e>>[i] ELSE list[i - 1]
  BY <1>1, ConcatProperties
<1> HIDE DEF new
<1>4. DOMAIN new = 1 .. Len(list) + 1
  BY <1>2, <1>3, ElementsOfSeq
<1>5. 1 \in DOMAIN new /\ new[1] = e
  BY <1>1, <1>2, <1>3, <1>4
<1>6. \A k \in DOMAIN new : k # 1 => k - 1 \in DOMAIN list /\ new[k] = list[k - 1]
  <2>1. SUFFICES ASSUME NEW k \in 1 .. Len(list) + 1, k # 1
                 PROVE  k - 1 \in 1 .. Len(list) /\ new[k] = list[k - 1]
    BY <1>2, <1>4
  <2>2. k - 1 \in 1 .. Len(list) /\ ~(k <= 1) /\ k \in 1 .. 1 + Len(list)
    BY <1>2, <2>1
  <2> QED BY <1>3, <2>2
<1> QED BY <1>2, <1>3, <1>4, <1>5, <1>6 DEF new

LEMMA ItemAdded ==
  ASSUME SubscriptionAssumption, NEW last, NEW sub \in Subscriptions(last), NEW new, NEW item \in Item,
         item.id = sub.lastItem + 1, new.items = <<item>> \o sub.items,
         new.id = sub.id, new.seq = sub.seq, new.lastItem = sub.lastItem + 1,
         new.retransmission = sub.retransmission,
         NEW w \in Seq(PublishResponse), NEW v, NEW g, NEW told \in [ItemIds -> NoValue .. MaxValue],
         NEW c, NEW d, NEW lost, SubFine(sub, w, v, g, told, c, lost),
         c.subs \subseteq d.subs, c.items \subseteq d.items, <<sub.id, item.id>> \in d.items,
         ItemFine(item, v), item.queue # <<>> \/ item.last = NoValue
  PROVE  SubFine(new, w, v, g, told, d, lost)
<1>1. /\ ItemsFine(sub, v, told) /\ OnTheWay(sub, w) /\ Numbers(sub, g) /\ Followed(sub, c)
      /\ lost \/ MaxRetransmission # 0 \/ Retrievable(sub, g, told)
  BY DEF SubFine
<1>2. sub.items \in Seq(Item) /\ sub.lastItem \in Nat
  BY SubscriptionType
<1>3. /\ 1 \in DOMAIN new.items /\ new.items[1] = item
      /\ \A k \in DOMAIN new.items :
           k # 1 => k - 1 \in DOMAIN sub.items /\ new.items[k] = sub.items[k - 1]
      /\ DOMAIN new.items = 1 .. Len(sub.items) + 1 /\ Len(sub.items) \in Nat
  BY <1>2, ConsIs
<1>4. /\ \A k \in DOMAIN sub.items : sub.items[k].id \in Nat /\ sub.items[k].id <= sub.lastItem
      /\ item.id \in ItemIds /\ item.id > sub.lastItem
  <2>1. \A k \in DOMAIN sub.items : sub.items[k].id \in Nat
    BY <1>2, ItemValues
  <2>2. item.id \in ItemIds
    BY DEF Item
  <2> QED BY <1>1, <1>2, <2>1, <2>2 DEF ItemsFine
<1>5. Unique(new.items)
  <2>1. SUFFICES ASSUME NEW a \in DOMAIN new.items, NEW b \in DOMAIN new.items,
                        new.items[a].id = new.items[b].id
                 PROVE  a = b
    BY DEF Unique
  <2>2. \A k \in DOMAIN new.items : k # 1 => new.items[k].id # item.id
    BY <1>2, <1>3, <1>4
  <2>3. CASE a = 1 \/ b = 1
    BY <1>3, <2>1, <2>2, <2>3
  <2>4. CASE a # 1 /\ b # 1
    <3>1. a - 1 \in DOMAIN sub.items /\ b - 1 \in DOMAIN sub.items
          /\ sub.items[a - 1].id = sub.items[b - 1].id
      BY <1>3, <2>1, <2>4
    <3>2. a - 1 = b - 1
      BY <1>1, <3>1 DEF ItemsFine, Unique
    <3> QED BY <1>3, <3>2
  <2> QED BY <2>3, <2>4
<1>6. told[item.id] = NoValue /\ NotNewer(NoValue, item)
  <2>1. told[item.id] = NoValue
    BY <1>1, <1>4 DEF ItemsFine
  <2>2. /\ item.last \in NoValue .. MaxValue /\ item.queue \in Seq(0 .. MaxValue)
        /\ MaxValue \in Nat
    BY Constants DEF Item
  <2>3. \A q \in DOMAIN item.queue : item.queue[q] \in 0 .. MaxValue
    BY <2>2, ElementsOfSeq
  <2> QED BY <2>1, <2>2, <2>3 DEF NotNewer, NoValue
<1>7. ItemsFine(new, v, told)
  <2>1. ASSUME NEW k \in DOMAIN new.items
        PROVE  /\ new.items[k].id <= new.lastItem /\ ItemFine(new.items[k], v)
               /\ NotNewer(told[new.items[k].id], new.items[k])
    <3>1. CASE k = 1
      BY <1>2, <1>3, <1>6, <3>1
    <3>2. CASE k # 1
      <4>1. k - 1 \in DOMAIN sub.items /\ new.items[k] = sub.items[k - 1]
        BY <1>3, <3>2
      <4>2. /\ ItemFine(sub.items[k - 1], v)
            /\ NotNewer(told[sub.items[k - 1].id], sub.items[k - 1])
        BY <1>1, <4>1 DEF ItemsFine
      <4>3. sub.items[k - 1].id <= new.lastItem
        BY <1>2, <1>4, <4>1
      <4> QED BY <4>1, <4>2, <4>3
    <3> QED BY <3>1, <3>2
  <2>2. ASSUME NEW i \in ItemIds, i > new.lastItem PROVE told[i] = NoValue
    <3>1. i \in Nat
      BY Constants
    <3>2. i > sub.lastItem
      BY <1>2, <2>2, <3>1
    <3> QED BY <1>1, <3>2 DEF ItemsFine
  <2> QED BY <1>5, <2>1, <2>2 DEF ItemsFine
<1>8. OnTheWay(new, w)
  <2>1. SUFFICES ASSUME NEW j \in DOMAIN w, Tells(w[j]) /\ w[j].message.sub = new.id
                 PROVE  Fits(w[j].message, new)
    BY DEF OnTheWay
  <2> DEFINE m == w[j].message
  <2>2. Fits(m, sub)
    BY <1>1, <2>1 DEF OnTheWay
  <2>3. m \in Message
    BY TellingType
  <2> HIDE DEF m
  <2>4. \A p \in DOMAIN m.note : m.note[p].item \in Nat /\ m.note[p].item <= sub.lastItem
    BY <2>2, <2>3, MessageType DEF Fits
  <2>5. ASSUME NEW p \in DOMAIN m.note, NEW k \in DOMAIN new.items, m.note[p].item = new.items[k].id
        PROVE  NotNewer(m.note[p].value, new.items[k])
    <3>1. k # 1
      BY <1>2, <1>3, <1>4, <2>4, <2>5
    <3>2. k - 1 \in DOMAIN sub.items /\ new.items[k] = sub.items[k - 1]
      BY <1>3, <3>1
    <3> QED BY <2>2, <2>5, <3>2 DEF Fits
  <2>6. \A p \in DOMAIN m.note : m.note[p].item <= new.lastItem
    BY <1>2, <2>4
  <2>7. Fits(m, new)
    BY <2>2, <2>5, <2>6 DEF Fits
  <2> QED BY <2>7 DEF m
<1>9. Numbers(new, g)
  BY <1>1 DEF Numbers
<1>10. Followed(new, d)
  <2>1. new.id \in d.subs
    BY <1>1 DEF Followed
  <2>2. ASSUME NEW k \in DOMAIN new.items PROVE <<new.id, new.items[k].id>> \in d.items
    <3>1. CASE k = 1
      BY <1>3, <3>1
    <3>2. CASE k # 1
      BY <1>1, <1>3, <3>2 DEF Followed
    <3> QED BY <3>1, <3>2
  <2> QED BY <2>1, <2>2 DEF Followed
<1>11. ASSUME Retrievable(sub, g, told) PROVE Retrievable(new, g, told)
  <2>1. AllThere(new, g)
    BY <1>11 DEF Retrievable, AllThere
  <2>2. ASSUME NEW k \in DOMAIN new.items
        PROVE  \/ new.items[k].queue # <<>>
               \/ new.items[k].last = told[new.items[k].id]
               \/ Untold(new, g, new.items[k])
    <3>1. CASE k = 1
      BY <1>3, <1>6, <3>1
    <3>2. CASE k # 1
      <4>1. k - 1 \in DOMAIN sub.items /\ new.items[k] = sub.items[k - 1]
        BY <1>3, <3>2
      <4>2. Untold(sub, g, sub.items[k - 1]) => Untold(new, g, sub.items[k - 1])
        BY DEF Untold
      <4> QED BY <1>11, <4>1, <4>2 DEF Retrievable
    <3> QED BY <3>1, <3>2
  <2> QED BY <2>1, <2>2 DEF Retrievable
<1> QED BY <1>1, <1>7, <1>8, <1>9, <1>10, <1>11 DEF SubFine

LEMMA NewItemIs ==
  ASSUME SubscriptionAssumption, value \in 0 .. MaxValue, NEW i \in ItemIds, NEW reporting \in BOOLEAN,
         NEW s \in ItemSettings
  PROVE  /\ NewItem(i, reporting, s) \in Item /\ NewItem(i, reporting, s).id = i
         /\ ItemFine(NewItem(i, reporting, s), value)
         /\ NewItem(i, reporting, s).queue # <<>> \/ NewItem(i, reporting, s).last = NoValue
<1> DEFINE size == Bounded(s.size, QueueSizeLimits)
           item == [id |-> i, reporting |-> reporting, size |-> size, oldest |-> s.oldest,
                    queue |-> <<>>, last |-> NoValue]
<1>1. size \in QueueSizeLimits.min .. QueueSizeLimits.max /\ s.oldest \in BOOLEAN /\ MaxValue \in Nat
  BY Constants, BoundedIs
<1>2. NewItem(i, reporting, s) = IF reporting THEN Sampled(item) ELSE item
  BY Zenon DEF NewItem
<1> HIDE DEF size
<1>3. NoValue \in NoValue .. MaxValue /\ NoValue <= value
  BY <1>1 DEF NoValue
<1>4. item \in Item
  <2>1. <<>> \in Seq(0 .. MaxValue)
    OBVIOUS
  <2> QED BY <1>1, <1>3, <2>1 DEF Item
<1>5. item.id = i /\ item.last = NoValue /\ item.queue = <<>>
  OBVIOUS
<1> HIDE DEF item
<1>6. ItemFine(item, value)
  <2>1. Ordered(<<>>)
    BY DEF Ordered
  <2> QED BY <1>3, <1>5, <2>1 DEF ItemFine
<1>7. Sampled(item) \in Item /\ Later(Sampled(item), item, value) /\ Sampled(item).queue # <<>>
  BY <1>4, <1>5, SampledIs
<1>8. Sampled(item).id = i /\ ItemFine(Sampled(item), value)
  BY <1>5, <1>6, <1>7 DEF Later
<1> QED BY <1>2, <1>4, <1>5, <1>6, <1>7, <1>8

\* What the client notes.
LEMMA ClientNotes ==
  ASSUME client \in Client
  PROVE  /\ \A id \in SubIds : /\ Follows(id) \in Client /\ Follows(id).subs = client.subs \cup {id}
                               /\ Follows(id).items = client.items
         /\ \A id \in SubIds : /\ Leaves(id) \in Client /\ Leaves(id).subs = client.subs \ {id}
                               /\ Leaves(id).items = client.items
         /\ \A id \in SubIds, i \in ItemIds :
              /\ Watches(id, i) \in Client /\ Watches(id, i).subs = client.subs
              /\ Watches(id, i).items = client.items \cup {<<id, i>>}
         /\ \A id \in SubIds, i \in ItemIds :
              /\ Ignores(id, i) \in Client /\ Ignores(id, i).subs = client.subs
              /\ Ignores(id, i).items = client.items \ {<<id, i>>}
<1>1. client.subs \in SUBSET SubIds /\ client.items \in SUBSET (SubIds \X ItemIds)
  BY DEF Client
<1>2. ASSUME NEW s \in SUBSET SubIds
      PROVE  /\ [client EXCEPT !.subs = s] \in Client /\ [client EXCEPT !.subs = s].subs = s
             /\ [client EXCEPT !.subs = s].items = client.items
  BY DEF Client
<1>3. ASSUME NEW s \in SUBSET (SubIds \X ItemIds)
      PROVE  /\ [client EXCEPT !.items = s] \in Client /\ [client EXCEPT !.items = s].subs = client.subs
             /\ [client EXCEPT !.items = s].items = s
  BY DEF Client
<1>4. ASSUME NEW id \in SubIds
      PROVE  /\ Follows(id) \in Client /\ Follows(id).subs = client.subs \cup {id}
             /\ Follows(id).items = client.items
  <2>1. client.subs \cup {id} \in SUBSET SubIds
    BY <1>1
  <2> QED BY <1>2, <2>1 DEF Follows
<1>5. ASSUME NEW id \in SubIds
      PROVE  /\ Leaves(id) \in Client /\ Leaves(id).subs = client.subs \ {id}
             /\ Leaves(id).items = client.items
  <2>1. client.subs \ {id} \in SUBSET SubIds
    BY <1>1
  <2> QED BY <1>2, <2>1 DEF Leaves
<1>6. ASSUME NEW id \in SubIds, NEW i \in ItemIds
      PROVE  /\ Watches(id, i) \in Client /\ Watches(id, i).subs = client.subs
             /\ Watches(id, i).items = client.items \cup {<<id, i>>}
  <2>1. client.items \cup {<<id, i>>} \in SUBSET (SubIds \X ItemIds)
    BY <1>1
  <2> QED BY <1>3, <2>1 DEF Watches
<1>7. ASSUME NEW id \in SubIds, NEW i \in ItemIds
      PROVE  /\ Ignores(id, i) \in Client /\ Ignores(id, i).subs = client.subs
             /\ Ignores(id, i).items = client.items \ {<<id, i>>}
  <2>1. client.items \ {<<id, i>>} \in SUBSET (SubIds \X ItemIds)
    BY <1>1
  <2> QED BY <1>3, <2>1 DEF Ignores
<1> QED BY <1>4, <1>5, <1>6, <1>7

LEMMA CreateItemKeeps ==
  ASSUME SubscriptionAssumption, Inv, NEW id, NEW reporting \in Modes, NEW s \in ItemSettings,
         CreateItem(id, reporting, s)
  PROVE  Inv'
<1> DEFINE i == Sub(id).lastItem + 1
           item == NewItem(i, reporting, s)
           items == <<item>> \o Sub(id).items
           more == [Sub(id) EXCEPT !.lastItem = i, !.items = items]
           sub == [more EXCEPT !.life = 0]
<1>1. /\ Exists(id) /\ Sub(id).lastItem < MaxItem[id]
      /\ subs' = [subs EXCEPT ![At(id)] = sub] /\ client' = Watches(id, i)
      /\ UNCHANGED <<value, lastSub, queue, delayed, wire, link, history>>
  BY Zenon DEF CreateItem, Touched
<1>2. /\ SubFine(Sub(id), wire, value, got[id], seen[id], client, early)
      /\ id \in SubIds /\ Sub(id) \in Subscriptions(lastSub)
      /\ seen[id] \in [ItemIds -> NoValue .. MaxValue]
  BY <1>1, SubIsFine
<1>3. /\ Sub(id).id = id /\ value \in 0 .. MaxValue /\ wire \in Seq(PublishResponse)
      /\ client \in Client
  BY <1>1, FoundAt, Typed DEF Inv
<1>4. /\ Sub(id) \in ServerSubscription /\ Sub(id).id <= lastSub /\ Sub(id).lastItem \in Nat
      /\ Sub(id).items \in Seq(Item)
  BY <1>2, SubscriptionType
<1>5. i \in ItemIds /\ i \in Nat /\ i <= MaxItem[id] /\ i = Sub(id).lastItem + 1
  <2>1. MaxItem[id] \in Nat /\ 1 .. MaxItem[id] \subseteq ItemIds
    BY <1>2, Constants
  <2>2. i \in 1 .. MaxItem[id]
    BY <1>1, <1>4, <2>1
  <2> QED BY <2>1, <2>2
<1> HIDE DEF i
<1>6. reporting \in BOOLEAN
  BY Zenon, Constants
<1>7. /\ item \in Item /\ item.id = i /\ ItemFine(item, value)
      /\ item.queue # <<>> \/ item.last = NoValue
  BY <1>3, <1>5, <1>6, NewItemIs
<1> HIDE DEF item
<1>8. items \in Seq(Item)
  BY <1>4, <1>7, ConsIs
<1>9. items = <<item>> \o Sub(id).items
  OBVIOUS
<1> HIDE DEF items
<1>10. /\ more \in ServerSubscription /\ more.items = items /\ more.id = id
       /\ more.seq = Sub(id).seq /\ more.lastItem = i /\ more.retransmission = Sub(id).retransmission
  BY <1>3, <1>4, <1>5, <1>8 DEF ServerSubscription
<1> HIDE DEF more
<1>11. sub \in Subscriptions(lastSub) /\ Alike(sub, more)
  BY <1>3, <1>4, <1>5, <1>10, TouchedIs
<1> HIDE DEF sub
<1>12. /\ Watches(id, i) \in Client /\ Watches(id, i).subs = client.subs
       /\ Watches(id, i).items = client.items \cup {<<id, i>>}
  BY <1>2, <1>3, <1>5, ClientNotes
<1>13. /\ client' \in Client /\ client.subs \subseteq client'.subs
       /\ client.items \subseteq client'.items /\ <<id, i>> \in client'.items
  BY <1>1, <1>12
<1>14. SubFine(more, wire, value, got[id], seen[id], client', early)
  <2> DEFINE d == client'
             old == Sub(id)
             told == seen[id]
             numbers == got[id]
  <2>1. /\ SubFine(old, wire, value, numbers, told, client, early)
        /\ old \in Subscriptions(lastSub) /\ told \in [ItemIds -> NoValue .. MaxValue]
        /\ item.id = old.lastItem + 1 /\ more.items = <<item>> \o old.items
        /\ more.id = old.id /\ more.seq = old.seq /\ more.lastItem = old.lastItem + 1
        /\ more.retransmission = old.retransmission
    BY <1>2, <1>3, <1>5, <1>7, <1>9, <1>10
  <2>2. /\ client.subs \subseteq d.subs /\ client.items \subseteq d.items
        /\ <<old.id, item.id>> \in d.items
    BY <1>3, <1>7, <1>13
  <2> HIDE DEF d, old, told, numbers
  <2>3. SubFine(more, wire, value, numbers, told, d, early)
    BY <1>3, <1>7, <2>1, <2>2, ItemAdded
  <2> QED BY <2>3 DEF d, told, numbers
<1>15. sub.id = id /\ SubFine(sub, wire, value, got[id], seen[id], client', early)
  BY <1>10, <1>11, <1>14, AlikeFine DEF Alike
<1>16. \A k \in DOMAIN subs : Followed(subs[k], client) => Followed(subs[k], client')
  BY <1>13 DEF Followed
<1> QED BY <1>1, <1>11, <1>13, <1>15, <1>16, OneReplaced

\* A subscription with only some of its items.
LEMMA ItemsLess ==
  ASSUME NEW sub, NEW new, NEW e,
         \A k \in DOMAIN new.items : e[k] \in DOMAIN sub.items /\ new.items[k] = sub.items[e[k]],
         \A a, b \in DOMAIN new.items : e[a] = e[b] => a = b,
         new.id = sub.id, new.seq = sub.seq, new.lastItem = sub.lastItem,
         new.retransmission = sub.retransmission,
         NEW w, NEW v, NEW g, NEW told, NEW c, NEW d, NEW lost,
         SubFine(sub, w, v, g, told, c, lost), c.subs \subseteq d.subs,
         \A k \in DOMAIN new.items :
           <<sub.id, new.items[k].id>> \in c.items => <<sub.id, new.items[k].id>> \in d.items
  PROVE  SubFine(new, w, v, g, told, d, lost)
<1>1. /\ ItemsFine(sub, v, told) /\ OnTheWay(sub, w) /\ Numbers(sub, g) /\ Followed(sub, c)
      /\ lost \/ MaxRetransmission # 0 \/ Retrievable(sub, g, told)
  BY DEF SubFine
<1>2. ItemsFine(new, v, told)
  <2>1. Unique(new.items)
    BY <1>1 DEF ItemsFine, Unique
  <2> QED BY <1>1, <2>1 DEF ItemsFine
<1>3. \A m : Fits(m, sub) => Fits(m, new)
  BY DEF Fits
<1>4. OnTheWay(new, w)
  BY <1>1, <1>3 DEF OnTheWay
<1>5. Numbers(new, g) /\ Followed(new, d)
  BY <1>1 DEF Numbers, Followed
<1>6. Retrievable(sub, g, told) => Retrievable(new, g, told)
  <2>1. AllThere(sub, g) => AllThere(new, g)
    BY DEF AllThere
  <2>2. \A item : Untold(sub, g, item) => Untold(new, g, item)
    BY DEF Untold
  <2> QED BY <2>1, <2>2 DEF Retrievable
<1> QED BY <1>1, <1>2, <1>4, <1>5, <1>6 DEF SubFine

LEMMA PartIs ==
  ASSUME NEW S, NEW list \in Seq(S), NEW places
  PROVE  /\ Selected(list, places) \in Seq(S)
         /\ \E e : /\ \A k \in DOMAIN Selected(list, places) :
                        /\ e[k] \in DOMAIN list /\ e[k] \in places
                        /\ Selected(list, places)[k] = list[e[k]]
                   /\ \A a, b \in DOMAIN Selected(list, places) : e[a] = e[b] => a = b
<1> DEFINE r == Selected(list, places)
<1>1. r \in Seq(S) /\ \E e : IsPart(e, r, list, Len(list), places)
  BY SelectedIs
<1> HIDE DEF r
<1>2. PICK e : IsPart(e, r, list, Len(list), places)
  BY <1>1
<1>3. DOMAIN r = 1 .. Len(r) /\ Len(r) \in Nat /\ DOMAIN list = 1 .. Len(list)
  BY <1>1, ElementsOfSeq
<1>4. \A k \in DOMAIN r : e[k] \in DOMAIN list /\ e[k] \in places /\ r[k] = list[e[k]]
  BY <1>2, <1>3 DEF IsPart
<1>5. \A a, b \in DOMAIN r : e[a] = e[b] => a = b
  <2>1. SUFFICES ASSUME NEW a \in DOMAIN r, NEW b \in DOMAIN r, e[a] = e[b], a # b PROVE FALSE
    OBVIOUS
  <2>2. a < b \/ b < a
    BY <1>3, <2>1
  <2>3. e[a] < e[b] \/ e[b] < e[a]
    BY <1>2, <2>2 DEF IsPart
  <2>4. e[a] \in Nat /\ e[b] \in Nat
    BY <1>3, <1>4
  <2> QED BY <2>1, <2>3, <2>4
<1> QED BY <1>1, <1>4, <1>5 DEF r

LEMMA DeleteItemKeeps ==
  ASSUME SubscriptionAssumption, Inv, NEW id, NEW i \in ItemIds, DeleteItem(id, i)
  PROVE  Inv'
<1> DEFINE old == Sub(id)
           places == {k \in DOMAIN old.items : old.items[k].id # i}
           items == Selected(old.items, places)
           less == [old EXCEPT !.items = items]
           sub == [less EXCEPT !.life = 0]
<1>1. /\ Exists(id) /\ subs' = [subs EXCEPT ![At(id)] = sub] /\ client' = Ignores(id, i)
      /\ UNCHANGED <<value, lastSub, queue, delayed, wire, link, history>>
  BY Zenon DEF DeleteItem, Touched
<1>2. /\ SubFine(old, wire, value, got[id], seen[id], client, early)
      /\ id \in SubIds /\ old \in Subscriptions(lastSub)
  BY <1>1, SubIsFine
<1>3. old.id = id /\ client \in Client
  BY <1>1, FoundAt, Typed DEF Inv
<1> HIDE DEF old
<1>4. /\ old \in ServerSubscription /\ old.id <= lastSub /\ old.lastItem <= MaxItem[id]
      /\ old.items \in Seq(Item)
  BY <1>2, <1>3, SubscriptionType
<1>5. /\ items \in Seq(Item)
      /\ \E e : /\ \A k \in DOMAIN items : /\ e[k] \in DOMAIN old.items /\ e[k] \in places
                                           /\ items[k] = old.items[e[k]]
                /\ \A a, b \in DOMAIN items : e[a] = e[b] => a = b
  <2> DEFINE list == old.items
             r == Selected(list, places)
  <2>1. list \in Seq(Item)
    BY <1>4
  <2> HIDE DEF places, list
  <2>2. /\ r \in Seq(Item)
        /\ \E e : /\ \A k \in DOMAIN r : e[k] \in DOMAIN list /\ e[k] \in places /\ r[k] = list[e[k]]
                  /\ \A a, b \in DOMAIN r : e[a] = e[b] => a = b
    BY <2>1, PartIs
  <2> HIDE DEF r
  <2> QED BY <2>2 DEF r, list
<1>6. PICK e : /\ \A k \in DOMAIN items : /\ e[k] \in DOMAIN old.items /\ e[k] \in places
                                          /\ items[k] = old.items[e[k]]
               /\ \A a, b \in DOMAIN items : e[a] = e[b] => a = b
  BY <1>5
<1>7. \A k \in DOMAIN items : items[k].id # i
  BY <1>6
<1> HIDE DEF items, places
<1>8. /\ less \in ServerSubscription /\ less.items = items /\ less.id = id
      /\ less.seq = old.seq /\ less.lastItem = old.lastItem /\ less.retransmission = old.retransmission
  BY <1>3, <1>4, <1>5 DEF ServerSubscription
<1> HIDE DEF less
<1>9. sub \in Subscriptions(lastSub) /\ Alike(sub, less)
  BY <1>3, <1>4, <1>8, TouchedIs
<1> HIDE DEF sub
<1>10. /\ client' \in Client /\ client'.subs = client.subs
       /\ client'.items = client.items \ {<<id, i>>}
  BY <1>1, <1>2, <1>3, ClientNotes
<1>11. SubFine(less, wire, value, got[id], seen[id], client', early)
  <2> DEFINE d == client'
             told == seen[id]
             numbers == got[id]
  <2>1. /\ SubFine(old, wire, value, numbers, told, client, early)
        /\ \A k \in DOMAIN less.items : e[k] \in DOMAIN old.items /\ less.items[k] = old.items[e[k]]
        /\ \A a, b \in DOMAIN less.items : e[a] = e[b] => a = b
        /\ less.id = old.id
    BY <1>2, <1>3, <1>6, <1>8
  <2>2. /\ client.subs \subseteq d.subs
        /\ \A k \in DOMAIN less.items :
             <<old.id, less.items[k].id>> \in client.items => <<old.id, less.items[k].id>> \in d.items
    BY <1>3, <1>7, <1>8, <1>10
  <2> HIDE DEF d, told, numbers
  <2>3. SubFine(less, wire, value, numbers, told, d, early)
    BY <1>8, <2>1, <2>2, ItemsLess
  <2> QED BY <2>3 DEF d, told, numbers
<1>12. sub.id = id /\ SubFine(sub, wire, value, got[id], seen[id], client', early)
  BY <1>8, <1>9, <1>11, AlikeFine DEF Alike
<1>13. \A k \in DOMAIN subs : subs[k].id # id /\ Followed(subs[k], client) => Followed(subs[k], client')
  BY <1>10 DEF Followed
<1> QED BY <1>1, <1>9, <1>10, <1>12, <1>13, OneReplaced

LEMMA DeleteSubscriptionKeeps ==
  ASSUME SubscriptionAssumption, Inv, NEW id \in SubIds, DeleteSubscription(id)
  PROVE  Inv'
<1> DEFINE places == DOMAIN subs \ Positions(id)
           new == Selected(subs, places)
<1>1. /\ link = "up" /\ subs' = new /\ client' = Leaves(id)
      /\ delayed' = (delayed \/ subs' = <<>>)
      /\ UNCHANGED <<value, lastSub, queue, wire, link, history>>
  BY DEF DeleteSubscription, Calls
<1>2. /\ TypeOK /\ ListFine(subs, wire, value, got, seen, client, early)
  BY DEF Inv
<1>3. subs \in Seq(Subscriptions(lastSub)) /\ client \in Client
  BY <1>2, Typed
<1>4. /\ new \in Seq(Subscriptions(lastSub))
      /\ \E e : /\ \A k \in DOMAIN new : /\ e[k] \in DOMAIN subs /\ e[k] \in places
                                         /\ new[k] = subs[e[k]]
                /\ \A a, b \in DOMAIN new : e[a] = e[b] => a = b
  <2> HIDE DEF places
  <2> QED BY <1>3, PartIs
<1> HIDE DEF new
<1>5. PICK e : /\ \A k \in DOMAIN new : /\ e[k] \in DOMAIN subs /\ e[k] \in places
                                        /\ new[k] = subs[e[k]]
               /\ \A a, b \in DOMAIN new : e[a] = e[b] => a = b
  BY <1>4
<1>6. \A k \in DOMAIN new : new[k].id # id
  BY <1>5 DEF Positions
<1>7. Thinned(new, subs)
  <2>1. \A k \in DOMAIN new : e[k] \in DOMAIN subs /\ Alike(new[k], subs[e[k]])
    BY <1>5 DEF Alike
  <2> QED BY <1>5, <2>1 DEF Thinned
<1>8. ListFine(new, wire, value, got, seen, client, early)
  BY <1>2, <1>7, ThinnedFine
<1>9. /\ client' \in Client /\ client'.subs = client.subs \ {id} /\ client'.items = client.items
  BY <1>1, <1>3, ClientNotes
<1>10. ListFine(new, wire, value, got, seen, client', early)
  <2>1. \A k \in DOMAIN new : Followed(new[k], client) => Followed(new[k], client')
    BY <1>6, <1>9 DEF Followed
  <2> QED BY <1>8, <2>1 DEF ListFine, SubFine
<1>11. delayed' \in BOOLEAN
  BY <1>1
<1> QED BY <1>1, <1>4, <1>9, <1>10, <1>11, SubsChanged

LEMMA NewSubscriptionIs ==
  ASSUME SubscriptionAssumption, NEW id \in SubIds, NEW on \in BOOLEAN, NEW s \in Settings
  PROVE  LET sub == NewSubscription(id, on, s)
         IN /\ sub \in Subscriptions(id) /\ sub.id = id /\ sub.seq = 0 /\ sub.lastItem = 0
            /\ sub.items = <<>> /\ sub.retransmission = <<>>
<1> DEFINE sub == [id |-> id, enabled |-> on, maxKeepAlive |-> 0, lifeTime |-> 0,
                   perPublish |-> 0, keepAlive |-> 0, life |-> 0, seq |-> 0,
                   late |-> FALSE, lastItem |-> 0, items |-> <<>>, retransmission |-> <<>>]
           new == Revised(sub, s)
           full == [new EXCEPT !.keepAlive = new.maxKeepAlive]
<1>1. sub \in [id : SubIds, enabled : BOOLEAN, maxKeepAlive : Nat, lifeTime : Nat,
               perPublish : Nat, keepAlive : 0 .. KeepAliveLimits.max, life : Nat, seq : Nat,
               late : BOOLEAN, lastItem : Nat, items : Seq(Item), retransmission : Seq(Message)]
  <2>1. 0 \in 0 .. KeepAliveLimits.max
    BY Constants
  <2>2. <<>> \in Seq(Item) /\ <<>> \in Seq(Message)
    OBVIOUS
  <2> QED BY <2>1, <2>2
<1>2. /\ sub.id = id /\ sub.seq = 0 /\ sub.lastItem = 0 /\ sub.items = <<>>
      /\ sub.retransmission = <<>> /\ sub.life = 0
  OBVIOUS
<1>3. NewSubscription(id, on, s) = full
  BY Zenon DEF NewSubscription
<1> HIDE DEF sub
<1>4. new \in ServerSubscription /\ Alike(new, sub) /\ new.life = 0
  BY <1>1, <1>2, RevisedIs
<1> HIDE DEF new
<1>5. new.maxKeepAlive \in 0 .. KeepAliveLimits.max
  <2>1. new.maxKeepAlive \in KeepAliveLimits.min .. KeepAliveLimits.max
    BY <1>4 DEF ServerSubscription
  <2>2. KeepAliveLimits.min \in Nat /\ KeepAliveLimits.max \in Nat
    BY Constants
  <2> QED BY <2>1, <2>2
<1>6. /\ full \in ServerSubscription /\ Alike(full, new) /\ full.life = new.life
      /\ full.lifeTime = new.lifeTime
  BY <1>4, <1>5, SetCounters
<1> HIDE DEF full
<1>7. /\ full.id = id /\ full.seq = 0 /\ full.lastItem = 0 /\ full.items = <<>>
      /\ full.retransmission = <<>> /\ full.life = 0
  BY <1>2, <1>4, <1>6 DEF Alike
<1>8. full.lifeTime \in Nat /\ MaxItem[id] \in Nat /\ id \in Nat
  BY <1>6, Constants DEF ServerSubscription
<1>9. full \in Subscriptions(id)
  BY <1>6, <1>7, <1>8 DEF Subscriptions
<1> QED BY <1>3, <1>7, <1>9

LEMMA CreateSubscriptionKeeps ==
  ASSUME SubscriptionAssumption, Inv, NEW on \in Modes, NEW s \in Settings, CreateSubscription(on, s)
  PROVE  Inv'
<1> DEFINE id == lastSub + 1
           sub == NewSubscription(id, on, s)
           new == <<sub>> \o subs
<1>1. /\ link = "up" /\ wire = <<>> /\ lastSub < MaxSub /\ lastSub' = id
      /\ subs' = new /\ client' = Follows(id)
      /\ UNCHANGED <<value, queue, delayed, wire, link, history>>
  BY Zenon DEF CreateSubscription, Calls
<1>2. /\ value' = value /\ queue' = queue /\ delayed' = delayed /\ wire' = wire /\ link' = link
      /\ got' = got /\ seen' = seen /\ early' = early
  BY <1>1 DEF history
<1>3. /\ TypeOK /\ NoneYet(lastSub, got, seen)
      /\ ListFine(subs, wire, value, got, seen, client, early)
  BY DEF Inv
<1>4. /\ subs \in Seq(Subscriptions(lastSub)) /\ client \in Client
      /\ lastSub \in Nat /\ MaxSub \in Nat /\ SubIds \subseteq Nat
  BY <1>3, Typed, Constants
<1>5. id \in SubIds /\ id \in Nat /\ lastSub < id
  BY <1>1, <1>4 DEF SubIds
<1>6. on \in BOOLEAN
  BY Zenon, Constants
<1> HIDE DEF id
<1>7. /\ sub \in Subscriptions(id) /\ sub.id = id /\ sub.seq = 0 /\ sub.lastItem = 0
      /\ sub.items = <<>> /\ sub.retransmission = <<>>
  BY <1>5, <1>6, NewSubscriptionIs
<1> HIDE DEF sub
<1>8. subs \in Seq(Subscriptions(id))
  <2>1. Subscriptions(lastSub) \subseteq Subscriptions(id)
    <3>1. \A x \in ServerSubscription : x.id \in Nat
      BY <1>4 DEF ServerSubscription
    <3> QED BY <1>4, <1>5, <3>1 DEF Subscriptions
  <2> QED BY <1>4, <2>1, SeqMonotonic
<1>9. /\ new \in Seq(Subscriptions(id)) /\ new[1] = sub /\ 1 \in DOMAIN new
      /\ DOMAIN new = 1 .. Len(subs) + 1 /\ Len(subs) \in Nat
      /\ \A k \in DOMAIN new : k # 1 => k - 1 \in DOMAIN subs /\ new[k] = subs[k - 1]
  BY <1>7, <1>8, ConsIs
<1> HIDE DEF new
<1>10. \A k \in DOMAIN subs : subs[k].id # id
  <2>1. \A k \in DOMAIN subs : subs[k] \in Subscriptions(lastSub)
    BY <1>4, ElementsOfSeq
  <2>2. \A k \in DOMAIN subs : subs[k].id \in Nat /\ subs[k].id <= lastSub
    BY <1>4, <2>1, SubscriptionType
  <2> QED BY <1>4, <1>5, <2>2
<1>11. Unique(new)
  <2>1. SUFFICES ASSUME NEW a \in DOMAIN new, NEW b \in DOMAIN new, new[a].id = new[b].id
                 PROVE  a = b
    BY DEF Unique
  <2>2. \A k \in DOMAIN new : k # 1 => new[k].id # id
    BY <1>9, <1>10
  <2>3. CASE a = 1 \/ b = 1
    BY <1>7, <1>9, <2>1, <2>2, <2>3
  <2>4. CASE a # 1 /\ b # 1
    <3>1. a - 1 \in DOMAIN subs /\ b - 1 \in DOMAIN subs /\ subs[a - 1].id = subs[b - 1].id
      BY <1>9, <2>1, <2>4
    <3>2. a - 1 = b - 1
      BY <1>3, <3>1 DEF ListFine, Unique
    <3> QED BY <1>9, <3>2
  <2> QED BY <2>3, <2>4
<1>12. /\ client' \in Client /\ client'.subs = client.subs \cup {id} /\ client'.items = client.items
  BY <1>1, <1>4, <1>5, ClientNotes
<1>13. got[id] = {} /\ \A i \in ItemIds : seen[id][i] = NoValue
  BY <1>3, <1>5 DEF NoneYet
<1>14. SubFine(sub, wire, value, got[id], seen[id], client', early)
  <2>1. ItemsFine(sub, value, seen[id])
    BY <1>7, <1>13 DEF ItemsFine, Unique
  <2>2. OnTheWay(sub, wire)
    BY <1>1 DEF OnTheWay
  <2>3. Numbers(sub, got[id]) /\ Followed(sub, client')
    BY <1>7, <1>12, <1>13 DEF Numbers, Followed
  <2>4. Retrievable(sub, got[id], seen[id])
    BY <1>7 DEF Retrievable, AllThere
  <2> QED BY <2>1, <2>2, <2>3, <2>4 DEF SubFine
<1>15. ListFine(subs, wire, value, got, seen, client', early)
  BY <1>3, <1>12, FollowedStill
<1>16. ListFine(new, wire, value, got, seen, client', early)
  <2>1. ASSUME NEW k \in DOMAIN new
        PROVE  SubFine(new[k], wire, value, got[new[k].id], seen[new[k].id], client', early)
    <3>1. CASE k = 1
      BY <1>7, <1>9, <1>14, <3>1
    <3>2. CASE k # 1
      BY <1>9, <1>15, <3>2 DEF ListFine
    <3> QED BY <3>1, <3>2
  <2> QED BY <1>11, <2>1 DEF ListFine
<1>17. TypeOK'
  <2>1. /\ subs' \in Seq(ServerSubscription)
        /\ \A k \in DOMAIN subs' : /\ subs'[k].id <= id /\ subs'[k].life <= subs'[k].lifeTime
                                   /\ subs'[k].lastItem <= MaxItem[subs'[k].id]
    BY <1>1, <1>9, TypedList
  <2>2. id \in 0 .. MaxSub
    BY <1>4, <1>5 DEF SubIds
  <2> QED BY <1>1, <1>2, <1>3, <1>12, <2>1, <2>2 DEF TypeOK
<1>18. NoneYet(id, got, seen)
  <2>1. \A j \in SubIds : j > id => j > lastSub
    BY <1>4, <1>5
  <2> QED BY <1>3, <2>1 DEF NoneYet
<1>19. WireFine(wire, link, id, got, seen)
  BY <1>1 DEF WireFine
<1> QED BY <1>1, <1>2, <1>16, <1>17, <1>18, <1>19 DEF Inv

(***************************************************************************)
(* The other actions.                                                      *)
(***************************************************************************)

LEMMA WriteKeeps ==
  ASSUME SubscriptionAssumption, Inv, Write
  PROVE  Inv'
<1>1. /\ value < MaxValue /\ value' = value + 1
      /\ subs' = subs /\ lastSub' = lastSub /\ queue' = queue /\ delayed' = delayed
      /\ wire' = wire /\ link' = link /\ client' = client
      /\ got' = got /\ seen' = seen /\ early' = early
  BY DEF Write, server, history
<1>2. TypeOK /\ ListFine(subs, wire, value, got, seen, client, early)
  BY DEF Inv
<1>3. subs \in Seq(Subscriptions(lastSub)) /\ value \in Nat /\ MaxValue \in Nat
  BY <1>2, Typed, Constants
<1>4. value' \in 0 .. MaxValue
  BY <1>1, <1>3
<1>5. TypeOK'
  BY <1>1, <1>2, <1>4 DEF TypeOK
<1>6. ASSUME NEW k \in DOMAIN subs
      PROVE  SubFine(subs[k], wire, value + 1, got[subs[k].id], seen[subs[k].id], client, early)
  <2>1. SubFine(subs[k], wire, value, got[subs[k].id], seen[subs[k].id], client, early)
    BY <1>2 DEF ListFine
  <2>2. subs[k].items \in Seq(Item)
    <3>1. subs[k] \in Subscriptions(lastSub)
      BY <1>3, ElementsOfSeq
    <3> QED BY <3>1, SubscriptionType
  <2>3. \A n \in DOMAIN subs[k].items :
          ItemFine(subs[k].items[n], value) => ItemFine(subs[k].items[n], value + 1)
    <3>1. TAKE n \in DOMAIN subs[k].items
    <3>2. subs[k].items[n].last \in Int
      BY <2>2, ItemValues
    <3>3. subs[k].items[n].last <= value => subs[k].items[n].last <= value + 1
      BY <1>3, <3>2
    <3> QED BY <3>3 DEF ItemFine
  <2>4. ItemsFine(subs[k], value + 1, seen[subs[k].id])
    BY <2>1, <2>3 DEF SubFine, ItemsFine
  <2> QED BY <2>1, <2>4 DEF SubFine
<1>7. ListFine(subs, wire, value + 1, got, seen, client, early)
  BY <1>2, <1>6 DEF ListFine
<1> QED BY <1>1, <1>5, <1>7 DEF Inv

\* Steps of the client that change none of what it knows.
LEMMA ClientSteps ==
  ASSUME SubscriptionAssumption, Inv, client' \in Client, client'.subs = client.subs,
         client'.items = client.items, UNCHANGED <<value, server, wire, history>>,
         \/ link' = link
         \/ wire = <<>> /\ link' \in {"up", "down"}
  PROVE  Inv'
<1>1. /\ value' = value /\ subs' = subs /\ lastSub' = lastSub /\ queue' = queue
      /\ delayed' = delayed /\ wire' = wire /\ got' = got /\ seen' = seen /\ early' = early
  BY DEF server, history
<1>2. TypeOK'
  BY <1>1 DEF Inv, TypeOK
<1>3. ListFine(subs, wire, value, got, seen, client', early)
  BY FollowedStill DEF Inv
<1>4. WireFine(wire, link', lastSub, got, seen)
  <2>1. CASE link' = link
    BY <2>1 DEF Inv
  <2>2. CASE wire = <<>>
    BY <2>2 DEF WireFine
  <2> QED BY <2>1, <2>2
<1>5. link' = "none" => subs = <<>> /\ lastSub = 0
  BY DEF Inv
<1> QED BY <1>1, <1>2, <1>3, <1>4, <1>5 DEF Inv

LEMMA GiveUpKeeps ==
  ASSUME SubscriptionAssumption, Inv, GiveUp
  PROVE  Inv'
<1>1. /\ client.gaveUp < MaxGiveUp
      /\ client' = [client EXCEPT !.state = "idle", !.gaveUp = @ + 1]
      /\ link' = link /\ UNCHANGED <<value, server, wire, history>>
  BY DEF GiveUp
<1>2. client \in Client /\ MaxGiveUp \in Nat
  BY Typed, Constants DEF Inv
<1>3. client.gaveUp + 1 \in 0 .. MaxGiveUp
  <2>1. client.gaveUp \in 0 .. MaxGiveUp
    BY <1>2 DEF Client
  <2> QED BY <1>1, <1>2, <2>1
<1>4. /\ client' \in Client /\ client'.subs = client.subs /\ client'.items = client.items
  BY <1>1, <1>2, <1>3 DEF Client
<1> QED BY <1>1, <1>4, ClientSteps

LEMMA CloseKeeps ==
  ASSUME SubscriptionAssumption, Inv, Close
  PROVE  Inv'
<1>1. /\ wire = <<>> /\ link' = "down" /\ client' = [client EXCEPT !.state = "errored"]
      /\ UNCHANGED <<value, server, wire, history>>
  BY DEF Close
<1>2. client \in Client
  BY Typed DEF Inv
<1>3. /\ client' \in Client /\ client'.subs = client.subs /\ client'.items = client.items
  BY <1>1, <1>2 DEF Client
<1> QED BY <1>1, <1>3, ClientSteps

LEMMA ExpireSessionKeeps ==
  ASSUME SubscriptionAssumption, Inv, ExpireSession
  PROVE  Inv'
<1> DEFINE none == [id \in SubIds |-> {}]
           untold == [id \in SubIds |-> [i \in ItemIds |-> NoValue]]
<1>1. /\ link = "down" /\ link' = "none"
      /\ subs' = <<>> /\ queue' = <<>> /\ lastSub' = 0 /\ delayed' = FALSE
      /\ got' = none /\ seen' = untold /\ early' = FALSE
      /\ value' = value /\ wire' = wire /\ client' = client
  BY DEF ExpireSession
<1>2. TypeOK /\ WireFine(wire, link, lastSub, got, seen)
  BY DEF Inv
<1>3. none \in [SubIds -> SUBSET Nat] /\ untold \in [SubIds -> [ItemIds -> NoValue .. MaxValue]]
  <2>1. NoValue \in NoValue .. MaxValue
    BY Constants DEF NoValue
  <2> QED BY <2>1
<1>4. NoneYet(0, none, untold)
  BY DEF NoneYet
<1> HIDE DEF none, untold
<1>5. \A j \in DOMAIN wire : ~wire[j].good
  BY <1>1, <1>2 DEF WireFine
<1>6. WireFine(wire, "none", 0, none, untold)
  BY <1>5 DEF WireFine, Tells
<1>7. ListFine(<<>>, wire, value, none, untold, client, FALSE)
  BY DEF ListFine, Unique
<1>8. TypeOK'
  <2>1. <<>> \in Seq(ServerSubscription) /\ <<>> \in Seq(PublishRequest) /\ DOMAIN <<>> = {}
    OBVIOUS
  <2>2. 0 \in 0 .. MaxSub
    BY Constants
  <2>3. subs' \in Seq(ServerSubscription) /\ DOMAIN subs' = {} /\ queue' \in Seq(PublishRequest)
    BY <1>1, <2>1
  <2> QED BY <1>1, <1>2, <1>3, <2>2, <2>3 DEF TypeOK
<1> QED BY <1>1, <1>4, <1>6, <1>7, <1>8 DEF Inv

LEMMA ReconnectKeeps ==
  ASSUME SubscriptionAssumption, Inv, Reconnect
  PROVE  Inv'
<1> DEFINE new == [NewClient EXCEPT !.request = client.request, !.gaveUp = client.gaveUp]
<1>1. /\ link = "none" /\ link' = "up" /\ client' = new
      /\ value' = value /\ wire' = wire
      /\ subs' = subs /\ lastSub' = lastSub /\ queue' = queue /\ delayed' = delayed
      /\ got' = got /\ seen' = seen /\ early' = early
  BY DEF Reconnect, server, history
<1>2. /\ TypeOK /\ WireFine(wire, link, lastSub, got, seen) /\ NoneYet(lastSub, got, seen)
      /\ subs = <<>>
  BY <1>1 DEF Inv
<1>3. new \in Client
  <2>1. client.request \in 0 .. MaxRequest /\ client.gaveUp \in 0 .. MaxGiveUp
    BY <1>2, Typed DEF Client
  <2>2. <<>> \in Acks
    BY DEF Acks
  <2> QED BY <2>1, <2>2 DEF NewClient, Client
<1> HIDE DEF new
<1>4. \A j \in DOMAIN wire : ~wire[j].good
  BY <1>1, <1>2 DEF WireFine
<1>5. WireFine(wire, "up", lastSub, got, seen)
  BY <1>4 DEF WireFine, Tells
<1>6. ListFine(subs, wire, value, got, seen, client', early)
  BY <1>2 DEF ListFine, Unique
<1>7. TypeOK'
  BY <1>1, <1>2, <1>3 DEF TypeOK
<1> QED BY <1>1, <1>2, <1>5, <1>6, <1>7 DEF Inv

LEMMA AnswerDelayedKeeps ==
  ASSUME SubscriptionAssumption, Inv, AnswerDelayed
  PROVE  Inv'
<1> DEFINE nothing == [sub |-> 0, seq |-> 0, note |-> <<>>]
           refusals == [k \in DOMAIN queue |->
                          [request |-> queue[k].id, good |-> FALSE, results |-> queue[k].results,
                           message |-> nothing, more |-> FALSE]]
           new == wire \o refusals
<1>1. /\ delayed' = FALSE
      /\ \/ subs # <<>> /\ queue' = queue /\ wire' = wire
         \/ subs = <<>> /\ queue' = <<>> /\ wire' = new
      /\ value' = value /\ subs' = subs /\ lastSub' = lastSub /\ link' = link /\ client' = client
      /\ got' = got /\ seen' = seen /\ early' = early
  BY DEF AnswerDelayed, history
<1>2. TypeOK /\ WireFine(wire, link, lastSub, got, seen)
  BY DEF Inv
<1>3. /\ queue \in Seq(PublishRequest) /\ wire \in Seq(PublishResponse)
  BY <1>2, Typed
<1>4. CASE subs # <<>>
  <2>1. TypeOK'
    BY <1>1, <1>2, <1>4 DEF TypeOK
  <2> QED BY <1>1, <1>4, <2>1 DEF Inv
<1>5. CASE subs = <<>>
  <2>1. nothing \in Message
    <3>1. 0 \in 0 .. MaxSub /\ <<>> \in Seq(Notification)
      BY Constants
    <3> QED BY <3>1 DEF Message
  <2> HIDE DEF nothing
  <2>2. /\ DOMAIN queue = 1 .. Len(queue) /\ Len(queue) \in Nat
        /\ \A k \in DOMAIN queue : queue[k].id \in 1 .. MaxRequest /\ queue[k].results \in Results
    <3>1. /\ DOMAIN queue = 1 .. Len(queue) /\ Len(queue) \in Nat
          /\ \A k \in DOMAIN queue : queue[k] \in PublishRequest
      BY <1>3, ElementsOfSeq
    <3>2. \A q \in PublishRequest : q.id \in 1 .. MaxRequest /\ q.results \in Results
      BY DEF PublishRequest
    <3> QED BY <3>1, <3>2
  <2>3. \A k \in DOMAIN queue : refusals[k] \in PublishResponse /\ ~refusals[k].good
    BY <2>1, <2>2 DEF PublishResponse
  <2>4. refusals \in Seq(PublishResponse) /\ Len(refusals) = Len(queue)
    <3>1. DOMAIN refusals = 1 .. Len(queue)
      BY <2>2
    <3>2. refusals = [k \in 1 .. Len(queue) |-> refusals[k]]
      BY <2>2
    <3> HIDE DEF refusals
    <3>3. \A k \in 1 .. Len(queue) : refusals[k] \in PublishResponse
      BY <2>2, <2>3
    <3>4. refusals \in [1 .. Len(queue) -> PublishResponse]
      BY <3>2, <3>3
    <3> QED BY <2>2, <3>4
  <2> HIDE DEF refusals
  <2>5. /\ new \in Seq(PublishResponse) /\ Len(new) = Len(wire) + Len(refusals)
        /\ \A j \in 1 .. Len(wire) + Len(refusals) :
             new[j] = IF j <= Len(wire) THEN wire[j] ELSE refusals[j - Len(wire)]
    BY <1>3, <2>4, ConcatProperties
  <2> HIDE DEF new
  <2>6. \A j \in DOMAIN new : (j \in DOMAIN wire /\ new[j] = wire[j]) \/ ~new[j].good
    <3>1. DOMAIN new = 1 .. Len(wire) + Len(queue) /\ DOMAIN wire = 1 .. Len(wire) /\ Len(wire) \in Nat
      BY <1>3, <2>4, <2>5, ElementsOfSeq
    <3>2. ASSUME NEW j \in 1 .. Len(wire) + Len(queue), ~(j <= Len(wire))
          PROVE  ~new[j].good
      <4>1. j - Len(wire) \in DOMAIN queue
        BY <2>2, <3>1, <3>2
      <4>2. new[j] = refusals[j - Len(wire)]
        BY <2>4, <2>5, <3>2
      <4> QED BY <2>3, <4>1, <4>2
    <3>3. ASSUME NEW j \in 1 .. Len(wire) + Len(queue), j <= Len(wire)
          PROVE  j \in DOMAIN wire /\ new[j] = wire[j]
      <4>1. j \in 1 .. Len(wire)
        BY <3>1, <3>3
      <4> QED BY <2>4, <2>5, <3>1, <3>3, <4>1
    <3> QED BY <3>1, <3>2, <3>3
  <2>7. WireFine(new, link, lastSub, got, seen)
    BY <1>2, <2>6 DEF WireFine, Tells
  <2>8. ListFine(subs, new, value, got, seen, client, early)
    BY <1>5 DEF ListFine, Unique
  <2>9. queue' = <<>> /\ wire' = new
    BY <1>1, <1>5
  <2>10. TypeOK'
    <3>1. <<>> \in Seq(PublishRequest)
      OBVIOUS
    <3> QED BY <1>1, <1>2, <2>5, <2>9, <3>1 DEF TypeOK
  <2> QED BY <1>1, <2>7, <2>8, <2>9, <2>10 DEF Inv
<1> QED BY <1>4, <1>5

\* What publishing has made of the server.
LEMMA BecomesFine ==
  ASSUME SubscriptionAssumption, Inv, NEW s \in PublishStates(lastSub), Becomes(s), link # "none",
         client' \in Client, early' \in BOOLEAN,
         UNCHANGED <<value, lastSub, delayed, link, got, seen>>,
         WireFine(s.wire, link, lastSub, got, seen),
         ListFine(s.subs, s.wire, value, got, seen, client', early')
  PROVE  Inv'
<1>1. /\ value' = value /\ lastSub' = lastSub /\ delayed' = delayed /\ link' = link
      /\ got' = got /\ seen' = seen
      /\ subs' = s.subs /\ queue' = s.queue /\ wire' = s.wire
  BY DEF Becomes
<1>2. /\ s.subs \in Seq(Subscriptions(lastSub)) /\ s.queue \in Seq(PublishRequest)
      /\ s.wire \in Seq(PublishResponse)
  BY DEF PublishStates
<1>3. /\ subs' \in Seq(ServerSubscription)
      /\ \A k \in DOMAIN subs' : /\ subs'[k].id <= lastSub /\ subs'[k].life <= subs'[k].lifeTime
                                 /\ subs'[k].lastItem <= MaxItem[subs'[k].id]
  BY <1>1, <1>2, TypedList
<1>4. TypeOK'
  BY <1>1, <1>2, <1>3 DEF Inv, TypeOK
<1> QED BY <1>1, <1>4 DEF Inv

LEMMA PublishKeeps ==
  ASSUME SubscriptionAssumption, Inv, NEW id, Publish(id)
  PROVE  Inv'
<1> DEFINE s == Published(Present, At(id))
<1>1. /\ Exists(id) /\ Becomes(s) /\ UNCHANGED <<value, lastSub, delayed, link, client, history>>
  BY DEF Publish
<1>2. /\ client' = client /\ got' = got /\ seen' = seen /\ early' = early
  BY <1>1 DEF history
<1>3. /\ TypeOK /\ WireFine(wire, link, lastSub, got, seen)
      /\ ListFine(subs, wire, value, got, seen, client, early)
      /\ (link = "none" => subs = <<>>) /\ early \in BOOLEAN
  BY DEF Inv, TypeOK
<1>4. /\ subs \in Seq(Subscriptions(lastSub)) /\ queue \in Seq(PublishRequest)
      /\ wire \in Seq(PublishResponse) /\ client \in Client
      /\ seen \in [SubIds -> [ItemIds -> NoValue .. MaxValue]]
  BY <1>3, Typed
<1>5. At(id) \in DOMAIN subs /\ subs # <<>>
  BY <1>1, <1>4, FoundAt
<1>6. /\ Present \in PublishStates(lastSub) /\ Present.subs = subs /\ Present.wire = wire
  BY <1>4 DEF Present, PublishStates
<1> HIDE DEF s
<1>7. s \in PublishStates(lastSub)
  BY <1>5, <1>6, PublishedType DEF s
<1>8. /\ WireFine(s.wire, link, lastSub, got, seen)
      /\ ListFine(s.subs, s.wire, value, got, seen, client, early)
  BY <1>3, <1>4, <1>5, <1>6, PublishedFine DEF s
<1> QED BY <1>1, <1>2, <1>3, <1>4, <1>5, <1>7, <1>8, BecomesFine

LEMMA SendPublishKeeps ==
  ASSUME SubscriptionAssumption, Inv, SendPublish
  PROVE  Inv'
<1> DEFINE id == client.request + 1
           acks == client.acks
           s == Served(id, acks)
<1>1. /\ link = "up" /\ client.request < MaxRequest
      /\ client' = [client EXCEPT !.state = "waiting", !.request = id, !.sent = acks]
      /\ Becomes(s) /\ early' = (early \/ Premature(acks))
      /\ UNCHANGED <<value, lastSub, delayed, link, got, seen>>
  BY Zenon DEF SendPublish
<1>2. /\ TypeOK /\ WireFine(wire, link, lastSub, got, seen)
      /\ ListFine(subs, wire, value, got, seen, client, early)
  BY DEF Inv
<1>3. /\ subs \in Seq(Subscriptions(lastSub)) /\ queue \in Seq(PublishRequest)
      /\ wire \in Seq(PublishResponse) /\ client \in Client
      /\ seen \in [SubIds -> [ItemIds -> NoValue .. MaxValue]] /\ MaxRequest \in Nat
  BY <1>2, Typed, Constants
<1>4. id \in 1 .. MaxRequest /\ id \in 0 .. MaxRequest /\ acks \in Acks
  <2>1. client.request \in 0 .. MaxRequest /\ client.acks \in Acks
    BY <1>3 DEF Client
  <2> QED BY <1>1, <1>3, <2>1
<1> HIDE DEF id, acks
<1>5. /\ client' \in Client /\ client'.subs = client.subs /\ client'.items = client.items
  BY <1>1, <1>3, <1>4 DEF Client
<1>6. early' \in BOOLEAN /\ (early => early') /\ (early' \/ ~Premature(acks))
  BY <1>1
<1>7. ListFine(subs, wire, value, got, seen, client', early)
  BY <1>2, <1>5, FollowedStill
<1>8. s \in PublishStates(lastSub)
  BY <1>3, <1>4, ServedIs
<1>9. /\ WireFine(s.wire, link, lastSub, got, seen)
      /\ ListFine(s.subs, s.wire, value, got, seen, client', early')
  BY <1>2, <1>3, <1>4, <1>6, <1>7, ServedIs
<1> HIDE DEF s
<1> QED BY <1>1, <1>5, <1>6, <1>8, <1>9, BecomesFine

LEMMA ReceivedFine ==
  ASSUME SubscriptionAssumption, Inv, wire' \in Seq(PublishResponse), client' \in Client,
         client'.subs = client.subs, client'.items = client.items,
         UNCHANGED <<value, server, link, early>>,
         got' \in [SubIds -> SUBSET Nat], seen' \in [SubIds -> [ItemIds -> NoValue .. MaxValue]],
         NoneYet(lastSub, got', seen'), WireFine(wire', link, lastSub, got', seen'),
         ListFine(subs, wire', value, got', seen', client, early)
  PROVE  Inv'
<1>1. /\ value' = value /\ subs' = subs /\ lastSub' = lastSub /\ queue' = queue
      /\ delayed' = delayed /\ link' = link /\ early' = early
  BY DEF server
<1>2. TypeOK'
  BY <1>1 DEF Inv, TypeOK
<1>3. ListFine(subs, wire', value, got', seen', client', early)
  <2> DEFINE w == wire'
             g == got'
             t == seen'
             d == client'
  <2>1. /\ ListFine(subs, w, value, g, t, client, early) /\ d.subs = client.subs
        /\ d.items = client.items
    OBVIOUS
  <2> HIDE DEF w, g, t, d
  <2>2. ListFine(subs, w, value, g, t, d, early)
    BY <2>1, FollowedStill
  <2> QED BY <2>2 DEF w, g, t, d
<1> QED BY <1>1, <1>2, <1>3 DEF Inv

\* A response that tells the client nothing, or that it drops.
LEMMA NothingToldKeeps ==
  ASSUME SubscriptionAssumption, Inv, NEW n \in DOMAIN wire, wire' = SubSeq(wire, n + 1, Len(wire)),
         client' \in Client, client'.subs = client.subs, client'.items = client.items,
         UNCHANGED <<value, server, link, early>>, got' = got, seen' = seen
  PROVE  Inv'
<1>1. /\ TypeOK /\ WireFine(wire, link, lastSub, got, seen) /\ NoneYet(lastSub, got, seen)
      /\ ListFine(subs, wire, value, got, seen, client, early)
  BY DEF Inv
<1>2. wire \in Seq(PublishResponse)
  BY <1>1, Typed
<1> DEFINE w == SubSeq(wire, n + 1, Len(wire))
<1>3. w \in Seq(PublishResponse)
  BY <1>2, SuffixIs
<1>4. /\ WireFine(w, link, lastSub, got, seen)
      /\ ListFine(subs, w, value, got, seen, client, early)
  BY <1>1, <1>2, SuffixFine
<1> HIDE DEF w
<1>5. wire' = w /\ got' \in [SubIds -> SUBSET Nat] /\ seen' \in [SubIds -> [ItemIds -> NoValue .. MaxValue]]
  BY <1>1 DEF w, TypeOK
<1>6. /\ wire' \in Seq(PublishResponse) /\ NoneYet(lastSub, got', seen')
      /\ WireFine(wire', link, lastSub, got', seen')
      /\ ListFine(subs, wire', value, got', seen', client, early)
  BY <1>1, <1>3, <1>4, <1>5
<1> QED BY <1>5, <1>6, ReceivedFine

LEMMA PendingIs ==
  ASSUME client \in Client, NEW r
  PROVE  Pending(r) \in Acks
<1> DEFINE places == {k \in DOMAIN client.acks :
                        ~ \E i \in DOMAIN r.results :
                            client.sent[i] = client.acks[k] /\ r.results[i] \in {"good", "unknown"}}
<1>1. client.acks \in Seq([sub : SubIds, seq : Nat])
  BY DEF Client, Acks
<1>2. Pending(r) = Selected(client.acks, places)
  BY DEF Pending
<1> HIDE DEF places
<1> QED BY <1>1, <1>2, SelectedIs DEF Acks

\* A message is processed.
LEMMA ToldKeeps ==
  ASSUME SubscriptionAssumption, Inv, NEW n \in DOMAIN wire, wire' = SubSeq(wire, n + 1, Len(wire)),
         client' \in Client, client'.subs = client.subs, client'.items = client.items,
         UNCHANGED <<value, server, link, early>>,
         NEW m, m = wire[n].message, Tells(wire[n]), m.sub \in SubIds,
         got' = [got EXCEPT ![m.sub] = @ \cup {m.seq}],
         seen' = [seen EXCEPT ![m.sub] = Handled(m)]
  PROVE  Inv'
<1>1. /\ TypeOK /\ WireFine(wire, link, lastSub, got, seen) /\ NoneYet(lastSub, got, seen)
      /\ ListFine(subs, wire, value, got, seen, client, early)
  BY DEF Inv
<1>2. /\ wire \in Seq(PublishResponse) /\ subs \in Seq(Subscriptions(lastSub)) /\ lastSub \in Nat
      /\ got \in [SubIds -> SUBSET Nat] /\ seen \in [SubIds -> [ItemIds -> NoValue .. MaxValue]]
  BY <1>1, Typed
<1>3. m \in Message
  BY <1>2, TellingType
<1>4. m.seq \in Nat
  BY <1>3, MessageType
<1> DEFINE w == SubSeq(wire, n + 1, Len(wire))
           t == Handled(m)
           id == m.sub
           seq == m.seq
           h == [got EXCEPT ![id] = @ \cup {seq}]
           u == [seen EXCEPT ![id] = t]
<1>5. t \in [ItemIds -> NoValue .. MaxValue] /\ Heard(t, m, seen[id], client.items)
  BY <1>2, <1>3, HandledIs
<1> HIDE DEF t
<1>6. w \in Seq(PublishResponse)
  BY <1>2, SuffixIs
<1>7. /\ id \in SubIds /\ id \in DOMAIN got /\ id \in DOMAIN seen /\ wire[n].message.sub = id
      /\ wire[n].message.seq = seq /\ Heard(t, wire[n].message, seen[id], client.items)
  BY <1>2, <1>5
<1>8. id \in 1 .. lastSub
  BY <1>1, <1>7 DEF WireFine, Tells
<1> HIDE DEF id, seq
<1>9. WireFine(w, link, lastSub, h, u)
  BY <1>1, <1>2, <1>7, ProcessedWire
<1>10. ListFine(subs, w, value, h, u, client, early)
  BY <1>1, <1>2, <1>5, <1>7, ProcessedList
<1>11. h \in [SubIds -> SUBSET Nat] /\ u \in [SubIds -> [ItemIds -> NoValue .. MaxValue]]
  BY <1>2, <1>4, <1>5, <1>7 DEF seq
<1>12. NoneYet(lastSub, h, u)
  <2>1. \A i \in SubIds : i > lastSub => i # id
    BY <1>2, <1>8
  <2> QED BY <1>1, <2>1 DEF NoneYet
<1>13. wire' = w /\ got' = h /\ seen' = u
  BY DEF id, seq, t
<1> HIDE DEF w, h, u
<1>14. /\ wire' \in Seq(PublishResponse) /\ got' \in [SubIds -> SUBSET Nat]
       /\ seen' \in [SubIds -> [ItemIds -> NoValue .. MaxValue]]
       /\ NoneYet(lastSub, got', seen') /\ WireFine(wire', link, lastSub, got', seen')
       /\ ListFine(subs, wire', value, got', seen', client, early)
  BY <1>6, <1>9, <1>10, <1>11, <1>12, <1>13
<1> QED BY <1>14, ReceivedFine

\* What is left after the client has read a response, and what it notes.
LEMMA ReceiveIs ==
  ASSUME SubscriptionAssumption, Inv, NEW n, Receive(n)
  PROVE  /\ n \in DOMAIN wire /\ wire' = SubSeq(wire, n + 1, Len(wire))
         /\ client' \in Client /\ client'.subs = client.subs /\ client'.items = client.items
         /\ UNCHANGED <<value, server, link, early>>
         /\ \/ got' = got /\ seen' = seen
            \/ /\ Tells(wire[n]) /\ wire[n].message.sub \in SubIds
               /\ got' = [got EXCEPT ![wire[n].message.sub] = @ \cup {wire[n].message.seq}]
               /\ seen' = [seen EXCEPT ![wire[n].message.sub] = Handled(wire[n].message)]
<1> DEFINE r == wire[n]
           m == r.message
<1>1. /\ n \in DOMAIN wire /\ wire' = SubSeq(wire, n + 1, Len(wire))
      /\ UNCHANGED <<value, server, link, early>>
      /\ \/ Process(r)
         \/ UNCHANGED <<got, seen>> /\ client' = [client EXCEPT !.state = "idle"]
  BY DEF Receive
<1>2. /\ client \in Client /\ wire \in Seq(PublishResponse) /\ got \in [SubIds -> SUBSET Nat]
      /\ seen \in [SubIds -> [ItemIds -> NoValue .. MaxValue]]
  BY Typed DEF Inv
<1>3. m \in Message /\ m.seq \in Nat
  <2>1. m \in Message
    BY <1>1, <1>2, TellingType
  <2> QED BY <2>1, MessageType
<1>4. ASSUME client' = [client EXCEPT !.state = "idle"]
      PROVE  client' \in Client /\ client'.subs = client.subs /\ client'.items = client.items
  BY <1>2, <1>4 DEF Client
<1>5. CASE UNCHANGED <<got, seen>> /\ client' = [client EXCEPT !.state = "idle"]
  BY <1>1, <1>4, <1>5
<1>6. CASE Process(r)
  <2>1. CASE ~r.good \/ m.sub \notin client.subs
    <3>1. UNCHANGED <<got, seen>> /\ client' = [client EXCEPT !.state = "idle"]
      BY <1>6, <2>1 DEF Process
    <3> QED BY <1>5, <3>1
  <2>2. CASE r.good /\ m.sub \in client.subs
    <3> DEFINE state == IF r.more THEN "again" ELSE "idle"
               acks == <<[sub |-> m.sub, seq |-> m.seq]>> \o Pending(r)
    <3>1. /\ client' = [client EXCEPT !.state = state, !.acks = acks]
          /\ got' = [got EXCEPT ![m.sub] = IF m.note = <<>> THEN @ ELSE @ \cup {m.seq}]
          /\ seen' = [seen EXCEPT ![m.sub] = Handled(m)]
      BY Zenon, <1>6, <2>2 DEF Process
    <3>2. m.sub \in SubIds
      BY <1>2, <2>2 DEF Client
    <3>3. acks \in Acks
      <4>1. [sub |-> m.sub, seq |-> m.seq] \in [sub : SubIds, seq : Nat]
        BY <1>3, <3>2
      <4>2. Pending(r) \in Seq([sub : SubIds, seq : Nat])
        BY <1>2, PendingIs DEF Acks
      <4> QED BY <4>1, <4>2, ConsIs DEF Acks
    <3>4. state \in {"idle", "waiting", "again", "errored"}
      OBVIOUS
    <3> HIDE DEF state, acks
    <3>5. client' \in Client /\ client'.subs = client.subs /\ client'.items = client.items
      BY <1>2, <3>1, <3>3, <3>4 DEF Client
    <3>6. CASE m.note = <<>>
      <4>1. Handled(m) = seen[m.sub]
        BY <1>2, <1>3, <3>2, <3>6, HandledIs
      <4>2. got' = got /\ seen' = seen
        BY <1>2, <3>1, <3>6, <4>1
      <4> QED BY <1>1, <3>5, <4>2
    <3>7. CASE m.note # <<>>
      <4>1. Tells(r)
        BY <2>2, <3>7 DEF Tells
      <4>2. got' = [got EXCEPT ![m.sub] = @ \cup {m.seq}]
        BY <3>1, <3>7
      <4> QED BY <1>1, <3>1, <3>2, <3>5, <4>1, <4>2
    <3> QED BY <3>6, <3>7
  <2> QED BY <2>1, <2>2
<1> QED BY <1>1, <1>5, <1>6

LEMMA ReceiveKeeps ==
  ASSUME SubscriptionAssumption, Inv, NEW n, Receive(n)
  PROVE  Inv'
<1>1. CASE got' = got /\ seen' = seen
  BY <1>1, ReceiveIs, NothingToldKeeps
<1>2. CASE /\ Tells(wire[n]) /\ wire[n].message.sub \in SubIds
           /\ got' = [got EXCEPT ![wire[n].message.sub] = @ \cup {wire[n].message.seq}]
           /\ seen' = [seen EXCEPT ![wire[n].message.sub] = Handled(wire[n].message)]
  BY <1>2, ReceiveIs, ToldKeeps
<1> QED BY <1>1, <1>2, ReceiveIs

(***************************************************************************)
(* The theorems.                                                           *)
(***************************************************************************)

LEMMA InitInv ==
  ASSUME SubscriptionAssumption, Init
  PROVE  Inv
<1>1. /\ value = 0 /\ subs = <<>> /\ lastSub = 0 /\ queue = <<>> /\ delayed = FALSE
      /\ wire = <<>> /\ link = "up" /\ client = NewClient /\ early = FALSE
      /\ got = [id \in SubIds |-> {}]
      /\ seen = [id \in SubIds |-> [i \in ItemIds |-> NoValue]]
  BY DEF Init
<1>2. MaxValue \in Nat /\ MaxSub \in Nat /\ MaxRequest \in Nat /\ MaxGiveUp \in Nat
  BY Constants
<1>3. TypeOK
  <2>1. NewClient \in Client
    <3>1. <<>> \in Acks /\ 0 \in 0 .. MaxRequest /\ 0 \in 0 .. MaxGiveUp
      BY <1>2 DEF Acks
    <3> QED BY <3>1 DEF NewClient, Client
  <2>2. got \in [SubIds -> SUBSET Nat] /\ seen \in [SubIds -> [ItemIds -> NoValue .. MaxValue]]
    <3>1. NoValue \in NoValue .. MaxValue
      BY <1>2 DEF NoValue
    <3> QED BY <1>1, <3>1
  <2>3. /\ subs \in Seq(ServerSubscription) /\ DOMAIN subs = {} /\ queue \in Seq(PublishRequest)
        /\ wire \in Seq(PublishResponse)
    BY <1>1
  <2>4. value \in 0 .. MaxValue /\ lastSub \in 0 .. MaxSub
    BY <1>1, <1>2
  <2> QED BY <1>1, <2>1, <2>2, <2>3, <2>4 DEF TypeOK
<1>4. NoneYet(lastSub, got, seen)
  BY <1>1 DEF NoneYet
<1>5. WireFine(wire, link, lastSub, got, seen)
  BY <1>1 DEF WireFine
<1>6. ListFine(subs, wire, value, got, seen, client, early)
  BY <1>1 DEF ListFine, Unique
<1> QED BY <1>1, <1>3, <1>4, <1>5, <1>6 DEF Inv

LEMMA StutterInv ==
  ASSUME Inv, UNCHANGED vars
  PROVE  Inv'
<1>1. /\ value' = value /\ subs' = subs /\ lastSub' = lastSub /\ queue' = queue
      /\ delayed' = delayed /\ wire' = wire /\ link' = link /\ client' = client
      /\ got' = got /\ seen' = seen /\ early' = early
  BY DEF vars, server, history
<1>2. TypeOK'
  BY <1>1 DEF Inv, TypeOK
<1> QED BY <1>1, <1>2 DEF Inv

LEMMA NextInv ==
  ASSUME SubscriptionAssumption, Inv, [Next]_vars
  PROVE  Inv'
<1>1. CASE Services
  <2>1. ASSUME NEW on \in Modes, NEW s \in Settings, CreateSubscription(on, s) PROVE Inv'
    BY <2>1, CreateSubscriptionKeeps
  <2>2. ASSUME NEW id \in SubIds, NEW s \in Settings, ModifySubscription(id, s) PROVE Inv'
    BY <2>2, ModifySubscriptionKeeps
  <2>3. ASSUME NEW id \in SubIds, NEW on \in Modes, SetPublishingMode(id, on) PROVE Inv'
    BY <2>3, SetPublishingModeKeeps
  <2>4. ASSUME NEW id \in SubIds, NEW reporting \in Modes, NEW s \in ItemSettings,
               CreateItem(id, reporting, s)
        PROVE  Inv'
    BY <2>4, CreateItemKeeps
  <2>5. ASSUME NEW id \in SubIds, Republish(id) PROVE Inv'
    BY <2>5, RepublishKeeps
  <2>6. ASSUME NEW id \in SubIds, DeleteSubscription(id) PROVE Inv'
    BY <2>6, DeleteSubscriptionKeeps
  <2>7. ASSUME NEW id \in SubIds, NEW i \in ItemIds, NEW s \in ItemSettings, ModifyItem(id, i, s)
        PROVE  Inv'
    BY <2>7, ModifyItemKeeps
  <2>8. ASSUME NEW id \in SubIds, NEW i \in ItemIds, NEW reporting \in Modes,
               SetMonitoringMode(id, i, reporting)
        PROVE  Inv'
    BY <2>8, SetMonitoringModeKeeps
  <2>9. ASSUME NEW id \in SubIds, NEW i \in ItemIds, DeleteItem(id, i) PROVE Inv'
    BY <2>9, DeleteItemKeeps
  <2> QED BY <1>1, <2>1, <2>2, <2>3, <2>4, <2>5, <2>6, <2>7, <2>8, <2>9 DEF Services
<1>2. CASE Write
  BY <1>2, WriteKeeps
<1>3. ASSUME NEW id \in SubIds, Publish(id) PROVE Inv'
  BY <1>3, PublishKeeps
<1>4. ASSUME NEW id \in SubIds, NEW i \in ItemIds, Sample(id, i) PROVE Inv'
  BY <1>4, SampleKeeps
<1>5. CASE SendPublish
  BY <1>5, SendPublishKeeps
<1>6. CASE GiveUp
  BY <1>6, GiveUpKeeps
<1>7. CASE Close
  BY <1>7, CloseKeeps
<1>8. ASSUME NEW n \in 1 .. MaxRequest, Receive(n) PROVE Inv'
  BY <1>8, ReceiveKeeps
<1>9. CASE ExpireSession
  BY <1>9, ExpireSessionKeeps
<1>10. CASE Reconnect
  BY <1>10, ReconnectKeeps
<1>11. CASE AnswerDelayed
  BY <1>11, AnswerDelayedKeeps
<1>12. CASE UNCHANGED vars
  BY <1>12, StutterInv
<1> QED BY <1>1, <1>2, <1>3, <1>4, <1>5, <1>6, <1>7, <1>8, <1>9, <1>10, <1>11, <1>12 DEF Next

LEMMA Invariant ==
  ASSUME SubscriptionAssumption
  PROVE  Spec => []Inv
<1>1. Init => Inv
  BY InitInv
<1>2. Inv /\ [Next]_vars => Inv'
  BY NextInv
<1> QED BY <1>1, <1>2, PTL DEF Spec

\* The types, and with them the limits of the server: the identifiers handed out
\* stay within those of the session, the lifetime counter within the lifetime,
\* the limits of a subscription and of an item's queue within the configured
\* ones (setSubscriptionSettings, 23460-24638), and what is queued, under way
\* and remembered by the client is always well formed.
THEOREM TypesKept ==
  ASSUME SubscriptionAssumption
  PROVE  Spec => []TypeOK
<1>1. Inv => TypeOK
  BY DEF Inv
<1> QED BY <1>1, Invariant, PTL

\* Every number a subscription has used is that of a message the client has
\* processed or of one that the server retains and Republish can return, however
\* publishing, giving up, acknowledging, deleting and reconnecting interleave: a message
\* is retained when its number is used (23957-23965) and removed only by
\* an acknowledgement (23793-23824), which the client sends for what it processed (26424).
THEOREM RecoverableKept ==
  ASSUME SubscriptionAssumption
  PROVE  Spec => []Recoverable
<1>1. ASSUME Inv PROVE Recoverable
  <2>1. SUFFICES ASSUME ~early, MaxRetransmission = 0, NEW i \in DOMAIN subs,
                        NEW n \in 1 .. subs[i].seq
                 PROVE  n \in got[subs[i].id] \cup {m.seq : m \in ToSet(subs[i].retransmission)}
    BY DEF Recoverable
  <2>2. AllThere(subs[i], got[subs[i].id])
    BY <1>1, <2>1 DEF Inv, ListFine, SubFine, Retrievable
  <2>3. CASE n \in got[subs[i].id]
    BY <2>3
  <2>4. CASE \E k \in DOMAIN subs[i].retransmission : subs[i].retransmission[k].seq = n
    BY <2>4 DEF ToSet
  <2> QED BY <2>2, <2>3, <2>4 DEF AllThere
<1> QED BY <1>1, Invariant, PTL

\* The value the client holds of an item is the last one sampled, or that one is
\* the last in the queue of the item or in a message retained that the client
\* has not processed: no overflow of a queue (23514-23680), no limit on the
\* notifications of a message (23853-23866) and no lost answer makes
\* the client miss it for good.
THEOREM UpToDateKept ==
  ASSUME SubscriptionAssumption
  PROVE  Spec => []UpToDate
<1>1. ASSUME Inv PROVE UpToDate
  <2>1. SUFFICES ASSUME ~early, MaxRetransmission = 0, NEW i \in DOMAIN subs,
                        NEW k \in DOMAIN subs[i].items
                 PROVE  LET sub == subs[i]
                            item == sub.items[k]
                            sent == ToSet(sub.retransmission) \cup {wire[j].message : j \in DOMAIN wire}
                            newest == [item |-> item.id, value |-> item.last]
                        IN IF item.queue # <<>> THEN Last(item.queue) = item.last
                           ELSE \/ item.last = seen[sub.id][item.id]
                                \/ \E m \in sent : m.sub = sub.id /\ m.seq \notin got[sub.id]
                                                   /\ newest \in ToSet(m.note)
    BY DEF UpToDate
  <2> DEFINE sub == subs[i]
             item == sub.items[k]
  <2>2. /\ ItemsFine(sub, value, seen[sub.id]) /\ Numbers(sub, got[sub.id])
        /\ Retrievable(sub, got[sub.id], seen[sub.id])
    BY <1>1, <2>1 DEF Inv, ListFine, SubFine
  <2> HIDE DEF sub
  <2>3. item.queue # <<>> => Last(item.queue) = item.last
    BY <2>2 DEF ItemsFine, ItemFine, Last, sub
  <2>4. ASSUME item.queue = <<>>
        PROVE  \/ item.last = seen[sub.id][item.id]
               \/ Untold(sub, got[sub.id], item)
    BY <2>2, <2>4 DEF Retrievable, sub
  <2>5. ASSUME Untold(sub, got[sub.id], item)
        PROVE  \E m \in ToSet(sub.retransmission) :
                 /\ m.sub = sub.id /\ m.seq \notin got[sub.id]
                 /\ [item |-> item.id, value |-> item.last] \in ToSet(m.note)
    <3> HIDE DEF item
    <3>1. PICK q \in DOMAIN sub.retransmission :
            /\ sub.retransmission[q].seq \notin got[sub.id]
            /\ \E p \in DOMAIN sub.retransmission[q].note :
                 sub.retransmission[q].note[p] = [item |-> item.id, value |-> item.last]
      BY <2>5 DEF Untold
    <3>2. sub.retransmission[q] \in ToSet(sub.retransmission)
      BY DEF ToSet
    <3>3. sub.retransmission[q].sub = sub.id
      BY <2>2 DEF Numbers
    <3>4. [item |-> item.id, value |-> item.last] \in ToSet(sub.retransmission[q].note)
      BY <3>1 DEF ToSet
    <3> QED BY <3>1, <3>2, <3>3, <3>4
  <2> QED BY <2>3, <2>4, <2>5 DEF sub
<1> QED BY <1>1, Invariant, PTL

\* Only receiving a response and the end of the session change what the client was told.
LEMMA OthersTellNothing ==
  ASSUME [Next]_vars
  PROVE  \/ got' = got /\ seen' = seen
         \/ \E n \in 1 .. MaxRequest : Receive(n)
         \/ ExpireSession
<1>1. CASE Services
  <2>1. ASSUME NEW id,
               \/ \E s \in Settings : ModifySubscription(id, s)
               \/ \E on \in Modes : SetPublishingMode(id, on)
               \/ \E reporting \in Modes, s \in ItemSettings : CreateItem(id, reporting, s)
               \/ Republish(id) \/ DeleteSubscription(id)
        PROVE  UNCHANGED history
    BY <2>1 DEF ModifySubscription, SetPublishingMode, CreateItem, Republish, DeleteSubscription
  <2>2. ASSUME NEW id, NEW i,
               \/ \E s \in ItemSettings : ModifyItem(id, i, s)
               \/ \E reporting \in Modes : SetMonitoringMode(id, i, reporting)
               \/ DeleteItem(id, i)
        PROVE  UNCHANGED history
    BY <2>2 DEF ModifyItem, SetMonitoringMode, DeleteItem
  <2>3. ASSUME NEW on, NEW s, CreateSubscription(on, s) PROVE UNCHANGED history
    BY <2>3 DEF CreateSubscription
  <2>4. UNCHANGED history
    BY <1>1, <2>1, <2>2, <2>3 DEF Services
  <2> QED BY <2>4 DEF history
<1>2. ASSUME NEW id, Publish(id) \/ \E i \in ItemIds : Sample(id, i)
      PROVE  UNCHANGED history
  BY <1>2 DEF Publish, Sample
<1>3. ASSUME Write \/ GiveUp \/ Close \/ Reconnect \/ AnswerDelayed PROVE UNCHANGED history
  BY <1>3 DEF Write, GiveUp, Close, Reconnect, AnswerDelayed
<1>4. CASE SendPublish
  BY <1>4 DEF SendPublish
<1>5. CASE UNCHANGED vars
  BY <1>5 DEF vars, history
<1>6. ASSUME UNCHANGED history PROVE got' = got /\ seen' = seen
  BY <1>6 DEF history
<1> QED BY <1>1, <1>2, <1>3, <1>4, <1>5, <1>6 DEF Next

\* The numbers of the messages processed grow, whatever answers the client drops, and the values
\* told of an item are in the order of the samples as long as the session lasts:
\* what is taken from a queue is older than what is left in it (23673, 23853-23866), the
\* numbers are given in the order of sending (23954-23965), and the client
\* reads the answers in that order (26412).
THEOREM InOrderKept ==
  ASSUME SubscriptionAssumption
  PROVE  Spec => InOrder
<1> DEFINE Told == \A id \in SubIds :
                     /\ \A n \in got'[id] \ got[id] : \A g \in got[id] : g < n
                     /\ (link' = link) => \A i \in ItemIds : seen[id][i] <= seen'[id][i]
<1>1. ASSUME Inv, [Next]_vars PROVE Told
  <2>1. /\ wire \in Seq(PublishResponse) /\ got \in [SubIds -> SUBSET Nat]
        /\ seen \in [SubIds -> [ItemIds -> NoValue .. MaxValue]]
        /\ WireFine(wire, link, lastSub, got, seen)
    BY <1>1, Typed DEF Inv
  <2>2. \A id \in SubIds, i \in ItemIds : seen[id][i] \in Int
    <3>1. MaxValue \in Nat
      BY Constants
    <3> QED BY <2>1, <3>1 DEF NoValue
  <2>3. CASE got' = got /\ seen' = seen
    BY <2>2, <2>3
  <2>4. CASE ExpireSession
    <3>1. link' # link /\ \A id \in SubIds : got'[id] = {}
      BY <2>4 DEF ExpireSession
    <3> QED BY <3>1
  <2>5. ASSUME NEW n \in 1 .. MaxRequest, Receive(n) PROVE Told
    <3> DEFINE m == wire[n].message
    <3>1. CASE got' = got /\ seen' = seen
      BY <2>3, <3>1
    <3>2. CASE /\ Tells(wire[n]) /\ m.sub \in SubIds
               /\ got' = [got EXCEPT ![m.sub] = @ \cup {m.seq}]
               /\ seen' = [seen EXCEPT ![m.sub] = Handled(m)]
      <4>1. n \in DOMAIN wire
        BY <1>1, <2>5, ReceiveIs
      <4>2. m \in Message
        BY <2>1, <4>1, TellingType
      <4>3. NewsFine(m, got[m.sub], seen[m.sub])
        BY <2>1, <3>2, <4>1 DEF WireFine
      <4>4. Heard(Handled(m), m, seen[m.sub], client.items)
        BY <2>1, <3>2, <4>2, HandledIs
      <4> HIDE DEF m
      <4>5. ASSUME NEW id \in SubIds, NEW x \in got'[id] \ got[id], NEW g \in got[id] PROVE g < x
        <5>1. id = m.sub /\ x = m.seq
          BY <2>1, <3>2, <4>5
        <5> QED BY <4>3, <4>5, <5>1 DEF NewsFine
      <4>6. ASSUME NEW id \in SubIds, NEW i \in ItemIds PROVE seen[id][i] <= seen'[id][i]
        <5>1. CASE id # m.sub
          <6>1. seen'[id] = seen[id]
            BY <2>1, <3>2, <5>1
          <6> QED BY <2>2, <6>1
        <5>2. CASE id = m.sub
          <6>1. seen'[id][i] = Handled(m)[i]
            BY <2>1, <3>2, <5>2
          <6>2. \/ Handled(m)[i] = seen[id][i]
                \/ \E p \in DOMAIN m.note : m.note[p].item = i /\ Handled(m)[i] = m.note[p].value
            BY <4>4, <5>2 DEF Heard
          <6>3. \A p \in DOMAIN m.note : m.note[p].item = i => seen[id][i] <= m.note[p].value
            BY <4>3, <5>2 DEF NewsFine
          <6> QED BY <2>2, <6>1, <6>2, <6>3
        <5> QED BY <5>1, <5>2
      <4> QED BY <4>5, <4>6
    <3> QED BY <1>1, <2>5, <3>1, <3>2, ReceiveIs
  <2> HIDE DEF Told
  <2> QED BY <1>1, <2>3, <2>4, <2>5, OthersTellNothing
<1>2. Inv /\ [Next]_vars => [Told]_vars
  BY <1>1
<1>3. Spec => [][Told]_vars
  <2> HIDE DEF Told
  <2> QED BY <1>2, Invariant, PTL DEF Spec
<1> QED BY <1>3 DEF InOrder

=============================================================================
