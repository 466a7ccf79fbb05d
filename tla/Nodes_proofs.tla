---------------------------- MODULE Nodes_proofs ----------------------------
(***************************************************************************)
(* Proofs about the store of the nodes: the hash table is a map, for any   *)
(* hash, any primes and any sequence of insertions and removals, with the  *)
(* tombstones and the tables that are rebuilt in between.  And about how   *)
(* nodes are browsed: a walk over pages gives what one look would, for any *)
(* nodes, sizes of pages and interleavings.  And about references: their   *)
(* two sides agree, whatever is added and deleted.                         *)
(***************************************************************************)
EXTENDS NodeStore, Browsing, FiniteSetTheorems, SequenceTheorems, WellFoundedInduction, TLAPS

INSTANCE References

(***************************************************************************)
(* Numbers: a search comes to every slot, as the size is a prime.          *)
(***************************************************************************)

LEMMA LeastOf ==
  ASSUME NEW S, S \subseteq Nat, S # {}
  PROVE  \E d \in S : \A e \in S : d <= e
<1>1. \E d \in S : \A e \in S : ~(<<e, d>> \in OpToRel(<, Nat))
  BY NatLessThanWellFounded, WFMin
<1>2. PICK d \in S : \A e \in S : ~(<<e, d>> \in OpToRel(<, Nat))
  BY <1>1
<1>3. ASSUME NEW e \in S PROVE d <= e
  <2>1. ~(e < d)
    BY <1>2 DEF OpToRel
  <2> QED BY <2>1
<1> QED BY <1>3

LEMMA FirstOf ==
  ASSUME NEW S, S \subseteq Nat, S # {}
  PROVE  First(S) \in S /\ \A e \in S : First(S) <= e
BY LeastOf DEF First

LEMMA TurnInRange ==
  ASSUME NEW start \in Nat, NEW step \in Nat, NEW p \in Nat \ {0}, NEW k \in Nat
  PROVE  Turn(start, step, p, k) \in 0 .. p - 1
<1>1. k * step \in Nat
  OBVIOUS
<1>2. \A n \in Nat : n % p \in 0 .. p - 1
  OBVIOUS
<1> QED BY <1>1, <1>2 DEF Turn

LEMMA Divides ==
  ASSUME NEW p \in Nat \ {0}, NEW q \in Nat
  PROVE  (p * q) % p = 0
OBVIOUS

LEMMA SameRemainder ==
  ASSUME NEW p \in Nat \ {0}, NEW a \in Nat, NEW b \in Nat, a <= b, a % p = b % p
  PROVE  (b - a) % p = 0
<1>1. a = p * (a \div p) + (a % p) /\ a \div p \in Nat
  OBVIOUS
<1>2. b = p * (b \div p) + (b % p) /\ b \div p \in Nat
  OBVIOUS
<1> DEFINE q == (b \div p) - (a \div p)
           d == a \div p
           e == b \div p
<1>3. b - a = p * q
  <2> HIDE DEF d, e
  <2>1. a = p * d + (a % p) /\ b = p * e + (a % p) /\ d \in Nat /\ e \in Nat
    BY <1>1, <1>2 DEF d, e
  <2>2. p * e - p * d = p * (e - d)
    BY <2>1
  <2>3. p * d \in Nat /\ p * e \in Nat /\ (a % p) \in Nat
    BY <2>1
  <2> QED BY <2>1, <2>2, <2>3 DEF d, e
<1>4. q \in Nat
  <2> HIDE DEF q
  <2>1. q \in Int
    BY <1>1, <1>2 DEF q
  <2>2. SUFFICES ASSUME q < 0 PROVE FALSE
    BY <2>1
  <2>3. p * q < 0
    BY <2>1, <2>2
  <2> QED BY <1>3, <2>3
<1> HIDE DEF q, d, e
<1> QED BY <1>3, <1>4, Divides

LEMMA ElementsOfSeq ==
  ASSUME NEW S, NEW list \in Seq(S)
  PROVE  DOMAIN list = 1 .. Len(list) /\ Len(list) \in Nat /\ \A k \in DOMAIN list : list[k] \in S
OBVIOUS

LEMMA SizesType ==
  ASSUME SizeAssumption, NEW p \in Sizes
  PROVE  p \in Nat /\ p > 3
<1>1. PICK k \in DOMAIN Primes : p = Primes[k]
  BY DEF Sizes
<1> QED BY <1>1, ElementsOfSeq DEF SizeAssumption

LEMMA TurnInjective ==
  ASSUME PrimeAssumption, SizeAssumption,
         NEW p \in Sizes, NEW start \in Nat, NEW step \in 1 .. p - 1,
         NEW k \in 0 .. p - 1, NEW l \in 0 .. p - 1, k < l,
         Turn(start, step, p, k) = Turn(start, step, p, l)
  PROVE  FALSE
<1>1. p \in Nat \ {0}
  BY SizesType
<1>2. l - k \in 1 .. p - 1
  BY <1>1
<1> DEFINE a == start + k * step
           b == start + l * step
<1>3. a \in Nat /\ b \in Nat /\ a <= b /\ b - a = (l - k) * step
  <2>1. l = k + (l - k) /\ l - k \in Nat /\ k \in Nat /\ step \in Nat
    BY <1>1
  <2>2. l * step = k * step + (l - k) * step /\ k * step \in Nat /\ (l - k) * step \in Nat
    BY <2>1
  <2> QED BY <2>1, <2>2
<1>4. ((l - k) * step) % p = 0
  <2>1. a % p = b % p
    BY DEF Turn
  <2> HIDE DEF a, b
  <2>2. (b - a) % p = 0
    BY <1>1, <1>3, <2>1, SameRemainder
  <2> QED BY <1>3, <2>2
<1> QED BY <1>2, <1>4 DEF PrimeAssumption

\* As many different numbers as there are slots: each is among them.
LEMMA TurnEverywhere ==
  ASSUME PrimeAssumption, SizeAssumption,
         NEW p \in Sizes, NEW start \in Nat, NEW step \in 1 .. p - 1,
         NEW slot \in 0 .. p - 1
  PROVE  \E k \in 0 .. p - 1 : Turn(start, step, p, k) = slot
<1> DEFINE f == [k \in 0 .. p - 1 |-> Turn(start, step, p, k)]
<1>1. p \in Nat \ {0}
  BY SizesType
<1>2. f \in [0 .. p - 1 -> 0 .. p - 1]
  <2>1. step \in Nat
    BY <1>1
  <2>2. ASSUME NEW k \in 0 .. p - 1 PROVE Turn(start, step, p, k) \in 0 .. p - 1
    <3>1. k \in Nat /\ p \in Nat \ {0}
      BY <1>1
    <3> QED BY <2>1, <3>1, TurnInRange
  <2> QED BY <2>2
<1>3. ASSUME NEW k \in 0 .. p - 1, NEW l \in 0 .. p - 1, f[k] = f[l]
      PROVE  k = l
  <2>1. Turn(start, step, p, k) = Turn(start, step, p, l)
    BY <1>3
  <2>2. ~(k < l) /\ ~(l < k)
    BY <2>1, TurnInjective
  <2> QED BY <2>2, <1>1
<1>4. f \in Injection(0 .. p - 1, 0 .. p - 1)
  BY <1>2, <1>3 DEF Injection, IsInjective
<1>5. IsFiniteSet(0 .. p - 1)
  BY <1>1, FS_Interval
<1>6. f \in Surjection(0 .. p - 1, 0 .. p - 1)
  BY <1>4, <1>5, FS_Injection
<1> QED BY <1>6 DEF Surjection

LEMMA StepInRange ==
  ASSUME SizeAssumption, NEW p \in Sizes, NEW n \in Nat
  PROVE  StepOf(n, p) \in 1 .. p - 1
<1>1. p \in Nat /\ p > 3
  BY SizesType
<1>2. n % (p - 2) \in 0 .. p - 3
  BY <1>1
<1> QED BY <1>1, <1>2 DEF StepOf

LEMMA WayEverywhere ==
  ASSUME PrimeAssumption, SizeAssumption, IdAssumption, NEW p \in Sizes, NEW id \in Ids
  PROVE  /\ \A k \in 0 .. p - 1 : Way(id, p, k) \in 1 .. p
         /\ \A slot \in 1 .. p : \E k \in 0 .. p - 1 : Way(id, p, k) = slot
<1>1. p \in Nat /\ p > 3 /\ Hash[id] \in Nat
  BY SizesType DEF IdAssumption
<1>2. Hash[id] % p \in Nat /\ StepOf(Hash[id], p) \in 1 .. p - 1
  BY <1>1, StepInRange
<1>3. ASSUME NEW k \in 0 .. p - 1 PROVE Way(id, p, k) \in 1 .. p
  <2>1. Turn(Hash[id] % p, StepOf(Hash[id], p), p, k) \in 0 .. p - 1
    <3>1. StepOf(Hash[id], p) \in Nat /\ k \in Nat /\ p \in Nat \ {0}
      BY <1>1, <1>2
    <3> QED BY <1>2, <3>1, TurnInRange
  <2> QED BY <2>1, <1>1 DEF Way
<1>4. ASSUME NEW slot \in 1 .. p PROVE \E k \in 0 .. p - 1 : Way(id, p, k) = slot
  <2>1. \E k \in 0 .. p - 1 : Turn(Hash[id] % p, StepOf(Hash[id], p), p, k) = slot - 1
    BY SMTT(30), <1>1, <1>2, TurnEverywhere
  <2> QED BY <2>1, <1>1 DEF Way
<1> QED BY <1>3, <1>4

(***************************************************************************)
(* Tables, and the searches in them.                                       *)
(***************************************************************************)

Marks == {Null, Tombstone}
IsTable(t) == t \in Seq(Ids \cup Marks) /\ Len(t) \in Sizes
Taken(t) == {slot \in DOMAIN t : t[slot] \notin Marks}
Holds(t, id) == \E slot \in DOMAIN t : t[slot] = id

\* The id is in one slot at most, and a search for it does not stop before.
Once(t, id) == \A i, j \in DOMAIN t : t[i] = id /\ t[j] = id => i = j
OnWay(t, id) ==
  \A slot \in DOMAIN t : t[slot] = id =>
    \E k \in 0 .. Len(t) - 1 :
      Way(id, Len(t), k) = slot /\ \A j \in 0 .. k - 1 : t[Way(id, Len(t), j)] # Null

Good(t, but) == \A id \in Ids \ but : Once(t, id) /\ OnWay(t, id)

LEMMA TableType ==
  ASSUME SizeAssumption, NEW t, IsTable(t)
  PROVE  /\ DOMAIN t = 1 .. Len(t) /\ Len(t) \in Nat /\ Len(t) > 3
         /\ \A slot \in DOMAIN t : t[slot] \in Ids \cup Marks
         /\ IsFiniteSet(DOMAIN t) /\ Cardinality(DOMAIN t) = Len(t)
         /\ IsFiniteSet(Taken(t)) /\ Cardinality(Taken(t)) \in Nat
<1>1. /\ DOMAIN t = 1 .. Len(t) /\ Len(t) \in Nat
      /\ \A slot \in DOMAIN t : t[slot] \in Ids \cup Marks
  BY ElementsOfSeq DEF IsTable
<1>2. Len(t) > 3
  BY SizesType DEF IsTable
<1>3. IsFiniteSet(DOMAIN t) /\ Cardinality(DOMAIN t) = Len(t)
  BY <1>1, <1>2, FS_Interval
<1>4. Taken(t) \in SUBSET DOMAIN t
  BY DEF Taken
<1>5. IsFiniteSet(Taken(t))
  BY <1>3, <1>4, FS_Subset
<1>6. Cardinality(Taken(t)) \in Nat
  BY <1>5, FS_CardinalityType
<1> QED BY <1>1, <1>2, <1>3, <1>5, <1>6

\* A search ends at the first slot on the way that is marked or holds the id, if any does.
LEMMA SearchEnds ==
  ASSUME PrimeAssumption, SizeAssumption, IdAssumption,
         NEW t, IsTable(t), NEW id \in Ids, NEW marks
  PROVE  \/ /\ SearchEnd(t, id, marks) = 0
            /\ \A slot \in DOMAIN t : t[slot] \notin marks \cup {id}
         \/ \E k \in 0 .. Len(t) - 1 :
              /\ SearchEnd(t, id, marks) = Way(id, Len(t), k)
              /\ Way(id, Len(t), k) \in DOMAIN t
              /\ t[Way(id, Len(t), k)] \in marks \cup {id}
              /\ \A j \in 0 .. k - 1 : t[Way(id, Len(t), j)] \notin marks \cup {id}
<1> DEFINE Ends(k) == t[Way(id, Len(t), k)] \in marks \cup {id}
           K == 0 .. Len(t) - 1
<1>1. /\ DOMAIN t = 1 .. Len(t) /\ Len(t) \in Sizes /\ Len(t) \in Nat
  BY TableType DEF IsTable
<1>2. /\ \A k \in K : Way(id, Len(t), k) \in DOMAIN t
      /\ \A slot \in DOMAIN t : \E k \in K : Way(id, Len(t), k) = slot
  BY <1>1, WayEverywhere
<1>3. SearchEnd(t, id, marks) =
        IF \A k \in K : ~Ends(k) THEN 0
        ELSE Way(id, Len(t), CHOOSE k \in K : Ends(k) /\ \A j \in 0 .. k - 1 : ~Ends(j))
  BY DEF SearchEnd
<1> HIDE DEF Ends
<1>4. CASE \A k \in K : ~Ends(k)
  <2>1. \A slot \in DOMAIN t : t[slot] \notin marks \cup {id}
    BY <1>2, <1>4 DEF Ends
  <2> QED BY <1>3, <1>4, <2>1
<1>5. CASE ~ \A k \in K : ~Ends(k)
  <2> DEFINE E == {k \in K : Ends(k)}
  <2>1. E \subseteq Nat /\ E # {}
    BY <1>1, <1>5
  <2>2. PICK d \in E : \A e \in E : d <= e
    BY <2>1, LeastOf
  <2>3. d \in K /\ Ends(d) /\ \A j \in 0 .. d - 1 : ~Ends(j)
    <3>1. d \in K /\ Ends(d)
      BY <2>2
    <3>2. ASSUME NEW j \in 0 .. d - 1 PROVE ~Ends(j)
      <4>1. j \in K /\ ~(d <= j)
        BY <1>1, <3>1
      <4> QED BY <4>1, <2>2
    <3> QED BY <3>1, <3>2
  <2>4. PICK k \in K : /\ Ends(k) /\ \A j \in 0 .. k - 1 : ~Ends(j)
                       /\ SearchEnd(t, id, marks) = Way(id, Len(t), k)
    BY <1>3, <1>5, <2>3
  <2> QED BY <1>2, <2>4 DEF Ends
<1> QED BY <1>4, <1>5

\* An id that lies on its own way is found, and only then.
LEMMA FindsWhatIsHeld ==
  ASSUME PrimeAssumption, SizeAssumption, IdAssumption,
         NEW t, IsTable(t), NEW id \in Ids, OnWay(t, id)
  PROVE  LET slot == findNode(t, id)
         IN (slot # 0 /\ t[slot] = id) <=> Holds(t, id)
<1> DEFINE s == findNode(t, id)
<1>1. \/ s = 0 /\ \A slot \in DOMAIN t : t[slot] \notin {Null} \cup {id}
      \/ \E k \in 0 .. Len(t) - 1 :
           /\ s = Way(id, Len(t), k) /\ s \in DOMAIN t /\ t[s] \in {Null} \cup {id}
           /\ \A j \in 0 .. k - 1 : t[Way(id, Len(t), j)] \notin {Null} \cup {id}
  BY SMTT(30), SearchEnds DEF findNode
<1>2. DOMAIN t = 1 .. Len(t) /\ Len(t) \in Nat
  BY TableType
<1> HIDE DEF s
<1>3. ASSUME s # 0, t[s] = id PROVE Holds(t, id)
  BY <1>1, <1>3 DEF Holds
<1>4. ASSUME Holds(t, id) PROVE s # 0 /\ t[s] = id
  <2>1. PICK slot \in DOMAIN t : t[slot] = id
    BY <1>4 DEF Holds
  <2>2. PICK i \in 0 .. Len(t) - 1 :
          Way(id, Len(t), i) = slot /\ \A j \in 0 .. i - 1 : t[Way(id, Len(t), j)] # Null
    BY <2>1 DEF OnWay
  <2>3. PICK k \in 0 .. Len(t) - 1 :
           /\ s = Way(id, Len(t), k) /\ s \in DOMAIN t /\ t[s] \in {Null} \cup {id}
           /\ \A j \in 0 .. k - 1 : t[Way(id, Len(t), j)] \notin {Null} \cup {id}
    BY <1>1, <2>1
  <2>4. s # 0
    BY <1>2, <2>3
  <2>5. ~(i < k)
    <3>1. SUFFICES ASSUME i < k PROVE FALSE
      OBVIOUS
    <3>2. i \in 0 .. k - 1
      BY <1>2, <3>1
    <3> QED BY <2>1, <2>2, <2>3, <3>2
  <2>6. CASE i = k
    BY <2>1, <2>2, <2>3, <2>4, <2>6
  <2>7. CASE k < i
    <3>1. k \in 0 .. i - 1
      BY <1>2, <2>7
    <3> QED BY <2>2, <2>3, <2>4, <3>1
  <2> QED BY <1>2, <2>5, <2>6, <2>7
<1> QED BY <1>3, <1>4 DEF s

\* While a slot is not taken, there is one for every id.
LEMMA SlotIsFound ==
  ASSUME PrimeAssumption, SizeAssumption, IdAssumption,
         NEW t, IsTable(t), Taken(t) # DOMAIN t, NEW id \in Ids
  PROVE  LET slot == findSlot(t, id)
         IN /\ slot \in DOMAIN t
            /\ t[slot] # id => slot \notin Taken(t)
            /\ \E k \in 0 .. Len(t) - 1 :
                 Way(id, Len(t), k) = slot /\ \A j \in 0 .. k - 1 : t[Way(id, Len(t), j)] # Null
<1> DEFINE s == findSlot(t, id)
<1>1. \/ s = 0 /\ \A slot \in DOMAIN t : t[slot] \notin {Null, Tombstone} \cup {id}
      \/ \E k \in 0 .. Len(t) - 1 :
           /\ s = Way(id, Len(t), k) /\ s \in DOMAIN t /\ t[s] \in {Null, Tombstone} \cup {id}
           /\ \A j \in 0 .. k - 1 : t[Way(id, Len(t), j)] \notin {Null, Tombstone} \cup {id}
  <2> DEFINE marks == {Null, Tombstone}
  <2> HIDE DEF marks
  <2>1. s = SearchEnd(t, id, marks)
    BY DEF findSlot, marks
  <2> HIDE DEF s
  <2>2. \/ s = 0 /\ \A slot \in DOMAIN t : t[slot] \notin marks \cup {id}
        \/ \E k \in 0 .. Len(t) - 1 :
             /\ s = Way(id, Len(t), k) /\ s \in DOMAIN t /\ t[s] \in marks \cup {id}
             /\ \A j \in 0 .. k - 1 : t[Way(id, Len(t), j)] \notin marks \cup {id}
    BY <2>1, SearchEnds, SMTT(30)
  <2> QED BY <2>2 DEF marks
<1>2. PICK slot \in DOMAIN t : t[slot] \in Marks
  BY DEF Taken
<1> HIDE DEF s
<1>3. PICK k \in 0 .. Len(t) - 1 :
           /\ s = Way(id, Len(t), k) /\ s \in DOMAIN t /\ t[s] \in {Null, Tombstone} \cup {id}
           /\ \A j \in 0 .. k - 1 : t[Way(id, Len(t), j)] \notin {Null, Tombstone} \cup {id}
  BY <1>1, <1>2 DEF Marks
<1>4. t[s] # id => s \notin Taken(t)
  BY <1>3 DEF Taken, Marks
<1>5. \A j \in 0 .. k - 1 : t[Way(id, Len(t), j)] # Null
  BY <1>3
<1> QED BY <1>3, <1>4, <1>5 DEF s

\* An id is put into a slot that is not taken.
LEMMA PutInto ==
  ASSUME PrimeAssumption, SizeAssumption, IdAssumption,
         NEW t, IsTable(t), NEW id \in Ids, NEW slot \in DOMAIN t, slot \notin Taken(t),
         NEW new, new = [t EXCEPT ![slot] = id]
  PROVE  /\ IsTable(new) /\ Len(new) = Len(t)
         /\ Taken(new) = Taken(t) \cup {slot}
         /\ Cardinality(Taken(new)) = Cardinality(Taken(t)) + 1
         /\ Holds(new, id)
         /\ \A other \in Ids \ {id} :
              /\ Holds(new, other) <=> Holds(t, other)
              /\ Once(t, other) => Once(new, other)
              /\ OnWay(t, other) => OnWay(new, other)
         /\ ~Holds(t, id) => Once(new, id)
         /\ ~Holds(t, id) /\ (\E k \in 0 .. Len(t) - 1 :
                                /\ Way(id, Len(t), k) = slot
                                /\ \A j \in 0 .. k - 1 : t[Way(id, Len(t), j)] # Null)
            => OnWay(new, id)
<1>1. /\ DOMAIN t = 1 .. Len(t) /\ Len(t) \in Nat /\ IsFiniteSet(Taken(t))
      /\ Cardinality(Taken(t)) \in Nat
  BY TableType
<1>2. new \in Seq(Ids \cup Marks) /\ Len(new) = Len(t) /\ DOMAIN new = DOMAIN t
  BY <1>1 DEF IsTable
<1>3. \A i \in DOMAIN t : new[i] = IF i = slot THEN id ELSE t[i]
  OBVIOUS
<1>4. id \notin Marks /\ t[slot] \in Marks /\ t[slot] # id
  BY DEF Marks, IdAssumption, Taken
<1>5. IsTable(new)
  BY <1>2 DEF IsTable
<1>6. Taken(new) = Taken(t) \cup {slot}
  BY <1>2, <1>3, <1>4 DEF Taken
<1>7. Cardinality(Taken(new)) = Cardinality(Taken(t)) + 1
  BY <1>1, <1>6, FS_AddElement
<1>8. Holds(new, id)
  BY <1>2, <1>3 DEF Holds
<1>9. ASSUME NEW other \in Ids \ {id}
      PROVE  /\ Holds(new, other) <=> Holds(t, other)
             /\ Once(t, other) => Once(new, other)
             /\ OnWay(t, other) => OnWay(new, other)
  <2>1. \A i \in DOMAIN t : new[i] = other <=> t[i] = other
    BY <1>3, <1>4 DEF Marks, IdAssumption
  <2>2. Holds(new, other) <=> Holds(t, other)
    BY <1>2, <2>1 DEF Holds
  <2>3. Once(t, other) => Once(new, other)
    BY <1>2, <2>1 DEF Once
  <2>4. ASSUME OnWay(t, other), NEW i \in DOMAIN new, new[i] = other
        PROVE  \E k \in 0 .. Len(new) - 1 :
                 /\ Way(other, Len(new), k) = i
                 /\ \A j \in 0 .. k - 1 : new[Way(other, Len(new), j)] # Null
    <3>1. PICK k \in 0 .. Len(t) - 1 :
                 /\ Way(other, Len(t), k) = i
                 /\ \A j \in 0 .. k - 1 : t[Way(other, Len(t), j)] # Null
      BY <1>2, <2>1, <2>4 DEF OnWay
    <3>2. ASSUME NEW j \in 0 .. k - 1
          PROVE  new[Way(other, Len(t), j)] # Null
      <4>1. j \in 0 .. Len(t) - 1
        BY <1>1
      <4>2. Way(other, Len(t), j) \in DOMAIN t
        BY <1>1, <4>1, WayEverywhere DEF IsTable
      <4> QED BY <1>3, <1>4, <3>1, <4>2 DEF Marks
    <3> QED BY <1>2, <3>1, <3>2
  <2>5. OnWay(t, other) => OnWay(new, other)
    BY <2>4 DEF OnWay
  <2> QED BY <2>2, <2>3, <2>5
<1>10. ASSUME ~Holds(t, id)
       PROVE  \A i \in DOMAIN new : new[i] = id <=> i = slot
  BY <1>2, <1>3, <1>10 DEF Holds
<1>11. ~Holds(t, id) => Once(new, id)
  BY <1>10 DEF Once
<1>12. ASSUME ~Holds(t, id), NEW k \in 0 .. Len(t) - 1, Way(id, Len(t), k) = slot,
              \A j \in 0 .. k - 1 : t[Way(id, Len(t), j)] # Null
       PROVE  OnWay(new, id)
  <2>1. ASSUME NEW j \in 0 .. k - 1
        PROVE  new[Way(id, Len(t), j)] # Null
    <3>1. j \in 0 .. Len(t) - 1
      BY <1>1
    <3>2. Way(id, Len(t), j) \in DOMAIN t
      BY <1>1, <3>1, WayEverywhere DEF IsTable
    <3> QED BY <1>3, <1>4, <1>12, <3>2 DEF Marks
  <2> QED BY <1>2, <1>10, <1>12, <2>1 DEF OnWay
<1> QED BY <1>2, <1>5, <1>6, <1>7, <1>8, <1>9, <1>11, <1>12

\* A tombstone takes the place of an id.
LEMMA Buried ==
  ASSUME PrimeAssumption, SizeAssumption, IdAssumption,
         NEW t, IsTable(t), NEW id \in Ids, NEW slot \in DOMAIN t, t[slot] = id,
         NEW new, new = [t EXCEPT ![slot] = Tombstone]
  PROVE  /\ IsTable(new) /\ Len(new) = Len(t)
         /\ Taken(new) = Taken(t) \ {slot} /\ slot \in Taken(t)
         /\ Cardinality(Taken(new)) = Cardinality(Taken(t)) - 1
         /\ Once(t, id) => ~Holds(new, id)
         /\ \A other \in Ids :
              /\ other # id => (Holds(new, other) <=> Holds(t, other))
              /\ Once(t, other) => Once(new, other)
              /\ OnWay(t, other) => OnWay(new, other)
<1>1. /\ DOMAIN t = 1 .. Len(t) /\ Len(t) \in Nat /\ IsFiniteSet(Taken(t))
      /\ Cardinality(Taken(t)) \in Nat
  BY TableType
<1>2. new \in Seq(Ids \cup Marks) /\ Len(new) = Len(t) /\ DOMAIN new = DOMAIN t
  BY <1>1 DEF IsTable, Marks
<1>3. \A i \in DOMAIN t : new[i] = IF i = slot THEN Tombstone ELSE t[i]
  OBVIOUS
<1>4. id \notin Marks /\ Tombstone \in Marks /\ Tombstone # Null
  BY DEF Marks, IdAssumption, Null, Tombstone
<1>5. IsTable(new)
  BY <1>2 DEF IsTable
<1>6. Taken(new) = Taken(t) \ {slot} /\ slot \in Taken(t)
  BY <1>2, <1>3, <1>4 DEF Taken
<1>7. Cardinality(Taken(new)) = Cardinality(Taken(t)) - 1
  BY <1>1, <1>6, FS_RemoveElement
<1>8. Once(t, id) => ~Holds(new, id)
  BY <1>2, <1>3, <1>4 DEF Once, Holds
<1>9. ASSUME NEW other \in Ids
      PROVE  /\ other # id => (Holds(new, other) <=> Holds(t, other))
             /\ Once(t, other) => Once(new, other)
             /\ OnWay(t, other) => OnWay(new, other)
  <2>1. \A i \in DOMAIN t : new[i] = other => t[i] = other
    BY <1>3, <1>4 DEF Marks, IdAssumption
  <2>2. other # id => (Holds(new, other) <=> Holds(t, other))
    BY <1>2, <1>3, <2>1 DEF Holds
  <2>3. Once(t, other) => Once(new, other)
    BY <1>2, <2>1 DEF Once
  <2>4. ASSUME OnWay(t, other), NEW i \in DOMAIN new, new[i] = other
        PROVE  \E k \in 0 .. Len(new) - 1 :
                 /\ Way(other, Len(new), k) = i
                 /\ \A j \in 0 .. k - 1 : new[Way(other, Len(new), j)] # Null
    <3>1. PICK k \in 0 .. Len(t) - 1 :
                 /\ Way(other, Len(t), k) = i
                 /\ \A j \in 0 .. k - 1 : t[Way(other, Len(t), j)] # Null
      BY <1>2, <2>1, <2>4 DEF OnWay
    <3>2. ASSUME NEW j \in 0 .. k - 1
          PROVE  new[Way(other, Len(t), j)] # Null
      <4>1. j \in 0 .. Len(t) - 1
        BY <1>1
      <4>2. Way(other, Len(t), j) \in DOMAIN t
        BY <1>1, <4>1, WayEverywhere DEF IsTable
      <4> QED BY <1>3, <1>4, <3>1, <4>2
    <3> QED BY <1>2, <3>1, <3>2
  <2>5. OnWay(t, other) => OnWay(new, other)
    BY <2>4 DEF OnWay
  <2> QED BY <2>2, <2>3, <2>5
<1> QED BY <1>2, <1>5, <1>6, <1>7, <1>8, <1>9

(***************************************************************************)
(* The table is rebuilt.                                                   *)
(***************************************************************************)

Emptied(size) == [table |-> Cleared(size), moved |-> 0, crashed |-> FALSE]

\* There is a function of the entries carried over so far; by contradiction, with the
\* least number of entries for which there is none.
LEMMA RehashSteps ==
  ASSUME NEW t, Len(t) \in Nat, NEW n, NEW size
  PROVE  \E f : /\ f[0] = Emptied(size)
                /\ \A i \in 1 .. Len(t) : f[i] = Carried(f[i - 1], n, t[i])
                /\ Rehash(t, n, size) = f[Len(t)]
<1> DEFINE Is(f, m) ==
             f = [i \in 0 .. m |-> IF i = 0 THEN Emptied(size) ELSE Carried(f[i - 1], n, t[i])]
           None == {m \in 0 .. Len(t) : ~ \E f : Is(f, m)}
<1>1. None = {}
  <2>1. SUFFICES ASSUME None # {} PROVE FALSE
    OBVIOUS
  <2>2. None \subseteq Nat
    OBVIOUS
  <2>3. PICK m \in None : \A k \in None : m <= k
    BY <2>1, <2>2, LeastOf
  <2>4. m \in 0 .. Len(t) /\ ~ \E f : Is(f, m)
    BY <2>3
  <2>5. CASE m = 0
    <3> DEFINE g == [i \in 0 .. 0 |-> Emptied(size)]
    <3>1. g = [i \in 0 .. 0 |-> IF i = 0 THEN Emptied(size) ELSE Carried(g[i - 1], n, t[i])]
      OBVIOUS
    <3> QED BY <3>1, <2>4, <2>5
  <2>6. CASE m # 0
    <3>1. m - 1 \in 0 .. Len(t) /\ m - 1 \notin None
      BY <2>3, <2>4, <2>6
    <3>2. PICK g : Is(g, m - 1)
      BY <3>1
    <3> DEFINE h == [i \in 0 .. m |-> IF i < m THEN g[i] ELSE Carried(g[m - 1], n, t[m])]
    <3>3. \A i \in 0 .. m - 1 :
            g[i] = IF i = 0 THEN Emptied(size) ELSE Carried(g[i - 1], n, t[i])
      BY <3>2
    <3>4. ASSUME NEW i \in 0 .. m
          PROVE  h[i] = IF i = 0 THEN Emptied(size) ELSE Carried(h[i - 1], n, t[i])
      <4>1. CASE i = 0
        BY <4>1, <2>4, <2>6, <3>3
      <4>2. CASE i # 0 /\ i < m
        <5>1. i - 1 \in 0 .. m /\ i - 1 < m /\ i \in 0 .. m - 1
          BY <4>2, <2>4
        <5>2. h[i] = g[i] /\ h[i - 1] = g[i - 1]
          BY <5>1, <4>2
        <5> QED BY <5>1, <5>2, <4>2, <3>3
      <4>3. CASE i = m
        <5>1. m - 1 \in 0 .. m /\ m - 1 < m
          BY <2>4, <2>6
        <5>2. h[m - 1] = g[m - 1] /\ h[m] = Carried(g[m - 1], n, t[m])
          BY <5>1, <2>4
        <5> QED BY <5>2, <4>3, <2>6
      <4> QED BY <4>1, <4>2, <4>3, <2>4
    <3>5. h = [i \in 0 .. m |-> h[i]]
      OBVIOUS
    <3> HIDE DEF h
    <3>6. Is(h, m)
      BY <3>4, <3>5
    <3> QED BY <3>6, <2>4
  <2> QED BY <2>5, <2>6
<1>2. \E f : Is(f, Len(t))
  BY <1>1
<1> DEFINE after == CHOOSE f : Is(f, Len(t))
<1>3. Is(after, Len(t))
  BY <1>2
<1>4. Rehash(t, n, size) = after[Len(t)]
  BY DEF Rehash, Emptied
<1> HIDE DEF after
<1>5. after[0] = Emptied(size) /\ \A i \in 1 .. Len(t) : after[i] = Carried(after[i - 1], n, t[i])
  BY <1>3
<1> QED BY <1>4, <1>5

Upto(t, i) == {slot \in Taken(t) : slot <= i}

\* What holds of the new table when the first i slots of the old one have been looked at.
Rebuilt(s, t, i, size, but) ==
  /\ s = [table |-> s.table, moved |-> s.moved, crashed |-> s.crashed]
  /\ IsTable(s.table) /\ Len(s.table) = size
  /\ s.moved = Cardinality(Taken(s.table)) /\ s.moved <= Cardinality(Taken(t))
  /\ s.crashed \in BOOLEAN /\ (s.crashed => but # {})
  /\ ~s.crashed =>
       /\ s.moved = Cardinality(Upto(t, i))
       /\ Good(s.table, but)
       /\ \A id \in Ids \ but : Holds(s.table, id) <=> \E slot \in 1 .. i : t[slot] = id

LEMMA UptoStep ==
  ASSUME SizeAssumption, NEW t, IsTable(t), NEW i \in 1 .. Len(t)
  PROVE  /\ i \notin Taken(t) => Upto(t, i) = Upto(t, i - 1)
         /\ i \in Taken(t) =>
              /\ Upto(t, i) = Upto(t, i - 1) \cup {i} /\ i \notin Upto(t, i - 1)
              /\ Cardinality(Upto(t, i)) = Cardinality(Upto(t, i - 1)) + 1
         /\ Cardinality(Upto(t, i)) <= Cardinality(Taken(t))
         /\ Cardinality(Upto(t, i)) \in Nat /\ Cardinality(Upto(t, i - 1)) \in Nat
<1>1. /\ DOMAIN t = 1 .. Len(t) /\ Len(t) \in Nat /\ IsFiniteSet(Taken(t))
      /\ Cardinality(Taken(t)) \in Nat
  BY TableType
<1>2. Taken(t) \subseteq 1 .. Len(t)
  BY <1>1 DEF Taken
<1>3. i \notin Taken(t) => Upto(t, i) = Upto(t, i - 1)
  BY <1>1, <1>2 DEF Upto
<1>4. i \in Taken(t) => Upto(t, i) = Upto(t, i - 1) \cup {i} /\ i \notin Upto(t, i - 1)
  BY <1>1, <1>2 DEF Upto
<1>5. Upto(t, i) \in SUBSET Taken(t) /\ Upto(t, i - 1) \in SUBSET Taken(t)
  BY DEF Upto
<1>6. /\ IsFiniteSet(Upto(t, i)) /\ IsFiniteSet(Upto(t, i - 1))
      /\ Cardinality(Upto(t, i)) <= Cardinality(Taken(t))
  BY <1>1, <1>5, FS_Subset
<1>7. Cardinality(Upto(t, i)) \in Nat /\ Cardinality(Upto(t, i - 1)) \in Nat
  BY <1>6, FS_CardinalityType
<1>8. i \in Taken(t) => Cardinality(Upto(t, i)) = Cardinality(Upto(t, i - 1)) + 1
  BY <1>4, <1>6, FS_AddElement
<1> QED BY <1>3, <1>4, <1>6, <1>7, <1>8

LEMMA RebuiltFirst ==
  ASSUME SizeAssumption, IdAssumption, NEW t, IsTable(t), NEW size \in Sizes, NEW but
  PROVE  Rebuilt(Emptied(size), t, 0, size, but)
<1> DEFINE c == Cleared(size)
<1>1. size \in Nat /\ size > 3
  BY SizesType
<1>2. c \in Seq(Ids \cup Marks) /\ Len(c) = size /\ DOMAIN c = 1 .. size
  BY <1>1 DEF Cleared, Marks
<1>3. \A slot \in DOMAIN c : c[slot] = Null
  BY DEF Cleared
<1>4. Null \notin Ids
  BY DEF IdAssumption
<1>5. IsTable(c) /\ Taken(c) = {}
  BY <1>2, <1>3 DEF IsTable, Taken, Marks
<1> HIDE DEF c
<1>6. Cardinality({}) = 0 /\ Cardinality(Taken(t)) \in Nat
  BY FS_EmptySet, TableType
<1>7. Upto(t, 0) = {}
  BY TableType DEF Upto, Taken
<1>8. \A id \in Ids : ~Holds(c, id) /\ Once(c, id) /\ OnWay(c, id)
  BY <1>3, <1>4 DEF Holds, Once, OnWay
<1>9. Emptied(size) = [table |-> c, moved |-> 0, crashed |-> FALSE]
  BY DEF Emptied, c
<1> DEFINE s == Emptied(size)
<1>10. s.table = c /\ s.moved = 0 /\ s.crashed = FALSE
  BY <1>9
<1>11. s = [table |-> s.table, moved |-> s.moved, crashed |-> s.crashed]
  BY <1>9, <1>10
<1>12. FALSE \in BOOLEAN
  OBVIOUS
<1>13. s.crashed \in BOOLEAN /\ ~s.crashed
  BY <1>10, <1>12
<1>14. Cardinality(Taken(c)) = 0 /\ Cardinality(Upto(t, 0)) = 0 /\ 0 <= Cardinality(Taken(t))
  BY <1>5, <1>6, <1>7
<1>15. Good(c, but)
  BY <1>8 DEF Good
<1>16. \A id \in Ids \ but : Holds(c, id) <=> \E slot \in 1 .. 0 : t[slot] = id
  BY <1>8
<1> HIDE DEF s
<1> QED BY <1>2, <1>5, <1>10, <1>11, <1>13, <1>14, <1>15, <1>16 DEF Rebuilt, s

LEMMA RebuiltNext ==
  ASSUME PrimeAssumption, SizeAssumption, IdAssumption, NEW t, IsTable(t), NEW but, Good(t, but),
         NEW size \in Sizes, Cardinality(Taken(t)) < size,
         NEW i \in 1 .. Len(t), NEW s, Rebuilt(s, t, i - 1, size, but)
  PROVE  Rebuilt(Carried(s, Cardinality(Taken(t)), t[i]), t, i, size, but)
<1> DEFINE n == Cardinality(Taken(t))
           new == Carried(s, n, t[i])
           id == t[i]
<1>1. /\ DOMAIN t = 1 .. Len(t) /\ Len(t) \in Nat /\ IsFiniteSet(Taken(t)) /\ n \in Nat
      /\ t[i] \in Ids \cup Marks
  BY TableType
<1>2. \A slot \in 1 .. i : slot = i \/ slot \in 1 .. i - 1
  BY <1>1
<1>3. CASE t[i] \in Marks
  <2>1. new = s
    BY <1>3 DEF Carried, Marks
  <2>2. i \notin Taken(t)
    BY <1>3 DEF Taken
  <2>3. Upto(t, i) = Upto(t, i - 1)
    BY <2>2, UptoStep
  <2>4. \A x \in Ids : (\E slot \in 1 .. i : t[slot] = x) <=> (\E slot \in 1 .. i - 1 : t[slot] = x)
    BY <1>1, <1>2, <1>3 DEF IdAssumption, Marks
  <2> QED BY <2>1, <2>3, <2>4 DEF Rebuilt
<1>4. CASE t[i] \notin Marks
  <2>1. i \in Taken(t) /\ id \in Ids
    BY <1>1, <1>4 DEF Taken
  <2>2. /\ Cardinality(Upto(t, i)) = Cardinality(Upto(t, i - 1)) + 1
        /\ Cardinality(Upto(t, i)) <= n
        /\ Cardinality(Upto(t, i)) \in Nat /\ Cardinality(Upto(t, i - 1)) \in Nat
    BY <2>1, UptoStep
  <2>3. /\ IsTable(s.table) /\ Len(s.table) = size
        /\ s.moved = Cardinality(Taken(s.table)) /\ s.moved <= n
    BY DEF Rebuilt
  <2>4. /\ Cardinality(DOMAIN s.table) = size /\ s.moved \in Nat
    BY <2>3, TableType
  <2>5. Taken(s.table) # DOMAIN s.table
    BY <1>1, <2>3, <2>4, SizesType
  <2>6. CASE s.moved >= n
    <3>1. new = s
      BY <2>6 DEF Carried
    <3>2. s.crashed
      <4>1. SUFFICES ASSUME ~s.crashed PROVE FALSE
        OBVIOUS
      <4>2. s.moved = Cardinality(Upto(t, i - 1))
        BY <4>1 DEF Rebuilt
      <4> QED BY <4>2, <1>1, <2>2, <2>4, <2>6
    <3> QED BY <3>1, <3>2 DEF Rebuilt
  <2>7. CASE ~(s.moved >= n)
    <3> DEFINE slot == findSlot(s.table, id)
    <3>1. new = MovedTo(s, id)
      BY <1>4, <2>7 DEF Carried, Marks
    <3>2. /\ slot \in DOMAIN s.table
          /\ s.table[slot] # id => slot \notin Taken(s.table)
          /\ \E k \in 0 .. Len(s.table) - 1 :
               /\ Way(id, Len(s.table), k) = slot
               /\ \A j \in 0 .. k - 1 : s.table[Way(id, Len(s.table), j)] # Null
      BY <2>1, <2>3, <2>5, SlotIsFound
    <3>3. new = IF s.table[slot] = id THEN [s EXCEPT !.crashed = TRUE]
                ELSE [s EXCEPT !.table[slot] = id, !.moved = @ + 1]
      BY <3>1 DEF MovedTo
    <3>4. ~s.crashed /\ id \notin but => ~Holds(s.table, id)
      <4>1. SUFFICES ASSUME ~s.crashed, id \notin but, Holds(s.table, id) PROVE FALSE
        OBVIOUS
      <4>2. PICK before \in 1 .. i - 1 : t[before] = id
        BY <4>1, <2>1 DEF Rebuilt
      <4>3. before = i
        BY <1>1, <2>1, <4>1, <4>2 DEF Good, Once
      <4> QED BY <1>1, <4>3
    <3> HIDE DEF slot
    <3>5. CASE s.table[slot] = id
      <4>1. new = [table |-> s.table, moved |-> s.moved, crashed |-> TRUE]
        BY <3>3, <3>5 DEF Rebuilt
      <4>2. but # {}
        <5>1. Holds(s.table, id)
          BY <3>2, <3>5 DEF Holds
        <5> QED BY <5>1, <3>4 DEF Rebuilt
      <4> QED BY <4>1, <4>2 DEF Rebuilt
    <3>6. CASE s.table[slot] # id
      <4> DEFINE u == [s.table EXCEPT ![slot] = id]
      <4>1. new = [table |-> u, moved |-> s.moved + 1, crashed |-> s.crashed]
        BY <3>3, <3>6 DEF Rebuilt
      <4>2. u = [s.table EXCEPT ![slot] = id]
        OBVIOUS
      <4> HIDE DEF u
      <4>3. /\ IsTable(u) /\ Len(u) = Len(s.table)
            /\ Cardinality(Taken(u)) = Cardinality(Taken(s.table)) + 1
            /\ Holds(u, id)
            /\ \A other \in Ids \ {id} :
                 /\ Holds(u, other) <=> Holds(s.table, other)
                 /\ Once(s.table, other) => Once(u, other)
                 /\ OnWay(s.table, other) => OnWay(u, other)
            /\ ~Holds(s.table, id) => Once(u, id)
            /\ ~Holds(s.table, id) => OnWay(u, id)
        BY SMTT(30), <2>1, <2>3, <3>2, <3>6, <4>2, PutInto
      <4>4. s.moved + 1 <= n
        BY <1>1, <2>4, <2>7
      <4>5. ASSUME ~s.crashed
            PROVE  /\ s.moved + 1 = Cardinality(Upto(t, i)) /\ Good(u, but)
                   /\ \A x \in Ids \ but : Holds(u, x) <=> \E at \in 1 .. i : t[at] = x
        <5>1. /\ s.moved = Cardinality(Upto(t, i - 1)) /\ Good(s.table, but)
              /\ \A x \in Ids \ but : Holds(s.table, x) <=> \E at \in 1 .. i - 1 : t[at] = x
          BY <4>5 DEF Rebuilt
        <5>2. ASSUME NEW x \in Ids \ but
              PROVE  Once(u, x) /\ OnWay(u, x) /\ (Holds(u, x) <=> \E at \in 1 .. i : t[at] = x)
          <6>1. CASE x = id
            BY <6>1, <4>3, <3>4, <4>5, <1>1
          <6>2. CASE x # id
            <7>1. (\E at \in 1 .. i : t[at] = x) <=> (\E at \in 1 .. i - 1 : t[at] = x)
              BY <1>1, <1>2, <6>2
            <7> QED BY <7>1, <6>2, <5>1, <4>3 DEF Good
          <6> QED BY <6>1, <6>2
        <5> QED BY <5>1, <5>2, <2>2 DEF Good
      <4>6. s.crashed \in BOOLEAN /\ (s.crashed => but # {})
        BY DEF Rebuilt
      <4> QED BY <4>1, <4>3, <4>4, <4>5, <4>6, <2>3 DEF Rebuilt
    <3> QED BY <3>5, <3>6
  <2> QED BY <2>6, <2>7
<1> QED BY <1>3, <1>4

\* A table that is rebuilt holds what the old one held, with as many entries; and only ids
\* that were inserted twice can crash it.
LEMMA RehashKeeps ==
  ASSUME PrimeAssumption, SizeAssumption, IdAssumption, NEW t, IsTable(t), NEW but, Good(t, but),
         NEW size \in Sizes, Cardinality(Taken(t)) < size
  PROVE  LET s == Rehash(t, Cardinality(Taken(t)), size)
         IN /\ IsTable(s.table) /\ Len(s.table) = size
            /\ s.crashed \in BOOLEAN /\ (s.crashed => but # {})
            /\ ~s.crashed =>
                 /\ Cardinality(Taken(s.table)) = Cardinality(Taken(t)) /\ Good(s.table, but)
                 /\ \A id \in Ids \ but : Holds(s.table, id) <=> Holds(t, id)
<1> DEFINE n == Cardinality(Taken(t))
<1>1. DOMAIN t = 1 .. Len(t) /\ Len(t) \in Nat /\ Len(t) > 3
  BY TableType
<1>2. PICK f : /\ f[0] = Emptied(size)
               /\ \A i \in 1 .. Len(t) : f[i] = Carried(f[i - 1], n, t[i])
               /\ Rehash(t, n, size) = f[Len(t)]
  BY <1>1, RehashSteps
<1> DEFINE Wrong == {i \in 0 .. Len(t) : ~Rebuilt(f[i], t, i, size, but)}
<1>3. Wrong = {}
  <2>1. SUFFICES ASSUME Wrong # {} PROVE FALSE
    OBVIOUS
  <2>2. Wrong \subseteq Nat
    BY <1>1
  <2>3. PICK i \in Wrong : \A j \in Wrong : i <= j
    BY <2>1, <2>2, LeastOf
  <2>4. i # 0
    BY <1>2, <2>3, RebuiltFirst
  <2>5. i \in 1 .. Len(t) /\ i - 1 \in 0 .. Len(t) /\ i - 1 \notin Wrong
    BY <1>1, <2>3, <2>4
  <2>6. Rebuilt(f[i - 1], t, i - 1, size, but)
    BY <2>5
  <2>7. Rebuilt(f[i], t, i, size, but)
    BY <1>2, <2>5, <2>6, RebuiltNext
  <2> QED BY <2>3, <2>7
<1> DEFINE s == Rehash(t, n, size)
<1>4. Rebuilt(s, t, Len(t), size, but)
  <2>1. Len(t) \in 0 .. Len(t) /\ Len(t) \notin Wrong
    BY <1>1, <1>3
  <2> QED BY <2>1, <1>2
<1> HIDE DEF s
<1>5. Upto(t, Len(t)) = Taken(t)
  BY <1>1 DEF Upto, Taken
<1>6. \A id : Holds(t, id) <=> \E slot \in 1 .. Len(t) : t[slot] = id
  BY <1>1 DEF Holds
<1>7. IsTable(s.table) /\ Len(s.table) = size /\ s.crashed \in BOOLEAN /\ (s.crashed => but # {})
  BY <1>4 DEF Rebuilt
<1>8. ASSUME ~s.crashed
      PROVE  /\ Cardinality(Taken(s.table)) = n /\ Good(s.table, but)
             /\ \A id \in Ids \ but : Holds(s.table, id) <=> Holds(t, id)
  BY <1>4, <1>5, <1>6, <1>8 DEF Rebuilt
<1> QED BY <1>7, <1>8 DEF s

LEMMA HigherPrimeIs ==
  ASSUME SizeAssumption, NEW n \in Nat, \E p \in Sizes : p >= n
  PROVE  HigherPrime(n) \in Sizes /\ HigherPrime(n) >= n
<1> DEFINE K == {k \in DOMAIN Primes : Primes[k] >= n}
<1>1. DOMAIN Primes \subseteq Nat
  BY ElementsOfSeq DEF SizeAssumption
<1>2. K # {} /\ K \subseteq Nat
  BY <1>1 DEF Sizes
<1>3. First(K) \in K
  BY <1>2, FirstOf
<1>4. HigherPrime(n) = Primes[First(K)]
  BY DEF HigherPrime
<1> HIDE DEF K
<1>5. First(K) \in DOMAIN Primes /\ Primes[First(K)] >= n
  BY <1>3 DEF K
<1> QED BY <1>4, <1>5 DEF Sizes

(***************************************************************************)
(* The table holds what a map would, and a slot is left for one node more. *)
(***************************************************************************)

Stores(t, n, ids, but) ==
  /\ IsTable(t) /\ n = Cardinality(Taken(t)) /\ n < Len(t)
  /\ Good(t, but)
  /\ \A id \in Ids \ but : Holds(t, id) <=> id \in ids

\* Rebuilding it loses nothing, and makes room.
LEMMA ExpandedKeeps ==
  ASSUME PrimeAssumption, SizeAssumption, IdAssumption,
         NEW t, NEW n, NEW ids, NEW but, Stores(t, n, ids, but),
         \E p \in Sizes : p >= n * 2, NEW fails \in BOOLEAN
  PROVE  LET e == Expanded(t, n, fails)
         IN /\ e.crashed => but # {}
            /\ ~e.crashed => Stores(e.table, n, ids, but)
            /\ ~e.crashed /\ e.good => n + 1 < Len(e.table)
<1> DEFINE e == Expanded(t, n, fails)
<1>1. IsTable(t) /\ n = Cardinality(Taken(t)) /\ n \in Nat /\ Len(t) \in Nat /\ Len(t) > 3
  BY TableType DEF Stores
<1>2. CASE Fits(n, Len(t)) \/ fails
  <2>1. e = [table |-> t, good |-> Fits(n, Len(t)), crashed |-> FALSE]
    BY <1>2 DEF Expanded
  <2> HIDE DEF e
  <2>2. e.table = t /\ ~e.crashed /\ (e.good => Fits(n, Len(t)))
    BY <2>1
  <2>3. Fits(n, Len(t)) => n + 1 < Len(t)
    BY <1>1 DEF Fits
  <2> QED BY <2>2, <2>3 DEF e
<1>3. CASE ~(Fits(n, Len(t)) \/ fails)
  <2> DEFINE size == HigherPrime(n * 2)
             s == Rehash(t, n, size)
  <2>1. size \in Sizes /\ size >= n * 2 /\ size \in Nat /\ size > 3
    BY <1>1, HigherPrimeIs, SizesType
  <2>2. e = [table |-> s.table, good |-> TRUE, crashed |-> s.crashed]
    BY <1>3 DEF Expanded
  <2> HIDE DEF size
  <2>3. n + 1 < size
    BY <1>1, <2>1
  <2>4. Good(t, but) /\ Cardinality(Taken(t)) < size
    BY <1>1, <2>1, <2>3 DEF Stores
  <2>5. /\ IsTable(s.table) /\ Len(s.table) = size
        /\ s.crashed => but # {}
        /\ ~s.crashed =>
             /\ Cardinality(Taken(s.table)) = n /\ Good(s.table, but)
             /\ \A id \in Ids \ but : Holds(s.table, id) <=> Holds(t, id)
    BY <1>1, <2>1, <2>4, RehashKeeps
  <2> HIDE DEF s, e
  <2>6. e.table = s.table /\ e.crashed = s.crashed
    BY <2>2
  <2>7. n < size
    BY <1>1, <2>1, <2>3
  <2>8. ~s.crashed => Stores(s.table, n, ids, but)
    BY <2>5, <2>7 DEF Stores
  <2> QED BY <2>3, <2>5, <2>6, <2>8 DEF e
<1> QED BY <1>2, <1>3

\* Not every number below the size is in the table, so that one is met that is not: else
\* there were as many nodes as slots.
LEMMA NumberIsNew ==
  ASSUME PrimeAssumption, SizeAssumption, IdAssumption,
         NEW t, IsTable(t), Cardinality(Taken(t)) < Len(t), count \in Nat
  PROVE  NewNumber(t) \in Ids /\ t[findSlot(t, NewNumber(t))] # NewNumber(t)
<1> DEFINE size == Len(t)
           Number(k) == Turn(count + 1, StepOf(count + 1, size), size, k)
           K == {k \in 0 .. size - 1 : t[findSlot(t, Number(k))] # Number(k)}
<1>1. /\ DOMAIN t = 1 .. size /\ size \in Nat /\ size > 3 /\ size \in Sizes
      /\ IsFiniteSet(Taken(t)) /\ Cardinality(Taken(t)) \in Nat
      /\ Cardinality(DOMAIN t) = size
  BY TableType DEF IsTable
<1>2. Taken(t) # DOMAIN t
  BY <1>1
<1>3. count + 1 \in Nat /\ StepOf(count + 1, size) \in 1 .. size - 1
  <2>1. count + 1 \in Nat
    OBVIOUS
  <2> QED BY <1>1, <2>1, StepInRange
<1>4. ASSUME NEW k \in 0 .. size - 1 PROVE Number(k) \in 0 .. size - 1
  <2>1. k \in Nat /\ StepOf(count + 1, size) \in Nat /\ size \in Nat \ {0}
    BY <1>1, <1>3
  <2> QED BY <1>3, <2>1, TurnInRange
<1>5. 0 .. size - 1 \subseteq Ids
  BY <1>1 DEF IdAssumption
<1>6. K # {}
  <2>1. SUFFICES ASSUME K = {} PROVE FALSE
    OBVIOUS
  <2>2. ASSUME NEW m \in 0 .. size - 1
        PROVE  findSlot(t, m) \in Taken(t) /\ t[findSlot(t, m)] = m
    <3>1. PICK k \in 0 .. size - 1 : Number(k) = m
      BY <1>1, <1>3, TurnEverywhere
    <3>2. t[findSlot(t, m)] = m
      BY <2>1, <3>1
    <3>3. m \in Ids
      BY <1>5
    <3>4. findSlot(t, m) \in DOMAIN t
      BY <1>2, <3>3, SlotIsFound
    <3> QED BY <3>2, <3>3, <3>4 DEF Taken, Marks, IdAssumption
  <2> DEFINE g == [m \in 0 .. size - 1 |-> findSlot(t, m)]
  <2>3. g \in [0 .. size - 1 -> Taken(t)]
    BY <2>2
  <2>4. \A l, m \in 0 .. size - 1 : g[l] = g[m] => l = m
    BY <2>2
  <2> HIDE DEF g
  <2>5. IsFiniteSet(0 .. size - 1) /\ Cardinality(0 .. size - 1) = size
    BY <1>1, FS_Interval
  <2> QED BY <1>1, <2>3, <2>4, <2>5, FS_PigeonHole
<1>7. First(K) \in K
  <2>1. K \subseteq Nat
    BY <1>1
  <2> QED BY <1>6, <2>1, FirstOf
<1>8. NewNumber(t) = Number(First(K))
  BY DEF NewNumber
<1> HIDE DEF K
<1>9. First(K) \in 0 .. size - 1 /\ t[findSlot(t, Number(First(K)))] # Number(First(K))
  BY <1>7 DEF K
<1> QED BY <1>4, <1>5, <1>8, <1>9

(***************************************************************************)
(* The inductive invariant.                                                *)
(***************************************************************************)

StoreInv ==
  /\ StoreTypeOK
  /\ Stores(table, count, stored, doubled) /\ count <= inserted
  /\ state = "crashed" => doubled # {}
  /\ state = "endless" => Tombstone \in ToSet(table) /\ Null \notin ToSet(table)

LEMMA TypeOfStores ==
  ASSUME SizeAssumption, NEW t, NEW n, NEW ids, NEW but, Stores(t, n, ids, but)
  PROVE  t \in Seq(Ids \cup {Null, Tombstone}) /\ Len(t) \in Sizes /\ n \in 0 .. Len(t)
<1>1. t \in Seq(Ids \cup {Null, Tombstone}) /\ Len(t) \in Sizes
  BY DEF Stores, IsTable, Marks
<1>2. n \in Nat /\ Len(t) \in Nat /\ n < Len(t)
  BY TableType DEF Stores
<1> QED BY <1>1, <1>2

LEMMA InvFirst ==
  ASSUME PrimeAssumption, SizeAssumption, IdAssumption, StoreInit
  PROVE  StoreInv
<1> DEFINE size == HigherPrime(MinSize)
<1>1. size \in Sizes /\ size \in Nat /\ size > 3
  BY HigherPrimeIs, SizesType DEF SizeAssumption
<1>2. /\ table = Cleared(size) /\ count = 0 /\ inserted = 0 /\ state = "running"
      /\ stored = {} /\ doubled = {}
  BY DEF StoreInit
<1> HIDE DEF size
<1>3. table \in Seq(Ids \cup Marks) /\ Len(table) = size /\ DOMAIN table = 1 .. size
  BY <1>1, <1>2 DEF Cleared, Marks
<1>4. \A slot \in DOMAIN table : table[slot] = Null
  BY <1>2 DEF Cleared
<1>5. IsTable(table) /\ Taken(table) = {}
  BY <1>1, <1>3, <1>4 DEF IsTable, Taken, Marks
<1>6. count = Cardinality(Taken(table)) /\ count < Len(table)
  BY <1>1, <1>2, <1>3, <1>5, FS_EmptySet
<1>7. \A id \in Ids : ~Holds(table, id) /\ Once(table, id) /\ OnWay(table, id)
  BY <1>4 DEF Holds, Once, OnWay, IdAssumption
<1>8. Stores(table, count, stored, doubled)
  BY <1>2, <1>5, <1>6, <1>7 DEF Stores, Good
<1>9. StoreTypeOK
  <2>1. 0 \in 0 .. MaxInsert
    BY DEF SizeAssumption
  <2> QED BY <1>2, <1>8, <2>1, TypeOfStores DEF StoreTypeOK
<1>10. count <= inserted
  BY <1>2
<1> QED BY <1>2, <1>8, <1>9, <1>10 DEF StoreInv

\* A node is put into the slot that is found for it.
LEMMA PutKeeps ==
  ASSUME PrimeAssumption, SizeAssumption, IdAssumption, StoreInv, inserted < MaxInsert,
         NEW t, Stores(t, count, stored, doubled), count + 1 < Len(t),
         NEW id \in Ids, t[findSlot(t, id)] # id, state = "running",
         Put(t, findSlot(t, id), id), inserted' = inserted + 1
  PROVE  StoreInv'
<1> DEFINE slot == findSlot(t, id)
<1>1. /\ IsTable(t) /\ count = Cardinality(Taken(t)) /\ count \in Nat /\ Len(t) \in Nat
      /\ Cardinality(DOMAIN t) = Len(t)
  BY TableType DEF Stores
<1>2. Taken(t) # DOMAIN t
  BY <1>1
<1>3. /\ slot \in DOMAIN t /\ slot \notin Taken(t)
      /\ \E k \in 0 .. Len(t) - 1 :
           Way(id, Len(t), k) = slot /\ \A j \in 0 .. k - 1 : t[Way(id, Len(t), j)] # Null
  BY <1>1, <1>2, SlotIsFound
<1>4. /\ table' = [t EXCEPT ![slot] = id] /\ count' = count + 1 /\ stored' = stored \cup {id}
      /\ doubled' = (IF id \in stored THEN doubled \cup {id} ELSE doubled) /\ state' = state
  BY DEF Put
<1> HIDE DEF slot
<1> DEFINE u == table'
<1>5. /\ IsTable(u) /\ Len(u) = Len(t)
      /\ Cardinality(Taken(u)) = Cardinality(Taken(t)) + 1
      /\ Holds(u, id)
      /\ \A other \in Ids \ {id} :
           /\ Holds(u, other) <=> Holds(t, other)
           /\ Once(t, other) => Once(u, other)
           /\ OnWay(t, other) => OnWay(u, other)
      /\ ~Holds(t, id) => Once(u, id) /\ OnWay(u, id)
  BY <1>1, <1>3, <1>4, PutInto
<1> HIDE DEF u
<1>6. \A x \in Ids \ doubled' : x \in Ids \ doubled /\ (x = id => id \notin stored)
  BY <1>4
<1>7. ASSUME NEW x \in Ids \ doubled'
      PROVE  Once(u, x) /\ OnWay(u, x) /\ (Holds(u, x) <=> x \in stored')
  <2>1. x \in Ids \ doubled /\ (x = id => id \notin stored)
    BY <1>6
  <2>2. Once(t, x) /\ OnWay(t, x) /\ (Holds(t, x) <=> x \in stored)
    BY <2>1 DEF Stores, Good
  <2>3. CASE x = id
    BY <2>1, <2>2, <2>3, <1>4, <1>5
  <2>4. CASE x # id
    BY <2>2, <2>4, <1>4, <1>5
  <2> QED BY <2>3, <2>4
<1>8. count' = Cardinality(Taken(u)) /\ count' < Len(u)
  BY <1>1, <1>4, <1>5
<1>9. Stores(u, count', stored', doubled')
  BY <1>5, <1>7, <1>8 DEF Stores, Good
<1>10. count' <= inserted' /\ inserted' \in 0 .. MaxInsert
  <2>1. inserted \in 0 .. MaxInsert /\ count <= inserted /\ MaxInsert \in Nat
    BY DEF StoreInv, StoreTypeOK, SizeAssumption
  <2> QED BY <2>1, <1>1, <1>4
<1>11. stored' \cup doubled' \subseteq Ids
  BY <1>4 DEF StoreInv, StoreTypeOK
<1>12. state' = "running"
  BY <1>4
<1>13. /\ u \in Seq(Ids \cup {Null, Tombstone}) /\ Len(u) \in Sizes /\ count' \in 0 .. Len(u)
  BY <1>9, TypeOfStores
<1>14. StoreTypeOK'
  BY <1>10, <1>11, <1>12, <1>13 DEF StoreTypeOK, u
<1> QED BY <1>9, <1>10, <1>12, <1>14 DEF StoreInv, u

\* The ids, the counts and the marks of an invariant in which the store does not run any more.
LEMMA CrashKeeps ==
  ASSUME StoreInv, Crash, doubled # {}, inserted' \in 0 .. MaxInsert, inserted <= inserted',
         count \in Nat, inserted \in Nat
  PROVE  StoreInv'
<1>1. /\ table' = table /\ count' = count /\ stored' = stored /\ doubled' = doubled
      /\ state' = "crashed"
  BY DEF Crash
<1>2. count' <= inserted'
  BY <1>1 DEF StoreInv
<1>3. StoreTypeOK'
  BY <1>1 DEF StoreInv, StoreTypeOK
<1>4. Stores(table, count, stored, doubled)'
  BY <1>1 DEF StoreInv
<1> QED BY <1>1, <1>2, <1>3, <1>4 DEF StoreInv

LEMMA InsertKeeps ==
  ASSUME PrimeAssumption, SizeAssumption, IdAssumption, StoreInv,
         NEW id \in GivenIds \cup {Null}, NEW fails \in BOOLEAN, Insert(id, fails)
  PROVE  StoreInv'
<1> DEFINE s == Roomy(fails)
<1>1. /\ state = "running" /\ inserted < MaxInsert /\ inserted' = inserted + 1
      /\ IF s.crashed THEN Crash
         ELSE IF ~s.good THEN UNCHANGED <<table, count, state, stored, doubled>>
         ELSE IF id = Null THEN InsertNumbered(s.table)
         ELSE InsertAs(s.table, id)
  BY DEF Insert
<1>2. Stores(table, count, stored, doubled) /\ count <= inserted
  BY DEF StoreInv
<1>3. /\ inserted \in Nat /\ inserted \in 0 .. MaxInsert /\ MaxInsert \in Nat
      /\ inserted' \in 0 .. MaxInsert
  BY <1>1 DEF StoreInv, StoreTypeOK, SizeAssumption
<1>4. count \in Nat /\ Len(table) \in Nat /\ Len(table) > 3 /\ Len(table) \in Sizes
  BY <1>2, TableType DEF Stores, IsTable
<1>5. /\ s.crashed => doubled # {}
      /\ ~s.crashed => Stores(s.table, count, stored, doubled)
      /\ ~s.crashed /\ s.good => count + 1 < Len(s.table)
  <2>1. CASE Len(table) * 3 <= count * 4
    <3>1. \E p \in Sizes : p >= count * 2
      <4>1. count \in 0 .. MaxInsert
        BY <1>2, <1>3, <1>4
      <4> QED BY <4>1, <1>2, <1>4, <2>1 DEF SizeAssumption, Stores
    <3>2. s = Expanded(table, count, fails)
      BY <2>1 DEF Roomy
    <3> QED BY <3>1, <3>2, <1>2, ExpandedKeeps
  <2>2. CASE ~(Len(table) * 3 <= count * 4)
    <3>1. s = [table |-> table, good |-> TRUE, crashed |-> FALSE]
      BY <2>2 DEF Roomy
    <3> HIDE DEF s
    <3>2. count + 1 < Len(table)
      BY <1>4, <2>2
    <3> QED BY <3>1, <3>2, <1>2
  <2> QED BY <2>1, <2>2
<1> HIDE DEF s
<1>6. CASE s.crashed
  <2>1. inserted <= inserted'
    BY <1>1, <1>3
  <2> QED BY <1>1, <1>3, <1>4, <1>5, <1>6, <2>1, CrashKeeps
<1>7. CASE ~s.crashed /\ ~s.good
  <2>1. /\ table' = table /\ count' = count /\ stored' = stored /\ doubled' = doubled
        /\ state' = state
    BY <1>1, <1>7
  <2>2. count' <= inserted'
    BY <1>1, <1>2, <1>3, <1>4, <2>1
  <2> QED BY <1>3, <2>1, <2>2 DEF StoreInv, StoreTypeOK
<1>8. CASE ~s.crashed /\ s.good /\ id = Null
  <2> DEFINE t == s.table
             new == NewNumber(t)
  <2>1. InsertNumbered(t)
    BY <1>1, <1>8
  <2>2. Put(t, findSlot(t, new), new)
    BY <2>1 DEF InsertNumbered
  <2>3. Stores(t, count, stored, doubled) /\ count + 1 < Len(t)
    BY <1>5, <1>8
  <2> HIDE DEF t
  <2>4. new \in Ids /\ t[findSlot(t, new)] # new
    <3>1. IsTable(t) /\ Cardinality(Taken(t)) < Len(t)
      BY <2>3 DEF Stores
    <3> QED BY <3>1, <1>4, NumberIsNew
  <2> HIDE DEF new
  <2> QED BY <1>1, <2>2, <2>3, <2>4, PutKeeps
<1>9. CASE ~s.crashed /\ s.good /\ id # Null
  <2> DEFINE t == s.table
             slot == findSlot(t, id)
  <2>1. InsertAs(t, id)
    BY <1>1, <1>9
  <2>2. Stores(t, count, stored, doubled) /\ count + 1 < Len(t)
    BY <1>5, <1>9
  <2>3. id \in Ids
    BY <1>9 DEF IdAssumption
  <2> HIDE DEF t
  <2>4. IF t[slot] = id THEN table' = t /\ UNCHANGED <<count, state, stored, doubled>>
        ELSE Put(t, slot, id)
    BY <2>1 DEF InsertAs
  <2>5. CASE t[slot] # id
    BY <1>1, <2>2, <2>3, <2>4, <2>5, PutKeeps
  <2>6. CASE t[slot] = id
    <3>1. /\ table' = t /\ count' = count /\ stored' = stored /\ doubled' = doubled
          /\ state' = "running"
      BY <1>1, <2>4, <2>6
    <3>2. count' <= inserted'
      BY <1>1, <1>2, <1>3, <1>4, <3>1
    <3>3. /\ t \in Seq(Ids \cup {Null, Tombstone}) /\ Len(t) \in Sizes /\ count \in 0 .. Len(t)
      BY <2>2, TypeOfStores
    <3>4. StoreTypeOK'
      BY <1>3, <3>1, <3>3 DEF StoreInv, StoreTypeOK
    <3>5. Stores(table, count, stored, doubled)'
      BY <2>2, <3>1
    <3> QED BY <3>1, <3>2, <3>4, <3>5 DEF StoreInv
  <2> QED BY <2>5, <2>6
<1> QED BY <1>6, <1>7, <1>8, <1>9

LEMMA RemoveKeeps ==
  ASSUME PrimeAssumption, SizeAssumption, IdAssumption, StoreInv,
         NEW id \in Ids, NEW fails \in BOOLEAN, RemoveNode(id, fails)
  PROVE  StoreInv'
<1> DEFINE slot == findNode(table, id)
           removed == RemoveFrom(table, slot)
           sparse == (count - 1) * 8 < Len(table) /\ Len(table) > KeepSize
           s == IF sparse THEN Expanded(removed, count - 1, fails)
                ELSE [table |-> removed, good |-> TRUE, crashed |-> FALSE]
<1>1. /\ state = "running" /\ inserted' = inserted /\ slot # 0 /\ table[slot] = id
      /\ IF s.crashed THEN Crash
         ELSE /\ table' = s.table /\ count' = count - 1 /\ stored' = stored \ {id}
              /\ state' = state /\ doubled' = doubled
  BY DEF RemoveNode
<1>2. /\ IsTable(table) /\ count = Cardinality(Taken(table)) /\ count < Len(table)
      /\ Good(table, doubled)
      /\ \A x \in Ids \ doubled : Holds(table, x) <=> x \in stored
      /\ count <= inserted
  BY DEF StoreInv, Stores
<1>3. /\ count \in Nat /\ Len(table) \in Nat /\ Len(table) \in Sizes
      /\ inserted \in Nat /\ inserted \in 0 .. MaxInsert
  BY <1>2, TableType DEF IsTable, StoreInv, StoreTypeOK
<1>4. slot \in DOMAIN table
  BY <1>1, <1>2, SearchEnds DEF findNode
<1> HIDE DEF slot
<1>5. /\ IsTable(removed) /\ Len(removed) = Len(table)
      /\ Cardinality(Taken(removed)) = count - 1
      /\ Once(table, id) => ~Holds(removed, id)
      /\ \A other \in Ids :
           /\ other # id => (Holds(removed, other) <=> Holds(table, other))
           /\ Once(table, other) => Once(removed, other)
           /\ OnWay(table, other) => OnWay(removed, other)
  BY <1>1, <1>2, <1>4, Buried DEF RemoveFrom
<1> HIDE DEF removed
<1>6. count - 1 \in Nat
  BY <1>5, TableType
<1>7. Stores(removed, count - 1, stored \ {id}, doubled)
  <2>1. ASSUME NEW x \in Ids \ doubled
        PROVE  Once(removed, x) /\ OnWay(removed, x) /\ (Holds(removed, x) <=> x \in stored \ {id})
    <3>1. Once(table, x) /\ OnWay(table, x) /\ (Holds(table, x) <=> x \in stored)
      BY <1>2 DEF Good
    <3>2. CASE x = id
      BY <1>5, <3>1, <3>2
    <3>3. CASE x # id
      BY <1>5, <3>1, <3>3
    <3> QED BY <3>2, <3>3
  <2>2. count - 1 < Len(removed)
    BY <1>2, <1>3, <1>5
  <2> QED BY <1>5, <2>1, <2>2 DEF Stores, Good
<1>8. /\ s.crashed => doubled # {}
      /\ ~s.crashed => Stores(s.table, count - 1, stored \ {id}, doubled)
  <2>1. CASE sparse
    <3>1. Len(table) \in Sizes /\ Len(table) >= (count - 1) * 2
      BY <1>3, <1>6, <2>1
    <3>2. s = Expanded(removed, count - 1, fails)
      BY <2>1
    <3> QED BY <1>7, <3>1, <3>2, ExpandedKeeps
  <2>2. CASE ~sparse
    <3>1. s = [table |-> removed, good |-> TRUE, crashed |-> FALSE]
      BY <2>2
    <3> HIDE DEF s
    <3> QED BY <3>1, <1>7
  <2> QED BY <2>1, <2>2
<1> HIDE DEF s
<1>9. CASE s.crashed
  <2>1. inserted' \in 0 .. MaxInsert /\ inserted <= inserted'
    BY <1>1, <1>3
  <2> QED BY <1>1, <1>3, <1>8, <1>9, <2>1, CrashKeeps
<1>10. CASE ~s.crashed
  <2>1. /\ table' = s.table /\ count' = count - 1 /\ stored' = stored \ {id}
        /\ state' = "running" /\ doubled' = doubled /\ inserted' = inserted
    BY <1>1, <1>10
  <2>2. Stores(s.table, count - 1, stored \ {id}, doubled)
    BY <1>8, <1>10
  <2>3. /\ s.table \in Seq(Ids \cup {Null, Tombstone}) /\ Len(s.table) \in Sizes
        /\ count - 1 \in 0 .. Len(s.table)
    BY <2>2, TypeOfStores
  <2>4. StoreTypeOK'
    BY <2>1, <2>3 DEF StoreInv, StoreTypeOK
  <2>5. Stores(table, count, stored, doubled)'
    BY <2>1, <2>2
  <2>6. count' <= inserted'
    BY <1>2, <1>3, <2>1
  <2> QED BY <2>1, <2>4, <2>5, <2>6 DEF StoreInv
<1> QED BY <1>9, <1>10

\* A search without an end has been everywhere, and so at a tombstone, as a slot is not taken.
LEMMA GetKeeps ==
  ASSUME PrimeAssumption, SizeAssumption, IdAssumption, StoreInv, NEW id \in Ids, Get(id)
  PROVE  StoreInv'
<1>1. /\ findNode(table, id) = 0 /\ state' = "endless"
      /\ table' = table /\ count' = count /\ inserted' = inserted
      /\ stored' = stored /\ doubled' = doubled
  BY DEF Get
<1>2. IsTable(table) /\ count = Cardinality(Taken(table)) /\ count < Len(table)
  BY DEF StoreInv, Stores
<1>3. DOMAIN table = 1 .. Len(table) /\ Len(table) \in Nat /\ Cardinality(DOMAIN table) = Len(table)
  BY <1>2, TableType
<1>4. \A slot \in DOMAIN table : table[slot] # Null
  BY <1>1, <1>2, <1>3, SearchEnds DEF findNode
<1>5. PICK slot \in DOMAIN table : slot \notin Taken(table)
  <2>1. Taken(table) # DOMAIN table
    BY <1>2, <1>3
  <2> QED BY <2>1 DEF Taken
<1>6. table[slot] = Tombstone
  BY <1>4, <1>5 DEF Taken, Marks
<1>7. Tombstone \in ToSet(table) /\ Null \notin ToSet(table)
  BY <1>4, <1>6 DEF ToSet
<1> QED BY <1>1, <1>7 DEF StoreInv, StoreTypeOK

LEMMA InvKept ==
  ASSUME PrimeAssumption, SizeAssumption, IdAssumption, StoreInv, [StoreNext]_storeVars
  PROVE  StoreInv'
<1>1. CASE \E id \in GivenIds \cup {Null}, fails \in BOOLEAN : Insert(id, fails)
  BY <1>1, InsertKeeps
<1>2. CASE \E id \in Ids, fails \in BOOLEAN : RemoveNode(id, fails)
  BY <1>2, RemoveKeeps
<1>3. CASE \E id \in Ids : Get(id)
  BY <1>3, GetKeeps
<1>4. CASE UNCHANGED storeVars
  BY <1>4 DEF storeVars, StoreInv, StoreTypeOK
<1> QED BY <1>1, <1>2, <1>3, <1>4 DEF StoreNext

LEMMA InvIsMap ==
  ASSUME PrimeAssumption, SizeAssumption, IdAssumption, StoreInv
  PROVE  AsAMap
<1>1. Stores(table, count, stored, doubled)
  BY DEF StoreInv
<1>2. /\ IsTable(table) /\ count = Cardinality(Taken(table)) /\ count < Len(table)
      /\ Good(table, doubled)
      /\ \A x \in Ids \ doubled : Holds(table, x) <=> x \in stored
  BY <1>1 DEF Stores
<1>3. Occupied = Taken(table)
  BY DEF Occupied, Taken, Marks
<1>4. DOMAIN table = 1 .. Len(table) /\ Len(table) \in Nat /\ Cardinality(DOMAIN table) = Len(table)
  BY <1>2, TableType
<1>5. \E slot \in DOMAIN table : slot \notin Occupied
  <2>1. Taken(table) # DOMAIN table
    BY <1>2, <1>4
  <2> QED BY <2>1, <1>3 DEF Taken
<1>6. ASSUME NEW id \in Ids \ doubled
      PROVE  LET slot == findNode(table, id)
             IN (slot # 0 /\ table[slot] = id) <=> id \in stored
  <2>1. OnWay(table, id) /\ (Holds(table, id) <=> id \in stored)
    BY <1>2 DEF Good
  <2> QED BY <1>2, <2>1, FindsWhatIsHeld
<1> QED BY <1>2, <1>3, <1>5, <1>6 DEF AsAMap, StoreInv

LEMMA InvAlways ==
  ASSUME PrimeAssumption, SizeAssumption, IdAssumption
  PROVE  StoreSpec => []StoreInv
<1>1. StoreInit => StoreInv
  BY InvFirst
<1>2. StoreInv /\ [StoreNext]_storeVars => StoreInv'
  BY InvKept
<1> QED BY <1>1, <1>2, PTL DEF StoreSpec

(***************************************************************************)
(* The theorems about the store.                                           *)
(***************************************************************************)

\* The table keeps a size that is one of the primes, and only ids and marks are in it; there
\* are never more nodes than slots (19082-19253).
THEOREM TypesKept ==
  ASSUME PrimeAssumption, SizeAssumption, IdAssumption
  PROVE  StoreSpec => []StoreTypeOK
<1>1. StoreInv => StoreTypeOK
  BY DEF StoreInv
<1> QED BY <1>1, InvAlways, PTL

\* Whatever was inserted, removed and rebuilt in which order, and whatever the hash: an id
\* that was not inserted twice is found if it is stored, and only then; the count is that of
\* the nodes; a slot is left for the next node.  Only an id that was inserted twice lets the
\* rebuilding follow a NULL (19242-19249), and only a table without a slot that was never used
\* lets a search go on for ever (19174-19253).
THEOREM TableIsMap ==
  ASSUME PrimeAssumption, SizeAssumption, IdAssumption
  PROVE  StoreSpec => []AsAMap
<1>1. StoreInv => AsAMap
  BY InvIsMap
<1> QED BY <1>1, InvAlways, PTL

(***************************************************************************)
(* Browsing: the positions of what matches.                                *)
(***************************************************************************)

\* f is computed from a base and by steps within S, the first n of them.
IsComputed(f, n, base, step, S) ==
  f \in [0 .. n -> S] /\ f[0] = base /\ \A k \in 1 .. n : f[k] = step[<<k, f[k - 1]>>]

\* A recursive function exists if its values stay in a set; by contradiction, with the least
\* number of steps for which there is none.
LEMMA Computed ==
  ASSUME NEW S, NEW N \in Nat, NEW base \in S, NEW step \in [(1 .. N) \X S -> S]
  PROVE  \E f : IsComputed(f, N, base, step, S)
<1> DEFINE None == {m \in 0 .. N : ~ \E f : IsComputed(f, m, base, step, S)}
<1>1. None = {}
  <2>1. SUFFICES ASSUME None # {} PROVE FALSE
    OBVIOUS
  <2>2. None \subseteq Nat
    OBVIOUS
  <2>3. PICK m \in None : \A k \in None : m <= k
    BY <2>1, <2>2, LeastOf
  <2>4. m \in 0 .. N /\ ~ \E f : IsComputed(f, m, base, step, S)
    BY <2>3
  <2>5. m # 0
    <3>1. IsComputed([k \in 0 .. 0 |-> base], 0, base, step, S)
      BY DEF IsComputed
    <3> QED BY <2>4, <3>1
  <2>6. m - 1 \in 0 .. N /\ m - 1 \notin None /\ m \in 1 .. N
    BY <2>3, <2>4, <2>5
  <2>7. PICK g : IsComputed(g, m - 1, base, step, S)
    BY <2>6
  <2> DEFINE h == [k \in 0 .. m |-> IF k < m THEN g[k] ELSE step[<<m, g[m - 1]>>]]
  <2>8. g \in [0 .. m - 1 -> S] /\ g[0] = base /\ \A k \in 1 .. m - 1 : g[k] = step[<<k, g[k - 1]>>]
    BY <2>7 DEF IsComputed
  <2>9. g[m - 1] \in S /\ step[<<m, g[m - 1]>>] \in S
    <3>1. g[m - 1] \in S
      BY <2>6, <2>8
    <3>2. <<m, g[m - 1]>> \in (1 .. N) \X S
      BY <2>6, <3>1
    <3> QED BY <3>1, <3>2
  <2>10. h \in [0 .. m -> S]
    BY <2>6, <2>8, <2>9
  <2>11. h[0] = base
    BY <2>6, <2>8
  <2>12. ASSUME NEW k \in 1 .. m PROVE h[k] = step[<<k, h[k - 1]>>]
    <3>1. k - 1 \in 0 .. m /\ k - 1 < m /\ h[k - 1] = g[k - 1]
      BY <2>6
    <3>2. CASE k < m
      <4>1. h[k] = g[k] /\ k \in 1 .. m - 1
        BY <2>6, <3>2
      <4> QED BY <2>8, <3>1, <4>1
    <3>3. CASE k = m
      BY <2>6, <3>1, <3>3
    <3> QED BY <2>6, <3>2, <3>3
  <2> HIDE DEF h
  <2>13. IsComputed(h, m, base, step, S)
    BY <2>10, <2>11, <2>12 DEF IsComputed
  <2> QED BY <2>4, <2>13
<1>2. N \in 0 .. N /\ N \notin None
  BY <1>1
<1> QED BY <1>2

\* Positions in ascending order, of the first n references at most.
Ascending(at, n) ==
  /\ at \in Seq(1 .. n)
  /\ \A k \in 1 .. Len(at) - 1 : at[k] < at[k + 1]

Step(ns, view, refs) ==
  [p \in (1 .. Len(refs)) \X Seq(1 .. Len(refs)) |->
     IF Relevant(ns, view, TypesOf(ns, view), refs[p[1]]) THEN Append(p[2], p[1]) ELSE p[2]]

\* The loop over the references has come to each position with those before it.
LEMMA PositionsComputed ==
  ASSUME NEW ns, NEW view, IsList(ns[view.node].refs)
  PROVE  LET refs == ns[view.node].refs
             n == Len(refs)
         IN \E f : /\ IsComputed(f, n, <<>>, Step(ns, view, refs), Seq(1 .. n))
                   /\ Positions(ns, view) = f[n]
<1> DEFINE refs == ns[view.node].refs
           n == Len(refs)
           types == TypesOf(ns, view)
           S == Seq(1 .. n)
           step == Step(ns, view, refs)
<1>1. n \in Nat
  BY DEF IsList
<1>2. step \in [(1 .. n) \X S -> S] /\ <<>> \in S
  <2>1. ASSUME NEW p \in (1 .. n) \X S
        PROVE  (IF Relevant(ns, view, types, refs[p[1]]) THEN Append(p[2], p[1]) ELSE p[2]) \in S
    <3>1. p[1] \in 1 .. n /\ p[2] \in S
      BY <2>1
    <3>2. Append(p[2], p[1]) \in S
      BY <3>1
    <3> QED BY ONLY <3>1, <3>2
  <2> QED BY <2>1 DEF Step
<1> HIDE DEF S, step
<1>3. PICK g : IsComputed(g, n, <<>>, step, S)
  BY <1>1, <1>2, Computed
<1> DEFINE Body(f) == [k \in 0 .. n |->
             IF k = 0 THEN <<>>
             ELSE IF Relevant(ns, view, types, refs[k]) THEN Append(f[k - 1], k)
             ELSE f[k - 1]]
           at == CHOOSE f : f = Body(f)
<1>4. g = Body(g)
  <2>1. ASSUME NEW k \in 0 .. n, k # 0
        PROVE  g[k] = IF Relevant(ns, view, types, refs[k]) THEN Append(g[k - 1], k) ELSE g[k - 1]
    <3>1. k \in 1 .. n /\ k - 1 \in 0 .. n
      BY <1>1, <2>1
    <3>2. g[k] = step[<<k, g[k - 1]>>] /\ g[k - 1] \in S
      BY <1>3, <3>1 DEF IsComputed
    <3> QED BY <3>1, <3>2 DEF step, Step, S
  <2> QED BY <1>3, <2>1 DEF IsComputed
<1>5. at = Body(at)
  BY <1>4
<1>6. at = g
  <2> HIDE DEF at
  <2>1. ASSUME NEW k \in 0 .. n, at[k] # g[k] PROVE FALSE
    <3> DEFINE D == {j \in 0 .. n : at[j] # g[j]}
    <3>1. PICK j \in D : \A i \in D : j <= i
      <4>1. D # {} /\ D \subseteq Nat
        BY <1>1, <2>1
      <4> QED BY <4>1, LeastOf
    <3>2. j \in 0 .. n /\ at[j] # g[j] /\ j # 0
      BY <1>4, <1>5, <3>1
    <3>3. j - 1 \in 0 .. n /\ at[j - 1] = g[j - 1]
      BY <1>1, <3>1, <3>2
    <3> QED BY <1>4, <1>5, <3>2, <3>3
  <2> QED BY <1>4, <1>5, <2>1
<1>7. Positions(ns, view) = at[n]
  BY DEF Positions
<1> QED BY <1>3, <1>6, <1>7 DEF S, step

LEMMA AscendingGoesOn ==
  ASSUME NEW k \in Nat \ {0}, NEW at, Ascending(at, k - 1)
  PROVE  Ascending(at, k) /\ Ascending(Append(at, k), k)
<1>1. at \in Seq(1 .. k) /\ Len(at) \in Nat /\ \A i \in 1 .. Len(at) : at[i] \in 1 .. k - 1
  <2>1. 1 .. k - 1 \subseteq 1 .. k
    OBVIOUS
  <2> QED BY <2>1 DEF Ascending
<1>2. /\ Append(at, k) \in Seq(1 .. k) /\ Len(Append(at, k)) = Len(at) + 1
      /\ \A i \in 1 .. Len(at) : Append(at, k)[i] = at[i]
      /\ Append(at, k)[Len(at) + 1] = k
  BY <1>1
<1>3. ASSUME NEW i \in 1 .. Len(Append(at, k)) - 1
      PROVE  Append(at, k)[i] < Append(at, k)[i + 1]
  <2>1. i \in 1 .. Len(at)
    BY <1>1, <1>2
  <2>2. CASE i = Len(at)
    BY <1>1, <1>2, <2>1, <2>2
  <2>3. CASE i # Len(at)
    <3>1. i \in 1 .. Len(at) - 1 /\ i + 1 \in 1 .. Len(at)
      BY <1>1, <2>1, <2>3
    <3> QED BY <1>2, <2>1, <3>1 DEF Ascending
  <2> QED BY <2>2, <2>3
<1> QED BY <1>1, <1>2, <1>3 DEF Ascending

LEMMA PositionsAscend ==
  ASSUME NEW ns, NEW view, IsList(ns[view.node].refs)
  PROVE  Ascending(Positions(ns, view), Len(ns[view.node].refs))
<1> DEFINE refs == ns[view.node].refs
           n == Len(refs)
<1>1. n \in Nat
  BY DEF IsList
<1>2. PICK f : /\ IsComputed(f, n, <<>>, Step(ns, view, refs), Seq(1 .. n))
               /\ Positions(ns, view) = f[n]
  BY PositionsComputed
<1>3. ASSUME NEW k \in 1 .. n
      PROVE  f[k] = f[k - 1] \/ f[k] = Append(f[k - 1], k)
  <2>1. k - 1 \in 0 .. n /\ f[k - 1] \in Seq(1 .. n) /\ f[k] = Step(ns, view, refs)[<<k, f[k - 1]>>]
    <3> DEFINE S == Seq(1 .. n)
               step == Step(ns, view, refs)
    <3> HIDE DEF S, step
    <3>1. k - 1 \in 0 .. n
      BY <1>1
    <3>2. f \in [0 .. n -> S] /\ f[k] = step[<<k, f[k - 1]>>]
      BY <1>2 DEF IsComputed, S, step
    <3> QED BY <3>1, <3>2 DEF S, step
  <2>2. <<k, f[k - 1]>> \in (1 .. n) \X Seq(1 .. n)
    BY <2>1
  <2> QED BY <2>1, <2>2 DEF Step
<1> DEFINE D == {k \in 0 .. n : ~Ascending(f[k], k)}
<1>4. D = {}
  <2>1. SUFFICES ASSUME D # {} PROVE FALSE
    OBVIOUS
  <2>2. PICK k \in D : \A i \in D : k <= i
    <3>1. D \subseteq Nat
      BY <1>1
    <3> QED BY <2>1, <3>1, LeastOf
  <2>3. k \in 0 .. n /\ ~Ascending(f[k], k)
    BY <2>2
  <2>4. k # 0
    <3>1. f[0] = <<>>
      BY <1>2 DEF IsComputed
    <3>2. Ascending(<<>>, 0)
      BY DEF Ascending
    <3> QED BY <2>3, <3>1, <3>2
  <2>5. k \in 1 .. n /\ k \in Nat \ {0} /\ k - 1 \in 0 .. n /\ k - 1 \notin D
    BY <1>1, <2>2, <2>3, <2>4
  <2>6. Ascending(f[k - 1], k - 1)
    BY <2>5
  <2>7. Ascending(f[k - 1], k) /\ Ascending(Append(f[k - 1], k), k)
    BY <2>5, <2>6, AscendingGoesOn
  <2> QED BY <1>3, <2>3, <2>5, <2>7
<1>5. n \in 0 .. n /\ n \notin D
  BY <1>1, <1>4
<1> QED BY <1>2, <1>5

\* The k-th position is not below k, so that there are no more of them than references, and
\* only the last one can be that of the last reference.
LEMMA AscendingBounds ==
  ASSUME NEW n \in Nat, NEW at, Ascending(at, n)
  PROVE  /\ Len(at) \in Nat /\ Len(at) <= n
         /\ \A k \in 1 .. Len(at) : at[k] = n => k = Len(at)
<1>1. /\ Len(at) \in Nat /\ \A k \in 1 .. Len(at) : at[k] \in 1 .. n
      /\ \A k \in 1 .. Len(at) - 1 : at[k] < at[k + 1]
  BY DEF Ascending
<1> DEFINE D == {k \in 1 .. Len(at) : at[k] < k}
<1>2. D = {}
  <2>1. SUFFICES ASSUME D # {} PROVE FALSE
    OBVIOUS
  <2>2. PICK k \in D : \A i \in D : k <= i
    <3>1. D \subseteq Nat
      BY <1>1
    <3> QED BY <2>1, <3>1, LeastOf
  <2>3. k \in 1 .. Len(at) /\ at[k] < k /\ at[k] \in 1 .. n
    BY <1>1, <2>2
  <2>4. k # 1
    BY <2>3
  <2>5. k - 1 \in 1 .. Len(at) - 1 /\ k - 1 \in 1 .. Len(at) /\ k - 1 \notin D
    BY <1>1, <2>2, <2>3, <2>4
  <2>6. at[k - 1] >= k - 1 /\ at[k - 1] < at[k - 1 + 1] /\ at[k - 1] \in 1 .. n
    BY <1>1, <2>5
  <2>7. at[k - 1 + 1] = at[k]
    BY <2>3
  <2> QED BY <2>3, <2>6, <2>7
<1>3. Len(at) <= n
  <2>1. CASE Len(at) = 0
    BY <2>1
  <2>2. CASE Len(at) # 0
    <3>1. Len(at) \in 1 .. Len(at) /\ Len(at) \notin D
      BY <1>1, <1>2, <2>2
    <3> QED BY <1>1, <3>1
  <2> QED BY <2>1, <2>2
<1>4. ASSUME NEW k \in 1 .. Len(at), at[k] = n, k # Len(at)
      PROVE  FALSE
  <2>1. k \in 1 .. Len(at) - 1 /\ k + 1 \in 1 .. Len(at)
    BY <1>1, <1>4
  <2>2. n < at[k + 1] /\ at[k + 1] \in 1 .. n
    BY <1>1, <1>4, <2>1
  <2> QED BY <2>2
<1> QED BY <1>1, <1>3, <1>4

LEMMA ChosenElements ==
  ASSUME NEW refs, IsList(refs), NEW at, Ascending(at, Len(refs))
  PROVE  /\ Chosen(refs, at) \in Seq(Range(refs)) /\ Len(Chosen(refs, at)) = Len(at)
         /\ \A k \in 1 .. Len(at) : Chosen(refs, at)[k] = refs[at[k]]
<1>1. /\ Len(refs) \in Nat /\ DOMAIN refs = 1 .. Len(refs)
      /\ Len(at) \in Nat /\ DOMAIN at = 1 .. Len(at)
      /\ \A k \in 1 .. Len(at) : at[k] \in 1 .. Len(refs)
  BY DEF IsList, Ascending
<1>2. \A k \in 1 .. Len(at) : refs[at[k]] \in Range(refs)
  BY <1>1 DEF Range
<1> DEFINE s == [k \in 1 .. Len(at) |-> refs[at[k]]]
<1>3. s \in Seq(Range(refs)) /\ Len(s) = Len(at)
  BY <1>1, <1>2
<1>4. Chosen(refs, at) = s
  BY <1>1 DEF Chosen
<1> QED BY <1>3, <1>4

LEMMA MatchesElements ==
  ASSUME NEW ns, NEW view, IsList(ns[view.node].refs)
  PROVE  LET refs == ns[view.node].refs
         IN /\ Matches(ns, view) \in Seq(Range(refs))
            /\ Len(Matches(ns, view)) = Len(Positions(ns, view))
            /\ Len(Matches(ns, view)) <= Len(refs)
<1>1. Ascending(Positions(ns, view), Len(ns[view.node].refs)) /\ Len(ns[view.node].refs) \in Nat
  BY PositionsAscend DEF IsList
<1> QED BY <1>1, ChosenElements, AscendingBounds DEF Matches

LEMMA SomeOf ==
  ASSUME NEW S, NEW list \in Seq(S), NEW a \in Nat, NEW b \in Int, b <= Len(list)
  PROVE  /\ SubSeq(list, a + 1, b) \in Seq(S)
         /\ Len(SubSeq(list, a + 1, b)) = IF a < b THEN b - a ELSE 0
         /\ \A k \in 1 .. b - a : SubSeq(list, a + 1, b)[k] = list[a + k]
OBVIOUS

\* The references list gives are the first of matches.
Begins(list, matches) ==
  Len(list) <= Len(matches) /\ \A k \in 1 .. Len(list) : list[k] = matches[k]

\* A page gives what comes after the first skip.  If the loop came to the end, or the page is
\* not full, there is nothing more.
LEMMA PageGives ==
  ASSUME NEW ns, NEW view, IsList(ns[view.node].refs), ns[view.node].refs # <<>>,
         NEW skip \in Nat, view.max \in Nat
  PROVE  LET page == Page(ns, view, skip)
             matches == Matches(ns, view)
             given == Len(page.refs)
         IN /\ page.refs \in Seq(Range(ns[view.node].refs)) /\ page.whole \in BOOLEAN
            /\ skip <= Len(matches) =>
                 /\ skip + given <= Len(matches)
                 /\ \A k \in 1 .. given : page.refs[k] = matches[skip + k]
                 /\ page.whole => skip + given = Len(matches)
                 /\ skip = 0 /\ ~Full(view, page) => given = Len(matches)
                 /\ Full(view, page) => given > 0
<1> DEFINE refs == ns[view.node].refs
           at == Positions(ns, view)
           matches == Matches(ns, view)
           n == Len(refs)
           len == Len(at)
           most == IF view.max = 0 THEN n ELSE Least(view.max, n)
           end == Least(skip + most, len)
           page == Page(ns, view, skip)
<1>1. n \in Nat /\ n # 0
  BY DEF IsList
<1>2. /\ len \in Nat /\ len <= n
      /\ \A k \in 1 .. len : at[k] = n => k = len
  BY <1>1, PositionsAscend, AscendingBounds
<1>3. matches \in Seq(Range(refs)) /\ Len(matches) = len /\ matches = Chosen(refs, at)
  BY MatchesElements DEF Matches
<1>4. page = [refs |-> SubSeq(matches, skip + 1, end), whole |-> end - skip < most \/ at[end] = n]
  BY <1>3 DEF Page, Cut
<1> HIDE DEF refs, at, matches, n, len, page
<1>5. /\ most \in Nat /\ most # 0 /\ most <= n /\ (view.max # 0 => most <= view.max)
      /\ most = view.max \/ most = n
  BY <1>1 DEF Least
<1>6. end \in Nat /\ end <= len /\ end <= skip + most /\ (end = len \/ end = skip + most)
  BY <1>2, <1>5 DEF Least
<1> HIDE DEF most, end
<1>7. /\ page.refs \in Seq(Range(refs))
      /\ Len(page.refs) = IF skip < end THEN end - skip ELSE 0
      /\ \A k \in 1 .. end - skip : page.refs[k] = matches[skip + k]
  <2>1. page.refs = SubSeq(matches, skip + 1, end) /\ end \in Int /\ end <= Len(matches)
    BY <1>3, <1>4, <1>6
  <2>2. matches \in Seq(Range(refs))
    BY <1>3
  <2> QED BY <2>1, <2>2, SomeOf
<1>8. page.whole \in BOOLEAN /\ (page.whole <=> end - skip < most \/ at[end] = n)
  BY <1>4
<1>9. ASSUME skip <= len
      PROVE  /\ skip + Len(page.refs) = end
             /\ \A k \in 1 .. Len(page.refs) : page.refs[k] = matches[skip + k]
             /\ page.whole => end = len
             /\ skip = 0 /\ ~Full(view, page) => end = len
             /\ Full(view, page) => Len(page.refs) > 0
  <2>1. skip <= end
    BY <1>2, <1>5, <1>6, <1>9
  <2>2. Len(page.refs) = end - skip
    BY <1>6, <1>7, <2>1
  <2>3. skip + Len(page.refs) = end
    BY <1>6, <2>2
  <2>4. ASSUME page.whole PROVE end = len
    <3>1. CASE end - skip < most
      BY <1>5, <1>6, <3>1
    <3>2. CASE ~(end - skip < most)
      <4>1. at[end] = n /\ end >= 1
        BY <1>5, <1>6, <1>8, <2>4, <3>2
      <4> QED BY <1>2, <1>6, <4>1
    <3> QED BY <3>1, <3>2
  <2>5. ASSUME skip = 0, ~Full(view, page) PROVE end = len
    <3>1. view.max = 0 \/ end < view.max
      BY <1>6, <2>2, <2>5 DEF Full
    <3>2. most = n \/ end < most
      BY <1>5, <1>6, <3>1
    <3> QED BY <1>2, <1>5, <1>6, <2>5, <3>2
  <2>6. ASSUME Full(view, page) PROVE Len(page.refs) > 0
    BY <1>6, <2>2, <2>6 DEF Full
  <2> QED BY <1>7, <2>2, <2>3, <2>4, <2>5, <2>6
<1>10. page.refs \in Seq(Range(refs)) /\ page.whole \in BOOLEAN
  BY <1>7, <1>8
<1>11. ASSUME skip <= Len(matches)
       PROVE  /\ skip + Len(page.refs) <= Len(matches)
              /\ \A k \in 1 .. Len(page.refs) : page.refs[k] = matches[skip + k]
              /\ page.whole => skip + Len(page.refs) = Len(matches)
              /\ skip = 0 /\ ~Full(view, page) => Len(page.refs) = Len(matches)
              /\ Full(view, page) => Len(page.refs) > 0
  <2>1. Len(page.refs) \in Nat /\ skip <= len
    BY <1>3, <1>7, <1>11
  <2> QED BY <1>3, <1>6, <1>9, <2>1
<1> QED BY <1>10, <1>11 DEF page, matches, refs

(***************************************************************************)
(* Browsing: the invariant.                                                *)
(***************************************************************************)

Statuses == {"held", "done", "refused", "failed", "released"}

IsWalk(w) ==
  w \in [view : Views, got : {w.got}, status : Statuses, disturbed : BOOLEAN] /\ IsList(w.got)

\* What a walk was given, and what its continuation point says.
WalkFine(n) ==
  LET w == walks[n]
      matches == Matches(nodes, w.view)
  IN ~w.disturbed /\ w.status # "failed" =>
       /\ w.view.node \in DOMAIN nodes
       /\ Begins(w.got, matches)
       /\ n \in DOMAIN points => points[n] = Len(w.got) /\ points[n] > 0
       /\ w.status = "done" => Len(w.got) = Len(matches)

\* A point is held for a walk that is to go on.
PointFine(n) ==
  /\ n \in DOMAIN points => points[n] \in Nat /\ (walks[n].status = "held" \/ walks[n].disturbed)
  /\ walks[n].status = "held" => n \in DOMAIN points

PointsFine ==
  /\ points = [n \in DOMAIN points |-> points[n]]
  /\ IsFiniteSet(DOMAIN points) /\ DOMAIN points \subseteq 1 .. Len(walks)
  /\ available \in Nat /\ available + Cardinality(DOMAIN points) = MaxPoints

BrowsingInv ==
  /\ \A x \in DOMAIN nodes : IsList(nodes[x].refs)
  /\ IsList(walks) /\ \A n \in 1 .. Len(walks) : IsWalk(walks[n])
  /\ PointsFine
  /\ \A n \in 1 .. Len(walks) : PointFine(n) /\ WalkFine(n)

LEMMA BrowsingFirst ==
  ASSUME BrowsingAssumption, BrowsingInit
  PROVE  BrowsingInv
<1>1. /\ nodes = << >> /\ points = << >> /\ walks = << >> /\ available = MaxPoints /\ MaxPoints \in Nat
  BY DEF BrowsingInit, BrowsingAssumption
<1>2. DOMAIN nodes = {} /\ DOMAIN points = {} /\ Len(walks) = 0 /\ walks \in Seq(Range(walks))
  BY <1>1
<1>3. PointsFine
  <2>1. IsFiniteSet({}) /\ Cardinality({}) = 0
    BY FS_EmptySet
  <2>2. points = [n \in DOMAIN points |-> points[n]]
    BY <1>1
  <2> QED BY <1>1, <1>2, <2>1, <2>2 DEF PointsFine
<1> QED BY <1>2, <1>3 DEF BrowsingInv, IsList

\* Lists are functions of the numbers up to a length.
LEMMA ListOf ==
  ASSUME NEW n \in Nat, NEW s, s = [k \in 1 .. n |-> s[k]]
  PROVE  IsList(s) /\ Len(s) = n
<1>1. \A k \in 1 .. n : s[k] \in Range(s)
  BY DEF Range
<1>2. s \in [1 .. n -> Range(s)]
  BY <1>1
<1> QED BY <1>2 DEF IsList

LEMMA ListGrows ==
  ASSUME NEW s, IsList(s), NEW x
  PROVE  /\ IsList(Append(s, x)) /\ Len(Append(s, x)) = Len(s) + 1
         /\ \A k \in 1 .. Len(s) : Append(s, x)[k] = s[k]
         /\ Append(s, x)[Len(s) + 1] = x
<1> DEFINE S == Range(s) \cup {x}
           t == Append(s, x)
<1>1. s \in Seq(S) /\ x \in S /\ Len(s) \in Nat
  BY DEF IsList
<1>2. /\ t \in Seq(S) /\ Len(t) = Len(s) + 1
      /\ \A k \in 1 .. Len(s) : t[k] = s[k]
      /\ t[Len(s) + 1] = x
  BY <1>1
<1> HIDE DEF t, S
<1>3. t = [k \in 1 .. Len(t) |-> t[k]] /\ Len(t) \in Nat
  BY <1>2
<1>4. IsList(t)
  BY <1>3, ListOf
<1> QED BY <1>2, <1>4 DEF t

LEMMA ListsJoined ==
  ASSUME NEW s, IsList(s), NEW S, NEW t \in Seq(S)
  PROVE  /\ IsList(s \o t) /\ Len(s \o t) = Len(s) + Len(t)
         /\ \A k \in 1 .. Len(s) : (s \o t)[k] = s[k]
         /\ \A k \in 1 .. Len(t) : (s \o t)[Len(s) + k] = t[k]
<1> DEFINE T == Range(s) \cup S
           u == s \o t
<1>1. s \in Seq(T) /\ t \in Seq(T) /\ Len(s) \in Nat /\ Len(t) \in Nat
  BY DEF IsList
<1>2. /\ u \in Seq(T) /\ Len(u) = Len(s) + Len(t)
      /\ \A k \in 1 .. Len(s) : u[k] = s[k]
      /\ \A k \in 1 .. Len(t) : u[Len(s) + k] = t[k]
  BY <1>1
<1> HIDE DEF u, T
<1>3. u = [k \in 1 .. Len(u) |-> u[k]] /\ Len(u) \in Nat
  BY <1>1, <1>2
<1>4. IsList(u)
  BY <1>3, ListOf
<1> QED BY <1>2, <1>4 DEF u

\* A walk that is added, or changed, leaves the others as they are.
LEMMA AnswerKeeps ==
  ASSUME BrowsingInv, nodes' = nodes, NEW w, IsWalk(w), walks' = Append(walks, w), PointsFine',
         NEW n, n = Len(walks) + 1,
         \A m \in 1 .. Len(walks) : (m \in DOMAIN points' <=> m \in DOMAIN points)
                                    /\ (m \in DOMAIN points => points'[m] = points[m]),
         PointFine(n)', WalkFine(n)'
  PROVE  BrowsingInv'
<1>1. /\ IsList(walks') /\ Len(walks') = Len(walks) + 1 /\ Len(walks) \in Nat
      /\ \A m \in 1 .. Len(walks) : walks'[m] = walks[m]
      /\ walks'[n] = w
  BY ListGrows DEF BrowsingInv, IsList
<1>2. ASSUME NEW m \in 1 .. Len(walks')
      PROVE  IsWalk(walks'[m]) /\ PointFine(m)' /\ WalkFine(m)'
  <2>1. CASE m = n
    BY <1>1, <2>1
  <2>2. CASE m # n
    <3>1. m \in 1 .. Len(walks) /\ walks'[m] = walks[m]
      BY <1>1, <2>2
    <3>2. IsWalk(walks[m]) /\ PointFine(m) /\ WalkFine(m)
      BY <3>1 DEF BrowsingInv
    <3>3. PointFine(m)'
      BY <3>1, <3>2 DEF PointFine
    <3>4. WalkFine(m)'
      BY <3>1, <3>2 DEF WalkFine
    <3> QED BY <3>1, <3>2, <3>3, <3>4
  <2> QED BY <2>1, <2>2
<1> QED BY <1>1, <1>2 DEF BrowsingInv, IsWalk, Statuses

LEMMA EditKeeps ==
  ASSUME BrowsingInv, nodes' = nodes, NEW n \in 1 .. Len(walks), IsWalk(walks'[n]),
         walks' = [m \in DOMAIN walks |-> walks'[m]],
         \A m \in 1 .. Len(walks) : m # n => walks'[m] = walks[m],
         PointsFine',
         \A m \in 1 .. Len(walks) : m # n =>
           (m \in DOMAIN points' <=> m \in DOMAIN points)
           /\ (m \in DOMAIN points => points'[m] = points[m]),
         PointFine(n)', WalkFine(n)'
  PROVE  BrowsingInv'
<1>1. Len(walks) \in Nat /\ DOMAIN walks = 1 .. Len(walks)
  BY DEF BrowsingInv, IsList
<1>2. IsList(walks') /\ Len(walks') = Len(walks)
  <2> DEFINE s == walks'
  <2>1. s = [m \in 1 .. Len(walks) |-> s[m]]
    BY <1>1
  <2> HIDE DEF s
  <2>2. IsList(s) /\ Len(s) = Len(walks)
    BY <1>1, <2>1, ListOf
  <2> QED BY <2>2 DEF s
<1>3. ASSUME NEW m \in 1 .. Len(walks)
      PROVE  IsWalk(walks'[m]) /\ PointFine(m)' /\ WalkFine(m)'
  <2>1. CASE m = n
    BY <2>1
  <2>2. CASE m # n
    <3>1. walks'[m] = walks[m]
      BY <2>2
    <3>2. IsWalk(walks[m]) /\ PointFine(m) /\ WalkFine(m)
      BY DEF BrowsingInv
    <3>3. PointFine(m)'
      BY <2>2, <3>1, <3>2 DEF PointFine
    <3>4. WalkFine(m)'
      BY <2>2, <3>1, <3>2 DEF WalkFine
    <3> QED BY <3>1, <3>2, <3>3, <3>4
  <2> QED BY <2>1, <2>2
<1> QED BY <1>2, <1>3 DEF BrowsingInv, IsWalk, Statuses

LEMMA PointAdded ==
  ASSUME BrowsingInv, available # 0, NEW n, n = Len(walks) + 1, NEW k \in Nat, NEW w,
         walks' = Append(walks, w), available' = available - 1,
         points' = [m \in DOMAIN points \cup {n} |-> IF m = n THEN k ELSE points[m]]
  PROVE  PointsFine'
<1>1. /\ IsFiniteSet(DOMAIN points) /\ DOMAIN points \subseteq 1 .. Len(walks)
      /\ available \in Nat /\ available + Cardinality(DOMAIN points) = MaxPoints
      /\ Len(walks) \in Nat /\ Len(walks') = Len(walks) + 1
  BY ListGrows DEF BrowsingInv, PointsFine, IsList
<1>2. n \notin DOMAIN points /\ DOMAIN points' = DOMAIN points \cup {n}
  BY <1>1
<1>3. /\ IsFiniteSet(DOMAIN points') /\ Cardinality(DOMAIN points) \in Nat
      /\ Cardinality(DOMAIN points') = Cardinality(DOMAIN points) + 1
  BY <1>1, <1>2, FS_AddElement, FS_CardinalityType
<1>4. DOMAIN points' \subseteq 1 .. Len(walks')
  BY <1>1, <1>2
<1>5. points' = [m \in DOMAIN points' |-> points'[m]]
  BY <1>2
<1>6. available' \in Nat /\ available' + Cardinality(DOMAIN points') = MaxPoints
  BY <1>1, <1>3
<1> QED BY <1>3, <1>4, <1>5, <1>6 DEF PointsFine

LEMMA PointRemoved ==
  ASSUME BrowsingInv, NEW n \in DOMAIN points, RemovePoint(n), Len(walks') = Len(walks)
  PROVE  PointsFine' /\ DOMAIN points' = DOMAIN points \ {n}
         /\ \A m \in DOMAIN points \ {n} : points'[m] = points[m]
<1>1. /\ IsFiniteSet(DOMAIN points) /\ DOMAIN points \subseteq 1 .. Len(walks)
      /\ available \in Nat /\ available + Cardinality(DOMAIN points) = MaxPoints
  BY DEF BrowsingInv, PointsFine
<1>2. /\ DOMAIN points' = DOMAIN points \ {n} /\ available' = available + 1
      /\ \A m \in DOMAIN points \ {n} : points'[m] = points[m]
      /\ points' = [m \in DOMAIN points' |-> points'[m]]
  BY DEF RemovePoint
<1>3. /\ IsFiniteSet(DOMAIN points') /\ Cardinality(DOMAIN points) \in Nat
      /\ Cardinality(DOMAIN points') = Cardinality(DOMAIN points) - 1
  BY <1>1, <1>2, FS_RemoveElement, FS_CardinalityType
<1>4. available' \in Nat /\ available' + Cardinality(DOMAIN points') = MaxPoints
  BY <1>1, <1>2, <1>3
<1> QED BY <1>1, <1>2, <1>3, <1>4 DEF PointsFine

LEMMA PointMoved ==
  ASSUME BrowsingInv, NEW n \in DOMAIN points, NEW k, points' = [points EXCEPT ![n] = k],
         available' = available, Len(walks') = Len(walks)
  PROVE  PointsFine' /\ DOMAIN points' = DOMAIN points /\ points'[n] = k
         /\ \A m \in DOMAIN points \ {n} : points'[m] = points[m]
BY DEF BrowsingInv, PointsFine

LEMMA PointsUnchanged ==
  ASSUME BrowsingInv, points' = points, available' = available,
         Len(walks') \in Nat, Len(walks) <= Len(walks')
  PROVE  PointsFine'
<1>1. 1 .. Len(walks) \subseteq 1 .. Len(walks')
  <2>1. Len(walks) \in Nat
    BY DEF BrowsingInv, IsList
  <2> QED BY <2>1
<1> QED BY <1>1 DEF BrowsingInv, PointsFine

\* What no reference matches, a node without references, gives nothing.
LEMMA NothingMatches ==
  ASSUME NEW ns, NEW view, IsList(ns[view.node].refs), ns[view.node].refs = <<>>
  PROVE  Len(Matches(ns, view)) = 0
<1>1. Len(Matches(ns, view)) \in Nat /\ Len(Matches(ns, view)) <= 0
  BY MatchesElements
<1> QED BY <1>1

LEMMA BrowseKeeps ==
  ASSUME BrowsingAssumption, BrowsingInv, Browse
  PROVE  BrowsingInv'
<1>1. PICK view \in Views :
        /\ UNCHANGED nodes
        /\ IF ~Browsable(nodes, view) THEN AnswerOnly(view, <<>>, "failed")
           ELSE IF nodes[view.node].refs = <<>> THEN AnswerOnly(view, <<>>, "done")
           ELSE \E page \in {Page(nodes, view, 0)} : BrowseNode(view, page)
  BY DEF Browse
<1>2. /\ nodes' = nodes /\ IsList(walks) /\ Len(walks) \in Nat /\ view.max \in Nat
      /\ DOMAIN points \subseteq 1 .. Len(walks)
  BY <1>1 DEF BrowsingInv, IsList, PointsFine, BrowsingAssumption
<1>3. ASSUME NEW got, IsList(got), NEW status \in Statuses
      PROVE  LET w == Walk(view, got, status)
             IN /\ IsWalk(w) /\ w.view = view /\ w.got = got /\ w.status = status
                /\ w.disturbed = FALSE
  BY <1>3 DEF IsWalk, Walk
<1>4. ASSUME NEW got, IsList(got), NEW status \in {"done", "refused", "failed"},
             AnswerOnly(view, got, status),
             status # "failed" => view.node \in DOMAIN nodes /\ Begins(got, Matches(nodes, view)),
             status = "done" => Len(got) = Len(Matches(nodes, view))
      PROVE  BrowsingInv'
  <2> DEFINE w == Walk(view, got, status)
             n == Len(walks) + 1
  <2>1. IsWalk(w) /\ w.view = view /\ w.got = got /\ w.status = status /\ w.disturbed = FALSE
    <3>1. status \in Statuses /\ IsList(got)
      BY <1>4 DEF Statuses
    <3> QED BY <1>3, <3>1
  <2> HIDE DEF w
  <2>2. walks' = Append(walks, w) /\ points' = points /\ available' = available
    BY <1>4 DEF AnswerOnly, Answer, w
  <2>3. Len(walks') = n /\ walks'[n] = w
    BY <1>2, <2>2, ListGrows
  <2>4. PointsFine'
    BY <1>2, <2>2, <2>3, PointsUnchanged
  <2>5. PICK k : k = n
    OBVIOUS
  <2>6. k \notin DOMAIN points'
    BY <1>2, <2>2, <2>5
  <2>7. PointFine(k)'
    BY <1>4, <2>1, <2>3, <2>5, <2>6 DEF PointFine
  <2>8. WalkFine(k)'
    BY <1>2, <1>4, <2>1, <2>3, <2>5, <2>6 DEF WalkFine
  <2> QED BY <1>2, <2>1, <2>2, <2>4, <2>5, <2>7, <2>8, AnswerKeeps
<1>5. CASE ~Browsable(nodes, view)
  <2>1. AnswerOnly(view, <<>>, "failed") /\ IsList(<<>>)
    BY <1>1, <1>5 DEF IsList
  <2> QED BY <1>4, <2>1
<1>6. CASE Browsable(nodes, view) /\ nodes[view.node].refs = <<>>
  <2>1. AnswerOnly(view, <<>>, "done") /\ IsList(<<>>) /\ Len(<<>>) = 0 /\ view.node \in DOMAIN nodes
    BY <1>1, <1>6 DEF IsList, Browsable
  <2>2. IsList(nodes[view.node].refs)
    BY <2>1 DEF BrowsingInv
  <2>3. Len(Matches(nodes, view)) = 0
    BY <1>6, <2>2, NothingMatches
  <2>4. Begins(<<>>, Matches(nodes, view))
    BY <2>1, <2>3 DEF Begins
  <2> QED BY <1>4, <2>1, <2>3, <2>4
<1>7. CASE Browsable(nodes, view) /\ nodes[view.node].refs # <<>>
  <2> DEFINE page == Page(nodes, view, 0)
             matches == Matches(nodes, view)
             refs == nodes[view.node].refs
             given == page.refs
  <2>1. view.node \in DOMAIN nodes /\ IsList(refs)
    BY <1>7 DEF BrowsingInv, Browsable
  <2>2. BrowseNode(view, page)
    BY <1>1, <1>7
  <2>3. matches \in Seq(Range(refs))
    BY <2>1, MatchesElements
  <2>4. /\ given \in Seq(Range(refs)) /\ Len(given) <= Len(matches)
        /\ \A k \in 1 .. Len(given) : given[k] = matches[k]
        /\ ~Full(view, page) => Len(given) = Len(matches)
        /\ Full(view, page) => Len(given) > 0
    <3>1. /\ given \in Seq(Range(refs))
          /\ 0 <= Len(matches) =>
               /\ 0 + Len(given) <= Len(matches)
               /\ \A k \in 1 .. Len(given) : given[k] = matches[0 + k]
               /\ 0 = 0 /\ ~Full(view, page) => Len(given) = Len(matches)
               /\ Full(view, page) => Len(given) > 0
      BY <1>2, <1>7, <2>1, PageGives
    <3>2. Len(matches) \in Nat /\ Len(given) \in Nat
      BY <2>3, <3>1
    <3> QED BY <3>1, <3>2
  <2> HIDE DEF page, matches, refs
  <2>5. IsList(given) /\ Len(given) \in Nat
    <3>1. given = [k \in 1 .. Len(given) |-> given[k]] /\ Len(given) \in Nat
      BY <2>4
    <3> QED BY <3>1, ListOf
  <2>6. Begins(given, matches)
    BY <2>4 DEF Begins
  <2>7. CASE ~Full(view, page)
    <3>1. AnswerOnly(view, given, "done")
      BY <2>2, <2>7 DEF BrowseNode
    <3> QED BY <1>4, <2>1, <2>4, <2>5, <2>6, <2>7, <3>1 DEF matches
  <2>8. CASE Full(view, page) /\ available = 0
    <3>1. AnswerOnly(view, given, "refused")
      BY <2>2, <2>8 DEF BrowseNode
    <3> QED BY <1>4, <2>1, <2>5, <2>6, <3>1 DEF matches
  <2>9. CASE Full(view, page) /\ available # 0
    <3> DEFINE w == Walk(view, given, "held")
    <3>1. IsWalk(w) /\ w.view = view /\ w.got = given /\ w.status = "held" /\ w.disturbed = FALSE
      BY <1>3, <2>5 DEF Statuses
    <3> HIDE DEF w
    <3>2. PICK n : n = Len(walks) + 1
      OBVIOUS
    <3>3. /\ walks' = Append(walks, w) /\ available' = available - 1
          /\ points' = [m \in DOMAIN points \cup {n} |-> IF m = n THEN Len(given) ELSE points[m]]
      BY <2>2, <2>9, <3>2 DEF BrowseNode, Answer, w
    <3>4. walks'[n] = w
      BY <1>2, <3>2, <3>3, ListGrows
    <3>5. PointsFine'
      BY <2>5, <2>9, <3>2, <3>3, PointAdded
    <3>6. n \in DOMAIN points' /\ points'[n] = Len(given)
      BY <3>3
    <3>7. PointFine(n)'
      BY <2>5, <3>1, <3>4, <3>6 DEF PointFine
    <3>8. WalkFine(n)'
      <4>1. Len(given) > 0
        BY <2>4, <2>9
      <4> QED BY <1>2, <2>1, <2>6, <3>1, <3>4, <3>6, <4>1 DEF WalkFine, matches
    <3>9. \A m \in 1 .. Len(walks) : (m \in DOMAIN points' <=> m \in DOMAIN points)
                                    /\ (m \in DOMAIN points => points'[m] = points[m])
      BY <1>2, <3>2, <3>3
    <3> QED BY <1>2, <3>1, <3>2, <3>3, <3>5, <3>7, <3>8, <3>9, AnswerKeeps
  <2> QED BY <2>7, <2>8, <2>9
<1> QED BY <1>5, <1>6, <1>7

LEMMA OneEdited ==
  ASSUME NEW s, NEW n \in DOMAIN s, NEW more, NEW status, NEW t,
         t = [s EXCEPT ![n].got = @ \o more, ![n].status = status]
  PROVE  /\ t = [k \in DOMAIN s |-> t[k]]
         /\ t[n] = [s[n] EXCEPT !.got = @ \o more, !.status = status]
         /\ \A k \in DOMAIN s \ {n} : t[k] = s[k]
OBVIOUS

\* A page was given to a walk that goes on, or is done with it.
LEMMA ContinueKeeps ==
  ASSUME BrowsingAssumption, BrowsingInv, nodes' = nodes, NEW n \in 1 .. Len(walks),
         walks[n].status = "held", walks[n].view.node \in DOMAIN nodes,
         nodes[walks[n].view.node].refs # <<>>,
         Continue(n, Page(nodes, walks[n].view, points[n]))
  PROVE  BrowsingInv'
<1> DEFINE old == walks[n]
           new == walks'[n]
           page == Page(nodes, old.view, points[n])
           matches == Matches(nodes, old.view)
           refs == nodes[old.view.node].refs
           more == page.refs
           status == IF page.whole THEN "done" ELSE "held"
<1>1. /\ IsWalk(old) /\ PointFine(n) /\ WalkFine(n) /\ IsList(walks) /\ PointsFine /\ Len(walks) \in Nat
  BY DEF BrowsingInv, IsList
<1>2. n \in DOMAIN points /\ points[n] \in Nat
  BY <1>1 DEF PointFine
<1>3. IsList(refs) /\ refs # <<>> /\ old.view.max \in Nat
  BY <1>1 DEF BrowsingInv, BrowsingAssumption, IsWalk
<1>4. /\ more \in Seq(Range(refs)) /\ page.whole \in BOOLEAN
      /\ points[n] <= Len(matches) =>
           /\ points[n] + Len(more) <= Len(matches)
           /\ \A k \in 1 .. Len(more) : more[k] = matches[points[n] + k]
           /\ page.whole => points[n] + Len(more) = Len(matches)
  <2>1. PICK view : view = old.view
    OBVIOUS
  <2>2. PICK skip \in Nat : skip = points[n]
    BY <1>2
  <2>3. IsList(nodes[view.node].refs) /\ nodes[view.node].refs # <<>> /\ view.max \in Nat
    BY <1>3, <2>1
  <2>4. LET p == Page(nodes, view, skip)
            m == Matches(nodes, view)
        IN /\ p.refs \in Seq(Range(nodes[view.node].refs)) /\ p.whole \in BOOLEAN
           /\ skip <= Len(m) =>
                /\ skip + Len(p.refs) <= Len(m)
                /\ \A k \in 1 .. Len(p.refs) : p.refs[k] = m[skip + k]
                /\ p.whole => skip + Len(p.refs) = Len(m)
                /\ skip = 0 /\ ~Full(view, p) => Len(p.refs) = Len(m)
                /\ Full(view, p) => Len(p.refs) > 0
    BY <2>3, PageGives, Zenon
  <2> QED BY <2>1, <2>2, <2>4
<1>5. Len(more) \in Nat /\ Len(matches) \in Nat
  BY <1>3, <1>4, MatchesElements
<1>6. /\ walks' = [walks EXCEPT ![n].got = @ \o more,
                                ![n].status = IF page.whole THEN "done" ELSE "held"]
      /\ page.whole => RemovePoint(n)
      /\ ~page.whole => points' = [points EXCEPT ![n] = @ + Len(more)] /\ available' = available
  BY DEF Continue
<1> HIDE DEF page, matches, refs, more
<1>7. /\ walks' = [m \in DOMAIN walks |-> walks'[m]] /\ DOMAIN walks = 1 .. Len(walks)
      /\ \A m \in 1 .. Len(walks) : m # n => walks'[m] = walks[m]
      /\ new = [old EXCEPT !.got = @ \o more, !.status = status]
  <2>1. n \in DOMAIN walks /\ DOMAIN walks = 1 .. Len(walks)
    BY <1>1 DEF IsList
  <2> HIDE DEF status
  <2>2. walks' = [walks EXCEPT ![n].got = @ \o more, ![n].status = status]
    BY <1>6 DEF status
  <2> QED BY <2>1, <2>2, OneEdited
<1>8. /\ new.got = old.got \o more /\ new.status = status
      /\ new.view = old.view /\ new.disturbed = old.disturbed
      /\ new \in [view : Views, got : {new.got}, status : Statuses, disturbed : BOOLEAN]
  <2>1. status \in Statuses
    BY DEF Statuses
  <2> HIDE DEF status, old, new
  <2> QED BY <1>1, <1>7, <2>1 DEF IsWalk
<1> HIDE DEF new
<1>9. /\ IsList(old.got) /\ IsList(new.got) /\ Len(new.got) = Len(old.got) + Len(more)
      /\ Len(old.got) \in Nat /\ IsWalk(new)
      /\ \A k \in 1 .. Len(old.got) : new.got[k] = old.got[k]
      /\ \A k \in 1 .. Len(more) : new.got[Len(old.got) + k] = more[k]
  <2>1. IsList(old.got) /\ Len(old.got) \in Nat
    BY <1>1 DEF IsWalk, IsList
  <2> DEFINE S == Range(refs)
             got == old.got
             joined == got \o more
  <2>2. more \in Seq(S) /\ IsList(got)
    BY <1>4, <2>1
  <2> HIDE DEF S, got
  <2>3. /\ IsList(joined) /\ Len(joined) = Len(got) + Len(more)
        /\ \A k \in 1 .. Len(got) : joined[k] = got[k]
        /\ \A k \in 1 .. Len(more) : joined[Len(got) + k] = more[k]
    BY <2>2, ListsJoined
  <2>4. new.got = joined
    BY <1>8 DEF got
  <2> HIDE DEF joined
  <2> QED BY <1>8, <2>1, <2>3, <2>4 DEF IsWalk, got
<1>10. Len(walks') = Len(walks)
  <2> DEFINE s == walks'
  <2>1. s = [m \in 1 .. Len(walks) |-> s[m]]
    BY <1>7
  <2> HIDE DEF s
  <2>2. Len(s) = Len(walks)
    BY <1>1, <2>1, ListOf
  <2> QED BY <2>2 DEF s
<1>11. /\ PointsFine'
       /\ page.whole => n \notin DOMAIN points'
       /\ ~page.whole => n \in DOMAIN points' /\ points'[n] = points[n] + Len(more)
       /\ \A m \in 1 .. Len(walks) : m # n => (m \in DOMAIN points' <=> m \in DOMAIN points)
                                            /\ (m \in DOMAIN points => points'[m] = points[m])
  <2>1. CASE page.whole
    BY <1>2, <1>6, <1>10, <2>1, PointRemoved
  <2>2. CASE ~page.whole
    BY <1>2, <1>6, <1>10, <2>2, PointMoved
  <2> QED BY <1>4, <2>1, <2>2
<1>12. PointFine(n)'
  <2>1. CASE page.whole
    BY <1>8, <1>11, <2>1 DEF PointFine, new
  <2>2. CASE ~page.whole
    <3>1. points[n] + Len(more) \in Nat
      BY <1>2, <1>5
    <3> QED BY <1>8, <1>11, <2>2, <3>1 DEF PointFine, new
  <2> QED BY <1>4, <2>1, <2>2
<1>13. ASSUME ~old.disturbed
       PROVE  /\ Begins(new.got, matches)
              /\ ~page.whole => points[n] + Len(more) = Len(new.got) /\ points[n] + Len(more) > 0
              /\ page.whole => Len(new.got) = Len(matches)
  <2>1. Begins(old.got, matches) /\ points[n] = Len(old.got) /\ points[n] > 0
    BY <1>1, <1>2, <1>13 DEF WalkFine, matches
  <2>2. points[n] <= Len(matches)
    BY <2>1 DEF Begins
  <2>3. Len(new.got) = points[n] + Len(more) /\ Len(new.got) <= Len(matches)
    BY <1>4, <1>9, <2>1, <2>2
  <2>4. ASSUME NEW k \in 1 .. Len(new.got) PROVE new.got[k] = matches[k]
    <3>1. CASE k <= Len(old.got)
      <4>1. k \in 1 .. Len(old.got)
        BY <1>8, <1>9, <3>1
      <4> QED BY <1>8, <1>9, <2>1, <4>1 DEF Begins
    <3>2. CASE k > Len(old.got)
      <4>1. k - Len(old.got) \in 1 .. Len(more) /\ k = Len(old.got) + (k - Len(old.got))
        BY <1>5, <1>9, <3>2
      <4>2. new.got[Len(old.got) + (k - Len(old.got))] = more[k - Len(old.got)]
        BY <1>8, <1>9, <4>1
      <4>3. more[k - Len(old.got)] = matches[points[n] + (k - Len(old.got))]
        BY <1>4, <2>2, <4>1
      <4> QED BY <2>1, <4>1, <4>2, <4>3
    <3> QED BY <1>8, <1>9, <3>1, <3>2
  <2>5. Begins(new.got, matches)
    BY <2>3, <2>4 DEF Begins
  <2> QED BY <1>2, <1>4, <1>5, <2>1, <2>2, <2>3, <2>5
<1>14. WalkFine(n)'
  <2>1. CASE page.whole
    BY <1>8, <1>11, <1>13, <2>1 DEF WalkFine, matches, new
  <2>2. CASE ~page.whole
    BY <1>8, <1>11, <1>13, <2>2 DEF WalkFine, matches, new
  <2> QED BY <1>4, <2>1, <2>2
<1> QED BY <1>7, <1>9, <1>11, <1>12, <1>14, EditKeeps DEF new

LEMMA BrowseNextKeeps ==
  ASSUME BrowsingAssumption, BrowsingInv, BrowseNext
  PROVE  BrowsingInv'
<1>1. PICK n \in DOMAIN walks, release \in BOOLEAN :
        /\ UNCHANGED nodes
        /\ walks[n].status = "held"
        /\ LET view == walks[n].view IN
           IF release THEN RemovePoint(n) /\ walks' = [walks EXCEPT ![n].status = "released"]
           ELSE IF ~Browsable(nodes, view) THEN UNCHANGED <<points, available, walks>>
           ELSE IF nodes[view.node].refs = <<>>
           THEN walks' = [walks EXCEPT ![n].status = "done"] /\ UNCHANGED <<points, available>>
           ELSE \E page \in {Page(nodes, view, points[n])} : Continue(n, page)
  BY DEF BrowseNext
<1> DEFINE view == walks[n].view
<1>2. /\ n \in 1 .. Len(walks) /\ DOMAIN walks = 1 .. Len(walks) /\ Len(walks) \in Nat
      /\ nodes' = nodes /\ IsWalk(walks[n]) /\ PointFine(n) /\ WalkFine(n) /\ n \in DOMAIN points
  <2>1. n \in 1 .. Len(walks) /\ DOMAIN walks = 1 .. Len(walks) /\ Len(walks) \in Nat
    BY DEF BrowsingInv, IsList
  <2>2. IsWalk(walks[n]) /\ PointFine(n) /\ WalkFine(n)
    BY <2>1 DEF BrowsingInv
  <2> QED BY <1>1, <2>1, <2>2 DEF PointFine
<1>3. ASSUME NEW status \in Statuses, walks' = [walks EXCEPT ![n].status = status]
      PROVE  /\ IsWalk(walks'[n]) /\ walks' = [m \in DOMAIN walks |-> walks'[m]]
             /\ \A m \in 1 .. Len(walks) : m # n => walks'[m] = walks[m]
             /\ walks'[n].status = status /\ walks'[n].view = view
             /\ walks'[n].got = walks[n].got /\ walks'[n].disturbed = walks[n].disturbed
             /\ Len(walks') = Len(walks)
  <2>1. /\ walks' = [m \in DOMAIN walks |-> walks'[m]]
        /\ \A m \in 1 .. Len(walks) : m # n => walks'[m] = walks[m]
        /\ walks'[n] = [walks[n] EXCEPT !.status = status]
    BY <1>2, <1>3
  <2> DEFINE new == walks'[n]
             old == walks[n]
             s == walks'
  <2>2. new = [old EXCEPT !.status = status] /\ IsWalk(old)
    BY <1>2, <2>1
  <2>3. s = [m \in 1 .. Len(walks) |-> s[m]]
    BY <1>2, <2>1
  <2> HIDE DEF new, old, s
  <2>4. /\ new.status = status /\ new.view = old.view /\ new.got = old.got
        /\ new.disturbed = old.disturbed /\ IsWalk(new)
    BY <1>3, <2>2 DEF IsWalk
  <2>5. Len(s) = Len(walks)
    BY <1>2, <2>3, ListOf
  <2> QED BY <2>1, <2>4, <2>5 DEF new, old, s
<1>4. CASE release
  <2>1. RemovePoint(n) /\ walks' = [walks EXCEPT ![n].status = "released"] /\ "released" \in Statuses
    BY <1>1, <1>4 DEF Statuses
  <2>2. /\ IsWalk(walks'[n]) /\ walks' = [m \in DOMAIN walks |-> walks'[m]]
        /\ \A m \in 1 .. Len(walks) : m # n => walks'[m] = walks[m]
        /\ walks'[n].status = "released" /\ walks'[n].view = view
        /\ walks'[n].got = walks[n].got /\ walks'[n].disturbed = walks[n].disturbed
        /\ Len(walks') = Len(walks)
    BY <1>3, <2>1
  <2>3. /\ PointsFine' /\ DOMAIN points' = DOMAIN points \ {n}
        /\ \A m \in DOMAIN points \ {n} : points'[m] = points[m]
    BY <1>2, <2>1, <2>2, PointRemoved
  <2>4. PointFine(n)' /\ WalkFine(n)'
    BY <1>1, <1>2, <2>2, <2>3 DEF PointFine, WalkFine
  <2> QED BY <1>2, <2>2, <2>3, <2>4, EditKeeps
<1>5. CASE ~release /\ ~Browsable(nodes, view)
  <2>1. walks' = walks /\ points' = points /\ available' = available
    BY <1>1, <1>5
  <2>2. PointsFine' /\ \A m \in 1 .. Len(walks) : PointFine(m)' /\ WalkFine(m)'
    BY <1>2, <2>1 DEF BrowsingInv, PointsFine, PointFine, WalkFine
  <2> QED BY <1>2, <2>1, <2>2 DEF BrowsingInv
<1>6. CASE ~release /\ Browsable(nodes, view) /\ nodes[view.node].refs = <<>>
  <2>1. /\ walks' = [walks EXCEPT ![n].status = "done"] /\ points' = points /\ available' = available
        /\ view.node \in DOMAIN nodes /\ "done" \in Statuses
    BY <1>1, <1>6 DEF Browsable, Statuses
  <2>2. /\ IsWalk(walks'[n]) /\ walks' = [m \in DOMAIN walks |-> walks'[m]]
        /\ \A m \in 1 .. Len(walks) : m # n => walks'[m] = walks[m]
        /\ walks'[n].status = "done" /\ walks'[n].view = view
        /\ walks'[n].got = walks[n].got /\ walks'[n].disturbed = walks[n].disturbed
        /\ Len(walks') = Len(walks)
    BY <1>3, <2>1
  <2>3. walks[n].disturbed
    <3>1. SUFFICES ASSUME ~walks[n].disturbed PROVE FALSE
      OBVIOUS
    <3>2. /\ Begins(walks[n].got, Matches(nodes, view)) /\ points[n] = Len(walks[n].got)
          /\ points[n] > 0
      BY <1>1, <1>2, <3>1 DEF WalkFine
    <3>3. Len(Matches(nodes, view)) = 0
      BY <1>6, <2>1, NothingMatches DEF BrowsingInv
    <3> QED BY <1>2, <3>2, <3>3 DEF Begins, PointFine
  <2>4. PointFine(n)' /\ WalkFine(n)'
    BY <1>2, <2>1, <2>2, <2>3 DEF PointFine, WalkFine
  <2>5. PointsFine'
    BY <1>2, <2>1, <2>2, PointsUnchanged
  <2> QED BY <1>2, <2>1, <2>2, <2>4, <2>5, EditKeeps
<1>7. CASE ~release /\ Browsable(nodes, view) /\ nodes[view.node].refs # <<>>
  <2>1. Continue(n, Page(nodes, view, points[n])) /\ view.node \in DOMAIN nodes
    BY <1>1, <1>7 DEF Browsable
  <2> QED BY <1>1, <1>2, <1>7, <2>1, ContinueKeeps
<1> QED BY <1>4, <1>5, <1>6, <1>7

\* Where the nodes change, every walk has been disturbed.
LEMMA ChangeKeeps ==
  ASSUME BrowsingInv, Change
  PROVE  BrowsingInv'
<1>1. /\ \A x \in DOMAIN nodes' : IsList(nodes'[x].refs)
      /\ points' = points /\ available' = available
      /\ walks' = IF nodes' = nodes THEN walks
                  ELSE [n \in DOMAIN walks |-> [walks[n] EXCEPT !.disturbed = TRUE]]
  BY DEF Change, Disturb
<1>2. DOMAIN walks = 1 .. Len(walks) /\ Len(walks) \in Nat
  BY DEF BrowsingInv, IsList
<1>3. CASE nodes' = nodes
  <2>1. PointsFine' /\ \A m \in 1 .. Len(walks) : PointFine(m)' /\ WalkFine(m)'
    BY <1>1, <1>3 DEF BrowsingInv, PointsFine, PointFine, WalkFine
  <2> QED BY <1>1, <1>3, <2>1 DEF BrowsingInv
<1>4. CASE nodes' # nodes
  <2>1. walks' = [n \in 1 .. Len(walks) |-> [walks[n] EXCEPT !.disturbed = TRUE]]
    BY <1>1, <1>2, <1>4
  <2>2. IsList(walks') /\ Len(walks') = Len(walks)
    <3> DEFINE s == walks'
    <3>1. s = [n \in 1 .. Len(walks) |-> s[n]]
      BY <2>1
    <3> HIDE DEF s
    <3>2. IsList(s) /\ Len(s) = Len(walks)
      BY <1>2, <3>1, ListOf
    <3> QED BY <3>2 DEF s
  <2>3. ASSUME NEW n \in 1 .. Len(walks)
        PROVE  IsWalk(walks'[n]) /\ walks'[n].disturbed /\ walks'[n].status = walks[n].status
    <3> DEFINE new == walks'[n]
               old == walks[n]
    <3>1. new = [old EXCEPT !.disturbed = TRUE] /\ IsWalk(old)
      BY <2>1 DEF BrowsingInv
    <3> HIDE DEF new, old
    <3>2. IsWalk(new) /\ new.disturbed = TRUE /\ new.status = old.status
      BY <3>1 DEF IsWalk
    <3> QED BY <3>2 DEF new, old
  <2>4. PointsFine'
    BY <1>1, <1>2, <2>2, PointsUnchanged
  <2>5. ASSUME NEW n \in 1 .. Len(walks) PROVE PointFine(n)' /\ WalkFine(n)'
    <3>1. PointFine(n)
      BY DEF BrowsingInv
    <3> QED BY <1>1, <2>3, <3>1 DEF PointFine, WalkFine
  <2> QED BY <1>1, <2>2, <2>3, <2>4, <2>5 DEF BrowsingInv
<1> QED BY <1>3, <1>4

LEMMA BrowsingInvAlways ==
  ASSUME BrowsingAssumption
  PROVE  BrowsingSpec => []BrowsingInv
<1>1. BrowsingInit => BrowsingInv
  BY BrowsingFirst
<1>2. ASSUME BrowsingInv, [BrowsingNext]_browsingVars
      PROVE  BrowsingInv'
  <2>1. CASE Browse
    BY <1>2, <2>1, BrowseKeeps
  <2>2. CASE BrowseNext
    BY <1>2, <2>2, BrowseNextKeeps
  <2>3. CASE Change
    BY <1>2, <2>3, ChangeKeeps
  <2>4. CASE UNCHANGED browsingVars
    BY <1>2, <2>4 DEF browsingVars, BrowsingInv, PointsFine, PointFine, WalkFine
  <2> QED BY <1>2, <2>1, <2>2, <2>3, <2>4 DEF BrowsingNext
<1> QED BY <1>1, <1>2, PTL DEF BrowsingSpec

LEMMA BeginsIsPrefix ==
  ASSUME NEW S, NEW list, IsList(list), NEW matches \in Seq(S), Begins(list, matches)
  PROVE  IsPrefix(list, matches) /\ (Len(list) = Len(matches) => list = matches)
<1>1. /\ list = [k \in 1 .. Len(list) |-> list[k]] /\ Len(list) \in Nat
      /\ matches = [k \in 1 .. Len(matches) |-> matches[k]] /\ Len(matches) \in Nat
      /\ Len(list) <= Len(matches) /\ \A k \in 1 .. Len(list) : list[k] = matches[k]
  BY DEF IsList, Begins
<1>2. SubSeq(list, 1, Len(list)) = SubSeq(matches, 1, Len(list))
  BY <1>1
<1>3. Len(list) = Len(matches) => list = matches
  BY <1>1
<1> QED BY <1>1, <1>2, <1>3 DEF IsPrefix

(***************************************************************************)
(* The theorems about browsing.                                            *)
(***************************************************************************)

\* References stay in lists, points belong to walks, and there are no more points to be had
\* than a session has (22767-22932).
THEOREM BrowsingTypes ==
  ASSUME BrowsingAssumption
  PROVE  BrowsingSpec => []BrowsingTypeOK
<1>1. BrowsingInv => BrowsingTypeOK
  <2>1. SUFFICES ASSUME BrowsingInv PROVE BrowsingTypeOK
    OBVIOUS
  <2>2. DOMAIN walks = 1 .. Len(walks)
    BY <2>1 DEF BrowsingInv, IsList
  <2>3. available \in 0 .. MaxPoints
    <3>1. IsFiniteSet(DOMAIN points) /\ available \in Nat
          /\ available + Cardinality(DOMAIN points) = MaxPoints
      BY <2>1 DEF BrowsingInv, PointsFine
    <3>2. Cardinality(DOMAIN points) \in Nat
      BY <3>1, FS_CardinalityType
    <3> QED BY <3>1, <3>2
  <2>4. ASSUME NEW n \in DOMAIN points PROVE n \in DOMAIN walks /\ points[n] \in Nat
    <3>1. n \in 1 .. Len(walks)
      BY <2>1 DEF BrowsingInv, PointsFine
    <3> QED BY <2>1, <2>2, <3>1 DEF BrowsingInv, PointFine
  <2>5. ASSUME NEW n \in DOMAIN walks
        PROVE  /\ walks[n].view \in Views /\ walks[n].disturbed \in BOOLEAN
               /\ walks[n].status \in {"held", "done", "refused", "failed", "released"}
    BY <2>1, <2>2 DEF BrowsingInv, IsWalk, Statuses
  <2> QED BY <2>1, <2>3, <2>4, <2>5 DEF BrowsingInv, BrowsingTypeOK
<1> QED BY <1>1, BrowsingInvAlways, PTL

\* Whatever nodes, hierarchies and sizes of pages, and however the calls of several walks and
\* changes of the nodes are interleaved: a walk whose node was left alone gave each match once
\* and in order, and all of them when it is done; the points that are held and those that are
\* available make up what a session has (22767-23036).
THEOREM WalksComplete ==
  ASSUME BrowsingAssumption
  PROVE  BrowsingSpec => []WalkComplete
<1>1. BrowsingInv => WalkComplete
  <2>1. SUFFICES ASSUME BrowsingInv PROVE WalkComplete
    OBVIOUS
  <2>2. DOMAIN walks = 1 .. Len(walks)
    BY <2>1 DEF BrowsingInv, IsList
  <2>3. available + Cardinality(DOMAIN points) = MaxPoints
    BY <2>1 DEF BrowsingInv, PointsFine
  <2>4. ASSUME NEW n \in DOMAIN walks
        PROVE  /\ walks[n].status = "held" => n \in DOMAIN points
               /\ n \in DOMAIN points => walks[n].status = "held" \/ walks[n].disturbed
    BY <2>1, <2>2 DEF BrowsingInv, PointFine
  <2>5. ASSUME NEW n \in DOMAIN walks, ~walks[n].disturbed, walks[n].status # "failed"
        PROVE  /\ IsPrefix(walks[n].got, Matches(nodes, walks[n].view))
               /\ walks[n].status = "done" => walks[n].got = Matches(nodes, walks[n].view)
    <3> DEFINE view == walks[n].view
               got == walks[n].got
               matches == Matches(nodes, view)
    <3>1. /\ view.node \in DOMAIN nodes /\ Begins(got, matches)
          /\ walks[n].status = "done" => Len(got) = Len(matches)
      BY <2>1, <2>2, <2>5 DEF BrowsingInv, WalkFine
    <3>2. matches \in Seq(Range(nodes[view.node].refs)) /\ IsList(got)
      BY <2>1, <2>2, <3>1, MatchesElements DEF BrowsingInv, IsWalk
    <3> HIDE DEF got, matches
    <3>3. IsPrefix(got, matches) /\ (Len(got) = Len(matches) => got = matches)
      BY <3>1, <3>2, BeginsIsPrefix
    <3> QED BY <3>1, <3>3 DEF got, matches
  <2> QED BY <2>3, <2>4, <2>5 DEF WalkComplete
<1> QED BY <1>1, BrowsingInvAlways, PTL

(***************************************************************************)
(* References: how often one stands in a list.                             *)
(***************************************************************************)

\* The places from m on where q stands, and their number.
Places(list, m, q) == {k \in m .. Len(list) : list[k] = q}
TimesFrom(list, m, q) == Cardinality(Places(list, m, q))

LEMMA TimesAreFrom ==
  ASSUME NEW S, NEW list \in Seq(S), NEW q
  PROVE  Times(list, q) = TimesFrom(list, 1, q)
<1>1. DOMAIN list = 1 .. Len(list)
  OBVIOUS
<1> QED BY <1>1 DEF Times, TimesFrom, Places

LEMMA PlacesFinite ==
  ASSUME NEW S, NEW list \in Seq(S), NEW m \in Nat, NEW q
  PROVE  IsFiniteSet(Places(list, m, q)) /\ TimesFrom(list, m, q) \in Nat
<1>1. IsFiniteSet(m .. Len(list))
  BY FS_Interval
<1>2. Places(list, m, q) \in SUBSET (m .. Len(list))
  BY DEF Places
<1> QED BY <1>1, <1>2, FS_Subset, FS_CardinalityType DEF TimesFrom

LEMMA TimesNone ==
  ASSUME NEW S, NEW list \in Seq(S), NEW m \in Nat, NEW q
  PROVE  TimesFrom(list, m, q) = 0 <=> \A k \in m .. Len(list) : list[k] # q
<1>1. TimesFrom(list, m, q) = 0 <=> Places(list, m, q) = {}
  BY PlacesFinite, FS_EmptySet DEF TimesFrom
<1>2. Places(list, m, q) = {} <=> \A k \in m .. Len(list) : list[k] # q
  BY DEF Places
<1> QED BY <1>1, <1>2

\* The first of the places, or none.
LEMMA TimesSplit ==
  ASSUME NEW S, NEW list \in Seq(S), NEW m \in 1 .. Len(list), NEW q
  PROVE  TimesFrom(list, m, q) = TimesFrom(list, m + 1, q) + (IF list[m] = q THEN 1 ELSE 0)
<1> DEFINE P == Places(list, m + 1, q)
<1>1. m \notin P
  BY DEF Places
<1>2. Places(list, m, q) = IF list[m] = q THEN P \cup {m} ELSE P
  <2>1. \A k : k \in m .. Len(list) <=> k = m \/ k \in m + 1 .. Len(list)
    OBVIOUS
  <2> QED BY <2>1 DEF Places
<1>3. IsFiniteSet(P) /\ Cardinality(P) \in Nat
  BY PlacesFinite DEF TimesFrom
<1> HIDE DEF P
<1>4. Cardinality(P \cup {m}) = Cardinality(P) + 1
  BY <1>1, <1>3, FS_AddElement
<1> QED BY <1>2, <1>3, <1>4 DEF TimesFrom, P

LEMMA TimesAppended ==
  ASSUME NEW S, NEW list \in Seq(S), NEW r \in S, NEW q
  PROVE  Times(Append(list, r), q) = Times(list, q) + (IF r = q THEN 1 ELSE 0)
<1> DEFINE n == Len(list)
           new == Append(list, r)
           P == Places(list, 1, q)
<1>1. /\ n \in Nat /\ new \in Seq(S) /\ Len(new) = n + 1 /\ new[n + 1] = r
      /\ \A k \in 1 .. n : new[k] = list[k]
  OBVIOUS
<1>2. n + 1 \notin P
  BY <1>1 DEF Places
<1>3. Places(new, 1, q) = IF r = q THEN P \cup {n + 1} ELSE P
  <2>1. \A k : k \in 1 .. n + 1 <=> k = n + 1 \/ k \in 1 .. n
    BY <1>1
  <2> HIDE DEF new, n
  <2> QED BY <1>1, <2>1 DEF Places, n
<1>4. IsFiniteSet(P) /\ Cardinality(P) \in Nat
  BY PlacesFinite DEF TimesFrom
<1>5. Times(list, q) = Cardinality(P) /\ Times(new, q) = Cardinality(Places(new, 1, q))
  BY <1>1, TimesAreFrom DEF TimesFrom
<1> HIDE DEF P, n, new
<1>6. Cardinality(P \cup {n + 1}) = Cardinality(P) + 1
  BY <1>2, <1>4, FS_AddElement
<1>7. CASE r = q
  BY <1>3, <1>4, <1>5, <1>6, <1>7 DEF new
<1>8. CASE r # q
  BY <1>3, <1>4, <1>5, <1>8 DEF new
<1> QED BY <1>7, <1>8

LEMMA GreatestOf ==
  ASSUME NEW n \in Nat, NEW P \in SUBSET (1 .. n), P # {}
  PROVE  Max(P) \in P /\ \A k \in P : k <= Max(P)
<1> DEFINE Q == {n - k : k \in P}
<1>1. Q \subseteq Nat /\ Q # {}
  <2>1. \A k \in P : n - k \in Nat
    OBVIOUS
  <2> QED BY <2>1
<1>2. PICK d \in Q : \A e \in Q : d <= e
  BY <1>1, LeastOf
<1>3. PICK k \in P : d = n - k
  BY <1>2
<1>4. \A j \in P : k >= j
  <2> TAKE j \in P
  <2>1. n - j \in Q
    OBVIOUS
  <2>2. n - k <= n - j
    BY <1>2, <1>3, <2>1
  <2>3. k \in Nat /\ j \in Nat
    OBVIOUS
  <2> HIDE DEF Q
  <2> QED BY <2>2, <2>3
<1>5. Max(P) \in P /\ \A j \in P : Max(P) >= j
  BY <1>4 DEF Max
<1> QED BY <1>5

\* The one that goes stands at m or behind it; what is before m stays, and behind it there is
\* one less.
LEMMA WithoutOne ==
  ASSUME NEW S, NEW list \in Seq(S), NEW m \in 1 .. Len(list), NEW r,
         \E k \in m .. Len(list) : list[k] = r
  PROVE  /\ Without(list, r) \in Seq(S) /\ Len(Without(list, r)) = Len(list) - 1
         /\ \A k \in 1 .. m - 1 : Without(list, r)[k] = list[k]
         /\ \A q : TimesFrom(Without(list, r), m, q)
                     = TimesFrom(list, m, q) - (IF r = q THEN 1 ELSE 0)
<1> DEFINE n == Len(list)
           R == {k \in DOMAIN list : list[k] = r}
           i == Max(R)
           swapped == [list EXCEPT ![i] = Last(list)]
           new == Without(list, r)
<1>1. n \in Nat /\ DOMAIN list = 1 .. n /\ n >= 1 /\ m \in 1 .. n
  OBVIOUS
<1>2. i \in R /\ \A k \in R : k <= i
  <2>1. R \in SUBSET (1 .. n) /\ R # {}
    BY <1>1
  <2> HIDE DEF R, n
  <2> QED BY <1>1, <2>1, GreatestOf
<1>3. i \in m .. n /\ list[i] = r /\ \A k \in 1 .. n : list[k] = r => k <= i
  <2>1. PICK k \in m .. n : list[k] = r
    OBVIOUS
  <2>2. k \in R
    BY <1>1, <2>1
  <2>3. k <= i /\ i \in 1 .. n /\ list[i] = r
    BY <1>1, <1>2, <2>2
  <2>4. \A j \in 1 .. n : list[j] = r => j <= i
    BY <1>1, <1>2
  <2> HIDE DEF i, R
  <2> QED BY <1>1, <2>1, <2>3, <2>4
<1> HIDE DEF i, R
<1>4. /\ swapped \in Seq(S) /\ Len(swapped) = n
      /\ \A k \in 1 .. n : swapped[k] = IF k = i THEN list[n] ELSE list[k]
  <2>1. Last(list) = list[n] /\ list[n] \in S /\ i \in 1 .. n
    BY <1>1, <1>3 DEF Last
  <2> QED BY <1>1, <2>1
<1>5. new = SubSeq(swapped, 1, n - 1)
  <2>1. new = Front(swapped)
    BY DEF Without, i, R
  <2> HIDE DEF swapped, new
  <2> QED BY <1>4, <2>1 DEF Front
<1> HIDE DEF swapped, new
<1>6. /\ new \in Seq(S) /\ Len(new) = n - 1
      /\ \A k \in 1 .. n - 1 : new[k] = IF k = i THEN list[n] ELSE list[k]
  <2>1. n - 1 \in 0 .. n
    BY <1>1
  <2>2. /\ new \in Seq(S) /\ Len(new) = n - 1
        /\ \A k \in 1 .. n - 1 : new[k] = swapped[k]
    BY <1>1, <1>4, <1>5, <2>1
  <2> QED BY <1>1, <1>4, <2>2
<1>7. ASSUME NEW k \in 1 .. m - 1 PROVE new[k] = list[k]
  <2>1. k \in 1 .. n - 1 /\ k < i
    BY <1>1, <1>3
  <2> QED BY <1>6, <2>1
<1>8. ASSUME NEW q
      PROVE  TimesFrom(new, m, q) = TimesFrom(list, m, q) - (IF r = q THEN 1 ELSE 0)
  <2> DEFINE P == Places(list, m, q)
             Q == Places(new, m, q)
  <2>1. /\ \A k : k \in P <=> k \in m .. n /\ list[k] = q
        /\ \A k : k \in Q <=> k \in m .. n - 1 /\ new[k] = q
    BY <1>1, <1>6 DEF Places
  <2>2. /\ IsFiniteSet(P) /\ TimesFrom(list, m, q) = Cardinality(P) /\ Cardinality(P) \in Nat
        /\ IsFiniteSet(Q) /\ TimesFrom(new, m, q) = Cardinality(Q) /\ Cardinality(Q) \in Nat
    <3>1. m \in Nat
      BY <1>1
    <3> QED BY <1>6, <3>1, PlacesFinite DEF TimesFrom
  <2> HIDE DEF P, Q
  <2>3. CASE r = q
    <3>1. Q = P \ {i}
      <4>1. ASSUME NEW k \in Q PROVE k \in P \ {i}
        <5>1. k \in m .. n - 1 /\ new[k] = q /\ k \in 1 .. n /\ k \in 1 .. n - 1 /\ n \in 1 .. n
          BY <1>1, <2>1, <4>1
        <5>2. k # i
          BY <1>1, <1>3, <1>6, <2>3, <5>1
        <5> QED BY <1>1, <1>6, <2>1, <5>1, <5>2
      <4>2. ASSUME NEW k \in P \ {i} PROVE k \in Q
        <5>1. k \in m .. n /\ list[k] = q /\ k # i /\ k \in 1 .. n
          BY <1>1, <2>1, <4>2
        <5>2. k < i /\ k \in 1 .. n - 1 /\ k \in m .. n - 1
          BY <1>1, <1>3, <2>3, <5>1
        <5> QED BY <1>6, <2>1, <5>1, <5>2
      <4> QED BY <4>1, <4>2
    <3>2. i \in P
      BY <1>3, <2>1, <2>3
    <3>3. Cardinality(P \ {i}) = Cardinality(P) - 1
      BY <2>2, <3>2, FS_RemoveElement
    <3> QED BY <2>2, <2>3, <3>1, <3>3
  <2>4. CASE r # q /\ i < n /\ list[n] = q
    <3>1. i \notin P /\ n \in P /\ n # i
      <4>1. i \notin P
        BY <1>3, <2>1, <2>4
      <4>2. n \in m .. n
        BY <1>1
      <4>3. n \in P
        BY <2>1, <2>4, <4>2
      <4>4. n # i
        BY <1>1, <2>4
      <4> QED BY <4>1, <4>3, <4>4
    <3>2. Q = (P \ {n}) \cup {i}
      <4>1. ASSUME NEW k \in Q PROVE k \in (P \ {n}) \cup {i}
        <5>1. k \in m .. n - 1 /\ new[k] = q /\ k \in 1 .. n - 1 /\ k # n /\ k \in m .. n
          BY <1>1, <2>1, <4>1
        <5> QED BY <1>6, <2>1, <5>1
      <4>2. ASSUME NEW k \in (P \ {n}) \cup {i} PROVE k \in Q
        <5>1. k \in m .. n - 1 /\ k \in 1 .. n - 1
          <6>1. k = i \/ (k \in m .. n /\ k # n)
            BY <2>1, <4>2
          <6> QED BY <1>1, <1>3, <2>4, <6>1
        <5> QED BY <1>6, <2>1, <2>4, <4>2, <5>1
      <4> QED BY <4>1, <4>2
    <3>3. IsFiniteSet(P \ {n}) /\ Cardinality(P \ {n}) = Cardinality(P) - 1
      BY <2>2, <3>1, FS_RemoveElement
    <3>4. Cardinality((P \ {n}) \cup {i}) = Cardinality(P \ {n}) + 1
      <4>1. i \notin P \ {n}
        BY <3>1
      <4> QED BY <3>3, <4>1, FS_AddElement
    <3> QED BY <2>2, <2>4, <3>2, <3>3, <3>4
  <2>5. CASE r # q /\ ~(i < n /\ list[n] = q)
    <3>1. i \notin P /\ n \notin P /\ i \notin Q
      <4>1. list[n] # q
        BY <1>1, <1>3, <2>5
      <4>2. i \in 1 .. n - 1 => new[i] = list[n]
        BY <1>6
      <4>3. \A k \in m .. n - 1 : k \in 1 .. n - 1
        BY <1>1
      <4> QED BY <1>3, <2>1, <2>5, <4>1, <4>2, <4>3
    <3>2. ASSUME NEW k, k # i, k # n PROVE k \in P <=> k \in Q
      <4>1. ASSUME k \in m .. n PROVE k \in m .. n - 1 /\ k \in 1 .. n - 1
        <5>1. m \in Int /\ 1 <= m /\ n \in Int
          BY <1>1
        <5>2. k # n
          BY <3>2
        <5> HIDE DEF n
        <5> QED BY <4>1, <5>1, <5>2
      <4>2. ASSUME k \in m .. n - 1 PROVE k \in m .. n /\ k \in 1 .. n - 1
        BY <1>1, <4>2
      <4> QED BY <1>6, <2>1, <3>2, <4>1, <4>2
    <3>3. n \notin Q
      BY <1>1, <2>1
    <3>4. P = Q
      <4>1. \A k : k \in P <=> k \in Q
        BY <3>1, <3>2, <3>3
      <4> QED BY <4>1
    <3> QED BY <2>2, <2>5, <3>4
  <2> QED BY <2>3, <2>4, <2>5
<1> QED BY <1>6, <1>7, <1>8 DEF new

LEMMA TimesInList ==
  ASSUME NEW S, NEW list \in Seq(S), NEW q
  PROVE  Times(list, q) \in Nat /\ (Times(list, q) = 0 <=> q \notin ToSet(list))
<1>1. Times(list, q) = TimesFrom(list, 1, q) /\ 1 \in Nat
  BY TimesAreFrom
<1>2. q \notin ToSet(list) <=> \A k \in 1 .. Len(list) : list[k] # q
  BY DEF ToSet
<1> QED BY <1>1, <1>2, PlacesFinite, TimesNone

LEMMA WithoutTimes ==
  ASSUME NEW S, NEW list \in Seq(S), NEW r, r \in ToSet(list)
  PROVE  /\ Without(list, r) \in Seq(S)
         /\ \A q : Times(Without(list, r), q) = Times(list, q) - (IF r = q THEN 1 ELSE 0)
<1>1. \E k \in 1 .. Len(list) : list[k] = r
  BY DEF ToSet
<1>2. 1 \in 1 .. Len(list)
  BY <1>1
<1>3. /\ Without(list, r) \in Seq(S)
      /\ \A q : TimesFrom(Without(list, r), 1, q)
                  = TimesFrom(list, 1, q) - (IF r = q THEN 1 ELSE 0)
  BY <1>1, <1>2, WithoutOne
<1> QED BY <1>3, TimesAreFrom

(***************************************************************************)
(* References: the two sides of one.                                       *)
(***************************************************************************)

\* References of any types T between nodes I, and nodes with any attributes A.
Reference(T, I) == [type : T, target : I, inverse : BOOLEAN]
Node(A, T, I) == [class : A, abstract : A, name : A, refs : Seq(Reference(T, I))]

LEMMA Mirrored ==
  ASSUME NEW T, NEW I, NEW x \in I, NEW r \in Reference(T, I)
  PROVE  /\ r.target \in I /\ Mirror(x, r) \in Reference(T, I)
         /\ Mirror(x, r).target = x /\ Mirror(x, r) # r
         /\ Mirror(r.target, Mirror(x, r)) = r
<1>1. /\ r.type \in T /\ r.target \in I /\ r.inverse \in BOOLEAN
      /\ r = [type |-> r.type, target |-> r.target, inverse |-> r.inverse]
  BY DEF Reference
<1>2. Mirror(x, r) = [type |-> r.type, target |-> x, inverse |-> ~r.inverse]
  BY DEF Mirror, Ref
<1>3. Mirror(x, r) \in Reference(T, I)
  BY <1>1, <1>2 DEF Reference
<1>4. Mirror(x, r).type = r.type /\ Mirror(x, r).target = x /\ Mirror(x, r).inverse = ~r.inverse
  BY <1>2
<1>5. Mirror(x, r) # r
  BY <1>1, <1>4
<1>6. Mirror(r.target, Mirror(x, r)) = [type |-> r.type, target |-> r.target, inverse |-> ~ ~r.inverse]
  BY <1>4 DEF Mirror, Ref
<1>7. (~ ~r.inverse) = r.inverse
  BY <1>1
<1>8. Mirror(r.target, Mirror(x, r)) = r
  BY <1>1, <1>6, <1>7
<1> QED BY <1>1, <1>3, <1>4, <1>5, <1>8

LEMMA SameMirror ==
  ASSUME NEW T, NEW I, NEW x \in I, NEW y \in I, NEW r \in Reference(T, I),
         NEW q \in Reference(T, I), Mirror(y, q) = Mirror(x, r), q.target = r.target
  PROVE  y = x /\ q = r
<1>1. y = x
  BY Mirrored
<1>2. Mirror(q.target, Mirror(y, q)) = q /\ Mirror(r.target, Mirror(x, r)) = r
  BY Mirrored
<1> QED BY <1>1, <1>2

LEMMA Relisted ==
  ASSUME NEW A, NEW T, NEW I, NEW D, NEW ns \in [D -> Node(A, T, I)], NEW x \in D,
         NEW list \in Seq(Reference(T, I)), NEW s, s = [ns EXCEPT ![x].refs = list]
  PROVE  /\ s \in [D -> Node(A, T, I)]
         /\ \A y \in D : s[y].refs = IF y = x THEN list ELSE ns[y].refs
<1> DEFINE N == Node(A, T, I)
           n == [class |-> ns[x].class, abstract |-> ns[x].abstract, name |-> ns[x].name,
                 refs |-> list]
<1>1. ns[x] \in N
  OBVIOUS
<1>2. [ns[x] EXCEPT !.refs = list] = n
  BY <1>1 DEF Node
<1>3. n \in N /\ n.refs = list
  BY <1>1 DEF Node
<1>4. s = [ns EXCEPT ![x] = n]
  BY <1>2
<1> HIDE DEF n, N
<1>5. ns \in [D -> N]
  BY DEF N
<1>6. s \in [D -> N] /\ \A y \in D : s[y] = IF y = x THEN n ELSE ns[y]
  BY <1>3, <1>4, <1>5
<1> QED BY <1>3, <1>6 DEF N

\* How often x refers in this way.
Count(ns, x, r) == Times(ns[x].refs, r)

\* As often as the target refers back, or not at all if there is no target.
Balanced(ns, D, R) ==
  \A x \in D, r \in R :
    Count(ns, x, r) = IF r.target \in D THEN Count(ns, r.target, Mirror(x, r)) ELSE 0

LEMMA Counted ==
  ASSUME NEW A, NEW T, NEW I, NEW D, NEW ns \in [D -> Node(A, T, I)], NEW x \in D, NEW r
  PROVE  /\ ns[x].refs \in Seq(Reference(T, I))
         /\ Count(ns, x, r) \in Nat
         /\ Count(ns, x, r) = 0 <=> r \notin ToSet(ns[x].refs)
<1>1. ns[x].refs \in Seq(Reference(T, I))
  BY DEF Node
<1> QED BY <1>1, TimesInList DEF Count

LEMMA AgreeIsBalanced ==
  ASSUME NEW A, NEW T, NEW I, NEW D \in SUBSET I, NEW ns \in [D -> Node(A, T, I)]
  PROVE  SidesAgree(ns) <=> Balanced(ns, D, Reference(T, I))
<1> DEFINE R == Reference(T, I)
<1>1. /\ DOMAIN ns = D
      /\ \A x \in D : \A r : Count(ns, x, r) \in Nat /\ (Count(ns, x, r) = 0 <=> r \notin ToSet(ns[x].refs))
      /\ \A x \in D : ToSet(ns[x].refs) \subseteq R
  <2>1. ASSUME NEW x \in D PROVE ToSet(ns[x].refs) \subseteq R
    <3>1. ns[x].refs \in Seq(R)
      BY Counted
    <3> QED BY <3>1 DEF ToSet
  <2> QED BY <2>1, Counted
<1>2. \A x \in D, r \in R : /\ r.target \in I /\ Mirror(x, r) \in R
                            /\ Mirror(x, r).target = x
                            /\ Mirror(r.target, Mirror(x, r)) = r
  BY Mirrored
<1> HIDE DEF R
<1>3. SidesAgree(ns) <=>
        \A x \in D : \A r \in ToSet(ns[x].refs) :
          r.target \in D /\ Count(ns, x, r) = Count(ns, r.target, Mirror(x, r))
  BY <1>1 DEF SidesAgree, Count
<1>4. ASSUME SidesAgree(ns), NEW x \in D, NEW r \in R
      PROVE  Count(ns, x, r) = IF r.target \in D THEN Count(ns, r.target, Mirror(x, r)) ELSE 0
  <2>1. CASE r \in ToSet(ns[x].refs)
    BY <1>3, <1>4, <2>1
  <2>2. CASE r \notin ToSet(ns[x].refs)
    <3>1. Count(ns, x, r) = 0
      BY <1>1, <2>2
    <3>2. CASE r.target \in D
      <4> DEFINE q == Mirror(x, r)
      <4>1. CASE q \in ToSet(ns[r.target].refs)
        <5>1. Count(ns, r.target, q) = Count(ns, q.target, Mirror(r.target, q))
          BY <1>3, <1>4, <3>2, <4>1
        <5> QED BY <1>2, <3>2, <5>1
      <4>2. CASE q \notin ToSet(ns[r.target].refs)
        BY <1>1, <3>1, <3>2, <4>2
      <4> QED BY <4>1, <4>2
    <3>3. CASE r.target \notin D
      BY <3>1, <3>3
    <3> QED BY <3>2, <3>3
  <2> QED BY <2>1, <2>2
<1>5. ASSUME Balanced(ns, D, R), NEW x \in D, NEW r \in ToSet(ns[x].refs)
      PROVE  r.target \in D /\ Count(ns, x, r) = Count(ns, r.target, Mirror(x, r))
  <2>1. r \in R /\ Count(ns, x, r) # 0
    BY <1>1, <1>5
  <2>2. Count(ns, x, r) = IF r.target \in D THEN Count(ns, r.target, Mirror(x, r)) ELSE 0
    BY <1>5, <2>1 DEF Balanced
  <2> QED BY <2>1, <2>2
<1>6. SidesAgree(ns) => Balanced(ns, D, R)
  BY <1>4 DEF Balanced
<1>7. Balanced(ns, D, R) => SidesAgree(ns)
  BY <1>3, <1>5
<1> QED BY <1>6, <1>7 DEF R

\* A reference and its mirror come or go together.
LEMMA BalanceShifted ==
  ASSUME NEW A, NEW T, NEW I, NEW D \in SUBSET I, NEW ns \in [D -> Node(A, T, I)],
         Balanced(ns, D, Reference(T, I)), NEW s, NEW d \in Int,
         NEW x \in D, NEW r \in Reference(T, I), r.target \in D,
         \A y \in D, q \in Reference(T, I) :
           Count(s, y, q) = Count(ns, y, q)
                              + (IF y = x /\ q = r THEN d ELSE 0)
                              + (IF y = r.target /\ q = Mirror(x, r) THEN d ELSE 0)
  PROVE  Balanced(s, D, Reference(T, I))
<1> DEFINE R == Reference(T, I)
<1>1. /\ \A y \in D, q \in R : Count(ns, y, q) \in Nat
      /\ \A y \in D, q \in R :
           Count(ns, y, q) = IF q.target \in D THEN Count(ns, q.target, Mirror(y, q)) ELSE 0
  BY Counted DEF Balanced
<1>2. \A y \in D, q \in R : /\ Mirror(y, q) \in R /\ Mirror(y, q).target = y
                            /\ Mirror(q.target, Mirror(y, q)) = q
  BY Mirrored
<1>3. ASSUME NEW y \in D, NEW q \in R
      PROVE  Count(s, y, q) = IF q.target \in D THEN Count(s, q.target, Mirror(y, q)) ELSE 0
  <2> DEFINE p == Mirror(y, q)
             o == Mirror(x, r)
  <2>1. p \in R /\ o \in R /\ o.target = x /\ Mirror(r.target, o) = r /\ p.target = y
        /\ Mirror(q.target, p) = q
    BY <1>2
  <2>2. Count(s, y, q) = Count(ns, y, q) + (IF y = x /\ q = r THEN d ELSE 0)
                                         + (IF y = r.target /\ q = o THEN d ELSE 0)
    BY <1>3
  <2>3. CASE q.target \in D
    <3>1. Count(s, q.target, p) = Count(ns, q.target, p)
            + (IF q.target = x /\ p = r THEN d ELSE 0)
            + (IF q.target = r.target /\ p = o THEN d ELSE 0)
      BY <2>1, <2>3
    <3>2. Count(ns, y, q) = Count(ns, q.target, p) /\ Count(ns, y, q) \in Nat
      BY <1>1, <1>3, <2>3
    <3>3. y = x /\ q = r <=> q.target = r.target /\ p = o
      BY <1>3, SameMirror
    <3>4. y = r.target /\ q = o <=> q.target = x /\ p = r
      BY <2>1
    <3> HIDE DEF p, o
    <3> QED BY <2>2, <2>3, <3>1, <3>2, <3>3, <3>4 DEF p
  <2>4. CASE q.target \notin D
    <3>1. q # r /\ q # o
      BY <2>1, <2>4
    <3>2. Count(ns, y, q) = 0
      BY <1>1, <1>3, <2>4
    <3> QED BY <2>2, <2>4, <3>1, <3>2
  <2> QED BY <2>3, <2>4
<1> QED BY <1>3 DEF Balanced

(***************************************************************************)
(* References: what the operations do to the balance.                      *)
(***************************************************************************)

\* Nodes whose references agree on both sides.
IsStore(ns, D, A, T, I) == D \subseteq I /\ ns \in [D -> Node(A, T, I)]
Agreeing(ns, D, A, T, I) == IsStore(ns, D, A, T, I) /\ Balanced(ns, D, Reference(T, I))

LEMMA RefAdded ==
  ASSUME NEW A, NEW T, NEW I, NEW D, NEW ns, IsStore(ns, D, A, T, I),
         NEW x \in D, NEW r \in Reference(T, I), NEW s, s = WithRef(ns, x, r)
  PROVE  /\ IsStore(s, D, A, T, I)
         /\ \A y \in D : \A q : Count(s, y, q) = Count(ns, y, q) + (IF y = x /\ q = r THEN 1 ELSE 0)
<1> DEFINE list == Append(ns[x].refs, r)
<1>1. ns \in [D -> Node(A, T, I)] /\ D \subseteq I
  BY DEF IsStore
<1>2. ns[x].refs \in Seq(Reference(T, I)) /\ \A y \in D : \A q : Count(ns, y, q) \in Nat
  BY <1>1, Counted
<1>3. list \in Seq(Reference(T, I))
  BY <1>2
<1>4. s = [ns EXCEPT ![x].refs = list]
  BY DEF WithRef
<1>5. \A q : Times(list, q) = Times(ns[x].refs, q) + (IF r = q THEN 1 ELSE 0)
  BY <1>2, TimesAppended
<1> HIDE DEF list
<1>6. /\ s \in [D -> Node(A, T, I)]
      /\ \A y \in D : s[y].refs = IF y = x THEN list ELSE ns[y].refs
  BY <1>1, <1>3, <1>4, Relisted
<1>7. ASSUME NEW y \in D, NEW q
      PROVE  Count(s, y, q) = Count(ns, y, q) + (IF y = x /\ q = r THEN 1 ELSE 0)
  <2>1. CASE y = x
    BY <1>5, <1>6, <2>1 DEF Count
  <2>2. CASE y # x
    BY <1>2, <1>6, <2>2 DEF Count
  <2> QED BY <2>1, <2>2
<1> QED BY <1>1, <1>6, <1>7 DEF IsStore

\* Nothing is removed, or one that is there.
LEMMA RefRemoved ==
  ASSUME NEW A, NEW T, NEW I, NEW D, NEW ns, IsStore(ns, D, A, T, I),
         NEW x \in I, NEW r, NEW s, s = WithoutRef(ns, x, r)
  PROVE  /\ IsStore(s, D, A, T, I)
         /\ x \notin D \/ Count(ns, x, r) = 0 => s = ns
         /\ x \in D /\ Count(ns, x, r) # 0 =>
              /\ \A y \in D : \A q : Count(s, y, q) = Count(ns, y, q) - (IF y = x /\ q = r THEN 1 ELSE 0)
              /\ \A y \in D : s[y].refs = IF y = x THEN Without(ns[x].refs, r) ELSE ns[y].refs
<1>1. ns \in [D -> Node(A, T, I)] /\ D \subseteq I /\ DOMAIN ns = D
  BY DEF IsStore
<1>2. CASE x \notin D
  BY <1>1, <1>2 DEF WithoutRef
<1>3. CASE x \in D
  <2> DEFINE refs == ns[x].refs
             list == Without(refs, r)
  <2>1. refs \in Seq(Reference(T, I)) /\ \A y \in D : \A q : Count(ns, y, q) \in Nat
    BY <1>1, <1>3, Counted
  <2>2. /\ Contains(refs, r) <=> r \in ToSet(refs)
        /\ Count(ns, x, r) = 0 <=> r \notin ToSet(refs)
    <3>1. DOMAIN refs = 1 .. Len(refs)
      BY <2>1
    <3>2. Contains(refs, r) <=> r \in ToSet(refs)
      BY <3>1 DEF Contains, ToSet
    <3> QED BY <1>1, <1>3, <3>2, Counted
  <2>3. CASE r \notin ToSet(refs)
    BY <1>1, <1>3, <2>2, <2>3 DEF WithoutRef
  <2>4. CASE r \in ToSet(refs)
    <3>1. s = [ns EXCEPT ![x].refs = list]
      BY <1>1, <1>3, <2>2, <2>4 DEF WithoutRef
    <3>2. /\ list \in Seq(Reference(T, I))
          /\ \A q : Times(list, q) = Times(refs, q) - (IF r = q THEN 1 ELSE 0)
      BY <2>1, <2>4, WithoutTimes
    <3> HIDE DEF list
    <3>3. /\ s \in [D -> Node(A, T, I)]
          /\ \A y \in D : s[y].refs = IF y = x THEN list ELSE ns[y].refs
      BY <1>1, <1>3, <3>1, <3>2, Relisted
    <3>4. ASSUME NEW y \in D, NEW q
          PROVE  Count(s, y, q) = Count(ns, y, q) - (IF y = x /\ q = r THEN 1 ELSE 0)
      <4>1. CASE y = x
        BY <3>2, <3>3, <4>1 DEF Count
      <4>2. CASE y # x
        BY <2>1, <3>3, <4>2 DEF Count
      <4> QED BY <4>1, <4>2
    <3> QED BY <1>1, <1>3, <2>2, <2>4, <3>3, <3>4 DEF IsStore, list
  <2> QED BY <2>3, <2>4
<1> QED BY <1>2, <1>3

LEMMA PlacedBalanced ==
  ASSUME NEW A, NEW T, NEW I, NEW D, NEW ns, Agreeing(ns, D, A, T, I), NEW id \in I \ D,
         NEW item, {item.class, item.abstract, item.name} \subseteq A
  PROVE  Agreeing(Placed(ns, id, item), D \cup {id}, A, T, I)
<1> DEFINE R == Reference(T, I)
           E == D \cup {id}
           n == [class |-> item.class, abstract |-> item.abstract, name |-> item.name,
                 refs |-> <<>>]
           s == Placed(ns, id, item)
<1>1. D \subseteq I /\ ns \in [D -> Node(A, T, I)] /\ DOMAIN ns = D /\ E \subseteq I
  BY DEF Agreeing, IsStore
<1>2. n \in Node(A, T, I) /\ n.refs = <<>>
  <2>1. <<>> \in Seq(R)
    OBVIOUS
  <2> QED BY <2>1 DEF Node
<1>3. s = [x \in E |-> IF x = id THEN n ELSE ns[x]]
  BY <1>1 DEF Placed
<1> HIDE DEF n, s
<1>4. /\ s \in [E -> Node(A, T, I)] /\ s[id] = n
      /\ \A x \in D : s[x] = ns[x]
  BY <1>1, <1>2, <1>3
<1>5. /\ \A x \in D : \A q : Count(s, x, q) = Count(ns, x, q)
      /\ \A q : Count(s, id, q) = 0
  <2>1. ASSUME NEW q PROVE Count(s, id, q) = 0
    <3>1. q \notin ToSet(s[id].refs)
      BY <1>2, <1>4 DEF ToSet
    <3> QED BY <1>4, <3>1, Counted
  <2> QED BY <1>4, <2>1 DEF Count
<1>6. \A x \in D, q \in R :
        Count(ns, x, q) = IF q.target \in D THEN Count(ns, q.target, Mirror(x, q)) ELSE 0
  BY DEF Agreeing, Balanced
<1>7. ASSUME NEW x \in E, NEW q \in R
      PROVE  Count(s, x, q) = IF q.target \in E THEN Count(s, q.target, Mirror(x, q)) ELSE 0
  <2> DEFINE p == Mirror(x, q)
  <2>1. p \in R /\ p.target = x
    BY <1>1, Mirrored
  <2> HIDE DEF p
  <2>2. CASE x = id
    <3>1. CASE q.target \in D
      <4>1. Count(ns, q.target, p) = 0
        BY <1>6, <2>1, <2>2, <3>1
      <4> QED BY <1>5, <2>2, <3>1, <4>1 DEF p
    <3>2. CASE q.target \notin D
      BY <1>5, <2>2, <3>2
    <3> QED BY <3>1, <3>2
  <2>3. CASE x # id
    <3>1. x \in D
      BY <2>3
    <3>2. CASE q.target = id
      BY <1>5, <1>6, <3>1, <3>2
    <3>3. CASE q.target # id
      BY <1>5, <1>6, <3>1, <3>3
    <3> QED BY <3>2, <3>3
  <2> QED BY <2>2, <2>3
<1>8. Balanced(s, E, R)
  BY <1>7 DEF Balanced
<1> QED BY <1>1, <1>4, <1>8 DEF Agreeing, IsStore, s

LEMMA AddBalanced ==
  ASSUME NEW A, NEW T, NEW I, NEW D, NEW ns, Agreeing(ns, D, A, T, I), NEW x \in I,
         NEW r \in Reference(T, I)
  PROVE  Agreeing(AddReference(ns, x, r).nodes, D, A, T, I)
<1> DEFINE R == Reference(T, I)
           first == WithRef(ns, x, r)
           o == Mirror(x, r)
<1>1. D \in SUBSET I /\ ns \in [D -> Node(A, T, I)] /\ DOMAIN ns = D /\ IsStore(ns, D, A, T, I)
      /\ Balanced(ns, D, R)
  BY DEF Agreeing, IsStore
<1>2. CASE x \notin D
  BY <1>1, <1>2 DEF AddReference, Refused, Done
<1>3. CASE x \in D
  <2>1. /\ IsStore(first, D, A, T, I)
        /\ \A y \in D : \A q : Count(first, y, q) = Count(ns, y, q) + (IF y = x /\ q = r THEN 1 ELSE 0)
    BY <1>1, <1>3, RefAdded
  <2>2. \A y \in D : \A q : Count(ns, y, q) \in Nat
    BY <1>1, Counted
  <2>3. o \in R
    BY Mirrored
  <2>4. CASE r.target \in D
    <3> DEFINE s == WithRef(first, r.target, o)
    <3>1. AddReference(ns, x, r).nodes = s
      BY <1>1, <1>3, <2>4 DEF AddReference, Done
    <3> HIDE DEF first, o
    <3>2. /\ IsStore(s, D, A, T, I)
          /\ \A y \in D : \A q : Count(s, y, q)
               = Count(first, y, q) + (IF y = r.target /\ q = o THEN 1 ELSE 0)
      BY <2>1, <2>3, <2>4, RefAdded
    <3> HIDE DEF s
    <3>3. \A y \in D, q \in R : Count(s, y, q) = Count(ns, y, q)
            + (IF y = x /\ q = r THEN 1 ELSE 0) + (IF y = r.target /\ q = o THEN 1 ELSE 0)
      BY <2>1, <2>2, <3>2
    <3>4. Balanced(s, D, R)
      <4> DEFINE d == 1
      <4>1. d \in Int
        OBVIOUS
      <4>2. \A y \in D, q \in R : Count(s, y, q) = Count(ns, y, q)
              + (IF y = x /\ q = r THEN d ELSE 0) + (IF y = r.target /\ q = Mirror(x, r) THEN d ELSE 0)
        BY <3>3 DEF o
      <4> HIDE DEF d
      <4>3. D \in SUBSET I /\ ns \in [D -> Node(A, T, I)] /\ Balanced(ns, D, R)
        BY <1>1
      <4> QED BY <1>3, <2>4, <4>1, <4>2, <4>3, BalanceShifted
    <3> QED BY <3>1, <3>2, <3>4 DEF Agreeing
  <2>5. CASE r.target \notin D
    <3> DEFINE s == WithoutRef(first, x, r)
    <3>1. AddReference(ns, x, r).nodes = s
      BY <1>1, <1>3, <2>5 DEF AddReference, Refused, Done
    <3> HIDE DEF first, o
    <3>2. Count(first, x, r) # 0
      BY <1>3, <2>1, <2>2
    <3>3. /\ IsStore(s, D, A, T, I)
          /\ \A y \in D : \A q : Count(s, y, q) = Count(first, y, q) - (IF y = x /\ q = r THEN 1 ELSE 0)
      BY <1>3, <2>1, <3>2, RefRemoved
    <3> HIDE DEF s
    <3>4. \A y \in D : \A q : Count(s, y, q) = Count(ns, y, q)
      BY <2>1, <2>2, <3>3
    <3>5. Balanced(s, D, R)
      <4>1. ASSUME NEW y \in D, NEW q \in R
            PROVE  Count(s, y, q) = IF q.target \in D THEN Count(s, q.target, Mirror(y, q)) ELSE 0
        <5>1. Count(ns, y, q) = IF q.target \in D THEN Count(ns, q.target, Mirror(y, q)) ELSE 0
          BY <1>1 DEF Balanced
        <5> QED BY <3>4, <5>1
      <4> QED BY <4>1 DEF Balanced
    <3> QED BY <3>1, <3>3, <3>5 DEF Agreeing
  <2> QED BY <2>4, <2>5
<1> QED BY <1>2, <1>3

LEMMA DeleteBalanced ==
  ASSUME NEW A, NEW T, NEW I, NEW D, NEW ns, Agreeing(ns, D, A, T, I), NEW x \in I,
         NEW r \in Reference(T, I)
  PROVE  Agreeing(DeleteReference(ns, x, r, TRUE).nodes, D, A, T, I)
<1> DEFINE R == Reference(T, I)
           first == WithoutRef(ns, x, r)
           o == Mirror(x, r)
           s == WithoutRef(first, r.target, o)
<1>1. D \in SUBSET I /\ ns \in [D -> Node(A, T, I)] /\ IsStore(ns, D, A, T, I)
      /\ Balanced(ns, D, R)
  BY DEF Agreeing, IsStore
<1>2. CASE first = ns
  BY <1>2 DEF DeleteReference, Refused, Done
<1>3. CASE first # ns
  <2>1. DeleteReference(ns, x, r, TRUE).nodes = s
    BY <1>3 DEF DeleteReference, Done
  <2>2. o \in R /\ r.target \in I /\ o # r
    BY Mirrored
  <2>3. /\ IsStore(first, D, A, T, I)
        /\ x \in D /\ Count(ns, x, r) # 0
        /\ \A y \in D : \A q : Count(first, y, q) = Count(ns, y, q) - (IF y = x /\ q = r THEN 1 ELSE 0)
    BY <1>1, <1>3, RefRemoved
  <2>4. \A y \in D : \A q : Count(ns, y, q) \in Nat
    BY <1>1, Counted
  <2> HIDE DEF first
  <2>5. Count(ns, x, r) = IF r.target \in D THEN Count(ns, r.target, o) ELSE 0
    BY <1>1, <2>3 DEF Balanced
  <2> HIDE DEF o
  <2>6. r.target \in D /\ Count(ns, r.target, o) # 0
    BY <2>3, <2>5
  <2>7. Count(first, r.target, o) = Count(ns, r.target, o)
    BY <2>2, <2>3, <2>4, <2>6
  <2>8. /\ IsStore(s, D, A, T, I)
        /\ \A y \in D : \A q : Count(s, y, q) = Count(first, y, q) - (IF y = r.target /\ q = o THEN 1 ELSE 0)
    BY <2>2, <2>3, <2>6, <2>7, RefRemoved
  <2> HIDE DEF s
  <2>9. \A y \in D, q \in R : Count(s, y, q) = Count(ns, y, q)
          + (IF y = x /\ q = r THEN -1 ELSE 0) + (IF y = r.target /\ q = o THEN -1 ELSE 0)
    BY <2>3, <2>4, <2>8
  <2>10. Balanced(s, D, R)
    <3> DEFINE d == -1
    <3>1. d \in Int
      OBVIOUS
    <3>2. \A y \in D, q \in R : Count(s, y, q) = Count(ns, y, q)
            + (IF y = x /\ q = r THEN d ELSE 0) + (IF y = r.target /\ q = Mirror(x, r) THEN d ELSE 0)
      BY <2>9 DEF o
    <3> HIDE DEF d
    <3> QED BY <1>1, <2>3, <2>6, <3>1, <3>2, BalanceShifted
  <2> QED BY <2>1, <2>8, <2>10 DEF Agreeing
<1> QED BY <1>1, <1>2, <1>3 DEF Agreeing

(***************************************************************************)
(* References: the walk of removeReferences.  What is open, from the kth   *)
(* reference of x on, is what the others still refer back by; references   *)
(* of x to itself are open in pairs, so that removing one of a pair moves  *)
(* nothing to where the walk has been.                                     *)
(***************************************************************************)

Open(s, x, k, q) == TimesFrom(s[x].refs, k + 1, q)

WalkAt(s, ns, x, k, D, A, T, I) ==
  /\ IsStore(s, D, A, T, I) /\ Len(s[x].refs) <= Len(ns[x].refs)
  /\ \A y \in D \ {x}, q \in Reference(T, I) : q.target # x => Count(s, y, q) = Count(ns, y, q)
  /\ \A q \in Reference(T, I) :
       Open(s, x, k, q) = IF q.target = x THEN Open(s, x, k, Mirror(x, q))
                          ELSE IF q.target \in D THEN Count(s, q.target, Mirror(x, q)) ELSE 0

LEMMA WalkBegins ==
  ASSUME NEW A, NEW T, NEW I, NEW D, NEW ns, Agreeing(ns, D, A, T, I), NEW x \in D
  PROVE  WalkAt(ns, ns, x, 0, D, A, T, I)
<1> DEFINE R == Reference(T, I)
<1>1. D \subseteq I /\ ns \in [D -> Node(A, T, I)] /\ IsStore(ns, D, A, T, I)
      /\ Balanced(ns, D, R)
  BY DEF Agreeing, IsStore
<1>2. ns[x].refs \in Seq(R) /\ Len(ns[x].refs) \in Nat
  <2>1. ns[x].refs \in Seq(R)
    BY <1>1, Counted
  <2> QED BY <2>1
<1>3. \A q : Open(ns, x, 0, q) = Count(ns, x, q)
  <2>1. 0 + 1 = 1
    OBVIOUS
  <2> QED BY <1>2, <2>1, TimesAreFrom DEF Open, Count
<1>4. ASSUME NEW q \in R
      PROVE  Count(ns, x, q) = IF q.target \in D THEN Count(ns, q.target, Mirror(x, q)) ELSE 0
  BY <1>1, <1>4 DEF Balanced
<1>5. ASSUME NEW q \in R
      PROVE  Open(ns, x, 0, q)
               = IF q.target = x THEN Open(ns, x, 0, Mirror(x, q))
                 ELSE IF q.target \in D THEN Count(ns, q.target, Mirror(x, q)) ELSE 0
  BY <1>3, <1>4, <1>5
<1> QED BY <1>1, <1>2, <1>5 DEF WalkAt

LEMMA WalkGoesOn ==
  ASSUME NEW A, NEW T, NEW I, NEW D, NEW ns, NEW x \in D,
         NEW k \in 1 .. Len(ns[x].refs), NEW s, WalkAt(s, ns, x, k - 1, D, A, T, I)
  PROVE  WalkAt(UnmirroredAt(s, x, k), ns, x, k, D, A, T, I)
<1> DEFINE R == Reference(T, I)
           list == s[x].refs
           t == UnmirroredAt(s, x, k)
<1>1. /\ D \subseteq I /\ s \in [D -> Node(A, T, I)] /\ IsStore(s, D, A, T, I) /\ x \in I
      /\ Len(list) <= Len(ns[x].refs)
      /\ \A y \in D \ {x}, q \in R : q.target # x => Count(s, y, q) = Count(ns, y, q)
  BY DEF WalkAt, IsStore
<1>2. /\ list \in Seq(R) /\ Len(list) \in Nat /\ k \in Nat /\ k >= 1 /\ (k - 1) + 1 = k
      /\ \A y \in D : \A q : Count(s, y, q) \in Nat
  <2>1. list \in Seq(R) /\ \A y \in D : \A q : Count(s, y, q) \in Nat
    BY <1>1, Counted
  <2> QED BY <2>1
<1>3. ASSUME NEW q \in R
      PROVE  TimesFrom(list, k, q)
               = IF q.target = x THEN TimesFrom(list, k, Mirror(x, q))
                 ELSE IF q.target \in D THEN Count(s, q.target, Mirror(x, q)) ELSE 0
  BY <1>2, <1>3 DEF WalkAt, Open
<1>4. CASE k > Len(list)
  <2>1. t = s
    BY <1>4 DEF UnmirroredAt
  <2>2. \A q : TimesFrom(list, k, q) = 0 /\ TimesFrom(list, k + 1, q) = 0
    <3>1. k \in Nat /\ k + 1 \in Nat
      BY <1>2
    <3>2. k .. Len(list) = {} /\ (k + 1) .. Len(list) = {}
      BY <1>2, <1>4
    <3> QED BY <1>2, <3>1, <3>2, TimesNone
  <2> HIDE DEF list, t
  <2>3. ASSUME NEW q \in R
        PROVE  Open(t, x, k, q)
                 = IF q.target = x THEN Open(t, x, k, Mirror(x, q))
                   ELSE IF q.target \in D THEN Count(t, q.target, Mirror(x, q)) ELSE 0
    BY <1>3, <2>1, <2>2, <2>3 DEF Open, list
  <2> QED BY <1>1, <2>1, <2>3 DEF WalkAt, t, list
<1>5. CASE k <= Len(list)
  <2> DEFINE r == list[k]
             o == Mirror(x, r)
  <2>1. k \in 1 .. Len(list) /\ r \in R
    BY <1>2, <1>5
  <2>2. /\ r.target \in I /\ o \in R /\ o.target = x /\ o # r
        /\ \A q \in R : Mirror(x, q) \in R /\ Mirror(x, q).target = x
    BY <1>1, <2>1, Mirrored
  <2>3. \A q : /\ TimesFrom(list, k, q) = TimesFrom(list, k + 1, q) + (IF r = q THEN 1 ELSE 0)
               /\ TimesFrom(list, k, q) \in Nat /\ TimesFrom(list, k + 1, q) \in Nat
    <3>1. k \in Nat /\ k + 1 \in Nat
      BY <1>2
    <3> QED BY <1>2, <2>1, <3>1, TimesSplit, PlacesFinite
  <2>4. t = WithoutRef(s, r.target, o)
    <3>1. ~(k > Len(list))
      BY <1>2, <1>5
    <3> QED BY <3>1 DEF UnmirroredAt
  <2> HIDE DEF t
  <2>5. TimesFrom(list, k, r) # 0
    BY <2>3
  <2>6. r.target \in D
    BY <1>3, <2>1, <2>5
  <2>7. CASE r.target # x
    <3> DEFINE y == r.target
    <3>1. Count(s, y, o) # 0
      BY <1>3, <2>1, <2>5, <2>6, <2>7
    <3> HIDE DEF list, r, o
    <3>2. /\ IsStore(t, D, A, T, I)
          /\ \A z \in D : \A q : Count(t, z, q) = Count(s, z, q) - (IF z = y /\ q = o THEN 1 ELSE 0)
          /\ \A z \in D : t[z].refs = IF z = y THEN Without(s[y].refs, o) ELSE s[z].refs
      BY <1>1, <2>2, <2>4, <2>6, <3>1, RefRemoved
    <3>3. t[x].refs = list
      BY <2>7, <3>2 DEF list
    <3>4. ASSUME NEW z \in D \ {x}, NEW q \in R, q.target # x
          PROVE  Count(t, z, q) = Count(ns, z, q)
      BY <1>1, <1>2, <2>2, <3>2, <3>4
    <3>5. ASSUME NEW q \in R
          PROVE  TimesFrom(list, k + 1, q)
                   = IF q.target = x THEN TimesFrom(list, k + 1, Mirror(x, q))
                     ELSE IF q.target \in D THEN Count(t, q.target, Mirror(x, q)) ELSE 0
      <4> DEFINE p == Mirror(x, q)
      <4>1. p \in R /\ p.target = x
        BY <2>2
      <4>2. CASE q.target = x
        <5>1. q # r /\ p # r
          BY <2>7, <4>1, <4>2
        <5>2. TimesFrom(list, k, q) = TimesFrom(list, k, p)
          BY <1>3, <3>5, <4>2
        <5> QED BY <2>3, <4>2, <5>1, <5>2
      <4>3. CASE q.target # x /\ q.target \in D
        <5>1. TimesFrom(list, k, q) = Count(s, q.target, p)
          BY <1>3, <3>5, <4>3
        <5>2. Count(t, q.target, p) = Count(s, q.target, p) - (IF q.target = y /\ p = o THEN 1 ELSE 0)
          BY <3>2, <4>3
        <5>3. r = q <=> q.target = y /\ p = o
          BY <1>1, <2>1, <3>5, SameMirror DEF o
        <5> HIDE DEF p
        <5> QED BY <2>3, <4>3, <5>1, <5>2, <5>3 DEF p
      <4>4. CASE q.target # x /\ q.target \notin D
        <5>1. TimesFrom(list, k, q) = 0 /\ r # q
          BY <1>3, <2>6, <3>5, <4>4
        <5> QED BY <2>3, <4>4, <5>1
      <4> QED BY <4>2, <4>3, <4>4
    <3>6. Len(t[x].refs) <= Len(ns[x].refs)
      BY <1>1, <3>3 DEF list
    <3> QED BY <3>2, <3>3, <3>4, <3>5, <3>6 DEF WalkAt, Open, t
  <2>8. CASE r.target = x
    <3> DEFINE new == Without(list, o)
    <3>1. TimesFrom(list, k, o) = TimesFrom(list, k, r)
      BY <1>3, <2>1, <2>8
    <3>2. TimesFrom(list, k + 1, o) # 0
      BY <2>2, <2>3, <2>5, <3>1
    <3>3. \E j \in k + 1 .. Len(list) : list[j] = o
      <4>1. k + 1 \in Nat
        BY <1>2
      <4> QED BY <1>2, <3>2, <4>1, TimesNone
    <3>4. k + 1 \in 1 .. Len(list)
      BY <1>2, <3>3
    <3>5. /\ new \in Seq(R) /\ Len(new) = Len(list) - 1
          /\ \A q : TimesFrom(new, k + 1, q) = TimesFrom(list, k + 1, q) - (IF o = q THEN 1 ELSE 0)
      <4> HIDE DEF list, o, r
      <4>1. list \in Seq(R) /\ k + 1 \in 1 .. Len(list) /\ \E j \in k + 1 .. Len(list) : list[j] = o
        BY <1>2, <3>3, <3>4
      <4> QED BY ONLY <4>1, WithoutOne
    <3>6. Count(s, x, o) # 0
      <4>1. o \in ToSet(list)
        <5>1. \E j \in 1 .. Len(list) : list[j] = o
          BY <1>2, <3>3
        <5> QED BY <5>1 DEF ToSet
      <4> QED BY <1>1, <4>1, Counted
    <3> HIDE DEF list, r, o, new
    <3>7. /\ IsStore(t, D, A, T, I)
          /\ \A z \in D : \A q : Count(t, z, q) = Count(s, z, q) - (IF z = x /\ q = o THEN 1 ELSE 0)
          /\ \A z \in D : t[z].refs = IF z = x THEN Without(s[x].refs, o) ELSE s[z].refs
      <4>1. t = WithoutRef(s, x, o)
        BY <2>4, <2>8
      <4> QED BY <1>1, <3>6, <4>1, RefRemoved
    <3>8. t[x].refs = new
      BY <3>7 DEF new, list
    <3>9. ASSUME NEW z \in D \ {x}, NEW q
          PROVE  Count(t, z, q) = Count(s, z, q)
      BY <1>2, <3>7, <3>9
    <3>10. ASSUME NEW q \in R
           PROVE  TimesFrom(new, k + 1, q)
                    = IF q.target = x THEN TimesFrom(new, k + 1, Mirror(x, q))
                      ELSE IF q.target \in D THEN Count(t, q.target, Mirror(x, q)) ELSE 0
      <4> DEFINE p == Mirror(x, q)
      <4>1. p \in R /\ p.target = x
        BY <2>2
      <4>2. \A e : TimesFrom(new, k + 1, e)
              = TimesFrom(list, k, e) - (IF r = e THEN 1 ELSE 0) - (IF o = e THEN 1 ELSE 0)
        BY <2>3, <3>5
      <4>3. CASE q.target = x
        <5>1. TimesFrom(list, k, q) = TimesFrom(list, k, p)
          BY <1>3, <3>10, <4>3
        <5>2. (r = q <=> o = p) /\ (o = q <=> r = p)
          <6>1. Mirror(x, p) = q /\ Mirror(x, o) = r
            <7>1. Mirror(q.target, Mirror(x, q)) = q /\ Mirror(r.target, Mirror(x, r)) = r
              BY <1>1, <2>1, <3>10, Mirrored
            <7> QED BY <2>8, <4>3, <7>1 DEF o
          <6> QED BY <6>1 DEF o
        <5> HIDE DEF p
        <5> QED BY <2>3, <4>2, <4>3, <5>1, <5>2 DEF p
      <4>4. CASE q.target # x
        <5>1. q # r /\ q # o
          BY <2>2, <2>8, <4>4
        <5>2. TimesFrom(new, k + 1, q) = TimesFrom(list, k, q)
          BY <2>3, <4>2, <5>1
        <5>3. q.target \in D => Count(t, q.target, p) = Count(s, q.target, p)
          BY <3>9, <4>4
        <5> QED BY <1>3, <3>10, <4>4, <5>2, <5>3
      <4> QED BY <4>3, <4>4
    <3>11. Len(t[x].refs) <= Len(ns[x].refs)
      <4>1. Len(new) <= Len(list) /\ Len(ns[x].refs) \in Int
        BY <1>2, <3>5
      <4> QED BY <1>1, <1>2, <3>5, <3>8, <4>1 DEF list
    <3>12. ASSUME NEW z \in D \ {x}, NEW q \in R, q.target # x
           PROVE  Count(t, z, q) = Count(ns, z, q)
      BY <1>1, <3>9, <3>12
    <3> QED BY <3>7, <3>8, <3>10, <3>11, <3>12 DEF WalkAt, Open, t
  <2> QED BY <2>7, <2>8
<1> QED BY <1>2, <1>4, <1>5

LEMMA WalkStays ==
  ASSUME NEW A, NEW T, NEW I, NEW D, NEW s, IsStore(s, D, A, T, I), NEW x \in D, NEW k \in Nat \ {0}
  PROVE  UnmirroredAt(s, x, k) \in [D -> Node(A, T, I)]
<1>1. s \in [D -> Node(A, T, I)] /\ D \subseteq I /\ x \in I
  BY DEF IsStore
<1>2. s[x].refs \in Seq(Reference(T, I))
  BY <1>1, Counted
<1>3. CASE k > Len(s[x].refs)
  BY <1>1, <1>3 DEF UnmirroredAt
<1>4. CASE ~(k > Len(s[x].refs))
  <2> DEFINE r == s[x].refs[k]
             o == Mirror(x, r)
             t == WithoutRef(s, r.target, o)
  <2>1. r \in Reference(T, I)
    BY <1>2, <1>4
  <2>2. r.target \in I
    BY <2>1 DEF Reference
  <2>3. UnmirroredAt(s, x, k) = t
    BY <1>4 DEF UnmirroredAt
  <2> HIDE DEF r, o
  <2>4. IsStore(t, D, A, T, I)
    BY <2>2, RefRemoved
  <2> QED BY <2>3, <2>4 DEF IsStore
<1> QED BY <1>3, <1>4

LEMMA WalkEnds ==
  ASSUME NEW A, NEW T, NEW I, NEW D, NEW ns, Agreeing(ns, D, A, T, I), NEW x \in D
  PROVE  WalkAt(Unmirrored(ns, x), ns, x, Len(ns[x].refs), D, A, T, I)
<1> DEFINE n == Len(ns[x].refs)
           S == [D -> Node(A, T, I)]
           step == [p \in (1 .. n) \X S |-> UnmirroredAt(p[2], x, p[1])]
           Body(f) == [k \in 0 .. n |-> IF k = 0 THEN ns ELSE UnmirroredAt(f[k - 1], x, k)]
           walk == CHOOSE f : f = Body(f)
           Good0(s, k) == WalkAt(s, ns, x, k, D, A, T, I)
<1>1. ns \in S /\ D \subseteq I /\ n \in Nat
  <2>1. ns \in S /\ D \subseteq I
    BY DEF Agreeing, IsStore
  <2>2. ns[x].refs \in Seq(Reference(T, I))
    BY <2>1, Counted
  <2> QED BY <2>1, <2>2
<1>2. step \in [(1 .. n) \X S -> S]
  <2>1. ASSUME NEW p \in (1 .. n) \X S PROVE UnmirroredAt(p[2], x, p[1]) \in S
    <3>1. p[1] \in Nat \ {0} /\ p[2] \in S
      BY <1>1, <2>1
    <3>2. IsStore(p[2], D, A, T, I)
      BY <1>1, <3>1 DEF IsStore
    <3> QED BY <3>1, <3>2, WalkStays
  <2> QED BY <2>1
<1>3. PICK g : IsComputed(g, n, ns, step, S)
  <2> HIDE DEF n, S, step
  <2> QED BY <1>1, <1>2, Computed
<1>4. g = Body(g)
  <2>1. ASSUME NEW k \in 0 .. n, k # 0 PROVE g[k] = UnmirroredAt(g[k - 1], x, k)
    <3>1. k \in 1 .. n /\ k - 1 \in 0 .. n
      BY <1>1, <2>1
    <3>2. g[k] = step[<<k, g[k - 1]>>] /\ g[k - 1] \in S
      BY <1>3, <3>1 DEF IsComputed
    <3>3. <<k, g[k - 1]>> \in (1 .. n) \X S
      BY <3>1, <3>2
    <3> HIDE DEF S, n
    <3> QED BY <3>2, <3>3
  <2> HIDE DEF n
  <2> QED BY <1>3, <2>1 DEF IsComputed
<1>5. walk = Body(walk)
  BY <1>4
<1>6. Unmirrored(ns, x) = walk[n]
  BY DEF Unmirrored
<1> HIDE DEF walk
<1>7. walk[0] = ns /\ \A k \in 1 .. n : walk[k] = UnmirroredAt(walk[k - 1], x, k)
  <2>1. ASSUME NEW k \in 1 .. n PROVE walk[k] = UnmirroredAt(walk[k - 1], x, k)
    <3>1. k \in 0 .. n /\ k # 0
      BY <1>1, <2>1
    <3> HIDE DEF n
    <3> QED BY <1>5, <3>1
  <2>2. 0 \in 0 .. n
    BY <1>1
  <2>3. walk[0] = ns
    <3> HIDE DEF n
    <3> QED BY <1>5, <2>2
  <2> QED BY <2>1, <2>3
<1>8. ASSUME NEW k \in 0 .. n, ~Good0(walk[k], k) PROVE FALSE
  <2> DEFINE Bad == {j \in 0 .. n : ~Good0(walk[j], j)}
  <2>1. PICK j \in Bad : \A i \in Bad : j <= i
    <3>1. Bad # {} /\ Bad \subseteq Nat
      BY <1>1, <1>8
    <3> HIDE DEF Bad
    <3> QED BY <3>1, LeastOf
  <2>2. j \in 0 .. n /\ ~Good0(walk[j], j)
    BY <2>1
  <2>3. j # 0
    <3>1. Good0(walk[0], 0)
      BY <1>7, WalkBegins
    <3> QED BY <2>2, <3>1
  <2>4. j \in 1 .. n /\ j - 1 \in 0 .. n /\ j - 1 < j
    BY <1>1, <2>2, <2>3
  <2>5. Good0(walk[j - 1], j - 1)
    <3>1. ~(j <= j - 1)
      BY <2>4
    <3> QED BY <2>1, <2>4, <3>1
  <2>6. walk[j] = UnmirroredAt(walk[j - 1], x, j)
    BY <1>7, <2>4
  <2>7. Good0(walk[j], j)
    BY <2>4, <2>5, <2>6, WalkGoesOn
  <2> QED BY <2>2, <2>7
<1>9. n \in 0 .. n
  BY <1>1
<1> HIDE DEF n, Good0
<1>10. Good0(walk[n], n)
  BY <1>8, <1>9
<1> QED BY <1>6, <1>10 DEF Good0, n

LEMMA DeleteNodeBalanced ==
  ASSUME NEW A, NEW T, NEW I, NEW D, NEW ns, Agreeing(ns, D, A, T, I), NEW x \in I
  PROVE  \E E \in SUBSET D : Agreeing(DeleteNode(ns, x, TRUE).nodes, E, A, T, I)
<1> DEFINE R == Reference(T, I)
           E == D \ {x}
           n == Len(ns[x].refs)
           rest == Unmirrored(ns, x)
           s == [y \in E |-> rest[y]]
<1>1. /\ D \subseteq I /\ ns \in [D -> Node(A, T, I)] /\ DOMAIN ns = D /\ Balanced(ns, D, R)
  BY DEF Agreeing, IsStore
<1>2. CASE DeleteNode(ns, x, TRUE).nodes = ns
  BY <1>2
<1>3. CASE DeleteNode(ns, x, TRUE).nodes # ns
  <2>1. x \in D /\ DeleteNode(ns, x, TRUE).nodes = s
    <3> HIDE DEF s
    <3>1. x \in D /\ ~(ns[x].class = "Object" /\ NodeType(ns, x) = NoNode)
      BY <1>1, <1>3 DEF DeleteNode, Refused, Done
    <3> QED BY <1>1, <3>1 DEF DeleteNode, Done, s
  <2>2. WalkAt(rest, ns, x, n, D, A, T, I)
    BY <2>1, WalkEnds
  <2> HIDE DEF rest
  <2>3. /\ rest \in [D -> Node(A, T, I)] /\ Len(rest[x].refs) <= n
        /\ \A y \in E, q \in R : q.target # x => Count(rest, y, q) = Count(ns, y, q)
        /\ \A q \in R : Open(rest, x, n, q)
             = IF q.target = x THEN Open(rest, x, n, Mirror(x, q))
               ELSE IF q.target \in D THEN Count(rest, q.target, Mirror(x, q)) ELSE 0
    BY <2>2 DEF WalkAt, IsStore
  <2>4. /\ ns[x].refs \in Seq(R) /\ rest[x].refs \in Seq(R)
        /\ n \in Nat /\ Len(rest[x].refs) \in Nat
    <3>1. ns[x].refs \in Seq(R) /\ rest[x].refs \in Seq(R)
      BY <1>1, <2>1, <2>3, Counted
    <3> QED BY <3>1
  <2>5. \A q : Open(rest, x, n, q) = 0
    <3>1. n + 1 \in Nat /\ (n + 1) .. Len(rest[x].refs) = {}
      BY <2>3, <2>4
    <3> HIDE DEF n
    <3> QED BY <2>4, <3>1, TimesNone DEF Open
  <2> HIDE DEF n
  <2>6. ASSUME NEW y \in E, NEW q \in R, q.target = x PROVE Count(rest, y, q) = 0
    <3> DEFINE p == Mirror(y, q)
    <3>1. p \in R /\ p.target = y /\ Mirror(x, p) = q
      BY <1>1, <2>6, Mirrored
    <3> HIDE DEF p
    <3> QED BY <2>3, <2>5, <2>6, <3>1
  <2>7. s \in [E -> Node(A, T, I)] /\ \A y \in E : \A q : Count(s, y, q) = Count(rest, y, q)
    BY <2>3 DEF Count
  <2> HIDE DEF s
  <2>8. ASSUME NEW y \in E, NEW q \in R
        PROVE  Count(s, y, q) = IF q.target \in E THEN Count(s, q.target, Mirror(y, q)) ELSE 0
    <3>1. CASE q.target = x
      BY <2>6, <2>7, <3>1
    <3>2. CASE q.target # x
      <4>1. Mirror(y, q) \in R /\ Mirror(y, q).target = y /\ y # x
        BY <1>1, Mirrored
      <4>2. Count(ns, y, q) = IF q.target \in D THEN Count(ns, q.target, Mirror(y, q)) ELSE 0
        BY <1>1 DEF Balanced
      <4> QED BY <2>3, <2>7, <3>2, <4>1, <4>2
    <3> QED BY <3>1, <3>2
  <2>9. Agreeing(s, E, A, T, I)
    BY <1>1, <2>7, <2>8 DEF Agreeing, IsStore, Balanced
  <2> QED BY <2>1, <2>9
<1> QED BY <1>2, <1>3

(***************************************************************************)
(* References: the theorem.                                                *)
(***************************************************************************)

\* Nodes with the ids I, attributes A and references of types T, whose sides agree.
Sound(m, A, T, I) == \E D \in SUBSET I : m \in [D -> Node(A, T, I)] /\ SidesAgree(m)

LEMMA SoundIsAgreeing ==
  ASSUME NEW A, NEW T, NEW I, NEW m
  PROVE  Sound(m, A, T, I) <=> \E D : Agreeing(m, D, A, T, I)
<1>1. ASSUME NEW D \in SUBSET I, m \in [D -> Node(A, T, I)], SidesAgree(m)
      PROVE  Agreeing(m, D, A, T, I)
  BY <1>1, AgreeIsBalanced DEF Agreeing, IsStore
<1>2. ASSUME NEW D, Agreeing(m, D, A, T, I)
      PROVE  D \in SUBSET I /\ m \in [D -> Node(A, T, I)] /\ SidesAgree(m)
  <2>1. D \in SUBSET I /\ m \in [D -> Node(A, T, I)] /\ Balanced(m, D, Reference(T, I))
    BY <1>2 DEF Agreeing, IsStore
  <2> QED BY <2>1, AgreeIsBalanced
<1> QED BY <1>1, <1>2 DEF Sound

\* Both sides of every reference agree in number, and no reference leads to a node that is
\* gone, after a node was placed (21613), a reference added or, from both sides, deleted
\* (22208-22282, 22466-22483), or a node deleted with its references (22373-22396), if they
\* did before: also where a step fails and the one before it is undone, and where
\* removeReferences walks over a list that shrinks under it (22360-22371).  All that
\* AddressSpace does to nodes, unless a client wants one side only, is made of these.
THEOREM SidesKept ==
  ASSUME NEW A, NEW T, NEW I, NEW ns, Sound(ns, A, T, I)
  PROVE  /\ \A id \in I \ DOMAIN ns : \A item :
              {item.class, item.abstract, item.name} \subseteq A
                => Sound(Placed(ns, id, item), A, T, I)
         /\ \A x \in I, r \in Reference(T, I) :
              /\ Sound(AddReference(ns, x, r).nodes, A, T, I)
              /\ Sound(DeleteReference(ns, x, r, TRUE).nodes, A, T, I)
         /\ \A x \in I : Sound(DeleteNode(ns, x, TRUE).nodes, A, T, I)
<1>1. PICK D : Agreeing(ns, D, A, T, I)
  BY SoundIsAgreeing
<1>2. DOMAIN ns = D
  BY <1>1 DEF Agreeing, IsStore
<1>3. ASSUME NEW id \in I \ DOMAIN ns, NEW item,
             {item.class, item.abstract, item.name} \subseteq A
      PROVE  Sound(Placed(ns, id, item), A, T, I)
  <2>1. Agreeing(Placed(ns, id, item), D \cup {id}, A, T, I)
    BY <1>1, <1>2, <1>3, PlacedBalanced
  <2> QED BY <2>1, SoundIsAgreeing
<1>4. ASSUME NEW x \in I, NEW r \in Reference(T, I)
      PROVE  /\ Sound(AddReference(ns, x, r).nodes, A, T, I)
             /\ Sound(DeleteReference(ns, x, r, TRUE).nodes, A, T, I)
  <2>1. Agreeing(AddReference(ns, x, r).nodes, D, A, T, I)
    BY <1>1, AddBalanced
  <2>2. Agreeing(DeleteReference(ns, x, r, TRUE).nodes, D, A, T, I)
    BY <1>1, DeleteBalanced
  <2> QED BY <2>1, <2>2, SoundIsAgreeing
<1>5. ASSUME NEW x \in I PROVE Sound(DeleteNode(ns, x, TRUE).nodes, A, T, I)
  <2>1. PICK E \in SUBSET D : Agreeing(DeleteNode(ns, x, TRUE).nodes, E, A, T, I)
    BY <1>1, DeleteNodeBalanced
  <2> QED BY <2>1, SoundIsAgreeing
<1> QED BY <1>3, <1>4, <1>5
=============================================================================
