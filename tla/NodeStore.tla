------------------------------ MODULE NodeStore ------------------------------
(***************************************************************************)
(* The store of the nodes (open62541.c 19082-19407): a hash table with     *)
(* open addressing.  The way of an id through the table is given by its    *)
(* hash and the size, which is a prime; a node that is removed leaves a    *)
(* tombstone on the way of others; the table is rebuilt when it is three   *)
(* quarters full, or when a node is removed and it is nearly empty.        *)
(*                                                                         *)
(* AddressSpace takes the store as a map from ids to nodes; here it is     *)
(* compared with one.  Nodes are edited in place (17849-17862), so that    *)
(* copies and replacement (19343-19382) are not used in this build.        *)
(***************************************************************************)
EXTENDS Integers, FiniteSets, Sequences, SequencesExt

CONSTANTS
  GivenIds,  \* ids that clients give
  Hash,      \* id -> UA_NodeId_hash, as far as the sizes tell it apart
  Primes,    \* the sizes, in ascending order
  MinSize,   \* UA_NODESTORE_MINSIZE
  KeepSize,  \* a table of this size is not made smaller (32)
  MaxInsert  \* insertions (bound)

VARIABLES
  table,     \* ns->entries
  count,     \* ns->count
  inserted,  \* insertions so far
  state,     \* "running"; "endless", in a search; "crashed"
  stored,    \* history: the ids a map would hold
  doubled    \* history: ids that were inserted while they were stored

storeVars == <<table, count, inserted, state, stored, doubled>>

Null == -1
Tombstone == -2
Ids == DOMAIN Hash
Sizes == {Primes[k] : k \in DOMAIN Primes}

\* A prime divides no product of smaller numbers.
PrimeAssumption == \A p \in Sizes : \A m, n \in 1 .. p - 1 : (m * n) % p # 0

\* There are sizes for as many nodes as are inserted.
SizeAssumption ==
  /\ Primes \in Seq(Nat) /\ \A p \in Sizes : p > 3
  /\ {MinSize, KeepSize, MaxInsert} \subseteq Nat
  /\ \E p \in Sizes : p >= MinSize
  /\ \A p \in Sizes, n \in 0 .. MaxInsert :
       n < p /\ p * 3 <= n * 4 => \E q \in Sizes : q >= n * 2

\* Numbers below a size are ids as well; no id is taken for a mark.
IdAssumption ==
  /\ Hash \in [Ids -> Nat] /\ GivenIds \subseteq Ids
  /\ \A p \in Sizes : 0 .. p - 1 \subseteq Ids
  /\ Ids \cap {Null, Tombstone} = {}

First(S) == CHOOSE k \in S : \A j \in S : k <= j

\* higher_prime_index, and the prime
HigherPrime(n) == Primes[First({k \in DOMAIN Primes : Primes[k] >= n})]

Cleared(size) == [slot \in 1 .. size |-> Null]

\* mod2, and the k-th of the numbers from start on, modulo size.
StepOf(n, size) == 1 + (n % (size - 2))
Turn(start, step, size, k) == (start + k * step) % size

\* The slots that are looked at for an id, one after the other: as the size is a
\* prime, all of them.
Way(id, size, k) == Turn(Hash[id] % size, StepOf(Hash[id], size), size, k) + 1

\* The slot at which a search for an id stops; 0 if it does not end.
SearchEnd(t, id, marks) ==
  LET slot(k) == Way(id, Len(t), k)
      ends(k) == t[slot(k)] \in marks \cup {id}
  IN IF \A k \in 0 .. Len(t) - 1 : ~ends(k) THEN 0
     ELSE slot(CHOOSE k \in 0 .. Len(t) - 1 : ends(k) /\ \A j \in 0 .. k - 1 : ~ends(j))

findNode(t, id) == SearchEnd(t, id, {Null})

\* The first slot that is free on the way, if the id is not met before it.
findSlot(t, id) == SearchEnd(t, id, {Null, Tombstone})

\* The result of findSlot is not looked at, which is NULL if the id is there already.
MovedTo(s, id) ==
  LET slot == findSlot(s.table, id)
  IN IF s.table[slot] = id THEN [s EXCEPT !.crashed = TRUE]
     ELSE [s EXCEPT !.table[slot] = id, !.moved = @ + 1]

\* Each entry of the old table, as many as are counted, is put into the new one.
Carried(s, n, entry) ==
  IF entry \in {Null, Tombstone} \/ s.moved >= n THEN s ELSE MovedTo(s, entry)

Rehash(t, n, size) ==
  LET after[i \in 0 .. Len(t)] ==
        IF i = 0 THEN [table |-> Cleared(size), moved |-> 0, crashed |-> FALSE]
        ELSE Carried(after[i - 1], n, t[i])
  IN after[Len(t)]

Fits(n, size) == n * 2 < size /\ (n * 8 > size \/ size <= MinSize)

\* expand; fails: memory cannot be allocated.
Expanded(t, n, fails) ==
  IF Fits(n, Len(t)) \/ fails
  THEN [table |-> t, good |-> Fits(n, Len(t)), crashed |-> FALSE]
  ELSE LET new == Rehash(t, n, HigherPrime(n * 2))
       IN [table |-> new.table, good |-> TRUE, crashed |-> new.crashed]

\* The table into which a node is to be inserted.
Roomy(fails) ==
  IF Len(table) * 3 <= count * 4 THEN Expanded(table, count, fails)
  ELSE [table |-> table, good |-> TRUE, crashed |-> FALSE]

StoreInit ==
  /\ table = Cleared(HigherPrime(MinSize)) /\ count = 0
  /\ inserted = 0 /\ state = "running"
  /\ stored = {} /\ doubled = {}

Crash == state' = "crashed" /\ UNCHANGED <<table, count, stored, doubled>>

Put(t, slot, id) ==
  /\ table' = [t EXCEPT ![slot] = id]
  /\ count' = count + 1
  /\ stored' = stored \cup {id}
  /\ doubled' = IF id \in stored THEN doubled \cup {id} ELSE doubled
  /\ UNCHANGED state

\* For a node that has an id.
InsertAs(t, id) ==
  \E slot \in {findSlot(t, id)} :
    IF t[slot] = id   \* BADNODEIDEXISTS, after the table was rebuilt
    THEN table' = t /\ UNCHANGED <<count, state, stored, doubled>>
    ELSE Put(t, slot, id)

\* The number given to a node without an id: the first that is not met.
NewNumber(t) ==
  LET number(k) == Turn(count + 1, StepOf(count + 1, Len(t)), Len(t), k)
  IN number(First({k \in 0 .. Len(t) - 1 : t[findSlot(t, number(k))] # number(k)}))

InsertNumbered(t) == \E id \in {NewNumber(t)} : Put(t, findSlot(t, id), id)

\* UA_NodeStore_insert.
Insert(id, fails) ==
  /\ state = "running" /\ inserted < MaxInsert
  /\ inserted' = inserted + 1
  /\ \E s \in {Roomy(fails)} :
       IF s.crashed THEN Crash
       ELSE IF ~s.good THEN UNCHANGED <<table, count, state, stored, doubled>>
       ELSE IF id = Null THEN InsertNumbered(s.table)
       ELSE InsertAs(s.table, id)

\* Mutant: the slot is as if it had never been used.
RemoveFrom_NoTombstone(t, slot) == [t EXCEPT ![slot] = Null]

RemoveFrom(t, slot) == [t EXCEPT ![slot] = Tombstone]

\* UA_NodeStore_remove.  An id that is not there changes nothing; see Get.
RemoveNode(id, fails) ==
  /\ state = "running"
  /\ LET slot == findNode(table, id)
         removed == RemoveFrom(table, slot)
         sparse == (count - 1) * 8 < Len(table) /\ Len(table) > KeepSize
     IN /\ slot # 0 /\ table[slot] = id
        /\ \E s \in {IF sparse THEN Expanded(removed, count - 1, fails)
                     ELSE [table |-> removed, good |-> TRUE, crashed |-> FALSE]} :
             IF s.crashed THEN Crash
             ELSE /\ table' = s.table /\ count' = count - 1
                  /\ stored' = stored \ {id}
                  /\ UNCHANGED <<state, doubled>>
  /\ UNCHANGED inserted

\* UA_NodeStore_get, and every other search for an id, of which only one without an end matters.
Get(id) ==
  /\ state = "running" /\ findNode(table, id) = 0
  /\ state' = "endless"
  /\ UNCHANGED <<table, count, inserted, stored, doubled>>

StoreNext ==
  \/ \E id \in GivenIds \cup {Null}, fails \in BOOLEAN : Insert(id, fails)
  \/ \E id \in Ids, fails \in BOOLEAN : RemoveNode(id, fails)
  \/ \E id \in Ids : Get(id)

StoreSpec == StoreInit /\ [][StoreNext]_storeVars

-----------------------------------------------------------------------------
StoreTypeOK ==
  /\ table \in Seq(Ids \cup {Null, Tombstone}) /\ Len(table) \in Sizes
  /\ count \in 0 .. Len(table) /\ inserted \in 0 .. MaxInsert
  /\ state \in {"running", "endless", "crashed"}
  /\ stored \cup doubled \subseteq Ids

Occupied == {slot \in DOMAIN table : table[slot] \notin {Null, Tombstone}}

\* The table is a map, whatever was inserted, removed and rebuilt in which order (19174-19253,
\* 19302-19396): an id that is stored is found, whatever tombstones are before it, one
\* that is not is not, and the count, by which the size is chosen and new ids are
\* begun, is that of the nodes.  An insertion always finds a slot.  Not so for an id that was
\* inserted twice: findSlot "returns an empty slot or null if the nodeid exists" (19197), but
\* takes a tombstone without looking behind it, and the next rebuild then follows the
\* NULL.  And a search for what is not stored ends only while some slot was never used.
AsAMap ==
  /\ state = "running" =>
       /\ count = Cardinality(Occupied)
       /\ \A id \in Ids \ doubled :
            LET slot == findNode(table, id)
            IN (slot # 0 /\ table[slot] = id) <=> id \in stored
       /\ \E slot \in DOMAIN table : slot \notin Occupied
  /\ state = "crashed" => doubled # {}
  /\ state = "endless" => Tombstone \in ToSet(table) /\ Null \notin ToSet(table)
=============================================================================
