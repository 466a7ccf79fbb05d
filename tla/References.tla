----------------------------- MODULE References -----------------------------
(***************************************************************************)
(* References between nodes (open62541.c 17776-17830, 22184-22470): each   *)
(* is kept twice, at its source and, inverse, at its target.  The          *)
(* operators take nodes, ns, and say what a call comes to.                 *)
(***************************************************************************)
EXTENDS Integers, Sequences, FiniteSets, SequencesExt

CONSTANT NoNode

Types == {"ObjectType", "VariableType", "ReferenceType", "DataType"}
Instances == {"Object", "Variable"}

Ref(type, target, inverse) == [type |-> type, target |-> target, inverse |-> inverse]

\* The same reference as its target keeps it.
Mirror(source, r) == Ref(r.type, source, ~r.inverse)

\* What a call comes to: the nodes it leaves, whether it was good, the id it gave.
Done(ns) == [nodes |-> ns, good |-> TRUE, id |-> NoNode, crashed |-> FALSE]
Refused(ns) == [Done(ns) EXCEPT !.good = FALSE]

\* A new node.
Placed(ns, id, item) ==
  [x \in DOMAIN ns \cup {id} |->
     IF x = id THEN [class |-> item.class, abstract |-> item.abstract, name |-> item.name,
                     refs |-> <<>>]
     ELSE ns[x]]

WithRef(ns, x, r) == [ns EXCEPT ![x].refs = Append(@, r)]

\* The last one that matches goes, and the last of all takes its place.
Without(refs, r) ==
  LET i == Max({k \in DOMAIN refs : refs[k] = r})
  IN Front([refs EXCEPT ![i] = Last(refs)])

WithoutRef(ns, x, r) ==
  IF x \notin DOMAIN ns \/ ~Contains(ns[x].refs, r) THEN ns
  ELSE [ns EXCEPT ![x].refs = Without(@, r)]

AddReference_Kept(ns, x, r) ==
  IF x \notin DOMAIN ns THEN Refused(ns)
  ELSE IF r.target \in DOMAIN ns THEN Done(WithRef(WithRef(ns, x, r), r.target, Mirror(x, r)))
  ELSE Refused(WithRef(ns, x, r))

\* Both directions; the first is taken back if there is no node for the second.
AddReference(ns, x, r) ==
  IF x \notin DOMAIN ns THEN Refused(ns)
  ELSE LET first == WithRef(ns, x, r) IN
       IF r.target \in DOMAIN ns THEN Done(WithRef(first, r.target, Mirror(x, r)))
       ELSE Refused(WithoutRef(first, x, r))

\* The second direction is tried only if the first one was there.
DeleteReference(ns, x, r, both) ==
  LET first == WithoutRef(ns, x, r) IN
  IF first = ns THEN Refused(ns)
  ELSE Done(IF both THEN WithoutRef(first, r.target, Mirror(x, r)) ELSE first)

\* The first target that may be the type of a node; an ObjectType has none.
NodeType(ns, x) ==
  LET candidates ==
        SelectSeq(ns[x].refs, LAMBDA r :
          IF ns[x].class \in Instances THEN r.type = "HasTypeDefinition" /\ ~r.inverse
          ELSE ns[x].class \in Types \ {"ObjectType"} /\ r.type = "HasSubtype" /\ r.inverse)
  IN IF candidates = <<>> \/ Head(candidates).target \notin DOMAIN ns THEN NoNode
     ELSE Head(candidates).target

\* The mirror of the kth reference of x is removed, if there is a kth.
UnmirroredAt(ns, x, k) ==
  IF k > Len(ns[x].refs) THEN ns
  ELSE LET r == ns[x].refs[k] IN WithoutRef(ns, r.target, Mirror(x, r))

\* removeReferences: one after the other; the list of x itself may shrink under the walk,
\* as x may refer to itself.
Unmirrored(ns, x) ==
  LET walk[k \in 0 .. Len(ns[x].refs)] ==
        IF k = 0 THEN ns ELSE UnmirroredAt(walk[k - 1], x, k)
  IN walk[Len(ns[x].refs)]

\* The destructor of an object is looked up in its type, which must be there.
DeleteNode(ns, x, withRefs) ==
  IF x \notin DOMAIN ns THEN Refused(ns)
  ELSE IF ns[x].class = "Object" /\ NodeType(ns, x) = NoNode
       THEN [Refused(ns) EXCEPT !.crashed = TRUE]
  ELSE LET rest == IF withRefs THEN Unmirrored(ns, x) ELSE ns
       IN Done([y \in DOMAIN ns \ {x} |-> rest[y]])

-----------------------------------------------------------------------------
Times(list, r) == Cardinality({k \in DOMAIN list : list[k] = r})

\* The two sides of every reference agree in number, and none leads to a node that is gone.
SidesAgree(ns) ==
  \A x \in DOMAIN ns : \A r \in ToSet(ns[x].refs) :
    /\ r.target \in DOMAIN ns
    /\ Times(ns[x].refs, r) = Times(ns[r.target].refs, Mirror(x, r))
=============================================================================
