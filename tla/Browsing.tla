------------------------------ MODULE Browsing ------------------------------
(***************************************************************************)
(* How the references of a node are browsed in pages (open62541.c          *)
(* 22633-23012): Browse gives the first page of what a client asks for     *)
(* and, if it may not be all, keeps a continuation point for it;           *)
(* BrowseNext gives the next page or releases the point.                   *)
(*                                                                         *)
(* AddressSpace makes and changes the nodes.  Here this is one action,     *)
(* Change, which leaves any nodes whatever: what is shown does not depend  *)
(* on how they came to be, nor on the hierarchy of the types.              *)
(***************************************************************************)
EXTENDS Integers, Sequences, FiniteSets, SequencesExt

CONSTANTS
  Views,     \* what clients browse
  MaxPoints, \* continuation points of a session
  NoNode,
  TypeHierarchy(_, _, _) \* nodes, type, upwards? -> the type and its sub- or supertypes

VARIABLES
  nodes,     \* the node store: id -> node
  points,    \* session->continuationPoints: walk -> continuationIndex
  available, \* session->availableContinuationPoints
  walks      \* history: what the client asked for and was given

browsingVars == <<nodes, points, available, walks>>

\* A page of 0 references is one without limit.
BrowsingAssumption == MaxPoints \in Nat /\ \A view \in Views : view.max \in Nat

BrowsingInit == nodes = << >> /\ points = << >> /\ available = MaxPoints /\ walks = << >>

IsReferenceType(ns, type) == type \in DOMAIN ns /\ ns[type].class = "ReferenceType"

Browsable(ns, view) ==
  /\ view.type = NoNode \/ IsReferenceType(ns, view.type)
  /\ view.node \in DOMAIN ns

\* The types a view is about; without one, it is about all.
TypesOf(ns, view) ==
  IF view.type = NoNode THEN {}
  ELSE IF view.subtypes THEN ToSet(TypeHierarchy(ns, view.type, FALSE))
  ELSE {view.type}

Relevant(ns, view, types, r) ==
  /\ view.direction = "both" \/ r.inverse = (view.direction = "inverse")
  /\ view.type = NoNode \/ r.type \in types
  /\ r.target \in DOMAIN ns
  /\ view.classes = {} \/ ns[r.target].class \in view.classes

\* The positions of the references that are relevant to a view, in their order.
Positions(ns, view) ==
  LET refs == ns[view.node].refs
      types == TypesOf(ns, view)
      at[k \in 0 .. Len(refs)] ==
        IF k = 0 THEN <<>>
        ELSE IF Relevant(ns, view, types, refs[k]) THEN Append(at[k - 1], k)
        ELSE at[k - 1]
  IN at[Len(refs)]

Chosen(refs, at) == [k \in DOMAIN at |-> refs[at[k]]]

Matches(ns, view) == Chosen(ns[view.node].refs, Positions(ns, view))

Least(m, n) == IF m <= n THEN m ELSE n

\* Of the references at these positions those of a page after the first skip, and
\* whether every reference was looked at for it.
Cut(refs, at, skip, max) ==
  LET most == IF max = 0 THEN Len(refs) ELSE Least(max, Len(refs))
      end == Least(skip + most, Len(at))
  IN [refs |-> SubSeq(Chosen(refs, at), skip + 1, end),
      whole |-> end - skip < most \/ at[end] = Len(refs)]

Page(ns, view, skip) == Cut(ns[view.node].refs, Positions(ns, view), skip, view.max)

Walk(view, got, status) ==
  [view |-> view, got |-> got, status |-> status, disturbed |-> FALSE]

\* Mutant: a page that is full is taken to be the last.
Full_Beyond(view, page) == view.max # 0 /\ Len(page.refs) > view.max

\* A page that is full is taken to have more behind it.
Full(view, page) == view.max # 0 /\ Len(page.refs) >= view.max

\* Status of a walk: "held", its continuation point is kept for it; "done", nothing
\* was left to give; "refused", for want of points; "failed"; "released" by the client.
Answer(view, got, status) == walks' = Append(walks, Walk(view, got, status))

AnswerOnly(view, got, status) ==
  Answer(view, got, status) /\ UNCHANGED <<points, available>>

BrowseNode(view, page) ==
  IF ~Full(view, page) THEN AnswerOnly(view, page.refs, "done")
  ELSE IF available = 0 THEN AnswerOnly(view, page.refs, "refused")
  ELSE /\ Answer(view, page.refs, "held")
       /\ LET n == Len(walks) + 1 IN
          points' = [m \in DOMAIN points \cup {n} |-> IF m = n THEN Len(page.refs) ELSE points[m]]
       /\ available' = available - 1

Browse == \E view \in Views :
  /\ UNCHANGED nodes
  /\ IF ~Browsable(nodes, view) THEN AnswerOnly(view, <<>>, "failed")
     ELSE IF nodes[view.node].refs = <<>> THEN AnswerOnly(view, <<>>, "done")
     ELSE \E page \in {Page(nodes, view, 0)} : BrowseNode(view, page)

RemovePoint(n) ==
  /\ points' = [m \in DOMAIN points \ {n} |-> points[m]]
  /\ available' = available + 1

\* The next page of a walk.
Continue(n, page) ==
  /\ walks' = [walks EXCEPT ![n].got = @ \o page.refs,
                            ![n].status = IF page.whole THEN "done" ELSE "held"]
  /\ IF page.whole THEN RemovePoint(n)
     ELSE /\ points' = [points EXCEPT ![n] = @ + Len(page.refs)]
          /\ UNCHANGED available

\* An error, and a node that has lost all its references, leave the point where it is;
\* the client is told to go on with it only after a page.
BrowseNext == \E n \in DOMAIN walks, release \in BOOLEAN :
  /\ UNCHANGED nodes
  /\ walks[n].status = "held"
  /\ LET view == walks[n].view IN
     IF release THEN RemovePoint(n) /\ walks' = [walks EXCEPT ![n].status = "released"]
     ELSE IF ~Browsable(nodes, view) THEN UNCHANGED <<points, available, walks>>
     ELSE IF nodes[view.node].refs = <<>>
     THEN walks' = [walks EXCEPT ![n].status = "done"] /\ UNCHANGED <<points, available>>
     ELSE \E page \in {Page(nodes, view, points[n])} : Continue(n, page)

\* A walk that is under way while the nodes change has been disturbed.
Disturb ==
  /\ walks' = IF nodes' = nodes THEN walks
              ELSE [n \in DOMAIN walks |-> [walks[n] EXCEPT !.disturbed = TRUE]]
  /\ UNCHANGED <<points, available>>

IsList(s) == s \in Seq(Range(s))

\* What the other services leave, of which only this is used: references are kept in lists.
Change == (\A x \in DOMAIN nodes' : IsList(nodes'[x].refs)) /\ Disturb

BrowsingNext == Browse \/ BrowseNext \/ Change

BrowsingSpec == BrowsingInit /\ [][BrowsingNext]_browsingVars

-----------------------------------------------------------------------------
BrowsingTypeOK ==
  /\ \A x \in DOMAIN nodes : IsList(nodes[x].refs)
  /\ available \in 0 .. MaxPoints
  /\ \A n \in DOMAIN points : n \in DOMAIN walks /\ points[n] \in Nat
  /\ \A n \in DOMAIN walks :
       /\ walks[n].view \in Views /\ walks[n].disturbed \in BOOLEAN
       /\ walks[n].status \in {"held", "done", "refused", "failed", "released"}

\* A walk over several pages (22800-23005) gives each match once and in order, as long
\* as no node was changed meanwhile; when it is done it has given them all.  A point is
\* held exactly for the walks that are to go on, and every other one is available.
WalkComplete ==
  /\ available + Cardinality(DOMAIN points) = MaxPoints
  /\ \A n \in DOMAIN walks :
       /\ walks[n].status = "held" => n \in DOMAIN points
       /\ n \in DOMAIN points => walks[n].status = "held" \/ walks[n].disturbed
       /\ ~walks[n].disturbed /\ walks[n].status # "failed" =>
            /\ IsPrefix(walks[n].got, Matches(nodes, walks[n].view))
            /\ walks[n].status = "done" => walks[n].got = Matches(nodes, walks[n].view)
=============================================================================
