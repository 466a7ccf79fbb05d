---------------------------- MODULE AddressSpace ----------------------------
(***************************************************************************)
(* The nodes of the server: how UA_Server_new builds them, how the node    *)
(* management services add and delete them, and how methods are found      *)
(* (open62541.c 15770-15826, 17675-17775, 21186-22183, 22633-22800,        *)
(* 23300-23352).  What is done to references is in References, and how     *)
(* they are browsed in pages in Browsing.                                  *)
(*                                                                         *)
(* A node has the id the standard gives it, written as its name; values    *)
(* and the other attributes are left out.  The services are sequential;    *)
(* a walk of a client over several pages is not.                           *)
(***************************************************************************)
EXTENDS References

CONSTANTS
  Servers,   \* [steps: what is built before a client comes, services: calls of clients (bound)]
  Offers,    \* the nodes that clients ask to be added
  Links,     \* <<source, reference>> that clients add and delete
  Doomed,    \* the nodes that clients delete
  FreshIds,  \* the ids that the node store gives, in their order
  Views, MaxPoints \* see Browsing

VARIABLES
  nodes, points, available, walks, \* see Browsing
  server, started, served, \* the server, its steps taken, its calls answered
  oneSided,  \* history: a client had one side of a reference deleted without the other
  crashed    \* a NULL pointer was followed

addressVars == <<nodes, server, started, served, points, available, walks, oneSided, crashed>>

Parts == Instances \cup {"Method"}
Classes == Types \cup Parts \cup {"View"}

-----------------------------------------------------------------------------
(* Types and their hierarchy *)

\* getTypeHierarchy from found[k] on: breadth first, every type once; what is not
\* there, or is no type of this class, is listed but not followed.
RECURSIVE Grown(_, _, _, _, _)
Grown(ns, class, inverse, found, k) ==
  IF k > Len(found) THEN found
  ELSE LET refs == IF found[k] \in DOMAIN ns /\ ns[found[k]].class = class
                   THEN SelectSeq(ns[found[k]].refs, LAMBDA r :
                          r.type = "HasSubtype" /\ r.inverse = inverse)
                   ELSE <<>>
           With(list, r) == IF Contains(list, r.target) THEN list ELSE Append(list, r.target)
       IN Grown(ns, class, inverse, FoldLeft(With, found, refs), k + 1)

Hierarchy(ns, type, inverse) == Grown(ns, ns[type].class, inverse, <<type>>, 1)

\* isNodeInTree, which all its callers use with HasSubtype alone.
RECURSIVE InTree(_, _, _)
InTree(ns, leaf, node) ==
  \/ leaf = node
  \/ /\ leaf \in DOMAIN ns
     /\ \E r \in ToSet(ns[leaf].refs) :
          r.inverse /\ r.type = "HasSubtype" /\ InTree(ns, r.target, node)

\* Pages and continuation points
INSTANCE Browsing WITH TypeHierarchy <- Hierarchy

\* What is copied to an instance: the members of a type, or the parts of a member.
PartsView(x) ==
  [node |-> x, type |-> "Aggregates", subtypes |-> TRUE, direction |-> "forward",
   classes |-> Parts, max |-> 0]

-----------------------------------------------------------------------------
(* Adding nodes *)

ParentAllowed(ns, item) ==
  /\ item.parent \in DOMAIN ns
  /\ IsReferenceType(ns, item.by) /\ ~ns[item.by].abstract
  /\ IF item.class \in Types THEN item.by = "HasSubtype" /\ ns[item.parent].class = item.class
     ELSE InTree(ns, item.by, "HierarchicalReferences")

DefaultType(item) ==
  IF item.type # NoNode THEN item.type
  ELSE IF item.class = "Variable" THEN "BaseDataVariableType" ELSE "BaseObjectType"

TypeFits(ns, class, type) ==
  /\ type \in DOMAIN ns /\ ~ns[type].abstract
  /\ ns[type].class = IF class = "Variable" THEN "VariableType" ELSE "ObjectType"

RECURSIVE AddExisting(_, _), CopyChildren(_, _, _)

\* The checks of createNodeFromAttributes, then the node itself.  item.fits: the
\* namespace is known, and the attributes suit the type.
AddNode(ns, item) ==
  IF /\ item.fits /\ item.class \in Classes \ {"Method"}
     /\ item.class = "Variable" => TypeFits(ns, "Variable", DefaultType(item))
     /\ item.class = "VariableType" =>
          LET type == IF item.type = NoNode THEN "BaseDataVariableType" ELSE item.type
          IN type \in DOMAIN ns /\ ns[type].class = "VariableType"
  THEN AddExisting(ns, item) ELSE Refused(ns)

WithParts(made, source) ==
  IF made.good THEN CopyChildren(made.nodes, source, made.id) ELSE made

\* A variable or object of a type becomes a new one below dst, with its own parts.
CopyExisting(ns, r, dst, type) ==
  IF type = NoNode \/ ~TypeFits(ns, ns[r.target].class, type) THEN Refused(ns)
  ELSE WithParts(AddNode(ns, [id |-> NoNode, class |-> ns[r.target].class, abstract |-> FALSE,
                              name |-> ns[r.target].name, parent |-> dst, by |-> r.type,
                              type |-> type, fits |-> TRUE]),
                 r.target)

\* A part of this name that dst already has wins, and takes the parts of the other;
\* a method is shared and not copied.
CopyTo(ns, r, dst, present) ==
  LET class == ns[r.target].class IN
  IF present = <<>>
  THEN IF class = "Method" THEN AddReference(ns, dst, Ref(r.type, r.target, FALSE))
       ELSE CopyExisting(ns, r, dst, NodeType(ns, r.target))
  ELSE IF class = "Method" \/ Head(present).target = r.target THEN Done(ns)
  ELSE CopyChildren(ns, r.target, Head(present).target)

CopyChild(ns, r, dst) ==
  CopyTo(ns, r, dst, SelectSeq(Matches(ns, PartsView(dst)), LAMBDA p :
                       ns[p.target].name = ns[r.target].name))

\* One after the other, until one fails.
CopyChildren(ns, src, dst) ==
  LET Then(result, r) == IF result.good THEN CopyChild(result.nodes, r, dst) ELSE result
  IN IF Browsable(ns, PartsView(src)) THEN FoldLeft(Then, Done(ns), Matches(ns, PartsView(src)))
     ELSE Refused(ns)

\* The reference to the type comes last.
Typed(members, id, type) ==
  IF members.good THEN AddReference(members.nodes, id, Ref("HasTypeDefinition", type, FALSE))
  ELSE members

\* Members of the type and of all its supertypes; a supertype that fails does not
\* keep the others from being copied.
Instantiate(ns, id, class, type) ==
  LET And(copied, good) == [copied EXCEPT !.good = @ /\ good]
      Then(result, supertype) ==
        IF result.crashed THEN result
        ELSE And(CopyChildren(result.nodes, supertype, id), result.good)
  IN IF TypeFits(ns, class, type)
     THEN Typed(FoldLeft(Then, Done(ns), Hierarchy(ns, type, TRUE)), id, type)
     ELSE Refused(ns)

\* What fails after the node was placed is undone by deleting the node, but what was
\* copied below it stays.
Settled(made, id) ==
  IF made.good THEN [made EXCEPT !.id = id]
  ELSE IF made.crashed THEN made
  ELSE [DeleteNode(made.nodes, id, TRUE) EXCEPT !.good = FALSE]

InstanceMade(linked, id, item) ==
  IF linked.good /\ item.class \in Instances
  THEN Instantiate(linked.nodes, id, item.class, DefaultType(item)) ELSE linked

\* Service_AddNodes_existing
AddExisting(ns, item) ==
  LET id == IF item.id # NoNode THEN item.id
            ELSE FreshIds[Min({k \in DOMAIN FreshIds : FreshIds[k] \notin DOMAIN ns})]
  IN IF ~ParentAllowed(ns, item) \/ item.id \in DOMAIN ns THEN Refused(ns)
     ELSE Settled(InstanceMade(AddReference(Placed(ns, id, item), id, Ref(item.by, item.parent, TRUE)),
                               id, item),
                  id)

-----------------------------------------------------------------------------
(* The start of the server *)

\* deleteInstanceChildren
Cleared(ns, x) ==
  LET view == [PartsView(x) EXCEPT !.type = NoNode]
      Then(result, r) ==
        IF result.crashed \/ r.target \notin DOMAIN result.nodes THEN result
        ELSE IF ns[r.target].class = "Method" THEN DeleteReference(result.nodes, x, r, TRUE)
        ELSE DeleteNode(result.nodes, r.target, TRUE)
  IN FoldLeft(Then, Done(ns), Matches(ns, view))

Taken(ns, step) ==
  CASE step.op = "insert" -> Done(Placed(ns, step.item.id, step.item))
    [] step.op = "add" -> AddExisting(ns, step.item)
    [] step.op = "link" -> AddReference(ns, step.source, step.ref)
    [] step.op = "clear" -> Cleared(ns, step.node)

AddressInit ==
  /\ BrowsingInit
  /\ server \in Servers /\ started = 0 /\ served = 0
  /\ oneSided = FALSE /\ crashed = FALSE

Ready == started = Len(server.steps)

\* UA_Server_new looks at none of the results.
StartServer ==
  /\ ~Ready /\ ~crashed
  /\ \E result \in {Taken(nodes, server.steps[started + 1])} :
       nodes' = result.nodes /\ crashed' = result.crashed
  /\ started' = started + 1
  /\ Disturb
  /\ UNCHANGED <<server, served, oneSided>>

-----------------------------------------------------------------------------
(* The services *)

\* A call that changes nodes; a walk that is under way will have been disturbed.
Serve(result) ==
  /\ Ready /\ ~crashed /\ served < server.services
  /\ served' = served + 1
  /\ nodes' = result.nodes /\ crashed' = result.crashed
  /\ Disturb
  /\ UNCHANGED <<server, started>>

AddNodes == \E item \in Offers :
  \E result \in {AddNode(nodes, item)} : Serve(result) /\ UNCHANGED oneSided

AddReferences == \E link \in Links :
  Serve(AddReference(nodes, link[1], link[2])) /\ UNCHANGED oneSided

DeleteReferences == \E link \in Links, both \in BOOLEAN :
  \E result \in {DeleteReference(nodes, link[1], link[2], both)} :
    Serve(result) /\ oneSided' = (oneSided \/ (result.good /\ ~both))

DeleteNodes == \E x \in Doomed, withRefs \in BOOLEAN :
  \E result \in {DeleteNode(nodes, x, withRefs)} :
    Serve(result) /\ oneSided' = (oneSided \/ (result.good /\ ~withRefs))

\* Browse and BrowseNext
Look ==
  /\ Ready /\ ~crashed /\ served < server.services
  /\ served' = served + 1
  /\ Browse \/ BrowseNext
  /\ UNCHANGED <<server, started, oneSided, crashed>>

\* Service_Call_single: the method must refer back to the object.  That a method is executable
\* and has a callback (23330) is left out: an application sets these once and for all.
Callable(ns, method, object) ==
  /\ ns[method].class = "Method" /\ ns[object].class \in {"Object", "ObjectType"}
  /\ \E r \in ToSet(ns[method].refs) :
       r.inverse /\ r.target = object /\ InTree(ns, r.type, "HasComponent")

AddressNext ==
  \/ StartServer
  \/ AddNodes \/ AddReferences \/ DeleteReferences \/ DeleteNodes
  \/ Look

-----------------------------------------------------------------------------
AddressTypeOK ==
  /\ \A x \in DOMAIN nodes :
       /\ nodes[x].class \in Classes /\ nodes[x].abstract \in BOOLEAN
       /\ \A r \in ToSet(nodes[x].refs) : r.inverse \in BOOLEAN
  /\ server \in Servers /\ started \in 0 .. Len(server.steps) /\ served \in 0 .. server.services
  /\ BrowsingTypeOK
  /\ oneSided \in BOOLEAN /\ crashed \in BOOLEAN

RECURSIVE Reached(_, _)
Reached(found, types) ==
  LET more == found \cup {r.target : r \in {s \in UNION {ToSet(nodes[x].refs) : x \in found} :
                                              ~s.inverse /\ s.type \in types}}
  IN IF more = found THEN found ELSE Reached(more, types)

\* UA_Server_new ignores every result (16175-16955): each node depends on types and
\* references that were made before it.  When it is done, all nodes it meant to make
\* are there, can be reached from Root over hierarchical references, and variables and
\* objects have their types, so that clients can browse to them and objects be deleted.
Bootstrapped ==
  Ready /\ served = 0 =>
    /\ ~crashed
    /\ \A k \in DOMAIN server.steps :
         server.steps[k].op \in {"insert", "add"} => server.steps[k].item.id \in DOMAIN nodes
    /\ DOMAIN nodes = Reached({"Root"}, ToSet(Hierarchy(nodes, "HierarchicalReferences", FALSE)))
    /\ \A x \in DOMAIN nodes : nodes[x].class \in Instances => NodeType(nodes, x) # NoNode

\* The two sides of every reference, written one after the other and undone when a step
\* fails (22208-22282, 22360-22396, 21676), agree in number; and so does what is looked
\* up from either side: a method can be called on exactly the objects whose components
\* show it, although a call goes by the method's own references and up the reference
\* types (23347-23365), and a browse by the object's and down (22820).
ViewsAgree ==
  ~oneSided /\ ~crashed =>
    /\ SidesAgree(nodes)
    /\ Ready => \A m \in DOMAIN nodes, o \in DOMAIN nodes :
         nodes[m].class = "Method" /\ nodes[o].class \in {"Object", "ObjectType"}
           => (Callable(nodes, m, o) <=>
                 \E r \in ToSet(Matches(nodes, [PartsView(o) EXCEPT !.type = "HasComponent"])) :
                    r.target = m)
=============================================================================
