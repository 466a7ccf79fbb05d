------------------------------ MODULE MCLibrary ------------------------------
(***************************************************************************)
(* The machines of the library (open62541.c) that do not share any state,  *)
(* checked in one run: subject, chosen at the start, says which one runs,  *)
(* and the others stay as they begin.                                      *)
(***************************************************************************)
EXTENDS RepeatedJobs, NetworkLayer, Reception, NodeStore, Browsing, TLC

VARIABLES
  subject,
  server, started, served, oneSided, crashed,
  message, room, written, chunks, status, decoded

\* Repeated jobs: three of them; one interval asked for is below the least. The network
\* layer: two clients and one other user of descriptors. The channel: three messages of up to
\* three chunks, the last of which may be one too many, and numbers that roll over. The
\* configuration file has them.
ASSUME NumbersAssumption ==
  /\ JobsAssumption /\ NetworkAssumption /\ ReceptionAssumption /\ FewerThanNumbers
  /\ BrowsingAssumption

\* Next to the server as it is, which no client calls here, one with a part of the
\* standard's nodes and its own: a type of objects with a variable and a method, and a
\* type of variables with a property.
N0 == INSTANCE Namespace0

OwnServer ==
  N0!PartOfServer({"References", "HasSubtype", "HierarchicalReferences",
    "NonHierarchicalReferences", "HasChild", "Organizes", "HasTypeDefinition", "Aggregates",
    "HasProperty", "HasComponent", "BaseVariableType", "BaseDataVariableType", "PropertyType",
    "BaseObjectType", "FolderType", "Root", "ObjectsFolder", "TypesFolder",
    "ReferenceTypesFolder", "VariableTypesFolder", "ObjectTypesFolder"})
  \o <<N0!AddSubtype("ObjectType", FALSE, "Pump", "BaseObjectType"),
       N0!Add("Variable", FALSE, "Speed", "HasComponent", "Pump", "BaseDataVariableType"),
       N0!Add("Method", FALSE, "Stop", "HasComponent", "Pump", "none"),
       N0!AddSubtype("VariableType", FALSE, "Gauge", "BaseDataVariableType")>>
  \o N0!Properties("Gauge", <<"Unit">>)

Offer(class, name, by, parent, type) ==
  [id |-> "none", class |-> class, abstract |-> FALSE, name |-> name, parent |-> parent,
   by |-> by, type |-> type, fits |-> TRUE]

View(node, type, subtypes, direction, classes) ==
  [node |-> node, type |-> type, subtypes |-> subtypes, direction |-> direction,
   classes |-> classes, max |-> 1]

BrowsedViews ==
  {View("ObjectsFolder", "none", FALSE, "both", {}),
   View("Pump", "Aggregates", TRUE, "forward", {}),
   View("Pump", "HasComponent", FALSE, "forward", {"Variable"})}

\* Four calls of clients: an instance, a subtype and its instance, a variable with a
\* property, a variable that overrides one of the type, and a method, which is refused.
Address == INSTANCE AddressSpace WITH
  Servers <- {[steps |-> N0!StandardServer, services |-> 0],
              [steps |-> OwnServer, services |-> 4]},
  Offers <- {Offer("Object", "pump", "Organizes", "ObjectsFolder", "Pump"),
             [Offer("ObjectType", "BigPump", "HasSubtype", "Pump", "none") EXCEPT !.id = "BigPump"],
             Offer("Object", "pump", "Organizes", "ObjectsFolder", "BigPump"),
             Offer("Variable", "gauge", "HasComponent", "Pump", "Gauge"),
             Offer("Variable", "Speed", "HasComponent", "BigPump", "none"),
             Offer("Method", "Start", "HasComponent", "Pump", "none")},
  Links <- {<<"Unit", N0!Link("Unit", "HasTypeDefinition", "PropertyType").ref>>,
            <<"ObjectsFolder", N0!Link("Pump", "HasComponent", "Stop").ref>>,
            <<"ObjectsFolder", N0!Link("Pump", "Organizes", "n1").ref>>},
  Doomed <- {"Speed", "Stop", "Pump", "ObjectsFolder", "n1"},
  FreshIds <- <<"n1", "n2", "n3", "n4", "n5", "n6", "n7", "n8", "n9", "n10", "n11", "n12",
                "n13", "n14", "n15", "n16", "n17", "n18", "n19", "n20">>

HierarchyOf(ns, type, inverse) == Address!Hierarchy(ns, type, inverse)

\* Every type as a message, in a large buffer and in one that it hardly fits into.
Table == INSTANCE DataTypes
S == INSTANCE Samples

Coding == INSTANCE Codec WITH
  UA_TYPES <- Table!UA_TYPES, TypeOf <- Table!TypeOf, MemSize <- Table!MemSize,
  Overlayable <- Table!Overlayable, Messages <- Table!TypeNames,
  Samples <- S!Sampled, Arrays <- S!Elements, Sparse <- {"sparse"},
  Rooms <- {48, 4000}, MaxChunks <- 40, Stride <- 25

\* Of the hashes only the remainder by 5, 11, 3 and 9 matters, which the remainder by 495
\* keeps: that of the numbers 0 to 11 in namespace 1, and of two names that collide.
HashOf == [id \in 0 .. 11 \cup {101, 102} |->
  IF id > 100 THEN 3 ELSE <<1, 242, 182, 423, 363, 303, 49, 484, 230, 170, 110, 351>>[id + 1]]

SizesOfTable == <<5, 11>>

ASSUME SizesAssumption == PrimeAssumption /\ SizeAssumption /\ IdAssumption

addressVars == <<nodes, server, started, served, points, available, walks, oneSided, crashed>>
codecVars == <<message, room, written, chunks, status, decoded>>
machines == <<subject, jobVars, streamVars, networkVars, addressVars, codecVars, storeVars>>

MachinesInit ==
  /\ subject \in {"jobs", "reception", "network", "address", "codec", "store"}
  /\ JobsInit /\ StreamInit /\ NetworkInit /\ Address!AddressInit
  /\ Coding!CodecInit /\ StoreInit
  /\ subject # "address" => server.services = 0

JobsStep ==
  /\ subject = "jobs" /\ JobsNext
  /\ UNCHANGED <<subject, streamVars, networkVars, addressVars, codecVars, storeVars>>

ReceptionStep ==
  /\ subject = "reception" /\ StreamNext
  /\ UNCHANGED <<subject, jobVars, networkVars, addressVars, codecVars, storeVars>>

NetworkStep ==
  /\ subject = "network" /\ NetworkNext
  /\ UNCHANGED <<subject, jobVars, streamVars, addressVars, codecVars, storeVars>>

AddressStep ==
  /\ subject = "address" /\ Address!AddressNext
  /\ UNCHANGED <<subject, jobVars, streamVars, networkVars, codecVars, storeVars>>

CodecStep ==
  /\ subject = "codec" /\ Coding!CodecNext
  /\ UNCHANGED <<subject, jobVars, streamVars, networkVars, addressVars, storeVars>>

StoreStep ==
  /\ subject = "store" /\ StoreNext
  /\ UNCHANGED <<subject, jobVars, streamVars, networkVars, addressVars, codecVars>>

MachinesNext == JobsStep \/ ReceptionStep \/ NetworkStep \/ AddressStep \/ CodecStep \/ StoreStep

MachinesSpec == MachinesInit /\ [][MachinesNext]_machines

\* The types of all machines.
TypesOK ==
  /\ JobsTypeOK /\ StreamTypeOK /\ NetworkTypeOK /\ Address!AddressTypeOK
  /\ Coding!CodecTypeOK /\ StoreTypeOK

\* The server starts with all its nodes in place (see AddressSpace).
Bootstrapped == Address!Bootstrapped

\* Both sides of a reference agree, and what is looked up from them (see AddressSpace).
ViewsAgree == Address!ViewsAgree

\* What is encoded is decoded to the same value (see Codec).
RoundTrip == Coding!RoundTrip

\* In chunks a message has the bytes it has in one (see Codec).
SameInChunks == Coding!SameInChunks

=============================================================================
