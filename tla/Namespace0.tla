----------------------------- MODULE Namespace0 -----------------------------
(***************************************************************************)
(* The nodes that UA_Server_new makes, in its order (open62541.c           *)
(* 16173-16958): every step needs parents, reference types and types that  *)
(* earlier ones have made.  Also an application's own types, as it adds    *)
(* them with UA_Server_addNode before a client comes.                      *)
(***************************************************************************)
EXTENDS Sequences, SequencesExt

CONSTANT NoNode

Item(class, abstract, id, by, parent, type) ==
  [id |-> id, class |-> class, abstract |-> abstract, name |-> id, parent |-> parent,
   by |-> by, type |-> type, fits |-> TRUE]

Insert(class, abstract, id) ==
  [op |-> "insert", item |-> Item(class, abstract, id, NoNode, NoNode, NoNode)]

Add(class, abstract, id, by, parent, type) ==
  [op |-> "add", item |-> Item(class, abstract, id, by, parent, type)]

Link(source, type, target) ==
  [op |-> "link", source |-> source, ref |-> [type |-> type, target |-> target, inverse |-> FALSE]]

Clear(node) == [op |-> "clear", node |-> node]

\* Several nodes of the same kind, one after the other.
Each(Step(_), ids) == [k \in DOMAIN ids |-> Step(ids[k])]

AddSubtype(class, abstract, id, parent) == Add(class, abstract, id, "HasSubtype", parent, NoNode)

RefTypes(abstract, parent, ids) ==
  Each(LAMBDA id : AddSubtype("ReferenceType", abstract, id, parent), ids)
DataTypes(abstract, parent, ids) ==
  Each(LAMBDA id : AddSubtype("DataType", abstract, id, parent), ids)
Properties(parent, ids) ==
  Each(LAMBDA id : Add("Variable", FALSE, id, "HasProperty", parent, "PropertyType"), ids)
Components(parent, ids) ==
  Each(LAMBDA id : Add("Variable", FALSE, id, "HasComponent", parent, "BaseDataVariableType"), ids)
Folders(parent, ids) ==
  Each(LAMBDA id : Add("Object", FALSE, id, "Organizes", parent, "FolderType"), ids)

\* A method and the properties that describe its arguments, whatever became of the first.
AddMethod(id, by, parent, arguments) ==
  <<Add("Method", FALSE, id, by, parent, NoNode)>> \o Properties(id, arguments)

FirstReferences ==
  <<Insert("ReferenceType", TRUE, "References"), Insert("ReferenceType", FALSE, "HasSubtype")>>

FurtherReferences_NoLink ==
  RefTypes(TRUE, "References", <<"HierarchicalReferences", "NonHierarchicalReferences">>)
  \o RefTypes(FALSE, "HierarchicalReferences", <<"HasChild", "Organizes", "HasEventSource">>)
  \o RefTypes(FALSE, "NonHierarchicalReferences",
       <<"HasModellingRule", "HasEncoding", "HasDescription", "HasTypeDefinition", "GeneratesEvent">>)
  \o RefTypes(FALSE, "HasChild", <<"Aggregates">>)

\* Aggregates is not made abstract; HasSubtype gets its place below HasChild.
FurtherReferences ==
  RefTypes(TRUE, "References", <<"HierarchicalReferences", "NonHierarchicalReferences">>)
  \o RefTypes(FALSE, "HierarchicalReferences", <<"HasChild", "Organizes", "HasEventSource">>)
  \o RefTypes(FALSE, "NonHierarchicalReferences",
       <<"HasModellingRule", "HasEncoding", "HasDescription", "HasTypeDefinition", "GeneratesEvent">>)
  \o RefTypes(FALSE, "HasChild", <<"Aggregates">>)
  \o <<Link("HasChild", "HasSubtype", "HasSubtype")>>

LastReferences ==
  RefTypes(FALSE, "Aggregates", <<"HasProperty", "HasComponent">>)
  \o RefTypes(FALSE, "HasEventSource", <<"HasNotifier">>)
  \o RefTypes(FALSE, "HasComponent", <<"HasOrderedComponent">>)
  \o RefTypes(FALSE, "NonHierarchicalReferences",
       <<"HasModelParent", "FromState", "ToState", "HasCause", "HasEffect">>)
  \o RefTypes(FALSE, "Aggregates", <<"HasHistoricalConfiguration">>)

AllDataTypes ==
  <<Insert("DataType", TRUE, "BaseDataType")>>
  \o DataTypes(FALSE, "BaseDataType", <<"Boolean">>)
  \o DataTypes(TRUE, "BaseDataType", <<"Number">>)
  \o DataTypes(FALSE, "Number", <<"Float", "Double">>)
  \o DataTypes(TRUE, "Number", <<"Integer">>)
  \o DataTypes(FALSE, "Integer", <<"SByte", "Int16", "Int32", "Int64">>)
  \o DataTypes(TRUE, "Integer", <<"UInteger">>)
  \o DataTypes(FALSE, "UInteger", <<"Byte", "UInt16", "UInt32", "UInt64">>)
  \o DataTypes(FALSE, "BaseDataType",
       <<"String", "DateTime", "Guid", "ByteString", "XmlElement", "NodeId", "ExpandedNodeId",
         "StatusCode", "QualifiedName", "LocalizedText">>)
  \o DataTypes(TRUE, "BaseDataType", <<"Structure">>)
  \o DataTypes(FALSE, "Structure", <<"ServerStatusDataType", "BuildInfoDataType">>)
  \o DataTypes(FALSE, "BaseDataType", <<"DataValue", "DiagnosticInfo">>)
  \o DataTypes(TRUE, "BaseDataType", <<"Enumeration">>)
  \o DataTypes(FALSE, "Enumeration", <<"ServerState">>)

VariableTypes ==
  <<Insert("VariableType", TRUE, "BaseVariableType"),
    AddSubtype("VariableType", FALSE, "BaseDataVariableType", "BaseVariableType"),
    AddSubtype("VariableType", FALSE, "PropertyType", "BaseVariableType"),
    AddSubtype("VariableType", FALSE, "BuildInfoType", "BaseDataVariableType"),
    AddSubtype("VariableType", FALSE, "ServerStatusType", "BaseDataVariableType")>>

ObjectTypes ==
  <<Insert("ObjectType", FALSE, "BaseObjectType")>>
  \o Each(LAMBDA id : AddSubtype("ObjectType", FALSE, id, "BaseObjectType"),
          <<"FolderType", "ServerType", "ServerDiagnosticsType", "ServerCapabilitiesType">>)

AllFolders ==
  <<Insert("Object", FALSE, "Root"), Link("Root", "HasTypeDefinition", "FolderType")>>
  \o Folders("Root", <<"ObjectsFolder", "TypesFolder">>)
  \o Folders("TypesFolder", <<"ReferenceTypesFolder">>)
  \o <<Link("ReferenceTypesFolder", "Organizes", "References")>>
  \o Folders("TypesFolder", <<"DataTypesFolder">>)
  \o <<Link("DataTypesFolder", "Organizes", "BaseDataType")>>
  \o Folders("TypesFolder", <<"VariableTypesFolder">>)
  \o <<Link("VariableTypesFolder", "Organizes", "BaseVariableType")>>
  \o Folders("TypesFolder", <<"ObjectTypesFolder">>)
  \o <<Link("ObjectTypesFolder", "Organizes", "BaseObjectType")>>
  \o Folders("TypesFolder", <<"EventTypesFolder">>)
  \o Folders("Root", <<"ViewsFolder">>)

ServerObject ==
  <<Add("Object", FALSE, "Server", "Organizes", "ObjectsFolder", "ServerType"), Clear("Server")>>
  \o Properties("Server", <<"NamespaceArray", "ServerArray">>)

ServerCapabilities ==
  <<Add("Object", FALSE, "ServerCapabilities", "HasComponent", "Server", "ServerCapabilitiesType"),
    Clear("ServerCapabilities")>>
  \o Properties("ServerCapabilities",
       <<"LocaleIdArray", "MaxBrowseContinuationPoints", "ServerProfileArray",
         "SoftwareCertificates", "MaxQueryContinuationPoints", "MaxHistoryContinuationPoints",
         "MinSupportedSampleRate">>)
  \o Each(LAMBDA id : Add("Object", FALSE, id, "HasProperty", "ServerCapabilities", "FolderType"),
          <<"ModellingRules", "AggregateFunctions">>)

ServerDiagnostics ==
  <<Add("Object", FALSE, "ServerDiagnostics", "HasComponent", "Server", "ServerDiagnosticsType"),
    Clear("ServerDiagnostics")>>
  \o Properties("ServerDiagnostics", <<"EnabledFlag">>)

ServerStatus ==
  Components("Server", <<"ServerStatus">>)
  \o Components("ServerStatus", <<"StartTime", "CurrentTime", "State">>)
  \o <<Add("Variable", FALSE, "BuildInfo", "HasComponent", "ServerStatus", "BuildInfoType")>>
  \o Components("BuildInfo",
       <<"ProductUri", "ManufacturerName", "ProductName", "SoftwareVersion", "BuildNumber",
         "BuildDate">>)
  \o Components("ServerStatus", <<"SecondsTillShutdown", "ShutdownReason">>)

ServerRest ==
  Each(LAMBDA id : Add("Variable", FALSE, id, "HasComponent", "Server", "PropertyType"),
       <<"ServiceLevel", "Auditing">>)
  \o Each(LAMBDA id : Add("Object", FALSE, id, "HasProperty", "Server", "BaseObjectType"),
          <<"VendorServerInfo", "ServerRedundancy">>)
  \o Properties("ServerRedundancy", <<"RedundancySupport">>)
  \o AddMethod("GetMonitoredItems", "HasComponent", "Server", <<"InputArguments", "OutputArguments">>)

StandardServer ==
  FirstReferences \o FurtherReferences \o LastReferences \o AllDataTypes \o VariableTypes
  \o ObjectTypes \o AllFolders \o ServerObject \o ServerCapabilities \o ServerDiagnostics
  \o ServerStatus \o ServerRest

Names(step) ==
  CASE step.op \in {"insert", "add"} -> {step.item.id}
    [] step.op = "link" -> {step.source, step.ref.target}
    [] OTHER -> {step.node}

\* The part of the standard server that concerns these nodes alone.
PartOfServer(kept) == SelectSeq(StandardServer, LAMBDA step : Names(step) \subseteq kept)
=============================================================================
