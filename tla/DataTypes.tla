------------------------------ MODULE DataTypes ------------------------------
(***************************************************************************)
(* The descriptions of the data types by which values are encoded, decoded *)
(* and measured (the generated tables of open62541.c, 7481-14753): the     *)
(* members of each type in their order, and for each type its ids, whether *)
(* it has a codec of its own, and whether its arrays may be copied as they *)
(* lie in memory.                                                          *)
(*                                                                         *)
(* Types go by their names instead of their indices in the two tables, and *)
(* members have none.  The build is a little-endian one for 64 bits, where *)
(* integers and IEEE floats may be overlaid.                               *)
(***************************************************************************)
EXTENDS Values, Integers, Sequences, SequencesExt, FiniteSetsExt

Boolean_members == <<One("Boolean")>>
SByte_members == <<One("SByte")>>
Byte_members == <<One("Byte")>>
Int16_members == <<One("Int16")>>
UInt16_members == <<One("UInt16")>>
Int32_members == <<One("Int32")>>
UInt32_members == <<One("UInt32")>>
Int64_members == <<One("Int64")>>
UInt64_members == <<One("UInt64")>>
Float_members == <<One("Float")>>
Double_members == <<One("Double")>>
String_members == <<Many("Byte")>>
DateTime_members == <<One("DateTime")>>
Guid_members == <<One("Guid")>>
ByteString_members == <<Many("Byte")>>
XmlElement_members == <<Many("Byte")>>
NodeId_members == <<One("NodeId")>>
ExpandedNodeId_members == <<One("ExpandedNodeId")>>
StatusCode_members == <<One("StatusCode")>>
QualifiedName_members == <<One("Int16"), One("String")>>
LocalizedText_members == <<One("LocalizedText")>>
ExtensionObject_members == <<One("ExtensionObject")>>
DataValue_members == <<One("DataValue")>>
Variant_members == <<One("Variant")>>
DiagnosticInfo_members == <<One("DiagnosticInfo")>>
SignedSoftwareCertificate_members == <<One("ByteString"), One("ByteString")>>
BrowsePathTarget_members == <<One("ExpandedNodeId"), One("UInt32")>>
ViewAttributes_members ==
  <<One("UInt32"), One("LocalizedText"), One("LocalizedText"), One("UInt32"), One("UInt32"),
    One("Boolean"), One("Byte")>>
RequestHeader_members ==
  <<One("NodeId"), One("DateTime"), One("UInt32"), One("UInt32"), One("String"), One("UInt32"),
    One("ExtensionObject")>>
MonitoredItemModifyResult_members ==
  <<One("StatusCode"), One("Double"), One("UInt32"), One("ExtensionObject")>>
CloseSecureChannelRequest_members == <<One("RequestHeader")>>
AddNodesResult_members == <<One("StatusCode"), One("NodeId")>>
VariableAttributes_members ==
  <<One("UInt32"), One("LocalizedText"), One("LocalizedText"), One("UInt32"), One("UInt32"),
    One("Variant"), One("NodeId"), One("Int32"), Many("UInt32"), One("Byte"), One("Byte"),
    One("Double"), One("Boolean")>>
NotificationMessage_members == <<One("UInt32"), One("DateTime"), Many("ExtensionObject")>>
CallMethodResult_members ==
  <<One("StatusCode"), Many("StatusCode"), Many("DiagnosticInfo"), Many("Variant")>>
ParsingResult_members == <<One("StatusCode"), Many("StatusCode"), Many("DiagnosticInfo")>>
RelativePathElement_members ==
  <<One("NodeId"), One("Boolean"), One("Boolean"), One("QualifiedName")>>
CallMethodRequest_members == <<One("NodeId"), One("NodeId"), Many("Variant")>>
UnregisterNodesRequest_members == <<One("RequestHeader"), Many("NodeId")>>
ContentFilterElementResult_members ==
  <<One("StatusCode"), Many("StatusCode"), Many("DiagnosticInfo")>>
QueryDataSet_members == <<One("ExpandedNodeId"), One("ExpandedNodeId"), Many("Variant")>>
AnonymousIdentityToken_members == <<One("String")>>
SetPublishingModeRequest_members == <<One("RequestHeader"), One("Boolean"), Many("UInt32")>>
CallRequest_members == <<One("RequestHeader"), Many("CallMethodRequest")>>
MethodAttributes_members ==
  <<One("UInt32"), One("LocalizedText"), One("LocalizedText"), One("UInt32"), One("UInt32"),
    One("Boolean"), One("Boolean")>>
DeleteReferencesItem_members ==
  <<One("NodeId"), One("NodeId"), One("Boolean"), One("ExpandedNodeId"), One("Boolean")>>
WriteValue_members == <<One("NodeId"), One("UInt32"), One("String"), One("DataValue")>>
MonitoredItemCreateResult_members ==
  <<One("StatusCode"), One("UInt32"), One("Double"), One("UInt32"), One("ExtensionObject")>>
MonitoringParameters_members ==
  <<One("UInt32"), One("Double"), One("ExtensionObject"), One("UInt32"), One("Boolean")>>
SignatureData_members == <<One("String"), One("ByteString")>>
ReferenceNode_members == <<One("NodeId"), One("Boolean"), One("ExpandedNodeId")>>
Argument_members ==
  <<One("String"), One("NodeId"), One("Int32"), Many("UInt32"), One("LocalizedText")>>
UserIdentityToken_members == <<One("String")>>
ObjectTypeAttributes_members ==
  <<One("UInt32"), One("LocalizedText"), One("LocalizedText"), One("UInt32"), One("UInt32"),
    One("Boolean")>>
BuildInfo_members ==
  <<One("String"), One("String"), One("String"), One("String"), One("String"), One("DateTime")>>
ChannelSecurityToken_members == <<One("UInt32"), One("UInt32"), One("DateTime"), One("UInt32")>>
MonitoredItemNotification_members == <<One("UInt32"), One("DataValue")>>
DeleteNodesItem_members == <<One("NodeId"), One("Boolean")>>
SubscriptionAcknowledgement_members == <<One("UInt32"), One("UInt32")>>
ReadValueId_members == <<One("NodeId"), One("UInt32"), One("String"), One("QualifiedName")>>
DataTypeAttributes_members ==
  <<One("UInt32"), One("LocalizedText"), One("LocalizedText"), One("UInt32"), One("UInt32"),
    One("Boolean")>>
ResponseHeader_members ==
  <<One("DateTime"), One("UInt32"), One("StatusCode"), One("DiagnosticInfo"), Many("String"),
    One("ExtensionObject")>>
DeleteSubscriptionsRequest_members == <<One("RequestHeader"), Many("UInt32")>>
ViewDescription_members == <<One("NodeId"), One("DateTime"), One("UInt32")>>
DeleteMonitoredItemsResponse_members ==
  <<One("ResponseHeader"), Many("StatusCode"), Many("DiagnosticInfo")>>
NodeAttributes_members ==
  <<One("UInt32"), One("LocalizedText"), One("LocalizedText"), One("UInt32"), One("UInt32")>>
RegisterNodesRequest_members == <<One("RequestHeader"), Many("NodeId")>>
DeleteNodesRequest_members == <<One("RequestHeader"), Many("DeleteNodesItem")>>
PublishResponse_members ==
  <<One("ResponseHeader"), One("UInt32"), Many("UInt32"), One("Boolean"),
    One("NotificationMessage"), Many("StatusCode"), Many("DiagnosticInfo")>>
MonitoredItemModifyRequest_members == <<One("UInt32"), One("MonitoringParameters")>>
UserNameIdentityToken_members ==
  <<One("String"), One("String"), One("ByteString"), One("String")>>
ActivateSessionRequest_members ==
  <<One("RequestHeader"), One("SignatureData"), Many("SignedSoftwareCertificate"),
    Many("String"), One("ExtensionObject"), One("SignatureData")>>
OpenSecureChannelResponse_members ==
  <<One("ResponseHeader"), One("UInt32"), One("ChannelSecurityToken"), One("ByteString")>>
QueryNextResponse_members == <<One("ResponseHeader"), Many("QueryDataSet"), One("ByteString")>>
ActivateSessionResponse_members ==
  <<One("ResponseHeader"), One("ByteString"), Many("StatusCode"), Many("DiagnosticInfo")>>
QueryNextRequest_members == <<One("RequestHeader"), One("Boolean"), One("ByteString")>>
WriteResponse_members == <<One("ResponseHeader"), Many("StatusCode"), Many("DiagnosticInfo")>>
BrowseNextRequest_members == <<One("RequestHeader"), One("Boolean"), Many("ByteString")>>
CreateSubscriptionRequest_members ==
  <<One("RequestHeader"), One("Double"), One("UInt32"), One("UInt32"), One("UInt32"),
    One("Boolean"), One("Byte")>>
VariableTypeAttributes_members ==
  <<One("UInt32"), One("LocalizedText"), One("LocalizedText"), One("UInt32"), One("UInt32"),
    One("Variant"), One("NodeId"), One("Int32"), Many("UInt32"), One("Boolean")>>
BrowsePathResult_members == <<One("StatusCode"), Many("BrowsePathTarget")>>
ModifySubscriptionResponse_members ==
  <<One("ResponseHeader"), One("Double"), One("UInt32"), One("UInt32")>>
OpenSecureChannelRequest_members ==
  <<One("RequestHeader"), One("UInt32"), One("SecurityTokenRequestType"),
    One("MessageSecurityMode"), One("ByteString"), One("UInt32")>>
RegisterNodesResponse_members == <<One("ResponseHeader"), Many("NodeId")>>
CloseSessionRequest_members == <<One("RequestHeader"), One("Boolean")>>
ModifySubscriptionRequest_members ==
  <<One("RequestHeader"), One("UInt32"), One("Double"), One("UInt32"), One("UInt32"),
    One("UInt32"), One("Byte")>>
UserTokenPolicy_members ==
  <<One("String"), One("UserTokenType"), One("String"), One("String"), One("String")>>
DeleteMonitoredItemsRequest_members == <<One("RequestHeader"), One("UInt32"), Many("UInt32")>>
ReferenceTypeAttributes_members ==
  <<One("UInt32"), One("LocalizedText"), One("LocalizedText"), One("UInt32"), One("UInt32"),
    One("Boolean"), One("Boolean"), One("LocalizedText")>>
SetMonitoringModeRequest_members ==
  <<One("RequestHeader"), One("UInt32"), One("MonitoringMode"), Many("UInt32")>>
UnregisterNodesResponse_members == <<One("ResponseHeader")>>
WriteRequest_members == <<One("RequestHeader"), Many("WriteValue")>>
ObjectAttributes_members ==
  <<One("UInt32"), One("LocalizedText"), One("LocalizedText"), One("UInt32"), One("UInt32"),
    One("Byte")>>
BrowseDescription_members ==
  <<One("NodeId"), One("BrowseDirection"), One("NodeId"), One("Boolean"), One("UInt32"),
    One("UInt32")>>
RepublishRequest_members == <<One("RequestHeader"), One("UInt32"), One("UInt32")>>
GetEndpointsRequest_members ==
  <<One("RequestHeader"), One("String"), Many("String"), Many("String")>>
PublishRequest_members == <<One("RequestHeader"), Many("SubscriptionAcknowledgement")>>
AddNodesResponse_members ==
  <<One("ResponseHeader"), Many("AddNodesResult"), Many("DiagnosticInfo")>>
DataChangeNotification_members == <<Many("MonitoredItemNotification"), Many("DiagnosticInfo")>>
CloseSecureChannelResponse_members == <<One("ResponseHeader")>>
ModifyMonitoredItemsRequest_members ==
  <<One("RequestHeader"), One("UInt32"), One("TimestampsToReturn"),
    Many("MonitoredItemModifyRequest")>>
SetMonitoringModeResponse_members ==
  <<One("ResponseHeader"), Many("StatusCode"), Many("DiagnosticInfo")>>
FindServersRequest_members ==
  <<One("RequestHeader"), One("String"), Many("String"), Many("String")>>
ReferenceDescription_members ==
  <<One("NodeId"), One("Boolean"), One("ExpandedNodeId"), One("QualifiedName"),
    One("LocalizedText"), One("NodeClass"), One("ExpandedNodeId")>>
SetPublishingModeResponse_members ==
  <<One("ResponseHeader"), Many("StatusCode"), Many("DiagnosticInfo")>>
ContentFilterResult_members == <<Many("ContentFilterElementResult"), Many("DiagnosticInfo")>>
AddReferencesItem_members ==
  <<One("NodeId"), One("NodeId"), One("Boolean"), One("String"), One("ExpandedNodeId"),
    One("NodeClass")>>
CreateSubscriptionResponse_members ==
  <<One("ResponseHeader"), One("UInt32"), One("Double"), One("UInt32"), One("UInt32")>>
DeleteSubscriptionsResponse_members ==
  <<One("ResponseHeader"), Many("StatusCode"), Many("DiagnosticInfo")>>
RelativePath_members == <<Many("RelativePathElement")>>
DeleteReferencesResponse_members ==
  <<One("ResponseHeader"), Many("StatusCode"), Many("DiagnosticInfo")>>
CreateMonitoredItemsResponse_members ==
  <<One("ResponseHeader"), Many("MonitoredItemCreateResult"), Many("DiagnosticInfo")>>
CallResponse_members ==
  <<One("ResponseHeader"), Many("CallMethodResult"), Many("DiagnosticInfo")>>
DeleteNodesResponse_members ==
  <<One("ResponseHeader"), Many("StatusCode"), Many("DiagnosticInfo")>>
RepublishResponse_members == <<One("ResponseHeader"), One("NotificationMessage")>>
MonitoredItemCreateRequest_members ==
  <<One("ReadValueId"), One("MonitoringMode"), One("MonitoringParameters")>>
DeleteReferencesRequest_members == <<One("RequestHeader"), Many("DeleteReferencesItem")>>
ModifyMonitoredItemsResponse_members ==
  <<One("ResponseHeader"), Many("MonitoredItemModifyResult"), Many("DiagnosticInfo")>>
ReadResponse_members == <<One("ResponseHeader"), Many("DataValue"), Many("DiagnosticInfo")>>
AddReferencesRequest_members == <<One("RequestHeader"), Many("AddReferencesItem")>>
ReadRequest_members ==
  <<One("RequestHeader"), One("Double"), One("TimestampsToReturn"), Many("ReadValueId")>>
AddNodesItem_members ==
  <<One("ExpandedNodeId"), One("NodeId"), One("ExpandedNodeId"), One("QualifiedName"),
    One("NodeClass"), One("ExtensionObject"), One("ExpandedNodeId")>>
ServerStatusDataType_members ==
  <<One("DateTime"), One("DateTime"), One("ServerState"), One("BuildInfo"), One("UInt32"),
    One("LocalizedText")>>
AddReferencesResponse_members ==
  <<One("ResponseHeader"), Many("StatusCode"), Many("DiagnosticInfo")>>
TranslateBrowsePathsToNodeIdsResponse_members ==
  <<One("ResponseHeader"), Many("BrowsePathResult"), Many("DiagnosticInfo")>>
DataChangeFilter_members == <<One("DataChangeTrigger"), One("UInt32"), One("Double")>>
ContentFilterElement_members == <<One("FilterOperator"), Many("ExtensionObject")>>
CloseSessionResponse_members == <<One("ResponseHeader")>>
ApplicationDescription_members ==
  <<One("String"), One("String"), One("LocalizedText"), One("ApplicationType"), One("String"),
    One("String"), Many("String")>>
ServiceFault_members == <<One("ResponseHeader")>>
FindServersResponse_members == <<One("ResponseHeader"), Many("ApplicationDescription")>>
CreateMonitoredItemsRequest_members ==
  <<One("RequestHeader"), One("UInt32"), One("TimestampsToReturn"),
    Many("MonitoredItemCreateRequest")>>
ContentFilter_members == <<Many("ContentFilterElement")>>
QueryFirstResponse_members ==
  <<One("ResponseHeader"), Many("QueryDataSet"), One("ByteString"), Many("ParsingResult"),
    Many("DiagnosticInfo"), One("ContentFilterResult")>>
AddNodesRequest_members == <<One("RequestHeader"), Many("AddNodesItem")>>
BrowseRequest_members ==
  <<One("RequestHeader"), One("ViewDescription"), One("UInt32"), Many("BrowseDescription")>>
BrowsePath_members == <<One("NodeId"), One("RelativePath")>>
BrowseResult_members == <<One("StatusCode"), One("ByteString"), Many("ReferenceDescription")>>
CreateSessionRequest_members ==
  <<One("RequestHeader"), One("ApplicationDescription"), One("String"), One("String"),
    One("String"), One("ByteString"), One("ByteString"), One("Double"), One("UInt32")>>
QueryDataDescription_members == <<One("RelativePath"), One("UInt32"), One("String")>>
EndpointDescription_members ==
  <<One("String"), One("ApplicationDescription"), One("ByteString"), One("MessageSecurityMode"),
    One("String"), Many("UserTokenPolicy"), One("String"), One("Byte")>>
GetEndpointsResponse_members == <<One("ResponseHeader"), Many("EndpointDescription")>>
NodeTypeDescription_members ==
  <<One("ExpandedNodeId"), One("Boolean"), Many("QueryDataDescription")>>
BrowseNextResponse_members ==
  <<One("ResponseHeader"), Many("BrowseResult"), Many("DiagnosticInfo")>>
TranslateBrowsePathsToNodeIdsRequest_members == <<One("RequestHeader"), Many("BrowsePath")>>
BrowseResponse_members ==
  <<One("ResponseHeader"), Many("BrowseResult"), Many("DiagnosticInfo")>>
CreateSessionResponse_members ==
  <<One("ResponseHeader"), One("NodeId"), One("NodeId"), One("Double"), One("ByteString"),
    One("ByteString"), Many("EndpointDescription"), Many("SignedSoftwareCertificate"),
    One("SignatureData"), One("UInt32")>>
QueryFirstRequest_members ==
  <<One("RequestHeader"), One("ViewDescription"), Many("NodeTypeDescription"),
    One("ContentFilter"), One("UInt32"), One("UInt32")>>
SecureConversationMessageAbortBody_members == <<One("UInt32"), One("String")>>
SecureConversationMessageFooter_members == <<Many("Byte"), One("Byte")>>
TcpHelloMessage_members ==
  <<One("UInt32"), One("UInt32"), One("UInt32"), One("UInt32"), One("UInt32"), One("String")>>
TcpErrorMessage_members == <<One("UInt32"), One("String")>>
AsymmetricAlgorithmSecurityHeader_members ==
  <<One("ByteString"), One("ByteString"), One("ByteString")>>
TcpAcknowledgeMessage_members ==
  <<One("UInt32"), One("UInt32"), One("UInt32"), One("UInt32"), One("UInt32")>>
SequenceHeader_members == <<One("UInt32"), One("UInt32")>>
TcpMessageHeader_members == <<One("UInt32"), One("UInt32")>>
SymmetricAlgorithmSecurityHeader_members == <<One("UInt32")>>
SecureConversationMessageHeader_members == <<One("TcpMessageHeader"), One("UInt32")>>

-----------------------------------------------------------------------------
(* UA_DataType *)

Struct(name, typeId, binaryEncodingId, overlayable, members) ==
  [name |-> name, typeId |-> typeId, binaryEncodingId |-> binaryEncodingId, builtin |-> FALSE,
   memSize |-> 0, overlayable |-> overlayable, members |-> members, codec |-> "structure"]

\* A type with a codec of its own, and what it takes in memory.
Builtin(name, typeId, memSize, overlayable, members) ==
  [name |-> name, typeId |-> typeId, binaryEncodingId |-> 0, builtin |-> TRUE,
   memSize |-> memSize, overlayable |-> overlayable, members |-> members, codec |-> name]

\* An enumeration has the typeIndex of Int32, which is also its only member.
Enum(name, typeId) ==
  [Builtin(name, typeId, 4, TRUE, <<One("Int32")>>) EXCEPT !.codec = "Int32"]

Types_1 == <<
  Builtin("Boolean", 1, 1, TRUE, Boolean_members),
  Builtin("SByte", 2, 1, TRUE, SByte_members),
  Builtin("Byte", 3, 1, TRUE, Byte_members),
  Builtin("Int16", 4, 2, TRUE, Int16_members),
  Builtin("UInt16", 5, 2, TRUE, UInt16_members),
  Builtin("Int32", 6, 4, TRUE, Int32_members),
  Builtin("UInt32", 7, 4, TRUE, UInt32_members),
  Builtin("Int64", 8, 8, TRUE, Int64_members),
  Builtin("UInt64", 9, 8, TRUE, UInt64_members),
  Builtin("Float", 10, 4, TRUE, Float_members)>>
Types_2 == <<
  Builtin("Double", 11, 8, TRUE, Double_members),
  Builtin("String", 12, 16, FALSE, String_members),
  Builtin("DateTime", 13, 8, TRUE, DateTime_members),
  Builtin("Guid", 14, 16, TRUE, Guid_members),
  Builtin("ByteString", 15, 16, FALSE, ByteString_members),
  Builtin("XmlElement", 16, 16, FALSE, XmlElement_members),
  Builtin("NodeId", 17, 24, FALSE, NodeId_members),
  Builtin("ExpandedNodeId", 18, 48, FALSE, ExpandedNodeId_members),
  Builtin("StatusCode", 19, 4, TRUE, StatusCode_members),
  Builtin("QualifiedName", 20, 24, FALSE, QualifiedName_members)>>
Types_3 == <<
  Builtin("LocalizedText", 21, 32, FALSE, LocalizedText_members),
  Builtin("ExtensionObject", 22, 48, FALSE, ExtensionObject_members),
  Builtin("DataValue", 23, 96, FALSE, DataValue_members),
  Builtin("Variant", 24, 48, FALSE, Variant_members),
  Builtin("DiagnosticInfo", 25, 56, FALSE, DiagnosticInfo_members),
  Struct("SignedSoftwareCertificate", 344, 346, FALSE, SignedSoftwareCertificate_members),
  Struct("BrowsePathTarget", 546, 548, FALSE, BrowsePathTarget_members),
  Struct("ViewAttributes", 373, 375, FALSE, ViewAttributes_members),
  Enum("BrowseResultMask", 6),
  Struct("RequestHeader", 389, 391, FALSE, RequestHeader_members)>>
Types_4 == <<
  Struct("MonitoredItemModifyResult", 758, 760, FALSE, MonitoredItemModifyResult_members),
  Struct("CloseSecureChannelRequest", 450, 452, FALSE, CloseSecureChannelRequest_members),
  Struct("AddNodesResult", 483, 485, FALSE, AddNodesResult_members),
  Struct("VariableAttributes", 355, 357, FALSE, VariableAttributes_members),
  Struct("NotificationMessage", 803, 805, FALSE, NotificationMessage_members),
  Enum("NodeAttributesMask", 6),
  Enum("MonitoringMode", 6),
  Struct("CallMethodResult", 707, 709, FALSE, CallMethodResult_members),
  Struct("ParsingResult", 610, 612, FALSE, ParsingResult_members),
  Struct("RelativePathElement", 537, 539, FALSE, RelativePathElement_members)>>
Types_5 == <<
  Enum("BrowseDirection", 6),
  Struct("CallMethodRequest", 704, 706, FALSE, CallMethodRequest_members),
  Struct("UnregisterNodesRequest", 564, 566, FALSE, UnregisterNodesRequest_members),
  Struct("ContentFilterElementResult", 604, 606, FALSE, ContentFilterElementResult_members),
  Struct("QueryDataSet", 577, 579, FALSE, QueryDataSet_members),
  Struct("AnonymousIdentityToken", 319, 321, FALSE, AnonymousIdentityToken_members),
  Struct("SetPublishingModeRequest", 797, 799, FALSE, SetPublishingModeRequest_members),
  Enum("TimestampsToReturn", 6),
  Struct("CallRequest", 710, 712, FALSE, CallRequest_members),
  Struct("MethodAttributes", 358, 360, FALSE, MethodAttributes_members)>>
Types_6 == <<
  Struct("DeleteReferencesItem", 385, 387, FALSE, DeleteReferencesItem_members),
  Struct("WriteValue", 668, 670, FALSE, WriteValue_members),
  Struct("MonitoredItemCreateResult", 746, 748, FALSE, MonitoredItemCreateResult_members),
  Enum("MessageSecurityMode", 6),
  Struct("MonitoringParameters", 740, 742, FALSE, MonitoringParameters_members),
  Struct("SignatureData", 456, 458, FALSE, SignatureData_members),
  Struct("ReferenceNode", 285, 287, FALSE, ReferenceNode_members),
  Struct("Argument", 296, 298, FALSE, Argument_members),
  Struct("UserIdentityToken", 316, 318, FALSE, UserIdentityToken_members),
  Struct("ObjectTypeAttributes", 361, 363, FALSE, ObjectTypeAttributes_members)>>
Types_7 == <<
  Enum("DeadbandType", 6),
  Enum("SecurityTokenRequestType", 6),
  Enum("DataChangeTrigger", 6),
  Struct("BuildInfo", 338, 340, FALSE, BuildInfo_members),
  Enum("NodeClass", 6),
  Struct("ChannelSecurityToken", 441, 443, TRUE, ChannelSecurityToken_members),
  Struct("MonitoredItemNotification", 806, 808, FALSE, MonitoredItemNotification_members),
  Struct("DeleteNodesItem", 382, 384, FALSE, DeleteNodesItem_members),
  Struct("SubscriptionAcknowledgement", 821, 823, TRUE, SubscriptionAcknowledgement_members),
  Struct("ReadValueId", 626, 628, FALSE, ReadValueId_members)>>
Types_8 == <<
  Struct("DataTypeAttributes", 370, 372, FALSE, DataTypeAttributes_members),
  Struct("ResponseHeader", 392, 394, FALSE, ResponseHeader_members),
  Struct("DeleteSubscriptionsRequest", 845, 847, FALSE, DeleteSubscriptionsRequest_members),
  Struct("ViewDescription", 511, 513, FALSE, ViewDescription_members),
  Struct("DeleteMonitoredItemsResponse", 782, 784, FALSE, DeleteMonitoredItemsResponse_members),
  Struct("NodeAttributes", 349, 351, FALSE, NodeAttributes_members),
  Struct("RegisterNodesRequest", 558, 560, FALSE, RegisterNodesRequest_members),
  Struct("DeleteNodesRequest", 498, 500, FALSE, DeleteNodesRequest_members),
  Struct("PublishResponse", 827, 829, FALSE, PublishResponse_members),
  Struct("MonitoredItemModifyRequest", 755, 757, FALSE, MonitoredItemModifyRequest_members)>>
Types_9 == <<
  Struct("UserNameIdentityToken", 322, 324, FALSE, UserNameIdentityToken_members),
  Enum("IdType", 6),
  Enum("UserTokenType", 6),
  Struct("ActivateSessionRequest", 465, 467, FALSE, ActivateSessionRequest_members),
  Struct("OpenSecureChannelResponse", 447, 449, FALSE, OpenSecureChannelResponse_members),
  Enum("ApplicationType", 6),
  Enum("ServerState", 6),
  Struct("QueryNextResponse", 622, 624, FALSE, QueryNextResponse_members),
  Struct("ActivateSessionResponse", 468, 470, FALSE, ActivateSessionResponse_members),
  Enum("FilterOperator", 6)>>
Types_10 == <<
  Struct("QueryNextRequest", 619, 621, FALSE, QueryNextRequest_members),
  Struct("WriteResponse", 674, 676, FALSE, WriteResponse_members),
  Struct("BrowseNextRequest", 531, 533, FALSE, BrowseNextRequest_members),
  Struct("CreateSubscriptionRequest", 785, 787, FALSE, CreateSubscriptionRequest_members),
  Struct("VariableTypeAttributes", 364, 366, FALSE, VariableTypeAttributes_members),
  Struct("BrowsePathResult", 549, 551, FALSE, BrowsePathResult_members),
  Struct("ModifySubscriptionResponse", 794, 796, FALSE, ModifySubscriptionResponse_members),
  Struct("OpenSecureChannelRequest", 444, 446, FALSE, OpenSecureChannelRequest_members),
  Struct("RegisterNodesResponse", 561, 563, FALSE, RegisterNodesResponse_members),
  Struct("CloseSessionRequest", 471, 473, FALSE, CloseSessionRequest_members)>>
Types_11 == <<
  Struct("ModifySubscriptionRequest", 791, 793, FALSE, ModifySubscriptionRequest_members),
  Struct("UserTokenPolicy", 304, 306, FALSE, UserTokenPolicy_members),
  Struct("DeleteMonitoredItemsRequest", 779, 781, FALSE, DeleteMonitoredItemsRequest_members),
  Struct("ReferenceTypeAttributes", 367, 369, FALSE, ReferenceTypeAttributes_members),
  Struct("SetMonitoringModeRequest", 767, 769, FALSE, SetMonitoringModeRequest_members),
  Struct("UnregisterNodesResponse", 567, 569, FALSE, UnregisterNodesResponse_members),
  Struct("WriteRequest", 671, 673, FALSE, WriteRequest_members),
  Struct("ObjectAttributes", 352, 354, FALSE, ObjectAttributes_members),
  Struct("BrowseDescription", 514, 516, FALSE, BrowseDescription_members),
  Struct("RepublishRequest", 830, 832, FALSE, RepublishRequest_members)>>
Types_12 == <<
  Struct("GetEndpointsRequest", 426, 428, FALSE, GetEndpointsRequest_members),
  Struct("PublishRequest", 824, 826, FALSE, PublishRequest_members),
  Struct("AddNodesResponse", 489, 491, FALSE, AddNodesResponse_members),
  Struct("DataChangeNotification", 809, 811, FALSE, DataChangeNotification_members),
  Struct("CloseSecureChannelResponse", 453, 455, FALSE, CloseSecureChannelResponse_members),
  Struct("ModifyMonitoredItemsRequest", 761, 763, FALSE, ModifyMonitoredItemsRequest_members),
  Struct("SetMonitoringModeResponse", 770, 772, FALSE, SetMonitoringModeResponse_members),
  Struct("FindServersRequest", 420, 422, FALSE, FindServersRequest_members),
  Struct("ReferenceDescription", 518, 520, FALSE, ReferenceDescription_members),
  Struct("SetPublishingModeResponse", 800, 802, FALSE, SetPublishingModeResponse_members)>>
Types_13 == <<
  Struct("ContentFilterResult", 607, 609, FALSE, ContentFilterResult_members),
  Struct("AddReferencesItem", 379, 381, FALSE, AddReferencesItem_members),
  Struct("CreateSubscriptionResponse", 788, 790, FALSE, CreateSubscriptionResponse_members),
  Struct("DeleteSubscriptionsResponse", 848, 850, FALSE, DeleteSubscriptionsResponse_members),
  Struct("RelativePath", 540, 542, FALSE, RelativePath_members),
  Struct("DeleteReferencesResponse", 507, 509, FALSE, DeleteReferencesResponse_members),
  Struct("CreateMonitoredItemsResponse", 752, 754, FALSE, CreateMonitoredItemsResponse_members),
  Struct("CallResponse", 713, 715, FALSE, CallResponse_members),
  Struct("DeleteNodesResponse", 501, 503, FALSE, DeleteNodesResponse_members),
  Struct("RepublishResponse", 833, 835, FALSE, RepublishResponse_members)>>
Types_14 == <<
  Struct("MonitoredItemCreateRequest", 743, 745, FALSE, MonitoredItemCreateRequest_members),
  Struct("DeleteReferencesRequest", 504, 506, FALSE, DeleteReferencesRequest_members),
  Struct("ModifyMonitoredItemsResponse", 764, 766, FALSE, ModifyMonitoredItemsResponse_members),
  Struct("ReadResponse", 632, 634, FALSE, ReadResponse_members),
  Struct("AddReferencesRequest", 492, 494, FALSE, AddReferencesRequest_members),
  Struct("ReadRequest", 629, 631, FALSE, ReadRequest_members),
  Struct("AddNodesItem", 376, 378, FALSE, AddNodesItem_members),
  Struct("ServerStatusDataType", 862, 864, FALSE, ServerStatusDataType_members),
  Struct("AddReferencesResponse", 495, 497, FALSE, AddReferencesResponse_members),
  Struct("TranslateBrowsePathsToNodeIdsResponse", 555, 557, FALSE,
    TranslateBrowsePathsToNodeIdsResponse_members)>>
Types_15 == <<
  Struct("DataChangeFilter", 722, 724, TRUE, DataChangeFilter_members),
  Struct("ContentFilterElement", 583, 585, FALSE, ContentFilterElement_members),
  Struct("CloseSessionResponse", 474, 476, FALSE, CloseSessionResponse_members),
  Struct("ApplicationDescription", 308, 310, FALSE, ApplicationDescription_members),
  Struct("ServiceFault", 395, 397, FALSE, ServiceFault_members),
  Struct("FindServersResponse", 423, 425, FALSE, FindServersResponse_members),
  Struct("CreateMonitoredItemsRequest", 749, 751, FALSE, CreateMonitoredItemsRequest_members),
  Struct("ContentFilter", 586, 588, FALSE, ContentFilter_members),
  Struct("QueryFirstResponse", 616, 618, FALSE, QueryFirstResponse_members),
  Struct("AddNodesRequest", 486, 488, FALSE, AddNodesRequest_members)>>
Types_16 == <<
  Struct("BrowseRequest", 525, 527, FALSE, BrowseRequest_members),
  Struct("BrowsePath", 543, 545, FALSE, BrowsePath_members),
  Struct("BrowseResult", 522, 524, FALSE, BrowseResult_members),
  Struct("CreateSessionRequest", 459, 461, FALSE, CreateSessionRequest_members),
  Struct("QueryDataDescription", 570, 572, FALSE, QueryDataDescription_members),
  Struct("EndpointDescription", 312, 314, FALSE, EndpointDescription_members),
  Struct("GetEndpointsResponse", 429, 431, FALSE, GetEndpointsResponse_members),
  Struct("NodeTypeDescription", 573, 575, FALSE, NodeTypeDescription_members),
  Struct("BrowseNextResponse", 534, 536, FALSE, BrowseNextResponse_members),
  Struct("TranslateBrowsePathsToNodeIdsRequest", 552, 554, FALSE,
    TranslateBrowsePathsToNodeIdsRequest_members)>>
Types_17 == <<
  Struct("BrowseResponse", 528, 530, FALSE, BrowseResponse_members),
  Struct("CreateSessionResponse", 462, 464, FALSE, CreateSessionResponse_members),
  Struct("QueryFirstRequest", 613, 615, FALSE, QueryFirstRequest_members)>>
Types_18 == <<
  Struct("SecureConversationMessageAbortBody", 0, 0, FALSE,
    SecureConversationMessageAbortBody_members),
  Struct("SecureConversationMessageFooter", 0, 0, FALSE, SecureConversationMessageFooter_members),
  Struct("TcpHelloMessage", 0, 0, FALSE, TcpHelloMessage_members),
  Struct("TcpErrorMessage", 0, 0, FALSE, TcpErrorMessage_members),
  Enum("MessageType", 0),
  Struct("AsymmetricAlgorithmSecurityHeader", 0, 0, FALSE,
    AsymmetricAlgorithmSecurityHeader_members),
  Struct("TcpAcknowledgeMessage", 0, 0, TRUE, TcpAcknowledgeMessage_members),
  Struct("SequenceHeader", 0, 0, TRUE, SequenceHeader_members),
  Struct("TcpMessageHeader", 0, 0, TRUE, TcpMessageHeader_members),
  Enum("ChunkType", 0)>>
Types_19 == <<
  Struct("SymmetricAlgorithmSecurityHeader", 0, 0, TRUE,
    SymmetricAlgorithmSecurityHeader_members),
  Struct("SecureConversationMessageHeader", 0, 0, TRUE, SecureConversationMessageHeader_members)>>

UA_TYPES ==
  Types_1 \o Types_2 \o Types_3 \o Types_4 \o Types_5 \o Types_6 \o Types_7 \o Types_8 \o Types_9 \o
  Types_10 \o Types_11 \o Types_12 \o Types_13 \o Types_14 \o Types_15 \o Types_16 \o Types_17

UA_TRANSPORT == Types_18 \o Types_19

TypeNames == {row.name : row \in ToSet(UA_TYPES \o UA_TRANSPORT)}

TypeOf ==
  [name \in TypeNames |->
     Head(SelectSeq(UA_TYPES \o UA_TRANSPORT, LAMBDA row : row.name = name))]

-----------------------------------------------------------------------------
(* How values lie in memory: memSize, and the paddings of the members *)

AlignOf(row) ==
  CASE row.name = "Guid" -> 4
    [] row.builtin /\ row.memSize <= 8 -> row.memSize
    [] OTHER -> 8

Aligned(n, align) == ((n + align - 1) \div align) * align

\* A member that is laid out as l, placed after sofar at this offset.
Placed(sofar, l, at) ==
  [end |-> at + Aligned(l.end, l.align), align |-> Max({sofar.align, l.align}),
   packed |-> sofar.packed /\ l.packed /\ at = sofar.end]

After(sofar, l) == Placed(sofar, l, Aligned(sofar.end, l.align))

\* end: of the last member; align: of the largest; packed: nothing lies between members.
\* An array is a length and a pointer.
LayoutOf(row, layout) ==
  IF row.builtin THEN [end |-> row.memSize, align |-> AlignOf(row), packed |-> TRUE]
  ELSE FoldLeft(LAMBDA sofar, m :
                  After(sofar, IF m.isArray THEN [end |-> 16, align |-> 8, packed |-> FALSE]
                               ELSE layout[m.type]),
                [end |-> 0, align |-> 1, packed |-> TRUE], row.members)

Layout[type \in TypeNames] == LayoutOf(TypeOf[type], Layout)

Size(l) == Aligned(l.end, l.align)

MemSize == [name \in TypeNames |-> Size(Layout[name])]

\* Arrays of the type are copied as they lie in memory.
Overlayable == [name \in TypeNames |-> TypeOf[name].overlayable /\ Layout[name].packed]
=============================================================================
