-------------------------------- MODULE Codec --------------------------------
(***************************************************************************)
(* The binary encoding of values, along the descriptions of DataTypes:     *)
(* into a buffer that is sent as a chunk and exchanged whenever it is full *)
(* (open62541.c 5866-5905, 6239-7160), back again (6339-7230), and the     *)
(* size it takes, which is computed apart (7232-7480).                     *)
(*                                                                         *)
(* What the functions for a type write is laid out first, as a tree that   *)
(* says how they go on when a part does not fit; Write then is their run   *)
(* over a buffer.  Copying and freeing values is left out.                 *)
(***************************************************************************)
EXTENDS Values, Integers, Sequences, FiniteSets, SequencesExt

CONSTANTS
  UA_TYPES,  \* the descriptions of types, in their order
  TypeOf,    \* name -> description
  MemSize, Overlayable, \* name -> how values lie in memory (see DataTypes)
  Samples,   \* style -> builtin type -> a value of it
  Sparse,    \* the styles of which arrays have elements of hardly a byte
  Arrays,    \* style -> the styles of the elements of an array, <<"NULL">> for an absent one
  Messages,  \* the types of messages
  Rooms,     \* what fits into a buffer (bound)
  MaxChunks, \* after which the remote side takes no more (bound)
  Stride     \* every such position is one at which a message is cut off (bound)

VARIABLES
  message,   \* the message: its type and the style of its value; NoMessage before
  room,      \* the length of the buffer
  written,   \* what was written
  chunks,    \* in chunks of these lengths
  status,    \* the result of encoding: {} if good
  decoded    \* what a part of the bytes is decoded to; Nothing before

codecVars == <<message, room, written, chunks, status, decoded>>

NoMessage == [type |-> "none", style |-> "none"]
NoValue == [ok |-> FALSE, at |-> 0, val |-> <<>>, why |-> "none"]
Nothing == [length |-> 0, value |-> NoValue]

\* An Int32 from its bytes; what is negative is taken for -1.
Number(b) ==
  IF b[4] >= 128 THEN -1 ELSE b[1] + 256 * b[2] + 65536 * b[3] + 16777216 * b[4]

Flag(present, bit) == IF present THEN bit ELSE 0
Set(option) == option # <<>>

-----------------------------------------------------------------------------
(* UA_calcSizeBinary *)

RECURSIVE SizeOf(_, _), Total(_)

Total(numbers) == IF numbers = <<>> THEN 0 ELSE Head(numbers) + Total(Tail(numbers))

ArraySize(type, array) ==
  4 + IF Overlayable[type] THEN MemSize[type] * Len(array.items)
      ELSE Total([k \in DOMAIN array.items |-> SizeOf(type, array.items[k])])

StringSize(string) == 4 + Len(string.items)

NodeIdSize(v) ==
  CASE v.type = 0 -> 1 + (IF v.id > 65535 \/ v.ns > 255 THEN 6
                          ELSE IF v.id > 255 \/ v.ns > 0 THEN 3 ELSE 1)
    [] v.type = 4 -> 19
    [] OTHER -> 3 + StringSize(v.id)

\* The id of the type is measured, and that of its encoding will be written.
ContentSize(type, data) == 5 + NodeIdSize(Numeric(0, TypeOf[type].typeId)) + SizeOf(type, data)

\* A structure is wrapped into an ExtensionObject.
ElementSize(type, e) ==
  IF TypeOf[type].builtin THEN SizeOf(type, e) ELSE ContentSize(type, e)

Elements(variant) == IF variant.isArray THEN variant.data.items ELSE <<variant.data>>

VariantSize(v) ==
  IF v.type = "none" THEN 1
  ELSE 1 + Flag(v.isArray, 4)
         + Total([k \in DOMAIN Elements(v) |-> ElementSize(v.type, Elements(v)[k])])
         + (IF v.isArray /\ v.dims.items # <<>> THEN ArraySize("Int32", v.dims) ELSE 0)

\* The fields that are there, after the mask.
OptionsSize(types, options) ==
  1 + Total([k \in DOMAIN options |->
                     IF Set(options[k]) THEN SizeOf(types[k], options[k][1]) ELSE 0])

DataValueFields ==
  <<"Variant", "StatusCode", "DateTime", "UInt16", "DateTime", "UInt16">>
DiagnosticInfoFields ==
  <<"Int32", "Int32", "Int32", "Int32", "String", "StatusCode", "DiagnosticInfo">>

MembersSize(members, value) ==
  Total([k \in DOMAIN members |->
                 IF members[k].isArray THEN ArraySize(members[k].type, value[k])
                 ELSE SizeOf(members[k].type, value[k])])

SizeBy(codec, type, v) ==
  CASE codec \in {"String", "ByteString", "XmlElement"} -> StringSize(v)
    [] codec = "Guid" -> 16
    [] codec = "NodeId" -> NodeIdSize(v)
    [] codec = "ExpandedNodeId" ->
         NodeIdSize(v.nodeId) + Flag(v.uri.items # <<>>, StringSize(v.uri)) + Flag(v.server > 0, 4)
    [] codec = "LocalizedText" -> OptionsSize(<<"String", "String">>,
         [k \in 1 .. 2 |-> IF v[k].null THEN <<>> ELSE <<v[k]>>])
    [] codec = "ExtensionObject" ->
         IF v.encoding = 3 THEN ContentSize(v.type, v.data)
         ELSE 1 + NodeIdSize(v.typeId) + Flag(v.encoding # 0, StringSize(v.body))
    [] codec = "DataValue" -> OptionsSize(DataValueFields, v)
    [] codec = "Variant" -> VariantSize(v)
    [] codec = "DiagnosticInfo" -> OptionsSize(DiagnosticInfoFields, v)
    [] codec \in {"structure", "QualifiedName"} -> MembersSize(TypeOf[type].members, v)
    [] OTHER -> TypeOf[type].memSize

SizeOf(type, v) == SizeBy(TypeOf[type].codec, type, v)

-----------------------------------------------------------------------------
(* What is written for a value *)

Put(bytes) == [kind |-> "bytes", bytes |-> bytes]

\* Every part is written, and the results are combined (retval |= ...).
All(parts) == [kind |-> "all", parts |-> parts]

\* Parts up to the first that fails.
Until(parts) == [kind |-> "until", parts |-> parts]

\* Parts up to the first that fails; where retried, one that does not fit is tried again
\* in a new buffer.
Members(parts, retried) == [kind |-> "members", parts |-> parts, retried |-> retried]
Each(parts) == Members(parts, [k \in DOMAIN parts |-> TRUE])

\* Bytes that may be split between elements of this size.
Block(bytes, size) == [kind |-> "block", bytes |-> bytes, size |-> size]

Nil == Put(<<>>)
When(present, part) == IF present THEN part ELSE Nil

RECURSIVE Flat(_), Plan(_, _)

\* The bytes as they would be without an end of the buffer.
Flat(plan) ==
  IF plan.kind \in {"bytes", "block"} THEN plan.bytes
  ELSE FlattenSeq([k \in DOMAIN plan.parts |-> Flat(plan.parts[k])])

Padded(bytes, size) == [k \in 1 .. size |-> IF k <= Len(bytes) THEN bytes[k] ELSE 0]

\* A value as it lies in memory.
Image(type, value) == Padded(Flat(Plan(type, value)), MemSize[type])

Images(type, items, size) ==
  [k \in 1 .. size * Len(items) |-> Image(type, items[(k - 1) \div size + 1])[((k - 1) % size) + 1]]

ArrayPlan(type, array) ==
  Until(<<Put(IF array.null THEN <<255, 255, 255, 255>> ELSE Bytes(Len(array.items), 4)),
          IF Overlayable[type]
          THEN Block(Images(type, array.items, MemSize[type]), MemSize[type])
          ELSE Each([k \in DOMAIN array.items |-> Plan(type, array.items[k])])>>)

StringPlan(string) == ArrayPlan("Byte", string)

GuidPlan(v) == All([k \in 1 .. 4 |-> Put(v[k])])

\* The mask may hold flags of an ExpandedNodeId.
NodeIdPlan(v, mask) ==
  CASE v.type = 0 /\ (v.id > 65535 \/ v.ns > 255) ->
         All(<<Put(<<mask + 2>>), Put(Bytes(v.ns, 2)), Put(Bytes(v.id, 4))>>)
    [] v.type = 0 /\ v.id <= 65535 /\ v.ns <= 255 /\ (v.id > 255 \/ v.ns > 0) ->
         All(<<Put(<<mask + 1>>), Put(<<v.ns>>), Put(Bytes(v.id, 2))>>)
    [] v.type = 0 /\ v.id <= 255 /\ v.ns = 0 -> All(<<Put(<<mask>>), Put(<<v.id>>)>>)
    [] v.type # 0 ->
         All(<<Put(<<mask + v.type>>), Put(Bytes(v.ns, 2)),
               IF v.type = 4 THEN GuidPlan(v.id) ELSE StringPlan(v.id)>>)

ExpandedNodeIdPlan(v) ==
  All(<<NodeIdPlan(v.nodeId, Flag(v.uri.items # <<>>, 128) + Flag(v.server > 0, 64)),
        When(v.uri.items # <<>>, StringPlan(v.uri)),
        When(v.server > 0, Put(Bytes(v.server, 4)))>>)

LocalizedTextPlan(v) ==
  All(<<Put(<<Flag(~v[1].null, 1) + Flag(~v[2].null, 2)>>),
        When(~v[1].null, StringPlan(v[1])), When(~v[2].null, StringPlan(v[2]))>>)

ContentPlan(type, data) ==
  All(<<NodeIdPlan(Numeric(0, TypeOf[type].binaryEncodingId), 0), Put(<<1>>),
        Put(Bytes(SizeOf(type, data), 4)), Plan(type, data)>>)

ExtensionObjectPlan(v) ==
  IF v.encoding = 3 THEN ContentPlan(v.type, v.data)
  ELSE All(<<NodeIdPlan(v.typeId, 0), Put(<<v.encoding>>), When(v.encoding # 0, StringPlan(v.body))>>)

WrappedPlan(v) ==
  Until(<<When(v.isArray, Put(Bytes(Len(Elements(v)), 4))),
          Each([k \in DOMAIN Elements(v) |-> ContentPlan(v.type, Elements(v)[k])])>>)

VariantOf(v, row, hasDims) ==
  All(<<Put(<<(IF row.builtin THEN row.typeId ELSE TypeOf["ExtensionObject"].typeId)
              + Flag(v.isArray, 128) + Flag(hasDims, 64)>>),
        IF ~row.builtin THEN WrappedPlan(v)
        ELSE IF v.isArray THEN ArrayPlan(v.type, v.data) ELSE Plan(v.type, v.data),
        When(hasDims, ArrayPlan("Int32", v.dims))>>)

VariantPlan(v) ==
  IF v.type = "none" THEN Put(<<0>>)
  ELSE VariantOf(v, TypeOf[v.type], v.isArray /\ v.dims.items # <<>>)

OptionsPlan(types, bits, options) ==
  All(<<Put(<<Total([k \in DOMAIN options |-> Flag(Set(options[k]), bits[k])])>>)>>
      \o [k \in DOMAIN options |-> IF Set(options[k]) THEN Plan(types[k], options[k][1]) ELSE Nil])

MembersPlan(members, value) ==
  Members([k \in DOMAIN members |->
             IF members[k].isArray THEN ArrayPlan(members[k].type, value[k])
             ELSE Plan(members[k].type, value[k])],
          [k \in DOMAIN members |-> ~members[k].isArray])

\* encodeBinaryJumpTable
PlanBy(codec, type, v) ==
  CASE codec \in {"String", "ByteString", "XmlElement"} -> StringPlan(v)
    [] codec = "Guid" -> GuidPlan(v)
    [] codec = "NodeId" -> NodeIdPlan(v, 0)
    [] codec = "ExpandedNodeId" -> ExpandedNodeIdPlan(v)
    [] codec = "LocalizedText" -> LocalizedTextPlan(v)
    [] codec = "ExtensionObject" -> ExtensionObjectPlan(v)
    [] codec = "DataValue" -> OptionsPlan(DataValueFields, <<1, 2, 4, 16, 8, 32>>, v)
    [] codec = "Variant" -> VariantPlan(v)
    [] codec = "DiagnosticInfo" -> OptionsPlan(DiagnosticInfoFields, <<1, 2, 4, 8, 16, 0, 32>>, v)
    [] codec \in {"structure", "QualifiedName"} -> MembersPlan(TypeOf[type].members, v)
    [] OTHER -> Put(v)

Plan(type, v) == PlanBy(TypeOf[type].codec, type, v)

-----------------------------------------------------------------------------
(* Writing into the buffer: what it holds, what was written, the result *)

Full(e, bytes, limit) == Len(e.buf) + Len(bytes) > limit

Limits == "BADENCODINGLIMITSEXCEEDED"

\* exchangeBuffer: what lies before pos is sent.
Exchange(e) ==
  IF Len(e.chunks) = MaxChunks THEN [e EXCEPT !.result = {"BADRESPONSETOOLARGE"}]
  ELSE [written |-> e.written \o e.buf, chunks |-> Append(e.chunks, Len(e.buf)), buf |-> <<>>, result |-> {}]

\* Mutant: what was written of the part stays.
BackTo_KeepsPart(e, before) ==
  IF e.chunks # before.chunks THEN [e EXCEPT !.result = {"undefined"}] ELSE Exchange(e)

\* Back to pos before the part that did not fit, and exchange.  If the part had had the
\* buffer exchanged, that pos lies in the one that is gone.
BackTo(e, before) ==
  IF e.chunks # before.chunks THEN [e EXCEPT !.result = {"undefined"}]
  ELSE Exchange([e EXCEPT !.buf = before.buf])

RECURSIVE Write(_, _, _), WriteBlock(_, _, _, _), WriteElement(_, _, _), WriteParts(_, _, _, _)

\* What is left when so much of it has been sent.
WriteRest(e, bytes, size, limit) ==
  IF e.result # {} THEN e ELSE WriteBlock(e, bytes, size, limit)

WriteAfter(e, bytes, size, limit, possible) ==
  WriteRest(Exchange([e EXCEPT !.buf = @ \o SubSeq(bytes, 1, possible)]),
            SubSeq(bytes, possible + 1, Len(bytes)), size, limit)

WriteBlock(e, bytes, size, limit) ==
  IF ~Full(e, bytes, limit) THEN [e EXCEPT !.buf = @ \o bytes, !.result = {}]
  ELSE WriteAfter(e, bytes, size, limit, ((limit - Len(e.buf)) \div size) * size)

WriteAgain(e, plan, limit) == IF e.result # {} THEN e ELSE WriteElement(e, plan, limit)

\* retval == BADENCODINGLIMITSEXCEEDED, and nothing besides.
RetriedWrite(e, before, plan, limit) ==
  IF e.result # {Limits} THEN e ELSE WriteAgain(BackTo(e, before), plan, limit)

WriteElement(e, plan, limit) == RetriedWrite(Write(e, plan, limit), e, plan, limit)

Combined(e, result) == [e EXCEPT !.result = @ \cup result]

Retried(plan, k) == plan.kind = "members" /\ plan.retried[k]

WritePart(e, plan, k, limit) ==
  IF Retried(plan, k) THEN WriteElement(e, plan.parts[k], limit)
  ELSE Write(e, plan.parts[k], limit)

\* The parts from the k-th on
WriteParts(e, plan, k, limit) ==
  IF k > Len(plan.parts) \/ (plan.kind # "all" /\ e.result # {}) THEN e
  ELSE WriteParts(Combined(WritePart(e, plan, k, limit), e.result), plan, k + 1, limit)

Write(e, plan, limit) ==
  CASE plan.kind = "bytes" ->
         IF Full(e, plan.bytes, limit) THEN [e EXCEPT !.result = {Limits}]
         ELSE [e EXCEPT !.buf = @ \o plan.bytes, !.result = {}]
    [] plan.kind = "block" -> WriteBlock(e, plan.bytes, plan.size, limit)
    [] OTHER -> WriteParts([e EXCEPT !.result = {}], plan, 1, limit)

\* UA_encodeBinaryInternal for the whole; the last buffer is sent when all is written.
TopMembers(type, value) ==
  MembersPlan(TypeOf[type].members,
              IF TypeOf[type].codec \in {"structure", "QualifiedName"} THEN value ELSE <<value>>)

Encode(type, value, limit) ==
  Write([buf |-> <<>>, written |-> <<>>, chunks |-> <<>>, result |-> {}], TopMembers(type, value), limit)

-----------------------------------------------------------------------------
(* Reading.  What fails makes the whole fail, so that nothing is read after it. *)

Read(val, at) == [ok |-> TRUE, at |-> at, val |-> val, why |-> "none"]
Refuse(why) == [NoValue EXCEPT !.why = why]

ReadBytes(in, at, n) ==
  IF at + n > Len(in) THEN Refuse("end") ELSE Read(SubSeq(in, at + 1, at + n), at + n)

RECURSIVE ReadValue(_, _, _), ReadFrom(_, _, _)

Appended(d, r) == IF r.ok THEN [r EXCEPT !.val = Append(d.val, r.val)] ELSE r

\* With ext so many bytes the elements take in memory, filtered if they would take 32 times
\* less at least.
ReadItems(in, at, type, n, ext) ==
  IF at + ext \div 32 > Len(in) THEN Refuse("filter")
  ELSE IF Overlayable[type]
  THEN IF at + ext > Len(in) THEN Refuse("end")
       ELSE Read([k \in 1 .. n |-> ReadValue(in, at + (k - 1) * MemSize[type], type).val], at + ext)
  ELSE ReadFrom(in, Read(<<>>, at), [k \in 1 .. n |-> One(type)])

AsArray(d) == IF d.ok THEN [d EXCEPT !.val = ArrayOf(@)] ELSE d

ReadCounted(in, at, type, n) ==
  IF n <= 0 THEN Read([null |-> n < 0, items |-> <<>>], at)
  ELSE AsArray(ReadItems(in, at, type, n, MemSize[type] * n))

\* length: its four bytes.
ReadRest(in, length, type) ==
  IF length.ok THEN ReadCounted(in, length.at, type, Number(length.val)) ELSE length

ReadArray(in, at, type) == ReadRest(in, ReadBytes(in, at, 4), type)

ReadMember(in, at, m) == IF m.isArray THEN ReadArray(in, at, m.type) ELSE ReadValue(in, at, m.type)

\* d: what was read for the members before.
ReadFrom(in, d, members) ==
  IF ~d.ok \/ members = <<>> THEN d
  ELSE ReadFrom(in, Appended(d, ReadMember(in, d.at, Head(members))), Tail(members))

ReadMembers(in, at, members) == ReadFrom(in, Read(<<>>, at), members)

\* Fields as sequences of one, or of none where they are absent.
Spread(d, present) ==
  IF ~d.ok THEN d
  ELSE [d EXCEPT !.val = [k \in DOMAIN present |->
          IF present[k] THEN <<@[Cardinality({j \in 1 .. k : present[j]})]>> ELSE <<>>]]

ReadOptions(in, at, types, present) ==
  Spread(ReadMembers(in, at, FlattenSeq([k \in DOMAIN types |->
                                           IF present[k] THEN <<One(types[k])>> ELSE <<>>])), present)

Has(mask, bit) == (mask \div bit) % 2 = 1

\* d read all the fields of a NodeId after its mask.
WithNodeId(d, type) ==
  IF ~d.ok THEN d
  ELSE [d EXCEPT !.val =
          CASE type = 0 -> Numeric(0, d.val[1][1])
            [] type = 1 -> Numeric(d.val[1][1], d.val[2][1] + 256 * d.val[2][2])
            [] type = 2 -> Numeric(d.val[1][1] + 256 * d.val[1][2], Number(d.val[2]))
            [] type \in 3 .. 5 -> [type |-> type, ns |-> d.val[1][1] + 256 * d.val[1][2], id |-> d.val[2]]]

NodeIdFields(type) ==
  CASE type = 0 -> <<One("Byte")>>
    [] type = 1 -> <<One("Byte"), One("UInt16")>>
    [] type = 2 -> <<One("UInt16"), One("UInt32")>>
    [] type = 3 -> <<One("UInt16"), One("String")>>
    [] type = 4 -> <<One("UInt16"), One("Guid")>>
    [] type = 5 -> <<One("UInt16"), One("ByteString")>>

ReadNodeId(in, at, type) ==
  IF type \notin 0 .. 5 THEN Refuse("mask")
  ELSE WithNodeId(ReadMembers(in, at, NodeIdFields(type)), type)

\* With the namespace's URI there is no index of it.
WithUri(node, rest, uri, server) ==
  IF ~node.ok \/ ~rest.ok THEN Refuse("end")
  ELSE Read([nodeId |-> IF uri THEN [node.val EXCEPT !.ns = 0] ELSE node.val,
             uri |-> IF uri THEN rest.val[1][1] ELSE NullArray,
             server |-> IF server THEN Number(rest.val[2][1]) ELSE 0], rest.at)

ReadUri(in, node, uri, server) ==
  WithUri(node, ReadOptions(in, node.at, <<"String", "UInt32">>, <<uri, server>>), uri, server)

\* Mutant: the flag of the server's index is left in the mask of the NodeId.
ReadExpandedNodeId_UriFlagOnly(in, at, mask) ==
  ReadUri(in, ReadNodeId(in, at + 1, mask % 128), Has(mask, 128), Has(mask, 64))

ReadExpandedNodeId(in, at, mask) ==
  ReadUri(in, ReadNodeId(in, at + 1, mask % 64), Has(mask, 128), Has(mask, 64))

AsTexts(d) ==
  IF d.ok THEN [d EXCEPT !.val = [k \in 1 .. 2 |-> IF @[k] = <<>> THEN NullArray ELSE @[k][1]]] ELSE d

ReadLocalizedText(in, at, mask) ==
  AsTexts(ReadOptions(in, at + 1, <<"String", "String">>, <<Has(mask, 1), Has(mask, 2)>>))

\* findDataTypeByBinary: the first type with this id, whatever the namespace.
FoundTypes(id) == {k \in DOMAIN UA_TYPES : UA_TYPES[k].binaryEncodingId = id}

\* The length of the content is passed over, without a look at the end.
ReadContent(in, at, type) == ReadValue(in, at + 4, type)

AsEncoded(d, encoding, typeId) ==
  IF d.ok THEN [d EXCEPT !.val = Encoded(encoding, typeId, @)] ELSE d
AsDecoded(d, type) == IF d.ok THEN [d EXCEPT !.val = Decoded(type, @)] ELSE d
AsScalar(d, type) == IF d.ok THEN [d EXCEPT !.val = Scalar(type, @)] ELSE d

ReadBody(in, at, encoding, typeId) ==
  AsEncoded(IF encoding = 0 THEN Read(NullArray, at) ELSE ReadValue(in, at, "ByteString"),
            encoding, typeId)

ReadBinary(in, at, typeId, found) ==
  IF found = {} THEN ReadBody(in, at, 1, typeId)
  ELSE AsDecoded(ReadContent(in, at, UA_TYPES[Min(found)].name), UA_TYPES[Min(found)].name)

\* header: <<the id of the type, the encoding>>
ReadExtensionObject(in, header) ==
  IF ~header.ok THEN header
  ELSE IF header.val[1].type # 0 \/ header.val[2][1] > 2 THEN Refuse("mask")
  ELSE IF header.val[2][1] = 1
  THEN ReadBinary(in, header.at, header.val[1], FoundTypes(header.val[1].id))
  ELSE ReadBody(in, header.at, header.val[2][1], header.val[1])

ReadFound(in, at, header, found) ==
  IF found = {} THEN AsScalar(ReadValue(in, at, "ExtensionObject"), "ExtensionObject")
  ELSE AsScalar(ReadContent(in, header.at, UA_TYPES[Min(found)].name), UA_TYPES[Min(found)].name)

\* A structure of namespace 0 comes out of its ExtensionObject.
ReadWrapped(in, at, header) ==
  IF ~header.ok THEN header
  ELSE ReadFound(in, at, header,
         IF header.val[2] = <<1>> /\ header.val[1].type = 0 /\ header.val[1].ns = 0
         THEN FoundTypes(header.val[1].id) ELSE {})

Header(in, at) == ReadMembers(in, at, <<One("NodeId"), One("Byte")>>)

AsVariant(type, data, dims) ==
  IF ~dims.ok THEN dims
  ELSE Read([type |-> type, isArray |-> TRUE, data |-> data, dims |-> dims.val], dims.at)

ReadDimensions(in, d, mask, type) ==
  IF ~d.ok THEN d
  ELSE AsVariant(type, d.val,
                 IF Has(mask, 64) THEN ReadArray(in, d.at, "Int32") ELSE Read(NullArray, d.at))

ReadVariantOf(in, at, mask, type) ==
  IF Has(mask, 128) THEN ReadDimensions(in, ReadArray(in, at, type), mask, type)
  ELSE IF type = "ExtensionObject" THEN ReadWrapped(in, at, Header(in, at))
  ELSE AsScalar(ReadValue(in, at, type), type)

\* The builtin types lie at the indices that the mask can name.
ReadVariant(in, at, mask) ==
  IF mask = 0 THEN Read(NoVariant, at + 1)
  ELSE IF mask % 64 \notin 1 .. 25 THEN Refuse("mask")
  ELSE ReadVariantOf(in, at + 1, mask, UA_TYPES[mask % 64].name)

\* Picoseconds are at most 9999.
Clipped(option) ==
  IF Set(option) /\ option[1][1] + 256 * option[1][2] > 9999 THEN <<Bytes(9999, 2)>> ELSE option

AsDataValue(d) ==
  IF d.ok THEN [d EXCEPT !.val[4] = Clipped(@), !.val[6] = Clipped(@)] ELSE d

Present(mask, bits) == [k \in DOMAIN bits |-> Has(mask, bits[k])]

ReadDataValue(in, at, mask) ==
  AsDataValue(ReadOptions(in, at + 1, DataValueFields, Present(mask, <<1, 2, 4, 16, 8, 32>>)))

ReadDiagnosticInfo(in, at, mask) ==
  ReadOptions(in, at + 1, DiagnosticInfoFields, Present(mask, <<1, 2, 4, 8, 16, 32, 64>>))

\* decodeBinaryJumpTable, for the types that begin with a mask
ReadMasked(in, at, codec, mask) ==
  CASE codec = "NodeId" -> ReadNodeId(in, at + 1, mask)
    [] codec = "ExpandedNodeId" -> ReadExpandedNodeId(in, at, mask)
    [] codec = "LocalizedText" -> ReadLocalizedText(in, at, mask)
    [] codec = "DataValue" -> ReadDataValue(in, at, mask)
    [] codec = "Variant" -> ReadVariant(in, at, mask)
    [] codec = "DiagnosticInfo" -> ReadDiagnosticInfo(in, at, mask)

AsBoolean(d) == IF d.ok THEN [d EXCEPT !.val[1] = Flag(@ > 0, 1)] ELSE d

Masked == {"NodeId", "ExpandedNodeId", "LocalizedText", "DataValue", "Variant", "DiagnosticInfo"}

ReadAs(row, in, at) ==
  CASE row.codec \in {"String", "ByteString", "XmlElement"} -> ReadArray(in, at, "Byte")
    [] row.codec = "Guid" -> ReadMembers(in, at, <<One("UInt32"), One("UInt16"), One("UInt16"), One("UInt64")>>)
    [] row.codec \in Masked ->
         IF at >= Len(in) THEN Refuse("end") ELSE ReadMasked(in, at, row.codec, in[at + 1])
    [] row.codec = "ExtensionObject" -> ReadExtensionObject(in, Header(in, at))
    [] row.codec = "Boolean" -> AsBoolean(ReadBytes(in, at, 1))
    [] row.codec \in {"structure", "QualifiedName"} -> ReadMembers(in, at, row.members)
    [] OTHER -> ReadBytes(in, at, row.memSize)

ReadValue(in, at, type) == ReadAs(TypeOf[type], in, at)

TopValue(d, codec) ==
  IF d.ok /\ codec \notin {"structure", "QualifiedName"} THEN [d EXCEPT !.val = Head(@)] ELSE d

Decode(in, type) == TopValue(ReadMembers(in, 0, TypeOf[type].members), TypeOf[type].codec)

-----------------------------------------------------------------------------
(* Messages *)

RECURSIVE Sample(_, _, _)

SampleArray(type, style, values) ==
  IF Arrays[style] = <<"NULL">> THEN NullArray
  ELSE ArrayOf([k \in DOMAIN Arrays[style] |-> Sample(type, Arrays[style][k], values)])

SampleMember(m, style, values) ==
  IF m.isArray THEN SampleArray(m.type, style, values) ELSE Sample(m.type, style, values)

\* A value of the type, made of the builtin values given for the styles.
Sample(type, style, values) ==
  IF TypeOf[type].codec # "structure" THEN values[style][TypeOf[type].codec]
  ELSE [k \in DOMAIN TypeOf[type].members |-> SampleMember(TypeOf[type].members[k], style, values)]

CodecInit ==
  /\ message = NoMessage /\ room = 0
  /\ written = <<>> /\ chunks = <<>> /\ status = {"none"} /\ decoded = Nothing

EncodeBinary == \E type \in Messages, style \in DOMAIN Samples, limit \in Rooms :
  /\ message = NoMessage
  /\ message' = [type |-> type, style |-> style] /\ room' = limit
  /\ \E e \in {Encode(type, Sample(type, style, Samples), limit)} :
       written' = e.written \o e.buf /\ chunks' = Append(e.chunks, Len(e.buf)) /\ status' = e.result
  /\ UNCHANGED decoded

\* What was received may be cut off anywhere.  In how many chunks it came makes no
\* difference to it (see SameInChunks), and one is enough here.
DecodeBinary ==
  /\ status = {} /\ Len(chunks) = 1 /\ decoded = Nothing
  /\ \E n \in {k \in 0 .. Len(written) : k % Stride = 0 \/ k >= Len(written) - 1} :
       decoded' = [length |-> n, value |-> Decode(SubSeq(written, 1, n), message.type)]
  /\ UNCHANGED <<message, room, written, chunks, status>>

CodecNext == EncodeBinary \/ DecodeBinary

-----------------------------------------------------------------------------
Value == Sample(message.type, message.style, Samples)

\* An array of structures in a Variant stays one of ExtensionObjects.
Wrapped(v) ==
  IF v.type = "none" \/ ~v.isArray \/ TypeOf[v.type].builtin THEN v
  ELSE [v EXCEPT !.type = "ExtensionObject",
                 !.data.items = [k \in DOMAIN @ |-> Decoded(v.type, @[k])]]

Arriving == [style \in DOMAIN Samples |-> [Samples[style] EXCEPT !.Variant = Wrapped(@)]]

CodecTypeOK ==
  /\ message = NoMessage \/ (message.type \in Messages /\ message.style \in DOMAIN Samples)
  /\ ToSet(written) \subseteq 0 .. 255
  /\ chunks \in Seq(0 .. room) /\ Len(chunks) <= MaxChunks + 1
  /\ status \subseteq {"none", Limits, "BADRESPONSETOOLARGE", "undefined"}
  /\ decoded.length \in 0 .. Len(written)

\* Does the message hold a DiagnosticInfo with an inner status or an inner DiagnosticInfo?
HoldsInner ==
  Value # Sample(message.type, message.style,
    [style \in DOMAIN Samples |->
       [Samples[style] EXCEPT !.DiagnosticInfo[6] = <<>>, !.DiagnosticInfo[7] = <<>>]])

\* The same value, read up to the last byte.
ReadBack ==
  decoded.value = Read(Sample(message.type, message.style, Arriving), Len(written))

\* What encodeBinaryJumpTable writes, decodeBinaryJumpTable reads back (6985-7230), the
\* same value up to the last byte, and nothing that is cut off is taken for a message,
\* with two exceptions.  The filter against arrays that would be too long (6350) refuses
\* some that were encoded: those of elements of a byte or two, such as empty Variants, at
\* the end of a message.  And a DiagnosticInfo within which there is a status or another
\* DiagnosticInfo never is read back: the writer has no bit for the one and 0x20 for the
\* other (6994-6997), the reader takes 0x20 for the one and 0x40 for the other (7047-7051).
RoundTrip ==
  decoded # Nothing =>
    IF HoldsInner THEN ~ReadBack
    ELSE /\ decoded.value.ok => decoded.length = Len(written) /\ ReadBack
         /\ decoded.length = Len(written) /\ ~decoded.value.ok =>
              decoded.value.why = "filter" /\ message.style \in Sparse

RECURSIVE Lengths(_), Needs(_), Loses(_), Embeds(_)

\* The lengths of what may not fit and is not tried again within the plan.
Lengths(plan) ==
  CASE plan.kind = "bytes" -> {Len(plan.bytes)} \ {0}
    [] plan.kind = "block" -> {}
    [] OTHER -> UNION {Lengths(plan.parts[k]) : k \in {j \in DOMAIN plan.parts : ~Retried(plan, j)}}

\* What may have the buffer exchanged within the plan: bytes that may be split, or parts
\* that are tried again.  So many bytes of the plan must fit before each of them.
Needs(plan) ==
  CASE plan.kind = "bytes" -> {}
    [] plan.kind = "block" -> IF plan.bytes = <<>> THEN {} ELSE {0}
    [] OTHER -> UNION {
         LET before == IF plan.kind = "all" THEN <<>>
                       ELSE FlattenSeq([j \in 1 .. k - 1 |-> Flat(plan.parts[j])])
         IN {n + Len(before) : n \in IF Retried(plan, k) THEN {0} ELSE Needs(plan.parts[k])} :
         k \in DOMAIN plan.parts}

\* One part has the buffer exchanged, and another does not fit: one after it, or, where the
\* parts are all written whatever their results, a longer one.
Loses(plan) ==
  /\ plan.kind \in {"all", "until", "members"}
  /\ \E k \in {j \in DOMAIN plan.parts : ~Retried(plan, j)} :
       \/ Loses(plan.parts[k])
       \/ \E j \in DOMAIN plan.parts \ {k}, l \in Lengths(plan.parts[k]) :
            \E n \in IF Retried(plan, j) THEN {0} ELSE Needs(plan.parts[j]) :
               j < k \/ (plan.kind = "all" /\ n < l)

\* A value that is tried again as a whole holds two such parts.
Embeds(plan) ==
  /\ plan.kind \in {"all", "until", "members"}
  /\ \E k \in DOMAIN plan.parts :
       (Retried(plan, k) /\ Loses(plan.parts[k])) \/ Embeds(plan.parts[k])

Agrees(plan) ==
  /\ Len(Flat(plan)) = SizeOf(message.type, Value)
  /\ status = {} => written = Flat(plan)
  /\ "undefined" \in status => Embeds(plan)

\* Where the buffer is exchanged within a message (5866-5898), parts that did not fit are
\* written once more after a return through several functions (6290, 6769, 7118).  A
\* message that is sent has the same bytes as if the buffer had no end, as many as
\* UA_calcSizeBinary counts.  The position to go back to is lost only where a value that is
\* tried again as a whole has had the buffer exchanged (6260-6270) and holds besides a part
\* that did not fit: the text after a long locale, the index of the server after a URI, the
\* time after a Variant with a String, the dimensions after an array of numbers (6938), or
\* what is beside the content of an ExtensionObject.
SameInChunks ==
  message # NoMessage /\ decoded = Nothing => Agrees(TopMembers(message.type, Value))
=============================================================================
