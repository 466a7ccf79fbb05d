------------------------------- MODULE Samples -------------------------------
(***************************************************************************)
(* What the run of Codec encodes: for each style a value of every builtin  *)
(* type, so that all forms of an id, of an ExtensionObject, a Variant and  *)
(* a DataValue occur, strings that are absent, empty and longer than a     *)
(* buffer or two with something after them, a DiagnosticInfo within        *)
(* another, and arrays of none, of two and of nested values.               *)
(***************************************************************************)
EXTENDS Values

Str(n) == ArrayOf([k \in 1 .. n |-> <<96 + k>>])
Guid(n) == <<Bytes(n, 4), Bytes(n, 2), Bytes(n, 2), Bytes(n, 8)>>
Named(type, ns, id) == [type |-> type, ns |-> ns, id |-> id]
Expanded(nodeId, uri, serverIndex) == [nodeId |-> nodeId, uri |-> uri, server |-> serverIndex]
Vector(type, items, dims) ==
  [type |-> type, isArray |-> TRUE, data |-> ArrayOf(items), dims |-> dims]
Int32(n) == Bytes(n, 4)
Text(locale, text) == <<locale, text>>
Opt(value) == <<value>>

Numbers(n) ==
  [Boolean |-> <<n % 2>>, SByte |-> <<n>>, Byte |-> <<n>>, Int16 |-> Bytes(n, 2),
   UInt16 |-> Bytes(n, 2), Int32 |-> Int32(n), UInt32 |-> Bytes(n, 4), Int64 |-> Bytes(n, 8),
   UInt64 |-> Bytes(n, 8), Float |-> Bytes(n, 4), Double |-> Bytes(n, 8),
   DateTime |-> Bytes(n, 8), StatusCode |-> Bytes(n, 4), Guid |-> Guid(n)]

Strings(s) == [String |-> s, ByteString |-> s, XmlElement |-> s]

Others(node, expanded, qualified, text, object, data, variant, info) ==
  [NodeId |-> node, ExpandedNodeId |-> expanded, QualifiedName |-> qualified,
   LocalizedText |-> text, ExtensionObject |-> object, DataValue |-> data,
   Variant |-> variant, DiagnosticInfo |-> info]

f ++ g == [x \in DOMAIN f \cup DOMAIN g |-> IF x \in DOMAIN f THEN f[x] ELSE g[x]]

Ack == <<Bytes(7, 4), Bytes(9, 4)>>
Argument ==
  <<Str(1), Numeric(0, 6), Int32(1), ArrayOf(<<Int32(2)>>), Text(Str(1), NullArray)>>

Least ==
  Numbers(0) ++ Strings(NullArray) ++
  Others(Numeric(0, 0), Expanded(Numeric(0, 0), NullArray, 0), <<Bytes(0, 2), NullArray>>,
         Text(NullArray, NullArray), Encoded(0, Numeric(0, 0), NullArray),
         [k \in 1 .. 6 |-> <<>>], NoVariant, [k \in 1 .. 7 |-> <<>>])

Full ==
  Numbers(200) ++ Strings(Str(2)) ++
  Others(Numeric(1, 300), Expanded(Named(3, 0, Str(1)), Str(2), 3), <<Bytes(1, 2), Str(2)>>,
         Text(Str(2), Str(1)), Decoded("Argument", Argument),
         <<Opt(Scalar("Argument", Argument)), Opt(Bytes(3, 4)), Opt(Bytes(5, 8)),
           Opt(Bytes(9999, 2)), Opt(Bytes(6, 8)), Opt(Bytes(2, 2))>>,
         Vector("Int32", <<Int32(1), Int32(2)>>, ArrayOf(<<Int32(2), Int32(1)>>)),
         <<Opt(Int32(1)), Opt(Int32(2)), Opt(Int32(3)), Opt(Int32(4)), Opt(Str(1)), <<>>, <<>>>>)

Mixed ==
  Numbers(77) ++ Strings(Str(0)) ++
  Others(Named(4, 2, Guid(3)), Expanded(Numeric(300, 70000), NullArray, 0),
         <<Bytes(1, 2), Str(0)>>, Text(NullArray, Str(0)), Encoded(1, Numeric(2, 60000), Str(3)),
         <<Opt(Scalar("String", Str(2))), <<>>, <<>>, <<>>, Opt(Bytes(6, 8)), <<>>>>,
         Scalar("Double", Bytes(1, 8)),
         <<Opt(Int32(1)), <<>>, <<>>, <<>>, <<>>, <<>>, <<>>>>)

Long ==
  Numbers(255) ++ Strings(Str(45)) ++
  Others(Named(3, 2, Str(30)), Expanded(Named(5, 0, Str(4)), Str(5), 1),
         <<Bytes(1, 2), Str(20)>>, Text(Str(2), Str(12)), Encoded(2, Numeric(0, 255), Str(9)),
         <<Opt(Scalar("LocalizedText", Text(Str(2), Str(9)))), <<>>, Opt(Bytes(2, 8)), <<>>, <<>>, <<>>>>,
         Vector("SubscriptionAcknowledgement", <<Ack, Ack>>, NullArray),
         <<<<>>, <<>>, <<>>, <<>>, Opt(Str(20)), <<>>, <<>>>>)

\* The strings and arrays that are not the last of their value fill two buffers of 48
\* but for a byte or two.
Wide ==
  Numbers(255) ++ Strings(Str(83)) ++
  Others(Named(3, 2, Str(83)), Expanded(Numeric(0, 1), Str(88), 1), <<Bytes(1, 2), Str(83)>>,
         Text(Str(90), Str(2)), Encoded(1, Numeric(2, 60000), Str(83)),
         <<Opt(Scalar("String", Str(83))), <<>>, Opt(Bytes(2, 8)), <<>>, <<>>, <<>>>>,
         Vector("Int32", [k \in 1 .. 22 |-> Int32(k)], ArrayOf(<<Int32(11), Int32(2)>>)),
         <<Opt(Int32(1)), <<>>, <<>>, <<>>, Opt(Str(85)), Opt(Bytes(5, 4)), Opt(Mixed.DiagnosticInfo)>>)

Sampled == [least |-> Least, full |-> Full, mixed |-> Mixed, long |-> Long, wide |-> Wide, sparse |-> Least]

\* The styles of the elements of arrays.
Elements ==
  [least |-> <<"NULL">>, full |-> <<"full", "mixed">>, mixed |-> <<>>, long |-> <<"long", "least">>,
   wide |-> <<"mixed", "wide">>, sparse |-> <<"least", "least">>]
=============================================================================
