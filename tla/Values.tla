------------------------------- MODULE Values -------------------------------
(***************************************************************************)
(* Values of the data types (ua_types.h): a number is the sequence of its  *)
(* bytes, a string an array of such, a structure the sequence of its       *)
(* members, and what may be absent a sequence of at most one.              *)
(***************************************************************************)
EXTENDS Integers, Sequences

\* UA_DataTypeMember: memberTypeIndex and isArray.
One(type) == [type |-> type, isArray |-> FALSE]
Many(type) == [type |-> type, isArray |-> TRUE]

Bytes(n, width) == [k \in 1 .. width |-> IF k > 4 THEN 0 ELSE (n \div 256 ^ (k - 1)) % 256]

NullArray == [null |-> TRUE, items |-> <<>>]
ArrayOf(items) == [null |-> FALSE, items |-> items]

\* UA_NODEIDTYPE_*; a numeric one has the number id.
Numeric(ns, id) == [type |-> 0, ns |-> ns, id |-> id]

\* A value of the encodings 0 (no body), 1 (byte string), 2 (XML), or 3 (decoded), of
\* which the type is known.
Encoded(encoding, typeId, body) ==
  [encoding |-> encoding, typeId |-> typeId, body |-> body, type |-> "none", data |-> <<>>]
Decoded(type, data) ==
  [encoding |-> 3, typeId |-> Numeric(0, 0), body |-> NullArray, type |-> type, data |-> data]

Scalar(type, value) == [type |-> type, isArray |-> FALSE, data |-> value, dims |-> NullArray]
NoVariant == Scalar("none", <<>>)
=============================================================================
