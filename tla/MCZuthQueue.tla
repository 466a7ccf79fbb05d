----------------------------- MODULE MCZuthQueue -----------------------------
(* ZuthQueue on small instances. *)
EXTENDS ZuthQueue

\* The bytes above ServiceLevel on the heap: zero, or with the sign bit set.
CleanHeap == {0}
AnyHeap   == {0, -1}
=============================================================================
