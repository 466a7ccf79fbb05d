---------------------------- MODULE MCServerStart ----------------------------
(* ServerStart on a small instance: two processes of one endpoint. *)
EXTENDS ServerStart

CONSTANTS p1, p2, e1

Configured == [p \in {p1, p2} |-> e1]
=============================================================================
