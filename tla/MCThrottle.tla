----------------------------- MODULE MCThrottle ------------------------------
(* Throttle on small instances. Connections are interchangeable. *)
EXTENDS Throttle, TLC

Symmetry == Permutations(Clients)
=============================================================================
