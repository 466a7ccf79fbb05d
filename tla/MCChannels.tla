----------------------------- MODULE MCChannels ------------------------------
(* Channels on small instances. Connections and sessions are interchangeable. *)
EXTENDS Channels, TLC

Symmetry == Permutations(Conns) \cup Permutations(Sessions)
=============================================================================
