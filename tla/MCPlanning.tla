----------------------------- MODULE MCPlanning -----------------------------
(* Instances of Planning for TLC. *)
EXTENDS DocumentedPlanning, TLC

Symmetry == Permutations(Turn) \cup Permutations(Stream) \cup Permutations(Client)
=============================================================================
