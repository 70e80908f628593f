---------------------------- MODULE MCWorkspace -----------------------------
(* Instances of Workspace for TLC: a grid two columns wide. *)
EXTENDS Workspace
Symmetry == Permutations(Ids) \cup Permutations(Spaces)
=============================================================================
