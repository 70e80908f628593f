-------------------------- MODULE MCPaneTerminals --------------------------
(* An instance of PaneTerminals for TLC: the base folders are alike. *)
EXTENDS PaneTerminals

Alike == Permutations(Bases)
=============================================================================
