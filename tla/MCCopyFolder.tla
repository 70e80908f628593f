---------------------------- MODULE MCCopyFolder ----------------------------
(* Instances of CopyFolder for TLC: bases with some of the paths. *)
EXTENDS CopyFolder

MCBases == {{}, {1, 2}}
=============================================================================
