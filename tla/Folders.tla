------------------------------- MODULE Folders -------------------------------
(***************************************************************************)
(* The folders that browser and terminal panes show.  They form a chain    *)
(* below each base, so that the row of a listing at depth d leads to depth *)
(* d + 1: the same name may occur at every depth.                          *)
(***************************************************************************)
EXTENDS Naturals, Sequences, SequencesExt

CONSTANTS
  Bases,  \* local base folders and SFTP connections
  Deep,   \* bound: depth of the folders that are shown
  None

ASSUME DeepAssumption == Deep \in Nat

Place   == [base: Bases, dir: 0..Deep]
Targets == [base: Bases, dir: 1..(Deep + 1)]
Folder  == Place \cup Targets

ASSUME NoneAssumption == None \notin Folder

Top(b)  == [base |-> b, dir |-> 0]
Row(at) == [at EXCEPT !.dir = @ + 1]     \* what a row of a listing names
Parent(at) == [at EXCEPT !.dir = @ - 1]
=============================================================================
