-------------------------- MODULE MCSnapshotStore --------------------------
(* Instances of SnapshotStore for TLC. *)
EXTENDS SnapshotStore, TLC

Rule == [last |-> None, days |-> None, daily |-> None, weekly |-> None,
         device |-> None, name |-> None]

(* keep_last = 1 for everyone; keep_daily = 1 for one device. *)
MCRequests ==
  {[Rule EXCEPT !.last = 1]}
    \cup {[Rule EXCEPT !.daily = 1, !.device = d] : d \in Devices}

ActorSymmetry == Permutations(Clients) \cup Permutations(Chunks) \cup Permutations(Gcs) \cup Permutations(Pruners)
=============================================================================
