-------------------------- MODULE MCRestoreFolder --------------------------
(* Instances of RestoreFolder for TLC: one restore of more files than its   *)
(* channel holds, or two overlapping ones of small snapshots.               *)
EXTENDS RestoreFolder

Ask(s, p, ws) == [snap |-> s, policy |-> p, workers |-> ws]

MCFiles == [s \in Snapshots |-> IF s = "large" THEN 6 ELSE 1]

Large == Ask("large", "overwrite", Workers)
Small == Ask("small", "overwrite", {1})

MCLarge == {[r \in Restores |-> IF r = 1 THEN {Large} ELSE {}]}
MCPlans == MCLarge \cup
  {[r \in Restores |-> IF r = 1 THEN {Small} ELSE {second}] :
     second \in {Ask("small", p, {1}) : p \in Policies} \cup {Ask("other", "rename", {1})}}
=============================================================================
