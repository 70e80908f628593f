--------------------------- MODULE MCRetentionLoop ---------------------------
(* Groups of up to four snapshots over four days of three weeks, with ties; *)
(* every rule alone, and all the rules together.                            *)
EXTENDS RetentionLoop

MCTimes == {-1, 0, 1, 9, 22}

MCGroups ==
  UNION {{{[id |-> j, dev |-> None, name |-> "n", created |-> t[j]] : j \in S}
            : t \in [S -> MCTimes]} : S \in SUBSET (1..4)}

Rule == [last |-> None, days |-> None, daily |-> None, weekly |-> None,
         device |-> None, name |-> None]

MCReqs ==
  {[Rule EXCEPT !.last = n] : n \in 0..3} \cup {[Rule EXCEPT !.days = n] : n \in {0, 7, 10, 11}}
    \cup {[Rule EXCEPT !.daily = n] : n \in 0..3}
    \cup {[Rule EXCEPT !.weekly = n] : n \in 0..3}
    \cup {[Rule EXCEPT !.last = 1, !.days = 1, !.daily = 2, !.weekly = 3]}
=============================================================================
