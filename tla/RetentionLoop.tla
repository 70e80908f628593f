---------------------------- MODULE RetentionLoop ----------------------------
(***************************************************************************)
(* The loops of select_snapshot_ids_to_keep, one iteration at a time, over *)
(* one device group: the keep set they compute is the one that module      *)
(* Retention states rule by rule.  (Groups share nothing but the keep set.) *)
(***************************************************************************)
EXTENDS Retention, Sequences

CONSTANTS
  Groups,  \* device groups: sets of metas with distinct ids
  Reqs,    \* prune requests
  Nows     \* values of the server clock

Counts == Nat \cup {None}

ASSUME GroupsAssumption ==
  \A g \in Groups :
    /\ IsFiniteSet(g)
    /\ \A m \in g : m.id \in Int /\ m.created \in Int
    /\ \A m, o \in g : m.id = o.id => m = o
ASSUME ReqsAssumption ==
  \A r \in Reqs : {r.last, r.days, r.daily, r.weekly} \subseteq Counts
ASSUME NowsAssumption == Nows \subseteq Int

VARIABLES
  group,   \* the group, as it was loaded
  req, now,
  metas,   \* the group, newest first
  rule,    \* the rule whose loop runs
  i,       \* the next meta it looks at
  kept,    \* kept_days or kept_weeks
  keep     \* the metas kept so far

loopVars == <<group, req, now, metas, rule, i, kept, keep>>

Field(r) == CASE r = "last" -> req.last [] r = "days" -> req.days
              [] r = "daily" -> req.daily [] r = "weekly" -> req.weekly

(* metas.sort_by: the order is strict and total on one group. *)
Sorted(S) ==
  CHOOSE s \in [1..Cardinality(S) -> S] :
    \A j, k \in 1..Cardinality(S) : j < k => Newer(s[j], s[k])

LoopInit ==
  /\ group \in Groups /\ req \in Reqs /\ now \in Nows
  /\ metas = Sorted(group)
  /\ rule = "last" /\ i = 1 /\ kept = {} /\ keep = {}

NextRule(r) ==
  CASE r = "last" -> "days" [] r = "days" -> "daily"
    [] r = "daily" -> "weekly" [] r = "weekly" -> "done"

(* Variant: the daily buckets leak into the weekly rule. *)
LeaveKeepingBuckets == rule' = NextRule(rule) /\ i' = 1 /\ UNCHANGED kept

Leave == rule' = NextRule(rule) /\ i' = 1 /\ kept' = {}

(* An absent rule, a rule of no buckets, or the end of the group. *)
Skip ==
  /\ rule # "done"
  /\ \/ Field(rule) = None
     \/ rule \in {"daily", "weekly"} /\ Field(rule) = 0
     \/ i > Len(metas)
  /\ Leave
  /\ UNCHANGED <<group, req, now, metas, keep>>

(* metas.iter().take(keep_last) *)
TakeLast ==
  /\ rule = "last" /\ req.last # None /\ i <= Len(metas)
  /\ IF i <= req.last
       THEN keep' = keep \cup {metas[i]} /\ i' = i + 1 /\ UNCHANGED <<rule, kept>>
       ELSE Leave /\ UNCHANGED keep
  /\ UNCHANGED <<group, req, now, metas>>

(* The cutoff loop looks at every meta. *)
TakeSince ==
  /\ rule = "days" /\ req.days # None /\ i <= Len(metas)
  /\ keep' = IF metas[i].created >= now - req.days * Day THEN keep \cup {metas[i]} ELSE keep
  /\ i' = i + 1
  /\ UNCHANGED <<group, req, now, metas, rule, kept>>

(* The first meta of a new bucket is kept; the n-th bucket ends the loop. *)
TakeBucket(r) ==
  /\ rule = r /\ Field(r) # None /\ Field(r) # 0 /\ i <= Len(metas)
  /\ LET b == Bucket(r, metas[i]) IN
       \/ /\ b \in kept
          /\ i' = i + 1 /\ UNCHANGED <<rule, kept, keep>>
       \/ /\ b \notin kept
          /\ keep' = keep \cup {metas[i]}
          /\ IF Cardinality(kept \cup {b}) >= Field(r)
               THEN Leave
               ELSE i' = i + 1 /\ kept' = kept \cup {b} /\ UNCHANGED rule
  /\ UNCHANGED <<group, req, now, metas>>

LoopNext ==
  \/ Skip \/ TakeLast \/ TakeSince
  \/ TakeBucket("daily") \/ TakeBucket("weekly")

LoopSpec == LoopInit /\ [][LoopNext]_loopVars

-----------------------------------------------------------------------------

(* The four loops together, each with its own way to stop early, keep       *)
(* exactly the snapshots the rules of the request name.                     *)
LoopKeepsTheRules == rule = "done" => keep = KeepOfGroup(group, req, now)
=============================================================================
