------------------------------ MODULE Retention ------------------------------
(***************************************************************************)
(* Snapshot retention of the FileDock server (crates/server/src/main.rs):  *)
(* which snapshots POST /v1/snapshots/prune keeps.  A snapshot is its      *)
(* SnapshotMeta record; snapshot ids are numbers, ordered as the uuid      *)
(* strings are.  Each keep rule is stated by the set it keeps; module      *)
(* RetentionLoop states the loops of the source and is compared with this. *)
(***************************************************************************)
EXTENDS Integers, FiniteSets

CONSTANTS
  Day,   \* ticks of one UTC day (86_400 in the source)
  None   \* an absent optional field

ASSUME DayAssumption  == Day \in Nat \ {0}
ASSUME NoneAssumption == None \notin Int

(* The order of metas.sort_by: newest first, ties by the larger id. *)
Newer(a, b) ==
  \/ a.created > b.created
  \/ a.created = b.created /\ a.id > b.id

DayBucket(m) == m.created \div Day

(* (iso year, iso week) names the Monday-to-Sunday week; 1970-01-01 was a Thursday. *)
WeekBucket(m) == (DayBucket(m) + 3) \div 7

(* Variant: one snapshot short. *)
KeepLastShort(metas, n) ==
  {m \in metas : Cardinality({o \in metas : Newer(o, m)}) < n - 1}

KeepLast(metas, n) ==
  {m \in metas : Cardinality({o \in metas : Newer(o, m)}) < n}

KeepSince(metas, cutoff) == {m \in metas : m.created >= cutoff}

Bucket(rule, m) == IF rule = "daily" THEN DayBucket(m) ELSE WeekBucket(m)

(* The newest snapshot of each of the newest n buckets. *)
KeepBuckets(metas, rule, n) ==
  {m \in metas :
     /\ \A o \in metas : Bucket(rule, o) = Bucket(rule, m) => ~Newer(o, m)
     /\ Cardinality({Bucket(rule, o) : o \in {x \in metas : Newer(x, m)}}) < n}

KeepOfGroup(metas, req, now) ==
  {m \in metas :
     \/ req.last   # None /\ m \in KeepLast(metas, req.last)
     \/ req.days   # None /\ m \in KeepSince(metas, now - req.days * Day)
     \/ req.daily  # None /\ m \in KeepBuckets(metas, "daily", req.daily)
     \/ req.weekly # None /\ m \in KeepBuckets(metas, "weekly", req.weekly)}

(* The stable device key: device_id when present, else the device name. *)
GroupKey(m) == IF m.dev # None THEN <<"id", m.dev>> ELSE <<"name", m.name>>

GroupOf(metas, m) == {o \in metas : GroupKey(o) = GroupKey(m)}

HasKeepRule(req) ==
  req.last # None \/ req.days # None \/ req.daily # None \/ req.weekly # None

Matches(m, req) ==
  /\ req.device = None \/ m.dev = req.device
  /\ req.name   = None \/ m.name = req.name

(* What prune_snapshots deletes of the snapshots it loaded. *)
Victims(metas, req, now) ==
  LET matched == {m \in metas : Matches(m, req)}
  IN  {m \in matched : m \notin KeepOfGroup(GroupOf(matched, m), req, now)}

(* A request with one of these rules cannot empty a device group. *)
KeepsNewest(req) ==
  \/ req.last   # None /\ req.last   > 0
  \/ req.daily  # None /\ req.daily  > 0
  \/ req.weekly # None /\ req.weekly > 0
=============================================================================
