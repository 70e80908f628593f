--------------------------- MODULE DeviceRegistry ---------------------------
(***************************************************************************)
(* The devices of a FileDock server (crates/server/src/main.rs): register, *)
(* heartbeat, list, and the device credentials that auth looks up.         *)
(*                                                                         *)
(* Objects: devices/<id>.json, the DeviceRecord with the token of the      *)
(* device, and devices/<id>.heartbeat.json.  Handlers interleave at their  *)
(* storage calls.  DiskStorage::put truncates the file and then writes it, *)
(* so that readers and crashes meet a torn record; S3 replaces the object. *)
(***************************************************************************)
EXTENDS Naturals

CONSTANTS
  DeviceIds,   \* device ids
  Beats,     \* concurrent heartbeat requests
  Lists,     \* concurrent GET /v1/devices requests
  Backends,  \* storage backends: "disk", "s3"
  MaxTime    \* the last value of the clock

ASSUME MaxTimeAssumption == MaxTime \in Nat \ {0}

VARIABLES
  backend,    \* the storage of this server
  rec,        \* the DeviceRecord objects
  hb,         \* devices with a heartbeat object
  reg,        \* per device: its registration
  beat,       \* per request: the progress of device_heartbeat
  list,       \* per request: the progress of list_devices
  clock,
  answered,   \* history: the last_seen_unix of the last answered heartbeat
  overlapped, \* history: devices that had two heartbeats in progress
  cut         \* history: devices whose record was being written when the write failed

registryVars == <<backend, rec, hb, reg, beat, list, clock, answered, overlapped, cut>>

(* last_seen_unix is 0 before the first heartbeat. *)
NoRecord == [st |-> "none", seen |-> 0]
Torn     == [st |-> "torn", seen |-> 0]

Whole(t)      == [st |-> "whole", seen |-> t]

NoBeat == [pc |-> "idle", dev |-> {}, now |-> 0]
NoList == [pc |-> "idle", todo |-> {}]

RecState  == [st: {"none", "torn", "whole"}, seen: 0..MaxTime]
BeatState == [pc: {"idle", "get", "put", "writing", "note"},
              dev: {{}} \cup {{d} : d \in DeviceIds}, now: 0..MaxTime]
ListState == [pc: {"idle", "get", "ok", "error"},
              todo: SUBSET (DeviceIds \X {"record", "heartbeat"})]

RegistryTypeOK ==
  /\ backend \in Backends
  /\ rec \in [DeviceIds -> RecState]
  /\ hb \subseteq DeviceIds
  /\ reg \in [DeviceIds -> {"no", "writing", "done", "failed"}]
  /\ beat \in [Beats -> BeatState]
  /\ list \in [Lists -> ListState]
  /\ clock \in 1..MaxTime
  /\ answered \in [DeviceIds -> 0..MaxTime]
  /\ overlapped \subseteq DeviceIds /\ cut \subseteq DeviceIds

RegistryInit ==
  /\ backend \in Backends
  /\ rec = [d \in DeviceIds |-> NoRecord] /\ hb = {}
  /\ reg = [d \in DeviceIds |-> "no"]
  /\ beat = [b \in Beats |-> NoBeat]
  /\ list = [l \in Lists |-> NoList]
  /\ clock = 1
  /\ answered = [d \in DeviceIds |-> 0] /\ overlapped = {} /\ cut = {}

Beating(d) == {b \in Beats : beat[b].dev = {d}}

(* Storage::put of a record, begun and ended. *)
PutBegin(d)  == rec' = [rec EXCEPT ![d] = IF backend = "disk" THEN Torn ELSE @]
PutEnd(d, t) == rec' = [rec EXCEPT ![d] = Whole(t)]

(* A failed write leaves the object as it is by then. *)
CutShort(d) == cut' = IF backend = "disk" THEN cut \cup {d} ELSE cut

Tick ==
  /\ clock < MaxTime
  /\ clock' = clock + 1
  /\ UNCHANGED <<backend, rec, hb, reg, beat, list, answered, overlapped, cut>>

-----------------------------------------------------------------------------
(* POST /v1/auth/device/register: a fresh id and token.                     *)

RegisterBegin(d) ==
  /\ reg[d] = "no"
  /\ reg' = [reg EXCEPT ![d] = "writing"]
  /\ PutBegin(d)
  /\ UNCHANGED <<backend, hb, beat, list, clock, answered, overlapped, cut>>

(* The answer has the credentials; without it the client has none. *)
RegisterEnd(d) ==
  /\ reg[d] = "writing"
  /\ \/ PutEnd(d, 0) /\ reg' = [reg EXCEPT ![d] = "done"] /\ UNCHANGED cut
     \/ /\ reg' = [reg EXCEPT ![d] = "failed"]
        /\ CutShort(d) /\ UNCHANGED rec
  /\ UNCHANGED <<backend, hb, beat, list, clock, answered, overlapped>>

(* auth: the record of the device must be there and hold its token. *)
Authenticated(d) == rec[d].st = "whole"

-----------------------------------------------------------------------------
(* POST /v1/devices/:id/heartbeat, which reads the record and writes it back. *)

BeatStart(b, d) ==
  /\ beat[b].pc = "idle" /\ reg[d] = "done" /\ Authenticated(d)
  /\ beat' = [beat EXCEPT ![b] = [pc |-> "get", dev |-> {d}, now |-> 0]]
  /\ overlapped' = IF Beating(d) = {} THEN overlapped ELSE overlapped \cup {d}
  /\ UNCHANGED <<backend, rec, hb, reg, list, clock, answered, cut>>

(* A torn record does not decode and ends the request. *)
BeatGet(b, d) ==
  /\ beat[b].pc = "get" /\ beat[b].dev = {d}
  /\ beat' = [beat EXCEPT ![b] =
       IF rec[d].st = "whole" THEN [pc |-> "put", dev |-> {d}, now |-> clock] ELSE NoBeat]
  /\ UNCHANGED <<backend, rec, hb, reg, list, clock, answered, overlapped, cut>>

BeatPutBegin(b, d) ==
  /\ beat[b].pc = "put" /\ beat[b].dev = {d}
  /\ PutBegin(d)
  /\ beat' = [beat EXCEPT ![b].pc = "writing"]
  /\ UNCHANGED <<backend, hb, reg, list, clock, answered, overlapped, cut>>

(* Variant: the heartbeat object is written, the record only begun. *)
BeatPutEndNot(b, d) ==
  /\ beat[b].pc = "writing" /\ beat[b].dev = {d}
  /\ beat' = [beat EXCEPT ![b].pc = "note"]
  /\ UNCHANGED <<backend, rec, hb, reg, list, clock, answered, overlapped, cut>>

(* Variant: last_seen_unix as it was read. *)
BeatPutEndStale(b, d) ==
  /\ beat[b].pc = "writing" /\ beat[b].dev = {d}
  /\ PutEnd(d, 0)
  /\ beat' = [beat EXCEPT ![b].pc = "note"]
  /\ UNCHANGED <<backend, hb, reg, list, clock, answered, overlapped, cut>>

(* The records of two heartbeats have one length: the later write wins. *)
BeatPutEnd(b, d) ==
  /\ beat[b].pc = "writing" /\ beat[b].dev = {d}
  /\ PutEnd(d, beat[b].now)
  /\ beat' = [beat EXCEPT ![b].pc = "note"]
  /\ UNCHANGED <<backend, hb, reg, list, clock, answered, overlapped, cut>>

(* The heartbeat object, and the answer. *)
BeatNote(b, d) ==
  /\ beat[b].pc = "note" /\ beat[b].dev = {d}
  /\ hb' = hb \cup {d}
  /\ answered' = [answered EXCEPT ![d] = beat[b].now]
  /\ beat' = [beat EXCEPT ![b] = NoBeat]
  /\ UNCHANGED <<backend, rec, reg, list, clock, overlapped, cut>>

(* A storage error or a server crash; a torn heartbeat object is one too. *)
BeatFail(b, d) ==
  /\ beat[b].pc # "idle" /\ beat[b].dev = {d}
  /\ IF beat[b].pc = "writing" THEN CutShort(d) ELSE UNCHANGED cut
  /\ hb' \in IF beat[b].pc = "note" THEN {hb, hb \cup {d}} ELSE {hb}
  /\ beat' = [beat EXCEPT ![b] = NoBeat]
  /\ UNCHANGED <<backend, rec, reg, list, clock, answered, overlapped>>

-----------------------------------------------------------------------------
(* GET /v1/devices: every .json object under devices/ is read as a record.  *)

ListStart(l) ==
  /\ list[l].pc # "get"
  /\ list' = [list EXCEPT ![l] =
       [pc |-> "get", todo |-> ({d \in DeviceIds : rec[d].st # "none"} \X {"record"})
                               \cup (hb \X {"heartbeat"})]]
  /\ UNCHANGED <<backend, rec, hb, reg, beat, clock, answered, overlapped, cut>>

Decodes(d, kind) == kind = "record" /\ rec[d].st = "whole"

(* What does not decode as a DeviceRecord is a 500 and ends the request. *)
ListGet(l, d, kind) ==
  /\ list[l].pc = "get" /\ <<d, kind>> \in list[l].todo
  /\ list' = [list EXCEPT ![l] =
       IF Decodes(d, kind) THEN [pc |-> "get", todo |-> list[l].todo \ {<<d, kind>>}]
                           ELSE [pc |-> "error", todo |-> {}]]
  /\ UNCHANGED <<backend, rec, hb, reg, beat, clock, answered, overlapped, cut>>

ListEnd(l) ==
  /\ list[l].pc = "get" /\ list[l].todo = {}
  /\ list' = [list EXCEPT ![l].pc = "ok"]
  /\ UNCHANGED <<backend, rec, hb, reg, beat, clock, answered, overlapped, cut>>

-----------------------------------------------------------------------------

Beat(b, d) == \/ BeatStart(b, d) \/ BeatGet(b, d) \/ BeatPutBegin(b, d)
              \/ BeatPutEnd(b, d) \/ BeatNote(b, d) \/ BeatFail(b, d)
List(l)    == \/ ListStart(l) \/ ListEnd(l)
              \/ \E d \in DeviceIds, kind \in {"record", "heartbeat"} : ListGet(l, d, kind)

RegistryNext ==
  \/ Tick
  \/ \E d \in DeviceIds : RegisterBegin(d) \/ RegisterEnd(d) \/ \E b \in Beats : Beat(b, d)
  \/ \E l \in Lists : List(l)

RegistrySpec == RegistryInit /\ [][RegistryNext]_registryVars

-----------------------------------------------------------------------------

Writing(d) == \E b \in Beating(d) : beat[b].pc = "writing"

(* A registered device can authenticate, whatever heartbeats overlap: with  *)
(* S3 always, on disk unless its record is being written right now or a     *)
(* write of it was cut short (which locks the device out for good).         *)
CredentialsHold ==
  \A d \in DeviceIds : reg[d] = "done" =>
    Authenticated(d) \/ (backend = "disk" /\ (Writing(d) \/ d \in cut))

(* An answered heartbeat is not undone: whenever the record can be read, it *)
(* is as recent as the last answer, unless heartbeats of the device have    *)
(* overlapped (the one that read first may write last).                     *)
LastSeenKept ==
  \A d \in DeviceIds \ overlapped : Authenticated(d) => rec[d].seen >= answered[d]

-----------------------------------------------------------------------------
(* The inductive invariant behind LastSeenKept.                             *)

(* Times come from the clock, and only registered devices send heartbeats.  *)
ClockInv ==
  /\ \A b \in Beats : beat[b].now <= clock
  /\ \A d \in DeviceIds : answered[d] <= clock
  /\ \A d \in DeviceIds : reg[d] # "done" => answered[d] = 0 /\ Beating(d) = {}

(* Without overlap, a heartbeat in progress is the only one, it is not      *)
(* older than the last answer, and what it has written stays.               *)
BeatInv ==
  \A d \in DeviceIds \ overlapped : \A b \in Beating(d) :
    /\ \A c \in Beating(d) : b = c
    /\ beat[b].pc \in {"put", "writing", "note"} => beat[b].now >= answered[d]
    /\ beat[b].pc = "note" /\ Authenticated(d) => rec[d].seen >= beat[b].now

SeenInv == ClockInv /\ BeatInv /\ LastSeenKept
=============================================================================
