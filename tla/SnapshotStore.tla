---------------------------- MODULE SnapshotStore ----------------------------
(***************************************************************************)
(* The object store of a FileDock server, the handlers that change it and  *)
(* the clients that push folders into it.                                  *)
(*                                                                         *)
(* Objects: snapshots/<id>.json (a SnapshotMeta), manifests/<id>.json (here *)
(* the set of chunks its non-empty files refer to) and chunks/<hash>.      *)
(* Every handler of crates/server/src/main.rs awaits the storage once per  *)
(* object, so each await is a step of its own and handlers interleave: a   *)
(* push, a chunk GC, a prune and a DELETE may all be half way.  A handler  *)
(* stops between two steps when the storage fails or the server dies.      *)
(* DiskStorage::put truncates the file and then writes it, so the PUT of a *)
(* chunk or a manifest is two steps, and what stops between them leaves a  *)
(* torn object.  No reader of a chunk can tell; a torn manifest is no JSON.*)
(***************************************************************************)
EXTENDS Retention

CONSTANTS
  Ids,       \* snapshot ids the server may draw
  Chunks,    \* chunk hashes
  Clients,   \* pushing clients (CLI push-folder, agents)
  Gcs,       \* concurrent POST /v1/admin/chunks/gc requests
  Pruners,   \* concurrent POST /v1/snapshots/prune requests
  Deleters,  \* concurrent DELETE /v1/snapshots/:id requests
  Devices,   \* registered device ids
  Names,     \* device names
  Times,     \* values of the server clock
  Requests   \* prune requests that are sent

ASSUME IdsAssumption      == Ids \subseteq Int
ASSUME TimesAssumption    == Times \subseteq Int
ASSUME RequestsAssumption ==
  Requests \subseteq [last: Nat \cup {None}, days: Nat \cup {None},
                      daily: Nat \cup {None}, weekly: Nat \cup {None},
                      device: Devices \cup {None}, name: Names \cup {None}]

Meta == [id: Ids, dev: Devices \cup {None}, name: Names, created: Times]

VARIABLES
  snapshots, \* SnapshotMeta objects
  manifests, \* ids with a manifest object
  refs,      \* the chunks of each manifest
  chunks,    \* chunk objects
  unread,    \* manifests that are being written, or were when the write stopped
  torn,      \* chunks whose object is not whole
  writes,    \* per chunk and client: a write of it that is under way
  push,      \* per client: the progress of push_folder_impl
  gc,        \* per request: the progress of gc_chunks
  prune,     \* per request: the progress of prune_snapshots
  del,       \* per request: the progress of delete_snapshot
  created,   \* history: every SnapshotMeta ever stored
  live,      \* history: per GC, chunks referenced at every instant since its listing
  raced,     \* history: snapshots whose push overlapped a GC run
  late,      \* history: manifests stored after the removal of their snapshot began
  deleted,   \* history: ids some DELETE was called on
  broken     \* history: torn chunks whose last write was cut short

store   == <<snapshots, manifests, refs, chunks, unread, torn, writes>>
history == <<created, live, raced, late, deleted, broken>>
vars    == <<snapshots, manifests, refs, chunks, unread, torn, writes, push, gc,
             prune, del, created, live, raced, late, deleted, broken>>

-----------------------------------------------------------------------------

IdlePush  == [pc |-> "idle", id |-> None, files |-> {}, unchecked |-> {},
              missing |-> {}, uploaded |-> {}]
IdleGc    == [pc |-> "idle", todo |-> {}, marked |-> {}, doomed |-> {}]
IdlePrune == [pc |-> "idle", req |-> None, listed |-> {}, todo |-> {}, cur |-> None]
IdleDel   == [pc |-> "idle", id |-> None]

ActivePush ==
  [pc: {"walk", "upload", "commit"}, id: Ids, files: SUBSET Chunks,
   unchecked: SUBSET Chunks, missing: SUBSET Chunks, uploaded: SUBSET Chunks]
PushState == {IdlePush} \cup ActivePush

GcState ==
  [pc: {"idle", "mark", "sweep"}, todo: SUBSET Ids,
   marked: SUBSET Chunks, doomed: SUBSET Chunks]

BetweenDeletes ==
  [pc: {"load", "manifest"}, req: Requests, listed: SUBSET Meta,
   todo: SUBSET Meta, cur: {None}]
AmidDeletes ==
  [pc: {"meta"}, req: Requests, listed: SUBSET Meta, todo: SUBSET Meta, cur: Meta]
PruneState == {IdlePrune} \cup BetweenDeletes \cup AmidDeletes

HalfDeleted == [pc: {"manifest"}, id: Ids]
DelState == {IdleDel} \cup HalfDeleted

(* What a write of a chunk has met: no later one has truncated the file, one *)
(* has, or a GC has unlinked it.                                            *)
WriteState == {"none", "last", "overtaken", "unlinked"}

StoreTypeOK ==
  /\ snapshots \subseteq Meta
  /\ manifests \subseteq Ids
  /\ refs \in [Ids -> SUBSET Chunks]
  /\ chunks \subseteq Chunks
  /\ unread \subseteq Ids
  /\ torn \subseteq Chunks
  /\ writes \in [Chunks -> [Clients -> WriteState]]

HistoryTypeOK ==
  /\ created \subseteq Meta
  /\ live \in [Gcs -> SUBSET Chunks]
  /\ raced \subseteq Ids
  /\ late \subseteq Ids
  /\ deleted \subseteq Ids
  /\ broken \subseteq Chunks

TypeOK ==
  /\ StoreTypeOK
  /\ HistoryTypeOK
  /\ push \in [Clients -> PushState]
  /\ gc \in [Gcs -> GcState]
  /\ prune \in [Pruners -> PruneState]
  /\ del \in [Deleters -> DelState]

Init ==
  /\ snapshots = {} /\ manifests = {} /\ chunks = {} /\ unread = {} /\ torn = {}
  /\ writes = [h \in Chunks |-> [c \in Clients |-> "none"]]
  /\ refs  = [i \in Ids |-> {}]
  /\ push  = [c \in Clients |-> IdlePush]
  /\ gc    = [g \in Gcs |-> IdleGc]
  /\ prune = [p \in Pruners |-> IdlePrune]
  /\ del   = [d \in Deleters |-> IdleDel]
  /\ created = {} /\ raced = {} /\ late = {} /\ deleted = {} /\ broken = {}
  /\ live  = [g \in Gcs |-> {}]

(* The chunks the manifests in M refer to. *)
RefsOf(M, r) == UNION {r[i] : i \in M}

(* A GC keeps what stays referenced from its listing on. *)
StillLive(M, r) == live' = [g \in Gcs |-> live[g] \cap RefsOf(M, r)]

(* Its metadata is gone, or a prune has only that left to delete. *)
BeingRemoved(id) ==
  \/ id \notin {m.id : m \in snapshots}
  \/ \E p \in Pruners : prune[p].pc = "meta" /\ prune[p].cur.id = id

GcRunning  == \E g \in Gcs : gc[g].pc # "idle"
PushingIds == {push[c].id : c \in {x \in Clients : push[x].pc = "upload"}}

-----------------------------------------------------------------------------
(* Pushing a folder: push_folder_impl and the handlers it calls.           *)

(* POST /v1/snapshots: a fresh uuid and the server's clock.  Writes that an  *)
(* earlier push of the client has left behind are over by then.             *)
CreateSnapshot(c) ==
  /\ push[c].pc = "idle" /\ \A h \in Chunks : writes[h][c] = "none"
  /\ \E m \in Meta :
       /\ m.id \notin {o.id : o \in created}
       /\ snapshots' = snapshots \cup {m}
       /\ created' = created \cup {m}
       /\ push' = [push EXCEPT ![c] = [pc |-> "walk", id |-> m.id, files |-> {},
                                        unchecked |-> {}, missing |-> {}, uploaded |-> {}]]
  /\ UNCHANGED <<manifests, refs, chunks, unread, torn, writes, gc, prune, del,
                 live, raced, late, deleted, broken>>

(* Pass 1 walks and hashes the folder; all its hashes go to the presence check.*)
HashFolder(c) ==
  /\ push[c].pc = "walk"
  /\ \E S \in SUBSET Chunks :
       push' = [push EXCEPT ![c].pc = "upload", ![c].files = S, ![c].unchecked = S]
  /\ raced' = IF GcRunning THEN raced \cup {push[c].id} ELSE raced
  /\ UNCHANGED <<store, gc, prune, del, created, live, late, deleted, broken>>

(* One iteration of chunks_presence. *)
CheckPresence(c, h) ==
  /\ push[c].pc = "upload" /\ h \in push[c].unchecked
  /\ push' = [push EXCEPT ![c].unchecked = @ \ {h},
                          ![c].missing = IF h \in chunks THEN @ ELSE @ \cup {h}]
  /\ UNCHANGED <<store, gc, prune, del, history>>

(* PUT /v1/chunks/:hash truncates the file or creates it.  Perhaps again:   *)
(* the client retries, and two files of the folder may share the chunk.     *)
BeginChunk(c, h) ==
  /\ push[c].pc = "upload" /\ push[c].unchecked = {}
  /\ h \in push[c].missing /\ writes[h][c] = "none"
  /\ chunks' = chunks \cup {h}
  /\ torn' = torn \cup {h}
  /\ broken' = broken \ {h}
  /\ writes' = [writes EXCEPT ![h] = [b \in Clients |->
        IF b = c THEN "last" ELSE IF writes[h][b] = "last" THEN "overtaken" ELSE writes[h][b]]]
  /\ push' = [push EXCEPT ![c].uploaded = @ \ {h}]
  /\ UNCHANGED <<snapshots, manifests, refs, unread, gc, prune, del,
                 created, live, raced, late, deleted>>

(* The write is complete and answered.  All writers of a chunk write the    *)
(* same bytes: of two that overlap, the one that truncated last makes the   *)
(* file whole, the other one may.                                           *)
EndChunk(c, h) ==
  /\ writes[h][c] # "none"
  /\ \/ writes[h][c] # "unlinked" /\ torn' = torn \ {h} /\ broken' = broken \ {h}
     \/ writes[h][c] # "last" /\ UNCHANGED <<torn, broken>>
  /\ writes' = [writes EXCEPT ![h][c] = "none"]
  /\ push' = IF push[c].pc = "upload"
             THEN [push EXCEPT ![c].uploaded = @ \cup {h}] ELSE push
  /\ UNCHANGED <<snapshots, manifests, refs, chunks, unread, gc, prune, del,
                 created, live, raced, late, deleted>>

(* A full disk or a crash of the server cuts the write short. *)
CutChunk(c, h) ==
  /\ writes[h][c] # "none"
  /\ writes' = [writes EXCEPT ![h][c] = "none"]
  /\ broken' = IF writes[h][c] = "last" THEN broken \cup ({h} \cap torn) ELSE broken
  /\ UNCHANGED <<snapshots, manifests, refs, chunks, unread, torn, push, gc, prune, del,
                 created, live, raced, late, deleted>>

(* Variant: the manifest does not wait for the uploads. *)
BeginManifestEarly(c) ==
  LET id == push[c].id IN
  /\ push[c].pc = "upload" /\ push[c].unchecked = {}
  /\ manifests' = manifests \cup {id}
  /\ unread' = unread \cup {id}
  /\ refs' = [refs EXCEPT ![id] = push[c].files]
  /\ StillLive(manifests', refs')
  /\ push' = [push EXCEPT ![c].pc = "commit"]
  /\ UNCHANGED <<snapshots, chunks, torn, writes, gc, prune, del,
                 created, raced, late, deleted, broken>>

(* PUT /v1/snapshots/:id/manifest creates the file: neither the metadata nor *)
(* the chunks are looked up.                                                *)
BeginManifest(c) ==
  LET id == push[c].id IN
  /\ push[c].pc = "upload" /\ push[c].unchecked = {}
  /\ push[c].missing \subseteq push[c].uploaded
  /\ manifests' = manifests \cup {id}
  /\ unread' = unread \cup {id}
  /\ refs' = [refs EXCEPT ![id] = push[c].files]
  /\ late' = IF BeingRemoved(id) THEN late \cup {id} ELSE late
  /\ StillLive(manifests', refs')
  /\ push' = [push EXCEPT ![c].pc = "commit"]
  /\ UNCHANGED <<snapshots, chunks, torn, writes, gc, prune, del,
                 created, raced, deleted, broken>>

EndManifest(c) ==
  /\ push[c].pc = "commit"
  /\ unread' = unread \ {push[c].id}
  /\ push' = [push EXCEPT ![c] = IdlePush]
  /\ UNCHANGED <<snapshots, manifests, refs, chunks, torn, writes, gc, prune, del, history>>

CutManifest(c) ==
  /\ push[c].pc = "commit"
  /\ push' = [push EXCEPT ![c] = IdlePush]
  /\ UNCHANGED <<store, gc, prune, del, history>>

(* Any error ends the push, wherever it is; nothing it stored is undone, and *)
(* the server goes on with what it is writing.                              *)
PushFail(c) ==
  /\ push[c].pc \in {"walk", "upload"}
  /\ push' = [push EXCEPT ![c] = IdlePush]
  /\ UNCHANGED <<store, gc, prune, del, history>>

-----------------------------------------------------------------------------
(* Chunk garbage collection: gc_chunks.                                     *)

GcStart(g) ==
  /\ gc[g].pc = "idle"
  /\ gc' = [gc EXCEPT ![g].pc = "mark", ![g].todo = manifests]
  /\ live' = [live EXCEPT ![g] = RefsOf(manifests, refs)]
  /\ raced' = raced \cup PushingIds
  /\ UNCHANGED <<store, push, prune, del, created, late, deleted, broken>>

(* Variant: a listed manifest that is gone by now is passed over. *)
GcMarkTolerant(g, i) ==
  /\ gc[g].pc = "mark" /\ i \in gc[g].todo
  /\ gc' = [gc EXCEPT ![g].todo = @ \ {i},
                      ![g].marked = IF i \in manifests THEN @ \cup refs[i] ELSE @]
  /\ UNCHANGED <<store, push, prune, del, history>>

(* A listed manifest that is gone by now is a 404 and one that is not whole  *)
(* cannot be decoded: both end the request.                                 *)
GcMark(g, i) ==
  /\ gc[g].pc = "mark" /\ i \in gc[g].todo
  /\ \/ /\ i \in manifests \ unread
        /\ gc' = [gc EXCEPT ![g].todo = @ \ {i}, ![g].marked = @ \cup refs[i]]
     \/ /\ i \notin manifests \ unread
        /\ gc' = [gc EXCEPT ![g] = IdleGc]
  /\ UNCHANGED <<store, push, prune, del, history>>

(* Lists the chunks; max_delete leaves the first of the unreferenced ones   *)
(* and a dry run none.                                                      *)
GcListChunks(g) ==
  /\ gc[g].pc = "mark" /\ gc[g].todo = {}
  /\ \E U \in SUBSET (chunks \ gc[g].marked) :
       gc' = [gc EXCEPT ![g].pc = "sweep", ![g].doomed = U]
  /\ UNCHANGED <<store, push, prune, del, history>>

GcSweep(g, h) ==
  /\ gc[g].pc = "sweep" /\ h \in gc[g].doomed
  /\ chunks' = chunks \ {h}
  /\ torn' = torn \ {h}
  /\ broken' = broken \ {h}
  /\ writes' = [writes EXCEPT ![h] = [c \in Clients |->
                   IF writes[h][c] = "none" THEN "none" ELSE "unlinked"]]
  /\ gc' = [gc EXCEPT ![g].doomed = @ \ {h}]
  /\ UNCHANGED <<snapshots, manifests, refs, unread, push, prune, del,
                 created, live, raced, late, deleted>>

(* The answer, or a storage error or a server crash before it. *)
GcEnd(g) ==
  /\ gc[g].pc # "idle"
  /\ gc' = [gc EXCEPT ![g] = IdleGc]
  /\ UNCHANGED <<store, push, prune, del, history>>

-----------------------------------------------------------------------------
(* Retention: prune_snapshots, which deletes each manifest before its meta. *)

PruneStart(p) ==
  /\ prune[p].pc = "idle"
  /\ \E r \in Requests :
       /\ HasKeepRule(r)
       /\ prune' = [prune EXCEPT ![p] = [pc |-> "load", req |-> r, listed |-> snapshots,
                                          todo |-> snapshots, cur |-> None]]
  /\ UNCHANGED <<store, push, gc, del, history>>

(* load_snapshot_metas: a listed meta that is gone by now ends the request. *)
PruneLoad(p, m) ==
  /\ prune[p].pc = "load" /\ m \in prune[p].todo
  /\ \/ m \in snapshots /\ prune' = [prune EXCEPT ![p].todo = @ \ {m}]
     \/ m \notin snapshots /\ prune' = [prune EXCEPT ![p] = IdlePrune]
  /\ UNCHANGED <<store, push, gc, del, history>>

PruneSelect(p) ==
  /\ prune[p].pc = "load" /\ prune[p].todo = {}
  /\ \E now \in Times :
       prune' = [prune EXCEPT ![p].pc = "manifest",
                              ![p].todo = Victims(prune[p].listed, prune[p].req, now)]
  /\ UNCHANGED <<store, push, gc, del, history>>

(* Variant: only the metadata is deleted. *)
PruneManifestNot(p, m) ==
  /\ prune[p].pc = "manifest" /\ m \in prune[p].todo
  /\ prune' = [prune EXCEPT ![p].pc = "meta", ![p].cur = m]
  /\ UNCHANGED <<store, push, gc, del, history>>

(* Each group is walked newest first. *)
PruneManifest(p, m) ==
  /\ prune[p].pc = "manifest" /\ m \in prune[p].todo
  /\ \A o \in prune[p].todo : GroupKey(o) = GroupKey(m) => ~Newer(o, m)
  /\ manifests' = manifests \ {m.id}
  /\ unread' = unread \ {m.id}
  /\ StillLive(manifests', refs)
  /\ prune' = [prune EXCEPT ![p].pc = "meta", ![p].cur = m]
  /\ UNCHANGED <<snapshots, refs, chunks, torn, writes, push, gc, del,
                 created, raced, late, deleted, broken>>

PruneMeta(p) ==
  /\ prune[p].pc = "meta"
  /\ snapshots' = {s \in snapshots : s.id # prune[p].cur.id}
  /\ prune' = [prune EXCEPT ![p].pc = "manifest", ![p].todo = @ \ {prune[p].cur},
                            ![p].cur = None]
  /\ UNCHANGED <<manifests, refs, chunks, unread, torn, writes, push, gc, del, history>>

(* The answer (at once for a dry run), a storage error or a server crash.   *)
PruneEnd(p) ==
  /\ prune[p].pc # "idle"
  /\ prune' = [prune EXCEPT ![p] = IdlePrune]
  /\ UNCHANGED <<store, push, gc, del, history>>

-----------------------------------------------------------------------------
(* DELETE /v1/snapshots/:id deletes the meta before the manifest.           *)

DeleteMeta(d) ==
  /\ del[d].pc = "idle"
  /\ \E i \in {m.id : m \in created} :
       /\ snapshots' = {m \in snapshots : m.id # i}
       /\ deleted' = deleted \cup {i}
       /\ del' = [del EXCEPT ![d] = [pc |-> "manifest", id |-> i]]
  /\ UNCHANGED <<manifests, refs, chunks, unread, torn, writes, push, gc, prune,
                 created, live, raced, late, broken>>

DeleteManifest(d) ==
  /\ del[d].pc = "manifest"
  /\ manifests' = manifests \ {del[d].id}
  /\ unread' = unread \ {del[d].id}
  /\ StillLive(manifests', refs)
  /\ del' = [del EXCEPT ![d] = IdleDel]
  /\ UNCHANGED <<snapshots, refs, chunks, torn, writes, push, gc, prune,
                 created, raced, late, deleted, broken>>

DeleteFail(d) ==
  /\ del[d].pc # "idle"
  /\ del' = [del EXCEPT ![d] = IdleDel]
  /\ UNCHANGED <<store, push, gc, prune, history>>

-----------------------------------------------------------------------------

Push(c)   == \/ CreateSnapshot(c) \/ HashFolder(c) \/ PushFail(c)
             \/ BeginManifest(c) \/ EndManifest(c) \/ CutManifest(c)
             \/ \E h \in Chunks : \/ CheckPresence(c, h) \/ BeginChunk(c, h)
                                 \/ EndChunk(c, h) \/ CutChunk(c, h)
Gc(g)     == \/ GcStart(g) \/ GcListChunks(g) \/ GcEnd(g)
             \/ \E i \in Ids : GcMark(g, i)
             \/ \E h \in Chunks : GcSweep(g, h)
Prune(p)  == \/ PruneStart(p) \/ PruneSelect(p) \/ PruneMeta(p) \/ PruneEnd(p)
             \/ \E m \in prune[p].todo : PruneLoad(p, m) \/ PruneManifest(p, m)
Delete(d) == DeleteMeta(d) \/ DeleteManifest(d) \/ DeleteFail(d)

Next ==
  \/ \E c \in Clients  : Push(c)
  \/ \E g \in Gcs      : Gc(g)
  \/ \E p \in Pruners  : Prune(p)
  \/ \E d \in Deleters : Delete(d)

Spec == Init /\ [][Next]_vars

-----------------------------------------------------------------------------

(* A chunk that some stored manifest referred to at every instant since a   *)
(* gc_chunks request listed the manifests is never on that request's list   *)
(* of chunks to delete, although manifests come and go while it reads them. *)
GcSparesLive == \A g \in Gcs : live[g] \cap gc[g].doomed = {}

(* The chunks the file of which some writer truncated last and still writes. *)
BeingWritten == {h \in Chunks : \E c \in Clients : writes[h][c] = "last"}

(* The push protocol (presence check, upload, then manifest) leaves every   *)
(* chunk of every stored manifest in the store, unless a GC ran between its *)
(* presence check and its manifest: later GCs, prunes and DELETEs never     *)
(* take them.  They are whole too, with one exception: the presence check   *)
(* accepts torn chunks, and another push that uploads the chunk again       *)
(* truncates it, so it may be in a PUT that is not over or was cut short.   *)
UnracedRestorable ==
  \A i \in manifests \ raced :
    refs[i] \subseteq chunks /\ refs[i] \cap torn \subseteq broken \cup BeingWritten

(* A manifest without metadata, invisible to listing and prune, is the      *)
(* trace of a DELETE (which removes the metadata first) or of a push that   *)
(* ended while or after its snapshot was removed; a crash of prune between  *)
(* its two deletes leaves none.                                             *)
OrphansExplained ==
  manifests \ {m.id : m \in snapshots} \subseteq late \cup deleted

(* Concurrent prunes whose rules keep something never delete the newest     *)
(* snapshot a device group has ever had.                                    *)
NewestSurvives ==
  (\A r \in Requests : HasKeepRule(r) => KeepsNewest(r))
    => \A m \in created :
         (\A o \in created : GroupKey(o) = GroupKey(m) => ~Newer(o, m))
            => m \in snapshots \/ m.id \in deleted

-----------------------------------------------------------------------------
(* The inductive invariant behind GcSparesLive and UnracedRestorable.       *)

CreatedIds == {m.id : m \in created}
Pushing(c) == push[c].pc # "idle"

(* A push owns a fresh id that no manifest and no GC listing has before its *)
(* commit: each manifest is written once.                                   *)
IdInv ==
  /\ snapshots \subseteq created
  /\ manifests \subseteq CreatedIds
  /\ \A g \in Gcs : gc[g].todo \subseteq CreatedIds
  /\ \A c \in Clients : Pushing(c) =>
       /\ push[c].id \in CreatedIds
       /\ push[c].pc # "commit" =>
            push[c].id \notin manifests /\ \A g \in Gcs : push[c].id \notin gc[g].todo
       /\ \A b \in Clients : Pushing(b) /\ b # c => push[b].id # push[c].id

(* While a GC marks, each live chunk is marked or in a manifest still to be *)
(* read: if that one has been deleted by then, the read ends the GC.        *)
GcInv ==
  \A g \in Gcs :
    /\ gc[g].pc # "sweep" => gc[g].doomed = {}
    /\ gc[g].pc = "mark"  => live[g] \subseteq gc[g].marked \cup RefsOf(gc[g].todo, refs)
    /\ gc[g].pc = "sweep" => live[g] \cap gc[g].doomed = {}

(* Without a GC in between, what a push has seen or uploaded stays; with a  *)
(* GC, what earlier pushes committed is live for it.                        *)
RestoreInv ==
  /\ \A i \in manifests \ raced :
       /\ refs[i] \subseteq chunks
       /\ \A g \in Gcs : gc[g].pc # "idle" => refs[i] \subseteq live[g]
  /\ \A c \in Clients : push[c].pc = "walk" =>
       push[c].uploaded = {} /\ \A h \in Chunks : writes[h][c] = "none"
  /\ \A c \in Clients : push[c].pc = "upload" =>
       \/ push[c].id \in raced
       \/ /\ ~GcRunning
          /\ push[c].files \subseteq push[c].unchecked \cup push[c].missing \cup chunks
          /\ push[c].uploaded \subseteq chunks
          /\ \A h \in Chunks \ chunks : writes[h][c] = "none"

(* A chunk is torn only while the write that truncated it last is under way *)
(* or when that one was cut short.                                          *)
TornInv == torn \subseteq broken \cup BeingWritten

SafetyInv == IdInv /\ GcInv /\ RestoreInv /\ TornInv

-----------------------------------------------------------------------------
(* The inductive invariants behind OrphansExplained and NewestSurvives.     *)

OrphanInv ==
  /\ OrphansExplained
  /\ \A p \in Pruners : prune[p].pc = "meta" /\ prune[p].cur.id \in manifests =>
       prune[p].cur.id \in late \cup deleted

Outranked(m) == \E o \in created : GroupKey(o) = GroupKey(m) /\ Newer(o, m)
RulesKeepNewest == \A r \in Requests : HasKeepRule(r) => KeepsNewest(r)

(* What a prune is going to delete was outranked when it listed the metas,  *)
(* and stays so.                                                            *)
DeletesOutranked(p) ==
  /\ prune[p].pc # "idle" => HasKeepRule(prune[p].req)
  /\ prune[p].listed \subseteq created
  /\ prune[p].pc \in {"manifest", "meta"} =>
       prune[p].todo \subseteq {m \in created : Outranked(m)}
  /\ prune[p].pc = "meta" => prune[p].cur \in prune[p].todo

NewestInv ==
  /\ \A m, o \in created : m.id = o.id => m = o
  /\ \A p \in Pruners : DeletesOutranked(p)
  /\ \A m \in created : Outranked(m) \/ m \in snapshots \/ m.id \in deleted

RemovalInv == OrphanInv /\ (RulesKeepNewest => NewestInv)
=============================================================================
