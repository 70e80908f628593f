---------------------------- MODULE Server_proofs ----------------------------
(***************************************************************************)
(* Proofs about the components of the server, for every number of clients, *)
(* requests, devices, snapshots and chunks.  The three specifications      *)
(* share no variable, and each has a part of its own here:                 *)
(*   Spec          module SnapshotStore, the objects and their handlers    *)
(*   LoopSpec      module RetentionLoop, what a prune keeps                *)
(*   RegistrySpec  module DeviceRegistry, devices and their heartbeats     *)
(***************************************************************************)
EXTENDS SnapshotStore, RetentionLoop, DeviceRegistry, LeastNumber, FiniteSetTheorems, TLAPS

(***************************************************************************)
(*                             The snapshot store                          *)
(***************************************************************************)

-----------------------------------------------------------------------------
(* What is known of a request's record from the step it has reached.       *)

LEMMA ActivePushType ==
  ASSUME TypeOK, NEW c \in Clients, push[c].pc # "idle"
  PROVE  push[c] \in ActivePush
BY DEF TypeOK, PushState, IdlePush

LEMMA BetweenDeletesType ==
  ASSUME TypeOK, NEW p \in Pruners, prune[p].pc \in {"load", "manifest"}
  PROVE  prune[p] \in BetweenDeletes
BY DEF TypeOK, PruneState, IdlePrune, AmidDeletes

LEMMA AmidDeletesType ==
  ASSUME TypeOK, NEW p \in Pruners, prune[p].pc = "meta"
  PROVE  prune[p] \in AmidDeletes
BY DEF TypeOK, PruneState, IdlePrune, BetweenDeletes

LEMMA HalfDeletedType ==
  ASSUME TypeOK, NEW d \in Deleters, del[d].pc # "idle"
  PROVE  del[d] \in HalfDeleted
BY DEF TypeOK, DelState, IdleDel

-----------------------------------------------------------------------------

LEMMA PushTyped ==
  ASSUME TypeOK, NEW c \in Clients, Push(c) PROVE TypeOK'
<1> USE DEF TypeOK, StoreTypeOK, HistoryTypeOK, store, history
<1>1. CASE CreateSnapshot(c)
  <2>1. push' \in [Clients -> PushState]
    BY <1>1 DEF CreateSnapshot, Meta, PushState, ActivePush
  <2> QED BY <1>1, <2>1 DEF CreateSnapshot
<1>2. CASE HashFolder(c)
  <2>1. push[c] \in ActivePush
    BY <1>2, ActivePushType DEF HashFolder
  <2>2. push' \in [Clients -> PushState]
    <3>1. PICK S \in SUBSET Chunks :
            push' = [push EXCEPT ![c].pc = "upload", ![c].files = S, ![c].unchecked = S]
      BY <1>2 DEF HashFolder
    <3>2. push'[c] \in ActivePush
      BY <2>1, <3>1 DEF ActivePush
    <3> QED BY <3>1, <3>2 DEF PushState
  <2>3. push[c].id \in Ids
    BY <2>1 DEF ActivePush
  <2> QED BY <1>2, <2>2, <2>3 DEF HashFolder
<1>3. CASE BeginManifest(c)
  <2>1. push[c] \in ActivePush
    BY <1>3, ActivePushType DEF BeginManifest
  <2>2. push[c].id \in Ids /\ push[c].files \in SUBSET Chunks
    BY <2>1 DEF ActivePush
  <2>3. push' \in [Clients -> PushState]
    <3>1. push'[c] \in ActivePush
      BY <1>3, <2>1 DEF BeginManifest, ActivePush
    <3> QED BY <1>3, <3>1 DEF BeginManifest, PushState
  <2> QED BY <1>3, <2>2, <2>3 DEF BeginManifest, StillLive
<1>4. CASE PushFail(c) \/ CutManifest(c) \/ EndManifest(c)
  <2>1. push' \in [Clients -> PushState]
    BY <1>4 DEF PushFail, CutManifest, EndManifest, PushState
  <2> QED BY <1>4, <2>1 DEF PushFail, CutManifest, EndManifest
<1>5. ASSUME NEW h \in Chunks, CheckPresence(c, h) PROVE TypeOK'
  <2>1. push[c] \in ActivePush
    BY <1>5, ActivePushType DEF CheckPresence
  <2>2. push' \in [Clients -> PushState]
    BY <1>5, <2>1 DEF CheckPresence, PushState, ActivePush
  <2> QED BY <1>5, <2>2 DEF CheckPresence
<1>6. ASSUME NEW h \in Chunks, BeginChunk(c, h) PROVE TypeOK'
  <2>1. push[c] \in ActivePush
    BY <1>6, ActivePushType DEF BeginChunk
  <2>2. push' \in [Clients -> PushState]
    BY <1>6, <2>1 DEF BeginChunk, PushState, ActivePush
  <2>3. writes' \in [Chunks -> [Clients -> WriteState]]
    BY <1>6 DEF BeginChunk, WriteState
  <2> QED BY <1>6, <2>2, <2>3 DEF BeginChunk
<1>7. ASSUME NEW h \in Chunks, EndChunk(c, h) PROVE TypeOK'
  <2>1. push' \in [Clients -> PushState]
    <3>1. CASE push[c].pc = "upload"
      <4>1. push[c] \in ActivePush
        BY <3>1, ActivePushType
      <4> QED BY <1>7, <3>1, <4>1 DEF EndChunk, PushState, ActivePush
    <3>2. CASE push[c].pc # "upload"
      BY <1>7, <3>2 DEF EndChunk
    <3> QED BY <3>1, <3>2
  <2>2. writes' \in [Chunks -> [Clients -> WriteState]]
    BY <1>7 DEF EndChunk, WriteState
  <2> QED BY <1>7, <2>1, <2>2 DEF EndChunk
<1>8. ASSUME NEW h \in Chunks, CutChunk(c, h) PROVE TypeOK'
  <2>1. writes' \in [Chunks -> [Clients -> WriteState]]
    BY <1>8 DEF CutChunk, WriteState
  <2> QED BY <1>8, <2>1 DEF CutChunk
<1> QED BY <1>1, <1>2, <1>3, <1>4, <1>5, <1>6, <1>7, <1>8 DEF Push

LEMMA GcTyped ==
  ASSUME TypeOK, NEW g \in Gcs, Gc(g) PROVE TypeOK'
<1> USE DEF TypeOK, StoreTypeOK, HistoryTypeOK, store, history
<1>1. CASE GcStart(g)
  <2>1. gc' \in [Gcs -> GcState]
    BY ZenonT(60), <1>1 DEF GcStart, GcState
  <2>2. \A c \in Clients : push[c].pc = "upload" => push[c].id \in Ids
    BY ActivePushType DEF ActivePush
  <2>3. PushingIds \subseteq Ids
    BY <2>2 DEF PushingIds
  <2>4. RefsOf(manifests, refs) \subseteq Chunks
    BY DEF RefsOf
  <2> QED BY <1>1, <2>1, <2>3, <2>4 DEF GcStart
<1>2. CASE GcListChunks(g)
  <2>1. PICK U \in SUBSET (chunks \ gc[g].marked) :
          gc' = [gc EXCEPT ![g].pc = "sweep", ![g].doomed = U]
    BY <1>2 DEF GcListChunks
  <2>2. gc' \in [Gcs -> GcState]
    BY ZenonT(60), <2>1 DEF GcState
  <2> QED BY <1>2, <2>2 DEF GcListChunks
<1>3. CASE GcEnd(g)
  <2>1. gc' \in [Gcs -> GcState]
    BY <1>3 DEF GcEnd, GcState, IdleGc
  <2> QED BY <1>3, <2>1 DEF GcEnd
<1>4. ASSUME NEW n \in Ids, GcMark(g, n) PROVE TypeOK'
  <2>1. gc' \in [Gcs -> GcState]
    <3>1. CASE n \in manifests \ unread
      <4>1. gc' = [gc EXCEPT ![g].todo = @ \ {n}, ![g].marked = @ \cup refs[n]]
        BY <1>4, <3>1 DEF GcMark
      <4> QED BY <4>1 DEF GcState
    <3>2. CASE n \notin manifests \ unread
      <4>1. gc' = [gc EXCEPT ![g] = IdleGc]
        BY <1>4, <3>2 DEF GcMark
      <4> QED BY <4>1 DEF GcState, IdleGc
    <3> QED BY <3>1, <3>2
  <2> QED BY <1>4, <2>1 DEF GcMark
<1>5. ASSUME NEW h \in Chunks, GcSweep(g, h) PROVE TypeOK'
  <2>1. gc' \in [Gcs -> GcState]
    <3>1. gc' = [gc EXCEPT ![g].doomed = @ \ {h}]
      BY <1>5 DEF GcSweep
    <3> QED BY SMTT(60), <3>1 DEF GcState
  <2>2. writes' \in [Chunks -> [Clients -> WriteState]]
    BY <1>5 DEF GcSweep, WriteState
  <2> QED BY <1>5, <2>1, <2>2 DEF GcSweep
<1> QED BY <1>1, <1>2, <1>3, <1>4, <1>5 DEF Gc

LEMMA PruneTyped ==
  ASSUME TypeOK, NEW p \in Pruners, Prune(p) PROVE TypeOK'
<1> USE DEF TypeOK, StoreTypeOK, HistoryTypeOK, store, history
<1>1. CASE PruneStart(p)
  <2>1. prune' \in [Pruners -> PruneState]
    BY <1>1 DEF PruneStart, PruneState, BetweenDeletes
  <2> QED BY <1>1, <2>1 DEF PruneStart
<1>2. CASE PruneSelect(p)
  <2>1. prune[p] \in BetweenDeletes
    BY <1>2, BetweenDeletesType DEF PruneSelect
  <2>2. \A t : Victims(prune[p].listed, prune[p].req, t) \subseteq Meta
    BY <2>1 DEF Victims, BetweenDeletes
  <2>3. prune' \in [Pruners -> PruneState]
    <3>1. PICK t \in Times :
            prune' = [prune EXCEPT ![p].pc = "manifest",
                        ![p].todo = Victims(prune[p].listed, prune[p].req, t)]
      BY <1>2 DEF PruneSelect
    <3>2. prune'[p] \in BetweenDeletes
      BY <2>1, <2>2, <3>1 DEF BetweenDeletes
    <3> QED BY <3>1, <3>2 DEF PruneState
  <2> QED BY <1>2, <2>3 DEF PruneSelect
<1>3. CASE PruneMeta(p)
  <2>1. prune[p] \in AmidDeletes
    BY <1>3, AmidDeletesType DEF PruneMeta
  <2>2. prune' \in [Pruners -> PruneState]
    BY <1>3, <2>1 DEF PruneMeta, PruneState, AmidDeletes, BetweenDeletes
  <2> QED BY <1>3, <2>2 DEF PruneMeta
<1>4. CASE PruneEnd(p)
  <2>1. prune' \in [Pruners -> PruneState]
    BY <1>4 DEF PruneEnd, PruneState
  <2> QED BY <1>4, <2>1 DEF PruneEnd
<1>5. ASSUME NEW m \in prune[p].todo, PruneLoad(p, m) PROVE TypeOK'
  <2>1. prune[p] \in BetweenDeletes
    BY <1>5, BetweenDeletesType DEF PruneLoad
  <2>2. prune' \in [Pruners -> PruneState]
    <3>1. CASE m \in snapshots
      BY <1>5, <2>1, <3>1 DEF PruneLoad, PruneState, BetweenDeletes
    <3>2. CASE m \notin snapshots
      BY <1>5, <3>2 DEF PruneLoad, PruneState
    <3> QED BY <3>1, <3>2
  <2> QED BY <1>5, <2>2 DEF PruneLoad
<1>6. ASSUME NEW m \in prune[p].todo, PruneManifest(p, m) PROVE TypeOK'
  <2>1. prune[p] \in BetweenDeletes
    BY <1>6, BetweenDeletesType DEF PruneManifest
  <2>2. prune' \in [Pruners -> PruneState]
    BY <1>6, <2>1 DEF PruneManifest, PruneState, BetweenDeletes, AmidDeletes
  <2> QED BY <1>6, <2>2 DEF PruneManifest, StillLive
<1> QED BY <1>1, <1>2, <1>3, <1>4, <1>5, <1>6 DEF Prune

LEMMA DeleteTyped ==
  ASSUME TypeOK, NEW d \in Deleters, Delete(d) PROVE TypeOK'
<1> USE DEF TypeOK, StoreTypeOK, HistoryTypeOK, store, history
<1>1. CASE DeleteMeta(d)
  <2>1. PICK n \in {m.id : m \in created} :
          /\ snapshots' = {m \in snapshots : m.id # n}
          /\ deleted' = deleted \cup {n}
          /\ del' = [del EXCEPT ![d] = [pc |-> "manifest", id |-> n]]
    BY <1>1 DEF DeleteMeta
  <2>2. n \in Ids
    BY DEF Meta
  <2>3. del' \in [Deleters -> DelState]
    BY <2>1, <2>2 DEF DelState, HalfDeleted
  <2> QED BY <1>1, <2>1, <2>2, <2>3 DEF DeleteMeta
<1>2. CASE DeleteManifest(d)
  <2>1. del' \in [Deleters -> DelState]
    BY <1>2 DEF DeleteManifest, DelState
  <2> QED BY <1>2, <2>1 DEF DeleteManifest, StillLive
<1>3. CASE DeleteFail(d)
  <2>1. del' \in [Deleters -> DelState]
    BY <1>3 DEF DeleteFail, DelState
  <2> QED BY <1>3, <2>1 DEF DeleteFail
<1> QED BY <1>1, <1>2, <1>3 DEF Delete

(* Every variable holds a value of its type in every reachable state: no    *)
(* handler keeps an id or a record of a request that has already ended.     *)
THEOREM TypeCorrect == Spec => []TypeOK
<1>1. Init => TypeOK
  BY DEF Init, TypeOK, StoreTypeOK, HistoryTypeOK, PushState, GcState, IdleGc,
         PruneState, DelState, WriteState
<1>2. TypeOK /\ [Next]_vars => TypeOK'
  <2>1. TypeOK /\ UNCHANGED vars => TypeOK'
    BY DEF TypeOK, StoreTypeOK, HistoryTypeOK, vars
  <2> QED BY <2>1, PushTyped, GcTyped, PruneTyped, DeleteTyped DEF Next
<1> QED BY <1>1, <1>2, PTL DEF Spec

-----------------------------------------------------------------------------
(* IdInv: a push owns its id until its manifest is stored.                  *)

LEMMA IdInvPush ==
  ASSUME TypeOK, IdInv, NEW c \in Clients, Push(c) PROVE IdInv'
<1> USE DEF IdInv, Pushing, CreatedIds, TypeOK, store, history
<1>1. CASE CreateSnapshot(c)
  <2>1. PICK m \in Meta :
          /\ m.id \notin CreatedIds
          /\ snapshots' = snapshots \cup {m}
          /\ created' = created \cup {m}
          /\ push' = [push EXCEPT ![c] = [pc |-> "walk", id |-> m.id, files |-> {},
                                   unchecked |-> {}, missing |-> {}, uploaded |-> {}]]
    BY <1>1 DEF CreateSnapshot
  <2>2. CreatedIds' = CreatedIds \cup {m.id}
    BY <2>1
  <2>3. push'[c].id = m.id /\ \A b \in Clients \ {c} : push'[b] = push[b]
    BY <2>1
  <2>4. manifests' = manifests /\ gc' = gc
    BY <1>1 DEF CreateSnapshot
  <2> QED BY <2>1, <2>2, <2>3, <2>4
<1>2. CASE HashFolder(c)
  <2>1. PICK S \in SUBSET Chunks :
          push' = [push EXCEPT ![c].pc = "upload", ![c].files = S, ![c].unchecked = S]
    BY <1>2 DEF HashFolder
  <2>2. push[c] \in ActivePush
    BY <1>2, ActivePushType DEF HashFolder
  <2>3. push'[c].id = push[c].id /\ \A b \in Clients \ {c} : push'[b] = push[b]
    BY <2>1, <2>2 DEF ActivePush
  <2> QED BY <1>2, <2>3 DEF HashFolder
<1>3. CASE BeginManifest(c)
  <2>1. /\ manifests' = manifests \cup {push[c].id}
        /\ gc' = gc /\ created' = created /\ snapshots' = snapshots
        /\ push[c].pc = "upload"
    BY <1>3 DEF BeginManifest
  <2>2. push[c] \in ActivePush
    BY <2>1, ActivePushType
  <2>3. /\ push'[c].pc = "commit" /\ push'[c].id = push[c].id
        /\ \A b \in Clients \ {c} : push'[b] = push[b]
    BY <1>3, <2>2 DEF BeginManifest, ActivePush
  <2> QED BY <2>1, <2>3
<1>4. CASE PushFail(c) \/ CutManifest(c) \/ EndManifest(c)
  <2>1. push'[c].pc = "idle" /\ \A b \in Clients \ {c} : push'[b] = push[b]
    BY <1>4 DEF PushFail, CutManifest, EndManifest, IdlePush
  <2> QED BY <1>4, <2>1 DEF PushFail, CutManifest, EndManifest
<1>5. ASSUME NEW h \in Chunks, CheckPresence(c, h) PROVE IdInv'
  <2>1. push[c] \in ActivePush
    BY <1>5, ActivePushType DEF CheckPresence
  <2>2. push'[c].id = push[c].id /\ \A b \in Clients \ {c} : push'[b] = push[b]
    BY <1>5, <2>1 DEF CheckPresence, ActivePush
  <2> QED BY <1>5, <2>2 DEF CheckPresence
<1>6. ASSUME NEW h \in Chunks, BeginChunk(c, h) \/ EndChunk(c, h) \/ CutChunk(c, h)
      PROVE  IdInv'
  <2>1. \A b \in Clients : push'[b].pc = push[b].pc /\ push'[b].id = push[b].id
    <3>1. CASE push[c].pc = "upload"
      <4>1. push[c] \in ActivePush
        BY <3>1, ActivePushType
      <4> QED BY <1>6, <3>1, <4>1 DEF BeginChunk, EndChunk, CutChunk, ActivePush
    <3>2. CASE push[c].pc # "upload"
      BY <1>6, <3>2 DEF BeginChunk, EndChunk, CutChunk
    <3> QED BY <3>1, <3>2
  <2>2. manifests' = manifests /\ gc' = gc /\ created' = created /\ snapshots' = snapshots
    BY <1>6 DEF BeginChunk, EndChunk, CutChunk
  <2> QED BY <2>1, <2>2
<1> QED BY <1>1, <1>2, <1>3, <1>4, <1>5, <1>6 DEF Push

LEMMA IdInvGc ==
  ASSUME TypeOK, IdInv, NEW g \in Gcs, Gc(g) PROVE IdInv'
<1>1. push' = push /\ created' = created /\ snapshots' = snapshots /\ manifests' = manifests
  BY DEF Gc, GcStart, GcListChunks, GcEnd, GcMark, GcSweep, store, history
<1>2. \A f \in Gcs : gc'[f].todo \subseteq gc[f].todo \cup manifests
  <2> USE DEF TypeOK, GcState
  <2>1. CASE GcStart(g)
    BY <2>1 DEF GcStart
  <2>2. CASE GcListChunks(g)
    <3>1. PICK U \in SUBSET (chunks \ gc[g].marked) :
            gc' = [gc EXCEPT ![g].pc = "sweep", ![g].doomed = U]
      BY <2>2 DEF GcListChunks
    <3> QED BY <3>1
  <2>3. CASE GcEnd(g)
    BY <2>3 DEF GcEnd, IdleGc
  <2>4. ASSUME NEW n \in Ids, GcMark(g, n)
        PROVE  \A f \in Gcs : gc'[f].todo \subseteq gc[f].todo \cup manifests
    <3>1. CASE n \in manifests \ unread
      BY <2>4, <3>1 DEF GcMark
    <3>2. CASE n \notin manifests \ unread
      BY <2>4, <3>2 DEF GcMark, IdleGc
    <3> QED BY <3>1, <3>2
  <2>5. ASSUME NEW h \in Chunks, GcSweep(g, h)
        PROVE  \A f \in Gcs : gc'[f].todo \subseteq gc[f].todo \cup manifests
    BY <2>5 DEF GcSweep
  <2> QED BY <2>1, <2>2, <2>3, <2>4, <2>5 DEF Gc
<1> QED BY <1>1, <1>2 DEF IdInv, Pushing, CreatedIds

LEMMA IdInvRemove ==
  ASSUME TypeOK, IdInv,
         \/ \E p \in Pruners : Prune(p)
         \/ \E d \in Deleters : Delete(d)
  PROVE  IdInv'
<1>1. /\ push' = push /\ created' = created /\ gc' = gc
      /\ snapshots' \subseteq snapshots /\ manifests' \subseteq manifests
  BY DEF Prune, PruneStart, PruneSelect, PruneMeta, PruneEnd, PruneLoad, PruneManifest,
         Delete, DeleteMeta, DeleteManifest, DeleteFail, store, history
<1> QED BY <1>1 DEF IdInv, Pushing, CreatedIds

LEMMA IdInvInductive ==
  ASSUME TypeOK, IdInv, [Next]_vars PROVE IdInv'
<1>1. CASE UNCHANGED vars
  BY <1>1 DEF vars, IdInv, Pushing, CreatedIds
<1> QED BY <1>1, IdInvPush, IdInvGc, IdInvRemove DEF Next

-----------------------------------------------------------------------------
(* GcInv: what is live for a GC is marked, or is still going to be.         *)

(* Nothing but the GC itself changes its record, and a manifest it has yet  *)
(* to read is never rewritten; the live chunks only become fewer.           *)
LEMMA GcInvFrame ==
  ASSUME TypeOK, GcInv, gc' = gc,
         \A g \in Gcs : live'[g] \subseteq live[g],
         \A g \in Gcs : \A n \in gc[g].todo : refs'[n] = refs[n]
  PROVE  GcInv'
<1> SUFFICES ASSUME NEW g \in Gcs
             PROVE  /\ gc[g].pc # "sweep" => gc[g].doomed = {}
                    /\ gc[g].pc = "mark" =>
                         live'[g] \subseteq gc[g].marked \cup RefsOf(gc[g].todo, refs')
                    /\ gc[g].pc = "sweep" => live'[g] \cap gc[g].doomed = {}
  BY DEF GcInv
<1>1. RefsOf(gc[g].todo, refs') = RefsOf(gc[g].todo, refs)
  BY DEF RefsOf
<1> QED BY <1>1 DEF GcInv

LEMMA GcInvPush ==
  ASSUME TypeOK, IdInv, GcInv, NEW c \in Clients, Push(c) PROVE GcInv'
<1>1. gc' = gc
  BY DEF Push, CreateSnapshot, HashFolder, BeginManifest, EndManifest, CutManifest,
         PushFail, CheckPresence, BeginChunk, EndChunk, CutChunk, store, history
<1>2. \A g \in Gcs : live'[g] \subseteq live[g]
  <2>1. CASE BeginManifest(c)
    BY <2>1 DEF BeginManifest, StillLive
  <2>2. CASE ~BeginManifest(c)
    BY <2>2 DEF Push, CreateSnapshot, HashFolder, EndManifest, CutManifest, PushFail,
                CheckPresence, BeginChunk, EndChunk, CutChunk, store, history
  <2> QED BY <2>1, <2>2
<1>3. \A g \in Gcs : \A n \in gc[g].todo : refs'[n] = refs[n]
  <2>1. CASE BeginManifest(c)
    <3>1. \A g \in Gcs : push[c].id \notin gc[g].todo
      BY <2>1 DEF BeginManifest, IdInv, Pushing
    <3>2. refs' = [refs EXCEPT ![push[c].id] = push[c].files]
      BY <2>1 DEF BeginManifest
    <3> QED BY <3>1, <3>2 DEF TypeOK, StoreTypeOK, GcState
  <2>2. CASE ~BeginManifest(c)
    BY <2>2 DEF Push, CreateSnapshot, HashFolder, EndManifest, CutManifest, PushFail,
                CheckPresence, BeginChunk, EndChunk, CutChunk, store, history
  <2> QED BY <2>1, <2>2
<1> QED BY <1>1, <1>2, <1>3, GcInvFrame

LEMMA GcInvRemove ==
  ASSUME TypeOK, GcInv,
         \/ \E p \in Pruners : Prune(p)
         \/ \E d \in Deleters : Delete(d)
  PROVE  GcInv'
<1>1. gc' = gc /\ refs' = refs
  BY DEF Prune, PruneStart, PruneSelect, PruneMeta, PruneEnd, PruneLoad, PruneManifest,
         Delete, DeleteMeta, DeleteManifest, DeleteFail, store, history
<1>2. \A g \in Gcs : live'[g] \subseteq live[g]
  BY DEF Prune, PruneStart, PruneSelect, PruneMeta, PruneEnd, PruneLoad, PruneManifest,
         Delete, DeleteMeta, DeleteManifest, DeleteFail, StillLive, store, history
<1> QED BY <1>1, <1>2, GcInvFrame

LEMMA GcInvGc ==
  ASSUME TypeOK, GcInv, NEW g \in Gcs, Gc(g) PROVE GcInv'
<1> USE DEF TypeOK, GcState
<1>1. CASE GcStart(g)
  <2>1. /\ gc' = [gc EXCEPT ![g].pc = "mark", ![g].todo = manifests]
        /\ live' = [live EXCEPT ![g] = RefsOf(manifests, refs)]
        /\ refs' = refs /\ gc[g].pc = "idle"
    BY <1>1 DEF GcStart, store
  <2>2. /\ gc'[g].pc = "mark" /\ gc'[g].todo = manifests /\ gc'[g].doomed = gc[g].doomed
        /\ \A f \in Gcs \ {g} : gc'[f] = gc[f]
    BY <2>1
  <2>3. live'[g] = RefsOf(manifests, refs) /\ \A f \in Gcs \ {g} : live'[f] = live[f]
    BY <2>1 DEF HistoryTypeOK
  <2>4. gc[g].doomed = {}
    BY <2>1 DEF GcInv
  <2> QED BY <2>1, <2>2, <2>3, <2>4 DEF GcInv
<1>2. CASE GcListChunks(g)
  <2>1. PICK U \in SUBSET (chunks \ gc[g].marked) :
          gc' = [gc EXCEPT ![g].pc = "sweep", ![g].doomed = U]
    BY <1>2 DEF GcListChunks
  <2>2. /\ gc[g].pc = "mark" /\ gc[g].todo = {}
        /\ live' = live /\ refs' = refs
    BY <1>2 DEF GcListChunks, store, history
  <2>3. live[g] \subseteq gc[g].marked
    BY <2>2 DEF GcInv, RefsOf
  <2>4. /\ gc'[g].pc = "sweep" /\ gc'[g].doomed = U
        /\ \A f \in Gcs \ {g} : gc'[f] = gc[f]
    BY <2>1
  <2> QED BY <2>2, <2>3, <2>4 DEF GcInv
<1>3. CASE GcEnd(g)
  <2>1. gc'[g] = IdleGc /\ (\A f \in Gcs \ {g} : gc'[f] = gc[f]) /\ live' = live /\ refs' = refs
    BY <1>3 DEF GcEnd, store, history
  <2> QED BY <2>1 DEF GcInv, IdleGc
<1>4. ASSUME NEW n \in Ids, GcMark(g, n) PROVE GcInv'
  <2>1. live' = live /\ refs' = refs /\ gc[g].pc = "mark"
    BY <1>4 DEF GcMark, store, history
  <2>2. CASE n \in manifests \ unread
    <3>1. /\ gc'[g].pc = "mark" /\ gc'[g].todo = gc[g].todo \ {n}
          /\ gc'[g].marked = gc[g].marked \cup refs[n]
          /\ gc'[g].doomed = gc[g].doomed
          /\ \A f \in Gcs \ {g} : gc'[f] = gc[f]
      BY <1>4, <2>1, <2>2 DEF GcMark
    <3>2. gc[g].marked \cup RefsOf(gc[g].todo, refs)
            \subseteq gc'[g].marked \cup RefsOf(gc'[g].todo, refs)
      BY <3>1 DEF RefsOf
    <3> QED BY <2>1, <3>1, <3>2 DEF GcInv
  <2>3. CASE n \notin manifests \ unread
    <3>1. gc'[g] = IdleGc /\ \A f \in Gcs \ {g} : gc'[f] = gc[f]
      BY <1>4, <2>3 DEF GcMark
    <3> QED BY <2>1, <3>1 DEF GcInv, IdleGc
  <2> QED BY <2>2, <2>3
<1>5. ASSUME NEW h \in Chunks, GcSweep(g, h) PROVE GcInv'
  <2>1. /\ gc[g].pc = "sweep" /\ live' = live /\ refs' = refs
        /\ gc'[g].pc = "sweep" /\ gc'[g].doomed = gc[g].doomed \ {h}
        /\ \A f \in Gcs \ {g} : gc'[f] = gc[f]
    BY <1>5 DEF GcSweep, history
  <2> QED BY <2>1 DEF GcInv
<1> QED BY <1>1, <1>2, <1>3, <1>4, <1>5 DEF Gc

LEMMA GcInvInductive ==
  ASSUME TypeOK, IdInv, GcInv, [Next]_vars PROVE GcInv'
<1>1. CASE UNCHANGED vars
  BY <1>1, GcInvFrame DEF vars
<1> QED BY <1>1, GcInvPush, GcInvGc, GcInvRemove DEF Next

-----------------------------------------------------------------------------
(* RestoreInv: the chunks of a push that met no GC stay.                    *)

LEMMA RestoreInvPush ==
  ASSUME TypeOK, IdInv, RestoreInv, NEW c \in Clients, Push(c) PROVE RestoreInv'
<1> USE DEF TypeOK, StoreTypeOK, HistoryTypeOK
<1>1. gc' = gc
  BY DEF Push, CreateSnapshot, HashFolder, BeginManifest, EndManifest, CutManifest,
         PushFail, CheckPresence, BeginChunk, EndChunk, CutChunk, store, history
<1>2. GcRunning' = GcRunning
  BY <1>1 DEF GcRunning
<1>3. CASE CreateSnapshot(c)
  <2>1. /\ manifests' = manifests /\ raced' = raced /\ refs' = refs
        /\ chunks' = chunks /\ live' = live /\ writes' = writes
        /\ \A h \in Chunks : writes[h][c] = "none"
    BY <1>3 DEF CreateSnapshot
  <2>2. /\ push'[c].pc = "walk" /\ push'[c].uploaded = {}
        /\ \A b \in Clients \ {c} : push'[b] = push[b]
    BY <1>3 DEF CreateSnapshot
  <2> QED BY <1>1, <1>2, <2>1, <2>2 DEF RestoreInv
<1>4. CASE HashFolder(c)
  <2>1. /\ manifests' = manifests /\ refs' = refs /\ chunks' = chunks /\ live' = live
        /\ writes' = writes /\ raced \subseteq raced' /\ (GcRunning => push[c].id \in raced')
        /\ push[c].pc = "walk"
    BY <1>4 DEF HashFolder, store
  <2>2. PICK S \in SUBSET Chunks :
          push' = [push EXCEPT ![c].pc = "upload", ![c].files = S, ![c].unchecked = S]
    BY <1>4 DEF HashFolder
  <2>3. push[c] \in ActivePush
    BY <1>4, ActivePushType DEF HashFolder
  <2>4. /\ push'[c].pc = "upload" /\ push'[c].id = push[c].id
        /\ push'[c].files = S /\ push'[c].unchecked = S
        /\ push'[c].uploaded = push[c].uploaded
        /\ \A b \in Clients \ {c} : push'[b] = push[b]
    BY <2>2, <2>3 DEF ActivePush
  <2> QED BY <1>1, <1>2, <2>1, <2>4 DEF RestoreInv
<1>5. CASE BeginManifest(c)
  <2> DEFINE id == push[c].id
  <2>1. /\ manifests' = manifests \cup {id} /\ raced' = raced /\ chunks' = chunks
        /\ writes' = writes
        /\ push[c].pc = "upload" /\ push[c].unchecked = {}
        /\ push[c].missing \subseteq push[c].uploaded
        /\ live' = [g \in Gcs |-> live[g] \cap RefsOf(manifests', refs')]
        /\ refs' = [refs EXCEPT ![id] = push[c].files]
    BY <1>5 DEF BeginManifest, StillLive
  <2>2. push'[c].pc = "commit" /\ \A b \in Clients \ {c} : push'[b] = push[b]
    <3>1. push[c] \in ActivePush
      BY <2>1, ActivePushType
    <3> QED BY <1>5, <3>1 DEF BeginManifest, ActivePush
  <2>3. id \in Ids /\ id \notin manifests
    BY <2>1, ActivePushType DEF ActivePush, IdInv, Pushing
  <2>4. refs'[id] = push[c].files /\ \A n \in manifests : refs'[n] = refs[n]
    BY <2>1, <2>3
  <2>5. id \notin raced => push[c].files \subseteq chunks /\ ~GcRunning
    BY <2>1 DEF RestoreInv
  <2>6. ASSUME NEW n \in manifests' \ raced'
        PROVE  /\ refs'[n] \subseteq chunks'
               /\ \A g \in Gcs : gc'[g].pc # "idle" => refs'[n] \subseteq live'[g]
    <3>1. CASE n = id
      BY <1>1, <2>1, <2>4, <2>5, <3>1 DEF GcRunning
    <3>2. CASE n # id
      <4>1. n \in manifests /\ refs'[n] = refs[n] /\ refs[n] \subseteq chunks
        BY <2>1, <2>4, <3>2 DEF RestoreInv
      <4>2. refs[n] \subseteq RefsOf(manifests', refs')
        BY <4>1, <2>1 DEF RefsOf
      <4> QED BY <1>1, <2>1, <4>1, <4>2 DEF RestoreInv
    <3> QED BY <3>1, <3>2
  <2>7. \A b \in Clients : push'[b].pc = "walk" =>
          push'[b].uploaded = {} /\ \A h \in Chunks : writes'[h][b] = "none"
    BY <2>1, <2>2 DEF RestoreInv
  <2>8. \A b \in Clients : push'[b].pc = "upload" =>
          \/ push'[b].id \in raced'
          \/ /\ ~GcRunning'
             /\ push'[b].files \subseteq push'[b].unchecked \cup push'[b].missing \cup chunks'
             /\ push'[b].uploaded \subseteq chunks'
             /\ \A h \in Chunks \ chunks' : writes'[h][b] = "none"
    BY <1>2, <2>1, <2>2 DEF RestoreInv
  <2> QED BY <2>6, <2>7, <2>8 DEF RestoreInv
<1>6. CASE PushFail(c) \/ CutManifest(c) \/ EndManifest(c)
  <2>1. push'[c].pc = "idle" /\ \A b \in Clients \ {c} : push'[b] = push[b]
    BY <1>6 DEF PushFail, CutManifest, EndManifest, IdlePush
  <2> QED BY <1>1, <1>2, <1>6, <2>1
       DEF RestoreInv, PushFail, CutManifest, EndManifest, store, history
<1>7. ASSUME NEW h \in Chunks, CheckPresence(c, h) PROVE RestoreInv'
  <2>1. push[c] \in ActivePush
    BY <1>7, ActivePushType DEF CheckPresence
  <2>2. /\ push'[c].pc = "upload" /\ push'[c].id = push[c].id
        /\ push'[c].files = push[c].files /\ push'[c].uploaded = push[c].uploaded
        /\ push'[c].unchecked = push[c].unchecked \ {h}
        /\ push'[c].missing = IF h \in chunks THEN push[c].missing
                              ELSE push[c].missing \cup {h}
        /\ \A b \in Clients \ {c} : push'[b] = push[b]
    BY <1>7, <2>1 DEF CheckPresence, ActivePush
  <2> QED BY <1>1, <1>2, <1>7, <2>2 DEF RestoreInv, CheckPresence, store, history
<1>8. ASSUME NEW h \in Chunks, BeginChunk(c, h) PROVE RestoreInv'
  <2>1. push[c] \in ActivePush
    BY <1>8, ActivePushType DEF BeginChunk
  <2>2. /\ push'[c].pc = "upload" /\ push'[c].id = push[c].id
        /\ push'[c].files = push[c].files /\ push'[c].unchecked = push[c].unchecked
        /\ push'[c].missing = push[c].missing
        /\ push'[c].uploaded = push[c].uploaded \ {h}
        /\ \A b \in Clients \ {c} : push'[b] = push[b]
    BY <1>8, <2>1 DEF BeginChunk, ActivePush
  <2>3. \A b \in Clients \ {c} : \A k \in Chunks :
          writes[k][b] = "none" => writes'[k][b] = "none"
    BY <1>8 DEF BeginChunk
  <2>4. \A k \in Chunks \ {h} : writes'[k] = writes[k]
    BY <1>8 DEF BeginChunk
  <2>5. /\ manifests' = manifests /\ refs' = refs /\ live' = live /\ raced' = raced
        /\ chunks' = chunks \cup {h} /\ push[c].pc = "upload"
    BY <1>8 DEF BeginChunk
  <2> QED BY <1>1, <1>2, <2>2, <2>3, <2>4, <2>5 DEF RestoreInv
<1>9. ASSUME NEW h \in Chunks, EndChunk(c, h) PROVE RestoreInv'
  <2>1. /\ manifests' = manifests /\ refs' = refs /\ live' = live /\ raced' = raced
        /\ chunks' = chunks /\ writes[h][c] # "none"
        /\ \A b \in Clients \ {c} : push'[b] = push[b]
    BY <1>9 DEF EndChunk
  <2>2. \A b \in Clients : \A k \in Chunks :
          writes[k][b] = "none" => writes'[k][b] = "none"
    BY <1>9 DEF EndChunk
  <2>3. CASE push[c].pc = "upload"
    <3>1. push[c] \in ActivePush
      BY <2>3, ActivePushType
    <3>2. /\ push'[c].pc = "upload" /\ push'[c].id = push[c].id
          /\ push'[c].files = push[c].files /\ push'[c].unchecked = push[c].unchecked
          /\ push'[c].missing = push[c].missing
          /\ push'[c].uploaded = push[c].uploaded \cup {h}
      BY <1>9, <2>3, <3>1 DEF EndChunk, ActivePush
    <3>3. push[c].id \in raced \/ h \in chunks
      BY <2>1, <2>3 DEF RestoreInv
    <3>4. \A b \in Clients : push'[b].pc = "walk" =>
            push'[b].uploaded = {} /\ \A k \in Chunks : writes'[k][b] = "none"
      BY <2>1, <2>2, <3>2 DEF RestoreInv
    <3>5. push[c].id \notin raced =>
            /\ ~GcRunning
            /\ push[c].files \subseteq push[c].unchecked \cup push[c].missing \cup chunks
            /\ push[c].uploaded \cup {h} \subseteq chunks
            /\ \A k \in Chunks \ chunks : writes[k][c] = "none"
      BY <2>3, <3>3 DEF RestoreInv
    <3>6. \A b \in Clients : push'[b].pc = "upload" =>
            \/ push'[b].id \in raced'
            \/ /\ ~GcRunning'
               /\ push'[b].files \subseteq push'[b].unchecked \cup push'[b].missing \cup chunks'
               /\ push'[b].uploaded \subseteq chunks'
               /\ \A k \in Chunks \ chunks' : writes'[k][b] = "none"
      <4> TAKE b \in Clients
      <4>1. CASE b = c
        BY <1>2, <2>1, <2>2, <3>2, <3>5, <4>1
      <4>2. CASE b # c
        BY <1>2, <2>1, <2>2, <4>2 DEF RestoreInv
      <4> QED BY <4>1, <4>2
    <3> QED BY <1>1, <2>1, <3>4, <3>6 DEF RestoreInv
  <2>4. CASE push[c].pc # "upload"
    <3>1. push' = push
      BY <1>9, <2>4 DEF EndChunk
    <3> QED BY <1>1, <1>2, <2>1, <2>2, <3>1 DEF RestoreInv
  <2> QED BY <2>3, <2>4
<1>10. ASSUME NEW h \in Chunks, CutChunk(c, h) PROVE RestoreInv'
  <2>1. /\ manifests' = manifests /\ refs' = refs /\ live' = live /\ raced' = raced
        /\ chunks' = chunks /\ push' = push
    BY <1>10 DEF CutChunk
  <2>2. \A b \in Clients : \A k \in Chunks :
          writes[k][b] = "none" => writes'[k][b] = "none"
    BY <1>10 DEF CutChunk
  <2> QED BY <1>1, <1>2, <2>1, <2>2 DEF RestoreInv
<1> QED BY <1>3, <1>4, <1>5, <1>6, <1>7, <1>8, <1>9, <1>10 DEF Push

LEMMA RestoreInvRemove ==
  ASSUME TypeOK, RestoreInv,
         \/ \E p \in Pruners : Prune(p)
         \/ \E d \in Deleters : Delete(d)
  PROVE  RestoreInv'
<1>1. /\ gc' = gc /\ refs' = refs /\ push' = push /\ chunks' = chunks /\ raced' = raced
      /\ writes' = writes /\ manifests' \subseteq manifests
      /\ live' = live \/ StillLive(manifests', refs)
  BY DEF Prune, PruneStart, PruneSelect, PruneMeta, PruneEnd, PruneLoad, PruneManifest,
         Delete, DeleteMeta, DeleteManifest, DeleteFail, store, history
<1>2. \A n \in manifests' \ raced : \A g \in Gcs :
        gc[g].pc # "idle" => refs[n] \subseteq live'[g]
  <2>1. \A n \in manifests' : refs[n] \subseteq RefsOf(manifests', refs)
    BY DEF RefsOf
  <2> QED BY <1>1, <2>1 DEF StillLive, RestoreInv
<1> QED BY <1>1, <1>2 DEF RestoreInv, GcRunning

LEMMA RestoreInvGc ==
  ASSUME TypeOK, GcInv, RestoreInv, NEW g \in Gcs, Gc(g) PROVE RestoreInv'
<1> USE DEF TypeOK, GcState
<1>1. push' = push /\ refs' = refs /\ manifests' = manifests
  BY DEF Gc, GcStart, GcListChunks, GcEnd, GcMark, GcSweep, store, history
<1>2. CASE GcStart(g)
  <2>1. /\ chunks' = chunks /\ writes' = writes /\ raced' = raced \cup PushingIds
        /\ live' = [live EXCEPT ![g] = RefsOf(manifests, refs)]
        /\ \A f \in Gcs \ {g} : gc'[f] = gc[f]
    BY <1>2 DEF GcStart, store
  <2>2. \A n \in manifests' \ raced' :
          \A f \in Gcs : gc'[f].pc # "idle" => refs[n] \subseteq live'[f]
    <3>1. \A n \in manifests : refs[n] \subseteq RefsOf(manifests, refs)
      BY DEF RefsOf
    <3> QED BY <1>1, <2>1, <3>1 DEF RestoreInv, HistoryTypeOK
  <2>3. \A c \in Clients : push[c].pc = "upload" => push[c].id \in raced'
    BY <2>1 DEF PushingIds
  <2> QED BY <1>1, <2>1, <2>2, <2>3 DEF RestoreInv
<1>3. CASE ~GcStart(g)
  <2>1. raced' = raced /\ live' = live
    BY <1>3 DEF Gc, GcListChunks, GcEnd, GcMark, GcSweep, store, history
  <2>2. gc[g].pc # "idle" /\ \A f \in Gcs \ {g} : gc'[f] = gc[f]
    BY <1>3 DEF Gc, GcListChunks, GcEnd, GcMark, GcSweep
  <2>3. GcRunning
    BY <2>2 DEF GcRunning
  <2>4. \A n \in manifests \ raced : refs[n] \subseteq chunks'
    <3>1. CASE \E h \in Chunks : GcSweep(g, h)
      <4>1. PICK h \in Chunks : GcSweep(g, h)
        BY <3>1
      <4>2. h \in gc[g].doomed /\ gc[g].pc = "sweep" /\ chunks' = chunks \ {h}
        BY <4>1 DEF GcSweep
      <4>3. h \notin live[g]
        BY <4>2 DEF GcInv
      <4> QED BY <2>2, <4>2, <4>3 DEF RestoreInv
    <3>2. CASE ~\E h \in Chunks : GcSweep(g, h)
      <4>1. chunks' = chunks
        BY <1>3, <3>2 DEF Gc, GcListChunks, GcEnd, GcMark, store
      <4> QED BY <4>1 DEF RestoreInv
    <3> QED BY <3>1, <3>2
  <2>5. \A n \in manifests \ raced :
          \A f \in Gcs : gc'[f].pc # "idle" => refs[n] \subseteq live[f]
    BY <2>2 DEF RestoreInv
  <2>6. \A c \in Clients : push[c].pc = "upload" => push[c].id \in raced
    BY <2>3 DEF RestoreInv
  <2>7. \A c \in Clients : \A h \in Chunks : writes[h][c] = "none" => writes'[h][c] = "none"
    <3>1. CASE writes' = writes
      BY <3>1
    <3>2. ASSUME NEW k \in Chunks, GcSweep(g, k)
          PROVE  \A c \in Clients : \A h \in Chunks :
                   writes[h][c] = "none" => writes'[h][c] = "none"
      BY <3>2 DEF GcSweep, StoreTypeOK
    <3> QED BY <1>3, <3>1, <3>2 DEF Gc, GcListChunks, GcEnd, GcMark, store
  <2> QED BY <1>1, <2>1, <2>4, <2>5, <2>6, <2>7 DEF RestoreInv
<1> QED BY <1>2, <1>3

LEMMA RestoreInvInductive ==
  ASSUME TypeOK, IdInv, GcInv, RestoreInv, [Next]_vars PROVE RestoreInv'
<1>1. CASE UNCHANGED vars
  BY <1>1 DEF vars, RestoreInv, GcRunning
<1> QED BY <1>1, RestoreInvPush, RestoreInvGc, RestoreInvRemove DEF Next

-----------------------------------------------------------------------------

(* TornInv: a torn chunk has a write under way or one that was cut short.   *)

LEMMA TornInvPush ==
  ASSUME TypeOK, TornInv, NEW c \in Clients, Push(c) PROVE TornInv'
<1> USE DEF TypeOK, StoreTypeOK, TornInv, BeingWritten
<1>1. ASSUME NEW h \in Chunks, BeginChunk(c, h) PROVE TornInv'
  <2>1. writes'[h][c] = "last" /\ \A k \in Chunks \ {h} : writes'[k] = writes[k]
    BY <1>1 DEF BeginChunk
  <2> QED BY <1>1, <2>1 DEF BeginChunk
<1>2. ASSUME NEW h \in Chunks, EndChunk(c, h) PROVE TornInv'
  <2>1. /\ \A k \in Chunks \ {h} : writes'[k] = writes[k]
        /\ \A b \in Clients \ {c} : writes'[h][b] = writes[h][b]
    BY <1>2 DEF EndChunk
  <2>2. CASE torn' = torn \ {h} /\ broken' = broken \ {h}
    BY <2>1, <2>2
  <2>3. CASE writes[h][c] # "last" /\ UNCHANGED <<torn, broken>>
    BY <2>1, <2>3
  <2> QED BY <1>2, <2>2, <2>3 DEF EndChunk
<1>3. ASSUME NEW h \in Chunks, CutChunk(c, h) PROVE TornInv'
  <2>1. /\ \A k \in Chunks \ {h} : writes'[k] = writes[k]
        /\ \A b \in Clients \ {c} : writes'[h][b] = writes[h][b]
    BY <1>3 DEF CutChunk
  <2>2. torn' = torn
    BY <1>3 DEF CutChunk
  <2>3. CASE writes[h][c] = "last"
    <3>1. broken' = broken \cup ({h} \cap torn)
      BY <1>3, <2>3 DEF CutChunk
    <3> QED BY <2>1, <2>2, <3>1
  <2>4. CASE writes[h][c] # "last"
    <3>1. broken' = broken
      BY <1>3, <2>4 DEF CutChunk
    <3> QED BY <2>1, <2>2, <2>4, <3>1
  <2> QED BY <2>3, <2>4
<1>4. CASE UNCHANGED <<torn, broken, writes>>
  BY <1>4
<1> QED BY <1>1, <1>2, <1>3, <1>4 DEF Push, CreateSnapshot, HashFolder, BeginManifest,
       EndManifest, CutManifest, PushFail, CheckPresence, store, history

LEMMA TornInvGc ==
  ASSUME TypeOK, TornInv, NEW g \in Gcs, Gc(g) PROVE TornInv'
<1> USE DEF TypeOK, StoreTypeOK, TornInv, BeingWritten
<1>1. ASSUME NEW h \in Chunks, GcSweep(g, h) PROVE TornInv'
  <2>1. \A k \in Chunks \ {h} : writes'[k] = writes[k]
    BY <1>1 DEF GcSweep
  <2> QED BY <1>1, <2>1 DEF GcSweep
<1>2. CASE UNCHANGED <<torn, broken, writes>>
  BY <1>2
<1> QED BY <1>1, <1>2 DEF Gc, GcStart, GcListChunks, GcEnd, GcMark, store, history

LEMMA TornInvInductive ==
  ASSUME TypeOK, TornInv, [Next]_vars PROVE TornInv'
<1>1. CASE UNCHANGED <<torn, broken, writes>>
  BY <1>1 DEF TornInv, BeingWritten
<1>2. ASSUME NEW p \in Pruners, Prune(p) PROVE TornInv'
  BY <1>1, <1>2 DEF Prune, PruneStart, PruneSelect, PruneMeta, PruneEnd, PruneLoad,
     PruneManifest, store, history
<1>3. ASSUME NEW d \in Deleters, Delete(d) PROVE TornInv'
  BY <1>1, <1>3 DEF Delete, DeleteMeta, DeleteManifest, DeleteFail, store, history
<1> QED BY <1>1, <1>2, <1>3, TornInvPush, TornInvGc DEF Next, vars

-----------------------------------------------------------------------------

LEMMA InitSafe == Init => SafetyInv
BY DEF Init, SafetyInv, IdInv, GcInv, RestoreInv, TornInv, Pushing, IdlePush, IdleGc,
       RefsOf, GcRunning

(* The inductive invariant holds in every reachable state.                  *)
THEOREM Safety == Spec => []SafetyInv
<1>1. TypeOK /\ SafetyInv /\ [Next]_vars => SafetyInv'
  BY IdInvInductive, GcInvInductive, RestoreInvInductive, TornInvInductive DEF SafetyInv
<1> QED BY InitSafe, <1>1, TypeCorrect, PTL DEF Spec

(* No gc_chunks request ever has on its list a chunk that some stored       *)
(* manifest referred to at every instant since it listed the manifests.     *)
THEOREM GcSparesLiveChunks == Spec => []GcSparesLive
<1>1. TypeOK /\ SafetyInv => GcSparesLive
  BY DEF SafetyInv, GcInv, GcSparesLive, TypeOK, GcState
<1> QED BY <1>1, Safety, TypeCorrect, PTL

(* The chunks of a snapshot pushed without a GC in between stay in the store *)
(* for as long as its manifest does, whatever GCs, prunes and DELETEs       *)
(* follow, and only a PUT of the same chunk that is under way or was broken    *)
(* short leaves one torn.                                                   *)
THEOREM UnracedPushesRestorable == Spec => []UnracedRestorable
<1>1. SafetyInv => UnracedRestorable
  BY DEF SafetyInv, RestoreInv, TornInv, UnracedRestorable
<1> QED BY <1>1, Safety, PTL

-----------------------------------------------------------------------------
(* OrphanInv: a manifest outlives its metadata only by a DELETE or a late   *)
(* push.                                                                    *)

LEMMA OrphanInvPush ==
  ASSUME TypeOK, OrphanInv, NEW c \in Clients, Push(c) PROVE OrphanInv'
<1>1. prune' = prune /\ deleted' = deleted
  BY DEF Push, CreateSnapshot, HashFolder, BeginManifest, EndManifest, CutManifest,
         PushFail, CheckPresence, BeginChunk, EndChunk, CutChunk, store, history
<1>2. CASE BeginManifest(c)
  BY <1>1, <1>2 DEF OrphanInv, OrphansExplained, BeginManifest, BeingRemoved
<1>3. CASE ~BeginManifest(c)
  <2>1. manifests' = manifests /\ late' = late /\ snapshots \subseteq snapshots'
    BY <1>3 DEF Push, CreateSnapshot, HashFolder, EndManifest, CutManifest, PushFail,
                CheckPresence, BeginChunk, EndChunk, CutChunk, store, history
  <2> QED BY <1>1, <2>1 DEF OrphanInv, OrphansExplained
<1> QED BY <1>2, <1>3

LEMMA OrphanInvPrune ==
  ASSUME TypeOK, OrphanInv, NEW p \in Pruners, Prune(p) PROVE OrphanInv'
<1> USE DEF TypeOK
<1>1. late' = late /\ deleted' = deleted
  BY DEF Prune, PruneStart, PruneSelect, PruneMeta, PruneEnd, PruneLoad, PruneManifest,
         store, history
<1>2. \A q \in Pruners \ {p} : prune'[q] = prune[q]
  BY DEF Prune, PruneStart, PruneSelect, PruneMeta, PruneEnd, PruneLoad, PruneManifest
<1>3. ASSUME NEW m \in prune[p].todo, PruneManifest(p, m) PROVE OrphanInv'
  <2>1. prune[p] \in BetweenDeletes
    BY <1>3, BetweenDeletesType DEF PruneManifest
  <2>2. prune'[p].pc = "meta" /\ prune'[p].cur = m
    BY <1>3, <2>1 DEF PruneManifest, BetweenDeletes
  <2>3. manifests' = manifests \ {m.id} /\ snapshots' = snapshots
    BY <1>3 DEF PruneManifest
  <2> QED BY <1>1, <1>2, <2>2, <2>3 DEF OrphanInv, OrphansExplained
<1>4. CASE PruneMeta(p)
  <2>1. prune[p] \in AmidDeletes /\ prune[p].pc = "meta"
    BY <1>4, AmidDeletesType DEF PruneMeta
  <2>2. prune'[p].pc = "manifest"
    BY <1>4, <2>1 DEF PruneMeta, AmidDeletes
  <2>3. manifests' = manifests /\ snapshots' = {s \in snapshots : s.id # prune[p].cur.id}
    BY <1>4 DEF PruneMeta
  <2> QED BY <1>1, <1>2, <2>1, <2>2, <2>3 DEF OrphanInv, OrphansExplained
<1>5. CASE PruneStart(p) \/ PruneSelect(p) \/ PruneEnd(p)
           \/ \E m \in prune[p].todo : PruneLoad(p, m)
  <2>1. prune'[p].pc # "meta"
    <3>1. CASE PruneStart(p)
      BY <3>1 DEF PruneStart
    <3>2. CASE PruneSelect(p)
      BY <3>2, BetweenDeletesType DEF PruneSelect, BetweenDeletes
    <3>3. CASE PruneEnd(p)
      BY <3>3 DEF PruneEnd, IdlePrune
    <3>4. ASSUME NEW m \in prune[p].todo, PruneLoad(p, m) PROVE prune'[p].pc # "meta"
      BY <3>4, BetweenDeletesType DEF PruneLoad, BetweenDeletes, IdlePrune
    <3> QED BY <1>5, <3>1, <3>2, <3>3, <3>4
  <2>2. manifests' = manifests /\ snapshots' = snapshots
    BY <1>5 DEF PruneStart, PruneSelect, PruneEnd, PruneLoad, store
  <2> QED BY <1>1, <1>2, <2>1, <2>2 DEF OrphanInv, OrphansExplained
<1> QED BY <1>3, <1>4, <1>5 DEF Prune

LEMMA OrphanInvInductive ==
  ASSUME TypeOK, OrphanInv, [Next]_vars PROVE OrphanInv'
<1> USE DEF OrphanInv, OrphansExplained
<1>1. CASE UNCHANGED vars
  BY <1>1 DEF vars
<1>2. ASSUME NEW g \in Gcs, Gc(g) PROVE OrphanInv'
  BY <1>2 DEF Gc, GcStart, GcListChunks, GcEnd, GcMark, GcSweep, store, history
<1>3. ASSUME NEW d \in Deleters, Delete(d) PROVE OrphanInv'
  BY <1>3 DEF Delete, DeleteMeta, DeleteManifest, DeleteFail, store, history
<1> QED BY <1>1, <1>2, <1>3, OrphanInvPush, OrphanInvPrune DEF Next

-----------------------------------------------------------------------------
(* NewestInv: prunes that keep something keep the newest.                   *)

LEMMA VictimsOutranked ==
  ASSUME NEW all, NEW r \in Requests, KeepsNewest(r), NEW t,
         NEW m \in Victims(all, r, t)
  PROVE  m \in all /\ \E o \in all : GroupKey(o) = GroupKey(m) /\ Newer(o, m)
<1> DEFINE matched == {x \in all : Matches(x, r)}
           same   == GroupOf(matched, m)
<1>1. m \in matched /\ m \in same /\ m \notin KeepOfGroup(same, r, t)
  BY DEF Victims, GroupOf
<1>2. SUFFICES ASSUME \A o \in same : ~Newer(o, m) PROVE FALSE
  BY <1>1 DEF GroupOf
<1>3. {o \in same : Newer(o, m)} = {}
  BY <1>2
<1>4. Cardinality({o \in same : Newer(o, m)}) = 0
  BY <1>3, FS_EmptySet
<1>5. /\ r.last \in Nat \cup {None} /\ r.daily \in Nat \cup {None}
      /\ r.weekly \in Nat \cup {None}
  BY RequestsAssumption
<1>6. CASE r.last # None /\ r.last > 0
  BY <1>1, <1>4, <1>5, <1>6 DEF KeepOfGroup, KeepLast
<1>7. CASE r.daily # None /\ r.daily > 0
  <2>1. {Bucket("daily", o) : o \in {x \in same : Newer(x, m)}} = {}
    BY <1>3
  <2>2. Cardinality({Bucket("daily", o) : o \in {x \in same : Newer(x, m)}}) = 0
    BY <2>1, FS_EmptySet
  <2>3. m \in KeepBuckets(same, "daily", r.daily)
    BY <1>1, <1>2, <1>5, <1>7, <2>2 DEF KeepBuckets
  <2> QED BY <1>1, <1>7, <2>3 DEF KeepOfGroup
<1>8. CASE r.weekly # None /\ r.weekly > 0
  <2>1. {Bucket("weekly", o) : o \in {x \in same : Newer(x, m)}} = {}
    BY <1>3
  <2>2. Cardinality({Bucket("weekly", o) : o \in {x \in same : Newer(x, m)}}) = 0
    BY <2>1, FS_EmptySet
  <2>3. m \in KeepBuckets(same, "weekly", r.weekly)
    BY <1>1, <1>2, <1>5, <1>8, <2>2 DEF KeepBuckets
  <2> QED BY <1>1, <1>8, <2>3 DEF KeepOfGroup
<1> QED BY <1>6, <1>7, <1>8 DEF KeepsNewest

LEMMA NewestInvPush ==
  ASSUME TypeOK, NewestInv, NEW c \in Clients, Push(c) PROVE NewestInv'
<1>1. prune' = prune /\ deleted' = deleted
  BY DEF Push, CreateSnapshot, HashFolder, BeginManifest, EndManifest, CutManifest,
         PushFail, CheckPresence, BeginChunk, EndChunk, CutChunk, store, history
<1>2. CASE CreateSnapshot(c)
  <2>1. PICK m \in Meta : /\ m.id \notin {o.id : o \in created}
                          /\ snapshots' = snapshots \cup {m}
                          /\ created' = created \cup {m}
    BY <1>2 DEF CreateSnapshot
  <2>2. \A x \in created : Outranked(x) => Outranked(x)'
    BY <2>1 DEF Outranked
  <2>3. \A p \in Pruners : DeletesOutranked(p)'
    BY <1>1, <2>1, <2>2 DEF NewestInv, DeletesOutranked
  <2>4. \A x, y \in created' : x.id = y.id => x = y
    BY <2>1 DEF NewestInv
  <2>5. \A x \in created' : Outranked(x)' \/ x \in snapshots' \/ x.id \in deleted'
    BY <1>1, <2>1, <2>2 DEF NewestInv
  <2> QED BY <2>3, <2>4, <2>5 DEF NewestInv
<1>3. CASE ~CreateSnapshot(c)
  <2>1. created' = created /\ snapshots' = snapshots
    BY <1>3 DEF Push, HashFolder, BeginManifest, EndManifest, CutManifest, PushFail,
                CheckPresence, BeginChunk, EndChunk, CutChunk, store, history
  <2> QED BY <1>1, <2>1 DEF NewestInv, DeletesOutranked, Outranked
<1> QED BY <1>2, <1>3

(* A step of one prune leaves the others' part of the invariant alone.      *)
LEMMA NewestInvFrame ==
  ASSUME TypeOK, NewestInv, NEW p \in Pruners, Prune(p), DeletesOutranked(p)',
         snapshots' = snapshots
  PROVE  NewestInv'
<1>1. created' = created /\ deleted' = deleted
  BY DEF Prune, PruneStart, PruneSelect, PruneMeta, PruneEnd, PruneLoad, PruneManifest,
         store, history
<1>2. \A q \in Pruners \ {p} : prune'[q] = prune[q]
  BY DEF TypeOK, Prune, PruneStart, PruneSelect, PruneMeta, PruneEnd, PruneLoad,
         PruneManifest
<1>3. \A q \in Pruners \ {p} : DeletesOutranked(q)'
  BY <1>1, <1>2 DEF NewestInv, DeletesOutranked, Outranked
<1> QED BY <1>1, <1>3 DEF NewestInv, Outranked

LEMMA NewestInvPrune ==
  ASSUME TypeOK, RulesKeepNewest, NewestInv, snapshots \subseteq created,
         NEW p \in Pruners, Prune(p)
  PROVE  NewestInv'
<1> USE DEF TypeOK
<1>1. created' = created /\ deleted' = deleted
  BY DEF Prune, PruneStart, PruneSelect, PruneMeta, PruneEnd, PruneLoad, PruneManifest,
         store, history
<1>2. (\A m : Outranked(m)' <=> Outranked(m)) /\ DeletesOutranked(p)
  BY <1>1 DEF Outranked, NewestInv
<1>3. CASE PruneStart(p)
  <2>1. PICK r \in Requests : /\ HasKeepRule(r)
          /\ prune' = [prune EXCEPT ![p] = [pc |-> "load", req |-> r, listed |-> snapshots,
                                             todo |-> snapshots, cur |-> None]]
    BY <1>3 DEF PruneStart
  <2>2. prune'[p].pc = "load" /\ prune'[p].req = r /\ prune'[p].listed = snapshots
    BY <2>1
  <2>3. DeletesOutranked(p)'
    BY <1>1, <2>1, <2>2 DEF DeletesOutranked
  <2> QED BY <1>3, <2>3, NewestInvFrame DEF PruneStart, store
<1>4. CASE PruneSelect(p)
  <2>1. prune[p] \in BetweenDeletes
    BY <1>4, BetweenDeletesType DEF PruneSelect
  <2>2. PICK t \in Times :
          prune' = [prune EXCEPT ![p].pc = "manifest",
                      ![p].todo = Victims(prune[p].listed, prune[p].req, t)]
    BY <1>4 DEF PruneSelect
  <2>3. /\ prune'[p].pc = "manifest" /\ prune'[p].req = prune[p].req
        /\ prune'[p].listed = prune[p].listed
        /\ prune'[p].todo = Victims(prune[p].listed, prune[p].req, t)
    BY <2>1, <2>2 DEF BetweenDeletes
  <2>4. prune[p].req \in Requests /\ HasKeepRule(prune[p].req)
    BY <1>2, <1>4, <2>1 DEF BetweenDeletes, DeletesOutranked, PruneSelect
  <2>5. KeepsNewest(prune[p].req)
    BY <2>4 DEF RulesKeepNewest
  <2>6. ASSUME NEW m \in prune'[p].todo PROVE m \in created /\ Outranked(m)
    <3>1. /\ m \in prune[p].listed
          /\ \E o \in prune[p].listed : GroupKey(o) = GroupKey(m) /\ Newer(o, m)
      BY <2>3, <2>4, <2>5, VictimsOutranked
    <3> QED BY <1>2, <3>1 DEF DeletesOutranked, Outranked
  <2>7. DeletesOutranked(p)'
    BY <1>1, <1>2, <2>3, <2>4, <2>6 DEF DeletesOutranked
  <2> QED BY <1>4, <2>7, NewestInvFrame DEF PruneSelect, store
<1>5. CASE PruneEnd(p)
  <2>1. prune'[p].pc = "idle" /\ prune'[p].listed = {}
    BY <1>5 DEF PruneEnd, IdlePrune
  <2>2. DeletesOutranked(p)'
    BY <2>1 DEF DeletesOutranked
  <2> QED BY <1>5, <2>2, NewestInvFrame DEF PruneEnd, store
<1>6. ASSUME NEW m \in prune[p].todo, PruneLoad(p, m) PROVE NewestInv'
  <2>1. prune[p] \in BetweenDeletes
    BY <1>6, BetweenDeletesType DEF PruneLoad
  <2>2. CASE prune' = [prune EXCEPT ![p].todo = @ \ {m}]
    <3>1. prune'[p].pc = "load" /\ prune'[p].listed = prune[p].listed
          /\ prune'[p].req = prune[p].req
      BY <1>6, <2>1, <2>2 DEF BetweenDeletes, PruneLoad
    <3>2. DeletesOutranked(p)'
      BY <1>1, <1>2, <1>6, <3>1 DEF DeletesOutranked, PruneLoad
    <3> QED BY <1>6, <3>2, NewestInvFrame DEF PruneLoad, Prune, store
  <2>3. CASE prune' = [prune EXCEPT ![p] = IdlePrune]
    <3>1. prune'[p].pc = "idle" /\ prune'[p].listed = {}
      BY <2>3 DEF IdlePrune
    <3>2. DeletesOutranked(p)'
      BY <3>1 DEF DeletesOutranked
    <3> QED BY <1>6, <3>2, NewestInvFrame DEF PruneLoad, Prune, store
  <2> QED BY <1>6, <2>2, <2>3 DEF PruneLoad
<1>7. ASSUME NEW m \in prune[p].todo, PruneManifest(p, m) PROVE NewestInv'
  <2>1. prune[p] \in BetweenDeletes
    BY <1>7, BetweenDeletesType DEF PruneManifest
  <2>2. /\ prune'[p].pc = "meta" /\ prune'[p].cur = m
        /\ prune'[p].listed = prune[p].listed /\ prune'[p].req = prune[p].req
        /\ prune'[p].todo = prune[p].todo
    BY <1>7, <2>1 DEF PruneManifest, BetweenDeletes
  <2>3. DeletesOutranked(p)'
    BY <1>1, <1>2, <1>7, <2>2 DEF DeletesOutranked, PruneManifest
  <2> QED BY <1>7, <2>3, NewestInvFrame DEF PruneManifest, Prune
<1>8. CASE PruneMeta(p)
  <2>1. prune[p] \in AmidDeletes /\ prune[p].pc = "meta"
    BY <1>8, AmidDeletesType DEF PruneMeta
  <2>2. /\ prune'[p].pc = "manifest" /\ prune'[p].listed = prune[p].listed
        /\ prune'[p].req = prune[p].req /\ prune'[p].todo \subseteq prune[p].todo
    BY <1>8, <2>1 DEF PruneMeta, AmidDeletes
  <2>3. DeletesOutranked(p)'
    BY <1>1, <1>2, <2>1, <2>2 DEF DeletesOutranked
  <2>4. \A q \in Pruners \ {p} : prune'[q] = prune[q]
    BY <1>8 DEF PruneMeta
  <2>5. \A q \in Pruners : DeletesOutranked(q)'
    BY <1>1, <1>2, <2>3, <2>4 DEF NewestInv, DeletesOutranked
  <2>6. prune[p].cur \in created /\ Outranked(prune[p].cur)
    BY <1>2, <2>1 DEF DeletesOutranked
  <2>7. ASSUME NEW m \in created PROVE Outranked(m) \/ m \in snapshots' \/ m.id \in deleted
    <3>1. CASE m.id = prune[p].cur.id
      BY <2>6, <3>1 DEF NewestInv
    <3>2. CASE m.id # prune[p].cur.id
      BY <1>8, <3>2 DEF NewestInv, PruneMeta
    <3> QED BY <3>1, <3>2
  <2> QED BY <1>1, <1>2, <2>5, <2>7 DEF NewestInv
<1> QED BY <1>3, <1>4, <1>5, <1>6, <1>7, <1>8 DEF Prune

LEMMA NewestInvInductive ==
  ASSUME TypeOK, IdInv, RulesKeepNewest, NewestInv, [Next]_vars PROVE NewestInv'
<1>1. CASE UNCHANGED vars
  BY <1>1 DEF vars, NewestInv, DeletesOutranked, Outranked
<1>2. ASSUME NEW g \in Gcs, Gc(g) PROVE NewestInv'
  <2>1. created' = created /\ snapshots' = snapshots /\ prune' = prune /\ deleted' = deleted
    BY <1>2 DEF Gc, GcStart, GcListChunks, GcEnd, GcMark, GcSweep, store, history
  <2> QED BY <2>1 DEF NewestInv, DeletesOutranked, Outranked
<1>3. ASSUME NEW d \in Deleters, Delete(d) PROVE NewestInv'
  <2>1. created' = created /\ prune' = prune
    BY <1>3 DEF Delete, DeleteMeta, DeleteManifest, DeleteFail, store, history
  <2>2. \A m \in snapshots : m \in snapshots' \/ m.id \in deleted'
    BY <1>3 DEF Delete, DeleteMeta, DeleteManifest, DeleteFail, store, history
  <2>3. deleted \subseteq deleted'
    BY <1>3 DEF Delete, DeleteMeta, DeleteManifest, DeleteFail, store, history
  <2> QED BY <2>1, <2>2, <2>3 DEF NewestInv, DeletesOutranked, Outranked
<1> QED BY <1>1, <1>2, <1>3, NewestInvPush, NewestInvPrune DEF Next, IdInv

(* Manifests without metadata are the trace of a DELETE or of a late push.  *)
THEOREM OrphansAreExplained == Spec => []OrphansExplained
<1>1. Init => OrphanInv
  BY DEF Init, OrphanInv, OrphansExplained, IdlePrune
<1>2. OrphanInv => OrphansExplained
  BY DEF OrphanInv
<1> QED BY <1>1, <1>2, TypeCorrect, OrphanInvInductive, PTL DEF Spec

(* When every prune request keeps something, concurrent prunes never delete *)
(* the newest snapshot of a device group.                                   *)
THEOREM NewestSnapshotSurvives == Spec => []NewestSurvives
<1>1. CASE ~RulesKeepNewest
  <2>1. NewestSurvives
    BY <1>1 DEF NewestSurvives, RulesKeepNewest
  <2> QED BY <2>1, PTL
<1>2. CASE RulesKeepNewest
  <2>1. Init => NewestInv
    BY DEF Init, NewestInv, DeletesOutranked, IdlePrune
  <2>2. NewestInv => NewestSurvives
    BY DEF NewestInv, NewestSurvives, Outranked
  <2>3. TypeOK /\ IdInv /\ NewestInv /\ [Next]_vars => NewestInv'
    BY <1>2, NewestInvInductive
  <2>4. SafetyInv => IdInv
    BY DEF SafetyInv
  <2> QED BY <2>1, <2>2, <2>3, <2>4, TypeCorrect, Safety, PTL DEF Spec
<1> QED BY <1>1, <1>2

(***************************************************************************)
(* The retention loops: what select_snapshot_ids_to_keep keeps is what the *)
(* rules say, for groups of any size, any counts and any clock.            *)
(***************************************************************************)

-----------------------------------------------------------------------------
(* Sorting.  Induction is by a least counterexample, which NatMin picks.    *)

(* A group: finite, of records with distinct ids. *)
Group(S) ==
  /\ IsFiniteSet(S)
  /\ \A m \in S : m.id \in Int /\ m.created \in Int
  /\ \A m, o \in S : m.id = o.id => m = o

(* On a group the order is strict and total. *)
LEMMA NewerOrders ==
  ASSUME NEW S, Group(S), NEW a \in S, NEW b \in S
  PROVE  /\ ~Newer(a, a)
         /\ Newer(a, b) => ~Newer(b, a)
         /\ a # b => Newer(a, b) \/ Newer(b, a)
         /\ \A c \in S : Newer(a, b) /\ Newer(b, c) => Newer(a, c)
BY DEF Group, Newer

IsSorting(s, S) ==
  /\ s \in [1..Cardinality(S) -> S]
  /\ \A j, k \in 1..Cardinality(S) : j < k => Newer(s[j], s[k])

(* A sorting of all but one record has a place for that record. *)
LEMMA InsertSorts ==
  ASSUME NEW S, Group(S), NEW m \in S, NEW s, IsSorting(s, S \ {m})
  PROVE  \E t : IsSorting(t, S)
<1> DEFINE n == Cardinality(S \ {m})
<1>1. n \in Nat /\ Cardinality(S) = n + 1
  <2>1. IsFiniteSet(S)
    BY DEF Group
  <2>2. IsFiniteSet(S \ {m}) /\ Cardinality(S \ {m}) = Cardinality(S) - 1
    BY <2>1, FS_RemoveElement
  <2>3. Cardinality(S) \in Nat /\ Cardinality(S \ {m}) \in Nat
    BY <2>1, <2>2, FS_CardinalityType
  <2> QED BY <2>2, <2>3
<1> HIDE DEF n
<1>2. /\ s \in [1..n -> S \ {m}]
      /\ \A j, k \in 1..n : j < k => Newer(s[j], s[k])
  BY DEF IsSorting, n
<1> DEFINE after == {k \in 1..(n + 1) : k = n + 1 \/ Newer(m, s[k])}
<1>3. PICK k \in after : \A j \in after : k <= j
  <2>1. after \in SUBSET Nat /\ after # {}
    BY <1>1
  <2> QED BY <2>1, NatMin
<1>4. k \in 1..(n + 1) /\ (k # n + 1 => Newer(m, s[k]))
  BY <1>3
<1>5. \A j \in 1..n : j < k => Newer(s[j], m)
  <2> SUFFICES ASSUME NEW j \in 1..n, j < k PROVE Newer(s[j], m)
    OBVIOUS
  <2>1. j \notin after
    BY <1>1, <1>3
  <2>2. ~Newer(m, s[j]) /\ s[j] \in S /\ s[j] # m
    BY <1>1, <1>2, <2>1
  <2> QED BY <2>2, NewerOrders
<1>6. \A j \in 1..n : k <= j => Newer(m, s[j])
  <2> SUFFICES ASSUME NEW j \in 1..n, k <= j PROVE Newer(m, s[j])
    OBVIOUS
  <2>1. k \in 1..n /\ Newer(m, s[k]) /\ s[k] \in S /\ s[j] \in S
    BY <1>1, <1>2, <1>4
  <2>2. k = j \/ Newer(s[k], s[j])
    BY <1>1, <1>2, <2>1
  <2> QED BY <2>1, <2>2, NewerOrders
<1> HIDE DEF after
<1> DEFINE t == [j \in 1..(n + 1) |-> IF j < k THEN s[j] ELSE IF j = k THEN m ELSE s[j - 1]]
<1>7. t \in [1..(n + 1) -> S]
  BY <1>1, <1>2, <1>4
<1>8. ASSUME NEW a \in 1..(n + 1), NEW b \in 1..(n + 1), a < b
      PROVE  Newer(t[a], t[b])
  <2>1. CASE b < k
    BY <1>1, <1>2, <1>4, <1>8, <2>1
  <2>2. CASE b = k
    BY <1>1, <1>4, <1>5, <1>8, <2>2
  <2>3. CASE b > k /\ a = k
    BY <1>1, <1>4, <1>6, <1>8, <2>3
  <2>4. CASE b > k /\ a < k
    <3>1. a \in 1..n /\ b - 1 \in 1..n /\ a < b - 1 /\ t[a] = s[a] /\ t[b] = s[b - 1]
      BY <1>1, <1>4, <1>8, <2>4
    <3> QED BY <1>2, <3>1
  <2>5. CASE b > k /\ a > k
    <3>1. a - 1 \in 1..n /\ b - 1 \in 1..n /\ a - 1 < b - 1
          /\ t[a] = s[a - 1] /\ t[b] = s[b - 1]
      BY <1>1, <1>4, <1>8, <2>5
    <3> QED BY <1>2, <3>1
  <2> QED BY <1>1, <1>4, <1>8, <2>1, <2>2, <2>3, <2>4, <2>5
<1> QED BY <1>1, <1>7, <1>8 DEF IsSorting

LEMMA SortingExists ==
  ASSUME NEW S, Group(S)
  PROVE  \E s : IsSorting(s, S)
<1> DEFINE bad == {n \in Nat : \E P \in SUBSET S : Cardinality(P) = n /\ ~ \E s : IsSorting(s, P)}
<1>0. \A P \in SUBSET S : Group(P) /\ IsFiniteSet(P) /\ Cardinality(P) \in Nat
  BY FS_Subset, FS_CardinalityType DEF Group
<1>1. SUFFICES ASSUME bad # {} PROVE FALSE
  BY <1>0
<1>2. PICK n \in bad : \A k \in bad : n <= k
  BY <1>1, NatMin
<1>3. PICK P \in SUBSET S : Cardinality(P) = n /\ ~ \E s : IsSorting(s, P)
  BY <1>2
<1>4. P # {}
  <2>1. SUFFICES ASSUME P = {} PROVE FALSE
    OBVIOUS
  <2>2. Cardinality(P) = 0
    BY <2>1, FS_EmptySet
  <2>3. IsSorting([j \in 1..0 |-> 0], P)
    BY <2>2 DEF IsSorting
  <2> QED BY <1>3, <2>3
<1>5. PICK m \in P : TRUE
  BY <1>4
<1>6. P \ {m} \in SUBSET S /\ Cardinality(P \ {m}) = n - 1 /\ n - 1 \in Nat
  BY <1>0, <1>3, <1>5, FS_RemoveElement
<1>7. n - 1 \notin bad
  BY <1>2, <1>6
<1>8. \E s : IsSorting(s, P \ {m})
  BY <1>6, <1>7
<1> QED BY <1>0, <1>3, <1>5, <1>8, InsertSorts

LEMMA SortedSorts ==
  ASSUME NEW S, Group(S)
  PROVE  IsSorting(Sorted(S), S)
BY SortingExists DEF IsSorting, Sorted

-----------------------------------------------------------------------------
(* What the positions of a sorted group say of the rules.                   *)

First(s, j) == {s[k] : k \in 1..(j - 1)}

LEMMA SortingEnumerates ==
  ASSUME NEW S, Group(S), NEW s, IsSorting(s, S)
  PROVE  /\ Cardinality(S) \in Nat
         /\ S = {s[k] : k \in 1..Cardinality(S)}
         /\ \A j \in 1..Cardinality(S) : {o \in S : Newer(o, s[j])} = First(s, j)
         /\ \A j \in 1..Cardinality(S) : Cardinality(First(s, j)) = j - 1
<1> DEFINE n == Cardinality(S)
<1>1. IsFiniteSet(S) /\ n \in Nat
  BY FS_CardinalityType DEF Group
<1> HIDE DEF n
<1>2. /\ s \in [1..n -> S]
      /\ \A j, k \in 1..n : j < k => Newer(s[j], s[k])
  BY DEF IsSorting, n
<1>3. \A j, k \in 1..n : s[j] = s[k] => j = k
  <2> SUFFICES ASSUME NEW j \in 1..n, NEW k \in 1..n, s[j] = s[k] PROVE j = k
    OBVIOUS
  <2>1. s[j] \in S /\ ~Newer(s[j], s[j])
    BY <1>2, NewerOrders
  <2>2. ~ (j < k) /\ ~ (k < j)
    BY <1>2, <2>1
  <2> QED BY <1>1, <2>2
<1>4. S = {s[k] : k \in 1..n}
  <2>1. s \in Injection(1..n, S)
    BY <1>2, <1>3 DEF Injection, IsInjective
  <2>2. Cardinality(1..n) = Cardinality(S)
    BY <1>1, FS_Interval DEF n
  <2>3. s \in Surjection(1..n, S)
    BY <1>1, <2>1, <2>2, FS_Injection
  <2> QED BY <1>2, <2>3 DEF Surjection
<1>5. ASSUME NEW j \in 1..n
      PROVE  {o \in S : Newer(o, s[j])} = First(s, j)
  <2>1. ASSUME NEW k \in 1..n PROVE Newer(s[k], s[j]) <=> k < j
    <3>1. s[k] \in S /\ s[j] \in S
      BY <1>2
    <3>2. k = j => ~Newer(s[k], s[j])
      BY <3>1, NewerOrders
    <3>3. k > j => ~Newer(s[k], s[j])
      BY <1>1, <1>2, <3>1, NewerOrders
    <3>4. k < j => Newer(s[k], s[j])
      BY <1>2
    <3> QED BY <1>1, <3>2, <3>3, <3>4
  <2>2. \A k \in 1..(j - 1) : k \in 1..n /\ k < j
    BY <1>1
  <2>3. \A k \in 1..n : k < j => k \in 1..(j - 1)
    BY <1>1
  <2> QED BY <1>4, <2>1, <2>2, <2>3 DEF First
<1>6. ASSUME NEW j \in 1..n
      PROVE  Cardinality(First(s, j)) = j - 1
  <2> DEFINE f == [k \in 1..(j - 1) |-> s[k]]
  <2>1. \A k \in 1..(j - 1) : k \in 1..n
    BY <1>1
  <2>2. f \in [1..(j - 1) -> First(s, j)] /\ \A x \in First(s, j) : \E k \in 1..(j - 1) : f[k] = x
    BY DEF First
  <2>3. \A k, l \in 1..(j - 1) : f[k] = f[l] => k = l
    BY <1>3, <2>1
  <2> HIDE DEF f
  <2>4. f \in Surjection(1..(j - 1), First(s, j)) /\ f \in Injection(1..(j - 1), First(s, j))
    BY <2>2, <2>3 DEF Surjection, Injection, IsInjective
  <2>5. IsFiniteSet(1..(j - 1)) /\ Cardinality(1..(j - 1)) = j - 1
    BY <1>1, FS_Interval
  <2> QED BY <2>4, <2>5, FS_Surjection
<1> QED BY <1>1, <1>4, <1>5, <1>6 DEF n

(* KeepLast keeps the first positions. *)
LEMMA LastByPosition ==
  ASSUME NEW S, Group(S), NEW s, IsSorting(s, S), NEW j \in 1..Cardinality(S), NEW c \in Nat
  PROVE  s[j] \in KeepLast(S, c) <=> j <= c
<1>1. s[j] \in S
  BY DEF IsSorting
<1>2. Cardinality({o \in S : Newer(o, s[j])}) = j - 1 /\ Cardinality(S) \in Nat
  BY SortingEnumerates
<1> QED BY <1>1, <1>2 DEF KeepLast

Seen(s, r, j) == {Bucket(r, s[k]) : k \in 1..(j - 1)}

LEMMA SeenFinite ==
  ASSUME NEW s, NEW r, NEW j \in Int
  PROVE  IsFiniteSet(Seen(s, r, j)) /\ Cardinality(Seen(s, r, j)) \in Nat
<1> DEFINE f == [k \in 1..(j - 1) |-> Bucket(r, s[k])]
<1>1. f \in Surjection(1..(j - 1), Seen(s, r, j))
  BY DEF Surjection, Seen
<1>2. IsFiniteSet(1..(j - 1))
  BY FS_Interval
<1> HIDE DEF f
<1> QED BY <1>1, <1>2, FS_Surjection, FS_CardinalityType

LEMMA SeenGrows ==
  ASSUME NEW s, NEW r, NEW j \in Nat \ {0}
  PROVE  /\ Seen(s, r, 1) = {}
         /\ Seen(s, r, j + 1) = Seen(s, r, j) \cup {Bucket(r, s[j])}
         /\ \A k \in Nat : j <= k => Seen(s, r, j) \subseteq Seen(s, r, k)
<1>1. 1..((j + 1) - 1) = 1..(j - 1) \cup {j}
  OBVIOUS
<1>2. Seen(s, r, j + 1) = Seen(s, r, j) \cup {Bucket(r, s[j])}
  BY <1>1 DEF Seen
<1>3. ASSUME NEW k \in Nat, j <= k PROVE Seen(s, r, j) \subseteq Seen(s, r, k)
  <2>1. 1..(j - 1) \subseteq 1..(k - 1)
    BY <1>3
  <2> QED BY <2>1 DEF Seen
<1>4. Seen(s, r, 1) = {}
  BY DEF Seen
<1> QED BY <1>2, <1>3, <1>4

(* KeepBuckets keeps the positions at which a bucket is met first, while    *)
(* fewer than c have been met.                                              *)
LEMMA BucketsByPosition ==
  ASSUME NEW S, Group(S), NEW s, IsSorting(s, S), NEW j \in 1..Cardinality(S), NEW c, NEW r
  PROVE  s[j] \in KeepBuckets(S, r, c)
           <=> Bucket(r, s[j]) \notin Seen(s, r, j) /\ Cardinality(Seen(s, r, j)) < c
<1>1. s[j] \in S
  BY DEF IsSorting
<1>2. {o \in S : Newer(o, s[j])} = First(s, j)
  BY SortingEnumerates
<1>3. {Bucket(r, o) : o \in {x \in S : Newer(x, s[j])}} = Seen(s, r, j)
  BY <1>2 DEF First, Seen
<1>4. (\A o \in S : Bucket(r, o) = Bucket(r, s[j]) => ~Newer(o, s[j]))
        <=> Bucket(r, s[j]) \notin Seen(s, r, j)
  BY <1>2 DEF First, Seen
<1> QED BY <1>1, <1>3, <1>4 DEF KeepBuckets

-----------------------------------------------------------------------------
(* The loop invariant: the rules that are done have kept what they name,    *)
(* the one whose loop runs what it names of the metas before i.             *)

USE DayAssumption, NoneAssumption

Rules == {"last", "days", "daily", "weekly"}

KeptBy(r) ==
  CASE r = "last"   -> IF req.last = None THEN {} ELSE KeepLast(group, req.last)
    [] r = "days"   -> IF req.days = None THEN {} ELSE KeepSince(group, now - req.days * Day)
    [] r = "daily"  -> IF req.daily = None THEN {} ELSE KeepBuckets(group, "daily", req.daily)
    [] r = "weekly" -> IF req.weekly = None THEN {} ELSE KeepBuckets(group, "weekly", req.weekly)
    [] r = "done"   -> {}

KeptBefore(r) ==
  CASE r = "last"   -> {}
    [] r = "days"   -> KeptBy("last")
    [] r = "daily"  -> KeptBy("last") \cup KeptBy("days")
    [] r = "weekly" -> KeptBy("last") \cup KeptBy("days") \cup KeptBy("daily")
    [] r = "done"   -> KeptBy("last") \cup KeptBy("days") \cup KeptBy("daily") \cup KeptBy("weekly")

Loaded ==
  /\ Group(group) /\ IsSorting(metas, group)
  /\ req \in Reqs /\ now \in Int

Collected(r, j) == KeptBefore(r) \cup (KeptBy(r) \cap First(metas, j))

Buckets ==
  /\ rule \notin {"daily", "weekly"} => kept = {}
  /\ rule \in {"daily", "weekly"} =>
       /\ kept = Seen(metas, rule, i)
       /\ Field(rule) \in Nat \ {0} => Cardinality(kept) < Field(rule)

LoopInv ==
  /\ Loaded
  /\ rule \in Rules \cup {"done"}
  /\ i \in 1..(Cardinality(group) + 1)
  /\ Buckets
  /\ keep = Collected(rule, i)

LEMMA FirstGrows ==
  ASSUME NEW s, NEW j \in Nat \ {0}
  PROVE  First(s, 1) = {} /\ First(s, j + 1) = First(s, j) \cup {s[j]}
<1>1. 1..((j + 1) - 1) = 1..(j - 1) \cup {j}
  OBVIOUS
<1> QED BY <1>1 DEF First

(* The group, position by position. *)
LEMMA Positions ==
  ASSUME Loaded
  PROVE  /\ Cardinality(group) \in Nat /\ Len(metas) = Cardinality(group)
         /\ metas \in [1..Cardinality(group) -> group]
         /\ First(metas, Cardinality(group) + 1) = group
<1>1. Cardinality(group) \in Nat /\ group = {metas[k] : k \in 1..Cardinality(group)}
  BY SortingEnumerates DEF Loaded
<1>2. metas \in [1..Cardinality(group) -> group]
  BY DEF Loaded, IsSorting
<1>3. Len(metas) = Cardinality(group)
  BY <1>1, <1>2
<1>4. 1..((Cardinality(group) + 1) - 1) = 1..Cardinality(group)
  BY <1>1
<1> QED BY <1>1, <1>2, <1>3, <1>4 DEF First

LEMMA KeptByGroup == \A r \in Rules : KeptBy(r) \subseteq group
BY DEF Rules, KeptBy, KeepLast, KeepSince, KeepBuckets

(* A rule ends when it names nothing at i or after. *)
LEMMA LeaveKeeps ==
  ASSUME Loaded, rule \in Rules, Leave, UNCHANGED <<group, req, now, metas>>,
         keep' = KeptBefore(rule) \cup KeptBy(rule)
  PROVE  LoopInv'
<1>1. Loaded'
  BY DEF Loaded
<1>2. /\ rule' \in Rules \cup {"done"} /\ i' = 1 /\ kept' = {}
      /\ KeptBefore(rule)' = KeptBefore(rule) \cup KeptBy(rule)
  BY DEF Leave, NextRule, Rules, KeptBefore, KeptBy
<1>3. Collected(rule, i)' = KeptBefore(rule)'
  BY <1>2, FirstGrows DEF Collected
<1>4. i' \in 1..(Cardinality(group') + 1)
  BY <1>1, <1>2, Positions
<1>5. Buckets'
  <2>1. kept' = Seen(metas', rule', i')
    BY <1>2, SeenGrows
  <2>2. Cardinality(kept') = 0
    BY <1>2, FS_EmptySet
  <2> QED BY <1>2, <2>1, <2>2 DEF Buckets
<1> QED BY <1>1, <1>2, <1>3, <1>4, <1>5 DEF LoopInv

LEMMA InitLoop == LoopInit => LoopInv
<1> SUFFICES ASSUME LoopInit PROVE LoopInv
  OBVIOUS
<1>1. Loaded
  <2>1. Group(group)
    BY GroupsAssumption DEF LoopInit, Group
  <2> QED BY <2>1, SortedSorts, NowsAssumption DEF LoopInit, Loaded
<1>2. Collected(rule, i) = {}
  BY FirstGrows DEF LoopInit, Collected, KeptBefore
<1>3. i \in 1..(Cardinality(group) + 1)
  BY <1>1, Positions DEF LoopInit
<1>4. Buckets
  BY DEF LoopInit, Buckets
<1> QED BY <1>1, <1>2, <1>3, <1>4 DEF LoopInit, LoopInv, Rules

LEMMA CountsOfRules ==
  ASSUME Loaded
  PROVE  \A r \in Rules : Field(r) \in Counts
BY ReqsAssumption DEF Loaded, Rules, Field

LEMMA SkipKeeps == LoopInv /\ Skip => LoopInv'
<1> SUFFICES ASSUME LoopInv, Skip PROVE LoopInv'
  OBVIOUS
<1>1. Loaded /\ rule \in Rules /\ i \in 1..(Cardinality(group) + 1)
  BY DEF LoopInv, Skip, Rules
<1>2. KeptBy(rule) \subseteq First(metas, i)
  <2>1. CASE Field(rule) = None
    BY <1>1, <2>1 DEF Field, KeptBy, Rules
  <2>2. CASE rule \in {"daily", "weekly"} /\ Field(rule) = 0
    <3> SUFFICES ASSUME NEW j \in 1..Cardinality(group), metas[j] \in KeptBy(rule) PROVE FALSE
      BY <1>1, KeptByGroup, SortingEnumerates DEF Loaded
    <3>1. metas[j] \in KeepBuckets(group, rule, 0)
      BY <2>2 DEF Field, KeptBy
    <3>2. Cardinality(Seen(metas, rule, j)) < 0
      BY <1>1, <3>1, BucketsByPosition DEF Loaded
    <3> QED BY <3>2, SeenFinite
  <2>3. CASE i > Len(metas)
    <3>1. i = Cardinality(group) + 1
      BY <1>1, <2>3, Positions
    <3> QED BY <1>1, <3>1, Positions, KeptByGroup
  <2> QED BY <2>1, <2>2, <2>3 DEF Skip
<1>3. keep' = KeptBefore(rule) \cup KeptBy(rule)
  BY <1>2 DEF Skip, LoopInv, Collected
<1> QED BY <1>1, <1>3, LeaveKeeps DEF Skip

(* One more meta of the same rule. *)
LEMMA StepKeeps ==
  ASSUME LoopInv, rule \in Rules, i <= Cardinality(group),
         UNCHANGED <<group, req, now, metas, rule>>, i' = i + 1, Buckets',
         keep' = keep \cup (KeptBy(rule) \cap {metas[i]})
  PROVE  LoopInv'
<1>1. Loaded' /\ KeptBy(rule)' = KeptBy(rule) /\ KeptBefore(rule)' = KeptBefore(rule)
  BY DEF LoopInv, Loaded, Rules, KeptBy, KeptBefore
<1>2. Cardinality(group) \in Nat /\ i \in Nat \ {0}
  BY Positions DEF LoopInv
<1>3. First(metas, i + 1) = First(metas, i) \cup {metas[i]}
  BY <1>2, FirstGrows
<1>4. keep' = Collected(rule, i)'
  BY <1>1, <1>3 DEF LoopInv, Collected
<1>5. i' \in 1..(Cardinality(group') + 1)
  BY <1>2
<1> QED BY <1>1, <1>4, <1>5 DEF LoopInv

LEMMA LastKeeps == LoopInv /\ TakeLast => LoopInv'
<1> SUFFICES ASSUME LoopInv, TakeLast PROVE LoopInv'
  OBVIOUS
<1>1. /\ Loaded /\ rule = "last" /\ req.last \in Nat /\ i \in Nat \ {0} /\ i <= Cardinality(group)
      /\ Cardinality(group) \in Nat /\ KeptBy(rule) = KeepLast(group, req.last)
  BY Positions, ReqsAssumption DEF LoopInv, Loaded, TakeLast, KeptBy, Counts
<1>2. CASE i <= req.last
  <2>1. metas[i] \in KeptBy(rule)
    BY <1>1, <1>2, LastByPosition DEF Loaded
  <2>2. /\ keep' = keep \cup (KeptBy(rule) \cap {metas[i]}) /\ i' = i + 1
        /\ UNCHANGED <<group, req, now, metas, rule>> /\ Buckets'
    BY <1>1, <1>2, <2>1 DEF TakeLast, LoopInv, Buckets
  <2> QED BY <1>1, <2>2, StepKeeps DEF Rules
<1>3. CASE ~ (i <= req.last)
  <2>1. KeptBy(rule) \subseteq First(metas, i)
    <3> SUFFICES ASSUME NEW j \in 1..Cardinality(group), metas[j] \in KeptBy(rule)
                 PROVE  metas[j] \in First(metas, i)
      BY <1>1, KeptByGroup, SortingEnumerates DEF Loaded, Rules
    <3>1. j <= req.last
      BY <1>1, LastByPosition DEF Loaded
    <3>2. j \in 1..(i - 1)
      BY <1>1, <1>3, <3>1
    <3> QED BY <3>2 DEF First
  <2>2. keep' = KeptBefore(rule) \cup KeptBy(rule)
    BY <1>3, <2>1 DEF TakeLast, LoopInv, Collected
  <2> QED BY <1>1, <1>3, <2>2, LeaveKeeps DEF TakeLast, Rules
<1> QED BY <1>2, <1>3

LEMMA SinceKeeps == LoopInv /\ TakeSince => LoopInv'
<1> SUFFICES ASSUME LoopInv, TakeSince PROVE LoopInv'
  OBVIOUS
<1>1. /\ Loaded /\ rule = "days" /\ i \in Nat \ {0} /\ i <= Cardinality(group)
      /\ metas[i] \in group
      /\ KeptBy(rule) = KeepSince(group, now - req.days * Day)
  BY Positions DEF LoopInv, Loaded, TakeSince, KeptBy
<1>2. metas[i] \in KeptBy(rule) <=> metas[i].created >= now - req.days * Day
  BY <1>1 DEF KeepSince
<1>3. keep' = keep \cup (KeptBy(rule) \cap {metas[i]})
  BY <1>2 DEF TakeSince
<1>4. UNCHANGED <<group, req, now, metas, rule>> /\ i' = i + 1 /\ Buckets'
  BY <1>1 DEF TakeSince, LoopInv, Buckets
<1> QED BY <1>1, <1>3, <1>4, StepKeeps DEF Rules

LEMMA BucketKeeps ==
  ASSUME NEW r \in {"daily", "weekly"}, LoopInv, TakeBucket(r)
  PROVE  LoopInv'
<1> DEFINE b == Bucket(r, metas[i])
<1>1. /\ Loaded /\ rule = r /\ r \in Rules /\ i \in Nat \ {0} /\ i <= Cardinality(group)
      /\ Cardinality(group) \in Nat
  BY Positions DEF LoopInv, TakeBucket, Rules
<1>2. /\ Field(r) \in Nat \ {0}
      /\ KeptBy(r) = KeepBuckets(group, r, Field(r))
  BY <1>1, CountsOfRules DEF TakeBucket, Field, KeptBy, Counts
<1>3. /\ kept = Seen(metas, r, i) /\ Cardinality(kept) < Field(r)
      /\ IsFiniteSet(kept)
  BY <1>1, <1>2, SeenFinite DEF LoopInv, Buckets
<1>4. Seen(metas, r, i + 1) = kept \cup {b}
  BY <1>1, <1>3, SeenGrows
<1>5. metas[i] \in KeptBy(r) <=> b \notin kept
  BY <1>1, <1>2, <1>3, BucketsByPosition DEF Loaded
<1>6. Field(r)' = Field(r)
  BY DEF TakeBucket, Field
<1> HIDE DEF b
<1>7. CASE b \in kept
  <2>1. i' = i + 1 /\ UNCHANGED <<group, req, now, metas, rule, kept, keep>>
    BY <1>7 DEF TakeBucket, b
  <2>2. Buckets'
    <3>1. kept' = Seen(metas', rule', i')
      BY <1>1, <1>4, <1>7, <1>3, <2>1
    <3> QED BY <1>1, <1>3, <1>6, <2>1, <3>1 DEF Buckets
  <2>3. keep' = keep \cup (KeptBy(rule) \cap {metas[i]})
    BY <1>1, <1>5, <1>7, <2>1
  <2> QED BY <1>1, <2>1, <2>2, <2>3, StepKeeps
<1>8. CASE b \notin kept /\ Cardinality(kept \cup {b}) < Field(r)
  <2>1. /\ i' = i + 1 /\ kept' = kept \cup {b} /\ keep' = keep \cup {metas[i]}
        /\ UNCHANGED <<group, req, now, metas, rule>>
    <3>1. ~ (Cardinality(kept \cup {b}) >= Field(r))
      BY <1>2, <1>3, <1>8, FS_AddElement, FS_CardinalityType
    <3> QED BY <1>8, <3>1 DEF TakeBucket, b
  <2>2. Buckets'
    <3>1. kept' = Seen(metas', rule', i')
      BY <1>1, <1>4, <2>1
    <3> QED BY <1>1, <1>6, <1>8, <2>1, <3>1 DEF Buckets
  <2>3. keep' = keep \cup (KeptBy(rule) \cap {metas[i]})
    BY <1>1, <1>5, <1>8, <2>1
  <2> QED BY <1>1, <2>1, <2>2, <2>3, StepKeeps
<1>9. CASE b \notin kept /\ ~ (Cardinality(kept \cup {b}) < Field(r))
  <2>1. Cardinality(kept \cup {b}) \in Nat /\ Cardinality(kept \cup {b}) >= Field(r)
    BY <1>2, <1>3, <1>9, FS_AddElement, FS_CardinalityType
  <2>2. keep' = keep \cup {metas[i]} /\ Leave /\ UNCHANGED <<group, req, now, metas>>
    BY <1>9, <2>1 DEF TakeBucket, b
  <2>3. KeptBy(r) \subseteq First(metas, i + 1)
    <3> SUFFICES ASSUME NEW j \in 1..Cardinality(group), metas[j] \in KeptBy(r), ~ (j <= i)
                 PROVE  FALSE
      <4>1. \A j \in 1..Cardinality(group) : j <= i => metas[j] \in First(metas, i + 1)
        BY <1>1 DEF First
      <4> QED BY <1>1, <4>1, KeptByGroup, SortingEnumerates DEF Loaded
    <3>1. Cardinality(Seen(metas, r, j)) < Field(r)
      BY <1>1, <1>2, BucketsByPosition DEF Loaded
    <3>2. i + 1 \in Nat \ {0} /\ j \in Nat /\ i + 1 <= j
      BY <1>1
    <3>3. Seen(metas, r, i + 1) \subseteq Seen(metas, r, j)
      BY <3>2, SeenGrows
    <3>4. Cardinality(kept \cup {b}) <= Cardinality(Seen(metas, r, j))
      BY <1>4, <3>2, <3>3, SeenFinite, FS_Subset
    <3>5. Cardinality(Seen(metas, r, j)) \in Nat
      BY <3>2, SeenFinite
    <3> QED BY <1>2, <2>1, <3>1, <3>4, <3>5
  <2>4. First(metas, i + 1) = First(metas, i) \cup {metas[i]}
    BY <1>1, FirstGrows
  <2>5. keep' = KeptBefore(rule) \cup KeptBy(rule)
    BY <1>1, <1>5, <1>9, <2>2, <2>3, <2>4 DEF LoopInv, Collected
  <2> QED BY <1>1, <2>2, <2>5, LeaveKeeps
<1> QED BY <1>7, <1>8, <1>9

(* The loop invariant holds at every iteration. *)
THEOREM LoopInvariant == LoopSpec => []LoopInv
<1>1. LoopInv /\ [LoopNext]_loopVars => LoopInv'
  <2> SUFFICES ASSUME LoopInv, [LoopNext]_loopVars PROVE LoopInv'
    OBVIOUS
  <2>1. CASE UNCHANGED loopVars
    BY <2>1 DEF loopVars, LoopInv, Loaded, Buckets, Collected, KeptBefore, KeptBy, Field
  <2> QED BY <2>1, SkipKeeps, LastKeeps, SinceKeeps, BucketKeeps DEF LoopNext
<1> QED BY <1>1, InitLoop, PTL DEF LoopSpec

(* When the loops are done they have kept exactly what the rules of the     *)
(* request name, for a group of any size, any counts and any clock.         *)
THEOREM LoopsKeepTheRules == LoopSpec => []LoopKeepsTheRules
<1>1. LoopInv => LoopKeepsTheRules
  <2> SUFFICES ASSUME LoopInv, rule = "done" PROVE keep = KeepOfGroup(group, req, now)
    BY DEF LoopKeepsTheRules
  <2>1. keep = KeptBy("last") \cup KeptBy("days") \cup KeptBy("daily") \cup KeptBy("weekly")
    BY DEF LoopInv, Collected, KeptBefore, KeptBy
  <2> QED BY <2>1 DEF KeptBy, KeepOfGroup, KeepLast, KeepSince, KeepBuckets
<1> QED BY <1>1, LoopInvariant, PTL

(***************************************************************************)
(*                   The device registry, on both storages                 *)
(***************************************************************************)

USE MaxTimeAssumption

(* Both halves of a put leave records. *)
LEMMA PutTyped ==
  ASSUME rec \in [DeviceIds -> RecState], NEW d \in DeviceIds,
         PutBegin(d) \/ \E t \in 0..MaxTime : PutEnd(d, t)
  PROVE  rec' \in [DeviceIds -> RecState]
BY DEF PutBegin, PutEnd, Torn, Whole, RecState

LEMMA CutTyped ==
  ASSUME cut \subseteq DeviceIds, NEW d \in DeviceIds, CutShort(d)
  PROVE  cut' \subseteq DeviceIds
BY DEF CutShort

-----------------------------------------------------------------------------

LEMMA RegisterTyped ==
  ASSUME RegistryTypeOK, NEW d \in DeviceIds, RegisterBegin(d) \/ RegisterEnd(d)
  PROVE  RegistryTypeOK'
<1> USE DEF RegistryTypeOK
<1>1. CASE RegisterBegin(d)
  <2>1. rec' \in [DeviceIds -> RecState]
    BY <1>1, PutTyped DEF RegisterBegin
  <2> QED BY <1>1, <2>1 DEF RegisterBegin
<1>2. CASE RegisterEnd(d)
  <2>1. rec' \in [DeviceIds -> RecState]
    <3>1. CASE PutEnd(d, 0)
      BY <3>1, PutTyped
    <3>2. CASE UNCHANGED rec
      BY <3>2
    <3> QED BY <1>2, <3>1, <3>2 DEF RegisterEnd
  <2>2. cut' \subseteq DeviceIds
    BY <1>2, CutTyped DEF RegisterEnd
  <2>3. reg' \in [DeviceIds -> {"no", "writing", "done", "failed"}]
    BY <1>2 DEF RegisterEnd
  <2> QED BY <1>2, <2>1, <2>2, <2>3 DEF RegisterEnd
<1> QED BY <1>1, <1>2

LEMMA BeatTyped ==
  ASSUME RegistryTypeOK, NEW d \in DeviceIds, NEW b \in Beats, Beat(b, d)
  PROVE  RegistryTypeOK'
<1> USE DEF RegistryTypeOK
<1>0. NoBeat \in BeatState
  BY DEF NoBeat, BeatState
<1>1. CASE BeatStart(b, d)
  <2>1. beat' \in [Beats -> BeatState]
    BY <1>1 DEF BeatStart, BeatState
  <2> QED BY <1>1, <2>1 DEF BeatStart
<1>2. CASE BeatGet(b, d)
  <2>1. [pc |-> "put", dev |-> {d}, now |-> clock] \in BeatState
    BY DEF BeatState
  <2>2. beat' \in [Beats -> BeatState]
    BY <1>0, <1>2, <2>1 DEF BeatGet
  <2> QED BY <1>2, <2>2 DEF BeatGet
<1>3. CASE BeatPutBegin(b, d)
  <2>1. rec' \in [DeviceIds -> RecState]
    BY <1>3, PutTyped DEF BeatPutBegin
  <2>2. beat' \in [Beats -> BeatState]
    BY <1>3 DEF BeatPutBegin, BeatState
  <2> QED BY <1>3, <2>1, <2>2 DEF BeatPutBegin
<1>4. CASE BeatPutEnd(b, d)
  <2>1. beat[b].now \in 0..MaxTime
    BY DEF BeatState
  <2>2. rec' \in [DeviceIds -> RecState]
    BY <1>4, <2>1, PutTyped DEF BeatPutEnd
  <2>3. beat' \in [Beats -> BeatState]
    BY <1>4 DEF BeatPutEnd, BeatState
  <2> QED BY <1>4, <2>2, <2>3 DEF BeatPutEnd
<1>5. CASE BeatNote(b, d)
  <2>1. answered' \in [DeviceIds -> 0..MaxTime]
    BY <1>5 DEF BeatNote, BeatState
  <2>2. beat' \in [Beats -> BeatState]
    BY <1>0, <1>5 DEF BeatNote
  <2> QED BY <1>5, <2>1, <2>2 DEF BeatNote
<1>6. CASE BeatFail(b, d)
  <2>1. cut' \subseteq DeviceIds
    BY <1>6, CutTyped DEF BeatFail
  <2>2. beat' \in [Beats -> BeatState]
    BY <1>0, <1>6 DEF BeatFail
  <2>3. hb' \subseteq DeviceIds
    BY <1>6 DEF BeatFail
  <2> QED BY <1>6, <2>1, <2>2, <2>3 DEF BeatFail
<1> QED BY <1>1, <1>2, <1>3, <1>4, <1>5, <1>6 DEF Beat

LEMMA ListTyped ==
  ASSUME RegistryTypeOK, NEW l \in Lists, List(l)
  PROVE  RegistryTypeOK'
<1> USE DEF RegistryTypeOK
<1>1. CASE ListStart(l)
  <2>1. list' \in [Lists -> ListState]
    BY <1>1 DEF ListStart, ListState
  <2> QED BY <1>1, <2>1 DEF ListStart
<1>2. CASE ListEnd(l)
  <2>1. list' \in [Lists -> ListState]
    BY <1>2 DEF ListEnd, ListState
  <2> QED BY <1>2, <2>1 DEF ListEnd
<1>3. ASSUME NEW d \in DeviceIds, NEW kind \in {"record", "heartbeat"}, ListGet(l, d, kind)
      PROVE  RegistryTypeOK'
  <2>1. list' \in [Lists -> ListState]
    BY <1>3 DEF ListGet, ListState
  <2> QED BY <1>3, <2>1 DEF ListGet
<1> QED BY <1>1, <1>2, <1>3 DEF List

(* The variables keep their types: records are absent, torn or whole, and   *)
(* last_seen_unix is a value of the clock.                                  *)
THEOREM RegistryTypeCorrect == RegistrySpec => []RegistryTypeOK
<1>1. RegistryInit => RegistryTypeOK
  BY DEF RegistryInit, RegistryTypeOK, NoRecord, NoBeat, NoList, RecState, BeatState, ListState
<1>2. RegistryTypeOK /\ [RegistryNext]_registryVars => RegistryTypeOK'
  <2> SUFFICES ASSUME RegistryTypeOK, [RegistryNext]_registryVars PROVE RegistryTypeOK'
    OBVIOUS
  <2>1. CASE Tick
    BY <2>1 DEF Tick, RegistryTypeOK
  <2>2. ASSUME NEW d \in DeviceIds, RegisterBegin(d) \/ RegisterEnd(d) PROVE RegistryTypeOK'
    BY <2>2, RegisterTyped
  <2>3. ASSUME NEW d \in DeviceIds, NEW b \in Beats, Beat(b, d) PROVE RegistryTypeOK'
    BY <2>3, BeatTyped
  <2>4. ASSUME NEW l \in Lists, List(l) PROVE RegistryTypeOK'
    BY <2>4, ListTyped
  <2>5. CASE UNCHANGED registryVars
    BY <2>5 DEF registryVars, RegistryTypeOK
  <2> QED BY <2>1, <2>2, <2>3, <2>4, <2>5 DEF RegistryNext
<1> QED BY <1>1, <1>2, PTL DEF RegistrySpec

-----------------------------------------------------------------------------
(* The credentials.  What CredentialsHold says of one device:               *)

Held(d) == reg[d] = "done" =>
             Authenticated(d) \/ (backend = "disk" /\ (Writing(d) \/ d \in cut))

(* A step that leaves the record of the device and its writers alone.       *)
LEMMA HeldApart ==
  ASSUME NEW d \in DeviceIds, Held(d),
         backend' = backend, reg'[d] = "done" => reg[d] = "done",
         rec'[d] = rec[d], cut \subseteq cut',
         \A b \in Beats : beat[b].dev = {d} /\ beat[b].pc = "writing" => beat'[b] = beat[b]
  PROVE  Held(d)'
<1>1. Writing(d) => Writing(d)'
  BY DEF Writing, Beating
<1> QED BY <1>1 DEF Held, Authenticated

LEMMA RegisterHolds ==
  ASSUME RegistryTypeOK, NEW e \in DeviceIds, RegisterBegin(e) \/ RegisterEnd(e),
         NEW d \in DeviceIds, Held(d)
  PROVE  Held(d)'
<1> USE DEF RegistryTypeOK
<1>1. CASE RegisterBegin(e)
  <2>1. CASE d = e
    BY <1>1, <2>1 DEF RegisterBegin, Held
  <2>2. CASE d # e
    BY <1>1, <2>2, HeldApart DEF RegisterBegin, PutBegin
  <2> QED BY <2>1, <2>2
<1>2. CASE RegisterEnd(e)
  <2>1. CASE d = e /\ PutEnd(e, 0)
    BY <1>2, <2>1 DEF RegisterEnd, PutEnd, Whole, Held, Authenticated
  <2>2. CASE d = e /\ reg' = [reg EXCEPT ![e] = "failed"]
    BY <1>2, <2>2 DEF RegisterEnd, Held
  <2>3. CASE d # e
    <3>1. rec'[d] = rec[d] /\ reg'[d] = reg[d] /\ cut \subseteq cut'
      BY <1>2, <2>3 DEF RegisterEnd, PutEnd, CutShort
    <3> QED BY <1>2, <3>1, HeldApart DEF RegisterEnd
  <2> QED BY <1>2, <2>1, <2>2, <2>3 DEF RegisterEnd
<1> QED BY <1>1, <1>2

(* A put in progress tears the record only on disk and only while its       *)
(* writer is there; a writer leaves a whole record, or fails and is in cut.  *)
LEMMA BeatHolds ==
  ASSUME RegistryTypeOK, NEW e \in DeviceIds, NEW b \in Beats, Beat(b, e),
         NEW d \in DeviceIds, Held(d)
  PROVE  Held(d)'
<1> USE DEF RegistryTypeOK
<1>0. beat \in [Beats -> BeatState] /\ \A c \in Beats \ {b} : beat'[c] = beat[c]
  BY DEF Beat, BeatStart, BeatGet, BeatPutBegin, BeatPutEnd, BeatNote, BeatFail
<1>1. CASE BeatStart(b, e)
  BY <1>0, <1>1, HeldApart DEF BeatStart
<1>2. CASE BeatGet(b, e)
  BY <1>0, <1>2, HeldApart DEF BeatGet
<1>3. CASE BeatPutBegin(b, e)
  <2>1. CASE d # e
    BY <1>0, <1>3, <2>1, HeldApart DEF BeatPutBegin, PutBegin
  <2>2. CASE d = e /\ backend = "disk"
    <3>1. beat'[b] = [beat[b] EXCEPT !.pc = "writing"]
      BY <1>0, <1>3 DEF BeatPutBegin
    <3>2. beat'[b].pc = "writing" /\ beat'[b].dev = {d}
      BY <1>0, <1>3, <2>2, <3>1 DEF BeatPutBegin, BeatState
    <3>3. Writing(d)'
      BY <3>2 DEF Writing, Beating
    <3> QED BY <1>3, <2>2, <3>3 DEF BeatPutBegin, Held
  <2>3. CASE d = e /\ backend # "disk"
    <3>1. rec' = rec
      BY <1>3, <2>3 DEF BeatPutBegin, PutBegin
    <3> QED BY <1>0, <1>3, <3>1, HeldApart DEF BeatPutBegin
  <2> QED BY <2>1, <2>2, <2>3
<1>4. CASE BeatPutEnd(b, e)
  <2>1. CASE d = e
    BY <1>4, <2>1 DEF BeatPutEnd, PutEnd, Whole, Held, Authenticated
  <2>2. CASE d # e
    BY <1>0, <1>4, <2>2, HeldApart DEF BeatPutEnd, PutEnd
  <2> QED BY <2>1, <2>2
<1>5. CASE BeatNote(b, e)
  BY <1>0, <1>5, HeldApart DEF BeatNote
<1>6. CASE BeatFail(b, e)
  <2>1. cut \subseteq cut'
    BY <1>6 DEF BeatFail, CutShort
  <2>2. CASE d = e /\ beat[b].pc = "writing" /\ backend = "disk"
    <3>1. d \in cut'
      BY <1>6, <2>2 DEF BeatFail, CutShort
    <3> QED BY <1>6, <2>2, <3>1 DEF BeatFail, Held
  <2>3. CASE d = e /\ beat[b].pc = "writing" /\ backend # "disk"
    BY <1>6, <2>3 DEF BeatFail, Held, Authenticated
  <2>4. CASE d # e \/ beat[b].pc # "writing"
    BY <1>0, <1>6, <2>1, <2>4, HeldApart DEF BeatFail
  <2> QED BY <2>2, <2>3, <2>4
<1> QED BY <1>1, <1>2, <1>3, <1>4, <1>5, <1>6 DEF Beat

(* A registered device can authenticate however its heartbeats overlap,     *)
(* always with S3, on disk but for a write in progress or cut short.        *)
THEOREM CredentialsAreHeld == RegistrySpec => []CredentialsHold
<1>1. CredentialsHold <=> \A d \in DeviceIds : Held(d)
  BY DEF CredentialsHold, Held
<1>2. CredentialsHold' <=> \A d \in DeviceIds : Held(d)'
  BY DEF CredentialsHold, Held
<1>3. RegistryInit => CredentialsHold
  BY DEF RegistryInit, CredentialsHold
<1>4. RegistryTypeOK /\ CredentialsHold /\ [RegistryNext]_registryVars => CredentialsHold'
  <2> SUFFICES ASSUME RegistryTypeOK, CredentialsHold, [RegistryNext]_registryVars, NEW d \in DeviceIds
               PROVE  Held(d)'
    BY <1>2
  <2>0. Held(d)
    BY <1>1
  <2>1. CASE Tick
    BY <2>0, <2>1, HeldApart DEF Tick
  <2>2. ASSUME NEW e \in DeviceIds, RegisterBegin(e) \/ RegisterEnd(e) PROVE Held(d)'
    BY <2>0, <2>2, RegisterHolds
  <2>3. ASSUME NEW e \in DeviceIds, NEW b \in Beats, Beat(b, e) PROVE Held(d)'
    BY <2>0, <2>3, BeatHolds
  <2>4. ASSUME NEW l \in Lists, List(l) PROVE Held(d)'
    <3>1. UNCHANGED <<backend, rec, reg, beat, cut>>
      BY <2>4 DEF List, ListStart, ListEnd, ListGet
    <3> QED BY <2>0, <3>1, HeldApart
  <2>5. CASE UNCHANGED registryVars
    BY <2>0, <2>5, HeldApart DEF registryVars
  <2> QED BY <2>1, <2>2, <2>3, <2>4, <2>5 DEF RegistryNext
<1> QED BY <1>3, <1>4, RegistryTypeCorrect, PTL DEF RegistrySpec

-----------------------------------------------------------------------------
(* last_seen_unix.  What SeenInv says of the times in progress, and of one  *)
(* device.                                                                  *)

NowInv == \A b \in Beats : beat[b].now <= clock

SeenOf(d) ==
  /\ answered[d] <= clock
  /\ reg[d] # "done" => answered[d] = 0 /\ Beating(d) = {}
  /\ d \notin overlapped =>
       /\ \A b \in Beating(d) :
            /\ \A c \in Beating(d) : b = c
            /\ beat[b].pc \in {"put", "writing", "note"} => beat[b].now >= answered[d]
            /\ beat[b].pc = "note" /\ Authenticated(d) => rec[d].seen >= beat[b].now
       /\ Authenticated(d) => rec[d].seen >= answered[d]

LEMMA SeenInvByDevice == SeenInv <=> NowInv /\ \A d \in DeviceIds : SeenOf(d)
BY DEF SeenInv, ClockInv, BeatInv, LastSeenKept, NowInv, SeenOf

LEMMA SeenInvByDeviceNext == SeenInv' <=> NowInv' /\ \A d \in DeviceIds : SeenOf(d)'
BY DEF SeenInv, ClockInv, BeatInv, LastSeenKept, NowInv, SeenOf

LEMMA SeenTypes ==
  ASSUME RegistryTypeOK
  PROVE  /\ clock \in Nat
         /\ \A d \in DeviceIds : answered[d] \in Nat /\ rec[d].seen \in Nat
         /\ \A b \in Beats : beat[b].now \in Nat
BY DEF RegistryTypeOK, RecState, BeatState

(* A step that leaves the device and its heartbeats alone, or ends some.    *)
LEMMA SeenApart ==
  ASSUME RegistryTypeOK, NEW d \in DeviceIds, SeenOf(d),
         clock' \in Nat, clock' >= clock,
         UNCHANGED <<rec[d], reg[d], answered[d]>>,
         d \in overlapped => d \in overlapped',
         \A b \in Beats : beat'[b].dev = {d} => beat'[b] = beat[b]
  PROVE  SeenOf(d)'
<1>1. Beating(d)' \subseteq Beating(d)
  BY DEF Beating
<1>2. \A b \in Beating(d)' : beat'[b] = beat[b]
  BY DEF Beating
<1>3. answered'[d] <= clock'
  BY SeenTypes DEF SeenOf
<1> QED BY <1>1, <1>2, <1>3 DEF SeenOf, Authenticated

LEMMA RegisterSeen ==
  ASSUME RegistryTypeOK, NEW e \in DeviceIds, RegisterBegin(e) \/ RegisterEnd(e), NEW d \in DeviceIds, SeenOf(d)
  PROVE  SeenOf(d)'
<1>0. /\ UNCHANGED <<beat, clock, answered, overlapped>>
      /\ clock \in Nat /\ clock' >= clock
      /\ reg[e] # "done"
  BY SeenTypes DEF RegisterBegin, RegisterEnd
<1>1. CASE d # e
  <2>1. rec'[d] = rec[d] /\ reg'[d] = reg[d]
    BY <1>1 DEF RegisterBegin, RegisterEnd, PutBegin, PutEnd, RegistryTypeOK
  <2> QED BY <1>0, <2>1, SeenApart
<1>2. CASE d = e
  <2>1. answered'[d] = 0 /\ answered'[d] <= clock' /\ Beating(d)' = {}
    BY <1>0, <1>2 DEF SeenOf, Beating
  <2>2. Authenticated(d)' => rec'[d].seen >= answered'[d]
    <3>1. rec'[d] \in {Torn, Whole(0), rec[d]}
      BY <1>2 DEF RegisterBegin, RegisterEnd, PutBegin, PutEnd, RegistryTypeOK
    <3>2. rec'[d].seen \in Nat
      BY <3>1, SeenTypes DEF Torn, Whole
    <3> QED BY <2>1, <3>2
  <2> QED BY <2>1, <2>2 DEF SeenOf
<1> QED BY <1>1, <1>2

(* The device whose heartbeat takes a step.  But for BeatStart, the request *)
(* is the only heartbeat of a device that is not in overlapped.             *)
LEMMA BeatSeen ==
  ASSUME RegistryTypeOK, NowInv, NEW d \in DeviceIds, NEW b \in Beats, Beat(b, d), SeenOf(d)
  PROVE  SeenOf(d)'
<1> USE SeenTypes
<1>0. /\ UNCHANGED <<clock, reg>>
      /\ beat \in [Beats -> BeatState] /\ \A c \in Beats \ {b} : beat'[c] = beat[c]
  BY DEF Beat, BeatStart, BeatGet, BeatPutBegin, BeatPutEnd, BeatNote, BeatFail, RegistryTypeOK
<1>1. CASE BeatStart(b, d)
  <2>1. beat'[b] = [pc |-> "get", dev |-> {d}, now |-> 0] /\ reg[d] = "done"
    BY <1>0, <1>1 DEF BeatStart
  <2>2. d \notin overlapped' => d \notin overlapped /\ Beating(d)' = {b}
    BY <1>0, <1>1, <2>1 DEF BeatStart, Beating
  <2> QED BY <1>0, <1>1, <2>1, <2>2 DEF BeatStart, SeenOf, Authenticated
<1>2. CASE ~BeatStart(b, d)
  <2>1. beat[b].dev = {d} /\ reg[d] = "done" /\ overlapped' = overlapped
    BY <1>2 DEF Beat, BeatGet, BeatPutBegin, BeatPutEnd, BeatNote, BeatFail, SeenOf, Beating
  <2>2. d \notin overlapped => Beating(d) = {b}
    BY <2>1 DEF SeenOf, Beating
  <2>3. d \notin overlapped => Beating(d)' \subseteq {b}
    BY <1>0, <2>2 DEF Beating
  <2>4. NoBeat.dev # {d}
    BY DEF NoBeat
  <2>5. CASE BeatGet(b, d)
    <3>1. CASE rec[d].st = "whole"
      <4>1. beat'[b] = [pc |-> "put", dev |-> {d}, now |-> clock]
        BY <1>0, <2>5, <3>1 DEF BeatGet
      <4> QED BY <1>0, <2>1, <2>3, <2>5, <4>1 DEF BeatGet, SeenOf, Authenticated
    <3>2. CASE rec[d].st # "whole"
      <4>1. beat'[b] = NoBeat
        BY <1>0, <2>5, <3>2 DEF BeatGet
      <4> QED BY <1>0, <2>1, <2>3, <2>4, <2>5, <4>1 DEF BeatGet, SeenOf, Authenticated, Beating
    <3> QED BY <3>1, <3>2
  <2>6. CASE BeatPutBegin(b, d)
    <3>1. beat'[b].pc = "writing" /\ beat'[b].now = beat[b].now /\ beat[b].pc = "put"
      BY <1>0, <2>6 DEF BeatPutBegin, BeatState
    <3>2. Authenticated(d)' => rec'[d] = rec[d]
      BY <2>6 DEF BeatPutBegin, PutBegin, Torn, Authenticated, RegistryTypeOK
    <3> QED BY <1>0, <2>1, <2>2, <2>3, <2>6, <3>1, <3>2 DEF BeatPutBegin, SeenOf, Authenticated
  <2>7. CASE BeatPutEnd(b, d)
    <3>1. beat'[b].pc = "note" /\ beat'[b].now = beat[b].now /\ beat[b].pc = "writing"
      BY <1>0, <2>7 DEF BeatPutEnd, BeatState
    <3>2. rec'[d].seen = beat[b].now
      BY <2>7 DEF BeatPutEnd, PutEnd, Whole, RegistryTypeOK
    <3>3. d \notin overlapped => beat[b].now >= answered[d]
      BY <2>2, <3>1 DEF SeenOf
    <3> QED BY <1>0, <2>1, <2>3, <2>7, <3>1, <3>2, <3>3 DEF BeatPutEnd, SeenOf
  <2>8. CASE BeatNote(b, d)
    <3>1. beat'[b] = NoBeat /\ beat[b].pc = "note"
      BY <1>0, <2>8 DEF BeatNote
    <3>2. answered'[d] = beat[b].now /\ answered'[d] <= clock'
      BY <1>0, <2>8 DEF BeatNote, RegistryTypeOK, NowInv
    <3>3. d \notin overlapped => Beating(d)' = {}
      BY <2>3, <2>4, <3>1 DEF Beating
    <3>4. d \notin overlapped /\ Authenticated(d) => rec[d].seen >= beat[b].now
      BY <2>2, <3>1 DEF SeenOf
    <3> QED BY <1>0, <2>1, <2>8, <3>2, <3>3, <3>4 DEF BeatNote, SeenOf, Authenticated
  <2>9. CASE BeatFail(b, d)
    <3>1. beat'[b] = NoBeat
      BY <1>0, <2>9 DEF BeatFail
    <3>2. d \notin overlapped => Beating(d)' = {}
      BY <2>3, <2>4, <3>1 DEF Beating
    <3> QED BY <1>0, <2>1, <2>9, <3>2 DEF BeatFail, SeenOf, Authenticated
  <2> QED BY <1>2, <2>5, <2>6, <2>7, <2>8, <2>9 DEF Beat
<1> QED BY <1>1, <1>2

(* A heartbeat leaves the other devices alone.                              *)
LEMMA OtherSeen ==
  ASSUME RegistryTypeOK, NEW e \in DeviceIds, NEW b \in Beats, Beat(b, e),
         NEW d \in DeviceIds \ {e}, SeenOf(d)
  PROVE  SeenOf(d)'
<1>1. rec'[d] = rec[d] /\ reg'[d] = reg[d] /\ answered'[d] = answered[d] /\ clock' = clock
  BY DEF Beat, BeatStart, BeatGet, BeatPutBegin, BeatPutEnd, BeatNote, BeatFail,
         PutBegin, PutEnd, RegistryTypeOK
<1>2. d \in overlapped => d \in overlapped'
  BY DEF Beat, BeatStart, BeatGet, BeatPutBegin, BeatPutEnd, BeatNote, BeatFail
<1>3. \A c \in Beats \ {b} : beat'[c] = beat[c]
  BY DEF Beat, BeatStart, BeatGet, BeatPutBegin, BeatPutEnd, BeatNote, BeatFail, RegistryTypeOK
<1>4. beat'[b].dev \in {{e}, {}}
  BY DEF Beat, BeatStart, BeatGet, BeatPutBegin, BeatPutEnd, BeatNote, BeatFail, NoBeat,
         RegistryTypeOK, BeatState
<1> QED BY <1>1, <1>2, <1>3, <1>4, SeenTypes, SeenApart

(* Times come from the clock.                                               *)
LEMMA BeatNow ==
  ASSUME RegistryTypeOK, NowInv, NEW d \in DeviceIds, NEW b \in Beats, Beat(b, d)
  PROVE  NowInv'
<1>1. clock' = clock /\ clock \in Nat /\ beat \in [Beats -> BeatState]
  BY DEF Beat, BeatStart, BeatGet, BeatPutBegin, BeatPutEnd, BeatNote, BeatFail, RegistryTypeOK
<1>2. \A c \in Beats \ {b} : beat'[c] = beat[c]
  BY <1>1 DEF Beat, BeatStart, BeatGet, BeatPutBegin, BeatPutEnd, BeatNote, BeatFail
<1>3. beat'[b].now \in {0, clock, beat[b].now}
  BY <1>1 DEF Beat, BeatStart, BeatGet, BeatPutBegin, BeatPutEnd, BeatNote, BeatFail, NoBeat,
              BeatState
<1> QED BY <1>1, <1>2, <1>3 DEF NowInv

THEOREM SeenInvHolds == RegistrySpec => []SeenInv
<1>1. RegistryInit => SeenInv
  <2> SUFFICES ASSUME RegistryInit PROVE SeenInv
    OBVIOUS
  <2>1. NowInv
    BY DEF RegistryInit, NowInv, NoBeat
  <2>2. ASSUME NEW d \in DeviceIds PROVE SeenOf(d)
    <3>1. Beating(d) = {} /\ ~Authenticated(d) /\ answered[d] = 0 /\ clock = 1
      BY DEF RegistryInit, NoBeat, NoRecord, Beating, Authenticated
    <3> QED BY <3>1 DEF SeenOf
  <2> QED BY <2>1, <2>2, SeenInvByDevice
<1>2. RegistryTypeOK /\ SeenInv /\ [RegistryNext]_registryVars => SeenInv'
  <2> SUFFICES ASSUME RegistryTypeOK, SeenInv, [RegistryNext]_registryVars PROVE SeenInv'
    OBVIOUS
  <2>0. NowInv /\ \A d \in DeviceIds : SeenOf(d)
    BY SeenInvByDevice
  <2>1. ASSUME UNCHANGED <<rec, reg, beat, answered, overlapped>>,
               clock' \in Nat, clock' >= clock
        PROVE  SeenInv'
    <3>1. NowInv'
      BY <2>0, <2>1, SeenTypes DEF NowInv
    <3>2. ASSUME NEW d \in DeviceIds PROVE SeenOf(d)'
      BY <2>0, <2>1, SeenApart
    <3> QED BY <3>1, <3>2, SeenInvByDeviceNext
  <2>2. CASE Tick \/ (\E l \in Lists : List(l)) \/ UNCHANGED registryVars
    <3>1. UNCHANGED <<rec, reg, beat, answered, overlapped>>
      BY <2>2 DEF Tick, List, ListStart, ListEnd, ListGet, registryVars
    <3>2. clock' \in {clock, clock + 1}
      BY <2>2 DEF Tick, List, ListStart, ListEnd, ListGet, registryVars
    <3>3. clock' \in Nat /\ clock' >= clock
      BY <3>2, SeenTypes
    <3> QED BY <2>1, <3>1, <3>3
  <2>3. ASSUME NEW e \in DeviceIds, RegisterBegin(e) \/ RegisterEnd(e) PROVE SeenInv'
    <3>1. NowInv'
      BY <2>0, <2>3 DEF RegisterBegin, RegisterEnd, NowInv
    <3> QED BY <2>0, <2>3, <3>1, RegisterSeen, SeenInvByDeviceNext
  <2>4. ASSUME NEW e \in DeviceIds, NEW b \in Beats, Beat(b, e) PROVE SeenInv'
    <3>1. NowInv'
      BY <2>0, <2>4, BeatNow
    <3>2. SeenOf(e)'
      BY <2>0, <2>4, BeatSeen
    <3>3. \A d \in DeviceIds \ {e} : SeenOf(d)'
      BY <2>0, <2>4, OtherSeen
    <3> QED BY <3>1, <3>2, <3>3, SeenInvByDeviceNext
  <2> QED BY <2>2, <2>3, <2>4 DEF RegistryNext
<1> QED BY <1>1, <1>2, RegistryTypeCorrect, PTL DEF RegistrySpec

(* An answered heartbeat is not undone by another that does not overlap it:  *)
(* a record that can be read is as recent as the last answer.               *)
THEOREM LastSeenIsKept == RegistrySpec => []LastSeenKept
<1>1. SeenInv => LastSeenKept
  BY DEF SeenInv
<1> QED BY <1>1, SeenInvHolds, PTL
=============================================================================
