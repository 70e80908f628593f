# FileDock: TLA+ models, model checking and proofs

FileDock backs folders up as snapshots of content-addressed chunks and lets a desktop app browse,
copy and restore them. This directory models the parts of it whose correctness depends on
interleavings, failures and resumption, checks them with TLC and proves the central results with
TLAPS.

    tlc -workers 2 -config MCSnapshotStore_gc.cfg MCSnapshotStore     # any run of PROJECT.json
    tlapm Server_proofs.tla                                           # the proofs of a component

`PROJECT.json` lists the components, the runs, one mutant per checked property, the source lines of
every definition, the disagreement between code and documentation that a run shows, the hazards and
the theorems.

## 1. The system

| Component | Source | State it keeps | Operations | Speaks to |
|---|---|---|---|---|
| Server, snapshots | `crates/server/src/main.rs` | objects `snapshots/<id>.json`, `manifests/<id>.json`, `chunks/<hash>` | create, list, delete, prune; put/get manifest; presence, put/get chunk; chunk GC; tree, file | storage |
| Server, devices | same | `devices/<id>.json`, `devices/<id>.heartbeat.json` | register, heartbeat, list, auth middleware | storage |
| Storage | `crates/storage/src/lib.rs` | files (DiskStorage) or S3 objects | exists, put, get, list_prefix, delete | disk, S3 |
| CLI | `crates/client_cli/src/main.rs` | local config | push-file, push-folder, pull-folder, prune, gc, agent (schedule and heartbeat), service installation, plugins | server over HTTP |
| Desktop backend | `apps/desktop/src-tauri/src/main.rs` | cancellation flags, plugin runs, terminals | restore to folder, SFTP import and copy, plugin runs, terminals, local files | server, local disk, plugins |
| Desktop, transfers | `apps/desktop/src/ui/App.tsx`, `TransferQueuePane.tsx` | jobs and queue settings in localStorage; aborters, presence cache, uploads in flight | queue, cancel, run one or many; downloads, copy_file, copy_folder, SFTP jobs | servers, backend |
| Desktop, panes | `apps/desktop/src/ui/components/panes` | entries shown, loading flags, sessions, listeners | browse, upload, back up, restore, terminals | server, backend, layout |
| Desktop, layout | `model/layout.ts`, `WorkspaceView.tsx`, `LeafPane.tsx` | workspaces, each a tree of panes, in localStorage | split, close, dock, swap, add a view, workspaces | panes |
| TUI, plugins | `apps/tui`, `plugins/*` | none | browsing; SFTP and SSH processes | server, remote hosts |

The server keeps no state of its own between requests. Each handler is a sequence of awaited storage
calls, one per object; handlers of different requests interleave at these awaits, nothing is locked,
and a handler may stop after any of them (storage error, server crash). Clients compose handlers into
protocols: a push creates a snapshot, asks which chunks are missing, uploads them and stores the
manifest last.

The desktop UI is one JavaScript thread. Its code runs from one await to the next; between two of
them answers of other requests, clicks and renders happen. A handler is a closure of the render it
began in: it works with the job list, the tab or the workspace of that render. Its backend has tokio
tasks (restore), threads (terminal readers) and commands that run one after the other on the main
thread.

What makes it hard, and what correctness means:

* **Server, snapshots.** Pushes, prunes, DELETEs and GCs overlap. Chunks that are in use must not be
  collected; a stored manifest must be restorable; prune must not delete the newest snapshot of a
  device, nor leave halves of a snapshot behind.
* **Retention rules.** Four rules with early exits; the code must keep what the rules say.
* **Server, devices.** The record that holds a device's credentials is rewritten by each heartbeat;
  overlapping heartbeats and torn writes must not lock the device out.
* **Restore to folder.** Worker tasks, a shared counter, a bounded channel and a cancellation flag:
  "Ok" must mean that every file is whole, a cancel must stop scheduling, and nobody may wait for ever.
* **copy_folder.** Concurrent workers rewrite one manifest, and a persisted index says where to
  resume: no file may be lost over any sequence of failures, cancels and restarts.
* **copy_file.** Jobs to one server share a presence cache and their uploads: an upload must be awaited
  by all who need it and waited for by nobody for ever, a cancel must hit whom it should, and the manifest
  must list chunks that are there.
* **Transfer queue.** Loops start jobs from the list of an older render while the user cancels, removes
  and restarts them: what is shown as running must be cancellable, and no loop may get stuck.
* **Layout.** Answers that arrive late put a whole old tree back: no pane may be in two places or
  get lost otherwise.
* **Panes.** Answers in any order, effects that react to each other, listeners registered
  asynchronously: what is on the screen must belong to what the tab says, and an upload must
  not cost a backup its files.

## 2. The modules

| Module | Models | Main definitions |
|---|---|---|
| `Retention` | which snapshots the keep rules keep, as sets | `KeepOfGroup`, `Victims` |
| `RetentionLoop` | the loops of `select_snapshot_ids_to_keep`, one iteration per step | `TakeLast`, `TakeSince`, `TakeBucket`, `Skip` |
| `SnapshotStore` (extends `Retention`) | the snapshot objects, the handlers that change them, pushing clients | `Push`, `Gc`, `Prune`, `Delete` |
| `DeviceRegistry` | register, heartbeat, list and the device branch of auth, over both storages | `RegisterBegin`, `Beat`, `List` |
| `RestoreFolder` | `restore_snapshot_to_folder` and `cancel_restore_snapshot` | `Command`, `Work`, `Cancel` |
| `ResumableCopy` | what a copy_folder job promises: an abstract resumable copy | `Store`, `Advance`, `Finish`, `Stop` |
| `CopyFolder` | one `copy_folder` job over all its runs; implements `ResumableCopy` | `Begin`, `Steps`, `Work`, `Cancel`, `Restart` |
| `CopyFile` | overlapping runs of `copy_file` jobs and what they share | `RunSteps`, `WorkerSteps`, `Sweep` |
| `TransferQueue` | jobs of all kinds, their runs and aborters, the loops that start them | `Start`, `Settle`, `Cancel`, `Launch`, `Take` |
| `Layout` | the pane tree and every operation on it, as functions on trees | `SplitLeaf`, `CloseLeaf`, `MoveLeaf`, `Grid` |
| `Workspace` (extends `Layout`) | workspaces, what the user does to them, late answers | `PaneSteps`, `SpaceSteps`, `Answer` |
| `DeviceBrowser` | the device pane: effects, requests, uploads into a snapshot | `Effects`, `Answers`, `UploadSteps` |
| `Folders` | folders that browser and terminal panes share | `Row`, `Parent` |
| `FilePanes` (extends `Folders`) | local and SFTP browser panes | `FileStep` |
| `TerminalPanes` (extends `Folders`) | terminal panes and the shells of the backend | `TerminalStep` |
| `PaneTerminals` | composes `FilePanes` and `TerminalPanes` in one layout | `OpenTerminal`, `OpenPreset` |
| `*_proofs`, `LeastNumber` | theorems, section 6 | |
| `MC*` | instances for TLC: values of constants, symmetry | |

Definitions introduced by a comment "Variant:" are the code with a plausible bug. No behaviour uses
them; they are the mutants of `PROJECT.json`, each of which makes TLC report the property it stands
for.

### Retention and RetentionLoop

`Retention` states each rule by the set it keeps: the newest `n` (`KeepLast`), everything since a
cutoff (`KeepSince`), the newest of each of the newest `n` day or week buckets (`KeepBuckets`).
`Newer` is the order of `metas.sort_by`. `RetentionLoop` has the loops: an index into the sorted
group, the set of buckets seen, and each loop's own way to end early. Its run compares the two for
every group. Times are ticks and `Day` is the ticks of a day; an ISO week is the Monday-to-Sunday
week that (year, week) names, which is how `to_iso_week_date` numbers it. u32 counts and saturating
i64 arithmetic do not come near their limits for timestamps the server writes.

### SnapshotStore

State: the three kinds of objects (`snapshots`, `manifests` with `refs`, `chunks`) and a record of
progress per request or client. One action per awaited storage call:

| Code | Actions |
|---|---|
| `create_snapshot` | `CreateSnapshot` |
| `push_folder_impl` pass 1, `chunks_presence` | `HashFolder`, `CheckPresence` (one per hash), `PushFail` |
| `put_chunk`, `put_manifest` over `DiskStorage::put` | `BeginChunk`, `EndChunk`, `CutChunk`, `BeginManifest`, `EndManifest`, `CutManifest` |
| `gc_chunks`: list manifests, read each, list chunks, delete each | `GcStart`, `GcMark`, `GcListChunks`, `GcSweep`, `GcEnd` |
| `prune_snapshots`: list and read metadata, select, delete manifest, delete metadata | `PruneStart`, `PruneLoad`, `PruneSelect`, `PruneManifest`, `PruneMeta`, `PruneEnd` |
| `delete_snapshot` | `DeleteMeta`, `DeleteManifest`, `DeleteFail` |

`GcEnd`, `PruneEnd`, `PushFail` and `DeleteFail` are enabled throughout (a push that stores its manifest has
`CutManifest` instead): they are the answer, an error and a crash at once.

`DiskStorage::put` truncates the file and then writes it (`storage/src/lib.rs:121-122`). `Begin...` is the
first half, `End...` the second, and `Cut...` a crash, a full disk or a client that has gone between the two. A torn
chunk (`torn`) is there for every later presence check; `writes` says whose PUTs of a chunk are under way and
which of them truncated last, so that two pushes may write one chunk at once. A torn manifest (`unread`)
ends the GC that reads it. `broken` is a history: chunks whose last write was cut short.

Abstractions: a manifest is the set of chunks its non-empty files refer to; retries of a chunk PUT are repeated
steps, a client has one PUT per chunk at a time; a prefix listing, a read and a delete are atomic; GC deletes in
any order (the code sorts by hash, which only fixes which chunks
`max_delete` leaves). Each id's manifest is written once, which is so for pushes of the CLI and the
agent; clients that rewrite manifests are `CopyFolder` and `DeviceBrowser`.

### DeviceRegistry

`PutBegin` and `PutEnd` are the two halves of `DiskStorage::put` (the file is truncated, then
written); on S3 only `PutEnd` changes the object. A heartbeat reads the record, rewrites it and
then writes the heartbeat object. Two heartbeats write records of the same length, so that the later
write wins as a whole. `cut` remembers records whose write was cut short.

### RestoreFolder

State: `cancel` is the map of `RestoreManager`, `flag` the `AtomicBool` of each run, `job` the
command, `next` the shared counter, `worker` the tasks, `queue` the bounded channel and `disk` the
destination. A file is absent, partial or whole and remembers which run wrote it. `Take`, `Place`
(second look at the flag, conflict policy), `Begin` (the file is created or truncated), `Write` and
`Send` are a worker's steps; `Receive`, `Closed` and `Join` are the command after it has spawned the
workers. The up to three attempts of a download are one `Begin` and one `Write`. `alone` and `extra`
are history variables. `Plans` says what the runs of one behaviour may be asked for, so that
one instance holds both a large restore and two overlapping small ones.

### CopyFolder and ResumableCopy

A step is the code from one await to the next. `job` is what localStorage keeps, `stored` the
manifest on the server, `run` the local variables of `copyFolderNow`, `lock` the promise chain
`manifestLock`. A manifest PUT is carried out (`PutApplied`) and then answered (`PutAnswered`), or
fails before or after it was carried out (`PutFailed`). `Cancel` aborts the controller, `Restart` is
`loadTransfers` after the app was closed, `ChangePolicy` the conflict
policy of a job that waits, set in the queue pane between two runs. Any request may fail. When the GET of
the destination manifest fails, or of the base manifest that seeds it, the code goes on as if it were empty
(`App.tsx:2181-2184`, `2190-2222`), and so does the model: `run.blind` says so of the run, and the histories
`past.unseen` and `past.unseeded` of the files and the base that this may cost. Renamings are counted per source path, so a renaming never meets the name of
another source file. Assumptions: a request that was given up does not reach the server later; nobody
else writes the destination snapshot; a job is not run twice at once (`TransferQueue` shows what a
second run does to the aborters).

`ResumableCopy` knows the status, the set of files that are in the destination and the index to resume
at, and that a run may go on blind and pass over files (`GoBlind`, `PassBlindly`). `Implements` maps the job to it.

### CopyFile

Two things live outside the runs: the presence cache per connection (`have`, an LRU; `missing`, which
expires) and `inflight`, the table of chunk uploads. `Check` is `ensureMissingOnDestShared` with the
presence answer (one step, also when it takes several batches); forgetting `missing` entries after
30 seconds is part of it. `Take`, `PutChunk`, `UploadEnds` and `FollowerAborted` are the workers;
`Promise.all` ends a run at the first error while its other workers go on, which is why workers have
their own state and `RunsEnd` asks for them too. `Retries` is `withRetry`. Every request may fail: the GET of the base
manifest, which the code ignores (`App.tsx:1886-1899`, `run.blind`), and with a message that says "aborted", which
`isAbortError` takes for an abort (`App.tsx:1510-1512`, `run.says`). `Sweep` is the server's
GC as one step, at most once; `SnapshotStore` has its steps.

### TransferQueue

A run of a job (`downloadNow`, `copyNow`, ...) is a step that starts it (`Start`: status, new
aborter, which aborts an older run's) and one that ends it (`RequestsEnd`, `PluginOk`, `PluginError`). What it
does in between is left to `CopyFolder` and `CopyFile`. A loop (`runTransfers`, `runAll`,
`runSelected`) keeps the jobs of the render it began in and starts them whatever became of them.
`Settle` clears the aborter of the job, which may be that of another run. Restarting the app fails
what was running.

### Layout and Workspace

A tree is a function from paths to nodes. The operations of `layout.ts` are functions on trees;
`Workspace` has one action per thing the user does. `Await`/`Answer` is a pane that awaits a dialog
or a request and then writes back the workspace of the render it began in (`updateRoot`). Left
out: what a pane shows, the ratios of splits, focus.

### DeviceBrowser

`Effects` is one pass of the pane's effects; they see one render, and of their calls of `onTabChange` the last
counts, since each writes the whole tab. `render` says what has changed since the effects ran: `loadedKey`, the
devices, the snapshots, the tab, or the tab with the name of its device; each effect runs in those passes in which
one of its dependencies has changed. `onTabChange` is a new arrow function in every render of `PaneView`, so a
render of the App (its health poll every 15 seconds, a notice, the progress of a transfer) runs them all again
and asks for devices, snapshots and tree once more: `Rerender`, as often as the App likes once the pane is at rest.

A request carries the tab of its closure where its answer writes that tab back: a tree request the tab it goes to
(`goes`), a list request the tab that has no device yet (`lists`). Any request may fail. `RegisterDevice` and
`Registered` are the registration of a device. The upload reads a manifest, adds a file and stores it
(`UploadRead`, `UploadPut`), while `BackupStarts`, `BackupEnds` and `Delete` are agents and the server elsewhere;
`UploadFails` also stands for a request that was carried out and not answered. The histories are `blind`, the
uploads that read a manifest without the backup's files, and `failed`, directories whose last `getTree` failed.

Ids of snapshots are uuids and never drawn twice; they are numbered by age. The pane is mounted with a new tab
or a saved one. Nothing in the UI selects a device: the device effect takes the first one of the list, drops the
device of a saved tab before the first list has come, and may undo a registration, as the list it looks at is
still the old one. Left out: the merged index, downloads, selections, the restore dialog, a connection of the
tab's own.

### FilePanes, TerminalPanes, PaneTerminals

`FilePanes`: a pane has the folder of its tab, the folder its entries belong to, the `loading` flag
and its calls in flight. Local commands are carried out in order by the backend, dialogs, pushes and
the SFTP plugin answer in any order. A pane has no React key: `Retab` gives the same component another
tab, `Remount` is a new component in another place of the tree whose predecessor's handlers run on.
A download awaits its save dialog before it sets `loading` (`LocalBrowserPane.tsx:329-332`): `Download` opens
the dialog, and during it the buttons do what they do; `Saved` begins the copy, `Dismissed` does nothing.
Actions of SFTP rows that only enqueue a transfer are the queue's.

`TerminalPanes`: `ref` is `sessionIdRef`, `listener`/`pending`/`hears` are the listener effect and its
asynchronous registrations, `starts` the `terminal_start` calls in flight, `sessions` the map of the
backend, `ended` the shells whose reader thread has still to say so.

`PaneTerminals` composes them: opening a terminal splits the first pane of the workspace and thereby
remounts it.

## 3. The runs

| Run | Checks | Instance |
|---|---|---|
| `retention_loops` | the loops keep exactly what the rules keep | groups of up to 4 snapshots at 5 times of three weeks, ties included; each rule with counts 0 to 3, and all rules together |
| `store_gc` | `GcSparesLive`, `UnracedRestorable` | 2 pushes, 2 GCs, 1 DELETE, 1 chunk |
| `store_remove` | `OrphansExplained`, `NewestSurvives` | 2 prunes with different rules, 1 DELETE, pushes of two device groups, 2 times |
| `restore` | `OkMeansWhole`, `CancelStopsScheduling`, `CancelHitsItsSnapshot`, `RenameTruncatesNothing`, `UncancelledEnds` | one restore of 6 files with 2 workers and a channel of 4, or two overlapping restores of 1 file under all policies |
| `restore_hang` | *violated*: a cancelled restore ends | 2 workers, 6 files |
| `copy_resume` | `DoneMeansCopied`, `BaseKept`, `RunEnds`, `Implements`, `TypeOK` | 2 files, 2 workers, all policies and one change of the policy, an empty and a full base |
| `copy_file` | `UploadsShared`, `CancelsMatch`, `ManifestsSound`, `RunsEnd`, `TypeOK` | 2 jobs with a chunk in common, 2 workers, 2 tries, a cache of 1 chunk, all policies |
| `device_beats` | `CredentialsHold`, `LastSeenKept` | 2 devices, 2 heartbeats, 1 listing, both storages |
| `queue` | `AbortersMatch`, `LoopsEnd` | 2 jobs (one a plugin job), 2 runs at once, 1 queue pane, auto run on |
| `workspace` | `OnePlace`, `OrderKept`, `PanesStay`, `TypeOK` | 4 panes, 2 workspaces, 2 columns |
| `device_pane` | `ShownBelongs`, `SnapshotListed`, `BackupKept`, `Settles`, `TypeOK` | 2 snapshots, 2 directories, 2 devices (1 registered), a new tab, 1 upload, 2 moves |
| `panes` | `ButtonsGateCalls`, `PanesShowTheirFolder`, `OrphansOvertaken`, `TypesIntoItsTab`, `ShowsWhatItTypesInto`, `ClosedIsTrue`, `TypeOK` | 1 local, 1 SFTP and 1 terminal pane, 2 bases, 3 moves, 3 starts |

Why the bounds are enough.

* Store: two GCs let one delete what the other has marked, and the DELETE makes a listed manifest disappear. One
  chunk, which both pushes may write at once, is enough: presence, PUT, mark and sweep deal with each chunk by
  itself, and a folder has the chunk or not. Two ids per removal run give a newest and an outranked
  snapshot, by time or by the tie on ids; what more ids, groups and actors could add is covered
  by the theorems, which have no bounds.
* Devices: two overlapping heartbeats are a lost update.
* Restore: six files with two workers are the fewest that can fill the channel (4) and block both
  workers. Two restores of one snapshot overwrite and remove each other's flag; `Renames` is 999 in the code.
* Copies: two workers and two files suffice for out-of-order completion with a gap that closes later, and for a
  file that was counted before a failed GET beside one that was not; one change of the policy lets two runs of a job differ.
  Two runs with one chunk in common make a leader and a follower; two tries let one of them
  retry alone; a cache that holds one of two chunks forgets.
* Queue: two runs of one job, or of two, at once; the second pane of the code only repeats the
  loops of the first. `Runs` bounds the parallel runs: a loop that would start another waits.
* Layout: four panes make every shape in which docking lifts a sibling over two levels, and a grid of two rows.
  One answer is pending at a time.
* Panes: `Moves` bounds what the user, agents and failures of devices, list and tree requests do, and how often the
  App renders while requests are in flight, so that `Settles` can ask what happens without them; once everything is
  answered the App may render without end. `Copies` merges requests that are alike. A failed upload and a failed GET of a
  manifest cost no move. Three starts let one be overtaken twice.

Histories (`created`, `extra`, `overtaken`, ...) are bounded by the finite sets they range over, times
by `MaxTime`. Deadlock checking is off where the system stops: a computed group (`RetentionLoop`), done
or ended jobs (`CopyFolder`, `CopyFile`, `TransferQueue`), and user actions that are used up
(`Workspace`, `PaneTerminals`). Chunks, clients, GCs, prunes, heartbeats, panes, base folders and
workspaces are interchangeable, hence the symmetry; no run with liveness uses any.

## 4. Fairness

* `RestoreFolder`: weak fairness of the command and of each worker. They are tokio tasks on a
  runtime that goes on; HTTP requests are answered or fail. `Start` and `Cancel` are the user's.
* `CopyFolder`: weak fairness of the run's steps together. The event loop runs whatever is ready.
  `Begin`, `Cancel` and `Restart` are the user's.
* `CopyFile`: weak fairness of all steps of runs and workers together: the event loop runs what is ready. `Begin` and
  `Cancel` are the user's, `Sweep` is somebody else's.
* `TransferQueue`: weak fairness of the end of each run. A loop's `Take` has strong fairness: the
  code takes the next job as soon as it may, and only the bound `Runs` makes it wait for another run to
  end, again and again.
* `DeviceBrowser`: weak fairness of React's effects and of the answer of each request; never of the user, a
  registration, an upload, the App's renders or an agent. `Settles` says that the pane comes to rest again and again, and
  not for ever: the next render of the App asks for everything once more.
* The other modules state safety only, since clients, the server and the user may stop for ever.

## 5. What disagrees with the documentation

One disagreement has a run:

* **A cancelled restore may hang** (`restore_hang`). After a cancel the command awaits its workers with
  the receiver still open and unread; workers blocked on the full channel never end.
  `docs/quickstart.md` promises that in-flight downloads finish. It takes a channel that is full when
  the command stops receiving: more finished files than `concurrency * 2` unreceived. The same
  happens after a failed file.

Others are visible in the models, as exceptions the properties have to name or as steps a reader
might not expect:

* **GC and pushes.** `docs/gc.md` says that GC deletes chunks no stored manifest refers to. GC lists the
  manifests once and never looks again; a push that found its chunks present may store its manifest
  in between. `GcSparesLive` and `UnracedRestorable` are what does hold.
* **copy_folder and rename.** `docs/acceptance.md` says that a resume avoids copying again. With
  "rename" a file that was stored but not yet counted by `nextIndex` is copied again as "name (2)".
* **Torn chunks.** A PUT of a chunk that is cut short leaves a file that presence checks accept, and a push that
  uploads a chunk again truncates one that stored manifests refer to (`UnracedRestorable` excepts both).
* **copy_folder loses files.** Any error of the manifest GET on resume counts as "not there yet"
  (`App.tsx:2181`); the job goes on at `nextIndex` and overwrites the manifest. A failed GET of the base manifest
  starts the destination without the base. `DoneMeansCopied`, `BaseKept` and `ResumableCopy` name what this may cost.
* **copy_file loses the base** in the same way (`App.tsx:1886-1899`): the job is done with a manifest of the
  copied file alone (`ManifestsSound` excepts it).
* **GET /v1/devices** fails from the first heartbeat on, because heartbeat objects share the prefix of
  the records; `docs/api.md` expects the listing (`ListGet`).
* **A canceled leader.** Followers of a shared upload get the abort of its leader and end as canceled,
  though nobody canceled them, and so does any run with an error whose message says "aborted" (`CanceledFor`); workers of a failed run go on, and nobody can
  cancel them.
* **An upload and a backup.** An upload that looked for the manifest of a snapshot whose backup is still
  being pushed, or whose GET of the manifest fails (`DeviceBrowserPane.tsx:669`), takes it for empty and later stores
  its own over the backup's (`BackupKept` excepts these).
* **The device pane never stops asking.** Its effects depend on a function that every render makes anew, so each render of the
  App repeats its three requests (`Rerender`).
* **Downloads of file panes** disable no button while their save dialog is open: the copy may then run beside
  another call (`ButtonsGateCalls` excepts it).
* **Old layouts.** A pane that answers late puts the whole workspace of its render back
  (`PanesStay`, `Overtaken`).
* **History.** A click in the history of the device pane is overridden at once while all files
  are shown: the latest snapshot wins (`LatestEffect`).
* **SFTP panes** list the old directory under the new path after Enter and Up, since the handler
  refreshes with the closure of before and the effect that was to do it is empty (`outrun`).
* **Terminals.** A reconnect does not wait for a start in flight: the earlier shell is orphaned, or
  its listeners stay with the pane (`overtaken`); a listener that is registered after the cleanup
  stays and may show "closed" over the next shell.

## 6. What is proved

All theorems hold for every value of the constants under the named assumptions of the modules, which
say that numbers are numbers, that requests have the fields of the protocol, that `None` is not
one of the things it is told from, and in `DeviceBrowser` that there are finitely many snapshots,
since the pane takes the latest of its list. No theorem about a specification has a hypothesis of its own: no kind of
failure the models have is ruled out.

### Server_proofs: the snapshot store

`Server_proofs` has the theorems of three modules: `Spec` is that of `SnapshotStore`, `LoopSpec` that of
`RetentionLoop` and `RegistrySpec` that of `DeviceRegistry`. They share no variable.

None of the sets of ids, chunks, clients, GCs, prunes, DELETEs, devices, names and times has to be
finite: the newest snapshot of a group is kept because the set of newer ones is empty.

| Theorem | States |
|---|---|
| `TypeCorrect` | `Spec => []TypeOK` |
| `Safety` | `Spec => []SafetyInv` |
| `GcSparesLiveChunks` | `Spec => []GcSparesLive` |
| `UnracedPushesRestorable` | `Spec => []UnracedRestorable` |
| `OrphansAreExplained` | `Spec => []OrphansExplained` |
| `NewestSnapshotSurvives` | `Spec => []NewestSurvives` |

* `GcSparesLive` is not inductive: while a GC marks, a live chunk may not be marked yet. `GcInv` says
  that it is then referred to by a manifest the GC has still to read. If that manifest is deleted
  meanwhile the read fails and the GC ends, which is exactly why the 404 must not be skipped
  (mutant `GcMarkTolerant`).
* `UnracedRestorable` needs `RestoreInv`: what an unraced push has found present or uploaded
  is there, because no GC runs meanwhile; and what earlier pushes committed is live for every later GC.
  It rests on `IdInv`: an id is drawn once, so that a push never replaces a manifest. `TornInv`
  says where torn chunks come from: a write under way that truncated last, or one that was cut short.
* `OrphansExplained` needs `OrphanInv`, about the one moment when a prune has deleted a manifest and not
  yet the metadata, at which a push may store that manifest again.
* `NewestSurvives` needs `NewestInv`: what a prune is going to delete was outranked when the prune
  listed it, and `created` only grows. Two lemmas about `Retention` support it: a rule that
  keeps something keeps the newest snapshot of a group.

### Server_proofs: retention

`LoopsKeepTheRules` (`LoopSpec => []LoopKeepsTheRules`): the loops keep exactly what the rules say, for groups of any size, any counts and
any clock. The rules name sets and the loops go over positions of a sorted sequence, so the proof first
shows that a sorting exists and enumerates the group (`SortingExists`, `SortingEnumerates`), then
restates each rule by positions (`LastByPosition`, `BucketsByPosition`). `LoopInvariant` says that the
rules that are done have kept what they name, and the running one what it names among the positions
before its index. Sorting is shown by induction on the size of the group, by a least
counterexample: `LeastNumber` derives the least-number principle from the library's theorem that the
strict subset order on a finite set is well-founded, and that a finite set of numbers has a greatest.

### Server_proofs: devices

| Theorem | States |
|---|---|
| `RegistryTypeCorrect` | `RegistrySpec => []RegistryTypeOK` |
| `CredentialsAreHeld` | `RegistrySpec => []CredentialsHold` |
| `SeenInvHolds`, `LastSeenIsKept` | `RegistrySpec => []SeenInv`, hence `[]LastSeenKept` |

* `CredentialsHold` is inductive as it stands: a record is torn only by the put of a writer, and a
  writer leaves a whole record or, when it fails, an entry of `cut`.
* `LastSeenKept` needs `SeenInv`. Without overlap a heartbeat is the only one of its device
  (`BeatInv`), its time is not older than the last answer, and what it has written is still there when
  it answers; times never run ahead of the clock (`ClockInv`), which makes the next heartbeat's
  time recent enough.

### RestoreFolder_proofs

| Theorem | States |
|---|---|
| `TypeCorrect` | `Spec => []TypeOK` |
| `CancelHits` | `Spec => []CancelHitsItsSnapshot` |
| `CancelStops` | `Spec => []CancelStopsScheduling` |
| `RenameIsSafe` | `Spec => RenameTruncatesNothing` |
| `OkIsWhole` | `Spec => []OkMeansWhole` |

* `CancelHitsItsSnapshot` is inductive together with the types, although runs of one snapshot overwrite
  and remove each other's flag: whoever removes a flag is the run it belongs to, or that run stays unregistered.
* `CancelStops` needs to know where a worker is: one that has begun a file after the cancel is past
  the second look at the flag and meets the first one next.
* `RenameIsSafe`: while a run is alone, the target a worker has chosen is free, or its own, and no two
  workers have taken the same file.
* `OkIsWhole` counts. As long as there was neither an error nor a cancel, the files taken are those
  the command has received, those in the channel and those with a worker, and every file taken is
  with a worker or whole. The command ends as "ok" with an empty, closed channel and no worker left; a worker
  leaves when the counter has passed the last file.

### CopyFolder_proofs

| Theorem | States |
|---|---|
| `TypeCorrect` | `Spec => []TypeOK` |
| `DoneIsComplete` | `Spec => []DoneMeansCopied` |
| `ResumeIsSafe` | `Spec => []ResumePointStored` |
| `Refinement` | `Spec => Implements` |
| `BaseStays` | `Spec => []BaseKept` |
| `PromiseKept` | the promise of `ResumableCopy` holds of the job |

Any request may fail, those included whose failure the code ignores. The inductive invariant has ten parts
besides the types: entries are named after what they copy
(`OwnPaths`); workers run in the copy phase only and hold the lock around the PUT (`Phases`); a run starts
from the stored manifest, or is aborted or blind (`Starting`); workers have distinct files not yet counted
(`Progress`), and without an error each file is counted, taken or left (`Counted`); what a worker knows of
its entry (`Adding`); what is counted is stored and stays in the next manifest (`Stored`, `Kept`); a
skipped path was in the manifest (`Skipping`); and what holds at the end (`Ending`). What a blind run may lose is in `past.unseen` from the
failed GET on, and each part is about the files outside it. `Refinement` maps every step to a step of `ResumableCopy`
or a stutter, a failed GET to `GoBlind`; `PromiseKept` then carries the abstract promise over.

`BaseStays` needs `BaseInv` besides: neither the manifest on the server nor the one in memory of a run that is not
aborted ever loses an entry of the base, but those taken out under "overwrite" (`past.replaced`), unless the GET of
the base failed. Each action only keeps manifests (`KeepsManifest`), and such steps keep `BaseInv`; an entry that was
taken out is replaced by the copy of the same path, which a done job has by `DoneIsComplete`.

### CopyFile_proofs

| Theorem | States |
|---|---|
| `TypeCorrect` | `Spec => []TypeOK` |
| `SharedUploadsEnd` | `Spec => []UploadsShared` |
| `CancelsAlwaysMatch` | `Spec => []CancelsMatch` |
| `OnlyGcLoses` | `Spec => []LostOnlyToGc` |
| `ManifestsAreSound` | `Spec => []ManifestsSound` |

Each action is first shown to be one of nine step predicates (`Prepares`, `Starts`, ..., `Uploads`), which
say what a step does and forget how; the invariants are proved over those.

* `UploadsShared` is inductive with the types and `Shape` (a run that has not reached the chunks has
  idle workers; a worker's chunk is one of its file).
* `CancelsMatch`: an abort is only heard by those who await a chunk, and they share it; otherwise a run ends as canceled
  by its own abort or by an error that says so (`says`).
* `LostOnlyToGc` needs `StoreInv`: every chunk a run still has to copy is left in its list or with one
  of its workers, so that a run whose workers are idle has them all.
* `BaseKept` needs `NameInv`: from `choosePath` on a run that is neither aborted nor blind knows all files of its base,
  and its name is free, or the asked-for one that it may overwrite. That `choosePath` finds a free
  name when there is one is `NewNameFree`, by `LeastNumber`.

### App_proofs: the workspaces

| Theorem | States |
|---|---|
| `LayoutsStayLayouts` | `Spec => []TypeOK` |
| `PanesAreInOnePlace` | `Spec => []OnePlace` |
| `PanesAreKept` | `Spec => PanesStay` |
| `OrderIsKept` | `Spec => []OrderKept` |

For any number of panes and workspaces, trees of any shape and a grid of any width. The proof climbs from
positions to workspaces:

* Positions are sequences of 1 and 2; `Joined` to `BelowChild` say what `\o`, `IsPrefix`, `Front` and `Below`
  do to them. `Closed` and `HasLeaf` are the two inductions on trees, by least and greatest counterexamples.
* Every operation maps layouts to layouts and says which panes are in the result: `SubIsLayout`,
  `GraftIsLayout`, `SplitIsLayout`, and from those `SplitLeafAdds`, `WithoutTakes`, `InsertLeafAdds`, `SwapKeeps`,
  `MoveKeeps`, `CloseTakes`.
* `InOrderLists` and `ReadingLists`: `collectLeaves` and `collectLeavesForAddView` list every pane once,
  since what comes before a pane is a strict total order (`Arranges`). `GridIsLayout`: the grid shows
  the panes it is given; no column is empty (`Columned`), and `BesideFrom` gives the recursion
  of `buildRowLayout` and `buildColLayout` its solution.
* `OnePlace` is not inductive: a late answer writes a tree of before. `WorkspaceInv` adds that the panes of
  the captured workspace are in no other (`Fits`), which new panes and new workspaces respect because their ids
  are fresh.
* Order is a matter of paths. The lemmas on operations also say where each pane is in the result, and of two
  panes the one whose path goes left at the fork comes first (`BelowPrecedes`, `PrecedesBelow`, `BeforeInOrder`).
  So `WithoutInOrder` and `InsertInOrder` leave every other pair as it was and put the pane beside its target, and
  `MoveInOrder` combines them.
* The grid is read by rows, and the row of a pane is how many panes of its column are above it. `BesidePlaces` gives
  the path of each pane in the spine, `GridRows` counts: the k-th pane is in row `(k - 1) \div Columns`, because
  `CellOf` and `CellIs` make places and cells one-to-one. By `CellOrder` the grid is read in
  increasing k, and an increasing sequence of all of `1..n` is the identity (`Identical`).

### App_proofs: the transfer queue

`QueueTypeCorrect`, `AbortersAlwaysMatch` (`QueueSpec => []AbortersMatch`) and `WaitedRunsAreLive`, for any number of
jobs, runs and panes, from one invariant, `QueueInv`: a controller in the map belongs to a run of its job that
goes on, a job shown as running has one, and loops await only runs that go on. Settling a run is the step that
could break it: it clears the controller of the job, so no other run of that job may own it.

### DeviceBrowser_proofs

| Theorem | States |
|---|---|
| `Inductive`, `TypeCorrect` | `Spec => []Inv`, hence `[]TypeOK` |
| `TabIsListed` | `Spec => []SnapshotListed` |
| `EntriesBelong` | `Spec => []ShownBelongs` |
| `BackupsStay` | `Spec => []BackupKept` |

The properties are about renders at rest, so the invariant says of each kind of render which effects
have nothing left to do: `Keyed` and `Listed` for the effects of the key, the devices and the list, `Synced` for the one
that asks for the tree. The theorems hold for every saved tab the pane may be mounted with, where the run has a new one.
`Stored` says that a snapshot somebody refers to was stored once, under a device, which is what makes
the latest of a list one of the list. `BackupKept` needs `ReadsBackup`: an upload that is about to store a manifest has
read the backup's files, or is in `blind`.

The exceptions of two properties are what the code does on a failure, and are named in them. When the `getTree` of the
tab fails, an earlier answer for the key already loaded stays on the screen (`failed`); when the GET of a manifest
fails, the upload stores its own over that of the backup (`blind`).

### PaneTerminals_proofs

| Theorem | States |
|---|---|
| `Inductive`, `TypeCorrect` | `Spec => []Inv`, hence `[]TypeOK` |
| `ButtonsAreGates` | `Spec => []ButtonsGateCalls` |
| `EntriesAreOfTheTab` | `Spec => []PanesShowTheirFolder` |
| `ShellsAreHeld` | `Spec => []OrphansOvertaken` |
| `TypingIsForTheTab` | `Spec => []TypesIntoItsTab` |
| `OutputIsOfTheShell` | `Spec => []ShowsWhatItTypesInto` |
| `ClosedIsSaidOfTheShell` | `Spec => []ClosedIsTrue` |

For any number of panes, calls, starts and moves.

* Browser panes. Each handler is one of eight changes of one pane's calls (`Begins`, `Finishes`, `GoesOn`, ...), and
  the invariants are proved over those. `Gated`: the flag `loading` is down when no call is left, and without a
  crossing (a call begun during another by something that is no button, or by a download that leaves its dialog) there
  is one call at most. `Fresh` is the order of calls: unless the tab was outrun, the last
  listing in flight is for the folder of the tab, or none is and the entries are. Local listings answer
  in order; those of SFTP panes do not, so there all must be for the tab.
* Terminal panes. Sessions are numbered in the order of their starts (`Ordered`). `Calling`: a start in flight is
  for the tab of its pane or overtaken, and of two starts of a pane the first is overtaken. `Attached` relates a
  pane to its session and listeners: the listener effect follows the ref unless a start was overtaken, and
  registrations that were cleaned up are not kept.
* An opened terminal splits the layout, which remounts the first pane in both halves of the state at once.

### Only model-checked

Out of the prover's reach, and left to TLC: liveness under fairness (`UncancelledEnds`, `RunEnds`, `RunsEnd`,
`LoopsEnd`, `Settles`). Every safety invariant and action property of the runs that pass is a theorem.
Each invariant that is proved was first checked by TLC.

## 7. Not modelled

* **Plugin runs, SFTP import and copy**: one thread per call that runs a process and waits for it; that
  its stdout is read after it has ended is a matter of the capacity of a pipe.
* **CLI agent, service installation, ignore rules, plugins**: one process and one loop; its schedule is
  wall-clock time and its ignore rules are a library of string patterns. `push-folder` is the client
  of `SnapshotStore`; `pull-folder` writes one file after the other.
* **Settings, themes, translations, onboarding, retention screen**: forms over single requests, and
  presentation.
* **TUI**: a read-only browser over the API. **Plugins**: processes that serve one request each.
* Within modelled components: torn snapshot metadata (`DiskStorage::put` is modelled in two halves for chunks,
  manifests and device records; a listing that cannot decode a torn record is a prune or a list that fails), in
  `download_to_file` a write that is still buffered at its end and the panic of a worker (`let _ = h.await`), reads that change nothing (tree, file, config export), S3 paging, key validation, the
  route rules of auth, and in the panes what is listed under each module above.

What the properties let pass, since the code does so: of two overlapping heartbeats the later write wins, and a record
cut short in the middle of a write locks its device out; runs of one snapshot overwrite and remove each other's
cancellation flag, and may meet between the look at a file and its creation; a second run of a job takes the
aborter of the first; an SFTP pane shows the directory of before after Enter and Up; a start of a shell that was
overtaken leaves a shell nobody can reach, or listeners of an earlier one. Each property states its exception, and
`PROJECT.json` lists the hazards.
