---------------------------- MODULE RestoreFolder ----------------------------
(***************************************************************************)
(* Restoring snapshots into one local folder from the desktop             *)
(* (restore_snapshot_to_folder of apps/desktop/src-tauri/src/main.rs).     *)
(*                                                                         *)
(* A restore spawns its workers as tasks.  They take the files of the      *)
(* manifest in turn from an atomic counter, look at the destination, write *)
(* the file in place, and report on a bounded channel; the command itself  *)
(* is the receiver.  A flag shared through RestoreManager cancels them.    *)
(* The manifests name the same files, so that restores meet on the disk.   *)
(***************************************************************************)
EXTENDS Naturals, Sequences, FiniteSets

CONSTANTS
  Restores,  \* runs of the command
  Snapshots,
  Files,     \* per snapshot, how many files its manifest has: 1..Files[s]
  Workers,   \* workers: a run has `concurrency` of them
  Renames,   \* names unique_restore_path tries before it gives up (999)
  Plans,     \* what the runs of one behaviour may be asked for
  None

Policies == {"overwrite", "skip", "rename"}
Request  == [snap: Snapshots, policy: Policies, workers: (SUBSET Workers) \ {{}}]

ASSUME FilesAssumption   == Files \in [Snapshots -> Nat]
ASSUME RenamesAssumption == Renames \in Nat
ASSUME WorkersAssumption == IsFiniteSet(Workers)
ASSUME PlansAssumption   == Plans \subseteq [Restores -> SUBSET Request]
ASSUME NoneAssumption    == None \notin Restores \cup Request /\ None # "ok"

VARIABLES
  plan,    \* the requests each run may serve
  cancel,  \* RestoreManager: the run whose flag is registered for a snapshot
  flag,    \* per run: its cancellation flag
  job,     \* per run: the command itself
  next,    \* per run: the counter the workers take files from
  worker,  \* per run and worker
  queue,   \* per run: the channel
  disk,    \* per file: its own path (0) and its renamings (1..Renames)
  alone,   \* history: no other run has started since this one did
  extra    \* history: per run and worker, files begun since the run was cancelled

vars == <<plan, cancel, flag, job, next, worker, queue, disk, alone, extra>>

Off  == [pc |-> "off", file |-> 0, slot |-> 0, msg |-> None]
Idle == [pc |-> "idle", req |-> None, done |-> 0, result |-> None]

Absent == [st |-> "absent", by |-> None]

Paths == UNION {1..Files[s] : s \in Snapshots}

FilesOf(r)  == 1..Files[job[r].req.snap]
Capacity(r) == 2 * Cardinality(job[r].req.workers)

WorkerState ==
  [pc: {"off", "take", "place", "begin", "write", "send"},
   file: Paths \cup {0}, slot: 0..Renames, msg: {"ok", "err", None}]

JobState ==
  [pc: {"idle", "load", "run", "join"}, req: Request \cup {None}, done: Nat,
   result: {"ok", "err", "cancelled", None}]

TypeOK ==
  /\ plan \in Plans
  /\ cancel \in [Snapshots -> Restores \cup {None}]
  /\ flag \in [Restores -> BOOLEAN]
  /\ job \in [Restores -> JobState]
  /\ next \in [Restores -> Nat \ {0}]
  /\ worker \in [Restores -> [Workers -> WorkerState]]
  /\ queue \in [Restores -> Seq({"ok", "err"})]
  /\ disk \in [Paths -> [0..Renames -> [st: {"absent", "partial", "whole"},
                                        by: Restores \cup {None}]]]
  /\ alone \in [Restores -> BOOLEAN]
  /\ extra \in [Restores -> [Workers -> Nat]]

Init ==
  /\ plan \in Plans
  /\ cancel = [s \in Snapshots |-> None]
  /\ flag   = [r \in Restores |-> FALSE]
  /\ job    = [r \in Restores |-> Idle]
  /\ next   = [r \in Restores |-> 1]
  /\ worker = [r \in Restores |-> [w \in Workers |-> Off]]
  /\ queue  = [r \in Restores |-> <<>>]
  /\ disk   = [f \in Paths |-> [k \in 0..Renames |-> Absent]]
  /\ alone  = [r \in Restores |-> FALSE]
  /\ extra  = [r \in Restores |-> [w \in Workers |-> 0]]

-----------------------------------------------------------------------------
(* The command.                                                             *)

(* Registers a fresh flag under the snapshot id, over any that is there.    *)
Start(r) ==
  /\ job[r].pc = "idle"
  /\ \E q \in plan[r] :
       /\ job' = [job EXCEPT ![r] = [pc |-> "load", req |-> q, done |-> 0, result |-> None]]
       /\ cancel' = [cancel EXCEPT ![q.snap] = r]
  /\ flag' = [flag EXCEPT ![r] = FALSE]
  /\ extra' = [extra EXCEPT ![r] = [w \in Workers |-> 0]]
  /\ alone' = [q \in Restores |-> q = r /\ \A o \in Restores \ {r} : job[o].pc = "idle"]
  /\ UNCHANGED <<plan, next, worker, queue, disk>>

(* Variant: no Cleanup. *)
EndKeepingFlag(r, result) ==
  /\ job' = [job EXCEPT ![r].pc = "idle", ![r].result = result]
  /\ UNCHANGED cancel

(* The command returns; Cleanup drops whatever flag its snapshot has.       *)
End(r, result) ==
  /\ job' = [job EXCEPT ![r].pc = "idle", ![r].result = result]
  /\ cancel' = [cancel EXCEPT ![job[r].req.snap] = None]

(* The manifest arrives and the workers are spawned, or the command fails.  *)
Load(r) ==
  /\ job[r].pc = "load"
  /\ \/ /\ job' = [job EXCEPT ![r].pc = "run"]
        /\ next' = [next EXCEPT ![r] = 1]
        /\ queue' = [queue EXCEPT ![r] = <<>>]
        /\ worker' = [worker EXCEPT ![r] =
             [w \in Workers |-> IF w \in job[r].req.workers THEN [Off EXCEPT !.pc = "take"] ELSE Off]]
        /\ UNCHANGED cancel
     \/ End(r, "err") /\ UNCHANGED <<next, worker, queue>>
  /\ UNCHANGED <<plan, flag, disk, alone, extra>>

Done(r) == \A w \in Workers : worker[r][w].pc = "off"

(* One rx.recv(): a cancelled run drops the message and stops receiving, an *)
(* error cancels the run and stops too.  Messages queue up before a slow    *)
(* receiver, which emits a progress event for each.                         *)
Receive(r) ==
  /\ job[r].pc = "run" /\ queue[r] # <<>>
  /\ queue' = [queue EXCEPT ![r] = Tail(@)]
  /\ \/ /\ flag[r]
        /\ job' = [job EXCEPT ![r].pc = "join", ![r].result = "cancelled"]
        /\ UNCHANGED flag
     \/ /\ ~flag[r] /\ Head(queue[r]) = "ok"
        /\ job' = [job EXCEPT ![r].done = @ + 1]
        /\ UNCHANGED flag
     \/ /\ ~flag[r] /\ Head(queue[r]) = "err"
        /\ job' = [job EXCEPT ![r].pc = "join", ![r].result = "err"]
        /\ flag' = [flag EXCEPT ![r] = TRUE]
  /\ UNCHANGED <<plan, cancel, next, worker, disk, alone, extra>>

(* Variant: the command keeps a sender of its own. *)
ClosedNever(r) == FALSE /\ UNCHANGED vars

(* Every worker has dropped its sender: the loop ends.                      *)
Closed(r) ==
  /\ job[r].pc = "run" /\ queue[r] = <<>> /\ Done(r)
  /\ job' = [job EXCEPT ![r].pc = "join",
                        ![r].result = IF flag[r] THEN "cancelled" ELSE "ok"]
  /\ UNCHANGED <<plan, cancel, flag, next, worker, queue, disk, alone, extra>>

(* h.await for every worker, with the receiver still open.                  *)
Join(r) ==
  /\ job[r].pc = "join" /\ Done(r)
  /\ End(r, job[r].result)
  /\ UNCHANGED <<plan, flag, next, worker, queue, disk, alone, extra>>

(* cancel_restore_snapshot; it answers false when no flag is registered.    *)
Cancel(s) ==
  /\ cancel[s] # None
  /\ flag' = [flag EXCEPT ![cancel[s]] = TRUE]
  /\ UNCHANGED <<plan, cancel, job, next, worker, queue, disk, alone, extra>>

-----------------------------------------------------------------------------
(* A worker.                                                                *)

(* Variant: workers do not look at the flag. *)
StoppingNever(r) == FALSE

(* A worker looks at the flag before it takes a file and before it places it. *)
Stopping(r) == flag[r]

SetWorker(r, w, new) == worker' = [worker EXCEPT ![r][w] = new]
Report(r, w, m) == SetWorker(r, w, [worker[r][w] EXCEPT !.pc = "send", !.msg = m])

Take(r, w) ==
  /\ worker[r][w].pc = "take"
  /\ \/ /\ Stopping(r) \/ next[r] \notin FilesOf(r)
        /\ SetWorker(r, w, Off) /\ UNCHANGED next
     \/ /\ ~Stopping(r) /\ next[r] \in FilesOf(r)
        /\ SetWorker(r, w, [pc |-> "place", file |-> next[r], slot |-> 0, msg |-> None])
        /\ next' = [next EXCEPT ![r] = @ + 1]
  /\ UNCHANGED <<plan, cancel, flag, job, queue, disk, alone, extra>>

(* Variant: the first renaming, free or not. *)
FreeOrNot(f) == 1..Renames

Free(f) == {k \in 1..Renames : disk[f][k] = Absent}

(* Where the file goes: the second look at the flag, then one stat (or one  *)
(* per renaming) of a disk that others write to as well.  A path or a stat  *)
(* error is reported.                                                       *)
Place(r, w) ==
  LET f == worker[r][w].file
      goTo(k) == SetWorker(r, w, [worker[r][w] EXCEPT !.pc = "begin", !.slot = k])
      exists  == disk[f][0] # Absent
  IN
  /\ worker[r][w].pc = "place"
  /\ \/ Report(r, w, "err")
     \/ Stopping(r) /\ SetWorker(r, w, Off)
     \/ /\ ~Stopping(r)
        /\ \/ (job[r].req.policy = "overwrite" \/ ~exists) /\ goTo(0)
           \/ job[r].req.policy = "skip" /\ exists /\ Report(r, w, "ok")
           \/ /\ job[r].req.policy = "rename" /\ exists
              /\ \E k \in Free(f) : (\A j \in Free(f) : k <= j) /\ goTo(k)
  /\ UNCHANGED <<plan, cancel, flag, job, next, queue, disk, alone, extra>>

(* The file is created, or truncated, in place; or every attempt fails      *)
(* before that.                                                             *)
Begin(r, w) ==
  LET f == worker[r][w].file
      k == worker[r][w].slot
  IN
  /\ worker[r][w].pc = "begin"
  /\ \/ /\ disk' = [disk EXCEPT ![f][k] = [st |-> "partial", by |-> r]]
        /\ SetWorker(r, w, [worker[r][w] EXCEPT !.pc = "write"])
        /\ extra' = [extra EXCEPT ![r][w] = IF flag[r] THEN @ + 1 ELSE @]
     \/ Report(r, w, "err") /\ UNCHANGED <<disk, extra>>
  /\ UNCHANGED <<plan, cancel, flag, job, next, queue, alone>>

(* Variant: the error of the last attempt is dropped. *)
WriteDroppingError(r, w) ==
  /\ worker[r][w].pc = "write"
  /\ Report(r, w, "ok")
  /\ UNCHANGED <<plan, cancel, flag, job, next, queue, disk, alone, extra>>

(* The last attempt ends.  A file that another run truncated meanwhile is a *)
(* mix of both.                                                             *)
Write(r, w) ==
  LET f == worker[r][w].file
      k == worker[r][w].slot
  IN
  /\ worker[r][w].pc = "write"
  /\ \/ /\ disk' = [disk EXCEPT ![f][k].st = IF disk[f][k].by = r THEN "whole" ELSE "partial"]
        /\ Report(r, w, "ok")
     \/ Report(r, w, "err") /\ UNCHANGED disk
  /\ UNCHANGED <<plan, cancel, flag, job, next, queue, alone, extra>>

(* tx.send waits for room.  A worker that reported an error is done.        *)
Send(r, w) ==
  /\ worker[r][w].pc = "send" /\ Len(queue[r]) < Capacity(r)
  /\ queue' = [queue EXCEPT ![r] = Append(@, worker[r][w].msg)]
  /\ SetWorker(r, w, IF worker[r][w].msg = "err" THEN Off ELSE [Off EXCEPT !.pc = "take"])
  /\ UNCHANGED <<plan, cancel, flag, job, next, disk, alone, extra>>

-----------------------------------------------------------------------------

Command(r) == Load(r) \/ Receive(r) \/ Closed(r) \/ Join(r)
Work(r, w) == Take(r, w) \/ Place(r, w) \/ Begin(r, w) \/ Write(r, w) \/ Send(r, w)

Next ==
  \/ \E r \in Restores : Start(r) \/ Command(r) \/ \E w \in Workers : Work(r, w)
  \/ \E s \in Snapshots : Cancel(s)

(* Tasks are scheduled, the server answers or the connection fails: no step *)
(* of a run waits for ever, unless for another of its steps.                *)
Fairness ==
  \A r \in Restores : WF_vars(Command(r)) /\ \A w \in Workers : WF_vars(Work(r, w))

Spec == Init /\ [][Next]_vars /\ Fairness

-----------------------------------------------------------------------------

(* A run that answers Ok wrote every file of the manifest whole, under its  *)
(* own name or a renaming, and reported each once: no file is lost between  *)
(* the counter, the workers and the channel.  (Runs that no other run       *)
(* overlapped; "skip" is allowed to leave what it finds.)                   *)
OkMeansWhole ==
  \A r \in Restores : job[r].pc = "idle" /\ job[r].result = "ok" =>
    /\ job[r].done = Files[job[r].req.snap]
    /\ alone[r] /\ job[r].req.policy # "skip" =>
         \A f \in FilesOf(r) : \E k \in 0..Renames : disk[f][k] = [st |-> "whole", by |-> r]

(* A renaming run alone never touches a file that was there before.         *)
RenameTruncatesNothing ==
  [][\A f \in Paths, k \in 0..Renames :
       LET r == disk'[f][k].by
       IN  disk'[f][k].st = "partial" /\ disk[f][k].st # "absent"
             /\ disk'[f][k] # disk[f][k]
           => ~(alone'[r] /\ job'[r].req.policy # "overwrite")]_vars

(* Cancelling stops scheduling: each worker begins at most the one file it  *)
(* had already looked at.                                                   *)
CancelStopsScheduling == \A r \in Restores, w \in Workers : extra[r][w] <= 1

(* A run nobody cancels, and that meets no error, ends: the workers and the *)
(* receiver never wait for each other.                                      *)
UncancelledEnds ==
  \A r \in Restores : job[r].pc = "run" ~> job[r].pc = "idle" \/ flag[r]

(* A cancelled run ends too: "stops scheduling new files; in-flight         *)
(* downloads finish" (the comment above the workers, docs/quickstart.md).   *)
CancelledEnds ==
  \A r \in Restores : job[r].pc = "run" /\ flag[r] ~> job[r].pc = "idle"

(* A registered flag belongs to a run of that snapshot that is still going, *)
(* although runs of one snapshot overwrite and remove each other's flag: a  *)
(* cancel never hits another restore.                                       *)
CancelHitsItsSnapshot ==
  \A s \in Snapshots : cancel[s] # None =>
    job[cancel[s]].pc # "idle" /\ job[cancel[s]].req.snap = s
=============================================================================
