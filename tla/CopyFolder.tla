----------------------------- MODULE CopyFolder -----------------------------
(***************************************************************************)
(* One copy_folder job of the desktop's transfer queue (copyFolderNow of   *)
(* apps/desktop/src/ui/App.tsx): the files of a source directory are       *)
(* copied into a new destination snapshot, whose manifest is rewritten     *)
(* after every file so that a failed, canceled or interrupted job resumes. *)
(*                                                                         *)
(* The code is one JavaScript thread: a step runs from one await to the    *)
(* next.  A request may fail before or after the server has carried it     *)
(* out; one that was given up does not reach the server later.             *)
(***************************************************************************)
EXTENDS Naturals, FiniteSets

CONSTANTS
  Files,     \* the source files are 1..Files, in order
  Workers,   \* copyFolderFileConcurrency workers
  Names,     \* a path and its renamings, "x", "x (2)", ...: 1..Names
  Policies,  \* conflict policies
  Bases,     \* base snapshots: which of the paths they have
  Changes,   \* the policy is changed this often (a bound)
  None

ASSUME FilesAssumption == Files \in Nat \ {0}
ASSUME ChangesAssumption == Changes \in Nat
ASSUME NamesAssumption == Names \in Nat \ {0}
ASSUME WorkersAssumption == Workers # {} /\ None \notin Workers
ASSUME BasesAssumption == Bases \subseteq SUBSET (1..Files)

VARIABLES
  base, policy,  \* the job's dstBaseSnapshotId and conflictPolicy
  job,     \* what localStorage keeps of the job
  stored,  \* the entries of the destination manifest on the server
  run,     \* the local variables of copyFolderNow
  worker,  \* per worker: the local variables of processOne
  lock,    \* manifestLock: the worker that holds it
  past     \* history: files skipped and replaced, and what failed GETs hid

vars == <<base, policy, job, stored, run, worker, lock, past>>

Paths   == (1..Files) \X (1..Names)
Entries == [path: Paths, from: 0..Files]  \* 0: copied from the base manifest

PathsOf(M)  == {e.path : e \in M}
BaseEntries == {[path |-> <<i, 1>>, from |-> 0] : i \in base}

NoRun == [pc |-> "idle", mf |-> {}, reserved |-> {}, contig |-> 1, completed |-> {},
          start |-> 1, err |-> FALSE, abort |-> FALSE, blind |-> FALSE]
Off   == [pc |-> "off", i |-> 1, path |-> <<1, 1>>]
Picking == [Off EXCEPT !.pc = "pick"]

JobStates == [status: {"queued", "running", "failed", "done"},
              created: BOOLEAN, listed: BOOLEAN, next: 1..Files + 1]
RunStates == [pc: {"idle", "create", "load", "seed", "seedput", "list", "copy",
                   "final", "finalput"},
              mf: SUBSET Entries, reserved: SUBSET Paths,
              contig: 1..Files + 1, completed: SUBSET (1..Files), start: 1..Files + 1,
              err: BOOLEAN, abort: BOOLEAN, blind: BOOLEAN]
WorkerStates == [pc: {"off", "pick", "plan", "skip", "copy", "commit", "put", "applied"},
                 i: 1..Files, path: Paths]

(* Histories.  A run is blind when it goes on after a GET of a manifest     *)
(* that failed by itself; unseen are the files counted before it, and those *)
(* it skips; unseeded is set when the manifest of the base was not to be had. *)
PastStates == [skipped: SUBSET (1..Files), replaced: SUBSET (1..Files),
               unseen: SUBSET (1..Files), unseeded: BOOLEAN, changes: 0..Changes]

TypeOK ==
  /\ base \in Bases /\ policy \in Policies
  /\ job \in JobStates /\ run \in RunStates
  /\ stored \subseteq Entries
  /\ worker \in [Workers -> WorkerStates]
  /\ lock \in Workers \cup {None}
  /\ past \in PastStates

Init ==
  /\ base \in Bases /\ policy \in Policies
  /\ job = [status |-> "queued", created |-> FALSE, listed |-> FALSE, next |-> 1]
  /\ stored = {}
  /\ run = NoRun
  /\ worker = [w \in Workers |-> Off]
  /\ lock = None
  /\ past = [skipped |-> {}, replaced |-> {}, unseen |-> {}, unseeded |-> FALSE,
             changes |-> 0]

-----------------------------------------------------------------------------
(* Before the files: each step is one request of the run.                   *)

Running == job.status = "running"

(* A click on Run, or on Retry after a failure or a restart. *)
Begin ==
  /\ job.status \in {"queued", "failed"}
  /\ job' = [job EXCEPT !.status = "running"]
  /\ run' = [NoRun EXCEPT !.pc = IF job.created THEN "load" ELSE "create"]
  /\ UNCHANGED <<base, policy, past, stored, worker, lock>>

(* The catch clause: whatever the error, the job can be retried. *)
End(status) ==
  /\ job' = [job EXCEPT !.status = status]
  /\ run' = NoRun

Create ==
  /\ run.pc = "create"
  /\ \/ /\ ~run.abort
        /\ job' = [job EXCEPT !.created = TRUE]
        /\ run' = [run EXCEPT !.pc = "load"]
     \/ End("failed")
  /\ UNCHANGED <<base, policy, past, stored, worker, lock>>

(* Variant: an empty destination is left empty. *)
LoadUnseeded ==
  /\ run.pc = "load"
  /\ run' = [run EXCEPT !.mf = stored, !.pc = "list"]
  /\ UNCHANGED <<base, policy, past, job, stored, worker, lock>>

Unseen == [past EXCEPT !.unseen = @ \cup 1..job.next - 1]

(* A manifest that cannot be loaded counts as one that does not exist yet. *)
Load ==
  /\ run.pc = "load"
  /\ \E M \in {stored, {}} :
       LET blind == M # stored /\ ~run.abort IN
       /\ run' = [run EXCEPT !.mf = M, !.blind = blind,
                             !.pc = IF M = {} /\ base # {} THEN "seed" ELSE "list"]
       /\ past' = IF blind THEN Unseen ELSE past
  /\ UNCHANGED <<base, policy, job, stored, worker, lock>>

(* An empty destination starts from the base snapshot; errors are ignored. *)
Seed ==
  /\ run.pc = "seed"
  /\ \/ /\ ~run.abort /\ run' = [run EXCEPT !.pc = "seedput", !.mf = BaseEntries]
        /\ UNCHANGED past
     \/ run.abort /\ run' = [run EXCEPT !.pc = "list"] /\ UNCHANGED past
     \/ /\ ~run.abort /\ run' = [run EXCEPT !.pc = "list", !.blind = TRUE]
        /\ past' = [Unseen EXCEPT !.unseeded = TRUE]
  /\ UNCHANGED <<base, policy, job, stored, worker, lock>>

SeedPut ==
  /\ run.pc = "seedput"
  /\ \/ ~run.abort /\ stored' = run.mf
     \/ UNCHANGED stored
  /\ run' = [run EXCEPT !.pc = "list"]
  /\ UNCHANGED <<base, policy, past, job, worker, lock>>

(* The source tree is listed once.  Then the workers start at nextIndex.    *)
List ==
  /\ run.pc = "list"
  /\ \/ /\ job.listed \/ ~run.abort
        /\ job' = [job EXCEPT !.listed = TRUE]
        /\ run' = [run EXCEPT !.pc = "copy", !.reserved = PathsOf(run.mf),
                              !.contig = job.next, !.start = job.next]
        /\ worker' = [w \in Workers |-> Picking]
     \/ ~job.listed /\ End("failed") /\ UNCHANGED worker
  /\ UNCHANGED <<base, policy, past, stored, lock>>

-----------------------------------------------------------------------------
(* The workers: processOne.                                                 *)

Goto(w, pc) == worker' = [worker EXCEPT ![w].pc = pc]
Again(w)    == worker' = [worker EXCEPT ![w] = Picking]

(* Variant: one file too many. *)
PickTooMany(w) ==
  /\ worker[w].pc = "pick"
  /\ worker' = [worker EXCEPT ![w].pc = "plan", ![w].i = run.start]
  /\ run' = [run EXCEPT !.start = @ + 1]
  /\ UNCHANGED <<base, policy, past, job, stored, lock>>

Pick(w) ==
  /\ worker[w].pc = "pick"
  /\ \/ /\ run.err \/ run.start > Files
        /\ worker' = [worker EXCEPT ![w] = Off] /\ UNCHANGED run
     \/ /\ ~run.err /\ run.start <= Files
        /\ worker' = [worker EXCEPT ![w].pc = "plan", ![w].i = run.start]
        /\ run' = [run EXCEPT !.start = @ + 1]
  /\ UNCHANGED <<base, policy, past, job, stored, lock>>

(* uniquePath: the first free name; when all are taken, the first one again. *)
IsUniqueName(k, i, taken) ==
  LET free == {n \in 1..Names : <<i, n>> \notin taken}
  IN  \/ k \in free /\ \A n \in free : k <= n
      \/ free = {} /\ k = 1

(* Under the lock, chooses and reserves the destination path. *)
Plan(w) ==
  LET i == worker[w].i
      p == <<i, 1>>
      copyTo(q, mf) ==
        /\ worker' = [worker EXCEPT ![w].pc = "copy", ![w].path = q]
        /\ run' = [run EXCEPT !.reserved = @ \cup {q}, !.mf = mf]
  IN
  /\ worker[w].pc = "plan" /\ lock = None
  /\ \/ p \notin run.reserved /\ copyTo(p, run.mf) /\ UNCHANGED past
     \/ /\ p \in run.reserved /\ policy = "skip" /\ Goto(w, "skip") /\ UNCHANGED run
        /\ past' = [past EXCEPT !.skipped = @ \cup {i},
                                !.unseen = IF run.blind THEN @ \cup {i} ELSE @]
     \/ /\ p \in run.reserved /\ policy = "rename"
        /\ \E k \in 1..Names :
             IsUniqueName(k, i, run.reserved) /\ copyTo(<<i, k>>, run.mf)
        /\ UNCHANGED past
     \/ /\ p \in run.reserved /\ policy = "overwrite"
        /\ copyTo(p, {e \in run.mf : e.path # p})
        /\ past' = [past EXCEPT !.replaced = @ \cup {i}]
  /\ UNCHANGED <<base, policy, job, stored, lock>>

(* Variant: nextIndex follows the file done last. *)
MarkLast(i) ==
  /\ job' = [job EXCEPT !.next = i + 1]
  /\ run' = [run EXCEPT !.contig = i + 1]

(* markCompletedLocked: nextIndex moves over the files done without a gap. *)
Mark(i) ==
  LET done == run.completed \cup {i}
  IN  \E next \in run.contig..Files + 1 :
        /\ next \notin done /\ \A k \in run.contig..next - 1 : k \in done
        /\ job' = [job EXCEPT !.next = next]
        /\ run' = [run EXCEPT !.contig = next, !.completed = {k \in done : k > next}]

Skip(w) ==
  /\ worker[w].pc = "skip" /\ lock = None
  /\ Mark(worker[w].i)
  /\ Again(w)
  /\ UNCHANGED <<base, policy, past, stored, lock>>

(* The first error aborts all the requests of the run. *)
Fail(w) ==
  /\ worker' = [worker EXCEPT ![w] = Off]
  /\ run' = [run EXCEPT !.err = TRUE, !.abort = TRUE]

(* Presence check, download and upload of the missing chunks, with retries. *)
Copy(w) ==
  /\ worker[w].pc = "copy"
  /\ \/ ~run.abort /\ Goto(w, "commit") /\ UNCHANGED run
     \/ Fail(w)
  /\ UNCHANGED <<base, policy, past, job, stored, lock>>

(* Takes the lock and sends the manifest with the new entry. *)
Commit(w) ==
  /\ worker[w].pc = "commit" /\ lock = None
  /\ lock' = w
  /\ run' = [run EXCEPT !.mf = @ \cup {[path |-> worker[w].path, from |-> worker[w].i]}]
  /\ Goto(w, "put")
  /\ UNCHANGED <<base, policy, past, job, stored>>

PutApplied(w) ==
  /\ worker[w].pc = "put" /\ ~run.abort
  /\ stored' = run.mf
  /\ Goto(w, "applied")
  /\ UNCHANGED <<base, policy, past, job, run, lock>>

PutAnswered(w) ==
  /\ worker[w].pc = "applied" /\ ~run.abort
  /\ Mark(worker[w].i)
  /\ lock' = None
  /\ Again(w)
  /\ UNCHANGED <<base, policy, past, stored>>

(* Variant: the lock is only released on success. *)
PutFailedLocked(w) ==
  /\ worker[w].pc \in {"put", "applied"}
  /\ Fail(w)
  /\ UNCHANGED <<base, policy, past, job, stored, lock>>

PutFailed(w) ==
  /\ worker[w].pc \in {"put", "applied"}
  /\ Fail(w)
  /\ lock' = None
  /\ UNCHANGED <<base, policy, past, job, stored>>

-----------------------------------------------------------------------------
(* After the files.                                                         *)

AllOff == \A w \in Workers : worker[w].pc = "off"

(* Variant: an error of a worker does not fail the run. *)
FinishAnyway ==
  /\ run.pc = "copy" /\ AllOff
  /\ run' = [run EXCEPT !.pc = "final", !.abort = FALSE]
  /\ UNCHANGED <<base, policy, past, job, stored, worker, lock>>

Finish ==
  /\ run.pc = "copy" /\ AllOff
  /\ \/ run.err /\ End("failed")
     \/ ~run.err /\ run' = [run EXCEPT !.pc = "final"] /\ UNCHANGED job
  /\ UNCHANGED <<base, policy, past, stored, worker, lock>>

FinalPut ==
  /\ run.pc = "final"
  /\ \/ ~run.abort /\ stored' = run.mf /\ run' = [run EXCEPT !.pc = "finalput"] /\ UNCHANGED job
     \/ End("failed") /\ UNCHANGED stored
  /\ UNCHANGED <<base, policy, past, worker, lock>>

FinalAnswer ==
  /\ run.pc = "finalput"
  /\ \/ ~run.abort /\ End("done")
     \/ End("failed")
  /\ UNCHANGED <<base, policy, past, stored, worker, lock>>

(* cancelTransfer aborts the run's requests. *)
Cancel ==
  /\ Running /\ ~run.abort
  /\ run' = [run EXCEPT !.abort = TRUE]
  /\ UNCHANGED <<base, policy, past, job, stored, worker, lock>>

(* The queue pane: the policy of a job that does not run can be changed.    *)
ChangePolicy ==
  /\ job.status \in {"queued", "failed"}
  /\ past.changes < Changes /\ past' = [past EXCEPT !.changes = @ + 1]
  /\ policy' \in Policies \ {policy}
  /\ UNCHANGED <<base, job, stored, run, worker, lock>>

(* The app is closed and started again: loadTransfers makes the running job *)
(* a failed one.                                                            *)
Restart ==
  /\ Running
  /\ End("failed")
  /\ worker' = [w \in Workers |-> Off] /\ lock' = None
  /\ UNCHANGED <<base, policy, past, stored>>

-----------------------------------------------------------------------------

Work(w) ==
  \/ Pick(w) \/ Plan(w) \/ Skip(w) \/ Copy(w) \/ Commit(w)
  \/ PutApplied(w) \/ PutAnswered(w) \/ PutFailed(w)

Steps ==
  \/ Create \/ Load \/ Seed \/ SeedPut \/ List \/ Finish \/ FinalPut \/ FinalAnswer
  \/ \E w \in Workers : Work(w)

Next == Begin \/ Steps \/ Cancel \/ Restart \/ ChangePolicy

(* The event loop runs what is ready, and requests are answered or fail. *)
Spec == Init /\ [][Next]_vars /\ WF_vars(Steps)

-----------------------------------------------------------------------------

(* What it takes for source file i to be in manifest M. *)
Copied(i, M) ==
  \E e \in M : e.from = i \/ (i \in past.skipped /\ e.path = <<i, 1>>)

Seen == (1..Files) \ past.unseen

(* A job shown as done has every source file in the destination manifest,   *)
(* over any sequence of errors, cancels, restarts, resumes and changes of   *)
(* its policy.  The one exception: when a GET of a manifest fails, the run  *)
(* goes on as if there were none, and the files that were counted before    *)
(* it, or that it skips, may be missing.                                    *)
DoneMeansCopied == job.status = "done" => \A i \in Seen : Copied(i, stored)

(* The manifest a resume starts from: an empty one is seeded again. *)
Resumed == IF stored = {} THEN BaseEntries ELSE stored

(* nextIndex never runs ahead of the manifest on the server: what a resume  *)
(* will not look at again is in the manifest it will start from, with the   *)
(* same exception.                                                          *)
ResumePointStored == \A i \in Seen : i < job.next => Copied(i, Resumed)

(* The job is a resumable copy: what the user is shown of it (its status,   *)
(* how far it got) relates to the manifest as ResumableCopy promises.       *)
Abstract == INSTANCE ResumableCopy
              WITH status <- job.status, next <- job.next,
                   copied <- {i \in 1..Files : Copied(i, Resumed)},
                   blind <- run.blind, lost <- past.unseen
Implements == Abstract!Spec

(* A done job keeps the files of the base snapshot but those it has         *)
(* replaced, and those it has replaced by a copy (the exception above       *)
(* aside), unless the GET of the base manifest had failed.                  *)
BaseKept ==
  job.status = "done" /\ ~past.unseeded =>
    \A e \in BaseEntries :
      \/ e \in stored
      \/ e.path[1] \in past.replaced /\ (e.path[1] \in Seen => Copied(e.path[1], stored))

(* The lock is always released: a run ends, so the job can be retried.      *)
RunEnds == Running ~> ~Running
=============================================================================
