-------------------------- MODULE CopyFolder_proofs --------------------------
(***************************************************************************)
(* A copy_folder job is a resumable copy, for any number of files, workers *)
(* and renamings, but for the files it passes over after a GET of a        *)
(* manifest that failed.                                                   *)
(***************************************************************************)
EXTENDS CopyFolder, TLAPS

Active(w) == worker[w].pc \notin {"off", "pick"}
Copying   == run.pc \in {"copy", "final", "finalput"}
Entry(w)  == [path |-> worker[w].path, from |-> worker[w].i]

(* An entry is a copy of the file it is named after, or of the base. *)
OwnPaths ==
  /\ \A e \in stored : e.from = 0 \/ e.path[1] = e.from
  /\ \A e \in run.mf : e.from = 0 \/ e.path[1] = e.from

(* The workers run in the copy phase only; the lock is held around the PUT. *)
Phases ==
  /\ job.status = "running" <=> run.pc # "idle"
  /\ run.pc # "copy" => \A w \in Workers : worker[w].pc = "off"
  /\ \A w \in Workers : lock = w <=> worker[w].pc \in {"put", "applied"}

(* The run starts from the stored manifest, or it is aborted or blind. *)
Starting ==
  /\ run.pc \in {"idle", "create", "load"} => ~run.blind
  /\ run.pc = "seed" => run.mf = {} /\ (run.abort \/ stored = {} \/ run.blind)
  /\ run.pc = "seedput" => run.mf = BaseEntries /\ (stored = {} \/ run.blind)
  /\ run.pc = "list" => run.mf = Resumed \/ (run.mf = {} /\ run.abort) \/ run.blind
  /\ ~Copying => /\ run.completed = {} /\ ~run.err
                /\ (run.blind => 1..job.next - 1 \subseteq past.unseen)

(* The workers' files are distinct, taken, and not counted yet. *)
Progress ==
  Copying =>
    /\ run.contig = job.next /\ job.next <= run.start /\ job.next \notin run.completed
    /\ \A k \in run.completed : job.next < k /\ k < run.start
    /\ \A w \in Workers : Active(w) =>
         /\ job.next <= worker[w].i /\ worker[w].i < run.start
         /\ worker[w].i \notin run.completed
    /\ \A v, w \in Workers : Active(v) /\ Active(w) /\ v # w => worker[v].i # worker[w].i

(* Without an error no file is lost: it is counted, or a worker has it. *)
Counted ==
  Copying /\ ~run.err =>
    /\ \A i \in job.next..run.start - 1 :
         i \in run.completed \/ \E w \in Workers : Active(w) /\ worker[w].i = i
    /\ \A w \in Workers : worker[w].pc = "off" => run.start = Files + 1

(* What each worker knows of the entry it adds. *)
Adding ==
  \A w \in Workers :
    /\ worker[w].pc \in {"copy", "commit", "put", "applied"} => worker[w].path[1] = worker[w].i
    /\ worker[w].pc \in {"put", "applied"} => Entry(w) \in run.mf
    /\ worker[w].pc = "applied" => Entry(w) \in stored

(* What is counted is in the stored manifest, and stays in the next one. *)
Stored ==
  /\ ResumePointStored
  /\ Copying => \A i \in run.completed \ past.unseen : Copied(i, Resumed)

Kept ==
  Copying /\ ~run.abort =>
    /\ \A i \in (1..job.next - 1) \ past.unseen : Copied(i, run.mf)
    /\ \A i \in run.completed \ past.unseen : Copied(i, run.mf)

(* A skipped file is skipped for a path of the stored manifest, or unseen. *)
Skipping ==
  /\ \A w \in Workers : worker[w].pc = "skip" =>
       /\ policy = "skip" /\ worker[w].i \in past.skipped
       /\ (run.blind => worker[w].i \in past.unseen)
  /\ run.pc = "copy" /\ policy = "skip" /\ ~run.blind =>
       /\ ~run.abort => PathsOf(Resumed) \subseteq PathsOf(run.mf)
       /\ \A i \in run.start..Files :
            <<i, 1>> \in run.reserved => <<i, 1>> \in PathsOf(Resumed)
       /\ \A w \in Workers :
            \/ worker[w].pc = "plan" /\ <<worker[w].i, 1>> \in run.reserved
            \/ worker[w].pc = "skip"
            => <<worker[w].i, 1>> \in PathsOf(Resumed)

Ending ==
  /\ run.pc \in {"final", "finalput"} => job.next = Files + 1
  /\ run.pc = "finalput" => \A i \in Seen : Copied(i, stored)
  /\ job.status = "done" => job.next = Files + 1 /\ \A i \in Seen : Copied(i, stored)

Inv ==
  /\ TypeOK /\ OwnPaths /\ Phases /\ Starting /\ Progress /\ Counted
  /\ Adding /\ Stored /\ Kept /\ Skipping /\ Ending

-----------------------------------------------------------------------------

USE FilesAssumption, ChangesAssumption, NamesAssumption, WorkersAssumption, BasesAssumption

LEMMA BaseTyped == base \in Bases => BaseEntries \subseteq Entries
BY DEF BaseEntries, Entries, Paths

LEMMA NoRunTyped == NoRun \in RunStates
BY DEF NoRun, RunStates

LEMMA InitOK == Init => Inv
<1> SUFFICES ASSUME Init PROVE Inv
  OBVIOUS
<1> USE DEF Init, NoRun, Off
<1>1. TypeOK
  BY DEF TypeOK, JobStates, RunStates, WorkerStates, Paths, PastStates
<1>2. OwnPaths
  BY DEF OwnPaths
<1>3. Phases
  BY DEF Phases
<1>4. Starting /\ Progress /\ Counted /\ Kept /\ Ending
  BY DEF Starting, Progress, Counted, Kept, Ending, Copying
<1>5. Adding /\ Stored /\ Skipping
  BY DEF Adding, Stored, ResumePointStored, Seen, Skipping, Copying
<1> QED BY <1>1, <1>2, <1>3, <1>4, <1>5 DEF Inv

(* The steps before the files leave the stored entries as they are, but for *)
(* the base entries a new destination is seeded with.                       *)
LEMMA SameEntries ==
  ASSUME base' = base
  PROVE  /\ BaseEntries' = BaseEntries
         /\ stored' = stored => Resumed' = Resumed
BY DEF BaseEntries, Resumed

LEMMA BeginKeeps == Inv /\ Begin => Inv'
<1> SUFFICES ASSUME Inv, Begin PROVE Inv'
  OBVIOUS
<1>a. PICK pc \in {"load", "create"} : run' = [NoRun EXCEPT !.pc = pc]
  BY DEF Begin
<1>0. /\ run'.pc \in {"load", "create"} /\ run'.mf = {} /\ job'.next = job.next
      /\ run'.completed = {} /\ ~run'.err /\ ~run'.blind
      /\ job'.status = "running" /\ run.pc = "idle"
      /\ UNCHANGED <<base, policy, past, stored, worker, lock>>
  BY <1>a DEF Inv, TypeOK, JobStates, Phases, Begin, NoRun
<1>1. TypeOK'
  <2>1. job' \in JobStates
    BY DEF Inv, TypeOK, JobStates, Begin
  <2>2. run' \in RunStates
    BY <1>a, NoRunTyped DEF RunStates
  <2> QED BY <1>0, <2>1, <2>2 DEF Inv, TypeOK
<1>2. OwnPaths'
  BY <1>0 DEF Inv, OwnPaths
<1>3. Phases'
  BY <1>0 DEF Inv, Phases
<1>4. Starting' /\ Progress' /\ Counted' /\ Kept'
  BY <1>0 DEF Starting, Progress, Counted, Kept, Copying
<1>8. Ending'
  BY <1>0 DEF Ending
<1>5. Resumed' = Resumed
  BY <1>0, SameEntries
<1>6. Stored'
  BY <1>0, <1>5 DEF Inv, Stored, ResumePointStored, Seen, Copied, Copying
<1>7. Adding' /\ Skipping'
  BY <1>0 DEF Inv, Phases, Adding, Skipping, Copying, Entry
<1> QED BY <1>1, <1>2, <1>3, <1>4, <1>6, <1>7, <1>8 DEF Inv

(* A run that stops leaves what it counted, and no worker. *)
LEMMA StopKeeps ==
  ASSUME Inv, NEW s \in {"failed", "done"}, End(s),
         worker' \in [Workers -> WorkerStates], \A w \in Workers : worker'[w].pc = "off",
         lock' = None, UNCHANGED <<base, policy, past, stored>>,
         s = "done" => job.next = Files + 1 /\ \A i \in Seen : Copied(i, stored)
  PROVE  Inv'
<1>0. /\ run' = NoRun /\ run'.pc = "idle" /\ run'.mf = {} /\ job'.next = job.next
      /\ run'.completed = {} /\ ~run'.err /\ ~run'.blind
      /\ job'.status = s
  BY DEF Inv, TypeOK, JobStates, End, NoRun
<1>1. TypeOK'
  <2>1. job' \in JobStates
    BY DEF Inv, TypeOK, JobStates, End
  <2> QED BY <1>0, <2>1, NoRunTyped DEF Inv, TypeOK
<1>2. OwnPaths'
  BY <1>0 DEF Inv, OwnPaths
<1>3. Phases'
  BY <1>0 DEF Inv, Phases
<1>4. Starting' /\ Progress' /\ Counted' /\ Kept'
  BY <1>0 DEF Starting, Progress, Counted, Kept, Copying
<1>5. Resumed' = Resumed
  BY SameEntries
<1>6. Stored'
  BY <1>0, <1>5 DEF Inv, Stored, ResumePointStored, Seen, Copied, Copying
<1>7. Adding' /\ Skipping'
  BY <1>0 DEF Adding, Skipping, Copying, Entry
<1>8. Ending'
  BY <1>0 DEF Inv, Ending, Seen, Copied
<1> QED BY <1>1, <1>2, <1>3, <1>4, <1>6, <1>7, <1>8 DEF Inv

(* Outside of the copy phase there is no worker and no lock. *)
LEMMA NoWorker ==
  ASSUME Inv, run.pc # "copy"
  PROVE  lock = None /\ \A w \in Workers : worker[w].pc = "off"
BY DEF Inv, TypeOK, Phases

LEMMA RestartKeeps == Inv /\ Restart => Inv'
<1> SUFFICES ASSUME Inv, Restart PROVE Inv'
  OBVIOUS
<1>1. worker' \in [Workers -> WorkerStates] /\ \A w \in Workers : worker'[w].pc = "off"
  BY DEF Restart, Off, WorkerStates, Paths
<1> QED BY <1>1, StopKeeps DEF Restart

(* A step of the run before its files, which stores nothing new. *)
LEMMA PrepareKeeps ==
  ASSUME Inv, run' \in RunStates, job' \in JobStates,
         job'.status = job.status, job'.next = job.next, run.pc # "idle",
         run.pc \notin {"copy", "final", "finalput"},
         run'.pc \notin {"idle", "copy", "final", "finalput"},
         \A e \in run'.mf : e.from = 0 \/ e.path[1] = e.from,
         run'.completed = run.completed, run'.err = run.err,
         run'.completed = {} /\ ~run'.err => Starting',
         past' \in PastStates, past'.skipped = past.skipped,
         past.unseen \subseteq past'.unseen,
         Resumed' = Resumed \/ 1..job.next - 1 \subseteq past'.unseen,
         stored' \subseteq Entries, \A e \in stored' : e.from = 0 \/ e.path[1] = e.from,
         UNCHANGED <<base, policy, worker, lock>>
  PROVE  Inv'
<1>0. lock = None /\ (\A w \in Workers : worker[w].pc = "off") /\ job.status = "running"
  BY NoWorker DEF Inv, Phases
<1>1. TypeOK' /\ Starting'
  BY DEF Inv, TypeOK, Starting, Copying
<1>2. OwnPaths'
  BY DEF OwnPaths
<1>3. Phases'
  BY <1>0 DEF Inv, Phases
<1>4. Progress' /\ Counted' /\ Kept'
  BY DEF Progress, Counted, Kept, Copying
<1>5. Stored'
  <2>1. \A i \in Seen' : i \in Seen /\ i \notin past'.unseen
    BY DEF Seen
  <2>2. \A i \in Seen' : i < job'.next => Copied(i, Resumed)'
    <3>1. CASE Resumed' = Resumed
      BY <2>1, <3>1 DEF Inv, Stored, ResumePointStored, Seen, Copied
    <3>2. CASE 1..job.next - 1 \subseteq past'.unseen
      <4>1. \A i \in 1..Files : i < job.next => i \in 1..job.next - 1
        BY FilesAssumption DEF Inv, TypeOK, JobStates
      <4> QED BY <2>1, <3>2, <4>1 DEF Seen
    <3> QED BY <3>1, <3>2
  <2> QED BY <2>2 DEF Stored, ResumePointStored, Copying
<1>6. Adding' /\ Skipping'
  BY <1>0 DEF Adding, Skipping, Entry
<1>7. Ending'
  BY <1>0 DEF Ending
<1> QED BY <1>1, <1>2, <1>3, <1>4, <1>5, <1>6, <1>7 DEF Inv

LEMMA CreateKeeps == Inv /\ Create => Inv'
<1> SUFFICES ASSUME Inv, Create PROVE Inv'
  OBVIOUS
<1>0. lock = None /\ \A w \in Workers : worker[w].pc = "off"
  BY NoWorker DEF Create
<1>1. CASE End("failed")
  BY <1>0, <1>1, StopKeeps DEF Create, Inv, TypeOK
<1>2. CASE job' = [job EXCEPT !.created = TRUE] /\ run' = [run EXCEPT !.pc = "load"]
  <2>1. /\ run' \in RunStates /\ run'.pc = "load" /\ run'.mf = run.mf
        /\ run'.completed = run.completed /\ run'.err = run.err
    BY <1>2 DEF Inv, TypeOK, RunStates
  <2>2. job' \in JobStates /\ job'.status = job.status /\ job'.next = job.next
    BY <1>2 DEF Inv, TypeOK, JobStates
  <2>3. Resumed' = Resumed /\ (run'.completed = {} /\ ~run'.err => Starting')
    <3>1. ~run'.blind
      BY <1>2 DEF Create, Inv, TypeOK, RunStates, Starting
    <3> QED BY <2>1, <3>1, SameEntries DEF Create, Starting
  <2> QED BY <2>1, <2>2, <2>3, PrepareKeeps DEF Create, Inv, TypeOK, OwnPaths
<1> QED BY <1>1, <1>2 DEF Create

(* What a run does not see is what had been counted before. *)
LEMMA UnseenTyped ==
  ASSUME Inv
  PROVE  /\ Unseen \in PastStates /\ [Unseen EXCEPT !.unseeded = TRUE] \in PastStates
         /\ Unseen.skipped = past.skipped
         /\ Unseen.unseen = past.unseen \cup 1..job.next - 1
         /\ [Unseen EXCEPT !.unseeded = TRUE].skipped = past.skipped
         /\ [Unseen EXCEPT !.unseeded = TRUE].unseen = past.unseen \cup 1..job.next - 1
<1>1. 1..job.next - 1 \subseteq 1..Files
  BY FilesAssumption DEF Inv, TypeOK, JobStates
<1> QED BY <1>1 DEF Inv, TypeOK, PastStates, Unseen

LEMMA LoadKeeps == Inv /\ Load => Inv'
<1> SUFFICES ASSUME Inv, Load PROVE Inv'
  OBVIOUS
<1>1. PICK M \in {stored, {}} :
        /\ run' = [run EXCEPT !.mf = M, !.blind = (M # stored /\ ~run.abort),
                              !.pc = IF M = {} /\ base # {} THEN "seed" ELSE "list"]
        /\ past' = IF M # stored /\ ~run.abort THEN Unseen ELSE past
  BY DEF Load
<1> DEFINE blind == M # stored /\ ~run.abort
<1>a. blind \in BOOLEAN /\ run' = [run EXCEPT !.mf = M, !.blind = blind,
                              !.pc = IF M = {} /\ base # {} THEN "seed" ELSE "list"]
  BY <1>1
<1>b. (blind => M # stored) /\ (~blind => M = stored \/ run.abort)
  OBVIOUS
<1>c. past' = IF blind THEN Unseen ELSE past
  BY <1>1
<1> HIDE DEF blind
<1>2. /\ run' \in RunStates /\ run'.mf = M /\ run'.abort = run.abort /\ run'.blind = blind
      /\ run'.completed = run.completed /\ run'.err = run.err
  BY <1>a DEF Inv, TypeOK, RunStates
<1>3. run'.pc = IF M = {} /\ base # {} THEN "seed" ELSE "list"
  BY <1>a DEF Inv, TypeOK, RunStates
<1>4. Resumed' = Resumed /\ BaseEntries' = BaseEntries /\ stored' = stored /\ job' = job
  BY SameEntries DEF Load
<1>5. M # {} => M = Resumed
  BY DEF Resumed
<1>6. base = {} /\ stored = {} => Resumed = {}
  BY DEF Resumed, BaseEntries
<1>8. /\ past' \in PastStates /\ past'.skipped = past.skipped
      /\ past.unseen \subseteq past'.unseen
      /\ blind => 1..job.next - 1 \subseteq past'.unseen
  BY <1>c, UnseenTyped DEF Inv, TypeOK
<1>7. ASSUME run'.completed = {}, ~run'.err PROVE Starting'
  <2>2. CASE M = {} /\ base # {}
    BY <1>b, <1>2, <1>3, <1>4, <1>7, <1>8, <2>2 DEF Starting
  <2>3. CASE ~(M = {} /\ base # {})
    <3>1. run'.pc = "list"
      BY <1>3, <2>3
    <3>2. M = Resumed \/ (M = {} /\ run.abort) \/ blind
      BY <1>b, <1>5, <1>6, <2>3
    <3> QED BY <1>2, <1>4, <1>7, <1>8, <3>1, <3>2 DEF Starting
  <2> QED BY <2>2, <2>3
<1>9. \A e \in run'.mf : e.from = 0 \/ e.path[1] = e.from
  BY <1>2 DEF Inv, OwnPaths
<1> QED BY <1>2, <1>3, <1>4, <1>7, <1>8, <1>9, PrepareKeeps DEF Load, Inv, TypeOK, OwnPaths

LEMMA SeedKeeps == Inv /\ Seed => Inv'
<1> SUFFICES ASSUME Inv, Seed PROVE Inv'
  OBVIOUS
<1>1. Resumed' = Resumed /\ BaseEntries' = BaseEntries
  BY SameEntries DEF Seed
<1>2. BaseEntries \subseteq Entries /\ \A e \in BaseEntries : e.from = 0
  BY BaseTyped DEF Inv, TypeOK, BaseEntries
<1>3. CASE /\ ~run.abort /\ run' = [run EXCEPT !.pc = "seedput", !.mf = BaseEntries]
           /\ UNCHANGED past
  <2>1. /\ run' \in RunStates /\ run'.mf = BaseEntries /\ run'.pc = "seedput"
        /\ run'.completed = run.completed /\ run'.err = run.err /\ run'.blind = run.blind
    BY <1>2, <1>3 DEF Inv, TypeOK, RunStates
  <2>2. run'.completed = {} /\ ~run'.err => Starting'
    BY <2>1, <1>1, <1>3 DEF Seed, Inv, Starting, Copying
  <2> QED BY <1>1, <1>2, <1>3, <2>1, <2>2, PrepareKeeps DEF Seed, Inv, TypeOK, OwnPaths
<1>4. CASE run.abort /\ run' = [run EXCEPT !.pc = "list"] /\ UNCHANGED past
  <2>1. /\ run' \in RunStates /\ run'.mf = run.mf /\ run'.pc = "list" /\ run'.blind = run.blind
        /\ run'.abort = run.abort /\ run'.completed = run.completed /\ run'.err = run.err
    BY <1>4 DEF Inv, TypeOK, RunStates
  <2>2. run'.completed = {} /\ ~run'.err => Starting'
    BY <2>1, <1>4 DEF Seed, Inv, Starting, Copying
  <2> QED BY <1>1, <1>4, <2>1, <2>2, PrepareKeeps DEF Seed, Inv, TypeOK, OwnPaths
<1>5. CASE /\ ~run.abort /\ run' = [run EXCEPT !.pc = "list", !.blind = TRUE]
           /\ past' = [Unseen EXCEPT !.unseeded = TRUE]
  <2>1. /\ run' \in RunStates /\ run'.mf = run.mf /\ run'.pc = "list" /\ run'.blind
        /\ run'.abort = run.abort /\ run'.completed = run.completed /\ run'.err = run.err
    BY <1>5 DEF Inv, TypeOK, RunStates
  <2>2. /\ past' \in PastStates /\ past'.skipped = past.skipped
        /\ past'.unseen = past.unseen \cup 1..job.next - 1
    BY <1>5, UnseenTyped
  <2>3. run'.completed = {} /\ ~run'.err => Starting'
    BY <2>1, <2>2, <1>5 DEF Seed, Starting
  <2> QED BY <1>1, <1>5, <2>1, <2>2, <2>3, PrepareKeeps DEF Seed, Inv, TypeOK, OwnPaths
<1> QED BY <1>3, <1>4, <1>5 DEF Seed

LEMMA SeedPutKeeps == Inv /\ SeedPut => Inv'
<1> SUFFICES ASSUME Inv, SeedPut PROVE Inv'
  OBVIOUS
<1>1. /\ run' \in RunStates /\ run'.mf = run.mf /\ run'.pc = "list" /\ run'.blind = run.blind
      /\ run'.completed = run.completed /\ run'.err = run.err
  BY DEF SeedPut, Inv, TypeOK, RunStates
<1>2. run.mf = BaseEntries /\ (stored = {} \/ run.blind) /\ BaseEntries' = BaseEntries
  BY SameEntries DEF SeedPut, Inv, Starting
<1>3. stored' \in {stored, run.mf} /\ UNCHANGED <<base, policy, past, job, worker, lock>>
  BY DEF SeedPut
<1>6. run.blind => 1..job.next - 1 \subseteq past.unseen
  BY DEF SeedPut, Inv, Starting, Copying
<1>7. stored = {} => Resumed = BaseEntries /\ Resumed' = BaseEntries
  BY <1>2, <1>3 DEF Resumed
<1>4. run'.completed = {} /\ ~run'.err => Starting'
  BY <1>1, <1>2, <1>3, <1>6, <1>7 DEF Starting
<1>5. stored' \subseteq Entries /\ \A e \in stored' : e.from = 0 \/ e.path[1] = e.from
  BY <1>3 DEF Inv, TypeOK, OwnPaths, RunStates
<1>8. Resumed' = Resumed \/ 1..job.next - 1 \subseteq past'.unseen
  BY <1>2, <1>3, <1>6, <1>7
<1> QED BY <1>1, <1>3, <1>4, <1>5, <1>8, PrepareKeeps DEF SeedPut, Inv, TypeOK, OwnPaths

LEMMA ListKeeps == Inv /\ List => Inv'
<1> SUFFICES ASSUME Inv, List PROVE Inv'
  OBVIOUS
<1>0. lock = None /\ \A w \in Workers : worker[w].pc = "off"
  BY NoWorker DEF List
<1>1. CASE End("failed") /\ worker' = worker
  BY <1>0, <1>1, StopKeeps DEF List, Inv, TypeOK
<1>2. CASE /\ job' = [job EXCEPT !.listed = TRUE]
           /\ run' = [run EXCEPT !.pc = "copy", !.reserved = PathsOf(run.mf),
                                 !.contig = job.next, !.start = job.next]
           /\ worker' = [w \in Workers |-> Picking]
  <2>1. PathsOf(run.mf) \subseteq Paths
    BY DEF PathsOf, Inv, TypeOK, RunStates, Entries
  <2>2. /\ run' \in RunStates /\ run'.pc = "copy" /\ run'.reserved = PathsOf(run.mf)
        /\ run'.contig = job.next /\ run'.start = job.next /\ run'.mf = run.mf
        /\ run'.completed = {} /\ ~run'.err /\ run'.abort = run.abort /\ run'.blind = run.blind
    BY <1>2, <2>1 DEF Inv, TypeOK, RunStates, JobStates, Starting, Copying, List
  <2>3. job' \in JobStates /\ job'.next = job.next /\ job'.status = job.status
    BY <1>2 DEF Inv, TypeOK, JobStates
  <2>4. worker' \in [Workers -> WorkerStates] /\ \A w \in Workers : worker'[w].pc = "pick"
    BY <1>2 DEF Picking, Off, WorkerStates, Paths
  <2>5. Resumed' = Resumed /\ UNCHANGED <<base, policy, past, stored, lock>>
    BY SameEntries DEF List
  <2>6. run.mf = Resumed \/ (run.mf = {} /\ run.abort) \/ 1..job.next - 1 \subseteq past.unseen
    BY DEF Inv, Starting, List, Copying
  <2>16. run.mf = Resumed \/ (run.mf = {} /\ run.abort) \/ run.blind
    BY DEF Inv, Starting, List
  <2>7. TypeOK'
    BY <2>2, <2>3, <2>4, <2>5 DEF Inv, TypeOK
  <2>8. OwnPaths' /\ Starting'
    BY <2>2, <2>5 DEF Inv, OwnPaths, Starting, Copying
  <2>9. Phases'
    BY <1>0, <2>2, <2>3, <2>4, <2>5, WorkersAssumption DEF List, Inv, Phases
  <2>10. Progress' /\ Counted'
    BY <2>2, <2>3, <2>4 DEF Progress, Counted, Copying, Active, Inv, TypeOK, JobStates
  <2>11. Adding'
    BY <2>4 DEF Adding
  <2>12. Stored'
    BY <2>2, <2>3, <2>5 DEF Inv, Stored, ResumePointStored, Seen, Copied
  <2>13. Kept'
    <3>1. \A i \in (1..job.next - 1) \ past.unseen : i \in Seen /\ i < job.next
      BY FilesAssumption DEF Inv, TypeOK, JobStates, Seen
    <3> QED BY <2>2, <2>3, <2>5, <2>6, <3>1 DEF Inv, Stored, ResumePointStored, Kept, Seen, Copied
  <2>14. Skipping'
    BY <2>2, <2>4, <2>5, <2>16 DEF Skipping, PathsOf
  <2>15. Ending'
    BY <2>2, <2>3, <2>5 DEF List, Inv, Phases, Ending
  <2> QED BY <2>7, <2>8, <2>9, <2>10, <2>11, <2>12, <2>13, <2>14, <2>15 DEF Inv
<1> QED BY <1>1, <1>2 DEF List

LEMMA CancelKeeps == Inv /\ Cancel => Inv'
<1> SUFFICES ASSUME Inv, Cancel PROVE Inv'
  OBVIOUS
<1>1. /\ run' \in RunStates /\ run'.abort /\ run'.pc = run.pc /\ run'.mf = run.mf
      /\ run'.reserved = run.reserved /\ run'.contig = run.contig /\ run'.err = run.err
      /\ run'.completed = run.completed /\ run'.start = run.start /\ run'.blind = run.blind
  BY DEF Cancel, Inv, TypeOK, RunStates
<1>2. /\ UNCHANGED <<base, policy, past, job, stored, worker, lock>>
      /\ Resumed' = Resumed /\ BaseEntries' = BaseEntries
  BY SameEntries DEF Cancel
<1>3. TypeOK' /\ OwnPaths' /\ Phases'
  BY <1>1, <1>2 DEF Inv, TypeOK, OwnPaths, Phases
<1>4. Starting'
  BY <1>1, <1>2 DEF Inv, Starting, Copying
<1>5. Progress' /\ Counted'
  BY <1>1, <1>2 DEF Inv, Progress, Counted, Copying, Active
<1>6. Adding' /\ Ending'
  BY <1>1, <1>2 DEF Inv, Adding, Entry, Ending, Seen, Copied
<1>7. Stored' /\ Kept'
  BY <1>1, <1>2 DEF Inv, Stored, ResumePointStored, Kept, Seen, Copied, Copying
<1>8. Skipping'
  BY <1>1, <1>2 DEF Inv, Skipping, Copying
<1> QED BY <1>3, <1>4, <1>5, <1>6, <1>7, <1>8 DEF Inv

-----------------------------------------------------------------------------
(* The workers. *)

LEMMA Working ==
  ASSUME Inv, NEW w \in Workers, worker[w].pc # "off"
  PROVE  run.pc = "copy" /\ job.status = "running" /\ Copying
BY DEF Inv, Phases, Copying

LEMMA PickKeeps ==
  ASSUME Inv, NEW w \in Workers, Pick(w)
  PROVE  Inv'
<1>0. run.pc = "copy" /\ Copying /\ worker[w].pc = "pick"
  BY Working DEF Pick
<1>1. /\ UNCHANGED <<base, policy, past, job, stored, lock>>
      /\ Resumed' = Resumed /\ BaseEntries' = BaseEntries
  BY SameEntries DEF Pick
<1>2. CASE /\ run.err \/ run.start > Files
           /\ worker' = [worker EXCEPT ![w] = Off] /\ UNCHANGED run
  <2>1. worker' \in [Workers -> WorkerStates]
    BY <1>2 DEF Inv, TypeOK, Off, WorkerStates, Paths
  <2>2. worker'[w].pc = "off" /\ \A v \in Workers : v # w => worker'[v] = worker[v]
    BY <1>2 DEF Inv, TypeOK, Off
  <2>3. TypeOK' /\ OwnPaths' /\ Phases' /\ Starting'
    BY <1>0, <1>1, <1>2, <2>1, <2>2 DEF Inv, TypeOK, OwnPaths, Phases, Starting, Copying
  <2>4. Progress'
    BY <1>1, <1>2, <2>2 DEF Inv, Progress, Copying, Active
  <2>5. Counted'
    BY <1>0, <1>1, <1>2, <2>2 DEF Inv, TypeOK, RunStates, Counted, Copying, Active
  <2>6. Adding' /\ Ending'
    <3>1. Adding'
      BY <1>1, <1>2, <2>2 DEF Inv, Adding, Entry
    <3>2. Ending'
      BY <1>1, <1>2 DEF Inv, Ending, Seen, Copied
    <3> QED BY <3>1, <3>2
  <2>7. Stored' /\ Kept'
    BY <1>1, <1>2 DEF Inv, Stored, ResumePointStored, Kept, Seen, Copied, Copying
  <2>8. Skipping'
    BY <1>1, <1>2, <2>2 DEF Inv, Skipping, Copying
  <2> QED BY <2>3, <2>4, <2>5, <2>6, <2>7, <2>8 DEF Inv
<1>3. CASE /\ ~run.err /\ run.start <= Files
           /\ worker' = [worker EXCEPT ![w].pc = "plan", ![w].i = run.start]
           /\ run' = [run EXCEPT !.start = @ + 1]
  <2>1. /\ run' \in RunStates /\ run'.start = run.start + 1 /\ run'.pc = run.pc
        /\ run'.mf = run.mf /\ run'.reserved = run.reserved /\ run'.contig = run.contig
        /\ run'.completed = run.completed /\ run'.err = run.err /\ run'.abort = run.abort
        /\ run'.blind = run.blind
    BY <1>3 DEF Inv, TypeOK, RunStates
  <2>2. /\ worker' \in [Workers -> WorkerStates]
        /\ worker'[w].pc = "plan" /\ worker'[w].i = run.start
        /\ \A v \in Workers : v # w => worker'[v] = worker[v]
    <3>1. run.start \in 1..Files
      BY <1>3, FilesAssumption DEF Inv, TypeOK, RunStates
    <3> QED BY <1>3, <3>1 DEF Inv, TypeOK, WorkerStates
  <2>3. TypeOK' /\ OwnPaths' /\ Phases' /\ Starting'
    BY <1>0, <1>1, <2>1, <2>2 DEF Inv, TypeOK, OwnPaths, Phases, Starting, Copying
  <2>a. run.start \in Nat /\ job.next \in Nat /\ \A k \in run.completed : k \in Nat
    BY DEF Inv, TypeOK, RunStates, JobStates
  <2>b. \A v \in Workers : worker[v].i \in Nat
    BY DEF Inv, TypeOK, WorkerStates
  <2>4. Progress'
    BY <1>0, <1>1, <2>1, <2>2, <2>a, <2>b DEF Inv, Progress, Copying, Active
  <2>5. Counted'
    <3>1. \A v \in Workers : worker'[v].pc # "off"
      BY <1>0, <1>3, <2>2, <2>a DEF Inv, Counted
    <3>2. ASSUME NEW i \in job.next..run.start
          PROVE  i \in run.completed \/ \E v \in Workers : Active(v)' /\ worker'[v].i = i
      <4>1. CASE i = run.start
        BY <2>2, <4>1 DEF Active
      <4>2. CASE i # run.start
        <5>1. i \in job.next..run.start - 1
          BY <2>a, <4>2
        <5> QED BY <1>0, <1>3, <2>2, <5>1 DEF Inv, Counted, Active
      <4> QED BY <4>1, <4>2
    <3> QED BY <1>1, <2>1, <2>a, <3>1, <3>2 DEF Counted
  <2>6. Adding' /\ Ending'
    BY <1>0, <1>1, <2>1, <2>2 DEF Inv, Adding, Entry, Ending, Seen, Copied
  <2>7. Stored' /\ Kept'
    BY <1>1, <2>1 DEF Inv, Stored, ResumePointStored, Kept, Seen, Copied, Copying
  <2>8. Skipping'
    <3>1. \A i \in run'.start..Files : i \in run.start..Files
      BY <2>1, <2>a, FilesAssumption
    <3>2. run.start \in run.start..Files
      BY <1>3, <2>a, FilesAssumption
    <3> QED BY <1>0, <1>1, <2>1, <2>2, <3>1, <3>2 DEF Inv, Skipping, Copying
  <2> QED BY <2>3, <2>4, <2>5, <2>6, <2>7, <2>8 DEF Inv
<1> QED BY <1>2, <1>3 DEF Pick

(* A worker goes on with its file: nobody's place in the order changes. *)
LEMMA MoveKeeps ==
  ASSUME Inv, NEW w \in Workers, Active(w), Active(w)', worker'[w].i = worker[w].i,
         \A v \in Workers : v # w => worker'[v] = worker[v],
         UNCHANGED job, run'.pc = run.pc, run'.contig = run.contig, run'.err = run.err,
         run'.completed = run.completed, run'.start = run.start
  PROVE  Progress' /\ Counted'
<1>1. \A v \in Workers : Active(v)' <=> Active(v)
  BY DEF Active
<1>2. \A v \in Workers : worker'[v].i = worker[v].i
  OBVIOUS
<1>3. \A v \in Workers : worker'[v].pc = "off" <=> worker[v].pc = "off"
  BY DEF Active
<1>4. Progress'
  BY <1>1, <1>2 DEF Inv, Progress, Copying
<1>5. Counted'
  BY <1>1, <1>2, <1>3 DEF Inv, Counted, Copying
<1> QED BY <1>4, <1>5

(* The first error stops everything but the workers' own requests. *)
LEMMA FailKeeps ==
  ASSUME Inv, NEW w \in Workers, Active(w), Fail(w),
         lock' = IF lock = w THEN None ELSE lock, UNCHANGED <<base, policy, past, job, stored>>
  PROVE  Inv'
<1>0. run.pc = "copy" /\ Copying
  BY Working DEF Active
<1>1. /\ run' \in RunStates /\ run'.abort /\ run'.err /\ run'.pc = run.pc
      /\ run'.mf = run.mf /\ run'.reserved = run.reserved /\ run'.contig = run.contig
      /\ run'.completed = run.completed /\ run'.start = run.start /\ run'.blind = run.blind
  BY DEF Fail, Inv, TypeOK, RunStates
<1>2. /\ worker' \in [Workers -> WorkerStates] /\ worker'[w].pc = "off"
      /\ \A v \in Workers : v # w => worker'[v] = worker[v]
  BY DEF Fail, Inv, TypeOK, Off, WorkerStates, Paths
<1>3. Resumed' = Resumed /\ BaseEntries' = BaseEntries
  BY SameEntries
<1>4. TypeOK' /\ OwnPaths' /\ Starting'
  BY <1>0, <1>1, <1>2 DEF Inv, TypeOK, OwnPaths, Starting, Copying
<1>5. Phases'
  BY <1>0, <1>1, <1>2, WorkersAssumption DEF Inv, Phases
<1>6. Progress'
  BY <1>1, <1>2 DEF Inv, Progress, Copying, Active
<1>7. Counted' /\ Kept'
  BY <1>1 DEF Counted, Kept
<1>8. Adding' /\ Ending'
  BY <1>1, <1>2 DEF Inv, Adding, Entry, Ending, Seen, Copied
<1>9. Stored'
  BY <1>1, <1>3 DEF Inv, Stored, ResumePointStored, Seen, Copied, Copying
<1>10. Skipping'
  BY <1>1, <1>2, <1>3 DEF Inv, Skipping, Copying
<1> QED BY <1>4, <1>5, <1>6, <1>7, <1>8, <1>9, <1>10 DEF Inv

LEMMA CopyKeeps ==
  ASSUME Inv, NEW w \in Workers, Copy(w)
  PROVE  Inv'
<1>0. run.pc = "copy" /\ Copying /\ worker[w].pc = "copy" /\ lock # w
  BY Working DEF Copy, Inv, Phases
<1>1. CASE Fail(w)
  BY <1>0, <1>1, FailKeeps DEF Copy, Active
<1>2. CASE Goto(w, "commit") /\ UNCHANGED run
  <2>1. /\ worker' \in [Workers -> WorkerStates] /\ worker'[w].pc = "commit"
        /\ worker'[w].i = worker[w].i /\ worker'[w].path = worker[w].path
        /\ \A v \in Workers : v # w => worker'[v] = worker[v]
    BY <1>2 DEF Goto, Inv, TypeOK, WorkerStates
  <2>2. /\ UNCHANGED <<base, policy, past, job, stored, lock, run>>
        /\ Resumed' = Resumed /\ BaseEntries' = BaseEntries
    BY <1>2, SameEntries DEF Copy
  <2>3. TypeOK' /\ OwnPaths' /\ Phases' /\ Starting'
    BY <1>0, <2>1, <2>2 DEF Inv, TypeOK, OwnPaths, Phases, Starting, Copying
  <2>4. Progress' /\ Counted'
    BY <1>0, <2>1, <2>2, MoveKeeps DEF Active
  <2>5. Adding'
    BY SMTT(60), <1>0, <2>1, <2>2 DEF Inv, Adding, Entry
  <2>6. Ending'
    BY SMTT(60), <1>0, <2>1, <2>2 DEF Inv, Ending, Seen, Copied
  <2>7. Stored' /\ Kept'
    BY <2>2 DEF Inv, Stored, ResumePointStored, Kept, Seen, Copied, Copying
  <2>8. Skipping'
    BY <2>1, <2>2 DEF Inv, Skipping, Copying
  <2> QED BY <2>3, <2>4, <2>5, <2>6, <2>7, <2>8 DEF Inv
<1> QED BY <1>1, <1>2 DEF Copy

(* The choice of a path: only an overwritten entry of the same file goes. *)
LEMMA PlanKeeps ==
  ASSUME Inv, NEW w \in Workers, Plan(w)
  PROVE  Inv'
<1> DEFINE i == worker[w].i
           p == <<i, 1>>
<1>0. /\ run.pc = "copy" /\ Copying /\ worker[w].pc = "plan" /\ lock = None
      /\ Active(w)
  BY Working DEF Plan, Active
<1>1. /\ UNCHANGED <<base, policy, job, stored, lock>>
      /\ Resumed' = Resumed /\ BaseEntries' = BaseEntries
  BY SameEntries DEF Plan
<1>2. i \in 1..Files /\ p \in Paths
  BY NamesAssumption DEF Inv, TypeOK, WorkerStates, Paths
<1>3. ASSUME NEW q \in Paths, q[1] = i, NEW mf \in SUBSET run.mf,
             run.mf \ mf \subseteq {e \in run.mf : e.path = p},
             policy = "skip" => mf = run.mf,
             past' \in PastStates, past'.skipped = past.skipped, past'.unseen = past.unseen,
             worker' = [worker EXCEPT ![w].pc = "copy", ![w].path = q],
             run' = [run EXCEPT !.reserved = @ \cup {q}, !.mf = mf]
      PROVE  Inv'
  <2>1. /\ worker' \in [Workers -> WorkerStates] /\ worker'[w].pc = "copy"
        /\ worker'[w].i = i /\ worker'[w].path = q
        /\ \A v \in Workers : v # w => worker'[v] = worker[v]
    BY ZenonT(60), <1>3 DEF Inv, TypeOK, WorkerStates
  <2>2. /\ run' \in RunStates /\ run'.reserved = run.reserved \cup {q} /\ run'.mf = mf
        /\ run'.pc = run.pc /\ run'.contig = run.contig /\ run'.err = run.err
        /\ run'.completed = run.completed /\ run'.start = run.start
        /\ run'.abort = run.abort /\ run'.blind = run.blind
    BY <1>3 DEF Inv, TypeOK, RunStates
  <2>3. TypeOK' /\ OwnPaths'
    BY <1>1, <1>3, <2>1, <2>2 DEF Inv, TypeOK, OwnPaths
  <2>4. Phases' /\ Starting'
    BY <1>0, <1>1, <2>1, <2>2, WorkersAssumption DEF Inv, Phases, Starting, Copying
  <2>5. Progress' /\ Counted'
    BY <1>0, <1>1, <2>1, <2>2, MoveKeeps DEF Active
  <2>6. Adding'
    <3>1. \A v \in Workers : worker[v].pc \notin {"put", "applied"}
      BY <1>0, WorkersAssumption DEF Inv, Phases
    <3> QED BY <1>1, <1>3, <2>1, <3>1 DEF Inv, Adding, Entry
  <2>7. Ending'
    BY <1>0, <1>1, <2>2 DEF Inv, Ending, Phases
  <2>8. Stored'
    BY <1>1, <1>3, <2>2 DEF Inv, Stored, ResumePointStored, Seen, Copied, Copying
  <2>9. Kept'
    <3>1. ASSUME NEW k \in 1..Files, k # i, Copied(k, run.mf)
          PROVE  Copied(k, mf)
      <4>1. PICK e \in run.mf : e.from = k \/ (k \in past.skipped /\ e.path = <<k, 1>>)
        BY <3>1 DEF Copied
      <4>2. e.path[1] = k
        BY <4>1, FilesAssumption DEF Inv, OwnPaths
      <4>3. e.path # p
        BY <4>2, <3>1
      <4> QED BY <1>3, <4>1, <4>3 DEF Copied
    <3>2. job.next \in 1..Files + 1 /\ run.completed \subseteq 1..Files
      BY DEF Inv, TypeOK, JobStates, RunStates
    <3>3. i \notin 1..job.next - 1 /\ i \notin run.completed
      BY <1>0, <1>2, <3>2 DEF Inv, Progress
    <3>4. \A k \in 1..job.next - 1 : k \in 1..Files
      BY <3>2, FilesAssumption
    <3>5. Copying /\ ~run.abort =>
            /\ \A k \in (1..job.next - 1) \ past.unseen : Copied(k, mf)
            /\ \A k \in run.completed \ past.unseen : Copied(k, mf)
      BY <3>1, <3>2, <3>3, <3>4 DEF Inv, Kept
    <3> QED BY <1>0, <1>1, <1>3, <2>2, <3>5 DEF Kept, Copied
  <2>10. Skipping'
    <3>1. \A k \in run.start..Files : k # i
      BY <1>0, <1>2 DEF Inv, Progress, TypeOK, RunStates
    <3>2. \A v \in Workers : v # w /\ Active(v) => worker[v].i # i
      BY <1>0 DEF Inv, Progress
    <3>3. \A k \in 1..Files : k # i => <<k, 1>> # q
      BY <1>3
    <3>4. \A k \in run.start..Files : k \in 1..Files
      BY FilesAssumption DEF Inv, TypeOK, RunStates
    <3>5. \A v \in Workers : worker[v].i \in 1..Files
      BY DEF Inv, TypeOK, WorkerStates
    <3>6. policy = "skip" => mf = run.mf
      BY <1>3
    <3> QED BY <1>0, <1>1, <1>3, <2>1, <2>2, <3>1, <3>2, <3>3, <3>4, <3>5, <3>6
            DEF Inv, Skipping, Copying, Active
  <2> QED BY <2>3, <2>4, <2>5, <2>6, <2>7, <2>8, <2>9, <2>10 DEF Inv
<1>4. CASE /\ p \in run.reserved /\ policy = "skip" /\ Goto(w, "skip") /\ UNCHANGED run
           /\ past' = [past EXCEPT !.skipped = @ \cup {i},
                                   !.unseen = IF run.blind THEN @ \cup {i} ELSE @]
  <2>1. /\ worker' \in [Workers -> WorkerStates] /\ worker'[w].pc = "skip"
        /\ worker'[w].i = i
        /\ \A v \in Workers : v # w => worker'[v] = worker[v]
    BY <1>4 DEF Goto, Inv, TypeOK, WorkerStates
  <2>9. /\ past' \in PastStates /\ past'.skipped = past.skipped \cup {i}
        /\ past'.unseen = IF run.blind THEN past.unseen \cup {i} ELSE past.unseen
    BY <1>2, <1>4 DEF Inv, TypeOK, PastStates
  <2>2. TypeOK' /\ OwnPaths' /\ Starting'
    BY <1>0, <1>1, <1>4, <2>1, <2>9 DEF Inv, TypeOK, OwnPaths, Starting, Copying
  <2>3. Phases'
    BY <1>0, <1>1, <1>4, <2>1, WorkersAssumption DEF Inv, Phases
  <2>4. Progress' /\ Counted'
    BY <1>0, <1>1, <1>4, <2>1, MoveKeeps DEF Active
  <2>5. Adding'
    BY <1>1, <1>4, <2>1 DEF Inv, Adding, Entry
  <2>6. Ending'
    BY <1>0, <1>1, <1>4 DEF Inv, Ending, Phases
  <2>7. Stored' /\ Kept'
    <3>1. past.skipped \subseteq past'.skipped /\ past.unseen \subseteq past'.unseen
      BY <2>9
    <3>2. Stored'
      BY <1>1, <1>4, <3>1 DEF Inv, Stored, ResumePointStored, Seen, Copied, Copying
    <3>3. Kept'
      BY <1>1, <1>4, <3>1 DEF Inv, Kept, Copied, Copying
    <3> QED BY <3>2, <3>3
  <2>8. Skipping'
    <3>1. ASSUME NEW v \in Workers, worker'[v].pc = "skip"
          PROVE  /\ policy' = "skip" /\ worker'[v].i \in past'.skipped
                 /\ run'.blind => worker'[v].i \in past'.unseen
      BY <1>1, <1>4, <2>1, <2>9, <3>1 DEF Inv, Skipping
    <3>2. policy = "skip" /\ ~run.blind =>
            \A v \in Workers :
              \/ worker'[v].pc = "plan" /\ <<worker'[v].i, 1>> \in run.reserved
              \/ worker'[v].pc = "skip"
              => <<worker'[v].i, 1>> \in PathsOf(Resumed)
      BY <1>0, <1>4, <2>1 DEF Inv, Skipping
    <3> QED BY <1>0, <1>1, <1>4, <3>1, <3>2 DEF Inv, Skipping, PathsOf
  <2> QED BY <2>2, <2>3, <2>4, <2>5, <2>6, <2>7, <2>8 DEF Inv
<1>a. past \in PastStates
  BY DEF Inv, TypeOK
<1>5. CASE /\ worker' = [worker EXCEPT ![w].pc = "copy", ![w].path = p]
           /\ run' = [run EXCEPT !.reserved = @ \cup {p}, !.mf = run.mf]
           /\ UNCHANGED past
  BY <1>2, <1>3, <1>5, <1>a
<1>6. CASE /\ policy = "rename"
           /\ \E k \in 1..Names :
                /\ worker' = [worker EXCEPT ![w].pc = "copy", ![w].path = <<i, k>>]
                /\ run' = [run EXCEPT !.reserved = @ \cup {<<i, k>>}, !.mf = run.mf]
           /\ UNCHANGED past
  <2>1. PICK k \in 1..Names :
          /\ worker' = [worker EXCEPT ![w].pc = "copy", ![w].path = <<i, k>>]
          /\ run' = [run EXCEPT !.reserved = @ \cup {<<i, k>>}, !.mf = run.mf]
    BY <1>6
  <2>2. <<i, k>> \in Paths /\ <<i, k>>[1] = i
    BY <1>2 DEF Paths
  <2> QED BY <1>3, <1>6, <1>a, <2>1, <2>2
<1>7. CASE /\ policy = "overwrite"
           /\ worker' = [worker EXCEPT ![w].pc = "copy", ![w].path = p]
           /\ run' = [run EXCEPT !.reserved = @ \cup {p}, !.mf = {e \in run.mf : e.path # p}]
           /\ past' = [past EXCEPT !.replaced = @ \cup {i}]
  <2>1. {e \in run.mf : e.path # p} \in SUBSET run.mf
    OBVIOUS
  <2>2. run.mf \ {e \in run.mf : e.path # p} \subseteq {e \in run.mf : e.path = p}
    OBVIOUS
  <2>3. /\ past' \in PastStates /\ past'.skipped = past.skipped
        /\ past'.unseen = past.unseen
    BY <1>2, <1>7, <1>a DEF PastStates
  <2> QED BY <1>2, <1>3, <1>7, <2>1, <2>2, <2>3
<1> QED BY <1>4, <1>5, <1>6, <1>7 DEF Plan

LEMMA CommitKeeps ==
  ASSUME Inv, NEW w \in Workers, Commit(w)
  PROVE  Inv'
<1> DEFINE new == [path |-> worker[w].path, from |-> worker[w].i]
<1>0. /\ run.pc = "copy" /\ Copying /\ worker[w].pc = "commit" /\ lock = None /\ lock' = w
      /\ Active(w)
  BY Working DEF Commit, Active
<1>1. /\ UNCHANGED <<base, policy, past, job, stored>>
      /\ Resumed' = Resumed /\ BaseEntries' = BaseEntries
  BY SameEntries DEF Commit
<1>2. /\ worker' \in [Workers -> WorkerStates] /\ worker'[w].pc = "put"
      /\ worker'[w].i = worker[w].i /\ worker'[w].path = worker[w].path
      /\ \A v \in Workers : v # w => worker'[v] = worker[v]
  BY DEF Commit, Goto, Inv, TypeOK, WorkerStates
<1>3. new \in Entries /\ new.from = worker[w].i /\ new.path[1] = worker[w].i
  BY <1>0 DEF Inv, TypeOK, WorkerStates, Entries, Adding
<1>4. /\ run' \in RunStates /\ run'.mf = run.mf \cup {new} /\ run'.reserved = run.reserved
      /\ run'.pc = run.pc /\ run'.contig = run.contig /\ run'.err = run.err
      /\ run'.completed = run.completed /\ run'.start = run.start /\ run'.abort = run.abort
      /\ run'.blind = run.blind
  BY <1>3 DEF Commit, Inv, TypeOK, RunStates
<1>5. TypeOK'
  BY <1>0, <1>1, <1>2, <1>4 DEF Inv, TypeOK
<1>6. OwnPaths' /\ Starting'
  BY <1>0, <1>1, <1>3, <1>4 DEF Inv, OwnPaths, Starting, Copying
<1>7. Phases'
  BY <1>0, <1>1, <1>2, <1>4, WorkersAssumption DEF Inv, Phases
<1>8. Progress' /\ Counted'
  BY <1>0, <1>1, <1>2, <1>4, MoveKeeps DEF Active
<1>9. Adding'
  BY <1>0, <1>1, <1>2, <1>4 DEF Inv, Adding, Entry
<1>10. Ending'
  BY <1>0, <1>1, <1>4 DEF Inv, Ending, Phases, Copied
<1>11. Stored' /\ Kept'
  BY <1>1, <1>4 DEF Inv, Stored, ResumePointStored, Kept, Seen, Copied, Copying
<1>12. Skipping'
  BY ZenonT(60), <1>0, <1>1, <1>2, <1>4 DEF Inv, Skipping, Copying, PathsOf
<1> QED BY <1>5, <1>6, <1>7, <1>8, <1>9, <1>10, <1>11, <1>12 DEF Inv

(* The manifest on the server becomes the run's: it has what is counted.    *)
LEMMA StoreKeeps ==
  ASSUME Inv, Copying, ~run.abort, stored' = run.mf, UNCHANGED <<base, policy, past, job>>,
         run.mf # {} \/ Seen = {}, run'.mf = run.mf, run'.completed = run.completed,
         run'.abort = run.abort
  PROVE  /\ stored' \subseteq Entries /\ OwnPaths' /\ Stored' /\ Kept'
         /\ run.mf # {} => Resumed' = run.mf
<1>1. run.mf # {} => Resumed' = run.mf
  BY DEF Resumed
<1>2. stored' \subseteq Entries /\ OwnPaths'
  BY DEF Inv, TypeOK, RunStates, OwnPaths
<1>a. \A i \in Seen : i \in 1..Files /\ i \notin past.unseen
  BY DEF Seen
<1>b. run.completed \ past.unseen \subseteq Seen
  BY DEF Seen, Inv, TypeOK, RunStates
<1>c. \A i \in Seen : i < job.next => i \in (1..job.next - 1) \ past.unseen
  BY <1>a, FilesAssumption DEF Inv, TypeOK, JobStates
<1>d. Seen' = Seen
  BY DEF Seen
<1>3. Stored'
  <2>1. CASE Seen = {}
    BY <1>b, <1>d, <2>1 DEF Stored, ResumePointStored
  <2>2. CASE run.mf # {}
    BY <1>1, <1>c, <1>d, <2>2 DEF Inv, Kept, Stored, ResumePointStored, Copied
  <2> QED BY <2>1, <2>2
<1>4. Kept'
  BY DEF Inv, Kept, Copied
<1> QED BY <1>1, <1>2, <1>3, <1>4

LEMMA PutAppliedKeeps ==
  ASSUME Inv, NEW w \in Workers, PutApplied(w)
  PROVE  Inv'
<1>0. /\ run.pc = "copy" /\ Copying /\ worker[w].pc = "put" /\ lock = w /\ ~run.abort
      /\ Active(w)
  BY Working DEF PutApplied, Active, Inv, Phases
<1>1. /\ UNCHANGED <<base, policy, past, job, run, lock>> /\ stored' = run.mf
      /\ BaseEntries' = BaseEntries
  BY SameEntries DEF PutApplied
<1>2. /\ worker' \in [Workers -> WorkerStates] /\ worker'[w].pc = "applied"
      /\ worker'[w].i = worker[w].i /\ worker'[w].path = worker[w].path
      /\ \A v \in Workers : v # w => worker'[v] = worker[v]
  BY DEF PutApplied, Goto, Inv, TypeOK, WorkerStates
<1>3. Entry(w) \in run.mf
  BY <1>0 DEF Inv, Adding
<1>4. stored' \subseteq Entries /\ OwnPaths' /\ Stored' /\ Kept' /\ Resumed' = run.mf
  BY <1>0, <1>1, <1>3, StoreKeeps
<1>10. Skipping'
  <2>1. \A v \in Workers : worker'[v].pc \in {"plan", "skip"} => worker'[v] = worker[v]
    BY <1>2
  <2>2. run.pc = "copy" /\ policy = "skip" /\ ~run.blind => PathsOf(Resumed) \subseteq PathsOf(run.mf)
    BY <1>0 DEF Inv, Skipping
  <2>3. PathsOf(Resumed)' = PathsOf(run.mf)
    BY <1>4 DEF PathsOf
  <2> QED BY <1>1, <2>1, <2>2, <2>3 DEF Inv, Skipping
<1>5. TypeOK'
  BY <1>1, <1>2, <1>4 DEF Inv, TypeOK
<1>6. Phases' /\ Starting'
  BY <1>0, <1>1, <1>2 DEF Inv, Phases, Starting, Copying
<1>7. Progress' /\ Counted'
  BY <1>0, <1>1, <1>2, MoveKeeps DEF Active
<1>8. Adding'
  <2>1. \A v \in Workers : worker[v].pc \in {"put", "applied"} => v = w
    BY <1>0 DEF Inv, Phases
  <2>2. Entry(w)' = Entry(w) /\ Entry(w)' \in stored' /\ Entry(w)' \in run'.mf
    BY <1>1, <1>2, <1>3 DEF Entry
  <2>3. worker[w].path[1] = worker[w].i
    BY <1>0 DEF Inv, Adding
  <2>4. \A v \in Workers : v # w => worker'[v].pc \notin {"put", "applied"}
    BY <1>2, <2>1
  <2> QED BY <1>2, <2>2, <2>3, <2>4 DEF Inv, Adding
<1>9. Ending'
  BY <1>0, <1>1 DEF Inv, Ending, Phases
<1> QED BY <1>4, <1>5, <1>6, <1>7, <1>8, <1>9, <1>10 DEF Inv

(* nextIndex moves over the files done without a gap, to the first that is not. *)
LEMMA MarkKeeps ==
  ASSUME Inv, NEW w \in Workers, Active(w), Mark(worker[w].i),
         \/ worker[w].i \in past.unseen
         \/ Copied(worker[w].i, Resumed) /\ (~run.abort => Copied(worker[w].i, run.mf)),
         Again(w),
         lock' = IF lock = w THEN None ELSE lock, UNCHANGED <<base, policy, past, stored>>
  PROVE  Inv'
<1> DEFINE i == worker[w].i
           done == run.completed \cup {i}
<1>0. run.pc = "copy" /\ Copying /\ job.status = "running"
  BY Working DEF Active
<1>1. PICK next \in run.contig..Files + 1 :
        /\ next \notin done /\ \A k \in run.contig..next - 1 : k \in done
        /\ job' = [job EXCEPT !.next = next]
        /\ run' = [run EXCEPT !.contig = next, !.completed = {k \in done : k > next}]
  BY DEF Mark
<1>2. /\ run.contig = job.next /\ job.next \in 1..Files + 1 /\ next \in job.next..Files + 1
      /\ next \in 1..Files + 1 /\ run.start \in 1..Files + 1 /\ i \in 1..Files
      /\ done \subseteq 1..Files
  BY <1>0, FilesAssumption
     DEF Inv, TypeOK, JobStates, RunStates, WorkerStates, Progress, Active
<1>3. /\ job' \in JobStates /\ job'.next = next /\ job'.status = "running"
  BY <1>0, <1>1, <1>2 DEF Inv, TypeOK, JobStates
<1>4. /\ run' \in RunStates /\ run'.contig = next
      /\ run'.completed = {k \in done : k > next}
      /\ run'.mf = run.mf /\ run'.reserved = run.reserved /\ run'.pc = run.pc
      /\ run'.err = run.err /\ run'.start = run.start /\ run'.abort = run.abort
      /\ run'.blind = run.blind
  BY <1>1, <1>2 DEF Inv, TypeOK, RunStates
<1>5. /\ worker' \in [Workers -> WorkerStates] /\ worker'[w].pc = "pick"
      /\ \A v \in Workers : v # w => worker'[v] = worker[v]
  BY DEF Inv, TypeOK, Again, Picking, Off, WorkerStates, Paths
<1>6. Resumed' = Resumed /\ BaseEntries' = BaseEntries
  BY SameEntries
<1>7. \A k \in done : job.next <= k /\ k < run.start
  <2>1. job.next <= i /\ i < run.start
    BY <1>0 DEF Inv, Progress
  <2>2. \A k \in run.completed : job.next < k /\ k < run.start
    BY <1>0 DEF Inv, Progress
  <2> QED BY <1>2, <2>1, <2>2
<1>8. next <= run.start
  <2>1. run.start \notin done
    BY <1>2, <1>7
  <2> QED BY <1>1, <1>2, <2>1, <1>0 DEF Inv, Progress
<1>9. \A k \in 1..next - 1 : k \in 1..job.next - 1 \/ k \in done
  BY <1>1, <1>2
<1>10. TypeOK' /\ OwnPaths' /\ Starting'
  BY <1>0, <1>3, <1>4, <1>5, <1>6 DEF Inv, TypeOK, OwnPaths, Starting, Copying
<1>11. Phases'
  BY <1>0, <1>3, <1>4, <1>5, WorkersAssumption DEF Inv, Phases
<1>12. Progress'
  <2>1. next \notin run'.completed /\ \A k \in run'.completed : next < k /\ k < run.start
    BY <1>2, <1>4, <1>7
  <2>2. ASSUME NEW v \in Workers, Active(v)'
        PROVE  /\ v # w /\ Active(v) /\ worker'[v].i = worker[v].i
               /\ worker[v].i < run.start /\ worker[v].i \notin done
               /\ next <= worker[v].i
    <3>1. v # w /\ Active(v) /\ worker'[v].i = worker[v].i
      BY <1>5, <2>2 DEF Active
    <3>2. /\ worker[v].i \in 1..Files /\ job.next <= worker[v].i
          /\ worker[v].i < run.start /\ worker[v].i \notin done
      BY <1>0, <3>1 DEF Inv, Progress, TypeOK, WorkerStates
    <3> QED BY <1>1, <1>2, <3>1, <3>2
  <2>3. \A v \in Workers : Active(v)' =>
          /\ Active(v) /\ worker'[v].i = worker[v].i /\ worker[v].i < run.start
          /\ worker[v].i \notin run'.completed /\ next <= worker[v].i
    BY <2>2, <1>4
  <2> QED BY <1>0, <1>3, <1>4, <1>8, <2>1, <2>3 DEF Inv, Progress
<1>13. Counted'
  <2>1. ASSUME ~run.err, NEW k \in next..run.start - 1
        PROVE  k \in run'.completed \/ \E v \in Workers : Active(v)' /\ worker'[v].i = k
    <3>1. k \in job.next..run.start - 1 /\ k >= next
      BY <1>2, <2>1
    <3>2. k \in done \/ \E v \in Workers : v # w /\ Active(v) /\ worker[v].i = k
      BY <1>0, <2>1, <3>1 DEF Inv, Counted
    <3>3. CASE k \in done
      BY <1>1, <1>2, <1>4, <3>1, <3>3
    <3>4. CASE \E v \in Workers : v # w /\ Active(v) /\ worker[v].i = k
      BY <1>5, <3>4 DEF Active
    <3> QED BY <3>2, <3>3, <3>4
  <2>2. ~run.err => \A v \in Workers : worker'[v].pc = "off" => run.start = Files + 1
    BY <1>0, <1>5 DEF Inv, Counted
  <2> QED BY <1>3, <1>4, <2>1, <2>2 DEF Counted
<1>14. Adding'
  <2>1. \A v \in Workers : v # w => Entry(v)' = Entry(v)
    BY <1>5 DEF Entry
  <2> QED BY <1>4, <1>5, <2>1 DEF Inv, Adding
<1>15. Ending'
  BY <1>0, <1>3, <1>4 DEF Ending
<1>a. \A k \in (1..next - 1) \ past.unseen : k \in (1..job.next - 1) \ past.unseen \/ k \in done
  BY <1>9
<1>16. Stored'
  <2>1. \A k \in (1..job.next - 1) \ past.unseen : Copied(k, Resumed)
    <3>1. \A k \in (1..job.next - 1) \ past.unseen : k \in Seen /\ k < job.next
      BY <1>2, FilesAssumption DEF Seen
    <3> QED BY <3>1 DEF Inv, Stored, ResumePointStored
  <2>2. \A k \in done \ past.unseen : Copied(k, Resumed)
    BY <1>0 DEF Inv, Stored
  <2>3. \A k \in (1..next - 1) \ past.unseen : Copied(k, Resumed)
    BY <1>a, <2>1, <2>2
  <2>4. \A k \in Seen : k < next => k \in (1..next - 1) \ past.unseen
    BY <1>2, FilesAssumption DEF Seen
  <2> QED BY <1>3, <1>4, <1>6, <2>2, <2>3, <2>4 DEF Stored, ResumePointStored, Seen, Copied
<1>17. Kept'
  <2>1. ~run.abort => \A k \in (1..job.next - 1) \ past.unseen : Copied(k, run.mf)
    BY <1>0 DEF Inv, Kept
  <2>2. ~run.abort => \A k \in done \ past.unseen : Copied(k, run.mf)
    BY <1>0 DEF Inv, Kept
  <2>3. ~run.abort => \A k \in (1..next - 1) \ past.unseen : Copied(k, run.mf)
    BY <1>a, <2>1, <2>2
  <2> QED BY <1>3, <1>4, <2>2, <2>3 DEF Kept, Copied
<1>18. Skipping'
  BY <1>0, <1>4, <1>5, <1>6 DEF Inv, Skipping, Copying
<1> QED BY <1>10, <1>11, <1>12, <1>13, <1>14, <1>15, <1>16, <1>17, <1>18 DEF Inv

LEMMA SkipKeeps ==
  ASSUME Inv, NEW w \in Workers, Skip(w)
  PROVE  Inv'
<1> DEFINE i == worker[w].i
<1>0. /\ run.pc = "copy" /\ worker[w].pc = "skip" /\ lock = None /\ Active(w) /\ Again(w)
  BY Working DEF Skip, Active
<1>1. /\ policy = "skip" /\ i \in past.skipped
      /\ i \in past.unseen \/ <<i, 1>> \in PathsOf(Resumed)
  BY <1>0 DEF Inv, Skipping
<1>2. i \in past.unseen \/ (~run.abort => <<i, 1>> \in PathsOf(run.mf))
  BY <1>0, <1>1 DEF Inv, Skipping
<1>3. i \in past.unseen \/ (Copied(i, Resumed) /\ (~run.abort => Copied(i, run.mf)))
  BY <1>1, <1>2 DEF Copied, PathsOf
<1> QED BY <1>0, <1>3, MarkKeeps, WorkersAssumption DEF Skip

LEMMA PutAnsweredKeeps ==
  ASSUME Inv, NEW w \in Workers, PutAnswered(w)
  PROVE  Inv'
<1> DEFINE i == worker[w].i
<1>0. /\ Copying /\ worker[w].pc = "applied" /\ ~run.abort /\ Active(w) /\ lock = w
      /\ Again(w)
  BY Working DEF PutAnswered, Active, Inv, Phases
<1>1. Entry(w) \in stored /\ Entry(w).from = i
  BY <1>0 DEF Inv, Adding, Entry
<1>2. Copied(i, Resumed)
  BY <1>1 DEF Copied, Resumed
<1>3. Copied(i, run.mf)
  <2>1. Entry(w) \in run.mf
    BY <1>0 DEF Inv, Adding
  <2> QED BY <1>1, <2>1 DEF Copied
<1> QED BY <1>0, <1>2, <1>3, MarkKeeps DEF PutAnswered

LEMMA PutFailedKeeps ==
  ASSUME Inv, NEW w \in Workers, PutFailed(w)
  PROVE  Inv'
<1>1. Active(w) /\ lock = w
  BY DEF PutFailed, Active, Inv, Phases
<1> QED BY <1>1, FailKeeps DEF PutFailed

LEMMA FinishKeeps == Inv /\ Finish => Inv'
<1> SUFFICES ASSUME Inv, Finish PROVE Inv'
  OBVIOUS
<1>0. /\ run.pc = "copy" /\ Copying /\ lock = None /\ \A w \in Workers : worker[w].pc = "off"
  BY DEF Finish, AllOff, Copying, Inv, Phases, TypeOK
<1>1. CASE End("failed")
  BY <1>0, <1>1, StopKeeps DEF Finish, Inv, TypeOK
<1>2. CASE ~run.err /\ run' = [run EXCEPT !.pc = "final"] /\ UNCHANGED job
  <2>1. /\ run' \in RunStates /\ run'.pc = "final" /\ run'.mf = run.mf
        /\ run'.reserved = run.reserved /\ run'.contig = run.contig /\ run'.err = run.err
        /\ run'.completed = run.completed /\ run'.start = run.start /\ run'.abort = run.abort
      /\ run'.blind = run.blind
    BY <1>2 DEF Inv, TypeOK, RunStates
  <2>2. /\ UNCHANGED <<base, policy, past, job, stored, worker, lock>>
        /\ Resumed' = Resumed /\ BaseEntries' = BaseEntries /\ Copying'
    BY <1>2, <2>1, SameEntries DEF Finish, Copying
  <2>3. job.next = Files + 1
    <3>1. run.start = Files + 1
      BY <1>0, <1>2, WorkersAssumption DEF Inv, Counted
    <3>2. \A i \in job.next..Files : i \in run.completed
      BY <1>0, <1>2, <3>1, FilesAssumption DEF Inv, Counted, Active
    <3>3. job.next \in 1..Files + 1 /\ job.next \notin run.completed
      BY <1>0 DEF Inv, TypeOK, JobStates, Progress
    <3> QED BY <3>2, <3>3, FilesAssumption
  <2>4. TypeOK' /\ OwnPaths' /\ Phases'
    BY <1>0, <2>1, <2>2 DEF Inv, TypeOK, OwnPaths, Phases
  <2>5. Starting' /\ Progress' /\ Counted'
    BY <1>0, <2>1, <2>2 DEF Inv, Starting, Progress, Counted, Active
  <2>6. Adding' /\ Ending'
    BY <1>0, <2>1, <2>2, <2>3 DEF Inv, Adding, Phases, Ending
  <2>7. Stored' /\ Kept'
    BY <1>0, <2>1, <2>2 DEF Inv, Stored, ResumePointStored, Kept, Seen, Copied
  <2>8. Skipping'
    BY <1>0, <2>1, <2>2 DEF Inv, Skipping
  <2> QED BY <2>4, <2>5, <2>6, <2>7, <2>8 DEF Inv
<1> QED BY <1>1, <1>2 DEF Finish

LEMMA FinalPutKeeps == Inv /\ FinalPut => Inv'
<1> SUFFICES ASSUME Inv, FinalPut PROVE Inv'
  OBVIOUS
<1>0. /\ run.pc = "final" /\ Copying /\ lock = None
      /\ (\A w \in Workers : worker[w].pc = "off") /\ job.next = Files + 1
  BY NoWorker DEF FinalPut, Copying, Inv, Ending
<1>1. CASE End("failed") /\ UNCHANGED stored
  BY <1>0, <1>1, StopKeeps DEF FinalPut, Inv, TypeOK
<1>2. CASE ~run.abort /\ stored' = run.mf /\ run' = [run EXCEPT !.pc = "finalput"] /\ UNCHANGED job
  <2>1. /\ run' \in RunStates /\ run'.pc = "finalput" /\ run'.mf = run.mf
        /\ run'.reserved = run.reserved /\ run'.contig = run.contig /\ run'.err = run.err
        /\ run'.completed = run.completed /\ run'.start = run.start /\ run'.abort = run.abort
      /\ run'.blind = run.blind
    BY <1>2 DEF Inv, TypeOK, RunStates
  <2>2. UNCHANGED <<base, policy, past, job, worker, lock>> /\ BaseEntries' = BaseEntries /\ Copying'
    BY <1>2, <2>1, SameEntries DEF FinalPut, Copying
  <2>3. \A i \in Seen : Copied(i, run.mf)
    <3>1. \A i \in Seen : i \in (1..job.next - 1) \ past.unseen
      BY <1>0, FilesAssumption DEF Seen
    <3> QED BY <1>0, <1>2, <3>1 DEF Inv, Kept
  <2>4. run.mf # {} \/ Seen = {}
    BY <2>3 DEF Copied
  <2>5. stored' \subseteq Entries /\ OwnPaths' /\ Stored' /\ Kept'
    BY <1>0, <1>2, <2>1, <2>2, <2>4, StoreKeeps
  <2>9. Skipping'
    BY <1>0, <2>1, <2>2 DEF Skipping
  <2>6. TypeOK' /\ Phases'
    BY <1>0, <2>1, <2>2, <2>5 DEF Inv, TypeOK, Phases
  <2>7. Starting' /\ Progress' /\ Counted'
    BY <1>0, <2>1, <2>2 DEF Inv, Starting, Progress, Counted, Active
  <2>8. Adding' /\ Ending'
    BY <1>0, <1>2, <2>1, <2>2, <2>3 DEF Inv, Adding, Phases, Ending, Seen, Copied
  <2> QED BY <2>5, <2>6, <2>7, <2>8, <2>9 DEF Inv
<1> QED BY <1>1, <1>2 DEF FinalPut

LEMMA FinalAnswerKeeps == Inv /\ FinalAnswer => Inv'
<1> SUFFICES ASSUME Inv, FinalAnswer PROVE Inv'
  OBVIOUS
<1>1. /\ lock = None /\ \A w \in Workers : worker[w].pc = "off"
      /\ job.next = Files + 1 /\ \A i \in Seen : Copied(i, stored)
  BY NoWorker DEF FinalAnswer, Inv, Ending
<1> QED BY <1>1, StopKeeps DEF FinalAnswer, Inv, TypeOK

(* No run: its worker rules say nothing of the policy. *)
LEMMA ChangePolicyKeeps == Inv /\ ChangePolicy => Inv'
<1> SUFFICES ASSUME Inv, ChangePolicy PROVE Inv'
  OBVIOUS
<1>0. /\ run.pc = "idle" /\ \A w \in Workers : worker[w].pc = "off"
      /\ UNCHANGED <<base, job, stored, run, worker, lock>>
  BY NoWorker DEF ChangePolicy, Inv, Phases
<1>1. /\ past' \in PastStates /\ past'.skipped = past.skipped
      /\ past'.unseen = past.unseen /\ past'.replaced = past.replaced
  BY DEF ChangePolicy, Inv, TypeOK, PastStates
<1>2. Resumed' = Resumed /\ Seen' = Seen
  BY <1>0, <1>1, SameEntries DEF Seen
<1>3. TypeOK' /\ OwnPaths' /\ Phases'
  BY <1>0, <1>1 DEF ChangePolicy, Inv, TypeOK, OwnPaths, Phases
<1>4. Starting' /\ Progress' /\ Counted' /\ Kept'
  BY <1>0, <1>1 DEF Inv, Starting, Progress, Counted, Kept, Copying
<1>5. Adding' /\ Skipping'
  BY <1>0 DEF Adding, Skipping, Entry
<1>6. Stored'
  BY <1>0, <1>1, <1>2 DEF Inv, Stored, ResumePointStored, Copied, Copying
<1>7. Ending'
  BY <1>0, <1>1, <1>2 DEF Inv, Ending, Copied
<1> QED BY <1>3, <1>4, <1>5, <1>6, <1>7 DEF Inv

LEMMA StutterKeeps == Inv /\ UNCHANGED vars => Inv'
<1> SUFFICES ASSUME Inv, UNCHANGED vars PROVE Inv'
  OBVIOUS
<1>1. /\ UNCHANGED <<base, policy, past, job, stored, run, worker, lock>>
      /\ Resumed' = Resumed /\ BaseEntries' = BaseEntries /\ Copying' = Copying
  BY SameEntries DEF vars, Copying
<1>2. TypeOK' /\ OwnPaths' /\ Phases' /\ Starting'
  BY <1>1 DEF Inv, TypeOK, OwnPaths, Phases, Starting
<1>3. Progress' /\ Counted' /\ Adding' /\ Ending'
  BY <1>1 DEF Inv, Progress, Counted, Active, Adding, Entry, Ending, Seen, Copied
<1>4. Stored' /\ Kept' /\ Skipping'
  BY <1>1 DEF Inv, Stored, ResumePointStored, Kept, Seen, Copied, Skipping
<1> QED BY <1>2, <1>3, <1>4 DEF Inv

(* The invariant holds in every state. *)
THEOREM Inductive == Spec => []Inv
<1>1. Inv /\ [Next]_vars => Inv'
  <2> SUFFICES ASSUME Inv, [Next]_vars PROVE Inv'
    OBVIOUS
  <2>1. ASSUME NEW w \in Workers, Work(w) PROVE Inv'
    BY <2>1, PickKeeps, PlanKeeps, SkipKeeps, CopyKeeps, CommitKeeps, PutAppliedKeeps,
       PutAnsweredKeeps, PutFailedKeeps DEF Work
  <2>2. CASE Steps
    BY <2>1, <2>2, CreateKeeps, LoadKeeps, SeedKeeps, SeedPutKeeps, ListKeeps,
       FinishKeeps, FinalPutKeeps, FinalAnswerKeeps DEF Steps
  <2>3. CASE Begin \/ Cancel \/ Restart \/ ChangePolicy \/ UNCHANGED vars
    BY <2>3, BeginKeeps, CancelKeeps, RestartKeeps, ChangePolicyKeeps, StutterKeeps
  <2> QED BY <2>2, <2>3 DEF Next
<1> QED BY InitOK, <1>1, PTL DEF Spec

(* Every variable keeps its type. *)
THEOREM TypeCorrect == Spec => []TypeOK
<1>1. Inv => TypeOK
  BY DEF Inv
<1> QED BY Inductive, <1>1, PTL

(* Done means that every source file is in the destination manifest. *)
THEOREM DoneIsComplete == Spec => []DoneMeansCopied
<1>1. Inv => DoneMeansCopied
  BY DEF Inv, Ending, DoneMeansCopied
<1> QED BY Inductive, <1>1, PTL

(* What a resume skips is in the manifest the resumed run starts from. *)
THEOREM ResumeIsSafe == Spec => []ResumePointStored
<1>1. Inv => ResumePointStored
  BY DEF Inv, Stored
<1> QED BY Inductive, <1>1, PTL

-----------------------------------------------------------------------------
(* The base.  Once its entries are in a manifest, only a file that replaces *)
(* one takes it out again.                                                  *)

InOrReplaced(M) == \A e \in BaseEntries : e \in M \/ e.path[1] \in past.replaced

Ended == run.pc = "finalput" \/ job.status = "done"

BaseInv ==
  ~past.unseeded =>
    /\ InOrReplaced(Resumed)
    /\ (run.pc = "list" \/ Copying) /\ ~run.abort => InOrReplaced(run.mf)
    /\ Ended => InOrReplaced(stored)

(* What a step may do with the manifest, in memory and on the server. *)
KeepsManifest ==
  /\ base' = base
  /\ past.unseeded => past'.unseeded
  /\ past.replaced \subseteq past'.replaced
  /\ \/ stored' = stored
     \/ stored' = run.mf /\ (run.pc = "seedput" \/ (Copying /\ ~run.abort))
  /\ (run'.pc = "list" \/ Copying') /\ ~run'.abort /\ ~past'.unseeded =>
       \/ /\ (run.pc = "list" \/ Copying) /\ ~run.abort
          /\ \A e \in run.mf : e \in run'.mf \/ e.path[1] \in past'.replaced
       \/ run.pc = "seedput" /\ run'.mf = run.mf
       \/ BaseEntries = {}
       \/ run'.mf = Resumed
  /\ Ended' => \/ stored' = run.mf /\ Copying /\ ~run.abort
               \/ stored' = stored /\ Ended

LEMMA ManifestKeepsBase ==
  ASSUME Inv, BaseInv, KeepsManifest
  PROVE  BaseInv'
<1> SUFFICES ASSUME ~past'.unseeded
             PROVE  /\ InOrReplaced(Resumed)'
                    /\ (run'.pc = "list" \/ Copying') /\ ~run'.abort => InOrReplaced(run.mf)'
                    /\ Ended' => InOrReplaced(stored)'
  BY DEF BaseInv
<1>1. /\ ~past.unseeded /\ past.replaced \subseteq past'.replaced
      /\ BaseEntries' = BaseEntries /\ InOrReplaced(Resumed)
  BY SameEntries DEF BaseInv, KeepsManifest
<1>2. Copying /\ ~run.abort => InOrReplaced(run.mf)
  BY <1>1 DEF BaseInv
<1>3. run.pc = "seedput" => InOrReplaced(run.mf)
  BY DEF Inv, Starting, InOrReplaced
<1>4. InOrReplaced(Resumed)'
  <2>1. CASE stored' = stored
    BY <1>1, <2>1, SameEntries DEF InOrReplaced, KeepsManifest
  <2>2. CASE stored' = run.mf /\ InOrReplaced(run.mf)
    BY <1>1, <2>2 DEF InOrReplaced, Resumed
  <2> QED BY <1>2, <1>3, <2>1, <2>2 DEF KeepsManifest
<1>5. ASSUME run'.pc = "list" \/ Copying', ~run'.abort PROVE InOrReplaced(run.mf)'
  <2>1. CASE /\ InOrReplaced(run.mf)
             /\ \A e \in run.mf : e \in run'.mf \/ e.path[1] \in past'.replaced
    BY <1>1, <2>1 DEF InOrReplaced
  <2>2. CASE BaseEntries = {}
    BY <1>1, <2>2 DEF InOrReplaced
  <2>3. CASE run'.mf = Resumed
    BY <1>1, <2>3 DEF InOrReplaced
  <2>4. (run.pc = "list" \/ Copying) /\ ~run.abort => InOrReplaced(run.mf)
    BY <1>1 DEF BaseInv
  <2> QED BY <1>3, <1>5, <2>1, <2>2, <2>3, <2>4 DEF KeepsManifest
<1>6. Ended' => InOrReplaced(stored)'
  <2>1. Ended => InOrReplaced(stored)
    BY <1>1 DEF BaseInv
  <2> QED BY <1>1, <1>2, <2>1 DEF KeepsManifest, InOrReplaced
<1> QED BY <1>4, <1>5, <1>6

LEMMA EarlyKeepManifest ==
  ASSUME Inv, \/ Begin \/ Create \/ Load \/ Seed \/ SeedPut
              \/ Cancel \/ Restart \/ ChangePolicy \/ UNCHANGED vars
  PROVE  KeepsManifest
<1>0. run \in RunStates /\ past \in PastStates /\ job \in JobStates
      /\ (job.status = "running" <=> run.pc # "idle")
  BY DEF Inv, TypeOK, Phases
<1>1. CASE Begin \/ Restart
  <2>1. /\ run'.pc \in {"idle", "load", "create"} /\ job'.status \in {"running", "failed"}
        /\ UNCHANGED <<base, past, stored>>
    BY <1>0, <1>1 DEF Begin, Restart, End, NoRun, JobStates
  <2> QED BY <2>1 DEF KeepsManifest, Copying, Ended
<1>2. CASE Create
  <2>1. /\ run'.pc \in {"idle", "load"} /\ job'.status \in {"running", "failed"}
        /\ UNCHANGED <<base, past, stored>>
    BY <1>0, <1>2 DEF Create, End, NoRun, RunStates, JobStates
  <2> QED BY <2>1 DEF KeepsManifest, Copying, Ended
<1>3. CASE Load
  <2>1. PICK M \in {stored, {}} :
          /\ run' = [run EXCEPT !.mf = M, !.blind = (M # stored /\ ~run.abort),
                                !.pc = IF M = {} /\ base # {} THEN "seed" ELSE "list"]
          /\ past' = IF M # stored /\ ~run.abort THEN Unseen ELSE past
    BY <1>3 DEF Load
  <2>2. /\ run'.mf = M
        /\ run'.pc = IF M = {} /\ base # {} THEN "seed" ELSE "list"
    BY <1>0, <2>1 DEF RunStates
  <2>3. past'.unseeded = past.unseeded /\ past'.replaced = past.replaced
    BY <1>0, <2>1 DEF Unseen, PastStates
  <2>4. job.status = "running" /\ UNCHANGED <<base, job, stored>>
    BY <1>0, <1>3 DEF Load
  <2>5. run'.pc = "list" => BaseEntries = {} \/ run'.mf = Resumed
    BY <2>2 DEF Resumed, BaseEntries
  <2> QED BY <2>2, <2>3, <2>4, <2>5 DEF KeepsManifest, Copying, Ended
<1>4. CASE Seed
  <2>1. /\ job.status = "running" /\ UNCHANGED <<base, job, stored>>
    BY <1>0, <1>4 DEF Seed
  <2>2. CASE UNCHANGED past /\ (run'.abort \/ run'.pc = "seedput") /\ run'.pc \in {"seedput", "list"}
    BY <2>1, <2>2 DEF KeepsManifest, Copying, Ended
  <2>3. CASE past' = [Unseen EXCEPT !.unseeded = TRUE] /\ run'.pc = "list"
    <3>1. past'.unseeded /\ past'.replaced = past.replaced
      BY <1>0, <2>3 DEF Unseen, PastStates
    <3> QED BY <2>1, <2>3, <3>1 DEF KeepsManifest, Copying, Ended
  <2> QED BY <1>0, <1>4, <2>2, <2>3 DEF Seed, RunStates
<1>5. CASE SeedPut
  <2>1. /\ run.pc = "seedput" /\ run'.pc = "list" /\ run'.mf = run.mf
        /\ job.status = "running" /\ UNCHANGED <<base, past, job>>
        /\ (stored' = stored \/ stored' = run.mf)
    BY <1>0, <1>5 DEF SeedPut, RunStates
  <2>2. ~Copying' /\ ~Ended'
    BY <2>1 DEF Copying, Ended
  <2> QED BY <2>1, <2>2 DEF KeepsManifest
<1>6. CASE Cancel
  <2>1. run'.abort /\ run'.pc = run.pc /\ UNCHANGED <<base, past, job, stored>>
    BY <1>0, <1>6 DEF Cancel, RunStates
  <2> QED BY <2>1 DEF KeepsManifest, Ended
<1>7. CASE ChangePolicy
  <2>1. past'.unseeded = past.unseeded /\ past'.replaced = past.replaced
    BY <1>0, <1>7 DEF ChangePolicy, PastStates
  <2>2. run.pc = "idle" /\ UNCHANGED <<base, job, stored, run>>
    BY <1>0, <1>7 DEF ChangePolicy
  <2> QED BY <2>1, <2>2 DEF KeepsManifest, Copying, Ended
<1>8. CASE UNCHANGED vars
  <2>1. UNCHANGED <<base, job, stored, run, past>>
    BY <1>8 DEF vars
  <2>2. run'.pc = "list" \/ Copying' => run.pc = "list" \/ Copying
    BY <2>1 DEF Copying
  <2> QED BY <2>1, <2>2 DEF KeepsManifest, Ended
<1> QED BY <1>1, <1>2, <1>3, <1>4, <1>5, <1>6, <1>7, <1>8

LEMMA LateKeepManifest ==
  ASSUME Inv, List \/ Finish \/ FinalPut \/ FinalAnswer
  PROVE  KeepsManifest
<1>0. run \in RunStates /\ job \in JobStates /\ (job.status = "running" <=> run.pc # "idle")
  BY DEF Inv, TypeOK, Phases
<1>a. UNCHANGED <<base, past>> /\ job.status = "running"
  BY <1>0 DEF List, Finish, FinalPut, FinalAnswer
<1>1. CASE End("failed") \/ End("done")
  <2>1. run'.pc = "idle"
    BY <1>1 DEF End, NoRun
  <2>2. stored' = stored \/ (stored' = run.mf /\ Copying /\ ~run.abort)
    BY DEF List, Finish, FinalPut, FinalAnswer, Copying
  <2>3. Ended' => \/ stored' = run.mf /\ Copying /\ ~run.abort
                  \/ stored' = stored /\ Ended
    <3>1. CASE FinalAnswer
      BY <3>1 DEF FinalAnswer, Ended
    <3>2. CASE List \/ Finish \/ FinalPut
      <4>1. CASE End("failed")
        BY <1>0, <2>1, <4>1 DEF End, Ended, JobStates
      <4>2. CASE ~End("failed")
        <5>1. \E pc \in {"copy", "final", "finalput"} :
                \/ run' = [run EXCEPT !.pc = pc]
                \/ run' = [run EXCEPT !.pc = pc, !.reserved = PathsOf(run.mf),
                                      !.contig = job.next, !.start = job.next]
          BY <3>2, <4>2 DEF List, Finish, FinalPut
        <5>2. run'.pc # "idle"
          BY <1>0, <5>1 DEF RunStates
        <5> QED BY <2>1, <5>2
      <4> QED BY <4>1, <4>2
    <3> QED BY <3>1, <3>2
  <2> QED BY <1>a, <2>1, <2>2, <2>3 DEF KeepsManifest, Copying
<1>2. CASE /\ List
           /\ job' = [job EXCEPT !.listed = TRUE]
           /\ run' = [run EXCEPT !.pc = "copy", !.reserved = PathsOf(run.mf),
                                 !.contig = job.next, !.start = job.next]
  <2>1. /\ run.pc = "list" /\ run'.mf = run.mf /\ run'.abort = run.abort /\ run'.pc = "copy"
        /\ UNCHANGED stored /\ job'.status = "running"
    BY <1>0, <1>a, <1>2 DEF List, RunStates, JobStates
  <2> QED BY <1>a, <2>1 DEF KeepsManifest, Ended
<1>3. CASE Finish /\ run' = [run EXCEPT !.pc = "final"] /\ UNCHANGED job
  <2>1. /\ Copying /\ run'.mf = run.mf /\ run'.abort = run.abort /\ run'.pc = "final"
        /\ UNCHANGED stored
    BY <1>0, <1>3 DEF Finish, Copying, RunStates
  <2> QED BY <1>a, <1>3, <2>1 DEF KeepsManifest, Ended
<1>4. CASE /\ FinalPut /\ ~run.abort /\ stored' = run.mf
           /\ run' = [run EXCEPT !.pc = "finalput"] /\ UNCHANGED job
  <2>1. Copying /\ run'.mf = run.mf /\ run'.abort = run.abort
    BY <1>0, <1>4 DEF FinalPut, Copying, RunStates
  <2> QED BY <1>a, <1>4, <2>1 DEF KeepsManifest
<1> QED BY <1>1, <1>2, <1>3, <1>4 DEF List, Finish, FinalPut, FinalAnswer

LEMMA WorkKeepsManifest ==
  ASSUME Inv, NEW w \in Workers, Work(w)
  PROVE  KeepsManifest
<1>0. run \in RunStates /\ past \in PastStates /\ job \in JobStates /\ base' = base
  BY DEF Inv, TypeOK, Work, Pick, Plan, Skip, Copy, Commit, PutApplied, PutAnswered, PutFailed
<1>1. run.pc = "copy" /\ Copying /\ job.status = "running"
  <2>1. worker[w].pc # "off"
    BY DEF Work, Pick, Plan, Skip, Copy, Commit, PutApplied, PutAnswered, PutFailed
  <2> QED BY <2>1 DEF Inv, Phases, Copying
<1>2. stored' = stored \/ (stored' = run.mf /\ ~run.abort)
  BY DEF Work, Pick, Plan, Skip, Copy, Commit, PutApplied, PutAnswered, PutFailed
<1>4. /\ run'.pc = run.pc /\ job'.status = job.status
      /\ past'.unseeded = past.unseeded /\ past.replaced \subseteq past'.replaced
      /\ \/ run'.abort
         \/ /\ run'.abort = run.abort
            /\ \A e \in run.mf : e \in run'.mf \/ e.path[1] \in past'.replaced
  <2>1. CASE run' = run /\ job' = job /\ past' = past
    BY <2>1
  <2>2. CASE Fail(w) /\ job' = job /\ past' = past
    BY <1>0, <2>2 DEF Fail, RunStates
  <2>3. CASE Pick(w) /\ run' = [run EXCEPT !.start = @ + 1] /\ job' = job /\ past' = past
    BY <1>0, <2>3 DEF RunStates
  <2>4. CASE /\ Plan(w) /\ past' = [past EXCEPT !.replaced = @ \cup {worker[w].i}]
             /\ run' = [run EXCEPT !.reserved = @ \cup {<<worker[w].i, 1>>},
                                   !.mf = {e \in run.mf : e.path # <<worker[w].i, 1>>}]
    <3>1. /\ run'.mf = {e \in run.mf : e.path # <<worker[w].i, 1>>}
          /\ run'.pc = run.pc /\ run'.abort = run.abort /\ job' = job
      BY <1>0, <2>4 DEF Plan, RunStates
    <3>2. past'.replaced = past.replaced \cup {worker[w].i} /\ past'.unseeded = past.unseeded
      BY <1>0, <2>4 DEF PastStates
    <3> QED BY <3>1, <3>2
  <2>5. CASE /\ Plan(w)
             /\ \/ run' = run
                \/ \E q : run' = [run EXCEPT !.reserved = @ \cup {q}, !.mf = run.mf]
             /\ \/ past' = past
                \/ past' = [past EXCEPT !.skipped = @ \cup {worker[w].i},
                      !.unseen = IF run.blind THEN @ \cup {worker[w].i} ELSE @]
    <3>1. run'.mf = run.mf /\ run'.pc = run.pc /\ run'.abort = run.abort /\ job' = job
      BY <1>0, <2>5 DEF Plan, RunStates
    <3>2. past'.replaced = past.replaced /\ past'.unseeded = past.unseeded
      BY <1>0, <2>5 DEF PastStates
    <3> QED BY <3>1, <3>2
  <2>8. CASE Plan(w)
    BY <2>4, <2>5, <2>8 DEF Plan
  <2>6. CASE Mark(worker[w].i) /\ past' = past
    <3>1. PICK n, c : /\ run' = [run EXCEPT !.contig = n, !.completed = c]
                      /\ job' = [job EXCEPT !.next = n]
      BY <2>6 DEF Mark
    <3> QED BY <1>0, <2>6, <3>1 DEF RunStates, JobStates
  <2>7. CASE Commit(w)
    BY <1>0, <2>7 DEF Commit, RunStates
  <2> QED BY <2>1, <2>2, <2>3, <2>6, <2>7, <2>8
          DEF Work, Pick, Skip, Copy, PutApplied, PutAnswered, PutFailed
<1>3. ~Ended'
  BY <1>1, <1>4 DEF Ended
<1>5. run.abort => run'.abort
  BY <1>4
<1> QED BY <1>0, <1>1, <1>2, <1>3, <1>4, <1>5 DEF KeepsManifest

(* A done job keeps the files of its base but those it has replaced, and    *)
(* those by a copy, unless the manifest of the base was not to be had; for  *)
(* any number of files, workers and names, and any policies.                *)
THEOREM BaseStays == Spec => []BaseKept
<1>1. Init => BaseInv
  BY DEF Init, BaseInv, InOrReplaced, Resumed, Copying, Ended, NoRun
<1>2. Inv /\ BaseInv /\ [Next]_vars => BaseInv'
  BY EarlyKeepManifest, LateKeepManifest, WorkKeepsManifest, ManifestKeepsBase DEF Next, Steps
<1>3. Inv /\ BaseInv => BaseKept
  BY DEF Inv, Ending, BaseInv, Ended, InOrReplaced, BaseKept
<1> QED BY Inductive, <1>1, <1>2, <1>3, PTL DEF Spec

-----------------------------------------------------------------------------
(* The refinement. *)

AbstractCopied == {i \in 1..Files : Copied(i, Resumed)}

LEMMA InitRefines == Init => Abstract!Init
BY DEF Init, NoRun, Abstract!Init

(* Steps that neither store nor skip anything. *)
LEMMA QuietCopied ==
  ASSUME base' = base, stored' = stored, past'.skipped = past.skipped
  PROVE  AbstractCopied' = AbstractCopied
<1>1. Resumed' = Resumed
  BY SameEntries
<1> QED BY <1>1 DEF AbstractCopied, Copied

LEMMA StopRefines ==
  ASSUME Inv, run.pc # "idle", End("failed"), UNCHANGED <<base, past, stored>>
  PROVE  Abstract!Stop
<1>1. job.status = "running" /\ job'.status = "failed" /\ job'.next = job.next /\ ~run'.blind
  BY DEF Inv, Phases, TypeOK, JobStates, End, NoRun
<1>2. run'.blind = FALSE
  BY DEF End, NoRun
<1>3. AbstractCopied' = AbstractCopied
  BY QuietCopied
<1> QED BY <1>1, <1>2, <1>3 DEF Abstract!Stop, AbstractCopied

LEMMA StutterRefines ==
  ASSUME job'.status = job.status, job'.next = job.next, run'.blind = run.blind,
         past'.skipped = past.skipped, past'.unseen = past.unseen, UNCHANGED <<base, stored>>
  PROVE  UNCHANGED Abstract!vars
<1>1. AbstractCopied' = AbstractCopied
  BY QuietCopied
<1> QED BY <1>1 DEF Abstract!vars, AbstractCopied

LEMMA GoBlindRefines ==
  ASSUME Inv, run.pc # "idle", run'.blind = TRUE, past'.skipped = past.skipped,
         past'.unseen = past.unseen \cup 1..job.next - 1, UNCHANGED <<base, job, stored>>
  PROVE  Abstract!GoBlind
<1>1. job.status = "running"
  BY DEF Inv, Phases
<1>2. AbstractCopied' = AbstractCopied
  BY QuietCopied
<1> QED BY <1>1, <1>2 DEF Abstract!GoBlind, AbstractCopied

(* What a resume skips is in the manifest, as a fact about sets. *)
CountedAreCopied == (1..job.next - 1) \ past.unseen \subseteq AbstractCopied

LEMMA CountedCopied == Inv => CountedAreCopied
<1> SUFFICES ASSUME Inv PROVE CountedAreCopied
  OBVIOUS
<1>1. job.next \in 1..Files + 1
  BY DEF Inv, TypeOK, JobStates
<1>2. \A k \in (1..job.next - 1) \ past.unseen : k \in 1..Files /\ k \in Seen /\ k < job.next
  BY <1>1, FilesAssumption DEF Seen
<1> QED BY <1>2 DEF Inv, Stored, ResumePointStored, AbstractCopied, CountedAreCopied

(* Mark moves over files that are copied. *)
LEMMA MarkRefines ==
  ASSUME Inv, Inv', run.pc = "copy", NEW i \in 1..Files, Mark(i), UNCHANGED <<base, past, stored>>
  PROVE  Abstract!Advance
<1>1. /\ job.status = "running" /\ job'.status = job.status
      /\ job.next \in 1..Files + 1 /\ job'.next \in job.next..Files + 1
  BY ZenonT(60) DEF Inv, Phases, Progress, Copying, TypeOK, JobStates, RunStates, Mark
<1>2. run'.blind = run.blind
  <2>1. PICK n, c : run' = [run EXCEPT !.contig = n, !.completed = c]
    BY DEF Mark
  <2> QED BY <2>1 DEF Inv, TypeOK, RunStates
<1>3. AbstractCopied' = AbstractCopied
  BY QuietCopied
<1>4. (1..job'.next - 1) \ past'.unseen \subseteq AbstractCopied'
  <2>1. CountedAreCopied'
    BY CountedCopied, PTL
  <2> QED BY <2>1 DEF CountedAreCopied
<1> QED BY <1>1, <1>2, <1>3, <1>4 DEF Abstract!Advance, AbstractCopied

LEMMA StoreRefines ==
  ASSUME Inv, Inv', run.pc # "idle", run'.blind = run.blind, past'.unseen = past.unseen,
         UNCHANGED <<base, job>>
  PROVE  Abstract!Store
<1>1. job.status = "running"
  BY DEF Inv, Phases
<1>2. AbstractCopied' \subseteq 1..Files
  BY DEF AbstractCopied
<1>3. (1..job'.next - 1) \ past'.unseen \subseteq AbstractCopied'
  <2>1. CountedAreCopied'
    BY CountedCopied, PTL
  <2> QED BY <2>1 DEF CountedAreCopied
<1> QED BY <1>1, <1>2, <1>3 DEF Abstract!Store, AbstractCopied

LEMMA LoadRefines ==
  ASSUME Inv, Load
  PROVE  Abstract!Next \/ UNCHANGED Abstract!vars
<1>1. PICK M \in {stored, {}} :
        /\ run' = [run EXCEPT !.mf = M, !.blind = (M # stored /\ ~run.abort),
                              !.pc = IF M = {} /\ base # {} THEN "seed" ELSE "list"]
        /\ past' = IF M # stored /\ ~run.abort THEN Unseen ELSE past
  BY DEF Load
<1>2. run \in RunStates /\ run.blind = FALSE /\ UNCHANGED <<base, job, stored>>
  BY DEF Load, Inv, TypeOK, RunStates, Starting
<1>3. CASE M # stored /\ ~run.abort
  <2>1. run'.blind = TRUE
    BY <1>1, <1>2, <1>3 DEF RunStates
  <2>2. past'.skipped = past.skipped /\ past'.unseen = past.unseen \cup 1..job.next - 1
    BY <1>1, <1>3, UnseenTyped
  <2>3. Abstract!GoBlind
    BY <1>2, <2>1, <2>2, GoBlindRefines DEF Load
  <2> QED BY <2>3 DEF Abstract!Next
<1>4. CASE ~(M # stored /\ ~run.abort)
  <2>1. run'.blind = FALSE /\ past' = past
    BY <1>1, <1>2, <1>4 DEF RunStates
  <2> QED BY <1>2, <2>1, StutterRefines
<1> QED BY <1>3, <1>4

LEMMA SeedRefines ==
  ASSUME Inv, Seed
  PROVE  Abstract!Next \/ UNCHANGED Abstract!vars
<1>1. run \in RunStates /\ UNCHANGED <<base, job, stored>>
  BY DEF Seed, Inv, TypeOK
<1>2. CASE run'.blind = run.blind /\ past' = past
  BY <1>1, <1>2, StutterRefines
<1>3. CASE run'.blind = TRUE /\ past' = [Unseen EXCEPT !.unseeded = TRUE]
  <2>1. past'.skipped = past.skipped /\ past'.unseen = past.unseen \cup 1..job.next - 1
    BY <1>3, UnseenTyped
  <2>2. Abstract!GoBlind
    BY <1>1, <1>3, <2>1, GoBlindRefines DEF Seed
  <2> QED BY <2>2 DEF Abstract!Next
<1> QED BY <1>1, <1>2, <1>3 DEF Seed, RunStates

(* A file that is skipped may count as copied by that. *)
LEMMA SkippedCopied ==
  ASSUME NEW i \in 1..Files, base' = base, stored' = stored,
         past'.skipped = past.skipped \cup {i}
  PROVE  AbstractCopied' \in {AbstractCopied, AbstractCopied \cup {i}}
<1>1. Resumed' = Resumed
  BY SameEntries
<1>2. ASSUME NEW k \in 1..Files, k # i PROVE Copied(k, Resumed)' <=> Copied(k, Resumed)
  <2>1. k \in past'.skipped <=> k \in past.skipped
    BY <1>2
  <2> QED BY <1>1, <2>1 DEF Copied
<1>3. Copied(i, Resumed) => Copied(i, Resumed)'
  BY <1>1 DEF Copied
<1>4. \A k \in 1..Files : k # i => (k \in AbstractCopied' <=> k \in AbstractCopied)
  BY <1>2 DEF AbstractCopied
<1>5. i \in AbstractCopied => i \in AbstractCopied'
  BY <1>3 DEF AbstractCopied
<1>6. AbstractCopied \subseteq 1..Files /\ AbstractCopied' \subseteq 1..Files
  BY DEF AbstractCopied
<1>7. CASE i \in AbstractCopied'
  <2>1. AbstractCopied' = AbstractCopied \cup {i}
    BY <1>4, <1>6, <1>7
  <2> QED BY <2>1
<1>8. CASE i \notin AbstractCopied'
  <2>1. \A k : k \in AbstractCopied' <=> k \in AbstractCopied
    BY <1>4, <1>5, <1>6, <1>8
  <2>2. AbstractCopied' = AbstractCopied
    BY <2>1
  <2> QED BY <2>2
<1> QED BY <1>7, <1>8

LEMMA PlanRefines ==
  ASSUME Inv, Inv', NEW w \in Workers, Plan(w)
  PROVE  Abstract!Next \/ UNCHANGED Abstract!vars
<1> DEFINE i == worker[w].i
<1>1. /\ run \in RunStates /\ past \in PastStates /\ i \in 1..Files
      /\ run.pc = "copy" /\ job.status = "running" /\ UNCHANGED <<base, job, stored>>
  BY Working DEF Plan, Inv, TypeOK, WorkerStates
<1>2. run'.blind = run.blind
  <2>1. run' = run \/ \E q, mf : run' = [run EXCEPT !.reserved = @ \cup {q}, !.mf = mf]
    BY DEF Plan
  <2> QED BY <1>1, <2>1 DEF RunStates
<1>3. CASE past' = past \/ past' = [past EXCEPT !.replaced = @ \cup {i}]
  <2>1. past'.skipped = past.skipped /\ past'.unseen = past.unseen
    BY <1>1, <1>3 DEF PastStates
  <2> QED BY <1>1, <1>2, <2>1, StutterRefines
<1>4. CASE past' = [past EXCEPT !.skipped = @ \cup {i},
                                !.unseen = IF run.blind THEN @ \cup {i} ELSE @]
  <2>1. past'.skipped = past.skipped \cup {i}
    BY <1>1, <1>4 DEF PastStates
  <2>2. CASE ~run.blind
    <3>1. past'.unseen = past.unseen
      BY <1>1, <1>4, <2>2 DEF PastStates
    <3>2. Abstract!Store
      BY <1>1, <1>2, <3>1, StoreRefines
    <3> QED BY <3>2 DEF Abstract!Next
  <2>3. CASE run.blind
    <3>1. past'.unseen = past.unseen \cup {i}
      BY <1>1, <1>4, <2>3 DEF PastStates
    <3>5. AbstractCopied' \in {AbstractCopied, AbstractCopied \cup {i}}
      BY <1>1, <2>1, SkippedCopied
    <3>6. Abstract!PassBlindly
      BY <1>1, <1>2, <2>3, <3>1, <3>5 DEF Abstract!PassBlindly, AbstractCopied
    <3> QED BY <3>6 DEF Abstract!Next
  <2> QED BY <2>2, <2>3
<1> QED BY <1>3, <1>4 DEF Plan

LEMMA NextRefines == Inv /\ Inv' /\ [Next]_vars => [Abstract!Next]_(Abstract!vars)
<1> SUFFICES ASSUME Inv, Inv', [Next]_vars
             PROVE  Abstract!Next \/ UNCHANGED Abstract!vars
  OBVIOUS
<1>0. run \in RunStates /\ past \in PastStates
  BY DEF Inv, TypeOK
<1>1. CASE Begin
  <2>1. /\ job.status \in {"queued", "failed"} /\ job'.status = "running"
        /\ job'.next = job.next /\ run'.blind = FALSE /\ UNCHANGED <<base, past, stored>>
    BY <1>1 DEF Begin, Inv, TypeOK, JobStates, NoRun
  <2>2. run.blind = FALSE
    BY <2>1 DEF Inv, TypeOK, RunStates, Phases, Starting
  <2>3. AbstractCopied' = AbstractCopied
    BY <2>1, QuietCopied
  <2>4. Abstract!Start
    BY <2>1, <2>2, <2>3 DEF Abstract!Start, AbstractCopied
  <2> QED BY <2>4 DEF Abstract!Next
<1>2. CASE Create \/ List
  <2>0. run.pc # "idle" /\ UNCHANGED <<base, past, stored>>
    BY <1>2 DEF Create, List
  <2>1. CASE End("failed")
    <3>1. Abstract!Stop
      BY <2>0, <2>1, StopRefines
    <3> QED BY <3>1 DEF Abstract!Next
  <2>2. CASE ~End("failed")
    <3>1. job'.status = job.status /\ job'.next = job.next
      BY <1>2, <2>2 DEF Create, List, Inv, TypeOK, JobStates
    <3>2. run'.blind = run.blind
      BY <1>0, <1>2, <2>2 DEF Create, List, RunStates
    <3> QED BY <2>0, <3>1, <3>2, StutterRefines
  <2> QED BY <2>1, <2>2
<1>3. CASE Load \/ Seed
  BY <1>3, LoadRefines, SeedRefines
<1>4. CASE SeedPut
  <2>1. run'.blind = run.blind
    BY <1>0, <1>4 DEF SeedPut, RunStates
  <2> QED BY <1>4, <2>1, StoreRefines DEF SeedPut, Abstract!Next
<1>5. CASE Finish \/ FinalPut
  <2>0. run.pc # "idle" /\ UNCHANGED <<base, past>>
    BY <1>5 DEF Finish, FinalPut
  <2>1. CASE End("failed") /\ UNCHANGED stored
    <3>1. Abstract!Stop
      BY <2>0, <2>1, StopRefines
    <3> QED BY <3>1 DEF Abstract!Next
  <2>2. CASE UNCHANGED job /\ \E pc \in {"final", "finalput"} : run' = [run EXCEPT !.pc = pc]
    <3>1. run'.blind = run.blind
      BY <1>0, <2>2 DEF RunStates
    <3> QED BY <2>0, <2>2, <3>1, StoreRefines DEF Abstract!Next
  <2> QED BY <1>5, <2>1, <2>2 DEF Finish, FinalPut
<1>6. CASE FinalAnswer
  <2>0. run.pc # "idle" /\ UNCHANGED <<base, past, stored>>
    BY <1>6 DEF FinalAnswer
  <2>1. CASE End("failed")
    <3>1. Abstract!Stop
      BY <2>0, <2>1, StopRefines
    <3> QED BY <3>1 DEF Abstract!Next
  <2>2. CASE End("done")
    <3>1. /\ job.status = "running" /\ job'.status = "done" /\ job'.next = job.next
          /\ job.next = Files + 1 /\ run'.blind = FALSE
      BY <1>6, <2>2 DEF FinalAnswer, End, NoRun, Inv, Phases, Ending, TypeOK, JobStates
    <3>2. AbstractCopied' = AbstractCopied
      BY <2>0, QuietCopied
    <3>3. Abstract!Finish
      BY <2>0, <3>1, <3>2 DEF Abstract!Finish, AbstractCopied
    <3> QED BY <3>3 DEF Abstract!Next
  <2> QED BY <1>6, <2>1, <2>2 DEF FinalAnswer
<1>7. CASE Cancel \/ ChangePolicy \/ UNCHANGED vars
  <2>1. run'.blind = run.blind /\ UNCHANGED <<base, job, stored>>
    BY <1>0, <1>7 DEF Cancel, ChangePolicy, vars, RunStates
  <2>2. past'.skipped = past.skipped /\ past'.unseen = past.unseen
    BY <1>0, <1>7 DEF Cancel, ChangePolicy, vars, PastStates
  <2> QED BY <2>1, <2>2, StutterRefines
<1>8. CASE Restart
  <2>1. run.pc # "idle"
    BY <1>8 DEF Restart, Running, Inv, Phases
  <2>2. Abstract!Stop
    BY <1>8, <2>1, StopRefines DEF Restart
  <2> QED BY <2>2 DEF Abstract!Next
<1>9. ASSUME NEW w \in Workers, Work(w) PROVE Abstract!Next \/ UNCHANGED Abstract!vars
  <2>1. worker[w].i \in 1..Files
    BY DEF Inv, TypeOK, WorkerStates
  <2>2. CASE Pick(w) \/ Copy(w) \/ Commit(w) \/ PutFailed(w)
    <3>1. UNCHANGED <<base, past, job, stored>>
      BY <2>2 DEF Pick, Copy, Commit, PutFailed
    <3>2. run'.blind = run.blind
      BY <1>0, <2>2 DEF Pick, Copy, Commit, PutFailed, Fail, RunStates
    <3> QED BY <3>1, <3>2, StutterRefines
  <2>3. CASE Skip(w) \/ PutAnswered(w)
    <3>1. run.pc = "copy" /\ Mark(worker[w].i) /\ UNCHANGED <<base, past, stored>>
      BY <2>3, Working DEF Skip, PutAnswered
    <3> QED BY <2>1, <3>1, MarkRefines DEF Abstract!Next
  <2>4. CASE PutApplied(w)
    BY <2>4, StoreRefines, Working DEF PutApplied, Abstract!Next
  <2> QED BY <1>9, <2>2, <2>3, <2>4, PlanRefines DEF Work
<1> QED BY <1>1, <1>2, <1>3, <1>4, <1>5, <1>6, <1>7, <1>8, <1>9 DEF Next, Steps

(* The job implements the resumable copy. *)
THEOREM Refinement == Spec => Implements
<1>1. Inv /\ Inv' /\ [Next]_vars => [Abstract!Next]_(Abstract!vars)
  BY NextRefines
<1> QED BY InitRefines, Inductive, <1>1, PTL DEF Spec, Implements, Abstract!Spec

(* What the abstract specification promises: nothing a resume skips is      *)
(* missing, and a done job lacks no file, but for the files that blind runs *)
(* have passed over.                                                        *)
THEOREM PromiseKept == Spec => []Abstract!Promise
<1>1. Inv => Abstract!Promise
  <2> SUFFICES ASSUME Inv PROVE Abstract!Promise
    OBVIOUS
  <2>1. (1..job.next - 1) \ past.unseen \subseteq AbstractCopied
    BY CountedCopied DEF CountedAreCopied
  <2>2. job.status = "done" => (1..Files) \ past.unseen \subseteq AbstractCopied
    <3>1. job.status = "done" => job.next = Files + 1
      BY DEF Inv, Ending
    <3> QED BY <2>1, <3>1, FilesAssumption
  <2> QED BY <2>1, <2>2 DEF Abstract!Promise, AbstractCopied
<1> QED BY Inductive, <1>1, PTL
=============================================================================
