------------------------ MODULE RestoreFolder_proofs ------------------------
(***************************************************************************)
(* The safety properties of restores into one folder, for any number of    *)
(* runs, workers, files and renamings.                                     *)
(***************************************************************************)
EXTENDS RestoreFolder, FiniteSetTheorems, TLAPS

USE FilesAssumption, RenamesAssumption, WorkersAssumption, PlansAssumption, NoneAssumption

-----------------------------------------------------------------------------
(* Types, and what the state of the command says of its workers.            *)

Shape ==
  \A r \in Restores :
    /\ job[r].pc # "idle" => job[r].req \in Request
    /\ job[r].result = "ok" => job[r].req \in Request /\ job[r].pc \in {"join", "idle"}
    /\ job[r].pc \in {"idle", "load"} => \A w \in Workers : worker[r][w].pc = "off"
    /\ \A w \in Workers : worker[r][w].pc # "off" => w \in job[r].req.workers
    /\ \A w \in Workers : worker[r][w].pc \in {"place", "begin", "write"} =>
         worker[r][w].file \in FilesOf(r)
    /\ \A w \in Workers : worker[r][w].pc = "send" => worker[r][w].msg \in {"ok", "err"}

Types == TypeOK /\ Shape

(* What an assignment to some fields of a record keeps. *)
LEMMA JobGoes ==
  ASSUME NEW x \in JobState, NEW p \in {"idle", "load", "run", "join"}
  PROVE  LET y == [x EXCEPT !.pc = p]
         IN  y \in JobState /\ y.pc = p /\ y.req = x.req /\ y.result = x.result /\ y.done = x.done
BY DEF JobState

LEMMA OffTyped == Off \in WorkerState /\ Off.pc = "off"
BY DEF Off, WorkerState

LEMMA TakeTyped == [Off EXCEPT !.pc = "take"] \in WorkerState /\ [Off EXCEPT !.pc = "take"].pc = "take"
BY DEF Off, WorkerState

LEMMA InitTypes == Init => Types
<1> SUFFICES ASSUME Init PROVE Types
  OBVIOUS
<1>1. TypeOK
  BY DEF Init, TypeOK, Idle, Off, Absent, JobState, WorkerState
<1>2. Shape
  BY DEF Init, Shape, Idle, Off
<1> QED BY <1>1, <1>2 DEF Types

(* One worker changes. *)
LEMMA SetWorkerTyped ==
  ASSUME TypeOK, NEW r \in Restores, NEW w \in Workers, NEW new \in WorkerState,
         SetWorker(r, w, new)
  PROVE  /\ worker' \in [Restores -> [Workers -> WorkerState]]
         /\ worker'[r][w] = new
         /\ \A v \in Workers : v # w => worker'[r][v] = worker[r][v]
         /\ \A q \in Restores : q # r => worker'[q] = worker[q]
BY DEF TypeOK, SetWorker

(* A step of one worker keeps the shape of its run, and of all others.      *)
LEMMA WorkerShape ==
  ASSUME Types, NEW r \in Restores, NEW w \in Workers, NEW new \in WorkerState,
         SetWorker(r, w, new), UNCHANGED job,
         worker[r][w].pc # "off",
         new.pc \in {"place", "begin", "write"} => new.file \in FilesOf(r),
         new.pc = "send" => new.msg \in {"ok", "err"}
  PROVE  Shape'
<1>1. /\ worker'[r][w] = new
      /\ \A v \in Workers : v # w => worker'[r][v] = worker[r][v]
      /\ \A q \in Restores : q # r => worker'[q] = worker[q]
  BY SetWorkerTyped DEF Types
<1>2. \A q \in Restores : FilesOf(q)' = FilesOf(q)
  BY DEF FilesOf
<1> QED BY <1>1, <1>2 DEF Types, Shape

LEMMA StartTypes == ASSUME Types, NEW r \in Restores, Start(r) PROVE Types'
<1>1. PICK q \in plan[r] :
        /\ job' = [job EXCEPT ![r] = [pc |-> "load", req |-> q, done |-> 0, result |-> None]]
        /\ cancel' = [cancel EXCEPT ![q.snap] = r]
  BY DEF Start
<1>2. q \in Request
  BY PlansAssumption DEF Types, TypeOK
<1>3. job' \in [Restores -> JobState] /\ cancel' \in [Snapshots -> Restores \cup {None}]
  BY <1>1, <1>2 DEF Types, TypeOK, JobState, Request
<1>4. TypeOK'
  BY <1>3 DEF Types, TypeOK, Start
<1>5. Shape'
  <2>1. job'[r].pc = "load" /\ job'[r].req = q /\ job'[r].result = None
    BY <1>1 DEF Types, TypeOK
  <2>2. \A o \in Restores : o # r => job'[o] = job[o]
    BY <1>1 DEF Types, TypeOK
  <2>3. worker' = worker /\ \A w \in Workers : worker[r][w].pc = "off"
    BY DEF Start, Types, Shape
  <2>4. \A o \in Restores : o # r => FilesOf(o)' = FilesOf(o)
    BY <2>2 DEF FilesOf
  <2> QED BY <1>2, <2>1, <2>2, <2>3, <2>4 DEF Types, Shape
<1> QED BY <1>4, <1>5 DEF Types

LEMMA EndTyped ==
  ASSUME Types, NEW r \in Restores, NEW s \in {"ok", "err", "cancelled", None}, End(r, s),
         job[r].pc # "idle"
  PROVE  /\ job' \in [Restores -> JobState] /\ cancel' \in [Snapshots -> Restores \cup {None}]
         /\ job'[r].pc = "idle" /\ job'[r].req = job[r].req /\ job'[r].result = s
         /\ job'[r].done = job[r].done
         /\ \A q \in Restores : q # r => job'[q] = job[q]
<1>1. job[r].req.snap \in Snapshots
  BY DEF Types, Shape, Request
<1>2. job \in [Restores -> JobState] /\ job[r] \in JobState
  BY DEF Types, TypeOK
<1>3. job' = [job EXCEPT ![r] = [job[r] EXCEPT !.pc = "idle", !.result = s]]
  BY <1>2 DEF End
<1>4. cancel' \in [Snapshots -> Restores \cup {None}]
  BY <1>1 DEF Types, TypeOK, End
<1> DEFINE new == [job[r] EXCEPT !.pc = "idle", !.result = s]
<1>5. /\ new \in JobState /\ new.pc = "idle" /\ new.req = job[r].req /\ new.result = s
      /\ new.done = job[r].done
  BY <1>2 DEF JobState
<1> HIDE DEF new
<1>6. job' = [job EXCEPT ![r] = new]
  BY <1>3 DEF new
<1>7. job'[r] = new /\ job' \in [Restores -> JobState] /\ \A q \in Restores : q # r => job'[q] = job[q]
  BY <1>2, <1>5, <1>6
<1> QED BY <1>4, <1>5, <1>7

LEMMA LoadTypes == ASSUME Types, NEW r \in Restores, Load(r) PROVE Types'
<1>0. job[r].pc = "load" /\ \A w \in Workers : worker[r][w].pc = "off"
  BY DEF Load, Types, Shape
<1>1. CASE End(r, "err") /\ UNCHANGED <<next, worker, queue>>
  <2>1. /\ job' \in [Restores -> JobState] /\ cancel' \in [Snapshots -> Restores \cup {None}]
        /\ job'[r].pc = "idle" /\ job'[r].req = job[r].req /\ job'[r].result = "err"
        /\ \A q \in Restores : q # r => job'[q] = job[q]
    BY <1>0, <1>1, EndTyped
  <2>2. TypeOK'
    BY <1>1, <2>1 DEF Load, Types, TypeOK
  <2>3. \A q \in Restores : FilesOf(q)' = FilesOf(q)
    BY <2>1 DEF FilesOf
  <2>4. Shape'
    BY <1>0, <1>1, <2>1, <2>3 DEF Types, Shape
  <2> QED BY <2>2, <2>4 DEF Types
<1>2. CASE /\ job' = [job EXCEPT ![r].pc = "run"]
           /\ next' = [next EXCEPT ![r] = 1]
           /\ queue' = [queue EXCEPT ![r] = <<>>]
           /\ worker' = [worker EXCEPT ![r] =
                [w \in Workers |-> IF w \in job[r].req.workers THEN [Off EXCEPT !.pc = "take"] ELSE Off]]
           /\ UNCHANGED cancel
  <2>1. /\ job' \in [Restores -> JobState]
        /\ job'[r].pc = "run" /\ job'[r].req = job[r].req /\ job'[r].result = job[r].result
        /\ \A q \in Restores : q # r => job'[q] = job[q]
    <3>1. job \in [Restores -> JobState] /\ job[r] \in JobState
      BY DEF Types, TypeOK
    <3>2. job' = [job EXCEPT ![r] = [job[r] EXCEPT !.pc = "run"]]
      BY <1>2, <3>1
    <3> QED BY <3>1, <3>2, JobGoes
  <2>2. /\ worker' \in [Restores -> [Workers -> WorkerState]]
        /\ \A w \in Workers : /\ worker'[r][w].pc \in {"off", "take"}
                              /\ worker'[r][w].pc = "take" => w \in job[r].req.workers
        /\ \A q \in Restores : q # r => worker'[q] = worker[q]
    BY <1>2, OffTyped, TakeTyped DEF Types, TypeOK
  <2>3. next' \in [Restores -> Nat \ {0}] /\ queue' \in [Restores -> Seq({"ok", "err"})]
    BY <1>2 DEF Types, TypeOK
  <2>4. TypeOK'
    BY <1>2, <2>1, <2>2, <2>3 DEF Load, Types, TypeOK
  <2>5. \A q \in Restores : FilesOf(q)' = FilesOf(q)
    BY <2>1 DEF FilesOf
  <2>6. Shape'
    <3>1. job[r].result # "ok" /\ job[r].req \in Request
      BY <1>0 DEF Types, Shape
    <3>2. \A w \in Workers : worker'[r][w].pc \notin {"place", "begin", "write", "send"}
      BY <2>2
    <3> QED BY <2>1, <2>2, <2>5, <3>1, <3>2 DEF Types, Shape
  <2> QED BY <2>4, <2>6 DEF Types
<1> QED BY <1>1, <1>2 DEF Load

(* A step of the command in "run" keeps the shape. *)
LEMMA CommandShape ==
  ASSUME Types, NEW r \in Restores, job[r].pc = "run", UNCHANGED worker,
         job'[r].req = job[r].req, job'[r].pc \in {"run", "join"},
         job'[r].result = "ok" => job'[r].pc = "join" \/ job'[r].result = job[r].result,
         \A q \in Restores : q # r => job'[q] = job[q]
  PROVE  Shape'
<1>1. \A q \in Restores : FilesOf(q)' = FilesOf(q)
  BY DEF FilesOf
<1> QED BY <1>1 DEF Types, Shape

LEMMA ReceiveTypes == ASSUME Types, NEW r \in Restores, Receive(r) PROVE Types'
<1>0. /\ job[r].pc = "run" /\ queue[r] # <<>> /\ queue[r] \in Seq({"ok", "err"})
      /\ queue' = [queue EXCEPT ![r] = Tail(@)]
      /\ UNCHANGED <<plan, cancel, next, worker, disk, alone, extra>>
  BY DEF Receive, Types, TypeOK
<1>1. queue' \in [Restores -> Seq({"ok", "err"})]
  BY <1>0 DEF Types, TypeOK
<1>2. PICK new \in JobState : job' = [job EXCEPT ![r] = new] /\ new.req = job[r].req
        /\ new.pc \in {"run", "join"} /\ (new.result = "ok" => new.result = job[r].result)
  <2>0. job \in [Restores -> JobState] /\ job[r] \in JobState
    BY DEF Types, TypeOK
  <2>1. ASSUME NEW m \in {"cancelled", "err"},
               job' = [job EXCEPT ![r].pc = "join", ![r].result = m]
        PROVE  \E new \in JobState : /\ job' = [job EXCEPT ![r] = new] /\ new.req = job[r].req
                 /\ new.pc \in {"run", "join"} /\ new.result = m
    <3> DEFINE y == [job[r] EXCEPT !.pc = "join", !.result = m]
    <3>1. y \in JobState /\ y.pc = "join" /\ y.req = job[r].req /\ y.result = m
      BY <2>0 DEF JobState
    <3>2. job' = [job EXCEPT ![r] = y]
      BY <2>0, <2>1
    <3> QED BY <3>1, <3>2
  <2>2. CASE job' = [job EXCEPT ![r].done = @ + 1]
    <3> DEFINE y == [job[r] EXCEPT !.done = @ + 1]
    <3>1. y \in JobState /\ y.pc = job[r].pc /\ y.req = job[r].req /\ y.result = job[r].result
      BY <2>0 DEF JobState
    <3>2. job' = [job EXCEPT ![r] = y]
      BY <2>0, <2>2
    <3> QED BY <1>0, <3>1, <3>2
  <2>3. \/ \E m \in {"cancelled", "err"} : job' = [job EXCEPT ![r].pc = "join", ![r].result = m]
        \/ job' = [job EXCEPT ![r].done = @ + 1]
    BY DEF Receive
  <2> QED BY <2>1, <2>2, <2>3
<1>3. job' \in [Restores -> JobState] /\ job'[r] = new /\ \A q \in Restores : q # r => job'[q] = job[q]
  BY <1>2 DEF Types, TypeOK
<1>4. flag' \in [Restores -> BOOLEAN]
  BY DEF Receive, Types, TypeOK
<1>5. TypeOK'
  BY <1>0, <1>1, <1>3, <1>4 DEF Types, TypeOK
<1>6. Shape'
  BY <1>0, <1>2, <1>3, CommandShape
<1> QED BY <1>5, <1>6 DEF Types

LEMMA ClosedTypes == ASSUME Types, NEW r \in Restores, Closed(r) PROVE Types'
<1>1. /\ job' \in [Restores -> JobState]
      /\ job'[r].pc = "join" /\ job'[r].req = job[r].req
      /\ \A q \in Restores : q # r => job'[q] = job[q]
  <2>1. job \in [Restores -> JobState] /\ job[r] \in JobState
    BY DEF Types, TypeOK
  <2>2. PICK s \in {"cancelled", "ok"} : job' = [job EXCEPT ![r].pc = "join", ![r].result = s]
    BY DEF Closed
  <2> DEFINE y == [job[r] EXCEPT !.pc = "join", !.result = s]
  <2>3. y \in JobState /\ y.pc = "join" /\ y.req = job[r].req
    BY <2>1 DEF JobState
  <2>4. job' = [job EXCEPT ![r] = y]
    BY <2>1, <2>2
  <2> HIDE DEF y
  <2> QED BY <2>1, <2>3, <2>4
<1>2. TypeOK'
  BY <1>1 DEF Closed, Types, TypeOK
<1>3. Shape'
  BY <1>1, CommandShape DEF Closed
<1> QED BY <1>2, <1>3 DEF Types

LEMMA JoinTypes == ASSUME Types, NEW r \in Restores, Join(r) PROVE Types'
<1>0. /\ job[r].pc = "join" /\ End(r, job[r].result)
      /\ \A w \in Workers : worker[r][w].pc = "off"
      /\ job[r].result \in {"ok", "err", "cancelled", None}
  BY DEF Join, Done, Types, TypeOK, JobState
<1>1. /\ job' \in [Restores -> JobState] /\ cancel' \in [Snapshots -> Restores \cup {None}]
      /\ job'[r].pc = "idle" /\ job'[r].req = job[r].req /\ job'[r].result = job[r].result
      /\ \A q \in Restores : q # r => job'[q] = job[q]
  BY <1>0, EndTyped
<1>2. TypeOK'
  BY <1>1 DEF Join, Types, TypeOK
<1>3. \A q \in Restores : FilesOf(q)' = FilesOf(q)
  BY <1>1 DEF FilesOf
<1>4. Shape'
  BY <1>0, <1>1, <1>3 DEF Join, Types, Shape
<1> QED BY <1>2, <1>4 DEF Types

LEMMA CancelTypes == ASSUME Types, NEW s \in Snapshots, Cancel(s) PROVE Types'
<1>1. \A q \in Restores : FilesOf(q)' = FilesOf(q)
  BY DEF FilesOf, Cancel
<1>2. Shape'
  BY <1>1 DEF Types, Shape, Cancel
<1>3. flag' \in [Restores -> BOOLEAN]
  BY DEF Types, TypeOK, Cancel
<1> QED BY <1>2, <1>3 DEF Types, TypeOK, Cancel

LEMMA TakeTypes == ASSUME Types, NEW r \in Restores, NEW w \in Workers, Take(r, w) PROVE Types'
<1>0. /\ UNCHANGED <<plan, cancel, flag, job, queue, disk, alone, extra>>
      /\ worker[r][w].pc = "take" /\ job[r].req \in Request
  BY DEF Take, Types, Shape
<1>1. PICK new \in WorkerState :
        /\ SetWorker(r, w, new) /\ next' \in [Restores -> Nat \ {0}]
        /\ new.pc \in {"place", "begin", "write"} => new.file \in FilesOf(r)
        /\ new.pc # "send"
  <2>1. CASE SetWorker(r, w, Off) /\ UNCHANGED next
    BY <2>1, OffTyped DEF Types, TypeOK
  <2>2. CASE /\ next[r] \in FilesOf(r)
             /\ SetWorker(r, w, [pc |-> "place", file |-> next[r], slot |-> 0, msg |-> None])
             /\ next' = [next EXCEPT ![r] = @ + 1]
    <3>1. next[r] \in Paths
      BY <1>0, <2>2 DEF FilesOf, Paths, Request
    <3>2. next' \in [Restores -> Nat \ {0}]
      BY <2>2 DEF Types, TypeOK
    <3>3. [pc |-> "place", file |-> next[r], slot |-> 0, msg |-> None] \in WorkerState
      BY <3>1 DEF WorkerState
    <3> QED BY <2>2, <3>2, <3>3
  <2> QED BY <2>1, <2>2 DEF Take
<1>2. Shape'
  BY <1>0, <1>1, WorkerShape
<1>3. TypeOK'
  BY <1>0, <1>1, SetWorkerTyped DEF Types, TypeOK
<1> QED BY <1>2, <1>3 DEF Types

LEMMA PlaceTypes == ASSUME Types, NEW r \in Restores, NEW w \in Workers, Place(r, w) PROVE Types'
<1>0. /\ UNCHANGED <<plan, cancel, flag, job, next, queue, disk, alone, extra>>
      /\ worker[r][w].pc = "place" /\ worker[r][w].file \in FilesOf(r)
  BY DEF Place, Types, Shape
<1>1. PICK new \in WorkerState :
        /\ SetWorker(r, w, new)
        /\ new.pc \in {"place", "begin", "write"} => new.file \in FilesOf(r)
        /\ new.pc = "send" => new.msg \in {"ok", "err"}
  <2>1. ASSUME NEW m \in {"ok", "err"}, Report(r, w, m)
        PROVE  \E new \in WorkerState : SetWorker(r, w, new) /\ new.pc = "send" /\ new.msg = m
    <3> DEFINE y == [worker[r][w] EXCEPT !.pc = "send", !.msg = m]
    <3>1. y \in WorkerState /\ y.pc = "send" /\ y.msg = m
      <4>1. worker[r][w] \in WorkerState
        BY DEF Types, TypeOK
      <4> QED BY <4>1 DEF WorkerState
    <3> QED BY <2>1, <3>1 DEF Report
  <2>2. ASSUME SetWorker(r, w, Off)
        PROVE  \E new \in WorkerState : SetWorker(r, w, new) /\ new.pc = "off"
    BY <2>2, OffTyped
  <2>3. ASSUME NEW k \in 0..Renames, SetWorker(r, w, [worker[r][w] EXCEPT !.pc = "begin", !.slot = k])
        PROVE  \E new \in WorkerState : SetWorker(r, w, new) /\ new.pc = "begin"
                                        /\ new.file = worker[r][w].file
    <3> DEFINE y == [worker[r][w] EXCEPT !.pc = "begin", !.slot = k]
    <3>1. y \in WorkerState /\ y.pc = "begin" /\ y.file = worker[r][w].file
      <4>1. worker[r][w] \in WorkerState
        BY DEF Types, TypeOK
      <4> QED BY <4>1 DEF WorkerState
    <3> QED BY <2>3, <3>1
  <2>4. \/ \E m \in {"ok", "err"} : Report(r, w, m)
        \/ SetWorker(r, w, Off)
        \/ \E k \in 0..Renames : SetWorker(r, w, [worker[r][w] EXCEPT !.pc = "begin", !.slot = k])
    <3>1. 0 \in 0..Renames /\ \A k \in 1..Renames : k \in 0..Renames
      BY RenamesAssumption
    <3> QED BY <3>1 DEF Place, Free
  <2> QED BY <1>0, <2>1, <2>2, <2>3, <2>4
<1>2. Shape'
  BY <1>0, <1>1, WorkerShape
<1>3. TypeOK'
  BY <1>0, <1>1, SetWorkerTyped DEF Types, TypeOK
<1> QED BY <1>2, <1>3 DEF Types

LEMMA BeginTypes == ASSUME Types, NEW r \in Restores, NEW w \in Workers, Begin(r, w) PROVE Types'
<1>0. /\ UNCHANGED <<plan, cancel, flag, job, next, queue, alone>>
      /\ worker[r][w].pc = "begin" /\ worker[r][w].file \in FilesOf(r)
      /\ worker[r][w] \in WorkerState
  BY DEF Begin, Types, TypeOK, Shape
<1>1. CASE Report(r, w, "err") /\ UNCHANGED <<disk, extra>>
  <2> DEFINE y == [worker[r][w] EXCEPT !.pc = "send", !.msg = "err"]
  <2>1. y \in WorkerState /\ y.pc = "send" /\ y.msg = "err"
    BY <1>0 DEF WorkerState
  <2>2. SetWorker(r, w, y)
    BY <1>1 DEF Report
  <2> HIDE DEF y
  <2>3. Shape'
    BY <1>0, <2>1, <2>2, WorkerShape
  <2>4. TypeOK'
    BY <1>0, <1>1, <2>1, <2>2, SetWorkerTyped DEF Types, TypeOK
  <2> QED BY <2>3, <2>4 DEF Types
<1>2. CASE /\ disk' = [disk EXCEPT ![worker[r][w].file][worker[r][w].slot] =
                          [st |-> "partial", by |-> r]]
           /\ SetWorker(r, w, [worker[r][w] EXCEPT !.pc = "write"])
           /\ extra' = [extra EXCEPT ![r][w] = IF flag[r] THEN @ + 1 ELSE @]
  <2> DEFINE y == [worker[r][w] EXCEPT !.pc = "write"]
  <2>1. y \in WorkerState /\ y.pc = "write" /\ y.file = worker[r][w].file
    BY <1>0 DEF WorkerState
  <2>2. SetWorker(r, w, y)
    BY <1>2
  <2> HIDE DEF y
  <2>3. Shape'
    BY <1>0, <2>1, <2>2, WorkerShape
  <2>4. worker' \in [Restores -> [Workers -> WorkerState]]
    BY <2>1, <2>2, SetWorkerTyped DEF Types
  <2>5. disk' \in [Paths -> [0..Renames -> [st: {"absent", "partial", "whole"},
                                        by: Restores \cup {None}]]]
    BY <1>2 DEF Types, TypeOK
  <2>6. extra' \in [Restores -> [Workers -> Nat]]
    BY <1>2 DEF Types, TypeOK
  <2>7. TypeOK'
    BY <1>0, <2>4, <2>5, <2>6 DEF Types, TypeOK
  <2> QED BY <2>3, <2>7 DEF Types
<1> QED BY <1>1, <1>2 DEF Begin

(* A worker at a file belongs to a run that is still going. *)
LEMMA AtFile ==
  ASSUME Types, NEW r \in Restores, NEW w \in Workers,
         worker[r][w].pc \in {"place", "begin", "write"}
  PROVE  /\ job[r].pc \in {"run", "join"} /\ job[r].req \in Request
         /\ worker[r][w].file \in FilesOf(r) /\ worker[r][w].file \in Paths
         /\ worker[r][w].slot \in 0..Renames
<1>1. job[r].pc \in {"run", "join"} /\ job[r].req \in Request /\ worker[r][w].file \in FilesOf(r)
  BY DEF Types, TypeOK, JobState, Shape
<1>2. worker[r][w].file \in Paths
  BY <1>1 DEF FilesOf, Paths, Request
<1>3. worker[r][w].slot \in 0..Renames
  BY DEF Types, TypeOK, WorkerState
<1> QED BY <1>1, <1>2, <1>3

FileState == [st: {"absent", "partial", "whole"}, by: Restores \cup {None}]

LEMMA WriteTypes == ASSUME Types, NEW r \in Restores, NEW w \in Workers, Write(r, w) PROVE Types'
<1>0. /\ UNCHANGED <<plan, cancel, flag, job, next, queue, alone, extra>>
      /\ worker[r][w].pc = "write" /\ worker[r][w] \in WorkerState
  BY DEF Write, Types, TypeOK
<1>1. PICK m \in {"ok", "err"} : Report(r, w, m)
  BY DEF Write
<1> DEFINE y == [worker[r][w] EXCEPT !.pc = "send", !.msg = m]
<1>2. y \in WorkerState /\ y.pc = "send" /\ y.msg = m
  BY <1>0 DEF WorkerState
<1>3. SetWorker(r, w, y)
  BY <1>1 DEF Report
<1> HIDE DEF y
<1>4. Shape'
  BY <1>0, <1>2, <1>3, WorkerShape
<1>5. worker' \in [Restores -> [Workers -> WorkerState]]
  BY <1>2, <1>3, SetWorkerTyped DEF Types
<1>6. disk' \in [Paths -> [0..Renames -> [st: {"absent", "partial", "whole"},
                                      by: Restores \cup {None}]]]
  <2>1. CASE UNCHANGED disk
    BY <2>1 DEF Types, TypeOK
  <2>2. ASSUME NEW s \in {"whole", "partial"},
               disk' = [disk EXCEPT ![worker[r][w].file][worker[r][w].slot].st = s]
        PROVE  disk' \in [Paths -> [0..Renames -> [st: {"absent", "partial", "whole"},
                                               by: Restores \cup {None}]]]
    <3> DEFINE f == worker[r][w].file
               k == worker[r][w].slot
               d == [disk[f][k] EXCEPT !.st = s]
    <3>1. f \in Paths /\ k \in 0..Renames
      BY <1>0, AtFile
    <3>2. disk \in [Paths -> [0..Renames -> FileState]]
      BY DEF Types, TypeOK, FileState
    <3>3. disk[f][k] \in FileState
      BY <3>1, <3>2
    <3>4. d \in FileState
      BY <3>3 DEF FileState
    <3>5. disk' = [disk EXCEPT ![f][k] = d]
      BY <2>2, <3>1, <3>2
    <3> HIDE DEF d
    <3> QED BY <3>1, <3>2, <3>4, <3>5 DEF FileState
  <2> QED BY <2>1, <2>2 DEF Write
<1>7. TypeOK'
  BY <1>0, <1>5, <1>6 DEF Types, TypeOK
<1> QED BY <1>4, <1>7 DEF Types

LEMMA SendTypes == ASSUME Types, NEW r \in Restores, NEW w \in Workers, Send(r, w) PROVE Types'
<1>0. /\ UNCHANGED <<plan, cancel, flag, job, next, disk, alone, extra>>
      /\ worker[r][w].pc = "send" /\ worker[r][w].msg \in {"ok", "err"}
      /\ queue[r] \in Seq({"ok", "err"})
      /\ queue' = [queue EXCEPT ![r] = Append(@, worker[r][w].msg)]
  BY DEF Send, Types, TypeOK, Shape
<1>1. PICK y \in WorkerState : SetWorker(r, w, y) /\ y.pc \in {"off", "take"}
  BY OffTyped, TakeTyped DEF Send
<1>2. Shape'
  BY <1>0, <1>1, WorkerShape
<1>3. queue' \in [Restores -> Seq({"ok", "err"})]
  BY <1>0 DEF Types, TypeOK
<1>4. TypeOK'
  BY <1>0, <1>1, <1>3, SetWorkerTyped DEF Types, TypeOK
<1> QED BY <1>2, <1>4 DEF Types

LEMMA NextTypes == Types /\ [Next]_vars => Types'
<1> SUFFICES ASSUME Types, [Next]_vars PROVE Types'
  OBVIOUS
<1>1. ASSUME NEW r \in Restores, Start(r) \/ Command(r) PROVE Types'
  BY <1>1, StartTypes, LoadTypes, ReceiveTypes, ClosedTypes, JoinTypes DEF Command
<1>2. ASSUME NEW r \in Restores, NEW w \in Workers, Work(r, w) PROVE Types'
  BY <1>2, TakeTypes, PlaceTypes, BeginTypes, WriteTypes, SendTypes DEF Work
<1>3. CASE UNCHANGED vars
  BY <1>3 DEF vars, Types, TypeOK, Shape, FilesOf
<1> QED BY <1>1, <1>2, <1>3, CancelTypes DEF Next

LEMMA AlwaysTypes == Spec => []Types
BY InitTypes, NextTypes, PTL DEF Spec

(* Every variable keeps its type. *)
THEOREM TypeCorrect == Spec => []TypeOK
<1>1. Types => TypeOK
  BY DEF Types
<1> QED BY AlwaysTypes, <1>1, PTL

-----------------------------------------------------------------------------
(* What one step does to its worker, and to the record of the command.      *)

Leaves(r, w, new) ==
  /\ new.pc = "off"
  /\ \/ worker[r][w].pc = "take" /\ (flag[r] \/ next[r] \notin FilesOf(r))
     \/ worker[r][w].pc = "place" /\ flag[r]
  /\ UNCHANGED <<next, queue, disk, extra>>

Takes(r, w, new) ==
  /\ worker[r][w].pc = "take" /\ ~flag[r] /\ next[r] \in FilesOf(r)
  /\ new.pc = "place" /\ new.file = next[r]
  /\ next' = [next EXCEPT ![r] = @ + 1]
  /\ UNCHANGED <<queue, disk, extra>>

Places(r, w, new) ==
  /\ worker[r][w].pc = "place" /\ ~flag[r]
  /\ new.pc = "begin" /\ new.file = worker[r][w].file
  /\ job[r].req.policy # "overwrite" => disk[new.file][new.slot] = Absent
  /\ UNCHANGED <<next, queue, disk, extra>>

Reports(r, w, new) ==
  /\ new.pc = "send"
  /\ \/ worker[r][w].pc \in {"place", "begin", "write"} /\ new.msg = "err"
     \/ worker[r][w].pc = "place" /\ job[r].req.policy = "skip" /\ new.msg = "ok"
  /\ UNCHANGED <<next, queue, disk, extra>>

Begins(r, w, new) ==
  /\ worker[r][w].pc = "begin" /\ new.pc = "write"
  /\ new.file = worker[r][w].file /\ new.slot = worker[r][w].slot
  /\ disk' = [disk EXCEPT ![new.file][new.slot] = [st |-> "partial", by |-> r]]
  /\ extra' = [extra EXCEPT ![r][w] = IF flag[r] THEN @ + 1 ELSE @]
  /\ UNCHANGED <<next, queue>>

Writes(r, w, new) ==
  LET f == worker[r][w].file
      k == worker[r][w].slot
  IN
  /\ worker[r][w].pc = "write" /\ new.pc = "send" /\ new.msg = "ok"
  /\ disk' = [disk EXCEPT ![f][k].st = IF disk[f][k].by = r THEN "whole" ELSE "partial"]
  /\ UNCHANGED <<next, queue, extra>>

Sends(r, w, new) ==
  /\ worker[r][w].pc = "send"
  /\ queue' = [queue EXCEPT ![r] = Append(@, worker[r][w].msg)]
  /\ new.pc = IF worker[r][w].msg = "err" THEN "off" ELSE "take"
  /\ UNCHANGED <<next, disk, extra>>

(* A report is one of these. *)
LEMMA ReportStep ==
  ASSUME Types, NEW r \in Restores, NEW w \in Workers, NEW m \in {"ok", "err"}, Report(r, w, m)
  PROVE  \E new \in WorkerState : SetWorker(r, w, new) /\ new.pc = "send" /\ new.msg = m
<1> DEFINE y == [worker[r][w] EXCEPT !.pc = "send", !.msg = m]
<1>1. worker[r][w] \in WorkerState
  BY DEF Types, TypeOK
<1>2. y \in WorkerState /\ y.pc = "send" /\ y.msg = m
  BY <1>1 DEF WorkerState
<1>3. SetWorker(r, w, y)
  BY DEF Report
<1> QED BY <1>2, <1>3

LEMMA WorkStep ==
  ASSUME Types, NEW r \in Restores, NEW w \in Workers, Work(r, w)
  PROVE  /\ UNCHANGED <<plan, cancel, flag, job, alone>>
         /\ \E new \in WorkerState :
              /\ SetWorker(r, w, new)
              /\ \/ Leaves(r, w, new) \/ Takes(r, w, new) \/ Places(r, w, new)
                 \/ Reports(r, w, new) \/ Begins(r, w, new) \/ Writes(r, w, new)
                 \/ Sends(r, w, new)
<1>0. worker[r][w] \in WorkerState
  BY DEF Types, TypeOK
<1>1. CASE Take(r, w)
  <2>1. CASE (flag[r] \/ next[r] \notin FilesOf(r)) /\ SetWorker(r, w, Off) /\ UNCHANGED next
    BY <1>1, <2>1, OffTyped DEF Take, Leaves
  <2>2. CASE /\ ~flag[r] /\ next[r] \in FilesOf(r)
             /\ SetWorker(r, w, [pc |-> "place", file |-> next[r], slot |-> 0, msg |-> None])
             /\ next' = [next EXCEPT ![r] = @ + 1]
    <3> DEFINE y == [pc |-> "place", file |-> next[r], slot |-> 0, msg |-> None]
    <3>1. job[r].req \in Request
      BY <1>1 DEF Take, Types, Shape
    <3>2. next[r] \in Paths
      BY <2>2, <3>1 DEF FilesOf, Paths, Request
    <3>3. y \in WorkerState /\ y.pc = "place" /\ y.file = next[r]
      BY <3>2 DEF WorkerState
    <3>4. SetWorker(r, w, y)
      BY <2>2
    <3> HIDE DEF y
    <3> QED BY <1>1, <2>2, <3>3, <3>4 DEF Take, Takes
  <2> QED BY <1>1, <2>1, <2>2 DEF Take, Stopping
<1>2. CASE Place(r, w)
  <2>0. worker[r][w].pc = "place" /\ UNCHANGED <<plan, cancel, flag, job, next, queue, disk, alone, extra>>
    BY <1>2 DEF Place
  <2>1. CASE Report(r, w, "err")
    BY <2>0, <2>1, ReportStep DEF Reports
  <2>2. CASE flag[r] /\ SetWorker(r, w, Off)
    BY <2>0, <2>2, OffTyped DEF Leaves
  <2>3. CASE job[r].req.policy = "skip" /\ Report(r, w, "ok")
    BY <2>0, <2>3, ReportStep DEF Reports
  <2>4. ASSUME NEW k \in 0..Renames, ~flag[r],
               job[r].req.policy # "overwrite" => disk[worker[r][w].file][k] = Absent,
               SetWorker(r, w, [worker[r][w] EXCEPT !.pc = "begin", !.slot = k])
        PROVE  \E new \in WorkerState : SetWorker(r, w, new) /\ Places(r, w, new)
    <3> DEFINE y == [worker[r][w] EXCEPT !.pc = "begin", !.slot = k]
    <3>1. y \in WorkerState /\ y.pc = "begin" /\ y.file = worker[r][w].file /\ y.slot = k
      BY <1>0 DEF WorkerState
    <3>2. SetWorker(r, w, y)
      BY <2>4
    <3> HIDE DEF y
    <3> QED BY <2>0, <2>4, <3>1, <3>2 DEF Places
  <2>5. \/ Report(r, w, "err")
        \/ flag[r] /\ SetWorker(r, w, Off)
        \/ job[r].req.policy = "skip" /\ Report(r, w, "ok")
        \/ \E k \in 0..Renames :
             /\ ~flag[r] /\ (job[r].req.policy # "overwrite" => disk[worker[r][w].file][k] = Absent)
             /\ SetWorker(r, w, [worker[r][w] EXCEPT !.pc = "begin", !.slot = k])
    <3>1. 0 \in 0..Renames /\ \A k \in 1..Renames : k \in 0..Renames
      BY RenamesAssumption
    <3> QED BY <1>2, <3>1 DEF Place, Free, Stopping
  <2> QED BY <2>0, <2>1, <2>2, <2>3, <2>4, <2>5
<1>3. CASE Begin(r, w)
  <2>0. worker[r][w].pc = "begin" /\ UNCHANGED <<plan, cancel, flag, job, next, queue, alone>>
    BY <1>3 DEF Begin
  <2>1. CASE Report(r, w, "err") /\ UNCHANGED <<disk, extra>>
    BY <2>0, <2>1, ReportStep DEF Reports
  <2>2. CASE /\ disk' = [disk EXCEPT ![worker[r][w].file][worker[r][w].slot] =
                            [st |-> "partial", by |-> r]]
             /\ SetWorker(r, w, [worker[r][w] EXCEPT !.pc = "write"])
             /\ extra' = [extra EXCEPT ![r][w] = IF flag[r] THEN @ + 1 ELSE @]
    <3> DEFINE y == [worker[r][w] EXCEPT !.pc = "write"]
    <3>1. /\ y \in WorkerState /\ y.pc = "write"
          /\ y.file = worker[r][w].file /\ y.slot = worker[r][w].slot
      BY <1>0 DEF WorkerState
    <3>2. SetWorker(r, w, y)
      BY <2>2
    <3> HIDE DEF y
    <3> QED BY <2>0, <2>2, <3>1, <3>2 DEF Begins
  <2> QED BY <1>3, <2>1, <2>2 DEF Begin
<1>4. CASE Write(r, w)
  <2>1. UNCHANGED <<plan, cancel, flag, job, next, queue, alone, extra>> /\ worker[r][w].pc = "write"
    BY <1>4 DEF Write
  <2>2. CASE Report(r, w, "err") /\ UNCHANGED disk
    BY <2>1, <2>2, ReportStep DEF Reports
  <2>3. CASE Report(r, w, "ok") /\ ~(Report(r, w, "err") /\ UNCHANGED disk)
    <3>1. PICK new \in WorkerState : SetWorker(r, w, new) /\ new.pc = "send" /\ new.msg = "ok"
      BY <2>3, ReportStep
    <3>2. Writes(r, w, new)
      BY <1>4, <2>1, <2>3, <3>1 DEF Write, Writes
    <3> QED BY <2>1, <3>1, <3>2
  <2> QED BY <1>4, <2>2, <2>3 DEF Write
<1>5. CASE Send(r, w)
  <2>1. CASE worker[r][w].msg = "err"
    BY <1>5, <2>1, OffTyped DEF Send, Sends
  <2>2. CASE worker[r][w].msg # "err"
    BY <1>5, <2>2, TakeTyped DEF Send, Sends
  <2> QED BY <2>1, <2>2
<1> QED BY <1>1, <1>2, <1>3, <1>4, <1>5 DEF Work

Spawns(r, new) ==
  /\ job[r].pc = "load" /\ new.pc = "run"
  /\ new.result = job[r].result /\ new.done = job[r].done
  /\ next' = [next EXCEPT ![r] = 1]
  /\ queue' = [queue EXCEPT ![r] = <<>>]
  /\ \A w \in Workers : worker'[r][w].pc = IF w \in job[r].req.workers THEN "take" ELSE "off"
  /\ \A q \in Restores : q # r => worker'[q] = worker[q]
  /\ UNCHANGED <<cancel, flag>>

Fails(r, new) ==
  /\ job[r].pc = "load" /\ new.pc = "idle" /\ new.result = "err"
  /\ cancel' = [cancel EXCEPT ![job[r].req.snap] = None]
  /\ UNCHANGED <<flag, next, worker, queue>>

Drops(r, new) ==
  /\ job[r].pc = "run" /\ new.pc = "join" /\ new.result \in {"cancelled", "err"}
  /\ flag' \in {flag, [flag EXCEPT ![r] = TRUE]}
  /\ queue' = [queue EXCEPT ![r] = Tail(@)]
  /\ UNCHANGED <<cancel, next, worker>>

Counts(r, new) ==
  /\ job[r].pc = "run" /\ new.pc = "run" /\ new.result = job[r].result
  /\ queue[r] # <<>> /\ Head(queue[r]) = "ok" /\ ~flag[r]
  /\ new.done = job[r].done + 1
  /\ queue' = [queue EXCEPT ![r] = Tail(@)]
  /\ UNCHANGED <<cancel, flag, next, worker>>

Closes(r, new) ==
  /\ job[r].pc = "run" /\ new.pc = "join" /\ new.done = job[r].done
  /\ queue[r] = <<>> /\ \A w \in Workers : worker[r][w].pc = "off"
  /\ new.result = "ok" => ~flag[r]
  /\ UNCHANGED <<cancel, flag, next, worker, queue>>

Joins(r, new) ==
  /\ job[r].pc = "join" /\ new.pc = "idle" /\ \A w \in Workers : worker[r][w].pc = "off"
  /\ new.result = job[r].result /\ new.done = job[r].done
  /\ cancel' = [cancel EXCEPT ![job[r].req.snap] = None]
  /\ UNCHANGED <<flag, next, worker, queue>>

Answers(r, p, m) == job' = [job EXCEPT ![r].pc = p, ![r].result = m]

LEMMA AnswerStep ==
  ASSUME Types, NEW r \in Restores, NEW p \in {"idle", "join"},
         NEW m \in {"ok", "err", "cancelled", None}, Answers(r, p, m)
  PROVE  \E new \in JobState : /\ job' = [job EXCEPT ![r] = new] /\ new.req = job[r].req
           /\ new.pc = p /\ new.result = m /\ new.done = job[r].done
<1>0. job \in [Restores -> JobState] /\ job[r] \in JobState
  BY DEF Types, TypeOK
<1> DEFINE y == [job[r] EXCEPT !.pc = p, !.result = m]
<1>1. y \in JobState /\ y.pc = p /\ y.req = job[r].req /\ y.result = m /\ y.done = job[r].done
  BY <1>0 DEF JobState
<1>2. job' = [job EXCEPT ![r] = y]
  BY <1>0 DEF Answers
<1> HIDE DEF y
<1> QED BY <1>1, <1>2

LEMMA CommandStep ==
  ASSUME Types, NEW r \in Restores, Command(r)
  PROVE  /\ UNCHANGED <<plan, disk, alone, extra>>
         /\ \E new \in JobState :
              /\ job' = [job EXCEPT ![r] = new] /\ new.req = job[r].req
              /\ \/ Spawns(r, new) \/ Fails(r, new) \/ Drops(r, new) \/ Counts(r, new)
                 \/ Closes(r, new) \/ Joins(r, new)
<1>0. job \in [Restores -> JobState] /\ job[r] \in JobState
  BY DEF Types, TypeOK
<1>2. CASE Load(r)
  <2>1. CASE End(r, "err") /\ UNCHANGED <<next, worker, queue>>
    <3>1. Answers(r, "idle", "err")
      BY <2>1 DEF End, Answers
    <3>2. PICK new \in JobState : /\ job' = [job EXCEPT ![r] = new] /\ new.req = job[r].req
            /\ new.pc = "idle" /\ new.result = "err" /\ new.done = job[r].done
      BY <3>1, AnswerStep
    <3> QED BY <1>2, <2>1, <3>2 DEF Load, End, Fails
  <2>2. CASE ~(End(r, "err") /\ UNCHANGED <<next, worker, queue>>)
    <3> DEFINE y == [job[r] EXCEPT !.pc = "run"]
    <3>1. y \in JobState /\ y.pc = "run" /\ y.req = job[r].req /\ y.result = job[r].result /\ y.done = job[r].done
      BY <1>0, JobGoes
    <3>2. job' = [job EXCEPT ![r] = y]
      BY <1>0, <1>2, <2>2 DEF Load
    <3> HIDE DEF y
    <3>3. /\ \A w \in Workers : worker'[r][w].pc = IF w \in job[r].req.workers THEN "take" ELSE "off"
          /\ \A q \in Restores : q # r => worker'[q] = worker[q]
      <4>1. worker' = [worker EXCEPT ![r] =
              [w \in Workers |-> IF w \in job[r].req.workers THEN [Off EXCEPT !.pc = "take"] ELSE Off]]
        BY <1>2, <2>2 DEF Load
      <4>2. worker \in [Restores -> [Workers -> WorkerState]]
        BY DEF Types, TypeOK
      <4> QED BY <4>1, <4>2, OffTyped, TakeTyped
    <3>4. Spawns(r, y)
      BY <1>2, <2>2, <3>1, <3>3 DEF Load, Spawns
    <3> QED BY <1>2, <3>1, <3>2, <3>4 DEF Load
  <2> QED BY <2>1, <2>2
<1>3. CASE Receive(r)
  <2>0. /\ job[r].pc = "run" /\ queue[r] # <<>> /\ queue' = [queue EXCEPT ![r] = Tail(@)]
        /\ UNCHANGED <<plan, cancel, next, worker, disk, alone, extra>>
    BY <1>3 DEF Receive
  <2>1. CASE ~flag[r] /\ Head(queue[r]) = "ok" /\ job' = [job EXCEPT ![r].done = @ + 1] /\ UNCHANGED flag
    <3> DEFINE y == [job[r] EXCEPT !.done = @ + 1]
    <3>1. /\ y \in JobState /\ y.pc = job[r].pc /\ y.req = job[r].req
          /\ y.result = job[r].result /\ y.done = job[r].done + 1
      BY <1>0 DEF JobState
    <3>2. job' = [job EXCEPT ![r] = y]
      BY <1>0, <2>1
    <3> HIDE DEF y
    <3>3. Counts(r, y)
      BY <2>0, <2>1, <3>1 DEF Counts
    <3> QED BY <2>0, <3>1, <3>2, <3>3
  <2>2. ASSUME NEW m \in {"cancelled", "err"}, flag' \in {flag, [flag EXCEPT ![r] = TRUE]},
               Answers(r, "join", m)
        PROVE  \E new \in JobState :
                 job' = [job EXCEPT ![r] = new] /\ new.req = job[r].req /\ Drops(r, new)
    BY <2>0, <2>2, AnswerStep DEF Drops
  <2>3. \/ ~flag[r] /\ Head(queue[r]) = "ok" /\ job' = [job EXCEPT ![r].done = @ + 1] /\ UNCHANGED flag
        \/ \E m \in {"cancelled", "err"} :
             /\ flag' \in {flag, [flag EXCEPT ![r] = TRUE]}
             /\ Answers(r, "join", m)
    BY <1>3 DEF Receive, Answers
  <2> QED BY <2>0, <2>1, <2>2, <2>3
<1>4. CASE Closed(r)
  <2>1. PICK m \in {"cancelled", "ok"} : Answers(r, "join", m) /\ (m = "ok" => ~flag[r])
    BY <1>4 DEF Closed, Answers
  <2>2. PICK new \in JobState : /\ job' = [job EXCEPT ![r] = new] /\ new.req = job[r].req
          /\ new.pc = "join" /\ new.result = m /\ new.done = job[r].done
    BY <2>1, AnswerStep
  <2>3. Closes(r, new)
    BY <1>4, <2>1, <2>2 DEF Closed, Done, Closes
  <2> QED BY <1>4, <2>2, <2>3 DEF Closed
<1>5. CASE Join(r)
  <2>1. job[r].result \in {"ok", "err", "cancelled", None} /\ Answers(r, "idle", job[r].result)
    BY <1>0, <1>5 DEF JobState, Join, End, Answers
  <2>2. PICK new \in JobState : /\ job' = [job EXCEPT ![r] = new] /\ new.req = job[r].req
          /\ new.pc = "idle" /\ new.result = job[r].result /\ new.done = job[r].done
    BY <2>1, AnswerStep
  <2>3. Joins(r, new)
    BY <1>5, <2>2 DEF Join, Done, End, Joins
  <2> QED BY <1>5, <2>2, <2>3 DEF Join
<1> QED BY <1>2, <1>3, <1>4, <1>5 DEF Command

-----------------------------------------------------------------------------
(* Cancellation: a registered flag belongs to a run of that snapshot that   *)
(* is going on.                                                             *)

LEMMA CancelInit == Init => CancelHitsItsSnapshot
BY DEF Init, CancelHitsItsSnapshot

LEMMA CancelKept == Types /\ CancelHitsItsSnapshot /\ [Next]_vars => CancelHitsItsSnapshot'
<1> SUFFICES ASSUME Types, CancelHitsItsSnapshot, [Next]_vars PROVE CancelHitsItsSnapshot'
  OBVIOUS
<1>0. job \in [Restores -> JobState] /\ cancel \in [Snapshots -> Restores \cup {None}]
  BY DEF Types, TypeOK
<1>1. ASSUME NEW r \in Restores, Start(r) PROVE CancelHitsItsSnapshot'
  <2>1. PICK q \in plan[r] :
          /\ job' = [job EXCEPT ![r] = [pc |-> "load", req |-> q, done |-> 0, result |-> None]]
          /\ cancel' = [cancel EXCEPT ![q.snap] = r]
    BY <1>1 DEF Start
  <2>2. job[r].pc = "idle"
    BY <1>1 DEF Start
  <2>3. \A s \in Snapshots : cancel[s] # r
    BY <2>2, NoneAssumption DEF CancelHitsItsSnapshot
  <2>4. job'[r].pc = "load" /\ job'[r].req = q
    BY <1>0, <2>1
  <2>5. \A s \in Snapshots : cancel'[s] = IF s = q.snap THEN r ELSE cancel[s]
    BY <1>0, <2>1
  <2>6. \A o \in Restores : o # r => job'[o] = job[o]
    BY <1>0, <2>1
  <2> QED BY <1>0, <2>3, <2>4, <2>5, <2>6 DEF CancelHitsItsSnapshot
<1>2. ASSUME NEW r \in Restores, Command(r) PROVE CancelHitsItsSnapshot'
  <2>1. PICK new \in JobState :
          /\ job' = [job EXCEPT ![r] = new] /\ new.req = job[r].req
          /\ \/ Spawns(r, new) \/ Fails(r, new) \/ Drops(r, new) \/ Counts(r, new)
             \/ Closes(r, new) \/ Joins(r, new)
    BY <1>2, CommandStep
  <2>2. job'[r] = new /\ \A o \in Restores : o # r => job'[o] = job[o]
    BY <1>0, <2>1
  <2>3. CASE new.pc # "idle" /\ UNCHANGED cancel
    BY <1>0, <2>1, <2>2, <2>3, NoneAssumption DEF CancelHitsItsSnapshot
  <2>4. CASE cancel' = [cancel EXCEPT ![job[r].req.snap] = None]
    <3>1. \A s \in Snapshots : cancel'[s] # None => cancel'[s] = cancel[s] /\ s # job[r].req.snap
      BY <1>0, <2>4
    <3>2. \A s \in Snapshots : cancel'[s] # None => cancel[s] # r
      BY <3>1 DEF CancelHitsItsSnapshot
    <3> QED BY <1>0, <2>2, <3>1, <3>2 DEF CancelHitsItsSnapshot
  <2> QED BY <2>1, <2>3, <2>4 DEF Spawns, Fails, Drops, Counts, Closes, Joins
<1>3. ASSUME NEW r \in Restores, NEW w \in Workers, Work(r, w) PROVE CancelHitsItsSnapshot'
  <2>1. UNCHANGED <<job, cancel>>
    BY <1>3, WorkStep
  <2> QED BY <2>1 DEF CancelHitsItsSnapshot
<1>4. ASSUME NEW s \in Snapshots, Cancel(s) PROVE CancelHitsItsSnapshot'
  BY <1>4 DEF Cancel, CancelHitsItsSnapshot
<1>5. CASE UNCHANGED vars
  BY <1>5 DEF vars, CancelHitsItsSnapshot
<1> QED BY <1>1, <1>2, <1>3, <1>4, <1>5 DEF Next

(* A cancel never hits a restore of another snapshot, or one that has       *)
(* ended, although the runs of a snapshot overwrite and remove each other's *)
(* flag in RestoreManager.                                                  *)
THEOREM CancelHits == Spec => []CancelHitsItsSnapshot
BY AlwaysTypes, CancelInit, CancelKept, PTL DEF Spec

-----------------------------------------------------------------------------
(* Cancelling stops scheduling: the file a worker begins after the cancel   *)
(* is one it had looked at before, so that it is past "place" and "begin".  *)

Stops ==
  \A r \in Restores, w \in Workers :
    /\ extra[r][w] \in {0, 1}
    /\ extra[r][w] = 1 => flag[r] /\ worker[r][w].pc \notin {"place", "begin"}

LEMMA StopsInit == Init => Stops
BY DEF Init, Stops

(* One worker moves, and not into a new file once the run is cancelled. *)
LEMMA StopsMove ==
  ASSUME Types, Stops, NEW r \in Restores, NEW w \in Workers, NEW new \in WorkerState,
         SetWorker(r, w, new), UNCHANGED <<flag, extra>>,
         new.pc \in {"place", "begin"} => ~flag[r]
  PROVE  Stops'
<1>1. /\ worker'[r][w] = new
      /\ \A v \in Workers : v # w => worker'[r][v] = worker[r][v]
      /\ \A q \in Restores : q # r => worker'[q] = worker[q]
  BY SetWorkerTyped DEF Types
<1> QED BY <1>1 DEF Stops

LEMMA StopsKept == Types /\ Stops /\ [Next]_vars => Stops'
<1> SUFFICES ASSUME Types, Stops, [Next]_vars PROVE Stops'
  OBVIOUS
<1>0. /\ flag \in [Restores -> BOOLEAN] /\ extra \in [Restores -> [Workers -> Nat]]
      /\ worker \in [Restores -> [Workers -> WorkerState]]
  BY DEF Types, TypeOK
<1>1. ASSUME NEW r \in Restores, Start(r) PROVE Stops'
  <2>1. /\ worker' = worker /\ \A w \in Workers : extra'[r][w] = 0
        /\ \A q \in Restores : q # r => extra'[q] = extra[q] /\ flag'[q] = flag[q]
    BY <1>0, <1>1 DEF Start
  <2> QED BY <2>1 DEF Stops
<1>2. ASSUME NEW r \in Restores, Command(r) PROVE Stops'
  <2>1. PICK new \in JobState :
          \/ Spawns(r, new) \/ Fails(r, new) \/ Drops(r, new) \/ Counts(r, new)
          \/ Closes(r, new) \/ Joins(r, new)
    BY <1>2, CommandStep
  <2>2. UNCHANGED extra /\ \A q \in Restores : flag[q] => flag'[q]
    BY SMTT(60), <1>0, <1>2, <2>1, CommandStep DEF Spawns, Fails, Drops, Counts, Closes, Joins
  <2>3. \A q \in Restores, w \in Workers :
          worker'[q][w] = worker[q][w] \/ worker'[q][w].pc \in {"take", "off"}
    BY <2>1 DEF Spawns, Fails, Drops, Counts, Closes, Joins
  <2> QED BY <2>2, <2>3 DEF Stops
<1>3. ASSUME NEW r \in Restores, NEW w \in Workers, Work(r, w) PROVE Stops'
  <2>1. UNCHANGED flag
    BY <1>3, WorkStep
  <2>2. PICK new \in WorkerState :
          /\ SetWorker(r, w, new)
          /\ \/ Leaves(r, w, new) \/ Takes(r, w, new) \/ Places(r, w, new)
             \/ Reports(r, w, new) \/ Begins(r, w, new) \/ Writes(r, w, new)
             \/ Sends(r, w, new)
    BY <1>3, WorkStep
  <2>3. CASE UNCHANGED extra /\ (new.pc \in {"place", "begin"} => ~flag[r])
    BY <2>1, <2>2, <2>3, StopsMove
  <2>4. CASE Begins(r, w, new)
    <3>1. /\ worker'[r][w] = new
          /\ \A v \in Workers : v # w => worker'[r][v] = worker[r][v]
          /\ \A q \in Restores : q # r => worker'[q] = worker[q]
      BY <2>2, SetWorkerTyped DEF Types
    <3>2. /\ extra'[r][w] = IF flag[r] THEN extra[r][w] + 1 ELSE extra[r][w]
          /\ \A v \in Workers : v # w => extra'[r][v] = extra[r][v]
          /\ \A q \in Restores : q # r => extra'[q] = extra[q]
      BY <1>0, <2>4 DEF Begins
    <3>3. extra[r][w] = 0 /\ new.pc = "write"
      BY <2>4 DEF Begins, Stops
    <3> QED BY <2>1, <3>1, <3>2, <3>3 DEF Stops
  <2> QED BY <2>2, <2>3, <2>4 DEF Leaves, Takes, Places, Reports, Writes, Sends
<1>4. ASSUME NEW s \in Snapshots, Cancel(s) PROVE Stops'
  <2>1. UNCHANGED <<worker, extra>> /\ \A q \in Restores : flag[q] => flag'[q]
    BY <1>0, <1>4 DEF Cancel
  <2> QED BY <2>1 DEF Stops
<1>5. CASE UNCHANGED vars
  BY <1>5 DEF vars, Stops
<1> QED BY <1>1, <1>2, <1>3, <1>4, <1>5 DEF Next

(* Once a run is cancelled, each of its workers begins at most one file.    *)
THEOREM CancelStops == Spec => []CancelStopsScheduling
<1>1. Stops => CancelStopsScheduling
  BY DEF Stops, CancelStopsScheduling
<1> QED BY AlwaysTypes, StopsInit, StopsKept, <1>1, PTL DEF Spec

-----------------------------------------------------------------------------
(* No two workers of a run are at the same file, and none is at a file that *)
(* the counter has not passed.                                              *)

At(r, w) == worker[r][w].pc \in {"place", "begin", "write"}

Taken ==
  \A r \in Restores, w \in Workers : At(r, w) =>
    /\ worker[r][w].file < next[r]
    /\ \A v \in Workers : v # w /\ At(r, v) => worker[r][v].file # worker[r][w].file

LEMMA TakenInit == Init => Taken
BY DEF Init, Taken, At, Off

LEMMA TakenKept == Types /\ Taken /\ [Next]_vars => Taken'
<1> SUFFICES ASSUME Types, Taken, [Next]_vars PROVE Taken'
  OBVIOUS
<1>0. next \in [Restores -> Nat \ {0}] /\ worker \in [Restores -> [Workers -> WorkerState]]
  BY DEF Types, TypeOK
<1>1. ASSUME NEW r \in Restores, Start(r) PROVE Taken'
  BY <1>1 DEF Start, Taken, At
<1>2. ASSUME NEW r \in Restores, Command(r) PROVE Taken'
  <2>1. PICK new \in JobState :
          \/ Spawns(r, new) \/ Fails(r, new) \/ Drops(r, new) \/ Counts(r, new)
          \/ Closes(r, new) \/ Joins(r, new)
    BY <1>2, CommandStep
  <2>2. CASE UNCHANGED <<next, worker>>
    BY <2>2 DEF Taken, At
  <2>3. CASE Spawns(r, new)
    <3>1. \A w \in Workers : ~At(r, w)'
      BY <2>3 DEF Spawns, At
    <3>2. \A q \in Restores : q # r => worker'[q] = worker[q] /\ next'[q] = next[q]
      BY <1>0, <2>3 DEF Spawns
    <3> QED BY <3>1, <3>2 DEF Taken, At
  <2> QED BY <2>1, <2>2, <2>3 DEF Fails, Drops, Counts, Closes, Joins
<1>3. ASSUME NEW r \in Restores, NEW w \in Workers, Work(r, w) PROVE Taken'
  <2>1. PICK new \in WorkerState :
          /\ SetWorker(r, w, new)
          /\ \/ Leaves(r, w, new) \/ Takes(r, w, new) \/ Places(r, w, new)
             \/ Reports(r, w, new) \/ Begins(r, w, new) \/ Writes(r, w, new)
             \/ Sends(r, w, new)
    BY <1>3, WorkStep
  <2>2. /\ worker'[r][w] = new
        /\ \A v \in Workers : v # w => worker'[r][v] = worker[r][v]
        /\ \A q \in Restores : q # r => worker'[q] = worker[q]
    BY <2>1, SetWorkerTyped DEF Types
  <2>3. CASE Takes(r, w, new)
    <3>1. \A q \in Restores : next'[q] = IF q = r THEN next[r] + 1 ELSE next[q]
      BY <1>0, <2>3 DEF Takes
    <3>2. ~At(r, w) /\ At(r, w)' /\ new.file = next[r] /\ next[r] \in Nat
      BY <1>0, <2>2, <2>3 DEF Takes, At
    <3>3. \A v \in Workers : At(r, v) => worker[r][v].file \in Nat
      BY AtFile DEF At, FilesOf
    <3>4. \A v \in Workers : v # w => (At(r, v)' <=> At(r, v))
      BY <2>2 DEF At
    <3>5. \A q \in Restores, v \in Workers : q # r => (At(q, v)' <=> At(q, v))
      BY <2>2 DEF At
    <3>6. ASSUME NEW v \in Workers, v # w, At(r, v)
          PROVE  worker[r][v].file < next[r] /\ worker[r][v].file \in Nat
      BY <3>3, <3>6 DEF Taken
    <3>7. ASSUME NEW v \in Workers, At(r, v)'
          PROVE  /\ worker'[r][v].file < next'[r]
                 /\ \A u \in Workers : u # v /\ At(r, u)' => worker'[r][u].file # worker'[r][v].file
      <4>1. CASE v = w
        BY <2>2, <3>1, <3>2, <3>4, <3>6, <4>1
      <4>2. CASE v # w
        BY <2>2, <3>1, <3>2, <3>4, <3>6, <3>7, <4>2 DEF Taken
      <4> QED BY <4>1, <4>2
    <3> QED BY <2>2, <3>1, <3>5, <3>7 DEF Taken
  <2>4. CASE UNCHANGED next /\ (new.pc \in {"place", "begin", "write"} =>
                                  At(r, w) /\ new.file = worker[r][w].file)
    BY <2>2, <2>4 DEF Taken, At
  <2> QED BY <2>1, <2>3, <2>4 DEF Leaves, Places, Reports, Begins, Writes, Sends, At
<1>4. ASSUME NEW s \in Snapshots, Cancel(s) PROVE Taken'
  BY <1>4 DEF Cancel, Taken, At
<1>5. CASE UNCHANGED vars
  BY <1>5 DEF vars, Taken, At
<1> QED BY <1>1, <1>2, <1>3, <1>4, <1>5 DEF Next

-----------------------------------------------------------------------------
(* The disk.  Of a run alone, what a worker is about to create is free      *)
(* unless it overwrites, and what it is writing is its own.                 *)

Lone(r) ==
  alone[r] =>
    /\ \A o \in Restores : o # r => job[o].pc = "idle"
    /\ \A w \in Workers :
         /\ worker[r][w].pc = "begin" /\ job[r].req.policy # "overwrite" =>
              disk[worker[r][w].file][worker[r][w].slot] = Absent
         /\ worker[r][w].pc = "write" =>
              disk[worker[r][w].file][worker[r][w].slot] = [st |-> "partial", by |-> r]

Owned ==
  /\ \A f \in Paths, k \in 0..Renames : disk[f][k].st # "absent" => disk[f][k].by \in Restores
  /\ \A r \in Restores, w \in Workers : worker[r][w].pc = "write" =>
       disk[worker[r][w].file][worker[r][w].slot].st # "absent"
  /\ \A r \in Restores : Lone(r)

LEMMA OwnedInit == Init => Owned
BY DEF Init, Owned, Lone, Off, Absent

(* Nothing else happens while a worker of another run works.                *)
LEMMA NotAlone ==
  ASSUME Types, Owned, NEW r \in Restores, job[r].pc # "idle"
  PROVE  \A o \in Restores : alone[o] => o = r
BY DEF Owned, Lone

LEMMA SetSt ==
  ASSUME NEW x \in FileState, NEW t \in {"whole", "partial"}
  PROVE  [x EXCEPT !.st = t] = [st |-> t, by |-> x.by]
<1> DEFINE y == [x EXCEPT !.st = t]
           z == [st |-> t, by |-> x.by]
<1>1. y \in FileState /\ y.st = t /\ y.by = x.by
  BY DEF FileState
<1>2. z \in FileState /\ z.st = t /\ z.by = x.by
  BY DEF FileState
<1> HIDE DEF y, z
<1>3. y = z
  BY <1>1, <1>2 DEF FileState
<1> QED BY <1>3 DEF y, z

(* What a worker's step does to the disk. *)
LEMMA DiskBegins ==
  ASSUME Types, NEW r \in Restores, NEW w \in Workers, NEW new \in WorkerState, Begins(r, w, new)
  PROVE  /\ new.file \in Paths /\ new.slot \in 0..Renames
         /\ disk'[new.file][new.slot] = [st |-> "partial", by |-> r]
         /\ \A f \in Paths, k \in 0..Renames :
              f # new.file \/ k # new.slot => disk'[f][k] = disk[f][k]
<1>1. new.file \in Paths /\ new.slot \in 0..Renames
  BY AtFile DEF Begins
<1> QED BY <1>1 DEF Begins, Types, TypeOK

WrittenAt(r, f, k) ==
  /\ f \in Paths /\ k \in 0..Renames
  /\ disk'[f][k] = [st |-> IF disk[f][k].by = r THEN "whole" ELSE "partial",
                    by |-> disk[f][k].by]
  /\ \A g \in Paths, j \in 0..Renames : g # f \/ j # k => disk'[g][j] = disk[g][j]

LEMMA DiskWrites ==
  ASSUME Types, NEW r \in Restores, NEW w \in Workers, NEW new \in WorkerState, Writes(r, w, new)
  PROVE  WrittenAt(r, worker[r][w].file, worker[r][w].slot)
<1> DEFINE f == worker[r][w].file
           k == worker[r][w].slot
           s == IF disk[f][k].by = r THEN "whole" ELSE "partial"
           d == [disk[f][k] EXCEPT !.st = s]
<1>1. f \in Paths /\ k \in 0..Renames
  BY AtFile DEF Writes
<1>2. disk \in [Paths -> [0..Renames -> FileState]] /\ disk[f][k] \in FileState
  BY <1>1 DEF Types, TypeOK, FileState
<1>3. disk' = [disk EXCEPT ![f][k].st = s] /\ s \in {"whole", "partial"}
  BY DEF Writes
<1> HIDE DEF s
<1>4. d = [st |-> s, by |-> disk[f][k].by]
  BY <1>2, <1>3, SetSt
<1>5. disk' = [disk EXCEPT ![f][k] = d]
  BY <1>1, <1>2, <1>3
<1> HIDE DEF d
<1>6. /\ disk'[f][k] = d
      /\ \A g \in Paths, j \in 0..Renames : g # f \/ j # k => disk'[g][j] = disk[g][j]
  BY <1>1, <1>2, <1>5
<1> QED BY <1>1, <1>4, <1>6 DEF s, WrittenAt

LEMMA OwnedWork ==
  ASSUME Types, Taken, Owned, NEW r \in Restores, NEW w \in Workers, Work(r, w)
  PROVE  Owned'
<1>0. UNCHANGED <<job, alone>>
  BY WorkStep
<1>1. PICK new \in WorkerState :
        /\ SetWorker(r, w, new)
        /\ \/ Leaves(r, w, new) \/ Takes(r, w, new) \/ Places(r, w, new)
           \/ Reports(r, w, new) \/ Begins(r, w, new) \/ Writes(r, w, new)
           \/ Sends(r, w, new)
  BY WorkStep
<1>2. /\ worker'[r][w] = new
      /\ \A v \in Workers : v # w => worker'[r][v] = worker[r][v]
      /\ \A q \in Restores : q # r => worker'[q] = worker[q]
  BY <1>1, SetWorkerTyped DEF Types
<1>3. worker[r][w].pc # "off" /\ job[r].pc # "idle"
  BY <1>1 DEF Leaves, Takes, Places, Reports, Begins, Writes, Sends, Types, Shape
<1>4. \A o \in Restores : alone[o] => o = r
  BY <1>3, NotAlone
<1>5. \A q \in Restores, v \in Workers : At(q, v) =>
        worker[q][v].file \in Paths /\ worker[q][v].slot \in 0..Renames
  BY AtFile DEF At
<1>6. \A v \in Workers : v # w /\ At(r, v) /\ At(r, w) => worker[r][v].file # worker[r][w].file
  BY DEF Taken
<1>7. CASE UNCHANGED disk /\ new.pc # "write" /\ (new.pc = "begin" => Places(r, w, new))
  <2>1. Lone(r)'
    BY SMTT(60), <1>0, <1>2, <1>7 DEF Owned, Lone, Places
  <2>2. \A o \in Restores : Lone(o)'
    BY <1>0, <1>4, <2>1 DEF Lone
  <2> QED BY <1>2, <1>7, <2>2 DEF Owned
<1>8. CASE Begins(r, w, new)
  <2>1. /\ new.file \in Paths /\ new.slot \in 0..Renames
        /\ disk'[new.file][new.slot] = [st |-> "partial", by |-> r]
        /\ \A f \in Paths, k \in 0..Renames :
             f # new.file \/ k # new.slot => disk'[f][k] = disk[f][k]
    BY <1>8, DiskBegins
  <2>2. At(r, w) /\ new.file = worker[r][w].file /\ new.pc = "write"
    BY <1>8 DEF Begins, At
  <2>3. \A f \in Paths, k \in 0..Renames : disk'[f][k].st # "absent" => disk'[f][k].by \in Restores
    BY <2>1 DEF Owned
  <2>4. \A q \in Restores, v \in Workers : worker'[q][v].pc = "write" =>
          disk'[worker'[q][v].file][worker'[q][v].slot].st # "absent"
    <3> SUFFICES ASSUME NEW q \in Restores, NEW v \in Workers, worker'[q][v].pc = "write"
                 PROVE  disk'[worker'[q][v].file][worker'[q][v].slot].st # "absent"
      OBVIOUS
    <3>1. CASE q = r /\ v = w
      BY <1>2, <2>1, <3>1
    <3>2. CASE ~(q = r /\ v = w)
      <4>1. worker'[q][v] = worker[q][v] /\ At(q, v)
        BY <1>2, <3>2 DEF At
      <4> QED BY <1>5, <2>1, <4>1 DEF Owned
    <3> QED BY <3>1, <3>2
  <2>5. ASSUME alone[r], NEW v \in Workers
        PROVE  /\ worker'[r][v].pc = "begin" /\ job[r].req.policy # "overwrite" =>
                    disk'[worker'[r][v].file][worker'[r][v].slot] = Absent
               /\ worker'[r][v].pc = "write" =>
                    disk'[worker'[r][v].file][worker'[r][v].slot] = [st |-> "partial", by |-> r]
    <3>1. CASE v = w
      BY <1>2, <2>1, <2>2, <3>1
    <3>2. CASE v # w /\ At(r, v)
      <4>1. worker'[r][v] = worker[r][v] /\ worker[r][v].file # new.file
        BY <1>2, <1>6, <2>2, <3>2
      <4>2. disk'[worker[r][v].file][worker[r][v].slot] = disk[worker[r][v].file][worker[r][v].slot]
        BY <1>5, <2>1, <3>2, <4>1
      <4> QED BY SMTT(60), <2>5, <4>1, <4>2 DEF Owned, Lone
    <3> QED BY <1>2, <3>1, <3>2 DEF At
  <2>6. \A o \in Restores : Lone(o)'
    BY ZenonT(60), <1>0, <1>4, <2>5 DEF Owned, Lone
  <2> QED BY <2>3, <2>4, <2>6 DEF Owned
<1>9. CASE Writes(r, w, new)
  <2> DEFINE f == worker[r][w].file
             k == worker[r][w].slot
  <2>1. /\ f \in Paths /\ k \in 0..Renames
        /\ disk'[f][k] = [st |-> IF disk[f][k].by = r THEN "whole" ELSE "partial",
                          by |-> disk[f][k].by]
        /\ \A g \in Paths, j \in 0..Renames : g # f \/ j # k => disk'[g][j] = disk[g][j]
    BY <1>9, DiskWrites DEF WrittenAt
  <2>2. At(r, w) /\ worker[r][w].pc = "write" /\ new.pc = "send"
    BY <1>9 DEF Writes, At
  <2> HIDE DEF f, k
  <2>3. \A g \in Paths, j \in 0..Renames : disk'[g][j].st # "absent" => disk'[g][j].by \in Restores
    <3>1. disk[f][k].st # "absent"
      BY <2>2 DEF Owned, f, k
    <3> QED BY <2>1, <3>1 DEF Owned
  <2>4. \A q \in Restores, v \in Workers : worker'[q][v].pc = "write" =>
          disk'[worker'[q][v].file][worker'[q][v].slot].st # "absent"
    <3> SUFFICES ASSUME NEW q \in Restores, NEW v \in Workers, worker'[q][v].pc = "write"
                 PROVE  disk'[worker'[q][v].file][worker'[q][v].slot].st # "absent"
      OBVIOUS
    <3>1. worker'[q][v] = worker[q][v] /\ At(q, v)
      BY <1>2, <2>2 DEF At
    <3> QED BY <1>5, <2>1, <3>1 DEF Owned
  <2>5. ASSUME alone[r], NEW v \in Workers
        PROVE  /\ worker'[r][v].pc = "begin" /\ job[r].req.policy # "overwrite" =>
                    disk'[worker'[r][v].file][worker'[r][v].slot] = Absent
               /\ worker'[r][v].pc = "write" =>
                    disk'[worker'[r][v].file][worker'[r][v].slot] = [st |-> "partial", by |-> r]
    <3>1. CASE v = w
      BY <1>2, <2>2, <3>1
    <3>2. CASE v # w /\ At(r, v)
      <4>1. worker'[r][v] = worker[r][v] /\ worker[r][v].file # f
        BY <1>2, <1>6, <2>2, <3>2 DEF f
      <4>2. disk'[worker[r][v].file][worker[r][v].slot] = disk[worker[r][v].file][worker[r][v].slot]
        BY <1>5, <2>1, <3>2, <4>1
      <4> QED BY SMTT(60), <2>5, <4>1, <4>2 DEF Owned, Lone
    <3> QED BY <1>2, <3>1, <3>2 DEF At
  <2>6. \A o \in Restores : Lone(o)'
    BY ZenonT(60), <1>0, <1>4, <2>5 DEF Owned, Lone
  <2> QED BY <2>3, <2>4, <2>6 DEF Owned
<1> QED BY <1>1, <1>7, <1>8, <1>9 DEF Leaves, Takes, Places, Reports, Sends

LEMMA OwnedKept == Types /\ Taken /\ Owned /\ [Next]_vars => Owned'
<1> SUFFICES ASSUME Types, Taken, Owned, [Next]_vars PROVE Owned'
  OBVIOUS
<1>0. job \in [Restores -> JobState]
  BY DEF Types, TypeOK
<1>1. ASSUME NEW r \in Restores, Start(r) PROVE Owned'
  <2>1. /\ UNCHANGED <<worker, disk>> /\ \A w \in Workers : worker[r][w].pc = "off"
        /\ \A o \in Restores : o # r => job'[o] = job[o]
    BY <1>0, <1>1 DEF Start, Types, Shape
  <2>2. \A o \in Restores : alone'[o] => o = r /\ \A q \in Restores : q # r => job[q].pc = "idle"
    BY <1>1 DEF Start
  <2>3. \A o \in Restores : Lone(o)'
    BY <2>1, <2>2 DEF Lone
  <2> QED BY <2>1, <2>3 DEF Owned
<1>2. ASSUME NEW r \in Restores, Command(r) PROVE Owned'
  <2>1. PICK new \in JobState :
          /\ job' = [job EXCEPT ![r] = new] /\ new.req = job[r].req
          /\ \/ Spawns(r, new) \/ Fails(r, new) \/ Drops(r, new) \/ Counts(r, new)
             \/ Closes(r, new) \/ Joins(r, new)
    BY <1>2, CommandStep
  <2>2. /\ UNCHANGED <<disk, alone>> /\ job[r].pc # "idle"
        /\ job'[r].req = job[r].req /\ \A o \in Restores : o # r => job'[o] = job[o]
    BY <1>0, <1>2, <2>1, CommandStep DEF Spawns, Fails, Drops, Counts, Closes, Joins
  <2>3. \A q \in Restores, v \in Workers :
          worker'[q][v] = worker[q][v] \/ worker'[q][v].pc \in {"take", "off"}
    BY <2>1 DEF Spawns, Fails, Drops, Counts, Closes, Joins
  <2>4. \A o \in Restores : alone[o] => o = r
    BY <2>2, NotAlone
  <2>5. Lone(r)'
    BY <2>2, <2>3 DEF Owned, Lone
  <2>6. \A o \in Restores : Lone(o)'
    BY <2>2, <2>4, <2>5 DEF Lone
  <2> QED BY <2>2, <2>3, <2>6 DEF Owned
<1>3. ASSUME NEW r \in Restores, NEW w \in Workers, Work(r, w) PROVE Owned'
  BY <1>3, OwnedWork
<1>4. ASSUME NEW s \in Snapshots, Cancel(s) PROVE Owned'
  BY SMTT(60), <1>4 DEF Cancel, Owned, Lone
<1>5. CASE UNCHANGED vars
  BY SMTT(60), <1>5 DEF vars, Owned, Lone
<1> QED BY <1>1, <1>2, <1>3, <1>4, <1>5 DEF Next

LEMMA AlwaysOwned == Spec => [](Types /\ Taken /\ Owned)
BY AlwaysTypes, TakenInit, TakenKept, OwnedInit, OwnedKept, PTL DEF Spec

TruncatesNothing ==
  \A f \in Paths, k \in 0..Renames :
    LET r == disk'[f][k].by
    IN  disk'[f][k].st = "partial" /\ disk[f][k].st # "absent"
          /\ disk'[f][k] # disk[f][k]
        => ~(alone'[r] /\ job'[r].req.policy # "overwrite")

LEMMA WorkTruncates ==
  ASSUME Types, Owned, NEW r \in Restores, NEW w \in Workers, Work(r, w)
  PROVE  TruncatesNothing
<1>0. UNCHANGED <<job, alone>>
  BY WorkStep
<1>1. PICK new \in WorkerState :
        /\ SetWorker(r, w, new)
        /\ \/ Leaves(r, w, new) \/ Takes(r, w, new) \/ Places(r, w, new)
           \/ Reports(r, w, new) \/ Begins(r, w, new) \/ Writes(r, w, new)
           \/ Sends(r, w, new)
  BY WorkStep
<1>2. CASE UNCHANGED disk
  BY <1>2 DEF TruncatesNothing
<1>3. CASE Begins(r, w, new)
  <2>1. /\ disk'[new.file][new.slot] = [st |-> "partial", by |-> r]
        /\ \A f \in Paths, k \in 0..Renames :
             f # new.file \/ k # new.slot => disk'[f][k] = disk[f][k]
    BY <1>3, DiskBegins
  <2>2. alone[r] /\ job[r].req.policy # "overwrite" => disk[new.file][new.slot].st = "absent"
    BY SMTT(60), <1>3 DEF Begins, Owned, Lone, Absent
  <2> QED BY <1>0, <2>1, <2>2 DEF TruncatesNothing
<1>4. CASE Writes(r, w, new)
  <2> DEFINE f == worker[r][w].file
             k == worker[r][w].slot
  <2>1. /\ disk'[f][k] = [st |-> IF disk[f][k].by = r THEN "whole" ELSE "partial",
                          by |-> disk[f][k].by]
        /\ \A g \in Paths, j \in 0..Renames : g # f \/ j # k => disk'[g][j] = disk[g][j]
        /\ f \in Paths /\ k \in 0..Renames
    BY SMTT(60), <1>4, DiskWrites DEF WrittenAt
  <2>2. worker[r][w].pc = "write" /\ job[r].pc # "idle"
    BY <1>4 DEF Writes, Types, Shape
  <2>3. disk[f][k].by \in Restores /\ (disk[f][k].by # r => ~alone[disk[f][k].by])
    BY <2>1, <2>2, NotAlone DEF Owned
  <2> HIDE DEF f, k
  <2> QED BY <1>0, <2>1, <2>3 DEF TruncatesNothing
<1> QED BY <1>1, <1>2, <1>3, <1>4 DEF Leaves, Takes, Places, Reports, Sends

(* A renaming or skipping restore that no other run overlaps never         *)
(* truncates a file that was there before it looked.                        *)
THEOREM RenameIsSafe == Spec => RenameTruncatesNothing
<1>1. Types /\ Taken /\ Owned /\ [Next]_vars => [TruncatesNothing]_vars
  <2> SUFFICES ASSUME Types, Owned, Next PROVE TruncatesNothing
    OBVIOUS
  <2>1. ASSUME UNCHANGED disk PROVE TruncatesNothing
    BY <2>1 DEF TruncatesNothing
  <2>2. ASSUME NEW r \in Restores, Start(r) \/ Command(r) PROVE TruncatesNothing
    BY <2>1, <2>2, CommandStep DEF Start
  <2>3. ASSUME NEW s \in Snapshots, Cancel(s) PROVE TruncatesNothing
    BY <2>1, <2>3 DEF Cancel
  <2> QED BY <2>2, <2>3, WorkTruncates DEF Next
<1> QED BY <1>1, AlwaysOwned, PTL DEF Spec, RenameTruncatesNothing, TruncatesNothing

-----------------------------------------------------------------------------
(* The account of a run that has met no error and no cancel: every file the *)
(* counter has passed is with a worker, in the channel or counted; of a run *)
(* alone, it is with a worker or whole.                                     *)

NoErr(r) ==
  /\ \A i \in 1..Len(queue[r]) : queue[r][i] = "ok"
  /\ \A w \in Workers : worker[r][w].pc = "send" => worker[r][w].msg = "ok"

Fine(r)     == job[r].pc = "run" /\ ~flag[r] /\ NoErr(r)
Busy(r)     == {w \in Workers : worker[r][w].pc \in {"place", "begin", "write", "send"}}
Whole(r, f) == \E k \in 0..Renames : disk[f][k] = [st |-> "whole", by |-> r]

(* The files taken are those counted, in the channel and with a worker. *)
Balanced(n, done, sent, busy) == n - 1 = done + sent + busy

Counted(r) ==
  /\ next[r] <= Files[job[r].req.snap] + 1
  /\ Balanced(next[r], job[r].done, Len(queue[r]), Cardinality(Busy(r)))
  /\ \A w \in job[r].req.workers : worker[r][w].pc = "off" => next[r] \notin FilesOf(r)

Covered(r) ==
  alone[r] /\ job[r].req.policy # "skip" =>
    \A f \in 1..next[r] - 1 : Whole(r, f) \/ \E w \in Workers : At(r, w) /\ worker[r][w].file = f

Finished(r) ==
  /\ \A w \in Workers : worker[r][w].pc = "off"
  /\ job[r].done = Files[job[r].req.snap]
  /\ alone[r] /\ job[r].req.policy # "skip" => \A f \in FilesOf(r) : Whole(r, f)

Account(r) ==
  /\ job[r].pc = "load" => job[r].done = 0
  /\ Fine(r) => Counted(r) /\ Covered(r)
  /\ job[r].result = "ok" => Finished(r)

Accounts == \A r \in Restores : Account(r)

LEMMA AccountsInit == Init => Accounts
BY NoneAssumption DEF Init, Accounts, Account, Fine, Idle

LEMMA BusyFinite == \A r \in Restores : IsFiniteSet(Busy(r)) /\ Cardinality(Busy(r)) \in Nat
<1> SUFFICES ASSUME NEW r \in Restores PROVE IsFiniteSet(Busy(r)) /\ Cardinality(Busy(r)) \in Nat
  OBVIOUS
<1>1. Busy(r) \subseteq Workers
  BY DEF Busy
<1> QED BY <1>1, WorkersAssumption, FS_Subset, FS_CardinalityType

LEMMA BalanceTakes ==
  ASSUME NEW n \in Int, NEW d \in Int, NEW l \in Int, NEW c \in Int, Balanced(n, d, l, c)
  PROVE  Balanced(n + 1, d, l, c + 1)
BY DEF Balanced

LEMMA BalanceCounts ==
  ASSUME NEW n \in Int, NEW d \in Int, NEW l \in Int, NEW c \in Int, Balanced(n, d, l, c)
  PROVE  Balanced(n, d + 1, l - 1, c)
BY DEF Balanced

LEMMA BalanceSends ==
  ASSUME NEW n \in Int, NEW d \in Int, NEW l \in Int, NEW c \in Int, Balanced(n, d, l, c)
  PROVE  Balanced(n, d, l + 1, c - 1)
BY DEF Balanced

(* A run nothing happens to, unless another step ends its being alone. *)
LEMMA SameAccount ==
  ASSUME NEW r \in Restores, Account(r), job'[r] = job[r], worker'[r] = worker[r],
         next'[r] = next[r], queue'[r] = queue[r], flag[r] => flag'[r],
         ~alone'[r] \/ (alone'[r] = alone[r] /\ disk' = disk)
  PROVE  Account(r)'
<1>1. Busy(r)' = Busy(r) /\ FilesOf(r)' = FilesOf(r) /\ \A w \in Workers : At(r, w)' <=> At(r, w)
  BY DEF Busy, FilesOf, At
<1>2. Fine(r)' => Fine(r)
  BY DEF Fine, NoErr
<1>3. Counted(r) => Counted(r)'
  BY <1>1 DEF Counted
<1>4. Covered(r) => Covered(r)'
  BY ZenonT(60), <1>1 DEF Covered, Whole
<1>5. Finished(r) => Finished(r)'
  BY <1>1 DEF Finished, Whole
<1> QED BY <1>2, <1>3, <1>4, <1>5 DEF Account

LEMMA StartAccounts ==
  ASSUME Types, Accounts, NEW r \in Restores, Start(r)
  PROVE  Accounts'
<1>0. job \in [Restores -> JobState] /\ flag \in [Restores -> BOOLEAN]
  BY DEF Types, TypeOK
<1>1. job'[r].pc = "load" /\ job'[r].done = 0 /\ job'[r].result = None
  BY <1>0 DEF Start
<1>2. Account(r)'
  BY <1>1, NoneAssumption DEF Account, Fine
<1>3. ASSUME NEW q \in Restores, q # r PROVE Account(q)'
  <2>1. /\ job'[q] = job[q] /\ flag'[q] = flag[q] /\ ~alone'[q]
        /\ UNCHANGED <<next, worker, queue, disk>>
    BY <1>0, <1>3 DEF Start
  <2> QED BY <2>1, SameAccount DEF Accounts
<1> QED BY <1>2, <1>3 DEF Accounts

LEMMA CommandAccounts ==
  ASSUME Types, Owned, Accounts, NEW r \in Restores, Command(r)
  PROVE  Accounts'
<1>0. /\ job \in [Restores -> JobState] /\ flag \in [Restores -> BOOLEAN]
      /\ next \in [Restores -> Nat \ {0}] /\ queue \in [Restores -> Seq({"ok", "err"})]
      /\ worker \in [Restores -> [Workers -> WorkerState]]
  BY DEF Types, TypeOK
<1>1. PICK new \in JobState :
        /\ job' = [job EXCEPT ![r] = new] /\ new.req = job[r].req
        /\ \/ Spawns(r, new) \/ Fails(r, new) \/ Drops(r, new) \/ Counts(r, new)
           \/ Closes(r, new) \/ Joins(r, new)
  BY CommandStep
<1>2. /\ UNCHANGED <<disk, alone>> /\ job[r].pc # "idle"
      /\ job'[r] = new /\ \A o \in Restores : o # r => job'[o] = job[o]
  BY <1>0, <1>1, CommandStep DEF Spawns, Fails, Drops, Counts, Closes, Joins
<1>3. ASSUME NEW q \in Restores, q # r PROVE Account(q)'
  <2>1. ~alone'[q]
    BY <1>2, <1>3, NotAlone
  <2>2. worker'[q] = worker[q] /\ next'[q] = next[q] /\ queue'[q] = queue[q] /\ flag'[q] = flag[q]
    BY <1>0, <1>1, <1>3 DEF Spawns, Fails, Drops, Counts, Closes, Joins
  <2> QED BY <1>2, <1>3, <2>1, <2>2, SameAccount DEF Accounts
<1>4. FilesOf(r)' = FilesOf(r) /\ job'[r].req = job[r].req
  BY <1>1, <1>2 DEF FilesOf
<1>5. job[r].req \in Request /\ Files[job[r].req.snap] \in Nat
  BY <1>2, FilesAssumption DEF Types, Shape, Request
<1>6. Account(r)'
  <2>1. CASE Spawns(r, new)
    <3>1. job[r].result # "ok" /\ new.done = 0
      BY <2>1 DEF Spawns, Types, Shape, Accounts, Account
    <3>2. next'[r] = 1 /\ queue'[r] = <<>> /\ Len(queue'[r]) = 0
      BY <1>0, <2>1 DEF Spawns
    <3>3. Busy(r)' = {}
      BY <2>1 DEF Spawns, Busy
    <3>4. Cardinality(Busy(r)') = 0
      BY <3>3, FS_EmptySet
    <3>5. \A w \in job[r].req.workers : worker'[r][w].pc # "off"
      BY <1>5, <2>1 DEF Spawns, Request
    <3>6. Counted(r)'
      BY <1>2, <1>4, <1>5, <3>1, <3>2, <3>4, <3>5 DEF Counted, Balanced
    <3>7. Covered(r)'
      BY <3>2 DEF Covered
    <3> QED BY <1>2, <2>1, <3>1, <3>6, <3>7 DEF Spawns, Account
  <2>2. CASE Fails(r, new) \/ Drops(r, new)
    BY <1>2, <2>2 DEF Fails, Drops, Account, Fine
  <2>3. CASE Counts(r, new)
    <3>1. job[r].result # "ok"
      BY <2>3 DEF Counts, Types, Shape
    <3>2. /\ queue[r] \in Seq({"ok", "err"}) /\ queue[r] # <<>> /\ queue'[r] = Tail(queue[r])
          /\ Head(queue[r]) = "ok"
      BY <1>0, <2>3 DEF Counts
    <3>3. /\ Len(queue'[r]) = Len(queue[r]) - 1 /\ Len(queue[r]) \in Nat
          /\ queue[r][1] = "ok"
          /\ \A i \in 1..Len(queue'[r]) : queue'[r][i] = queue[r][i + 1]
      BY <3>2
    <3>4. ASSUME \A i \in 1..Len(queue'[r]) : queue'[r][i] = "ok"
          PROVE  \A i \in 1..Len(queue[r]) : queue[r][i] = "ok"
      <4> SUFFICES ASSUME NEW i \in 1..Len(queue[r]) PROVE queue[r][i] = "ok"
        OBVIOUS
      <4>1. CASE i = 1
        BY <3>3, <4>1
      <4>2. CASE i # 1
        <5>1. i - 1 \in 1..Len(queue'[r]) /\ (i - 1) + 1 = i
          BY <3>3, <4>2
        <5> QED BY <3>3, <3>4, <5>1
      <4> QED BY <4>1, <4>2
    <3>5. Fine(r)' => Fine(r)
      BY <1>2, <2>3, <3>4 DEF Counts, Fine, NoErr
    <3>6. Busy(r)' = Busy(r) /\ \A w \in Workers : At(r, w)' <=> At(r, w)
      BY <2>3 DEF Counts, Busy, At
    <3>7. Counted(r) => Counted(r)'
      <4>1. /\ new.done = job[r].done + 1 /\ job[r].done \in Nat
            /\ Cardinality(Busy(r)) \in Nat /\ next[r] \in Nat /\ UNCHANGED <<next, worker>>
        BY <1>0, <2>3, BusyFinite DEF Counts, JobState
      <4>2. job'[r].done = job[r].done + 1 /\ Cardinality(Busy(r))' = Cardinality(Busy(r))
        BY <1>2, <3>6, <4>1
      <4>3. ASSUME Counted(r)
            PROVE  Balanced(next'[r], job'[r].done, Len(queue'[r]), Cardinality(Busy(r))')
        <5>1. Balanced(next[r], job[r].done, Len(queue[r]), Cardinality(Busy(r)))
          BY <4>3 DEF Counted
        <5>2. Balanced(next[r], job[r].done + 1, Len(queue[r]) - 1, Cardinality(Busy(r)))
          <6>1. /\ next[r] \in Int /\ job[r].done \in Int
                /\ Len(queue[r]) \in Int /\ Cardinality(Busy(r)) \in Int
            BY <3>3, <4>1
          <6> QED BY <5>1, <6>1, BalanceCounts
        <5>3. /\ next'[r] = next[r] /\ job'[r].done = job[r].done + 1
              /\ Len(queue'[r]) = Len(queue[r]) - 1 /\ Cardinality(Busy(r))' = Cardinality(Busy(r))
          BY <3>3, <4>1, <4>2
        <5> QED BY <5>2, <5>3
      <4>4. ASSUME Counted(r)
            PROVE  /\ next'[r] <= Files[job'[r].req.snap] + 1
                   /\ \A w \in job'[r].req.workers :
                        worker'[r][w].pc = "off" => next'[r] \notin FilesOf(r)'
        BY <1>4, <4>1, <4>4 DEF Counted
      <4> QED BY <4>3, <4>4 DEF Counted
    <3>8. Covered(r) => Covered(r)'
      BY <1>2, <1>4, <2>3, <3>6 DEF Counts, Covered, Whole
    <3> QED BY <1>2, <2>3, <3>1, <3>5, <3>7, <3>8 DEF Counts, Account, Accounts
  <2>4. CASE Closes(r, new)
    <3>1. CASE new.result # "ok"
      BY <1>2, <2>4, <3>1 DEF Closes, Account, Fine
    <3>2. CASE new.result = "ok"
      <4>1. /\ UNCHANGED <<next, worker, queue>> /\ queue[r] = <<>> /\ Len(queue[r]) = 0
            /\ \A w \in Workers : worker[r][w].pc = "off"
        BY <2>4 DEF Closes
      <4>2. Fine(r)
        BY <2>4, <3>2, <4>1 DEF Closes, Fine, NoErr
      <4>3. Counted(r) /\ Covered(r)
        BY <4>2 DEF Accounts, Account
      <4>4. Busy(r) = {} /\ \A w \in Workers : ~At(r, w)
        BY <4>1 DEF Busy, At
      <4>5. Cardinality(Busy(r)) = 0
        BY <4>4, FS_EmptySet
      <4>6. PICK w \in job[r].req.workers : w \in Workers
        BY <1>5 DEF Request
      <4>7. next[r] \notin FilesOf(r)
        BY <4>1, <4>3, <4>6 DEF Counted
      <4>8. next[r] = Files[job[r].req.snap] + 1 /\ job[r].done = Files[job[r].req.snap]
        BY <1>0, <1>5, <4>1, <4>3, <4>5, <4>7 DEF Counted, Balanced, FilesOf, JobState
      <4>9. alone[r] /\ job[r].req.policy # "skip" => \A f \in FilesOf(r) : Whole(r, f)
        BY <1>5, <4>3, <4>4, <4>8 DEF Covered, FilesOf
      <4>10. Finished(r)'
        BY <1>2, <1>4, <2>4, <4>1, <4>8, <4>9 DEF Closes, Finished, Whole
      <4> QED BY <1>2, <2>4, <4>10 DEF Closes, Account, Fine
    <3> QED BY <3>1, <3>2
  <2>5. CASE Joins(r, new)
    <3>1. Finished(r) => Finished(r)'
      BY <1>2, <1>4, <2>5 DEF Joins, Finished, Whole
    <3> QED BY <1>2, <2>5, <3>1 DEF Joins, Account, Fine, Accounts
  <2> QED BY <1>1, <2>1, <2>2, <2>3, <2>4, <2>5
<1> QED BY <1>3, <1>6 DEF Accounts

LEMMA WorkAccounts ==
  ASSUME Types, Taken, Owned, Accounts, NEW r \in Restores, NEW w \in Workers, Work(r, w)
  PROVE  Accounts'
<1>0. /\ next \in [Restores -> Nat \ {0}] /\ queue \in [Restores -> Seq({"ok", "err"})]
      /\ UNCHANGED <<flag, job, alone>>
  BY WorkStep DEF Types, TypeOK
<1>1. PICK new \in WorkerState :
        /\ SetWorker(r, w, new)
        /\ \/ Leaves(r, w, new) \/ Takes(r, w, new) \/ Places(r, w, new)
           \/ Reports(r, w, new) \/ Begins(r, w, new) \/ Writes(r, w, new)
           \/ Sends(r, w, new)
  BY WorkStep
<1>2. /\ worker'[r][w] = new
      /\ \A v \in Workers : v # w => worker'[r][v] = worker[r][v]
      /\ \A q \in Restores : q # r => worker'[q] = worker[q]
  BY <1>1, SetWorkerTyped DEF Types
<1>3. worker[r][w].pc # "off" /\ job[r].pc # "idle" /\ job[r].result # "ok"
  <2>1. worker[r][w].pc # "off"
    BY <1>1 DEF Leaves, Takes, Places, Reports, Begins, Writes, Sends
  <2> QED BY <2>1 DEF Types, Shape, Accounts, Account, Finished
<1>4. ASSUME NEW q \in Restores, q # r PROVE Account(q)'
  <2>1. ~alone'[q]
    BY <1>0, <1>3, <1>4, NotAlone
  <2>2. next'[q] = next[q] /\ queue'[q] = queue[q]
    BY <1>0, <1>1, <1>4 DEF Leaves, Takes, Places, Reports, Begins, Writes, Sends
  <2> QED BY <1>0, <1>2, <1>4, <2>1, <2>2, SameAccount DEF Accounts
<1>5. FilesOf(r)' = FilesOf(r)
  BY <1>0 DEF FilesOf
<1>6. job[r].req \in Request /\ Files[job[r].req.snap] \in Nat
  BY <1>3, FilesAssumption DEF Types, Shape, Request
<1>7. ASSUME Fine(r)' PROVE Fine(r) /\ Counted(r) /\ Covered(r)
  <2>1. \A v \in Workers : worker[r][v].pc = "send" => worker[r][v].msg = "ok"
    <3>1. worker[r][w].pc = "send" => worker[r][w].msg = "ok"
      <4>1. CASE Sends(r, w, new)
        <5>1. /\ Len(queue'[r]) = Len(queue[r]) + 1 /\ Len(queue[r]) \in Nat
              /\ queue'[r][Len(queue[r]) + 1] = worker[r][w].msg
          BY <1>0, <4>1 DEF Sends
        <5> QED BY <1>7, <5>1 DEF Fine, NoErr
      <4> QED BY <1>1, <4>1 DEF Leaves, Takes, Places, Reports, Begins, Writes
    <3> QED BY <1>2, <1>7, <3>1 DEF Fine, NoErr
  <2>2. \A i \in 1..Len(queue[r]) : queue[r][i] = "ok"
    <3>1. CASE queue' = queue
      BY <1>7, <3>1 DEF Fine, NoErr
    <3>2. CASE Sends(r, w, new)
      <4>1. /\ Len(queue'[r]) = Len(queue[r]) + 1 /\ Len(queue[r]) \in Nat
            /\ \A i \in 1..Len(queue[r]) : queue'[r][i] = queue[r][i]
        BY <1>0, <3>2 DEF Sends
      <4> QED BY <1>7, <4>1 DEF Fine, NoErr
    <3> QED BY <1>1, <3>1, <3>2 DEF Leaves, Takes, Places, Reports, Begins, Writes
  <2>3. Fine(r)
    BY <1>0, <1>7, <2>1, <2>2 DEF Fine, NoErr
  <2> QED BY <2>3 DEF Accounts, Account
<1>8. ASSUME Fine(r)' PROVE Counted(r)'
  <2>0. /\ next[r] \in Nat /\ Len(queue[r]) \in Nat /\ job[r].done \in Nat
        /\ IsFiniteSet(Busy(r)) /\ Cardinality(Busy(r)) \in Nat /\ ~flag[r]
    BY <1>0, <1>7, <1>8, BusyFinite DEF Types, TypeOK, JobState, Fine
  <2>1. CASE Leaves(r, w, new)
    <3>1. worker[r][w].pc = "take" /\ next[r] \notin FilesOf(r) /\ UNCHANGED <<next, queue>>
      BY <2>0, <2>1 DEF Leaves
    <3>2. Busy(r)' = Busy(r)
      BY <1>2, <2>1, <3>1 DEF Leaves, Busy
    <3> QED BY <1>0, <1>2, <1>5, <1>6, <1>7, <1>8, <3>1, <3>2 DEF Counted, Request
  <2>2. CASE Takes(r, w, new)
    <3>1. Busy(r)' = Busy(r) \cup {w} /\ w \notin Busy(r)
      BY <1>2, <2>2 DEF Takes, Busy
    <3>2. Cardinality(Busy(r)') = Cardinality(Busy(r)) + 1
      BY <2>0, <3>1, FS_AddElement
    <3>3. next'[r] = next[r] + 1 /\ UNCHANGED queue /\ next[r] \in 1..Files[job[r].req.snap]
      BY <1>0, <2>2 DEF Takes, FilesOf
    <3>4. \A v \in job[r].req.workers : worker'[r][v].pc # "off"
      BY <1>2, <1>6, <1>7, <1>8, <2>2 DEF Takes, Counted, Request
    <3>5. Balanced(next[r], job[r].done, Len(queue[r]), Cardinality(Busy(r)))
      BY <1>7, <1>8 DEF Counted
    <3>6. Balanced(next'[r], job'[r].done, Len(queue'[r]), Cardinality(Busy(r)'))
      <4>1. Balanced(next[r] + 1, job[r].done, Len(queue[r]), Cardinality(Busy(r)) + 1)
        <5>1. /\ next[r] \in Int /\ job[r].done \in Int
              /\ Len(queue[r]) \in Int /\ Cardinality(Busy(r)) \in Int
          BY <2>0
        <5> QED BY <3>5, <5>1, BalanceTakes
      <4>2. next'[r] = next[r] + 1 /\ job'[r].done = job[r].done /\ queue'[r] = queue[r]
        BY <1>0, <3>3
      <4> QED BY <3>2, <4>1, <4>2
    <3>7. next'[r] <= Files[job'[r].req.snap] + 1
      BY <1>0, <1>6, <2>0, <3>3
    <3> QED BY <1>0, <3>4, <3>6, <3>7 DEF Counted
  <2>3. CASE Places(r, w, new) \/ Reports(r, w, new) \/ Begins(r, w, new) \/ Writes(r, w, new)
    <3>1. UNCHANGED <<next, queue>> /\ new.pc # "off"
      BY <2>3 DEF Places, Reports, Begins, Writes
    <3>2. Busy(r)' = Busy(r)
      BY <1>2, <2>3 DEF Places, Reports, Begins, Writes, Busy
    <3> QED BY <1>0, <1>2, <1>5, <1>6, <1>7, <1>8, <3>1, <3>2 DEF Counted, Request
  <2>4. CASE Sends(r, w, new)
    <3>1. Busy(r)' = Busy(r) \ {w} /\ w \in Busy(r)
      BY <1>2, <2>4 DEF Sends, Busy
    <3>2. Cardinality(Busy(r)') = Cardinality(Busy(r)) - 1
      BY <2>0, <3>1, FS_RemoveElement
    <3>3. UNCHANGED next /\ Len(queue'[r]) = Len(queue[r]) + 1
      BY <1>0, <2>4 DEF Sends
    <3>4. new.pc = "take"
      BY <1>7, <1>8, <2>4 DEF Sends, Fine, NoErr
    <3>5. \A v \in job[r].req.workers : worker'[r][v].pc = "off" => worker[r][v].pc = "off"
      BY <1>2, <1>6, <3>4 DEF Request
    <3>6. /\ Balanced(next[r], job[r].done, Len(queue[r]), Cardinality(Busy(r)))
          /\ next[r] <= Files[job[r].req.snap] + 1
          /\ \A v \in job[r].req.workers : worker[r][v].pc = "off" => next[r] \notin FilesOf(r)
      BY <1>7, <1>8 DEF Counted
    <3>7. Balanced(next'[r], job'[r].done, Len(queue'[r]), Cardinality(Busy(r)'))
      <4>1. Balanced(next[r], job[r].done, Len(queue[r]) + 1, Cardinality(Busy(r)) - 1)
        <5>1. /\ next[r] \in Int /\ job[r].done \in Int
              /\ Len(queue[r]) \in Int /\ Cardinality(Busy(r)) \in Int
          BY <2>0
        <5> QED BY <3>6, <5>1, BalanceSends
      <4>2. /\ next'[r] = next[r] /\ job'[r].done = job[r].done
            /\ Len(queue'[r]) = Len(queue[r]) + 1
        BY <1>0, <3>3
      <4> QED BY <3>2, <4>1, <4>2
    <3> QED BY <1>0, <1>5, <3>3, <3>5, <3>6, <3>7 DEF Counted
  <2> QED BY <1>1, <2>1, <2>2, <2>3, <2>4
<1>9. ASSUME Fine(r)' PROVE Covered(r)'
  <2> SUFFICES ASSUME alone[r], job[r].req.policy # "skip", NEW f \in 1..next'[r] - 1
               PROVE  Whole(r, f)' \/ \E v \in Workers : At(r, v)' /\ worker'[r][v].file = f
    BY <1>0 DEF Covered
  <2>0. /\ \A v \in Workers : v # w => (At(r, v)' <=> At(r, v))
        /\ At(r, w)' <=> new.pc \in {"place", "begin", "write"}
        /\ ~flag[r] /\ next[r] \in Nat
    BY <1>0, <1>2, <1>9 DEF At, Fine
  <2>1. ASSUME f \in 1..next[r] - 1
        PROVE  Whole(r, f) \/ \E v \in Workers : At(r, v) /\ worker[r][v].file = f
    BY <1>7, <1>9, <2>1 DEF Covered
  <2>2. CASE Leaves(r, w, new) \/ Sends(r, w, new)
    <3>1. UNCHANGED <<next, disk>> /\ ~At(r, w)
      BY <2>0, <2>2 DEF Leaves, Sends, At
    <3> QED BY <1>2, <2>0, <2>1, <3>1 DEF Whole
  <2>3. CASE Takes(r, w, new)
    <3>1. UNCHANGED disk /\ ~At(r, w) /\ next'[r] = next[r] + 1 /\ new.pc = "place" /\ new.file = next[r]
      BY <1>0, <2>3 DEF Takes, At
    <3>2. CASE f = next[r]
      BY <1>2, <2>0, <3>1, <3>2
    <3>3. CASE f # next[r]
      <4>1. f \in 1..next[r] - 1
        BY <2>0, <3>1, <3>3
      <4> QED BY <1>2, <2>0, <2>1, <3>1, <4>1 DEF Whole
    <3> QED BY <3>2, <3>3
  <2>4. CASE Places(r, w, new)
    <3>1. UNCHANGED <<next, disk>> /\ new.pc = "begin" /\ new.file = worker[r][w].file
      BY <2>4 DEF Places
    <3> QED BY <1>2, <2>0, <2>1, <3>1 DEF Whole
  <2>5. CASE Reports(r, w, new)
    <3>1. new.pc = "send" /\ new.msg = "err"
      BY <2>5 DEF Reports
    <3> QED BY <1>2, <1>9, <3>1, NoneAssumption DEF Fine, NoErr
  <2>6. CASE Begins(r, w, new)
    <3>1. /\ UNCHANGED next /\ new.pc = "write" /\ new.file = worker[r][w].file
          /\ \A g \in Paths, k \in 0..Renames :
               g # new.file \/ k # new.slot => disk'[g][k] = disk[g][k]
      BY SMTT(60), <2>6, DiskBegins DEF Begins
    <3>2. CASE f = new.file
      BY <1>2, <2>0, <3>1, <3>2
    <3>3. CASE f # new.file
      <4>1. f \in Paths
        BY <1>6, <1>7, <1>9, <2>0, <3>1 DEF Counted, Paths, Request
      <4> QED BY <1>2, <2>0, <2>1, <3>1, <3>3, <4>1 DEF Whole
    <3> QED BY <3>2, <3>3
  <2>7. CASE Writes(r, w, new)
    <3> DEFINE g == worker[r][w].file
               k == worker[r][w].slot
    <3>1. /\ g \in Paths /\ k \in 0..Renames
          /\ disk'[g][k] = [st |-> IF disk[g][k].by = r THEN "whole" ELSE "partial",
                            by |-> disk[g][k].by]
          /\ \A h \in Paths, j \in 0..Renames : h # g \/ j # k => disk'[h][j] = disk[h][j]
      <4>1. WrittenAt(r, g, k)
        BY <2>7, DiskWrites
      <4> QED BY <4>1 DEF WrittenAt
    <3>2. disk[g][k] = [st |-> "partial", by |-> r] /\ UNCHANGED next
      BY <2>7 DEF Writes, Owned, Lone
    <3> HIDE DEF g, k
    <3>3. disk'[g][k] = [st |-> "whole", by |-> r]
      BY <3>1, <3>2
    <3>4. CASE f = g
      BY <3>1, <3>3, <3>4 DEF Whole
    <3>5. CASE f # g
      <4>1. f \in Paths
        BY <1>6, <1>7, <1>9, <2>0, <3>2 DEF Counted, Paths, Request
      <4>2. Whole(r, f) => Whole(r, f)'
        BY <3>1, <3>5, <4>1 DEF Whole
      <4>3. \A v \in Workers : At(r, v) /\ worker[r][v].file = f => v # w
        BY <3>5 DEF g
      <4> QED BY <1>2, <2>0, <2>1, <3>2, <4>2, <4>3
    <3> QED BY <3>4, <3>5
  <2> QED BY <1>1, <2>2, <2>3, <2>4, <2>5, <2>6, <2>7
<1>10. Account(r)'
  <2>1. job[r].pc # "load"
    BY <1>3 DEF Types, Shape
  <2> QED BY <1>0, <1>3, <1>8, <1>9, <2>1 DEF Account
<1> QED BY <1>4, <1>10 DEF Accounts

LEMMA AccountsKept == Types /\ Taken /\ Owned /\ Accounts /\ [Next]_vars => Accounts'
<1> SUFFICES ASSUME Types, Taken, Owned, Accounts, [Next]_vars PROVE Accounts'
  OBVIOUS
<1>1. ASSUME NEW s \in Snapshots, Cancel(s) PROVE Accounts'
  <2>1. /\ UNCHANGED <<job, next, worker, queue, disk, alone>>
        /\ \A r \in Restores : flag[r] => flag'[r]
    BY <1>1 DEF Cancel, Types, TypeOK
  <2> QED BY <2>1, SameAccount DEF Accounts
<1>2. CASE UNCHANGED vars
  <2>1. UNCHANGED <<job, next, worker, queue, flag, disk, alone>>
    BY <1>2 DEF vars
  <2> QED BY <2>1, SameAccount DEF Accounts
<1> QED BY <1>1, <1>2, StartAccounts, CommandAccounts, WorkAccounts DEF Next

(* A restore that answers Ok reported every file once, and, if no other run *)
(* overlapped it, has written every file of the manifest whole.             *)
THEOREM OkIsWhole == Spec => []OkMeansWhole
<1>1. Accounts => OkMeansWhole
  BY DEF Accounts, Account, Finished, Whole, OkMeansWhole
<1> QED BY AlwaysOwned, AccountsInit, AccountsKept, <1>1, PTL DEF Spec
=============================================================================
