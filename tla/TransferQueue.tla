--------------------------- MODULE TransferQueue ----------------------------
(***************************************************************************)
(* The transfer queue of the desktop app: the jobs kept by App.tsx, the    *)
(* functions that run them, and who starts them: the buttons and loops of  *)
(* the queue panes (TransferQueuePane.tsx) and the command palette.        *)
(*                                                                         *)
(* One JavaScript thread: an action is the code between two awaits.  A     *)
(* loop that runs several jobs works with the list of jobs of the render   *)
(* it was started in, so it starts a job whatever became of it since.      *)
(* React renders between two actions: buttons show the current jobs.       *)
(***************************************************************************)
EXTENDS Naturals, FiniteSets

CONSTANTS
  Jobs,        \* jobs, numbered by createdAt
  PluginJobs,  \* those that run a plugin process (the four SFTP kinds)
  Runs,        \* at most this many runs at once: 1..n
  QueuePanes,  \* queue panes mounted one after the other: 1..n
  AutoOn,      \* the queue setting "auto run"
  Concurrency, \* how many jobs a loop runs at once
  Nil

ASSUME JobsAssumption == Jobs \subseteq Nat /\ PluginJobs \subseteq Jobs /\ Nil \notin Jobs
ASSUME RunsAssumption == Runs \subseteq Nat /\ Nil \notin Runs

VARIABLES
  jobs,     \* transfers: the status of every job
  run,      \* the calls of downloadNow, copyNow, sftpUploadNow, ...
  aborter,  \* abortersRef: the run whose controller is in the map
  loop,     \* the loops of runTransfers, runAll and runSelected
  pane,     \* the panes: "unused", "mounted" or "gone"
  paused    \* the queue setting "paused", which panes keep in localStorage

queueVars == <<jobs, run, aborter, loop, pane, paused>>

(* runTransfers of App; runAll and runSelected of a pane. *)
Loops    == {<<0, "all">>} \cup QueuePanes \X {"all", "selected"}
Statuses == {"new", "queued", "running", "failed", "done", "removed"}

Free == [job |-> Nil, aborted |-> FALSE]
Idle == [todo |-> {}, waits |-> {}]

Live(r) == run[r].job # Nil
Busy(l) == loop[l] # Idle
Mounted(p) == pane[p] = "mounted"
Usable(p)  == Mounted(p) /\ ~Busy(<<p, "all">>) /\ ~paused
Startable(j) == jobs[j] \in {"queued", "failed"}
CanStart == \E r \in Runs : ~Live(r)

QueueTypeOK ==
  /\ jobs \in [Jobs -> Statuses]
  /\ run \in [Runs -> [job: Jobs \cup {Nil}, aborted: BOOLEAN]]
  /\ aborter \in [Jobs -> Runs \cup {Nil}]
  /\ loop \in [Loops -> [todo: SUBSET Jobs, waits: SUBSET Runs]]
  /\ pane \in [QueuePanes -> {"unused", "mounted", "gone"}]
  /\ paused \in BOOLEAN

QueueInit ==
  /\ jobs = [j \in Jobs |-> "new"]
  /\ run = [r \in Runs |-> Free]
  /\ aborter = [j \in Jobs |-> Nil]
  /\ loop = [l \in Loops |-> Idle]
  /\ pane = [p \in QueuePanes |-> "unused"]
  /\ paused = FALSE

-----------------------------------------------------------------------------
(* Running one job.                                                         *)

(* setTransfers maps over the list: a job that was removed stays removed.   *)
SetStatus(j, s) == jobs' = [jobs EXCEPT ![j] = IF @ = "removed" THEN @ ELSE s]

(* newAborter: aborts the controller of an earlier run of the same job.     *)
NewAborter(j, r) ==
  /\ aborter' = [aborter EXCEPT ![j] = r]
  /\ run' = [q \in Runs |->
               IF q = r THEN [Free EXCEPT !.job = j]
               ELSE IF q = aborter[j] THEN [run[q] EXCEPT !.aborted = TRUE]
               ELSE run[q]]

(* The start of a run, up to its first await.                               *)
Start(j, r) ==
  /\ ~Live(r) /\ \A q \in Runs : ~Live(q) => r <= q
  /\ SetStatus(j, "running")
  /\ NewAborter(j, r)

(* Variant: an ended run whose status is set, but whose controller stays.   *)
SettleKeeping(r, s) ==
  /\ SetStatus(run[r].job, s)
  /\ run' = [run EXCEPT ![r] = Free]
  /\ loop' = [l \in Loops |-> [loop[l] EXCEPT !.waits = @ \ {r}]]
  /\ UNCHANGED aborter

(* Variant: the loop is not told. *)
SettleSilent(r, s) ==
  /\ SetStatus(run[r].job, s)
  /\ run' = [run EXCEPT ![r] = Free]
  /\ aborter' = [aborter EXCEPT ![run[r].job] = Nil]
  /\ UNCHANGED loop

(* The end of a run: it sets the status, and its finally clause removes     *)
(* whatever controller the map holds for the job.  Who awaited it goes on.  *)
Settle(r, s) ==
  /\ SetStatus(run[r].job, s)
  /\ run' = [run EXCEPT ![r] = Free]
  /\ aborter' = [aborter EXCEPT ![run[r].job] = Nil]
  /\ loop' = [l \in Loops |-> [loop[l] EXCEPT !.waits = @ \ {r}]]

(* download, copy_file, copy_folder: the requests of an aborted run fail.   *)
RequestsEnd(r) ==
  /\ Live(r) /\ run[r].job \notin PluginJobs
  /\ \/ ~run[r].aborted /\ Settle(r, "done")
     \/ Settle(r, "failed")
  /\ UNCHANGED <<pane, paused>>

(* The plugin has done its work.  It counts as canceled if the run was      *)
(* aborted meanwhile.                                                       *)
PluginOk(r) ==
  /\ Live(r) /\ run[r].job \in PluginJobs
  /\ Settle(r, IF run[r].aborted THEN "failed" ELSE "done")
  /\ UNCHANGED <<pane, paused>>

(* The plugin fails, times out or is killed.                                *)
PluginError(r) ==
  /\ Live(r) /\ run[r].job \in PluginJobs
  /\ Settle(r, "failed")
  /\ UNCHANGED <<pane, paused>>

(* cancelTransfer: aborts the controller in the map, if there is one.  (It  *)
(* also asks the backend to kill the plugin, which then ends earlier.)      *)
Cancel(j) ==
  /\ jobs[j] = "running"
  /\ run' = [r \in Runs |-> [run[r] EXCEPT !.aborted = @ \/ r = aborter[j]]]
  /\ UNCHANGED <<jobs, aborter, loop, pane, paused>>

-----------------------------------------------------------------------------
(* The list.                                                                *)

Enqueue(j) ==
  /\ jobs[j] = "new" /\ \A i \in Jobs : i < j => jobs[i] # "new"
  /\ jobs' = [jobs EXCEPT ![j] = "queued"]
  /\ UNCHANGED <<run, aborter, loop, pane, paused>>

(* Remove does not look at the status: the run of a running job goes on.    *)
RemoveJob(j) ==
  /\ jobs[j] \notin {"new", "removed"}
  /\ jobs' = [jobs EXCEPT ![j] = "removed"]
  /\ UNCHANGED <<run, aborter, loop, pane, paused>>

ClearDone ==
  /\ \E j \in Jobs : jobs[j] = "done"
  /\ jobs' = [j \in Jobs |-> IF jobs[j] = "done" THEN "removed" ELSE jobs[j]]
  /\ UNCHANGED <<run, aborter, loop, pane, paused>>

(* The app stops while something runs and is started again: loadTransfers.  *)
QueueRestart ==
  /\ \E r \in Runs : Live(r)
  /\ jobs' = [j \in Jobs |-> IF jobs[j] = "running" THEN "failed" ELSE jobs[j]]
  /\ run' = [r \in Runs |-> Free]
  /\ aborter' = [j \in Jobs |-> Nil]
  /\ loop' = [l \in Loops |-> Idle]
  /\ pane' = [p \in QueuePanes |-> IF Mounted(p) THEN "gone" ELSE pane[p]]
  /\ UNCHANGED paused

-----------------------------------------------------------------------------
(* Who starts jobs.                                                         *)

(* The Run button of a job. *)
ClickRun(p, j) ==
  /\ Usable(p) /\ Startable(j)
  /\ \E r \in Runs : Start(j, r)
  /\ UNCHANGED <<loop, pane, paused>>

Modes == {{"queued"}, {"failed"}, {"queued", "failed"}}
Choice(mode) == {j \in Jobs : jobs[j] \in mode}

Launch(l, ids) ==
  /\ ids # {} /\ loop' = [loop EXCEPT ![l].todo = ids]
  /\ UNCHANGED <<jobs, run, aborter, pane, paused>>

(* The command palette: runAllBusyRef guards against a second pool only.    *)
RunTransfers ==
  /\ ~Busy(<<0, "all">>)
  /\ \E mode \in Modes : Launch(<<0, "all">>, Choice(mode))

RunAll(p) == Usable(p) /\ \E mode \in Modes : Launch(<<p, "all">>, Choice(mode))

(* runSelected neither sets the busy flag nor looks at it again; a second   *)
(* one is not started while one is going on (a bound of the model).         *)
RunSelected(p) ==
  /\ Usable(p) /\ ~Busy(<<p, "selected">>)
  /\ \E ids \in SUBSET {j \in Jobs : Startable(j)} : Launch(<<p, "selected">>, ids)

(* AutoRunner: mounted while there is something to run. *)
AutoReady(p) ==
  /\ Usable(p) /\ AutoOn /\ Choice({"queued"}) # {}
  /\ Cardinality(Choice({"running"})) < Concurrency
AutoRun(p) == AutoReady(p) /\ Launch(<<p, "all">>, Choice({"queued"}))

Width(l) == IF l[2] = "selected" THEN 1 ELSE Concurrency

(* One of the workers of a loop takes the next job and awaits its run.      *)
(* Neither the status of the job nor its removal is looked at again.        *)
Take(l) ==
  /\ Cardinality(loop[l].waits) < Width(l)
  /\ \E j \in loop[l].todo, r \in Runs :
       /\ \A k \in loop[l].todo : j <= k
       /\ Start(j, r)
       /\ loop' = [loop EXCEPT ![l] = [todo |-> @.todo \ {j}, waits |-> @.waits \cup {r}]]
  /\ UNCHANGED <<pane, paused>>

-----------------------------------------------------------------------------
(* The panes.  A pane that is mounted again is another one: it knows        *)
(* nothing of the loops of the first, which go on.                          *)

Mount(p) ==
  /\ pane[p] = "unused" /\ \A q \in QueuePanes : q < p => pane[q] = "gone"
  /\ pane' = [pane EXCEPT ![p] = "mounted"]
  /\ UNCHANGED <<jobs, run, aborter, loop, paused>>

Unmount(p) ==
  /\ Mounted(p)
  /\ pane' = [pane EXCEPT ![p] = "gone"]
  /\ UNCHANGED <<jobs, run, aborter, loop, paused>>

(* The pause button is off while a job runs or the pane is busy.            *)
TogglePause(p) ==
  /\ Mounted(p) /\ ~Busy(<<p, "all">>)
  /\ Choice({"running"}) = {}
  /\ paused' = ~paused
  /\ UNCHANGED <<jobs, run, aborter, loop, pane>>

-----------------------------------------------------------------------------

RunSteps(r)  == RequestsEnd(r) \/ PluginOk(r) \/ PluginError(r)
QueuePaneSteps(p) == Mount(p) \/ Unmount(p) \/ TogglePause(p) \/ RunAll(p) \/ RunSelected(p) \/ AutoRun(p)
JobSteps(j)  == Enqueue(j) \/ RemoveJob(j) \/ Cancel(j)

QueueNext ==
  \/ \E r \in Runs : RunSteps(r)
  \/ \E l \in Loops : Take(l)
  \/ \E p \in QueuePanes : QueuePaneSteps(p)
  \/ \E p \in QueuePanes, j \in Jobs : ClickRun(p, j)
  \/ \E j \in Jobs : JobSteps(j)
  \/ RunTransfers \/ ClearDone \/ QueueRestart

(* The event loop runs what is ready; requests and plugins end (they have   *)
(* time limits); a timer of an AutoRunner fires.                            *)
Fairness ==
  /\ \A r \in Runs : WF_queueVars(RunSteps(r))
  /\ \A l \in Loops : SF_queueVars(Take(l))

QueueSpec == QueueInit /\ [][QueueNext]_queueVars /\ Fairness

-----------------------------------------------------------------------------

(* Whatever runs overlap, abort and clean up after each other: a job that   *)
(* is shown as running is worked on, and its cancel button reaches a run    *)
(* of that very job.                                                        *)
RunningIsCancellable ==
  \A j \in Jobs : jobs[j] = "running" =>
    /\ aborter[j] # Nil
    /\ run[aborter[j]].job = j

(* A controller in the map belongs to a run of its job that goes on, and    *)
(* that job is shown as running: no end of another run of the job has       *)
(* changed its status meanwhile.                                            *)
AbortersLive ==
  \A j \in Jobs : aborter[j] # Nil =>
    /\ run[aborter[j]].job = j
    /\ jobs[j] \in {"running", "removed"}

(* The map of controllers and the list of jobs tell the same story.         *)
AbortersMatch == RunningIsCancellable /\ AbortersLive

(* A loop awaits only runs that go on: none of its workers waits for ever.  *)
WaitsLive == \A l \in Loops : \A r \in loop[l].waits : Live(r)

(* docs/acceptance.md: the queue is not wedged.  Every loop ends, so its    *)
(* busy flag is released, whatever is canceled, removed or run twice.       *)
LoopsEnd == \A l \in Loops : Busy(l) ~> ~Busy(l)
=============================================================================
