------------------------------ MODULE CopyFile ------------------------------
(***************************************************************************)
(* Runs of copy_file jobs of the desktop (copyNow of App.tsx) that copy to *)
(* the same destination at once, and what they share per connection: the   *)
(* presence cache (which chunks the destination has) and the uploads in    *)
(* flight, each awaited by the runs that need the same chunk.              *)
(*                                                                         *)
(* One JavaScript thread: a step runs from one await to the next, and      *)
(* includes the answer of the request it awaited.  The destination server  *)
(* is external; its GC deletes chunks no manifest refers to.               *)
(***************************************************************************)
EXTENDS Naturals, Sequences, FiniteSets, Functions

CONSTANTS
  Runs,      \* runs of copyNow, of different jobs or of one job tried again
  Chunks,    \* chunk hashes
  Names,     \* the path asked for and its renamings: 1..Names; 0: another path
  Jobs,      \* the jobs of the runs: chunks of the source file, base, policy
  Workers,   \* chunk workers of a run: 1..n
  Tries,     \* uploads are tried this often
  MaxHave,   \* chunks the presence cache remembers
  Before,    \* sets of chunks the server may have at first
  None

Policies == {"overwrite", "skip", "rename"}
JobType  == [chunks: Seq(Chunks), base: SUBSET (0..Names), policy: Policies]

ASSUME JobsAssumption  == Jobs \subseteq [Runs -> JobType]
ASSUME TriesAssumption == Tries \in Nat \ {0}
ASSUME NamesAssumption == Names \in Nat \ {0}
ASSUME BeforeAssumption == Before \subseteq SUBSET Chunks
ASSUME WorkersAssumption == Workers \subseteq Nat /\ 1 \in Workers
ASSUME NoneAssumption  == None \notin Runs \X Workers

VARIABLES
  job,       \* per run: its job
  run,       \* per run: the local variables of copyNow, and its AbortController
  worker,    \* per run and worker: the chunk it copies
  have,      \* presenceCacheRef: haveLRU
  missing,   \* presenceCacheRef: missingUntilMs
  inflight,  \* inflightChunksRef: per chunk, the worker whose upload is awaited
  stored,    \* server: chunks
  manifest,  \* server: per run, the manifest of the snapshot it created
  swept      \* history: chunks a GC has deleted

local  == <<job, run, worker>>
shared == <<have, missing, inflight>>
server == <<stored, manifest, swept>>
vars   == <<local, shared, server>>

Slots  == Runs \X Workers
Source(r) == Range(job[r].chunks)

NotBegun == [pc |-> "idle", kept |-> {}, name |-> 1, mode |-> "chunks", todo |-> {},
             aborted |-> FALSE, blind |-> FALSE, says |-> FALSE, out |-> "none"]
Off      == [pc |-> "off", chunk |-> None, tries |-> 0]

(* Histories of a run: blind, it went on without its base manifest; says, a *)
(* request of its own failed with an error that only says "aborted".        *)
RunState ==
  [pc: {"idle", "base", "source", "file", "check", "copy", "put", "end"},
   kept: SUBSET (0..Names), name: 1..Names, mode: {"chunks", "file"},
   todo: SUBSET Nat, aborted: BOOLEAN, blind: BOOLEAN, says: BOOLEAN,
   out: {"none", "done", "failed", "canceled"}]
WorkerState ==
  [pc: {"off", "take", "put", "lead", "follow"}, chunk: Chunks \cup {None}, tries: 0..Tries]

TypeOK ==
  /\ job \in Jobs
  /\ run \in [Runs -> RunState]
  /\ worker \in [Slots -> WorkerState]
  /\ have \subseteq Chunks /\ missing \subseteq Chunks
  /\ inflight \in [Chunks -> Slots \cup {None}]
  /\ stored \subseteq Chunks /\ swept \subseteq Chunks
  /\ manifest \in [Runs -> SUBSET ((0..Names) \X {"base", "copy"})]

Init ==
  /\ job \in Jobs
  /\ run = [r \in Runs |-> NotBegun]
  /\ worker = [s \in Slots |-> Off]
  /\ have = {} /\ missing = {}
  /\ inflight = [c \in Chunks |-> None]
  /\ stored \in Before
  /\ manifest = [r \in Runs |-> {}]
  /\ swept = {}

-----------------------------------------------------------------------------
(* Before the chunks.                                                       *)

At(r, pc) == run[r].pc = pc
Goto(r, pc) == run' = [run EXCEPT ![r].pc = pc]

(* Variant: an error of any kind is taken for a cancel. *)
FailedCanceled(x) == [x EXCEPT !.pc = "end", !.out = "canceled"]

(* The catch clause: "canceled" for an AbortError, with which every request *)
(* of an aborted run ends, and for an error whose message says "aborted",   *)
(* as that of a broken connection may.                                      *)
Failed(x) ==
  [x EXCEPT !.pc = "end", !.out = IF x.aborted \/ x.says THEN "canceled" ELSE "failed"]
Errors(r) == {x \in {run[r], [run[r] EXCEPT !.says = TRUE]} : run[r].aborted => x = run[r]}
Fail(r) == \E x \in Errors(r) : run' = [run EXCEPT ![r] = Failed(x)]

(* choosePath: when every name is taken, the first one again.               *)
NewName(names) ==
  LET free == (1..Names) \ names
  IN  IF free = {} THEN 1 ELSE CHOOSE n \in free : \A k \in free : n <= k

(* The files of the base are kept, and the path of the copy is chosen.      *)
Choose(r, names, blind) ==
  run' = [run EXCEPT ![r] =
    IF 1 \in names /\ job[r].policy = "skip"
    THEN [@ EXCEPT !.pc = "end", !.out = "done", !.kept = names]
    ELSE [@ EXCEPT !.pc = "source", !.kept = names, !.blind = run[r].blind \/ blind,
                   !.name = IF job[r].policy = "rename" THEN NewName(names) ELSE 1]]

Begin(r) ==
  /\ At(r, "idle")
  /\ \/ job[r].base = {} /\ Choose(r, {}, FALSE)
     \/ job[r].base # {} /\ Goto(r, "base")
  /\ UNCHANGED <<job, worker, shared, server>>

(* A base manifest that cannot be loaded counts as an empty one, and so     *)
(* does one whose request is aborted.                                       *)
Base(r) ==
  /\ At(r, "base")
  /\ \/ ~run[r].aborted /\ Choose(r, job[r].base, FALSE)
     \/ Choose(r, {}, ~run[r].aborted)
  /\ UNCHANGED <<job, worker, shared, server>>

(* Without a chunk list of the source file (its manifest has none, or could *)
(* not be loaded) the whole file is downloaded and chunked again.           *)
SourceManifest(r) ==
  /\ At(r, "source")
  /\ \/ ~run[r].aborted /\ job[r].chunks # <<>> /\ Goto(r, "check")
     \/ run' = [run EXCEPT ![r].pc = "file", ![r].mode = "file"]
  /\ UNCHANGED <<job, worker, shared, server>>

SourceFile(r) ==
  /\ At(r, "file")
  /\ \/ ~run[r].aborted /\ Goto(r, "check")
     \/ Fail(r)
  /\ UNCHANGED <<job, worker, shared, server>>

(* haveLRU forgets the oldest chunks beyond its limit (here: any of them).  *)
Remembered(S) ==
  IF Cardinality(S) <= MaxHave THEN {S} ELSE {T \in SUBSET S : Cardinality(T) = MaxHave}

(* ensureMissingOnDestShared: the server is asked about the chunks that are *)
(* neither known to be there nor known to be missing, which holds for 30    *)
(* seconds.  Then the workers start on the positions of missing chunks.     *)
Check(r) ==
  \E recent \in SUBSET missing :
    LET asked   == Source(r) \ (have \cup recent)
        absent  == ((Source(r) \cap recent) \ have) \cup (asked \ stored)
        todo    == {i \in DOMAIN job[r].chunks : job[r].chunks[i] \in absent}
        width   == IF run[r].mode = "file" \/ todo = {} THEN 1 ELSE Cardinality(todo)
    IN
    /\ At(r, "check")
    /\ \/ /\ asked = {} \/ ~run[r].aborted
          /\ have' \in Remembered(have \cup (asked \cap stored))
          /\ missing' = recent \cup (asked \ stored)
          /\ run' = [run EXCEPT ![r].pc = "copy", ![r].todo = todo]
          /\ worker' = [s \in Slots |->
               IF s[1] = r /\ s[2] <= width THEN [Off EXCEPT !.pc = "take"] ELSE worker[s]]
       \/ /\ asked # {} /\ Fail(r) /\ UNCHANGED <<worker, have, missing>>
    /\ UNCHANGED <<job, inflight, server>>

-----------------------------------------------------------------------------
(* The chunk workers.  When one of them fails, Promise.all ends the run and *)
(* the others go on with the chunks that are left.                          *)

Copying(s, pc) == worker[s].pc = pc
Stop(s) == worker' = [worker EXCEPT ![s] = Off]
GiveUp(r) == IF run[r].out = "none" THEN Fail(r) ELSE UNCHANGED run

(* Takes the next chunk and downloads it, with retries; a file downloaded   *)
(* as a whole is at hand.                                                   *)
Take(s) ==
  LET r == s[1] IN
  /\ Copying(s, "take")
  /\ \/ run[r].todo = {} /\ Stop(s) /\ UNCHANGED run
     \/ \E i \in run[r].todo :
          /\ \A k \in run[r].todo : i <= k
          /\ run[r].mode = "chunks" => ~run[r].aborted
          /\ run' = [run EXCEPT ![r].todo = @ \ {i}]
          /\ worker' = [worker EXCEPT ![s] =
                          [pc |-> "put", chunk |-> job[r].chunks[i], tries |-> Tries]]
     \/ /\ run[r].todo # {} /\ run[r].mode = "chunks"
        /\ GiveUp(r) /\ Stop(s)
  /\ UNCHANGED <<job, shared, server>>

(* putChunkDedup: awaits the upload of the chunk that is in flight, or      *)
(* starts one.                                                              *)
PutChunk(s) ==
  LET c == worker[s].chunk IN
  /\ Copying(s, "put")
  /\ \/ /\ ~run[s[1]].aborted /\ inflight[c] = None
        /\ inflight' = [inflight EXCEPT ![c] = s]
        /\ worker' = [worker EXCEPT ![s].pc = "lead"] /\ UNCHANGED run
     \/ /\ ~run[s[1]].aborted /\ inflight[c] # None
        /\ worker' = [worker EXCEPT ![s].pc = "follow"] /\ UNCHANGED <<run, inflight>>
     \/ run[s[1]].aborted /\ GiveUp(s[1]) /\ Stop(s) /\ UNCHANGED inflight
  /\ UNCHANGED <<job, have, missing, server>>

(* Variant: a failed upload stays in the map. *)
SettleKeeping(s, result) ==
  LET awaiting == {s} \cup {f \in Slots : Copying(f, "follow")
                                        /\ worker[f].chunk = worker[s].chunk}
  IN
  /\ inflight' = [inflight EXCEPT ![worker[s].chunk] = IF result = "ok" THEN None ELSE @]
  /\ worker' = [f \in Slots |->
       IF f \notin awaiting THEN worker[f]
       ELSE IF result = "ok" THEN [Off EXCEPT !.pc = "take"] ELSE Off]
  /\ run' = [q \in Runs |->
       IF run[q].out = "none" /\ result # "ok" /\ \E f \in awaiting : f[1] = q
       THEN [run[q] EXCEPT !.pc = "end",
                           !.out = IF result = "abort" THEN "canceled" ELSE "failed"]
       ELSE run[q]]

(* Variant: the followers are not told. *)
AwaitingAlone(s) == {s}

(* The upload ends: its leader and the followers all get the result.        *)
(* withRetry tries again unless the error counts as an abort, and that of   *)
(* the leader counts as one for its followers too.                          *)
Awaiting(s) ==
  {s} \cup {f \in Slots : Copying(f, "follow") /\ worker[f].chunk = worker[s].chunk}
RetriesOnceMore(f, result) == result = "error" /\ worker[f].tries >= 0
Retries(f, result) == result = "error" /\ worker[f].tries > 1
Gives(f, result)   == result # "ok" /\ ~Retries(f, result)

Settle(s, result) ==
  /\ inflight' = [inflight EXCEPT ![worker[s].chunk] = None]
  /\ worker' = [f \in Slots |->
       IF f \notin Awaiting(s) THEN worker[f]
       ELSE IF result = "ok" THEN [Off EXCEPT !.pc = "take"]
       ELSE IF Retries(f, result) THEN [worker[f] EXCEPT !.pc = "put", !.tries = @ - 1]
       ELSE Off]
  /\ run' = [q \in Runs |->
       LET x == [run[q] EXCEPT !.says = @ \/ (q = s[1] /\ result = "abort" /\ ~run[q].aborted)]
       IN  IF run[q].out = "none" /\ \E f \in Awaiting(s) : f[1] = q /\ Gives(f, result)
           THEN [x EXCEPT !.pc = "end",
                          !.out = IF result = "abort" THEN "canceled" ELSE "failed"]
           ELSE x]

(* Variant: the chunk counts as there when its upload starts. *)
UploadEndsMarked(s) ==
  LET c == worker[s].chunk IN
  /\ Copying(s, "lead")
  /\ have' \in Remembered(have \cup {c}) /\ missing' = missing \ {c}
  /\ \/ /\ ~run[s[1]].aborted /\ Settle(s, "ok")
        /\ stored' = stored \cup {c}
     \/ Settle(s, "error") /\ UNCHANGED stored
  /\ UNCHANGED <<job, manifest, swept>>

(* An upload that failed may have been carried out.  A follower that was    *)
(* aborted has left before.                                                 *)
UploadEnds(s) ==
  LET c == worker[s].chunk IN
  /\ Copying(s, "lead") /\ \A f \in Awaiting(s) \ {s} : ~run[f[1]].aborted
  /\ \/ /\ ~run[s[1]].aborted /\ Settle(s, "ok")
        /\ stored' = stored \cup {c}
        /\ have' \in Remembered(have \cup {c}) /\ missing' = missing \ {c}
     \/ /\ Settle(s, "abort") \/ (~run[s[1]].aborted /\ Settle(s, "error"))
        /\ stored' \in {stored, stored \cup {c}}
        /\ UNCHANGED <<have, missing>>
  /\ UNCHANGED <<job, manifest, swept>>

(* awaitWithAbort: a follower that is canceled itself. *)
FollowerAborted(s) ==
  /\ Copying(s, "follow") /\ run[s[1]].aborted
  /\ GiveUp(s[1]) /\ Stop(s)
  /\ UNCHANGED <<job, shared, server>>

-----------------------------------------------------------------------------
(* After the chunks.                                                        *)

CreateSnapshot(r) ==
  /\ At(r, "copy") /\ \A w \in Workers : Copying(<<r, w>>, "off")
  /\ \/ ~run[r].aborted /\ Goto(r, "put")
     \/ Fail(r)
  /\ UNCHANGED <<job, worker, shared, server>>

(* The entry of the copy replaces one of the base with the same path.       *)
FilesOf(r) ==
  ((run[r].kept \ {run[r].name}) \X {"base"}) \cup {<<run[r].name, "copy">>}

PutManifest(r) ==
  /\ At(r, "put")
  /\ \/ /\ ~run[r].aborted
        /\ run' = [run EXCEPT ![r].pc = "end", ![r].out = "done"]
        /\ manifest' = [manifest EXCEPT ![r] = FilesOf(r)]
     \/ /\ Fail(r)
        /\ manifest' \in {manifest, [manifest EXCEPT ![r] = FilesOf(r)]}
  /\ UNCHANGED <<job, worker, shared, stored, swept>>

-----------------------------------------------------------------------------

Cancel(r) ==
  /\ run[r].pc # "idle" /\ run[r].out = "none" /\ ~run[r].aborted
  /\ run' = [run EXCEPT ![r].aborted = TRUE]
  /\ UNCHANGED <<job, worker, shared, server>>

Referenced == UNION {Source(r) : r \in {q \in Runs : manifest[q] # {}}}

(* The server's chunk GC, as a whole and once (a bound). *)
Sweep ==
  /\ swept = {} /\ stored \ Referenced # {}
  /\ swept' = stored \ Referenced
  /\ stored' = stored \cap Referenced
  /\ UNCHANGED <<local, shared, manifest>>

RunSteps(r) ==
  \/ Base(r) \/ SourceManifest(r) \/ SourceFile(r) \/ Check(r)
  \/ CreateSnapshot(r) \/ PutManifest(r)
WorkerSteps(s) ==
  Take(s) \/ PutChunk(s) \/ UploadEnds(s) \/ FollowerAborted(s)

Proceed == (\E r \in Runs : RunSteps(r)) \/ (\E s \in Slots : WorkerSteps(s))

Next == Proceed \/ (\E r \in Runs : Begin(r) \/ Cancel(r)) \/ Sweep

(* The event loop runs whatever is ready, and requests end; Begin and       *)
(* Cancel are the user's.                                                   *)
Fairness == WF_vars(Proceed)

Spec == Init /\ [][Next]_vars /\ Fairness

-----------------------------------------------------------------------------

(* An upload in the map goes on, there is one per chunk, and whoever awaits *)
(* an upload of a chunk will hear of its end, also when the run that sends  *)
(* it has failed meanwhile.                                                 *)
UploadsShared ==
  /\ \A c \in Chunks : inflight[c] # None =>
       Copying(inflight[c], "lead") /\ worker[inflight[c]].chunk = c
  /\ \A s \in Slots :
       /\ Copying(s, "lead") => inflight[worker[s].chunk] = s
       /\ Copying(s, "follow") => inflight[worker[s].chunk] # None

(* A canceled run ends as canceled: neither an ignored error of a manifest  *)
(* nor an upload sent by another run lets it end otherwise.                 *)
CanceledShown ==
  \A r \in Runs : run[r].aborted => run[r].out \in {"none", "canceled"}

(* A run that ends as canceled was canceled, or one of its requests failed  *)
(* with an error that says "aborted", or this is so of a run with a chunk   *)
(* in common: the followers of an upload get the error of its leader.       *)
CanceledFor ==
  \A r \in Runs : run[r].out = "canceled" =>
    \E q \in Runs : /\ run[q].aborted \/ run[q].says
                    /\ q = r \/ Source(q) \cap Source(r) # {}

(* What is shown as canceled is what somebody has canceled, or a request    *)
(* that failed with an error that says so.                                  *)
CancelsMatch == CanceledShown /\ CanceledFor

(* The manifest of a copy has its chunks on the server, whoever uploaded    *)
(* them, unless a GC has deleted them: that is all a stale presence cache   *)
(* can lead to.                                                             *)
LostOnlyToGc ==
  /\ have \subseteq stored \cup swept
  /\ \A r \in Runs : manifest[r] # {} => Source(r) \subseteq stored \cup swept

(* A done copy keeps every file of the base snapshot but the one it was     *)
(* asked to overwrite (or had no name left for), or it was skipped.  The    *)
(* one exception: a run whose GET of the base manifest failed has gone on   *)
(* without the files of the base.                                           *)
BaseKept ==
  \A r \in Runs : run[r].out = "done" =>
    \/ run[r].blind
    \/ job[r].policy = "skip" /\ 1 \in job[r].base
    \/ \A n \in job[r].base :
         \/ <<n, "base">> \in manifest[r]
         \/ n = 1 /\ (job[r].policy = "overwrite" \/ 1..Names \subseteq job[r].base)

(* A copy leaves a manifest that lacks neither chunks nor files, unless a   *)
(* GC met its chunks or its base manifest could not be loaded.              *)
ManifestsSound == LostOnlyToGc /\ BaseKept

(* Every run that was begun ends, and the workers it leaves behind do: no   *)
(* follower waits for ever.                                                 *)
RunsEnd ==
  <>[](\A r \in Runs : \/ At(r, "idle")
                       \/ At(r, "end") /\ \A w \in Workers : Copying(<<r, w>>, "off"))
=============================================================================
