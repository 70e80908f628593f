--------------------------- MODULE CopyFile_proofs ---------------------------
(***************************************************************************)
(* Runs of copy_file jobs to one destination, for any number of runs,      *)
(* chunks, workers and attempts: shared uploads, cancels, and what the     *)
(* manifests lack.                                                         *)
(***************************************************************************)
EXTENDS CopyFile, LeastNumber, FiniteSetTheorems, TLAPS

USE JobsAssumption, TriesAssumption, NamesAssumption, BeforeAssumption, WorkersAssumption,
    NoneAssumption

-----------------------------------------------------------------------------
(* What one step does to a run and to its workers.                          *)

(* Only run r changes; its abort flag does not, nor are its histories lost. *)
Moves(r) ==
  /\ run' \in [Runs -> RunState]
  /\ \A q \in Runs : q # r => run'[q] = run[q]
  /\ run'[r].aborted = run[r].aborted
  /\ (run[r].blind => run'[r].blind) /\ (run[r].says => run'[r].says)

Ends(r) ==
  /\ run'[r].pc = "end" /\ run'[r].todo = run[r].todo
  /\ run'[r].out = IF run[r].aborted \/ run'[r].says THEN "canceled" ELSE "failed"

LEMMA FailEnds ==
  ASSUME NEW r \in Runs, run \in [Runs -> RunState], Fail(r)
  PROVE  Moves(r) /\ Ends(r)
<1>1. PICK e \in Errors(r) : run' = [run EXCEPT ![r] = Failed(e)]
  BY DEF Fail
<1> DEFINE x == Failed(e)
<1>2. run[r] \in RunState
  OBVIOUS
<1>3. /\ e \in RunState /\ e.aborted = run[r].aborted /\ e.todo = run[r].todo
      /\ e.blind = run[r].blind /\ (run[r].says => e.says)
  <2>1. CASE e = run[r]
    BY <1>2, <2>1
  <2>2. CASE e = [run[r] EXCEPT !.says = TRUE]
    BY <1>2, <2>2 DEF RunState
  <2> QED BY <2>1, <2>2 DEF Errors
<1> HIDE DEF Errors
<1> DEFINE o == IF e.aborted \/ e.says THEN "canceled" ELSE "failed"
<1>4. o \in {"canceled", "failed"} /\ x = [e EXCEPT !.pc = "end", !.out = o]
  BY DEF Failed
<1> HIDE DEF x, o
<1>5. /\ x \in RunState /\ x.aborted = e.aborted /\ x.pc = "end" /\ x.todo = e.todo
      /\ x.blind = e.blind /\ x.says = e.says /\ x.out = o
  BY <1>3, <1>4 DEF RunState
<1>6. run'[r] = x /\ run' \in [Runs -> RunState] /\ \A q \in Runs : q # r => run'[q] = run[q]
  BY <1>1, <1>5 DEF x
<1>7. Moves(r)
  BY <1>3, <1>5, <1>6 DEF Moves
<1>8. Ends(r)
  BY <1>3, <1>5, <1>6 DEF Ends, o
<1> QED BY <1>7, <1>8

LEMMA GotoMoves ==
  ASSUME NEW r \in Runs, run \in [Runs -> RunState],
         NEW p \in {"idle", "base", "source", "file", "check", "copy", "put", "end"}, Goto(r, p)
  PROVE  /\ Moves(r) /\ run'[r].pc = p /\ run'[r].out = run[r].out
         /\ run'[r].kept = run[r].kept /\ run'[r].name = run[r].name
         /\ run'[r].todo = run[r].todo /\ run'[r].mode = run[r].mode
<1> DEFINE x == [run[r] EXCEPT !.pc = p]
<1>1. run[r] \in RunState
  OBVIOUS
<1>2. /\ x \in RunState /\ x.blind = run[r].blind /\ x.says = run[r].says
      /\ x.aborted = run[r].aborted /\ x.pc = p /\ x.out = run[r].out
      /\ x.kept = run[r].kept /\ x.name = run[r].name /\ x.todo = run[r].todo
      /\ x.mode = run[r].mode
  BY <1>1 DEF RunState
<1>3. run' = [run EXCEPT ![r] = x]
  BY DEF Goto
<1> HIDE DEF x
<1> QED BY <1>2, <1>3 DEF Moves

(* How choosePath ends: the copy is skipped, or it has a name. *)
Named(r, names) ==
  /\ job[r].policy = "skip" => 1 \notin names
  /\ job[r].policy # "rename" => run'[r].name = 1
  /\ job[r].policy = "rename" => run'[r].name = NewName(names)

LEMMA NewNameFree ==
  ASSUME NEW names
  PROVE  /\ NewName(names) \in 1..Names
         /\ NewName(names) \in names => 1..Names \subseteq names /\ NewName(names) = 1
<1> DEFINE free == (1..Names) \ names
<1>1. CASE free = {}
  BY <1>1 DEF NewName
<1>2. CASE free # {}
  <2>1. free \in SUBSET Nat
    OBVIOUS
  <2>2. \E n \in free : \A k \in free : n <= k
    BY <1>2, <2>1, NatMin
  <2>3. NewName(names) = CHOOSE n \in free : \A k \in free : n <= k
    BY <1>2 DEF NewName
  <2>4. NewName(names) \in free
    BY <2>2, <2>3
  <2> QED BY <2>4
<1> QED BY <1>1, <1>2

LEMMA ChooseMoves ==
  ASSUME NEW r \in Runs, run \in [Runs -> RunState], NEW names \in SUBSET (0..Names),
         NEW lost \in BOOLEAN, Choose(r, names, lost)
  PROVE  /\ Moves(r) /\ run'[r].kept = names /\ run'[r].todo = run[r].todo
         /\ \/ /\ run'[r].pc = "end" /\ run'[r].out = "done"
               /\ 1 \in names /\ job[r].policy = "skip"
            \/ /\ run'[r].pc = "source" /\ run'[r].out = run[r].out /\ Named(r, names)
               /\ lost => run'[r].blind
<1>1. run[r] \in RunState
  OBVIOUS
<1>2. CASE 1 \in names /\ job[r].policy = "skip"
  <2> DEFINE x == [run[r] EXCEPT !.pc = "end", !.out = "done", !.kept = names]
  <2>1. /\ x \in RunState /\ x.blind = run[r].blind /\ x.says = run[r].says
        /\ x.aborted = run[r].aborted /\ x.pc = "end" /\ x.out = "done"
        /\ x.kept = names /\ x.todo = run[r].todo
    BY <1>1 DEF RunState
  <2>2. run' = [run EXCEPT ![r] = x]
    BY <1>2 DEF Choose
  <2> HIDE DEF x
  <2> QED BY <1>2, <2>1, <2>2 DEF Moves
<1>3. CASE ~ (1 \in names /\ job[r].policy = "skip")
  <2> DEFINE n == IF job[r].policy = "rename" THEN NewName(names) ELSE 1
             b == run[r].blind \/ lost
             x == [run[r] EXCEPT !.pc = "source", !.kept = names, !.blind = b, !.name = n]
  <2>1. n \in 1..Names
    BY NewNameFree
  <2>2. run' = [run EXCEPT ![r] = x]
    BY <1>3 DEF Choose
  <2>3. Named(r, names) <=> (job[r].policy = "skip" => 1 \notin names) /\ run'[r].name = n
    BY DEF Named
  <2> HIDE DEF n
  <2>4. /\ x \in RunState /\ x.blind = b /\ x.says = run[r].says
        /\ x.aborted = run[r].aborted /\ x.pc = "source" /\ x.out = run[r].out
        /\ x.kept = names /\ x.todo = run[r].todo /\ x.name = n
    <3>1. b \in BOOLEAN
      OBVIOUS
    <3> HIDE DEF b
    <3> QED BY <1>1, <2>1, <3>1 DEF RunState
  <2> HIDE DEF x
  <2> QED BY <1>3, <2>2, <2>3, <2>4 DEF Moves
<1> QED BY <1>2, <1>3

Chosen(r) ==
  /\ run'[r].kept = job[r].base \/ run[r].aborted \/ run'[r].blind
  /\ Named(r, run'[r].kept)

(* A step before the chunks: on to the next phase, skipped, or failed. *)
Prepares(r) ==
  /\ run'[r].pc \in {"source", "file", "check"} =>
       \/ Chosen(r)
       \/ /\ run[r].pc \in {"source", "file", "check"}
          /\ run'[r].kept = run[r].kept /\ run'[r].name = run[r].name
  /\ Moves(r) /\ run'[r].todo = run[r].todo
  /\ run[r].pc \in {"idle", "base", "source", "file", "check"}
  /\ \/ Ends(r)
     \/ run'[r].pc \in {"base", "source", "file", "check"} /\ run'[r].out = run[r].out
     \/ /\ run'[r].pc = "end" /\ run'[r].out = "done" /\ ~run[r].aborted
        /\ job[r].policy = "skip" /\ 1 \in job[r].base
  /\ UNCHANGED <<job, worker, shared, server>>

LEMMA JobTyped ==
  ASSUME job \in Jobs, NEW r \in Runs
  PROVE  /\ job[r].chunks \in Seq(Chunks) /\ job[r].base \in SUBSET (0..Names)
         /\ Source(r) \subseteq Chunks
<1>1. job[r] \in JobType
  OBVIOUS
<1>2. job[r].chunks \in Seq(Chunks) /\ job[r].base \in SUBSET (0..Names)
  BY <1>1 DEF JobType
<1> QED BY <1>2 DEF Source, Range

LEMMA BeginPrepares ==
  ASSUME TypeOK, NEW r \in Runs, Begin(r) \/ Base(r)
  PROVE  Prepares(r)
<1>0. run \in [Runs -> RunState] /\ job \in Jobs
  BY DEF TypeOK
<1>1. CASE Begin(r) /\ job[r].base = {}
  <2>1. Choose(r, {}, FALSE)
    BY <1>1 DEF Begin
  <2>2. {} \in SUBSET (0..Names) /\ FALSE \in BOOLEAN
    OBVIOUS
  <2> QED BY <1>0, <1>1, <2>1, <2>2, ChooseMoves DEF Begin, Prepares, At, Chosen
<1>2. CASE Begin(r) /\ job[r].base # {}
  <2>1. Goto(r, "base")
    BY <1>2 DEF Begin
  <2> QED BY <1>0, <1>2, <2>1, GotoMoves DEF Begin, Prepares, At
<1>3. CASE Base(r) /\ ~run[r].aborted /\ Choose(r, job[r].base, FALSE)
  BY <1>0, <1>3, JobTyped, ChooseMoves DEF Base, Prepares, At, Chosen
<1>4. CASE Base(r) /\ Choose(r, {}, ~run[r].aborted)
  <2> DEFINE lost == ~run[r].aborted
  <2>1. lost \in BOOLEAN /\ {} \in SUBSET (0..Names) /\ (run[r].aborted \/ lost)
    OBVIOUS
  <2>2. Choose(r, {}, lost)
    BY <1>4
  <2> HIDE DEF lost
  <2>3. /\ Moves(r) /\ run'[r].kept = {} /\ run'[r].todo = run[r].todo
        /\ run'[r].pc = "source" /\ run'[r].out = run[r].out /\ Named(r, {})
        /\ lost => run'[r].blind
    BY <1>0, <2>1, <2>2, ChooseMoves
  <2> QED BY <1>4, <2>1, <2>3 DEF Base, Prepares, At, Chosen
<1> QED BY <1>1, <1>2, <1>3, <1>4 DEF Base

LEMMA SourcePrepares ==
  ASSUME TypeOK, NEW r \in Runs, SourceManifest(r) \/ SourceFile(r)
  PROVE  Prepares(r)
<1>0. run \in [Runs -> RunState]
  BY DEF TypeOK
<1>1. CASE Goto(r, "check") /\ run[r].pc \in {"source", "file"}
  BY <1>0, <1>1, GotoMoves DEF SourceManifest, SourceFile, Prepares
<1>2. CASE SourceManifest(r) /\ run' = [run EXCEPT ![r].pc = "file", ![r].mode = "file"]
  <2> DEFINE x == [run[r] EXCEPT !.pc = "file", !.mode = "file"]
  <2>1. run[r] \in RunState
    BY <1>0
  <2>2. /\ x \in RunState /\ x.blind = run[r].blind /\ x.says = run[r].says
        /\ x.aborted = run[r].aborted /\ x.pc = "file" /\ x.out = run[r].out
        /\ x.todo = run[r].todo /\ x.kept = run[r].kept /\ x.name = run[r].name
    BY <2>1 DEF RunState
  <2>3. run' = [run EXCEPT ![r] = x]
    BY <1>2
  <2> HIDE DEF x
  <2> QED BY <1>0, <1>2, <2>2, <2>3 DEF SourceManifest, Prepares, Moves, At
<1>3. CASE SourceFile(r) /\ Fail(r)
  <2>1. Moves(r) /\ Ends(r) /\ run'[r].todo = run[r].todo
    BY <1>0, <1>3, FailEnds DEF Ends
  <2> QED BY <1>3, <2>1 DEF SourceFile, Prepares, At, Ends
<1> QED BY <1>1, <1>2, <1>3 DEF SourceManifest, SourceFile, At

Taking == [Off EXCEPT !.pc = "take"]

(* The chunks are known: the workers start. *)
Starts(r) ==
  /\ Moves(r) /\ run[r].pc = "check" /\ run'[r].pc = "copy" /\ run'[r].out = run[r].out
  /\ run'[r].kept = run[r].kept /\ run'[r].name = run[r].name
  /\ run'[r].todo \subseteq DOMAIN job[r].chunks
  /\ \A c \in Source(r) : c \in have \cup stored \/ \E i \in run'[r].todo : job[r].chunks[i] = c
  /\ worker' \in [Slots -> WorkerState]
  /\ \A s \in Slots : worker'[s] = worker[s] \/ (s[1] = r /\ worker'[s] = Taking)
  /\ worker'[<<r, 1>>].pc = "take"
  /\ have' \subseteq Chunks /\ have' \subseteq have \cup stored /\ missing' \subseteq Chunks
  /\ UNCHANGED <<job, inflight, server>>

LEMMA OffTyped ==
  /\ Off \in WorkerState /\ Off.pc = "off"
  /\ Taking \in WorkerState /\ Taking.pc = "take"
BY DEF Off, Taking, WorkerState

LEMMA RememberedSmaller == \A S : \A T \in Remembered(S) : T \subseteq S
BY DEF Remembered

LEMMA CheckStarts ==
  ASSUME TypeOK, NEW r \in Runs, Check(r)
  PROVE  Prepares(r) \/ Starts(r)
<1>0. run \in [Runs -> RunState] /\ job \in Jobs
  BY DEF TypeOK
<1>1. PICK recent \in SUBSET missing :
        LET asked  == Source(r) \ (have \cup recent)
            absent == ((Source(r) \cap recent) \ have) \cup (asked \ stored)
            todo   == {i \in DOMAIN job[r].chunks : job[r].chunks[i] \in absent}
            width  == IF run[r].mode = "file" \/ todo = {} THEN 1 ELSE Cardinality(todo)
        IN
        /\ At(r, "check")
        /\ \/ /\ asked = {} \/ ~run[r].aborted
              /\ have' \in Remembered(have \cup (asked \cap stored))
              /\ missing' = recent \cup (asked \ stored)
              /\ run' = [run EXCEPT ![r].pc = "copy", ![r].todo = todo]
              /\ worker' = [s \in Slots |->
                   IF s[1] = r /\ s[2] <= width THEN [Off EXCEPT !.pc = "take"] ELSE worker[s]]
           \/ /\ asked # {} /\ Fail(r) /\ UNCHANGED <<worker, have, missing>>
        /\ UNCHANGED <<job, inflight, server>>
  BY DEF Check
<1> DEFINE asked  == Source(r) \ (have \cup recent)
           absent == ((Source(r) \cap recent) \ have) \cup (asked \ stored)
           todo   == {i \in DOMAIN job[r].chunks : job[r].chunks[i] \in absent}
           width  == IF run[r].mode = "file" \/ todo = {} THEN 1 ELSE Cardinality(todo)
<1>2. CASE Fail(r) /\ UNCHANGED <<worker, have, missing>>
  <2>1. Moves(r) /\ Ends(r) /\ run'[r].todo = run[r].todo
    BY <1>0, <1>2, FailEnds DEF Ends
  <2> QED BY <1>1, <1>2, <2>1 DEF Prepares, At, shared, Ends
<1>3. CASE /\ have' \in Remembered(have \cup (asked \cap stored))
           /\ missing' = recent \cup (asked \ stored)
           /\ run' = [run EXCEPT ![r].pc = "copy", ![r].todo = todo]
           /\ worker' = [s \in Slots |->
                IF s[1] = r /\ s[2] <= width THEN [Off EXCEPT !.pc = "take"] ELSE worker[s]]
  <2>1. job[r].chunks \in Seq(Chunks) /\ Source(r) \subseteq Chunks
    BY <1>0, JobTyped
  <2>2. todo \subseteq DOMAIN job[r].chunks /\ todo \subseteq Nat
    BY <2>1
  <2>3. \A c \in Source(r) : c \in have \cup stored \/ \E i \in todo : job[r].chunks[i] = c
    <3> SUFFICES ASSUME NEW c \in Source(r), c \notin have, c \notin stored
                 PROVE  \E i \in todo : job[r].chunks[i] = c
      OBVIOUS
    <3>1. c \in absent
      OBVIOUS
    <3>2. PICK i \in DOMAIN job[r].chunks : job[r].chunks[i] = c
      BY DEF Source, Range
    <3> QED BY <3>1, <3>2
  <2>4. 1 <= width
    <3>1. IsFiniteSet(todo)
      <4>1. DOMAIN job[r].chunks = 1..Len(job[r].chunks) /\ Len(job[r].chunks) \in Nat
        BY <2>1
      <4>2. IsFiniteSet(1..Len(job[r].chunks))
        BY SMTT(60), <4>1, FS_Interval
      <4> QED BY <4>1, <4>2, <2>2, FS_Subset
    <3>2. todo # {} => Cardinality(todo) \in Nat /\ Cardinality(todo) # 0
      <4> HIDE DEF todo
      <4> QED BY <3>1, FS_CardinalityType, FS_EmptySet
    <3> QED BY <3>2
  <2>5. have' \subseteq have \cup (asked \cap stored)
    BY <1>3, RememberedSmaller
  <2>6. have' \subseteq Chunks /\ have' \subseteq have \cup stored /\ missing' \subseteq Chunks
    BY <1>3, <2>1, <2>5 DEF TypeOK
  <2>7. run[r].pc = "check" /\ UNCHANGED <<job, inflight, server>>
    BY <1>1 DEF At
  <2> HIDE DEF todo, width, asked, absent
  <2>8. /\ worker' \in [Slots -> WorkerState] /\ worker'[<<r, 1>>].pc = "take"
        /\ \A s \in Slots :
             worker'[s] = worker[s] \/ (s[1] = r /\ worker'[s] = Taking)
    <3>1. <<r, 1>> \in Slots
      BY DEF Slots
    <3>2. worker \in [Slots -> WorkerState]
      BY DEF TypeOK
    <3>3. Taking \in WorkerState /\ Taking.pc = "take"
      BY OffTyped
    <3>4. \A s \in Slots :
            worker'[s] = IF s[1] = r /\ s[2] <= width THEN Taking ELSE worker[s]
      BY <1>3 DEF Taking
    <3>5. worker' \in [Slots -> WorkerState]
      <4>1. \A s \in Slots : worker'[s] \in WorkerState
        BY <3>2, <3>3, <3>4
      <4>2. worker' = [s \in Slots |-> worker'[s]]
        BY <1>3
      <4> QED BY <4>1, <4>2
    <3>6. worker'[<<r, 1>>] = Taking
      BY <2>4, <3>1, <3>4
    <3> QED BY <3>3, <3>4, <3>5, <3>6
  <2>9. /\ Moves(r) /\ run'[r].pc = "copy" /\ run'[r].out = run[r].out /\ run'[r].todo = todo
        /\ run'[r].kept = run[r].kept /\ run'[r].name = run[r].name
    <3> DEFINE x == [run[r] EXCEPT !.pc = "copy", !.todo = todo]
    <3>1. run[r] \in RunState
      BY <1>0
    <3>2. /\ x \in RunState /\ x.blind = run[r].blind /\ x.says = run[r].says
          /\ x.aborted = run[r].aborted /\ x.pc = "copy" /\ x.out = run[r].out
          /\ x.todo = todo /\ x.kept = run[r].kept /\ x.name = run[r].name
      BY <2>2, <3>1 DEF RunState
    <3>3. run' = [run EXCEPT ![r] = x]
      BY <1>3
    <3> HIDE DEF x
    <3> QED BY <1>0, <3>2, <3>3 DEF Moves
  <2> QED BY <2>2, <2>3, <2>6, <2>7, <2>8, <2>9 DEF Starts
<1> QED BY <1>1, <1>2, <1>3

-----------------------------------------------------------------------------
(* What the steps of a worker do.                                           *)

Sets(s, x) ==
  /\ x \in WorkerState /\ worker' \in [Slots -> WorkerState] /\ worker'[s] = x
  /\ \A f \in Slots : f # s => worker'[f] = worker[f]

(* GiveUp: a run that has ended stays as it is. *)
Gone(r) == Moves(r) /\ IF run[r].out = "none" THEN Ends(r) ELSE run'[r] = run[r]

LEMMA GiveUpGone ==
  ASSUME NEW r \in Runs, run \in [Runs -> RunState], GiveUp(r)
  PROVE  Gone(r)
<1>1. CASE run[r].out = "none"
  <2>1. Fail(r)
    BY <1>1 DEF GiveUp
  <2> QED BY <1>1, <2>1, FailEnds DEF Gone
<1>2. CASE run[r].out # "none"
  BY <1>2 DEF GiveUp, Gone, Moves
<1> QED BY <1>1, <1>2

Quits(s) ==
  /\ worker[s].pc \in {"take", "put", "follow"}
  /\ Sets(s, Off)
  /\ \/ run' = run /\ worker[s].pc = "take" /\ run[s[1]].todo = {}
     \/ Gone(s[1])
  /\ UNCHANGED <<job, shared, server>>

Takes(s) ==
  \E i \in run[s[1]].todo, x \in WorkerState :
    /\ worker[s].pc = "take"
    /\ Moves(s[1]) /\ run'[s[1]].todo = run[s[1]].todo \ {i}
    /\ run'[s[1]].pc = run[s[1]].pc /\ run'[s[1]].out = run[s[1]].out
    /\ run'[s[1]].kept = run[s[1]].kept /\ run'[s[1]].name = run[s[1]].name
    /\ Sets(s, x) /\ x.pc = "put" /\ x.chunk = job[s[1]].chunks[i]
    /\ UNCHANGED <<job, shared, server>>

Puts(s) ==
  \E x \in WorkerState :
    /\ worker[s].pc = "put" /\ Sets(s, x) /\ x.chunk = worker[s].chunk
    /\ \/ /\ x.pc = "lead" /\ inflight[x.chunk] = None
          /\ inflight' = [inflight EXCEPT ![x.chunk] = s]
       \/ x.pc = "follow" /\ inflight[x.chunk] # None /\ inflight' = inflight
    /\ UNCHANGED <<job, run, have, missing, server>>

LEMMA StopSets ==
  ASSUME TypeOK, NEW s \in Slots, Stop(s)
  PROVE  Sets(s, Off)
BY OffTyped DEF TypeOK, Stop, Sets

LEMMA TakeDoes ==
  ASSUME TypeOK, NEW s \in Slots, Take(s), \A i \in run[s[1]].todo : i \in DOMAIN job[s[1]].chunks
  PROVE  Takes(s) \/ Quits(s)
<1> DEFINE r == s[1]
<1>0. /\ r \in Runs /\ run \in [Runs -> RunState] /\ job \in Jobs
      /\ worker \in [Slots -> WorkerState]
  BY DEF TypeOK, Slots
<1>1. CASE run[r].todo = {} /\ Stop(s) /\ UNCHANGED run
  BY <1>1, StopSets DEF Take, Copying, Quits
<1>2. ASSUME NEW i \in run[r].todo,
             run' = [run EXCEPT ![r].todo = @ \ {i}],
             worker' = [worker EXCEPT ![s] =
                          [pc |-> "put", chunk |-> job[r].chunks[i], tries |-> Tries]]
      PROVE  Takes(s)
  <2> DEFINE x == [run[r] EXCEPT !.todo = @ \ {i}]
             y == [pc |-> "put", chunk |-> job[r].chunks[i], tries |-> Tries]
  <2>1. job[r].chunks[i] \in Chunks
    <3>1. job[r].chunks \in Seq(Chunks) /\ i \in DOMAIN job[r].chunks
      BY <1>0, JobTyped
    <3> QED BY <3>1
  <2>2. y \in WorkerState /\ y.pc = "put" /\ y.chunk = job[r].chunks[i]
    BY <2>1 DEF WorkerState
  <2>3. run[r] \in RunState
    BY <1>0
  <2>4. /\ x \in RunState /\ x.todo = run[r].todo \ {i} /\ x.aborted = run[r].aborted
        /\ x.blind = run[r].blind /\ x.says = run[r].says
        /\ x.pc = run[r].pc /\ x.out = run[r].out /\ x.kept = run[r].kept /\ x.name = run[r].name
    BY <2>3 DEF RunState
  <2>5. run' = [run EXCEPT ![r] = x] /\ worker' = [worker EXCEPT ![s] = y]
    BY <1>2
  <2> HIDE DEF x, y
  <2>6. Sets(s, y)
    BY <1>0, <2>2, <2>5 DEF Sets
  <2>7. Moves(r) /\ run'[r] = x
    BY <1>0, <2>4, <2>5 DEF Moves
  <2>8. worker[s].pc = "take" /\ UNCHANGED <<job, shared, server>>
    BY DEF Take, Copying
  <2> QED BY <2>2, <2>4, <2>6, <2>7, <2>8 DEF Takes
<1>3. CASE GiveUp(r) /\ Stop(s)
  BY <1>0, <1>3, StopSets, GiveUpGone DEF Take, Copying, Quits
<1> QED BY <1>1, <1>2, <1>3 DEF Take

LEMMA PutDoes ==
  ASSUME TypeOK, NEW s \in Slots, PutChunk(s) \/ FollowerAborted(s)
  PROVE  Puts(s) \/ Quits(s)
<1> DEFINE c == worker[s].chunk
<1>0. /\ s[1] \in Runs /\ run \in [Runs -> RunState]
      /\ worker \in [Slots -> WorkerState] /\ worker[s] \in WorkerState
  BY DEF TypeOK, Slots
<1>1. ASSUME NEW p \in {"lead", "follow"}, worker' = [worker EXCEPT ![s].pc = p]
      PROVE  \E x \in WorkerState : Sets(s, x) /\ x.pc = p /\ x.chunk = c
  <2> DEFINE x == [worker[s] EXCEPT !.pc = p]
  <2>1. x \in WorkerState /\ x.pc = p /\ x.chunk = c
    BY <1>0 DEF WorkerState
  <2>2. worker' = [worker EXCEPT ![s] = x]
    BY <1>1
  <2> HIDE DEF x
  <2>3. Sets(s, x)
    BY <1>0, <2>1, <2>2 DEF Sets
  <2> QED BY <2>1, <2>3
<1>2. CASE /\ PutChunk(s) /\ inflight[c] = None /\ inflight' = [inflight EXCEPT ![c] = s]
           /\ worker' = [worker EXCEPT ![s].pc = "lead"] /\ UNCHANGED run
  <2>1. PICK x \in WorkerState : Sets(s, x) /\ x.pc = "lead" /\ x.chunk = c
    BY <1>1, <1>2
  <2> QED BY <1>2, <2>1 DEF PutChunk, Copying, Puts
<1>3. CASE /\ PutChunk(s) /\ inflight[c] # None /\ inflight' = inflight
           /\ worker' = [worker EXCEPT ![s].pc = "follow"] /\ UNCHANGED run
  <2>1. PICK x \in WorkerState : Sets(s, x) /\ x.pc = "follow" /\ x.chunk = c
    BY <1>1, <1>3
  <2> QED BY <1>3, <2>1 DEF PutChunk, Copying, Puts
<1>4. CASE GiveUp(s[1]) /\ Stop(s) /\ UNCHANGED <<job, shared, server>>
  BY <1>0, <1>4, StopSets, GiveUpGone DEF PutChunk, FollowerAborted, Copying, Quits
<1> QED BY <1>2, <1>3, <1>4 DEF PutChunk, FollowerAborted, shared

(* What the end of an upload does to a run, but for what is noted of the    *)
(* leader's error: nothing, or it ends.                                     *)
Told(s, result, q) ==
  /\ run'[q].aborted = run[q].aborted /\ run'[q].todo = run[q].todo
  /\ run'[q].kept = run[q].kept /\ run'[q].name = run[q].name
  /\ run'[q].blind = run[q].blind
  /\ run[q].says \/ (q = s[1] /\ result = "abort" /\ ~run[q].aborted) => run'[q].says
  /\ \/ /\ run'[q].pc = run[q].pc /\ run'[q].out = run[q].out
        /\ ~ (run[q].out = "none" /\ \E f \in Awaiting(s) : f[1] = q /\ Gives(f, result))
     \/ /\ run[q].out = "none" /\ \E f \in Awaiting(s) : f[1] = q
        /\ result # "ok" /\ run'[q].pc = "end"
        /\ run'[q].out = IF result = "abort" THEN "canceled" ELSE "failed"

(* And to those who await it: they go on, try again, or stop. *)
Hears(s, result, f) ==
  IF f \notin Awaiting(s) THEN worker'[f] = worker[f]
  ELSE \/ result = "ok" /\ worker'[f].pc = "take"
       \/ result # "ok" /\ worker'[f].pc = "put" /\ worker'[f].chunk = worker[f].chunk
       \/ worker'[f].pc = "off" /\ Gives(f, result)

Settles(s, result) ==
  /\ result \in {"ok", "error", "abort"} /\ worker[s].pc = "lead"
  /\ inflight' = [inflight EXCEPT ![worker[s].chunk] = None]
  /\ worker' \in [Slots -> WorkerState] /\ \A f \in Slots : Hears(s, result, f)
  /\ run' \in [Runs -> RunState] /\ \A q \in Runs : Told(s, result, q)

LEMMA SettleSettles ==
  ASSUME TypeOK, NEW s \in Slots, NEW result \in {"ok", "error", "abort"}, Copying(s, "lead"),
         Settle(s, result)
  PROVE  Settles(s, result)
<1>0. /\ run \in [Runs -> RunState] /\ worker \in [Slots -> WorkerState]
      /\ worker[s].pc = "lead"
  BY DEF TypeOK, Copying
<1>1. ASSUME NEW f \in Slots
      PROVE  worker'[f] \in WorkerState /\ Hears(s, result, f)
  <2>1. worker'[f] = IF f \notin Awaiting(s) THEN worker[f]
                     ELSE IF result = "ok" THEN Taking
                     ELSE IF Retries(f, result)
                          THEN [worker[f] EXCEPT !.pc = "put", !.tries = @ - 1]
                     ELSE Off
    BY DEF Settle, Taking
  <2>2. worker[f] \in WorkerState
    BY <1>0
  <2>3. CASE f \notin Awaiting(s)
    BY <2>1, <2>2, <2>3 DEF Hears
  <2>4. CASE f \in Awaiting(s) /\ result = "ok"
    <3>1. worker'[f] = Taking
      BY <2>1, <2>4
    <3> QED BY <2>4, <3>1, OffTyped DEF Hears
  <2>5. CASE f \in Awaiting(s) /\ result # "ok" /\ Retries(f, result)
    <3> DEFINE x == [worker[f] EXCEPT !.pc = "put", !.tries = @ - 1]
    <3>1. x \in WorkerState /\ x.pc = "put" /\ x.chunk = worker[f].chunk
      <4>1. worker[f].tries \in 0..Tries /\ worker[f].tries > 1
        BY <2>2, <2>5 DEF WorkerState, Retries
      <4>2. worker[f].tries - 1 \in 0..Tries
        BY <4>1
      <4> DEFINE n == worker[f].tries - 1
      <4>3. x = [worker[f] EXCEPT !.pc = "put", !.tries = n]
        OBVIOUS
      <4> HIDE DEF n
      <4> QED BY <2>2, <4>2, <4>3 DEF WorkerState, n
    <3>2. worker'[f] = x
      BY <2>1, <2>5
    <3> HIDE DEF x
    <3> QED BY <2>5, <3>1, <3>2 DEF Hears
  <2>6. CASE f \in Awaiting(s) /\ result # "ok" /\ ~Retries(f, result)
    <3>1. worker'[f] = Off
      BY <2>1, <2>6
    <3> QED BY <2>6, <3>1, OffTyped DEF Hears, Gives
  <2> QED BY <2>3, <2>4, <2>5, <2>6
<1>2. ASSUME NEW q \in Runs
      PROVE  run'[q] \in RunState /\ Told(s, result, q)
  <2> DEFINE o == IF result = "abort" THEN "canceled" ELSE "failed"
             says == run[q].says \/ (q = s[1] /\ result = "abort" /\ ~run[q].aborted)
             x == [run[q] EXCEPT !.says = says]
             y == [x EXCEPT !.pc = "end", !.out = o]
             gives == \E f \in Awaiting(s) : f[1] = q /\ Gives(f, result)
  <2>1. run'[q] = IF run[q].out = "none" /\ gives THEN y ELSE x
    BY DEF Settle
  <2>2. run[q] \in RunState
    BY <1>0
  <2>3. says \in BOOLEAN
    OBVIOUS
  <2>4. gives => result # "ok" /\ \E f \in Awaiting(s) : f[1] = q
    BY DEF Gives
  <2>5. /\ x \in RunState /\ x.says = says /\ x.pc = run[q].pc /\ x.out = run[q].out
        /\ x.aborted = run[q].aborted /\ x.todo = run[q].todo /\ x.blind = run[q].blind
        /\ x.kept = run[q].kept /\ x.name = run[q].name
    <3> HIDE DEF says
    <3> QED BY <2>2, <2>3 DEF RunState
  <2> HIDE DEF x
  <2>6. /\ y \in RunState /\ y.says = x.says /\ y.pc = "end" /\ y.out = o
        /\ y.aborted = x.aborted /\ y.todo = x.todo /\ y.blind = x.blind
        /\ y.kept = x.kept /\ y.name = x.name
    BY <2>5 DEF RunState
  <2> HIDE DEF y, gives
  <2>7. CASE run[q].out = "none" /\ gives
    BY <2>1, <2>4, <2>5, <2>6, <2>7 DEF Told
  <2>8. CASE ~ (run[q].out = "none" /\ gives)
    BY <2>1, <2>5, <2>8 DEF Told, gives
  <2> QED BY <2>7, <2>8
<1>3. worker' \in [Slots -> WorkerState]
  <2>1. worker' = [f \in Slots |-> worker'[f]]
    BY DEF Settle
  <2> QED BY <1>1, <2>1
<1>4. run' \in [Runs -> RunState]
  <2>1. run' = [q \in Runs |-> run'[q]]
    BY DEF Settle
  <2> QED BY <1>2, <2>1
<1> QED BY <1>0, <1>1, <1>2, <1>3, <1>4 DEF Settle, Settles

(* The upload of worker s ends. *)
Uploads(s) ==
  \E result \in {"ok", "error", "abort"} :
    /\ Settles(s, result)
    /\ run[s[1]].aborted => result = "abort"
    /\ \A f \in Awaiting(s) \ {s} : ~run[f[1]].aborted
    /\ stored' = stored \/ stored' = stored \cup {worker[s].chunk}
    /\ result = "ok" => worker[s].chunk \in stored'
    /\ have' \subseteq Chunks \cup {worker[s].chunk} /\ have' \subseteq have \cup stored'
    /\ missing' \subseteq missing
    /\ UNCHANGED <<job, manifest, swept>>

LEMMA UploadDoes ==
  ASSUME TypeOK, NEW s \in Slots, UploadEnds(s)
  PROVE  Uploads(s)
<1> DEFINE c == worker[s].chunk
<1>1. CASE /\ ~run[s[1]].aborted /\ Settle(s, "ok") /\ stored' = stored \cup {c}
           /\ have' \in Remembered(have \cup {c}) /\ missing' = missing \ {c}
  <2>1. Settles(s, "ok")
    BY <1>1, SettleSettles DEF UploadEnds
  <2>2. have' \subseteq have \cup {c}
    BY <1>1, RememberedSmaller
  <2>3. have' \subseteq have \cup stored' /\ have' \subseteq Chunks \cup {c}
    BY <1>1, <2>2 DEF TypeOK
  <2> QED BY <1>1, <2>1, <2>3 DEF UploadEnds, Uploads
<1>2. ASSUME NEW result \in {"abort", "error"}, Settle(s, result),
             run[s[1]].aborted => result = "abort",
             stored' \in {stored, stored \cup {c}}, UNCHANGED <<have, missing>>
      PROVE  Uploads(s)
  <2>1. Settles(s, result)
    BY <1>2, SettleSettles DEF UploadEnds
  <2>2. have' \subseteq have \cup stored' /\ have' \subseteq Chunks \cup {c}
    BY <1>2 DEF TypeOK
  <2> QED BY <1>2, <2>1, <2>2 DEF UploadEnds, Uploads
<1> QED BY <1>1, <1>2 DEF UploadEnds

-----------------------------------------------------------------------------
(* Types, and what the phase of a run says of its workers.                  *)

Idle(r) == \A w \in Workers : worker[<<r, w>>].pc = "off"

Phase(r) ==
  /\ run[r].pc = "end" <=> run[r].out # "none"
  /\ run[r].pc \notin {"copy", "end"} => Idle(r)
  /\ run[r].todo \subseteq DOMAIN job[r].chunks

Shape ==
  /\ \A r \in Runs : Phase(r)
  /\ \A s \in Slots : worker[s].pc \notin {"off", "take"} => worker[s].chunk \in Source(s[1])

Types == TypeOK /\ Shape

LEMMA InitTypes == Init => Types
<1> SUFFICES ASSUME Init PROVE Types
  OBVIOUS
<1>1. NotBegun \in RunState
  BY DEF NotBegun, RunState
<1>2. TypeOK
  BY <1>1, OffTyped DEF Init, TypeOK
<1>3. \A r \in Runs : Phase(r)
  <2> SUFFICES ASSUME NEW r \in Runs PROVE Phase(r)
    OBVIOUS
  <2>1. run[r] = NotBegun /\ \A w \in Workers : <<r, w>> \in Slots /\ worker[<<r, w>>] = Off
    BY DEF Init, Slots
  <2> QED BY <2>1, OffTyped DEF Phase, Idle, NotBegun
<1>4. \A s \in Slots : worker[s] = Off
  BY DEF Init
<1> QED BY <1>2, <1>3, <1>4, OffTyped DEF Types, Shape

(* A run goes on in its phase, ends, or is in a phase without workers. *)
GoesOn(q) ==
  /\ run'[q].todo \subseteq run[q].todo
  /\ \/ run'[q].pc = run[q].pc /\ run'[q].out = run[q].out
     \/ run'[q].pc = "end" /\ run'[q].out # "none"
     \/ /\ run[q].pc # "end" /\ run'[q].pc \notin {"copy", "end"} /\ run'[q].out = run[q].out
        /\ Idle(q)

(* A worker that is busy goes on with a chunk of its file, or rests. *)
WorksOn(f) ==
  \/ worker'[f] = worker[f]
  \/ /\ worker[f].pc # "off"
     /\ worker'[f].pc \in {"off", "take"} \/ worker'[f].chunk \in Source(f[1])

LEMMA ShapeKept ==
  ASSUME Shape, UNCHANGED job, \A q \in Runs : GoesOn(q), \A f \in Slots : WorksOn(f)
  PROVE  Shape'
<1>1. ASSUME NEW r \in Runs PROVE Phase(r)'
  <2>1. Phase(r) /\ GoesOn(r) /\ \A w \in Workers : <<r, w>> \in Slots /\ WorksOn(<<r, w>>)
    BY DEF Shape, Slots
  <2>2. Idle(r) => Idle(r)'
    BY <2>1 DEF Idle, WorksOn
  <2> QED BY <2>1, <2>2 DEF Phase, GoesOn
<1>2. ASSUME NEW s \in Slots, worker'[s].pc \notin {"off", "take"}
      PROVE  worker'[s].chunk \in Source(s[1])'
  <2>1. Source(s[1])' = Source(s[1]) /\ WorksOn(s)
    BY DEF Source
  <2> QED BY <1>2, <2>1 DEF Shape, WorksOn
<1> QED BY <1>1, <1>2 DEF Shape

LEMMA PreparesTypes ==
  ASSUME Types, NEW r \in Runs, Prepares(r)
  PROVE  Types'
<1>1. TypeOK'
  BY DEF Types, TypeOK, Prepares, Moves, shared, server
<1>2. \A q \in Runs : GoesOn(q)
  BY DEF Types, Shape, Phase, Prepares, Moves, Ends, GoesOn
<1>3. \A f \in Slots : WorksOn(f)
  BY DEF Prepares, WorksOn
<1> QED BY <1>1, <1>2, <1>3, ShapeKept DEF Types, Prepares

LEMMA StartsTypes ==
  ASSUME Types, NEW r \in Runs, Starts(r)
  PROVE  Types'
<1>1. TypeOK'
  BY DEF Types, TypeOK, Starts, Moves, server
<1>2. ASSUME NEW q \in Runs PROVE Phase(q)'
  <2>1. CASE q = r
    BY <2>1 DEF Types, Shape, Phase, Starts
  <2>2. CASE q # r
    <3>1. \A w \in Workers : <<q, w>> \in Slots /\ worker'[<<q, w>>] = worker[<<q, w>>]
      BY <2>2 DEF Starts, Slots
    <3> QED BY <2>2, <3>1 DEF Types, Shape, Phase, Idle, Starts, Moves
  <2> QED BY <2>1, <2>2
<1>3. ASSUME NEW s \in Slots, worker'[s].pc \notin {"off", "take"}
      PROVE  worker'[s].chunk \in Source(s[1])'
  <2>1. worker'[s] = worker[s]
    BY <1>3, OffTyped DEF Starts
  <2> QED BY <1>3, <2>1 DEF Types, Shape, Starts, Source
<1> QED BY <1>1, <1>2, <1>3 DEF Types, Shape

LEMMA QuitsTypes ==
  ASSUME Types, NEW s \in Slots, Quits(s)
  PROVE  Types'
<1>0. s[1] \in Runs
  BY DEF Slots
<1>1. TypeOK'
  BY <1>0 DEF Types, TypeOK, Quits, Sets, Gone, Moves, shared, server
<1>2. ASSUME NEW q \in Runs PROVE GoesOn(q)
  <2>1. CASE run' = run
    BY <2>1 DEF GoesOn
  <2>2. CASE Gone(s[1])
    <3>1. run'[s[1]].todo \subseteq run[s[1]].todo
      BY <2>2 DEF Gone, Ends
    <3> QED BY <1>0, <2>2, <3>1 DEF Gone, Ends, Moves, GoesOn
  <2> QED BY <2>1, <2>2 DEF Quits
<1>3. \A f \in Slots : WorksOn(f)
  BY OffTyped DEF Quits, Sets, WorksOn
<1> QED BY <1>1, <1>2, <1>3, ShapeKept DEF Types, Quits

LEMMA TakesTypes ==
  ASSUME Types, NEW s \in Slots, Takes(s)
  PROVE  Types'
<1>0. s[1] \in Runs
  BY DEF Slots
<1>1. TypeOK'
  BY <1>0 DEF Types, TypeOK, Takes, Sets, Moves, shared, server
<1>2. \A q \in Runs : GoesOn(q)
  BY <1>0 DEF Takes, Moves, GoesOn
<1>3. ASSUME NEW f \in Slots PROVE WorksOn(f)
  <2>1. PICK i \in run[s[1]].todo : worker'[s].chunk = job[s[1]].chunks[i]
    BY DEF Takes, Sets
  <2>2. i \in DOMAIN job[s[1]].chunks
    BY <1>0 DEF Types, Shape, Phase
  <2>3. worker'[s].chunk \in Source(s[1])
    BY <2>1, <2>2 DEF Source, Range
  <2> QED BY <2>3 DEF Takes, Sets, WorksOn
<1> QED BY <1>1, <1>2, <1>3, ShapeKept DEF Types, Takes

LEMMA PutsTypes ==
  ASSUME Types, NEW s \in Slots, Puts(s)
  PROVE  Types'
<1>1. TypeOK'
  BY DEF Types, TypeOK, Puts, Sets, server
<1>2. \A q \in Runs : GoesOn(q)
  BY DEF Puts, GoesOn
<1>3. \A f \in Slots : WorksOn(f)
  BY DEF Types, Shape, Puts, Sets, WorksOn
<1> QED BY <1>1, <1>2, <1>3, ShapeKept DEF Types, Puts

LEMMA UploadsTypes ==
  ASSUME Types, NEW s \in Slots, Uploads(s)
  PROVE  Types'
<1>1. PICK result \in {"ok", "error", "abort"} :
        /\ Settles(s, result)
        /\ stored' = stored \/ stored' = stored \cup {worker[s].chunk}
        /\ have' \subseteq Chunks \cup {worker[s].chunk} /\ missing' \subseteq missing
        /\ UNCHANGED <<job, manifest, swept>>
  BY DEF Uploads
<1>2. s[1] \in Runs /\ worker[s].pc = "lead" /\ worker[s].chunk \in Chunks
  <2>1. s[1] \in Runs /\ worker[s].pc = "lead"
    BY <1>1 DEF Slots, Settles
  <2>2. worker[s].chunk \in Source(s[1])
    BY <2>1 DEF Types, Shape
  <2> QED BY <2>1, <2>2, JobTyped DEF Types, TypeOK
<1>3. TypeOK'
  BY <1>1, <1>2 DEF Types, TypeOK, Settles
<1>4. \A q \in Runs : GoesOn(q)
  BY <1>1 DEF Settles, Told, GoesOn
<1>5. ASSUME NEW f \in Slots PROVE WorksOn(f)
  <2>1. CASE f \notin Awaiting(s)
    BY <1>1, <2>1 DEF Settles, Hears, WorksOn
  <2>2. CASE f \in Awaiting(s)
    <3>1. worker[f].pc \in {"lead", "follow"}
      BY <1>2, <2>2 DEF Awaiting, Copying
    <3>2. worker[f].chunk \in Source(f[1])
      BY <3>1 DEF Types, Shape
    <3>3. Hears(s, result, f)
      BY <1>1 DEF Settles
    <3> QED BY <2>2, <3>1, <3>2, <3>3 DEF Hears, WorksOn
  <2> QED BY <2>1, <2>2
<1> QED BY <1>1, <1>3, <1>4, <1>5, ShapeKept DEF Types

-----------------------------------------------------------------------------
(* Every step is one of these.                                              *)

Creates(r) ==
  /\ run[r].pc = "copy" /\ Idle(r) /\ Moves(r) /\ run'[r].todo = run[r].todo
  /\ \/ Ends(r)
     \/ /\ run'[r].pc = "put" /\ run'[r].out = run[r].out
        /\ run'[r].kept = run[r].kept /\ run'[r].name = run[r].name
  /\ UNCHANGED <<job, worker, shared, server>>

Stores(r) ==
  /\ run[r].pc = "put" /\ Moves(r) /\ run'[r].todo = run[r].todo
  /\ \/ /\ ~run[r].aborted /\ run'[r].pc = "end" /\ run'[r].out = "done"
        /\ manifest' = [manifest EXCEPT ![r] = FilesOf(r)]
     \/ Ends(r) /\ manifest' \in {manifest, [manifest EXCEPT ![r] = FilesOf(r)]}
  /\ UNCHANGED <<job, worker, shared, stored, swept>>

Cancels(r) ==
  /\ run[r].pc # "idle" /\ run[r].out = "none" /\ ~run[r].aborted
  /\ run' \in [Runs -> RunState] /\ \A q \in Runs : q # r => run'[q] = run[q]
  /\ run'[r].aborted /\ run'[r].pc = run[r].pc /\ run'[r].out = run[r].out
  /\ run'[r].todo = run[r].todo /\ run'[r].kept = run[r].kept /\ run'[r].name = run[r].name
  /\ run'[r].blind = run[r].blind /\ run'[r].says = run[r].says
  /\ UNCHANGED <<job, worker, shared, server>>

Does ==
  \/ \E r \in Runs : Prepares(r) \/ Starts(r) \/ Creates(r) \/ Stores(r) \/ Cancels(r)
  \/ \E s \in Slots : Quits(s) \/ Takes(s) \/ Puts(s) \/ Uploads(s)
  \/ Sweep

LEMMA CreateDoes ==
  ASSUME TypeOK, NEW r \in Runs, CreateSnapshot(r)
  PROVE  Creates(r)
<1>0. run \in [Runs -> RunState] /\ run[r].pc = "copy" /\ Idle(r)
      /\ UNCHANGED <<job, worker, shared, server>>
  BY DEF TypeOK, CreateSnapshot, At, Copying, Idle
<1>1. CASE Goto(r, "put")
  BY <1>0, <1>1, GotoMoves DEF Creates
<1>2. CASE Fail(r)
  BY <1>0, <1>2, FailEnds DEF Creates, Ends
<1> QED BY <1>1, <1>2 DEF CreateSnapshot

LEMMA ManifestDoes ==
  ASSUME TypeOK, NEW r \in Runs, PutManifest(r)
  PROVE  Stores(r)
<1>0. /\ run \in [Runs -> RunState] /\ run[r].pc = "put"
      /\ UNCHANGED <<job, worker, shared, stored, swept>>
  BY DEF TypeOK, PutManifest, At
<1>1. CASE /\ ~run[r].aborted
           /\ run' = [run EXCEPT ![r].pc = "end", ![r].out = "done"]
           /\ manifest' = [manifest EXCEPT ![r] = FilesOf(r)]
  <2> DEFINE x == [run[r] EXCEPT !.pc = "end", !.out = "done"]
  <2>1. run[r] \in RunState
    BY <1>0
  <2>2. /\ x \in RunState /\ x.blind = run[r].blind /\ x.says = run[r].says
        /\ x.aborted = run[r].aborted /\ x.pc = "end" /\ x.out = "done"
        /\ x.todo = run[r].todo
    BY <2>1 DEF RunState
  <2>3. run' = [run EXCEPT ![r] = x]
    BY <1>1
  <2> HIDE DEF x
  <2>4. Moves(r) /\ run'[r] = x
    BY <1>0, <2>2, <2>3 DEF Moves
  <2> QED BY <1>0, <1>1, <2>2, <2>4 DEF Stores
<1>2. CASE Fail(r) /\ manifest' \in {manifest, [manifest EXCEPT ![r] = FilesOf(r)]}
  <2>1. Moves(r) /\ Ends(r) /\ run'[r].todo = run[r].todo
    BY <1>0, <1>2, FailEnds DEF Ends
  <2> QED BY <1>0, <1>2, <2>1 DEF Stores
<1> QED BY <1>1, <1>2 DEF PutManifest

LEMMA CancelDoes ==
  ASSUME TypeOK, NEW r \in Runs, Cancel(r)
  PROVE  Cancels(r)
<1> DEFINE x == [run[r] EXCEPT !.aborted = TRUE]
<1>1. run \in [Runs -> RunState] /\ run[r] \in RunState
  BY DEF TypeOK
<1>2. /\ x \in RunState /\ x.aborted /\ x.pc = run[r].pc /\ x.out = run[r].out
      /\ x.todo = run[r].todo /\ x.kept = run[r].kept /\ x.name = run[r].name
      /\ x.blind = run[r].blind /\ x.says = run[r].says
  BY <1>1 DEF RunState
<1>3. run' = [run EXCEPT ![r] = x]
  BY DEF Cancel
<1> HIDE DEF x
<1>4. run' \in [Runs -> RunState] /\ run'[r] = x /\ \A q \in Runs : q # r => run'[q] = run[q]
  BY <1>1, <1>2, <1>3
<1> QED BY <1>2, <1>4 DEF Cancel, Cancels

LEMMA StepDoes == Types /\ Next => Does
<1> SUFFICES ASSUME Types, Next PROVE Does
  OBVIOUS
<1>0. TypeOK
  BY DEF Types
<1>1. ASSUME NEW r \in Runs, RunSteps(r) \/ Begin(r) \/ Cancel(r) PROVE Does
  BY <1>0, <1>1, BeginPrepares, SourcePrepares, CheckStarts, CreateDoes, ManifestDoes, CancelDoes
     DEF RunSteps, Does
<1>2. ASSUME NEW s \in Slots, WorkerSteps(s) PROVE Does
  <2>1. \A i \in run[s[1]].todo : i \in DOMAIN job[s[1]].chunks
    BY DEF Types, Shape, Phase, Slots
  <2> QED BY <1>0, <1>2, <2>1, TakeDoes, PutDoes, UploadDoes DEF WorkerSteps, Does
<1> QED BY <1>1, <1>2 DEF Next, Proceed, Does

LEMMA FilesTyped ==
  ASSUME TypeOK, NEW r \in Runs
  PROVE  FilesOf(r) \subseteq (0..Names) \X {"base", "copy"}
<1>1. run[r].kept \subseteq 0..Names /\ run[r].name \in 0..Names
  BY DEF TypeOK, RunState
<1> QED BY <1>1 DEF FilesOf

LEMMA LateTypes ==
  ASSUME Types, NEW r \in Runs, Creates(r) \/ Stores(r) \/ Cancels(r)
  PROVE  Types'
<1>1. TypeOK'
  <2>1. manifest' \in [Runs -> SUBSET ((0..Names) \X {"base", "copy"})]
    BY FilesTyped DEF Types, TypeOK, Creates, Stores, Cancels, server
  <2>2. run' \in [Runs -> RunState]
    BY DEF Creates, Stores, Cancels, Moves
  <2> QED BY <2>1, <2>2 DEF Types, TypeOK, Creates, Stores, Cancels, shared, server
<1>2. \A q \in Runs : GoesOn(q)
  BY DEF Types, Shape, Phase, Creates, Stores, Cancels, Moves, Ends, GoesOn
<1>3. UNCHANGED job /\ \A f \in Slots : WorksOn(f)
  BY DEF Creates, Stores, Cancels, WorksOn
<1> QED BY <1>1, <1>2, <1>3, ShapeKept DEF Types

LEMMA SweepTypes == Types /\ Sweep => Types'
<1> SUFFICES ASSUME Types, Sweep PROVE Types'
  OBVIOUS
<1>1. TypeOK'
  BY DEF Types, TypeOK, Sweep, local, shared
<1>2. Shape'
  BY DEF Types, Shape, Phase, Idle, Source, Sweep, local
<1> QED BY <1>1, <1>2 DEF Types

LEMMA TypesKept == Types /\ [Next]_vars => Types'
<1> SUFFICES ASSUME Types, [Next]_vars PROVE Types'
  OBVIOUS
<1>1. CASE UNCHANGED vars
  BY <1>1 DEF vars, local, shared, server, Types, TypeOK, Shape, Phase, Idle, Source
<1>2. CASE Next
  BY <1>2, StepDoes, PreparesTypes, StartsTypes, LateTypes, QuitsTypes, TakesTypes, PutsTypes,
     UploadsTypes, SweepTypes DEF Does
<1> QED BY <1>1, <1>2

LEMMA AlwaysTypes == Spec => []Types
BY InitTypes, TypesKept, PTL DEF Spec

(* The variables keep their types. *)
THEOREM TypeCorrect == Spec => []TypeOK
<1>1. Types => TypeOK
  BY DEF Types
<1> QED BY AlwaysTypes, <1>1, PTL

-----------------------------------------------------------------------------
(* Shared uploads.                                                          *)

LEMMA SharedKept ==
  ASSUME TypeOK, UploadsShared, UNCHANGED inflight,
         \A f \in Slots : \/ worker'[f] = worker[f]
                          \/ worker[f].pc # "lead" /\ worker'[f].pc \notin {"lead", "follow"}
  PROVE  UploadsShared'
<1>1. ASSUME NEW c \in Chunks, inflight'[c] # None
      PROVE  worker'[inflight'[c]].pc = "lead" /\ worker'[inflight'[c]].chunk = c
  <2>1. worker[inflight[c]].pc = "lead" /\ worker[inflight[c]].chunk = c
    BY <1>1 DEF UploadsShared, Copying
  <2>2. inflight[c] \in Slots
    BY <1>1 DEF TypeOK
  <2>3. worker'[inflight[c]] = worker[inflight[c]]
    BY <2>1, <2>2
  <2> QED BY <2>1, <2>3
<1>2. ASSUME NEW s \in Slots
      PROVE  /\ worker'[s].pc = "lead" => inflight'[worker'[s].chunk] = s
             /\ worker'[s].pc = "follow" => inflight'[worker'[s].chunk] # None
  <2>1. CASE worker'[s] = worker[s]
    BY <2>1 DEF UploadsShared, Copying
  <2>2. CASE worker'[s].pc \notin {"lead", "follow"}
    BY <2>2
  <2> QED BY <2>1, <2>2
<1> QED BY <1>1, <1>2 DEF UploadsShared, Copying

LEMMA PutsShared ==
  ASSUME Types, UploadsShared, NEW s \in Slots, Puts(s)
  PROVE  UploadsShared'
<1>1. PICK x \in WorkerState :
        /\ worker[s].pc = "put" /\ Sets(s, x) /\ x.chunk = worker[s].chunk
        /\ \/ /\ x.pc = "lead" /\ inflight[x.chunk] = None
              /\ inflight' = [inflight EXCEPT ![x.chunk] = s]
           \/ x.pc = "follow" /\ inflight[x.chunk] # None /\ inflight' = inflight
  BY DEF Puts
<1>2. x.chunk \in Chunks
  <2>1. worker[s].chunk \in Source(s[1]) /\ s[1] \in Runs
    BY <1>1 DEF Types, Shape, Slots
  <2> QED BY <1>1, <2>1, JobTyped DEF Types, TypeOK
<1>3. /\ inflight \in [Chunks -> Slots \cup {None}] /\ None \notin Slots
      /\ worker'[s] = x /\ \A f \in Slots : f # s => worker'[f] = worker[f]
  BY <1>1 DEF Types, TypeOK, Sets, Slots
<1>4. /\ inflight'[x.chunk] # None /\ (x.pc = "lead" => inflight'[x.chunk] = s)
      /\ \A c \in Chunks : inflight'[c] = inflight[c] \/ (c = x.chunk /\ x.pc = "lead")
  BY <1>1, <1>2, <1>3
<1>5. ASSUME NEW c \in Chunks, inflight'[c] # None
      PROVE  worker'[inflight'[c]].pc = "lead" /\ worker'[inflight'[c]].chunk = c
  <2>1. CASE c = x.chunk /\ x.pc = "lead"
    BY <1>3, <1>4, <2>1
  <2>2. CASE inflight'[c] = inflight[c]
    <3>1. worker[inflight[c]].pc = "lead" /\ worker[inflight[c]].chunk = c
      BY <1>5, <2>2 DEF UploadsShared, Copying
    <3>2. inflight[c] \in Slots /\ inflight[c] # s
      BY <1>1, <1>3, <1>5, <2>2, <3>1
    <3> QED BY <1>3, <2>2, <3>1, <3>2
  <2> QED BY <1>4, <2>1, <2>2
<1>6. ASSUME NEW f \in Slots
      PROVE  /\ worker'[f].pc = "lead" => inflight'[worker'[f].chunk] = f
             /\ worker'[f].pc = "follow" => inflight'[worker'[f].chunk] # None
  <2>1. CASE f = s
    BY <1>3, <1>4, <2>1
  <2>2. CASE f # s /\ worker[f].pc \in {"lead", "follow"}
    <3>1. worker'[f] = worker[f] /\ worker[f].chunk \in Chunks
      <4>1. worker[f].chunk \in Source(f[1]) /\ f[1] \in Runs
        BY <2>2 DEF Types, Shape, Slots
      <4> QED BY <1>3, <2>2, <4>1, JobTyped DEF Types, TypeOK
    <3>2. /\ worker[f].pc = "lead" => inflight[worker[f].chunk] = f
          /\ worker[f].pc = "follow" => inflight[worker[f].chunk] # None
      BY DEF UploadsShared, Copying
    <3>3. CASE worker[f].chunk = x.chunk /\ x.pc = "lead"
      <4>1. inflight[worker[f].chunk] = None
        BY <1>1, <3>3
      <4> QED BY <1>3, <2>2, <3>2, <4>1
    <3> QED BY <1>4, <3>1, <3>2, <3>3
  <2>3. CASE f # s /\ worker[f].pc \notin {"lead", "follow"}
    BY <1>3, <2>3
  <2> QED BY <2>1, <2>2, <2>3
<1> QED BY <1>5, <1>6 DEF UploadsShared, Copying

LEMMA UploadsStayShared ==
  ASSUME Types, UploadsShared, NEW s \in Slots, Uploads(s)
  PROVE  UploadsShared'
<1>1. PICK result \in {"ok", "error", "abort"} : Settles(s, result)
  BY DEF Uploads
<1>2. worker[s].pc = "lead" /\ worker[s].chunk \in Chunks
  <2>1. s[1] \in Runs /\ worker[s].pc = "lead"
    BY <1>1 DEF Slots, Settles
  <2>2. worker[s].chunk \in Source(s[1])
    BY <2>1 DEF Types, Shape
  <2> QED BY <2>1, <2>2, JobTyped DEF Types, TypeOK
<1>3. /\ inflight \in [Chunks -> Slots \cup {None}] /\ None \notin Slots
      /\ inflight' = [inflight EXCEPT ![worker[s].chunk] = None]
  BY <1>1 DEF Types, TypeOK, Slots, Settles
<1>4. ASSUME NEW f \in Slots, worker'[f].pc \in {"lead", "follow"}
      PROVE  worker'[f] = worker[f] /\ worker[f].chunk # worker[s].chunk /\ f # s
  <2>1. Hears(s, result, f)
    BY <1>1 DEF Settles
  <2>2. f \notin Awaiting(s)
    BY <1>4, <2>1 DEF Hears
  <2>3. worker'[f] = worker[f] /\ f # s
    BY <2>1, <2>2 DEF Hears, Awaiting
  <2>4. CASE worker[f].pc = "follow"
    BY <2>2, <2>3, <2>4 DEF Awaiting, Copying
  <2>5. CASE worker[f].pc = "lead"
    BY <1>2, <2>3, <2>5 DEF UploadsShared, Copying
  <2> QED BY <1>4, <2>3, <2>4, <2>5
<1>5. ASSUME NEW c \in Chunks, inflight'[c] # None
      PROVE  worker'[inflight'[c]].pc = "lead" /\ worker'[inflight'[c]].chunk = c
  <2>1. inflight'[c] = inflight[c] /\ c # worker[s].chunk /\ inflight[c] \in Slots
    BY <1>2, <1>3, <1>5
  <2>2. worker[inflight[c]].pc = "lead" /\ worker[inflight[c]].chunk = c
    BY <1>5, <2>1 DEF UploadsShared, Copying
  <2>3. inflight[c] \notin Awaiting(s)
    BY <2>1, <2>2 DEF Awaiting, Copying
  <2>4. worker'[inflight[c]] = worker[inflight[c]]
    BY <1>1, <2>1, <2>3 DEF Settles, Hears
  <2> QED BY <2>1, <2>2, <2>4
<1>6. ASSUME NEW f \in Slots
      PROVE  /\ worker'[f].pc = "lead" => inflight'[worker'[f].chunk] = f
             /\ worker'[f].pc = "follow" => inflight'[worker'[f].chunk] # None
  <2>1. CASE worker'[f].pc \in {"lead", "follow"}
    <3>1. worker'[f] = worker[f] /\ worker[f].chunk # worker[s].chunk
      BY <1>4, <2>1
    <3>2. worker[f].chunk \in Chunks
      <4>1. worker[f].chunk \in Source(f[1]) /\ f[1] \in Runs
        BY <2>1, <3>1 DEF Types, Shape, Slots
      <4> QED BY <4>1, JobTyped DEF Types, TypeOK
    <3>3. inflight'[worker[f].chunk] = inflight[worker[f].chunk]
      BY <1>3, <3>1, <3>2
    <3> QED BY <2>1, <3>1, <3>3 DEF UploadsShared, Copying
  <2> QED BY <2>1
<1> QED BY <1>5, <1>6 DEF UploadsShared, Copying

LEMMA SharedStep == Types /\ UploadsShared /\ [Next]_vars => UploadsShared'
<1> SUFFICES ASSUME Types, UploadsShared, [Next]_vars PROVE UploadsShared'
  OBVIOUS
<1>0. TypeOK
  BY DEF Types
<1>1. CASE UNCHANGED vars
  BY <1>1, <1>0, SharedKept DEF vars, local, shared
<1>2. ASSUME NEW r \in Runs, Prepares(r) \/ Creates(r) \/ Stores(r) \/ Cancels(r)
      PROVE  UploadsShared'
  BY <1>0, <1>2, SharedKept DEF Prepares, Creates, Stores, Cancels, shared
<1>3. ASSUME NEW r \in Runs, Starts(r) PROVE UploadsShared'
  <2>1. ASSUME NEW f \in Slots, worker'[f] # worker[f]
        PROVE  worker[f].pc # "lead" /\ worker'[f].pc \notin {"lead", "follow"}
    <3>1. f[1] = r /\ worker'[f] = Taking
      BY <1>3, <2>1 DEF Starts
    <3>2. Idle(r)
      BY <1>3 DEF Starts, Types, Shape, Phase
    <3>3. worker[f].pc = "off"
      <4>1. f = <<r, f[2]>> /\ f[2] \in Workers
        BY <3>1 DEF Slots
      <4>2. worker[<<r, f[2]>>].pc = "off"
        BY <3>2, <4>1 DEF Idle
      <4> QED BY <4>1, <4>2
    <3> QED BY <3>1, <3>3, OffTyped
  <2>2. UNCHANGED inflight
    BY <1>3 DEF Starts
  <2> QED BY <1>0, <2>1, <2>2, SharedKept
<1>4. ASSUME NEW s \in Slots, Quits(s) \/ Takes(s) PROVE UploadsShared'
  BY <1>0, <1>4, OffTyped, SharedKept DEF Quits, Takes, Sets, shared
<1>5. CASE Sweep
  BY <1>0, <1>5, SharedKept DEF Sweep, local, shared
<1>6. CASE Next
  BY <1>2, <1>3, <1>4, <1>5, <1>6, StepDoes, PutsShared, UploadsStayShared DEF Does
<1> QED BY <1>1, <1>6

(* However many runs share uploads, retry, fail and are canceled: an upload *)
(* in the map goes on, and nobody awaits one that is gone.                  *)
THEOREM SharedUploadsEnd == Spec => []UploadsShared
<1>1. Init => UploadsShared
  BY OffTyped DEF Init, UploadsShared, Copying
<1> QED BY <1>1, AlwaysTypes, SharedStep, PTL DEF Spec

-----------------------------------------------------------------------------
(* Cancels.                                                                 *)

(* A run that was canceled, or one of whose errors said so.                 *)
Stopped(q) == run[q].aborted \/ run[q].says

(* Who may be shown as canceled: a stopped run, and one that has a chunk in *)
(* common with it.                                                          *)
ForCancel(r) ==
  run'[r].out = "canceled" =>
    \/ run[r].out = "canceled"
    \/ \E q \in Runs : Stopped(q)' /\ (q = r \/ Source(q) \cap Source(r) # {})

LEMMA CancelsKept ==
  ASSUME CancelsMatch, UNCHANGED job,
         \A r \in Runs : /\ ForCancel(r)
                         /\ Stopped(r) => Stopped(r)'
                         /\ run'[r].aborted => run'[r].out \in {"none", "canceled"}
  PROVE  CancelsMatch'
<1>1. \A r \in Runs : Source(r)' = Source(r)
  BY DEF Source
<1>2. CanceledShown'
  BY DEF CanceledShown
<1>3. ASSUME NEW r \in Runs, run'[r].out = "canceled"
      PROVE  \E q \in Runs : Stopped(q)' /\ (q = r \/ Source(q)' \cap Source(r)' # {})
  <2>1. \E q \in Runs : Stopped(q)' /\ (q = r \/ Source(q) \cap Source(r) # {})
    BY <1>3 DEF ForCancel, CancelsMatch, CanceledFor, Stopped
  <2> QED BY <1>1, <2>1
<1> QED BY <1>2, <1>3 DEF CancelsMatch, CanceledFor, Stopped

(* A run that moves, and ends as the catch clause ends it. *)
LEMMA MovesCancels ==
  ASSUME CancelsMatch, UNCHANGED job, NEW r \in Runs, Moves(r),
         \/ Ends(r)
         \/ run'[r].out = run[r].out
         \/ run'[r].out = "done" /\ ~run[r].aborted
  PROVE  CancelsMatch'
<1>1. ASSUME NEW q \in Runs
      PROVE  /\ ForCancel(q)
             /\ Stopped(q) => Stopped(q)'
             /\ run'[q].aborted => run'[q].out \in {"none", "canceled"}
  <2>1. CASE q # r
    BY <2>1 DEF Moves, ForCancel, Stopped, CancelsMatch, CanceledShown
  <2>2. CASE q = r
    BY <2>2 DEF Moves, Ends, ForCancel, Stopped, CancelsMatch, CanceledShown
  <2> QED BY <2>1, <2>2
<1> QED BY <1>1, CancelsKept

LEMMA UploadsCancels ==
  ASSUME Types, CancelsMatch, NEW s \in Slots, Uploads(s)
  PROVE  CancelsMatch'
<1>1. PICK result \in {"ok", "error", "abort"} :
        /\ Settles(s, result)
        /\ run[s[1]].aborted => result = "abort"
        /\ \A f \in Awaiting(s) \ {s} : ~run[f[1]].aborted
        /\ UNCHANGED job
  BY DEF Uploads
<1>2. s[1] \in Runs /\ worker[s].pc = "lead" /\ worker[s].chunk \in Source(s[1])
  <2>1. s[1] \in Runs /\ worker[s].pc = "lead"
    BY <1>1 DEF Slots, Settles
  <2> QED BY <2>1 DEF Types, Shape
<1>3. ASSUME NEW q \in Runs
      PROVE  /\ ForCancel(q)
             /\ Stopped(q) => Stopped(q)'
             /\ run'[q].aborted => run'[q].out \in {"none", "canceled"}
  <2>0. Told(s, result, q) /\ Told(s, result, s[1])
    BY <1>1, <1>2 DEF Settles
  <2>1. CASE run'[q].out = run[q].out
    BY <2>0, <2>1 DEF Told, ForCancel, Stopped, CancelsMatch, CanceledShown
  <2>2. CASE run'[q].out # run[q].out
    <3>1. /\ run'[q].out = IF result = "abort" THEN "canceled" ELSE "failed"
          /\ run'[q].aborted = run[q].aborted
      BY <2>0, <2>2 DEF Told
    <3>2. PICK f \in Awaiting(s) : f[1] = q
      BY <2>0, <2>2 DEF Told
    <3>3. worker[s].chunk \in Source(q)
      <4>1. f \in Slots /\ worker[f].pc \in {"lead", "follow"} /\ worker[f].chunk = worker[s].chunk
        BY <1>2, <3>2 DEF Awaiting, Copying
      <4> QED BY <3>2, <4>1 DEF Types, Shape
    <3>4. result = "abort" => Stopped(s[1])'
      BY <2>0 DEF Told, Stopped
    <3>5. ForCancel(q) /\ (Stopped(q) => Stopped(q)')
      BY <1>2, <2>0, <3>1, <3>3, <3>4 DEF ForCancel, Told, Stopped
    <3>6. run[q].aborted => result = "abort"
      BY <1>1, <3>2
    <3> QED BY <3>1, <3>5, <3>6
  <2> QED BY <2>1, <2>2
<1> QED BY <1>1, <1>3, CancelsKept

LEMMA CancelsStep == Types /\ CancelsMatch /\ [Next]_vars => CancelsMatch'
<1> SUFFICES ASSUME Types, CancelsMatch, [Next]_vars PROVE CancelsMatch'
  OBVIOUS
<1>1. CASE UNCHANGED <<job, run>>
  BY <1>1 DEF CancelsMatch, CanceledShown, CanceledFor, Source
<1>2. ASSUME NEW r \in Runs, Prepares(r) \/ Starts(r) \/ Creates(r) \/ Stores(r)
      PROVE  CancelsMatch'
  BY <1>2, MovesCancels DEF Prepares, Starts, Creates, Stores
<1>3. ASSUME NEW r \in Runs, Cancels(r) PROVE CancelsMatch'
  <2>1. \A q \in Runs : /\ ForCancel(q)
                        /\ Stopped(q) => Stopped(q)'
                        /\ run'[q].aborted => run'[q].out \in {"none", "canceled"}
    BY <1>3 DEF Cancels, ForCancel, Stopped, CancelsMatch, CanceledShown
  <2> QED BY <1>3, <2>1, CancelsKept DEF Cancels
<1>4. ASSUME NEW s \in Slots, Quits(s) \/ Takes(s) \/ Puts(s) PROVE CancelsMatch'
  <2>0. s[1] \in Runs
    BY DEF Slots
  <2>1. CASE UNCHANGED <<job, run>>
    BY <1>1, <2>1
  <2>2. CASE Gone(s[1]) /\ UNCHANGED job
    BY <2>0, <2>2, MovesCancels DEF Gone
  <2>3. CASE Takes(s)
    BY <2>0, <2>3, MovesCancels DEF Takes
  <2> QED BY <1>4, <2>1, <2>2, <2>3 DEF Quits, Puts
<1>5. CASE Next
  <2>1. CASE Sweep
    BY <1>1, <2>1 DEF Sweep, local
  <2> QED BY <1>2, <1>3, <1>4, <1>5, <2>1, StepDoes, UploadsCancels DEF Does
<1> QED BY <1>1, <1>5 DEF vars, local

(* What is shown as canceled is what somebody has canceled or what failed   *)
(* with an error that says "aborted", or it had a chunk in common with such *)
(* a run, for any number of runs; and a canceled run ends so.               *)
THEOREM CancelsAlwaysMatch == Spec => []CancelsMatch
<1>1. Init => CancelsMatch
  BY DEF Init, CancelsMatch, CanceledShown, CanceledFor, NotBegun
<1> QED BY <1>1, AlwaysTypes, CancelsStep, PTL DEF Spec

-----------------------------------------------------------------------------
(* Chunks: what a run still has to copy is left, or with one of its workers. *)

Held == stored \cup swept

Carries(f, c) == worker[f].pc \in {"put", "lead", "follow"} /\ worker[f].chunk = c

Pending(r) ==
  run[r].pc = "copy" =>
    /\ \A c \in Source(r) :
         \/ c \in Held
         \/ \E i \in run[r].todo : job[r].chunks[i] = c
         \/ \E w \in Workers : Carries(<<r, w>>, c)
    /\ run[r].todo # {} => ~Idle(r)

Present(r) == run[r].pc = "put" \/ manifest[r] # {} => Source(r) \subseteq Held

StoreInv ==
  /\ have \subseteq Held
  /\ \A r \in Runs : Pending(r) /\ Present(r)

(* A run of which a step changes nothing. *)
LEMMA Bystands ==
  ASSUME StoreInv, UNCHANGED job, Held \subseteq Held', NEW q \in Runs, run'[q] = run[q],
         \A w \in Workers : worker'[<<q, w>>] = worker[<<q, w>>], manifest'[q] = manifest[q]
  PROVE  Pending(q)' /\ Present(q)'
<1>1. Source(q)' = Source(q) /\ Pending(q) /\ Present(q)
  BY DEF Source, StoreInv
<1>2. Idle(q)' = Idle(q) /\ \A w \in Workers, c \in Source(q) : Carries(<<q, w>>, c)' = Carries(<<q, w>>, c)
  BY DEF Idle, Carries
<1>3. Pending(q)'
  BY <1>1, <1>2 DEF Pending
<1> QED BY <1>1, <1>3 DEF Present

(* A run that is not copying owes nothing but what its manifest lists. *)
LEMMA Waits ==
  ASSUME StoreInv, UNCHANGED <<job, manifest>>, Held \subseteq Held', NEW q \in Runs,
         run'[q].pc # "copy", run'[q].pc # "put"
  PROVE  Pending(q)' /\ Present(q)'
BY DEF StoreInv, Pending, Present, Source

LEMMA OneRun ==
  ASSUME StoreInv, UNCHANGED <<job, manifest, have>>, Held \subseteq Held', NEW r \in Runs, Moves(r),
         \A f \in Slots : f[1] # r => worker'[f] = worker[f],
         Pending(r)' /\ Present(r)'
  PROVE  StoreInv'
<1>1. ASSUME NEW q \in Runs, q # r PROVE Pending(q)' /\ Present(q)'
  <2>1. \A w \in Workers : worker'[<<q, w>>] = worker[<<q, w>>]
    BY <1>1 DEF Slots
  <2> QED BY <1>1, <2>1, Bystands DEF Moves
<1>2. \A q \in Runs : Pending(q)' /\ Present(q)'
  BY <1>1
<1>3. have' \subseteq Held'
  BY DEF StoreInv
<1> QED BY <1>2, <1>3 DEF StoreInv

LEMMA EarlyStores ==
  ASSUME Types, StoreInv, NEW r \in Runs, Prepares(r) \/ Creates(r)
  PROVE  StoreInv'
<1>1. UNCHANGED <<job, manifest, have>> /\ Held' = Held /\ UNCHANGED worker /\ Moves(r)
  BY DEF Prepares, Creates, shared, server, Held
<1>2. CASE run'[r].pc \notin {"copy", "put"}
  <2>1. Pending(r)' /\ Present(r)'
    BY <1>1, <1>2, Waits
  <2> QED BY <1>1, <2>1, OneRun
<1>3. CASE Creates(r) /\ run'[r].pc = "put"
  <2>1. run[r].pc = "copy" /\ Idle(r) /\ run[r].todo = {}
    BY <1>3 DEF Creates, StoreInv, Pending
  <2>2. \A w \in Workers, c \in Source(r) : ~Carries(<<r, w>>, c)
    BY <2>1 DEF Idle, Carries
  <2>3. Source(r) \subseteq Held
    BY <2>1, <2>2 DEF StoreInv, Pending
  <2>4. Pending(r)' /\ Present(r)'
    BY <1>1, <1>3, <2>3 DEF Pending, Present, Source
  <2> QED BY <1>1, <2>4, OneRun
<1> QED BY <1>2, <1>3 DEF Prepares, Creates, Ends

LEMMA StartStores ==
  ASSUME Types, StoreInv, NEW r \in Runs, Starts(r)
  PROVE  StoreInv'
<1>1. /\ UNCHANGED <<job, manifest>> /\ Held' = Held /\ Moves(r) /\ <<r, 1>> \in Slots
      /\ \A f \in Slots : f[1] # r => worker'[f] = worker[f]
  BY DEF Starts, server, Held, Slots
<1>2. have' \subseteq Held'
  BY <1>1 DEF Starts, StoreInv, Held
<1>3. Pending(r)'
  <2>1. \A c \in Source(r) : c \in Held \/ \E i \in run'[r].todo : job[r].chunks[i] = c
    BY DEF Starts, StoreInv, Held
  <2>2. ~Idle(r)'
    BY DEF Starts, Idle
  <2> QED BY <1>1, <2>1, <2>2 DEF Pending, Source
<1>4. Present(r)'
  BY <1>1 DEF Starts, StoreInv, Present, Source
<1>5. ASSUME NEW q \in Runs, q # r PROVE Pending(q)' /\ Present(q)'
  <2>1. \A w \in Workers : worker'[<<q, w>>] = worker[<<q, w>>]
    BY <1>1, <1>5 DEF Slots
  <2> QED BY <1>1, <1>5, <2>1, Bystands DEF Moves
<1>6. \A q \in Runs : Pending(q)' /\ Present(q)'
  BY <1>3, <1>4, <1>5
<1> QED BY <1>2, <1>6 DEF StoreInv

LEMMA ManifestStores ==
  ASSUME Types, StoreInv, NEW r \in Runs, Stores(r)
  PROVE  StoreInv'
<1>1. /\ UNCHANGED <<job, worker>> /\ Held' = Held /\ Moves(r) /\ have' = have
      /\ run'[r].pc = "end" /\ run[r].pc = "put"
      /\ \A q \in Runs : q # r => manifest'[q] = manifest[q]
  BY DEF Types, TypeOK, Stores, Ends, shared, Held
<1>2. Source(r) \subseteq Held
  BY <1>1 DEF StoreInv, Present
<1>3. Pending(r)' /\ Present(r)'
  BY <1>1, <1>2 DEF Pending, Present, Source
<1>4. ASSUME NEW q \in Runs, q # r PROVE Pending(q)' /\ Present(q)'
  BY <1>1, <1>4, Bystands DEF Moves
<1>5. \A q \in Runs : Pending(q)' /\ Present(q)'
  BY <1>3, <1>4
<1> QED BY <1>1, <1>5 DEF StoreInv

LEMMA CancelStores ==
  ASSUME Types, StoreInv, NEW r \in Runs, Cancels(r)
  PROVE  StoreInv'
<1>1. UNCHANGED <<job, manifest, have, worker>> /\ Held' = Held
  BY DEF Cancels, shared, server, Held
<1>2. ASSUME NEW q \in Runs PROVE Pending(q)' /\ Present(q)'
  <2>1. run'[q].pc = run[q].pc /\ run'[q].todo = run[q].todo
    BY DEF Cancels
  <2>2. /\ Source(q)' = Source(q) /\ Idle(q)' = Idle(q)
        /\ \A w \in Workers, c \in Source(q) : Carries(<<q, w>>, c)' = Carries(<<q, w>>, c)
    BY <1>1 DEF Source, Idle, Carries
  <2>3. Pending(q) /\ Present(q)
    BY DEF StoreInv
  <2>4. Pending(q)'
    <3>1. CASE run[q].pc # "copy"
      BY <2>1, <3>1 DEF Pending
    <3>2. CASE run[q].pc = "copy"
      <4>1. ASSUME NEW c \in Source(q)
            PROVE  \/ c \in Held'
                   \/ \E i \in run'[q].todo : job'[q].chunks[i] = c
                   \/ \E w \in Workers : Carries(<<q, w>>, c)'
        BY <1>1, <2>1, <2>2, <2>3, <3>2 DEF Pending
      <4>2. run'[q].todo # {} => ~Idle(q)'
        BY <2>1, <2>2, <2>3, <3>2 DEF Pending
      <4> QED BY <2>2, <4>1, <4>2 DEF Pending
    <3> QED BY <3>1, <3>2
  <2> QED BY <1>1, <2>1, <2>2, <2>3, <2>4 DEF Present
<1> QED BY <1>1, <1>2 DEF StoreInv

LEMMA WorkStores ==
  ASSUME Types, StoreInv, NEW s \in Slots, Quits(s) \/ Takes(s) \/ Puts(s)
  PROVE  StoreInv'
<1> DEFINE r == s[1]
           w == s[2]
<1>1. r \in Runs /\ w \in Workers /\ s = <<r, w>> /\ \A v \in Workers : <<r, v>> \in Slots
  BY DEF Slots
<1>2. /\ UNCHANGED <<job, manifest, have>> /\ Held' = Held
      /\ \A f \in Slots : f # s => worker'[f] = worker[f]
  BY DEF Quits, Takes, Puts, Sets, shared, server, Held
<1>3. Moves(r)
  BY <1>1 DEF Quits, Takes, Puts, Gone, Moves, Types, TypeOK
<1>4. \A f \in Slots : f[1] # r => worker'[f] = worker[f]
  BY <1>2
<1>5. Source(r)' = Source(r)
  BY <1>2 DEF Source
<1>6. \A v \in Workers : v # w => worker'[<<r, v>>] = worker[<<r, v>>]
  BY <1>1, <1>2
<1> HIDE DEF r, w
<1>7. CASE run'[r].pc \notin {"copy", "put"}
  <2>1. Pending(r)' /\ Present(r)'
    BY <1>1, <1>2, <1>7, Waits
  <2> QED BY <1>1, <1>2, <1>3, <1>4, <2>1, OneRun
<1>8. CASE run'[r].pc \in {"copy", "put"}
  <2>1. run[r].pc = "copy" /\ run'[r].pc = "copy"
    <3>1. worker[s].pc # "off"
      BY DEF Quits, Takes, Puts
    <3>2. run[r].pc \in {"copy", "end"}
      BY <1>1, <3>1 DEF Types, Shape, Phase, Idle
    <3>3. run'[r].pc = run[r].pc \/ run'[r].pc = "end"
      BY <1>3 DEF Quits, Takes, Puts, Gone, Ends, r
    <3> QED BY <1>8, <3>2, <3>3
  <2>2. Present(r)'
    BY <1>1, <1>2, <1>5, <2>1 DEF StoreInv, Present
  <2>3. CASE Quits(s)
    <3>1. run' = run /\ run[r].todo = {} /\ worker[s].pc = "take"
      <4>1. run[r].out = "none"
        BY <1>1, <2>1 DEF Types, Shape, Phase
      <4> QED BY <2>1, <2>3, <4>1 DEF Quits, Gone, Ends, r
    <3>2. \A v \in Workers, c \in Source(r) : Carries(<<r, v>>, c) => Carries(<<r, v>>, c)'
      BY <1>1, <1>6, <3>1 DEF Carries
    <3>3. Pending(r)'
      BY <1>1, <1>2, <1>5, <2>1, <3>1, <3>2 DEF StoreInv, Pending
    <3> QED BY <1>1, <1>2, <1>3, <1>4, <2>2, <3>3, OneRun
  <2>4. CASE Takes(s)
    <3>1. PICK i \in run[r].todo, x \in WorkerState :
            /\ worker[s].pc = "take" /\ run'[r].todo = run[r].todo \ {i}
            /\ Sets(s, x) /\ x.pc = "put" /\ x.chunk = job[r].chunks[i]
      BY <2>4 DEF Takes, r
    <3>2. worker'[<<r, w>>].pc = "put" /\ worker'[<<r, w>>].chunk = job[r].chunks[i]
      BY <1>1, <3>1 DEF Sets
    <3>3. \A v \in Workers, c \in Source(r) : Carries(<<r, v>>, c) => Carries(<<r, v>>, c)'
      BY <1>1, <1>6, <3>1 DEF Carries
    <3>4. ASSUME NEW c \in Source(r)
          PROVE  \/ c \in Held'
                 \/ \E j \in run'[r].todo : job'[r].chunks[j] = c
                 \/ \E v \in Workers : Carries(<<r, v>>, c)'
      <4>1. CASE job[r].chunks[i] = c
        BY <1>1, <3>2, <4>1 DEF Carries
      <4>2. CASE job[r].chunks[i] # c
        BY <1>1, <1>2, <2>1, <3>1, <3>3, <4>2 DEF StoreInv, Pending
      <4> QED BY <4>1, <4>2
    <3>5. ~Idle(r)'
      BY <1>1, <3>2 DEF Idle
    <3>6. Pending(r)'
      BY <1>5, <3>4, <3>5 DEF Pending
    <3> QED BY <1>1, <1>2, <1>3, <1>4, <2>2, <3>6, OneRun
  <2>5. CASE Puts(s)
    <3>1. PICK x \in WorkerState :
            /\ worker[s].pc = "put" /\ Sets(s, x) /\ x.chunk = worker[s].chunk
            /\ x.pc \in {"lead", "follow"} /\ run' = run
      BY <2>5 DEF Puts
    <3>2. worker'[<<r, w>>] = x
      BY <1>1, <3>1 DEF Sets
    <3>3. \A v \in Workers, c \in Source(r) : Carries(<<r, v>>, c) => Carries(<<r, v>>, c)'
      BY <1>1, <1>6, <3>1, <3>2 DEF Carries
    <3>4. ~Idle(r)'
      BY <1>1, <3>1, <3>2 DEF Idle
    <3>5. Pending(r)'
      BY <1>1, <1>2, <1>5, <2>1, <3>1, <3>3, <3>4 DEF StoreInv, Pending
    <3> QED BY <1>1, <1>2, <1>3, <1>4, <2>2, <3>5, OneRun
  <2> QED BY <2>3, <2>4, <2>5
<1> QED BY <1>7, <1>8

LEMMA UploadStores ==
  ASSUME Types, StoreInv, NEW s \in Slots, Uploads(s)
  PROVE  StoreInv'
<1>1. PICK result \in {"ok", "error", "abort"} :
        /\ Settles(s, result)
        /\ stored' = stored \/ stored' = stored \cup {worker[s].chunk}
        /\ result = "ok" => worker[s].chunk \in stored'
        /\ have' \subseteq have \cup stored'
        /\ UNCHANGED <<job, manifest, swept>>
  BY DEF Uploads
<1>2. Held \subseteq Held' /\ have' \subseteq Held' /\ UNCHANGED <<job, manifest>>
  BY <1>1 DEF Held, StoreInv
<1>3. ASSUME NEW q \in Runs PROVE Pending(q)' /\ Present(q)'
  <2>1. CASE run'[q].pc \notin {"copy", "put"}
    BY <1>2, <2>1, Waits
  <2>2. CASE run'[q].pc \in {"copy", "put"}
    <3>1. /\ run'[q].pc = run[q].pc /\ run'[q].todo = run[q].todo
          /\ ~ \E f \in Awaiting(s) : f[1] = q /\ Gives(f, result)
      <4>1. Told(s, result, q)
        BY <1>1 DEF Settles
      <4>2. run'[q].pc = run[q].pc /\ run'[q].out = run[q].out /\ run'[q].todo = run[q].todo
        BY <2>2, <4>1 DEF Told
      <4>3. run[q].out = "none"
        BY <2>2, <4>2 DEF Types, Shape, Phase
      <4> QED BY <2>2, <4>1, <4>2, <4>3 DEF Told
    <3>2. ASSUME NEW w \in Workers
          PROVE  /\ worker[<<q, w>>].pc # "off" => worker'[<<q, w>>].pc # "off"
                 /\ \A c \in Source(q) : Carries(<<q, w>>, c) => Carries(<<q, w>>, c)' \/ c \in Held'
      <4>1. <<q, w>> \in Slots /\ Hears(s, result, <<q, w>>)
        BY <1>1 DEF Slots, Settles
      <4>2. CASE <<q, w>> \notin Awaiting(s)
        BY <4>1, <4>2 DEF Hears, Carries
      <4>3. CASE <<q, w>> \in Awaiting(s)
        <5>1. \/ result = "ok" /\ worker'[<<q, w>>].pc = "take"
              \/ worker'[<<q, w>>].pc = "put" /\ worker'[<<q, w>>].chunk = worker[<<q, w>>].chunk
          BY <3>1, <4>1, <4>3 DEF Hears
        <5>2. worker[<<q, w>>].chunk = worker[s].chunk
          BY <4>3 DEF Awaiting
        <5>3. result = "ok" => worker[s].chunk \in Held'
          BY <1>1 DEF Held
        <5> QED BY <5>1, <5>2, <5>3 DEF Carries
      <4> QED BY <4>2, <4>3
    <3>3. Idle(q)' => Idle(q)
      BY <3>2 DEF Idle
    <3>4. Source(q)' = Source(q) /\ Pending(q) /\ Present(q)
      BY <1>2 DEF Source, StoreInv
    <3>5. Pending(q)'
      BY <1>2, <3>1, <3>2, <3>3, <3>4 DEF Pending
    <3> QED BY <1>2, <3>1, <3>4, <3>5 DEF Present
  <2> QED BY <2>1, <2>2
<1> QED BY <1>2, <1>3 DEF StoreInv

LEMMA SweepStores == Types /\ StoreInv /\ Sweep => StoreInv'
<1> SUFFICES ASSUME Types, StoreInv, Sweep PROVE StoreInv'
  OBVIOUS
<1>1. Held \subseteq Held' /\ UNCHANGED <<job, manifest, have, run, worker>>
  BY DEF Sweep, local, shared, Held
<1>2. \A q \in Runs : Pending(q)' /\ Present(q)'
  BY <1>1, Bystands
<1> QED BY <1>1, <1>2 DEF StoreInv

LEMMA StoreStep == Types /\ StoreInv /\ [Next]_vars => StoreInv'
<1> SUFFICES ASSUME Types, StoreInv, [Next]_vars PROVE StoreInv'
  OBVIOUS
<1>1. CASE UNCHANGED vars
  BY <1>1 DEF vars, local, shared, server, StoreInv, Pending, Present, Held, Carries, Idle, Source
<1>2. CASE Next
  BY <1>2, StepDoes, EarlyStores, StartStores, ManifestStores, CancelStores, WorkStores,
     UploadStores, SweepStores DEF Does
<1> QED BY <1>1, <1>2

LEMMA InitStores == Init => StoreInv
<1> SUFFICES ASSUME Init PROVE StoreInv
  OBVIOUS
<1>1. \A r \in Runs : run[r].pc = "idle" /\ manifest[r] = {}
  BY DEF Init, NotBegun
<1> QED BY <1>1 DEF Init, StoreInv, Pending, Present

(* A copy's manifest lacks no chunk but what a GC has deleted, and so does  *)
(* the presence cache, for any number of runs, chunks and workers.          *)
THEOREM OnlyGcLoses == Spec => []LostOnlyToGc
<1>1. StoreInv => LostOnlyToGc
  BY DEF StoreInv, Present, Held, LostOnlyToGc
<1> QED BY <1>1, InitStores, StoreStep, AlwaysTypes, PTL DEF Spec

-----------------------------------------------------------------------------
(* Files of the base: a run knows them and its free name from choosePath on. *)

Copies(r) == run[r].pc \in {"source", "file", "check", "copy", "put"}

FreeName(r) ==
  /\ job[r].policy = "skip" => 1 \notin run[r].kept
  /\ job[r].policy # "rename" => run[r].name = 1
  /\ job[r].policy = "rename" /\ run[r].name \in run[r].kept =>
       1..Names \subseteq run[r].kept /\ run[r].name = 1

Knows(r) ==
  /\ run[r].kept = job[r].base \/ run[r].aborted \/ run[r].blind
  /\ FreeName(r)

KeepsBase(r) ==
  \/ run[r].blind
  \/ job[r].policy = "skip" /\ 1 \in job[r].base
  \/ \A n \in job[r].base :
       \/ <<n, "base">> \in manifest[r]
       \/ n = 1 /\ (job[r].policy = "overwrite" \/ 1..Names \subseteq job[r].base)

NameInv ==
  \A r \in Runs : /\ Copies(r) => Knows(r)
                  /\ run[r].out = "done" => KeepsBase(r)

(* A run that gets no further than it was, with the same manifest. *)
Steady(q) ==
  /\ Copies(q)' => /\ Copies(q) /\ run'[q].kept = run[q].kept /\ run'[q].name = run[q].name
                   /\ run[q].aborted => run'[q].aborted
  /\ run[q].blind => run'[q].blind
  /\ run'[q].out = "done" => run[q].out = "done" /\ manifest'[q] = manifest[q]

LEMMA SteadyKnows ==
  ASSUME NameInv, UNCHANGED job, NEW q \in Runs, Steady(q)
  PROVE  (Copies(q)' => Knows(q)') /\ (run'[q].out = "done" => KeepsBase(q)')
<1>1. ASSUME Copies(q)' PROVE Knows(q)'
  BY <1>1 DEF Steady, NameInv, Knows, FreeName
<1>2. ASSUME run'[q].out = "done" PROVE KeepsBase(q)'
  BY <1>2 DEF Steady, NameInv, KeepsBase
<1> QED BY <1>1, <1>2

LEMMA OneNamed ==
  ASSUME NameInv, UNCHANGED job, NEW r \in Runs, Moves(r),
         \A q \in Runs : q # r => manifest'[q] = manifest[q],
         Copies(r)' => Knows(r)', run'[r].out = "done" => KeepsBase(r)'
  PROVE  NameInv'
<1>1. ASSUME NEW q \in Runs, q # r
      PROVE  (Copies(q)' => Knows(q)') /\ (run'[q].out = "done" => KeepsBase(q)')
  <2>1. Steady(q)
    BY <1>1 DEF Steady, Moves, Copies
  <2> QED BY <2>1, SteadyKnows
<1> QED BY <1>1 DEF NameInv

LEMMA PrepareNames ==
  ASSUME Types, NameInv, NEW r \in Runs, Prepares(r)
  PROVE  NameInv'
<1>1. UNCHANGED <<job, manifest>> /\ Moves(r)
  BY DEF Prepares, server
<1>2. run[r].out = "none"
  BY DEF Prepares, Types, Shape, Phase
<1>3. ASSUME Copies(r)' PROVE Knows(r)'
  <2>1. run'[r].pc \in {"source", "file", "check"}
    BY <1>3 DEF Copies, Prepares, Ends
  <2>2. CASE Chosen(r)
    <3>1. run'[r].kept = job[r].base \/ run'[r].aborted \/ run'[r].blind
      BY <1>1, <2>2 DEF Chosen, Moves
    <3>2. Named(r, run'[r].kept)
      BY <2>2 DEF Chosen
    <3>3. FreeName(r)'
      BY <1>1, <3>2, NewNameFree DEF Named, FreeName
    <3> QED BY <1>1, <3>1, <3>3 DEF Knows
  <2>3. CASE /\ run[r].pc \in {"source", "file", "check"}
             /\ run'[r].kept = run[r].kept /\ run'[r].name = run[r].name
    <3>1. Copies(r) /\ run'[r].aborted = run[r].aborted /\ (run[r].blind => run'[r].blind)
      BY <1>1, <2>3 DEF Copies, Moves
    <3> QED BY <1>1, <2>3, <3>1 DEF NameInv, Knows, FreeName
  <2> QED BY <2>1, <2>2, <2>3 DEF Prepares
<1>4. ASSUME run'[r].out = "done" PROVE KeepsBase(r)'
  <2>1. job[r].policy = "skip" /\ 1 \in job[r].base
    BY <1>2, <1>4 DEF Prepares, Ends
  <2> QED BY <1>1, <2>1 DEF KeepsBase
<1> QED BY <1>1, <1>3, <1>4, OneNamed

LEMMA StepsNames ==
  ASSUME Types, NameInv, NEW r \in Runs, Starts(r) \/ Creates(r)
  PROVE  NameInv'
<1>1. UNCHANGED <<job, manifest>> /\ Moves(r)
  BY DEF Starts, Creates, server
<1>2. Steady(r)
  BY <1>1 DEF Starts, Creates, Ends, Steady, Copies, Moves
<1> QED BY <1>1, <1>2, SteadyKnows, OneNamed

LEMMA ManifestNames ==
  ASSUME Types, NameInv, NEW r \in Runs, Stores(r)
  PROVE  NameInv'
<1>0. manifest \in [Runs -> SUBSET ((0..Names) \X {"base", "copy"})]
  BY DEF Types, TypeOK
<1>1. UNCHANGED job /\ Moves(r) /\ run'[r].pc = "end" /\ run[r].pc = "put"
      /\ \A q \in Runs : q # r => manifest'[q] = manifest[q]
  BY <1>0 DEF Stores, Ends
<1>2. ASSUME run'[r].out = "done" PROVE KeepsBase(r)'
  <2>1. ~run[r].aborted /\ manifest'[r] = FilesOf(r)
    BY <1>0, <1>2 DEF Stores, Ends
  <2>2. Knows(r)
    BY <1>1 DEF NameInv, Copies
  <2>3. \A n \in run[r].kept : n # run[r].name => <<n, "base">> \in manifest'[r]
    BY <2>1 DEF FilesOf
  <2>4. CASE ~run[r].blind
    <3>1. run[r].kept = job[r].base /\ FreeName(r)
      BY <2>1, <2>2, <2>4 DEF Knows
    <3>2. ASSUME NEW n \in job[r].base, n = run[r].name
          PROVE  \/ job[r].policy = "skip" /\ 1 \in job[r].base
                 \/ n = 1 /\ (job[r].policy = "overwrite" \/ 1..Names \subseteq job[r].base)
      <4>1. job[r].policy \in {"overwrite", "skip", "rename"}
        <5>1. job[r] \in JobType
          BY DEF Types, TypeOK
        <5> QED BY <5>1 DEF JobType, Policies
      <4> QED BY <3>1, <3>2, <4>1 DEF FreeName
    <3> QED BY <1>1, <2>3, <3>1, <3>2 DEF KeepsBase
  <2>5. CASE run[r].blind
    BY <1>1, <2>5 DEF Moves, KeepsBase
  <2> QED BY <2>4, <2>5
<1>3. ~Copies(r)'
  BY <1>1 DEF Copies
<1> QED BY <1>1, <1>2, <1>3, OneNamed

LEMMA OtherNames ==
  ASSUME Types, NameInv, UNCHANGED <<job, manifest>>,
         \/ run' = run
         \/ \E r \in Runs : Cancels(r)
         \/ \E s \in Slots : Quits(s) \/ Takes(s) \/ Puts(s) \/ Uploads(s)
  PROVE  NameInv'
<1>1. CASE run' = run
  BY <1>1 DEF NameInv, Copies, Knows, FreeName, KeepsBase
<1>2. ASSUME NEW r \in Runs, Cancels(r) PROVE NameInv'
  <2>1. \A q \in Runs : Steady(q)
    BY <1>2 DEF Cancels, Steady, Copies
  <2> QED BY <2>1, SteadyKnows DEF NameInv
<1>3. ASSUME NEW s \in Slots, Quits(s) \/ Takes(s) PROVE NameInv'
  <2>1. s[1] \in Runs
    BY DEF Slots
  <2>2. CASE run' = run
    BY <1>1, <2>2
  <2>3. CASE Gone(s[1])
    <3>1. Moves(s[1]) /\ Steady(s[1])
      BY <2>3 DEF Gone, Moves, Ends, Steady, Copies
    <3> QED BY <2>1, <3>1, SteadyKnows, OneNamed
  <2>4. CASE Takes(s)
    <3>1. Moves(s[1]) /\ Steady(s[1])
      BY <2>4 DEF Takes, Moves, Steady, Copies
    <3> QED BY <2>1, <3>1, SteadyKnows, OneNamed
  <2> QED BY <1>3, <2>2, <2>3, <2>4 DEF Quits
<1>4. ASSUME NEW s \in Slots, Puts(s) PROVE NameInv'
  BY <1>1, <1>4 DEF Puts
<1>5. ASSUME NEW s \in Slots, Uploads(s) PROVE NameInv'
  <2>1. PICK result \in {"ok", "error", "abort"} : \A q \in Runs : Told(s, result, q)
    BY <1>5 DEF Uploads, Settles
  <2>2. \A q \in Runs : Steady(q)
    BY <2>1 DEF Told, Steady, Copies
  <2> QED BY <2>2, SteadyKnows DEF NameInv
<1> QED BY <1>1, <1>2, <1>3, <1>4, <1>5

LEMMA NameStep == Types /\ NameInv /\ [Next]_vars => NameInv'
<1> SUFFICES ASSUME Types, NameInv, [Next]_vars PROVE NameInv'
  OBVIOUS
<1>1. CASE UNCHANGED vars
  BY <1>1, OtherNames DEF vars, local, server
<1>2. CASE Next
  <2>1. CASE Sweep
    BY <2>1, OtherNames DEF Sweep, local
  <2>2. ASSUME NEW r \in Runs, Cancels(r) PROVE NameInv'
    BY <2>2, OtherNames DEF Cancels, server
  <2>3. ASSUME NEW s \in Slots, Quits(s) \/ Takes(s) \/ Puts(s) \/ Uploads(s) PROVE NameInv'
    <3>1. UNCHANGED <<job, manifest>>
      BY <2>3 DEF Quits, Takes, Puts, Uploads, server
    <3> QED BY <2>3, <3>1, OtherNames
  <2> QED BY <1>2, <2>1, <2>2, <2>3, StepDoes, PrepareNames, StepsNames, ManifestNames DEF Does
<1> QED BY <1>1, <1>2

LEMMA InitNames == Init => NameInv
BY DEF Init, NotBegun, NameInv, Copies

(* The manifest of a copy lacks no chunk but what a GC has deleted, and no  *)
(* file of the base but the one it overwrites, for any number of runs,      *)
(* chunks, names and workers: a run whose GET of the base manifest failed   *)
(* is the one that loses more.                                              *)
THEOREM ManifestsAreSound == Spec => []ManifestsSound
<1>1. NameInv => BaseKept
  BY DEF NameInv, KeepsBase, BaseKept
<1>2. LostOnlyToGc /\ BaseKept => ManifestsSound
  BY DEF ManifestsSound
<1> QED BY <1>1, <1>2, InitNames, NameStep, OnlyGcLoses, AlwaysTypes, PTL DEF Spec
=============================================================================
