---------------------------- MODULE ResumableCopy ----------------------------
(***************************************************************************)
(* What a copy_folder job promises, whatever its workers, conflict policy, *)
(* errors and restarts: the files it counts as copied stay copied, it      *)
(* resumes behind nothing that is missing, and done means all of them,     *)
(* unless a run could not see what was there.                              *)
(***************************************************************************)
EXTENDS Naturals

CONSTANT Files  \* the files are 1..Files, in order

VARIABLES
  status,  \* "queued", "running", "failed" or "done"
  copied,  \* the files that are in the destination
  next,    \* the file the next run of the job starts at
  blind,   \* the run could not see what is in the destination
  lost     \* the files such a run has passed over

vars == <<status, copied, next, blind, lost>>

Init ==
  /\ status = "queued"
  /\ copied \in SUBSET (1..Files)  \* some may be there already
  /\ next = 1
  /\ blind = FALSE /\ lost = {}

Start ==
  /\ status \in {"queued", "failed"}
  /\ status' = "running"
  /\ UNCHANGED <<copied, next, blind, lost>>

(* What the run has to build on cannot be read, and it goes on without: the *)
(* files before next may be lost.                                           *)
GoBlind ==
  /\ status = "running"
  /\ blind' = TRUE /\ lost' = lost \cup 1..next - 1
  /\ UNCHANGED <<status, copied, next>>

(* A blind run passes over a file it takes for copied. *)
PassBlindly ==
  /\ status = "running" /\ blind
  /\ \E i \in 1..Files : lost' = lost \cup {i} /\ copied' \in {copied, copied \cup {i}}
  /\ UNCHANGED <<status, next, blind>>

(* The destination is rewritten.  Files from next on may come and go (an    *)
(* overwritten file is taken out first), those before it stay.              *)
Store ==
  /\ status = "running"
  /\ copied' \in {C \in SUBSET (1..Files) : (1..next - 1) \ lost \subseteq C}
  /\ UNCHANGED <<status, next, blind, lost>>

(* Progress only moves over files that are in the destination. *)
Advance ==
  /\ status = "running"
  /\ next' \in next..Files + 1
  /\ (1..next' - 1) \ lost \subseteq copied
  /\ UNCHANGED <<status, copied, blind, lost>>

Finish ==
  /\ status = "running" /\ next = Files + 1
  /\ status' = "done" /\ blind' = FALSE
  /\ UNCHANGED <<copied, next, lost>>

(* An error, a cancel, or the end of the app. *)
Stop ==
  /\ status = "running"
  /\ status' = "failed" /\ blind' = FALSE
  /\ UNCHANGED <<copied, next, lost>>

Next == Start \/ GoBlind \/ PassBlindly \/ Store \/ Advance \/ Finish \/ Stop

Spec == Init /\ [][Next]_vars

-----------------------------------------------------------------------------

(* Nothing a resume skips is missing, and a done job lacks no file, but for *)
(* what blind runs have passed over.                                        *)
Promise ==
  /\ (1..next - 1) \ lost \subseteq copied
  /\ status = "done" => (1..Files) \ lost \subseteq copied
=============================================================================
