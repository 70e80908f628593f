--------------------------- MODULE TerminalPanes ---------------------------
(***************************************************************************)
(* Terminal panes of the desktop app and the shells the backend runs for   *)
(* them (TerminalPane.tsx, api/tauri.ts, src-tauri/src/main.rs).           *)
(*                                                                         *)
(* A pane asks for a shell, keeps the id of the answer in a ref and writes *)
(* to it; it hears the output and the exit of the session whose id it had  *)
(* when its status last changed, through listeners that are registered     *)
(* asynchronously.  Reconnecting, another tab in the same pane (panes have *)
(* no React key) and closing the pane clean up what the ref names; they do *)
(* not wait for a start that is in flight.                                 *)
(***************************************************************************)
EXTENDS Folders

CONSTANTS
  Terminals,  \* places of the layout that may hold a terminal pane
  Starts      \* bound: terminal_start calls

ASSUME StartsAssumption ==
  Starts \in Nat /\ None \notin 1..Starts /\ None \notin {"ok", "failed"}

Sessions == 1..Starts  \* the n-th start makes session n, if it succeeds

VARIABLES
  tabOf,      \* the folder of the pane's tab, None where there is no terminal
  status,     \* what the pane shows
  ref,        \* sessionIdRef of the pane
  listener,   \* the session of the pane's current listener effect
  pending,    \* registrations in flight: [sid, kept], kept until cleaned up
  hears,      \* registered listeners: [sid, kept]
  starts,     \* terminal_start calls in flight, in order
  asked,      \* starts so far
  sessions,   \* TerminalManager: the sessions that can be written to
  ended,      \* sessions whose shell has ended, their reader not yet
  madeFor,    \* history: the tab each session was started for
  overtaken   \* history: per pane, starts that were in flight when it was cleaned up

backend      == <<sessions, ended>>
terminalVars == <<tabOf, status, ref, listener, pending, hears, starts, asked,
                  sessions, ended, madeFor, overtaken>>

Registration == [sid: Sessions, kept: BOOLEAN]
StartCall == [id: Sessions, pane: Terminals, live: BOOLEAN, answer: {None, "ok", "failed"}]

TerminalInit ==
  /\ tabOf = [t \in Terminals |-> None]
  /\ status = [t \in Terminals |-> "idle"]
  /\ ref = [t \in Terminals |-> None]
  /\ listener = [t \in Terminals |-> None]
  /\ pending = [t \in Terminals |-> {}]
  /\ hears = [t \in Terminals |-> {}]
  /\ starts = <<>>
  /\ asked = 0
  /\ sessions = {} /\ ended = {}
  /\ madeFor = [s \in Sessions |-> None]
  /\ overtaken = [t \in Terminals |-> {}]

Open(t) == tabOf[t] # None

-----------------------------------------------------------------------------
(* The effect on `status`: cleanup calls the unlisten functions it has by   *)
(* now, then the listeners of the session in the ref are registered.        *)

(* Variant: the effect reads the ref of the render before. *)
SetStatusStale(t, new, sid) ==
  /\ status' = [status EXCEPT ![t] = new]
  /\ IF new = status[t]
       THEN UNCHANGED <<listener, pending, hears>>
       ELSE /\ hears' = [hears EXCEPT ![t] = {h \in @ : ~h.kept}]
            /\ pending' = [pending EXCEPT ![t] =
                 {[r EXCEPT !.kept = FALSE] : r \in @}
                   \cup (IF ref[t] = None THEN {} ELSE {[sid |-> ref[t], kept |-> TRUE]})]
            /\ listener' = [listener EXCEPT ![t] = ref[t]]

(* Variant: the effect returns no cleanup. *)
SetStatusAlone(t, new, sid) ==
  /\ status' = [status EXCEPT ![t] = new]
  /\ IF new = status[t]
       THEN UNCHANGED <<listener, pending, hears>>
       ELSE /\ pending' = [pending EXCEPT ![t] =
                 @ \cup (IF sid = None THEN {} ELSE {[sid |-> sid, kept |-> TRUE]})]
            /\ listener' = [listener EXCEPT ![t] = sid]
            /\ UNCHANGED hears

SetStatus(t, new, sid) ==
  /\ status' = [status EXCEPT ![t] = new]
  /\ IF new = status[t]
       THEN UNCHANGED <<listener, pending, hears>>
       ELSE /\ hears' = [hears EXCEPT ![t] = {h \in @ : ~h.kept}]
            /\ pending' = [pending EXCEPT ![t] =
                 {[r EXCEPT !.kept = FALSE] : r \in @}
                   \cup (IF sid = None THEN {} ELSE {[sid |-> sid, kept |-> TRUE]})]
            /\ listener' = [listener EXCEPT ![t] = sid]

Registered(t) == \E r \in pending[t] :
  /\ pending' = [pending EXCEPT ![t] = @ \ {r}]
  /\ hears' = [hears EXCEPT ![t] = @ \cup {r}]
  /\ UNCHANGED <<tabOf, status, ref, listener, starts, asked, backend, madeFor, overtaken>>

(* Variant: the id is not looked up. *)
ClosingAny(s) == sessions' = sessions \ {s} /\ ended' = ended \cup {s}

(* Variant: the cleanup leaves the session to the backend. *)
ClosingNot(s) == UNCHANGED backend

(* terminal_close: out of the map and killed, if it is still there. *)
Closing(s) ==
  IF s \in sessions
    THEN sessions' = sessions \ {s} /\ ended' = ended \cup {s}
    ELSE UNCHANGED backend

InFlight(t) == {starts[k].id : k \in {j \in DOMAIN starts : starts[j].pane = t /\ starts[j].live}}

(* connect(): a start is asked for, whatever is still in flight. *)
Asking(t, calls, folder) ==
  /\ asked < Starts
  /\ asked' = asked + 1
  /\ starts' = Append(calls, [id |-> asked + 1, pane |-> t, live |-> TRUE, answer |-> None])
  /\ madeFor' = [madeFor EXCEPT ![asked + 1] = folder]

Mount(t, folder) ==
  /\ ~Open(t)
  /\ tabOf' = [tabOf EXCEPT ![t] = folder]
  /\ Asking(t, starts, folder)
  /\ status' = [status EXCEPT ![t] = "connecting"]
  /\ UNCHANGED <<ref, listener, pending, hears, backend, overtaken>>

(* Variant: the ref is left to the next answer. *)
ReconnectKeeping(t, folder) ==
  /\ Open(t)
  /\ tabOf' = [tabOf EXCEPT ![t] = folder]
  /\ Closing(ref[t])
  /\ overtaken' = [overtaken EXCEPT ![t] = @ \cup InFlight(t)]
  /\ Asking(t, starts, folder)
  /\ SetStatus(t, "connecting", None)
  /\ UNCHANGED ref

(* The Reconnect button, or another tab in this place of the layout: the    *)
(* same component cleans up and connects, its status goes to connecting.    *)
Reconnect(t, folder) ==
  /\ Open(t)
  /\ tabOf' = [tabOf EXCEPT ![t] = folder]
  /\ ref' = [ref EXCEPT ![t] = None]
  /\ Closing(ref[t])
  /\ overtaken' = [overtaken EXCEPT ![t] = @ \cup InFlight(t)]
  /\ Asking(t, starts, folder)
  /\ SetStatus(t, "connecting", None)

Dead(t) == [k \in DOMAIN starts |->
  IF starts[k].pane = t THEN [starts[k] EXCEPT !.live = FALSE] ELSE starts[k]]

(* The component goes: what its listeners hear reaches nobody any more. *)
Cleanup(t) ==
  /\ Open(t)
  /\ ref' = [ref EXCEPT ![t] = None]
  /\ listener' = [listener EXCEPT ![t] = None]
  /\ pending' = [pending EXCEPT ![t] = {}]
  /\ hears' = [hears EXCEPT ![t] = {}]
  /\ Closing(ref[t])
  /\ overtaken' = [overtaken EXCEPT ![t] = @ \cup InFlight(t)]

Unmount(t) ==
  /\ Cleanup(t)
  /\ tabOf' = [tabOf EXCEPT ![t] = None]
  /\ status' = [status EXCEPT ![t] = "idle"]
  /\ starts' = Dead(t)
  /\ UNCHANGED <<asked, madeFor>>

(* The pane moves to another position of the tree, and with it to a new     *)
(* component that connects at once.                                         *)
Relocate(t) ==
  /\ Cleanup(t)
  /\ Asking(t, Dead(t), tabOf[t])
  /\ status' = [status EXCEPT ![t] = "connecting"]
  /\ UNCHANGED tabOf

-----------------------------------------------------------------------------

(* terminal_start runs on the main thread: calls are carried out in order. *)
Start == \E k \in DOMAIN starts :
  /\ starts[k].answer = None
  /\ \A j \in 1..(k-1) : starts[j].answer # None
  /\ \/ /\ sessions' = sessions \cup {starts[k].id}
        /\ starts' = [starts EXCEPT ![k].answer = "ok"]
     \/ /\ sessions' = sessions
        /\ starts' = [starts EXCEPT ![k].answer = "failed"]
  /\ UNCHANGED <<tabOf, status, ref, listener, pending, hears, asked, ended, madeFor, overtaken>>

(* The answer sets the ref of the pane that asked, whatever it holds. *)
Answer ==
  /\ starts # <<>> /\ Head(starts).answer # None
  /\ LET c == Head(starts) IN
       /\ starts' = Tail(starts)
       /\ \/ /\ c.live /\ c.answer = "ok"
             /\ ref' = [ref EXCEPT ![c.pane] = c.id]
             /\ SetStatus(c.pane, "ready", c.id)
          \/ /\ c.live /\ c.answer = "failed"
             /\ SetStatus(c.pane, "error", ref[c.pane])
             /\ UNCHANGED ref
          \/ ~c.live /\ UNCHANGED <<ref, status, listener, pending, hears>>
  /\ UNCHANGED <<tabOf, asked, backend, madeFor, overtaken>>

ShellEnds(s) ==
  /\ s \in sessions \ ended
  /\ ended' = ended \cup {s}
  /\ UNCHANGED <<tabOf, status, ref, listener, pending, hears, starts, asked, sessions, madeFor, overtaken>>

(* The reader thread meets the end of the pty: the exit event reaches the   *)
(* panes that listen for the session, then it leaves the map.               *)
ReaderEnds(s) ==
  LET told == {t \in Terminals : \E h \in hears[t] : h.sid = s}
      Again(t) == t \in told /\ status[t] # "closed"
  IN
  /\ s \in ended
  /\ ended' = ended \ {s}
  /\ sessions' = sessions \ {s}
  /\ status' = [t \in Terminals |-> IF t \in told THEN "closed" ELSE status[t]]
  /\ hears' = [t \in Terminals |-> IF Again(t) THEN {h \in hears[t] : ~h.kept} ELSE hears[t]]
  /\ pending' = [t \in Terminals |->
       IF ~Again(t) THEN pending[t]
       ELSE {[r EXCEPT !.kept = FALSE] : r \in pending[t]}
              \cup (IF ref[t] = None THEN {} ELSE {[sid |-> ref[t], kept |-> TRUE]})]
  /\ listener' = [t \in Terminals |-> IF Again(t) THEN ref[t] ELSE listener[t]]
  /\ UNCHANGED <<tabOf, ref, starts, asked, madeFor, overtaken>>

TerminalStep ==
  \/ Start \/ Answer
  \/ \E t \in Terminals : Registered(t)
  \/ \E s \in Sessions : ShellEnds(s) \/ ReaderEnds(s)

-----------------------------------------------------------------------------

TerminalTypeOK ==
  /\ tabOf \in [Terminals -> Folder \cup {None}]
  /\ status \in [Terminals -> {"idle", "connecting", "ready", "closed", "error"}]
  /\ ref \in [Terminals -> Sessions \cup {None}]
  /\ listener \in [Terminals -> Sessions \cup {None}]
  /\ pending \in [Terminals -> SUBSET Registration]
  /\ hears \in [Terminals -> SUBSET Registration]
  /\ starts \in Seq(StartCall)
  /\ asked \in 0..Starts
  /\ sessions \subseteq Sessions /\ ended \subseteq Sessions
  /\ madeFor \in [Sessions -> Folder \cup {None}]
  /\ overtaken \in [Terminals -> SUBSET Sessions]

(* A shell that no pane can reach and no answer will name, and that is not  *)
(* ending, was started by a call whose pane was closed, reconnected or      *)
(* given another tab before the answer: closing a pane ends its shell       *)
(* otherwise, in every order of answers, exits and reconnects.              *)
OrphansOvertaken ==
  \A s \in sessions \ ended :
    \/ \E t \in Terminals : Open(t) /\ ref[t] = s
    \/ \E k \in DOMAIN starts : starts[k].id = s
    \/ \E t \in Terminals : s \in overtaken[t]

(* What is typed into a pane goes to a shell that was started for the tab   *)
(* it shows, but for the late answer of an overtaken start.                 *)
TypesIntoItsTab ==
  \A t \in Terminals : ref[t] # None => madeFor[ref[t]] = tabOf[t] \/ ref[t] \in overtaken[t]

(* A pane that is ready shows the output of the shell it types into, or is  *)
(* about to; if not, it listens to a shell of an overtaken start: the       *)
(* listeners follow the status, and ready after ready is no change.         *)
ShowsWhatItTypesInto ==
  \A t \in Terminals : status[t] = "ready" =>
    \/ listener[t] = ref[t] /\ \E r \in pending[t] \cup hears[t] : r.sid = ref[t] /\ r.kept
    \/ listener[t] \in overtaken[t]

(* A pane says "closed" over a running shell only if it still hears an      *)
(* earlier session: one whose listeners were being registered when they     *)
(* were cleaned up, or one of an overtaken start.                           *)
ClosedIsTrue ==
  \A t \in Terminals : status[t] = "closed" /\ ref[t] \in sessions \ ended =>
    \/ \E h \in hears[t] : ~h.kept
    \/ overtaken[t] # {}

=============================================================================
