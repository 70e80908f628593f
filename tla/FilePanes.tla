----------------------------- MODULE FilePanes -----------------------------
(***************************************************************************)
(* The local and SFTP browser panes of the desktop app                     *)
(* (LocalBrowserPane.tsx, SftpBrowserPane.tsx).                            *)
(*                                                                         *)
(* A pane shows the entries of a listing under the folder of its tab.  Its *)
(* handlers are closures of a render: they list the folder the tab had     *)
(* when they began.  While `loading`, buttons are disabled; the command    *)
(* palette and the layout (another tab in the same place, a new place) are *)
(* not.                                                                    *)
(***************************************************************************)
EXTENDS Folders

CONSTANTS
  Locals, Sftps,  \* places of the layout that hold a pane of the kind
  Moves           \* bound: what the user does

ASSUME FileBounds == Moves \in Nat

Panes == Locals \cup Sftps

VARIABLES
  tab,      \* base and path of the tab, None: a local pane without a base
  shown,    \* the folder whose entries are shown, None: no entries
  loading,
  calls,    \* calls of the pane's handlers in flight, in order
  dialogs,  \* save dialogs of downloads that wait for the user
  crossed,  \* history: panes where a call began past the disabled buttons
  outrun,   \* history: panes whose tab moved on without its entries
  moves

fileVars == <<tab, shown, loading, calls, dialogs, crossed, outrun, moves>>

(* list: refresh; change: mkdir, rename, move; copy: download of a local   *)
(* file; pick: the folder dialog; push: backup; purge: backup, then delete. *)
Ops == {"list", "change", "copy", "pick", "push", "purge", "delete"}
FileCall == [op: Ops, at: Place \cup {None}, live: BOOLEAN]

FileInit ==
  /\ tab \in [Panes -> {None} \cup {Top(b) : b \in Bases}]
  /\ \A p \in Locals : tab[p] = None
  /\ \A p \in Sftps : tab[p] # None
  /\ shown = [p \in Panes |-> None]
  /\ loading = [p \in Panes |-> FALSE]
  /\ calls = [p \in Panes |-> <<>>]
  /\ dialogs = [p \in Panes |-> 0]
  /\ crossed = {} /\ outrun = {}
  /\ moves = 0

Live(p) == {k \in DOMAIN calls[p] : calls[p][k].live}
Idle(p) == Live(p) = {}

Call(op, at) == [op |-> op, at |-> at, live |-> TRUE]

(* The tab moves on: the entries follow in a local pane, unless a call in   *)
(* flight refreshes at its end where it began; in an SFTP pane they do not. *)
Refreshes(c) == c.live /\ c.op \in {"change", "push", "purge", "delete"}
Outruns(p)   == p \in Sftps \/ \E c \in ToSet(calls[p]) : Refreshes(c)
MovesOn(p)   == outrun' = IF Outruns(p) THEN outrun \cup {p} ELSE outrun \ {p}

Moving == moves < Moves /\ moves' = moves + 1

-----------------------------------------------------------------------------
(* What the user does.  Buttons are disabled while `loading` is set; the    *)
(* shortcuts and the command palette of App.tsx are not.                    *)

Button(p) == ~loading[p] /\ UNCHANGED crossed

Command(p) == crossed' = IF Idle(p) THEN crossed ELSE crossed \cup {p}

(* refresh() of the current render.  Without a base there is nothing to ask. *)
Ask(p, at) ==
  IF at = None
    THEN shown' = [shown EXCEPT ![p] = None] /\ UNCHANGED <<loading, calls>>
    ELSE /\ loading' = [loading EXCEPT ![p] = TRUE]
         /\ calls' = [calls EXCEPT ![p] = Append(@, Call("list", at))]
         /\ UNCHANGED shown

Refresh(p) ==
  /\ Moving /\ (Button(p) \/ Command(p))
  /\ Ask(p, tab[p])
  /\ outrun' = IF p \in Sftps /\ Idle(p) THEN outrun \ {p} ELSE outrun
  /\ UNCHANGED tab

(* Variant: the effect runs with the closure of the render before. *)
GoToStale(p, at) ==
  /\ tab' = [tab EXCEPT ![p] = at]
  /\ MovesOn(p)
  /\ Ask(p, tab[p])

(* The tab gets another folder.  A local pane has an effect that refreshes  *)
(* on every change of its folder; an SFTP pane refreshes from the handler,  *)
(* with the closure of the render before the change.                        *)
GoTo(p, at) ==
  /\ tab' = [tab EXCEPT ![p] = at]
  /\ MovesOn(p)
  /\ Ask(p, IF p \in Locals THEN at ELSE tab[p])

GoUp(p) ==
  /\ tab[p] # None /\ tab[p].dir > 0
  /\ Moving /\ (Button(p) \/ Command(p))
  /\ GoTo(p, Parent(tab[p]))

EnterDir(p) ==
  /\ shown[p] # None /\ tab[p] # None /\ tab[p].dir < Deep
  /\ Moving /\ Button(p)
  /\ GoTo(p, Row(tab[p]))

(* The path and connection fields of an SFTP pane, which list nothing. *)
EditFields(p) ==
  /\ p \in Sftps
  /\ Moving /\ Command(p)
  /\ \E at \in Place : tab' = [tab EXCEPT ![p] = at]
  /\ MovesOn(p)
  /\ UNCHANGED <<shown, loading, calls>>

(* Variant: the handler forgets setLoading. *)
BeginEnabled(p, c) ==
  /\ calls' = [calls EXCEPT ![p] = Append(@, c)]
  /\ UNCHANGED loading

(* A call of a handler that disables the buttons. *)
Begin(p, c) ==
  /\ loading' = [loading EXCEPT ![p] = TRUE]
  /\ calls' = [calls EXCEPT ![p] = Append(@, c)]

PickFolder(p) ==
  /\ p \in Locals
  /\ Moving /\ (Button(p) \/ Command(p))
  /\ Begin(p, Call("pick", tab[p]))
  /\ UNCHANGED <<tab, shown, outrun>>

Mkdir(p) ==
  /\ p \in Sftps
  /\ Moving /\ (Button(p) \/ Command(p))
  /\ Begin(p, Call("change", tab[p]))
  /\ UNCHANGED <<tab, shown, outrun>>

(* A row of a local pane carries the path it was listed with, a row of an   *)
(* SFTP pane only a name below the path of the tab.                         *)
Target(p) == IF p \in Locals THEN Row(shown[p]) ELSE Row(tab[p])

(* Rename and move in both panes; backup, and backup and delete of local    *)
(* rows, where those of SFTP rows only queue a transfer.                    *)
RowCall(p) == \E op \in {"change", "push", "purge"} :
  /\ p \in Sftps => op = "change"
  /\ shown[p] # None /\ tab[p] # None
  /\ Moving /\ Button(p)
  /\ Begin(p, Call(op, tab[p]))
  /\ UNCHANGED <<tab, shown, outrun>>

(* The download of a local file awaits its save dialog before it sets       *)
(* `loading`: until then the buttons stay enabled.  (That of an SFTP row    *)
(* only queues a transfer.)                                                 *)
Download(p) ==
  /\ p \in Locals /\ shown[p] # None
  /\ Moving /\ Button(p)
  /\ dialogs' = [dialogs EXCEPT ![p] = @ + 1]
  /\ UNCHANGED <<tab, shown, loading, calls, outrun>>

(* The dialog is answered: the copy begins, whatever has begun meanwhile.   *)
Saved(p) ==
  /\ dialogs[p] > 0 /\ dialogs' = [dialogs EXCEPT ![p] = @ - 1]
  /\ Command(p)
  /\ Begin(p, Call("copy", tab[p]))
  /\ UNCHANGED <<tab, shown, outrun, moves>>

Dismissed(p) ==
  /\ dialogs[p] > 0 /\ dialogs' = [dialogs EXCEPT ![p] = @ - 1]
  /\ UNCHANGED <<tab, shown, loading, calls, crossed, outrun, moves>>

BackupFolder(p) ==
  /\ p \in Locals /\ tab[p] # None
  /\ Moving /\ Button(p)
  /\ Begin(p, Call("push", tab[p]))
  /\ UNCHANGED <<tab, shown, outrun>>

-----------------------------------------------------------------------------
(* What the layout does.                                                    *)

(* Panes have no key: when two of a kind swap places, or the workspace is   *)
(* switched, the component stays and gets another tab.  The effect of a     *)
(* local pane refreshes if that is another folder.                          *)
Retab(p) == \E at \in Place :
  /\ at # tab[p]
  /\ Moving
  /\ crossed' = IF Idle(p) THEN crossed ELSE crossed \cup {p}
  /\ tab' = [tab EXCEPT ![p] = at]
  /\ MovesOn(p)
  /\ IF p \in Locals THEN Ask(p, at) ELSE UNCHANGED <<shown, loading, calls>>

Orphaned(p) == [k \in DOMAIN calls[p] |-> [calls[p][k] EXCEPT !.live = FALSE]]

(* The pane moves to another position of the tree: a new component without  *)
(* entries; a local one lists its folder when it mounts.  Handlers of the   *)
(* old component run on; what its save dialogs lead to concerns no pane.    *)
Remounted(p) ==
  LET lists == p \in Locals /\ tab[p] # None IN
  /\ shown' = [shown EXCEPT ![p] = None]
  /\ dialogs' = [dialogs EXCEPT ![p] = 0]
  /\ loading' = [loading EXCEPT ![p] = lists]
  /\ calls' = [calls EXCEPT ![p] =
       Orphaned(p) \o (IF lists THEN <<Call("list", tab[p])>> ELSE <<>>)]
  /\ crossed' = crossed \ {p}
  /\ outrun' = outrun \ {p}

Remount(p) ==
  /\ Moving
  /\ Remounted(p)
  /\ UNCHANGED tab

(* setLeafPane: the pane becomes one of another kind and is made a browser  *)
(* again, with a new tab state; in an SFTP pane a host is filled in first.  *)
SetPane(p) ==
  /\ Moving
  /\ \E at \in IF p \in Locals THEN {None} ELSE {Top(b) : b \in Bases} :
       tab' = [tab EXCEPT ![p] = at]
  /\ shown' = [shown EXCEPT ![p] = None]
  /\ dialogs' = [dialogs EXCEPT ![p] = 0]
  /\ loading' = [loading EXCEPT ![p] = FALSE]
  /\ calls' = [calls EXCEPT ![p] = Orphaned(p)]
  /\ crossed' = crossed \ {p}
  /\ outrun' = outrun \ {p}

-----------------------------------------------------------------------------
(* Answers.  Listing, renaming, copying and deleting are synchronous        *)
(* commands: the backend takes them in order; dialogs, pushes and the SFTP  *)
(* plugin answer in any order.                                              *)

InOrder(p, c) == p \in Locals /\ c.op \in {"list", "change", "copy", "delete"}
MayAnswer(p, k) ==
  InOrder(p, calls[p][k]) => \A j \in 1..(k-1) : ~InOrder(p, calls[p][j])

(* The call is over; what follows it, if anything, is the last in flight.   *)
Then(p, k, next) == calls' = [calls EXCEPT ![p] = RemoveAt(@, k) \o next]

Settled(p) ==
  crossed' = IF Idle(p)' THEN crossed \ {p} ELSE crossed

Done(p, k, entries) ==
  /\ Then(p, k, <<>>)
  /\ IF calls[p][k].live
       THEN /\ loading' = [loading EXCEPT ![p] = FALSE]
            /\ shown' = [shown EXCEPT ![p] = entries]
       ELSE UNCHANGED <<loading, shown>>
  /\ Settled(p)

(* await refresh() at the end of a handler, with the handler's closure. *)
ThenList(p, k) ==
  LET c == calls[p][k] IN
  /\ Then(p, k, <<[c EXCEPT !.op = "list"]>>)
  /\ loading' = IF c.live THEN [loading EXCEPT ![p] = TRUE] ELSE loading
  /\ UNCHANGED <<shown, crossed>>

Listed(p, k) ==
  /\ calls[p][k].op = "list"
  /\ \E entries \in {calls[p][k].at, None} : Done(p, k, entries)
  /\ UNCHANGED <<tab, outrun>>

Changed(p, k) ==
  /\ calls[p][k].op \in {"change", "delete"}
  /\ ThenList(p, k)
  /\ UNCHANGED <<tab, outrun>>

(* A download is over, or any of these calls has failed. *)
Over(p, k) ==
  /\ calls[p][k].op # "list"
  /\ Done(p, k, shown[p])
  /\ UNCHANGED <<tab, outrun>>

(* The push has stored what it read; the delete is a command of its own. *)
Pushed(p, k) ==
  LET c == calls[p][k] IN
  /\ c.op \in {"push", "purge"}
  /\ IF c.op = "push" THEN ThenList(p, k)
     ELSE /\ Then(p, k, <<[c EXCEPT !.op = "delete"]>>)
          /\ UNCHANGED <<loading, shown, crossed>>
  /\ UNCHANGED <<tab, outrun>>

(* A folder is picked: the tab changes, also for a component that is gone,  *)
(* and the effect lists it; the setLoading(false) of the handler comes      *)
(* before the setLoading(true) of the effect.                               *)
Picked(p, k) ==
  LET c == calls[p][k] IN
  /\ c.op = "pick"
  /\ \E b \in Bases :
       LET lists == Top(b) # tab[p] IN
       /\ tab' = [tab EXCEPT ![p] = Top(b)]
       /\ IF lists THEN MovesOn(p) ELSE UNCHANGED outrun
       /\ Then(p, k, IF lists THEN <<Call("list", Top(b))>> ELSE <<>>)
       /\ loading' = [loading EXCEPT ![p] = lists \/ (@ /\ ~c.live)]
       /\ IF ~c.live /\ ~Idle(p) THEN crossed' = crossed \cup {p} ELSE Settled(p)
  /\ UNCHANGED shown

(* homeDir() of a local pane without a base. *)
Home(p) == \E b \in Bases :
  /\ tab[p] = None /\ p \in Locals
  /\ crossed' = IF Idle(p) THEN crossed ELSE crossed \cup {p}
  /\ GoTo(p, Top(b))
  /\ UNCHANGED moves

AnswerCall(p) == \E k \in DOMAIN calls[p] :
  /\ MayAnswer(p, k)
  /\ Listed(p, k) \/ Changed(p, k) \/ Pushed(p, k) \/ Picked(p, k) \/ Over(p, k)
  /\ UNCHANGED moves

Commands(p) == Refresh(p) \/ GoUp(p) \/ PickFolder(p) \/ Mkdir(p)

FileStep ==
  \E p \in Panes :
    \/ /\ \/ Commands(p)
          \/ EnterDir(p) \/ EditFields(p) \/ RowCall(p) \/ BackupFolder(p)
          \/ Retab(p) \/ Home(p) \/ AnswerCall(p)
       /\ UNCHANGED dialogs
    \/ Download(p) \/ Saved(p) \/ Dismissed(p)
    \/ Remount(p) \/ SetPane(p)

-----------------------------------------------------------------------------

FileTypeOK ==
  /\ tab \in [Panes -> Place \cup {None}]
  /\ shown \in [Panes -> Place \cup {None}]
  /\ loading \in [Panes -> BOOLEAN]
  /\ calls \in [Panes -> Seq(FileCall)]
  /\ crossed \subseteq Panes /\ outrun \subseteq Panes
  /\ moves \in 0..Moves

(* `loading` is one flag for all the calls of a pane, and each of them      *)
(* clears it.  It never stays set when none is left.  It is set exactly     *)
(* while a call is in flight, and no two calls of a pane overlap, as long   *)
(* as only buttons are used during a call and no download comes out of its  *)
(* dialog, which disables no button, while a call is in flight.             *)
ButtonsGateCalls ==
  \A p \in Panes :
    /\ Idle(p) => ~loading[p]
    /\ p \notin crossed => (\A j, k \in Live(p) : j = k) /\ (loading[p] <=> ~Idle(p))

(* Once its calls are answered, a pane shows the entries of the folder of   *)
(* its tab (or none), in whatever order lists, renames, backups and dialogs *)
(* were asked and answered, unless its tab moved on without them: in a      *)
(* local pane during a call that refreshes the folder it began in, in an    *)
(* SFTP pane since the last refresh.                                        *)
PanesShowTheirFolder ==
  \A p \in Panes : Idle(p) => shown[p] \in {tab[p], None} \/ p \in outrun
=============================================================================
