---------------------------- MODULE DeviceBrowser ----------------------------
(***************************************************************************)
(* A device pane of the desktop (DeviceBrowserPane.tsx): browsing the      *)
(* snapshots of a device and uploading files into its latest one.          *)
(*                                                                         *)
(* What is shown follows from the tab (kept by the parent, which renders   *)
(* again after every onTabChange) and from answers that come in any order. *)
(* A callback works with the tab of the render it was made in, and writes  *)
(* back that whole tab.  After each change React runs the effects of the   *)
(* pane, again and again until none changes anything: action Effects.      *)
(* They run again, too, whenever the App renders, as onTabChange is a new  *)
(* function each time: action Rerender.                                    *)
(*                                                                         *)
(* One server; a snapshot's tree is a chain of directories.                *)
(***************************************************************************)
EXTENDS Integers, FiniteSets

CONSTANTS
  Snaps,     \* snapshot ids, newer ones greater
  Devices,   \* names of devices, in their order
  Agents,    \* those that are registered when the pane is mounted
  Saved,     \* tabs that the pane may be mounted with
  Depth,     \* a directory is named by its depth: 0 is the root
  Files,     \* files the user uploads
  Copies,    \* at most this many requests that are alike are in flight
  Moves,     \* the user, the server and the network do this much
  None

ASSUME SnapsAssumption == Snaps \subseteq Nat /\ IsFiniteSet(Snaps) /\ None \notin Snaps
ASSUME DevicesAssumption == Devices \subseteq Nat /\ None \notin Devices /\ Agents \subseteq Devices
ASSUME DepthAssumption == Depth \in Nat /\ Copies \in Nat \ {0} /\ Moves \in Nat

VARIABLES
  tab,     \* tab.state: view, history list, device, snapshot and path
  known,   \* snapshots: the last list that was answered
  devs,    \* devicesApi: the same of the registered devices, {} if that failed
  shown,   \* snapshotEntries: the directory they belong to
  key,     \* loadedKey
  render,  \* what has changed since the effects ran, see Effects
  trees,   \* getTree requests in flight, and the tab that an answer sets
  lists,   \* listSnapshots requests: the tab of the closure if it has no device
  asking,  \* a listDevices request is in flight
  regs,    \* register requests in flight
  upload,  \* per file: the local variables of uploadFile
  server,  \* server: the snapshots
  owner,   \* server: the device of each snapshot that was ever stored
  names,   \* server: the registered devices
  content, \* server: the manifests, {} if there is none
  push,    \* server: who made a snapshot, an upload or the backup of an agent
  blind,   \* history: uploads that read a manifest without the backup's files
  failed,  \* history: stored directories whose last getTree failed
  moves    \* how much was done

pane  == <<tab, known, devs, shown, key, render>>
asks  == <<trees, lists, asking, regs>>
world == <<server, owner, names, content, push>>
vars  == <<pane, asks, upload, world, blind, failed, moves>>

Views == {"all", "snapshot"}
Paths == 0..Depth
Dirs  == [snap: Snaps, path: Paths]
Tabs  == [view: Views, history: BOOLEAN, dev: Devices \cup {None},
          snap: Snaps \cup {None}, path: Paths]
ASSUME SavedAssumption == Saved \subseteq Tabs
Requests == [dir: Dirs, goes: Tabs \cup {None}, copy: 1..Copies]

Uploads == [pc: {"idle", "chunks", "read", "put", "jump", "done", "failed"},
            target: Snaps \cup {None}, read: SUBSET (Files \cup {"backup"}),
            tab: Tabs \cup {None}]
NoUpload == [pc |-> "idle", target |-> None, read |-> {}, tab |-> None]

TypeOK ==
  /\ tab \in Tabs
  /\ known \subseteq Snaps /\ devs \subseteq Devices
  /\ shown \in Dirs \cup {None} /\ key \in Dirs \cup {None}
  /\ render \in {"no", "key", "devs", "list", "tab", "device"}
  /\ trees \subseteq Requests
  /\ lists \subseteq Tabs \cup {None} /\ asking \in BOOLEAN
  /\ regs \subseteq [tab: Tabs, dev: Devices]
  /\ upload \in [Files -> Uploads]
  /\ server \subseteq Snaps
  /\ owner \in [Snaps -> Devices \cup {None}] /\ names \subseteq Devices
  /\ content \in [Snaps -> SUBSET (Files \cup {"backup"})]
  /\ push \in [Snaps -> {"none", "upload", "going", "done"}]
  /\ blind \subseteq Files /\ failed \subseteq Dirs
  /\ moves \in 0..Moves

Latest(S) == CHOOSE s \in S : \A x \in S : x <= s
First(S)  == CHOOSE d \in S : \A x \in S : d <= x
Here == [snap |-> tab.snap, path |-> tab.path]

(* filtered, of a tab *)
Filtered(t) == {s \in known : t.dev \in {None, owner[s]}}

(* The pane is mounted with a new tab or one that was saved, whose snapshot *)
(* may be deleted.                                                          *)
Init ==
  /\ tab \in Saved
  /\ known = {} /\ devs = {} /\ shown = None /\ key = None /\ render = "tab"
  /\ trees = {} /\ lists = {} /\ asking = FALSE /\ regs = {}
  /\ upload = [f \in Files |-> NoUpload]
  /\ server \in SUBSET Snaps /\ names = Agents
  /\ content = [s \in Snaps |-> IF s \in server THEN {"backup"} ELSE {}]
  /\ push = [s \in Snaps |-> IF s \in server \cup {tab.snap} THEN "done" ELSE "none"]
  /\ owner \in [Snaps -> Devices \cup {None}]
  /\ \A s \in Snaps : owner[s] # None <=> push[s] # "none"
  /\ blind = {} /\ failed = {}
  /\ moves = 0

-----------------------------------------------------------------------------
(* Requests of trees.                                                       *)

(* The directory becomes that of the tab, if it is not yet. *)
Going(t, d) ==
  IF t.snap = d.snap /\ t.path = d.path THEN None
  ELSE [t EXCEPT !.snap = d.snap, !.path = d.path]

(* refreshSnapshotTree, with the closure of tab t.                          *)
Asking(S, d, t) ==
  LET request(c) == [dir |-> d, goes |-> Going(t, d), copy |-> c]
      free == {c \in 1..Copies : request(c) \notin S}
  IN  IF free = {} THEN S
      ELSE S \cup {request(CHOOSE c \in free : \A x \in free : c <= x)}

(* onTabChange: the parent renders again. *)
Rendered(t) == IF t.dev # tab.dev THEN "device" ELSE "tab"
SetTab(t) == tab' = t /\ render' = Rendered(t)

Move  == render = "no" /\ moves < Moves /\ moves' = moves + 1
Lucky == render = "no" /\ UNCHANGED moves

(* Variant: the entries are shown without their key. *)
TreeAnswerUnkeyed(r) ==
  /\ Lucky /\ r \in trees
  /\ trees' = trees \ {r}
  /\ r.dir.snap \in server
  /\ shown' = r.dir /\ UNCHANGED <<key, tab, render, failed>>
  /\ UNCHANGED <<known, devs, lists, asking, regs, upload, world, blind>>

(* The entries are shown, and the tab goes where its closure was not yet.   *)
TreeAnswer(r) ==
  /\ r \in trees
  /\ trees' = trees \ {r}
  /\ \/ /\ Lucky /\ r.dir.snap \in server
        /\ shown' = r.dir /\ key' = r.dir /\ failed' = failed \ {r.dir}
        /\ IF r.goes # None THEN SetTab(r.goes)
           ELSE render' = (IF key = r.dir THEN "no" ELSE "key") /\ UNCHANGED tab
     \/ /\ Lucky /\ r.dir.snap \notin server
        /\ UNCHANGED <<tab, shown, key, render, failed>>
     \/ /\ Move /\ r.dir.snap \in server
        /\ failed' = failed \cup {r.dir} /\ UNCHANGED <<tab, shown, key, render>>
  /\ UNCHANGED <<known, devs, lists, asking, regs, upload, world, blind>>

(* refreshSnapshots, with a closure: a tab of no device gets one.           *)
ListAnswer(c) ==
  /\ c \in lists
  /\ lists' = lists \ {c}
  /\ \/ /\ Lucky /\ known' = server
        /\ IF c # None /\ server # {}
           THEN SetTab([c EXCEPT !.dev = owner[Latest(server)]])
           ELSE render' = "list" /\ UNCHANGED tab
     \/ Move /\ UNCHANGED <<known, tab, render>>
  /\ UNCHANGED <<devs, shown, key, trees, asking, regs, upload, world, blind, failed>>

(* refreshDevices: without an answer no devices are registered.             *)
DevicesAnswer ==
  /\ asking /\ asking' = FALSE
  /\ \/ Lucky /\ devs' = names
     \/ Move /\ devs' = {}
  /\ render' = "devs"
  /\ UNCHANGED <<tab, known, shown, key, trees, lists, regs, upload, world, blind, failed>>

-----------------------------------------------------------------------------
(* One pass of the effects.  All of them see the same render, and of their  *)
(* calls of onTabChange the last one counts.  Which effects run depends on  *)
(* what has changed: loadedKey ("key"), devicesApi ("devs"), snapshots      *)
(* ("list"), the tab or onTabChange ("tab"), or the tab with the name of    *)
(* its device ("device").                                                   *)

Names == IF devs # {} THEN devs ELSE {owner[s] : s \in known}

(* The device of the tab is not in the list (any more).                     *)
LostDevice == IF Names = {} THEN tab.dev # None ELSE tab.dev \notin Names

DeviceEffect ==
  IF LostDevice THEN [tab EXCEPT !.dev = IF Names = {} THEN None ELSE First(Names)]
  ELSE tab

(* Another device: back to all files.                                       *)
ResetEffect ==
  IF render = "device" /\ (tab.history \/ tab.view # "all")
  THEN [tab EXCEPT !.history = FALSE, !.view = "all"] ELSE DeviceEffect

(* The snapshot of the tab is not in the list of its device (any more).     *)
Stray ==
  /\ tab.dev # None
  /\ IF Filtered(tab) = {} THEN tab.snap # None ELSE tab.snap \notin Filtered(tab)

SnapshotEffect ==
  IF ~Stray THEN ResetEffect
  ELSE [tab EXCEPT !.snap = IF Filtered(tab) = {} THEN None ELSE Latest(Filtered(tab)),
                   !.path = 0]

NotLatest == tab.view = "all" /\ Filtered(tab) # {} /\ tab.snap # Latest(Filtered(tab))

(* All files are those of the latest snapshot.                              *)
LatestEffect ==
  IF NotLatest THEN [tab EXCEPT !.snap = Latest(Filtered(tab))] ELSE SnapshotEffect

(* The tree shown is not that of the tab.                                   *)
Unsynced == tab.view = "snapshot" /\ tab.snap # None /\ key # Here
NoTree   == tab.view = "all" \/ tab.snap = None

(* Variant: the tree of before is cleared, nothing more. *)
SyncNothing(S) == S

Sync(S) == IF Unsynced THEN Asking(S, Here, tab) ELSE S

(* Variant: a new list is not looked at before the tab changes. *)
ChoosingOnTab == render \in {"tab", "device"}

Choosing == render \in {"list", "tab", "device"}

(* The tab that the effects leave behind. *)
NewTab ==
  IF Choosing THEN LatestEffect ELSE IF render = "key" THEN tab ELSE DeviceEffect

Effects ==
  LET refresh == render \in {"tab", "device"}     \* every callback is a new one
      sync    == render \in {"key", "tab", "device"}
      asked0 == IF refresh /\ tab.view = "snapshot" /\ tab.snap # None
                THEN Asking(trees, Here, tab) ELSE trees
      asked1 == IF Choosing /\ Stray /\ Filtered(tab) # {} /\ tab.view = "snapshot"
                THEN Asking(asked0, [snap |-> Latest(Filtered(tab)), path |-> 0], tab)
                ELSE asked0
  IN
  /\ render # "no"
  /\ tab' = NewTab
  /\ shown' = IF (Choosing /\ Stray) \/ (sync /\ (NoTree \/ Unsynced)) THEN None ELSE shown
  /\ key' = IF sync /\ NoTree THEN None ELSE key
  /\ trees' = IF sync THEN Sync(asked1) ELSE asked1
  /\ lists' = IF refresh THEN lists \cup {IF tab.dev = None THEN tab ELSE None} ELSE lists
  /\ asking' = (asking \/ refresh)
  /\ render' = IF NewTab # tab THEN Rendered(NewTab)
               ELSE IF key' # key THEN "key" ELSE "no"
  /\ UNCHANGED <<known, devs, regs, upload, world, blind, failed, moves>>

(* No request is in flight. *)
Done == render = "no" /\ trees = {} /\ lists = {} /\ ~asking

(* The App renders for a reason of its own, its poll of the server's health *)
(* for one, and passes a new onTabChange.  It does so for ever, but only    *)
(* Moves times before what the last render asked for is answered.           *)
Rerender ==
  /\ IF Done THEN Lucky ELSE Move
  /\ render' = "tab"
  /\ UNCHANGED <<tab, known, devs, shown, key, asks, upload, world, blind, failed>>

-----------------------------------------------------------------------------
(* The user.                                                                *)

Ask(d) == trees' = Asking(trees, d, tab)

(* Variant: up from the root, too. *)
BrowseAbove ==
  /\ Move /\ tab.view = "all"
  /\ \E p \in {tab.path - 1, tab.path + 1} : SetTab([tab EXCEPT !.path = p])
  /\ UNCHANGED <<known, devs, shown, key, asks, upload, world, blind, failed>>

(* Opens a directory of the list, or goes up.                               *)
Browse ==
  /\ Move
  /\ \E p \in {tab.path - 1, tab.path + 1} \cap Paths :
       \/ /\ tab.view = "snapshot" /\ tab.snap # None
          /\ p > tab.path => shown # None
          /\ Ask([snap |-> tab.snap, path |-> p]) /\ UNCHANGED <<tab, render>>
       \/ /\ tab.view = "all"
          /\ SetTab([tab EXCEPT !.path = p]) /\ UNCHANGED trees
  /\ UNCHANGED <<known, devs, shown, key, lists, asking, regs, upload, world, blind, failed>>

Refresh ==
  /\ Move /\ lists' = lists \cup {IF tab.dev = None THEN tab ELSE None}
  /\ UNCHANGED <<pane, trees, asking, regs, upload, world, blind, failed>>

(* updateViewState *)
SetView(history, view) ==
  LET t == [tab EXCEPT !.history = history, !.view = view]
  IN  IF t = tab THEN UNCHANGED <<tab, render>> ELSE SetTab(t)

(* Hiding the history goes back to all files; showing it changes no view.   *)
ToggleHistory ==
  /\ Move
  /\ SetView(~tab.history, IF tab.history THEN "all" ELSE tab.view)
  /\ UNCHANGED <<known, devs, shown, key, asks, upload, world, blind, failed>>

ShowAllFiles ==
  /\ Move /\ SetView(FALSE, "all")
  /\ UNCHANGED <<known, devs, shown, key, asks, upload, world, blind, failed>>

(* A command of the palette. *)
ShowHistoryView ==
  /\ Move /\ SetView(TRUE, "snapshot")
  /\ IF tab.snap = None THEN UNCHANGED trees ELSE Ask(Here)
  /\ UNCHANGED <<known, devs, shown, key, lists, asking, regs, upload, world, blind, failed>>

(* A click on a snapshot of the history: of the two tabs it sets, one with  *)
(* the snapshot view and one with the snapshot, the second one counts.      *)
ClickHistory(s) ==
  /\ Move /\ tab.history /\ s \in Filtered(tab)
  /\ SetTab([tab EXCEPT !.snap = s, !.path = 0])
  /\ shown' = None
  /\ Ask([snap |-> s, path |-> 0])
  /\ UNCHANGED <<known, devs, key, lists, asking, regs, upload, world, blind, failed>>

(* handleRegisterDevice *)
RegisterDevice(d) ==
  /\ Move /\ regs' = regs \cup {[tab |-> tab, dev |-> d]}
  /\ UNCHANGED <<pane, trees, lists, asking, upload, world, blind, failed>>

(* Goes to the new device, as the tab was, and asks for the devices.        *)
Registered(r) ==
  /\ Lucky /\ r \in regs
  /\ regs' = regs \ {r}
  /\ \/ /\ names' = names \cup {r.dev} /\ asking' = TRUE
        /\ SetTab([r.tab EXCEPT !.dev = r.dev])
     \/ /\ names' \in {names, names \cup {r.dev}}     \* without an answer
        /\ UNCHANGED <<asking, tab, render>>
  /\ UNCHANGED <<known, devs, shown, key, trees, lists, upload, server, owner, content, push,
                 blind, failed>>

-----------------------------------------------------------------------------
(* uploadFile                                                               *)

Upload(f) ==
  /\ Move /\ upload[f].pc = "idle" /\ tab.dev # None
  /\ upload' = [upload EXCEPT ![f] =
       [pc |-> "chunks", read |-> {}, tab |-> tab,
        target |-> IF Filtered(tab) = {} THEN None ELSE Latest(Filtered(tab))]]
  /\ UNCHANGED <<pane, asks, world, blind, failed>>

UploadAt(f, pc) == Lucky /\ upload[f].pc = pc

Over(f, pc) == [NoUpload EXCEPT !.pc = pc, !.target = upload[f].target]

(* A request fails, or what it did (createSnapshot, PUT) was not answered.   *)
UploadFails(f) ==
  /\ Lucky /\ upload[f].pc \in {"chunks", "read", "put", "jump"}
  /\ upload' = [upload EXCEPT ![f] =
       Over(f, IF upload[f].pc = "jump" THEN "done" ELSE "failed")]
  /\ UNCHANGED <<pane, asks, world, blind, failed>>

(* A newer snapshot of a device is stored, under an id that none had.       *)
Store(s, d, by) ==
  /\ push[s] = "none" /\ \A x \in Snaps : push[x] # "none" => x < s
  /\ server' = server \cup {s}
  /\ owner' = [owner EXCEPT ![s] = d]
  /\ push' = [push EXCEPT ![s] = by]

(* The chunks are uploaded; a device without snapshots gets one.            *)
UploadChunks(f) ==
  /\ UploadAt(f, "chunks")
  /\ \/ /\ upload[f].target # None
        /\ upload' = [upload EXCEPT ![f].pc = "read"] /\ UNCHANGED <<server, owner, push>>
     \/ /\ upload[f].target = None
        /\ \E s \in Snaps : /\ Store(s, upload[f].tab.dev, "upload")
                            /\ upload' = [upload EXCEPT ![f].pc = "read", ![f].target = s]
  /\ UNCHANGED <<pane, asks, names, content, blind, failed>>

(* A manifest that cannot be loaded counts as an empty one.                 *)
UploadRead(f) ==
  /\ UploadAt(f, "read")
  /\ \E files \in {content[upload[f].target], {}} :
       /\ upload' = [upload EXCEPT ![f].pc = "put", ![f].read = files]
       /\ blind' = IF "backup" \in files THEN blind ELSE blind \cup {f}
  /\ UNCHANGED <<pane, asks, world, failed>>

(* Variant: a manifest with the new file only. *)
UploadPutAlone(f) ==
  /\ UploadAt(f, "put")
  /\ content' = [content EXCEPT ![upload[f].target] = {f}]
  /\ upload' = [upload EXCEPT ![f].pc = "jump"]
  /\ UNCHANGED <<pane, asks, server, owner, names, push, blind, failed>>

UploadPut(f) ==
  /\ UploadAt(f, "put")
  /\ content' = [content EXCEPT ![upload[f].target] = upload[f].read \cup {f}]
  /\ upload' = [upload EXCEPT ![f].pc = "jump"]
  /\ UNCHANGED <<pane, asks, server, owner, names, push, blind, failed>>

(* Its own list is answered or fails; before React renders that, the tab    *)
(* goes to the directory of the upload, if that was in a snapshot.          *)
UploadJump(f) ==
  LET t == upload[f].tab
      s == upload[f].target IN
  /\ UploadAt(f, "jump")
  /\ known' \in {known, server}
  /\ IF t.view = "snapshot"
     THEN /\ SetTab([t EXCEPT !.snap = s])
          /\ trees' = Asking(trees, [snap |-> s, path |-> t.path], t)
     ELSE render' \in {"list"} \cup (IF known' = known THEN {"no"} ELSE {})
          /\ UNCHANGED <<tab, trees>>
  /\ upload' = [upload EXCEPT ![f] = Over(f, "done")]
  /\ UNCHANGED <<devs, shown, key, lists, asking, regs, world, blind, failed>>

-----------------------------------------------------------------------------
(* Elsewhere: backups of a device, and their deletion.                      *)

BackupStarts(s, d) ==
  /\ Move /\ Store(s, d, "going")
  /\ UNCHANGED <<pane, asks, upload, names, content, blind, failed>>

BackupEnds(s) ==
  /\ Lucky /\ push[s] = "going"
  /\ content' = [content EXCEPT ![s] = {"backup"}]
  /\ push' = [push EXCEPT ![s] = "done"]
  /\ UNCHANGED <<pane, asks, upload, server, owner, names, blind, failed>>

Delete(s) ==
  /\ Move /\ s \in server
  /\ server' = server \ {s} /\ content' = [content EXCEPT ![s] = {}]
  /\ UNCHANGED <<pane, asks, upload, owner, names, push, blind, failed>>

-----------------------------------------------------------------------------

Answers ==
  \/ DevicesAnswer
  \/ \E c \in lists : ListAnswer(c)
  \/ \E r \in trees : TreeAnswer(r)
  \/ \E r \in regs : Registered(r)
UploadSteps(f) ==
  UploadChunks(f) \/ UploadRead(f) \/ UploadPut(f) \/ UploadJump(f) \/ UploadFails(f)
User == Browse \/ Refresh \/ ToggleHistory \/ ShowAllFiles \/ ShowHistoryView
SnapSteps(s) ==
  ClickHistory(s) \/ BackupEnds(s) \/ Delete(s) \/ \E d \in Devices : BackupStarts(s, d)

Next ==
  \/ Effects \/ Rerender \/ Answers \/ User
  \/ \E s \in Snaps : SnapSteps(s)
  \/ \E d \in Devices : RegisterDevice(d)
  \/ \E f \in Files : Upload(f) \/ UploadSteps(f)

(* React runs the effects; every request in flight is answered.             *)
Fairness ==
  /\ WF_vars(Effects) /\ WF_vars(DevicesAnswer)
  /\ \A c \in Tabs \cup {None} : WF_vars(ListAnswer(c))
  /\ \A r \in Requests : WF_vars(TreeAnswer(r))

Spec == Init /\ [][Next]_vars /\ Fairness

-----------------------------------------------------------------------------

Quiet == render = "no"

(* Whatever order the answers come in: the entries on the screen belong to  *)
(* the snapshot and the path of the tab, so a click opens, downloads or     *)
(* copies what it says.  Entries of another directory show up only while    *)
(* those of the tab are still to come, or cannot come, as it is deleted or  *)
(* the request for them has failed.                                         *)
ShownBelongs ==
  Quiet /\ shown # None =>
    /\ tab.view = "snapshot" /\ key = shown
    /\ \/ shown = Here \/ tab.snap \notin server \/ Here \in failed
       \/ \E r \in trees : r.dir = Here

(* The tab shows a device of the list and a snapshot of that device, for    *)
(* all files the latest one, although effects, answers, clicks and uploads  *)
(* write back tabs of old renders.                                          *)
SnapshotListed ==
  Quiet =>
    /\ IF Names = {} THEN tab.dev = None ELSE tab.dev \in Names
    /\ Filtered(tab) # {} => /\ tab.snap \in Filtered(tab)
                             /\ tab.view = "all" => tab.snap = Latest(Filtered(tab))

(* A finished backup keeps its files when the user uploads a file into it.  *)
(* They are lost only if the upload stored a manifest that it had read      *)
(* without them: before the backup was there, or in a GET that failed and   *)
(* that uploadFile takes for an empty manifest.                             *)
BackupKept ==
  \A s \in server : push[s] = "done" =>
    \/ "backup" \in content[s]
    \/ \E f \in blind : upload[f].target = s /\ upload[f].pc \in {"jump", "done"}

(* The tree of the tab is shown, if the server has it and could say so.     *)
Loaded == tab.view = "snapshot" /\ tab.snap \in server => shown = Here \/ Here \in failed

(* No effect undoes what another one does for ever, and no request is left  *)
(* out: between the renders of the App the pane comes to rest again and     *)
(* again, with what its tab says on the screen.                             *)
Settles == []<>(Done /\ Loaded)
=============================================================================
