------------------------ MODULE DeviceBrowser_proofs ------------------------
(***************************************************************************)
(* Proofs about the device pane: whatever order the answers come in and    *)
(* whichever of them are failures, the tab shows a device of the list and  *)
(* a snapshot of it, the entries on the screen are those of the tab or     *)
(* about to be replaced, and a finished backup keeps its files.            *)
(*                                                                         *)
(* The first two properties are about renders whose effects have run.  The *)
(* inductive invariant says of each kind of render which of the effects    *)
(* have nothing left to do, see Inv.                                       *)
(***************************************************************************)
EXTENDS DeviceBrowser, LeastNumber, TLAPS

Used == {s \in Snaps : push[s] # "none"}
OfUsed(t) == t.snap # None => t.snap \in Used

(* A snapshot of a list, of the server, of an upload or of a tab was stored *)
(* once, for a device.                                                      *)
Stored ==
  /\ known \cup server \subseteq Used
  /\ \A s \in Used : owner[s] \in Devices
  /\ \A f \in Files : upload[f].target # None => upload[f].target \in Used
  /\ OfUsed(tab)
  /\ \A c \in lists : c # None => OfUsed(c)
  /\ \A r \in regs : OfUsed(r.tab)

(* A request goes to the directory that it asks for.                        *)
Aim(S) == \A r \in S : r.goes # None => r.goes.snap = r.dir.snap

(* What an upload has read of its target, and when.                         *)
Uploading ==
  \A f \in Files :
    /\ upload[f].pc \notin {"idle", "done", "failed"} =>
         upload[f].tab \in Tabs /\ upload[f].tab.dev # None
    /\ upload[f].pc \in {"read", "put", "jump"} => upload[f].target \in Snaps
    /\ f \in blind => upload[f].pc \notin {"idle", "chunks", "read"}

(* Only a blind upload is about to store a manifest without the backup.     *)
ReadsBackup ==
  \A f \in Files : upload[f].pc = "put" /\ f \notin blind => "backup" \in upload[f].read

(* Entries are shown with their key, which only a tab of one snapshot has.  *)
Keyed ==
  /\ shown # None => shown = key
  /\ render \in {"no", "list", "devs"} /\ key # None =>
       tab.view = "snapshot" /\ tab.snap # None

(* The device and the snapshot of the tab are in the lists once the effects *)
(* have seen these.                                                         *)
Listed ==
  /\ render \in {"no", "key"} => ~LostDevice
  /\ render \in {"no", "key", "devs"} => ~Stray /\ ~NotLatest

(* The tree of the tab is loaded or asked for once it has been compared     *)
(* with the key.                                                            *)
Synced ==
  render \in {"no", "list", "devs"} /\ Unsynced =>
    tab.snap \notin server \/ Here \in failed \/ \E r \in trees : r.dir = Here

Inv == TypeOK /\ Stored /\ Aim(trees) /\ Uploading /\ Keyed /\ Listed

-----------------------------------------------------------------------------
(* Lemmas about the operators of the model.                                 *)

(* The latest snapshot of a list is one of the list. *)
LEMMA LatestOfList ==
  ASSUME NEW S \in SUBSET Snaps, S # {}
  PROVE  Latest(S) \in S
<1>1. \E s \in S : \A x \in S : x <= s
  BY SnapsAssumption, FS_Subset, NatMax
<1> QED BY <1>1 DEF Latest

(* The first device of a list is one of the list. *)
LEMMA FirstOfList ==
  ASSUME NEW S \in SUBSET Devices, S # {}
  PROVE  First(S) \in S
<1>1. \E d \in S : \A x \in S : d <= x
  BY DevicesAssumption, NatMin
<1> QED BY <1>1 DEF First

(* A request goes to a tab, if at all, with the directory asked for. *)
LEMMA GoingGoes ==
  ASSUME NEW d \in Dirs, NEW t \in Tabs
  PROVE  /\ Going(t, d) \in Tabs \cup {None}
         /\ Going(t, d) # None => Going(t, d).snap = d.snap
BY DEF Going, Dirs, Tabs

(* Asking for a tree keeps the requests in flight and has one for the tree. *)
LEMMA AskingAsks ==
  ASSUME NEW S \in SUBSET Requests, NEW d \in Dirs, NEW t \in Tabs
  PROVE  /\ Asking(S, d, t) \in SUBSET Requests
         /\ S \subseteq Asking(S, d, t)
         /\ Aim(S) => Aim(Asking(S, d, t))
         /\ \E r \in Asking(S, d, t) : r.dir = d
<1> PICK g : g = Going(t, d)
  OBVIOUS
<1> DEFINE free == {c \in 1..Copies : [dir |-> d, goes |-> g, copy |-> c] \notin S}
           new  == CHOOSE c \in free : \A x \in free : c <= x
<1>0. g \in Tabs \cup {None} /\ (g # None => g.snap = d.snap)
  BY GoingGoes
<1>1. CASE free = {}
  <2>1. Asking(S, d, t) = S
    BY <1>1 DEF Asking
  <2>2. [dir |-> d, goes |-> g, copy |-> 1] \in S
    BY <1>1, DepthAssumption
  <2> QED BY <2>1, <2>2
<1>2. CASE free # {}
  <2>1. \E c \in free : \A x \in free : c <= x
    <3>1. free \in SUBSET Nat
      OBVIOUS
    <3> HIDE DEF free
    <3> QED BY <1>2, <3>1, NatMin
  <2>2. new \in free
    <3> HIDE DEF free
    <3> QED BY <2>1
  <2> DEFINE r == [dir |-> d, goes |-> g, copy |-> new]
  <2>3. Asking(S, d, t) = S \cup {r}
    BY <1>2 DEF Asking
  <2>4. r \in Requests /\ r.dir = d /\ r.goes = g
    <3>1. new \in 1..Copies
      BY <2>2
    <3> HIDE DEF new
    <3> QED BY <1>0, <3>1 DEF Requests
  <2> HIDE DEF r
  <2> QED BY <1>0, <2>3, <2>4 DEF Aim
<1> QED BY <1>1, <1>2

(* What a tab is, and the directory it shows. *)
LEMMA TabTyped ==
  ASSUME TypeOK
  PROVE  /\ tab.view \in Views /\ tab.history \in BOOLEAN /\ tab.dev \in Devices \cup {None}
         /\ tab.snap \in Snaps \cup {None} /\ tab.path \in Paths /\ 0 \in Paths
         /\ tab.snap # None => Here \in Dirs
         /\ Filtered(tab) \in SUBSET Snaps /\ Filtered(tab) \subseteq known
BY DepthAssumption DEF TypeOK, Tabs, Here, Dirs, Paths, Filtered

(* The names to choose a device from are those of devices. *)
LEMMA NamesTyped ==
  ASSUME TypeOK, Stored
  PROVE  Names \in SUBSET Devices
BY DEF TypeOK, Stored, Names

(* What is listed stays so while the lists and their owners do. *)
LEMMA ListedKept ==
  ASSUME UNCHANGED <<tab, known>>, \A x \in known : owner'[x] = owner[x]
  PROVE  /\ ~Stray /\ ~NotLatest => ~Stray' /\ ~NotLatest'
         /\ devs' = devs /\ ~LostDevice => ~LostDevice'
<1>1. Filtered(tab)' = Filtered(tab)
  BY DEF Filtered
<1>2. devs' = devs => Names' = Names
  BY DEF Names
<1> QED BY <1>1, <1>2 DEF Stray, NotLatest, LostDevice

(* How a render goes on, and how often. *)
LEMMA Counts ==
  ASSUME TypeOK, Move \/ Lucky
  PROVE  render = "no" /\ moves' \in 0..Moves
BY DepthAssumption DEF TypeOK, Move, Lucky

LEMMA RenderedAs ==
  ASSUME NEW t
  PROVE  Rendered(t) \in {"tab", "device"}
BY DEF Rendered

-----------------------------------------------------------------------------
(* The effects.                                                             *)

(* Each effect that fires changes the tab, so a tab that stays the same     *)
(* tells that none of them did.                                             *)
LEMMA DeviceOnTab ==
  ASSUME TypeOK, Stored
  PROVE  /\ DeviceEffect \in Tabs /\ DeviceEffect.snap = tab.snap
         /\ DeviceEffect = tab => ~LostDevice
<1>0. tab \in Tabs /\ Names \in SUBSET Devices
  BY NamesTyped DEF TypeOK
<1> DEFINE d == IF Names = {} THEN None ELSE First(Names)
<1>1. d \in Devices \cup {None} /\ (LostDevice => d # tab.dev)
  BY <1>0, FirstOfList DEF LostDevice
<1>2. DeviceEffect = IF LostDevice THEN [tab EXCEPT !.dev = d] ELSE tab
  BY DEF DeviceEffect
<1> HIDE DEF d
<1> QED BY <1>0, <1>1, <1>2 DEF Tabs

LEMMA ResetOnTab ==
  ASSUME TypeOK, Stored
  PROVE  /\ ResetEffect \in Tabs /\ ResetEffect.snap = tab.snap
         /\ ResetEffect = tab => ~LostDevice
<1>1. tab \in Tabs
  BY DEF TypeOK
<1>2. CASE render = "device" /\ (tab.history \/ tab.view # "all")
  <2>1. ResetEffect = [tab EXCEPT !.history = FALSE, !.view = "all"]
    BY <1>2 DEF ResetEffect
  <2>2. /\ ResetEffect \in Tabs /\ ResetEffect.snap = tab.snap
        /\ ResetEffect.view = "all" /\ ResetEffect.history = FALSE
    BY <1>1, <2>1 DEF Tabs, Views
  <2> QED BY <1>2, <2>2
<1>3. CASE ~ (render = "device" /\ (tab.history \/ tab.view # "all"))
  BY <1>3, DeviceOnTab DEF ResetEffect
<1> QED BY <1>2, <1>3

LEMMA SnapshotOnTab ==
  ASSUME TypeOK, Stored
  PROVE  /\ SnapshotEffect \in Tabs /\ OfUsed(SnapshotEffect)
         /\ SnapshotEffect = tab => ~LostDevice /\ ~Stray
<1>1. /\ tab \in Tabs /\ 0 \in Paths /\ Filtered(tab) \in SUBSET Snaps
      /\ Filtered(tab) \subseteq known /\ known \subseteq Used
  BY TabTyped DEF TypeOK, Stored
<1>2. CASE Stray
  <2> DEFINE s == IF Filtered(tab) = {} THEN None ELSE Latest(Filtered(tab))
  <2>1. SnapshotEffect = [tab EXCEPT !.snap = s, !.path = 0]
    BY <1>2 DEF SnapshotEffect
  <2>2. s \in Snaps \cup {None} /\ (s # None => s \in Used) /\ s # tab.snap
    BY <1>1, <1>2, LatestOfList DEF Stray
  <2> HIDE DEF s
  <2>3. SnapshotEffect \in Tabs /\ SnapshotEffect.snap = s
    BY <1>1, <2>1, <2>2 DEF Tabs
  <2> QED BY <2>2, <2>3 DEF OfUsed
<1>3. CASE ~Stray
  <2>1. SnapshotEffect = ResetEffect
    BY <1>3 DEF SnapshotEffect
  <2> QED BY <1>3, <2>1, ResetOnTab DEF OfUsed, Stored
<1> QED BY <1>2, <1>3

LEMMA LatestOnTab ==
  ASSUME TypeOK, Stored
  PROVE  /\ LatestEffect \in Tabs /\ OfUsed(LatestEffect)
         /\ LatestEffect = tab => ~LostDevice /\ ~Stray /\ ~NotLatest
<1>1. /\ tab \in Tabs /\ Filtered(tab) \in SUBSET Snaps
      /\ Filtered(tab) \subseteq known /\ known \subseteq Used
  BY TabTyped DEF TypeOK, Stored
<1>2. CASE NotLatest
  <2> DEFINE s == Latest(Filtered(tab))
  <2>1. LatestEffect = [tab EXCEPT !.snap = s]
    BY <1>2 DEF LatestEffect
  <2>2. s \in Snaps /\ s \in Used /\ s # tab.snap
    BY <1>1, <1>2, LatestOfList DEF NotLatest
  <2> HIDE DEF s
  <2>3. LatestEffect \in Tabs /\ LatestEffect.snap = s
    BY <1>1, <2>1, <2>2 DEF Tabs
  <2> QED BY <2>2, <2>3 DEF OfUsed
<1>3. CASE ~NotLatest
  BY <1>3, SnapshotOnTab DEF LatestEffect
<1> QED BY <1>2, <1>3

(* What the effects leave of the tab. *)
LEMMA EffectOnTab ==
  ASSUME Inv, Effects
  PROVE  /\ NewTab \in Tabs /\ OfUsed(NewTab)
         /\ NewTab = tab => ~LostDevice /\ ~Stray /\ ~NotLatest
<1>1. TypeOK /\ Stored /\ Listed /\ render # "no" /\ tab \in Tabs /\ OfUsed(tab)
  BY DEF Inv, Effects, TypeOK, Stored
<1>2. CASE Choosing
  BY <1>1, <1>2, LatestOnTab DEF NewTab
<1>3. CASE render = "key"
  BY <1>1, <1>3 DEF NewTab, Choosing, Listed
<1>4. CASE render = "devs"
  <2>1. NewTab = DeviceEffect
    BY <1>4 DEF NewTab, Choosing
  <2> QED BY <1>1, <1>4, <2>1, DeviceOnTab DEF OfUsed, Listed
<1> QED BY <1>1, <1>2, <1>3, <1>4 DEF Choosing, TypeOK

(* What the effects ask for. *)
LEMMA EffectsAsk ==
  ASSUME TypeOK, Effects
  PROVE  /\ trees' \in SUBSET Requests /\ trees \subseteq trees'
         /\ Aim(trees) => Aim(trees')
         /\ render \in {"key", "tab", "device"} /\ Unsynced => \E r \in trees' : r.dir = Here
<1> DEFINE refresh == render \in {"tab", "device"}
           sync    == render \in {"key", "tab", "device"}
           asked0 == IF refresh /\ tab.view = "snapshot" /\ tab.snap # None
                     THEN Asking(trees, Here, tab) ELSE trees
           asked1 == IF Choosing /\ Stray /\ Filtered(tab) # {} /\ tab.view = "snapshot"
                     THEN Asking(asked0, [snap |-> Latest(Filtered(tab)), path |-> 0], tab)
                     ELSE asked0
<1>1. trees' = IF sync THEN Sync(asked1) ELSE asked1
  BY DEF Effects
<1>2. /\ trees \in SUBSET Requests /\ tab \in Tabs
      /\ tab.snap # None => Here \in Dirs
  BY TabTyped DEF TypeOK
<1>3. asked0 \in SUBSET Requests /\ trees \subseteq asked0 /\ (Aim(trees) => Aim(asked0))
  BY <1>2, AskingAsks
<1>4. Filtered(tab) # {} => [snap |-> Latest(Filtered(tab)), path |-> 0] \in Dirs
  BY LatestOfList, TabTyped DEF Dirs
<1>5. asked1 \in SUBSET Requests /\ asked0 \subseteq asked1 /\ (Aim(asked0) => Aim(asked1))
  <2> HIDE DEF asked0
  <2> QED BY <1>2, <1>3, <1>4, AskingAsks
<1> HIDE DEF asked0, asked1
<1>6. CASE sync /\ Unsynced
  <2>1. trees' = Asking(asked1, Here, tab)
    BY <1>1, <1>6 DEF Sync
  <2>2. Here \in Dirs
    BY <1>2, <1>6 DEF Unsynced
  <2> QED BY <1>2, <1>3, <1>5, <2>1, <2>2, AskingAsks
<1>7. CASE ~ (sync /\ Unsynced)
  <2>1. trees' = asked1
    BY <1>1, <1>7 DEF Sync
  <2> QED BY <1>3, <1>5, <1>7, <2>1
<1> QED BY <1>6, <1>7

LEMMA EffectsStep ==
  ASSUME Inv, Effects
  PROVE  Inv'
<1>1. TypeOK /\ Stored /\ Aim(trees) /\ Uploading /\ Keyed /\ Listed
  BY DEF Inv
<1>2. /\ render # "no" /\ tab' = NewTab
      /\ shown' \in {None, shown} /\ key' \in {None, key}
      /\ asking' \in BOOLEAN
      /\ lists' \subseteq lists \cup {tab, None}
      /\ render \in {"key", "tab", "device"} /\ NoTree => key' = None /\ shown' = None
      /\ key' # key => render \in {"key", "tab", "device"} /\ NoTree
      /\ UNCHANGED <<known, devs, regs, upload, server, owner, names, content, push, blind,
                     failed, moves>>
  BY <1>1 DEF Effects, TypeOK, world
<1>3. /\ NewTab \in Tabs /\ OfUsed(NewTab)
      /\ NewTab = tab => ~LostDevice /\ ~Stray /\ ~NotLatest
  BY EffectOnTab
<1>4. /\ render' \in {"tab", "device", "key", "no"}
      /\ render' \in {"key", "no"} => tab' = tab
      /\ render' = "no" => key' = key
  <2>1. render' = IF NewTab # tab THEN Rendered(NewTab)
                  ELSE IF key' # key THEN "key" ELSE "no"
    BY DEF Effects
  <2> QED BY <1>2, <2>1, RenderedAs
<1>5. trees' \in SUBSET Requests /\ Aim(trees')
  BY <1>1, EffectsAsk
<1>6. TypeOK'
  <2>1. lists' \subseteq Tabs \cup {None}
    BY <1>1, <1>2 DEF TypeOK
  <2> QED BY <1>1, <1>2, <1>3, <1>4, <1>5, <2>1 DEF TypeOK
<1>7. Stored'
  <2>1. \A c \in lists' : c # None => OfUsed(c)
    BY <1>1, <1>2 DEF Stored
  <2> QED BY <1>1, <1>2, <1>3, <2>1 DEF Stored, Used, OfUsed
<1>8. Uploading'
  BY <1>1, <1>2 DEF Uploading
<1>9. Keyed'
  <2>1. shown' # None => shown' = key'
    BY <1>1, <1>2 DEF Keyed
  <2>2. ASSUME render' \in {"no", "list", "devs"}, key' # None
        PROVE  tab'.view = "snapshot" /\ tab'.snap # None
    <3>1. tab' = tab /\ key' = key
      BY <1>4, <2>2
    <3>2. CASE render \in {"list", "devs"}
      BY <1>1, <2>2, <3>1, <3>2 DEF Keyed
    <3>3. CASE render \in {"key", "tab", "device"}
      <4>1. ~NoTree
        BY <1>2, <2>2, <3>3
      <4> QED BY <1>1, <3>1, <4>1, TabTyped DEF NoTree, Views
    <3> QED BY <1>1, <1>2, <3>2, <3>3 DEF TypeOK
  <2> QED BY <2>1, <2>2 DEF Keyed
<1>10. Listed'
  <2>1. CASE render' \in {"key", "no"}
    BY <1>2, <1>3, <1>4, <2>1, ListedKept DEF Listed
  <2> QED BY <1>4, <2>1 DEF Listed
<1> QED BY <1>5, <1>6, <1>7, <1>8, <1>9, <1>10 DEF Inv

-----------------------------------------------------------------------------
(* The answers.                                                             *)

LEMMA TreeAnswerStep ==
  ASSUME Inv, NEW r \in trees, TreeAnswer(r)
  PROVE  Inv'
<1>1. TypeOK /\ Stored /\ Aim(trees) /\ Uploading /\ Keyed /\ Listed
  BY DEF Inv
<1>2. /\ r \in Requests /\ r.dir \in Dirs /\ r.goes \in Tabs \cup {None}
      /\ r.dir.snap \in Snaps
  BY <1>1 DEF TypeOK, Requests, Dirs
<1>3. /\ render = "no" /\ moves' \in 0..Moves /\ trees' = trees \ {r}
      /\ failed' \subseteq failed \cup {r.dir}
      /\ UNCHANGED <<known, devs, lists, asking, regs, upload, server, owner, names, content,
                     push, blind>>
  BY <1>1, Counts DEF TreeAnswer, world
<1>4. Aim(trees')
  BY <1>1, <1>3 DEF Aim
<1>5. CASE UNCHANGED <<tab, shown, key, render>>
  <2>1. TypeOK'
    BY <1>1, <1>2, <1>3, <1>5 DEF TypeOK
  <2>2. Stored' /\ Uploading' /\ Keyed'
    BY <1>1, <1>3, <1>5 DEF Stored, OfUsed, Uploading, Keyed, Used
  <2>3. Listed'
    BY <1>1, <1>3, <1>5, ListedKept DEF Listed
  <2> QED BY <1>4, <2>1, <2>2, <2>3 DEF Inv
<1>6. CASE r.dir.snap \in server /\ shown' = r.dir /\ key' = r.dir
  <2>1. CASE r.goes # None /\ SetTab(r.goes)
    <3>1. tab' = r.goes /\ tab' \in Tabs /\ render' \in {"tab", "device"}
      BY <1>2, <2>1, RenderedAs DEF SetTab
    <3>2. tab'.snap \in Used
      BY <1>1, <1>6, <2>1, <3>1 DEF Aim, Stored
    <3>3. TypeOK'
      BY <1>1, <1>2, <1>3, <1>6, <3>1 DEF TypeOK
    <3>4. Stored'
      BY <1>1, <1>3, <3>2 DEF Stored, OfUsed, Used
    <3> QED BY <1>1, <1>3, <1>4, <1>6, <3>1, <3>3, <3>4 DEF Inv, Uploading, Keyed, Listed
  <2>2. CASE render' = (IF key = r.dir THEN "no" ELSE "key") /\ UNCHANGED tab
    <3>1. TypeOK'
      BY <1>1, <1>2, <1>3, <1>6, <2>2 DEF TypeOK
    <3>2. Stored' /\ Uploading'
      BY <1>1, <1>3, <1>6, <2>2 DEF Stored, OfUsed, Used, Uploading
    <3>3. Keyed'
      BY <1>1, <1>2, <1>3, <1>6, <2>2 DEF Keyed
    <3>4. Listed'
      BY <1>1, <1>3, <2>2, ListedKept DEF Listed
    <3> QED BY <1>4, <3>1, <3>2, <3>3, <3>4 DEF Inv
  <2> QED BY <1>6, <2>1, <2>2, <1>5 DEF TreeAnswer
<1> QED BY <1>5, <1>6 DEF TreeAnswer

LEMMA ListAnswerStep ==
  ASSUME Inv, NEW c \in lists, ListAnswer(c)
  PROVE  Inv'
<1>1. TypeOK /\ Stored /\ Aim(trees) /\ Uploading /\ Keyed /\ Listed
  BY DEF Inv
<1>2. /\ render = "no" /\ moves' \in 0..Moves /\ lists' = lists \ {c}
      /\ UNCHANGED <<devs, shown, key, trees, asking, regs, upload, server, owner, names,
                     content, push, blind, failed>>
  BY <1>1, Counts DEF ListAnswer, world
<1>3. /\ known' \in {known, server} /\ c \in Tabs \cup {None} /\ (c # None => OfUsed(c))
  BY <1>1 DEF ListAnswer, TypeOK, Stored
<1>4. \/ UNCHANGED <<known, tab, render>>
      \/ render' = "list" /\ UNCHANGED tab
      \/ tab' \in Tabs /\ OfUsed(tab') /\ render' \in {"tab", "device"}
  <2>1. ASSUME c # None, server # {}, SetTab([c EXCEPT !.dev = owner[Latest(server)]])
        PROVE  tab' \in Tabs /\ OfUsed(tab') /\ render' \in {"tab", "device"}
    <3>1. owner[Latest(server)] \in Devices \cup {None}
      BY <1>1, <2>1, LatestOfList DEF TypeOK
    <3>2. tab' \in Tabs /\ tab'.snap = c.snap /\ render' \in {"tab", "device"}
      BY <1>3, <2>1, <3>1, RenderedAs DEF SetTab, Tabs
    <3> QED BY <1>3, <2>1, <3>2 DEF OfUsed
  <2> QED BY <2>1 DEF ListAnswer
<1>5. TypeOK'
  BY <1>1, <1>2, <1>3, <1>4 DEF TypeOK
<1>6. Stored' /\ Uploading' /\ Keyed'
  BY <1>1, <1>2, <1>3, <1>4 DEF Stored, OfUsed, Used, Uploading, Keyed
<1>7. Listed'
  BY <1>1, <1>2, <1>4, ListedKept DEF Listed
<1> QED BY <1>1, <1>2, <1>5, <1>6, <1>7 DEF Inv

LEMMA DevicesAnswerStep ==
  ASSUME Inv, DevicesAnswer
  PROVE  Inv'
<1>1. TypeOK /\ Stored /\ Aim(trees) /\ Uploading /\ Keyed /\ Listed
  BY DEF Inv
<1>2. /\ render = "no" /\ moves' \in 0..Moves /\ asking' = FALSE /\ render' = "devs"
      /\ devs' \in {names, {}}
      /\ UNCHANGED <<tab, known, shown, key, trees, lists, regs, upload, server, owner, names,
                     content, push, blind, failed>>
  BY <1>1, Counts DEF DevicesAnswer, world
<1>3. TypeOK'
  BY <1>1, <1>2 DEF TypeOK
<1>4. Stored' /\ Uploading' /\ Keyed'
  BY <1>1, <1>2 DEF Stored, OfUsed, Used, Uploading, Keyed
<1>5. Listed'
  BY <1>1, <1>2, ListedKept DEF Listed
<1> QED BY <1>1, <1>2, <1>3, <1>4, <1>5 DEF Inv

LEMMA RegisteredStep ==
  ASSUME Inv, NEW r \in regs, Registered(r)
  PROVE  Inv'
<1>1. TypeOK /\ Stored /\ Aim(trees) /\ Uploading /\ Keyed /\ Listed
  BY DEF Inv
<1>2. /\ render = "no" /\ moves' \in 0..Moves /\ regs' = regs \ {r}
      /\ names' \in {names, names \cup {r.dev}} /\ asking' \in {asking, TRUE}
      /\ UNCHANGED <<known, devs, shown, key, trees, lists, upload, server, owner, content, push,
                     blind, failed>>
  BY <1>1, Counts DEF Registered
<1>3. r.tab \in Tabs /\ r.dev \in Devices /\ OfUsed(r.tab)
  BY <1>1 DEF TypeOK, Stored
<1>4. \/ UNCHANGED <<tab, render>>
      \/ tab' \in Tabs /\ tab'.snap = r.tab.snap /\ render' \in {"tab", "device"}
  <2>1. ASSUME SetTab([r.tab EXCEPT !.dev = r.dev])
        PROVE  tab' \in Tabs /\ tab'.snap = r.tab.snap /\ render' \in {"tab", "device"}
    BY <1>3, <2>1, RenderedAs DEF SetTab, Tabs
  <2> QED BY <2>1 DEF Registered
<1>5. TypeOK'
  BY <1>1, <1>2, <1>3, <1>4 DEF TypeOK
<1>6. Stored'
  <2>1. OfUsed(tab)'
    BY <1>1, <1>2, <1>3, <1>4 DEF Stored, OfUsed, Used
  <2> QED BY <1>1, <1>2, <2>1 DEF Stored, OfUsed, Used
<1>7. Uploading' /\ Keyed'
  BY <1>1, <1>2, <1>4 DEF Uploading, Keyed
<1>8. Listed'
  BY <1>1, <1>2, <1>4, ListedKept DEF Listed
<1> QED BY <1>1, <1>2, <1>5, <1>6, <1>7, <1>8 DEF Inv

-----------------------------------------------------------------------------
(* The user.                                                                *)

(* The tab is set to one with a stored snapshot, or stays. *)
LEMMA TabStep ==
  ASSUME Inv, render = "no", tab' \in Tabs, OfUsed(tab'),
         UNCHANGED <<tab, render>> \/ render' \in {"tab", "device"},
         shown' \in {None, shown}, trees' \in SUBSET Requests, Aim(trees'),
         lists' \in {lists, lists \cup {tab}, lists \cup {None}},
         regs' = regs \/ \E d \in Devices : regs' = regs \cup {[tab |-> tab, dev |-> d]},
         moves' \in 0..Moves,
         UNCHANGED <<known, devs, key, asking, upload, server, owner, names, content, push,
                     blind, failed>>
  PROVE  Inv'
<1>1. TypeOK /\ Stored /\ Aim(trees) /\ Uploading /\ Keyed /\ Listed
  BY DEF Inv
<1>2. TypeOK'
  <2>1. lists' \subseteq Tabs \cup {None} /\ regs' \subseteq [tab: Tabs, dev: Devices]
    BY <1>1 DEF TypeOK
  <2> QED BY <1>1, <2>1 DEF TypeOK
<1>3. Stored'
  <2>1. (\A c \in lists' : c # None => OfUsed(c)) /\ \A r \in regs' : OfUsed(r.tab)
    BY <1>1 DEF Stored
  <2> QED BY <1>1, <2>1 DEF Stored, OfUsed, Used
<1>4. Uploading' /\ Keyed'
  BY <1>1 DEF Uploading, Keyed
<1>5. Listed'
  BY <1>1, ListedKept DEF Listed
<1> QED BY <1>2, <1>3, <1>4, <1>5 DEF Inv

(* What the tab of a pane at rest is. *)
LEMMA TabAtRest ==
  ASSUME Inv
  PROVE  /\ TypeOK /\ tab \in Tabs /\ tab.snap \in Snaps \cup {None} /\ OfUsed(tab)
         /\ trees \in SUBSET Requests /\ Aim(trees)
BY TabTyped DEF Inv, Stored, TypeOK

(* A tab that is set but for its snapshot. *)
LEMMA SetKept ==
  ASSUME Inv, NEW t \in Tabs, t.snap = tab.snap, SetTab(t)
  PROVE  tab' \in Tabs /\ OfUsed(tab') /\ render' \in {"tab", "device"}
BY TabAtRest, RenderedAs DEF SetTab, OfUsed

LEMMA BrowseStep ==
  ASSUME Inv, Browse
  PROVE  Inv'
<1>1. render = "no" /\ moves' \in 0..Moves
  BY Counts DEF Browse, Inv
<1>2. /\ TypeOK /\ tab \in Tabs /\ tab.snap \in Snaps \cup {None} /\ OfUsed(tab)
      /\ trees \in SUBSET Requests /\ Aim(trees)
  BY TabAtRest
<1>3. PICK p \in Paths :
        \/ /\ tab.snap # None
           /\ Ask([snap |-> tab.snap, path |-> p]) /\ UNCHANGED <<tab, render>>
        \/ SetTab([tab EXCEPT !.path = p]) /\ UNCHANGED trees
  BY DEF Browse
<1>4. UNCHANGED <<known, devs, shown, key, lists, asking, regs, upload, server, owner, names,
                  content, push, blind, failed>>
  BY DEF Browse, world
<1>5. CASE /\ tab.snap # None
           /\ Ask([snap |-> tab.snap, path |-> p]) /\ UNCHANGED <<tab, render>>
  <2>1. [snap |-> tab.snap, path |-> p] \in Dirs
    BY <1>2, <1>5 DEF Dirs
  <2>2. trees' \in SUBSET Requests /\ Aim(trees')
    BY <1>2, <1>5, <2>1, AskingAsks DEF Ask
  <2> QED BY <1>1, <1>2, <1>4, <1>5, <2>2, TabStep
<1>6. CASE SetTab([tab EXCEPT !.path = p]) /\ UNCHANGED trees
  <2>1. [tab EXCEPT !.path = p] \in Tabs /\ [tab EXCEPT !.path = p].snap = tab.snap
    BY <1>2 DEF Tabs
  <2>2. tab' \in Tabs /\ OfUsed(tab') /\ render' \in {"tab", "device"}
    BY <1>6, <2>1, SetKept
  <2> QED BY <1>1, <1>2, <1>4, <1>6, <2>2, TabStep
<1> QED BY <1>3, <1>5, <1>6

(* Another view of the same snapshot. *)
LEMMA ViewSet ==
  ASSUME Inv, NEW h \in BOOLEAN, NEW v \in Views, SetView(h, v)
  PROVE  /\ tab' \in Tabs /\ OfUsed(tab')
         /\ UNCHANGED <<tab, render>> \/ render' \in {"tab", "device"}
<1> DEFINE t == [tab EXCEPT !.history = h, !.view = v]
<1>1. t \in Tabs /\ t.snap = tab.snap
  BY TabAtRest DEF Tabs
<1>2. UNCHANGED <<tab, render>> \/ SetTab(t)
  BY DEF SetView
<1> HIDE DEF t
<1> QED BY <1>1, <1>2, SetKept, TabAtRest

LEMMA ViewStep ==
  ASSUME Inv, ToggleHistory \/ ShowAllFiles \/ ShowHistoryView
  PROVE  Inv'
<1>1. render = "no" /\ moves' \in 0..Moves
  BY Counts DEF ToggleHistory, ShowAllFiles, ShowHistoryView, Inv
<1>2. TypeOK /\ tab \in Tabs /\ trees \in SUBSET Requests /\ Aim(trees)
  BY TabAtRest
<1>3. PICK h \in BOOLEAN, v \in Views : SetView(h, v)
  BY <1>2, TabTyped DEF ToggleHistory, ShowAllFiles, ShowHistoryView, Views
<1>4. UNCHANGED <<known, devs, shown, key, lists, asking, regs, upload, server, owner, names,
                  content, push, blind, failed>>
  BY DEF ToggleHistory, ShowAllFiles, ShowHistoryView, world, asks
<1>5. trees' = trees \/ (tab.snap # None /\ Ask(Here))
  BY DEF ToggleHistory, ShowAllFiles, ShowHistoryView, asks
<1>6. trees' \in SUBSET Requests /\ Aim(trees')
  BY <1>2, <1>5, TabTyped, AskingAsks DEF Ask
<1>7. /\ tab' \in Tabs /\ OfUsed(tab')
      /\ UNCHANGED <<tab, render>> \/ render' \in {"tab", "device"}
  BY <1>3, ViewSet
<1> QED BY <1>1, <1>4, <1>6, <1>7, TabStep

LEMMA RefreshStep ==
  ASSUME Inv, Refresh
  PROVE  Inv'
<1>1. render = "no" /\ moves' \in 0..Moves
  BY Counts DEF Refresh, Inv
<1>2. /\ lists' \in {lists \cup {tab}, lists \cup {None}}
      /\ UNCHANGED <<tab, known, devs, shown, key, render, trees, asking, regs, upload, server,
                     owner, names, content, push, blind, failed>>
  BY DEF Refresh, pane, world
<1> QED BY <1>1, <1>2, TabAtRest, TabStep

LEMMA RerenderStep ==
  ASSUME Inv, Rerender
  PROVE  Inv'
<1>1. render = "no" /\ moves' \in 0..Moves
  BY Counts DEF Rerender, Inv
<1>2. /\ render' = "tab"
      /\ UNCHANGED <<tab, known, devs, shown, key, trees, lists, asking, regs, upload, server,
                     owner, names, content, push, blind, failed>>
  BY DEF Rerender, asks, world
<1> QED BY <1>1, <1>2, TabAtRest, TabStep

LEMMA RegisterDeviceStep ==
  ASSUME Inv, NEW d \in Devices, RegisterDevice(d)
  PROVE  Inv'
<1>1. render = "no" /\ moves' \in 0..Moves
  BY Counts DEF RegisterDevice, Inv
<1>2. /\ regs' = regs \cup {[tab |-> tab, dev |-> d]}
      /\ UNCHANGED <<tab, known, devs, shown, key, render, trees, lists, asking, upload, server,
                     owner, names, content, push, blind, failed>>
  BY DEF RegisterDevice, pane, world
<1> QED BY <1>1, <1>2, TabAtRest, TabStep

LEMMA ClickHistoryStep ==
  ASSUME Inv, NEW s \in Snaps, ClickHistory(s)
  PROVE  Inv'
<1>1. render = "no" /\ moves' \in 0..Moves
  BY Counts DEF ClickHistory, Inv
<1>2. tab \in Tabs /\ trees \in SUBSET Requests /\ Aim(trees) /\ 0 \in Paths
  BY TabAtRest, TabTyped
<1>3. /\ SetTab([tab EXCEPT !.snap = s, !.path = 0])
      /\ shown' = None /\ s \in known
      /\ trees' = Asking(trees, [snap |-> s, path |-> 0], tab)
      /\ UNCHANGED <<known, devs, key, lists, asking, regs, upload, server, owner, names,
                     content, push, blind, failed>>
  BY DEF ClickHistory, Ask, world, Filtered
<1>4. tab' \in Tabs /\ tab'.snap = s /\ render' \in {"tab", "device"}
  BY <1>2, <1>3, RenderedAs DEF SetTab, Tabs
<1>5. OfUsed(tab')
  BY <1>3, <1>4 DEF Inv, Stored, OfUsed
<1>6. trees' \in SUBSET Requests /\ Aim(trees')
  <2>1. [snap |-> s, path |-> 0] \in Dirs
    BY <1>2 DEF Dirs
  <2> QED BY <1>2, <1>3, <2>1, AskingAsks
<1> QED BY <1>1, <1>3, <1>4, <1>5, <1>6, TabStep

-----------------------------------------------------------------------------
(* Uploads, backups and deletions.                                          *)

(* Nothing of the pane changes. *)
LEMMA ElsewhereStep ==
  ASSUME Inv, render = "no",
         UNCHANGED <<tab, known, devs, shown, key, render, trees, lists, asking, regs, names,
                     failed>>,
         upload' \in [Files -> Uploads],
         content' \in [Snaps -> SUBSET (Files \cup {"backup"})],
         push' \in [Snaps -> {"none", "upload", "going", "done"}],
         owner' \in [Snaps -> Devices \cup {None}],
         \A x \in Used : x \in Used' /\ owner'[x] = owner[x],
         \A x \in Used' : owner'[x] \in Devices,
         server' \subseteq Used',
         \A f \in Files : upload'[f].target # None => upload'[f].target \in Used',
         Uploading', blind' \subseteq Files, moves' \in 0..Moves
  PROVE  Inv'
<1>1. TypeOK /\ Stored /\ Aim(trees) /\ Keyed /\ Listed /\ known \subseteq Used
  BY DEF Inv, Stored
<1>2. TypeOK'
  <2>1. server' \subseteq Snaps
    BY DEF Used
  <2> QED BY <1>1, <2>1 DEF TypeOK
<1>3. Stored'
  <2>1. known' \cup server' \subseteq Used'
    BY <1>1
  <2>2. \A t : OfUsed(t) => (t.snap # None => t.snap \in Used')
    BY DEF OfUsed
  <2> QED BY <1>1, <2>1, <2>2 DEF Stored, OfUsed
<1>4. Keyed'
  BY <1>1 DEF Keyed
<1>5. Listed'
  BY <1>1, ListedKept DEF Listed
<1> QED BY <1>1, <1>2, <1>3, <1>4, <1>5 DEF Inv

(* A snapshot is stored that was not before. *)
LEMMA StoreStores ==
  ASSUME TypeOK, Stored, NEW s \in Snaps, NEW d \in Devices, NEW by \in {"upload", "going"},
         Store(s, d, by)
  PROVE  /\ push' \in [Snaps -> {"none", "upload", "going", "done"}]
         /\ owner' \in [Snaps -> Devices \cup {None}]
         /\ server' = server \cup {s} /\ s \notin Used /\ Used' = Used \cup {s}
         /\ push'[s] = by /\ \A x \in Snaps \ {s} : push'[x] = push[x]
         /\ \A x \in Used : owner'[x] = owner[x]
         /\ \A x \in Used' : owner'[x] \in Devices
         /\ server' \subseteq Used'
<1>1. /\ push[s] = "none" /\ server' = server \cup {s}
      /\ owner' = [owner EXCEPT ![s] = d] /\ push' = [push EXCEPT ![s] = by]
  BY DEF Store
<1>2. /\ push' \in [Snaps -> {"none", "upload", "going", "done"}]
      /\ owner' \in [Snaps -> Devices \cup {None}]
      /\ push'[s] = by /\ owner'[s] = d
      /\ \A x \in Snaps \ {s} : push'[x] = push[x] /\ owner'[x] = owner[x]
  BY <1>1 DEF TypeOK
<1>3. s \notin Used /\ Used' = Used \cup {s}
  <2>1. \A x : x \in Used' <=> x \in Used \cup {s}
    BY <1>1, <1>2 DEF Used
  <2> QED BY <1>1, <2>1 DEF Used
<1>4. Used \subseteq Snaps /\ server \subseteq Used /\ \A x \in Used : owner[x] \in Devices
  BY DEF Stored, Used
<1> QED BY <1>1, <1>2, <1>3, <1>4

LEMMA BackupStartsStep ==
  ASSUME Inv, NEW s \in Snaps, NEW d \in Devices, BackupStarts(s, d)
  PROVE  Inv'
<1>1. TypeOK /\ Stored /\ Uploading
  BY DEF Inv
<1>2. render = "no" /\ moves' \in 0..Moves
  BY <1>1, Counts DEF BackupStarts
<1>3. /\ Store(s, d, "going")
      /\ UNCHANGED <<tab, known, devs, shown, key, render, trees, lists, asking, regs, upload,
                     names, content, blind, failed>>
  BY DEF BackupStarts, pane, asks
<1>4. /\ push' \in [Snaps -> {"none", "upload", "going", "done"}]
      /\ owner' \in [Snaps -> Devices \cup {None}] /\ Used' = Used \cup {s}
      /\ \A x \in Used : owner'[x] = owner[x]
      /\ \A x \in Used' : owner'[x] \in Devices
      /\ server' \subseteq Used'
  BY <1>1, <1>3, StoreStores
<1>5. /\ \A f \in Files : upload'[f].target # None => upload'[f].target \in Used'
      /\ \A x \in Used : x \in Used'
  BY <1>1, <1>3, <1>4 DEF Stored
<1>6. Uploading'
  BY <1>1, <1>3 DEF Uploading
<1>7. /\ upload' \in [Files -> Uploads] /\ blind' \subseteq Files
      /\ content' \in [Snaps -> SUBSET (Files \cup {"backup"})]
  BY <1>1, <1>3 DEF TypeOK
<1> QED BY <1>2, <1>3, <1>4, <1>5, <1>6, <1>7, ElsewhereStep

LEMMA BackupEndsStep ==
  ASSUME Inv, NEW s \in Snaps, BackupEnds(s)
  PROVE  Inv'
<1>1. TypeOK /\ Stored /\ Uploading
  BY DEF Inv
<1>2. render = "no" /\ moves' \in 0..Moves
  BY <1>1, Counts DEF BackupEnds
<1>3. /\ push[s] = "going"
      /\ content' = [content EXCEPT ![s] = {"backup"}] /\ push' = [push EXCEPT ![s] = "done"]
      /\ UNCHANGED <<tab, known, devs, shown, key, render, trees, lists, asking, regs, upload,
                     server, owner, names, blind, failed>>
  BY DEF BackupEnds, pane, asks
<1>4. /\ push' \in [Snaps -> {"none", "upload", "going", "done"}]
      /\ content' \in [Snaps -> SUBSET (Files \cup {"backup"})]
      /\ \A x \in Snaps : push'[x] # "none" <=> push[x] # "none"
  BY <1>1, <1>3 DEF TypeOK
<1>5. Used' = Used
  BY <1>4 DEF Used
<1>6. /\ server' \subseteq Used' /\ \A x \in Used' : owner'[x] \in Devices
      /\ \A f \in Files : upload'[f].target # None => upload'[f].target \in Used'
  BY <1>1, <1>3, <1>5 DEF Stored
<1>7. Uploading'
  BY <1>1, <1>3 DEF Uploading
<1>8. /\ upload' \in [Files -> Uploads] /\ blind' \subseteq Files
      /\ owner' \in [Snaps -> Devices \cup {None}]
  BY <1>1, <1>3 DEF TypeOK
<1> QED BY <1>2, <1>3, <1>4, <1>5, <1>6, <1>7, <1>8, ElsewhereStep

LEMMA DeleteStep ==
  ASSUME Inv, NEW s \in Snaps, Delete(s)
  PROVE  Inv'
<1>1. TypeOK /\ Stored /\ Uploading
  BY DEF Inv
<1>2. render = "no" /\ moves' \in 0..Moves
  BY <1>1, Counts DEF Delete
<1>3. /\ server' = server \ {s} /\ content' = [content EXCEPT ![s] = {}]
      /\ UNCHANGED <<tab, known, devs, shown, key, render, trees, lists, asking, regs, upload,
                     owner, names, push, blind, failed>>
  BY DEF Delete, pane, asks
<1>4. content' \in [Snaps -> SUBSET (Files \cup {"backup"})]
  BY <1>1, <1>3 DEF TypeOK
<1>5. Used' = Used
  BY <1>3 DEF Used
<1>6. /\ server' \subseteq Used' /\ \A x \in Used' : owner'[x] \in Devices
      /\ \A f \in Files : upload'[f].target # None => upload'[f].target \in Used'
  BY <1>1, <1>3, <1>5 DEF Stored
<1>7. Uploading'
  BY <1>1, <1>3 DEF Uploading
<1>8. /\ upload' \in [Files -> Uploads] /\ blind' \subseteq Files
      /\ owner' \in [Snaps -> Devices \cup {None}]
      /\ push' \in [Snaps -> {"none", "upload", "going", "done"}]
  BY <1>1, <1>3 DEF TypeOK
<1> QED BY <1>2, <1>3, <1>4, <1>5, <1>6, <1>7, <1>8, ElsewhereStep

(* One upload changes, and at most what is stored of the manifests. *)
LEMMA UploadChanges ==
  ASSUME Inv, render = "no", NEW f \in Files, NEW u \in Uploads,
         upload' = [upload EXCEPT ![f] = u],
         u.target # None => u.target \in Used,
         u.pc \notin {"idle", "done", "failed"} => u.tab \in Tabs /\ u.tab.dev # None,
         u.pc \in {"read", "put", "jump"} => u.target \in Snaps,
         blind' \in {blind, blind \cup {f}},
         f \in blind' => u.pc \notin {"idle", "chunks", "read"},
         content' \in [Snaps -> SUBSET (Files \cup {"backup"})],
         moves' \in 0..Moves,
         UNCHANGED <<tab, known, devs, shown, key, render, trees, lists, asking, regs, server,
                     owner, names, push, failed>>
  PROVE  Inv'
<1>1. TypeOK /\ Stored /\ Uploading
  BY DEF Inv
<1>2. /\ upload' \in [Files -> Uploads] /\ upload'[f] = u
      /\ \A g \in Files \ {f} : upload'[g] = upload[g]
  BY <1>1 DEF TypeOK
<1>3. Used' = Used
  BY DEF Used
<1>4. /\ server' \subseteq Used' /\ \A x \in Used' : owner'[x] \in Devices
      /\ \A g \in Files : upload'[g].target # None => upload'[g].target \in Used'
  BY <1>1, <1>2, <1>3 DEF Stored
<1>5. Uploading'
  BY <1>1, <1>2 DEF Uploading
<1>6. /\ blind' \subseteq Files /\ owner' \in [Snaps -> Devices \cup {None}]
      /\ push' \in [Snaps -> {"none", "upload", "going", "done"}]
  BY <1>1 DEF TypeOK
<1> QED BY <1>2, <1>3, <1>4, <1>5, <1>6, ElsewhereStep

(* An upload is always one, whatever of it is set. *)
LEMMA UploadTyped ==
  ASSUME Inv, NEW f \in Files
  PROVE  /\ upload[f] \in Uploads /\ upload[f].target \in Snaps \cup {None}
         /\ upload[f].target # None => upload[f].target \in Used
         /\ upload[f].read \in SUBSET (Files \cup {"backup"})
BY DEF Inv, TypeOK, Stored, Uploads

LEMMA UploadGoes ==
  ASSUME NEW v \in Uploads, NEW pc \in {"read", "jump"}
  PROVE  LET w == [v EXCEPT !.pc = pc] IN
           w \in Uploads /\ w.pc = pc /\ w.target = v.target /\ w.tab = v.tab
BY DEF Uploads

LEMMA UploadTargets ==
  ASSUME NEW v \in Uploads, NEW s \in Snaps
  PROVE  LET w == [v EXCEPT !.pc = "read", !.target = s] IN
           w \in Uploads /\ w.pc = "read" /\ w.target = s /\ w.tab = v.tab
BY DEF Uploads

LEMMA UploadReads ==
  ASSUME NEW v \in Uploads, NEW files \in SUBSET (Files \cup {"backup"})
  PROVE  LET w == [v EXCEPT !.pc = "put", !.read = files] IN
           w \in Uploads /\ w.pc = "put" /\ w.target = v.target /\ w.tab = v.tab
BY DEF Uploads

LEMMA UploadOver ==
  ASSUME Inv, NEW f \in Files, NEW pc \in {"done", "failed"}
  PROVE  /\ Over(f, pc) \in Uploads
         /\ Over(f, pc).pc = pc /\ Over(f, pc).target = upload[f].target
BY UploadTyped DEF Over, NoUpload, Uploads

LEMMA UploadStep ==
  ASSUME Inv, NEW f \in Files, Upload(f)
  PROVE  Inv'
<1>1. TypeOK /\ Stored /\ Uploading
  BY DEF Inv
<1>2. render = "no" /\ moves' \in 0..Moves
  BY <1>1, Counts DEF Upload
<1> DEFINE t == IF Filtered(tab) = {} THEN None ELSE Latest(Filtered(tab))
           u == [pc |-> "chunks", read |-> {}, tab |-> tab, target |-> t]
<1>3. /\ upload[f].pc = "idle" /\ tab.dev # None /\ tab \in Tabs
      /\ upload' = [upload EXCEPT ![f] = u]
      /\ UNCHANGED <<tab, known, devs, shown, key, render, trees, lists, asking, regs, server,
                     owner, names, content, push, blind, failed>>
  BY <1>1 DEF Upload, pane, asks, world, TypeOK
<1>4. t \in Snaps \cup {None} /\ (t # None => t \in Used)
  BY <1>1, LatestOfList, TabTyped DEF Stored
<1>5. f \notin blind /\ content' \in [Snaps -> SUBSET (Files \cup {"backup"})]
  BY <1>1, <1>3 DEF Uploading, TypeOK
<1> HIDE DEF t
<1>6. u \in Uploads /\ u.pc = "chunks" /\ u.target = t /\ u.tab = tab
  BY <1>3, <1>4 DEF Uploads
<1> HIDE DEF u
<1> QED BY <1>2, <1>3, <1>4, <1>5, <1>6, UploadChanges

LEMMA UploadFailsStep ==
  ASSUME Inv, NEW f \in Files, UploadFails(f)
  PROVE  Inv'
<1>1. TypeOK
  BY DEF Inv
<1> DEFINE pc == IF upload[f].pc = "jump" THEN "done" ELSE "failed"
<1>2. /\ render = "no" /\ moves' \in 0..Moves
      /\ upload' = [upload EXCEPT ![f] = Over(f, pc)]
      /\ UNCHANGED <<tab, known, devs, shown, key, render, trees, lists, asking, regs, server,
                     owner, names, content, push, blind, failed>>
      /\ content \in [Snaps -> SUBSET (Files \cup {"backup"})]
  BY <1>1, Counts DEF UploadFails, pane, asks, world, TypeOK
<1>3. pc \in {"done", "failed"}
  OBVIOUS
<1> HIDE DEF pc
<1> QED BY <1>2, <1>3, UploadOver, UploadTyped, UploadChanges

LEMMA UploadChunksStep ==
  ASSUME Inv, NEW f \in Files, UploadChunks(f)
  PROVE  Inv'
<1>1. TypeOK /\ Stored /\ Uploading
  BY DEF Inv
<1>2. /\ render = "no" /\ moves' \in 0..Moves /\ upload[f].pc = "chunks" /\ f \notin blind
      /\ upload[f].tab \in Tabs /\ upload[f].tab.dev # None
      /\ UNCHANGED <<tab, known, devs, shown, key, render, trees, lists, asking, regs, names,
                     content, blind, failed>>
      /\ content \in [Snaps -> SUBSET (Files \cup {"backup"})] /\ blind \subseteq Files
  BY <1>1, Counts DEF UploadChunks, UploadAt, Uploading, pane, asks, TypeOK
<1>3. CASE /\ upload[f].target # None
           /\ upload' = [upload EXCEPT ![f].pc = "read"] /\ UNCHANGED <<server, owner, push>>
  <2> DEFINE u == [upload[f] EXCEPT !.pc = "read"]
  <2>1. u \in Uploads /\ u.pc = "read" /\ u.target = upload[f].target /\ u.tab = upload[f].tab
    BY UploadTyped, UploadGoes
  <2>2. upload' = [upload EXCEPT ![f] = u]
    BY <1>1, <1>3 DEF TypeOK
  <2>3. upload[f].target \in Used /\ upload[f].target \in Snaps
    BY <1>3, UploadTyped
  <2> HIDE DEF u
  <2>4. /\ u.target \in Used /\ u.target \in Snaps /\ u.tab \in Tabs /\ u.tab.dev # None
        /\ blind' = blind /\ f \notin blind'
        /\ content' \in [Snaps -> SUBSET (Files \cup {"backup"})]
        /\ UNCHANGED <<tab, known, devs, shown, key, render, trees, lists, asking, regs, server,
                       owner, names, push, failed>>
    BY <1>2, <1>3, <2>1, <2>3
  <2> QED BY <1>2, <2>1, <2>2, <2>4, UploadChanges
<1>4. ASSUME NEW s \in Snaps, Store(s, upload[f].tab.dev, "upload"),
             upload' = [upload EXCEPT ![f].pc = "read", ![f].target = s]
      PROVE  Inv'
  <2> DEFINE u == [upload[f] EXCEPT !.pc = "read", !.target = s]
  <2>0. u \in Uploads /\ u.pc = "read" /\ u.target = s /\ u.tab = upload[f].tab
    <3>1. upload[f] \in Uploads
      BY UploadTyped
    <3> QED BY <3>1, UploadTargets
  <2>1. upload' = [upload EXCEPT ![f] = u]
    BY <1>1, <1>4 DEF TypeOK, Uploads
  <2> HIDE DEF u
  <2>2. /\ upload' \in [Files -> Uploads] /\ upload'[f] = u
        /\ \A g \in Files \ {f} : upload'[g] = upload[g]
    BY <1>1, <2>0, <2>1 DEF TypeOK
  <2>3. upload[f].tab.dev \in Devices
    BY <1>2 DEF Tabs
  <2>4. /\ push' \in [Snaps -> {"none", "upload", "going", "done"}]
        /\ owner' \in [Snaps -> Devices \cup {None}] /\ Used' = Used \cup {s}
        /\ \A x \in Used : owner'[x] = owner[x]
        /\ \A x \in Used' : owner'[x] \in Devices
        /\ server' \subseteq Used'
    BY <1>1, <1>4, <2>3, StoreStores
  <2>5. /\ \A g \in Files : upload'[g].target # None => upload'[g].target \in Used'
        /\ \A x \in Used : x \in Used'
    BY <1>1, <2>0, <2>2, <2>4 DEF Stored
  <2>6. Uploading'
    BY <1>1, <1>2, <2>0, <2>2 DEF Uploading
  <2> QED BY <1>2, <2>2, <2>4, <2>5, <2>6, ElsewhereStep
<1> QED BY <1>3, <1>4 DEF UploadChunks

LEMMA UploadReadStep ==
  ASSUME Inv, NEW f \in Files, UploadRead(f)
  PROVE  Inv'
<1>1. TypeOK /\ Stored /\ Uploading
  BY DEF Inv
<1>2. /\ render = "no" /\ moves' \in 0..Moves /\ upload[f].pc = "read"
      /\ upload[f].target \in Snaps /\ upload[f].tab \in Tabs /\ upload[f].tab.dev # None
      /\ UNCHANGED <<tab, known, devs, shown, key, render, trees, lists, asking, regs, server,
                     owner, names, content, push, failed>>
      /\ content \in [Snaps -> SUBSET (Files \cup {"backup"})]
  BY <1>1, Counts DEF UploadRead, UploadAt, Uploading, pane, asks, world, TypeOK
<1>3. PICK files \in {content[upload[f].target], {}} :
        /\ upload' = [upload EXCEPT ![f].pc = "put", ![f].read = files]
        /\ blind' = IF "backup" \in files THEN blind ELSE blind \cup {f}
  BY DEF UploadRead
<1>4. files \in SUBSET (Files \cup {"backup"})
  BY <1>2
<1> DEFINE u == [upload[f] EXCEPT !.pc = "put", !.read = files]
<1>5. /\ u \in Uploads /\ u.pc = "put" /\ u.target = upload[f].target
      /\ u.tab = upload[f].tab
  <2>1. upload[f] \in Uploads
    BY UploadTyped
  <2> QED BY <1>4, <2>1, UploadReads
<1>6. upload' = [upload EXCEPT ![f] = u]
  BY <1>1, <1>3 DEF TypeOK, Uploads
<1> HIDE DEF u
<1> QED BY <1>2, <1>3, <1>5, <1>6, UploadTyped, UploadChanges

LEMMA UploadPutStep ==
  ASSUME Inv, NEW f \in Files, UploadPut(f)
  PROVE  Inv'
<1>1. TypeOK /\ Stored /\ Uploading
  BY DEF Inv
<1>2. /\ render = "no" /\ moves' \in 0..Moves /\ upload[f].pc = "put"
      /\ upload[f].target \in Snaps /\ upload[f].tab \in Tabs /\ upload[f].tab.dev # None
      /\ content' = [content EXCEPT ![upload[f].target] = upload[f].read \cup {f}]
      /\ upload' = [upload EXCEPT ![f].pc = "jump"]
      /\ UNCHANGED <<tab, known, devs, shown, key, render, trees, lists, asking, regs, server,
                     owner, names, push, blind, failed>>
  BY <1>1, Counts DEF UploadPut, UploadAt, Uploading, pane, asks, world
<1>3. content' \in [Snaps -> SUBSET (Files \cup {"backup"})]
  <2>1. upload[f].read \cup {f} \in SUBSET (Files \cup {"backup"})
    BY UploadTyped
  <2> QED BY <1>1, <1>2, <2>1 DEF TypeOK
<1> DEFINE u == [upload[f] EXCEPT !.pc = "jump"]
<1>4. u \in Uploads /\ u.pc = "jump" /\ u.target = upload[f].target /\ u.tab = upload[f].tab
  BY UploadTyped, UploadGoes
<1>5. upload' = [upload EXCEPT ![f] = u]
  BY <1>1, <1>2 DEF TypeOK
<1>6. upload[f].target \in Used
  BY <1>2, UploadTyped, SnapsAssumption
<1> HIDE DEF u
<1> QED BY <1>2, <1>3, <1>4, <1>5, <1>6, UploadChanges

LEMMA UploadJumpStep ==
  ASSUME Inv, NEW f \in Files, UploadJump(f)
  PROVE  Inv'
<1>1. TypeOK /\ Stored /\ Aim(trees) /\ Uploading /\ Keyed /\ Listed
  BY DEF Inv
<1> DEFINE t == upload[f].tab
           s == upload[f].target
<1>2. /\ render = "no" /\ moves' \in 0..Moves /\ upload[f].pc = "jump" /\ t \in Tabs
      /\ s \in Used /\ known' \in {known, server}
      /\ upload' = [upload EXCEPT ![f] = Over(f, "done")]
      /\ UNCHANGED <<devs, shown, key, lists, asking, regs, server, owner, names, content, push,
                     blind, failed>>
  BY <1>1, SnapsAssumption, Counts DEF UploadJump, UploadAt, Uploading, Stored, world
<1>3. \/ SetTab([t EXCEPT !.snap = s]) /\ trees' = Asking(trees, [snap |-> s, path |-> t.path], t)
      \/ /\ render' = "list" \/ (render' = "no" /\ known' = known)
         /\ UNCHANGED <<tab, trees>>
  BY DEF UploadJump
<1> HIDE DEF t, s
<1>4. /\ trees' \in SUBSET Requests /\ Aim(trees')
      /\ \/ UNCHANGED tab /\ (render' = "list" \/ (render' = "no" /\ known' = known))
         \/ tab' \in Tabs /\ tab'.snap \in Used /\ render' \in {"tab", "device"}
  <2>1. CASE /\ SetTab([t EXCEPT !.snap = s])
             /\ trees' = Asking(trees, [snap |-> s, path |-> t.path], t)
    <3>1. s \in Snaps /\ trees \in SUBSET Requests
      BY <1>1, <1>2 DEF Used, TypeOK
    <3>2. /\ tab' \in Tabs /\ tab'.snap = s /\ render' \in {"tab", "device"}
          /\ [snap |-> s, path |-> t.path] \in Dirs
      BY <1>2, <2>1, <3>1, RenderedAs DEF SetTab, Tabs, Dirs
    <3> QED BY <1>1, <1>2, <2>1, <3>1, <3>2, AskingAsks
  <2>2. CASE /\ render' = "list" \/ (render' = "no" /\ known' = known)
             /\ UNCHANGED <<tab, trees>>
    BY <1>1, <2>2 DEF TypeOK
  <2> QED BY <1>3, <2>1, <2>2
<1>5. /\ upload' \in [Files -> Uploads]
      /\ \A g \in Files \ {f} : upload'[g] = upload[g]
      /\ upload'[f].pc = "done" /\ upload'[f].target = upload[f].target
  BY <1>1, <1>2, UploadOver DEF TypeOK
<1>6. TypeOK'
  BY <1>1, <1>2, <1>4, <1>5 DEF TypeOK
<1>7. Stored'
  <2>1. OfUsed(tab')
    BY <1>1, <1>4 DEF Stored, OfUsed
  <2> QED BY <1>1, <1>2, <1>5, <2>1 DEF Stored, OfUsed, Used
<1>8. Uploading'
  BY <1>1, <1>2, <1>5 DEF Uploading
<1>9. Keyed'
  BY <1>1, <1>2, <1>4 DEF Keyed
<1>10. Listed'
  BY <1>1, <1>2, <1>4, ListedKept DEF Listed
<1> QED BY <1>4, <1>6, <1>7, <1>8, <1>9, <1>10 DEF Inv

-----------------------------------------------------------------------------

LEMMA InitInv == Init => Inv
<1> SUFFICES ASSUME Init PROVE Inv
  OBVIOUS
<1>1. TypeOK
  <2>1. upload \in [Files -> Uploads]
    BY DEF Init, NoUpload, Uploads
  <2>2. /\ content \in [Snaps -> SUBSET (Files \cup {"backup"})]
        /\ push \in [Snaps -> {"none", "upload", "going", "done"}]
    BY DEF Init
  <2>3. /\ tab \in Tabs /\ server \subseteq Snaps /\ moves \in 0..Moves
        /\ names \subseteq Devices /\ owner \in [Snaps -> Devices \cup {None}]
        /\ known = {} /\ devs = {} /\ shown = None /\ key = None /\ render = "tab"
        /\ trees = {} /\ lists = {} /\ asking = FALSE /\ regs = {}
        /\ blind = {} /\ failed = {}
    BY DepthAssumption, SavedAssumption, DevicesAssumption DEF Init
  <2> QED BY <2>1, <2>2, <2>3 DEF TypeOK
<1>2. Stored
  <2>1. tab.snap \in Snaps \cup {None}
    BY <1>1, TabTyped
  <2>2. \A s \in Snaps : s \in Used <=> s \in server \cup {tab.snap}
    BY DEF Init, Used
  <2>3. \A s \in Used : owner[s] \in Devices
    BY <1>1 DEF Init, Used, TypeOK
  <2>4. \A f \in Files : upload[f].target = None
    BY DEF Init, NoUpload
  <2> QED BY <2>1, <2>2, <2>3, <2>4 DEF Init, Stored, OfUsed
<1>3. Uploading
  BY DEF Init, Uploading, NoUpload
<1> QED BY <1>1, <1>2, <1>3 DEF Init, Inv, Keyed, Listed, Aim

LEMMA Steps ==
  ASSUME Inv, [Next]_vars
  PROVE  Inv'
<1>1. CASE Effects \/ Rerender
  BY <1>1, EffectsStep, RerenderStep
<1>2. CASE Answers
  BY <1>2, DevicesAnswerStep, ListAnswerStep, TreeAnswerStep, RegisteredStep DEF Answers
<1>3. CASE User
  BY <1>3, BrowseStep, RefreshStep, ViewStep DEF User
<1>4. CASE \E s \in Snaps : SnapSteps(s)
  BY <1>4, ClickHistoryStep, BackupStartsStep, BackupEndsStep, DeleteStep DEF SnapSteps
<1>5. CASE \E d \in Devices : RegisterDevice(d)
  BY <1>5, RegisterDeviceStep
<1>6. CASE \E f \in Files : Upload(f) \/ UploadSteps(f)
  BY <1>6, UploadStep, UploadChunksStep, UploadReadStep, UploadPutStep, UploadJumpStep,
     UploadFailsStep DEF UploadSteps
<1>7. CASE UNCHANGED vars
  <2>1. /\ UNCHANGED <<tab, known, devs, shown, key, render, trees, lists, asking, regs>>
        /\ UNCHANGED <<upload, server, owner, names, content, push, blind, failed, moves>>
    BY <1>7 DEF vars, pane, asks, world
  <2>2. TypeOK' /\ Stored' /\ Aim(trees') /\ Uploading' /\ Keyed'
    BY <2>1 DEF Inv, TypeOK, Stored, OfUsed, Used, Uploading, Keyed
  <2>3. Listed'
    BY <2>1, ListedKept DEF Inv, Listed
  <2> QED BY <2>2, <2>3 DEF Inv
<1> QED BY <1>1, <1>2, <1>3, <1>4, <1>5, <1>6, <1>7 DEF Next

-----------------------------------------------------------------------------
(* The tree of the tab is on its way.                                       *)

(* Requests in flight stay so when another one is made. *)
LEMMA AskingKeeps ==
  ASSUME NEW S, NEW d, NEW t
  PROVE  S \subseteq Asking(S, d, t)
BY DEF Asking

(* Nothing to do where the tab stays and its snapshot does not come back. *)
LEMMA SyncedStays ==
  ASSUME Synced, render \in {"no", "list", "devs"}, UNCHANGED <<tab, key, failed>>,
         trees \subseteq trees',
         tab.snap \in server' => tab.snap \in server \/ tab.snap = None
  PROVE  Synced'
<1>1. Here' = Here
  BY DEF Here
<1> QED BY <1>1 DEF Synced, Unsynced

LEMMA SyncedEffects ==
  ASSUME Inv, Synced, Effects
  PROVE  Synced'
<1>1. /\ tab' = NewTab /\ UNCHANGED <<server, failed>>
      /\ render' = IF NewTab # tab THEN Rendered(NewTab)
                   ELSE IF key' # key THEN "key" ELSE "no"
      /\ render \in {"key", "devs", "list", "tab", "device"}
  BY DEF Effects, world, Inv, TypeOK
<1>2. CASE render' \in {"tab", "device", "key"}
  BY <1>2 DEF Synced
<1>3. CASE render' = "no"
  <2>1. UNCHANGED <<tab, key>>
    BY <1>1, <1>3, RenderedAs
  <2>2. /\ trees \subseteq trees'
        /\ render \in {"key", "tab", "device"} /\ Unsynced => \E r \in trees' : r.dir = Here
    BY EffectsAsk DEF Inv
  <2>3. CASE render \in {"list", "devs"}
    BY <1>1, <2>1, <2>2, <2>3, SyncedStays
  <2>4. CASE render \in {"key", "tab", "device"}
    <3>1. Here' = Here /\ Unsynced' = Unsynced
      BY <2>1 DEF Here, Unsynced
    <3> QED BY <2>2, <2>4, <3>1 DEF Synced
  <2> QED BY <1>1, <2>3, <2>4
<1> QED BY <1>1, <1>2, <1>3, RenderedAs

LEMMA SyncedTreeAnswer ==
  ASSUME Inv, Synced, NEW r \in trees, TreeAnswer(r)
  PROVE  Synced'
<1>1. render = "no" /\ trees' = trees \ {r} /\ UNCHANGED server
  BY DEF TreeAnswer, world, Move, Lucky
<1>2. CASE /\ UNCHANGED <<tab, key>>
           /\ \/ r.dir.snap \notin server /\ UNCHANGED failed
              \/ failed' = failed \cup {r.dir}
  <2>1. Here' = Here /\ (Unsynced' => Unsynced)
    BY <1>2 DEF Here, Unsynced
  <2>2. r.dir = Here => r.dir.snap = tab.snap
    BY DEF Here
  <2> QED BY <1>1, <1>2, <2>1, <2>2 DEF Synced
<1>3. CASE key' = r.dir /\ failed' = failed \ {r.dir} /\ UNCHANGED tab
  <2>1. Here' = Here
    BY <1>3 DEF Here
  <2>2. ASSUME render' \in {"no", "list", "devs"}, Unsynced'
        PROVE  key = r.dir /\ Unsynced
    BY <1>1, <1>3, <2>1, <2>2 DEF TreeAnswer, Unsynced, SetTab, Rendered
  <2>3. Unsynced' => r.dir # Here
    BY <1>3, <2>1 DEF Unsynced
  <2> QED BY <1>1, <1>3, <2>1, <2>2, <2>3 DEF Synced
<1>4. CASE render' \in {"tab", "device"}
  BY <1>4 DEF Synced
<1> QED BY <1>2, <1>3, <1>4, RenderedAs DEF TreeAnswer, SetTab

(* What the user does: the tab stays and a request more is in flight, or it *)
(* is a new tab.                                                            *)
LEMMA SyncedUser ==
  ASSUME Synced,
         \/ User \/ Rerender \/ \E s \in Snaps : ClickHistory(s)
         \/ \E d \in Devices : RegisterDevice(d)
  PROVE  Synced'
<1>1. render = "no" /\ UNCHANGED <<key, server, failed>>
  BY DEF User, Browse, Refresh, ToggleHistory, ShowAllFiles, ShowHistoryView, ClickHistory,
         Rerender, RegisterDevice, Move, Lucky, world, pane
<1>2. trees' = trees \/ \E d : trees' = Asking(trees, d, tab)
  <2>1. CASE Browse
    BY <2>1 DEF Browse, Ask
  <2>2. CASE Refresh \/ ToggleHistory \/ ShowAllFiles
    BY <2>2 DEF Refresh, ToggleHistory, ShowAllFiles, asks
  <2>3. CASE ShowHistoryView
    BY <2>3 DEF ShowHistoryView, Ask
  <2>4. CASE \E s \in Snaps : ClickHistory(s)
    BY <2>4 DEF ClickHistory, Ask
  <2>5. CASE Rerender \/ \E d \in Devices : RegisterDevice(d)
    BY <2>5 DEF Rerender, RegisterDevice, asks
  <2> QED BY <2>1, <2>2, <2>3, <2>4, <2>5 DEF User
<1>3. UNCHANGED tab \/ render' \in {"tab", "device"}
  BY RenderedAs DEF User, Browse, Refresh, ToggleHistory, ShowAllFiles, ShowHistoryView,
         ClickHistory, Rerender, RegisterDevice, SetView, SetTab, pane
<1>4. trees \subseteq trees'
  BY <1>2, AskingKeeps
<1>5. CASE UNCHANGED tab
  BY <1>1, <1>4, <1>5, SyncedStays
<1>6. CASE render' \in {"tab", "device"}
  BY <1>6 DEF Synced
<1> QED BY <1>3, <1>5, <1>6

(* A snapshot that is stored is new, so it is not that of the tab. *)
LEMMA StoredIsNew ==
  ASSUME Inv, NEW s \in Snaps, NEW d, NEW by, Store(s, d, by)
  PROVE  tab.snap \in server' => tab.snap \in server \/ tab.snap = None
BY DEF Inv, Stored, OfUsed, Store, Used

LEMMA SyncedElsewhere ==
  ASSUME Inv, Synced,
         \/ Answers /\ ~ \E r \in trees : TreeAnswer(r)
         \/ \E f \in Files : Upload(f) \/ UploadSteps(f)
         \/ \E s \in Snaps : BackupEnds(s) \/ Delete(s) \/ \E d \in Devices : BackupStarts(s, d)
  PROVE  Synced'
<1>1. CASE Answers /\ ~ \E r \in trees : TreeAnswer(r)
  <2>1. render = "no" /\ UNCHANGED <<key, trees, server, failed>>
    BY <1>1 DEF Answers, DevicesAnswer, ListAnswer, Registered, Move, Lucky, world
  <2>2. UNCHANGED tab \/ render' \in {"tab", "device"}
    BY <1>1, RenderedAs DEF Answers, DevicesAnswer, ListAnswer, Registered, SetTab
  <2>3. CASE UNCHANGED tab
    BY <2>1, <2>3, SyncedStays
  <2>4. CASE render' \in {"tab", "device"}
    BY <2>4 DEF Synced
  <2> QED BY <2>2, <2>3, <2>4
<1>2. ASSUME NEW s \in Snaps,
             BackupEnds(s) \/ Delete(s) \/ \E d \in Devices : BackupStarts(s, d)
      PROVE  Synced'
  <2>1. render = "no" /\ UNCHANGED <<tab, key, trees, failed>>
    BY <1>2 DEF BackupStarts, BackupEnds, Delete, Move, Lucky, pane, asks
  <2>2. tab.snap \in server' => tab.snap \in server \/ tab.snap = None
    BY <1>2, StoredIsNew DEF BackupStarts, BackupEnds, Delete
  <2> QED BY <2>1, <2>2, SyncedStays
<1>3. ASSUME NEW f \in Files, UploadJump(f)
      PROVE  Synced'
  <2>1. render = "no" /\ UNCHANGED <<key, server, failed>>
    BY <1>3 DEF UploadJump, UploadAt, Lucky, world
  <2>2. CASE render' \in {"tab", "device"}
    BY <2>2 DEF Synced
  <2>3. CASE UNCHANGED <<tab, trees>>
    BY <2>1, <2>3, SyncedStays
  <2> QED BY <1>3, <2>2, <2>3, RenderedAs DEF UploadJump, SetTab
<1>4. ASSUME NEW f \in Files,
             \/ Upload(f) \/ UploadRead(f) \/ UploadPut(f) \/ UploadFails(f) \/ UploadChunks(f)
      PROVE  Synced'
  <2>1. render = "no" /\ UNCHANGED <<tab, key, trees, failed>>
    BY <1>4 DEF Upload, UploadRead, UploadPut, UploadFails, UploadChunks, UploadAt, Move, Lucky,
                pane, asks
  <2>2. server' = server \/ \E s \in Snaps : \E d, by : Store(s, d, by)
    BY <1>4 DEF Upload, UploadRead, UploadPut, UploadFails, UploadChunks, world
  <2>3. tab.snap \in server' => tab.snap \in server \/ tab.snap = None
    BY <2>2, StoredIsNew
  <2> QED BY <2>1, <2>3, SyncedStays
<1> QED BY <1>1, <1>2, <1>3, <1>4 DEF UploadSteps

LEMMA SyncedSteps ==
  ASSUME Inv, Synced, [Next]_vars
  PROVE  Synced'
<1>1. CASE UNCHANGED vars
  BY <1>1 DEF vars, pane, asks, world, Synced, Unsynced, Here
<1>2. CASE Effects \/ Rerender \/ User \/ \E d \in Devices : RegisterDevice(d)
  BY <1>2, SyncedEffects, SyncedUser
<1>3. CASE Answers
  BY <1>3, SyncedTreeAnswer, SyncedElsewhere
<1>4. CASE \E s \in Snaps : SnapSteps(s)
  BY <1>4, SyncedUser, SyncedElsewhere DEF SnapSteps
<1>5. CASE \E f \in Files : Upload(f) \/ UploadSteps(f)
  BY <1>5, SyncedElsewhere
<1> QED BY <1>1, <1>2, <1>3, <1>4, <1>5 DEF Next

-----------------------------------------------------------------------------
(* The files of a backup.                                                   *)

(* f lost the files of the backup of s. *)
Lost(f, s) == f \in blind /\ upload[f].target = s /\ upload[f].pc \in {"jump", "done"}

LEMMA KeptSteps ==
  ASSUME Inv, BackupKept, ReadsBackup, [Next]_vars
  PROVE  BackupKept' /\ ReadsBackup'
<1>1. /\ TypeOK /\ Stored /\ Uploading
      /\ server \subseteq Snaps /\ blind \subseteq Files
      /\ \A s \in server : push[s] = "done" => "backup" \in content[s] \/ \E f \in Files : Lost(f, s)
  BY DEF Inv, TypeOK, BackupKept, Lost
<1>2. CASE UNCHANGED <<upload, server, content, push, blind>>
  BY <1>2 DEF BackupKept, ReadsBackup
<1>3. ASSUME NEW s \in Snaps,
             BackupEnds(s) \/ Delete(s) \/ \E d \in Devices : BackupStarts(s, d)
      PROVE  BackupKept' /\ ReadsBackup'
  <2>1. UNCHANGED <<upload, blind>>
    BY <1>3 DEF BackupStarts, BackupEnds, Delete
  <2>2. CASE \E d \in Devices : BackupStarts(s, d)
    <3>1. /\ server' = server \cup {s} /\ content' = content /\ push'[s] = "going"
          /\ \A x \in Snaps \ {s} : push'[x] = push[x]
      BY <1>1, <2>2, StoreStores DEF BackupStarts
    <3> QED BY <1>1, <2>1, <3>1 DEF BackupKept, ReadsBackup
  <2>3. CASE BackupEnds(s)
    <3>1. /\ server' = server /\ "backup" \in content'[s]
          /\ \A x \in Snaps \ {s} : push'[x] = push[x] /\ content'[x] = content[x]
      BY <1>1, <2>3 DEF BackupEnds, TypeOK
    <3> QED BY <1>1, <2>1, <3>1 DEF BackupKept, ReadsBackup
  <2>4. CASE Delete(s)
    <3>1. /\ server' = server \ {s} /\ push' = push
          /\ \A x \in Snaps \ {s} : content'[x] = content[x]
      BY <1>1, <2>4 DEF Delete, TypeOK
    <3> QED BY <1>1, <2>1, <3>1 DEF BackupKept, ReadsBackup
  <2> QED BY <1>3, <2>2, <2>3, <2>4
<1>4. ASSUME NEW f \in Files, NEW s \in Snaps \cup {None}, UNCHANGED <<server, content, push>>,
             blind \subseteq blind',
             \A g \in Files \ {f} : upload'[g] = upload[g] /\ (g \in blind' <=> g \in blind),
             upload[f].pc \in {"jump", "done"} =>
               upload'[f].pc \in {"jump", "done"} /\ upload'[f].target = upload[f].target,
             upload'[f].pc = "put" /\ f \notin blind' => "backup" \in upload'[f].read
      PROVE  BackupKept' /\ ReadsBackup'
  <2>1. ReadsBackup'
    BY <1>4 DEF ReadsBackup
  <2>2. \A g \in Files, x \in Snaps : Lost(g, x) => Lost(g, x)'
    BY <1>4 DEF Lost
  <2>3. BackupKept'
    <3> SUFFICES ASSUME NEW x \in server, push[x] = "done"
                 PROVE  "backup" \in content[x] \/ \E g \in Files : Lost(g, x)'
      BY <1>4 DEF BackupKept, Lost
    <3> QED BY <1>1, <2>2
  <2> QED BY <2>1, <2>3
<1>5. ASSUME NEW f \in Files, Upload(f) \/ UploadFails(f) \/ UploadJump(f)
      PROVE  BackupKept' /\ ReadsBackup'
  <2>1. UNCHANGED <<server, content, push, blind>>
    BY <1>5 DEF Upload, UploadFails, UploadJump, world
  <2>2. \A g \in Files \ {f} : upload'[g] = upload[g]
    BY <1>1, <1>5 DEF Upload, UploadFails, UploadJump, TypeOK
  <2>3. /\ upload'[f].pc # "put"
        /\ upload[f].pc \in {"jump", "done"} =>
             upload'[f].pc \in {"jump", "done"} /\ upload'[f].target = upload[f].target
    <3>1. CASE Upload(f)
      BY <1>1, <3>1 DEF Upload, TypeOK
    <3>2. CASE UploadFails(f)
      BY <1>1, <3>2, UploadOver DEF UploadFails, TypeOK
    <3>3. CASE UploadJump(f)
      BY <1>1, <3>3, UploadOver DEF UploadJump, TypeOK
    <3> QED BY <1>5, <3>1, <3>2, <3>3
  <2> QED BY <1>4, <2>1, <2>2, <2>3
<1>6. ASSUME NEW f \in Files, UploadChunks(f)
      PROVE  BackupKept' /\ ReadsBackup'
  <2>1. f \notin blind /\ UNCHANGED <<content, blind>>
    BY <1>1, <1>6 DEF UploadChunks, UploadAt, Uploading
  <2>2. /\ upload'[f].pc # "put"
        /\ \A g \in Files \ {f} : upload'[g] = upload[g]
    BY <1>1, <1>6 DEF UploadChunks, TypeOK, Uploads
  <2>3. \/ UNCHANGED <<server, push>>
        \/ \E s \in Snaps : /\ server' = server \cup {s} /\ push'[s] = "upload"
                            /\ \A x \in Snaps \ {s} : push'[x] = push[x]
    BY <1>1, <1>6 DEF UploadChunks, Store, TypeOK
  <2> QED BY <1>1, <2>1, <2>2, <2>3 DEF BackupKept, ReadsBackup
<1>7. ASSUME NEW f \in Files, UploadRead(f)
      PROVE  BackupKept' /\ ReadsBackup'
  <2>1. PICK files :
          /\ upload' = [upload EXCEPT ![f].pc = "put", ![f].read = files]
          /\ blind' = IF "backup" \in files THEN blind ELSE blind \cup {f}
    BY <1>7 DEF UploadRead
  <2>2. /\ upload'[f].read = files
        /\ \A g \in Files \ {f} : upload'[g] = upload[g]
    BY <1>1, <2>1 DEF TypeOK, Uploads
  <2>3. /\ blind \subseteq blind' /\ (f \notin blind' => "backup" \in files)
        /\ \A g \in Files \ {f} : g \in blind' <=> g \in blind
    BY <2>1
  <2>4. upload[f].pc = "read" /\ UNCHANGED <<server, content, push>>
    BY <1>7 DEF UploadRead, UploadAt, world
  <2> QED BY <1>4, <2>2, <2>3, <2>4
<1>8. ASSUME NEW f \in Files, UploadPut(f)
      PROVE  BackupKept' /\ ReadsBackup'
  <2> PICK s : s = upload[f].target
    OBVIOUS
  <2>1. /\ upload[f].pc = "put" /\ s \in Snaps
        /\ UNCHANGED <<server, push, blind>>
    BY <1>1, <1>8 DEF UploadPut, UploadAt, Uploading
  <2>2. /\ content'[s] = upload[f].read \cup {f}
        /\ \A x \in Snaps \ {s} : content'[x] = content[x]
    BY <1>1, <1>8, <2>1 DEF UploadPut, TypeOK
  <2>3. /\ upload'[f].pc = "jump" /\ upload'[f].target = s
        /\ \A g \in Files \ {f} : upload'[g] = upload[g]
    BY <1>1, <1>8 DEF UploadPut, TypeOK, Uploads
  <2>4. "backup" \in upload[f].read \/ f \in blind
    BY <2>1 DEF ReadsBackup
  <2>5. ReadsBackup'
    BY <2>1, <2>3 DEF ReadsBackup
  <2>6. /\ \A g \in Files, x \in Snaps : Lost(g, x) => Lost(g, x)'
        /\ f \in blind => Lost(f, s)'
    BY <2>1, <2>3 DEF Lost
  <2>7. BackupKept'
    <3> SUFFICES ASSUME NEW x \in server, push[x] = "done"
                 PROVE  "backup" \in content'[x] \/ \E g \in Files : Lost(g, x)'
      BY <2>1 DEF BackupKept, Lost
    <3> QED BY <1>1, <2>2, <2>4, <2>6
  <2> QED BY <2>5, <2>7
<1>9. ASSUME \/ Effects \/ Rerender \/ Answers \/ User \/ \E s \in Snaps : ClickHistory(s)
             \/ \E d \in Devices : RegisterDevice(d)
      PROVE  UNCHANGED <<upload, server, content, push, blind>>
  <2>1. CASE Effects \/ Rerender \/ Answers
    BY <2>1 DEF Effects, Rerender, Answers, DevicesAnswer, ListAnswer, TreeAnswer, Registered,
                world
  <2>2. CASE \/ User \/ \E s \in Snaps : ClickHistory(s)
             \/ \E d \in Devices : RegisterDevice(d)
    BY <2>2 DEF User, Browse, Refresh, ToggleHistory, ShowAllFiles, ShowHistoryView,
                ClickHistory, RegisterDevice, world
  <2> QED BY <1>9, <2>1, <2>2
<1>10. CASE UNCHANGED vars
  BY <1>2, <1>10 DEF vars, world
<1> QED BY <1>2, <1>3, <1>5, <1>6, <1>7, <1>8, <1>9, <1>10 DEF Next, SnapSteps, UploadSteps

-----------------------------------------------------------------------------
(* The theorems.                                                            *)

(* Init and Next keep the inductive invariant: types; the stored snapshots; *)
(* what an upload holds at which step; and per kind of render what the      *)
(* effects have already brought in line.                                    *)
THEOREM Inductive == Spec => []Inv
<1> QED BY InitInv, Steps, PTL DEF Spec

(* Every variable has its type: no tab, request or answer names a directory *)
(* above the root or below the last, and Latest and First are asked of no   *)
(* empty list.                                                              *)
THEOREM TypeCorrect == Spec => []TypeOK
<1>1. Inv => TypeOK
  BY DEF Inv
<1> QED BY <1>1, Inductive, PTL

(* The tab of a pane at rest is of a device of the list and on a snapshot   *)
(* of that device, for all files on the latest: for any number of devices,  *)
(* snapshots, requests, failures and uploads, and any tab to start with.    *)
THEOREM TabIsListed == Spec => []SnapshotListed
<1>1. Inv => SnapshotListed
  <2> SUFFICES ASSUME Inv, Quiet
               PROVE  /\ IF Names = {} THEN tab.dev = None ELSE tab.dev \in Names
                      /\ Filtered(tab) # {} =>
                           /\ tab.snap \in Filtered(tab)
                           /\ tab.view = "all" => tab.snap = Latest(Filtered(tab))
    BY DEF SnapshotListed
  <2>1. ~LostDevice /\ ~Stray /\ ~NotLatest /\ Names \in SUBSET Devices
    BY NamesTyped DEF Inv, Listed, Quiet
  <2>2. IF Names = {} THEN tab.dev = None ELSE tab.dev \in Names
    BY <2>1 DEF LostDevice
  <2>3. ASSUME Filtered(tab) # {}
        PROVE  tab.dev # None
    <3>1. known # {}
      BY <2>3 DEF Filtered
    <3>2. Names # {}
      BY <3>1 DEF Names
    <3> QED BY <2>1, <2>2, <3>2, DevicesAssumption
  <2> QED BY <2>1, <2>2, <2>3 DEF Stray, NotLatest
<1> QED BY <1>1, Inductive, PTL

(* The entries on the screen are those of the tab, or the answer that       *)
(* replaces them is on its way, unless the snapshot of the tab is deleted   *)
(* or the getTree of its directory has failed: in any order of the answers. *)
THEOREM EntriesBelong == Spec => []ShownBelongs
<1>1. Init => Synced
  BY DEF Init, Synced
<1>2. Inv /\ Synced /\ [Next]_vars => Synced'
  BY SyncedSteps
<1>3. Inv /\ Synced => ShownBelongs
  <2> SUFFICES ASSUME Inv, Synced, render = "no", shown # None
               PROVE  /\ tab.view = "snapshot" /\ key = shown
                      /\ \/ shown = Here \/ tab.snap \notin server \/ Here \in failed
                         \/ \E r \in trees : r.dir = Here
    BY DEF ShownBelongs, Quiet
  <2>1. key = shown /\ tab.view = "snapshot" /\ tab.snap # None
    BY DEF Inv, Keyed
  <2> QED BY <2>1 DEF Synced, Unsynced
<1> QED BY <1>1, <1>2, <1>3, Inductive, PTL DEF Spec

(* A finished backup only loses its files to an upload that stored a        *)
(* manifest it had read without them: before the backup was there, or in a  *)
(* GET that failed.  An upload that saw them never drops them.              *)
THEOREM BackupsStay == Spec => []BackupKept
<1>1. Init => BackupKept /\ ReadsBackup
  BY DEF Init, BackupKept, ReadsBackup, NoUpload
<1>2. Inv /\ BackupKept /\ ReadsBackup /\ [Next]_vars => BackupKept' /\ ReadsBackup'
  BY KeptSteps
<1> QED BY <1>1, <1>2, Inductive, PTL DEF Spec
=============================================================================
