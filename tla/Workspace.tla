----------------------------- MODULE Workspace ------------------------------
(***************************************************************************)
(* The workspaces of the desktop app: what the user does to the pane tree  *)
(* of the workspace shown, and the panes that answer late.                 *)
(*                                                                         *)
(* React renders after every event, so a handler of the user works with    *)
(* the trees as they are.  A pane that awaits something (a dialog, a       *)
(* request) and then calls onTabChange works with the workspace of the     *)
(* render it began in: WorkspaceView.updateRoot writes back that whole     *)
(* tree.                                                                   *)
(***************************************************************************)
EXTENDS Layout

CONSTANTS Spaces  \* ids of workspaces

VARIABLES
  tabs,    \* the workspaces in order, [id, root]; saved after each change
  active,  \* activeTabId
  pending  \* the workspace captured by a pane before an await, or None

vars == <<tabs, active, pending>>

Zones == {"top", "center", "bottom"}  \* those of LeafPane

SpaceIds == {tabs[i].id : i \in DOMAIN tabs}
SpaceAt(w) == CHOOSE i \in DOMAIN tabs : tabs[i].id = w
Root     == tabs[SpaceAt(active)].root

Trees  == {tabs[i].root : i \in DOMAIN tabs} \cup
          (IF pending = None THEN {} ELSE {pending.root})
Panes  == UNION {LeafIds(tabs[i].root) : i \in DOMAIN tabs}
Unused == Ids \ UNION {LeafIds(T) : T \in Trees}

TypeOK ==
  /\ tabs # <<>> /\ \A i \in DOMAIN tabs : tabs[i].id \in Spaces /\ IsLayout(tabs[i].root)
  /\ active \in SpaceIds
  /\ pending # None => pending.id \in Spaces /\ IsLayout(pending.root)

Init ==
  /\ \E w \in Spaces, id \in Ids : tabs = <<[id |-> w, root |-> Leaf(id)]>> /\ active = w
  /\ pending = None

-----------------------------------------------------------------------------
(* What changes the tree of the workspace shown.                            *)

Update(root) ==
  /\ tabs' = [tabs EXCEPT ![SpaceAt(active)].root = root]
  /\ UNCHANGED <<active, pending>>

SplitPane(id) ==
  \E dir \in Dirs, new \in Unused : Update(SplitLeaf(Root, id, dir, new))

ClosePane(id) == \E new \in Unused : Update(CloseLeaf(Root, id, new))

Dock(source, target, zone) ==
  source # target /\ Update(MoveLeaf(Root, source, target, zone))
Drop(source, target) == \E zone \in Zones : Dock(source, target, zone)

(* addView and addTerminalView rebuild the tree as a grid. *)
AddView(new) == Update(Grid(Append(Reading(Root), new)))

(* openTerminalInNewPane: next to the first pane. *)
OpenTerminal ==
  \E new \in Unused : Update(SplitLeaf(Root, Head(InOrder(Root)), "row", new))

-----------------------------------------------------------------------------
(* The workspaces.                                                          *)

SwitchTo(w) == active' = w /\ UNCHANGED <<tabs, pending>>

(* goToNextWorkspace, in both directions. *)
Cycle(step) ==
  /\ Len(tabs) > 1
  /\ active' = tabs[((SpaceAt(active) - 1 + step + Len(tabs)) % Len(tabs)) + 1].id
  /\ UNCHANGED <<tabs, pending>>

NewWorkspace ==
  /\ \E w \in Spaces \ SpaceIds, id \in Unused :
       /\ pending # None => pending.id # w
       /\ tabs' = Append(tabs, [id |-> w, root |-> Leaf(id)])
       /\ active' = w
  /\ UNCHANGED pending

(* Variant: the workspace shown is closed and stays the active one. *)
CloseWorkspaceActive(w) ==
  /\ Len(tabs) > 1
  /\ tabs' = RemoveAt(tabs, SpaceAt(w))
  /\ UNCHANGED <<active, pending>>

CloseWorkspace(w) ==
  /\ Len(tabs) > 1
  /\ tabs' = RemoveAt(tabs, SpaceAt(w))
  /\ active' = IF active = w THEN Head(tabs').id ELSE active
  /\ UNCHANGED pending

-----------------------------------------------------------------------------
(* A pane of the workspace shown starts to wait.                            *)
Await ==
  /\ pending = None
  /\ pending' = tabs[SpaceAt(active)]
  /\ UNCHANGED <<tabs, active>>

(* Variant: the answer is written into the workspace shown by now. *)
AnswerHere ==
  /\ pending # None
  /\ tabs' = [tabs EXCEPT ![SpaceAt(active)].root = pending.root]
  /\ pending' = None
  /\ UNCHANGED active

(* updateLeafTabState changes the pane in the tree captured before; the     *)
(* workspace, if it is still there, gets that tree.                         *)
Answer ==
  /\ pending # None
  /\ tabs' = [i \in DOMAIN tabs |-> IF tabs[i].id = pending.id THEN pending ELSE tabs[i]]
  /\ pending' = None
  /\ UNCHANGED active

(* The app is closed and started again, with what it saved. *)
Restart == pending # None /\ pending' = None /\ UNCHANGED <<tabs, active>>

-----------------------------------------------------------------------------
PaneSteps(id) == SplitPane(id) \/ ClosePane(id) \/ \E t \in LeafIds(Root) : Drop(id, t)

SpaceSteps(w) == SwitchTo(w) \/ CloseWorkspace(w)

Next ==
  \/ \E id \in LeafIds(Root) : PaneSteps(id)
  \/ \E new \in Unused : AddView(new)
  \/ \E w \in SpaceIds : SpaceSteps(w)
  \/ \E step \in {1, -1} : Cycle(step)
  \/ OpenTerminal \/ NewWorkspace \/ Await \/ Answer \/ Restart

Spec == Init /\ [][Next]_vars

-----------------------------------------------------------------------------
(* A pane is in one place only: splits, docking, grids and late answers     *)
(* never show a pane twice, in one workspace or in two.                     *)
OnePlace ==
  \A i, j \in DOMAIN tabs :
    i # j => LeafIds(tabs[i].root) \cap LeafIds(tabs[j].root) = {}

(* Panes do not get lost: what is no longer there was closed, alone or with *)
(* its workspace, or its workspace was changed while a pane waited, and the *)
(* late answer brings the tree of before.                                   *)
Overtaken ==
  /\ pending # None
  /\ pending.id \in SpaceIds /\ tabs[SpaceAt(pending.id)].root # pending.root

PanesStay ==
  [][LET lost == Panes \ Panes' IN
     lost # {} =>
       \/ Len(tabs') < Len(tabs)
       \/ Cardinality(lost) = 1 /\ LeafIds(Root) \subseteq lost \cup Panes'
       \/ Overtaken /\ pending' = None]_vars

(* Docking a pane at another leaves all others in their order and puts it   *)
(* next to its target, in every tree that can be on the screen.             *)
Before(s, x, y)   == \E i, j \in DOMAIN s : i < j /\ s[i] = x /\ s[j] = y
IsNextTo(s, a, b) == \E i \in 1..(Len(s) - 1) : s[i] = a /\ s[i + 1] = b
DockingMovesOne ==
  \A a, b \in LeafIds(Root), zone \in Zones \ {"center"} :
    a # b =>
      LET old == InOrder(Root)
          new == InOrder(MoveLeaf(Root, a, b, zone))
      IN /\ \A x, y \in Ids \ {a} : Before(new, x, y) <=> Before(old, x, y)
         /\ IF zone = "top" THEN IsNextTo(new, a, b) ELSE IsNextTo(new, b, a)

(* Adding a view keeps the panes in the order in which they are read, the   *)
(* new one last, whatever splits and docking made of the tree.              *)
AddViewKeepsOrder ==
  \A new \in Unused :
    LET order == Append(Reading(Root), new) IN Reading(Grid(order)) = order

(* Rearranging disturbs nobody else: the panes that are not docked or added *)
(* keep their order.                                                        *)
OrderKept == DockingMovesOne /\ AddViewKeepsOrder
=============================================================================
