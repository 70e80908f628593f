--------------------------- MODULE PaneTerminals ---------------------------
(***************************************************************************)
(* Browser panes and terminal panes in one layout: terminals are opened    *)
(* from a folder or a row of a browser pane or from a saved preset         *)
(* (App.tsx, LeafPane.tsx, terminalPresets.ts).  Opening one splits the    *)
(* first pane of the workspace, which moves that pane to a new place.      *)
(***************************************************************************)
EXTENDS FilePanes, TerminalPanes

CONSTANT First  \* the first pane of the workspace

ASSUME FirstAssumption == First \in Panes

VARIABLE preset  \* the terminal preset in the settings

vars == <<fileVars, terminalVars, preset>>

Init == FileInit /\ TerminalInit /\ preset = None

(* The folder of the pane, from its toolbar; the title bar of an SFTP pane  *)
(* has a button that `loading` does not disable.                            *)
FolderButton(p, folder) ==
  /\ p \in Sftps \/ ~loading[p]
  /\ tab[p] # None /\ folder = tab[p]

(* A row: a directory itself, else its directory. *)
RowButton(p, folder) ==
  /\ ~loading[p]
  /\ shown[p] # None /\ tab[p] # None
  /\ folder \in {Target(p), Parent(Target(p))}

OpenTerminal(p, t) == \E folder \in Folder :
  /\ FolderButton(p, folder) \/ RowButton(p, folder)
  /\ Moving
  /\ Mount(t, folder)
  /\ Remounted(First)
  /\ UNCHANGED <<tab, preset>>

OpenPreset(t) ==
  /\ preset # None
  /\ Moving
  /\ Mount(t, preset)
  /\ Remounted(First)
  /\ UNCHANGED <<tab, preset>>

SavePreset ==
  /\ \/ \E p \in Panes : tab[p] # None /\ preset' = tab[p]
     \/ \E t \in Terminals : Open(t) /\ preset' = tabOf[t]
  /\ Moving
  /\ UNCHANGED <<tab, shown, loading, calls, dialogs, crossed, outrun, terminalVars>>

FilesAside == UNCHANGED <<tab, shown, loading, calls, dialogs, crossed, outrun, preset>>

(* The Reconnect button, a tab of another workspace in this place, a move   *)
(* in the layout, closing the pane.                                         *)
TerminalUser(t) ==
  /\ \/ Reconnect(t, tabOf[t])
     \/ \E b \in Bases : Reconnect(t, Top(b))
     \/ Relocate(t)
     \/ Unmount(t)
  /\ Moving
  /\ FilesAside

Next ==
  \/ FileStep /\ UNCHANGED <<terminalVars, preset>>
  \/ TerminalStep /\ FilesAside /\ UNCHANGED moves
  \/ \E t \in Terminals :
       \/ \E p \in Panes : OpenTerminal(p, t)
       \/ OpenPreset(t) \/ TerminalUser(t)
  \/ SavePreset

Spec == Init /\ [][Next]_vars

TypeOK ==
  /\ FileTypeOK /\ TerminalTypeOK
  /\ dialogs \in [Panes -> Nat]
  /\ preset \in Folder \cup {None}
=============================================================================
