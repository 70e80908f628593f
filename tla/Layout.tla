------------------------------- MODULE Layout --------------------------------
(***************************************************************************)
(* The pane tree of a workspace (model/layout.ts and the "add view" grid   *)
(* of App.tsx).                                                            *)
(*                                                                         *)
(* A tree is a function from positions to nodes.  A position is the path   *)
(* from the root: 1 is the child `a` of a split, 2 the child `b`.  A leaf  *)
(* is its id; a split is its direction.  What a pane shows, and the ratio  *)
(* of a split, are left out.                                               *)
(***************************************************************************)
EXTENDS Naturals, FiniteSets, SequencesExt

CONSTANTS
  Ids,     \* ids of leaves
  None,    \* no leaf
  Columns  \* columns of the "add view" grid (5)

ASSUME ColumnsAssumption == Columns \in Nat \ {0}

Dirs == {"row", "col"}
IsSplit(n) == n.dir \in Dirs
SplitNode(dir) == [dir |-> dir, id |-> None]
LeafNode(id)   == [dir |-> "none", id |-> id]
Nodes == {SplitNode(dir) : dir \in Dirs} \cup {LeafNode(id) : id \in Ids}

Leaves(T)  == {p \in DOMAIN T : ~IsSplit(T[p])}
LeafIds(T) == {T[p].id : p \in Leaves(T)}
At(T, id)  == CHOOSE p \in Leaves(T) : T[p] = LeafNode(id)

(* Every split has two children, every leaf none, and no id occurs twice.   *)
IsLayout(T) ==
  /\ T = [p \in DOMAIN T |-> T[p]] /\ \A p \in DOMAIN T : T[p] \in Nodes
  /\ IsFiniteSet(DOMAIN T) /\ DOMAIN T \subseteq Seq({1, 2})
  /\ <<>> \in DOMAIN T
  /\ \A p \in DOMAIN T : \A c \in {1, 2} : IsSplit(T[p]) <=> Append(p, c) \in DOMAIN T
  /\ \A p \in DOMAIN T : p # <<>> => Front(p) \in DOMAIN T
  /\ \A p, q \in Leaves(T) : T[p] = T[q] => p = q

Leaf(id) == [p \in {<<>>} |-> LeafNode(id)]

Below(p, q) == SubSeq(q, Len(p) + 1, Len(q))

(* The subtree at p, and the tree with another subtree there. *)
Sub(T, p) ==
  [q \in {Below(p, x) : x \in {y \in DOMAIN T : IsPrefix(p, y)}} |-> T[p \o q]]

Graft(T, p, S) ==
  [q \in {x \in DOMAIN T : ~IsPrefix(p, x)} \cup {p \o r : r \in DOMAIN S} |->
     IF IsPrefix(p, q) THEN S[Below(p, q)] ELSE T[q]]

Split(dir, A, B) ==
  [q \in {<<>>} \cup {<<1>> \o r : r \in DOMAIN A} \cup {<<2>> \o r : r \in DOMAIN B} |->
     IF q = <<>> THEN SplitNode(dir)
     ELSE IF Head(q) = 1 THEN A[Tail(q)] ELSE B[Tail(q)]]

-----------------------------------------------------------------------------
(* splitLeaf, splitLeafWithLeaf: the new leaf is to the right or below.     *)
SplitLeaf(T, id, dir, new) ==
  LET p == At(T, id) IN Graft(T, p, Split(dir, Sub(T, p), Leaf(new)))

(* Variant: the root is replaced, however deep the leaf was. *)
WithoutBranch(T, id) == Sub(T, <<3 - Head(At(T, id))>>)

(* The sibling takes the place of the parent. *)
Without(T, id) ==
  LET p == At(T, id) IN Graft(T, Front(p), Sub(T, Append(Front(p), 3 - Last(p))))

(* closeLeaf: one pane is kept alive. *)
CloseLeaf(T, id, new) == IF LeafIds(T) = {id} THEN Leaf(new) ELSE Without(T, id)

SwapLeaves(T, a, b) ==
  [T EXCEPT ![At(T, a)] = LeafNode(b), ![At(T, b)] = LeafNode(a)]

(* Variant: the pane is put behind its target whatever the zone. *)
InsertLeafBehind(T, target, zone, id) ==
  Graft(T, At(T, target), Split("col", Leaf(target), Leaf(id)))

(* extractLeaf and insertLeaf are one search each, for the source in the    *)
(* whole tree and for the target in what is left.                           *)
InsertLeaf(T, target, zone, id) ==
  LET p   == At(T, target)
      dir == IF zone \in {"left", "right"} THEN "row" ELSE "col"
  IN Graft(T, p, IF zone \in {"left", "top"} THEN Split(dir, Leaf(id), Leaf(target))
                                             ELSE Split(dir, Leaf(target), Leaf(id)))

MoveLeaf(T, source, target, zone) ==
  IF source = target THEN T
  ELSE IF zone = "center" THEN SwapLeaves(T, source, target)
  ELSE InsertLeaf(Without(T, source), target, zone, source)

-----------------------------------------------------------------------------
(* From left to right and from top to bottom, depth first. *)
Precedes(p, q) ==
  \E i \in DOMAIN p \cap DOMAIN q :
    p[i] < q[i] /\ \A j \in 1..(i - 1) : p[j] = q[j]

(* The elements of a finite set in some order: the first has none before it.*)
Arranged(S, before(_, _)) ==
  [i \in 1..Cardinality(S) |-> CHOOSE x \in S : Cardinality({y \in S : before(y, x)}) = i - 1]

InOrder(T) ==
  LET s == Arranged(Leaves(T), Precedes)
  IN [i \in DOMAIN s |-> T[s[i]].id]

(* gatherColumns: what hangs below the row splits at the top. *)
ColumnRoots(T) ==
  {p \in DOMAIN T : T[p].dir # "row" /\ \A i \in 0..(Len(p) - 1) : T[SubSeq(p, 1, i)].dir = "row"}

ColumnOf(T, p) == CHOOSE c \in ColumnRoots(T) : IsPrefix(c, p)

(* collectColumnLeaves: the row of a leaf in its column. *)
RowOf(T, p) ==
  LET c == ColumnOf(T, p)
  IN Cardinality({q \in Leaves(T) : IsPrefix(c, q) /\ Precedes(q, p)})

(* collectLeavesForAddView: the first row from left to right, the others    *)
(* from right to left.                                                      *)
Reading(T) ==
  LET row == [p \in Leaves(T) |-> RowOf(T, p)]
      before(p, q) ==
        IF row[p] # row[q] THEN row[p] < row[q]
        ELSE IF row[p] = 0 THEN Precedes(p, q) ELSE Precedes(q, p)
      s == Arranged(Leaves(T), before)
  IN [i \in DOMAIN s |-> T[s[i]].id]

(* buildRowLayout and buildColLayout: the first beside all the others.      *)
Beside(dir, parts) ==
  LET from[i \in 1..Len(parts)] ==
        IF i = Len(parts) THEN parts[i] ELSE Split(dir, parts[i], from[i + 1])
  IN from[1]

(* buildAddViewLayout: one row of up to Columns panes; then a grid whose    *)
(* first row is filled from the left and whose others from the right.  The  *)
(* panes of a column, counted from 0, come in the order of their rows.      *)
Col(k) == IF k <= Columns THEN k - 1 ELSE Columns - 1 - ((k - 1) % Columns)

Column(s, c) ==
  LET cells == Arranged({k \in DOMAIN s : Col(k) = c}, <)
  IN [r \in DOMAIN cells |-> Leaf(s[cells[r]])]

Grid(s) ==
  LET width == IF Len(s) < Columns THEN Len(s) ELSE Columns
  IN Beside("row", [c \in 1..width |-> Beside("col", Column(s, c - 1))])
=============================================================================
