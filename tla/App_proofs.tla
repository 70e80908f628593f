----------------------------- MODULE App_proofs -----------------------------
(***************************************************************************)
(* Proofs about what App.tsx keeps: its workspaces, for any number of      *)
(* panes and workspaces, and its transfer queue, for any number of jobs,   *)
(* runs and queue panes.  The two specifications share no variable, and    *)
(* each has a part of its own here:                                        *)
(*   Spec       module Workspace, the pane trees of the workspaces         *)
(*   QueueSpec  module TransferQueue, the jobs and who runs them           *)
(***************************************************************************)
EXTENDS Workspace, TransferQueue, LeastNumber, FiniteSetTheorems, TLAPS

(***************************************************************************)
(* The workspaces.  Every operation on pane trees maps layouts to layouts  *)
(* and says which panes are in the result; hence no pane is ever in two    *)
(* places, and none is lost but in the ways PanesStay names.  It also says *)
(* where each pane is in the result, as a path; hence docking and adding a *)
(* view leave the order of the others.                                     *)
(***************************************************************************)

-----------------------------------------------------------------------------
(* Positions.                                                               *)

Path == Seq({1, 2})
Other(c) == 3 - c

LEMMA Joined ==
  ASSUME NEW p \in Path, NEW q \in Path
  PROVE  /\ p \o q \in Path
         /\ Len(p \o q) = Len(p) + Len(q) /\ Len(p) \in Nat /\ Len(q) \in Nat
         /\ \A i \in 1..Len(p) : (p \o q)[i] = p[i]
         /\ \A i \in 1..Len(q) : (p \o q)[Len(p) + i] = q[i]
BY DEF Path

LEMMA Joint ==
  ASSUME NEW p \in Path, NEW q \in Path
  PROVE  \E r \in Path :
           /\ r = p \o q /\ Len(r) = Len(p) + Len(q)
           /\ \A i \in 1..Len(p) : r[i] = p[i]
           /\ \A i \in 1..Len(q) : r[Len(p) + i] = q[i]
<1>1. p \o q \in Path
  BY Joined
<1> QED BY <1>1, Joined

LEMMA Same ==
  ASSUME NEW p \in Path, NEW q \in Path, Len(p) = Len(q), \A i \in 1..Len(p) : p[i] = q[i]
  PROVE  p = q
BY DEF Path

LEMMA AtRoot ==
  /\ <<>> \in Path
  /\ \A p \in Path : p \o <<>> = p /\ <<>> \o p = p /\ IsPrefix(<<>>, p)
<1>1. <<>> \in Path /\ Len(<<>>) = 0
  BY DEF Path
<1>2. ASSUME NEW p \in Path PROVE p \o <<>> = p /\ <<>> \o p = p /\ IsPrefix(<<>>, p)
  <2>1. p \o <<>> = p
    BY <1>1, Joined, Same
  <2>2. <<>> \o p = p
    BY <1>1 DEF Path
  <2>3. IsPrefix(<<>>, p)
    BY DEF IsPrefix, Path
  <2> QED BY <2>1, <2>2, <2>3
<1> QED BY <1>1, <1>2

(* The children of a position.                                              *)
LEMMA Children ==
  ASSUME NEW p \in Path, NEW c \in {1, 2}
  PROVE  /\ Append(p, c) \in Path /\ Append(p, c) # <<>>
         /\ Front(Append(p, c)) = p /\ Last(Append(p, c)) = c
         /\ Append(p, c) = p \o <<c>> /\ <<c>> \in Path
         /\ Len(Append(p, c)) = Len(p) + 1
BY DEF Path, Front, Last

LEMMA Parents ==
  ASSUME NEW p \in Path, p # <<>>
  PROVE  /\ Front(p) \in Path /\ Last(p) \in {1, 2} /\ p = Append(Front(p), Last(p))
         /\ Len(Front(p)) = Len(p) - 1 /\ Len(p) >= 1
<1>1. Len(p) \in Nat /\ Len(p) >= 1 /\ \A i \in 1..Len(p) : p[i] \in {1, 2}
  BY DEF Path
<1>2. /\ Front(p) \in Path /\ Len(Front(p)) = Len(p) - 1
      /\ \A i \in 1..(Len(p) - 1) : Front(p)[i] = p[i]
  BY <1>1 DEF Path, Front
<1>3. Last(p) = p[Len(p)] /\ Last(p) \in {1, 2}
  BY <1>1 DEF Last
<1>4. /\ Append(Front(p), Last(p)) \in Path /\ Len(Append(Front(p), Last(p))) = Len(p)
      /\ Append(Front(p), Last(p))[Len(p)] = Last(p)
      /\ \A i \in 1..(Len(p) - 1) : Append(Front(p), Last(p))[i] = Front(p)[i]
  BY <1>1, <1>2, <1>3 DEF Path
<1>5. \A i \in 1..Len(p) : Append(Front(p), Last(p))[i] = p[i]
  BY <1>1, <1>2, <1>3, <1>4
<1> QED BY <1>1, <1>2, <1>3, <1>4, <1>5, Same

LEMMA Associates ==
  ASSUME NEW p \in Path, NEW q \in Path, NEW r \in Path
  PROVE  (p \o q) \o r = p \o (q \o r)
<1>1. PICK pq \in Path :
        /\ pq = p \o q /\ Len(pq) = Len(p) + Len(q)
        /\ \A i \in 1..Len(p) : pq[i] = p[i]
        /\ \A i \in 1..Len(q) : pq[Len(p) + i] = q[i]
  BY Joint
<1>2. PICK qr \in Path :
        /\ qr = q \o r /\ Len(qr) = Len(q) + Len(r)
        /\ \A i \in 1..Len(q) : qr[i] = q[i]
        /\ \A i \in 1..Len(r) : qr[Len(q) + i] = r[i]
  BY Joint
<1>3. PICK a \in Path :
        /\ a = pq \o r /\ Len(a) = Len(pq) + Len(r)
        /\ \A i \in 1..Len(pq) : a[i] = pq[i]
        /\ \A i \in 1..Len(r) : a[Len(pq) + i] = r[i]
  BY Joint
<1>4. PICK b \in Path :
        /\ b = p \o qr /\ Len(b) = Len(p) + Len(qr)
        /\ \A i \in 1..Len(p) : b[i] = p[i]
        /\ \A i \in 1..Len(qr) : b[Len(p) + i] = qr[i]
  BY Joint
<1>5. Len(p) \in Nat /\ Len(q) \in Nat /\ Len(r) \in Nat
  BY Joined
<1>6. ASSUME NEW i \in 1..Len(a) PROVE a[i] = b[i]
  <2>1. CASE i <= Len(p)
    <3>1. i \in 1..Len(p) /\ i \in 1..Len(pq)
      BY <1>1, <1>5, <2>1
    <3> QED BY <1>1, <1>3, <1>4, <3>1
  <2>2. CASE Len(p) < i /\ i <= Len(p) + Len(q)
    <3>1. PICK j \in 1..Len(q) : i = Len(p) + j
      <4>1. i - Len(p) \in 1..Len(q) /\ i \in Int
        BY <1>1, <1>3, <1>5, <2>2
      <4>2. i = Len(p) + (i - Len(p))
        BY <1>5, <4>1
      <4> QED BY <4>1, <4>2
    <3>2. i \in 1..Len(pq) /\ j \in 1..Len(qr)
      BY <1>1, <1>2, <1>5, <2>2, <3>1
    <3>3. a[i] = pq[Len(p) + j] /\ pq[Len(p) + j] = q[j]
      BY <1>1, <1>3, <3>1, <3>2
    <3>4. b[i] = qr[j] /\ qr[j] = q[j]
      BY <1>2, <1>4, <3>1, <3>2
    <3> QED BY <3>3, <3>4
  <2>3. CASE Len(p) + Len(q) < i
    <3>1. PICK j \in 1..Len(r) : i = Len(pq) + j
      <4>1. i - Len(pq) \in 1..Len(r)
        BY <1>1, <1>3, <1>5, <2>3
      <4>2. i = Len(pq) + (i - Len(pq))
        BY <1>1, <1>3, <1>5
      <4> QED BY <4>1, <4>2
    <3>2. Len(q) + j \in 1..Len(qr) /\ i = Len(p) + (Len(q) + j)
      BY <1>1, <1>2, <1>5, <3>1
    <3>3. b[i] = qr[Len(q) + j] /\ qr[Len(q) + j] = r[j]
      BY <1>2, <1>4, <3>2
    <3>4. a[i] = r[j]
      BY <1>3, <3>1
    <3> QED BY <3>3, <3>4
  <2> QED BY <1>1, <1>3, <1>5, <2>1, <2>2, <2>3
<1>7. Len(a) = Len(b)
  BY <1>1, <1>2, <1>3, <1>4, <1>5
<1>8. a = b
  BY <1>6, <1>7, Same
<1> QED BY <1>1, <1>2, <1>3, <1>4, <1>8

LEMMA AppendsBelow ==
  ASSUME NEW p \in Path, NEW q \in Path, NEW c \in {1, 2}
  PROVE  Append(p \o q, c) = p \o Append(q, c)
<1>1. PICK a \in Path : a = <<c>> /\ Append(q, c) = q \o a
  BY Children
<1>2. PICK pq \in Path : pq = p \o q
  BY Joined
<1>3. Append(pq, c) = pq \o a
  <2>1. Append(pq, c) = pq \o <<c>>
    BY Children
  <2> QED BY <1>1, <2>1
<1>4. (p \o q) \o a = p \o (q \o a)
  BY Associates
<1> QED BY <1>1, <1>2, <1>3, <1>4

LEMMA FrontsBelow ==
  ASSUME NEW p \in Path, NEW q \in Path, q # <<>>
  PROVE  p \o q # <<>> /\ Front(p \o q) = p \o Front(q)
<1>1. Front(q) \in Path /\ Last(q) \in {1, 2} /\ q = Append(Front(q), Last(q))
  BY Parents
<1>2. p \o q = Append(p \o Front(q), Last(q))
  <2>1. PICK f \in Path, c \in {1, 2} : f = Front(q) /\ c = Last(q)
    BY <1>1
  <2>2. Append(p \o f, c) = p \o Append(f, c)
    BY AppendsBelow
  <2> QED BY <1>1, <2>1, <2>2
<1>3. p \o Front(q) \in Path
  BY <1>1, Joined
<1>4. Front(Append(p \o Front(q), Last(q))) = p \o Front(q) /\ Append(p \o Front(q), Last(q)) # <<>>
  BY <1>1, <1>3, Children
<1> QED BY <1>2, <1>4

(* What is below a position.                                                *)
LEMMA BelowIt ==
  ASSUME NEW p \in Path, NEW q \in Path
  PROVE  IsPrefix(p, p \o q) /\ Below(p, p \o q) = q
BY DEF Path, IsPrefix, Below

LEMMA Above ==
  ASSUME NEW p \in Path, NEW q \in Path, IsPrefix(p, q)
  PROVE  Below(p, q) \in Path /\ q = p \o Below(p, q)
BY DEF Path, IsPrefix, Below

LEMMA Cancels ==
  ASSUME NEW p \in Path, NEW q \in Path, NEW r \in Path, p \o q = p \o r
  PROVE  q = r
<1>1. Below(p, p \o q) = q
  BY BelowIt
<1>2. Below(p, p \o r) = r
  BY BelowIt
<1> QED BY <1>1, <1>2

(* A child is below a position if its parent is, or if it is that position. *)
LEMMA PrefixOfChild ==
  ASSUME NEW p \in Path, NEW q \in Path, NEW c \in {1, 2}
  PROVE  IsPrefix(p, Append(q, c)) <=> IsPrefix(p, q) \/ p = Append(q, c)
<1>1. Append(q, c) \in Path
  BY Children
<1>2. ASSUME IsPrefix(p, Append(q, c)), p # Append(q, c) PROVE IsPrefix(p, q)
  <2> DEFINE r == Below(p, Append(q, c))
  <2>1. Append(q, c) = p \o r /\ r \in Path
    BY <1>1, <1>2, Above
  <2> HIDE DEF r
  <2>2. r # <<>>
    BY <1>2, <2>1, AtRoot
  <2>3. Front(Append(q, c)) = p \o Front(r) /\ Front(r) \in Path
    BY <2>1, <2>2, FrontsBelow, Parents
  <2>4. q = p \o Front(r)
    BY <2>3, Children
  <2> QED BY <2>3, <2>4, BelowIt
<1>3. ASSUME IsPrefix(p, q) PROVE IsPrefix(p, Append(q, c))
  <2> DEFINE r == Below(p, q)
  <2>1. q = p \o r /\ r \in Path
    BY <1>3, Above
  <2> HIDE DEF r
  <2>2. Append(p \o r, c) = p \o Append(r, c)
    BY <2>1, AppendsBelow
  <2>3. Append(r, c) \in Path
    BY <2>1, Children
  <2> QED BY <2>1, <2>2, <2>3, BelowIt
<1>4. IsPrefix(p, p)
  BY BelowIt, AtRoot
<1> QED BY <1>2, <1>3, <1>4

(* Two branches of a split are apart.                                       *)
LEMMA Branches ==
  ASSUME NEW q \in Path, NEW c \in {1, 2}
  PROVE  /\ <<c>> \o q \in Path /\ <<c>> \o q # <<>>
         /\ Head(<<c>> \o q) = c /\ Tail(<<c>> \o q) = q
<1>1. <<c>> \in Path /\ Len(<<c>>) = 1 /\ <<c>>[1] = c
  BY DEF Path
<1>2. <<c>> \o q \in Path /\ Len(<<c>> \o q) = 1 + Len(q) /\ Len(q) \in Nat
  BY <1>1, Joined
<1>3. (<<c>> \o q)[1] = c /\ \A i \in 1..Len(q) : (<<c>> \o q)[1 + i] = q[i]
  BY <1>1, Joined
<1>4. <<c>> \o q # <<>> /\ Head(<<c>> \o q) = c
  BY <1>2, <1>3 DEF Path
<1>5. Tail(<<c>> \o q) \in Path /\ Len(Tail(<<c>> \o q)) = Len(q)
  BY <1>2, <1>4 DEF Path
<1>6. \A i \in 1..Len(q) : Tail(<<c>> \o q)[i] = q[i]
  BY <1>2, <1>3, <1>4 DEF Path
<1> QED BY <1>2, <1>4, <1>5, <1>6, Same

LEMMA Apart ==
  ASSUME NEW p \in Path, NEW c \in {1, 2}, NEW d \in {1, 2}, c # d
  PROVE  \A q \in Path : ~(IsPrefix(Append(p, c), q) /\ IsPrefix(Append(p, d), q))
BY DEF Path, IsPrefix
LEMMA SameEnds ==
  ASSUME NEW p \in Path, NEW q \in Path, p # <<>>, q # <<>>, Head(p) = Head(q), Tail(p) = Tail(q)
  PROVE  p = q
<1>1. /\ Len(p) \in Nat \ {0} /\ p[1] = Head(p) /\ Len(Tail(p)) = Len(p) - 1
      /\ \A i \in 1..(Len(p) - 1) : Tail(p)[i] = p[i + 1]
  BY DEF Path
<1>2. /\ Len(q) \in Nat \ {0} /\ q[1] = Head(q) /\ Len(Tail(q)) = Len(q) - 1
      /\ \A i \in 1..(Len(q) - 1) : Tail(q)[i] = q[i + 1]
  BY DEF Path
<1>3. Len(p) = Len(q)
  <2>1. Len(Tail(p)) = Len(Tail(q))
    OBVIOUS
  <2>2. Len(p) - 1 = Len(q) - 1 /\ Len(p) \in Nat /\ Len(q) \in Nat
    BY <1>1, <1>2, <2>1
  <2> QED BY <2>2
<1>4. ASSUME NEW i \in 1..Len(p) PROVE p[i] = q[i]
  <2>1. CASE i = 1
    BY <1>1, <1>2, <2>1
  <2>2. CASE i # 1
    <3>1. i - 1 \in 1..(Len(p) - 1) /\ i = (i - 1) + 1
      BY <1>1, <2>2
    <3>2. p[i] = Tail(p)[i - 1] /\ q[i] = Tail(q)[i - 1]
      BY <1>1, <1>2, <1>3, <3>1
    <3> QED BY <3>2
  <2> QED BY <2>1, <2>2
<1> QED BY <1>3, <1>4, Same

(* What is strictly below a position is below one of its children.          *)
LEMMA BelowChild ==
  ASSUME NEW p \in Path, NEW q \in Path, IsPrefix(p, q), p # q
  PROVE  \E c \in {1, 2} : IsPrefix(Append(p, c), q)
<1>1. PICK r \in Path : q = p \o r
  BY Above
<1>2. r # <<>>
  BY <1>1, AtRoot
<1>3. PICK c \in {1, 2}, s \in Path : r = <<c>> \o s
  <2>1. Head(r) \in {1, 2} /\ Tail(r) \in Path
    BY <1>2 DEF Path
  <2>2. PICK u \in Path : u = <<Head(r)>> \o Tail(r) /\ u # <<>> /\ Head(u) = Head(r) /\ Tail(u) = Tail(r)
    BY <2>1, Branches
  <2>3. u = r
    BY <1>2, <2>2, SameEnds
  <2> QED BY <2>1, <2>2, <2>3
<1>4. PICK a \in Path : a = <<c>> /\ Append(p, c) = p \o a
  BY Children
<1>5. q = (p \o a) \o s
  <2>1. q = p \o (a \o s)
    BY <1>1, <1>3, <1>4
  <2>2. (p \o a) \o s = p \o (a \o s)
    BY Associates
  <2> QED BY <2>1, <2>2
<1>6. Append(p, c) \in Path
  BY Children
<1>7. IsPrefix(Append(p, c), q)
  BY <1>4, <1>5, <1>6, BelowIt
<1> QED BY <1>7

-----------------------------------------------------------------------------
(* Trees.                                                                   *)

LEMMA FiniteImage ==
  ASSUME NEW S, IsFiniteSet(S), NEW f
  PROVE  IsFiniteSet({f[x] : x \in S})
<1> DEFINE g == [x \in S |-> f[x]]
           V == {f[x] : x \in S}
<1>1. g \in Surjection(S, V)
  BY DEF Surjection
<1> QED BY <1>1, FS_Surjection

LEMMA NodeKinds ==
  /\ \A dir \in Dirs : IsSplit(SplitNode(dir)) /\ SplitNode(dir) \in Nodes
  /\ \A id : ~IsSplit(LeafNode(id)) /\ LeafNode(id).id = id
  /\ \A id \in Ids : LeafNode(id) \in Nodes
  /\ \A n \in Nodes : ~IsSplit(n) => n.id \in Ids /\ n = LeafNode(n.id)
<1>1. \A dir \in Dirs : IsSplit(SplitNode(dir)) /\ SplitNode(dir) \in Nodes
  BY DEF Nodes, SplitNode, IsSplit
<1>2. \A id : ~IsSplit(LeafNode(id)) /\ LeafNode(id).id = id
  BY DEF Dirs, LeafNode, IsSplit
<1>3. \A id \in Ids : LeafNode(id) \in Nodes
  BY DEF Nodes
<1>4. ASSUME NEW n \in Nodes, ~IsSplit(n) PROVE n.id \in Ids /\ n = LeafNode(n.id)
  <2>1. PICK id \in Ids : n = LeafNode(id)
    BY <1>1, <1>4 DEF Nodes
  <2> QED BY <1>2, <2>1
<1> QED BY <1>1, <1>2, <1>3, <1>4

LEMMA LeafOf ==
  ASSUME NEW T, IsLayout(T), NEW p \in Leaves(T)
  PROVE  p \in Path /\ p \in DOMAIN T /\ T[p].id \in Ids /\ T[p] = LeafNode(T[p].id)
BY NodeKinds DEF IsLayout, Leaves, Path

(* The leaf of an id. *)
LEMMA AtIt ==
  ASSUME NEW T, IsLayout(T), NEW id \in LeafIds(T)
  PROVE  /\ At(T, id) \in Leaves(T) /\ T[At(T, id)] = LeafNode(id) /\ id \in Ids
         /\ \A p \in Leaves(T) : T[p].id = id => p = At(T, id)
<1>1. PICK p \in Leaves(T) : T[p].id = id
  BY DEF LeafIds
<1>2. T[p] = LeafNode(id) /\ id \in Ids
  BY <1>1, LeafOf
<1>3. At(T, id) \in Leaves(T) /\ T[At(T, id)] = LeafNode(id)
  BY <1>2 DEF At
<1>4. ASSUME NEW q \in Leaves(T), T[q].id = id PROVE q = At(T, id)
  <2>1. T[q] = LeafNode(id)
    BY <1>4, LeafOf
  <2> QED BY <1>3, <2>1 DEF IsLayout
<1> QED BY <1>2, <1>3, <1>4

(* A tree has what is above its nodes. *)
LEMMA Closed ==
  ASSUME NEW T, IsLayout(T), NEW p \in Path, NEW q \in DOMAIN T, IsPrefix(p, q)
  PROVE  p \in DOMAIN T
<1> DEFINE far == {n \in Nat : \E r \in Path : p \o r \in DOMAIN T /\ Len(r) = n}
<1>1. far # {}
  <2>1. q \in Path
    BY DEF IsLayout, Path
  <2>2. Below(p, q) \in Path /\ q = p \o Below(p, q)
    BY <2>1, Above
  <2>3. Len(Below(p, q)) \in Nat
    BY <2>2 DEF Path
  <2> QED BY <2>2, <2>3
<1>2. PICK n \in far : \A m \in far : n <= m
  BY <1>1, NatMin
<1>3. PICK r \in Path : p \o r \in DOMAIN T /\ Len(r) = n
  OBVIOUS
<1>4. ASSUME r # <<>> PROVE FALSE
  <2>1. Front(p \o r) = p \o Front(r) /\ p \o r # <<>>
    BY <1>4, FrontsBelow
  <2>2. Front(r) \in Path /\ Len(Front(r)) = n - 1 /\ Len(r) >= 1
    BY <1>3, <1>4, Parents
  <2>3. p \o Front(r) \in DOMAIN T
    BY <1>3, <2>1 DEF IsLayout
  <2>4. n - 1 \in far
    BY <1>3, <2>2, <2>3
  <2> QED BY <1>2, <2>4
<1> QED BY <1>3, <1>4, AtRoot

(* A tree has leaves: the longest positions. *)
LEMMA HasLeaf ==
  ASSUME NEW T, IsLayout(T)
  PROVE  Leaves(T) # {} /\ LeafIds(T) # {}
<1> DEFINE len == [p \in DOMAIN T |-> Len(p)]
           lens == {len[p] : p \in DOMAIN T}
<1>1. IsFiniteSet(lens)
  <2>1. IsFiniteSet(DOMAIN T)
    BY DEF IsLayout
  <2> HIDE DEF len
  <2> QED BY <2>1, FiniteImage
<1>2. \A p \in DOMAIN T : p \in Path /\ len[p] = Len(p) /\ Len(p) \in Nat
  BY DEF IsLayout, Path
<1>3. lens \subseteq Nat /\ lens # {}
  BY <1>2 DEF IsLayout
<1>4. PICK n \in lens : \A m \in lens : m <= n
  <2> HIDE DEF lens
  <2> QED BY <1>1, <1>3, NatMax
<1>5. PICK p \in DOMAIN T : Len(p) = n
  BY <1>2
<1>6. ASSUME IsSplit(T[p]) PROVE FALSE
  <2>1. Append(p, 1) \in DOMAIN T
    BY <1>6 DEF IsLayout
  <2>2. Len(Append(p, 1)) = Len(p) + 1
    BY <1>2, Children
  <2>3. Len(Append(p, 1)) \in lens /\ Len(p) \in Nat
    BY <1>2, <2>1
  <2> QED BY <1>4, <1>5, <2>2, <2>3
<1> QED BY <1>6 DEF Leaves, LeafIds

-----------------------------------------------------------------------------
(* What the operations on trees are made of.                                *)

(* The panes in a subtree, and those outside.                               *)
Under(T, p)  == {T[x].id : x \in {y \in Leaves(T) : IsPrefix(p, y)}}
Beyond(T, p) == {T[x].id : x \in {y \in Leaves(T) : ~IsPrefix(p, y)}}

LEMMA Positions ==
  ASSUME NEW T, IsLayout(T)
  PROVE  /\ DOMAIN T \subseteq Path /\ IsFiniteSet(DOMAIN T)
         /\ <<>> \in DOMAIN T
         /\ \A p \in DOMAIN T : \A c \in {1, 2} : IsSplit(T[p]) <=> Append(p, c) \in DOMAIN T
         /\ \A p \in DOMAIN T : p # <<>> => Front(p) \in DOMAIN T
         /\ \A p, q \in Leaves(T) : T[p].id = T[q].id => p = q
<1>1. \A p, q \in Leaves(T) : T[p].id = T[q].id => T[p] = T[q]
  BY LeafOf
<1> QED BY <1>1 DEF IsLayout, Path

LEMMA LeafIsLayout ==
  ASSUME NEW id \in Ids
  PROVE  IsLayout(Leaf(id)) /\ LeafIds(Leaf(id)) = {id}
<1> DEFINE T == Leaf(id)
<1>1. DOMAIN T = {<<>>} /\ T[<<>>] = LeafNode(id) /\ T = [p \in DOMAIN T |-> T[p]]
  BY DEF Leaf
<1> HIDE DEF T
<1>2. T[<<>>] \in Nodes /\ ~IsSplit(T[<<>>]) /\ T[<<>>].id = id
  BY <1>1, NodeKinds
<1>3. IsFiniteSet(DOMAIN T)
  BY <1>1, FS_Singleton
<1>4. \A c \in {1, 2} : Append(<<>>, c) \notin DOMAIN T
  BY <1>1, Children, AtRoot
<1>5. Leaves(T) = {<<>>}
  BY <1>1, <1>2 DEF Leaves
<1>6. IsLayout(T)
  BY <1>1, <1>2, <1>3, <1>4, <1>5, AtRoot DEF IsLayout, Path
<1>7. LeafIds(T) = {id}
  BY <1>2, <1>5 DEF LeafIds
<1> QED BY <1>6, <1>7 DEF T

LEMMA SubIsLayout ==
  ASSUME NEW T, IsLayout(T), NEW p \in DOMAIN T
  PROVE  IsLayout(Sub(T, p)) /\ LeafIds(Sub(T, p)) = Under(T, p)
<1> DEFINE S == Sub(T, p)
           D == {r \in Path : p \o r \in DOMAIN T}
           below == [x \in DOMAIN T |-> Below(p, x)]
           X == {y \in DOMAIN T : IsPrefix(p, y)}
<1>1. p \in Path /\ DOMAIN T \subseteq Path
  BY Positions
<1>2. {Below(p, x) : x \in X} = D
  <2>1. ASSUME NEW x \in X PROVE Below(p, x) \in D
    BY <1>1, Above
  <2>2. ASSUME NEW r \in D PROVE p \o r \in X /\ r = Below(p, p \o r)
    BY <1>1, BelowIt
  <2> QED BY <2>1, <2>2
<1>3. S = [q \in D |-> T[p \o q]]
  BY <1>2 DEF Sub
<1>4. IsFiniteSet(D)
  <2>1. {below[x] : x \in X} = D
    BY <1>2
  <2>2. IsFiniteSet(X)
    BY Positions, FS_Subset
  <2> HIDE DEF below, D, X
  <2> QED BY <2>1, <2>2, FiniteImage
<1> HIDE DEF S
<1>5. DOMAIN S = D /\ \A q \in D : S[q] = T[p \o q]
  BY <1>3
<1>6. \A q \in D : S[q] \in Nodes
  BY <1>5 DEF IsLayout
<1>7. <<>> \in D /\ D \subseteq Path
  BY <1>1, AtRoot
<1>8. \A q \in D, c \in {1, 2} : IsSplit(S[q]) <=> Append(q, c) \in D
  <2> SUFFICES ASSUME NEW q \in D, NEW c \in {1, 2}
               PROVE  IsSplit(S[q]) <=> Append(q, c) \in D
    OBVIOUS
  <2>0. p \in Path /\ q \in Path
    BY <1>1
  <2>1. Append(p \o q, c) = p \o Append(q, c)
    BY <2>0, AppendsBelow
  <2>3. Append(q, c) \in Path
    BY <2>0, Children
  <2>2. IsSplit(T[p \o q]) <=> Append(p \o q, c) \in DOMAIN T
    BY Positions
  <2> QED BY <1>5, <2>1, <2>2, <2>3
<1>9. ASSUME NEW q \in D, q # <<>> PROVE Front(q) \in D
  <2>1. p \o q # <<>> /\ Front(p \o q) = p \o Front(q) /\ Front(q) \in Path
    BY <1>1, <1>9, FrontsBelow, Parents
  <2> QED BY <2>1, Positions
<1>10. Leaves(S) = {q \in D : p \o q \in Leaves(T)}
  BY <1>5 DEF Leaves
<1>11. \A q, r \in Leaves(S) : S[q] = S[r] => q = r
  <2> SUFFICES ASSUME NEW q \in Leaves(S), NEW r \in Leaves(S), S[q] = S[r]
               PROVE  q = r
    OBVIOUS
  <2>1. q \in Path /\ r \in Path /\ p \o q = p \o r
    BY <1>5, <1>10 DEF IsLayout
  <2> QED BY <1>1, <2>1, Cancels
<1>12. IsLayout(S)
  <2>1. S = [q \in DOMAIN S |-> S[q]]
    BY <1>3
  <2> HIDE DEF D
  <2> QED BY <1>4, <1>5, <1>6, <1>7, <1>8, <1>9, <1>11, <2>1 DEF IsLayout, Path
<1>13. LeafIds(S) = Under(T, p)
  <2>1. ASSUME NEW q \in Leaves(S) PROVE S[q].id \in Under(T, p)
    <3>1. p \o q \in Leaves(T) /\ IsPrefix(p, p \o q) /\ S[q] = T[p \o q]
      BY <1>1, <1>5, <1>10, BelowIt
    <3> QED BY <3>1 DEF Under
  <2>2. ASSUME NEW x \in Leaves(T), IsPrefix(p, x) PROVE T[x].id \in LeafIds(S)
    <3>1. x \in Path
      BY <1>1 DEF Leaves
    <3>2. Below(p, x) \in Path /\ x = p \o Below(p, x)
      BY <1>1, <2>2, <3>1, Above
    <3>3. Below(p, x) \in Leaves(S) /\ S[Below(p, x)] = T[x]
      BY <1>5, <1>10, <3>2 DEF Leaves
    <3> QED BY <3>3 DEF LeafIds
  <2> QED BY <2>1, <2>2 DEF LeafIds, Under
<1> QED BY <1>12, <1>13 DEF S

LEMMA GraftIsLayout ==
  ASSUME NEW T, IsLayout(T), NEW p \in DOMAIN T, NEW S, IsLayout(S),
         Beyond(T, p) \cap LeafIds(S) = {}
  PROVE  IsLayout(Graft(T, p, S)) /\ LeafIds(Graft(T, p, S)) = Beyond(T, p) \cup LeafIds(S)
<1> DEFINE G == Graft(T, p, S)
           O == {x \in DOMAIN T : ~IsPrefix(p, x)}
           join == [r \in DOMAIN S |-> p \o r]
           I == {join[r] : r \in DOMAIN S}
<1>1. p \in Path /\ DOMAIN T \subseteq Path /\ DOMAIN S \subseteq Path
  BY Positions
<1>2. G = [q \in O \cup I |-> IF IsPrefix(p, q) THEN S[Below(p, q)] ELSE T[q]]
  BY DEF Graft
<1>3. \A r \in DOMAIN S : /\ join[r] = p \o r /\ p \o r \in Path
                          /\ IsPrefix(p, p \o r) /\ Below(p, p \o r) = r
  BY <1>1, Joined, BelowIt
<1>4. IsFiniteSet(O \cup I)
  <2>1. IsFiniteSet(O)
    BY Positions, FS_Subset
  <2>2. IsFiniteSet(I)
    <3>1. IsFiniteSet(DOMAIN S)
      BY Positions
    <3> HIDE DEF join
    <3> QED BY <3>1, FiniteImage
  <2> HIDE DEF O, I
  <2> QED BY <2>1, <2>2, FS_Union
<1>5. \A q \in DOMAIN T : ~IsPrefix(p, q) => q \in O
  OBVIOUS
<1>6. \A q \in O : q \in DOMAIN T /\ q \in Path /\ ~IsPrefix(p, q)
  BY <1>1
<1>7. I = {p \o r : r \in DOMAIN S}
  OBVIOUS
<1> HIDE DEF G, O, I, join
<1>8. DOMAIN G = O \cup I /\ G = [q \in DOMAIN G |-> G[q]]
  BY <1>2
<1>9. \A q \in O : G[q] = T[q]
  BY <1>2, <1>6
<1>10. \A r \in DOMAIN S : p \o r \in I /\ G[p \o r] = S[r]
  BY <1>2, <1>3, <1>7
<1>11. \A q \in O \cup I : q \in Path /\ G[q] \in Nodes
  <2>1. \A q \in O : q \in Path /\ G[q] \in Nodes
    BY <1>6, <1>9 DEF IsLayout
  <2>2. \A r \in DOMAIN S : p \o r \in Path /\ G[p \o r] \in Nodes
    BY <1>3, <1>10 DEF IsLayout
  <2> QED BY <1>7, <2>1, <2>2
<1>12. <<>> \in DOMAIN G
  <2>1. CASE IsPrefix(p, <<>>)
    <3>1. p = <<>>
      <4>1. Len(p) = 0
        BY <1>1, <2>1 DEF IsPrefix, Path
      <4> QED BY <1>1, <4>1 DEF Path
    <3>2. p \o <<>> \in I
      BY <1>10, Positions
    <3> QED BY <1>8, <3>1, <3>2, AtRoot
  <2>2. CASE ~IsPrefix(p, <<>>)
    BY <1>5, <1>8, <2>2, Positions
  <2> QED BY <2>1, <2>2
<1>13. p \in I
  <2>1. <<>> \in DOMAIN S /\ p \o <<>> = p
    BY <1>1, Positions, AtRoot
  <2> QED BY <1>10, <2>1
<1>14. ASSUME NEW q \in DOMAIN G, NEW c \in {1, 2} PROVE IsSplit(G[q]) <=> Append(q, c) \in DOMAIN G
  <2>1. CASE q \in O
    <3>1. IsSplit(G[q]) <=> Append(q, c) \in DOMAIN T
      BY <1>6, <1>9, <2>1, Positions
    <3>2. IsPrefix(p, Append(q, c)) <=> p = Append(q, c)
      BY <1>1, <1>6, <2>1, PrefixOfChild
    <3>3. CASE p = Append(q, c)
      BY <1>8, <1>13, <3>1, <3>3
    <3>4. CASE p # Append(q, c)
      <4>1. Append(q, c) \notin I
        BY <1>3, <1>7, <3>2, <3>4
      <4>2. Append(q, c) \in O <=> Append(q, c) \in DOMAIN T
        BY <1>5, <1>6, <3>2, <3>4
      <4> QED BY <1>8, <3>1, <4>1, <4>2
    <3> QED BY <3>3, <3>4
  <2>2. CASE q \in I
    <3>1. PICK r \in DOMAIN S : q = p \o r
      BY <1>7, <2>2
    <3>2. IsSplit(G[q]) <=> Append(r, c) \in DOMAIN S
      BY <1>10, <3>1, Positions
    <3>3. r \in Path /\ Append(r, c) \in Path /\ Append(q, c) = p \o Append(r, c)
      BY <1>1, <3>1, AppendsBelow, Children
    <3>4. Append(q, c) \notin O
      BY <1>1, <1>6, <3>3, BelowIt
    <3>5. Append(q, c) \in I <=> Append(r, c) \in DOMAIN S
      <4>1. ASSUME NEW s \in DOMAIN S, Append(q, c) = p \o s PROVE s = Append(r, c)
        BY <1>1, <3>3, <4>1, Cancels
      <4> QED BY <1>7, <3>3, <4>1
    <3> QED BY <1>8, <3>2, <3>4, <3>5
  <2> QED BY <1>8, <2>1, <2>2
<1>15. ASSUME NEW q \in DOMAIN G, q # <<>> PROVE Front(q) \in DOMAIN G
  <2>1. Front(q) \in Path /\ Last(q) \in {1, 2} /\ q = Append(Front(q), Last(q))
    BY <1>8, <1>11, <1>15, Parents
  <2>2. ASSUME q \in DOMAIN T, ~IsPrefix(p, Front(q)) PROVE Front(q) \in DOMAIN G
    BY <1>5, <1>8, <1>15, <2>2, Positions
  <2>3. CASE q \in O
    <3>1. ~IsPrefix(p, Front(q))
      BY <1>1, <1>6, <2>1, <2>3, PrefixOfChild
    <3> QED BY <1>6, <2>2, <2>3, <3>1
  <2>4. CASE q = p
    <3>1. ~IsPrefix(p, Front(q))
      <4>1. Len(Front(q)) = Len(q) - 1 /\ Len(q) >= 1 /\ Len(q) \in Nat
        BY <1>1, <1>15, <2>4, Parents DEF Path
      <4> QED BY <2>4, <4>1 DEF IsPrefix
    <3> QED BY <2>2, <2>4, <3>1
  <2>5. CASE q \in I /\ q # p
    <3>1. PICK r \in DOMAIN S : q = p \o r
      BY <1>7, <2>5
    <3>2. r # <<>> /\ r \in Path
      BY <1>1, <2>5, <3>1, AtRoot
    <3>3. Front(q) = p \o Front(r) /\ Front(r) \in DOMAIN S
      BY <1>1, <3>1, <3>2, FrontsBelow, Positions
    <3> QED BY <1>8, <1>10, <3>3
  <2> QED BY <1>8, <2>3, <2>4, <2>5
<1>16. Leaves(G) = {x \in Leaves(T) : ~IsPrefix(p, x)} \cup {p \o r : r \in Leaves(S)}
  <2>1. \A q \in O : q \in Leaves(G) <=> q \in Leaves(T)
    BY <1>6, <1>8, <1>9 DEF Leaves
  <2>2. \A r \in DOMAIN S : p \o r \in Leaves(G) <=> r \in Leaves(S)
    BY <1>8, <1>10 DEF Leaves
  <2>3. \A x \in Leaves(T) : ~IsPrefix(p, x) => x \in O
    BY <1>5 DEF Leaves
  <2>4. Leaves(G) \subseteq O \cup I /\ Leaves(S) \subseteq DOMAIN S
    BY <1>8 DEF Leaves
  <2>5. ASSUME NEW q \in Leaves(G)
        PROVE  q \in {x \in Leaves(T) : ~IsPrefix(p, x)} \cup {p \o r : r \in Leaves(S)}
    <3>1. CASE q \in O
      BY <1>6, <2>1, <3>1
    <3>2. CASE q \in I
      BY <1>7, <2>2, <3>2
    <3> QED BY <2>4, <3>1, <3>2
  <2>6. ASSUME NEW x \in Leaves(T), ~IsPrefix(p, x) PROVE x \in Leaves(G)
    BY <2>1, <2>3, <2>6
  <2>7. ASSUME NEW r \in Leaves(S) PROVE p \o r \in Leaves(G)
    BY <2>2, <2>4
  <2> QED BY <2>5, <2>6, <2>7
<1>17. LeafIds(G) = Beyond(T, p) \cup LeafIds(S)
  <2>1. ASSUME NEW x \in Leaves(T), ~IsPrefix(p, x) PROVE G[x] = T[x]
    BY <1>5, <1>9, <2>1 DEF Leaves
  <2>2. ASSUME NEW r \in Leaves(S) PROVE G[p \o r] = S[r]
    BY <1>10 DEF Leaves
  <2>3. LeafIds(G) \subseteq Beyond(T, p) \cup LeafIds(S)
    <3> SUFFICES ASSUME NEW q \in Leaves(G) PROVE G[q].id \in Beyond(T, p) \cup LeafIds(S)
      BY DEF LeafIds
    <3>1. CASE q \in Leaves(T) /\ ~IsPrefix(p, q)
      BY <2>1, <3>1 DEF Beyond
    <3>2. CASE \E r \in Leaves(S) : q = p \o r
      BY <2>2, <3>2 DEF LeafIds
    <3> QED BY <1>16, <3>1, <3>2
  <2>4. ASSUME NEW x \in Leaves(T), ~IsPrefix(p, x) PROVE T[x].id \in LeafIds(G)
    BY <1>16, <2>1, <2>4 DEF LeafIds
  <2>5. ASSUME NEW r \in Leaves(S) PROVE S[r].id \in LeafIds(G)
    <3>1. p \o r \in Leaves(G) /\ G[p \o r] = S[r]
      BY <1>16, <2>2
    <3> QED BY <3>1 DEF LeafIds
  <2>6. Beyond(T, p) \subseteq LeafIds(G)
    BY <2>4 DEF Beyond
  <2>7. LeafIds(S) \subseteq LeafIds(G)
    BY <2>5 DEF LeafIds
  <2> QED BY <2>3, <2>6, <2>7
<1>18. ASSUME NEW q \in Leaves(G), NEW r \in Leaves(G), G[q] = G[r] PROVE q = r
  <2>1. ASSUME NEW x \in Leaves(T), ~IsPrefix(p, x) PROVE G[x] = T[x] /\ T[x].id \in Beyond(T, p)
    BY <1>5, <1>9, <2>1 DEF Leaves, Beyond
  <2>2. ASSUME NEW s \in Leaves(S) PROVE G[p \o s] = S[s] /\ S[s].id \in LeafIds(S)
    BY <1>10 DEF Leaves, LeafIds
  <2>3. \A x, y \in Leaves(T) : T[x] = T[y] => x = y
    BY DEF IsLayout
  <2>4. \A x, y \in Leaves(S) : S[x] = S[y] => x = y
    BY DEF IsLayout
  <2>5. CASE q \in Leaves(T) /\ ~IsPrefix(p, q)
    <3>1. G[q] = T[q] /\ T[q].id \in Beyond(T, p)
      BY <2>1, <2>5
    <3>2. CASE r \in Leaves(T) /\ ~IsPrefix(p, r)
      BY <1>18, <2>1, <2>3, <2>5, <3>1, <3>2
    <3>3. CASE \E s \in Leaves(S) : r = p \o s
      BY <1>18, <2>2, <3>1, <3>3
    <3> QED BY <1>16, <3>2, <3>3
  <2>6. CASE \E s \in Leaves(S) : q = p \o s
    <3>1. PICK s \in Leaves(S) : q = p \o s
      BY <2>6
    <3>2. G[q] = S[s] /\ S[s].id \in LeafIds(S)
      BY <2>2, <3>1
    <3>3. CASE r \in Leaves(T) /\ ~IsPrefix(p, r)
      BY <1>18, <2>1, <3>2, <3>3
    <3>4. CASE \E t \in Leaves(S) : r = p \o t
      BY <1>18, <2>2, <2>4, <3>1, <3>2, <3>4
    <3> QED BY <1>16, <3>3, <3>4
  <2> QED BY <1>16, <2>5, <2>6
<1>19. IsLayout(G)
  BY <1>4, <1>8, <1>11, <1>12, <1>14, <1>15, <1>18 DEF IsLayout, Path
<1> QED BY <1>17, <1>19 DEF G

(* A new split over two trees. *)
LEMMA SplitIsLayout ==
  ASSUME NEW dir \in Dirs, NEW A, IsLayout(A), NEW B, IsLayout(B), LeafIds(A) \cap LeafIds(B) = {}
  PROVE  IsLayout(Split(dir, A, B)) /\ LeafIds(Split(dir, A, B)) = LeafIds(A) \cup LeafIds(B)
<1> DEFINE G == Split(dir, A, B)
           K == [c \in {1, 2} |-> IF c = 1 THEN A ELSE B]
           pre(c) == [r \in Path |-> <<c>> \o r]
           L == {<<1>> \o r : r \in DOMAIN A}
           R == {<<2>> \o r : r \in DOMAIN B}
<1>1. DOMAIN A \subseteq Path /\ DOMAIN B \subseteq Path
  BY Positions
<1>2. G = [q \in {<<>>} \cup L \cup R |-> IF q = <<>> THEN SplitNode(dir)
             ELSE IF Head(q) = 1 THEN A[Tail(q)] ELSE B[Tail(q)]]
  BY DEF Split
<1>3. IsFiniteSet({<<>>} \cup L \cup R)
  <2>1. L = {pre(1)[r] : r \in DOMAIN A} /\ R = {pre(2)[r] : r \in DOMAIN B}
    BY <1>1
  <2>2. IsFiniteSet(L) /\ IsFiniteSet(R)
    <3>1. IsFiniteSet(DOMAIN A) /\ IsFiniteSet(DOMAIN B)
      BY Positions
    <3> HIDE DEF pre, L, R
    <3> QED BY <2>1, <3>1, FiniteImage
  <2> HIDE DEF L, R
  <2> QED BY <2>2, FS_Union, FS_Singleton
<1>4. /\ \A r \in DOMAIN A : <<1>> \o r \in L
      /\ \A r \in DOMAIN B : <<2>> \o r \in R
      /\ \A q \in L : \E r \in DOMAIN A : q = <<1>> \o r
      /\ \A q \in R : \E r \in DOMAIN B : q = <<2>> \o r
  OBVIOUS
<1>5. K[1] = A /\ K[2] = B /\ \A c \in {1, 2} : IsLayout(K[c])
  OBVIOUS
<1> HIDE DEF G, L, R, K, pre
<1>6. DOMAIN G = {<<>>} \cup L \cup R /\ G = [q \in DOMAIN G |-> G[q]] /\ G[<<>>] = SplitNode(dir)
  BY <1>2
<1>7. \A r \in DOMAIN A : <<1>> \o r \in DOMAIN G /\ G[<<1>> \o r] = A[r]
  <2> SUFFICES ASSUME NEW r \in DOMAIN A PROVE <<1>> \o r \in DOMAIN G /\ G[<<1>> \o r] = A[r]
    OBVIOUS
  <2>1. PICK q \in Path : q = <<1>> \o r /\ q # <<>> /\ Head(q) = 1 /\ Tail(q) = r
    BY <1>1, Branches
  <2>2. q \in L
    BY <1>4, <2>1
  <2> QED BY <1>2, <1>6, <2>1, <2>2
<1>8. \A r \in DOMAIN B : <<2>> \o r \in DOMAIN G /\ G[<<2>> \o r] = B[r]
  <2> SUFFICES ASSUME NEW r \in DOMAIN B PROVE <<2>> \o r \in DOMAIN G /\ G[<<2>> \o r] = B[r]
    OBVIOUS
  <2>1. PICK q \in Path : q = <<2>> \o r /\ q # <<>> /\ Head(q) = 2 /\ Tail(q) = r
    BY <1>1, Branches
  <2>2. q \in DOMAIN G
    BY <1>4, <1>6, <2>1
  <2>3. G[q] = IF q = <<>> THEN SplitNode(dir) ELSE IF Head(q) = 1 THEN A[Tail(q)] ELSE B[Tail(q)]
    BY <1>2, <1>6, <2>2
  <2>4. G[q] = B[Tail(q)]
    BY <2>1, <2>3
  <2> QED BY <2>1, <2>2, <2>4
<1>9. /\ \A c \in {1, 2} : \A r \in DOMAIN K[c] :
           /\ r \in Path /\ <<c>> \o r \in DOMAIN G
           /\ <<c>> \o r \in Path /\ <<c>> \o r # <<>> /\ G[<<c>> \o r] = K[c][r]
      /\ \A q \in DOMAIN G : q # <<>> => \E c \in {1, 2} : \E r \in DOMAIN K[c] : q = <<c>> \o r
  <2>1. ASSUME NEW c \in {1, 2}, NEW r \in DOMAIN K[c]
        PROVE  /\ r \in Path /\ <<c>> \o r \in DOMAIN G
               /\ <<c>> \o r \in Path /\ <<c>> \o r # <<>> /\ G[<<c>> \o r] = K[c][r]
    <3>1. CASE c = 1
      BY <1>1, <1>5, <1>7, <3>1, Branches
    <3>2. CASE c = 2
      BY <1>1, <1>5, <1>8, <3>2, Branches
    <3> QED BY <3>1, <3>2
  <2>2. ASSUME NEW q \in DOMAIN G, q # <<>>
        PROVE  \E c \in {1, 2} : \E r \in DOMAIN K[c] : q = <<c>> \o r
    <3>1. CASE q \in L
      BY <1>4, <1>5, <3>1
    <3>2. CASE q \in R
      BY <1>4, <1>5, <3>2
    <3> QED BY <1>6, <2>2, <3>1, <3>2
  <2> QED BY <2>1, <2>2
<1>10. \A c, d \in {1, 2}, q, r \in Path : <<c>> \o q = <<d>> \o r => c = d /\ q = r
  BY Branches
<1>11. \A c \in {1, 2}, q \in Path : <<c>> \o q \in DOMAIN G <=> q \in DOMAIN K[c]
  <2>1. ASSUME NEW c \in {1, 2}, NEW q \in Path, <<c>> \o q \in DOMAIN G PROVE q \in DOMAIN K[c]
    <3>1. <<c>> \o q # <<>>
      BY Branches
    <3>2. PICK d \in {1, 2} : \E r \in DOMAIN K[d] : <<c>> \o q = <<d>> \o r
      BY <1>9, <2>1, <3>1
    <3>3. PICK r \in DOMAIN K[d] : <<c>> \o q = <<d>> \o r
      BY <3>2
    <3>4. r \in Path
      BY <1>9
    <3> QED BY <1>10, <3>3, <3>4
  <2> QED BY <1>9, <2>1
<1>12. IsSplit(G[<<>>]) /\ G[<<>>] \in Nodes
  BY <1>6, NodeKinds
<1>13. \A q \in DOMAIN G : q \in Path /\ G[q] \in Nodes
  <2>1. \A c \in {1, 2} : \A r \in DOMAIN K[c] : K[c][r] \in Nodes
    BY <1>5 DEF IsLayout
  <2> SUFFICES ASSUME NEW q \in DOMAIN G, q # <<>> PROVE q \in Path /\ G[q] \in Nodes
    BY <1>12, AtRoot
  <2>2. PICK c \in {1, 2} : \E r \in DOMAIN K[c] : q = <<c>> \o r
    BY <1>9
  <2>3. PICK r \in DOMAIN K[c] : q = <<c>> \o r
    BY <2>2
  <2> QED BY <1>9, <2>1, <2>3
<1>14. ASSUME NEW q \in DOMAIN G, NEW d \in {1, 2} PROVE IsSplit(G[q]) <=> Append(q, d) \in DOMAIN G
  <2>1. CASE q = <<>>
    <3>1. Append(q, d) = <<d>> \o <<>>
      BY <2>1, Children, AtRoot
    <3>2. <<>> \in DOMAIN K[d]
      BY <1>5, Positions
    <3>3. \E r \in DOMAIN K[d] : Append(q, d) = <<d>> \o r
      BY <3>1, <3>2
    <3>4. Append(q, d) \in DOMAIN G
      BY <1>9, <3>3
    <3> QED BY <1>12, <2>1, <3>4
  <2>2. CASE q # <<>>
    <3>01. PICK c \in {1, 2} : \E r \in DOMAIN K[c] : q = <<c>> \o r
      BY <1>9, <2>2
    <3>1. PICK r \in DOMAIN K[c] : q = <<c>> \o r
      BY <3>01
    <3>2. r \in Path /\ G[q] = K[c][r]
      BY <1>9, <3>1
    <3>3. Append(r, d) \in Path /\ <<c>> \in Path
      BY <3>2, Children
    <3>4. Append(q, d) = <<c>> \o Append(r, d)
      BY <3>1, <3>2, <3>3, AppendsBelow
    <3>5. IsSplit(K[c][r]) <=> Append(r, d) \in DOMAIN K[c]
      BY <1>5, Positions
    <3> QED BY <1>11, <3>2, <3>3, <3>4, <3>5
  <2> QED BY <2>1, <2>2
<1>15. ASSUME NEW q \in DOMAIN G, q # <<>> PROVE Front(q) \in DOMAIN G
  <2>01. PICK c \in {1, 2} : \E r \in DOMAIN K[c] : q = <<c>> \o r
    BY <1>9, <1>15
  <2>1. PICK r \in DOMAIN K[c] : q = <<c>> \o r
    BY <2>01
  <2>2. r \in Path /\ <<c>> \in Path
    BY <1>9, Children
  <2>3. CASE r = <<>>
    <3>1. q = Append(<<>>, c)
      BY <2>1, <2>2, <2>3, Children, AtRoot
    <3> QED BY <1>6, <3>1, Children, AtRoot
  <2>4. CASE r # <<>>
    <3>1. Front(q) = <<c>> \o Front(r)
      BY <2>1, <2>2, <2>4, FrontsBelow
    <3>2. Front(r) \in DOMAIN K[c]
      BY <1>5, <2>4, Positions
    <3> QED BY <1>9, <3>1, <3>2
  <2> QED BY <2>3, <2>4
<1>16. /\ \A c \in {1, 2} : \A r \in Leaves(K[c]) :
            r \in DOMAIN K[c] /\ <<c>> \o r \in Leaves(G) /\ G[<<c>> \o r] = K[c][r]
       /\ \A q \in Leaves(G) : \E c \in {1, 2} : \E r \in Leaves(K[c]) : q = <<c>> \o r
  <2>1. ASSUME NEW c \in {1, 2}, NEW r \in Leaves(K[c])
        PROVE  r \in DOMAIN K[c] /\ <<c>> \o r \in Leaves(G) /\ G[<<c>> \o r] = K[c][r]
    BY <1>9 DEF Leaves
  <2>2. ASSUME NEW q \in Leaves(G) PROVE \E c \in {1, 2} : \E r \in Leaves(K[c]) : q = <<c>> \o r
    <3>1. q \in DOMAIN G /\ q # <<>> /\ ~IsSplit(G[q])
      BY <1>12 DEF Leaves
    <3>02. PICK c \in {1, 2} : \E r \in DOMAIN K[c] : q = <<c>> \o r
      BY <1>9, <3>1
    <3>2. PICK r \in DOMAIN K[c] : q = <<c>> \o r
      BY <3>02
    <3>3. G[q] = K[c][r]
      BY <1>9, <3>2
    <3> QED BY <3>1, <3>2, <3>3 DEF Leaves
  <2> QED BY <2>1, <2>2
<1>17. LeafIds(G) = LeafIds(A) \cup LeafIds(B)
  <2>1. ASSUME NEW q \in Leaves(G) PROVE G[q].id \in LeafIds(A) \cup LeafIds(B)
    <3>01. PICK c \in {1, 2} : \E r \in Leaves(K[c]) : q = <<c>> \o r
      BY <1>16
    <3>1. PICK r \in Leaves(K[c]) : q = <<c>> \o r
      BY <3>01
    <3>2. G[q].id \in LeafIds(K[c])
      BY <1>16, <3>1 DEF LeafIds
    <3> QED BY <1>5, <3>2
  <2>2. ASSUME NEW c \in {1, 2}, NEW id \in LeafIds(K[c]) PROVE id \in LeafIds(G)
    <3>1. PICK r \in Leaves(K[c]) : id = K[c][r].id
      BY DEF LeafIds
    <3>2. <<c>> \o r \in Leaves(G) /\ G[<<c>> \o r] = K[c][r]
      BY <1>16
    <3> QED BY <3>1, <3>2 DEF LeafIds
  <2>3. LeafIds(G) \subseteq LeafIds(A) \cup LeafIds(B)
    BY <2>1 DEF LeafIds
  <2>4. LeafIds(A) \subseteq LeafIds(G) /\ LeafIds(B) \subseteq LeafIds(G)
    BY <1>5, <2>2
  <2> QED BY <2>3, <2>4
<1>18. ASSUME NEW q \in Leaves(G), NEW t \in Leaves(G), G[q] = G[t] PROVE q = t
  <2>01. PICK c \in {1, 2} : \E r \in Leaves(K[c]) : q = <<c>> \o r
    BY <1>16
  <2>1. PICK r \in Leaves(K[c]) : q = <<c>> \o r
    BY <2>01
  <2>02. PICK d \in {1, 2} : \E u \in Leaves(K[d]) : t = <<d>> \o u
    BY <1>16
  <2>2. PICK u \in Leaves(K[d]) : t = <<d>> \o u
    BY <2>02
  <2>3. K[c][r] = K[d][u]
    BY <1>16, <1>18, <2>1, <2>2
  <2>4. K[c][r].id \in LeafIds(K[c]) /\ K[d][u].id \in LeafIds(K[d])
    BY DEF LeafIds
  <2>5. c = d
    BY <1>5, <2>3, <2>4
  <2>6. r = u
    BY <1>5, <2>3, <2>5 DEF IsLayout
  <2> QED BY <2>1, <2>2, <2>5, <2>6
<1>19. IsLayout(G)
  BY <1>3, <1>6, <1>13, <1>14, <1>15, <1>18 DEF IsLayout, Path
<1> QED BY <1>17, <1>19 DEF G

-----------------------------------------------------------------------------
(* The operations on trees: they make layouts, and of these panes.          *)

LEMMA InAndOut ==
  ASSUME NEW T, IsLayout(T), NEW p
  PROVE  LeafIds(T) = Under(T, p) \cup Beyond(T, p) /\ Under(T, p) \cap Beyond(T, p) = {}
<1>1. ASSUME NEW id \in Under(T, p) \cap Beyond(T, p) PROVE FALSE
  <2>1. PICK x \in Leaves(T) : IsPrefix(p, x) /\ T[x].id = id
    BY DEF Under
  <2>2. PICK y \in Leaves(T) : ~IsPrefix(p, y) /\ T[y].id = id
    BY DEF Beyond
  <2> QED BY <2>1, <2>2, Positions
<1> QED BY <1>1 DEF LeafIds, Under, Beyond

(* No leaf is above another. *)
LEMMA LeavesApart ==
  ASSUME NEW T, IsLayout(T), NEW p \in Leaves(T), NEW x \in Leaves(T), IsPrefix(p, x)
  PROVE  x = p
<1>1. p \in Path /\ p \in DOMAIN T /\ ~IsSplit(T[p])
  BY LeafOf DEF Leaves
<1>2. x \in Path /\ x \in DOMAIN T
  BY LeafOf
<1> SUFFICES ASSUME x # p PROVE FALSE
  OBVIOUS
<1>3. PICK c \in {1, 2} : IsPrefix(Append(p, c), x)
  BY <1>1, <1>2, BelowChild
<1>4. Append(p, c) \in DOMAIN T
  BY <1>1, <1>2, <1>3, Closed, Children
<1> QED BY <1>1, <1>4, Positions

LEMMA UnderLeaf ==
  ASSUME NEW T, IsLayout(T), NEW p \in Leaves(T)
  PROVE  Under(T, p) = {T[p].id} /\ Beyond(T, p) = LeafIds(T) \ {T[p].id}
<1>1. p \in Path /\ p \in DOMAIN T /\ ~IsSplit(T[p])
  BY LeafOf DEF Leaves
<1>2. IsPrefix(p, p)
  BY <1>1, BelowIt, AtRoot
<1>3. \A x \in Leaves(T) : IsPrefix(p, x) => x = p
  BY LeavesApart
<1>4. Under(T, p) = {T[p].id}
  BY <1>2, <1>3 DEF Under
<1> QED BY <1>4, InAndOut

LEMMA UnderSplit ==
  ASSUME NEW T, IsLayout(T), NEW p \in DOMAIN T, IsSplit(T[p])
  PROVE  /\ Append(p, 1) \in DOMAIN T /\ Append(p, 2) \in DOMAIN T
         /\ Under(T, p) = Under(T, Append(p, 1)) \cup Under(T, Append(p, 2))
         /\ Under(T, Append(p, 1)) \cap Under(T, Append(p, 2)) = {}
<1>1. p \in Path /\ Append(p, 1) \in DOMAIN T /\ Append(p, 2) \in DOMAIN T
  BY Positions
<1>2. ASSUME NEW x \in Leaves(T), IsPrefix(p, x)
      PROVE  IsPrefix(Append(p, 1), x) \/ IsPrefix(Append(p, 2), x)
  <2>1. x \in Path /\ x # p
    BY LeafOf DEF Leaves
  <2> QED BY <1>1, <1>2, <2>1, BelowChild
<1>3. ASSUME NEW x \in Leaves(T), NEW c \in {1, 2}, IsPrefix(Append(p, c), x) PROVE IsPrefix(p, x)
  <2>0. x \in Path /\ Append(p, c) \in Path
    BY <1>1, Children, LeafOf
  <2>1. PICK r \in Path : x = Append(p, c) \o r
    BY <1>3, <2>0, Above
  <2>2. PICK a \in Path : a = <<c>> /\ Append(p, c) = p \o a
    BY <1>1, Children
  <2>3. p \in Path
    BY <1>1
  <2>4. (p \o a) \o r = p \o (a \o r)
    BY <2>3, Associates
  <2>5. PICK ar \in Path : ar = a \o r
    BY Joined
  <2>6. x = p \o ar
    BY <2>1, <2>2, <2>4, <2>5
  <2> QED BY <2>3, <2>6, BelowIt
<1>4. ASSUME NEW x \in Leaves(T), NEW y \in Leaves(T), T[x].id = T[y].id,
             IsPrefix(Append(p, 1), x), IsPrefix(Append(p, 2), y)
      PROVE  FALSE
  <2>1. x = y /\ x \in Path
    BY <1>4, Positions, LeafOf
  <2> QED BY <1>1, <1>4, <2>1, Apart
<1>5. Under(T, p) = Under(T, Append(p, 1)) \cup Under(T, Append(p, 2))
  BY <1>2, <1>3 DEF Under
<1>6. Under(T, Append(p, 1)) \cap Under(T, Append(p, 2)) = {}
  BY <1>4 DEF Under
<1> QED BY <1>1, <1>5, <1>6

(* splitLeaf adds the new pane. *)
LEMMA SplitLeafAdds ==
  ASSUME NEW T, IsLayout(T), NEW id \in LeafIds(T), NEW dir \in Dirs,
         NEW new \in Ids, new \notin LeafIds(T)
  PROVE  /\ IsLayout(SplitLeaf(T, id, dir, new))
         /\ LeafIds(SplitLeaf(T, id, dir, new)) = LeafIds(T) \cup {new}
<1> DEFINE p == At(T, id)
           S == Split(dir, Sub(T, p), Leaf(new))
<1>1. p \in Leaves(T) /\ T[p].id = id /\ p \in DOMAIN T
  BY AtIt, NodeKinds, LeafOf
<1>2. IsLayout(Sub(T, p)) /\ LeafIds(Sub(T, p)) = {id} /\ Beyond(T, p) = LeafIds(T) \ {id}
  BY <1>1, SubIsLayout, UnderLeaf
<1>3. IsLayout(Leaf(new)) /\ LeafIds(Leaf(new)) = {new}
  BY LeafIsLayout
<1>4. SplitLeaf(T, id, dir, new) = Graft(T, p, S)
  BY DEF SplitLeaf
<1> HIDE DEF p
<1>5. IsLayout(S) /\ LeafIds(S) = {id, new}
  <2>1. {id} \cap {new} = {}
    OBVIOUS
  <2> QED BY <1>2, <1>3, <2>1, SplitIsLayout
<1> HIDE DEF S
<1>6. Beyond(T, p) \cap LeafIds(S) = {}
  BY <1>2, <1>5
<1>7. IsLayout(Graft(T, p, S)) /\ LeafIds(Graft(T, p, S)) = Beyond(T, p) \cup LeafIds(S)
  BY <1>1, <1>5, <1>6, GraftIsLayout
<1> QED BY <1>2, <1>4, <1>5, <1>7

(* extractLeaf takes one pane away, where there is another. *)
LEMMA WithoutTakes ==
  ASSUME NEW T, IsLayout(T), NEW id \in LeafIds(T), LeafIds(T) # {id}
  PROVE  IsLayout(Without(T, id)) /\ LeafIds(Without(T, id)) = LeafIds(T) \ {id}
<1> DEFINE p == At(T, id)
           f == Front(p)
           c == Last(p)
           S == Sub(T, Append(f, 3 - c))
<1>1. p \in Leaves(T) /\ T[p].id = id /\ p \in DOMAIN T /\ p \in Path
  BY AtIt, NodeKinds, LeafOf
<1>2. Without(T, id) = Graft(T, f, S)
  BY DEF Without
<1> HIDE DEF p
<1>3. p # <<>>
  <2>1. ASSUME p = <<>> PROVE FALSE
    <3>1. \A x \in Leaves(T) : IsPrefix(p, x)
      BY <2>1, LeafOf, AtRoot
    <3>2. Beyond(T, p) = {}
      BY <3>1 DEF Beyond
    <3> QED BY <1>1, <3>2, UnderLeaf
  <2> QED BY <2>1
<1>4. f \in DOMAIN T /\ f \in Path /\ c \in {1, 2} /\ p = Append(f, c)
  BY <1>1, <1>3, Parents, Positions
<1> HIDE DEF f, c
<1>5. IsSplit(T[f])
  BY <1>1, <1>4, Positions
<1>6. /\ Append(f, 3 - c) \in DOMAIN T
      /\ Under(T, f) = Under(T, p) \cup Under(T, Append(f, 3 - c))
      /\ Under(T, p) \cap Under(T, Append(f, 3 - c)) = {}
  <2>1. CASE c = 1
    BY <1>4, <1>5, <2>1, UnderSplit
  <2>2. CASE c = 2
    BY <1>4, <1>5, <2>2, UnderSplit
  <2> QED BY <1>4, <2>1, <2>2
<1>7. Under(T, p) = {id}
  BY <1>1, UnderLeaf
<1>8. IsLayout(S) /\ LeafIds(S) = Under(T, Append(f, 3 - c))
  BY <1>6, SubIsLayout
<1>9. LeafIds(T) = Under(T, f) \cup Beyond(T, f) /\ Under(T, f) \cap Beyond(T, f) = {}
  BY InAndOut
<1> HIDE DEF S
<1>10. Beyond(T, f) \cap LeafIds(S) = {}
  BY <1>6, <1>8, <1>9
<1>11. IsLayout(Graft(T, f, S)) /\ LeafIds(Graft(T, f, S)) = Beyond(T, f) \cup LeafIds(S)
  BY <1>4, <1>8, <1>10, GraftIsLayout
<1>12. Beyond(T, f) \cup LeafIds(S) = LeafIds(T) \ {id}
  BY <1>6, <1>7, <1>8, <1>9
<1> QED BY <1>2, <1>11, <1>12

(* insertLeaf puts it back. *)
LEMMA InsertLeafAdds ==
  ASSUME NEW T, IsLayout(T), NEW target \in LeafIds(T), NEW zone,
         NEW id \in Ids, id \notin LeafIds(T)
  PROVE  /\ IsLayout(InsertLeaf(T, target, zone, id))
         /\ LeafIds(InsertLeaf(T, target, zone, id)) = LeafIds(T) \cup {id}
<1> DEFINE p   == At(T, target)
           dir == IF zone \in {"left", "right"} THEN "row" ELSE "col"
           S   == IF zone \in {"left", "top"} THEN Split(dir, Leaf(id), Leaf(target))
                                              ELSE Split(dir, Leaf(target), Leaf(id))
<1>1. p \in Leaves(T) /\ T[p].id = target /\ p \in DOMAIN T /\ target \in Ids
  BY AtIt, NodeKinds, LeafOf
<1>2. InsertLeaf(T, target, zone, id) = Graft(T, p, S)
  BY DEF InsertLeaf
<1>3. dir \in Dirs
  BY DEF Dirs
<1> HIDE DEF p, dir
<1>4. /\ IsLayout(Leaf(id)) /\ LeafIds(Leaf(id)) = {id}
      /\ IsLayout(Leaf(target)) /\ LeafIds(Leaf(target)) = {target}
  BY <1>1, LeafIsLayout
<1>5. IsLayout(S) /\ LeafIds(S) = {id, target}
  <2>1. LeafIds(Leaf(id)) \cap LeafIds(Leaf(target)) = {} /\ LeafIds(Leaf(target)) \cap LeafIds(Leaf(id)) = {}
    BY <1>4
  <2>2. /\ IsLayout(Split(dir, Leaf(id), Leaf(target)))
        /\ LeafIds(Split(dir, Leaf(id), Leaf(target))) = LeafIds(Leaf(id)) \cup LeafIds(Leaf(target))
    BY <1>3, <1>4, <2>1, SplitIsLayout
  <2>3. /\ IsLayout(Split(dir, Leaf(target), Leaf(id)))
        /\ LeafIds(Split(dir, Leaf(target), Leaf(id))) = LeafIds(Leaf(target)) \cup LeafIds(Leaf(id))
    BY <1>3, <1>4, <2>1, SplitIsLayout
  <2> QED BY <1>4, <2>2, <2>3
<1> HIDE DEF S
<1>6. Beyond(T, p) = LeafIds(T) \ {target}
  BY <1>1, UnderLeaf
<1>7. Beyond(T, p) \cap LeafIds(S) = {}
  BY <1>5, <1>6
<1>8. IsLayout(Graft(T, p, S)) /\ LeafIds(Graft(T, p, S)) = Beyond(T, p) \cup LeafIds(S)
  BY <1>1, <1>5, <1>7, GraftIsLayout
<1> QED BY <1>2, <1>5, <1>6, <1>8

(* swapLeaves exchanges two. *)
LEMMA SwapKeeps ==
  ASSUME NEW T, IsLayout(T), NEW a \in LeafIds(T), NEW b \in LeafIds(T)
  PROVE  IsLayout(SwapLeaves(T, a, b)) /\ LeafIds(SwapLeaves(T, a, b)) = LeafIds(T)
<1> DEFINE p == At(T, a)
           q == At(T, b)
           G == SwapLeaves(T, a, b)
<1>1. /\ p \in Leaves(T) /\ T[p] = LeafNode(a) /\ a \in Ids
      /\ q \in Leaves(T) /\ T[q] = LeafNode(b) /\ b \in Ids
  BY AtIt
<1>2. Leaves(T) \subseteq DOMAIN T /\ \A x \in Leaves(T) : ~IsSplit(T[x])
  BY DEF Leaves
<1>3. G = [T EXCEPT ![p] = LeafNode(b), ![q] = LeafNode(a)]
  BY DEF SwapLeaves
<1> HIDE DEF p, q, G
<1>4. T = [x \in DOMAIN T |-> T[x]]
  BY DEF IsLayout
<1>5. /\ DOMAIN G = DOMAIN T /\ G = [x \in DOMAIN G |-> G[x]]
      /\ G[q] = LeafNode(a) /\ (p # q => G[p] = LeafNode(b))
      /\ \A x \in DOMAIN T : x \notin {p, q} => G[x] = T[x]
  BY <1>1, <1>2, <1>3, <1>4
<1>6. p = q => a = b
  BY <1>1, NodeKinds
<1>7. G[p] = LeafNode(b)
  BY <1>5, <1>6
<1>8. \A x \in DOMAIN T : /\ IsSplit(G[x]) <=> IsSplit(T[x])
                          /\ G[x] \in Nodes
  <2>1. \A x \in DOMAIN T : T[x] \in Nodes
    BY DEF IsLayout
  <2> QED BY <1>1, <1>2, <1>5, <1>7, <2>1, NodeKinds
<1>9. Leaves(G) = Leaves(T)
  BY <1>5, <1>8 DEF Leaves
<1>10. ASSUME NEW x \in Leaves(G), NEW y \in Leaves(G), G[x] = G[y] PROVE x = y
  <2>1. \A u, v \in Leaves(T) : T[u] = T[v] => u = v
    BY DEF IsLayout
  <2>2. x \in Leaves(T) /\ y \in Leaves(T) /\ x \in DOMAIN T /\ y \in DOMAIN T
    BY <1>2, <1>9
  <2>3. CASE x \notin {p, q} /\ y \notin {p, q}
    BY <1>5, <1>10, <2>1, <2>2, <2>3
  <2>4. CASE x \in {p, q} /\ y \in {p, q}
    BY <1>1, <1>5, <1>7, <1>10, <2>1, <2>4
  <2>5. CASE x \in {p, q} /\ y \notin {p, q}
    BY <1>1, <1>5, <1>7, <1>10, <2>1, <2>2, <2>5
  <2>6. CASE x \notin {p, q} /\ y \in {p, q}
    BY <1>1, <1>5, <1>7, <1>10, <2>1, <2>2, <2>6
  <2> QED BY <2>3, <2>4, <2>5, <2>6
<1>11. IsLayout(G)
  BY <1>5, <1>8, <1>10 DEF IsLayout
<1>12. LeafIds(G) = LeafIds(T)
  <2>1. T[p].id = a /\ T[q].id = b /\ G[p].id = b /\ G[q].id = a
    BY <1>1, <1>5, <1>7, NodeKinds
  <2>2. \A x \in Leaves(T) : x \notin {p, q} => G[x].id = T[x].id
    BY <1>2, <1>5
  <2>3. LeafIds(G) \subseteq LeafIds(T)
    BY <1>1, <1>9, <2>1, <2>2 DEF LeafIds
  <2>4. LeafIds(T) \subseteq LeafIds(G)
    BY <1>1, <1>9, <2>1, <2>2 DEF LeafIds
  <2> QED BY <2>3, <2>4
<1> QED BY <1>11, <1>12 DEF G

(* moveLeaf and closeLeaf. *)
LEMMA MoveKeeps ==
  ASSUME NEW T, IsLayout(T), NEW a \in LeafIds(T), NEW b \in LeafIds(T), NEW zone
  PROVE  IsLayout(MoveLeaf(T, a, b, zone)) /\ LeafIds(MoveLeaf(T, a, b, zone)) = LeafIds(T)
<1>1. CASE a = b
  BY <1>1 DEF MoveLeaf
<1>2. CASE a # b /\ zone = "center"
  BY <1>2, SwapKeeps DEF MoveLeaf
<1>3. CASE a # b /\ zone # "center"
  <2> DEFINE W == Without(T, a)
  <2>1. LeafIds(T) # {a} /\ a \in Ids
    BY <1>3, AtIt
  <2>2. IsLayout(W) /\ LeafIds(W) = LeafIds(T) \ {a}
    BY <2>1, WithoutTakes
  <2>3. MoveLeaf(T, a, b, zone) = InsertLeaf(W, b, zone, a)
    BY <1>3 DEF MoveLeaf
  <2> HIDE DEF W
  <2>4. b \in LeafIds(W) /\ a \notin LeafIds(W)
    BY <1>3, <2>2
  <2>5. /\ IsLayout(InsertLeaf(W, b, zone, a))
        /\ LeafIds(InsertLeaf(W, b, zone, a)) = LeafIds(W) \cup {a}
    BY <2>1, <2>2, <2>4, InsertLeafAdds
  <2> QED BY <2>2, <2>3, <2>5
<1> QED BY <1>1, <1>2, <1>3

LEMMA CloseTakes ==
  ASSUME NEW T, IsLayout(T), NEW id \in LeafIds(T), NEW new \in Ids
  PROVE  /\ IsLayout(CloseLeaf(T, id, new))
         /\ LeafIds(CloseLeaf(T, id, new)) =
              IF LeafIds(T) = {id} THEN {new} ELSE LeafIds(T) \ {id}
BY LeafIsLayout, WithoutTakes DEF CloseLeaf

-----------------------------------------------------------------------------
(* Orders.  A strict total order on a finite set, given by what comes       *)
(* before each element, arranges it: each place is taken by one element.    *)

LEMMA Ranked ==
  ASSUME NEW S, IsFiniteSet(S), NEW A \in [S -> SUBSET S],
         \A x \in S : x \notin A[x],
         \A x, y \in S : x # y => x \in A[y] \/ y \in A[x],
         \A x, y \in S : y \in A[x] => A[y] \subseteq A[x]
  PROVE  /\ Cardinality(S) \in Nat
         /\ \A x \in S : Cardinality(A[x]) + 1 \in 1..Cardinality(S)
         /\ \A x, y \in S : Cardinality(A[x]) = Cardinality(A[y]) => x = y
         /\ \A i \in 1..Cardinality(S) : \E x \in S : Cardinality(A[x]) = i - 1
         /\ \A x, y \in S : x \in A[y] => Cardinality(A[x]) < Cardinality(A[y])
<1> DEFINE n == Cardinality(S)
           f == [x \in S |-> Cardinality(A[x]) + 1]
<1>1. n \in Nat
  BY FS_CardinalityType
<1>2. \A x \in S : IsFiniteSet(A[x]) /\ Cardinality(A[x]) \in Nat
  BY FS_Subset, FS_CardinalityType
<1>3. ASSUME NEW x \in S PROVE Cardinality(A[x]) + 1 \in 1..n
  <2>1. IsFiniteSet(S \ {x}) /\ Cardinality(S \ {x}) = n - 1
    BY FS_RemoveElement
  <2>2. A[x] \in SUBSET (S \ {x})
    OBVIOUS
  <2>3. Cardinality(A[x]) <= n - 1
    BY <2>1, <2>2, FS_Subset
  <2> QED BY <1>1, <1>2, <2>3
<1>4. ASSUME NEW x \in S, NEW y \in S, x \in A[y] PROVE Cardinality(A[x]) < Cardinality(A[y])
  <2>1. IsFiniteSet(A[y] \ {x}) /\ Cardinality(A[y] \ {x}) = Cardinality(A[y]) - 1
    BY <1>2, <1>4, FS_RemoveElement
  <2>2. A[x] \in SUBSET (A[y] \ {x})
    BY <1>4
  <2>3. Cardinality(A[x]) <= Cardinality(A[y]) - 1
    BY <2>1, <2>2, FS_Subset
  <2> QED BY <1>2, <2>3
<1>5. ASSUME NEW x \in S, NEW y \in S, Cardinality(A[x]) = Cardinality(A[y]) PROVE x = y
  BY <1>2, <1>4, <1>5
<1>6. f \in Injection(S, 1..n)
  <2>1. f \in [S -> 1..n]
    BY <1>3
  <2>2. \A x, y \in S : f[x] = f[y] => x = y
    BY <1>2, <1>5
  <2> HIDE DEF f, n
  <2> QED BY <2>1, <2>2 DEF Injection, IsInjective
<1>7. f \in Surjection(S, 1..n)
  <2>1. IsFiniteSet(1..n) /\ Cardinality(1..n) = n
    BY <1>1, FS_Interval
  <2> HIDE DEF f
  <2> QED BY <1>6, <2>1, FS_Injection
<1>8. ASSUME NEW i \in 1..n PROVE \E x \in S : Cardinality(A[x]) = i - 1
  <2>1. PICK x \in S : f[x] = i
    <3> HIDE DEF f
    <3> QED BY <1>7 DEF Surjection
  <2> QED BY <1>1, <1>2, <2>1
<1> QED BY <1>1, <1>3, <1>4, <1>5, <1>8

Enumerates(s, X) ==
  /\ s \in Seq(X)
  /\ \A i, j \in 1..Len(s) : s[i] = s[j] => i = j
  /\ \A x \in X : \E i \in 1..Len(s) : s[i] = x

LEMMA Entries ==
  ASSUME NEW s, NEW X, Enumerates(s, X)
  PROVE  Len(s) \in Nat /\ DOMAIN s = 1..Len(s) /\ \A i \in 1..Len(s) : s[i] \in X
BY DEF Enumerates

LEMMA Arranges ==
  ASSUME NEW S, IsFiniteSet(S), NEW A \in [S -> SUBSET S],
         \A x \in S : x \notin A[x],
         \A x, y \in S : x # y => x \in A[y] \/ y \in A[x],
         \A x, y \in S : y \in A[x] => A[y] \subseteq A[x],
         NEW s, s = [i \in 1..Cardinality(S) |-> s[i]],
         \A i \in 1..Cardinality(S) :
           (\E x \in S : Cardinality(A[x]) = i - 1) => s[i] \in S /\ Cardinality(A[s[i]]) = i - 1
  PROVE  Enumerates(s, S) /\ \A i, j \in 1..Len(s) : i < j <=> s[i] \in A[s[j]]
<1>1. /\ Cardinality(S) \in Nat
      /\ \A x \in S : Cardinality(A[x]) + 1 \in 1..Cardinality(S)
      /\ \A x, y \in S : Cardinality(A[x]) = Cardinality(A[y]) => x = y
      /\ \A i \in 1..Cardinality(S) : \E x \in S : Cardinality(A[x]) = i - 1
      /\ \A x, y \in S : x \in A[y] => Cardinality(A[x]) < Cardinality(A[y])
  BY Ranked
<1>2. \A i \in 1..Cardinality(S) : s[i] \in S /\ Cardinality(A[s[i]]) = i - 1
  BY <1>1
<1>3. s \in Seq(S) /\ Len(s) = Cardinality(S) /\ DOMAIN s = 1..Cardinality(S)
  BY <1>1, <1>2
<1>4. ASSUME NEW x \in S PROVE \E i \in 1..Len(s) : s[i] = x
  <2>1. Cardinality(A[x]) \in Nat
    BY FS_Subset, FS_CardinalityType
  <2>2. (Cardinality(A[x]) + 1) - 1 = Cardinality(A[x])
    BY <2>1
  <2>3. s[Cardinality(A[x]) + 1] = x
    BY <1>1, <1>2, <2>2
  <2> QED BY <1>1, <1>3, <2>3
<1>5. ASSUME NEW i \in 1..Len(s), NEW j \in 1..Len(s), s[i] = s[j] PROVE i = j
  <2>1. i - 1 = j - 1
    BY <1>2, <1>3, <1>5
  <2> QED BY <2>1
<1>6. ASSUME NEW i \in 1..Len(s), NEW j \in 1..Len(s), s[i] \in A[s[j]] PROVE i < j
  <2>1. Cardinality(A[s[i]]) < Cardinality(A[s[j]])
    BY <1>1, <1>2, <1>3, <1>6
  <2>2. Cardinality(A[s[i]]) = i - 1 /\ Cardinality(A[s[j]]) = j - 1
    BY <1>2, <1>3
  <2>3. i \in Int /\ j \in Int
    BY <1>3
  <2> QED BY <2>1, <2>2, <2>3
<1>7. ASSUME NEW i \in 1..Len(s), NEW j \in 1..Len(s), i < j PROVE s[i] \in A[s[j]]
  <2>0. i \in Int /\ j \in Int
    BY <1>3
  <2>1. s[i] \in S /\ s[j] \in S /\ s[i] # s[j]
    <3>1. s[i] \in S /\ s[j] \in S
      BY <1>2, <1>3
    <3>2. s[i] = s[j] => i = j
      BY <1>5
    <3> QED BY <1>7, <2>0, <3>1, <3>2
  <2>2. s[j] \notin A[s[i]]
    <3> SUFFICES ASSUME s[j] \in A[s[i]] PROVE FALSE
      OBVIOUS
    <3>1. j < i
      BY <1>6
    <3> QED BY <1>7, <2>0, <3>1
  <2> QED BY <2>1, <2>2
<1> QED BY <1>3, <1>4, <1>5, <1>6, <1>7 DEF Enumerates

(* The leaves of a tree in the order of their positions.                    *)
LEMMA Comparable ==
  ASSUME NEW p \in Path, NEW q \in Path, ~IsPrefix(p, q), ~IsPrefix(q, p)
  PROVE  Precedes(p, q) \/ Precedes(q, p)
<1> DEFINE D == {i \in Nat : i \in 1..Len(p) /\ i \in 1..Len(q) /\ p[i] # q[i]}
<1>1. Len(p) \in Nat /\ Len(q) \in Nat /\ DOMAIN p = 1..Len(p) /\ DOMAIN q = 1..Len(q)
  BY DEF Path
<1>2. D # {}
  <2>1. ASSUME D = {} PROVE FALSE
    <3>1. \A i \in 1..Len(p) : i \in 1..Len(q) => p[i] = q[i]
      BY <1>1, <2>1
    <3>2. CASE Len(p) <= Len(q)
      <4>1. SubSeq(p, 1, Len(p)) = SubSeq(q, 1, Len(p))
        BY <1>1, <3>1, <3>2 DEF Path
      <4> QED BY <3>2, <4>1 DEF IsPrefix
    <3>3. CASE Len(q) <= Len(p)
      <4>1. SubSeq(q, 1, Len(q)) = SubSeq(p, 1, Len(q))
        BY <1>1, <3>1, <3>3 DEF Path
      <4> QED BY <3>3, <4>1 DEF IsPrefix
    <3> QED BY <1>1, <3>2, <3>3
  <2> QED BY <2>1
<1>3. PICK i \in D : \A j \in D : i <= j
  <2>1. D \subseteq Nat
    OBVIOUS
  <2> HIDE DEF D
  <2> QED BY <1>2, <2>1, NatMin
<1>4. p[i] \in {1, 2} /\ q[i] \in {1, 2} /\ p[i] # q[i]
  BY DEF Path
<1>5. \A j \in 1..(i - 1) : p[j] = q[j]
  <2> SUFFICES ASSUME NEW j \in 1..(i - 1), p[j] # q[j] PROVE FALSE
    OBVIOUS
  <2>1. j \in Nat /\ j \in 1..Len(p) /\ j \in 1..Len(q) /\ j < i
    BY <1>1
  <2> QED BY <1>3, <2>1
<1>6. i \in DOMAIN p \cap DOMAIN q
  BY <1>1
<1>7. CASE p[i] < q[i]
  BY <1>5, <1>6, <1>7 DEF Precedes
<1>8. CASE q[i] < p[i]
  BY <1>5, <1>6, <1>8 DEF Precedes
<1> QED BY <1>4, <1>7, <1>8

LEMMA PrecedesOrders ==
  /\ \A p \in Path : ~Precedes(p, p)
  /\ \A p, q, r \in Path : Precedes(p, q) /\ Precedes(q, r) => Precedes(p, r)
<1>1. \A p \in Path : DOMAIN p = 1..Len(p) /\ Len(p) \in Nat /\ \A i \in 1..Len(p) : p[i] \in {1, 2}
  BY DEF Path
<1>2. ASSUME NEW p \in Path PROVE ~Precedes(p, p)
  BY <1>1 DEF Precedes
<1>3. ASSUME NEW p \in Path, NEW q \in Path, NEW r \in Path, Precedes(p, q), Precedes(q, r)
      PROVE  Precedes(p, r)
  <2>1. PICK i \in DOMAIN p \cap DOMAIN q : p[i] < q[i] /\ \A j \in 1..(i - 1) : p[j] = q[j]
    BY <1>3 DEF Precedes
  <2>2. PICK k \in DOMAIN q \cap DOMAIN r : q[k] < r[k] /\ \A j \in 1..(k - 1) : q[j] = r[j]
    BY <1>3 DEF Precedes
  <2>3. CASE i < k
    <3>1. i \in 1..(k - 1) /\ i \in DOMAIN p \cap DOMAIN r
      BY <1>1, <2>3
    <3>2. p[i] < r[i] /\ \A j \in 1..(i - 1) : p[j] = r[j]
      BY <1>1, <2>1, <2>2, <2>3, <3>1
    <3> QED BY <3>1, <3>2 DEF Precedes
  <2>4. CASE i = k
    <3>1. i \in DOMAIN p \cap DOMAIN r
      BY <2>4
    <3>2. p[i] < r[i] /\ \A j \in 1..(i - 1) : p[j] = r[j]
      BY <1>1, <2>1, <2>2, <2>4, <3>1
    <3> QED BY <3>1, <3>2 DEF Precedes
  <2>5. CASE k < i
    <3>1. k \in 1..(i - 1) /\ k \in DOMAIN p \cap DOMAIN r
      BY <1>1, <2>5
    <3>2. p[k] < r[k] /\ \A j \in 1..(k - 1) : p[j] = r[j]
      BY <1>1, <2>1, <2>2, <2>5, <3>1
    <3> QED BY <3>1, <3>2 DEF Precedes
  <2> QED BY <1>1, <2>3, <2>4, <2>5
<1> QED BY <1>2, <1>3

LEMMA LeavesInOrder ==
  ASSUME NEW T, IsLayout(T)
  PROVE  /\ Leaves(T) \subseteq Path /\ IsFiniteSet(Leaves(T))
         /\ \A p, q \in Leaves(T) : p # q => Precedes(p, q) \/ Precedes(q, p)
<1>1. Leaves(T) \subseteq Path /\ Leaves(T) \subseteq DOMAIN T
  BY LeafOf
<1>2. IsFiniteSet(Leaves(T))
  BY <1>1, Positions, FS_Subset
<1>3. ASSUME NEW p \in Leaves(T), NEW q \in Leaves(T), p # q PROVE Precedes(p, q) \/ Precedes(q, p)
  BY <1>1, <1>3, LeavesApart, Comparable
<1> QED BY <1>1, <1>2, <1>3

(* A sequence of all leaves gives one of all panes. *)
LEMMA IdsOfLeaves ==
  ASSUME NEW T, IsLayout(T), NEW s, Enumerates(s, Leaves(T)), NEW ids, ids = [i \in DOMAIN s |-> T[s[i]].id]
  PROVE  Enumerates(ids, LeafIds(T)) /\ ids # <<>>
<1>1. Len(s) \in Nat /\ DOMAIN s = 1..Len(s) /\ \A i \in 1..Len(s) : s[i] \in Leaves(T)
  BY DEF Enumerates
<1>2. \A i \in 1..Len(s) : ids[i] = T[s[i]].id /\ T[s[i]].id \in LeafIds(T)
  BY <1>1 DEF LeafIds
<1>3. ids \in Seq(LeafIds(T)) /\ Len(ids) = Len(s)
  BY <1>1, <1>2
<1>4. ASSUME NEW i \in 1..Len(ids), NEW j \in 1..Len(ids), ids[i] = ids[j] PROVE i = j
  <2>1. s[i] = s[j]
    BY <1>1, <1>2, <1>3, <1>4, Positions
  <2> QED BY <1>3, <2>1 DEF Enumerates
<1>5. ASSUME NEW x \in LeafIds(T) PROVE \E i \in 1..Len(ids) : ids[i] = x
  <2>1. PICK p \in Leaves(T) : T[p].id = x
    BY DEF LeafIds
  <2>2. PICK i \in 1..Len(s) : s[i] = p
    BY DEF Enumerates
  <2> QED BY <1>2, <1>3, <2>1, <2>2
<1>6. ids # <<>>
  <2>1. PICK x \in LeafIds(T) : TRUE
    BY HasLeaf
  <2>2. PICK i \in 1..Len(ids) : ids[i] = x
    BY <1>5
  <2> QED BY <1>3, <2>2
<1> QED BY <1>3, <1>4, <1>5, <1>6 DEF Enumerates

(* collectLeaves lists every leaf once, in the order of the positions. *)
LEMMA InOrderLeaves ==
  ASSUME NEW T, IsLayout(T)
  PROVE  \E s : /\ Enumerates(s, Leaves(T)) /\ InOrder(T) = [i \in DOMAIN s |-> T[s[i]].id]
                /\ \A i, j \in 1..Len(s) : i < j <=> Precedes(s[i], s[j])
<1> DEFINE S == Leaves(T)
           A == [x \in S |-> {y \in S : Precedes(y, x)}]
           s == Arranged(S, Precedes)
<1>1. S \subseteq Path /\ IsFiniteSet(S)
  BY LeavesInOrder
<1>2. A \in [S -> SUBSET S]
  OBVIOUS
<1>3. /\ \A x \in S : x \notin A[x]
      /\ \A x, y \in S : x # y => x \in A[y] \/ y \in A[x]
      /\ \A x, y \in S : y \in A[x] => A[y] \subseteq A[x]
  BY <1>1, LeavesInOrder, PrecedesOrders
<1>4. s = [i \in 1..Cardinality(S) |-> CHOOSE x \in S : Cardinality({y \in S : Precedes(y, x)}) = i - 1]
  BY DEF Arranged
<1>5. s = [i \in 1..Cardinality(S) |-> s[i]]
  BY <1>4
<1>6. ASSUME NEW i \in 1..Cardinality(S), \E x \in S : Cardinality(A[x]) = i - 1
      PROVE  s[i] \in S /\ Cardinality(A[s[i]]) = i - 1
  <2>1. \E x \in S : Cardinality({y \in S : Precedes(y, x)}) = i - 1
    BY <1>6
  <2>2. s[i] = CHOOSE x \in S : Cardinality({y \in S : Precedes(y, x)}) = i - 1
    BY <1>4
  <2>3. s[i] \in S /\ Cardinality({y \in S : Precedes(y, s[i])}) = i - 1
    BY <2>1, <2>2
  <2> QED BY <2>3
<1> HIDE DEF A, s
<1>7. Enumerates(s, S) /\ \A i, j \in 1..Len(s) : i < j <=> s[i] \in A[s[j]]
  BY <1>1, <1>2, <1>3, <1>5, <1>6, Arranges
<1>8. InOrder(T) = [i \in DOMAIN s |-> T[s[i]].id]
  BY DEF InOrder, s
<1>9. ASSUME NEW i \in 1..Len(s), NEW j \in 1..Len(s) PROVE i < j <=> Precedes(s[i], s[j])
  <2>1. s[i] \in S /\ s[j] \in S
    BY <1>7, Entries
  <2>2. i < j <=> s[i] \in A[s[j]]
    BY <1>7
  <2> QED BY <2>1, <2>2 DEF A
<1> QED BY <1>7, <1>8, <1>9

(* Hence every pane. *)
LEMMA InOrderLists ==
  ASSUME NEW T, IsLayout(T)
  PROVE  Enumerates(InOrder(T), LeafIds(T)) /\ InOrder(T) # <<>>
BY InOrderLeaves, IdsOfLeaves

(* collectLeavesForAddView lists every pane once: the rows of a tree are    *)
(* numbers, and within a row the panes are in order, one way or the other.  *)
Rows(T) == [p \in Leaves(T) |-> RowOf(T, p)]
ReadBefore(row, p, q) ==
  IF row[p] # row[q] THEN row[p] < row[q]
  ELSE IF row[p] = 0 THEN Precedes(p, q) ELSE Precedes(q, p)

LEMMA ReadingLeaves ==
  ASSUME NEW T, IsLayout(T)
  PROVE  \E s : /\ Enumerates(s, Leaves(T)) /\ Reading(T) = [i \in DOMAIN s |-> T[s[i]].id]
                /\ \A i, j \in 1..Len(s) : i < j <=> ReadBefore(Rows(T), s[i], s[j])
<1> DEFINE S == Leaves(T)
           row == Rows(T)
           before(p, q) == ReadBefore(row, p, q)
           A == [x \in S |-> {y \in S : before(y, x)}]
           s == Arranged(S, before)
<1>1. S \subseteq Path /\ IsFiniteSet(S)
  BY LeavesInOrder
<1>2. \A p \in S : row[p] \in Nat
  <2> SUFFICES ASSUME NEW p \in S PROVE RowOf(T, p) \in Nat
    BY DEF Rows
  <2>1. IsFiniteSet({q \in S : IsPrefix(ColumnOf(T, p), q) /\ Precedes(q, p)})
    BY <1>1, FS_Subset
  <2> QED BY <2>1, FS_CardinalityType DEF RowOf
<1>3. A \in [S -> SUBSET S]
  OBVIOUS
<1>4. \A x \in S : x \notin A[x]
  BY <1>1, <1>2, PrecedesOrders DEF ReadBefore
<1>5. \A x, y \in S : x # y => before(x, y) \/ before(y, x)
  BY <1>1, <1>2, LeavesInOrder DEF ReadBefore
<1>6. \A x, y, z \in S : before(z, y) /\ before(y, x) => before(z, x)
  <2> SUFFICES ASSUME NEW x \in S, NEW y \in S, NEW z \in S, before(z, y), before(y, x)
               PROVE  before(z, x)
    OBVIOUS
  <2>1. row[x] \in Nat /\ row[y] \in Nat /\ row[z] \in Nat
    BY <1>2
  <2>2. CASE row[z] = row[y] /\ row[y] = row[x]
    <3>1. x \in Path /\ y \in Path /\ z \in Path
      BY <1>1
    <3>2. /\ Precedes(z, y) /\ Precedes(y, x) => Precedes(z, x)
          /\ Precedes(x, y) /\ Precedes(y, z) => Precedes(x, z)
      BY <3>1, PrecedesOrders
    <3> QED BY <2>2, <3>2 DEF ReadBefore
  <2>3. CASE row[z] # row[y] \/ row[y] # row[x]
    <3>1. row[z] < row[x]
      BY <2>1, <2>3 DEF ReadBefore
    <3> QED BY <2>1, <3>1 DEF ReadBefore
  <2> QED BY <2>2, <2>3
<1>7. s = [i \in 1..Cardinality(S) |-> CHOOSE x \in S : Cardinality({y \in S : before(y, x)}) = i - 1]
  BY DEF Arranged
<1>8. s = [i \in 1..Cardinality(S) |-> s[i]]
  BY <1>7
<1>9. ASSUME NEW i \in 1..Cardinality(S), \E x \in S : Cardinality(A[x]) = i - 1
      PROVE  s[i] \in S /\ Cardinality(A[s[i]]) = i - 1
  <2>1. \E x \in S : Cardinality({y \in S : before(y, x)}) = i - 1
    BY <1>9
  <2>2. s[i] = CHOOSE x \in S : Cardinality({y \in S : before(y, x)}) = i - 1
    BY <1>7
  <2>3. s[i] \in S /\ Cardinality({y \in S : before(y, s[i])}) = i - 1
    BY <2>1, <2>2
  <2> QED BY <2>3
<1>10. /\ \A x, y \in S : x # y => x \in A[y] \/ y \in A[x]
       /\ \A x, y \in S : y \in A[x] => A[y] \subseteq A[x]
  BY <1>5, <1>6
<1>11. Reading(T) = [i \in DOMAIN s |-> T[s[i]].id]
  BY DEF Reading, ReadBefore, Rows
<1> HIDE DEF A, s
<1>12. Enumerates(s, S) /\ \A i, j \in 1..Len(s) : i < j <=> s[i] \in A[s[j]]
  BY <1>1, <1>3, <1>4, <1>8, <1>9, <1>10, Arranges
<1>13. ASSUME NEW i \in 1..Len(s), NEW j \in 1..Len(s) PROVE i < j <=> before(s[i], s[j])
  <2>1. s[i] \in S /\ s[j] \in S
    BY <1>12, Entries
  <2>2. i < j <=> s[i] \in A[s[j]]
    BY <1>12
  <2> QED BY <2>1, <2>2 DEF A
<1> QED BY <1>11, <1>12, <1>13

LEMMA ReadingLists ==
  ASSUME NEW T, IsLayout(T)
  PROVE  Enumerates(Reading(T), LeafIds(T)) /\ Reading(T) # <<>>
<1>1. PICK s : Enumerates(s, Leaves(T)) /\ Reading(T) = [i \in DOMAIN s |-> T[s[i]].id]
  BY ReadingLeaves
<1> QED BY <1>1, IdsOfLeaves

-----------------------------------------------------------------------------
(* The order of the panes.                                                  *)

LEMMA BeforeInOrder ==
  ASSUME NEW T, IsLayout(T), NEW x, NEW y
  PROVE  Before(InOrder(T), x, y) <=>
           x \in LeafIds(T) /\ y \in LeafIds(T) /\ Precedes(At(T, x), At(T, y))
<1>1. PICK s : /\ Enumerates(s, Leaves(T)) /\ InOrder(T) = [i \in DOMAIN s |-> T[s[i]].id]
               /\ \A i, j \in 1..Len(s) : i < j <=> Precedes(s[i], s[j])
  BY InOrderLeaves
<1>2. Len(s) \in Nat /\ DOMAIN s = 1..Len(s) /\ \A i \in 1..Len(s) : s[i] \in Leaves(T)
  BY <1>1 DEF Enumerates
<1>3. \A i \in 1..Len(s) : T[s[i]].id \in LeafIds(T) /\ s[i] = At(T, T[s[i]].id)
  BY <1>2, AtIt DEF LeafIds
<1>4. \A z \in LeafIds(T) : \E i \in 1..Len(s) : s[i] = At(T, z) /\ T[s[i]].id = z
  <2> SUFFICES ASSUME NEW z \in LeafIds(T) PROVE \E i \in 1..Len(s) : s[i] = At(T, z) /\ T[s[i]].id = z
    OBVIOUS
  <2>1. At(T, z) \in Leaves(T) /\ T[At(T, z)].id = z
    BY AtIt, NodeKinds
  <2> QED BY <1>1, <2>1 DEF Enumerates
<1>5. ASSUME Before(InOrder(T), x, y)
      PROVE  x \in LeafIds(T) /\ y \in LeafIds(T) /\ Precedes(At(T, x), At(T, y))
  <2>1. PICK i \in 1..Len(s), j \in 1..Len(s) : i < j /\ InOrder(T)[i] = x /\ InOrder(T)[j] = y
    BY <1>1, <1>2, <1>5 DEF Before
  <2>2. T[s[i]].id = x /\ T[s[j]].id = y
    BY <1>1, <1>2, <2>1
  <2> QED BY <1>1, <1>3, <2>1, <2>2
<1>6. ASSUME x \in LeafIds(T), y \in LeafIds(T), Precedes(At(T, x), At(T, y))
      PROVE  Before(InOrder(T), x, y)
  <2>1. PICK i \in 1..Len(s) : s[i] = At(T, x) /\ T[s[i]].id = x
    BY <1>4, <1>6
  <2>2. PICK j \in 1..Len(s) : s[j] = At(T, y) /\ T[s[j]].id = y
    BY <1>4, <1>6
  <2>3. i < j
    BY <1>1, <1>6, <2>1, <2>2
  <2>4. InOrder(T)[i] = x /\ InOrder(T)[j] = y /\ DOMAIN InOrder(T) = 1..Len(s)
    BY <1>1, <1>2, <2>1, <2>2
  <2> QED BY <2>3, <2>4 DEF Before
<1> QED BY <1>5, <1>6

(* A pane that comes before another with none between them is next to it.   *)
LEMMA NextInOrder ==
  ASSUME NEW T, IsLayout(T), NEW a \in LeafIds(T), NEW b \in LeafIds(T), Precedes(At(T, a), At(T, b)),
         \A q \in Leaves(T) : ~(Precedes(At(T, a), q) /\ Precedes(q, At(T, b)))
  PROVE  IsNextTo(InOrder(T), a, b)
<1>1. PICK s : /\ Enumerates(s, Leaves(T)) /\ InOrder(T) = [i \in DOMAIN s |-> T[s[i]].id]
               /\ \A i, j \in 1..Len(s) : i < j <=> Precedes(s[i], s[j])
  BY InOrderLeaves
<1>2. Len(s) \in Nat /\ DOMAIN s = 1..Len(s) /\ \A i \in 1..Len(s) : s[i] \in Leaves(T)
  BY <1>1 DEF Enumerates
<1>3. /\ At(T, a) \in Leaves(T) /\ T[At(T, a)].id = a
      /\ At(T, b) \in Leaves(T) /\ T[At(T, b)].id = b
  BY AtIt, NodeKinds
<1>4. PICK i \in 1..Len(s) : s[i] = At(T, a)
  BY <1>1, <1>3 DEF Enumerates
<1>5. PICK j \in 1..Len(s) : s[j] = At(T, b)
  BY <1>1, <1>3 DEF Enumerates
<1>6. i < j
  BY <1>1, <1>4, <1>5
<1>7. j = i + 1
  <2> SUFFICES ASSUME i + 1 < j PROVE FALSE
    BY <1>2, <1>6
  <2>1. i + 1 \in 1..Len(s) /\ i < i + 1
    BY <1>2
  <2>2. s[i + 1] \in Leaves(T) /\ Precedes(s[i], s[i + 1]) /\ Precedes(s[i + 1], s[j])
    BY <1>1, <1>2, <2>1
  <2> QED BY <1>4, <1>5, <2>2
<1>8. InOrder(T)[i] = a /\ InOrder(T)[i + 1] = b /\ Len(InOrder(T)) = Len(s)
  BY <1>1, <1>2, <1>3, <1>4, <1>5, <1>7
<1>9. i \in 1..(Len(InOrder(T)) - 1)
  BY <1>2, <1>6, <1>8
<1> QED BY <1>8, <1>9 DEF IsNextTo

(* What is below a position comes before or after the same as the position. *)
LEMMA BelowPrecedes ==
  ASSUME NEW f \in Path, NEW q \in Path, ~IsPrefix(f, q), ~IsPrefix(q, f), NEW r \in Path
  PROVE  /\ Precedes(f \o r, q) <=> Precedes(f, q)
         /\ Precedes(q, f \o r) <=> Precedes(q, f)
<1>1. PICK fr \in Path : /\ fr = f \o r /\ Len(fr) = Len(f) + Len(r)
                         /\ \A i \in 1..Len(f) : fr[i] = f[i]
  BY Joint
<1>2. /\ Len(f) \in Nat /\ Len(r) \in Nat /\ Len(q) \in Nat
      /\ DOMAIN f = 1..Len(f) /\ DOMAIN q = 1..Len(q) /\ DOMAIN fr = 1..Len(fr)
  BY DEF Path
<1>3. Precedes(f, q) \/ Precedes(q, f)
  BY Comparable
<1>4. ASSUME Precedes(f, q) PROVE Precedes(fr, q)
  <2>1. PICK i \in DOMAIN f \cap DOMAIN q : f[i] < q[i] /\ \A j \in 1..(i - 1) : f[j] = q[j]
    BY <1>4 DEF Precedes
  <2>2. i \in DOMAIN fr /\ fr[i] < q[i]
    BY <1>1, <1>2, <2>1
  <2>3. \A j \in 1..(i - 1) : fr[j] = q[j]
    BY <1>1, <1>2, <2>1
  <2> QED BY <2>1, <2>2, <2>3 DEF Precedes
<1>5. ASSUME Precedes(q, f) PROVE Precedes(q, fr)
  <2>1. PICK i \in DOMAIN q \cap DOMAIN f : q[i] < f[i] /\ \A j \in 1..(i - 1) : q[j] = f[j]
    BY <1>5 DEF Precedes
  <2>2. i \in DOMAIN fr /\ q[i] < fr[i]
    BY <1>1, <1>2, <2>1
  <2>3. \A j \in 1..(i - 1) : q[j] = fr[j]
    BY <1>1, <1>2, <2>1
  <2> QED BY <2>1, <2>2, <2>3 DEF Precedes
<1>6. ~(Precedes(fr, q) /\ Precedes(q, fr)) /\ ~(Precedes(f, q) /\ Precedes(q, f))
  BY PrecedesOrders
<1> QED BY <1>1, <1>3, <1>4, <1>5, <1>6

LEMMA PrecedesBelow ==
  ASSUME NEW f \in Path, NEW r \in Path, NEW t \in Path
  PROVE  Precedes(f \o r, f \o t) <=> Precedes(r, t)
<1>1. PICK fr \in Path : /\ fr = f \o r /\ Len(fr) = Len(f) + Len(r)
                         /\ \A i \in 1..Len(f) : fr[i] = f[i]
                         /\ \A i \in 1..Len(r) : fr[Len(f) + i] = r[i]
  BY Joint
<1>2. PICK ft \in Path : /\ ft = f \o t /\ Len(ft) = Len(f) + Len(t)
                         /\ \A i \in 1..Len(f) : ft[i] = f[i]
                         /\ \A i \in 1..Len(t) : ft[Len(f) + i] = t[i]
  BY Joint
<1>3. /\ Len(f) \in Nat /\ Len(r) \in Nat /\ Len(t) \in Nat
      /\ DOMAIN r = 1..Len(r) /\ DOMAIN t = 1..Len(t)
      /\ DOMAIN fr = 1..Len(fr) /\ DOMAIN ft = 1..Len(ft)
      /\ \A i \in 1..Len(f) : f[i] \in {1, 2}
  BY DEF Path
<1>4. ASSUME Precedes(r, t) PROVE Precedes(fr, ft)
  <2>1. PICK i \in DOMAIN r \cap DOMAIN t : r[i] < t[i] /\ \A j \in 1..(i - 1) : r[j] = t[j]
    BY <1>4 DEF Precedes
  <2>2. Len(f) + i \in DOMAIN fr /\ Len(f) + i \in DOMAIN ft /\ fr[Len(f) + i] < ft[Len(f) + i]
    BY <1>1, <1>2, <1>3, <2>1
  <2>3. ASSUME NEW j \in 1..(Len(f) + i - 1) PROVE fr[j] = ft[j]
    <3>1. CASE j <= Len(f)
      <4>1. j \in 1..Len(f)
        BY <1>3, <3>1
      <4> QED BY <1>1, <1>2, <4>1
    <3>2. CASE j > Len(f)
      <4>1. PICK k \in 1..(i - 1) : j = Len(f) + k
        <5>1. j - Len(f) \in 1..(i - 1) /\ j = Len(f) + (j - Len(f))
          BY <1>3, <3>2
        <5> QED BY <5>1
      <4>2. k \in 1..Len(r) /\ k \in 1..Len(t)
        BY <1>3, <2>1
      <4>3. fr[Len(f) + k] = r[k] /\ ft[Len(f) + k] = t[k]
        BY <1>1, <1>2, <4>2
      <4> QED BY <2>1, <4>1, <4>3
    <3> QED BY <1>3, <3>1, <3>2
  <2> QED BY <2>2, <2>3 DEF Precedes
<1>5. ASSUME Precedes(fr, ft) PROVE Precedes(r, t)
  <2>1. PICK i \in DOMAIN fr \cap DOMAIN ft : fr[i] < ft[i] /\ \A j \in 1..(i - 1) : fr[j] = ft[j]
    BY <1>5 DEF Precedes
  <2>2. i > Len(f)
    <3> SUFFICES ASSUME i <= Len(f) PROVE FALSE
      BY <1>3
    <3>1. i \in 1..Len(f)
      BY <1>3
    <3>2. fr[i] = f[i] /\ ft[i] = f[i] /\ f[i] \in {1, 2}
      BY <1>1, <1>2, <1>3, <3>1
    <3> QED BY <2>1, <3>2
  <2>3. PICK k \in Nat : i = Len(f) + k /\ k \in 1..Len(r) /\ k \in 1..Len(t)
    <3>1. i - Len(f) \in Nat /\ i = Len(f) + (i - Len(f))
      BY <1>3, <2>2
    <3>2. i - Len(f) \in 1..Len(r) /\ i - Len(f) \in 1..Len(t)
      BY <1>1, <1>2, <1>3, <2>2
    <3> QED BY <3>1, <3>2
  <2>4. r[k] < t[k]
    BY <1>1, <1>2, <2>1, <2>3
  <2>5. ASSUME NEW j \in 1..(k - 1) PROVE r[j] = t[j]
    <3>1. j \in 1..Len(r) /\ j \in 1..Len(t) /\ Len(f) + j \in 1..(i - 1)
      BY <1>3, <2>3
    <3>2. fr[Len(f) + j] = r[j] /\ ft[Len(f) + j] = t[j]
      BY <1>1, <1>2, <3>1
    <3> QED BY <2>1, <3>1, <3>2
  <2> QED BY <1>3, <2>3, <2>4, <2>5 DEF Precedes
<1> QED BY <1>1, <1>2, <1>4, <1>5

(* The place of a leaf is where it is found.                                *)
LEMMA Placed ==
  ASSUME NEW T, IsLayout(T), NEW p \in DOMAIN T, NEW id, T[p] = LeafNode(id)
  PROVE  id \in LeafIds(T) /\ At(T, id) = p /\ p \in Path
<1>1. p \in Leaves(T) /\ T[p].id = id /\ p \in Path
  BY NodeKinds, Positions DEF Leaves
<1>2. id \in LeafIds(T)
  BY <1>1 DEF LeafIds
<1> QED BY <1>1, <1>2, AtIt

LEMMA PlaceOf ==
  ASSUME NEW T, IsLayout(T), NEW id \in LeafIds(T)
  PROVE  /\ At(T, id) \in Path /\ At(T, id) \in DOMAIN T /\ At(T, id) \in Leaves(T)
         /\ T[At(T, id)] = LeafNode(id) /\ T[At(T, id)].id = id /\ id \in Ids
BY AtIt, LeafOf, NodeKinds

(* Nothing is below a leaf.                                                 *)
LEMMA LeafNotAbove ==
  ASSUME NEW T, IsLayout(T), NEW x \in Leaves(T), NEW q \in DOMAIN T, IsPrefix(x, q)
  PROVE  q = x
<1>1. x \in Path /\ x \in DOMAIN T /\ q \in Path /\ ~IsSplit(T[x])
  BY LeafOf, Positions DEF Leaves
<1> SUFFICES ASSUME x # q PROVE FALSE
  OBVIOUS
<1>2. PICK c \in {1, 2} : IsPrefix(Append(x, c), q)
  BY <1>1, BelowChild
<1>3. Append(x, c) \in DOMAIN T
  BY <1>1, <1>2, Children, Closed
<1> QED BY <1>1, <1>3, Positions

(* Where the leaves of a subtree are in the tree.                           *)
LEMMA SubLeaves ==
  ASSUME NEW T, IsLayout(T), NEW p \in DOMAIN T, NEW x \in Under(T, p)
  PROVE  x \in LeafIds(T) /\ At(T, x) = p \o At(Sub(T, p), x)
<1>1. PICK a \in Leaves(T) : T[a].id = x /\ IsPrefix(p, a)
  BY DEF Under
<1>2. x \in LeafIds(T) /\ a = At(T, x) /\ a \in DOMAIN T /\ T[a] = LeafNode(x) /\ a \in Path /\ p \in Path
  BY <1>1, AtIt, LeafOf, Positions DEF LeafIds
<1>3. Below(p, a) \in Path /\ a = p \o Below(p, a)
  BY <1>1, <1>2, Above
<1>4. Below(p, a) \in DOMAIN Sub(T, p) /\ Sub(T, p)[Below(p, a)] = T[a]
  BY <1>1, <1>2, <1>3 DEF Sub
<1>5. IsLayout(Sub(T, p))
  BY SubIsLayout
<1>6. At(Sub(T, p), x) = Below(p, a)
  BY <1>2, <1>4, <1>5, Placed
<1> QED BY <1>2, <1>3, <1>6

(* Where the leaves of both are when a tree is put into another.            *)
LEMMA GraftLeaves ==
  ASSUME NEW T, IsLayout(T), NEW p \in DOMAIN T, NEW S, IsLayout(S),
         Beyond(T, p) \cap LeafIds(S) = {}
  PROVE  /\ \A x \in LeafIds(S) : At(Graft(T, p, S), x) = p \o At(S, x)
         /\ \A x \in Beyond(T, p) : /\ At(Graft(T, p, S), x) = At(T, x)
                                    /\ x \in LeafIds(T) /\ ~IsPrefix(p, At(T, x))
<1>1. IsLayout(Graft(T, p, S)) /\ p \in Path
  BY GraftIsLayout, Positions
<1>2. ASSUME NEW x \in LeafIds(S) PROVE At(Graft(T, p, S), x) = p \o At(S, x)
  <2>1. PICK r \in Path : r = At(S, x) /\ r \in DOMAIN S /\ S[r] = LeafNode(x)
    BY PlaceOf
  <2>2. IsPrefix(p, p \o r) /\ Below(p, p \o r) = r
    BY <1>1, BelowIt
  <2>3. p \o r \in DOMAIN Graft(T, p, S)
    BY <2>1 DEF Graft
  <2>4. Graft(T, p, S)[p \o r] = S[r]
    BY <2>2, <2>3 DEF Graft
  <2> QED BY <1>1, <2>1, <2>3, <2>4, Placed
<1>3. ASSUME NEW x \in Beyond(T, p)
      PROVE  At(Graft(T, p, S), x) = At(T, x) /\ x \in LeafIds(T) /\ ~IsPrefix(p, At(T, x))
  <2>1. PICK a \in Leaves(T) : T[a].id = x /\ ~IsPrefix(p, a)
    BY DEF Beyond
  <2>2. x \in LeafIds(T) /\ a = At(T, x) /\ a \in DOMAIN T /\ T[a] = LeafNode(x)
    BY <2>1, AtIt, LeafOf DEF LeafIds
  <2>3. a \in DOMAIN Graft(T, p, S) /\ Graft(T, p, S)[a] = T[a]
    BY <2>1, <2>2 DEF Graft
  <2> QED BY <1>1, <2>1, <2>2, <2>3, Placed
<1> QED BY <1>2, <1>3

(* Where the leaves of both are when two trees are put side by side.        *)
LEMMA SplitPlaces ==
  ASSUME NEW dir \in Dirs, NEW A, IsLayout(A), NEW B, IsLayout(B), LeafIds(A) \cap LeafIds(B) = {}
  PROVE  LET S == Split(dir, A, B) IN
         /\ <<>> \in DOMAIN S /\ S[<<>>] = SplitNode(dir)
         /\ \A q \in DOMAIN A : <<1>> \o q \in DOMAIN S /\ S[<<1>> \o q] = A[q]
         /\ \A q \in DOMAIN B : <<2>> \o q \in DOMAIN S /\ S[<<2>> \o q] = B[q]
         /\ \A x \in LeafIds(A) : At(S, x) = <<1>> \o At(A, x)
         /\ \A x \in LeafIds(B) : At(S, x) = <<2>> \o At(B, x)
<1> DEFINE S == Split(dir, A, B)
<1>1. IsLayout(S)
  BY SplitIsLayout
<1>2. DOMAIN S = {<<>>} \cup {<<1>> \o r : r \in DOMAIN A} \cup {<<2>> \o r : r \in DOMAIN B}
  BY DEF Split
<1>3. \A q \in DOMAIN S : S[q] = IF q = <<>> THEN SplitNode(dir)
                                 ELSE IF Head(q) = 1 THEN A[Tail(q)] ELSE B[Tail(q)]
  BY DEF Split
<1> HIDE DEF S
<1>4. ASSUME NEW q \in DOMAIN A
      PROVE  <<1>> \o q \in DOMAIN S /\ S[<<1>> \o q] = A[q]
  <2>1. PICK b \in Path : b = <<1>> \o q /\ b # <<>> /\ Head(b) = 1 /\ Tail(b) = q
    BY Positions, Branches
  <2>2. b \in DOMAIN S
    BY <1>2, <2>1
  <2>3. b # <<>> /\ Head(b) = 1 /\ Tail(b) = q
    BY <2>1
  <2>4. S[b] = A[q]
    BY <1>3, <2>2, <2>3
  <2> QED BY <2>1, <2>2, <2>4
<1>5. ASSUME NEW q \in DOMAIN B
      PROVE  <<2>> \o q \in DOMAIN S /\ S[<<2>> \o q] = B[q]
  <2>1. PICK b \in Path : b = <<2>> \o q /\ b # <<>> /\ Head(b) = 2 /\ Tail(b) = q
    BY Positions, Branches
  <2>2. b \in DOMAIN S
    BY <1>2, <2>1
  <2>3. b # <<>> /\ Head(b) # 1 /\ Tail(b) = q
    BY <2>1
  <2>4. S[b] = B[q]
    BY <1>3, <2>2, <2>3
  <2> QED BY <2>1, <2>2, <2>4
<1>6. ASSUME NEW x \in LeafIds(A) PROVE At(S, x) = <<1>> \o At(A, x)
  <2>1. At(A, x) \in DOMAIN A /\ A[At(A, x)] = LeafNode(x)
    BY PlaceOf
  <2>2. PICK b \in DOMAIN S : b = <<1>> \o At(A, x) /\ S[b] = LeafNode(x)
    BY <1>4, <2>1
  <2>3. S[b] = LeafNode(x)
    BY <2>2
  <2>4. At(S, x) = b
    BY <1>1, <2>3, Placed
  <2> QED BY <2>2, <2>4
<1>7. ASSUME NEW x \in LeafIds(B) PROVE At(S, x) = <<2>> \o At(B, x)
  <2>1. At(B, x) \in DOMAIN B /\ B[At(B, x)] = LeafNode(x)
    BY PlaceOf
  <2>2. PICK b \in DOMAIN S : b = <<2>> \o At(B, x) /\ S[b] = LeafNode(x)
    BY <1>5, <2>1
  <2>3. S[b] = LeafNode(x)
    BY <2>2
  <2>4. At(S, x) = b
    BY <1>1, <2>3, Placed
  <2> QED BY <2>2, <2>4
<1>8. <<>> \in DOMAIN S /\ S[<<>>] = SplitNode(dir)
  BY <1>2, <1>3
<1> QED BY <1>4, <1>5, <1>6, <1>7, <1>8 DEF S

LEMMA LeafPlace ==
  ASSUME NEW id \in Ids
  PROVE  At(Leaf(id), id) = <<>> /\ <<>> \in DOMAIN Leaf(id) /\ Leaf(id)[<<>>] = LeafNode(id)
<1>1. <<>> \in DOMAIN Leaf(id) /\ Leaf(id)[<<>>] = LeafNode(id)
  BY DEF Leaf
<1> QED BY <1>1, LeafIsLayout, Placed

LEMMA SplitLeaves ==
  ASSUME NEW dir \in Dirs, NEW u \in Ids, NEW v \in Ids, u # v
  PROVE  /\ At(Split(dir, Leaf(u), Leaf(v)), u) = <<1>>
         /\ At(Split(dir, Leaf(u), Leaf(v)), v) = <<2>>
         /\ <<1>> \in Path /\ <<2>> \in Path /\ Precedes(<<1>>, <<2>>)
<1>1. IsLayout(Leaf(u)) /\ LeafIds(Leaf(u)) = {u} /\ At(Leaf(u), u) = <<>>
  BY LeafIsLayout, LeafPlace
<1>2. IsLayout(Leaf(v)) /\ LeafIds(Leaf(v)) = {v} /\ At(Leaf(v), v) = <<>>
  BY LeafIsLayout, LeafPlace
<1>3. LeafIds(Leaf(u)) \cap LeafIds(Leaf(v)) = {}
  BY <1>1, <1>2
<1>4. /\ At(Split(dir, Leaf(u), Leaf(v)), u) = <<1>> \o <<>>
      /\ At(Split(dir, Leaf(u), Leaf(v)), v) = <<2>> \o <<>>
  <2> DEFINE S == Split(dir, Leaf(u), Leaf(v))
  <2>1. IsLayout(Leaf(u)) /\ IsLayout(Leaf(v))
    BY <1>1, <1>2
  <2>2. /\ \A x \in LeafIds(Leaf(u)) : At(S, x) = <<1>> \o At(Leaf(u), x)
        /\ \A x \in LeafIds(Leaf(v)) : At(S, x) = <<2>> \o At(Leaf(v), x)
    BY <1>3, <2>1, SplitPlaces
  <2> HIDE DEF S
  <2>3. At(S, u) = <<1>> \o <<>> /\ At(S, v) = <<2>> \o <<>>
    BY <1>1, <1>2, <2>2
  <2> QED BY <2>3 DEF S
<1>5. <<1>> \in Path /\ <<2>> \in Path /\ <<1>> \o <<>> = <<1>> /\ <<2>> \o <<>> = <<2>>
  <2>1. PICK one \in Path, two \in Path : one = <<1>> /\ two = <<2>>
    BY AtRoot, Children
  <2> QED BY <2>1, AtRoot
<1>6. Precedes(<<1>>, <<2>>)
  <2>1. 1 \in DOMAIN <<1>> \cap DOMAIN <<2>> /\ <<1>>[1] < <<2>>[1]
    OBVIOUS
  <2>2. \A j \in 1..(1 - 1) : <<1>>[j] = <<2>>[j]
    OBVIOUS
  <2> QED BY <2>1, <2>2 DEF Precedes
<1> QED BY <1>4, <1>5, <1>6

(* Closing a pane leaves the others in their order.                         *)
LEMMA WithoutInOrder ==
  ASSUME NEW T, IsLayout(T), NEW id \in LeafIds(T), LeafIds(T) # {id},
         NEW x \in LeafIds(T) \ {id}, NEW y \in LeafIds(T) \ {id}
  PROVE  Precedes(At(Without(T, id), x), At(Without(T, id), y)) <=> Precedes(At(T, x), At(T, y))
<1> DEFINE p == At(T, id)
           f == Front(p)
           c == Last(p)
           W == Without(T, id)
<1>1. p \in Leaves(T) /\ T[p].id = id /\ p \in DOMAIN T /\ p \in Path
  BY PlaceOf
<1>2. W = Graft(T, f, Sub(T, Append(f, 3 - c)))
  BY DEF Without
<1> HIDE DEF p, W
<1>3. p # <<>>
  <2>1. ASSUME p = <<>> PROVE FALSE
    <3>1. \A z \in Leaves(T) : IsPrefix(p, z)
      BY <2>1, LeafOf, AtRoot
    <3>2. Beyond(T, p) = {}
      BY <3>1 DEF Beyond
    <3> QED BY <1>1, <3>2, UnderLeaf
  <2> QED BY <2>1
<1>4. f \in DOMAIN T /\ f \in Path /\ c \in {1, 2} /\ p = Append(f, c)
  BY <1>1, <1>3, Parents, Positions
<1> HIDE DEF f, c
<1>5. IsSplit(T[f])
  BY <1>1, <1>4, Positions
<1>6. PICK o \in {1, 2} : o = 3 - c
  <2>1. 3 - c \in {1, 2}
    BY <1>4
  <2> QED BY <2>1
<1>7. PICK g \in Path : g = Append(f, 3 - c)
  BY <1>4, <1>6, Children
<1>8. /\ g \in DOMAIN T
      /\ Under(T, f) = Under(T, p) \cup Under(T, g)
      /\ Under(T, p) \cap Under(T, g) = {}
  <2>1. CASE c = 1
    BY <1>4, <1>5, <1>7, <2>1, UnderSplit
  <2>2. CASE c = 2
    BY <1>4, <1>5, <1>7, <2>2, UnderSplit
  <2> QED BY <1>4, <2>1, <2>2
<1>9. Under(T, p) = {id}
  BY <1>1, UnderLeaf
<1>10. IsLayout(Sub(T, g)) /\ LeafIds(Sub(T, g)) = Under(T, g)
  BY <1>8, SubIsLayout
<1>11. LeafIds(T) = Under(T, f) \cup Beyond(T, f) /\ Under(T, f) \cap Beyond(T, f) = {}
  BY InAndOut
<1>12. Beyond(T, f) \cap LeafIds(Sub(T, g)) = {}
  BY <1>8, <1>10, <1>11
<1>13. /\ \A z \in Under(T, g) : At(W, z) = f \o At(Sub(T, g), z)
       /\ \A z \in Beyond(T, f) : At(W, z) = At(T, z) /\ ~IsPrefix(f, At(T, z))
  BY <1>2, <1>4, <1>7, <1>10, <1>12, GraftLeaves
<1>14. PICK d \in Path : d = <<o>> /\ g = f \o d
  BY <1>4, <1>6, <1>7, Children
<1>15. ASSUME NEW z \in Under(T, g)
       PROVE  \E r \in Path : At(W, z) = f \o r /\ d \o r \in Path /\ At(T, z) = f \o (d \o r) /\ At(T, z) = g \o r
  <2>1. PICK r \in Path : r = At(Sub(T, g), z)
    BY <1>10, PlaceOf
  <2>2. At(T, z) = g \o r
    BY <1>8, <2>1, SubLeaves
  <2>3. d \in Path /\ r \in Path /\ f \in Path
    BY <1>4, <1>14, <2>1
  <2>4. d \o r \in Path
    BY <2>3, Joined
  <2>5. (f \o d) \o r = f \o (d \o r)
    BY <2>3, Associates, ZenonT(60)
  <2>6. At(W, z) = f \o r
    BY <1>13, <2>1
  <2>7. At(T, z) = f \o (d \o r)
    BY <1>14, <2>2, <2>5
  <2> QED BY <2>1, <2>2, <2>4, <2>6, <2>7
<1>16. ASSUME NEW z \in Beyond(T, f)
       PROVE  At(T, z) \in Path /\ ~IsPrefix(f, At(T, z)) /\ ~IsPrefix(At(T, z), f) /\ At(W, z) = At(T, z)
  <2>1. z \in LeafIds(T) /\ At(T, z) \in Path /\ At(T, z) \in Leaves(T)
    BY <1>11, PlaceOf
  <2>2. ~IsPrefix(f, At(T, z)) /\ At(W, z) = At(T, z)
    BY <1>13
  <2>3. ASSUME IsPrefix(At(T, z), f) PROVE FALSE
    <3>1. f = At(T, z)
      BY <1>4, <2>1, <2>3, LeafNotAbove
    <3> QED BY <1>5, <2>1, <3>1 DEF Leaves
  <2> QED BY <2>1, <2>2, <2>3
<1>17. x \in Under(T, g) \cup Beyond(T, f) /\ y \in Under(T, g) \cup Beyond(T, f)
  BY <1>8, <1>9, <1>11
<1>18. CASE x \in Under(T, g) /\ y \in Under(T, g)
  <2>1. PICK r \in Path : At(W, x) = f \o r /\ At(T, x) = g \o r
    BY <1>15, <1>18
  <2>2. PICK t \in Path : At(W, y) = f \o t /\ At(T, y) = g \o t
    BY <1>15, <1>18
  <2>3. /\ Precedes(f \o r, f \o t) <=> Precedes(r, t)
        /\ Precedes(g \o r, g \o t) <=> Precedes(r, t)
    BY <1>4, <2>1, <2>2, PrecedesBelow
  <2> QED BY <2>1, <2>2, <2>3 DEF W
<1>19. CASE x \in Under(T, g) /\ y \in Beyond(T, f)
  <2>1. PICK r \in Path : At(W, x) = f \o r /\ d \o r \in Path /\ At(T, x) = f \o (d \o r)
    BY <1>15, <1>19
  <2>2. /\ Precedes(f \o r, At(T, y)) <=> Precedes(f, At(T, y))
        /\ Precedes(f \o (d \o r), At(T, y)) <=> Precedes(f, At(T, y))
    BY <1>4, <1>16, <1>19, <2>1, BelowPrecedes
  <2> QED BY <1>16, <1>19, <2>1, <2>2 DEF W
<1>20. CASE x \in Beyond(T, f) /\ y \in Under(T, g)
  <2>1. PICK r \in Path : At(W, y) = f \o r /\ d \o r \in Path /\ At(T, y) = f \o (d \o r)
    BY <1>15, <1>20
  <2>2. /\ Precedes(At(T, x), f \o r) <=> Precedes(At(T, x), f)
        /\ Precedes(At(T, x), f \o (d \o r)) <=> Precedes(At(T, x), f)
    BY <1>4, <1>16, <1>20, <2>1, BelowPrecedes
  <2> QED BY <1>16, <1>20, <2>1, <2>2 DEF W
<1>21. CASE x \in Beyond(T, f) /\ y \in Beyond(T, f)
  BY <1>16, <1>21 DEF W
<1> QED BY <1>17, <1>18, <1>19, <1>20, <1>21

(* Putting a pane beside another too, and it is next to it.                 *)
LEMMA InsertInOrder ==
  ASSUME NEW T, IsLayout(T), NEW b \in LeafIds(T), NEW zone, NEW a \in Ids, a \notin LeafIds(T)
  PROVE  LET N == InsertLeaf(T, b, zone, a) IN
         /\ \A x, y \in LeafIds(T) : Precedes(At(N, x), At(N, y)) <=> Precedes(At(T, x), At(T, y))
         /\ IF zone \in {"left", "top"} THEN IsNextTo(InOrder(N), a, b)
                                        ELSE IsNextTo(InOrder(N), b, a)
<1> DEFINE N   == InsertLeaf(T, b, zone, a)
           p   == At(T, b)
           dir == IF zone \in {"left", "right"} THEN "row" ELSE "col"
           u   == IF zone \in {"left", "top"} THEN a ELSE b
           v   == IF zone \in {"left", "top"} THEN b ELSE a
           S   == Split(dir, Leaf(u), Leaf(v))
<1>1. p \in Leaves(T) /\ T[p].id = b /\ p \in DOMAIN T /\ b \in Ids /\ p \in Path
  BY PlaceOf
<1>2. N = Graft(T, p, S)
  BY DEF InsertLeaf
<1>3. dir \in Dirs
  BY DEF Dirs
<1>4. IsLayout(N) /\ LeafIds(N) = LeafIds(T) \cup {a}
  BY InsertLeafAdds
<1>5. u \in Ids /\ v \in Ids /\ u # v /\ {u, v} = {a, b}
  BY <1>1
<1>6. (zone \in {"left", "top"} => u = a /\ v = b) /\ (zone \notin {"left", "top"} => u = b /\ v = a)
  OBVIOUS
<1> HIDE DEF p, dir, N, u, v, S
<1>7. PICK one \in Path, two \in Path :
        one = <<1>> /\ two = <<2>> /\ Precedes(one, two) /\ At(S, u) = one /\ At(S, v) = two
  BY <1>3, <1>5, SplitLeaves DEF S
<1>8. IsLayout(S) /\ LeafIds(S) = {u, v}
  <2>1. /\ IsLayout(Leaf(u)) /\ LeafIds(Leaf(u)) = {u}
        /\ IsLayout(Leaf(v)) /\ LeafIds(Leaf(v)) = {v}
    BY <1>5, LeafIsLayout
  <2>2. LeafIds(Leaf(u)) \cap LeafIds(Leaf(v)) = {}
    BY <1>5, <2>1
  <2>3. IsLayout(Leaf(u)) /\ IsLayout(Leaf(v))
    BY <2>1
  <2>4. /\ IsLayout(Split(dir, Leaf(u), Leaf(v)))
        /\ LeafIds(Split(dir, Leaf(u), Leaf(v))) = LeafIds(Leaf(u)) \cup LeafIds(Leaf(v))
    BY <1>3, <2>2, <2>3, SplitIsLayout
  <2> QED BY <2>1, <2>4 DEF S
<1>9. Beyond(T, p) = LeafIds(T) \ {b} /\ Beyond(T, p) \cap LeafIds(S) = {}
  BY <1>1, <1>5, <1>8, UnderLeaf
<1>10. At(N, u) = p \o one /\ At(N, v) = p \o two
  <2>1. \A x \in LeafIds(S) : At(N, x) = p \o At(S, x)
    BY <1>1, <1>2, <1>8, <1>9, GraftLeaves
  <2>2. u \in LeafIds(S) /\ v \in LeafIds(S)
    BY <1>8
  <2> QED BY <1>7, <2>1, <2>2
<1>11. ASSUME NEW x \in LeafIds(T) \ {b}
       PROVE  /\ At(N, x) = At(T, x) /\ At(T, x) \in Path
              /\ ~IsPrefix(p, At(T, x)) /\ ~IsPrefix(At(T, x), p)
  <2>1. At(N, x) = At(T, x) /\ ~IsPrefix(p, At(T, x))
    BY <1>1, <1>2, <1>8, <1>9, GraftLeaves
  <2>2. At(T, x) \in Path /\ At(T, x) \in Leaves(T) /\ T[At(T, x)].id = x
    BY PlaceOf
  <2>3. ASSUME IsPrefix(At(T, x), p) PROVE FALSE
    BY <1>1, <2>2, <2>3, LeafNotAbove
  <2> QED BY <2>1, <2>2, <2>3
<1>12. PICK e \in Path : At(N, b) = p \o e
  BY <1>5, <1>7, <1>10
<1>13. ASSUME NEW x \in LeafIds(T), NEW y \in LeafIds(T)
       PROVE  Precedes(At(N, x), At(N, y)) <=> Precedes(At(T, x), At(T, y))
  <2>1. CASE x = b /\ y = b
    <3>1. At(N, b) \in Path /\ At(T, b) \in Path
      BY <1>4, PlaceOf
    <3> QED BY <2>1, <3>1, PrecedesOrders
  <2>2. CASE x = b /\ y # b
    <3>1. At(T, y) \in Path /\ ~IsPrefix(p, At(T, y)) /\ ~IsPrefix(At(T, y), p) /\ At(N, y) = At(T, y)
      BY <1>11, <2>2
    <3>2. Precedes(p \o e, At(T, y)) <=> Precedes(p, At(T, y))
      BY <1>1, <1>12, <3>1, BelowPrecedes
    <3> QED BY <1>12, <2>2, <3>1, <3>2 DEF p
  <2>3. CASE x # b /\ y = b
    <3>1. At(T, x) \in Path /\ ~IsPrefix(p, At(T, x)) /\ ~IsPrefix(At(T, x), p) /\ At(N, x) = At(T, x)
      BY <1>11, <2>3
    <3>2. Precedes(At(T, x), p \o e) <=> Precedes(At(T, x), p)
      BY <1>1, <1>12, <3>1, BelowPrecedes
    <3> QED BY <1>12, <2>3, <3>1, <3>2 DEF p
  <2>4. CASE x # b /\ y # b
    BY <1>11, <2>4
  <2> QED BY <2>1, <2>2, <2>3, <2>4
<1>14. Precedes(At(N, u), At(N, v))
  BY <1>1, <1>7, <1>10, PrecedesBelow
<1>15. ASSUME NEW q \in Leaves(N), Precedes(At(N, u), q), Precedes(q, At(N, v)) PROVE FALSE
  <2>1. PICK z \in LeafIds(N) : q = At(N, z)
    BY <1>4, AtIt DEF LeafIds
  <2>2. At(N, u) \in Path /\ At(N, v) \in Path /\ q \in Path
    BY <1>4, <1>5, <2>1, PlaceOf
  <2>3. CASE z \in {u, v}
    BY <1>15, <2>1, <2>2, <2>3, PrecedesOrders
  <2>4. CASE z \notin {u, v}
    <3>1. z \in LeafIds(T) \ {b}
      BY <1>4, <1>5, <2>4
    <3>2. q \in Path /\ ~IsPrefix(p, q) /\ ~IsPrefix(q, p)
      BY <1>11, <2>1, <3>1
    <3>3. Precedes(p, q) /\ Precedes(q, p)
      BY <1>1, <1>7, <1>10, <1>15, <3>2, BelowPrecedes
    <3> QED BY <1>1, <3>2, <3>3, PrecedesOrders
  <2> QED BY <2>3, <2>4
<1>16. IsNextTo(InOrder(N), u, v)
  BY <1>4, <1>5, <1>14, <1>15, NextInOrder
<1> QED BY <1>6, <1>13, <1>16 DEF N

(* Docking moves one pane, next to its target, and no other.                *)
LEMMA MoveInOrder ==
  ASSUME NEW T, IsLayout(T), NEW a \in LeafIds(T), NEW b \in LeafIds(T), a # b,
         NEW zone \in Zones \ {"center"}
  PROVE  LET N == MoveLeaf(T, a, b, zone) IN
         /\ \A x, y \in Ids \ {a} : Before(InOrder(N), x, y) <=> Before(InOrder(T), x, y)
         /\ IF zone = "top" THEN IsNextTo(InOrder(N), a, b) ELSE IsNextTo(InOrder(N), b, a)
<1> DEFINE W == Without(T, a)
           N == InsertLeaf(W, b, zone, a)
<1>1. MoveLeaf(T, a, b, zone) = N /\ (zone \in {"left", "top"} <=> zone = "top")
  BY DEF MoveLeaf, Zones
<1>2. LeafIds(T) # {a} /\ a \in Ids
  BY PlaceOf
<1>3. IsLayout(W) /\ LeafIds(W) = LeafIds(T) \ {a}
  BY <1>2, WithoutTakes
<1>4. \A x, y \in LeafIds(T) \ {a} : Precedes(At(W, x), At(W, y)) <=> Precedes(At(T, x), At(T, y))
  BY <1>2, WithoutInOrder
<1> HIDE DEF W
<1>5. IsLayout(N) /\ LeafIds(N) = LeafIds(W) \cup {a}
  BY <1>2, <1>3, InsertLeafAdds
<1>6. /\ \A x, y \in LeafIds(W) : Precedes(At(N, x), At(N, y)) <=> Precedes(At(W, x), At(W, y))
      /\ IF zone \in {"left", "top"} THEN IsNextTo(InOrder(N), a, b)
                                     ELSE IsNextTo(InOrder(N), b, a)
  BY <1>2, <1>3, InsertInOrder
<1> HIDE DEF N
<1>7. ASSUME NEW x \in Ids \ {a}, NEW y \in Ids \ {a}
      PROVE  Before(InOrder(N), x, y) <=> Before(InOrder(T), x, y)
  <2>1. Before(InOrder(N), x, y) <=>
          x \in LeafIds(N) /\ y \in LeafIds(N) /\ Precedes(At(N, x), At(N, y))
    BY <1>5, BeforeInOrder
  <2>2. Before(InOrder(T), x, y) <=>
          x \in LeafIds(T) /\ y \in LeafIds(T) /\ Precedes(At(T, x), At(T, y))
    BY BeforeInOrder
  <2>3. /\ x \in LeafIds(N) <=> x \in LeafIds(T) \ {a}
        /\ y \in LeafIds(N) <=> y \in LeafIds(T) \ {a}
    BY <1>3, <1>5
  <2> QED BY <1>3, <1>4, <1>6, <2>1, <2>2, <2>3
<1> QED BY <1>1, <1>6, <1>7

-----------------------------------------------------------------------------
(* The grid.                                                                *)

(* The definition of Beside has a solution: from the last part backwards.   *)
LEMMA BesideFrom ==
  ASSUME NEW dir, NEW K, Len(K) \in Nat \ {0}
  PROVE  \E f : /\ f = [i \in 1..Len(K) |->
                          IF i = Len(K) THEN K[i] ELSE Split(dir, K[i], f[i + 1])]
                /\ Beside(dir, K) = f[1]
<1> DEFINE n == Len(K)
           Part(i, x) == IF i = n THEN K[i] ELSE Split(dir, K[i], x)
           Solved == {m \in 1..n : \E f : f = [i \in m..n |-> Part(i, f[i + 1])]}
<1>1. n \in Nat /\ n >= 1
  OBVIOUS
<1>2. \A x, y : Part(n, x) = Part(n, y)
  OBVIOUS
<1> HIDE DEF n, Part
<1>3. n \in Solved
  <2> DEFINE g == [i \in n..n |-> Part(n, n)]
  <2>1. \A i \in n..n : i = n
    BY <1>1
  <2>2. g = [i \in n..n |-> Part(i, g[i + 1])]
    BY <1>2, <2>1
  <2> HIDE DEF g
  <2>3. \E f : f = [i \in n..n |-> Part(i, f[i + 1])]
    BY <2>2
  <2> QED BY <1>1, <2>3
<1>4. PICK m \in Solved : \A k \in Solved : m <= k
  <2>1. Solved \in SUBSET Nat
    OBVIOUS
  <2> HIDE DEF Solved
  <2> QED BY <1>3, <2>1, NatMin
<1>5. m \in 1..n
  OBVIOUS
<1>6. PICK f : f = [i \in m..n |-> Part(i, f[i + 1])]
  OBVIOUS
<1>7. ASSUME m # 1 PROVE FALSE
  <2> DEFINE g == [i \in (m - 1)..n |-> IF i = m - 1 THEN Part(i, f[m]) ELSE f[i]]
  <2>1. m - 1 \in 1..n /\ m - 1 \in Nat /\ m \in Nat /\ m <= n
    BY <1>1, <1>5, <1>7
  <2>2. \A i \in m..n : f[i] = Part(i, f[i + 1])
    BY <1>6
  <2>3. ASSUME NEW i \in (m - 1)..n PROVE g[i] = Part(i, g[i + 1])
    <3>1. CASE i = m - 1
      <4>1. i + 1 = m /\ m \in (m - 1)..n /\ m # m - 1
        BY <2>1, <3>1
      <4>2. g[i + 1] = f[m]
        BY <4>1
      <4> QED BY <3>1, <4>2
    <3>2. CASE i # m - 1 /\ i # n
      <4>1. i \in m..n /\ i + 1 \in (m - 1)..n /\ i + 1 # m - 1
        BY <1>1, <2>1, <3>2
      <4>2. g[i + 1] = f[i + 1] /\ g[i] = f[i]
        BY <3>2, <4>1
      <4> QED BY <2>2, <4>1, <4>2
    <3>3. CASE i # m - 1 /\ i = n
      <4>1. i \in m..n
        BY <1>1, <2>1, <3>3
      <4>2. g[i] = f[i]
        BY <3>3
      <4>3. f[i] = Part(n, f[i + 1])
        BY <2>2, <3>3, <4>1
      <4>4. Part(n, f[i + 1]) = Part(n, g[i + 1])
        BY <1>2
      <4> QED BY <3>3, <4>2, <4>3, <4>4
    <3> QED BY <3>1, <3>2, <3>3
  <2>4. g = [i \in (m - 1)..n |-> g[i]]
    OBVIOUS
  <2> HIDE DEF g
  <2>5. g = [i \in (m - 1)..n |-> Part(i, g[i + 1])]
    BY <2>3, <2>4
  <2>6. \E h : h = [i \in (m - 1)..n |-> Part(i, h[i + 1])]
    BY <2>5
  <2>7. m - 1 \in Solved
    BY <2>1, <2>6
  <2> QED BY <1>4, <2>1, <2>7
<1>8. f = [i \in 1..Len(K) |-> IF i = Len(K) THEN K[i] ELSE Split(dir, K[i], f[i + 1])]
  BY <1>6, <1>7 DEF n, Part
<1> DEFINE from[i \in 1..Len(K)] ==
             IF i = Len(K) THEN K[i] ELSE Split(dir, K[i], from[i + 1])
<1>9. \E h : h = [i \in 1..Len(K) |-> IF i = Len(K) THEN K[i] ELSE Split(dir, K[i], h[i + 1])]
  BY <1>8
<1>10. from = [i \in 1..Len(K) |-> IF i = Len(K) THEN K[i] ELSE Split(dir, K[i], from[i + 1])]
  BY <1>9
<1>11. Beside(dir, K) = from[1]
  BY DEF Beside
<1> QED BY <1>10, <1>11

(* What comes after two positions that part does not change their order.    *)
LEMMA PrecedesExtends ==
  ASSUME NEW p \in Path, NEW q \in Path, Precedes(p, q), NEW r \in Path, NEW t \in Path
  PROVE  Precedes(p \o r, q \o t)
<1>1. PICK pr \in Path : /\ pr = p \o r /\ Len(pr) = Len(p) + Len(r)
                         /\ \A i \in 1..Len(p) : pr[i] = p[i]
                         /\ \A i \in 1..Len(r) : pr[Len(p) + i] = r[i]
  BY Joint
<1>2. PICK qt \in Path : /\ qt = q \o t /\ Len(qt) = Len(q) + Len(t)
                         /\ \A i \in 1..Len(q) : qt[i] = q[i]
                         /\ \A i \in 1..Len(t) : qt[Len(q) + i] = t[i]
  BY Joint
<1>3. /\ Len(p) \in Nat /\ Len(q) \in Nat /\ Len(r) \in Nat /\ Len(t) \in Nat
      /\ DOMAIN p = 1..Len(p) /\ DOMAIN q = 1..Len(q)
      /\ DOMAIN pr = 1..Len(pr) /\ DOMAIN qt = 1..Len(qt)
  BY DEF Path
<1>4. PICK i \in DOMAIN p \cap DOMAIN q : p[i] < q[i] /\ \A j \in 1..(i - 1) : p[j] = q[j]
  BY DEF Precedes
<1>5. i \in DOMAIN pr \cap DOMAIN qt /\ pr[i] < qt[i]
  BY <1>1, <1>2, <1>3, <1>4
<1>6. \A j \in 1..(i - 1) : pr[j] = qt[j]
  BY <1>1, <1>2, <1>3, <1>4
<1>7. Precedes(pr, qt)
  BY <1>5, <1>6 DEF Precedes
<1> QED BY <1>1, <1>2, <1>7

(* The place of the i-th of n trees put beside one another: the nodes on    *)
(* the spine are the splits, each with a tree at its first child, and the   *)
(* last tree is at the end of the spine.                                    *)
Spine(k)    == [i \in 1..k |-> 2]
Place(i, n) == IF i = n THEN Spine(n - 1) ELSE Append(Spine(i - 1), 1)

LEMMA Spines ==
  ASSUME NEW k \in Nat
  PROVE  /\ Spine(k) \in Path /\ Len(Spine(k)) = k
         /\ Spine(0) = <<>> /\ Spine(k + 1) = <<2>> \o Spine(k)
<1>1. /\ Spine(k) \in Path /\ Len(Spine(k)) = k /\ \A i \in 1..k : Spine(k)[i] = 2
      /\ Spine(k + 1) \in Path /\ Len(Spine(k + 1)) = k + 1 /\ \A i \in 1..(k + 1) : Spine(k + 1)[i] = 2
  BY DEF Spine, Path
<1>2. Spine(0) = <<>>
  BY DEF Spine
<1>3. PICK one \in Path : one = <<2>> /\ Len(one) = 1 /\ one[1] = 2
  <2>1. <<2>> \in Path /\ Len(<<2>>) = 1 /\ <<2>>[1] = 2
    BY DEF Path
  <2> QED BY <2>1
<1>4. PICK r \in Path : /\ r = one \o Spine(k) /\ Len(r) = Len(one) + Len(Spine(k))
                        /\ \A i \in 1..Len(one) : r[i] = one[i]
                        /\ \A i \in 1..Len(Spine(k)) : r[Len(one) + i] = Spine(k)[i]
  BY <1>1, Joint
<1>5. Len(r) = Len(Spine(k + 1))
  BY <1>1, <1>3, <1>4
<1>6. ASSUME NEW i \in 1..(k + 1) PROVE r[i] = 2
  <2>1. CASE i = 1
    BY <1>3, <1>4, <2>1
  <2>2. CASE i # 1
    <3>1. i - 1 \in 1..k /\ 1 + (i - 1) = i
      BY <2>2
    <3>2. r[1 + (i - 1)] = Spine(k)[i - 1] /\ Spine(k)[i - 1] = 2
      BY <1>1, <1>3, <1>4, <3>1
    <3> QED BY <3>1, <3>2
  <2> QED BY <2>1, <2>2
<1>7. r = Spine(k + 1)
  BY <1>1, <1>5, <1>6, Same
<1> QED BY <1>1, <1>2, <1>3, <1>4, <1>7

LEMMA Places ==
  ASSUME NEW n \in Nat \ {0}, NEW i \in 1..n
  PROVE  /\ Place(i, n) \in Path /\ Place(n, n) = Spine(n - 1)
         /\ Place(i + 1, n + 1) = <<2>> \o Place(i, n)
         /\ n > 1 => Place(1, n) = <<1>> \o <<>>
         /\ \A k \in 0..(Len(Place(i, n)) - 1) : k \in 0..(n - 2) /\ SubSeq(Place(i, n), 1, k) = Spine(k)
<1>1. /\ n - 1 \in Nat /\ i - 1 \in Nat /\ (n - 1) + 1 = n /\ (i - 1) + 1 = i
      /\ (n + 1) - 1 = n /\ (i + 1) - 1 = i /\ (i + 1 = n + 1 <=> i = n)
  OBVIOUS
<1>2. /\ Spine(n - 1) \in Path /\ Len(Spine(n - 1)) = n - 1
      /\ Spine(i - 1) \in Path /\ Len(Spine(i - 1)) = i - 1
  BY <1>1, Spines
<1>3. PICK two \in Path : two = <<2>> /\ Spine(n) = two \o Spine(n - 1) /\ Spine(i) = two \o Spine(i - 1)
  <2>1. Spine(n) = <<2>> \o Spine(n - 1) /\ Spine(i) = <<2>> \o Spine(i - 1)
    BY <1>1, Spines
  <2> QED BY <2>1, AtRoot, Children
<1>4. Append(Spine(i - 1), 1) \in Path /\ Append(two \o Spine(i - 1), 1) = two \o Append(Spine(i - 1), 1)
  BY <1>2, Children, AppendsBelow
<1>5. Place(i, n) \in Path
  BY <1>2, <1>4 DEF Place
<1>6. Place(i + 1, n + 1) = two \o Place(i, n)
  <2>1. CASE i = n
    BY <1>1, <1>3, <2>1 DEF Place
  <2>2. CASE i # n
    BY <1>1, <1>3, <1>4, <2>2 DEF Place
  <2> QED BY <2>1, <2>2
<1>7. ASSUME n > 1 PROVE Place(1, n) = <<1>> \o <<>>
  <2>1. 1 - 1 = 0 /\ 1 # n /\ Spine(0) = <<>>
    BY <1>7, Spines
  <2>2. Place(1, n) = Append(Spine(1 - 1), 1)
    BY <2>1 DEF Place
  <2>3. PICK one \in Path : one = <<1>> /\ Append(<<>>, 1) = <<>> \o one
    BY AtRoot, Children
  <2> QED BY <2>1, <2>2, <2>3, AtRoot
<1>8. ASSUME NEW k \in 0..(Len(Place(i, n)) - 1)
      PROVE  k \in 0..(n - 2) /\ SubSeq(Place(i, n), 1, k) = Spine(k)
  <2>1. CASE i = n
    <3>1. Place(i, n) = Spine(n - 1) /\ k \in 0..(n - 2)
      BY <1>1, <1>2, <1>8, <2>1 DEF Place
    <3>2. SubSeq(Spine(n - 1), 1, k) = Spine(k)
      BY <1>1, <3>1 DEF Spine
    <3> QED BY <3>1, <3>2
  <2>2. CASE i # n
    <3>1. Place(i, n) = Append(Spine(i - 1), 1) /\ Len(Append(Spine(i - 1), 1)) = i
      BY <1>1, <1>2, <2>2, Children DEF Place
    <3>2. k \in 0..(i - 1) /\ k \in 0..(n - 2)
      BY <1>8, <2>2, <3>1
    <3>3. SubSeq(Append(Spine(i - 1), 1), 1, k) = Spine(k)
      BY <1>1, <3>2 DEF Spine
    <3> QED BY <3>1, <3>2, <3>3
  <2> QED BY <2>1, <2>2
<1>9. two \o Place(i, n) = <<2>> \o Place(i, n)
  BY <1>3
<1>10. Place(n, n) = Spine(n - 1)
  BY DEF Place
<1> QED BY <1>5, <1>6, <1>7, <1>8, <1>9, <1>10

LEMMA PlacesInOrder ==
  ASSUME NEW n \in Nat \ {0}, NEW i \in 1..n, NEW j \in 1..n, i < j
  PROVE  Precedes(Place(i, n), Place(j, n))
<1>1. /\ Place(i, n) = Append(Spine(i - 1), 1) /\ i - 1 \in Nat
      /\ Len(Place(i, n)) = i /\ DOMAIN Place(i, n) = 1..i /\ Place(i, n)[i] = 1
      /\ \A k \in 1..(i - 1) : Place(i, n)[k] = 2
  BY DEF Place, Spine
<1>2. /\ i \in DOMAIN Place(j, n) /\ \A k \in 1..i : Place(j, n)[k] = 2
  <2>1. CASE j = n
    BY <2>1 DEF Place, Spine
  <2>2. CASE j # n
    BY <2>2 DEF Place, Spine
  <2> QED BY <2>1, <2>2
<1>3. Place(i, n)[i] < Place(j, n)[i]
  BY <1>1, <1>2
<1> QED BY <1>1, <1>2, <1>3 DEF Precedes

(* Layouts without a common pane make one layout from each of them on.      *)
LEMMA BesideLayouts ==
  ASSUME NEW dir \in Dirs, NEW K, Len(K) \in Nat \ {0},
         \A i \in 1..Len(K) : IsLayout(K[i]),
         \A i, j \in 1..Len(K) : i # j => LeafIds(K[i]) \cap LeafIds(K[j]) = {},
         NEW f, \A i \in 1..Len(K) : f[i] = IF i = Len(K) THEN K[i] ELSE Split(dir, K[i], f[i + 1])
  PROVE  \A i \in 1..Len(K) :
           /\ IsLayout(f[i]) /\ LeafIds(f[i]) = UNION {LeafIds(K[j]) : j \in i..Len(K)}
           /\ i # Len(K) => LeafIds(K[i]) \cap LeafIds(f[i + 1]) = {}
<1> DEFINE n == Len(K)
           all(i) == UNION {LeafIds(K[j]) : j \in i..n}
           Good(i) == IsLayout(f[i]) /\ LeafIds(f[i]) = all(i)
           Bad == {m \in 1..n : ~Good(m)}
<1>1. n \in Nat /\ n >= 1
  OBVIOUS
<1>2. \A i \in 1..n : f[i] = IF i = n THEN K[i] ELSE Split(dir, K[i], f[i + 1])
  OBVIOUS
<1>3. /\ \A i \in 1..n : IsLayout(K[i])
      /\ \A i, j \in 1..n : i # j => LeafIds(K[i]) \cap LeafIds(K[j]) = {}
  OBVIOUS
<1> HIDE DEF n
<1>4. Good(n)
  <2>1. f[n] = K[n] /\ n..n = {n}
    BY <1>1, <1>2
  <2>2. all(n) = LeafIds(K[n])
    BY <2>1
  <2> QED BY <1>1, <1>3, <2>1, <2>2
<1>5. ASSUME NEW i \in 1..n, i # n PROVE LeafIds(K[i]) \cap all(i + 1) = {}
  <2>1. \A j \in (i + 1)..n : j \in 1..n /\ i # j
    BY <1>1, <1>5
  <2>2. \A j \in (i + 1)..n : LeafIds(K[i]) \cap LeafIds(K[j]) = {}
    BY <1>3, <2>1
  <2> QED BY <2>2
<1>6. ASSUME NEW i \in 1..n, i # n, Good(i + 1) PROVE Good(i)
  <2>1. f[i] = Split(dir, K[i], f[i + 1])
    BY <1>2, <1>6
  <2>2. all(i) = LeafIds(K[i]) \cup all(i + 1)
    <3>1. i..n = {i} \cup (i + 1)..n
      BY <1>1, <1>6
    <3> HIDE DEF Good
    <3> QED BY <3>1
  <2>3. LeafIds(K[i]) \cap LeafIds(f[i + 1]) = {}
    BY <1>5, <1>6
  <2>4. IsLayout(f[i + 1]) /\ IsLayout(K[i])
    BY <1>3, <1>6
  <2>5. /\ IsLayout(Split(dir, K[i], f[i + 1]))
        /\ LeafIds(Split(dir, K[i], f[i + 1])) = LeafIds(K[i]) \cup LeafIds(f[i + 1])
    BY <2>3, <2>4, SplitIsLayout
  <2> QED BY <1>6, <2>1, <2>2, <2>5
<1>7. Bad = {}
  <2> SUFFICES ASSUME Bad # {} PROVE FALSE
    OBVIOUS
  <2>1. Bad \in SUBSET Nat /\ Bad \in SUBSET (1..n)
    BY <1>1
  <2>2. \A m : m \in Bad <=> m \in 1..n /\ ~Good(m)
    OBVIOUS
  <2> HIDE DEF Bad, Good
  <2>3. IsFiniteSet(Bad)
    <3>1. IsFiniteSet(1..n)
      BY <1>1, FS_Interval
    <3> QED BY <2>1, <3>1, FS_Subset
  <2>4. PICK m \in Bad : \A k \in Bad : k <= m
    BY <2>1, <2>3, NatMax
  <2>5. m \in 1..n /\ m # n
    BY <1>4, <2>2
  <2>6. m + 1 \in 1..n /\ ~(m + 1 <= m)
    BY <1>1, <2>5
  <2>7. Good(m + 1)
    BY <2>2, <2>4, <2>6
  <2> QED BY <1>6, <2>2, <2>5, <2>7
<1>8. \A i \in 1..n : Good(i)
  BY <1>7
<1>9. ASSUME NEW i \in 1..n, i # n PROVE LeafIds(K[i]) \cap LeafIds(f[i + 1]) = {}
  <2>1. i + 1 \in 1..n
    BY <1>1, <1>9
  <2> QED BY <1>5, <1>8, <1>9, <2>1
<1> QED BY <1>8, <1>9 DEF n

(* They make one layout with the panes of all.                              *)
LEMMA BesideIsLayout ==
  ASSUME NEW dir \in Dirs, NEW K, Len(K) \in Nat \ {0},
         \A i \in 1..Len(K) : IsLayout(K[i]),
         \A i, j \in 1..Len(K) : i # j => LeafIds(K[i]) \cap LeafIds(K[j]) = {}
  PROVE  /\ IsLayout(Beside(dir, K))
         /\ LeafIds(Beside(dir, K)) = UNION {LeafIds(K[i]) : i \in 1..Len(K)}
<1>1. PICK f : /\ f = [i \in 1..Len(K) |->
                         IF i = Len(K) THEN K[i] ELSE Split(dir, K[i], f[i + 1])]
               /\ Beside(dir, K) = f[1]
  BY BesideFrom
<1>2. \A i \in 1..Len(K) : f[i] = IF i = Len(K) THEN K[i] ELSE Split(dir, K[i], f[i + 1])
  BY <1>1
<1>3. 1 \in 1..Len(K)
  OBVIOUS
<1>4. \A i \in 1..Len(K) :
        /\ IsLayout(f[i]) /\ LeafIds(f[i]) = UNION {LeafIds(K[j]) : j \in i..Len(K)}
        /\ i # Len(K) => LeafIds(K[i]) \cap LeafIds(f[i + 1]) = {}
  BY <1>2, BesideLayouts
<1> QED BY <1>1, <1>3, <1>4

(* And where the panes of each are.                                         *)
PlacedIn(T, p, S) ==
  /\ p \in DOMAIN T /\ T[p] = S[<<>>]
  /\ \A x \in LeafIds(S) : At(T, x) = p \o At(S, x)

LEMMA BesidePlaces ==
  ASSUME NEW dir \in Dirs, NEW K, Len(K) \in Nat \ {0},
         \A i \in 1..Len(K) : IsLayout(K[i]),
         \A i, j \in 1..Len(K) : i # j => LeafIds(K[i]) \cap LeafIds(K[j]) = {}
  PROVE  /\ \A i \in 1..Len(K) : PlacedIn(Beside(dir, K), Place(i, Len(K)), K[i])
         /\ \A k \in 0..(Len(K) - 2) :
              Spine(k) \in DOMAIN Beside(dir, K) /\ Beside(dir, K)[Spine(k)] = SplitNode(dir)
<1> DEFINE n == Len(K)
<1>1. PICK f : /\ f = [i \in 1..n |-> IF i = n THEN K[i] ELSE Split(dir, K[i], f[i + 1])]
               /\ Beside(dir, K) = f[1]
  BY BesideFrom
<1>2. \A i \in 1..n : f[i] = IF i = n THEN K[i] ELSE Split(dir, K[i], f[i + 1])
  BY <1>1
<1>3. n \in Nat /\ n >= 1 /\ n \in Nat \ {0}
  OBVIOUS
<1>4. \A i \in 1..n : IsLayout(K[i])
  OBVIOUS
<1>5. \A i \in 1..n :
        /\ IsLayout(f[i]) /\ LeafIds(f[i]) = UNION {LeafIds(K[j]) : j \in i..n}
        /\ i # n => LeafIds(K[i]) \cap LeafIds(f[i + 1]) = {}
  BY <1>2, BesideLayouts
<1> HIDE DEF n
<1> DEFINE Parts(m) == \A i \in m..n : PlacedIn(f[m], Place(i - m + 1, n - m + 1), K[i])
           Nodal(m) == \A k \in 0..(n - m - 1) :
                         Spine(k) \in DOMAIN f[m] /\ f[m][Spine(k)] = SplitNode(dir)
           Bad == {m \in 1..n : ~(Parts(m) /\ Nodal(m))}
<1>6. Parts(n) /\ Nodal(n)
  <2>1. f[n] = K[n] /\ n..n = {n} /\ n - n + 1 = 1 /\ 0..(n - n - 1) = {}
    BY <1>2, <1>3
  <2>2. Place(1, 1) = <<>>
    <3>1. 1 - 1 = 0 /\ Place(1, 1) = Spine(1 - 1)
      BY DEF Place
    <3> QED BY <3>1, Spines
  <2>3. \A x \in LeafIds(K[n]) : At(K[n], x) = <<>> \o At(K[n], x)
    BY <1>3, <1>4, PlaceOf, AtRoot
  <2>4. <<>> \in DOMAIN K[n]
    BY <1>3, <1>4, Positions
  <2>5. PlacedIn(K[n], Place(1, 1), K[n])
    BY <2>2, <2>3, <2>4 DEF PlacedIn
  <2> QED BY <2>1, <2>5
<1>7. ASSUME NEW m \in 1..n, m # n, Parts(m + 1), Nodal(m + 1) PROVE Parts(m) /\ Nodal(m)
  <2> DEFINE F == f[m + 1]
             S == Split(dir, K[m], F)
  <2>1. f[m] = S /\ m + 1 \in 1..n /\ m \in Nat
    BY <1>2, <1>3, <1>7
  <2>2. IsLayout(F) /\ IsLayout(K[m]) /\ LeafIds(K[m]) \cap LeafIds(F) = {}
    BY <1>4, <1>5, <1>7, <2>1
  <2>3. LeafIds(F) = UNION {LeafIds(K[j]) : j \in (m + 1)..n}
    BY <1>5, <2>1
  <2>4. /\ <<>> \in DOMAIN S /\ S[<<>>] = SplitNode(dir)
        /\ \A q \in DOMAIN K[m] : <<1>> \o q \in DOMAIN S /\ S[<<1>> \o q] = K[m][q]
        /\ \A q \in DOMAIN F : <<2>> \o q \in DOMAIN S /\ S[<<2>> \o q] = F[q]
        /\ \A x \in LeafIds(K[m]) : At(S, x) = <<1>> \o At(K[m], x)
        /\ \A x \in LeafIds(F) : At(S, x) = <<2>> \o At(F, x)
    BY <2>2, SplitPlaces
  <2> HIDE DEF S, F
  <2>5. PlacedIn(S, Place(1, n - m + 1), K[m])
    <3>1. n - m + 1 \in Nat \ {0} /\ n - m + 1 > 1 /\ 1 \in 1..(n - m + 1)
      BY <1>3, <1>7, <2>1
    <3>2. Place(1, n - m + 1) = <<1>> \o <<>>
      BY <3>1, Places
    <3>3. PICK one \in Path : one = <<1>> /\ one = <<1>> \o <<>>
      BY AtRoot, Children
    <3>4. <<>> \in DOMAIN K[m]
      BY <2>2, Positions
    <3>5. one \in DOMAIN S /\ S[one] = K[m][<<>>]
      BY <2>4, <3>3, <3>4
    <3>6. \A x \in LeafIds(K[m]) : At(S, x) = one \o At(K[m], x)
      BY <2>4, <3>3
    <3> QED BY <3>2, <3>3, <3>5, <3>6 DEF PlacedIn
  <2>6. ASSUME NEW i \in (m + 1)..n PROVE PlacedIn(S, Place(i - m + 1, n - m + 1), K[i])
    <3> DEFINE j == i - (m + 1) + 1
               w == n - (m + 1) + 1
               P == Place(j, w)
    <3>1. j \in 1..w /\ w \in Nat \ {0} /\ j + 1 = i - m + 1 /\ w + 1 = n - m + 1
      BY <1>3, <1>7, <2>1
    <3>2. PlacedIn(F, P, K[i])
      BY <1>7 DEF F
    <3> HIDE DEF j, w
    <3>3. P \in Path /\ Place(j + 1, w + 1) = <<2>> \o P
      BY <3>1, Places
    <3> HIDE DEF P
    <3>4. PICK two \in Path : two = <<2>>
      BY AtRoot, Children
    <3>5. P \in DOMAIN F /\ F[P] = K[i][<<>>] /\ \A x \in LeafIds(K[i]) : At(F, x) = P \o At(K[i], x)
      BY <3>2 DEF PlacedIn
    <3>6. two \o P \in DOMAIN S /\ S[two \o P] = K[i][<<>>]
      BY <2>4, <3>4, <3>5
    <3>7. ASSUME NEW x \in LeafIds(K[i]) PROVE At(S, x) = (two \o P) \o At(K[i], x)
      <4>1. x \in LeafIds(F)
        BY <2>3
      <4>2. At(S, x) = two \o At(F, x)
        BY <2>4, <3>4, <4>1
      <4>3. IsLayout(K[i])
        BY <1>4, <2>1
      <4>4. At(K[i], x) \in Path
        BY <4>3, PlaceOf
      <4>5. (two \o P) \o At(K[i], x) = two \o (P \o At(K[i], x))
        BY <3>3, <4>4, Associates
      <4> QED BY <3>5, <4>2, <4>5
    <3>8. PlacedIn(S, two \o P, K[i])
      BY <3>6, <3>7 DEF PlacedIn
    <3> QED BY <3>1, <3>3, <3>4, <3>8
  <2>7. Parts(m)
    <3> SUFFICES ASSUME NEW i \in m..n PROVE PlacedIn(S, Place(i - m + 1, n - m + 1), K[i])
      BY <2>1
    <3>1. CASE i = m
      <4>1. i - m + 1 = 1
        BY <2>1, <3>1
      <4> QED BY <2>5, <3>1, <4>1
    <3>2. CASE i # m
      <4>1. i \in (m + 1)..n
        BY <2>1, <3>2
      <4> QED BY <2>6, <4>1
    <3> QED BY <3>1, <3>2
  <2>8. Nodal(m)
    <3> SUFFICES ASSUME NEW k \in 0..(n - m - 1)
                 PROVE  Spine(k) \in DOMAIN S /\ S[Spine(k)] = SplitNode(dir)
      BY <2>1
    <3>1. CASE k = 0
      BY <2>4, <3>1, Spines
    <3>2. CASE k # 0
      <4>1. k - 1 \in 0..(n - (m + 1) - 1) /\ k - 1 \in Nat /\ (k - 1) + 1 = k
        BY <1>3, <2>1, <3>2
      <4>2. Spine(k - 1) \in DOMAIN F /\ F[Spine(k - 1)] = SplitNode(dir)
        BY <1>7, <4>1 DEF F
      <4>3. Spine((k - 1) + 1) = <<2>> \o Spine(k - 1)
        BY <4>1, Spines
      <4>4. <<2>> \o Spine(k - 1) \in DOMAIN S /\ S[<<2>> \o Spine(k - 1)] = SplitNode(dir)
        BY <2>4, <4>2
      <4> QED BY <4>1, <4>3, <4>4
    <3> QED BY <3>1, <3>2
  <2> QED BY <2>7, <2>8
<1>8. Bad = {}
  <2> SUFFICES ASSUME Bad # {} PROVE FALSE
    OBVIOUS
  <2>1. Bad \in SUBSET Nat /\ Bad \in SUBSET (1..n)
    BY <1>3
  <2>2. \A m : m \in Bad <=> m \in 1..n /\ ~(Parts(m) /\ Nodal(m))
    OBVIOUS
  <2> HIDE DEF Bad, Parts, Nodal
  <2>3. IsFiniteSet(Bad)
    <3>1. IsFiniteSet(1..n)
      BY <1>3, FS_Interval
    <3> QED BY <2>1, <3>1, FS_Subset
  <2>4. PICK m \in Bad : \A k \in Bad : k <= m
    BY <2>1, <2>3, NatMax
  <2>5. m \in 1..n /\ m # n
    BY <1>6, <2>2
  <2>6. m + 1 \in 1..n /\ ~(m + 1 <= m)
    BY <1>3, <2>5
  <2>7. Parts(m + 1) /\ Nodal(m + 1)
    BY <2>2, <2>4, <2>6
  <2> QED BY <1>7, <2>2, <2>5, <2>7
<1>9. Parts(1) /\ Nodal(1)
  <2>1. \A m \in 1..n : Parts(m) /\ Nodal(m)
    BY <1>8
  <2> HIDE DEF Parts, Nodal
  <2> QED BY <1>3, <2>1
<1>10. ASSUME NEW i \in 1..n PROVE PlacedIn(f[1], Place(i, n), K[i])
  <2>1. i - 1 + 1 = i /\ n - 1 + 1 = n
    BY <1>3
  <2> QED BY <1>9, <2>1
<1>11. ASSUME NEW k \in 0..(n - 2) PROVE Spine(k) \in DOMAIN f[1] /\ f[1][Spine(k)] = SplitNode(dir)
  <2>1. n - 1 - 1 = n - 2
    BY <1>3
  <2> QED BY <1>9, <2>1
<1> QED BY <1>1, <1>10, <1>11 DEF n

(* Every pane is in one of the columns, and no column is empty.             *)
LEMMA Columned ==
  ASSUME NEW n \in Nat \ {0}, NEW width, width = IF n < Columns THEN n ELSE Columns
  PROVE  /\ width \in Nat \ {0}
         /\ \A k \in 1..n : Col(k) \in 0..(width - 1)
         /\ \A c \in 0..(width - 1) : c + 1 \in 1..n /\ Col(c + 1) = c
<1>1. Columns \in Nat /\ Columns >= 1
  BY ColumnsAssumption
<1>2. \A x \in Nat : x % Columns \in 0..(Columns - 1)
  BY <1>1
<1>3. ASSUME NEW k \in 1..n PROVE Col(k) \in 0..(width - 1)
  <2>1. CASE k <= Columns
    BY <1>1, <2>1 DEF Col
  <2>2. CASE ~(k <= Columns)
    <3>1. width = Columns /\ k - 1 \in Nat
      BY <1>1, <2>2
    <3> DEFINE m == (k - 1) % Columns
    <3>2. m \in 0..(Columns - 1)
      BY <1>2, <3>1
    <3>3. Col(k) = Columns - 1 - m
      BY <2>2 DEF Col
    <3> HIDE DEF m
    <3> QED BY <1>1, <3>1, <3>2, <3>3
  <2> QED BY <2>1, <2>2
<1>4. ASSUME NEW c \in 0..(width - 1) PROVE c + 1 \in 1..n /\ Col(c + 1) = c
  BY <1>1 DEF Col
<1> QED BY <1>1, <1>3, <1>4

(* A column shows the panes that the grid puts there, from top to bottom.   *)
AreCells(cells, s, c) ==
  /\ Enumerates(cells, {j \in DOMAIN s : Col(j) = c})
  /\ \A q, r \in 1..Len(cells) : q < r <=> cells[q] < cells[r]
  /\ Column(s, c) = [r \in DOMAIN cells |-> Leaf(s[cells[r]])]

LEMMA ColumnCells ==
  ASSUME NEW s \in Seq(Ids), NEW c
  PROVE  \E cells : AreCells(cells, s, c)
<1> DEFINE S == {j \in DOMAIN s : Col(j) = c}
           A == [x \in S |-> {y \in S : y < x}]
           cells == Arranged(S, <)
<1>1. DOMAIN s = 1..Len(s) /\ Len(s) \in Nat
  OBVIOUS
<1>2. IsFiniteSet(S) /\ S \subseteq Nat
  <2>1. IsFiniteSet(1..Len(s)) /\ S \in SUBSET (1..Len(s))
    BY <1>1, FS_Interval
  <2> QED BY <2>1, FS_Subset
<1>3. A \in [S -> SUBSET S]
  OBVIOUS
<1>4. /\ \A x \in S : x \notin A[x]
      /\ \A x, y \in S : x # y => x \in A[y] \/ y \in A[x]
      /\ \A x, y \in S : y \in A[x] => A[y] \subseteq A[x]
  <2>1. S \subseteq Nat
    BY <1>2
  <2>2. \A x, y \in S : y \in A[x] <=> y < x
    OBVIOUS
  <2> HIDE DEF S, A
  <2>3. \A x, y \in S : y \in A[x] => A[y] \subseteq A[x]
    <3> SUFFICES ASSUME NEW x \in S, NEW y \in S, NEW z \in A[y], y < x PROVE z \in A[x]
      BY <2>2
    <3>1. z \in S
      BY <1>3
    <3>2. z < y /\ x \in Nat /\ y \in Nat /\ z \in Nat
      BY <2>1, <2>2, <3>1
    <3> QED BY <2>2, <3>1, <3>2
  <2> QED BY <2>1, <2>2, <2>3
<1>5. cells = [i \in 1..Cardinality(S) |-> CHOOSE x \in S : Cardinality({y \in S : y < x}) = i - 1]
  BY DEF Arranged
<1>6. cells = [i \in 1..Cardinality(S) |-> cells[i]]
  BY <1>5
<1>7. ASSUME NEW i \in 1..Cardinality(S), \E x \in S : Cardinality(A[x]) = i - 1
      PROVE  cells[i] \in S /\ Cardinality(A[cells[i]]) = i - 1
  <2>1. \E x \in S : Cardinality({y \in S : y < x}) = i - 1
    BY <1>7
  <2>2. cells[i] = CHOOSE x \in S : Cardinality({y \in S : y < x}) = i - 1
    BY <1>5
  <2>3. cells[i] \in S /\ Cardinality({y \in S : y < cells[i]}) = i - 1
    BY <2>1, <2>2
  <2> QED BY <2>3
<1>8. Column(s, c) = [r \in DOMAIN cells |-> Leaf(s[cells[r]])]
  BY DEF Column
<1> HIDE DEF A, cells, S
<1>9. Enumerates(cells, S) /\ \A i, j \in 1..Len(cells) : i < j <=> cells[i] \in A[cells[j]]
  <2>1. IsFiniteSet(S)
    BY <1>2
  <2> QED BY <2>1, <1>3, <1>4, <1>6, <1>7, Arranges, ZenonT(60)
<1>10. ASSUME NEW q \in 1..Len(cells), NEW r \in 1..Len(cells) PROVE q < r <=> cells[q] < cells[r]
  <2>1. cells[q] \in S /\ cells[r] \in S
    BY <1>9, Entries
  <2>2. q < r <=> cells[q] \in A[cells[r]]
    BY <1>9
  <2> QED BY <2>1, <2>2 DEF A
<1>11. AreCells(cells, s, c)
  BY <1>8, <1>9, <1>10 DEF S, AreCells
<1> QED BY <1>11

ShowsColumn(B, s, c) ==
  /\ IsLayout(B) /\ LeafIds(B) = {s[k] : k \in {j \in 1..Len(s) : Col(j) = c}}
  /\ \A j, k \in 1..Len(s) :
       Col(j) = c /\ Col(k) = c /\ j < k => Precedes(At(B, s[j]), At(B, s[k]))
  /\ B[<<>>].dir # "row"

LEMMA ColumnIsLayout ==
  ASSUME NEW s \in Seq(Ids), \A i, j \in 1..Len(s) : s[i] = s[j] => i = j,
         NEW c, NEW k0 \in 1..Len(s), Col(k0) = c
  PROVE  ShowsColumn(Beside("col", Column(s, c)), s, c)
<1> DEFINE S == {j \in DOMAIN s : Col(j) = c}
           C == Column(s, c)
           B == Beside("col", C)
           n == Len(C)
<1>1. DOMAIN s = 1..Len(s) /\ Len(s) \in Nat /\ \A j \in 1..Len(s) : s[j] \in Ids
  OBVIOUS
<1>2. PICK cells : /\ Enumerates(cells, S)
                   /\ \A q, r \in 1..Len(cells) : q < r <=> cells[q] < cells[r]
                   /\ C = [r \in DOMAIN cells |-> Leaf(s[cells[r]])]
  <2>1. PICK cells : AreCells(cells, s, c)
    BY ColumnCells
  <2> QED BY <2>1 DEF AreCells
<1>3. \A j : j \in S <=> j \in 1..Len(s) /\ Col(j) = c
  BY <1>1
<1> HIDE DEF S, C
<1>4. /\ Len(cells) \in Nat /\ DOMAIN cells = 1..Len(cells)
      /\ \A r \in 1..Len(cells) : cells[r] \in S
      /\ \A j \in S : \E r \in 1..Len(cells) : cells[r] = j
      /\ \A q, r \in 1..Len(cells) : cells[q] = cells[r] => q = r
  BY <1>2 DEF Enumerates
<1>5. n = Len(cells) /\ \A r \in 1..n : C[r] = Leaf(s[cells[r]])
  BY <1>2, <1>4
<1>6. n \in Nat \ {0}
  BY <1>3, <1>4, <1>5
<1>7. ASSUME NEW r \in 1..n
      PROVE  /\ IsLayout(C[r]) /\ LeafIds(C[r]) = {s[cells[r]]} /\ At(C[r], s[cells[r]]) = <<>>
             /\ C[r][<<>>] = LeafNode(s[cells[r]])
  <2>1. s[cells[r]] \in Ids
    BY <1>1, <1>3, <1>4, <1>5
  <2>2. C[r] = Leaf(s[cells[r]])
    BY <1>5
  <2> QED BY <2>1, <2>2, LeafIsLayout, LeafPlace
<1>8. ASSUME NEW q \in 1..n, NEW r \in 1..n, q # r
      PROVE  LeafIds(C[q]) \cap LeafIds(C[r]) = {}
  <2>1. s[cells[q]] # s[cells[r]]
    <3>1. cells[q] # cells[r]
      BY <1>4, <1>5, <1>8
    <3>2. cells[q] \in 1..Len(s) /\ cells[r] \in 1..Len(s)
      BY <1>3, <1>4, <1>5
    <3> QED BY <3>1, <3>2
  <2>2. LeafIds(C[q]) = {s[cells[q]]} /\ LeafIds(C[r]) = {s[cells[r]]}
    BY <1>7
  <2> QED BY <2>1, <2>2
<1>9. "col" \in Dirs
  BY DEF Dirs
<1>10. \A i \in 1..n : IsLayout(C[i])
  BY <1>7
<1>11. /\ IsLayout(B)
       /\ LeafIds(B) = UNION {LeafIds(C[r]) : r \in 1..n}
  BY <1>6, <1>8, <1>9, <1>10, BesideIsLayout
<1>12. /\ \A r \in 1..n : PlacedIn(B, Place(r, n), C[r])
       /\ \A k \in 0..(n - 2) : Spine(k) \in DOMAIN B /\ B[Spine(k)] = SplitNode("col")
  BY <1>6, <1>8, <1>9, <1>10, BesidePlaces
<1> HIDE DEF B, n
<1>13. LeafIds(B) = {s[k] : k \in {j \in 1..Len(s) : Col(j) = c}}
  <2>1. ASSUME NEW x \in LeafIds(B) PROVE \E k \in 1..Len(s) : Col(k) = c /\ x = s[k]
    <3>1. PICK r \in 1..n : x \in LeafIds(C[r])
      BY <1>11
    <3>2. x = s[cells[r]]
      BY <1>7, <3>1
    <3>3. cells[r] \in 1..Len(s) /\ Col(cells[r]) = c
      BY <1>3, <1>4, <1>5
    <3> QED BY <3>2, <3>3
  <2>2. ASSUME NEW k \in 1..Len(s), Col(k) = c PROVE s[k] \in LeafIds(B)
    <3>1. PICK r \in 1..n : cells[r] = k
      BY <1>3, <1>4, <1>5, <2>2
    <3>2. s[k] \in LeafIds(C[r])
      BY <1>7, <3>1
    <3> QED BY <1>11, <3>2
  <2> QED BY <2>1, <2>2
<1>14. ASSUME NEW r \in 1..n PROVE At(B, s[cells[r]]) = Place(r, n)
  <2>1. At(B, s[cells[r]]) = Place(r, n) \o At(C[r], s[cells[r]])
    BY <1>7, <1>12 DEF PlacedIn
  <2>2. Place(r, n) \in Path
    BY <1>6, Places
  <2> QED BY <1>7, <2>1, <2>2, AtRoot
<1>15. ASSUME NEW j \in 1..Len(s), NEW k \in 1..Len(s), Col(j) = c, Col(k) = c, j < k
       PROVE  Precedes(At(B, s[j]), At(B, s[k]))
  <2>1. PICK q \in 1..n : cells[q] = j
    BY <1>3, <1>4, <1>5, <1>15
  <2>2. PICK r \in 1..n : cells[r] = k
    BY <1>3, <1>4, <1>5, <1>15
  <2>3. q < r
    BY <1>2, <1>5, <1>15, <2>1, <2>2
  <2>4. Precedes(Place(q, n), Place(r, n))
    BY <1>6, <2>3, PlacesInOrder
  <2> QED BY <1>14, <2>1, <2>2, <2>4
<1>16. B[<<>>].dir # "row"
  <2>1. Spine(0) = <<>>
    BY Spines
  <2>2. CASE n = 1
    <3>1. Place(1, n) = <<>>
      <4>1. 1 - 1 = 0 /\ Place(1, n) = Spine(1 - 1)
        BY <2>2 DEF Place
      <4> QED BY <2>1, <4>1
    <3>2. B[<<>>] = C[1][<<>>] /\ 1 \in 1..n
      BY <1>12, <2>2, <3>1 DEF PlacedIn
    <3>3. B[<<>>] = LeafNode(s[cells[1]])
      BY <1>7, <3>2
    <3> QED BY <3>3 DEF LeafNode
  <2>3. CASE n # 1
    <3>1. 0 \in 0..(n - 2)
      BY <1>6, <2>3
    <3>2. B[<<>>] = SplitNode("col")
      BY <1>12, <2>1, <3>1
    <3> QED BY <3>2 DEF SplitNode
  <2> QED BY <2>2, <2>3
<1>17. ShowsColumn(B, s, c)
  BY <1>11, <1>13, <1>15, <1>16 DEF ShowsColumn
<1> QED BY <1>17 DEF B, C

(* The columns of the grid, next to one another.                            *)
GridWidth(s) == IF Len(s) < Columns THEN Len(s) ELSE Columns

AreColumns(K, s) ==
  /\ Len(K) = GridWidth(s) /\ Grid(s) = Beside("row", K)
  /\ \A c \in 1..GridWidth(s) : ShowsColumn(K[c], s, c - 1)
  /\ \A c, d \in 1..GridWidth(s) : c # d => LeafIds(K[c]) \cap LeafIds(K[d]) = {}

LEMMA GridColumns ==
  ASSUME NEW s \in Seq(Ids), s # <<>>, \A i, j \in 1..Len(s) : s[i] = s[j] => i = j
  PROVE  /\ \E K : AreColumns(K, s)
         /\ GridWidth(s) \in Nat \ {0}
         /\ \A k \in 1..Len(s) : Col(k) \in 0..(GridWidth(s) - 1) /\ Col(k) + 1 \in 1..GridWidth(s)
<1> DEFINE n == Len(s)
           width == GridWidth(s)
           K == [c \in 1..width |-> Beside("col", Column(s, c - 1))]
<1>1. n \in Nat \ {0} /\ DOMAIN s = 1..n
  OBVIOUS
<1>2. /\ width \in Nat \ {0}
      /\ \A k \in 1..n : Col(k) \in 0..(width - 1)
      /\ \A c \in 0..(width - 1) : c + 1 \in 1..n /\ Col(c + 1) = c
  <2> HIDE DEF n, width
  <2>1. width = IF n < Columns THEN n ELSE Columns
    BY DEF width, n, GridWidth
  <2> QED BY <1>1, <2>1, Columned
<1>3. Grid(s) = Beside("row", K)
  BY DEF Grid, GridWidth
<1>4. \A i, j \in 1..n : s[i] = s[j] => i = j
  OBVIOUS
<1>5. \A c \in 1..width : K[c] = Beside("col", Column(s, c - 1))
  OBVIOUS
<1>6. Len(K) = width
  <2> HIDE DEF width
  <2> QED BY <1>2
<1> HIDE DEF width, K
<1>7. ASSUME NEW c \in 1..width PROVE ShowsColumn(K[c], s, c - 1)
  <2>1. c - 1 \in 0..(width - 1) /\ (c - 1) + 1 = c
    BY <1>2
  <2>2. c \in 1..n /\ Col(c) = c - 1
    BY <1>2, <2>1
  <2>3. ShowsColumn(Beside("col", Column(s, c - 1)), s, c - 1)
    BY <2>2, ColumnIsLayout
  <2> QED BY <1>5, <2>3
<1> HIDE DEF n
<1>8. ASSUME NEW c \in 1..width, NEW d \in 1..width, c # d
      PROVE  LeafIds(K[c]) \cap LeafIds(K[d]) = {}
  <2>1. ASSUME NEW i \in 1..n, NEW j \in 1..n, Col(i) = c - 1, Col(j) = d - 1, s[i] = s[j]
        PROVE  FALSE
    <3>1. i = j
      BY <1>4, <2>1
    <3>2. c - 1 = d - 1
      BY <2>1, <3>1
    <3>3. c \in Int /\ d \in Int
      BY <1>2
    <3> QED BY <1>8, <3>2, <3>3
  <2>2. /\ LeafIds(K[c]) = {s[k] : k \in {j \in 1..n : Col(j) = c - 1}}
        /\ LeafIds(K[d]) = {s[k] : k \in {j \in 1..n : Col(j) = d - 1}}
    BY <1>7 DEF ShowsColumn, n
  <2> QED BY <2>1, <2>2
<1>9. AreColumns(K, s)
  BY <1>3, <1>6, <1>7, <1>8 DEF AreColumns, width
<1>10. \A k \in 1..n : Col(k) \in 0..(width - 1) /\ Col(k) + 1 \in 1..width
  BY <1>2
<1> QED BY <1>2, <1>9, <1>10 DEF n, width

(* buildAddViewLayout shows every pane it is given, and no other.           *)
LEMMA GridIsLayout ==
  ASSUME NEW s \in Seq(Ids), s # <<>>, \A i, j \in 1..Len(s) : s[i] = s[j] => i = j
  PROVE  IsLayout(Grid(s)) /\ LeafIds(Grid(s)) = {s[i] : i \in 1..Len(s)}
<1> DEFINE n == Len(s)
           width == GridWidth(s)
<1>1. PICK K : AreColumns(K, s)
  BY GridColumns
<1>2. /\ width \in Nat \ {0}
      /\ \A k \in 1..n : Col(k) \in 0..(width - 1) /\ Col(k) + 1 \in 1..width
  BY GridColumns
<1>3. /\ Len(K) = width /\ Grid(s) = Beside("row", K)
      /\ \A c \in 1..width : IsLayout(K[c])
      /\ \A c, d \in 1..width : c # d => LeafIds(K[c]) \cap LeafIds(K[d]) = {}
  BY <1>1 DEF AreColumns, ShowsColumn
<1>4. \A c \in 1..width : LeafIds(K[c]) = {s[k] : k \in {j \in 1..n : Col(j) = c - 1}}
  BY <1>1 DEF AreColumns, ShowsColumn
<1> HIDE DEF n, width
<1>5. "row" \in Dirs
  BY DEF Dirs
<1>6. /\ IsLayout(Beside("row", K))
      /\ LeafIds(Beside("row", K)) = UNION {LeafIds(K[c]) : c \in 1..Len(K)}
  BY <1>2, <1>3, <1>5, BesideIsLayout
<1>7. ASSUME NEW i \in 1..n PROVE s[i] \in LeafIds(Grid(s))
  <2>1. Col(i) + 1 \in 1..width /\ (Col(i) + 1) - 1 = Col(i)
    BY <1>2
  <2>2. s[i] \in LeafIds(K[Col(i) + 1])
    BY <1>4, <2>1
  <2> QED BY <1>3, <1>6, <2>1, <2>2
<1>8. ASSUME NEW x \in LeafIds(Grid(s)) PROVE \E i \in 1..n : x = s[i]
  <2>1. PICK c \in 1..width : x \in LeafIds(K[c])
    BY <1>3, <1>6
  <2>2. x \in {s[k] : k \in {j \in 1..n : Col(j) = c - 1}}
    BY <1>4, <2>1
  <2> QED BY <2>2
<1> QED BY <1>3, <1>6, <1>7, <1>8 DEF n

(* The row of the k-th pane, and the pane in a row and a column.            *)
RowNo(k)     == (k - 1) \div Columns
CellAt(r, c) == IF r = 0 THEN c + 1 ELSE Columns * r + (Columns - 1 - c) + 1

LEMMA Divided ==
  ASSUME NEW x \in Nat
  PROVE  /\ x \div Columns \in Nat /\ x % Columns \in 0..(Columns - 1)
         /\ x = Columns * (x \div Columns) + (x % Columns)
         /\ Columns * (x \div Columns) \in Nat
BY ColumnsAssumption

LEMMA Quotient ==
  ASSUME NEW q \in Nat, NEW r \in 0..(Columns - 1)
  PROVE  /\ Columns * q \in Nat
         /\ (Columns * q + r) \div Columns = q /\ (Columns * q + r) % Columns = r
BY ColumnsAssumption

LEMMA Multiples ==
  ASSUME NEW q \in Nat, NEW r \in Nat, q < r
  PROVE  /\ Columns * q \in Nat /\ Columns * r \in Nat
         /\ Columns * q + Columns <= Columns * r
<1>1. r - q - 1 \in Nat
  OBVIOUS
<1>2. Columns * (r - q - 1) \in Nat
  BY <1>1, ColumnsAssumption
<1>3. Columns * (r - q - 1) = Columns * r - Columns * q - Columns
  BY ColumnsAssumption
<1>4. Columns * q \in Nat /\ Columns * r \in Nat
  BY ColumnsAssumption
<1> QED BY <1>2, <1>3, <1>4, ColumnsAssumption

LEMMA CellOf ==
  ASSUME NEW k \in Nat \ {0}
  PROVE  RowNo(k) \in Nat /\ Col(k) \in 0..(Columns - 1) /\ k = CellAt(RowNo(k), Col(k))
<1> DEFINE R == RowNo(k)
           m == (k - 1) % Columns
           M == Columns * R
<1>1. /\ R \in Nat /\ m \in 0..(Columns - 1) /\ k - 1 = M + m /\ M \in Nat
      /\ Columns \in Nat \ {0}
  BY Divided, ColumnsAssumption DEF RowNo
<1>2. R = 0 => M = 0
  BY <1>1
<1>3. R # 0 => M >= Columns
  <2>1. R # 0 => Columns * 0 + Columns <= M
    BY <1>1, Multiples
  <2>2. Columns * 0 = 0
    BY <1>1
  <2> QED BY <1>1, <2>1, <2>2
<1>4. Col(k) = IF k <= Columns THEN k - 1 ELSE Columns - 1 - m
  BY DEF Col
<1>5. CellAt(R, Col(k)) = IF R = 0 THEN Col(k) + 1 ELSE M + (Columns - 1 - Col(k)) + 1
  BY DEF CellAt
<1> HIDE DEF R, m, M
<1>6. CASE R = 0
  <2>1. k <= Columns /\ Col(k) = k - 1
    BY <1>1, <1>2, <1>4, <1>6
  <2> QED BY <1>1, <1>5, <1>6, <2>1 DEF R
<1>7. CASE R # 0
  <2>1. ~(k <= Columns) /\ Col(k) = Columns - 1 - m
    BY <1>1, <1>3, <1>4, <1>7
  <2>2. Col(k) \in 0..(Columns - 1) /\ CellAt(R, Col(k)) = M + (Columns - 1 - Col(k)) + 1
    BY <1>1, <1>5, <1>7, <2>1
  <2>3. k = CellAt(R, Col(k))
    BY <1>1, <2>1, <2>2
  <2> QED BY <1>1, <2>2, <2>3 DEF R
<1> QED BY <1>6, <1>7

LEMMA CellIs ==
  ASSUME NEW r \in Nat, NEW c \in 0..(Columns - 1)
  PROVE  CellAt(r, c) \in Nat \ {0} /\ RowNo(CellAt(r, c)) = r /\ Col(CellAt(r, c)) = c
<1>1. Columns \in Nat \ {0}
  BY ColumnsAssumption
<1>2. CASE r = 0
  <2>1. CellAt(r, c) = c + 1 /\ c + 1 \in Nat \ {0} /\ (c + 1) - 1 = c /\ c + 1 <= Columns
    BY <1>1, <1>2 DEF CellAt
  <2>2. Col(c + 1) = c
    BY <2>1 DEF Col
  <2>3. Columns * 0 + c = c
    BY <1>1
  <2>4. c \div Columns = 0
    BY <2>3, Quotient
  <2> QED BY <1>2, <2>1, <2>2, <2>4 DEF RowNo
<1>3. CASE r # 0
  <2> DEFINE M == Columns * r
             d == Columns - 1 - c
  <2>1. d \in 0..(Columns - 1) /\ Columns - 1 - d = c
    BY <1>1
  <2>2. M \in Nat /\ (M + d) \div Columns = r /\ (M + d) % Columns = d
    BY <2>1, Quotient
  <2>3. M >= Columns
    <3>1. Columns * 0 + Columns <= M
      BY <1>3, Multiples
    <3>2. Columns * 0 = 0
      BY <1>1
    <3> QED BY <1>1, <2>2, <3>1, <3>2
  <2>4. CellAt(r, c) = M + d + 1
    BY <1>3 DEF CellAt
  <2> HIDE DEF M, d
  <2>5. M + d + 1 \in Nat \ {0} /\ (M + d + 1) - 1 = M + d /\ ~(M + d + 1 <= Columns)
    BY <1>1, <2>1, <2>2, <2>3
  <2>6. Col(M + d + 1) = c
    BY <2>1, <2>2, <2>5 DEF Col
  <2>7. RowNo(M + d + 1) = r
    BY <2>2, <2>5 DEF RowNo
  <2> QED BY <2>4, <2>5, <2>6, <2>7
<1> QED BY <1>2, <1>3

(* The cells are numbered row by row, in the first row from the left and in *)
(* the others from the right.                                               *)
LEMMA CellOrder ==
  ASSUME NEW j \in Nat \ {0}, NEW k \in Nat \ {0}
  PROVE  /\ RowNo(j) < RowNo(k) => j < k
         /\ RowNo(j) = RowNo(k) /\ Col(j) = Col(k) => j = k
         /\ RowNo(j) = RowNo(k) /\ RowNo(k) = 0 /\ Col(j) < Col(k) => j < k
         /\ RowNo(j) = RowNo(k) /\ RowNo(k) # 0 /\ Col(k) < Col(j) => j < k
<1>1. /\ RowNo(j) \in Nat /\ Col(j) \in 0..(Columns - 1) /\ j = CellAt(RowNo(j), Col(j))
      /\ RowNo(k) \in Nat /\ Col(k) \in 0..(Columns - 1) /\ k = CellAt(RowNo(k), Col(k))
      /\ Columns \in Nat \ {0}
  BY CellOf, ColumnsAssumption
<1>2. ASSUME RowNo(j) < RowNo(k) PROVE j < k
  <2>1. ASSUME NEW i \in Nat \ {0}
        PROVE  \E x \in 0..(Columns - 1) : i - 1 = Columns * RowNo(i) + x
    <3>1. i - 1 \in Nat
      OBVIOUS
    <3> QED BY <3>1, Divided DEF RowNo
  <2>2. PICK x \in 0..(Columns - 1) : j - 1 = Columns * RowNo(j) + x
    BY <2>1
  <2>3. PICK y \in 0..(Columns - 1) : k - 1 = Columns * RowNo(k) + y
    BY <2>1
  <2>4. /\ Columns * RowNo(j) \in Nat /\ Columns * RowNo(k) \in Nat
        /\ Columns * RowNo(j) + Columns <= Columns * RowNo(k)
    BY <1>1, <1>2, Multiples
  <2>5. PICK a \in Nat, b \in Nat : j - 1 = a + x /\ k - 1 = b + y /\ a + Columns <= b
    BY <2>2, <2>3, <2>4
  <2> QED BY <1>1, <2>5
<1>3. ASSUME RowNo(j) = RowNo(k), Col(j) = Col(k) PROVE j = k
  BY <1>1, <1>3
<1>4. ASSUME RowNo(j) = RowNo(k), RowNo(k) = 0, Col(j) < Col(k) PROVE j < k
  BY <1>1, <1>4 DEF CellAt
<1>5. ASSUME RowNo(j) = RowNo(k), RowNo(k) # 0, Col(k) < Col(j) PROVE j < k
  <2> DEFINE M == Columns * RowNo(k)
  <2>1. M \in Nat
    BY <1>1
  <2>2. j = M + (Columns - 1 - Col(j)) + 1 /\ k = M + (Columns - 1 - Col(k)) + 1
    BY <1>1, <1>5 DEF CellAt
  <2> HIDE DEF M
  <2> QED BY <1>1, <1>5, <2>1, <2>2
<1> QED BY <1>2, <1>3, <1>4, <1>5

(* A position is below one column only.                                     *)
LEMMA OneColumn ==
  ASSUME NEW T, IsLayout(T), NEW p \in Path, NEW c \in ColumnRoots(T), IsPrefix(c, p)
  PROVE  ColumnOf(T, p) = c
<1>1. ASSUME NEW d \in ColumnRoots(T), NEW e \in ColumnRoots(T), IsPrefix(d, p), IsPrefix(e, p),
             Len(d) < Len(e)
      PROVE  FALSE
  <2>1. d \in Path /\ e \in Path
    BY Positions DEF ColumnRoots
  <2>2. Len(d) \in 0..(Len(e) - 1) /\ SubSeq(e, 1, Len(d)) = d
    BY <1>1, <2>1 DEF Path, IsPrefix
  <2>3. T[SubSeq(e, 1, Len(d))].dir = "row"
    BY <2>2 DEF ColumnRoots
  <2> QED BY <2>2, <2>3 DEF ColumnRoots
<1>2. ASSUME NEW d \in ColumnRoots(T), IsPrefix(d, p) PROVE d = c
  <2>1. d \in Path /\ c \in Path /\ Len(d) \in Nat /\ Len(c) \in Nat
    BY Positions DEF ColumnRoots, Path
  <2>2. ~(Len(d) < Len(c)) /\ ~(Len(c) < Len(d))
    BY <1>1, <1>2
  <2>3. Len(d) = Len(c)
    BY <2>1, <2>2
  <2> QED BY <1>2, <2>1, <2>3 DEF Path, IsPrefix
<1> QED BY <1>2 DEF ColumnOf

(* Where the grid puts the panes.                                           *)
ColPlace(s, k) == Place(Col(k) + 1, GridWidth(s))

LEMMA GridPlaces ==
  ASSUME NEW s \in Seq(Ids), s # <<>>, \A i, j \in 1..Len(s) : s[i] = s[j] => i = j
  PROVE  /\ \A k \in 1..Len(s) :
              /\ At(Grid(s), s[k]) \in Path /\ ColPlace(s, k) \in Path
              /\ ColPlace(s, k) \in ColumnRoots(Grid(s)) /\ IsPrefix(ColPlace(s, k), At(Grid(s), s[k]))
         /\ \A j, k \in 1..Len(s) :
              Col(j) = Col(k) /\ j < k => Precedes(At(Grid(s), s[j]), At(Grid(s), s[k]))
         /\ \A j, k \in 1..Len(s) :
              Col(j) < Col(k) => /\ Precedes(At(Grid(s), s[j]), At(Grid(s), s[k]))
                                 /\ ~IsPrefix(ColPlace(s, j), At(Grid(s), s[k]))
                                 /\ ~IsPrefix(ColPlace(s, k), At(Grid(s), s[j]))
<1> DEFINE G == Grid(s)
           n == Len(s)
           width == GridWidth(s)
           P(k) == At(G, s[k])
           h(k) == ColPlace(s, k)
<1>1. PICK K : AreColumns(K, s)
  BY GridColumns
<1>2. /\ width \in Nat \ {0} /\ n \in Nat
      /\ \A k \in 1..n : Col(k) \in 0..(width - 1) /\ Col(k) + 1 \in 1..width
  BY GridColumns
<1>3. /\ Len(K) = width /\ G = Beside("row", K)
      /\ \A c \in 1..width : IsLayout(K[c]) /\ K[c][<<>>].dir # "row"
      /\ \A c, d \in 1..width : c # d => LeafIds(K[c]) \cap LeafIds(K[d]) = {}
  BY <1>1 DEF AreColumns, ShowsColumn
<1>4. \A c \in 1..width : ShowsColumn(K[c], s, c - 1)
  BY <1>1 DEF AreColumns
<1>5. "row" \in Dirs
  BY DEF Dirs
<1>6. /\ \A c \in 1..width : PlacedIn(G, Place(c, width), K[c])
      /\ \A k \in 0..(width - 2) : Spine(k) \in DOMAIN G /\ G[Spine(k)] = SplitNode("row")
  <2>1. /\ \A c \in 1..Len(K) : PlacedIn(Beside("row", K), Place(c, Len(K)), K[c])
        /\ \A k \in 0..(Len(K) - 2) :
             Spine(k) \in DOMAIN Beside("row", K) /\ Beside("row", K)[Spine(k)] = SplitNode("row")
    BY <1>2, <1>3, <1>5, BesidePlaces, ZenonT(60)
  <2> QED BY <1>3, <2>1
<1>7. IsLayout(G) /\ LeafIds(G) = {s[i] : i \in 1..n}
  BY GridIsLayout
<1> HIDE DEF G, n, width
<1>8. ASSUME NEW k \in 1..n
      PROVE  /\ s[k] \in LeafIds(K[Col(k) + 1]) /\ At(K[Col(k) + 1], s[k]) \in Path
             /\ P(k) = h(k) \o At(K[Col(k) + 1], s[k])
             /\ h(k) \in Path /\ P(k) \in Path
  <2> DEFINE c == Col(k) + 1
  <2>1. c \in 1..width /\ c - 1 = Col(k)
    BY <1>2
  <2>2. LeafIds(K[c]) = {s[j] : j \in {i \in 1..n : Col(i) = c - 1}}
    BY <1>4, <2>1 DEF ShowsColumn, n
  <2>3. s[k] \in LeafIds(K[c])
    BY <2>1, <2>2
  <2>4. PlacedIn(G, Place(c, width), K[c]) /\ IsLayout(K[c])
    BY <1>3, <1>6, <2>1
  <2>5. P(k) = Place(c, width) \o At(K[c], s[k])
    BY <2>3, <2>4 DEF PlacedIn
  <2>6. Place(c, width) \in Path
    BY <1>2, <2>1, Places
  <2>7. At(K[c], s[k]) \in Path
    BY <2>3, <2>4, PlaceOf
  <2>8. P(k) \in Path
    BY <2>5, <2>6, <2>7, Joined
  <2> QED BY <2>3, <2>5, <2>6, <2>7, <2>8 DEF ColPlace, width
<1>9. ASSUME NEW k \in 1..n PROVE h(k) \in ColumnRoots(G)
  <2> DEFINE c == Col(k) + 1
             p == Place(c, width)
  <2>1. c \in 1..width
    BY <1>2
  <2>2. p \in DOMAIN G /\ G[p] = K[c][<<>>]
    BY <1>6, <2>1 DEF PlacedIn
  <2>3. G[p].dir # "row"
    BY <1>3, <2>1, <2>2
  <2>4. ASSUME NEW i \in 0..(Len(p) - 1) PROVE G[SubSeq(p, 1, i)].dir = "row"
    <3>1. i \in 0..(width - 2) /\ SubSeq(p, 1, i) = Spine(i)
      BY <1>2, <2>1, Places
    <3>2. G[Spine(i)] = SplitNode("row")
      BY <1>6, <3>1
    <3>3. SplitNode("row").dir = "row"
      BY DEF SplitNode
    <3>4. G[Spine(i)].dir = "row"
      BY <3>2, <3>3
    <3> HIDE DEF p
    <3> QED BY <3>1, <3>4
  <2>5. p = h(k)
    BY DEF ColPlace, width
  <2> HIDE DEF p
  <2>6. p \in ColumnRoots(G)
    BY <2>2, <2>3, <2>4 DEF ColumnRoots
  <2> QED BY <2>5, <2>6
<1>10. ASSUME NEW k \in 1..n PROVE IsPrefix(h(k), P(k))
  BY <1>8, BelowIt
<1>11. ASSUME NEW j \in 1..n, NEW k \in 1..n, Col(j) = Col(k), j < k PROVE Precedes(P(j), P(k))
  <2> DEFINE c == Col(k) + 1
             B == K[c]
  <2>1. c \in 1..width /\ c - 1 = Col(k) /\ ShowsColumn(B, s, c - 1)
    BY <1>2, <1>4
  <2>2. Precedes(At(B, s[j]), At(B, s[k]))
    BY <1>11, <2>1 DEF ShowsColumn, n
  <2>3. P(k) = h(k) \o At(B, s[k]) /\ At(B, s[k]) \in Path /\ h(k) \in Path
    BY <1>8
  <2>4. P(j) = h(k) \o At(B, s[j]) /\ At(B, s[j]) \in Path
    BY <1>8, <1>11 DEF ColPlace
  <2> HIDE DEF B
  <2>5. Precedes(h(k) \o At(B, s[j]), h(k) \o At(B, s[k]))
    BY <2>2, <2>3, <2>4, PrecedesBelow
  <2> QED BY <2>3, <2>4, <2>5
<1>12. ASSUME NEW j \in 1..n, NEW k \in 1..n, Col(j) < Col(k)
       PROVE  Precedes(P(j), P(k)) /\ ~IsPrefix(h(j), P(k)) /\ ~IsPrefix(h(k), P(j))
  <2>1. Precedes(h(j), h(k))
    <3>1. Col(j) + 1 \in 1..width /\ Col(k) + 1 \in 1..width /\ Col(j) + 1 < Col(k) + 1
      BY <1>2, <1>12
    <3>2. Precedes(Place(Col(j) + 1, width), Place(Col(k) + 1, width))
      BY <1>2, <3>1, PlacesInOrder
    <3> QED BY <3>2 DEF ColPlace, width
  <2>2. PICK a \in Path : P(j) = h(j) \o a /\ h(j) \in Path
    BY <1>8
  <2>3. PICK b \in Path : P(k) = h(k) \o b /\ h(k) \in Path
    BY <1>8
  <2>4. P(j) \in Path /\ P(k) \in Path /\ ~Precedes(P(j), P(j)) /\ ~Precedes(P(k), P(k))
    BY <1>8, PrecedesOrders
  <2>5. Precedes(P(j), P(k))
    BY <2>1, <2>2, <2>3, PrecedesExtends
  <2>6. ASSUME IsPrefix(h(j), P(k)) PROVE FALSE
    <3>1. PICK t \in Path : P(k) = h(j) \o t
      BY <2>2, <2>4, <2>6, Above
    <3>2. Precedes(h(j) \o t, h(k) \o b)
      BY <2>1, <2>2, <2>3, PrecedesExtends
    <3> QED BY <2>3, <2>4, <3>1, <3>2
  <2>7. ASSUME IsPrefix(h(k), P(j)) PROVE FALSE
    <3>1. PICK t \in Path : P(j) = h(k) \o t
      BY <2>3, <2>4, <2>7, Above
    <3>2. Precedes(h(j) \o a, h(k) \o t)
      BY <2>1, <2>2, <2>3, PrecedesExtends
    <3> QED BY <2>2, <2>4, <3>1, <3>2
  <2> QED BY <2>5, <2>6, <2>7
<1> QED BY <1>8, <1>9, <1>10, <1>11, <1>12 DEF G, n

(* A column counts its panes from the top.                                  *)
LEMMA GridRows ==
  ASSUME NEW s \in Seq(Ids), s # <<>>, \A i, j \in 1..Len(s) : s[i] = s[j] => i = j,
         NEW k \in 1..Len(s)
  PROVE  RowOf(Grid(s), At(Grid(s), s[k])) = RowNo(k)
<1> DEFINE G == Grid(s)
           n == Len(s)
           P(j) == At(G, s[j])
           h == ColPlace(s, k)
           Q == {q \in Leaves(G) : IsPrefix(h, q) /\ Precedes(q, P(k))}
           R == RowNo(k)
           cell(r) == CellAt(r - 1, Col(k))
           f == [r \in 1..R |-> P(cell(r))]
<1>1. IsLayout(G) /\ LeafIds(G) = {s[i] : i \in 1..n} /\ n \in Nat
  BY GridIsLayout
<1>2. /\ \A j \in 1..n : /\ P(j) \in Path
                         /\ ColPlace(s, j) \in ColumnRoots(G) /\ IsPrefix(ColPlace(s, j), P(j))
      /\ \A i, j \in 1..n : Col(i) = Col(j) /\ i < j => Precedes(P(i), P(j))
      /\ \A i, j \in 1..n :
           Col(i) < Col(j) => /\ Precedes(P(i), P(j))
                              /\ ~IsPrefix(ColPlace(s, i), P(j)) /\ ~IsPrefix(ColPlace(s, j), P(i))
  BY GridPlaces
<1>3. \A j \in 1..n : P(j) \in Leaves(G) /\ G[P(j)].id = s[j]
  BY <1>1, PlaceOf
<1>4. \A q \in Leaves(G) : \E j \in 1..n : q = P(j)
  <2> SUFFICES ASSUME NEW q \in Leaves(G) PROVE \E j \in 1..n : q = P(j)
    OBVIOUS
  <2>1. G[q].id \in LeafIds(G)
    BY DEF LeafIds
  <2>2. PICK j \in 1..n : G[q].id = s[j]
    BY <1>1, <2>1
  <2>3. q = At(G, G[q].id)
    BY <1>1, <2>1, AtIt
  <2> QED BY <2>2, <2>3
<1>5. \A j \in 1..n : j \in Nat \ {0}
  BY <1>1
<1>6. \A j \in 1..n : Col(j) \in 0..(Columns - 1) /\ Col(j) \in Int
  BY <1>5, CellOf, ColumnsAssumption
<1>7. k \in 1..n
  OBVIOUS
<1>8. RowOf(G, P(k)) = Cardinality(Q)
  <2>1. ColumnOf(G, P(k)) = h
    BY <1>1, <1>2, <1>7, OneColumn
  <2> QED BY <2>1 DEF RowOf
<1> HIDE DEF G, n
<1>9. ASSUME NEW j \in 1..n PROVE P(j) \in Q <=> Col(j) = Col(k) /\ j < k
  <2>1. ASSUME Col(j) = Col(k), j < k PROVE P(j) \in Q
    <3>1. ColPlace(s, j) = h
      BY <2>1 DEF ColPlace
    <3>2. IsPrefix(h, P(j)) /\ Precedes(P(j), P(k))
      BY <1>2, <1>7, <2>1, <3>1
    <3> QED BY <1>3, <3>2
  <2>2. ASSUME P(j) \in Q PROVE Col(j) = Col(k) /\ j < k
    <3>1. IsPrefix(h, P(j)) /\ Precedes(P(j), P(k))
      BY <2>2
    <3>2. ~(Col(j) < Col(k)) /\ ~(Col(k) < Col(j))
      BY <1>2, <1>7, <3>1
    <3>3. Col(j) = Col(k)
      BY <1>6, <1>7, <3>2
    <3>4. ~(k < j)
      <4> SUFFICES ASSUME k < j PROVE FALSE
        OBVIOUS
      <4>1. Precedes(P(k), P(j))
        BY <1>2, <1>7, <3>3
      <4> QED BY <1>2, <1>7, <3>1, <4>1, PrecedesOrders
    <3>5. j # k
      BY <1>2, <1>7, <3>1, PrecedesOrders
    <3> QED BY <1>5, <1>7, <3>3, <3>4, <3>5
  <2> QED BY <2>1, <2>2
<1>10. R \in Nat /\ Col(k) \in 0..(Columns - 1)
  BY <1>5, <1>7, CellOf
<1>11. ASSUME NEW r \in 1..R
       PROVE  /\ cell(r) \in 1..n /\ cell(r) < k /\ Col(cell(r)) = Col(k) /\ RowNo(cell(r)) = r - 1
  <2>1. r - 1 \in Nat /\ r - 1 < R
    BY <1>10
  <2>2. cell(r) \in Nat \ {0} /\ Col(cell(r)) = Col(k) /\ RowNo(cell(r)) = r - 1
    BY <1>10, <2>1, CellIs
  <2> HIDE DEF cell
  <2>3. cell(r) < k
    BY <1>5, <1>7, <2>1, <2>2, CellOrder
  <2> QED BY <1>1, <1>7, <2>2, <2>3
<1> HIDE DEF Q, R, cell, h
<1>12. f \in [1..R -> Q]
  <2>1. \A r \in 1..R : P(cell(r)) \in Q
    BY <1>9, <1>11
  <2> QED BY <2>1
<1>13. ASSUME NEW q \in 1..R, NEW r \in 1..R, f[q] = f[r] PROVE q = r
  <2>1. P(cell(q)) = P(cell(r))
    BY <1>13
  <2>2. s[cell(q)] = s[cell(r)]
    BY <1>3, <1>11, <2>1
  <2>3. cell(q) = cell(r)
    BY <1>11, <2>2 DEF n
  <2>4. q - 1 = r - 1
    BY <1>11, <2>3
  <2> QED BY <1>10, <2>4
<1>14. ASSUME NEW q \in Q PROVE \E r \in 1..R : f[r] = q
  <2>1. PICK j \in 1..n : q = P(j)
    BY <1>4 DEF Q
  <2>2. Col(j) = Col(k) /\ j < k
    BY <1>9, <2>1
  <2>3. RowNo(j) \in Nat /\ j = CellAt(RowNo(j), Col(k))
    BY <1>5, <2>2, CellOf
  <2>4. RowNo(j) < R
    <3>1. ~(R < RowNo(j)) /\ RowNo(j) # R
      <4>1. R < RowNo(j) => k < j
        BY <1>5, <1>7, CellOrder DEF R
      <4>2. RowNo(j) = R => j = k
        BY <1>5, <1>7, <2>2, CellOrder DEF R
      <4> QED BY <1>5, <1>7, <2>2, <4>1, <4>2
    <3> QED BY <1>10, <2>3, <3>1
  <2>5. RowNo(j) + 1 \in 1..R /\ (RowNo(j) + 1) - 1 = RowNo(j)
    BY <1>10, <2>3, <2>4
  <2>6. cell(RowNo(j) + 1) = j
    BY <2>3, <2>5 DEF cell
  <2>7. f[RowNo(j) + 1] = P(j)
    BY <2>5, <2>6
  <2> QED BY <2>1, <2>5, <2>7
<1> HIDE DEF f
<1>15. f \in Bijection(1..R, Q)
  BY <1>12, <1>13, <1>14 DEF Bijection, Injection, Surjection, IsInjective
<1>16. ExistsBijection(1..R, Q)
  BY <1>15 DEF ExistsBijection
<1>17. Cardinality(Q) = R
  BY <1>10, <1>16, FS_CountingElements
<1> QED BY <1>8, <1>17 DEF G, R

(* Numbers that grow and leave none out are their own positions.            *)
GrowsOnto(f, m, n) ==
  /\ m \in Nat /\ n \in Nat /\ f \in [1..m -> 1..n]
  /\ \A i, j \in 1..m : i < j => f[i] < f[j]
  /\ \A k \in 1..n : \E i \in 1..m : f[i] = k

LEMMA Identical ==
  ASSUME NEW m, NEW n, NEW f, GrowsOnto(f, m, n)
  PROVE  m = n /\ \A i \in 1..m : f[i] = i
<1> DEFINE Bad == {i \in 1..m : f[i] # i}
<1>0. /\ m \in Nat /\ n \in Nat
      /\ \A i, j \in 1..m : i < j => f[i] < f[j]
      /\ \A k \in 1..n : \E i \in 1..m : f[i] = k
  BY DEF GrowsOnto
<1>1. \A i \in 1..m : f[i] \in 1..n
  BY DEF GrowsOnto
<1>2. Bad = {}
  <2> SUFFICES ASSUME Bad # {} PROVE FALSE
    OBVIOUS
  <2>1. Bad \in SUBSET Nat
    BY <1>0
  <2>2. PICK i \in Bad : \A j \in Bad : i <= j
    <3> HIDE DEF Bad
    <3> QED BY <2>1, NatMin
  <2>3. i \in 1..m /\ f[i] # i /\ \A j \in 1..m : j < i => f[j] = j
    BY <2>1, <2>2
  <2> HIDE DEF Bad
  <2>4. CASE f[i] < i
    <3>1. f[i] \in 1..m /\ f[f[i]] = f[i]
      BY <1>0, <1>1, <2>3, <2>4
    <3>2. f[f[i]] < f[i]
      BY <1>0, <2>3, <2>4, <3>1
    <3> QED BY <1>0, <1>1, <2>3, <3>1, <3>2
  <2>5. CASE f[i] > i
    <3>1. i \in 1..n
      BY <1>0, <1>1, <2>3, <2>5
    <3>2. PICK k \in 1..m : f[k] = i
      BY <1>0, <3>1
    <3>3. ~(k < i) /\ k # i
      BY <2>3, <2>5, <3>2
    <3>4. i < k
      BY <1>0, <2>3, <3>3
    <3>5. f[i] < f[k]
      BY <1>0, <2>3, <3>4
    <3> QED BY <1>0, <1>1, <2>3, <2>5, <3>2, <3>5
  <2> QED BY <1>0, <1>1, <2>3, <2>4, <2>5
<1>3. \A i \in 1..m : f[i] = i
  BY <1>2
<1>4. m <= n
  <2>1. m # 0 => m \in 1..n
    BY <1>0, <1>1, <1>3
  <2> QED BY <1>0, <2>1
<1>5. n <= m
  <2>1. CASE n = 0
    BY <1>0, <2>1
  <2>2. CASE n # 0
    <3>1. PICK i \in 1..m : f[i] = n
      BY <1>0, <2>2
    <3> QED BY <1>0, <1>3, <3>1
  <2> QED BY <2>1, <2>2
<1> QED BY <1>0, <1>3, <1>4, <1>5

(* collectLeavesForAddView reads what buildAddViewLayout made of a list as  *)
(* that list.                                                               *)
LEMMA GridReads ==
  ASSUME NEW s \in Seq(Ids), s # <<>>, \A i, j \in 1..Len(s) : s[i] = s[j] => i = j
  PROVE  Reading(Grid(s)) = s
<1> DEFINE G == Grid(s)
           n == Len(s)
           P(j) == At(G, s[j])
           row == Rows(G)
<1>1. IsLayout(G) /\ LeafIds(G) = {s[i] : i \in 1..n} /\ n \in Nat
  BY GridIsLayout
<1>2. /\ \A j \in 1..n : P(j) \in Path
      /\ \A i, j \in 1..n : Col(i) < Col(j) => Precedes(P(i), P(j))
  BY GridPlaces
<1>3. \A j \in 1..n : RowOf(G, P(j)) = RowNo(j)
  BY GridRows
<1>4. \A j \in 1..n : j \in Nat \ {0}
  BY <1>1
<1>5. \A j \in 1..n : Col(j) \in Int /\ RowNo(j) \in Nat
  <2>1. \A j \in 1..n : Col(j) \in 0..(Columns - 1) /\ RowNo(j) \in Nat
    BY <1>4, CellOf
  <2> QED BY <2>1, ColumnsAssumption
<1> HIDE DEF G, n
<1>6. \A j \in 1..n : P(j) \in Leaves(G) /\ G[P(j)].id = s[j]
  BY <1>1, PlaceOf
<1>7. \A q \in Leaves(G) : \E j \in 1..n : q = P(j)
  <2> SUFFICES ASSUME NEW q \in Leaves(G) PROVE \E j \in 1..n : q = P(j)
    OBVIOUS
  <2>1. G[q].id \in LeafIds(G)
    BY DEF LeafIds
  <2>2. PICK j \in 1..n : G[q].id = s[j]
    BY <1>1, <2>1
  <2>3. q = At(G, G[q].id)
    BY <1>1, <2>1, AtIt
  <2> QED BY <2>2, <2>3
<1>8. \A j \in 1..n : row[P(j)] = RowNo(j)
  BY <1>3, <1>6 DEF Rows
<1> HIDE DEF row
<1>9. ASSUME NEW j \in 1..n, NEW k \in 1..n, ReadBefore(row, P(j), P(k)) PROVE j < k
  <2>1. /\ j \in Nat \ {0} /\ k \in Nat \ {0} /\ Col(j) \in Int /\ Col(k) \in Int
        /\ RowNo(j) \in Nat /\ RowNo(k) \in Nat /\ P(j) \in Path /\ P(k) \in Path
    BY <1>2, <1>4, <1>5
  <2>2. IF RowNo(j) # RowNo(k) THEN RowNo(j) < RowNo(k)
        ELSE IF RowNo(j) = 0 THEN Precedes(P(j), P(k)) ELSE Precedes(P(k), P(j))
    BY <1>8, <1>9 DEF ReadBefore
  <2>3. CASE RowNo(j) # RowNo(k)
    BY <2>1, <2>2, <2>3, CellOrder
  <2>4. CASE RowNo(j) = RowNo(k) /\ RowNo(j) = 0
    <3>1. Precedes(P(j), P(k))
      BY <2>2, <2>4
    <3>2. ~Precedes(P(k), P(j)) /\ ~Precedes(P(j), P(j))
      BY <2>1, <3>1, PrecedesOrders
    <3>3. ~(Col(k) < Col(j))
      BY <1>2, <3>2
    <3>4. Col(j) # Col(k)
      <4> SUFFICES ASSUME Col(j) = Col(k) PROVE FALSE
        OBVIOUS
      <4>1. j = k
        BY <2>1, <2>4, CellOrder
      <4> QED BY <3>1, <3>2, <4>1
    <3>5. Col(j) < Col(k)
      BY <2>1, <3>3, <3>4
    <3> QED BY <2>1, <2>4, <3>5, CellOrder
  <2>5. CASE RowNo(j) = RowNo(k) /\ RowNo(j) # 0
    <3>1. Precedes(P(k), P(j))
      BY <2>2, <2>5
    <3>2. ~Precedes(P(j), P(k)) /\ ~Precedes(P(j), P(j))
      BY <2>1, <3>1, PrecedesOrders
    <3>3. ~(Col(j) < Col(k))
      BY <1>2, <3>2
    <3>4. Col(j) # Col(k)
      <4> SUFFICES ASSUME Col(j) = Col(k) PROVE FALSE
        OBVIOUS
      <4>1. j = k
        BY <2>1, <2>5, CellOrder
      <4> QED BY <3>1, <3>2, <4>1
    <3>5. Col(k) < Col(j)
      BY <2>1, <3>3, <3>4
    <3> QED BY <2>1, <2>5, <3>5, CellOrder
  <2> QED BY <2>3, <2>4, <2>5
<1>10. PICK t : /\ Enumerates(t, Leaves(G)) /\ Reading(G) = [i \in DOMAIN t |-> G[t[i]].id]
                /\ \A i, j \in 1..Len(t) : i < j <=> ReadBefore(row, t[i], t[j])
  BY <1>1, ReadingLeaves DEF row
<1>11. /\ Len(t) \in Nat /\ DOMAIN t = 1..Len(t)
       /\ \A i \in 1..Len(t) : t[i] \in Leaves(G)
       /\ \A q \in Leaves(G) : \E i \in 1..Len(t) : t[i] = q
  BY <1>10 DEF Enumerates
<1> DEFINE m == Len(t)
           f == [i \in 1..m |-> CHOOSE j \in 1..n : t[i] = P(j)]
<1>12. \A i \in 1..m : f[i] \in 1..n /\ t[i] = P(f[i])
  BY <1>7, <1>11
<1>13. f = [i \in 1..m |-> f[i]]
  OBVIOUS
<1> HIDE DEF f, m
<1>14. f \in [1..m -> 1..n]
  BY <1>12, <1>13
<1>15. ASSUME NEW i \in 1..m, NEW j \in 1..m, i < j PROVE f[i] < f[j]
  <2>1. ReadBefore(row, t[i], t[j])
    BY <1>10, <1>15 DEF m
  <2>2. f[i] \in 1..n /\ f[j] \in 1..n /\ ReadBefore(row, P(f[i]), P(f[j]))
    BY <1>12, <2>1
  <2> QED BY <1>9, <2>2
<1>16. ASSUME NEW k \in 1..n PROVE \E i \in 1..m : f[i] = k
  <2>1. PICK i \in 1..m : t[i] = P(k)
    BY <1>6, <1>11 DEF m
  <2>2. f[i] \in 1..n /\ P(f[i]) = P(k)
    BY <1>12, <2>1
  <2>3. s[f[i]] = s[k]
    BY <1>6, <2>2
  <2>4. f[i] = k
    BY <2>2, <2>3 DEF n
  <2> QED BY <2>4
<1>17. m = n /\ \A i \in 1..m : f[i] = i
  <2>1. m \in Nat
    BY <1>11 DEF m
  <2>2. n \in Nat
    BY <1>1
  <2>3. \A i, j \in 1..m : i < j => f[i] < f[j]
    BY <1>15
  <2>4. GrowsOnto(f, m, n)
    BY <1>14, <1>16, <2>1, <2>2, <2>3 DEF GrowsOnto
  <2> QED BY <2>4, Identical
<1>18. DOMAIN Reading(G) = 1..n /\ \A i \in 1..n : Reading(G)[i] = s[i]
  <2>1. DOMAIN t = 1..n
    BY <1>11, <1>17 DEF m
  <2>2. ASSUME NEW i \in 1..n PROVE G[t[i]].id = s[i]
    <3>1. t[i] = P(i)
      BY <1>12, <1>17
    <3> QED BY <1>6, <3>1
  <2> QED BY <1>10, <2>1, <2>2
<1>19. Reading(G) = [i \in 1..n |-> Reading(G)[i]]
  BY <1>10, <1>18
<1>20. s = [i \in 1..n |-> s[i]]
  BY DEF n
<1>21. [i \in 1..n |-> Reading(G)[i]] = [i \in 1..n |-> s[i]]
  BY <1>18
<1>22. Reading(G) = s
  BY <1>19, <1>20, <1>21
<1> QED BY <1>22 DEF G

(* addView: the panes shown and the new one, in their order.                *)
LEMMA GridAdds ==
  ASSUME NEW T, IsLayout(T), NEW new \in Ids, new \notin LeafIds(T)
  PROVE  LET order == Append(Reading(T), new) IN
         /\ IsLayout(Grid(order)) /\ LeafIds(Grid(order)) = LeafIds(T) \cup {new}
         /\ Reading(Grid(order)) = order
<1> DEFINE s == Reading(T)
           u == Append(s, new)
<1>1. Enumerates(s, LeafIds(T))
  BY ReadingLists
<1> HIDE DEF s
<1>2. LeafIds(T) \subseteq Ids
  BY AtIt
<1>3. s \in Seq(LeafIds(T)) /\ \A i \in 1..Len(s) : s[i] \in LeafIds(T)
  BY <1>1 DEF Enumerates
<1>4. s \in Seq(Ids) /\ Len(s) \in Nat
  BY <1>2, <1>3
<1>5. /\ u \in Seq(Ids) /\ u # <<>> /\ Len(u) = Len(s) + 1
      /\ \A i \in 1..Len(s) : u[i] = s[i]
      /\ u[Len(s) + 1] = new
  BY <1>4
<1> HIDE DEF u
<1>6. \A m \in 1..Len(u) : m \in 1..Len(s) \/ m = Len(s) + 1
  BY <1>4, <1>5
<1>7. ASSUME NEW i \in 1..Len(u), NEW j \in 1..Len(u), u[i] = u[j] PROVE i = j
  <2>1. CASE i \in 1..Len(s) /\ j \in 1..Len(s)
    BY <1>1, <1>5, <1>7, <2>1 DEF Enumerates
  <2>2. CASE i = Len(s) + 1 /\ j \in 1..Len(s)
    BY <1>3, <1>5, <1>7, <2>2
  <2>3. CASE j = Len(s) + 1 /\ i \in 1..Len(s)
    BY <1>3, <1>5, <1>7, <2>3
  <2> QED BY <1>6, <2>1, <2>2, <2>3
<1>8. IsLayout(Grid(u)) /\ LeafIds(Grid(u)) = {u[i] : i \in 1..Len(u)} /\ Reading(Grid(u)) = u
  BY <1>5, <1>7, GridIsLayout, GridReads
<1>9. \A i \in 1..Len(u) : u[i] \in LeafIds(T) \cup {new}
  BY <1>3, <1>5, <1>6
<1>10. ASSUME NEW x \in LeafIds(T) \cup {new} PROVE \E i \in 1..Len(u) : u[i] = x
  <2>1. CASE x \in LeafIds(T)
    <3>1. PICK i \in 1..Len(s) : s[i] = x
      BY <1>1, <2>1 DEF Enumerates
    <3>2. i \in 1..Len(u)
      BY <1>4, <1>5
    <3> QED BY <1>5, <3>1, <3>2
  <2>2. CASE x = new
    BY <1>4, <1>5, <2>2
  <2> QED BY <2>1, <2>2
<1>11. {u[i] : i \in 1..Len(u)} = LeafIds(T) \cup {new}
  BY <1>9, <1>10
<1> QED BY <1>8, <1>11 DEF u, s

-----------------------------------------------------------------------------
(* The workspaces.                                                          *)

Forest == UNION {[D -> Nodes] : D \in SUBSET Path}
Tab    == [id : Spaces, root : Forest]

(* A list of workspaces that can be on the screen. *)
Sound(ts) ==
  /\ ts \in Seq(Tab) /\ ts # <<>>
  /\ \A i \in 1..Len(ts) : IsLayout(ts[i].root)
  /\ \A i, j \in 1..Len(ts) :
       i # j => ts[i].id # ts[j].id /\ LeafIds(ts[i].root) \cap LeafIds(ts[j].root) = {}

(* A captured workspace that may be put back: the others have none of its   *)
(* panes.                                                                   *)
Fits(ts, w) ==
  /\ w \in Tab /\ IsLayout(w.root)
  /\ \A i \in 1..Len(ts) : ts[i].id # w.id => LeafIds(ts[i].root) \cap LeafIds(w.root) = {}

LEMMA LayoutType == \A T : IsLayout(T) => T \in Forest
<1> SUFFICES ASSUME NEW T, IsLayout(T) PROVE T \in Forest
  OBVIOUS
<1>1. T \in [DOMAIN T -> Nodes] /\ DOMAIN T \in SUBSET Path
  BY DEF IsLayout, Path
<1> QED BY <1>1 DEF Forest

LEMMA SoundTabs ==
  ASSUME NEW ts, Sound(ts)
  PROVE  /\ Len(ts) \in Nat \ {0} /\ DOMAIN ts = 1..Len(ts)
         /\ \A i \in 1..Len(ts) : /\ ts[i] \in Tab /\ ts[i].id \in Spaces
                                  /\ ts[i] = [id |-> ts[i].id, root |-> ts[i].root]
<1>1. ts \in Seq(Tab) /\ ts # <<>>
  BY DEF Sound
<1>2. Len(ts) \in Nat \ {0} /\ DOMAIN ts = 1..Len(ts) /\ \A i \in 1..Len(ts) : ts[i] \in Tab
  BY <1>1
<1> QED BY <1>2 DEF Tab

(* Another tree for one workspace. *)
LEMMA TreeReplaced ==
  ASSUME NEW ts, Sound(ts), NEW k \in 1..Len(ts), NEW R, IsLayout(R),
         \A i \in 1..Len(ts) : i # k => LeafIds(ts[i].root) \cap LeafIds(R) = {},
         NEW us, us = [ts EXCEPT ![k].root = R]
  PROVE  /\ Sound(us) /\ Len(us) = Len(ts)
         /\ \A i \in 1..Len(ts) : /\ us[i].id = ts[i].id
                                  /\ us[i].root = IF i = k THEN R ELSE ts[i].root
<1>1. R \in Forest
  BY LayoutType
<1>2. ts \in Seq(Tab) /\ Len(ts) \in Nat \ {0} /\ DOMAIN ts = 1..Len(ts)
  BY SoundTabs DEF Sound
<1>3. \A i \in 1..Len(ts) : ts[i] \in Tab
  BY SoundTabs
<1>4. ASSUME NEW i \in 1..Len(ts)
      PROVE  /\ us[i] \in Tab /\ us[i].id = ts[i].id
             /\ us[i].root = IF i = k THEN R ELSE ts[i].root
  <2>1. CASE i = k
    <3>1. us[i] = [ts[i] EXCEPT !.root = R]
      BY <1>2, <2>1
    <3> QED BY <1>1, <1>3, <2>1, <3>1 DEF Tab
  <2>2. CASE i # k
    <3>1. us[i] = ts[i]
      BY <1>2, <2>2
    <3> QED BY <1>3, <2>2, <3>1
  <2> QED BY <2>1, <2>2
<1>5. us \in Seq(Tab) /\ Len(us) = Len(ts)
  <2>1. us = [i \in 1..Len(ts) |-> us[i]]
    BY <1>2
  <2> QED BY <1>2, <1>4, <2>1
<1>6. us # <<>>
  BY <1>2, <1>5
<1>7. \A i \in 1..Len(us) : IsLayout(us[i].root)
  BY <1>4, <1>5 DEF Sound
<1>8. ASSUME NEW i \in 1..Len(us), NEW j \in 1..Len(us), i # j
      PROVE  us[i].id # us[j].id /\ LeafIds(us[i].root) \cap LeafIds(us[j].root) = {}
  <2>1. ts[i].id # ts[j].id /\ LeafIds(ts[i].root) \cap LeafIds(ts[j].root) = {}
    BY <1>5, <1>8 DEF Sound
  <2>2. CASE i = k
    BY <1>4, <1>5, <1>8, <2>1, <2>2
  <2>3. CASE j = k
    BY <1>4, <1>5, <1>8, <2>1, <2>3
  <2>4. CASE i # k /\ j # k
    BY <1>4, <1>5, <2>1, <2>4
  <2> QED BY <2>2, <2>3, <2>4
<1> QED BY <1>4, <1>5, <1>6, <1>7, <1>8 DEF Sound

(* One workspace less. *)
LEMMA TabRemoved ==
  ASSUME NEW ts, Sound(ts), Len(ts) > 1, NEW k \in 1..Len(ts)
  PROVE  /\ Sound(RemoveAt(ts, k)) /\ Len(RemoveAt(ts, k)) = Len(ts) - 1
         /\ \A i \in 1..Len(RemoveAt(ts, k)) : \E j \in 1..Len(ts) \ {k} : RemoveAt(ts, k)[i] = ts[j]
         /\ \A j \in 1..Len(ts) \ {k} : \E i \in 1..Len(RemoveAt(ts, k)) : RemoveAt(ts, k)[i] = ts[j]
<1> DEFINE a == SubSeq(ts, 1, k - 1)
           b == SubSeq(ts, k + 1, Len(ts))
           us == RemoveAt(ts, k)
           was == [i \in 1..(Len(ts) - 1) |-> IF i < k THEN i ELSE i + 1]
<1>1. ts \in Seq(Tab) /\ Len(ts) \in Nat \ {0}
  BY SoundTabs DEF Sound
<1>2. a \in Seq(Tab) /\ Len(a) = k - 1 /\ \A j \in 1..(k - 1) : a[j] = ts[j]
  BY <1>1
<1>3. b \in Seq(Tab) /\ Len(b) = Len(ts) - k /\ \A j \in 1..(Len(ts) - k) : b[j] = ts[k + j]
  BY <1>1
<1>4. us = a \o b
  BY DEF RemoveAt
<1> HIDE DEF a, b, us
<1>5. us \in Seq(Tab) /\ Len(us) = Len(ts) - 1
  BY <1>1, <1>2, <1>3, <1>4
<1>6. ASSUME NEW i \in 1..(Len(ts) - 1) PROVE was[i] \in 1..Len(ts) /\ was[i] # k /\ us[i] = ts[was[i]]
  <2>1. CASE i < k
    BY <1>1, <1>2, <1>3, <1>4, <2>1
  <2>2. CASE i >= k
    <3>1. (a \o b)[i] = b[i - (k - 1)] /\ i - (k - 1) \in 1..(Len(ts) - k)
      BY <1>1, <1>2, <1>3, <2>2
    <3>2. b[i - (k - 1)] = ts[k + (i - (k - 1))]
      BY <1>3, <3>1
    <3>3. k + (i - (k - 1)) = i + 1
      BY <1>1
    <3>4. was[i] = i + 1 /\ i + 1 \in 1..Len(ts) /\ i + 1 # k
      BY <1>1, <2>2
    <3> QED BY <1>4, <3>1, <3>2, <3>3, <3>4
  <2> QED BY <1>1, <2>1, <2>2
<1>7. \A i, j \in 1..(Len(ts) - 1) : i # j => was[i] # was[j]
  BY <1>1
<1>8. ASSUME NEW j \in 1..Len(ts) \ {k} PROVE \E i \in 1..(Len(ts) - 1) : was[i] = j
  <2>1. CASE j < k
    <3>1. j \in 1..(Len(ts) - 1) /\ was[j] = j
      BY <1>1, <2>1
    <3> QED BY <3>1
  <2>2. CASE j > k
    <3>1. j - 1 \in 1..(Len(ts) - 1) /\ was[j - 1] = j
      BY <1>1, <2>2
    <3> QED BY <3>1
  <2> QED BY <1>1, <2>1, <2>2
<1> HIDE DEF was
<1>9. us # <<>>
  BY <1>1, <1>5
<1>10. \A i \in 1..Len(us) : IsLayout(us[i].root)
  BY <1>5, <1>6 DEF Sound
<1>11. ASSUME NEW i \in 1..Len(us), NEW j \in 1..Len(us), i # j
       PROVE  us[i].id # us[j].id /\ LeafIds(us[i].root) \cap LeafIds(us[j].root) = {}
  <2>1. was[i] # was[j] /\ was[i] \in 1..Len(ts) /\ was[j] \in 1..Len(ts)
    BY <1>5, <1>6, <1>7, <1>11
  <2>2. us[i] = ts[was[i]] /\ us[j] = ts[was[j]]
    BY <1>5, <1>6
  <2> QED BY <2>1, <2>2 DEF Sound
<1>12. Sound(us)
  BY <1>5, <1>9, <1>10, <1>11 DEF Sound
<1> QED BY <1>5, <1>6, <1>8, <1>12 DEF us

(* One workspace more. *)
LEMMA TabAdded ==
  ASSUME NEW ts, Sound(ts), NEW w \in Tab, IsLayout(w.root),
         \A i \in 1..Len(ts) : ts[i].id # w.id /\ LeafIds(ts[i].root) \cap LeafIds(w.root) = {}
  PROVE  /\ Sound(Append(ts, w)) /\ Len(Append(ts, w)) = Len(ts) + 1
         /\ \A i \in 1..Len(ts) : Append(ts, w)[i] = ts[i]
         /\ Append(ts, w)[Len(ts) + 1] = w
<1> DEFINE us == Append(ts, w)
<1>1. ts \in Seq(Tab) /\ Len(ts) \in Nat \ {0}
  BY SoundTabs DEF Sound
<1>2. /\ us \in Seq(Tab) /\ us # <<>> /\ Len(us) = Len(ts) + 1
      /\ \A i \in 1..Len(ts) : us[i] = ts[i]
      /\ us[Len(ts) + 1] = w
  BY <1>1
<1> HIDE DEF us
<1>3. \A i \in 1..Len(us) : i \in 1..Len(ts) \/ i = Len(ts) + 1
  BY <1>1, <1>2
<1>4. \A i \in 1..Len(us) : IsLayout(us[i].root)
  BY <1>2, <1>3 DEF Sound
<1>5. ASSUME NEW i \in 1..Len(us), NEW j \in 1..Len(us), i # j
      PROVE  us[i].id # us[j].id /\ LeafIds(us[i].root) \cap LeafIds(us[j].root) = {}
  <2>1. CASE i \in 1..Len(ts) /\ j \in 1..Len(ts)
    BY <1>2, <1>5, <2>1 DEF Sound
  <2>2. CASE i = Len(ts) + 1 /\ j \in 1..Len(ts)
    BY <1>2, <2>2
  <2>3. CASE i \in 1..Len(ts) /\ j = Len(ts) + 1
    BY <1>2, <2>3
  <2> QED BY <1>3, <1>5, <2>1, <2>2, <2>3
<1>6. Sound(us)
  BY <1>2, <1>4, <1>5 DEF Sound
<1> QED BY <1>2, <1>6 DEF us

(* A captured workspace put back in its place. *)
LEMMA TabPutBack ==
  ASSUME NEW ts, Sound(ts), NEW w, Fits(ts, w),
         NEW us, us = [i \in DOMAIN ts |-> IF ts[i].id = w.id THEN w ELSE ts[i]]
  PROVE  /\ Sound(us) /\ Len(us) = Len(ts)
         /\ \A i \in 1..Len(ts) : us[i] = (IF ts[i].id = w.id THEN w ELSE ts[i]) /\ us[i].id = ts[i].id
<1>1. Len(ts) \in Nat \ {0} /\ DOMAIN ts = 1..Len(ts) /\ \A i \in 1..Len(ts) : ts[i] \in Tab
  BY SoundTabs
<1>2. w \in Tab /\ IsLayout(w.root)
  BY DEF Fits
<1>3. \A i \in 1..Len(ts) : /\ us[i] = IF ts[i].id = w.id THEN w ELSE ts[i]
                            /\ us[i].id = ts[i].id /\ us[i] \in Tab
  BY <1>1, <1>2
<1>4. us \in Seq(Tab) /\ Len(us) = Len(ts) /\ us # <<>>
  BY <1>1, <1>3
<1>5. \A i \in 1..Len(us) : IsLayout(us[i].root)
  BY <1>2, <1>3, <1>4 DEF Sound
<1>6. ASSUME NEW i \in 1..Len(us), NEW j \in 1..Len(us), i # j
      PROVE  us[i].id # us[j].id /\ LeafIds(us[i].root) \cap LeafIds(us[j].root) = {}
  <2>1. ts[i].id # ts[j].id /\ LeafIds(ts[i].root) \cap LeafIds(ts[j].root) = {}
    BY <1>4, <1>6 DEF Sound
  <2>2. CASE ts[i].id = w.id
    <3>1. LeafIds(ts[j].root) \cap LeafIds(w.root) = {}
      BY <1>4, <2>1, <2>2 DEF Fits
    <3>2. us[i].root = w.root /\ us[j].root = ts[j].root
      BY <1>3, <1>4, <2>1, <2>2
    <3> QED BY <1>3, <1>4, <2>1, <3>1, <3>2
  <2>3. CASE ts[j].id = w.id
    <3>1. LeafIds(ts[i].root) \cap LeafIds(w.root) = {}
      BY <1>4, <2>1, <2>3 DEF Fits
    <3>2. us[j].root = w.root /\ us[i].root = ts[i].root
      BY <1>3, <1>4, <2>1, <2>3
    <3> QED BY <1>3, <1>4, <2>1, <3>1, <3>2
  <2>4. CASE ts[i].id # w.id /\ ts[j].id # w.id
    BY <1>3, <1>4, <2>1, <2>4
  <2> QED BY <2>2, <2>3, <2>4
<1> QED BY <1>3, <1>4, <1>5, <1>6 DEF Sound

-----------------------------------------------------------------------------
(* The invariant: the workspaces are sound, one of them is shown, and what  *)
(* a waiting pane has captured can still be put back without showing a pane *)
(* twice.  The last is why OnePlace alone is not inductive: Answer writes   *)
(* the captured tree, and the panes of the other trees may have changed     *)
(* since.                                                                   *)
WorkspaceInv ==
  /\ Sound(tabs)
  /\ active \in SpaceIds
  /\ pending # None => Fits(tabs, pending)

LEMMA SpaceFound ==
  ASSUME Sound(tabs), NEW w \in SpaceIds
  PROVE  /\ SpaceAt(w) \in 1..Len(tabs) /\ tabs[SpaceAt(w)].id = w
         /\ \A i \in 1..Len(tabs) : tabs[i].id = w => i = SpaceAt(w)
<1>1. DOMAIN tabs = 1..Len(tabs)
  BY SoundTabs
<1>2. PICK i \in 1..Len(tabs) : tabs[i].id = w
  BY <1>1 DEF SpaceIds
<1>3. SpaceAt(w) \in 1..Len(tabs) /\ tabs[SpaceAt(w)].id = w
  BY <1>1, <1>2 DEF SpaceAt
<1> QED BY <1>3 DEF Sound

(* A new pane is nowhere, not even in what a waiting pane has captured. *)
LEMMA UnusedIsNew ==
  ASSUME Sound(tabs), NEW id \in Unused
  PROVE  /\ id \in Ids
         /\ \A i \in 1..Len(tabs) : id \notin LeafIds(tabs[i].root)
         /\ pending # None => id \notin LeafIds(pending.root)
<1>1. DOMAIN tabs = 1..Len(tabs)
  BY SoundTabs
<1> QED BY <1>1 DEF Unused, Trees

(* A tree made of the panes shown and of new ones takes the place of the    *)
(* tree shown.                                                              *)
LEMMA UpdateKeeps ==
  ASSUME WorkspaceInv, NEW R, IsLayout(R), LeafIds(R) \subseteq LeafIds(Root) \cup Unused, Update(R)
  PROVE  WorkspaceInv' /\ Panes' = (Panes \ LeafIds(Root)) \cup LeafIds(R)
<1> DEFINE k == SpaceAt(active)
<1>1. k \in 1..Len(tabs) /\ tabs[k].id = active /\ Sound(tabs)
  BY SpaceFound DEF WorkspaceInv
<1>2. /\ tabs' = [tabs EXCEPT ![k].root = R]
      /\ active' = active /\ pending' = pending
  BY DEF Update
<1>3. Root = tabs[k].root
  BY DEF Root
<1> HIDE DEF k
<1>4. DOMAIN tabs = 1..Len(tabs)
  BY <1>1, SoundTabs
<1>5. \A i \in 1..Len(tabs) : i # k => LeafIds(tabs[i].root) \cap LeafIds(tabs[k].root) = {}
  BY <1>1 DEF Sound
<1>6. \A i \in 1..Len(tabs) : i # k => LeafIds(tabs[i].root) \cap LeafIds(R) = {}
  BY <1>1, <1>3, <1>5, UnusedIsNew
<1>7. /\ Sound(tabs') /\ Len(tabs') = Len(tabs)
      /\ \A i \in 1..Len(tabs) : /\ tabs'[i].id = tabs[i].id
                                 /\ tabs'[i].root = IF i = k THEN R ELSE tabs[i].root
  <2> DEFINE us == [tabs EXCEPT ![k].root = R]
  <2>1. /\ Sound(us) /\ Len(us) = Len(tabs)
        /\ \A i \in 1..Len(tabs) : /\ us[i].id = tabs[i].id
                                   /\ us[i].root = IF i = k THEN R ELSE tabs[i].root
    BY <1>1, <1>6, TreeReplaced
  <2>2. tabs' = us
    BY <1>2
  <2> HIDE DEF us
  <2> QED BY <2>1, <2>2
<1>8. DOMAIN tabs' = 1..Len(tabs)
  BY <1>7, SoundTabs
<1>9. active' \in SpaceIds'
  BY <1>1, <1>2, <1>7, <1>8 DEF SpaceIds
<1>10. ASSUME pending # None PROVE Fits(tabs', pending)
  <2>1. Fits(tabs, pending)
    BY <1>10 DEF WorkspaceInv
  <2>2. ASSUME NEW i \in 1..Len(tabs'), tabs'[i].id # pending.id
        PROVE  LeafIds(tabs'[i].root) \cap LeafIds(pending.root) = {}
    <3>1. i \in 1..Len(tabs) /\ LeafIds(tabs[i].root) \cap LeafIds(pending.root) = {}
      BY <1>7, <2>1, <2>2 DEF Fits
    <3>2. CASE i # k
      BY <1>7, <3>1, <3>2
    <3>3. CASE i = k
      <4>1. LeafIds(R) \cap LeafIds(pending.root) = {}
        BY <1>1, <1>3, <1>10, <3>1, <3>3, UnusedIsNew
      <4> QED BY <1>7, <3>1, <3>3, <4>1
    <3> QED BY <3>2, <3>3
  <2> QED BY <2>1, <2>2 DEF Fits
<1>11. WorkspaceInv'
  BY <1>2, <1>7, <1>9, <1>10 DEF WorkspaceInv
<1>12. Panes' = UNION {LeafIds(tabs'[i].root) : i \in 1..Len(tabs)}
  BY <1>8 DEF Panes
<1>13. Panes = UNION {LeafIds(tabs[i].root) : i \in 1..Len(tabs)}
  BY <1>4 DEF Panes
<1>14. Panes' \subseteq (Panes \ LeafIds(Root)) \cup LeafIds(R)
  <2> SUFFICES ASSUME NEW i \in 1..Len(tabs), NEW x \in LeafIds(tabs'[i].root)
               PROVE  x \in (Panes \ LeafIds(Root)) \cup LeafIds(R)
    BY <1>12
  <2>1. CASE i = k
    BY <1>7, <2>1
  <2>2. CASE i # k
    <3>1. x \in LeafIds(tabs[i].root)
      BY <1>7, <2>2
    <3>2. x \in Panes /\ x \notin LeafIds(Root)
      BY <1>3, <1>5, <1>13, <2>2, <3>1
    <3> QED BY <3>2
  <2> QED BY <2>1, <2>2
<1>15. ASSUME NEW x \in (Panes \ LeafIds(Root)) \cup LeafIds(R) PROVE x \in Panes'
  <2>1. CASE x \in LeafIds(R)
    <3>1. x \in LeafIds(tabs'[k].root)
      BY <1>1, <1>7, <2>1
    <3> QED BY <1>1, <1>12, <3>1
  <2>2. CASE x \in Panes \ LeafIds(Root)
    <3>1. PICK i \in 1..Len(tabs) : x \in LeafIds(tabs[i].root)
      BY <1>13, <2>2
    <3>2. i # k
      BY <1>3, <2>2, <3>1
    <3>3. x \in LeafIds(tabs'[i].root)
      BY <1>7, <3>1, <3>2
    <3> QED BY <1>12, <3>3
  <2> QED BY <1>15, <2>1, <2>2
<1> QED BY <1>11, <1>14, <1>15

(* What the user does to the panes gives such a tree, and loses one pane at *)
(* most.                                                                    *)
LEMMA TreeSteps ==
  ASSUME WorkspaceInv,
         \/ \E id \in LeafIds(Root) : PaneSteps(id)
         \/ \E new \in Unused : AddView(new)
         \/ OpenTerminal
  PROVE  \E R : /\ Update(R) /\ IsLayout(R) /\ LeafIds(R) \subseteq LeafIds(Root) \cup Unused
                /\ \E id \in LeafIds(Root) : LeafIds(Root) \ {id} \subseteq LeafIds(R)
<1> DEFINE T == Root
           Fine(R) == /\ IsLayout(R) /\ LeafIds(R) \subseteq LeafIds(T) \cup Unused
                      /\ \E id \in LeafIds(T) : LeafIds(T) \ {id} \subseteq LeafIds(R)
<1>1. IsLayout(T)
  <2>1. SpaceAt(active) \in 1..Len(tabs) /\ Sound(tabs)
    BY SpaceFound DEF WorkspaceInv
  <2> QED BY <2>1 DEF Root, Sound
<1>2. \A new \in Unused : new \in Ids /\ new \notin LeafIds(T)
  <2>1. SpaceAt(active) \in 1..Len(tabs) /\ Sound(tabs)
    BY SpaceFound DEF WorkspaceInv
  <2> QED BY <2>1, UnusedIsNew DEF Root
<1>3. PICK first \in LeafIds(T) : TRUE
  BY <1>1, HasLeaf
<1> HIDE DEF T
<1>4. ASSUME NEW id \in LeafIds(T), SplitPane(id) PROVE \E R : Update(R) /\ Fine(R)
  <2>1. PICK dir \in Dirs, new \in Unused : Update(SplitLeaf(T, id, dir, new))
    BY <1>4 DEF SplitPane, T
  <2>2. /\ IsLayout(SplitLeaf(T, id, dir, new))
        /\ LeafIds(SplitLeaf(T, id, dir, new)) = LeafIds(T) \cup {new}
    BY <1>1, <1>2, SplitLeafAdds
  <2>3. Fine(SplitLeaf(T, id, dir, new))
    BY <2>2
  <2> QED BY <2>1, <2>3
<1>5. ASSUME NEW id \in LeafIds(T), ClosePane(id) PROVE \E R : Update(R) /\ Fine(R)
  <2>1. PICK new \in Unused : Update(CloseLeaf(T, id, new))
    BY <1>5 DEF ClosePane, T
  <2>2. /\ IsLayout(CloseLeaf(T, id, new))
        /\ LeafIds(CloseLeaf(T, id, new)) = IF LeafIds(T) = {id} THEN {new} ELSE LeafIds(T) \ {id}
    BY <1>1, <1>2, CloseTakes
  <2>3. Fine(CloseLeaf(T, id, new))
    BY <2>2
  <2> QED BY <2>1, <2>3
<1>6. ASSUME NEW id \in LeafIds(T), NEW t \in LeafIds(T), Drop(id, t) PROVE \E R : Update(R) /\ Fine(R)
  <2>1. PICK zone \in Zones : Update(MoveLeaf(T, id, t, zone))
    BY <1>6 DEF Drop, Dock, T
  <2>2. IsLayout(MoveLeaf(T, id, t, zone)) /\ LeafIds(MoveLeaf(T, id, t, zone)) = LeafIds(T)
    BY <1>1, MoveKeeps
  <2>3. Fine(MoveLeaf(T, id, t, zone))
    BY <2>2
  <2> QED BY <2>1, <2>3
<1>7. ASSUME NEW new \in Unused, AddView(new) PROVE \E R : Update(R) /\ Fine(R)
  <2> DEFINE u == Append(Reading(T), new)
  <2>1. Update(Grid(u))
    BY <1>7 DEF AddView, T
  <2>2. IsLayout(Grid(u)) /\ LeafIds(Grid(u)) = LeafIds(T) \cup {new}
    BY <1>1, <1>2, GridAdds
  <2> HIDE DEF u
  <2>3. Fine(Grid(u))
    BY <1>3, <2>2
  <2> QED BY <2>1, <2>3
<1>8. ASSUME OpenTerminal PROVE \E R : Update(R) /\ Fine(R)
  <2> DEFINE h == Head(InOrder(T))
  <2>1. PICK new \in Unused : Update(SplitLeaf(T, h, "row", new))
    BY <1>8 DEF OpenTerminal, T
  <2>2. h \in LeafIds(T)
    <3>1. InOrder(T) \in Seq(LeafIds(T)) /\ InOrder(T) # <<>>
      BY <1>1, InOrderLists DEF Enumerates
    <3> QED BY <3>1
  <2>3. "row" \in Dirs
    BY DEF Dirs
  <2> HIDE DEF h
  <2>4. /\ IsLayout(SplitLeaf(T, h, "row", new))
        /\ LeafIds(SplitLeaf(T, h, "row", new)) = LeafIds(T) \cup {new}
    BY <1>1, <1>2, <2>2, <2>3, SplitLeafAdds
  <2>5. Fine(SplitLeaf(T, h, "row", new))
    BY <1>3, <2>4
  <2> QED BY <2>1, <2>5
<1> HIDE DEF Fine
<1>9. ASSUME \E id \in LeafIds(T) : PaneSteps(id) PROVE \E R : Update(R) /\ Fine(R)
  <2>1. PICK id \in LeafIds(T) : PaneSteps(id)
    BY <1>9
  <2>2. SplitPane(id) \/ ClosePane(id) \/ \E t \in LeafIds(T) : Drop(id, t)
    BY <2>1 DEF PaneSteps, T
  <2> QED BY <1>4, <1>5, <1>6, <2>2
<1>10. \E R : Update(R) /\ Fine(R)
  <2>1. \/ \E id \in LeafIds(T) : PaneSteps(id)
        \/ \E new \in Unused : AddView(new)
        \/ OpenTerminal
    BY DEF T
  <2> QED BY <1>7, <1>8, <1>9, <2>1
<1> QED BY <1>10 DEF T, Fine

-----------------------------------------------------------------------------
(* What PanesStay says of a step. *)
Kept ==
  LET lost == Panes \ Panes' IN
  lost # {} =>
    \/ Len(tabs') < Len(tabs)
    \/ Cardinality(lost) = 1 /\ LeafIds(Root) \subseteq lost \cup Panes'
    \/ Overtaken /\ pending' = None

LEMMA InitKeeps == Init => WorkspaceInv
<1> SUFFICES ASSUME Init PROVE WorkspaceInv
  OBVIOUS
<1>1. PICK w \in Spaces, id \in Ids : tabs = <<[id |-> w, root |-> Leaf(id)]>> /\ active = w
  BY DEF Init
<1> DEFINE t == [id |-> w, root |-> Leaf(id)]
<1>2. IsLayout(Leaf(id)) /\ Leaf(id) \in Forest
  BY LeafIsLayout, LayoutType
<1>3. t \in Tab /\ t.id = w /\ t.root = Leaf(id)
  BY <1>2 DEF Tab
<1> HIDE DEF t
<1>4. tabs = <<t>> /\ active = w /\ pending = None
  BY <1>1 DEF t, Init
<1>5. Len(tabs) = 1 /\ tabs[1] = t /\ tabs \in Seq(Tab) /\ tabs # <<>> /\ DOMAIN tabs = 1..1
  BY <1>3, <1>4
<1>6. \A i \in 1..Len(tabs) : i = 1
  BY <1>5
<1>7. Sound(tabs)
  BY <1>2, <1>3, <1>5, <1>6 DEF Sound
<1>8. active \in SpaceIds
  BY <1>3, <1>4, <1>5 DEF SpaceIds
<1> QED BY <1>4, <1>7, <1>8 DEF WorkspaceInv

(* Splitting, docking, closing and adding panes. *)
LEMMA TreeStepsKeep ==
  ASSUME WorkspaceInv,
         \/ \E id \in LeafIds(Root) : PaneSteps(id)
         \/ \E new \in Unused : AddView(new)
         \/ OpenTerminal
  PROVE  WorkspaceInv' /\ Kept
<1>1. PICK R : /\ Update(R) /\ IsLayout(R) /\ LeafIds(R) \subseteq LeafIds(Root) \cup Unused
               /\ \E id \in LeafIds(Root) : LeafIds(Root) \ {id} \subseteq LeafIds(R)
  BY TreeSteps
<1>2. WorkspaceInv' /\ Panes' = (Panes \ LeafIds(Root)) \cup LeafIds(R)
  BY <1>1, UpdateKeeps
<1>3. PICK id \in LeafIds(Root) : LeafIds(Root) \ {id} \subseteq LeafIds(R)
  BY <1>1
<1> DEFINE lost == Panes \ Panes'
<1>4. lost \subseteq {id}
  BY <1>2, <1>3
<1>5. ASSUME lost # {} PROVE Cardinality(lost) = 1 /\ LeafIds(Root) \subseteq lost \cup Panes'
  <2>1. lost = {id}
    BY <1>4, <1>5
  <2>2. Cardinality({id}) = 1
    BY FS_Singleton
  <2> QED BY <1>2, <1>3, <2>1, <2>2
<1>6. Kept
  BY <1>5 DEF Kept
<1> QED BY <1>2, <1>6

(* Closing a workspace. *)
LEMMA CloseKeeps ==
  ASSUME WorkspaceInv, NEW w \in SpaceIds, CloseWorkspace(w)
  PROVE  WorkspaceInv' /\ Kept
<1> DEFINE k  == SpaceAt(w)
           us == RemoveAt(tabs, k)
<1>1. k \in 1..Len(tabs) /\ tabs[k].id = w /\ Sound(tabs) /\ Len(tabs) > 1
  BY SpaceFound DEF WorkspaceInv, CloseWorkspace
<1> HIDE DEF k
<1>2. /\ Sound(us) /\ Len(us) = Len(tabs) - 1
      /\ \A i \in 1..Len(us) : \E j \in 1..Len(tabs) \ {k} : us[i] = tabs[j]
      /\ \A j \in 1..Len(tabs) \ {k} : \E i \in 1..Len(us) : us[i] = tabs[j]
  BY <1>1, TabRemoved
<1>3. tabs' = us /\ pending' = pending /\ active' = IF active = w THEN Head(us).id ELSE active
  BY DEF CloseWorkspace, k
<1> HIDE DEF us
<1>4. Len(tabs) \in Nat /\ DOMAIN tabs = 1..Len(tabs) /\ DOMAIN us = 1..Len(us) /\ Len(us) \in Nat \ {0}
  BY <1>1, <1>2, SoundTabs
<1>5. active' \in {us[i].id : i \in 1..Len(us)}
  <2>1. CASE active = w
    <3>1. Head(us) = us[1] /\ 1 \in 1..Len(us)
      BY <1>2, <1>4 DEF Sound
    <3> QED BY <1>3, <2>1, <3>1
  <2>2. CASE active # w
    <3>1. PICK j \in 1..Len(tabs) : tabs[j].id = active
      BY <1>4 DEF WorkspaceInv, SpaceIds
    <3>2. PICK i \in 1..Len(us) : us[i] = tabs[j]
      BY <1>1, <1>2, <2>2, <3>1
    <3> QED BY <1>3, <2>2, <3>1, <3>2
  <2> QED BY <2>1, <2>2
<1>6. active' \in SpaceIds'
  BY <1>3, <1>4, <1>5 DEF SpaceIds
<1>7. ASSUME pending # None PROVE Fits(us, pending)
  <2>1. Fits(tabs, pending)
    BY <1>7 DEF WorkspaceInv
  <2> QED BY <1>2, <2>1 DEF Fits
<1>8. WorkspaceInv'
  BY <1>2, <1>3, <1>6, <1>7 DEF WorkspaceInv
<1>9. Kept
  BY <1>2, <1>3, <1>4 DEF Kept
<1> QED BY <1>8, <1>9

(* A workspace is added. *)
LEMMA NewKeeps ==
  ASSUME WorkspaceInv, NewWorkspace
  PROVE  WorkspaceInv' /\ Kept
<1>1. PICK w \in Spaces \ SpaceIds, id \in Unused :
        /\ pending # None => pending.id # w
        /\ tabs' = Append(tabs, [id |-> w, root |-> Leaf(id)])
        /\ active' = w
  BY DEF NewWorkspace
<1> DEFINE t  == [id |-> w, root |-> Leaf(id)]
           us == Append(tabs, t)
<1>2. Sound(tabs) /\ DOMAIN tabs = 1..Len(tabs) /\ Len(tabs) \in Nat
  BY SoundTabs DEF WorkspaceInv
<1>3. /\ id \in Ids /\ \A i \in 1..Len(tabs) : id \notin LeafIds(tabs[i].root)
      /\ pending # None => id \notin LeafIds(pending.root)
  BY <1>2, UnusedIsNew
<1>4. IsLayout(Leaf(id)) /\ LeafIds(Leaf(id)) = {id} /\ Leaf(id) \in Forest
  BY <1>3, LeafIsLayout, LayoutType
<1>5. t \in Tab /\ t.id = w /\ t.root = Leaf(id)
  BY <1>4 DEF Tab
<1> HIDE DEF t
<1>6. \A i \in 1..Len(tabs) : tabs[i].id # t.id /\ LeafIds(tabs[i].root) \cap LeafIds(t.root) = {}
  BY <1>2, <1>3, <1>4, <1>5 DEF SpaceIds
<1>7. /\ Sound(us) /\ Len(us) = Len(tabs) + 1
      /\ \A i \in 1..Len(tabs) : us[i] = tabs[i]
      /\ us[Len(tabs) + 1] = t
  BY <1>2, <1>4, <1>5, <1>6, TabAdded
<1>8. tabs' = us /\ active' = w /\ pending' = pending
  BY <1>1 DEF NewWorkspace, t
<1> HIDE DEF us
<1>9. DOMAIN us = 1..Len(us)
  BY <1>7, SoundTabs
<1>10. active' \in SpaceIds'
  BY <1>2, <1>5, <1>7, <1>8, <1>9 DEF SpaceIds
<1>11. ASSUME pending # None PROVE Fits(us, pending)
  <2>1. Fits(tabs, pending)
    BY <1>11 DEF WorkspaceInv
  <2>2. LeafIds(t.root) \cap LeafIds(pending.root) = {}
    BY <1>3, <1>4, <1>5, <1>11
  <2>3. \A i \in 1..Len(us) : i \in 1..Len(tabs) \/ i = Len(tabs) + 1
    BY <1>2, <1>7
  <2> QED BY <1>7, <2>1, <2>2, <2>3 DEF Fits
<1>12. WorkspaceInv'
  BY <1>7, <1>8, <1>10, <1>11 DEF WorkspaceInv
<1>13. Panes \subseteq Panes'
  <2>1. \A i \in 1..Len(tabs) : i \in 1..Len(us) /\ us[i].root = tabs[i].root
    BY <1>2, <1>7
  <2>2. Panes = UNION {LeafIds(tabs[i].root) : i \in 1..Len(tabs)}
    BY <1>2 DEF Panes
  <2>3. Panes' = UNION {LeafIds(us[i].root) : i \in 1..Len(us)}
    BY <1>8, <1>9 DEF Panes
  <2> QED BY <2>1, <2>2, <2>3
<1>14. Kept
  BY <1>13 DEF Kept
<1> QED BY <1>12, <1>14

(* A late answer. *)
LEMMA AnswerKeeps ==
  ASSUME WorkspaceInv, Answer
  PROVE  WorkspaceInv' /\ Kept
<1> DEFINE us == [i \in DOMAIN tabs |-> IF tabs[i].id = pending.id THEN pending ELSE tabs[i]]
<1>1. Sound(tabs) /\ DOMAIN tabs = 1..Len(tabs) /\ pending # None /\ Fits(tabs, pending)
  BY SoundTabs DEF WorkspaceInv, Answer
<1>2. /\ Sound(us) /\ Len(us) = Len(tabs)
      /\ \A i \in 1..Len(tabs) : /\ us[i] = (IF tabs[i].id = pending.id THEN pending ELSE tabs[i])
                                 /\ us[i].id = tabs[i].id
  BY <1>1, TabPutBack
<1>3. tabs' = us /\ active' = active /\ pending' = None
  BY DEF Answer
<1> HIDE DEF us
<1>4. DOMAIN us = 1..Len(us)
  BY <1>2, SoundTabs
<1>5. active' \in SpaceIds'
  BY <1>1, <1>2, <1>3, <1>4 DEF SpaceIds, WorkspaceInv
<1>6. WorkspaceInv'
  BY <1>2, <1>3, <1>5 DEF WorkspaceInv
<1>7. ASSUME Overtaken PROVE Kept
  BY <1>3, <1>7 DEF Kept
<1>8. ASSUME ~Overtaken PROVE Kept
  <2>1. \A i \in 1..Len(tabs) : us[i].root = tabs[i].root
    <3> SUFFICES ASSUME NEW i \in 1..Len(tabs), tabs[i].id = pending.id PROVE pending.root = tabs[i].root
      BY <1>2
    <3>1. pending.id \in SpaceIds
      BY <1>1 DEF SpaceIds
    <3>2. i = SpaceAt(pending.id)
      BY <1>1, <3>1, SpaceFound
    <3> QED BY <1>1, <1>8, <3>1, <3>2 DEF Overtaken
  <2>2. Panes = UNION {LeafIds(tabs[i].root) : i \in 1..Len(tabs)}
    BY <1>1 DEF Panes
  <2>3. Panes' = UNION {LeafIds(us[i].root) : i \in 1..Len(us)}
    BY <1>3, <1>4 DEF Panes
  <2>4. Panes' = Panes
    BY <1>2, <2>1, <2>2, <2>3
  <2> QED BY <2>4 DEF Kept
<1> QED BY <1>6, <1>7, <1>8

(* Nothing happens to the trees. *)
LEMMA OthersKeep ==
  ASSUME WorkspaceInv,
         \/ \E w \in SpaceIds : SwitchTo(w)
         \/ \E step \in {1, -1} : Cycle(step)
         \/ Await \/ Restart \/ UNCHANGED vars
  PROVE  WorkspaceInv' /\ Kept
<1>1. Sound(tabs) /\ DOMAIN tabs = 1..Len(tabs) /\ Len(tabs) \in Nat \ {0} /\ active \in SpaceIds
  BY SoundTabs DEF WorkspaceInv
<1>2. tabs' = tabs
  BY DEF SwitchTo, Cycle, Await, Restart, vars
<1>3. Kept
  <2>1. Panes' = Panes
    BY <1>2 DEF Panes
  <2> QED BY <2>1 DEF Kept
<1>4. active' \in SpaceIds
  <2>1. ASSUME NEW step \in {1, -1}, Cycle(step) PROVE active' \in SpaceIds
    <3> DEFINE k == SpaceAt(active)
               m == (k - 1 + step + Len(tabs)) % Len(tabs)
    <3>1. active' = tabs[m + 1].id
      BY <2>1 DEF Cycle
    <3>2. k \in 1..Len(tabs)
      BY <1>1, SpaceFound
    <3> HIDE DEF k
    <3>3. k - 1 + step + Len(tabs) \in Nat
      BY <1>1, <3>2
    <3>4. \A x \in Nat, n \in Nat \ {0} : x % n \in 0..(n - 1)
      OBVIOUS
    <3>5. m \in 0..(Len(tabs) - 1)
      BY <1>1, <3>3, <3>4
    <3> HIDE DEF m
    <3>6. m + 1 \in 1..Len(tabs)
      BY <1>1, <3>5
    <3> QED BY <1>1, <3>1, <3>6 DEF SpaceIds
  <2>2. ASSUME NEW w \in SpaceIds, SwitchTo(w) PROVE active' \in SpaceIds
    BY <2>2 DEF SwitchTo
  <2>3. CASE Await \/ Restart \/ UNCHANGED vars
    BY <1>1, <2>3 DEF Await, Restart, vars
  <2> QED BY <2>1, <2>2, <2>3
<1>5. SpaceIds' = SpaceIds
  BY <1>2 DEF SpaceIds
<1>6. ASSUME pending' # None PROVE Fits(tabs, pending')
  <2>1. CASE pending' = pending
    BY <1>6, <2>1 DEF WorkspaceInv
  <2>2. CASE pending' # pending
    <3> DEFINE k == SpaceAt(active)
    <3>1. pending' = tabs[k]
      BY <1>6, <2>2 DEF SwitchTo, Cycle, Await, Restart, vars
    <3>2. k \in 1..Len(tabs)
      BY <1>1, SpaceFound
    <3> HIDE DEF k
    <3>3. tabs[k] \in Tab
      BY <1>1, <3>2, SoundTabs
    <3>4. Fits(tabs, tabs[k])
      BY <1>1, <3>2, <3>3 DEF Fits, Sound
    <3> QED BY <3>1, <3>4
  <2> QED BY <2>1, <2>2
<1>7. WorkspaceInv'
  BY <1>1, <1>2, <1>4, <1>5, <1>6 DEF WorkspaceInv
<1> QED BY <1>3, <1>7

LEMMA StepKeeps ==
  ASSUME WorkspaceInv, [Next]_vars
  PROVE  WorkspaceInv' /\ Kept
<1>1. CASE \/ \E id \in LeafIds(Root) : PaneSteps(id)
           \/ \E new \in Unused : AddView(new)
           \/ OpenTerminal
  BY <1>1, TreeStepsKeep
<1>2. ASSUME NEW w \in SpaceIds, CloseWorkspace(w) PROVE WorkspaceInv' /\ Kept
  BY <1>2, CloseKeeps
<1>3. CASE NewWorkspace
  BY <1>3, NewKeeps
<1>4. CASE Answer
  BY <1>4, AnswerKeeps
<1>5. CASE \/ \E w \in SpaceIds : SwitchTo(w)
           \/ \E step \in {1, -1} : Cycle(step)
           \/ Await \/ Restart \/ UNCHANGED vars
  BY <1>5, OthersKeep
<1> QED BY <1>1, <1>2, <1>3, <1>4, <1>5 DEF Next, SpaceSteps

LEMMA Invariant == Spec => []WorkspaceInv
<1>1. WorkspaceInv /\ [Next]_vars => WorkspaceInv'
  BY StepKeeps
<1> QED BY <1>1, InitKeeps, PTL DEF Spec

-----------------------------------------------------------------------------
(* Every tree that a workspace shows, or that a waiting pane will put back, *)
(* is a layout: its splits have two children, its leaves are panes, and no  *)
(* pane is in it twice; and the workspace shown is one of those there are.  *)
THEOREM LayoutsStayLayouts == Spec => []TypeOK
<1>1. WorkspaceInv => TypeOK
  <2> SUFFICES ASSUME WorkspaceInv PROVE TypeOK
    OBVIOUS
  <2>1. Sound(tabs) /\ active \in SpaceIds
    BY DEF WorkspaceInv
  <2>2. DOMAIN tabs = 1..Len(tabs) /\ \A i \in 1..Len(tabs) : tabs[i].id \in Spaces
    BY <2>1, SoundTabs
  <2>3. pending # None => pending.id \in Spaces /\ IsLayout(pending.root)
    BY DEF WorkspaceInv, Fits, Tab
  <2> QED BY <2>1, <2>2, <2>3 DEF TypeOK, Sound
<1> QED BY <1>1, Invariant, PTL

(* No pane is in two workspaces, whatever is split, docked, added, closed   *)
(* or answered late.                                                        *)
THEOREM PanesAreInOnePlace == Spec => []OnePlace
<1>1. WorkspaceInv => OnePlace
  BY SoundTabs DEF WorkspaceInv, OnePlace, Sound
<1> QED BY <1>1, Invariant, PTL

LEMMA DockingKeepsOrder ==
  ASSUME IsLayout(Root)
  PROVE  DockingMovesOne
BY MoveInOrder DEF DockingMovesOne

LEMMA AddingKeepsOrder ==
  ASSUME WorkspaceInv
  PROVE  AddViewKeepsOrder
<1> SUFFICES ASSUME NEW new \in Unused
             PROVE  LET order == Append(Reading(Root), new) IN Reading(Grid(order)) = order
  BY DEF AddViewKeepsOrder
<1>1. SpaceAt(active) \in 1..Len(tabs) /\ Sound(tabs)
  BY SpaceFound DEF WorkspaceInv
<1>2. IsLayout(Root) /\ new \in Ids /\ new \notin LeafIds(Root)
  BY <1>1, SoundTabs, UnusedIsNew DEF Root, Sound
<1> QED BY <1>2, GridAdds

(* Docking a pane next to another leaves the order of all others, in every  *)
(* tree; adding a view keeps the panes in the order in which they are read, *)
(* for any number of panes and of columns.                                  *)
THEOREM OrderIsKept == Spec => []OrderKept
<1>1. WorkspaceInv => OrderKept
  <2> SUFFICES ASSUME WorkspaceInv PROVE OrderKept
    OBVIOUS
  <2>1. SpaceAt(active) \in 1..Len(tabs) /\ Sound(tabs)
    BY SpaceFound DEF WorkspaceInv
  <2>2. IsLayout(Root)
    BY <2>1, SoundTabs DEF Root, Sound
  <2> QED BY <2>2, DockingKeepsOrder, AddingKeepsOrder DEF OrderKept
<1> QED BY <1>1, Invariant, PTL

(* A step loses the panes of a closed workspace, or one pane that was       *)
(* closed, or what was changed while a pane waited; nothing else.           *)
THEOREM PanesAreKept == Spec => PanesStay
<1>1. WorkspaceInv /\ [Next]_vars => [Kept]_vars
  BY StepKeeps
<1>2. Spec => [][Kept]_vars
  BY <1>1, Invariant, PTL DEF Spec
<1>3. PanesStay <=> [][Kept]_vars
  BY PTL DEF PanesStay, Kept
<1> QED BY <1>2, <1>3

(***************************************************************************)
(*                             The transfer queue                          *)
(***************************************************************************)

(* The invariants of the queue together: they are inductive as they stand. *)
QueueInv == QueueTypeOK /\ RunningIsCancellable /\ AbortersLive /\ WaitsLive

(* What holds of the controller and the status of one job.                  *)
JobOK(j) ==
  /\ jobs[j] = "running" => aborter[j] # Nil
  /\ aborter[j] # Nil => run[aborter[j]].job = j /\ jobs[j] \in {"running", "removed"}

LEMMA JobByJob == QueueInv <=> QueueTypeOK /\ WaitsLive /\ \A j \in Jobs : JobOK(j)
  BY DEF QueueInv, RunningIsCancellable, AbortersLive, JobOK

(* A run is started: the controller of an earlier run of the job is        *)
(* replaced, and no other job loses its own.                                *)
LEMMA StartKeeps ==
  ASSUME QueueInv, NEW j \in Jobs, NEW r \in Runs, Start(j, r)
  PROVE  /\ jobs' \in [Jobs -> Statuses]
         /\ run' \in [Runs -> [job: Jobs \cup {Nil}, aborted: BOOLEAN]]
         /\ aborter' \in [Jobs -> Runs \cup {Nil}]
         /\ run'[r].job = j
         /\ \A q \in Runs : Live(q) => run'[q].job = run[q].job
         /\ \A k \in Jobs : JobOK(k)'
<1>1. QueueTypeOK /\ ~Live(r) /\ \A k \in Jobs : JobOK(k)
  BY JobByJob DEF Start
<1>2. jobs' = [jobs EXCEPT ![j] = IF @ = "removed" THEN @ ELSE "running"]
  BY DEF Start, SetStatus
<1>3. aborter' = [aborter EXCEPT ![j] = r]
  BY DEF Start, NewAborter
<1>4. run' = [q \in Runs |->
               IF q = r THEN [Free EXCEPT !.job = j]
               ELSE IF q = aborter[j] THEN [run[q] EXCEPT !.aborted = TRUE]
               ELSE run[q]]
  BY DEF Start, NewAborter
<1>5. jobs' \in [Jobs -> Statuses]
  BY <1>1, <1>2 DEF QueueTypeOK, Statuses
<1>6. aborter' \in [Jobs -> Runs \cup {Nil}]
  BY <1>1, <1>3 DEF QueueTypeOK
<1>7. run' \in [Runs -> [job: Jobs \cup {Nil}, aborted: BOOLEAN]]
  BY <1>1, <1>4 DEF QueueTypeOK, Free
<1>8. run'[r].job = j
  BY <1>4 DEF Free
<1>9. \A q \in Runs : q # r => run'[q].job = run[q].job
  BY <1>1, <1>4 DEF QueueTypeOK
<1>10. ASSUME NEW k \in Jobs PROVE JobOK(k)'
  <2>1. CASE k = j
    <3>1. aborter'[k] = r /\ jobs'[k] \in {"running", "removed"}
      BY <1>1, <1>2, <1>3, <2>1 DEF QueueTypeOK
    <3> QED BY <2>1, <3>1, <1>8, RunsAssumption DEF JobOK
  <2>2. CASE k # j
    <3>1. aborter'[k] = aborter[k] /\ jobs'[k] = jobs[k]
      BY <1>1, <1>2, <1>3, <2>2 DEF QueueTypeOK
    <3>2. aborter[k] # Nil => aborter[k] \in Runs /\ aborter[k] # r
      BY <1>1, JobsAssumption DEF QueueTypeOK, JobOK, Live
    <3> QED BY <1>1, <1>9, <3>1, <3>2 DEF JobOK
  <2> QED BY <2>1, <2>2
<1> QED BY <1>1, <1>5, <1>6, <1>7, <1>8, <1>9, <1>10 DEF Live

(* A run ends: whatever it leaves in the map of controllers is its own job's. *)
LEMMA SettleKeeps ==
  ASSUME QueueInv, NEW r \in Runs, Live(r), NEW s \in {"done", "failed"}, Settle(r, s),
         UNCHANGED <<pane, paused>>
  PROVE  QueueInv'
<1> DEFINE j == run[r].job
<1>1. QueueTypeOK /\ WaitsLive /\ (\A k \in Jobs : JobOK(k)) /\ j \in Jobs
  BY JobByJob DEF QueueTypeOK, Live
<1>2. jobs' = [jobs EXCEPT ![j] = IF @ = "removed" THEN @ ELSE s]
  BY DEF Settle, SetStatus
<1>3. /\ run' = [run EXCEPT ![r] = Free]
      /\ aborter' = [aborter EXCEPT ![j] = Nil]
      /\ loop' = [l \in Loops |-> [loop[l] EXCEPT !.waits = @ \ {r}]]
  BY DEF Settle
<1>4. QueueTypeOK'
  BY <1>1, <1>2, <1>3 DEF QueueTypeOK, Statuses, Free
<1>5. WaitsLive'
  BY <1>1, <1>3 DEF WaitsLive, QueueTypeOK, Live
<1>6. ASSUME NEW k \in Jobs PROVE JobOK(k)'
  <2>1. CASE k = j
    BY <1>1, <1>2, <1>3, <2>1 DEF QueueTypeOK, JobOK
  <2>2. CASE k # j
    <3>1. aborter'[k] = aborter[k] /\ jobs'[k] = jobs[k]
      BY <1>1, <1>2, <1>3, <2>2 DEF QueueTypeOK
    <3>2. aborter[k] # Nil => run'[aborter[k]] = run[aborter[k]]
      BY <1>1, <1>3, <2>2 DEF QueueTypeOK, JobOK
    <3> QED BY <1>1, <3>1, <3>2 DEF JobOK
  <2> QED BY <2>1, <2>2
<1> QED BY <1>4, <1>5, <1>6 DEF QueueInv, RunningIsCancellable, AbortersLive, JobOK

(* A loop starts with the jobs it was given and waits for none yet. *)
LEMMA LaunchKeeps ==
  ASSUME QueueInv, NEW l \in Loops, NEW ids \in SUBSET Jobs, Launch(l, ids)
  PROVE  QueueInv'
<1>1. loop' = [loop EXCEPT ![l].todo = ids] /\ UNCHANGED <<jobs, run, aborter, pane, paused>>
  BY DEF Launch
<1>2. QueueTypeOK'
  BY <1>1 DEF QueueInv, QueueTypeOK
<1>3. WaitsLive'
  BY <1>1 DEF QueueInv, QueueTypeOK, WaitsLive, Live
<1> QED BY <1>1, <1>2, <1>3 DEF QueueInv, RunningIsCancellable, AbortersLive

(* Steps of the panes and of the list that run nothing. *)
LEMMA ListKeeps ==
  ASSUME QueueInv, UNCHANGED <<run, aborter, loop>>,
         jobs' \in [Jobs -> Statuses], paused' \in BOOLEAN,
         pane' \in [QueuePanes -> {"unused", "mounted", "gone"}],
         \A j \in Jobs : \/ jobs'[j] = jobs[j]
                         \/ jobs'[j] = "removed"
                         \/ jobs[j] = "new" /\ jobs'[j] = "queued"
  PROVE  QueueInv'
<1>1. QueueTypeOK'
  BY DEF QueueInv, QueueTypeOK
<1>2. \A j \in Jobs : JobOK(j)'
  BY JobByJob DEF JobOK
<1>3. WaitsLive'
  BY DEF QueueInv, WaitsLive, Live
<1> QED BY <1>1, <1>2, <1>3 DEF QueueInv, RunningIsCancellable, AbortersLive, JobOK

THEOREM QueueInductive == QueueInv /\ [QueueNext]_queueVars => QueueInv'
<1> SUFFICES ASSUME QueueInv, [QueueNext]_queueVars PROVE QueueInv'
  OBVIOUS
<1>t. QueueTypeOK
  BY DEF QueueInv
<1>1. ASSUME NEW r \in Runs, RunSteps(r) PROVE QueueInv'
  BY <1>1, SettleKeeps DEF RunSteps, RequestsEnd, PluginOk, PluginError
<1>2. ASSUME NEW l \in Loops, Take(l) PROVE QueueInv'
  <2>1. PICK j \in loop[l].todo, r \in Runs :
          /\ Start(j, r)
          /\ loop' = [loop EXCEPT ![l] = [todo |-> @.todo \ {j}, waits |-> @.waits \cup {r}]]
    BY <1>2 DEF Take
  <2>2. j \in Jobs
    BY <1>t DEF QueueTypeOK
  <2>3. /\ jobs' \in [Jobs -> Statuses]
        /\ run' \in [Runs -> [job: Jobs \cup {Nil}, aborted: BOOLEAN]]
        /\ aborter' \in [Jobs -> Runs \cup {Nil}]
        /\ run'[r].job = j
        /\ \A q \in Runs : Live(q) => run'[q].job = run[q].job
        /\ \A k \in Jobs : JobOK(k)'
    BY <2>1, <2>2, StartKeeps
  <2>4. loop' \in [Loops -> [todo: SUBSET Jobs, waits: SUBSET Runs]]
    BY <1>t, <2>1, <2>2 DEF QueueTypeOK
  <2>5. QueueTypeOK'
    BY <1>2, <1>t, <2>3, <2>4 DEF QueueTypeOK, Take
  <2>6. WaitsLive'
    <3>1. \A q \in Runs : Live(q) => Live(q)'
      BY <2>3 DEF Live
    <3>2. Live(r)'
      BY <2>2, <2>3, JobsAssumption DEF Live
    <3>3. \A m \in Loops : \A q \in loop'[m].waits : q \in loop[m].waits \/ q = r
      BY <1>t, <2>1 DEF QueueTypeOK
    <3>4. \A m \in Loops : loop[m].waits \subseteq Runs
      BY <1>t DEF QueueTypeOK
    <3> QED BY <3>1, <3>2, <3>3, <3>4 DEF QueueInv, WaitsLive
  <2> QED BY <2>3, <2>5, <2>6 DEF QueueInv, RunningIsCancellable, AbortersLive, JobOK
<1>3. ASSUME NEW p \in QueuePanes, NEW j \in Jobs, ClickRun(p, j) PROVE QueueInv'
  <2>1. PICK r \in Runs : Start(j, r)
    BY <1>3 DEF ClickRun
  <2>2. /\ jobs' \in [Jobs -> Statuses]
        /\ run' \in [Runs -> [job: Jobs \cup {Nil}, aborted: BOOLEAN]]
        /\ aborter' \in [Jobs -> Runs \cup {Nil}]
        /\ run'[r].job = j
        /\ \A q \in Runs : Live(q) => run'[q].job = run[q].job
        /\ \A k \in Jobs : JobOK(k)'
    BY <2>1, StartKeeps
  <2>3. QueueTypeOK'
    BY <1>3, <1>t, <2>2 DEF QueueTypeOK, ClickRun
  <2>4. WaitsLive'
    BY <1>3, <1>t, <2>2 DEF QueueInv, QueueTypeOK, WaitsLive, Live, ClickRun
  <2> QED BY <2>2, <2>3, <2>4 DEF QueueInv, RunningIsCancellable, AbortersLive, JobOK
<1>4. ASSUME NEW p \in QueuePanes, QueuePaneSteps(p) PROVE QueueInv'
  <2>1. CASE Mount(p) \/ Unmount(p) \/ TogglePause(p)
    BY <2>1, <1>t, ListKeeps DEF Mount, Unmount, TogglePause, QueueTypeOK
  <2>2. CASE RunAll(p) \/ AutoRun(p)
    BY <2>2, LaunchKeeps DEF RunAll, AutoRun, Loops, Choice
  <2>3. CASE RunSelected(p)
    BY <2>3, LaunchKeeps DEF RunSelected, Loops
  <2> QED BY <1>4, <2>1, <2>2, <2>3 DEF QueuePaneSteps
<1>5. ASSUME NEW j \in Jobs, JobSteps(j) PROVE QueueInv'
  <2>1. CASE Enqueue(j)
    BY <2>1, <1>t, ListKeeps DEF Enqueue, QueueTypeOK, Statuses
  <2>2. CASE RemoveJob(j)
    BY <2>2, <1>t, ListKeeps DEF RemoveJob, QueueTypeOK, Statuses
  <2>3. CASE Cancel(j)
    <3>1. QueueTypeOK'
      BY <2>3, <1>t DEF Cancel, QueueTypeOK
    <3>2. \A r \in Runs : run'[r].job = run[r].job
      BY <2>3, <1>t DEF Cancel, QueueTypeOK
    <3> QED BY <2>3, <1>t, <3>1, <3>2
            DEF Cancel, QueueInv, QueueTypeOK, RunningIsCancellable, AbortersLive, WaitsLive, Live
  <2> QED BY <1>5, <2>1, <2>2, <2>3 DEF JobSteps
<1>6. CASE RunTransfers
  <2>1. PICK mode \in Modes : Launch(<<0, "all">>, Choice(mode))
    BY <1>6 DEF RunTransfers
  <2> QED BY <2>1, LaunchKeeps DEF Loops, Choice
<1>7. CASE ClearDone
  BY <1>7, <1>t, ListKeeps DEF ClearDone, QueueTypeOK, Statuses
<1>8. CASE QueueRestart
  <2>1. QueueTypeOK'
    BY <1>8, <1>t DEF QueueRestart, QueueTypeOK, Statuses, Free, Idle
  <2> QED BY <1>8, <1>t, <2>1
          DEF QueueRestart, QueueInv, QueueTypeOK, RunningIsCancellable, AbortersLive, WaitsLive, Idle
<1>9. CASE UNCHANGED queueVars
  BY <1>9 DEF queueVars, QueueInv, QueueTypeOK, RunningIsCancellable, AbortersLive, WaitsLive, Live
<1> QED BY <1>1, <1>2, <1>3, <1>4, <1>5, <1>6, <1>7, <1>8, <1>9 DEF QueueNext

LEMMA QueueInitially == QueueInit => QueueInv
<1> SUFFICES ASSUME QueueInit PROVE QueueInv
  OBVIOUS
<1>1. QueueTypeOK
  BY DEF QueueInit, QueueTypeOK, Statuses, Free, Idle
<1>2. WaitsLive
  BY DEF QueueInit, WaitsLive, Idle
<1>3. RunningIsCancellable /\ AbortersLive
  BY DEF QueueInit, RunningIsCancellable, AbortersLive
<1> QED BY <1>1, <1>2, <1>3 DEF QueueInv

LEMMA QueueAlways == QueueSpec => []QueueInv
  BY QueueInitially, QueueInductive, PTL DEF QueueSpec

(* The variables of the queue keep their types.                             *)
THEOREM QueueTypeCorrect == QueueSpec => []QueueTypeOK
<1>1. QueueInv => QueueTypeOK
  BY DEF QueueInv
<1> QED BY <1>1, QueueAlways, PTL

(* Any number of runs of a job may overlap, abort and clean up after each   *)
(* other (newAborter, clearAborter): a job shown as running can be canceled, *)
(* and abortersRef only holds controllers of runs that go on.                *)
THEOREM AbortersAlwaysMatch == QueueSpec => []AbortersMatch
<1>1. QueueInv => AbortersMatch
  BY DEF QueueInv, AbortersMatch
<1> QED BY <1>1, QueueAlways, PTL

(* The workers of runAll, runSelected and runTransfers await only runs that *)
(* go on.                                                                    *)
THEOREM WaitedRunsAreLive == QueueSpec => []WaitsLive
<1>1. QueueInv => WaitsLive
  BY DEF QueueInv
<1> QED BY <1>1, QueueAlways, PTL
=============================================================================
