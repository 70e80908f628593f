------------------------ MODULE PaneTerminals_proofs ------------------------
(***************************************************************************)
(* Proofs about PaneTerminals: browser panes and terminal panes in any     *)
(* number of places, any number of calls in flight and of shells.          *)
(***************************************************************************)
EXTENDS PaneTerminals, TLAPS

-----------------------------------------------------------------------------
(* A call that is over leaves a gap: where the others were and where they   *)
(* are now.                                                                 *)
Was(k, j) == IF j < k THEN j ELSE j + 1
Now(k, i) == IF i < k THEN i ELSE i - 1

LEMMA Removal ==
  ASSUME NEW S, NEW s \in Seq(S), NEW k \in DOMAIN s
  PROVE  /\ RemoveAt(s, k) \in Seq(S)
         /\ Len(RemoveAt(s, k)) = Len(s) - 1
         /\ \A j \in 1..(Len(s) - 1) : RemoveAt(s, k)[j] = s[Was(k, j)]
<1> DEFINE a == SubSeq(s, 1, k - 1)
           b == SubSeq(s, k + 1, Len(s))
<1>1. k \in 1..Len(s) /\ Len(s) \in Nat
  OBVIOUS
<1>2. a \in Seq(S) /\ Len(a) = k - 1 /\ \A j \in 1..(k - 1) : a[j] = s[j]
  BY <1>1
<1>3. b \in Seq(S) /\ Len(b) = Len(s) - k /\ \A j \in 1..(Len(s) - k) : b[j] = s[k + j]
  BY <1>1
<1>4. RemoveAt(s, k) = a \o b
  BY DEF RemoveAt
<1> HIDE DEF a, b
<1>5. a \o b \in Seq(S) /\ Len(a \o b) = Len(s) - 1
  BY <1>1, <1>2, <1>3
<1>6. ASSUME NEW j \in 1..(Len(s) - 1) PROVE (a \o b)[j] = s[Was(k, j)]
  <2>1. CASE j < k
    BY <1>1, <1>2, <1>3, <2>1 DEF Was
  <2>2. CASE j >= k
    <3>1. (a \o b)[j] = b[j - (k - 1)] /\ j - (k - 1) \in 1..(Len(s) - k)
      BY <1>1, <1>2, <1>3, <2>2
    <3>2. b[j - (k - 1)] = s[k + (j - (k - 1))]
      BY <1>3, <3>1
    <3>3. k + (j - (k - 1)) = j + 1
      BY <1>1
    <3> QED BY <2>2, <3>1, <3>2, <3>3 DEF Was
  <2>3. j < k \/ j >= k
    BY <1>1
  <2> QED BY <2>1, <2>2, <2>3
<1> QED BY <1>4, <1>5, <1>6

(* The call that follows it, if one does, is the last. *)
LEMMA Following ==
  ASSUME NEW S, NEW s \in Seq(S), NEW k \in DOMAIN s, NEW c \in S
  PROVE  /\ RemoveAt(s, k) \o <<c>> \in Seq(S)
         /\ Len(RemoveAt(s, k) \o <<c>>) = Len(s)
         /\ \A j \in 1..(Len(s) - 1) : (RemoveAt(s, k) \o <<c>>)[j] = s[Was(k, j)]
         /\ (RemoveAt(s, k) \o <<c>>)[Len(s)] = c
<1> DEFINE r == RemoveAt(s, k)
<1>1. /\ r \in Seq(S) /\ Len(r) = Len(s) - 1
      /\ \A j \in 1..(Len(s) - 1) : r[j] = s[Was(k, j)]
  BY Removal
<1> HIDE DEF r
<1> SUFFICES /\ r \o <<c>> \in Seq(S) /\ Len(r \o <<c>>) = Len(s)
             /\ \A j \in 1..(Len(s) - 1) : (r \o <<c>>)[j] = s[Was(k, j)]
             /\ (r \o <<c>>)[Len(s)] = c
  BY DEF r
<1>2. Len(s) \in Nat /\ Len(s) > 0
  OBVIOUS
<1> QED BY <1>1, <1>2

LEMMA Gap ==
  ASSUME NEW n \in Nat, NEW k \in 1..n
  PROVE  /\ \A j \in 1..(n - 1) :
              Was(k, j) \in (1..n) \ {k} /\ Now(k, Was(k, j)) = j
         /\ \A i \in (1..n) \ {k} :
              Now(k, i) \in 1..(n - 1) /\ Was(k, Now(k, i)) = i
         /\ \A i, j \in 1..(n - 1) : i <= j <=> Was(k, i) <= Was(k, j)
BY DEF Was, Now

-----------------------------------------------------------------------------
(* What a step does to the calls of a pane.                                 *)

Adds(p, c) ==
  LET n == Len(calls[p]) IN
  /\ Len(calls'[p]) = n + 1
  /\ \A j \in 1..n : calls'[p][j] = calls[p][j]
  /\ calls'[p][n + 1] = c

Drops(p, k) ==
  LET n == Len(calls[p]) IN
  /\ k \in 1..n
  /\ Len(calls'[p]) = n - 1
  /\ \A j \in 1..(n - 1) : calls'[p][j] = calls[p][Was(k, j)]

Continues(p, k, c) ==
  LET n == Len(calls[p]) IN
  /\ k \in 1..n
  /\ Len(calls'[p]) = n
  /\ \A j \in 1..(n - 1) : calls'[p][j] = calls[p][Was(k, j)]
  /\ calls'[p][n] = c

Forgets(p) ==
  LET n == Len(calls[p]) IN
  /\ Len(calls'[p]) \in {n, n + 1}
  /\ \A j \in 1..n : ~calls'[p][j].live
  /\ Len(calls'[p]) = n + 1 => calls'[p][n + 1] = Call("list", tab[p])

LEMMA CallTyped ==
  ASSUME NEW op \in Ops, NEW at \in Place \cup {None}
  PROVE  Call(op, at) \in FileCall
BY DEF Call, FileCall

LEMMA Added ==
  ASSUME FileTypeOK, NEW p \in Panes, NEW c \in FileCall,
         calls' = [calls EXCEPT ![p] = Append(@, c)]
  PROVE  calls' \in [Panes -> Seq(FileCall)] /\ Adds(p, c)
<1>1. calls[p] \in Seq(FileCall) /\ calls'[p] = Append(calls[p], c)
  BY DEF FileTypeOK
<1>2. Append(calls[p], c) \in Seq(FileCall)
  BY <1>1
<1> QED BY <1>1, <1>2 DEF FileTypeOK, Adds

LEMMA Dropped ==
  ASSUME FileTypeOK, NEW p \in Panes, NEW k \in DOMAIN calls[p], Then(p, k, <<>>)
  PROVE  calls' \in [Panes -> Seq(FileCall)] /\ Drops(p, k)
<1>1. calls[p] \in Seq(FileCall) /\ calls'[p] = RemoveAt(calls[p], k) \o <<>>
  BY DEF FileTypeOK, Then
<1>2. /\ RemoveAt(calls[p], k) \in Seq(FileCall)
      /\ Len(RemoveAt(calls[p], k)) = Len(calls[p]) - 1
      /\ \A j \in 1..(Len(calls[p]) - 1) : RemoveAt(calls[p], k)[j] = calls[p][Was(k, j)]
  BY <1>1, Removal
<1>3. calls'[p] = RemoveAt(calls[p], k)
  BY <1>1, <1>2
<1>4. k \in 1..Len(calls[p])
  BY <1>1
<1> QED BY <1>2, <1>3, <1>4 DEF FileTypeOK, Then, Drops

LEMMA Continued ==
  ASSUME FileTypeOK, NEW p \in Panes, NEW k \in DOMAIN calls[p], NEW c \in FileCall,
         Then(p, k, <<c>>)
  PROVE  calls' \in [Panes -> Seq(FileCall)] /\ Continues(p, k, c)
<1>1. calls[p] \in Seq(FileCall) /\ calls'[p] = RemoveAt(calls[p], k) \o <<c>>
  BY DEF FileTypeOK, Then
<1>2. k \in 1..Len(calls[p])
  BY <1>1
<1> QED BY <1>1, <1>2, Following DEF FileTypeOK, Then, Continues

LEMMA OrphansTyped ==
  ASSUME FileTypeOK, NEW p \in Panes
  PROVE  /\ Orphaned(p) \in Seq(FileCall) /\ Len(Orphaned(p)) = Len(calls[p])
         /\ \A k \in 1..Len(calls[p]) : ~Orphaned(p)[k].live
<1>1. calls[p] \in Seq(FileCall) /\ Len(calls[p]) \in Nat /\ DOMAIN calls[p] = 1..Len(calls[p])
  BY DEF FileTypeOK
<1>2. \A k \in 1..Len(calls[p]) : calls[p][k] \in FileCall
  BY <1>1
<1>3. \A k \in 1..Len(calls[p]) :
        [calls[p][k] EXCEPT !.live = FALSE] \in FileCall
        /\ ~[calls[p][k] EXCEPT !.live = FALSE].live
  BY <1>2 DEF FileCall
<1>4. Orphaned(p) = [k \in 1..Len(calls[p]) |-> [calls[p][k] EXCEPT !.live = FALSE]]
  BY <1>1 DEF Orphaned
<1>5. Orphaned(p) \in Seq(FileCall)
  BY <1>1, <1>3, <1>4
<1>6. Len(Orphaned(p)) = Len(calls[p])
  BY <1>1, <1>4
<1> QED BY <1>3, <1>4, <1>5, <1>6

LEMMA Forgotten ==
  ASSUME FileTypeOK, NEW p \in Panes, Remounted(p)
  PROVE  calls' \in [Panes -> Seq(FileCall)] /\ Forgets(p)
<1>1. /\ Orphaned(p) \in Seq(FileCall) /\ Len(Orphaned(p)) = Len(calls[p])
      /\ \A k \in 1..Len(calls[p]) : ~Orphaned(p)[k].live
      /\ Len(calls[p]) \in Nat
  BY OrphansTyped DEF FileTypeOK
<1>2. tab[p] \in Place \cup {None}
  BY DEF FileTypeOK
<1>3. CASE p \in Locals /\ tab[p] # None
  <2>1. Call("list", tab[p]) \in FileCall
    BY <1>2, CallTyped DEF Ops
  <2>2. calls'[p] = Orphaned(p) \o <<Call("list", tab[p])>>
    BY <1>3 DEF Remounted, FileTypeOK
  <2>3. /\ calls'[p] \in Seq(FileCall) /\ Len(calls'[p]) = Len(calls[p]) + 1
        /\ \A k \in 1..Len(calls[p]) : calls'[p][k] = Orphaned(p)[k]
        /\ calls'[p][Len(calls[p]) + 1] = Call("list", tab[p])
    BY <1>1, <2>1, <2>2
  <2> QED BY <1>1, <1>3, <2>3 DEF Remounted, FileTypeOK, Forgets
<1>4. CASE ~(p \in Locals /\ tab[p] # None)
  <2>1. calls'[p] = Orphaned(p) \o <<>>
    BY <1>4 DEF Remounted, FileTypeOK
  <2>2. calls'[p] = Orphaned(p)
    BY <1>1, <2>1
  <2> QED BY <1>1, <1>4, <2>2 DEF Remounted, FileTypeOK, Forgets
<1> QED BY <1>3, <1>4
-----------------------------------------------------------------------------
(* Each step of the file panes does something to one pane and leaves the    *)
(* others alone.  What it does is one of a few kinds.                       *)

Others(p) ==
  \A q \in Panes \ {p} :
    /\ tab'[q] = tab[q] /\ shown'[q] = shown[q] /\ loading'[q] = loading[q]
    /\ calls'[q] = calls[q]
    /\ (q \in crossed' <=> q \in crossed) /\ (q \in outrun' <=> q \in outrun)

(* A live call begins; past the buttons only when something is in flight. *)
Begins(p, c) ==
  /\ c \in FileCall /\ c.live /\ Adds(p, c)
  /\ loading'[p] = TRUE /\ shown'[p] = shown[p]
  /\ p \notin crossed' => p \notin crossed /\ (~loading[p] \/ Idle(p))

(* A handler for the folder of the tab. *)
Acts(p) == \E c \in FileCall :
  /\ Begins(p, c) /\ c.at = tab[p]
  /\ tab'[p] = tab[p] /\ (p \notin outrun' => p \notin outrun)

(* The entries of that folder are asked for. *)
Relists(p) == \E c \in FileCall :
  /\ Begins(p, c) /\ c.at = tab[p] /\ c.op = "list"
  /\ tab'[p] = tab[p] /\ (p \notin outrun' => p \notin outrun \/ (p \in Sftps /\ Idle(p)))

(* The tab moves on, and asks for entries. *)
Goes(p) == \E c \in FileCall :
  /\ Begins(p, c) /\ c.op = "list"
  /\ p \notin outrun' => ~Outruns(p) /\ c.at = tab'[p]

(* No call begins or ends. *)
Rests(p) ==
  /\ calls'[p] = calls[p] /\ loading'[p] = loading[p]
  /\ p \notin crossed' => p \notin crossed
  /\ \/ p \in outrun'
     \/ tab'[p] = tab[p] /\ shown'[p] = None /\ (p \notin outrun \/ Idle(p))
     \/ tab'[p] = tab[p] /\ shown'[p] = shown[p] /\ p \notin outrun

(* A call is over. *)
Finishes(p) == \E k \in DOMAIN calls[p] :
  LET c == calls[p][k] IN
  /\ Drops(p, k)
  /\ tab'[p] = tab[p] /\ (p \notin outrun' => p \notin outrun)
  /\ IF c.live THEN /\ loading'[p] = FALSE
                    /\ shown'[p] \in {shown[p], c.at, None}
                    /\ c.op # "list" => shown'[p] = shown[p]
                    /\ c.op = "list" => MayAnswer(p, k) /\ shown'[p] \in {c.at, None}
               ELSE loading'[p] = loading[p] /\ shown'[p] = shown[p]
  /\ p \notin crossed' => p \notin crossed \/ Idle(p)'

(* A handler goes on with its next call, for the same folder. *)
GoesOn(p) == \E k \in DOMAIN calls[p], d \in FileCall :
  LET c == calls[p][k] IN
  /\ Continues(p, k, d)
  /\ d.live = c.live /\ d.at = c.at /\ c.op # "list" /\ Refreshes(c) = c.live
  /\ loading'[p] \in {TRUE, loading[p]} /\ (~c.live => loading'[p] = loading[p])
  /\ tab'[p] = tab[p] /\ shown'[p] = shown[p]
  /\ (p \notin crossed' => p \notin crossed) /\ (p \notin outrun' => p \notin outrun)

(* A dialog moves the tab on. *)
Repoints(p) == \E k \in DOMAIN calls[p], d \in FileCall :
  LET c == calls[p][k] IN
  /\ Continues(p, k, d)
  /\ c.op = "pick" /\ d.live /\ d.op = "list" /\ d.at = tab'[p]
  /\ loading'[p] = TRUE /\ shown'[p] = shown[p]
  /\ p \notin crossed' => p \notin crossed /\ (c.live \/ Idle(p))
  /\ p \notin outrun' => ~Outruns(p)

(* The component goes. *)
Wiped(p) ==
  LET n == Len(calls[p]) IN
  /\ \A j \in 1..n : ~calls'[p][j].live
  /\ shown'[p] = None
  /\ \/ Len(calls'[p]) = n /\ loading'[p] = FALSE
     \/ /\ Len(calls'[p]) = n + 1 /\ loading'[p] = TRUE
        /\ calls'[p][n + 1] = Call("list", tab'[p])

Changes(p) ==
  \/ Acts(p) \/ Relists(p) \/ Goes(p) \/ Rests(p)
  \/ Finishes(p) \/ GoesOn(p) \/ Repoints(p) \/ Wiped(p)

LEMMA Typed ==
  ASSUME FileTypeOK, NEW p \in Panes
  PROVE  /\ tab[p] \in Place \cup {None} /\ shown[p] \in Place \cup {None}
         /\ loading[p] \in BOOLEAN /\ calls[p] \in Seq(FileCall)
         /\ \A k \in DOMAIN calls[p] : calls[p][k] \in FileCall
BY DEF FileTypeOK

LEMMA PlacesAreSome == \A at \in Place : at # None
BY NoneAssumption DEF Folder

LEMMA PlaceTyped ==
  ASSUME NEW at \in Place
  PROVE  /\ at.dir > 0 => Parent(at) \in Place
         /\ at.dir < Deep => Row(at) \in Place
BY DeepAssumption DEF Place, Parent, Row

LEMMA TopTyped == \A b \in Bases : Top(b) \in Place
BY DeepAssumption DEF Place, Top

LEMMA MovesTyped == FileTypeOK /\ Moving => moves' \in 0..Moves
BY FileBounds DEF FileTypeOK, Moving

(* What the user can get past the buttons with. *)
LEMMA Entering ==
  ASSUME FileTypeOK, NEW p \in Panes, Button(p) \/ Command(p)
  PROVE  /\ crossed' \subseteq Panes
         /\ \A q \in Panes \ {p} : q \in crossed' <=> q \in crossed
         /\ p \notin crossed' => p \notin crossed /\ (~loading[p] \/ Idle(p))
BY DEF FileTypeOK, Button, Command

LEMMA BeginTyped ==
  ASSUME FileTypeOK, NEW p \in Panes, Button(p) \/ Command(p),
         NEW op \in Ops, NEW at \in Place \cup {None}, Begin(p, Call(op, at)), UNCHANGED shown
  PROVE  /\ crossed' \subseteq Panes
         /\ calls' \in [Panes -> Seq(FileCall)]
         /\ loading' \in [Panes -> BOOLEAN]
         /\ Begins(p, Call(op, at))
         /\ Call(op, at).at = at /\ Call(op, at).op = op
<1>1. Call(op, at) \in FileCall
  BY CallTyped
<1>2. calls' \in [Panes -> Seq(FileCall)] /\ Adds(p, Call(op, at))
  BY <1>1, Added DEF Begin
<1>3. Call(op, at).live /\ Call(op, at).at = at /\ Call(op, at).op = op
  BY DEF Call
<1>4. loading' \in [Panes -> BOOLEAN] /\ loading'[p] = TRUE
  BY DEF Begin, FileTypeOK
<1>5. crossed' \subseteq Panes /\ (p \notin crossed' => p \notin crossed /\ (~loading[p] \/ Idle(p)))
  BY Entering
<1> QED BY <1>1, <1>2, <1>3, <1>4, <1>5 DEF Begins

LEMMA AskTyped ==
  ASSUME FileTypeOK, NEW p \in Panes, NEW at \in Place \cup {None}, Ask(p, at),
         crossed' \subseteq Panes,
         p \notin crossed' => p \notin crossed /\ (~loading[p] \/ Idle(p))
  PROVE  /\ calls' \in [Panes -> Seq(FileCall)]
         /\ loading' \in [Panes -> BOOLEAN]
         /\ shown' \in [Panes -> Place \cup {None}]
         /\ at # None => /\ Begins(p, Call("list", at))
                         /\ Call("list", at).at = at /\ Call("list", at).op = "list"
         /\ at = None => calls' = calls /\ loading' = loading /\ shown'[p] = None
<1>1. Call("list", at) \in FileCall
  BY CallTyped DEF Ops
<1>2. Call("list", at).live /\ Call("list", at).at = at /\ Call("list", at).op = "list"
  BY DEF Call
<1>3. CASE at = None
  BY <1>3 DEF Ask, FileTypeOK
<1>4. CASE at # None
  <2>1. calls' \in [Panes -> Seq(FileCall)] /\ Adds(p, Call("list", at))
    BY <1>1, <1>4, Added DEF Ask
  <2>2. loading' \in [Panes -> BOOLEAN] /\ loading'[p] = TRUE /\ shown' = shown
    BY <1>4 DEF Ask, FileTypeOK
  <2> QED BY <1>1, <1>2, <1>4, <2>1, <2>2 DEF Begins, FileTypeOK
<1> QED BY <1>3, <1>4

LEMMA MovesOnTyped ==
  ASSUME FileTypeOK, NEW p \in Panes, MovesOn(p)
  PROVE  /\ outrun' \subseteq Panes
         /\ \A q \in Panes \ {p} : q \in outrun' <=> q \in outrun
         /\ p \notin outrun' => ~Outruns(p)
BY DEF FileTypeOK, MovesOn

-----------------------------------------------------------------------------
(* Each action is of one of the kinds.                                      *)

Good(p) == FileTypeOK' /\ Others(p) /\ Changes(p)

LEMMA ButtonStep ==
  ASSUME FileTypeOK, NEW p \in Panes, PickFolder(p) \/ Mkdir(p) \/ RowCall(p) \/ BackupFolder(p)
  PROVE  Good(p)
<1>1. PICK op \in Ops : /\ Moving /\ (Button(p) \/ Command(p))
                        /\ Begin(p, Call(op, tab[p])) /\ UNCHANGED <<tab, shown, outrun>>
  BY DEF PickFolder, Mkdir, RowCall, BackupFolder, Ops
<1>2. tab[p] \in Place \cup {None}
  BY Typed
<1>3. /\ crossed' \subseteq Panes
      /\ calls' \in [Panes -> Seq(FileCall)] /\ loading' \in [Panes -> BOOLEAN]
      /\ Begins(p, Call(op, tab[p])) /\ Call(op, tab[p]).at = tab[p]
  BY <1>1, <1>2, BeginTyped
<1>4. FileTypeOK'
  BY <1>1, <1>3, MovesTyped DEF FileTypeOK
<1>5. Others(p)
  BY <1>1, Entering DEF Others, Begin, FileTypeOK
<1>6. Acts(p)
  BY <1>1, <1>3 DEF Acts, Begins
<1> QED BY <1>4, <1>5, <1>6 DEF Good, Changes

(* A save dialog opens or is dismissed: no call of the pane begins. *)
LEMMA DialogStep ==
  ASSUME FileTypeOK, NEW p \in Panes, Download(p) \/ Dismissed(p)
  PROVE  Good(p)
<1>1. UNCHANGED <<tab, shown, loading, calls, crossed, outrun>> /\ moves' \in 0..Moves
  BY MovesTyped DEF Download, Dismissed, Button, FileTypeOK
<1>2. FileTypeOK' /\ Others(p) /\ Rests(p)
  BY <1>1 DEF FileTypeOK, Others, Rests
<1> QED BY <1>2 DEF Good, Changes

LEMMA SavedStep ==
  ASSUME FileTypeOK, NEW p \in Panes, Saved(p)
  PROVE  Good(p)
<1> DEFINE c == Call("copy", tab[p])
<1>1. tab[p] \in Place \cup {None} /\ "copy" \in Ops
  BY Typed DEF Ops
<1>2. /\ crossed' \subseteq Panes
      /\ calls' \in [Panes -> Seq(FileCall)] /\ loading' \in [Panes -> BOOLEAN]
      /\ Begins(p, c) /\ c.at = tab[p]
  BY <1>1, BeginTyped DEF Saved
<1>3. FileTypeOK'
  BY <1>2 DEF Saved, FileTypeOK
<1>4. Others(p)
  BY Entering DEF Others, Saved, Begin, FileTypeOK
<1>5. Acts(p)
  <2> HIDE DEF c
  <2> QED BY <1>2 DEF Acts, Begins, Saved
<1> QED BY <1>3, <1>4, <1>5 DEF Good, Changes

LEMMA RefreshStep ==
  ASSUME FileTypeOK, NEW p \in Panes, Refresh(p)
  PROVE  Good(p)
<1>1. /\ tab[p] \in Place \cup {None} /\ crossed' \subseteq Panes
      /\ \A q \in Panes \ {p} : q \in crossed' <=> q \in crossed
      /\ p \notin crossed' => p \notin crossed /\ (~loading[p] \/ Idle(p))
  BY Entering, Typed DEF Refresh
<1>2. /\ calls' \in [Panes -> Seq(FileCall)] /\ loading' \in [Panes -> BOOLEAN]
      /\ shown' \in [Panes -> Place \cup {None}]
      /\ tab[p] # None => /\ Begins(p, Call("list", tab[p]))
                          /\ Call("list", tab[p]).at = tab[p] /\ Call("list", tab[p]).op = "list"
      /\ tab[p] = None => calls' = calls /\ loading' = loading /\ shown'[p] = None
  BY <1>1, AskTyped DEF Refresh
<1>3. /\ outrun' \subseteq Panes /\ (\A q \in Panes \ {p} : q \in outrun' <=> q \in outrun)
      /\ p \notin outrun' => p \notin outrun \/ (p \in Sftps /\ Idle(p))
  BY DEF Refresh, FileTypeOK
<1>4. FileTypeOK'
  BY <1>1, <1>2, <1>3, MovesTyped DEF FileTypeOK, Refresh
<1>5. Others(p)
  BY <1>1, <1>3 DEF Others, Refresh, Ask, FileTypeOK
<1>6. CASE tab[p] # None
  <2>1. Relists(p)
    BY <1>2, <1>3, <1>6 DEF Relists, Begins, Refresh
  <2> QED BY <1>4, <1>5, <2>1 DEF Good, Changes
<1>7. CASE tab[p] = None
  <2>1. Rests(p)
    BY <1>1, <1>2, <1>3, <1>7 DEF Rests, Refresh
  <2> QED BY <1>4, <1>5, <2>1 DEF Good, Changes
<1> QED BY <1>6, <1>7

(* The tab gets another folder, and another call maybe. *)
LEMMA GoToStep ==
  ASSUME FileTypeOK, NEW p \in Panes, NEW at \in Place, GoTo(p, at),
         p \in Locals \/ tab[p] # None,
         crossed' \subseteq Panes,
         \A q \in Panes \ {p} : q \in crossed' <=> q \in crossed,
         p \notin crossed' => p \notin crossed /\ (~loading[p] \/ Idle(p)),
         moves' \in 0..Moves
  PROVE  Good(p)
<1> DEFINE of == IF p \in Locals THEN at ELSE tab[p]
<1>1. of \in Place /\ of # None /\ (p \in Locals => of = at)
  BY Typed, PlacesAreSome
<1>2. Ask(p, of)
  BY DEF GoTo
<1> HIDE DEF of
<1>3. /\ calls' \in [Panes -> Seq(FileCall)] /\ loading' \in [Panes -> BOOLEAN]
      /\ shown' \in [Panes -> Place \cup {None}]
      /\ Begins(p, Call("list", of))
      /\ Call("list", of).at = of /\ Call("list", of).op = "list"
  BY <1>1, <1>2, AskTyped
<1>4. /\ outrun' \subseteq Panes /\ (\A q \in Panes \ {p} : q \in outrun' <=> q \in outrun)
      /\ p \notin outrun' => ~Outruns(p)
  BY MovesOnTyped DEF GoTo
<1>5. tab' \in [Panes -> Place \cup {None}] /\ tab'[p] = at
  BY DEF GoTo, FileTypeOK
<1>6. FileTypeOK'
  BY <1>3, <1>4, <1>5 DEF FileTypeOK
<1>7. Others(p)
  BY <1>2, <1>4 DEF Others, GoTo, Ask, FileTypeOK
<1>8. p \notin outrun' => p \in Locals
  BY <1>4 DEF Outruns, Panes
<1>9. Goes(p)
  BY <1>1, <1>3, <1>4, <1>5, <1>8 DEF Goes, Begins
<1> QED BY <1>6, <1>7, <1>9 DEF Good, Changes

LEMMA BrowseStep ==
  ASSUME FileTypeOK, NEW p \in Panes, GoUp(p) \/ EnterDir(p)
  PROVE  Good(p)
<1>1. tab[p] \in Place \cup {None} /\ tab[p] # None
  BY Typed DEF GoUp, EnterDir
<1>2. /\ crossed' \subseteq Panes
      /\ \A q \in Panes \ {p} : q \in crossed' <=> q \in crossed
      /\ p \notin crossed' => p \notin crossed /\ (~loading[p] \/ Idle(p))
  BY Entering DEF GoUp, EnterDir
<1>3. moves' \in 0..Moves
  BY MovesTyped DEF GoUp, EnterDir
<1>4. PICK at \in Place : GoTo(p, at)
  BY <1>1, PlaceTyped DEF GoUp, EnterDir
<1> QED BY <1>1, <1>2, <1>3, <1>4, GoToStep

LEMMA HomeStep ==
  ASSUME FileTypeOK, NEW p \in Panes, Home(p)
  PROVE  Good(p)
<1>1. PICK b \in Bases : GoTo(p, Top(b))
  BY DEF Home
<1>2. /\ crossed' \subseteq Panes
      /\ \A q \in Panes \ {p} : q \in crossed' <=> q \in crossed
      /\ p \notin crossed' => p \notin crossed /\ (~loading[p] \/ Idle(p))
      /\ p \in Locals /\ moves' \in 0..Moves
  BY DEF Home, FileTypeOK
<1> QED BY <1>1, <1>2, TopTyped, GoToStep

(* An SFTP pane that gets another tab, or other fields, asks for nothing. *)
LEMMA SilentStep ==
  ASSUME FileTypeOK, NEW p \in Panes, NEW at \in Place,
         p \in Sftps, tab' = [tab EXCEPT ![p] = at], MovesOn(p),
         UNCHANGED <<shown, loading, calls>>,
         crossed' \subseteq Panes,
         \A q \in Panes \ {p} : q \in crossed' <=> q \in crossed,
         p \notin crossed' => p \notin crossed,
         moves' \in 0..Moves
  PROVE  Good(p)
<1>1. /\ outrun' \subseteq Panes /\ (\A q \in Panes \ {p} : q \in outrun' <=> q \in outrun)
      /\ p \in outrun'
  BY MovesOnTyped DEF Outruns
<1>2. tab' \in [Panes -> Place \cup {None}]
  BY DEF FileTypeOK
<1>3. FileTypeOK'
  BY <1>1, <1>2 DEF FileTypeOK
<1>4. Others(p)
  BY <1>1 DEF Others, FileTypeOK
<1>5. Rests(p)
  BY <1>1 DEF Rests
<1> QED BY <1>3, <1>4, <1>5 DEF Good, Changes

LEMMA EditStep ==
  ASSUME FileTypeOK, NEW p \in Panes, EditFields(p)
  PROVE  Good(p)
<1>1. PICK at \in Place : tab' = [tab EXCEPT ![p] = at]
  BY DEF EditFields
<1>2. /\ crossed' \subseteq Panes
      /\ \A q \in Panes \ {p} : q \in crossed' <=> q \in crossed
      /\ p \notin crossed' => p \notin crossed
  BY Entering DEF EditFields
<1>3. moves' \in 0..Moves
  BY MovesTyped DEF EditFields
<1> QED BY <1>1, <1>2, <1>3, SilentStep DEF EditFields

LEMMA RetabStep ==
  ASSUME FileTypeOK, NEW p \in Panes, Retab(p)
  PROVE  Good(p)
<1>1. PICK at \in Place : /\ tab' = [tab EXCEPT ![p] = at]
                          /\ IF p \in Locals THEN Ask(p, at) ELSE UNCHANGED <<shown, loading, calls>>
  BY DEF Retab
<1>2. /\ crossed' \subseteq Panes
      /\ \A q \in Panes \ {p} : q \in crossed' <=> q \in crossed
      /\ p \notin crossed' => p \notin crossed /\ (~loading[p] \/ Idle(p))
  BY DEF Retab, FileTypeOK
<1>3. moves' \in 0..Moves /\ MovesOn(p)
  BY MovesTyped DEF Retab
<1>4. CASE p \in Locals
  <2>1. GoTo(p, at)
    BY <1>1, <1>3, <1>4 DEF GoTo
  <2> QED BY <1>2, <1>3, <1>4, <2>1, GoToStep
<1>5. CASE p \notin Locals
  BY <1>1, <1>2, <1>3, <1>5, SilentStep DEF Panes
<1> QED BY <1>4, <1>5

LEMMA RemountStep ==
  ASSUME FileTypeOK, NEW p \in Panes, Remounted(p), UNCHANGED tab, moves' \in 0..Moves
  PROVE  Good(p)
<1>1. calls' \in [Panes -> Seq(FileCall)]
  BY Forgotten
<1>2. /\ shown' \in [Panes -> Place \cup {None}] /\ shown'[p] = None
      /\ loading' \in [Panes -> BOOLEAN]
      /\ crossed' \subseteq Panes /\ outrun' \subseteq Panes
  BY DEF Remounted, FileTypeOK
<1>3. FileTypeOK'
  BY <1>1, <1>2 DEF FileTypeOK
<1>4. Others(p)
  BY DEF Others, Remounted, FileTypeOK
<1>5. /\ Orphaned(p) \in Seq(FileCall) /\ Len(Orphaned(p)) = Len(calls[p])
      /\ \A k \in 1..Len(calls[p]) : ~Orphaned(p)[k].live
      /\ Len(calls[p]) \in Nat
  BY OrphansTyped DEF FileTypeOK
<1>6. Wiped(p)
  <2>1. CASE p \in Locals /\ tab[p] # None
    <3>1. Call("list", tab[p]) \in FileCall
      BY Typed, CallTyped DEF Ops
    <3>2. calls'[p] = Orphaned(p) \o <<Call("list", tab[p])>> /\ loading'[p] = TRUE
      BY <2>1 DEF Remounted, FileTypeOK
    <3>3. /\ Len(calls'[p]) = Len(calls[p]) + 1
          /\ \A k \in 1..Len(calls[p]) : calls'[p][k] = Orphaned(p)[k]
          /\ calls'[p][Len(calls[p]) + 1] = Call("list", tab[p])
      BY <1>5, <3>1, <3>2
    <3> QED BY <1>2, <1>5, <3>2, <3>3 DEF Wiped
  <2>2. CASE ~(p \in Locals /\ tab[p] # None)
    <3>1. calls'[p] = Orphaned(p) \o <<>> /\ loading'[p] = FALSE
      BY <2>2 DEF Remounted, FileTypeOK
    <3>2. calls'[p] = Orphaned(p)
      BY <1>5, <3>1
    <3> QED BY <1>2, <1>5, <3>1, <3>2 DEF Wiped
  <2> QED BY <2>1, <2>2
<1> QED BY <1>3, <1>4, <1>6 DEF Good, Changes

LEMMA SetPaneStep ==
  ASSUME FileTypeOK, NEW p \in Panes, SetPane(p)
  PROVE  Good(p)
<1>1. /\ Orphaned(p) \in Seq(FileCall) /\ Len(Orphaned(p)) = Len(calls[p])
      /\ \A k \in 1..Len(calls[p]) : ~Orphaned(p)[k].live
  BY OrphansTyped
<1>2. tab' \in [Panes -> Place \cup {None}]
  BY TopTyped DEF SetPane, FileTypeOK
<1>3. FileTypeOK'
  BY <1>1, <1>2, MovesTyped DEF FileTypeOK, SetPane
<1>4. Others(p)
  BY DEF Others, SetPane, FileTypeOK
<1>5. Wiped(p)
  BY <1>1 DEF Wiped, SetPane, FileTypeOK
<1> QED BY <1>3, <1>4, <1>5 DEF Good, Changes

(* The call is over, for good. *)
LEMMA DoneStep ==
  ASSUME FileTypeOK, NEW p \in Panes, NEW k \in DOMAIN calls[p], NEW entries,
         Done(p, k, entries), UNCHANGED <<tab, outrun, moves>>,
         \/ calls[p][k].op = "list" /\ entries \in {calls[p][k].at, None} /\ MayAnswer(p, k)
         \/ calls[p][k].op # "list" /\ entries = shown[p]
  PROVE  Good(p)
<1>1. calls' \in [Panes -> Seq(FileCall)] /\ Drops(p, k)
  BY Dropped DEF Done
<1>2. /\ calls[p][k] \in FileCall /\ calls[p][k].live \in BOOLEAN
      /\ entries \in Place \cup {None}
  BY Typed DEF FileCall
<1>3. /\ loading' \in [Panes -> BOOLEAN] /\ shown' \in [Panes -> Place \cup {None}]
      /\ crossed' \subseteq Panes
  BY <1>2 DEF Done, Settled, FileTypeOK
<1>4. FileTypeOK'
  BY <1>1, <1>3 DEF FileTypeOK
<1>5. Others(p)
  BY DEF Others, Done, Then, Settled, FileTypeOK
<1>6. p \notin crossed' => p \notin crossed \/ Idle(p)'
  BY DEF Done, Settled
<1>7. CASE calls[p][k].live
  <2>1. loading'[p] = FALSE /\ shown'[p] = entries
    BY <1>7 DEF Done, FileTypeOK
  <2> QED BY <1>1, <1>4, <1>5, <1>6, <1>7, <2>1 DEF Good, Changes, Finishes
<1>8. CASE ~calls[p][k].live
  <2>1. loading'[p] = loading[p] /\ shown'[p] = shown[p]
    BY <1>8 DEF Done
  <2> QED BY <1>1, <1>4, <1>5, <1>6, <1>8, <2>1 DEF Good, Changes, Finishes
<1> QED BY <1>7, <1>8

(* The handler goes on. *)
LEMMA GoOnStep ==
  ASSUME FileTypeOK, NEW p \in Panes, NEW k \in DOMAIN calls[p], NEW op \in Ops,
         calls[p][k].op \in {"change", "delete", "push", "purge"},
         Then(p, k, <<[calls[p][k] EXCEPT !.op = op]>>),
         \/ UNCHANGED loading
         \/ loading' = IF calls[p][k].live THEN [loading EXCEPT ![p] = TRUE] ELSE loading,
         UNCHANGED <<tab, shown, crossed, outrun, moves>>
  PROVE  Good(p)
<1> DEFINE c == calls[p][k]
           d == [c EXCEPT !.op = op]
<1>1. c \in FileCall
  BY Typed
<1>2. d \in FileCall /\ d.live = c.live /\ d.at = c.at /\ c.live \in BOOLEAN
  BY <1>1 DEF FileCall
<1>3. calls' \in [Panes -> Seq(FileCall)] /\ Continues(p, k, d)
  BY <1>2, Continued
<1>4. /\ loading' \in [Panes -> BOOLEAN] /\ loading'[p] \in {TRUE, loading[p]}
      /\ ~c.live => loading'[p] = loading[p]
  BY DEF FileTypeOK
<1>5. FileTypeOK'
  BY <1>3, <1>4 DEF FileTypeOK
<1>6. Others(p)
  BY DEF Others, Then, FileTypeOK
<1>7. c.op # "list" /\ Refreshes(c) = c.live
  BY <1>2 DEF Refreshes
<1>8. GoesOn(p)
  <2> HIDE DEF d
  <2> QED BY <1>2, <1>3, <1>4, <1>7 DEF GoesOn
<1> QED BY <1>5, <1>6, <1>8 DEF Good, Changes

LEMMA PickedStep ==
  ASSUME FileTypeOK, NEW p \in Panes, NEW k \in DOMAIN calls[p], Picked(p, k), UNCHANGED moves
  PROVE  Good(p)
<1> DEFINE c == calls[p][k]
<1>1. PICK b \in Bases :
        LET lists == Top(b) # tab[p] IN
        /\ tab' = [tab EXCEPT ![p] = Top(b)]
        /\ IF lists THEN MovesOn(p) ELSE UNCHANGED outrun
        /\ Then(p, k, IF lists THEN <<Call("list", Top(b))>> ELSE <<>>)
        /\ loading' = [loading EXCEPT ![p] = lists \/ (@ /\ ~c.live)]
        /\ IF ~c.live /\ ~Idle(p) THEN crossed' = crossed \cup {p} ELSE Settled(p)
  BY DEF Picked
<1>2. c \in FileCall /\ c.live \in BOOLEAN /\ c.op = "pick" /\ shown' = shown
  BY Typed DEF Picked, FileCall
<1>3. Top(b) \in Place /\ tab' \in [Panes -> Place \cup {None}] /\ tab'[p] = Top(b)
  BY <1>1, TopTyped DEF FileTypeOK
<1>4. /\ loading' \in [Panes -> BOOLEAN] /\ crossed' \subseteq Panes
      /\ \A q \in Panes \ {p} : q \in crossed' <=> q \in crossed
      /\ p \notin crossed' => p \notin crossed \/ Idle(p)'
      /\ p \notin crossed' => c.live \/ Idle(p)
  BY <1>1, <1>2 DEF FileTypeOK, Settled
<1>5. CASE Top(b) # tab[p]
  <2> DEFINE d == Call("list", Top(b))
  <2>1. d \in FileCall /\ d.live /\ d.op = "list" /\ d.at = tab'[p]
    BY <1>3, CallTyped DEF Call, Ops
  <2>2. calls' \in [Panes -> Seq(FileCall)] /\ Continues(p, k, d)
    BY <1>1, <1>5, <2>1, Continued
  <2>3. /\ outrun' \subseteq Panes /\ (\A q \in Panes \ {p} : q \in outrun' <=> q \in outrun)
        /\ p \notin outrun' => ~Outruns(p)
    BY <1>1, <1>5, MovesOnTyped
  <2>4. loading'[p] = TRUE
    BY <1>1, <1>5 DEF FileTypeOK
  <2>5. ~Idle(p)'
    <3>1. Len(calls[p]) \in DOMAIN calls'[p]
      BY <1>2, <2>2 DEF Continues
    <3> QED BY <2>1, <2>2, <3>1 DEF Continues, Idle, Live
  <2>6. FileTypeOK'
    BY <1>2, <1>3, <1>4, <2>2, <2>3 DEF FileTypeOK
  <2>7. Others(p)
    BY <1>1, <1>2, <1>4, <2>3 DEF Others, Then, FileTypeOK
  <2>8. Repoints(p)
    <3> HIDE DEF d
    <3> QED BY <1>2, <1>4, <2>1, <2>2, <2>3, <2>4, <2>5 DEF Repoints
  <2> QED BY <2>6, <2>7, <2>8 DEF Good, Changes
<1>6. CASE Top(b) = tab[p]
  <2>1. calls' \in [Panes -> Seq(FileCall)] /\ Drops(p, k)
    BY <1>1, <1>6, Dropped
  <2>2. /\ outrun' = outrun /\ tab'[p] = tab[p]
        /\ loading'[p] = (loading[p] /\ ~c.live)
    BY <1>1, <1>3, <1>6 DEF FileTypeOK
  <2>3. FileTypeOK'
    BY <1>2, <1>3, <1>4, <2>1, <2>2 DEF FileTypeOK
  <2>4. Others(p)
    BY <1>1, <1>2, <1>4, <1>6, <2>2 DEF Others, Then, FileTypeOK
  <2>5. c.live => loading'[p] = FALSE
    BY <2>2
  <2>6. ~c.live => loading'[p] = loading[p]
    BY <2>2, Typed
  <2>7. Finishes(p)
    BY <1>2, <1>4, <2>1, <2>2, <2>5, <2>6 DEF Finishes
  <2> QED BY <2>3, <2>4, <2>7 DEF Good, Changes
<1> QED BY <1>5, <1>6

LEMMA AnswerStep ==
  ASSUME FileTypeOK, NEW p \in Panes, AnswerCall(p)
  PROVE  Good(p)
<1>1. PICK k \in DOMAIN calls[p] :
        /\ MayAnswer(p, k) /\ UNCHANGED moves
        /\ Listed(p, k) \/ Changed(p, k) \/ Pushed(p, k) \/ Picked(p, k) \/ Over(p, k)
  BY DEF AnswerCall
<1>2. CASE Listed(p, k)
  BY <1>1, <1>2, DoneStep DEF Listed
<1>3. CASE Over(p, k)
  BY <1>1, <1>3, DoneStep DEF Over
<1>4. CASE Changed(p, k)
  BY <1>1, <1>4, GoOnStep DEF Changed, ThenList, Ops
<1>5. CASE Pushed(p, k)
  BY <1>1, <1>5, GoOnStep DEF Pushed, ThenList, Ops
<1>6. CASE Picked(p, k)
  BY <1>1, <1>6, PickedStep
<1> QED BY <1>1, <1>2, <1>3, <1>4, <1>5, <1>6

LEMMA FilesChange ==
  ASSUME FileTypeOK,
         FileStep \/ (Remounted(First) /\ UNCHANGED tab /\ moves' \in 0..Moves)
  PROVE  \E p \in Panes : Good(p)
<1>1. CASE Remounted(First) /\ UNCHANGED tab /\ moves' \in 0..Moves
  BY <1>1, FirstAssumption, RemountStep
<1>2. CASE FileStep
  <2>1. PICK p \in Panes :
          \/ Commands(p)
          \/ EnterDir(p) \/ EditFields(p) \/ RowCall(p) \/ BackupFolder(p)
          \/ Retab(p) \/ Home(p) \/ AnswerCall(p)
          \/ Download(p) \/ Saved(p) \/ Dismissed(p)
          \/ Remount(p) \/ SetPane(p)
    BY <1>2 DEF FileStep
  <2>2. CASE Remount(p)
    <3>1. Remounted(p) /\ UNCHANGED tab /\ moves' \in 0..Moves
      BY <2>2, MovesTyped DEF Remount
    <3> QED BY <3>1, RemountStep
  <2> QED BY <2>1, <2>2, ButtonStep, RefreshStep, BrowseStep, HomeStep, EditStep, RetabStep,
             DialogStep, SavedStep, SetPaneStep, AnswerStep DEF Commands
<1> QED BY <1>1, <1>2

-----------------------------------------------------------------------------
(* The flag `loading` and the calls.                                        *)

Gated(p) ==
  /\ Idle(p) => ~loading[p]
  /\ p \notin crossed => (\A j, k \in Live(p) : j = k) /\ (loading[p] <=> ~Idle(p))

LEMMA Positions ==
  ASSUME FileTypeOK, NEW p \in Panes
  PROVE  Len(calls[p]) \in Nat /\ DOMAIN calls[p] = 1..Len(calls[p])
BY Typed

(* A pane whose flag is set, with at most one live call if not crossed. *)
LEMMA GatedSet ==
  ASSUME FileTypeOK', NEW p \in Panes, loading'[p] = TRUE,
         NEW k, Live(p)' # {}, p \notin crossed' => Live(p)' = {k}
  PROVE  Gated(p)'
BY DEF Gated, Idle

LEMMA GatedByBegin ==
  ASSUME FileTypeOK, FileTypeOK', NEW p \in Panes, Gated(p), NEW c \in FileCall, Begins(p, c)
  PROVE  Gated(p)'
<1> DEFINE n == Len(calls[p])
<1>1. /\ n \in Nat /\ DOMAIN calls[p] = 1..n /\ DOMAIN calls'[p] = 1..(n + 1)
  BY Positions DEF Begins, Adds, FileTypeOK
<1>2. n + 1 \in Live(p)'
  BY <1>1 DEF Begins, Adds, Live
<1>3. ASSUME p \notin crossed' PROVE Live(p)' = {n + 1}
  <2>1. Idle(p)
    BY <1>3 DEF Begins, Gated
  <2>2. \A j \in 1..n : ~calls'[p][j].live
    BY <1>1, <2>1 DEF Idle, Live, Begins, Adds
  <2> QED BY <1>1, <1>2, <2>2 DEF Live
<1> QED BY <1>2, <1>3, GatedSet DEF Begins

LEMMA GatedByFinish ==
  ASSUME FileTypeOK, FileTypeOK', NEW p \in Panes, Gated(p), Finishes(p)
  PROVE  Gated(p)'
<1> DEFINE n == Len(calls[p])
<1>1. PICK k \in DOMAIN calls[p] :
        /\ Drops(p, k)
        /\ IF calls[p][k].live THEN loading'[p] = FALSE ELSE loading'[p] = loading[p]
        /\ p \notin crossed' => p \notin crossed \/ Idle(p)'
  BY DEF Finishes
<1>2. n \in Nat /\ DOMAIN calls[p] = 1..n /\ DOMAIN calls'[p] = 1..(n - 1) /\ k \in 1..n
  BY <1>1, Positions DEF Drops, FileTypeOK
<1>3. \A j \in 1..(n - 1) : calls'[p][j] = calls[p][Was(k, j)]
  BY <1>1 DEF Drops
<1>0. /\ \A j \in 1..(n - 1) :
           Was(k, j) \in (1..n) \ {k} /\ Now(k, Was(k, j)) = j
      /\ \A i \in (1..n) \ {k} :
           Now(k, i) \in 1..(n - 1) /\ Was(k, Now(k, i)) = i
  <2> HIDE DEF n
  <2> QED BY <1>2, Gap
<1>4. \A j \in Live(p)' : Was(k, j) \in Live(p) \ {k} /\ Now(k, Was(k, j)) = j
  BY <1>2, <1>3, <1>0 DEF Live
<1>5. \A i \in Live(p) \ {k} : Now(k, i) \in Live(p)'
  BY <1>2, <1>3, <1>0 DEF Live
<1>6. k \in Live(p) <=> calls[p][k].live
  BY <1>2 DEF Live
<1>7. loading[p] \in BOOLEAN /\ loading'[p] \in BOOLEAN
  BY DEF FileTypeOK
<1>8. Idle(p)' => ~loading'[p]
  <2>1. CASE calls[p][k].live
    BY <1>1, <2>1
  <2>2. CASE ~calls[p][k].live
    BY <1>1, <1>5, <1>6, <2>2 DEF Gated, Idle
  <2> QED BY <2>1, <2>2
<1>9. ASSUME p \notin crossed'
      PROVE  (\A i, j \in Live(p)' : i = j) /\ (loading'[p] <=> ~Idle(p)')
  <2>1. CASE Idle(p)'
    BY <1>8, <2>1 DEF Idle
  <2>2. CASE p \notin crossed /\ ~Idle(p)'
    <3>1. \A i, j \in Live(p)' : i = j
      BY <1>4, <2>2 DEF Gated
    <3>2. k \notin Live(p) /\ ~Idle(p)
      BY <1>4, <2>2 DEF Gated, Idle
    <3>3. loading'[p] = loading[p]
      BY <1>1, <1>6, <3>2
    <3> QED BY <2>2, <3>1, <3>2, <3>3 DEF Gated
  <2> QED BY <1>1, <1>9, <2>1, <2>2
<1> QED BY <1>8, <1>9 DEF Gated

(* A call that goes on, whether it is live or not. *)
LEMMA GatedByNext ==
  ASSUME FileTypeOK, FileTypeOK', NEW p \in Panes, Gated(p), GoesOn(p) \/ Repoints(p)
  PROVE  Gated(p)'
<1> DEFINE n == Len(calls[p])
<1>1. PICK k \in DOMAIN calls[p], d \in FileCall : /\ Continues(p, k, d)
        /\ \/ /\ d.live = calls[p][k].live /\ loading'[p] \in {TRUE, loading[p]}
              /\ ~calls[p][k].live => loading'[p] = loading[p]
              /\ p \notin crossed' => p \notin crossed
           \/ /\ d.live /\ loading'[p] = TRUE
              /\ p \notin crossed' => p \notin crossed /\ (calls[p][k].live \/ Idle(p))
  BY DEF GoesOn, Repoints
<1>2. n \in Nat /\ DOMAIN calls[p] = 1..n /\ DOMAIN calls'[p] = 1..n /\ k \in 1..n
  BY <1>1, Positions DEF Continues, FileTypeOK
<1>3. (\A j \in 1..(n - 1) : calls'[p][j] = calls[p][Was(k, j)]) /\ calls'[p][n] = d
  BY <1>1 DEF Continues
<1>0. /\ \A j \in 1..(n - 1) :
           Was(k, j) \in (1..n) \ {k} /\ Now(k, Was(k, j)) = j
      /\ \A i \in (1..n) \ {k} :
           Now(k, i) \in 1..(n - 1) /\ Was(k, Now(k, i)) = i
  <2> HIDE DEF n
  <2> QED BY <1>2, Gap
<1>4. ASSUME NEW j \in Live(p)'
      PROVE  j = n \/ (Was(k, j) \in Live(p) \ {k} /\ Now(k, Was(k, j)) = j)
  <2>1. j \in 1..n /\ calls'[p][j].live
    BY <1>2 DEF Live
  <2>2. j # n => j \in 1..(n - 1)
    BY <1>2, <2>1
  <2> QED BY <1>2, <1>3, <1>0, <2>1, <2>2 DEF Live
<1>5. ASSUME NEW i \in Live(p) \ {k} PROVE Now(k, i) \in Live(p)'
  <2>1. i \in (1..n) \ {k} /\ calls[p][i].live
    BY <1>2 DEF Live
  <2>2. Now(k, i) \in 1..(n - 1) /\ Now(k, i) \in 1..n
    BY <1>2, <1>0, <2>1
  <2> QED BY <1>2, <1>3, <1>0, <2>1, <2>2 DEF Live
<1>6. k \in Live(p) <=> calls[p][k].live
  BY <1>2 DEF Live
<1>7. n \in Live(p)' <=> d.live
  BY <1>2, <1>3 DEF Live
<1>8. CASE d.live
  <2>1. Live(p)' # {}
    BY <1>7, <1>8
  <2>2. ASSUME p \notin crossed' PROVE Live(p)' = {n} /\ loading'[p] = TRUE
    <3>1. Live(p) \subseteq {k} /\ p \notin crossed
      BY <1>1, <1>6, <1>8, <2>2 DEF Gated, Idle
    <3>2. Live(p)' = {n}
      BY <1>4, <1>7, <1>8, <3>1
    <3>3. loading[p] \in BOOLEAN
      BY DEF FileTypeOK
    <3> QED BY <1>1, <1>6, <1>8, <2>2, <3>1, <3>2, <3>3 DEF Gated, Idle
  <2> QED BY <2>1, <2>2 DEF Gated, Idle
<1>9. CASE ~d.live
  <2>1. /\ ~calls[p][k].live /\ loading'[p] = loading[p]
        /\ p \notin crossed' => p \notin crossed
    BY <1>1, <1>9
  <2>2. /\ \A j \in Live(p)' : Was(k, j) \in Live(p) /\ Now(k, Was(k, j)) = j
        /\ \A i \in Live(p) : Now(k, i) \in Live(p)'
    BY <1>4, <1>5, <1>6, <1>7, <1>9, <2>1
  <2>3. Idle(p)' <=> Idle(p)
    BY <2>2 DEF Idle
  <2>4. (\A i, j \in Live(p) : i = j) => \A i, j \in Live(p)' : i = j
    BY <2>2
  <2> QED BY <2>1, <2>3, <2>4 DEF Gated
<1> QED BY <1>8, <1>9

LEMMA GatedByWipe ==
  ASSUME FileTypeOK, FileTypeOK', NEW p \in Panes, Wiped(p)
  PROVE  Gated(p)'
<1> DEFINE n == Len(calls[p])
<1>1. n \in Nat /\ DOMAIN calls'[p] = 1..Len(calls'[p])
  BY Positions DEF FileTypeOK
<1>2. CASE Len(calls'[p]) = n /\ loading'[p] = FALSE
  <2>1. Live(p)' = {}
    BY <1>1, <1>2 DEF Wiped, Live
  <2> QED BY <1>2, <2>1 DEF Gated, Idle
<1>3. CASE /\ Len(calls'[p]) = n + 1 /\ loading'[p] = TRUE
           /\ calls'[p][n + 1] = Call("list", tab'[p])
  <2>1. Live(p)' = {n + 1}
    BY <1>1, <1>3 DEF Wiped, Live, Call
  <2> QED BY <1>3, <2>1, GatedSet
<1> QED BY <1>2, <1>3 DEF Wiped

LEMMA GatedKept ==
  ASSUME FileTypeOK, NEW p \in Panes, Good(p), NEW q \in Panes, Gated(q)
  PROVE  Gated(q)'
<1>1. CASE q # p
  BY <1>1 DEF Good, Others, Gated, Idle, Live
<1>2. CASE q = p /\ Rests(p)
  BY <1>2 DEF Rests, Gated, Idle, Live
<1>3. CASE q = p /\ (Acts(p) \/ Relists(p) \/ Goes(p))
  BY <1>3, GatedByBegin DEF Good, Acts, Relists, Goes
<1> QED BY <1>1, <1>2, <1>3, GatedByFinish, GatedByNext, GatedByWipe DEF Good, Changes

-----------------------------------------------------------------------------
(* The entries.  A pane whose tab did not move on without them: calls that  *)
(* will list a folder at their end have the folder of the tab, and so has   *)
(* the last list in flight (in an SFTP pane, whose lists are answered in any *)
(* order, every one); without one, the entries are those of the tab.        *)

Lists(p) == {k \in Live(p) : calls[p][k].op = "list"}

Due(p, c) == Refreshes(c) \/ (p \in Sftps /\ c.op = "list")

Coming(p) == \E k \in Lists(p) :
  calls[p][k].at = tab[p] /\ (p \in Sftps \/ \A j \in Lists(p) : j <= k)

Fresh(p) ==
  p \notin outrun =>
    /\ \A k \in Live(p) : Due(p, calls[p][k]) => calls[p][k].at = tab[p]
    /\ Coming(p) \/ (Lists(p) = {} /\ shown[p] \in {tab[p], None})

(* A list of the folder of the tab is the last call. *)
LEMMA FreshByList ==
  ASSUME FileTypeOK, FileTypeOK', NEW p \in Panes,
         NEW n \in Nat \ {0}, Len(calls'[p]) = n,
         calls'[p][n].live, calls'[p][n].op = "list", calls'[p][n].at = tab'[p],
         p \notin outrun' => \A k \in 1..(n - 1) :
           calls'[p][k].live /\ Due(p, calls'[p][k]) => calls'[p][k].at = tab'[p]
  PROVE  Fresh(p)'
<1>1. DOMAIN calls'[p] = 1..n
  BY Positions DEF FileTypeOK
<1>2. n \in Lists(p)' /\ \A j \in Lists(p)' : j <= n
  BY <1>1 DEF Lists, Live
<1>3. Coming(p)'
  BY <1>2 DEF Coming
<1>4. ASSUME p \notin outrun', NEW k \in Live(p)', Due(p, calls'[p][k])
      PROVE  calls'[p][k].at = tab'[p]
  <2>1. k \in 1..n /\ calls'[p][k].live
    BY <1>1, <1>4 DEF Live
  <2>2. CASE k = n
    BY <2>2
  <2>3. CASE k # n
    BY <1>4, <2>1, <2>3
  <2> QED BY <2>2, <2>3
<1> QED BY <1>3, <1>4 DEF Fresh, Due, Refreshes

(* A call begins or goes on that is not a list. *)
LEMMA FreshByAct ==
  ASSUME FileTypeOK, FileTypeOK', NEW p \in Panes, Fresh(p), NEW c \in FileCall,
         Adds(p, c), c.live, c.at = tab[p], UNCHANGED <<tab[p], shown[p]>>,
         p \notin outrun' => p \notin outrun
  PROVE  Fresh(p)'
<1> DEFINE n == Len(calls[p])
<1>1. n \in Nat /\ DOMAIN calls[p] = 1..n /\ DOMAIN calls'[p] = 1..(n + 1)
  BY Positions DEF Adds, FileTypeOK
<1>2. (\A j \in 1..n : calls'[p][j] = calls[p][j]) /\ calls'[p][n + 1] = c
  BY DEF Adds
<1> HIDE DEF n
<1>3. CASE c.op = "list"
  <2>1. ASSUME p \notin outrun', NEW k \in 1..n, calls'[p][k].live, Due(p, calls'[p][k])
        PROVE  calls'[p][k].at = tab'[p]
    BY <1>1, <1>2, <2>1 DEF Fresh, Live
  <2>2. Len(calls'[p]) = n + 1 /\ n + 1 \in Nat \ {0} /\ (n + 1) - 1 = n
    BY <1>1 DEF Adds, n
  <2> QED BY <1>2, <1>3, <2>1, <2>2, FreshByList
<1>4. CASE c.op # "list"
  <2>1. Live(p)' = Live(p) \cup {n + 1}
    BY <1>1, <1>2 DEF Live
  <2>2. Lists(p)' = Lists(p)
    BY <1>1, <1>2, <1>4 DEF Lists, Live
  <2>3. Lists(p) \subseteq 1..n
    BY <1>1 DEF Lists, Live
  <2>4. Coming(p) => Coming(p)'
    BY <1>2, <2>2, <2>3 DEF Coming
  <2>5. ASSUME p \notin outrun', NEW k \in Live(p)', Due(p, calls'[p][k])
        PROVE  calls'[p][k].at = tab'[p]
    BY <1>1, <1>2, <2>1, <2>5 DEF Fresh, Live
  <2> QED BY <2>2, <2>4, <2>5 DEF Fresh, Due, Refreshes
<1> QED BY <1>3, <1>4

LEMMA FreshByRelist ==
  ASSUME FileTypeOK, FileTypeOK', NEW p \in Panes, Fresh(p), Relists(p)
  PROVE  Fresh(p)'
<1>1. PICK c \in FileCall :
        /\ c.live /\ c.op = "list" /\ c.at = tab[p] /\ Adds(p, c)
        /\ tab'[p] = tab[p] /\ shown'[p] = shown[p]
        /\ p \notin outrun' => p \notin outrun \/ Idle(p)
  BY DEF Relists, Begins
<1> DEFINE n == Len(calls[p])
<1>2. n \in Nat /\ DOMAIN calls[p] = 1..n /\ Len(calls'[p]) = n + 1
  BY <1>1, Positions DEF Adds
<1>3. (\A j \in 1..n : calls'[p][j] = calls[p][j]) /\ calls'[p][n + 1] = c
  BY <1>1 DEF Adds
<1> HIDE DEF n
<1>4. ASSUME p \notin outrun', NEW k \in 1..n, calls'[p][k].live, Due(p, calls'[p][k])
      PROVE  calls'[p][k].at = tab'[p]
  BY <1>1, <1>2, <1>3, <1>4 DEF Fresh, Live, Idle
<1>5. n + 1 \in Nat \ {0} /\ (n + 1) - 1 = n
  BY <1>2
<1> QED BY <1>1, <1>2, <1>3, <1>4, <1>5, FreshByList

LEMMA FreshByGo ==
  ASSUME FileTypeOK, FileTypeOK', NEW p \in Panes, Goes(p)
  PROVE  Fresh(p)'
<1>1. PICK c \in FileCall :
        /\ c.live /\ c.op = "list" /\ Adds(p, c)
        /\ p \notin outrun' => ~Outruns(p) /\ c.at = tab'[p]
  BY DEF Goes, Begins
<1> SUFFICES ASSUME p \notin outrun' PROVE Fresh(p)'
  BY DEF Fresh
<1> DEFINE n == Len(calls[p])
<1>2. n \in Nat /\ DOMAIN calls[p] = 1..n /\ Len(calls'[p]) = n + 1
  BY <1>1, Positions DEF Adds
<1>3. (\A j \in 1..n : calls'[p][j] = calls[p][j]) /\ calls'[p][n + 1] = c
  BY <1>1 DEF Adds
<1> HIDE DEF n
<1>4. p \notin Sftps /\ \A k \in 1..n : ~Refreshes(calls[p][k])
  BY <1>1, <1>2 DEF Outruns, ToSet
<1>5. n + 1 \in Nat \ {0} /\ (n + 1) - 1 = n
  BY <1>2
<1>6. \A k \in 1..n : ~Due(p, calls'[p][k])
  BY <1>3, <1>4 DEF Due
<1> QED BY <1>1, <1>2, <1>3, <1>5, <1>6, FreshByList

(* When a call leaves a gap, the others keep their order. *)
LEMMA Shifted ==
  ASSUME FileTypeOK, FileTypeOK', NEW p \in Panes, NEW k \in 1..Len(calls[p]),
         Len(calls'[p]) \in {Len(calls[p]) - 1, Len(calls[p])},
         \A j \in 1..(Len(calls[p]) - 1) : calls'[p][j] = calls[p][Was(k, j)],
         tab'[p] = tab[p]
  PROVE  /\ \A j \in 1..(Len(calls[p]) - 1) :
              /\ j \in Live(p)' => Was(k, j) \in Live(p) \ {k}
              /\ j \in Lists(p)' => Was(k, j) \in Lists(p) \ {k}
         /\ \A i \in Lists(p) \ {k} : Now(k, i) \in Lists(p)'
         /\ \A m \in Lists(p) \ {k} :
              /\ Len(calls[p]) \notin Lists(p)' \/ p \in Sftps
              /\ calls[p][m].at = tab[p]
              /\ p \in Sftps \/ \A j \in Lists(p) : j <= m
              => Coming(p)'
<1> DEFINE n == Len(calls[p])
<1>1. n \in Nat /\ DOMAIN calls[p] = 1..n /\ DOMAIN calls'[p] \in {1..n, 1..(n - 1)}
  BY Positions DEF FileTypeOK
<1>2. \A j \in 1..(n - 1) : calls'[p][j] = calls[p][Was(k, j)]
  OBVIOUS
<1>3. k \in 1..n
  OBVIOUS
<1> HIDE DEF n
<1>4. /\ \A j \in 1..(n - 1) :
           Was(k, j) \in (1..n) \ {k} /\ Now(k, Was(k, j)) = j
      /\ \A i \in (1..n) \ {k} :
           Now(k, i) \in 1..(n - 1) /\ Was(k, Now(k, i)) = i
      /\ \A i, j \in 1..(n - 1) : i <= j <=> Was(k, i) <= Was(k, j)
  BY <1>1, <1>3, Gap
<1>5. ASSUME NEW j \in 1..(n - 1)
      PROVE  /\ j \in Live(p)' => Was(k, j) \in Live(p) \ {k}
             /\ j \in Lists(p)' => Was(k, j) \in Lists(p) \ {k}
  BY <1>1, <1>2, <1>4 DEF Live, Lists
<1>6. ASSUME NEW i \in Lists(p) \ {k}
      PROVE  /\ Now(k, i) \in Lists(p)' /\ Now(k, i) \in 1..(n - 1)
             /\ calls'[p][Now(k, i)] = calls[p][i] /\ Was(k, Now(k, i)) = i
  <2>1. i \in (1..n) \ {k} /\ calls[p][i].live /\ calls[p][i].op = "list"
    BY <1>1 DEF Lists, Live
  <2>2. Now(k, i) \in 1..(n - 1) /\ Was(k, Now(k, i)) = i
    BY <1>4, <2>1
  <2>3. Now(k, i) \in DOMAIN calls'[p] /\ calls'[p][Now(k, i)] = calls[p][i]
    BY <1>1, <1>2, <2>2
  <2> QED BY <2>1, <2>2, <2>3 DEF Lists, Live
<1>7. ASSUME NEW m \in Lists(p) \ {k}, n \notin Lists(p)' \/ p \in Sftps,
             calls[p][m].at = tab[p], p \in Sftps \/ \A j \in Lists(p) : j <= m
      PROVE  Coming(p)'
  <2>1. /\ Now(k, m) \in Lists(p)' /\ Now(k, m) \in 1..(n - 1)
        /\ calls'[p][Now(k, m)].at = tab'[p] /\ Was(k, Now(k, m)) = m
    BY <1>6, <1>7
  <2>2. ASSUME p \notin Sftps, NEW j \in Lists(p)' PROVE j <= Now(k, m)
    <3>1. j \in 1..n /\ j # n
      BY <1>1, <1>7, <2>2 DEF Lists, Live
    <3>2. j \in 1..(n - 1)
      BY <1>1, <3>1
    <3>3. Was(k, j) <= m
      BY <1>5, <1>7, <2>2, <3>2
    <3> QED BY <1>4, <2>1, <3>2, <3>3
  <2> QED BY <2>1, <2>2 DEF Coming
<1> QED BY <1>5, <1>6, <1>7 DEF n

LEMMA FreshByFinish ==
  ASSUME FileTypeOK, FileTypeOK', NEW p \in Panes, Fresh(p), Finishes(p)
  PROVE  Fresh(p)'
<1> DEFINE n == Len(calls[p])
<1>1. PICK k \in DOMAIN calls[p] :
        /\ Drops(p, k)
        /\ tab'[p] = tab[p] /\ (p \notin outrun' => p \notin outrun)
        /\ IF calls[p][k].live
             THEN /\ calls[p][k].op # "list" => shown'[p] = shown[p]
                  /\ calls[p][k].op = "list" =>
                       MayAnswer(p, k) /\ shown'[p] \in {calls[p][k].at, None}
             ELSE shown'[p] = shown[p]
  BY DEF Finishes
<1> SUFFICES ASSUME p \notin outrun' PROVE Fresh(p)'
  BY DEF Fresh
<1>2. /\ n \in Nat /\ DOMAIN calls[p] = 1..n /\ DOMAIN calls'[p] = 1..(n - 1)
      /\ k \in 1..n /\ Len(calls'[p]) = n - 1
  BY <1>1, Positions DEF Drops, FileTypeOK
<1>3. \A j \in 1..(n - 1) : calls'[p][j] = calls[p][Was(k, j)]
  BY <1>1 DEF Drops
<1>4. /\ \A j \in 1..(n - 1) :
           /\ j \in Live(p)' => Was(k, j) \in Live(p) \ {k}
           /\ j \in Lists(p)' => Was(k, j) \in Lists(p) \ {k}
      /\ \A m \in Lists(p) \ {k} :
           /\ n \notin Lists(p)' \/ p \in Sftps
           /\ calls[p][m].at = tab[p]
           /\ p \in Sftps \/ \A j \in Lists(p) : j <= m
           => Coming(p)'
  BY <1>1, <1>2, <1>3, Shifted
<1> HIDE DEF n
<1>5. Lists(p)' \subseteq 1..(n - 1) /\ Live(p)' \subseteq 1..(n - 1)
  BY <1>2 DEF Lists, Live
<1>6. n \notin Lists(p)'
  BY <1>2, <1>5
<1>7. ASSUME NEW j \in Live(p)', Due(p, calls'[p][j])
      PROVE  calls'[p][j].at = tab'[p]
  BY <1>1, <1>3, <1>4, <1>5, <1>7 DEF Fresh
<1>8. ASSUME NEW m \in Lists(p) \ {k}, calls[p][m].at = tab[p],
             p \in Sftps \/ \A j \in Lists(p) : j <= m
      PROVE  Coming(p)'
  BY <1>4, <1>6, <1>8
<1>9. Coming(p) \/ (Lists(p) = {} /\ shown[p] \in {tab[p], None})
  BY <1>1 DEF Fresh
<1>10. Coming(p)' \/ (Lists(p)' = {} /\ shown'[p] \in {tab'[p], None})
  <2>1. CASE k \notin Lists(p)
    <3>1. shown'[p] = shown[p]
      BY <1>1, <1>2, <2>1 DEF Lists, Live
    <3>2. Lists(p) = {} => Lists(p)' = {}
      BY <1>4, <1>5
    <3>3. Coming(p) => Coming(p)'
      BY <1>8, <2>1 DEF Coming
    <3> QED BY <1>1, <1>9, <3>1, <3>2, <3>3
  <2>2. CASE Lists(p) = {k}
    <3>1. Lists(p)' = {}
      BY <1>4, <1>5, <2>2
    <3>2. calls[p][k].at = tab[p]
      BY <1>9, <2>2 DEF Coming
    <3>3. shown'[p] \in {calls[p][k].at, None}
      BY <1>1, <2>2 DEF Lists, Live
    <3> QED BY <1>1, <3>1, <3>2, <3>3
  <2>3. CASE \E m \in Lists(p) : m # k /\ k \in Lists(p)
    <3>1. CASE p \in Sftps
      <4>1. PICK m \in Lists(p) : m # k
        BY <2>3
      <4>2. calls[p][m].at = tab[p]
        BY <1>1, <3>1, <4>1 DEF Fresh, Due, Lists
      <4> QED BY <1>8, <3>1, <4>1, <4>2
    <3>2. CASE p \notin Sftps
      <4>1. PICK m \in Lists(p) : calls[p][m].at = tab[p] /\ \A j \in Lists(p) : j <= m
        BY <1>9, <2>3, <3>2 DEF Coming
      <4>2. m # k
        <5>1. SUFFICES ASSUME m = k PROVE FALSE
          OBVIOUS
        <5>2. PICK i \in Lists(p) : i # k
          BY <2>3
        <5>3. i \in 1..(k - 1) /\ calls[p][i].op = "list"
          BY <1>2, <4>1, <5>1, <5>2 DEF Lists, Live
        <5>4. MayAnswer(p, k) /\ calls[p][k].op = "list" /\ p \in Locals
          BY <1>1, <2>3, <3>2 DEF Lists, Live, Panes
        <5> QED BY <5>3, <5>4 DEF MayAnswer, InOrder
      <4> QED BY <1>8, <4>1, <4>2
    <3> QED BY <3>1, <3>2
  <2> QED BY <2>1, <2>2, <2>3
<1> QED BY <1>7, <1>10 DEF Fresh

LEMMA FreshByGoOn ==
  ASSUME FileTypeOK, FileTypeOK', NEW p \in Panes, Fresh(p), GoesOn(p)
  PROVE  Fresh(p)'
<1> DEFINE n == Len(calls[p])
<1>1. PICK k \in DOMAIN calls[p], d \in FileCall :
        /\ Continues(p, k, d)
        /\ d.live = calls[p][k].live /\ d.at = calls[p][k].at
        /\ calls[p][k].op # "list" /\ Refreshes(calls[p][k]) = calls[p][k].live
        /\ tab'[p] = tab[p] /\ shown'[p] = shown[p]
        /\ p \notin outrun' => p \notin outrun
  BY DEF GoesOn
<1> SUFFICES ASSUME p \notin outrun' PROVE Fresh(p)'
  BY DEF Fresh
<1>2. /\ n \in Nat /\ DOMAIN calls[p] = 1..n /\ DOMAIN calls'[p] = 1..n
      /\ k \in 1..n /\ Len(calls'[p]) = n /\ n # 0
  BY <1>1, Positions DEF Continues, FileTypeOK
<1>3. (\A j \in 1..(n - 1) : calls'[p][j] = calls[p][Was(k, j)]) /\ calls'[p][n] = d
  BY <1>1 DEF Continues
<1>4. /\ \A j \in 1..(n - 1) :
           /\ j \in Live(p)' => Was(k, j) \in Live(p) \ {k}
           /\ j \in Lists(p)' => Was(k, j) \in Lists(p) \ {k}
      /\ \A m \in Lists(p) \ {k} :
           /\ n \notin Lists(p)' \/ p \in Sftps
           /\ calls[p][m].at = tab[p]
           /\ p \in Sftps \/ \A j \in Lists(p) : j <= m
           => Coming(p)'
  BY <1>1, <1>2, <1>3, Shifted
<1> HIDE DEF n
<1>5. ASSUME NEW j \in 1..(n - 1), calls'[p][j].live, Due(p, calls'[p][j])
      PROVE  calls'[p][j].at = tab'[p]
  <2>1. j \in Live(p)'
    BY <1>2, <1>5 DEF Live
  <2> QED BY <1>1, <1>3, <1>4, <1>5, <2>1 DEF Fresh
<1>6. d.live => d.at = tab'[p]
  BY <1>1, <1>2 DEF Fresh, Due, Live
<1>7. CASE d.live /\ d.op = "list"
  BY <1>2, <1>3, <1>5, <1>6, <1>7, FreshByList
<1>8. CASE ~(d.live /\ d.op = "list")
  <2>1. n \notin Lists(p)' /\ Lists(p)' \subseteq 1..n
    BY <1>2, <1>3, <1>8 DEF Lists, Live
  <2>2. Lists(p)' \subseteq 1..(n - 1)
    BY <1>2, <2>1
  <2>3. k \notin Lists(p)
    BY <1>1 DEF Lists
  <2>4. Lists(p) = {} => Lists(p)' = {}
    BY <1>4, <2>2
  <2>5. Coming(p) => Coming(p)'
    BY <1>4, <2>1, <2>3 DEF Coming
  <2>6. ASSUME NEW j \in Live(p)', Due(p, calls'[p][j])
        PROVE  calls'[p][j].at = tab'[p]
    <3>1. j \in 1..n /\ calls'[p][j].live
      BY <1>2 DEF Live
    <3>2. CASE j = n
      BY <1>3, <1>6, <3>1, <3>2
    <3>3. CASE j # n
      BY <1>2, <1>5, <2>6, <3>1, <3>3
    <3> QED BY <3>2, <3>3
  <2> QED BY <1>1, <2>4, <2>5, <2>6 DEF Fresh
<1> QED BY <1>7, <1>8

LEMMA FreshByRepoint ==
  ASSUME FileTypeOK, FileTypeOK', NEW p \in Panes, Repoints(p)
  PROVE  Fresh(p)'
<1> DEFINE n == Len(calls[p])
<1>1. PICK k \in DOMAIN calls[p], d \in FileCall :
        /\ Continues(p, k, d)
        /\ d.live /\ d.op = "list" /\ d.at = tab'[p]
        /\ p \notin outrun' => ~Outruns(p)
  BY DEF Repoints
<1> SUFFICES ASSUME p \notin outrun' PROVE Fresh(p)'
  BY DEF Fresh
<1>2. n \in Nat \ {0} /\ DOMAIN calls[p] = 1..n /\ k \in 1..n /\ Len(calls'[p]) = n
  BY <1>1, Positions DEF Continues, FileTypeOK
<1>3. (\A j \in 1..(n - 1) : calls'[p][j] = calls[p][Was(k, j)]) /\ calls'[p][n] = d
  BY <1>1 DEF Continues
<1> HIDE DEF n
<1>4. p \notin Sftps /\ \A j \in 1..n : ~Refreshes(calls[p][j])
  BY <1>1, <1>2 DEF Outruns, ToSet
<1>5. \A j \in 1..(n - 1) : Was(k, j) \in 1..n
  BY <1>2, Gap
<1>6. \A j \in 1..(n - 1) : ~Due(p, calls'[p][j])
  BY <1>3, <1>4, <1>5 DEF Due
<1>7. Len(calls'[p]) = n
  BY <1>2
<1> QED BY <1>1, <1>2, <1>3, <1>6, <1>7, FreshByList

LEMMA FreshByWipe ==
  ASSUME FileTypeOK, FileTypeOK', NEW p \in Panes, Wiped(p)
  PROVE  Fresh(p)'
<1> DEFINE n == Len(calls[p])
<1>1. n \in Nat /\ DOMAIN calls'[p] = 1..Len(calls'[p])
  BY Positions DEF FileTypeOK
<1>2. /\ \A j \in 1..n : ~calls'[p][j].live
      /\ shown'[p] = None
      /\ \/ Len(calls'[p]) = n
         \/ /\ Len(calls'[p]) = n + 1
            /\ calls'[p][n + 1] = Call("list", tab'[p])
  BY DEF Wiped
<1> HIDE DEF n
<1>3. CASE Len(calls'[p]) = n
  <2>1. Live(p)' = {}
    BY <1>1, <1>2, <1>3 DEF Live
  <2> QED BY <1>2, <2>1 DEF Fresh, Lists
<1>4. CASE Len(calls'[p]) = n + 1 /\ calls'[p][n + 1] = Call("list", tab'[p])
  <2>1. n + 1 \in Nat \ {0} /\ (n + 1) - 1 = n
    BY <1>1
  <2>2. /\ calls'[p][n + 1].live /\ calls'[p][n + 1].op = "list"
        /\ calls'[p][n + 1].at = tab'[p]
    BY <1>4 DEF Call
  <2> QED BY <1>2, <1>4, <2>1, <2>2, FreshByList
<1> QED BY <1>2, <1>3, <1>4

LEMMA FreshByRest ==
  ASSUME FileTypeOK, NEW p \in Panes, Fresh(p), Rests(p)
  PROVE  Fresh(p)'
<1> SUFFICES ASSUME p \notin outrun' PROVE Fresh(p)'
  BY DEF Fresh
<1>1. /\ calls'[p] = calls[p] /\ tab'[p] = tab[p]
      /\ (shown'[p] = None /\ (p \notin outrun \/ Idle(p))) \/ (shown'[p] = shown[p] /\ p \notin outrun)
  BY DEF Rests
<1>2. Live(p)' = Live(p) /\ Lists(p)' = Lists(p) /\ Coming(p)' = Coming(p)
  BY <1>1 DEF Live, Lists, Coming
<1>3. Idle(p) => Live(p) = {} /\ Lists(p) = {}
  BY DEF Idle, Lists
<1> QED BY <1>1, <1>2, <1>3 DEF Fresh, Due, Refreshes

LEMMA FreshKept ==
  ASSUME FileTypeOK, NEW p \in Panes, Good(p), NEW q \in Panes, Fresh(q)
  PROVE  Fresh(q)'
<1>1. CASE q # p
  <2>1. /\ tab'[q] = tab[q] /\ shown'[q] = shown[q] /\ calls'[q] = calls[q]
        /\ q \in outrun' <=> q \in outrun
    BY <1>1 DEF Good, Others
  <2> QED BY <2>1 DEF Fresh, Live, Lists, Coming, Due, Refreshes
<1>2. CASE q = p /\ Acts(p)
  <2>1. PICK c \in FileCall :
          /\ Adds(p, c) /\ c.live /\ c.at = tab[p]
          /\ shown'[p] = shown[p] /\ tab'[p] = tab[p]
          /\ p \notin outrun' => p \notin outrun
    BY <1>2 DEF Acts, Begins
  <2> QED BY <1>2, <2>1, FreshByAct DEF Good
<1> QED BY <1>1, <1>2, FreshByRelist, FreshByGo, FreshByRest, FreshByFinish, FreshByGoOn,
           FreshByRepoint, FreshByWipe DEF Good, Changes

-----------------------------------------------------------------------------
(* Together, an inductive invariant of the browser panes. *)

FileInv ==
  /\ FileTypeOK
  /\ \A p \in Panes : Gated(p) /\ Fresh(p)

LEMMA FilesInit == FileInit => FileInv
<1> SUFFICES ASSUME FileInit PROVE FileInv
  OBVIOUS
<1>1. FileTypeOK
  <2>1. tab \in [Panes -> Place \cup {None}]
    BY TopTyped DEF FileInit
  <2>2. calls \in [Panes -> Seq(FileCall)]
    BY DEF FileInit
  <2> QED BY <2>1, <2>2, FileBounds DEF FileInit, FileTypeOK
<1>2. ASSUME NEW p \in Panes PROVE Gated(p) /\ Fresh(p)
  <2>1. Live(p) = {} /\ shown[p] = None /\ ~loading[p]
    BY DEF FileInit, Live
  <2> QED BY <2>1 DEF Gated, Idle, Fresh, Lists
<1> QED BY <1>1, <1>2 DEF FileInv

LEMMA FilesNext ==
  ASSUME FileInv, FileStep \/ (Remounted(First) /\ UNCHANGED tab /\ moves' \in 0..Moves)
  PROVE  FileInv'
<1>1. PICK p \in Panes : Good(p)
  BY FilesChange DEF FileInv
<1>2. FileTypeOK'
  BY <1>1 DEF Good
<1>3. ASSUME NEW q \in Panes PROVE Gated(q)' /\ Fresh(q)'
  BY <1>1, GatedKept, FreshKept DEF FileInv
<1> QED BY <1>2, <1>3 DEF FileInv

LEMMA FilesRest ==
  ASSUME FileInv, UNCHANGED <<tab, shown, loading, calls, crossed, outrun>>, moves' \in 0..Moves
  PROVE  FileInv'
<1>1. ASSUME NEW p \in Panes
      PROVE  /\ Gated(p)' = Gated(p) /\ Fresh(p)' = Fresh(p)
  BY DEF Gated, Fresh, Idle, Live, Lists, Coming, Due, Refreshes
<1> QED BY <1>1 DEF FileInv, FileTypeOK

LEMMA FilesSafe == FileInv => ButtonsGateCalls /\ PanesShowTheirFolder
<1> SUFFICES ASSUME FileInv, NEW p \in Panes
             PROVE  Gated(p) /\ (Idle(p) => shown[p] \in {tab[p], None} \/ p \in outrun)
  BY DEF ButtonsGateCalls, PanesShowTheirFolder, Gated
<1>1. Idle(p) => Lists(p) = {}
  BY DEF Idle, Lists
<1> QED BY <1>1 DEF FileInv, Fresh, Coming

-----------------------------------------------------------------------------
(* The terminal panes.  Ids of sessions are given out in order, and a call  *)
(* that has not answered "ok" has made no session.                          *)
Ordered ==
  /\ \A k \in DOMAIN starts :
       /\ starts[k].id <= asked
       /\ starts[k].answer # "ok" => starts[k].id \notin sessions
       /\ \A j \in DOMAIN starts : j < k => starts[j].id < starts[k].id
  /\ \A s \in sessions : s <= asked
  /\ \A t \in Terminals : ref[t] # None =>
       ref[t] <= asked /\ \A k \in DOMAIN starts : ref[t] < starts[k].id

(* A start in flight is for the tab of its pane, or overtaken; of two of    *)
(* one pane the first is overtaken, and so is the session of the pane.      *)
Calling ==
  \A k \in DOMAIN starts :
    LET c == starts[k] IN
    /\ c.live => Open(c.pane) /\ (madeFor[c.id] = tabOf[c.pane] \/ c.id \in overtaken[c.pane])
    /\ ~c.live => c.id \in overtaken[c.pane]
    /\ c.live /\ ref[c.pane] # None => ref[c.pane] \in overtaken[c.pane]
    /\ \A j \in DOMAIN starts :
         j < k /\ c.live /\ starts[j].live /\ starts[j].pane = c.pane =>
           starts[j].id \in overtaken[c.pane]

(* A pane, its session and its listeners. *)
Attached(t) ==
  /\ ~Open(t) \/ status[t] = "connecting" => ref[t] = None /\ listener[t] = None
  /\ listener[t] = ref[t] \/ overtaken[t] # {}
  /\ \A r \in pending[t] \cup hears[t] : r.kept => r.sid = listener[t]
  /\ ref[t] # None => madeFor[ref[t]] = tabOf[t] \/ ref[t] \in overtaken[t]
  /\ status[t] = "ready" =>
       \/ listener[t] = ref[t] /\ \E r \in pending[t] \cup hears[t] : r.sid = ref[t] /\ r.kept
       \/ listener[t] \in overtaken[t]
  /\ status[t] = "closed" /\ ref[t] \in sessions \ ended =>
       (\E h \in hears[t] : ~h.kept) \/ overtaken[t] # {}

TerminalInv ==
  /\ TerminalTypeOK
  /\ Ordered
  /\ Calling
  /\ \A t \in Terminals : Attached(t)
  /\ OrphansOvertaken

LEMMA StartsTyped ==
  ASSUME TerminalTypeOK
  PROVE  /\ Len(starts) \in Nat /\ DOMAIN starts = 1..Len(starts)
         /\ \A k \in 1..Len(starts) :
              /\ starts[k] \in StartCall
              /\ starts[k].id \in Sessions /\ starts[k].pane \in Terminals
              /\ starts[k].live \in BOOLEAN /\ starts[k].answer \in {None, "ok", "failed"}
<1>1. starts \in Seq(StartCall)
  BY DEF TerminalTypeOK
<1>2. \A k \in 1..Len(starts) : starts[k] \in StartCall
  BY <1>1
<1> QED BY <1>1, <1>2 DEF StartCall

LEMMA SessionsAreSome == \A s \in Sessions : s # None /\ s \in Nat /\ s >= 1 /\ s <= Starts
BY StartsAssumption DEF Sessions

-----------------------------------------------------------------------------
(* The helpers of the actions.                                              *)

LEMMA StatusSet ==
  ASSUME TerminalTypeOK, NEW t \in Terminals, NEW sid \in Sessions \cup {None},
         NEW new \in {"idle", "connecting", "ready", "closed", "error"}, SetStatus(t, new, sid)
  PROVE  /\ status' \in [Terminals -> {"idle", "connecting", "ready", "closed", "error"}]
         /\ listener' \in [Terminals -> Sessions \cup {None}]
         /\ pending' \in [Terminals -> SUBSET Registration]
         /\ hears' \in [Terminals -> SUBSET Registration]
         /\ \A u \in Terminals \ {t} :
              /\ status'[u] = status[u] /\ listener'[u] = listener[u]
              /\ pending'[u] = pending[u] /\ hears'[u] = hears[u]
         /\ status'[t] = new
         /\ new = status[t] => /\ listener'[t] = listener[t]
                               /\ pending'[t] = pending[t] /\ hears'[t] = hears[t]
         /\ new # status[t] =>
              /\ listener'[t] = sid
              /\ \A r \in pending'[t] \cup hears'[t] : r.kept => r.sid = sid
              /\ sid # None => [sid |-> sid, kept |-> TRUE] \in pending'[t]
<1>1. /\ status' \in [Terminals -> {"idle", "connecting", "ready", "closed", "error"}]
      /\ status'[t] = new /\ \A u \in Terminals \ {t} : status'[u] = status[u]
  BY DEF TerminalTypeOK, SetStatus
<1>2. CASE new = status[t]
  BY <1>1, <1>2 DEF TerminalTypeOK, SetStatus
<1>3. CASE new # status[t]
  <2> DEFINE muted == {[r EXCEPT !.kept = FALSE] : r \in pending[t]}
             reg == IF sid = None THEN {} ELSE {[sid |-> sid, kept |-> TRUE]}
             quiet == {h \in hears[t] : ~h.kept}
  <2>1. pending[t] \subseteq Registration /\ hears[t] \subseteq Registration
    BY DEF TerminalTypeOK
  <2>2. muted \subseteq Registration /\ \A r \in muted : ~r.kept
    <3>1. \A r \in Registration :
            [r EXCEPT !.kept = FALSE] \in Registration /\ ~[r EXCEPT !.kept = FALSE].kept
      BY DEF Registration
    <3> QED BY <2>1, <3>1
  <2>3. reg \subseteq Registration /\ \A r \in reg : r.sid = sid
    <3>1. CASE sid = None
      BY <3>1
    <3>2. CASE sid # None
      <4>1. [sid |-> sid, kept |-> TRUE] \in Registration
        BY <3>2 DEF Registration
      <4> QED BY <3>2, <4>1
    <3> QED BY <3>1, <3>2
  <2>4. /\ pending' = [pending EXCEPT ![t] = muted \cup reg]
        /\ hears' = [hears EXCEPT ![t] = quiet]
        /\ listener' = [listener EXCEPT ![t] = sid]
    BY <1>3 DEF SetStatus
  <2>5. quiet \subseteq Registration /\ \A h \in quiet : ~h.kept
    BY <2>1
  <2>6. sid # None => [sid |-> sid, kept |-> TRUE] \in reg
    OBVIOUS
  <2> HIDE DEF muted, reg, quiet
  <2>7. pending'[t] = muted \cup reg /\ hears'[t] = quiet /\ listener'[t] = sid
    BY <2>4 DEF TerminalTypeOK
  <2>8. /\ pending' \in [Terminals -> SUBSET Registration]
        /\ hears' \in [Terminals -> SUBSET Registration]
        /\ listener' \in [Terminals -> Sessions \cup {None}]
    BY <2>2, <2>3, <2>4, <2>5 DEF TerminalTypeOK
  <2>9. \A u \in Terminals \ {t} :
          /\ listener'[u] = listener[u] /\ pending'[u] = pending[u] /\ hears'[u] = hears[u]
    BY <2>4 DEF TerminalTypeOK
  <2> QED BY <1>1, <1>3, <2>2, <2>3, <2>5, <2>6, <2>7, <2>8, <2>9
<1> QED BY <1>2, <1>3

LEMMA ClosingEnds ==
  ASSUME TerminalTypeOK, NEW s, Closing(s)
  PROVE  /\ sessions' \subseteq sessions /\ s \notin sessions'
         /\ sessions' \subseteq Sessions /\ ended' \subseteq Sessions /\ ended \subseteq ended'
BY DEF TerminalTypeOK, Closing, backend

(* Calls as they were, but for `live`. *)
Same(q) ==
  /\ q \in Seq(StartCall) /\ Len(q) = Len(starts)
  /\ \A k \in 1..Len(starts) :
       q[k].id = starts[k].id /\ q[k].pane = starts[k].pane /\ q[k].answer = starts[k].answer

LEMMA DeadCalls ==
  ASSUME TerminalTypeOK, NEW t \in Terminals
  PROVE  /\ Same(Dead(t))
         /\ \A k \in 1..Len(starts) :
              /\ Dead(t)[k].live \in BOOLEAN
              /\ Dead(t)[k].live <=> starts[k].live /\ starts[k].pane # t
<1>1. Len(starts) \in Nat /\ DOMAIN starts = 1..Len(starts)
  BY StartsTyped
<1> DEFINE e(k) == IF starts[k].pane = t THEN [starts[k] EXCEPT !.live = FALSE] ELSE starts[k]
<1>2. ASSUME NEW k \in 1..Len(starts)
      PROVE  /\ e(k) \in StartCall /\ e(k).id = starts[k].id /\ e(k).pane = starts[k].pane
             /\ e(k).answer = starts[k].answer
             /\ e(k).live \in BOOLEAN
             /\ e(k).live <=> starts[k].live /\ starts[k].pane # t
  <2>1. starts[k] \in StartCall
    BY StartsTyped
  <2> QED BY <2>1 DEF StartCall
<1>3. Dead(t) = [k \in 1..Len(starts) |-> e(k)]
  BY <1>1 DEF Dead
<1> HIDE DEF e
<1>4. Dead(t) \in Seq(StartCall) /\ Len(Dead(t)) = Len(starts)
  BY <1>1, <1>2, <1>3
<1> QED BY <1>2, <1>3, <1>4 DEF Same

LEMMA StartsSame == ASSUME TerminalTypeOK PROVE Same(starts)
BY DEF TerminalTypeOK, Same

(* A start is asked for. *)
LEMMA Asked ==
  ASSUME TerminalTypeOK, Ordered, NEW t \in Terminals, NEW folder \in Folder,
         NEW q, Same(q), Asking(t, q, folder),
         sessions' \subseteq sessions, \A u \in Terminals : ref'[u] \in {ref[u], None}
  PROVE  /\ starts' \in Seq(StartCall) /\ asked' \in 0..Starts
         /\ madeFor' \in [Sessions -> Folder \cup {None}]
         /\ Len(starts') = Len(starts) + 1
         /\ \A k \in 1..Len(starts) : starts'[k] = q[k]
         /\ LET c == starts'[Len(starts) + 1] IN
              /\ c.pane = t /\ c.live /\ c.id = asked + 1 /\ c.id \in Sessions
              /\ madeFor'[c.id] = folder
         /\ \A s \in Sessions : s <= asked => madeFor'[s] = madeFor[s]
         /\ Ordered'
<1> DEFINE n == Len(starts)
           c == [id |-> asked + 1, pane |-> t, live |-> TRUE, answer |-> None]
<1>1. /\ asked < Starts /\ asked' = asked + 1 /\ starts' = Append(q, c)
      /\ madeFor' = [madeFor EXCEPT ![asked + 1] = folder]
  BY DEF Asking
<1>2. /\ asked \in Nat /\ Starts \in Nat /\ asked + 1 \in Sessions /\ n \in Nat
      /\ asked' \in 0..Starts
  BY <1>1, StartsAssumption, StartsTyped DEF TerminalTypeOK, Sessions
<1>3. c \in StartCall
  BY <1>2 DEF StartCall
<1>4. /\ q \in Seq(StartCall) /\ Len(q) = n
      /\ \A k \in 1..n : q[k].id = starts[k].id /\ q[k].answer = starts[k].answer
  BY DEF Same
<1>5. c.pane = t /\ c.live /\ c.id = asked + 1 /\ c.answer = None
  OBVIOUS
<1> HIDE DEF n, c
<1>6. /\ starts' \in Seq(StartCall) /\ Len(starts') = n + 1 /\ DOMAIN starts' = 1..(n + 1)
      /\ \A k \in 1..n : starts'[k] = q[k]
      /\ starts'[n + 1] = c
  BY <1>1, <1>2, <1>3, <1>4
<1>7. /\ madeFor' \in [Sessions -> Folder \cup {None}] /\ madeFor'[asked + 1] = folder
      /\ \A s \in Sessions : s <= asked => madeFor'[s] = madeFor[s]
  BY <1>1, <1>2 DEF TerminalTypeOK, Sessions
<1>8. DOMAIN starts = 1..n /\ sessions \subseteq Nat
      /\ (\A k \in 1..n : starts[k].id \in Nat)
      /\ \A u \in Terminals : ref[u] # None => ref[u] \in Nat
  BY StartsTyped, StartsAssumption DEF n, TerminalTypeOK, Sessions
<1>9. Ordered'
  <2>1. ASSUME NEW k \in 1..(n + 1)
        PROVE  /\ starts'[k].id <= asked'
               /\ starts'[k].answer # "ok" => starts'[k].id \notin sessions'
               /\ \A j \in 1..(n + 1) : j < k => starts'[j].id < starts'[k].id
    <3>1. CASE k \in 1..n
      <4>1. starts'[k].id = starts[k].id /\ starts'[k].answer = starts[k].answer
        BY <1>4, <1>6, <3>1
      <4>2. ASSUME NEW j \in 1..(n + 1), j < k PROVE starts'[j].id < starts'[k].id
        <5>1. j \in 1..n
          BY <1>2, <3>1, <4>2
        <5>2. starts'[j].id = starts[j].id
          BY <1>4, <1>6, <5>1
        <5>3. starts[j].id < starts[k].id
          BY <1>8, <3>1, <4>2, <5>1 DEF Ordered
        <5> QED BY <4>1, <5>2, <5>3
      <4>3. starts[k].id <= asked /\ (starts[k].answer # "ok" => starts[k].id \notin sessions)
        BY <1>8, <3>1 DEF Ordered
      <4>4. starts[k].id <= asked'
        BY <1>1, <1>2, <1>8, <3>1, <4>3
      <4>5. starts[k].answer # "ok" => starts[k].id \notin sessions'
        BY <4>3
      <4> QED BY <4>1, <4>2, <4>4, <4>5
    <3>2. CASE k = n + 1
      <4>1. starts'[k].id = asked + 1
        BY <1>5, <1>6, <3>2
      <4>2. asked + 1 \notin sessions
        BY <1>2, <1>8 DEF Ordered
      <4>3. ASSUME NEW j \in 1..(n + 1), j < k PROVE starts'[j].id < starts'[k].id
        <5>1. j \in 1..n
          BY <1>2, <3>2, <4>3
        <5>2. starts'[j].id = starts[j].id /\ starts[j].id <= asked
          BY <1>4, <1>6, <1>8, <5>1 DEF Ordered
        <5> QED BY <1>2, <1>8, <4>1, <5>1, <5>2
      <4>4. starts'[k].id <= asked'
        BY <1>1, <1>2, <4>1
      <4>5. starts'[k].id \notin sessions'
        BY <4>1, <4>2
      <4> QED BY <4>3, <4>4, <4>5
    <3>3. k \in 1..n \/ k = n + 1
      BY <1>2
    <3> QED BY <3>1, <3>2, <3>3
  <2>2. \A s \in sessions' : s <= asked'
    BY <1>1, <1>2, <1>8 DEF Ordered
  <2>3. ASSUME NEW u \in Terminals, ref'[u] # None
        PROVE  ref'[u] <= asked' /\ \A k \in 1..(n + 1) : ref'[u] < starts'[k].id
    <3>1. ref'[u] = ref[u] /\ ref[u] \in Nat
      BY <1>8, <2>3
    <3>2. ref[u] <= asked /\ \A k \in 1..n : ref[u] < starts[k].id
      BY <1>8, <2>3, <3>1 DEF Ordered
    <3>3. ASSUME NEW k \in 1..(n + 1) PROVE ref[u] < starts'[k].id
      <4>1. CASE k \in 1..n
        BY <1>4, <1>6, <3>2, <4>1
      <4>2. CASE k = n + 1
        BY <1>2, <1>5, <1>6, <3>1, <3>2, <4>2
      <4> QED BY <1>2, <4>1, <4>2
    <3>4. ref[u] <= asked'
      BY <1>1, <1>2, <3>1, <3>2
    <3> QED BY <3>1, <3>3, <3>4
  <2> QED BY <1>6, <2>1, <2>2, <2>3 DEF Ordered
<1> QED BY <1>2, <1>5, <1>6, <1>7, <1>9 DEF n

(* The calls after a pane is opened, reconnected, moved or closed: those of *)
(* the pane are all overtaken, the others are as they were.                 *)
LEMMA Calls ==
  ASSUME TerminalTypeOK, Calling, NEW t \in Terminals, NEW q, Same(q),
         \A k \in 1..Len(starts) :
           /\ q[k].live => starts[k].live
           /\ starts[k].pane # t => q[k].live = starts[k].live
           /\ starts[k].pane = t => starts[k].id \in overtaken'[t] /\ (q[k].live => tabOf'[t] # None),
         \A u \in Terminals \ {t} :
           tabOf'[u] = tabOf[u] /\ ref'[u] = ref[u] /\ overtaken'[u] = overtaken[u],
         \A k \in 1..Len(starts) : madeFor'[starts[k].id] = madeFor[starts[k].id],
         ref'[t] = None,
         DOMAIN starts' = 1..Len(starts')
  PROVE  /\ starts' = q => Calling'
         /\ /\ Len(starts') = Len(starts) + 1
            /\ \A k \in 1..Len(starts) : starts'[k] = q[k]
            /\ LET c == starts'[Len(starts) + 1] IN
                 /\ c.pane = t /\ c.live /\ tabOf'[t] # None
                 /\ madeFor'[c.id] = tabOf'[t]
            => Calling'
<1> DEFINE n == Len(starts)
<1>1. n \in Nat /\ DOMAIN starts = 1..n /\ \A k \in 1..n : starts[k].pane \in Terminals
  BY StartsTyped
<1>2. /\ Len(q) = n
      /\ \A k \in 1..n : q[k].id = starts[k].id /\ q[k].pane = starts[k].pane
  BY DEF Same
<1> HIDE DEF n
<1>3. ASSUME NEW k \in 1..n
      PROVE  LET c == q[k] IN
             /\ c.live => tabOf'[c.pane] # None /\ (madeFor'[c.id] = tabOf'[c.pane] \/ c.id \in overtaken'[c.pane])
             /\ ~c.live => c.id \in overtaken'[c.pane]
             /\ c.live /\ ref'[c.pane] # None => ref'[c.pane] \in overtaken'[c.pane]
             /\ \A j \in 1..n :
                  j < k /\ c.live /\ q[j].live /\ q[j].pane = c.pane =>
                    q[j].id \in overtaken'[c.pane]
  <2>1. CASE starts[k].pane = t
    BY <1>1, <1>2, <2>1 DEF n
  <2>2. CASE starts[k].pane # t
    <3>1. /\ q[k].live = starts[k].live /\ starts[k].pane \in Terminals \ {t}
          /\ q[k].id = starts[k].id /\ q[k].pane = starts[k].pane
      BY <1>1, <1>2, <2>2 DEF n
    <3>2. /\ tabOf'[starts[k].pane] = tabOf[starts[k].pane]
          /\ ref'[starts[k].pane] = ref[starts[k].pane]
          /\ overtaken'[starts[k].pane] = overtaken[starts[k].pane]
          /\ madeFor'[starts[k].id] = madeFor[starts[k].id]
      BY <3>1 DEF n
    <3>3. \A j \in 1..n : q[j].live => starts[j].live
      BY DEF n
    <3>4. LET c == starts[k] IN
          /\ c.live => Open(c.pane) /\ (madeFor[c.id] = tabOf[c.pane] \/ c.id \in overtaken[c.pane])
          /\ ~c.live => c.id \in overtaken[c.pane]
          /\ c.live /\ ref[c.pane] # None => ref[c.pane] \in overtaken[c.pane]
          /\ \A j \in 1..n :
               j < k /\ c.live /\ starts[j].live /\ starts[j].pane = c.pane =>
                 starts[j].id \in overtaken[c.pane]
      BY <1>1 DEF Calling
    <3>5. ASSUME NEW j \in 1..n, j < k, q[k].live, q[j].live, q[j].pane = q[k].pane
          PROVE  q[j].id \in overtaken'[q[k].pane]
      <4>1. starts[j].live /\ starts[j].pane = starts[k].pane /\ starts[k].live
        BY <1>2, <3>1, <3>3, <3>5
      <4>2. starts[j].id \in overtaken[starts[k].pane]
        BY <3>4, <3>5, <4>1
      <4> QED BY <1>2, <3>1, <3>2, <4>2
    <3> QED BY <3>1, <3>2, <3>4, <3>5 DEF Open
  <2> QED BY <2>1, <2>2
<1>4. CASE starts' = q
  BY <1>2, <1>3, <1>4 DEF Calling, Open
<1>5. ASSUME Len(starts') = n + 1, \A k \in 1..n : starts'[k] = q[k],
             starts'[n + 1].pane = t, starts'[n + 1].live, tabOf'[t] # None,
             madeFor'[starts'[n + 1].id] = tabOf'[t]
      PROVE  Calling'
  <2>1. DOMAIN starts' = 1..(n + 1)
    BY <1>5
  <2>2. ASSUME NEW k \in 1..(n + 1)
        PROVE  LET c == starts'[k] IN
               /\ c.live => tabOf'[c.pane] # None /\ (madeFor'[c.id] = tabOf'[c.pane] \/ c.id \in overtaken'[c.pane])
               /\ ~c.live => c.id \in overtaken'[c.pane]
               /\ c.live /\ ref'[c.pane] # None => ref'[c.pane] \in overtaken'[c.pane]
               /\ \A j \in 1..(n + 1) :
                    j < k /\ c.live /\ starts'[j].live /\ starts'[j].pane = c.pane =>
                      starts'[j].id \in overtaken'[c.pane]
    <3>1. CASE k \in 1..n
      <4>1. \A j \in 1..(n + 1) : j < k => j \in 1..n
        BY <1>1, <3>1
      <4>2. starts'[k] = q[k] /\ \A j \in 1..(n + 1) : j < k => starts'[j] = q[j]
        BY <1>5, <3>1, <4>1
      <4> QED BY <1>3, <3>1, <4>1, <4>2
    <3>2. CASE k = n + 1
      <4>1. ASSUME NEW j \in 1..(n + 1), j < k, starts'[j].pane = t
            PROVE  starts'[j].id \in overtaken'[t]
        <5>1. j \in 1..n
          BY <1>1, <3>2, <4>1
        <5>2. starts'[j].id = starts[j].id /\ starts[j].pane = t
          BY <1>2, <1>5, <4>1, <5>1
        <5> QED BY <5>1, <5>2 DEF n
      <4>2. starts'[k].pane = t /\ starts'[k].live /\ ref'[t] = None
        BY <1>5, <3>2
      <4>3. madeFor'[starts'[k].id] = tabOf'[t] /\ tabOf'[t] # None
        BY <1>5, <3>2
      <4> QED BY <4>1, <4>2, <4>3
    <3>3. k \in 1..n \/ k = n + 1
      BY <1>1
    <3> QED BY <3>1, <3>2, <3>3
  <2> QED BY <2>1, <2>2 DEF Calling, Open
<1> QED BY <1>4, <1>5 DEF n

(* A pane to which nothing happens. *)
LEMMA Aside ==
  ASSUME TerminalTypeOK, Ordered, NEW t \in Terminals, Attached(t),
         tabOf'[t] = tabOf[t], status'[t] = status[t], ref'[t] = ref[t],
         listener'[t] = listener[t],
         pending'[t] \cup hears'[t] = pending[t] \cup hears[t], hears[t] \subseteq hears'[t],
         overtaken[t] \subseteq overtaken'[t],
         ref[t] \in sessions' \ ended' => ref[t] \in sessions \ ended,
         \A s \in Sessions : s <= asked => madeFor'[s] = madeFor[s]
  PROVE  Attached(t)'
<1>1. ref[t] # None => ref[t] \in Sessions /\ ref[t] <= asked
  BY DEF TerminalTypeOK, Ordered
<1>2. ref[t] # None => madeFor'[ref[t]] = madeFor[ref[t]]
  BY <1>1
<1> QED BY <1>2 DEF Attached, Open

(* Sessions that keep running keep what holds them. *)
LEMMA Held ==
  ASSUME OrphansOvertaken,
         sessions' \ ended' \subseteq sessions \ ended,
         \A t \in Terminals :
           /\ overtaken[t] \subseteq overtaken'[t]
           /\ Open(t) /\ ref[t] \in sessions' \ ended' => Open(t)' /\ ref'[t] = ref[t],
         \A k \in DOMAIN starts : k \in DOMAIN starts' /\ starts'[k].id = starts[k].id
  PROVE  OrphansOvertaken'
<1> SUFFICES ASSUME NEW s \in sessions' \ ended'
             PROVE  \/ \E t \in Terminals : Open(t)' /\ ref'[t] = s
                    \/ \E k \in DOMAIN starts' : starts'[k].id = s
                    \/ \E t \in Terminals : s \in overtaken'[t]
  BY DEF OrphansOvertaken
<1>1. s \in sessions \ ended
  OBVIOUS
<1>2. CASE \E t \in Terminals : Open(t) /\ ref[t] = s
  BY <1>2
<1>3. CASE \E k \in DOMAIN starts : starts[k].id = s
  BY <1>3
<1>4. CASE \E t \in Terminals : s \in overtaken[t]
  BY <1>4
<1> QED BY <1>1, <1>2, <1>3, <1>4 DEF OrphansOvertaken

-----------------------------------------------------------------------------
(* Each action keeps the invariant.                                         *)

LEMMA MountStep ==
  ASSUME TerminalInv, NEW t \in Terminals, NEW folder \in Folder, Mount(t, folder)
  PROVE  TerminalInv'
<1>1. TerminalTypeOK /\ Ordered /\ Calling /\ Attached(t) /\ OrphansOvertaken
  BY DEF TerminalInv
<1>2. /\ ~Open(t) /\ Asking(t, starts, folder)
      /\ UNCHANGED <<ref, listener, pending, hears, sessions, ended, overtaken>>
      /\ tabOf' = [tabOf EXCEPT ![t] = folder] /\ status' = [status EXCEPT ![t] = "connecting"]
  BY DEF Mount, backend
<1>3. /\ starts' \in Seq(StartCall) /\ asked' \in 0..Starts
      /\ madeFor' \in [Sessions -> Folder \cup {None}]
      /\ Len(starts') = Len(starts) + 1
      /\ \A k \in 1..Len(starts) : starts'[k] = starts[k]
      /\ LET c == starts'[Len(starts) + 1] IN
           c.pane = t /\ c.live /\ c.id = asked + 1 /\ c.id \in Sessions /\ madeFor'[c.id] = folder
      /\ \A s \in Sessions : s <= asked => madeFor'[s] = madeFor[s]
      /\ Ordered'
  BY <1>1, <1>2, StartsSame, Asked
<1>4. /\ tabOf' \in [Terminals -> Folder \cup {None}] /\ tabOf'[t] = folder /\ folder # None
      /\ \A u \in Terminals \ {t} : tabOf'[u] = tabOf[u] /\ status'[u] = status[u]
      /\ status' \in [Terminals -> {"idle", "connecting", "ready", "closed", "error"}]
      /\ status'[t] = "connecting"
  BY <1>1, <1>2, NoneAssumption DEF TerminalTypeOK
<1>5. TerminalTypeOK'
  BY <1>1, <1>2, <1>3, <1>4 DEF TerminalTypeOK
<1>6. ref[t] = None /\ listener[t] = None
  BY <1>1, <1>2 DEF Attached
<1>7. /\ Len(starts) \in Nat /\ DOMAIN starts = 1..Len(starts) /\ DOMAIN starts' = 1..Len(starts')
      /\ \A k \in 1..Len(starts) : starts[k].id \in Sessions /\ starts[k].id <= asked
  BY <1>1, <1>3, StartsTyped DEF Ordered
<1>8. Calling'
  <2>1. ASSUME NEW k \in 1..Len(starts), starts[k].pane = t
        PROVE  starts[k].id \in overtaken'[t] /\ ~starts[k].live
    BY <1>1, <1>2, <1>7, <2>1 DEF Calling
  <2>2. \A k \in 1..Len(starts) : madeFor'[starts[k].id] = madeFor[starts[k].id]
    BY <1>3, <1>7
  <2>3. \A k \in 1..Len(starts) :
           /\ starts[k].live => starts[k].live
           /\ starts[k].pane # t => starts[k].live = starts[k].live
           /\ starts[k].pane = t =>
                starts[k].id \in overtaken'[t] /\ (starts[k].live => tabOf'[t] # None)
    BY <2>1
  <2>4. \A u \in Terminals \ {t} :
           tabOf'[u] = tabOf[u] /\ ref'[u] = ref[u] /\ overtaken'[u] = overtaken[u]
    BY <1>2, <1>4
  <2>5. ref'[t] = None
    BY <1>2, <1>6
  <2>6. LET c == starts'[Len(starts) + 1] IN
          c.pane = t /\ c.live /\ tabOf'[t] # None /\ madeFor'[c.id] = tabOf'[t]
    BY <1>3, <1>4
  <2> QED BY <1>1, <1>3, <1>7, <2>2, <2>3, <2>4, <2>5, <2>6, StartsSame, Calls
<1>9. ASSUME NEW u \in Terminals PROVE Attached(u)'
  <2>1. CASE u = t
    BY <1>1, <1>2, <1>4, <1>6, <2>1 DEF Attached, Open
  <2>2. CASE u # t
    BY <1>1, <1>2, <1>3, <1>4, <2>2, Aside DEF TerminalInv
  <2> QED BY <2>1, <2>2
<1>10. OrphansOvertaken'
  <2>1. \A u \in Terminals : Open(u) => Open(u)'
    BY <1>2, <1>4 DEF Open
  <2>2. \A k \in DOMAIN starts : k \in DOMAIN starts' /\ starts'[k].id = starts[k].id
    BY <1>3, <1>7
  <2> QED BY <1>1, <1>2, <2>1, <2>2, Held
<1> QED BY <1>3, <1>5, <1>8, <1>9, <1>10 DEF TerminalInv

(* What was in flight when a pane is cleaned up is overtaken. *)
LEMMA Overtakes ==
  ASSUME TerminalTypeOK, Calling, NEW t \in Terminals,
         overtaken' = [overtaken EXCEPT ![t] = @ \cup InFlight(t)]
  PROVE  /\ overtaken' \in [Terminals -> SUBSET Sessions]
         /\ \A u \in Terminals : overtaken[u] \subseteq overtaken'[u]
         /\ \A u \in Terminals \ {t} : overtaken'[u] = overtaken[u]
         /\ \A k \in 1..Len(starts) : starts[k].pane = t => starts[k].id \in overtaken'[t]
<1>1. DOMAIN starts = 1..Len(starts) /\ \A k \in 1..Len(starts) : starts[k].id \in Sessions
  BY StartsTyped
<1>2. InFlight(t) \subseteq Sessions
  BY <1>1 DEF InFlight
<1>3. /\ overtaken'[t] = overtaken[t] \cup InFlight(t)
      /\ overtaken' \in [Terminals -> SUBSET Sessions]
      /\ \A u \in Terminals \ {t} : overtaken'[u] = overtaken[u]
  BY <1>2 DEF TerminalTypeOK
<1>4. ASSUME NEW k \in 1..Len(starts), starts[k].pane = t PROVE starts[k].id \in overtaken'[t]
  <2>1. CASE starts[k].live
    BY <1>1, <1>3, <1>4, <2>1 DEF InFlight
  <2>2. CASE ~starts[k].live
    BY <1>1, <1>3, <1>4, <2>2 DEF Calling
  <2> QED BY <2>1, <2>2
<1> QED BY <1>3, <1>4

LEMMA ReconnectStep ==
  ASSUME TerminalInv, NEW t \in Terminals, NEW folder \in Folder, Reconnect(t, folder)
  PROVE  TerminalInv'
<1>1. TerminalTypeOK /\ Ordered /\ Calling /\ Attached(t) /\ OrphansOvertaken
  BY DEF TerminalInv
<1>2. /\ Open(t) /\ Asking(t, starts, folder) /\ Closing(ref[t])
      /\ tabOf' = [tabOf EXCEPT ![t] = folder] /\ ref' = [ref EXCEPT ![t] = None]
      /\ overtaken' = [overtaken EXCEPT ![t] = @ \cup InFlight(t)]
      /\ SetStatus(t, "connecting", None)
  BY DEF Reconnect
<1>3. /\ ref' \in [Terminals -> Sessions \cup {None}] /\ ref'[t] = None
      /\ \A u \in Terminals \ {t} : ref'[u] = ref[u]
  BY <1>1, <1>2 DEF TerminalTypeOK
<1>4. /\ sessions' \subseteq sessions /\ ref[t] \notin sessions'
      /\ sessions' \subseteq Sessions /\ ended' \subseteq Sessions /\ ended \subseteq ended'
  BY <1>1, <1>2, ClosingEnds
<1>5. /\ starts' \in Seq(StartCall) /\ asked' \in 0..Starts
      /\ madeFor' \in [Sessions -> Folder \cup {None}]
      /\ Len(starts') = Len(starts) + 1
      /\ \A k \in 1..Len(starts) : starts'[k] = starts[k]
      /\ LET c == starts'[Len(starts) + 1] IN
           c.pane = t /\ c.live /\ c.id = asked + 1 /\ c.id \in Sessions /\ madeFor'[c.id] = folder
      /\ \A s \in Sessions : s <= asked => madeFor'[s] = madeFor[s]
      /\ Ordered'
  <2>1. \A u \in Terminals : ref'[u] \in {ref[u], None}
    BY <1>3
  <2> QED BY <1>1, <1>2, <1>4, <2>1, StartsSame, Asked
<1>6. /\ tabOf' \in [Terminals -> Folder \cup {None}] /\ tabOf'[t] = folder /\ folder # None
      /\ \A u \in Terminals \ {t} : tabOf'[u] = tabOf[u]
  BY <1>1, <1>2, NoneAssumption DEF TerminalTypeOK
<1>7. /\ status' \in [Terminals -> {"idle", "connecting", "ready", "closed", "error"}]
      /\ listener' \in [Terminals -> Sessions \cup {None}]
      /\ pending' \in [Terminals -> SUBSET Registration]
      /\ hears' \in [Terminals -> SUBSET Registration]
      /\ \A u \in Terminals \ {t} :
           /\ status'[u] = status[u] /\ listener'[u] = listener[u]
           /\ pending'[u] = pending[u] /\ hears'[u] = hears[u]
      /\ status'[t] = "connecting"
      /\ "connecting" = status[t] => /\ listener'[t] = listener[t]
                                     /\ pending'[t] = pending[t] /\ hears'[t] = hears[t]
      /\ "connecting" # status[t] =>
           /\ listener'[t] = None
           /\ \A r \in pending'[t] \cup hears'[t] : r.kept => r.sid = None
  BY <1>1, <1>2, StatusSet
<1>8. /\ overtaken' \in [Terminals -> SUBSET Sessions]
      /\ \A u \in Terminals : overtaken[u] \subseteq overtaken'[u]
      /\ \A u \in Terminals \ {t} : overtaken'[u] = overtaken[u]
      /\ \A k \in 1..Len(starts) : starts[k].pane = t => starts[k].id \in overtaken'[t]
  BY <1>1, <1>2, Overtakes
<1>9. TerminalTypeOK'
  BY <1>3, <1>4, <1>5, <1>6, <1>7, <1>8 DEF TerminalTypeOK
<1>10. /\ Len(starts) \in Nat /\ DOMAIN starts = 1..Len(starts) /\ DOMAIN starts' = 1..Len(starts')
       /\ \A k \in 1..Len(starts) : starts[k].id \in Sessions /\ starts[k].id <= asked
  BY <1>1, <1>5, StartsTyped DEF Ordered
<1>11. Calling'
  <2>1. \A k \in 1..Len(starts) : madeFor'[starts[k].id] = madeFor[starts[k].id]
    BY <1>5, <1>10
  <2>2. \A k \in 1..Len(starts) :
           /\ starts[k].live => starts[k].live
           /\ starts[k].pane # t => starts[k].live = starts[k].live
           /\ starts[k].pane = t =>
                starts[k].id \in overtaken'[t] /\ (starts[k].live => tabOf'[t] # None)
    BY <1>6, <1>8
  <2>3. \A u \in Terminals \ {t} :
           tabOf'[u] = tabOf[u] /\ ref'[u] = ref[u] /\ overtaken'[u] = overtaken[u]
    BY <1>3, <1>6, <1>8
  <2>4. LET c == starts'[Len(starts) + 1] IN
          c.pane = t /\ c.live /\ tabOf'[t] # None /\ madeFor'[c.id] = tabOf'[t]
    BY <1>5, <1>6
  <2> QED BY <1>1, <1>3, <1>5, <1>10, <2>1, <2>2, <2>3, <2>4, StartsSame, Calls
<1>12. ASSUME NEW u \in Terminals PROVE Attached(u)'
  <2>1. CASE u = t
    <3>1. listener'[t] = None /\ \A r \in pending'[t] \cup hears'[t] : r.kept => r.sid = None
      BY <1>1, <1>7 DEF Attached
    <3> QED BY <1>3, <1>6, <1>7, <2>1, <3>1 DEF Attached, Open
  <2>2. CASE u # t
    <3>1. ref[u] \in sessions' \ ended' => ref[u] \in sessions \ ended
      BY <1>4
    <3> QED BY <1>1, <1>3, <1>5, <1>6, <1>7, <1>8, <2>2, <3>1, Aside DEF TerminalInv
  <2> QED BY <2>1, <2>2
<1>13. OrphansOvertaken'
  <2>1. sessions' \ ended' \subseteq sessions \ ended
    BY <1>4
  <2>2. ASSUME NEW u \in Terminals, Open(u), ref[u] \in sessions' \ ended'
        PROVE  Open(u)' /\ ref'[u] = ref[u]
    <3>1. u # t
      BY <1>4, <2>2
    <3> QED BY <1>3, <1>6, <2>2, <3>1 DEF Open
  <2>3. \A k \in DOMAIN starts : k \in DOMAIN starts' /\ starts'[k].id = starts[k].id
    BY <1>5, <1>10
  <2> QED BY <1>1, <1>8, <2>1, <2>2, <2>3, Held
<1> QED BY <1>5, <1>9, <1>11, <1>12, <1>13 DEF TerminalInv

(* What a component does on its way out. *)
LEMMA Cleaned ==
  ASSUME TerminalTypeOK, Ordered, Calling, NEW t \in Terminals, Cleanup(t)
  PROVE  /\ ref' \in [Terminals -> Sessions \cup {None}]
         /\ listener' \in [Terminals -> Sessions \cup {None}]
         /\ pending' \in [Terminals -> SUBSET Registration]
         /\ hears' \in [Terminals -> SUBSET Registration]
         /\ ref'[t] = None /\ listener'[t] = None /\ pending'[t] = {} /\ hears'[t] = {}
         /\ \A u \in Terminals \ {t} :
              /\ ref'[u] = ref[u] /\ listener'[u] = listener[u]
              /\ pending'[u] = pending[u] /\ hears'[u] = hears[u]
         /\ sessions' \subseteq sessions /\ ref[t] \notin sessions'
         /\ sessions' \subseteq Sessions /\ ended' \subseteq Sessions /\ ended \subseteq ended'
         /\ overtaken' \in [Terminals -> SUBSET Sessions]
         /\ \A u \in Terminals : overtaken[u] \subseteq overtaken'[u]
         /\ \A u \in Terminals \ {t} : overtaken'[u] = overtaken[u]
         /\ \A k \in 1..Len(starts) : starts[k].pane = t => starts[k].id \in overtaken'[t]
<1>1. /\ ref' = [ref EXCEPT ![t] = None] /\ listener' = [listener EXCEPT ![t] = None]
      /\ pending' = [pending EXCEPT ![t] = {}] /\ hears' = [hears EXCEPT ![t] = {}]
      /\ Closing(ref[t])
      /\ overtaken' = [overtaken EXCEPT ![t] = @ \cup InFlight(t)]
  BY DEF Cleanup
<1>2. /\ sessions' \subseteq sessions /\ ref[t] \notin sessions'
      /\ sessions' \subseteq Sessions /\ ended' \subseteq Sessions /\ ended \subseteq ended'
  BY <1>1, ClosingEnds
<1>3. /\ overtaken' \in [Terminals -> SUBSET Sessions]
      /\ \A u \in Terminals : overtaken[u] \subseteq overtaken'[u]
      /\ \A u \in Terminals \ {t} : overtaken'[u] = overtaken[u]
      /\ \A k \in 1..Len(starts) : starts[k].pane = t => starts[k].id \in overtaken'[t]
  BY <1>1, Overtakes
<1> QED BY <1>1, <1>2, <1>3 DEF TerminalTypeOK

(* A pane is cleaned up, and its component goes or is replaced. *)
LEMMA CleanupStep ==
  ASSUME TerminalInv, NEW t \in Terminals, Cleanup(t),
         TerminalTypeOK', Ordered', Calling',
         status'[t] \in {"idle", "connecting"},
         \A u \in Terminals \ {t} : tabOf'[u] = tabOf[u] /\ status'[u] = status[u],
         \A s \in Sessions : s <= asked => madeFor'[s] = madeFor[s],
         \A k \in 1..Len(starts) : k \in DOMAIN starts' /\ starts'[k].id = starts[k].id
  PROVE  TerminalInv'
<1>1. TerminalTypeOK /\ Ordered /\ Calling /\ OrphansOvertaken
  BY DEF TerminalInv
<1>2. /\ ref'[t] = None /\ listener'[t] = None /\ pending'[t] = {} /\ hears'[t] = {}
      /\ \A u \in Terminals \ {t} :
           /\ ref'[u] = ref[u] /\ listener'[u] = listener[u]
           /\ pending'[u] = pending[u] /\ hears'[u] = hears[u]
      /\ sessions' \subseteq sessions /\ ref[t] \notin sessions' /\ ended \subseteq ended'
      /\ \A u \in Terminals : overtaken[u] \subseteq overtaken'[u]
  BY <1>1, Cleaned
<1>3. DOMAIN starts = 1..Len(starts)
  BY <1>1, StartsTyped
<1>4. ASSUME NEW u \in Terminals PROVE Attached(u)'
  <2>1. CASE u = t
    BY <1>2, <2>1 DEF Attached
  <2>2. CASE u # t
    <3>1. ref[u] \in sessions' \ ended' => ref[u] \in sessions \ ended
      BY <1>2
    <3> QED BY <1>1, <1>2, <2>2, <3>1, Aside DEF TerminalInv
  <2> QED BY <2>1, <2>2
<1>5. OrphansOvertaken'
  <2>1. sessions' \ ended' \subseteq sessions \ ended
    BY <1>2
  <2>2. ASSUME NEW u \in Terminals, Open(u), ref[u] \in sessions' \ ended'
        PROVE  Open(u)' /\ ref'[u] = ref[u]
    <3>1. u # t
      BY <1>2, <2>2
    <3> QED BY <1>2, <2>2, <3>1 DEF Open
  <2>3. \A k \in DOMAIN starts : k \in DOMAIN starts' /\ starts'[k].id = starts[k].id
    BY <1>3
  <2> QED BY <1>1, <1>2, <2>1, <2>2, <2>3, Held
<1> QED BY <1>4, <1>5 DEF TerminalInv

LEMMA RelocateStep ==
  ASSUME TerminalInv, NEW t \in Terminals, Relocate(t)
  PROVE  TerminalInv'
<1>1. TerminalTypeOK /\ Ordered /\ Calling
  BY DEF TerminalInv
<1>2. /\ Cleanup(t) /\ Asking(t, Dead(t), tabOf[t])
      /\ status' = [status EXCEPT ![t] = "connecting"] /\ tabOf' = tabOf
      /\ tabOf[t] \in Folder /\ tabOf[t] # None
  BY <1>1 DEF Relocate, Cleanup, Open, TerminalTypeOK
<1>3. /\ ref' \in [Terminals -> Sessions \cup {None}]
      /\ listener' \in [Terminals -> Sessions \cup {None}]
      /\ pending' \in [Terminals -> SUBSET Registration]
      /\ hears' \in [Terminals -> SUBSET Registration]
      /\ ref'[t] = None
      /\ \A u \in Terminals \ {t} : ref'[u] = ref[u]
      /\ sessions' \subseteq sessions
      /\ sessions' \subseteq Sessions /\ ended' \subseteq Sessions
      /\ overtaken' \in [Terminals -> SUBSET Sessions]
      /\ \A u \in Terminals \ {t} : overtaken'[u] = overtaken[u]
      /\ \A k \in 1..Len(starts) : starts[k].pane = t => starts[k].id \in overtaken'[t]
  BY <1>1, <1>2, Cleaned
<1>4. /\ Same(Dead(t))
      /\ \A k \in 1..Len(starts) :
           Dead(t)[k].live \in BOOLEAN /\ (Dead(t)[k].live <=> starts[k].live /\ starts[k].pane # t)
  BY <1>1, DeadCalls
<1>5. /\ starts' \in Seq(StartCall) /\ asked' \in 0..Starts
      /\ madeFor' \in [Sessions -> Folder \cup {None}]
      /\ Len(starts') = Len(starts) + 1
      /\ \A k \in 1..Len(starts) : starts'[k] = Dead(t)[k]
      /\ LET c == starts'[Len(starts) + 1] IN
           c.pane = t /\ c.live /\ c.id = asked + 1 /\ c.id \in Sessions /\ madeFor'[c.id] = tabOf[t]
      /\ \A s \in Sessions : s <= asked => madeFor'[s] = madeFor[s]
      /\ Ordered'
  <2>1. \A u \in Terminals : ref'[u] \in {ref[u], None}
    BY <1>3
  <2> QED BY <1>1, <1>2, <1>3, <1>4, <2>1, Asked
<1>6. TerminalTypeOK'
  BY <1>1, <1>2, <1>3, <1>5 DEF TerminalTypeOK
<1>7. /\ Len(starts) \in Nat /\ DOMAIN starts = 1..Len(starts) /\ DOMAIN starts' = 1..Len(starts')
      /\ \A k \in 1..Len(starts) :
           starts[k].live \in BOOLEAN /\ starts[k].id \in Sessions /\ starts[k].id <= asked
  BY <1>1, <1>5, StartsTyped DEF Ordered
<1>8. Calling'
  <2>1. \A k \in 1..Len(starts) : madeFor'[starts[k].id] = madeFor[starts[k].id]
    BY <1>5, <1>7
  <2>2. \A k \in 1..Len(starts) :
           /\ Dead(t)[k].live => starts[k].live
           /\ starts[k].pane # t => Dead(t)[k].live = starts[k].live
           /\ starts[k].pane = t =>
                starts[k].id \in overtaken'[t] /\ (Dead(t)[k].live => tabOf'[t] # None)
    BY <1>3, <1>4, <1>7
  <2>3. \A u \in Terminals \ {t} :
           tabOf'[u] = tabOf[u] /\ ref'[u] = ref[u] /\ overtaken'[u] = overtaken[u]
    BY <1>2, <1>3
  <2>4. LET c == starts'[Len(starts) + 1] IN
          c.pane = t /\ c.live /\ tabOf'[t] # None /\ madeFor'[c.id] = tabOf'[t]
    BY <1>2, <1>5
  <2> QED BY <1>1, <1>3, <1>4, <1>5, <1>7, <2>1, <2>2, <2>3, <2>4, Calls
<1>9. \A k \in 1..Len(starts) : k \in DOMAIN starts' /\ starts'[k].id = starts[k].id
  BY <1>4, <1>5, <1>7 DEF Same
<1>10. /\ status'[t] = "connecting"
       /\ \A u \in Terminals \ {t} : tabOf'[u] = tabOf[u] /\ status'[u] = status[u]
  BY <1>1, <1>2 DEF TerminalTypeOK
<1> QED BY <1>2, <1>5, <1>6, <1>8, <1>9, <1>10, CleanupStep

LEMMA UnmountStep ==
  ASSUME TerminalInv, NEW t \in Terminals, Unmount(t)
  PROVE  TerminalInv'
<1>1. TerminalTypeOK /\ Ordered /\ Calling
  BY DEF TerminalInv
<1>2. /\ Cleanup(t) /\ starts' = Dead(t) /\ asked' = asked /\ madeFor' = madeFor
      /\ tabOf' = [tabOf EXCEPT ![t] = None] /\ status' = [status EXCEPT ![t] = "idle"]
  BY DEF Unmount
<1>3. /\ ref' \in [Terminals -> Sessions \cup {None}]
      /\ listener' \in [Terminals -> Sessions \cup {None}]
      /\ pending' \in [Terminals -> SUBSET Registration]
      /\ hears' \in [Terminals -> SUBSET Registration]
      /\ ref'[t] = None
      /\ \A u \in Terminals \ {t} : ref'[u] = ref[u]
      /\ sessions' \subseteq sessions
      /\ sessions' \subseteq Sessions /\ ended' \subseteq Sessions
      /\ overtaken' \in [Terminals -> SUBSET Sessions]
      /\ \A u \in Terminals \ {t} : overtaken'[u] = overtaken[u]
      /\ \A k \in 1..Len(starts) : starts[k].pane = t => starts[k].id \in overtaken'[t]
  BY <1>1, <1>2, Cleaned
<1>4. /\ Same(Dead(t))
      /\ \A k \in 1..Len(starts) :
           Dead(t)[k].live \in BOOLEAN /\ (Dead(t)[k].live <=> starts[k].live /\ starts[k].pane # t)
  BY <1>1, DeadCalls
<1>5. /\ starts' \in Seq(StartCall) /\ Len(starts') = Len(starts) /\ DOMAIN starts' = 1..Len(starts)
      /\ Len(starts) \in Nat /\ DOMAIN starts = 1..Len(starts)
      /\ \A k \in 1..Len(starts) :
           /\ starts'[k].id = starts[k].id /\ starts'[k].answer = starts[k].answer
           /\ starts'[k].live \in BOOLEAN /\ starts[k].live \in BOOLEAN
  BY <1>1, <1>2, <1>4, StartsTyped DEF Same
<1>6. /\ tabOf' \in [Terminals -> Folder \cup {None}]
      /\ status' \in [Terminals -> {"idle", "connecting", "ready", "closed", "error"}]
      /\ status'[t] = "idle"
      /\ \A u \in Terminals \ {t} : tabOf'[u] = tabOf[u] /\ status'[u] = status[u]
  BY <1>1, <1>2 DEF TerminalTypeOK
<1>7. TerminalTypeOK'
  BY <1>1, <1>2, <1>3, <1>5, <1>6 DEF TerminalTypeOK
<1>8. Ordered'
  <2>1. \A u \in Terminals : ref'[u] \in {ref[u], None}
    BY <1>3
  <2>2. \A k \in 1..Len(starts) :
           /\ starts[k].id <= asked
           /\ starts[k].answer # "ok" => starts[k].id \notin sessions'
           /\ \A j \in 1..Len(starts) : j < k => starts[j].id < starts[k].id
    BY <1>1, <1>3, <1>5 DEF Ordered
  <2>3. /\ \A s \in sessions' : s <= asked
        /\ \A u \in Terminals : ref'[u] # None =>
             ref'[u] <= asked /\ \A k \in 1..Len(starts) : ref'[u] < starts[k].id
    BY <1>1, <1>3, <1>5, <2>1 DEF Ordered
  <2> QED BY <1>2, <1>5, <2>2, <2>3 DEF Ordered
<1>9. Calling'
  <2>1. \A k \in 1..Len(starts) :
           /\ Dead(t)[k].live => starts[k].live
           /\ starts[k].pane # t => Dead(t)[k].live = starts[k].live
           /\ starts[k].pane = t =>
                starts[k].id \in overtaken'[t] /\ (Dead(t)[k].live => tabOf'[t] # None)
    BY <1>2, <1>3, <1>4, <1>5
  <2>2. \A u \in Terminals \ {t} :
           tabOf'[u] = tabOf[u] /\ ref'[u] = ref[u] /\ overtaken'[u] = overtaken[u]
    BY <1>3, <1>6
  <2>3. \A k \in 1..Len(starts) : madeFor'[starts[k].id] = madeFor[starts[k].id]
    BY <1>2
  <2>4. DOMAIN starts' = 1..Len(starts')
    BY <1>5
  <2> QED BY <1>1, <1>2, <1>3, <1>4, <2>1, <2>2, <2>3, <2>4, Calls
<1>10. \A k \in 1..Len(starts) : k \in DOMAIN starts' /\ starts'[k].id = starts[k].id
  BY <1>5
<1>11. \A s \in Sessions : s <= asked => madeFor'[s] = madeFor[s]
  BY <1>2
<1> QED BY <1>2, <1>6, <1>7, <1>8, <1>9, <1>10, <1>11, CleanupStep

LEMMA RegisteredStep ==
  ASSUME TerminalInv, NEW t \in Terminals, Registered(t)
  PROVE  TerminalInv'
<1>1. TerminalTypeOK /\ Ordered /\ Calling /\ OrphansOvertaken
  BY DEF TerminalInv
<1>2. PICK r \in pending[t] :
        /\ pending' = [pending EXCEPT ![t] = @ \ {r}] /\ hears' = [hears EXCEPT ![t] = @ \cup {r}]
        /\ UNCHANGED <<tabOf, status, ref, listener, starts, asked, sessions, ended, madeFor, overtaken>>
  BY DEF Registered, backend
<1>3. pending[t] \subseteq Registration /\ hears[t] \subseteq Registration
  BY <1>1 DEF TerminalTypeOK
<1>4. TerminalTypeOK'
  BY <1>1, <1>2, <1>3 DEF TerminalTypeOK
<1>5. ASSUME NEW u \in Terminals
      PROVE  pending'[u] \cup hears'[u] = pending[u] \cup hears[u] /\ hears[u] \subseteq hears'[u]
  BY <1>1, <1>2 DEF TerminalTypeOK
<1>6. ASSUME NEW u \in Terminals PROVE Attached(u)'
  BY <1>1, <1>2, <1>5, Aside DEF TerminalInv
<1>7. Ordered' /\ Calling' /\ OrphansOvertaken'
  BY <1>1, <1>2 DEF Ordered, Calling, Open, OrphansOvertaken
<1> QED BY <1>4, <1>6, <1>7 DEF TerminalInv

LEMMA ShellEndsStep ==
  ASSUME TerminalInv, NEW s \in Sessions, ShellEnds(s)
  PROVE  TerminalInv'
<1>1. TerminalTypeOK /\ Ordered /\ Calling /\ OrphansOvertaken
  BY DEF TerminalInv
<1>2. /\ ended' = ended \cup {s}
      /\ UNCHANGED <<tabOf, status, ref, listener, pending, hears, starts, asked, sessions, madeFor, overtaken>>
  BY DEF ShellEnds
<1>3. TerminalTypeOK' /\ Ordered' /\ Calling' /\ OrphansOvertaken'
  BY <1>1, <1>2 DEF TerminalTypeOK, Ordered, Calling, Open, OrphansOvertaken
<1>4. ASSUME NEW u \in Terminals PROVE Attached(u)'
  BY <1>1, <1>2, Aside DEF TerminalInv
<1> QED BY <1>3, <1>4 DEF TerminalInv

LEMMA StartStep ==
  ASSUME TerminalInv, Start
  PROVE  TerminalInv'
<1>1. TerminalTypeOK /\ Ordered /\ Calling /\ OrphansOvertaken
  BY DEF TerminalInv
<1> DEFINE n == Len(starts)
<1>2. /\ n \in Nat /\ DOMAIN starts = 1..n
      /\ \A k \in 1..n :
           /\ starts[k] \in StartCall
           /\ starts[k].id \in Sessions /\ starts[k].pane \in Terminals
  BY <1>1, StartsTyped
<1>3. PICK k \in 1..n, answer \in {"ok", "failed"} :
        /\ starts[k].answer = None
        /\ starts' = [starts EXCEPT ![k].answer = answer]
        /\ sessions' = IF answer = "ok" THEN sessions \cup {starts[k].id} ELSE sessions
        /\ UNCHANGED <<tabOf, status, ref, listener, pending, hears, asked, ended, madeFor, overtaken>>
  BY <1>2 DEF Start
<1>4. starts[k] \in StartCall /\ [starts[k] EXCEPT !.answer = answer] \in StartCall
  BY <1>2 DEF StartCall
<1>5. starts' \in Seq(StartCall) /\ Len(starts') = n /\ DOMAIN starts' = 1..n
  BY <1>1, <1>2, <1>3, <1>4 DEF TerminalTypeOK
<1>6. \A j \in 1..n :
        /\ starts'[j].id = starts[j].id /\ starts'[j].pane = starts[j].pane
        /\ starts'[j].live = starts[j].live
        /\ j # k => starts'[j].answer = starts[j].answer
        /\ j = k => starts'[j].answer = answer
  BY <1>2, <1>3, <1>4 DEF StartCall
<1>7. TerminalTypeOK'
  BY <1>1, <1>2, <1>3, <1>5 DEF TerminalTypeOK
<1> HIDE DEF n
<1>8. \A j \in 1..n : j # k => starts[j].id # starts[k].id
  <2>1. \A i, j \in 1..n : i < j => starts[i].id < starts[j].id
    BY <1>1, <1>2 DEF Ordered
  <2>2. \A j \in 1..n : starts[j].id \in Nat
    BY <1>2, SessionsAreSome
  <2>3. ASSUME NEW j \in 1..n, j # k PROVE j < k \/ k < j
    BY <1>2, <2>3
  <2> QED BY <2>1, <2>2, <2>3
<1>9. Ordered'
  <2>1. ASSUME NEW j \in 1..n
        PROVE  /\ starts'[j].id <= asked'
               /\ \A i \in 1..n : i < j => starts'[i].id < starts'[j].id
    BY <1>1, <1>2, <1>3, <1>6 DEF Ordered
  <2>2. ASSUME NEW j \in 1..n, starts'[j].answer # "ok" PROVE starts'[j].id \notin sessions'
    <3>1. starts[j].answer # "ok" => starts[j].id \notin sessions
      BY <1>1, <1>2 DEF Ordered
    <3>2. starts[j].answer # "ok"
      <4>1. None # "ok"
        BY StartsAssumption
      <4> QED BY <1>3, <1>6, <2>2, <4>1
    <3>3. j = k => answer # "ok"
      BY <1>6, <2>2
    <3> QED BY <1>3, <1>6, <1>8, <3>1, <3>2, <3>3
  <2>3. \A s \in sessions' : s <= asked'
    BY <1>1, <1>2, <1>3 DEF Ordered
  <2>4. \A t \in Terminals : ref'[t] # None =>
          ref'[t] <= asked' /\ \A j \in 1..n : ref'[t] < starts'[j].id
    BY <1>1, <1>2, <1>3, <1>6 DEF Ordered
  <2> QED BY <1>5, <2>1, <2>2, <2>3, <2>4 DEF Ordered
<1>10. Calling'
  BY <1>1, <1>2, <1>3, <1>5, <1>6 DEF Calling, Open
<1>11. ASSUME NEW t \in Terminals PROVE Attached(t)'
  <2>1. ref[t] # starts[k].id
    <3>1. starts[k].id # None /\ starts[k].id \in Nat
      BY <1>2, SessionsAreSome
    <3>2. ref[t] # None => ref[t] < starts[k].id
      BY <1>1, <1>2 DEF Ordered
    <3> QED BY <3>1, <3>2
  <2>2. ref[t] \in sessions' \ ended' => ref[t] \in sessions \ ended
    BY <1>3, <2>1
  <2> QED BY <1>1, <1>3, <2>2, Aside DEF TerminalInv
<1>12. OrphansOvertaken'
  <2> SUFFICES ASSUME NEW s \in sessions' \ ended'
               PROVE  \/ \E t \in Terminals : Open(t)' /\ ref'[t] = s
                      \/ \E j \in DOMAIN starts' : starts'[j].id = s
                      \/ \E t \in Terminals : s \in overtaken'[t]
    BY DEF OrphansOvertaken
  <2>1. CASE s = starts[k].id
    BY <1>5, <1>6, <2>1
  <2>2. CASE s # starts[k].id
    <3>1. s \in sessions \ ended
      BY <1>3, <2>2
    <3> QED BY <1>1, <1>2, <1>3, <1>5, <1>6, <3>1 DEF OrphansOvertaken, Open
  <2> QED BY <2>1, <2>2
<1> QED BY <1>7, <1>9, <1>10, <1>11, <1>12 DEF TerminalInv

LEMMA ReaderEndsStep ==
  ASSUME TerminalInv, NEW s \in Sessions, ReaderEnds(s)
  PROVE  TerminalInv'
<1>1. TerminalTypeOK /\ Ordered /\ Calling /\ OrphansOvertaken
  BY DEF TerminalInv
<1> DEFINE told == {t \in Terminals : \E h \in hears[t] : h.sid = s}
           again(t) == t \in told /\ status[t] # "closed"
           quiet(t) == {h \in hears[t] : ~h.kept}
           muted(t) == {[r EXCEPT !.kept = FALSE] : r \in pending[t]}
           reg(t) == IF ref[t] = None THEN {} ELSE {[sid |-> ref[t], kept |-> TRUE]}
<1>2. /\ s \in ended /\ ended' = ended \ {s} /\ sessions' = sessions \ {s}
      /\ status' = [t \in Terminals |-> IF t \in told THEN "closed" ELSE status[t]]
      /\ hears' = [t \in Terminals |-> IF again(t) THEN quiet(t) ELSE hears[t]]
      /\ pending' = [t \in Terminals |-> IF ~again(t) THEN pending[t] ELSE muted(t) \cup reg(t)]
      /\ listener' = [t \in Terminals |-> IF again(t) THEN ref[t] ELSE listener[t]]
      /\ UNCHANGED <<tabOf, ref, starts, asked, madeFor, overtaken>>
  BY DEF ReaderEnds
<1>3. ASSUME NEW t \in Terminals
      PROVE  /\ pending[t] \subseteq Registration /\ hears[t] \subseteq Registration
             /\ quiet(t) \subseteq Registration /\ \A h \in quiet(t) : ~h.kept
             /\ muted(t) \subseteq Registration /\ \A r \in muted(t) : ~r.kept
             /\ reg(t) \subseteq Registration /\ \A r \in reg(t) : r.sid = ref[t]
             /\ \A h \in hears[t] : ~h.kept => h \in quiet(t)
  <2>1. pending[t] \subseteq Registration /\ hears[t] \subseteq Registration
    BY <1>1 DEF TerminalTypeOK
  <2>2. \A r \in Registration :
          [r EXCEPT !.kept = FALSE] \in Registration /\ ~[r EXCEPT !.kept = FALSE].kept
    BY DEF Registration
  <2>3. reg(t) \subseteq Registration /\ \A r \in reg(t) : r.sid = ref[t]
    <3>1. CASE ref[t] = None
      BY <3>1
    <3>2. CASE ref[t] # None
      <4>1. [sid |-> ref[t], kept |-> TRUE] \in Registration
        BY <1>1, <3>2 DEF Registration, TerminalTypeOK
      <4> QED BY <3>2, <4>1
    <3> QED BY <3>1, <3>2
  <2> QED BY <2>1, <2>2, <2>3
<1>4. \A t \in Terminals : t \in told <=> \E h \in hears[t] : h.sid = s
  OBVIOUS
<1> HIDE DEF told, quiet, muted, reg
<1>5. TerminalTypeOK'
  BY <1>1, <1>2, <1>3 DEF TerminalTypeOK
<1>6. Ordered' /\ Calling'
  BY <1>1, <1>2 DEF Ordered, Calling, Open
<1>7. sessions' \ ended' \subseteq sessions \ ended
  BY <1>2
<1>8. ASSUME NEW t \in Terminals PROVE Attached(t)'
  <2>1. Attached(t)
    BY DEF TerminalInv
  <2>2. CASE ~again(t)
    <3>1. /\ listener'[t] = listener[t] /\ pending'[t] = pending[t] /\ hears'[t] = hears[t]
          /\ status'[t] = status[t]
      BY <1>2, <2>2
    <3>2. ref[t] \in sessions' \ ended' => ref[t] \in sessions \ ended
      BY <1>7
    <3> QED BY <1>1, <1>2, <2>1, <3>1, <3>2, Aside
  <2>3. CASE again(t)
    <3>1. /\ status'[t] = "closed" /\ listener'[t] = ref[t] /\ hears'[t] = quiet(t)
          /\ pending'[t] = muted(t) \cup reg(t) /\ ref'[t] = ref[t] /\ tabOf'[t] = tabOf[t]
          /\ madeFor' = madeFor /\ overtaken' = overtaken
      BY <1>2, <2>3
    <3>2. \A r \in pending'[t] \cup hears'[t] : r.kept => r.sid = listener'[t]
      BY <1>3, <3>1
    <3>3. ASSUME ref[t] \in sessions' \ ended'
          PROVE  (\E h \in hears'[t] : ~h.kept) \/ overtaken[t] # {}
      <4>1. PICK h \in hears[t] : h.sid = s
        BY <1>4, <2>3
      <4>2. ref[t] # s
        BY <1>2, <3>3
      <4>3. CASE h.kept
        BY <2>1, <4>1, <4>2, <4>3 DEF Attached
      <4>4. CASE ~h.kept
        BY <1>3, <3>1, <4>1, <4>4
      <4> QED BY <4>3, <4>4
    <3> QED BY <2>1, <3>1, <3>2, <3>3 DEF Attached, Open
  <2> QED BY <2>2, <2>3
<1>9. OrphansOvertaken'
  BY <1>1, <1>2, <1>7 DEF OrphansOvertaken, Open
<1> QED BY <1>5, <1>6, <1>8, <1>9 DEF TerminalInv

(* The answer of the first start in flight. *)
LEMMA AnswerInStep ==
  ASSUME TerminalInv, Answer
  PROVE  TerminalInv'
<1>1. TerminalTypeOK /\ Ordered /\ Calling /\ OrphansOvertaken
  BY DEF TerminalInv
<1> DEFINE n == Len(starts)
<1>0. /\ n \in Nat /\ n >= 1 /\ DOMAIN starts = 1..n /\ Head(starts) = starts[1]
      /\ starts[1] \in StartCall /\ starts[1].pane \in Terminals
  BY <1>1, StartsTyped DEF Answer, TerminalTypeOK
<1>00. PICK c \in StartCall, t \in Terminals : c = starts[1] /\ t = c.pane
  BY <1>0
<1>2. /\ n \in Nat /\ n >= 1 /\ DOMAIN starts = 1..n /\ c = starts[1] /\ t = c.pane
      /\ starts' = Tail(starts) /\ c.answer # None
      /\ \/ /\ c.live /\ c.answer = "ok"
            /\ ref' = [ref EXCEPT ![t] = c.id]
            /\ SetStatus(t, "ready", c.id)
         \/ /\ c.live /\ c.answer = "failed"
            /\ SetStatus(t, "error", ref[t])
            /\ UNCHANGED ref
         \/ ~c.live /\ UNCHANGED <<ref, status, listener, pending, hears>>
      /\ UNCHANGED <<tabOf, asked, sessions, ended, madeFor, overtaken>>
  BY <1>0, <1>00 DEF Answer, backend
<1>3. /\ c \in StartCall /\ c.id \in Sessions /\ t \in Terminals
      /\ ref[t] \in Sessions \cup {None} /\ Attached(t)
  BY <1>1, <1>2, StartsTyped DEF TerminalTypeOK, TerminalInv
<1>4. /\ starts' \in Seq(StartCall) /\ Len(starts') = n - 1 /\ DOMAIN starts' = 1..(n - 1)
      /\ \A k \in 1..(n - 1) : starts'[k] = starts[k + 1]
  BY <1>1, <1>2 DEF TerminalTypeOK
<1> HIDE DEF n
<1>5. \A k \in 1..(n - 1) : k + 1 \in 1..n /\ 1 < k + 1
  BY <1>2
<1>6. 1 \in 1..n
  BY <1>2
<1>7. /\ c.id <= asked /\ (c.answer # "ok" => c.id \notin sessions)
      /\ \A k \in 1..(n - 1) : c.id < starts'[k].id
  BY <1>1, <1>2, <1>4, <1>5, <1>6 DEF Ordered
<1>8. /\ c.live => Open(t) /\ (madeFor[c.id] = tabOf[t] \/ c.id \in overtaken[t])
      /\ ~c.live => c.id \in overtaken[t]
      /\ c.live /\ ref[t] # None => ref[t] \in overtaken[t]
      /\ \A k \in 1..(n - 1) :
           c.live /\ starts'[k].live /\ starts'[k].pane = t => c.id \in overtaken[t]
  <2>1. /\ c.live => Open(t) /\ (madeFor[c.id] = tabOf[t] \/ c.id \in overtaken[t])
        /\ ~c.live => c.id \in overtaken[t]
        /\ c.live /\ ref[t] # None => ref[t] \in overtaken[t]
    BY <1>1, <1>2, <1>6 DEF Calling
  <2>2. ASSUME NEW k \in 1..(n - 1), c.live, starts'[k].live, starts'[k].pane = t
        PROVE  c.id \in overtaken[t]
    <3>1. k + 1 \in DOMAIN starts /\ 1 \in DOMAIN starts /\ 1 < k + 1
      BY <1>2, <1>5, <1>6
    <3>2. starts[k + 1].live /\ starts[k + 1].pane = t
      BY <1>4, <2>2
    <3>3. starts[1].live /\ starts[1].pane = starts[k + 1].pane /\ starts[1].id = c.id
      BY <1>2, <2>2, <3>2
    <3>4. starts[1].id \in overtaken[starts[k + 1].pane]
      BY <1>1, <3>1, <3>2, <3>3 DEF Calling
    <3> QED BY <3>2, <3>3, <3>4
  <2> QED BY <2>1, <2>2
<1>9. /\ ref' \in [Terminals -> Sessions \cup {None}]
      /\ status' \in [Terminals -> {"idle", "connecting", "ready", "closed", "error"}]
      /\ listener' \in [Terminals -> Sessions \cup {None}]
      /\ pending' \in [Terminals -> SUBSET Registration]
      /\ hears' \in [Terminals -> SUBSET Registration]
      /\ \A u \in Terminals \ {t} :
           /\ ref'[u] = ref[u] /\ status'[u] = status[u] /\ listener'[u] = listener[u]
           /\ pending'[u] = pending[u] /\ hears'[u] = hears[u]
  <2>1. CASE ~c.live
    BY <1>1, <1>2, <2>1 DEF TerminalTypeOK
  <2>2. CASE ref' = [ref EXCEPT ![t] = c.id] /\ SetStatus(t, "ready", c.id)
    <3>1. /\ ref' \in [Terminals -> Sessions \cup {None}]
          /\ \A u \in Terminals \ {t} : ref'[u] = ref[u]
      BY <1>1, <1>3, <2>2 DEF TerminalTypeOK
    <3>2. TerminalTypeOK /\ SetStatus(t, "ready", c.id) /\ c.id \in Sessions \cup {None}
      BY <1>1, <1>3, <2>2
    <3>3. /\ status' \in [Terminals -> {"idle", "connecting", "ready", "closed", "error"}]
          /\ listener' \in [Terminals -> Sessions \cup {None}]
          /\ pending' \in [Terminals -> SUBSET Registration]
          /\ hears' \in [Terminals -> SUBSET Registration]
          /\ \A u \in Terminals \ {t} :
               /\ status'[u] = status[u] /\ listener'[u] = listener[u]
               /\ pending'[u] = pending[u] /\ hears'[u] = hears[u]
      BY <3>2, StatusSet
    <3> QED BY <3>1, <3>3
  <2>3. CASE UNCHANGED ref /\ SetStatus(t, "error", ref[t])
    <3>1. /\ ref' \in [Terminals -> Sessions \cup {None}]
          /\ \A u \in Terminals \ {t} : ref'[u] = ref[u]
      BY <1>1, <1>3, <2>3 DEF TerminalTypeOK
    <3>2. TerminalTypeOK /\ SetStatus(t, "error", ref[t]) /\ ref[t] \in Sessions \cup {None}
      BY <1>1, <1>3, <2>3
    <3>3. /\ status' \in [Terminals -> {"idle", "connecting", "ready", "closed", "error"}]
          /\ listener' \in [Terminals -> Sessions \cup {None}]
          /\ pending' \in [Terminals -> SUBSET Registration]
          /\ hears' \in [Terminals -> SUBSET Registration]
          /\ \A u \in Terminals \ {t} :
               /\ status'[u] = status[u] /\ listener'[u] = listener[u]
               /\ pending'[u] = pending[u] /\ hears'[u] = hears[u]
      BY <3>2, StatusSet
    <3> QED BY <3>1, <3>3
  <2> QED BY <1>2, <2>1, <2>2, <2>3
<1>10. \/ ref'[t] = ref[t]
       \/ ref'[t] = c.id /\ c.live
  BY <1>1, <1>2, <1>3 DEF TerminalTypeOK
<1>11. TerminalTypeOK'
  BY <1>1, <1>2, <1>4, <1>9 DEF TerminalTypeOK
<1>12. Ordered'
  <2>1. ASSUME NEW k \in 1..(n - 1)
        PROVE  /\ starts'[k].id <= asked'
               /\ starts'[k].answer # "ok" => starts'[k].id \notin sessions'
               /\ \A j \in 1..(n - 1) : j < k => starts'[j].id < starts'[k].id
    <3>1. k + 1 \in DOMAIN starts /\ starts'[k] = starts[k + 1]
      BY <1>2, <1>4, <1>5
    <3>2. ASSUME NEW j \in 1..(n - 1), j < k PROVE starts'[j].id < starts'[k].id
      <4>1. j + 1 \in DOMAIN starts /\ starts'[j] = starts[j + 1] /\ j + 1 < k + 1
        BY <1>2, <1>4, <1>5, <3>2
      <4> QED BY <1>1, <3>1, <4>1 DEF Ordered
    <3> QED BY <1>1, <1>2, <3>1, <3>2 DEF Ordered
  <2>2. ASSUME NEW u \in Terminals, ref'[u] # None
        PROVE  ref'[u] <= asked' /\ \A k \in 1..(n - 1) : ref'[u] < starts'[k].id
    <3>1. CASE ref'[u] = ref[u]
      BY <1>1, <1>2, <1>4, <1>5, <2>2, <3>1 DEF Ordered
    <3>2. CASE ref'[u] = c.id
      BY <1>2, <1>7, <3>2
    <3> QED BY <1>9, <1>10, <3>1, <3>2
  <2>3. \A s \in sessions' : s <= asked'
    BY <1>1, <1>2 DEF Ordered
  <2> QED BY <1>4, <2>1, <2>2, <2>3 DEF Ordered
<1>13. Calling'
  <2>1. ASSUME NEW k \in 1..(n - 1)
        PROVE  LET d == starts'[k] IN
               /\ d.live => tabOf'[d.pane] # None
                            /\ (madeFor'[d.id] = tabOf'[d.pane] \/ d.id \in overtaken'[d.pane])
               /\ ~d.live => d.id \in overtaken'[d.pane]
               /\ d.live /\ ref'[d.pane] # None => ref'[d.pane] \in overtaken'[d.pane]
               /\ \A j \in 1..(n - 1) :
                    j < k /\ d.live /\ starts'[j].live /\ starts'[j].pane = d.pane =>
                      starts'[j].id \in overtaken'[d.pane]
    <3> DEFINE d == starts[k + 1]
    <3>1. k + 1 \in DOMAIN starts /\ starts'[k] = d /\ d.pane \in Terminals
      BY <1>1, <1>2, <1>4, <1>5, StartsTyped
    <3>2. /\ d.live => Open(d.pane) /\ (madeFor[d.id] = tabOf[d.pane] \/ d.id \in overtaken[d.pane])
          /\ ~d.live => d.id \in overtaken[d.pane]
          /\ d.live /\ ref[d.pane] # None => ref[d.pane] \in overtaken[d.pane]
          /\ \A j \in DOMAIN starts :
               j < k + 1 /\ d.live /\ starts[j].live /\ starts[j].pane = d.pane =>
                 starts[j].id \in overtaken[d.pane]
      BY <1>1, <3>1 DEF Calling
    <3> HIDE DEF d
    <3>3. ASSUME d.live, ref'[d.pane] # None PROVE ref'[d.pane] \in overtaken'[d.pane]
      <4>1. CASE ref'[d.pane] = ref[d.pane]
        BY <1>2, <3>2, <3>3, <4>1
      <4>2. CASE d.pane = t /\ ref'[t] = c.id /\ c.live
        BY <1>2, <1>8, <3>1, <3>3, <4>2
      <4> QED BY <1>9, <1>10, <3>1, <4>1, <4>2
    <3>4. ASSUME NEW j \in 1..(n - 1), j < k, d.live, starts'[j].live, starts'[j].pane = d.pane
          PROVE  starts'[j].id \in overtaken'[d.pane]
      <4>1. j + 1 \in DOMAIN starts /\ starts'[j] = starts[j + 1] /\ j + 1 < k + 1
        BY <1>2, <1>4, <1>5, <3>4
      <4> QED BY <1>2, <3>2, <3>4, <4>1
    <3> QED BY <1>2, <3>1, <3>2, <3>3, <3>4 DEF Open
  <2> QED BY <1>4, <2>1 DEF Calling, Open
<1>14. Attached(t)'
  <2>1. CASE ~c.live
    BY <1>1, <1>2, <1>3, <2>1, Aside
  <2>2. CASE c.live /\ c.answer = "ok" /\ ref' = [ref EXCEPT ![t] = c.id] /\ SetStatus(t, "ready", c.id)
    <3>1. ref'[t] = c.id /\ c.id # None
      BY <1>1, <1>3, <2>2, SessionsAreSome DEF TerminalTypeOK
    <3>2. /\ status'[t] = "ready"
          /\ "ready" = status[t] => /\ listener'[t] = listener[t]
                                    /\ pending'[t] = pending[t] /\ hears'[t] = hears[t]
          /\ "ready" # status[t] =>
               /\ listener'[t] = c.id
               /\ \A r \in pending'[t] \cup hears'[t] : r.kept => r.sid = c.id
               /\ [sid |-> c.id, kept |-> TRUE] \in pending'[t]
      BY <1>1, <1>3, <2>2, <3>1, StatusSet
    <3>3. Open(t)' /\ (madeFor'[ref'[t]] = tabOf'[t] \/ ref'[t] \in overtaken'[t])
      BY <1>2, <1>8, <2>2, <3>1 DEF Open
    <3>4. CASE status[t] = "ready"
      <4>1. listener'[t] \in overtaken'[t]
        <5>1. CASE listener[t] \in overtaken[t]
          BY <1>2, <3>2, <3>4, <5>1
        <5>2. CASE listener[t] = ref[t] /\ \E r \in pending[t] \cup hears[t] : r.sid = ref[t] /\ r.kept
          <6>1. pending[t] \cup hears[t] \subseteq Registration
            BY <1>1, <1>3 DEF TerminalTypeOK
          <6>2. ref[t] \in Sessions
            BY <5>2, <6>1 DEF Registration
          <6>3. ref[t] \in overtaken[t]
            BY <1>8, <2>2, <6>2, SessionsAreSome
          <6> QED BY <1>2, <3>2, <3>4, <5>2, <6>3
        <5> QED BY <1>3, <3>4, <5>1, <5>2 DEF Attached
      <4>2. \A r \in pending'[t] \cup hears'[t] : r.kept => r.sid = listener'[t]
        BY <1>3, <3>2, <3>4 DEF Attached
      <4> QED BY <3>2, <3>3, <4>1, <4>2 DEF Attached
    <3>5. CASE status[t] # "ready"
      <4>1. listener'[t] = ref'[t] /\ \A r \in pending'[t] \cup hears'[t] : r.kept => r.sid = listener'[t]
        BY <3>1, <3>2, <3>5
      <4>2. \E r \in pending'[t] \cup hears'[t] : r.sid = ref'[t] /\ r.kept
        BY <3>1, <3>2, <3>5
      <4> QED BY <3>2, <3>3, <4>1, <4>2 DEF Attached
    <3> QED BY <3>4, <3>5
  <2>3. CASE c.live /\ SetStatus(t, "error", ref[t]) /\ UNCHANGED ref
    <3>1. /\ status'[t] = "error"
          /\ "error" = status[t] => /\ listener'[t] = listener[t]
                                    /\ pending'[t] = pending[t] /\ hears'[t] = hears[t]
          /\ "error" # status[t] =>
               /\ listener'[t] = ref[t]
               /\ \A r \in pending'[t] \cup hears'[t] : r.kept => r.sid = ref[t]
      BY <1>1, <1>3, <2>3, StatusSet
    <3>2. Open(t)'
      BY <1>2, <1>8, <2>3 DEF Open
    <3>3. \A r \in pending'[t] \cup hears'[t] : r.kept => r.sid = listener'[t]
      BY <1>3, <3>1 DEF Attached
    <3>4. listener'[t] = ref[t] \/ overtaken[t] # {}
      BY <1>3, <3>1 DEF Attached
    <3> QED BY <1>2, <1>3, <2>3, <3>1, <3>2, <3>3, <3>4 DEF Attached
  <2> QED BY <1>2, <2>1, <2>2, <2>3
<1>15. ASSUME NEW u \in Terminals PROVE Attached(u)'
  <2>1. CASE u # t
    BY <1>1, <1>2, <1>9, <2>1, Aside DEF TerminalInv
  <2> QED BY <1>14, <2>1
<1>16. OrphansOvertaken'
  <2> SUFFICES ASSUME NEW s \in sessions' \ ended'
               PROVE  \/ \E u \in Terminals : Open(u)' /\ ref'[u] = s
                      \/ \E j \in DOMAIN starts' : starts'[j].id = s
                      \/ \E u \in Terminals : s \in overtaken'[u]
    BY DEF OrphansOvertaken
  <2>1. s \in sessions \ ended /\ s \in Sessions
    BY <1>1, <1>2 DEF TerminalTypeOK
  <2>2. CASE s = c.id
    <3>1. CASE ~c.live
      BY <1>2, <1>3, <1>8, <2>2, <3>1
    <3>2. CASE c.live
      <4>1. c.answer = "ok"
        BY <1>7, <2>1, <2>2
      <4>2. ref'[t] = c.id
        BY <1>1, <1>2, <1>3, <3>2, <4>1 DEF TerminalTypeOK
      <4>3. Open(t)'
        BY <1>2, <1>8, <3>2 DEF Open
      <4> QED BY <1>3, <2>2, <4>2, <4>3
    <3> QED BY <3>1, <3>2
  <2>3. CASE s # c.id /\ \E j \in DOMAIN starts : starts[j].id = s
    <3>1. PICK j \in 1..n : starts[j].id = s
      BY <1>2, <2>3
    <3>2. j # 1
      BY <1>2, <2>3, <3>1
    <3>3. j - 1 \in 1..(n - 1) /\ (j - 1) + 1 = j
      BY <1>2, <3>1, <3>2
    <3> QED BY <1>4, <3>1, <3>3
  <2>4. CASE \E u \in Terminals : Open(u) /\ ref[u] = s
    <3>1. PICK u \in Terminals : Open(u) /\ ref[u] = s
      BY <2>4
    <3>2. CASE ref'[u] = ref[u]
      BY <1>2, <3>1, <3>2 DEF Open
    <3>3. CASE u = t /\ c.live
      <4>1. s \in overtaken[t]
        BY <1>8, <2>1, <3>1, <3>3, SessionsAreSome
      <4> QED BY <1>2, <1>3, <4>1
    <3> QED BY <1>9, <1>10, <3>1, <3>2, <3>3
  <2>5. CASE \E u \in Terminals : s \in overtaken[u]
    BY <1>2, <2>5
  <2> QED BY <1>1, <2>1, <2>2, <2>3, <2>4, <2>5 DEF OrphansOvertaken
<1> QED BY <1>11, <1>12, <1>13, <1>15, <1>16 DEF TerminalInv

-----------------------------------------------------------------------------
(* The specification.                                                       *)

LEMMA TerminalsInit == TerminalInit => TerminalInv
<1> SUFFICES ASSUME TerminalInit PROVE TerminalInv
  OBVIOUS
<1>1. /\ \A t \in Terminals :
           /\ tabOf[t] = None /\ status[t] = "idle" /\ ref[t] = None /\ listener[t] = None
           /\ pending[t] = {} /\ hears[t] = {} /\ overtaken[t] = {}
      /\ starts = <<>> /\ asked = 0 /\ sessions = {}
  BY DEF TerminalInit
<1>2. TerminalTypeOK
  BY StartsAssumption DEF TerminalInit, TerminalTypeOK
<1>3. Ordered /\ Calling /\ OrphansOvertaken
  BY <1>1 DEF Ordered, Calling, OrphansOvertaken
<1>4. \A t \in Terminals : Attached(t)
  BY <1>1 DEF Attached
<1> QED BY <1>2, <1>3, <1>4 DEF TerminalInv

LEMMA TerminalsRest ==
  ASSUME TerminalInv, UNCHANGED terminalVars
  PROVE  TerminalInv'
<1>1. UNCHANGED <<tabOf, status, ref, listener, pending, hears, starts, asked,
                  sessions, ended, madeFor, overtaken>>
  BY DEF terminalVars
<1>2. TerminalTypeOK' /\ Ordered' /\ Calling' /\ OrphansOvertaken'
  BY <1>1 DEF TerminalInv, TerminalTypeOK, Ordered, Calling, Open, OrphansOvertaken
<1>3. ASSUME NEW t \in Terminals PROVE Attached(t)'
  BY <1>1 DEF TerminalInv, Attached, Open
<1> QED BY <1>2, <1>3 DEF TerminalInv

(* An answer, an event of the backend or of the listeners. *)
LEMMA TerminalsStep == TerminalInv /\ TerminalStep => TerminalInv'
BY StartStep, AnswerInStep, RegisteredStep, ShellEndsStep, ReaderEndsStep DEF TerminalStep

Inv ==
  /\ FileInv /\ TerminalInv
  /\ dialogs \in [Panes -> Nat]
  /\ preset \in Folder \cup {None}

LEMMA InvInit == Init => Inv
BY FilesInit, TerminalsInit DEF Init, FileInit, Inv

LEMMA DialogsTyped == dialogs \in [Panes -> Nat] /\ [Next]_vars => dialogs' \in [Panes -> Nat]
<1> SUFFICES ASSUME dialogs \in [Panes -> Nat], [Next]_vars PROVE dialogs' \in [Panes -> Nat]
  OBVIOUS
<1>1. ASSUME NEW p \in Panes, Download(p) \/ Saved(p) \/ Dismissed(p)
      PROVE  dialogs' \in [Panes -> Nat]
  BY <1>1 DEF Download, Saved, Dismissed
<1>2. ASSUME NEW p \in Panes, Remounted(p) PROVE dialogs' \in [Panes -> Nat]
  BY <1>2 DEF Remounted
<1>3. ASSUME NEW p \in Panes, SetPane(p) PROVE dialogs' \in [Panes -> Nat]
  BY <1>3 DEF SetPane
<1>4. CASE FileStep
  BY <1>1, <1>2, <1>3, <1>4 DEF FileStep, Remount
<1>5. CASE FilesAside \/ UNCHANGED vars
  BY <1>5 DEF FilesAside, vars, fileVars
<1>6. CASE \E t \in Terminals : \/ \E p \in Panes : OpenTerminal(p, t)
                               \/ OpenPreset(t) \/ TerminalUser(t)
  BY <1>2, <1>6, FirstAssumption DEF OpenTerminal, OpenPreset, TerminalUser, FilesAside
<1>7. CASE SavePreset
  BY <1>7 DEF SavePreset
<1> QED BY <1>4, <1>5, <1>6, <1>7 DEF Next

LEMMA InvNext == Inv /\ [Next]_vars => Inv'
<1> SUFFICES ASSUME Inv, [Next]_vars PROVE Inv'
  OBVIOUS
<1>1. FileInv /\ TerminalInv /\ FileTypeOK /\ TerminalTypeOK /\ preset \in Folder \cup {None}
  BY DEF Inv, FileInv, TerminalInv
<1>0. dialogs' \in [Panes -> Nat]
  BY DialogsTyped DEF Inv
<1>2. moves \in 0..Moves
  BY <1>1 DEF FileTypeOK
<1>3. CASE FileStep /\ UNCHANGED <<terminalVars, preset>>
  BY <1>0, <1>1, <1>3, FilesNext, TerminalsRest DEF Inv
<1>4. CASE TerminalStep /\ FilesAside /\ UNCHANGED moves
  <2>1. FileInv'
    BY <1>1, <1>2, <1>4, FilesRest DEF FilesAside
  <2>2. TerminalInv' /\ preset' = preset
    BY <1>1, <1>4, TerminalsStep DEF FilesAside
  <2> QED BY <1>0, <1>1, <2>1, <2>2 DEF Inv
<1>5. ASSUME NEW t \in Terminals, NEW folder \in Folder,
             Moving, Mount(t, folder), Remounted(First), UNCHANGED <<tab, preset>>
      PROVE  Inv'
  <2>1. FileInv'
    BY <1>1, <1>5, MovesTyped, FilesNext
  <2>2. TerminalInv'
    BY <1>1, <1>5, MountStep
  <2> QED BY <1>0, <1>1, <1>5, <2>1, <2>2 DEF Inv
<1>6. CASE \E t \in Terminals, p \in Panes : OpenTerminal(p, t)
  BY <1>5, <1>6 DEF OpenTerminal
<1>7. CASE \E t \in Terminals : OpenPreset(t)
  BY <1>1, <1>5, <1>7 DEF OpenPreset
<1>8. ASSUME NEW t \in Terminals, TerminalUser(t)
      PROVE  Inv'
  <2>1. FileInv'
    BY <1>1, <1>8, MovesTyped, FilesRest DEF TerminalUser, FilesAside
  <2>2. CASE Reconnect(t, tabOf[t])
    <3>1. tabOf[t] \in Folder
      BY <1>1, <2>2 DEF Reconnect, Open, TerminalTypeOK
    <3> QED BY <1>0, <1>1, <1>8, <2>1, <2>2, <3>1, ReconnectStep DEF TerminalUser, FilesAside, Inv
  <2>3. CASE \E b \in Bases : Reconnect(t, Top(b))
    <3>1. \A b \in Bases : Top(b) \in Folder
      BY TopTyped DEF Folder
    <3> QED BY <1>0, <1>1, <1>8, <2>1, <2>3, <3>1, ReconnectStep DEF TerminalUser, FilesAside, Inv
  <2>4. CASE Relocate(t)
    BY <1>0, <1>1, <1>8, <2>1, <2>4, RelocateStep DEF TerminalUser, FilesAside, Inv
  <2>5. CASE Unmount(t)
    BY <1>0, <1>1, <1>8, <2>1, <2>5, UnmountStep DEF TerminalUser, FilesAside, Inv
  <2> QED BY <1>8, <2>2, <2>3, <2>4, <2>5 DEF TerminalUser
<1>9. CASE SavePreset
  <2>1. FileInv'
    BY <1>1, <1>9, MovesTyped, FilesRest DEF SavePreset
  <2>2. TerminalInv'
    BY <1>1, <1>9, TerminalsRest DEF SavePreset
  <2>3. preset' \in Folder
    BY <1>1, <1>9, Typed DEF SavePreset, Open, TerminalTypeOK, Folder
  <2> QED BY <1>0, <2>1, <2>2, <2>3 DEF Inv
<1>10. CASE UNCHANGED vars
  <2>1. FileInv'
    BY <1>1, <1>2, <1>10, FilesRest DEF vars, fileVars
  <2>2. TerminalInv' /\ preset' = preset
    BY <1>1, <1>10, TerminalsRest DEF vars
  <2> QED BY <1>0, <1>1, <2>1, <2>2 DEF Inv
<1> QED BY <1>3, <1>4, <1>6, <1>7, <1>8, <1>9, <1>10 DEF Next

(* The invariant holds for any number of panes, terminals, starts and moves: *)
(* what FilePanes.tla and TerminalPanes.tla say of one pane, its calls and   *)
(* its shells never depends on how many there are.                          *)
THEOREM Inductive == Spec => []Inv
BY InvInit, InvNext, PTL DEF Spec

(* The variables keep their types. *)
THEOREM TypeCorrect == Spec => []TypeOK
<1>1. Inv => TypeOK
  BY DEF Inv, FileInv, TerminalInv, TypeOK
<1> QED BY <1>1, Inductive, PTL

(* `loading` never stays set when no call is left, and whoever only uses the *)
(* buttons never has two calls of a pane in flight, but for a download that *)
(* comes out of its dialog during another call.                             *)
THEOREM ButtonsAreGates == Spec => []ButtonsGateCalls
<1>1. Inv => ButtonsGateCalls
  BY FilesSafe DEF Inv
<1> QED BY <1>1, Inductive, PTL

(* A pane whose calls are all answered shows the folder of its tab, unless   *)
(* the tab moved on without its entries.                                    *)
THEOREM EntriesAreOfTheTab == Spec => []PanesShowTheirFolder
<1>1. Inv => PanesShowTheirFolder
  BY FilesSafe DEF Inv
<1> QED BY <1>1, Inductive, PTL

(* Only a start that was overtaken leaves a shell that nobody can reach.    *)
THEOREM ShellsAreHeld == Spec => []OrphansOvertaken
<1>1. Inv => OrphansOvertaken
  BY DEF Inv, TerminalInv
<1> QED BY <1>1, Inductive, PTL

(* What is typed goes to a shell of the tab, but for overtaken starts. *)
THEOREM TypingIsForTheTab == Spec => []TypesIntoItsTab
<1>1. Inv => TypesIntoItsTab
  BY DEF Inv, TerminalInv, Attached, TypesIntoItsTab
<1> QED BY <1>1, Inductive, PTL

(* A ready pane shows, or will show, the shell that is typed into, but for  *)
(* overtaken starts.                                                        *)
THEOREM OutputIsOfTheShell == Spec => []ShowsWhatItTypesInto
<1>1. Inv => ShowsWhatItTypesInto
  BY DEF Inv, TerminalInv, Attached, ShowsWhatItTypesInto
<1> QED BY <1>1, Inductive, PTL

(* A pane says "closed" over a running shell only when it still hears an    *)
(* earlier session.                                                         *)
THEOREM ClosedIsSaidOfTheShell == Spec => []ClosedIsTrue
<1>1. Inv => ClosedIsTrue
  BY DEF Inv, TerminalInv, Attached, ClosedIsTrue
<1> QED BY <1>1, Inductive, PTL
=============================================================================
