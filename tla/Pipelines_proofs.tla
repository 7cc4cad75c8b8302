------------------------- MODULE Pipelines_proofs -------------------------
(***************************************************************************)
(* Theorems about PipelineSync, for any store that is consistent at first: *)
(* its types, one item at a time, no row that names a scheme of another    *)
(* pipeline, and that what is pulled is settled.                           *)
(* And about PipelinePage, of which Page is an instance, for any groups    *)
(* and pipelines and any number of requests: its types, one call at a time *)
(* of each dialog, and that a pipeline leaves its group as a request says  *)
(* or as its handler read the row.                                         *)
(***************************************************************************)
EXTENDS PipelineSync, WellFoundedInduction, TLAPS

CONSTANTS Groups, GroupedPipes, PageSent, MaxOther
VARIABLES
  groups, pipes, seen, shownGroups, shownPipes, dialog, savingGroup, attaching, joining,
  fetching, calls, clicks, others

Page == INSTANCE PipelinePage
  WITH Pipes <- GroupedPipes, MaxSent <- PageSent, waiting <- calls, sent <- clicks

DataView == [ext: Ids, name: Names, mr: BOOLEAN, daily: BOOLEAN, branch: Branches,
             binding: Ids \cup {Nil}, plan: Ids \cup {Nil}, planName: Names \cup {""}]

-----------------------------------------------------------------------------
(* The least and the greatest of a set of identifiers *)

LEMMA LeastExists ==
  ASSUME NEW T \in SUBSET Nat, T # {}
  PROVE  \E x \in T : \A y \in T : x <= y
<1> DEFINE R == OpToRel(<, Nat)
<1>1. R = {r \in Nat \X Nat : r[1] < r[2]} BY DEF OpToRel
<1>2. IsWellFoundedOn(R, Nat) BY NatLessThanWellFounded
<1> HIDE DEF R
<1>3. PICK x \in T : \A y \in T : <<y, x>> \notin R BY <1>2, WFMin
<1>4. \A y \in T : ~(y < x) BY <1>1, <1>3
<1>5. QED BY <1>4

LEMMA GreatestExists ==
  ASSUME NEW n \in Nat, NEW T \in SUBSET 0 .. n, T # {}
  PROVE  \E x \in T : \A y \in T : x >= y
<1> DEFINE U == {n - x : x \in T}
<1>0. T \subseteq Nat /\ \A x \in T : n - x \in Nat
  <2>1. \A x \in 0 .. n : x \in Nat /\ n - x \in Nat OBVIOUS
  <2>2. QED BY <2>1
<1>1. U \in SUBSET Nat /\ U # {} BY <1>0
<1>2. PICK u \in U : \A y \in U : u <= y BY <1>1, LeastExists
<1>3. PICK x \in T : u = n - x BY <1>2
<1>4. \A y \in T : n - x <= n - y BY <1>2, <1>3
<1>5. \A y \in T : x >= y BY <1>0, <1>4
<1>6. QED BY <1>5

LEMMA LowestIs ==
  ASSUME NEW S, S # {}, \A x \in S : x.id \in Nat
  PROVE  Lowest(S) \in S
<1> DEFINE T == {x.id : x \in S}
<1>1. T \in SUBSET Nat /\ T # {} OBVIOUS
<1>2. PICK t \in T : \A y \in T : t <= y BY <1>1, LeastExists
<1>3. PICK x \in S : t = x.id BY <1>2
<1>4. \A y \in S : x.id <= y.id BY <1>2, <1>3
<1>5. \E z \in S : \A y \in S : z.id <= y.id BY <1>4
<1>6. QED BY <1>5 DEF Lowest

LEMMA LatestIs ==
  ASSUME NEW n \in Nat, NEW S, S # {}, \A x \in S : x.id \in 0 .. n
  PROVE  Latest(S) \in S /\ \A y \in S : Latest(S).id >= y.id
<1> DEFINE T == {x.id : x \in S}
<1>1. T \in SUBSET 0 .. n /\ T # {} OBVIOUS
<1>2. PICK t \in T : \A y \in T : t >= y BY <1>1, GreatestExists
<1>3. PICK x \in S : t = x.id BY <1>2
<1>4. \A y \in S : x.id >= y.id BY <1>2, <1>3
<1>5. \E z \in S : \A y \in S : z.id >= y.id BY <1>4
<1>6. QED BY <1>5 DEF Latest

-----------------------------------------------------------------------------
(* What a remote scheme looks like *)

LEMMA ViewIs ==
  ASSUME Sensible, NEW s \in Scheme
  PROVE  View(s) \in DataView /\ View(s).ext = s.id
<1> DEFINE mr == s.bindings # {}
           daily == s.plans # {}
           v == [ext |-> s.id, name |-> s.name, mr |-> mr, daily |-> daily,
                 branch |-> IF mr THEN Lowest(s.bindings).branch ELSE s.branch,
                 binding |-> IF mr THEN Lowest(s.bindings).id ELSE Nil,
                 plan |-> IF daily THEN Lowest(s.plans).id ELSE Nil,
                 planName |-> IF daily THEN Lowest(s.plans).name ELSE ""]
<1>1. View(s) = v BY DEF View
<1>2. Ids \subseteq Nat BY DEF Sensible, Ids
<1>3. s.bindings \subseteq Binding /\ s.plans \subseteq Plan /\ s.id \in Ids /\ s.name \in Names
      /\ s.branch \in Branches
  BY DEF Scheme
<1>4. mr => Lowest(s.bindings) \in Binding
  <2>1. \A b \in s.bindings : b.id \in Nat BY <1>2, <1>3 DEF Binding
  <2>2. QED BY <1>3, <2>1, LowestIs
<1>5. daily => Lowest(s.plans) \in Plan
  <2>1. \A b \in s.plans : b.id \in Nat BY <1>2, <1>3 DEF Plan
  <2>2. QED BY <1>3, <2>1, LowestIs
<1>6. mr => Lowest(s.bindings).branch \in Branches /\ Lowest(s.bindings).id \in Ids
  BY <1>4 DEF Binding
<1>7. daily => Lowest(s.plans).name \in Names /\ Lowest(s.plans).id \in Ids BY <1>5 DEF Plan
<1>8. v \in DataView BY <1>3, <1>6, <1>7 DEF DataView
<1>9. v.ext = s.id OBVIOUS
<1> HIDE DEF v
<1>10. QED BY <1>1, <1>8, <1>9

-----------------------------------------------------------------------------
(* One item at a time *)

DiffShape(w) ==
  /\ w = [kind |-> "diff", pipe |-> w.pipe, awaited |-> w.awaited, answer |-> w.answer, n |-> w.n]
  /\ w.awaited \in BOOLEAN
Shaped == \A w \in waiting : w.kind = "item" \/ DiffShape(w)
Carries(w) == w.kind = "item" \/ (w.kind = "diff" /\ w.awaited)

LEMMA InitOneItem == Init => Shaped /\ OneItem
BY DEF Init, Shaped, OneItem, Carrying

(* A call that carries nothing comes or goes; the one that does takes      *)
(* another shape; it ends; it begins.                                      *)
LEMMA CarrySame ==
  ASSUME OneItem, syncing' = syncing, \A w : Carries(w) => (w \in waiting' <=> w \in waiting)
  PROVE  OneItem'
<1>1. Carrying' = Carrying BY DEF Carrying, Carries
<1>2. QED BY <1>1 DEF OneItem

LEMMA CarryOn ==
  ASSUME OneItem, syncing' = syncing, NEW w \in waiting, Carries(w), NEW v, Carries(v),
         waiting' = (waiting \ {w}) \cup {v}
  PROVE  OneItem'
<1>1. Carrying = {w} BY DEF OneItem, Carrying, Carries
<1>2. Carrying' = {v} BY <1>1 DEF Carrying, Carries
<1>3. QED BY <1>1, <1>2 DEF OneItem

LEMMA CarryEnds ==
  ASSUME OneItem, NEW w \in waiting, Carries(w), ~syncing', waiting' = waiting \ {w}
  PROVE  OneItem'
<1>1. Carrying = {w} BY DEF OneItem, Carrying, Carries
<1>2. Carrying' = {} BY <1>1 DEF Carrying, Carries
<1>3. QED BY <1>2 DEF OneItem

LEMMA CarryBegins ==
  ASSUME OneItem, ~syncing, syncing', NEW v, Carries(v), waiting' = waiting \cup {v}
  PROVE  OneItem'
<1>1. Carrying = {} BY DEF OneItem
<1>2. Carrying' = {v} BY <1>1 DEF Carrying, Carries
<1>3. QED BY <1>2 DEF OneItem

DiffCall(p, awaited) == [kind |-> "diff", pipe |-> p, awaited |-> awaited, answer |-> None, n |-> sent]

LEMMA NewDiff ==
  ASSUME NEW p, NEW a \in BOOLEAN
  PROVE  DiffShape(DiffCall(p, a)) /\ (Carries(DiffCall(p, a)) <=> a)
BY DEF DiffShape, DiffCall, Carries

LEMMA StepOneItem ==
  ASSUME Shaped, OneItem, [Next]_vars PROVE Shaped' /\ OneItem'
<1>1. ASSUME NEW p, syncing' = syncing, Trigger(p, FALSE, waiting) PROVE Shaped' /\ OneItem'
  <2>1. waiting' = waiting \cup {DiffCall(p, FALSE)} BY <1>1 DEF Trigger, DiffCall
  <2>2. DiffShape(DiffCall(p, FALSE)) /\ ~Carries(DiffCall(p, FALSE)) BY NewDiff
  <2>3. QED BY <1>1, <2>1, <2>2, CarrySame DEF Shaped
<1>2. CASE \E p \in Pipes : OpenDiff(p) BY <1>1, <1>2 DEF OpenDiff
<1>3. CASE RefreshDiff BY <1>1, <1>3 DEF RefreshDiff
<1>4. CASE CloseDiff \/ Elsewhere \/ UNCHANGED vars
  <2>1. UNCHANGED <<waiting, syncing>> BY <1>4 DEF CloseDiff, Elsewhere, vars
  <2>2. QED BY <2>1, CarrySame DEF Shaped
<1>5. CASE SyncItem
  <2>1. ~syncing /\ syncing' BY <1>5 DEF SyncItem, CanSync
  <2>2. PICK x : Ask(x) BY <1>5 DEF SyncItem
  <2>3. PICK v : v = [kind |-> "item", pipe |-> ItemPipe, action |-> x.action,
                      category |-> x.category, row |-> x.row, data |-> x.data,
                      title |-> target, n |-> sent]
    OBVIOUS
  <2>4. waiting' = waiting \cup {v} BY <2>2, <2>3 DEF Ask
  <2>5. v.kind = "item" BY <2>3
  <2>6. QED BY <2>1, <2>4, <2>5, CarryBegins DEF Carries, Shaped
<1>6. ASSUME NEW w \in waiting, Calculate(w) PROVE Shaped' /\ OneItem'
  <2>1. DiffShape(w) /\ w.kind = "diff" /\ syncing' = syncing BY <1>6 DEF Calculate, Shaped
  <2>2. PICK answer : waiting' = (waiting \ {w}) \cup {[w EXCEPT !.answer = answer]}
    BY <1>6 DEF Calculate
  <2>3. PICK v : v = [w EXCEPT !.answer = answer] OBVIOUS
  <2>4. v = [kind |-> "diff", pipe |-> w.pipe, awaited |-> w.awaited, answer |-> answer, n |-> w.n]
    BY <2>1, <2>3 DEF DiffShape
  <2>5. DiffShape(v) /\ v.kind = "diff" /\ v.awaited = w.awaited BY <2>1, <2>4 DEF DiffShape
  <2>6. Shaped' BY <2>2, <2>3, <2>5 DEF Shaped
  <2>a. (Carries(w) <=> w.awaited) /\ (Carries(v) <=> w.awaited) BY <2>1, <2>5 DEF Carries
  <2>b. waiting' = (waiting \ {w}) \cup {v} BY <2>2, <2>3
  <2>7. CASE w.awaited BY <2>1, <2>6, <2>7, <2>a, <2>b, CarryOn
  <2>8. CASE ~w.awaited BY <2>1, <2>6, <2>8, <2>a, <2>b, CarrySame
  <2>9. QED BY <2>6, <2>7, <2>8
<1>7. ASSUME NEW w \in waiting, DiffAnswer(w) \/ DiffRefused(w) PROVE Shaped' /\ OneItem'
  <2>1. /\ w.kind = "diff" /\ waiting' = waiting \ {w} /\ syncing' = (syncing /\ ~w.awaited)
        /\ DiffShape(w)
    BY <1>7 DEF DiffAnswer, DiffRefused, Shaped
  <2>2. Shaped' BY <2>1 DEF Shaped
  <2>a. Carries(w) <=> w.awaited BY <2>1 DEF Carries
  <2>3. CASE w.awaited
    <3>1. ~syncing' BY <2>1, <2>3
    <3>2. QED BY <2>1, <2>2, <2>3, <2>a, <3>1, CarryEnds
  <2>4. CASE ~w.awaited
    <3>1. \A v : Carries(v) => (v \in waiting' <=> v \in waiting) BY <2>1, <2>4, <2>a
    <3>2. Carrying' = Carrying BY <3>1 DEF Carrying, Carries
    <3>3. syncing' <=> syncing BY <2>1, <2>4
    <3>4. QED BY <2>2, <3>2, <3>3 DEF OneItem
  <2>5. QED BY <2>1, <2>2, <2>3, <2>4 DEF DiffShape
<1>8. ASSUME NEW w \in waiting, ItemDone(w) PROVE Shaped' /\ OneItem'
  <2>1. w.kind = "item" /\ syncing' = syncing
        /\ waiting' = (waiting \ {w}) \cup {DiffCall(w.title, TRUE)}
    BY <1>8 DEF ItemDone, Trigger, DiffCall
  <2>2. DiffShape(DiffCall(w.title, TRUE)) /\ Carries(DiffCall(w.title, TRUE)) BY NewDiff
  <2>3. QED BY <2>1, <2>2, CarryOn DEF Shaped, Carries
<1>9. ASSUME NEW w \in waiting, CreateRolledBack(w) \/ ItemFailed(w) PROVE Shaped' /\ OneItem'
  <2>1. w.kind = "item" /\ ~syncing' /\ waiting' = waiting \ {w}
    BY <1>9 DEF CreateRolledBack, ItemFailed
  <2>2. QED BY <2>1, CarryEnds DEF Shaped, Carries
<1>10. QED BY <1>2, <1>3, <1>4, <1>5, <1>6, <1>7, <1>8, <1>9 DEF Next

(* OneItem: from the click on one item until the differences it asks for   *)
(* have arrived no second item is carried, whatever pipelines are opened   *)
(* in between and in whatever order their differences arrive.              *)
THEOREM OneItemAtATime == Spec => []OneItem
<1>1. Shaped /\ OneItem /\ [Next]_vars => Shaped' /\ OneItem' BY StepOneItem
<1>2. QED BY <1>1, InitOneItem, PTL DEF Spec

-----------------------------------------------------------------------------
(* Who owns what.  A remote scheme is one pipeline's for good, and so is a *)
(* row; an identifier says which as long as what it names is there, and is *)
(* never issued again.                                                     *)

Owned(p, e) == e \in 0 .. issued /\ \A s \in store.remote : s.id = e => s.pipe = p
RowOf(p, r) == r \in 0 .. issued /\ \A l \in store.rows : l.id = r => l.pipe = p

StoreInv ==
  /\ issued \in 0 .. MaxIds
  /\ Typed(store) /\ Keyed(store)
  /\ \A x \in store.rows : x.id <= issued
  /\ \A x \in store.remote : x.id <= issued
  /\ \A l \in store.rows : Owned(l.pipe, l.ext)

(* What a step may make of the rows and of the remote schemes; new holds   *)
(* the identifier it issues, if it does, and p the pipeline it is for.     *)
RowsFollow(rows, p, new) ==
  /\ rows \subseteq Row /\ \A k, l \in rows : k.id = l.id => k = l
  /\ \A l \in rows :
       /\ (\E k \in store.rows : k.id = l.id /\ k.pipe = l.pipe) \/ l.id \in new
       /\ Owned(l.pipe, l.ext) \/ (l.ext \in new /\ l.pipe = p)
RemoteFollows(remote, p, new) ==
  /\ remote \subseteq Scheme /\ \A r, s \in remote : r.id = s.id => r = s
  /\ \A s \in remote :
       (\E r \in store.remote : r.id = s.id /\ r.pipe = s.pipe) \/ (s.id \in new /\ s.pipe = p)
Follows(st, p, new) ==
  /\ st = [rows |-> st.rows, remote |-> st.remote]
  /\ RowsFollow(st.rows, p, new) /\ RemoteFollows(st.remote, p, new)

(* Identifiers that were known stay what they were.                        *)
Known ==
  /\ issued \in Nat /\ issued' \in Nat /\ issued <= issued'
  /\ \A s \in store'.remote :
       (\E r \in store.remote : r.id = s.id /\ r.pipe = s.pipe) \/ s.id = issued + 1
  /\ \A l \in store'.rows :
       (\E k \in store.rows : k.id = l.id /\ k.pipe = l.pipe) \/ l.id = issued + 1

LEMMA FollowsKeeps ==
  ASSUME Sensible, StoreInv, NEW p, NEW new \in SUBSET {issued + 1}, Follows(store', p, new),
         issued' = issued \/ (issued' = issued + 1 /\ issued < MaxIds),
         new # {} => issued' = issued + 1
  PROVE  StoreInv' /\ Known
<1>0. /\ issued \in Nat /\ issued <= MaxIds /\ MaxIds \in Nat /\ issued' \in Nat
      /\ issued <= issued' /\ issued' <= MaxIds
      /\ \A i \in new : i = issued + 1 /\ i = issued'
  BY DEF StoreInv, Sensible
<1>r. RowsFollow(store'.rows, p, new) /\ RemoteFollows(store'.remote, p, new) BY DEF Follows
<1>t. /\ \A k \in store'.rows : k.id \in Nat /\ k.ext \in Nat
      /\ \A k \in store.rows : k.id \in Nat
      /\ \A k \in store'.remote : k.id \in Nat
      /\ \A k \in store.remote : k.id \in Nat
  <2>1. Ids \subseteq Nat /\ Ids \cup {Nil} \subseteq Nat BY <1>0 DEF Ids, Nil
  <2>2. \A k \in Row : k.id \in Nat /\ k.ext \in Nat BY <2>1 DEF Row
  <2>3. \A s \in Scheme : s.id \in Nat BY <2>1 DEF Scheme
  <2>4. QED BY <1>r, <2>2, <2>3 DEF StoreInv, Typed, RowsFollow, RemoteFollows
<1>1. Typed(store') /\ Keyed(store')
  BY <1>r DEF Typed, Keyed, Follows, RowsFollow, RemoteFollows
<1>2. \A x \in store'.rows : x.id <= issued'
  <2>1. TAKE x \in store'.rows
  <2>2. CASE x.id \in new
    <3>1. x.id = issued' BY <1>0, <2>2
    <3>2. QED BY <1>0, <3>1
  <2>3. CASE \E k \in store.rows : k.id = x.id
    <3>1. x.id <= issued BY <2>3 DEF StoreInv
    <3>2. QED BY <1>0, <1>t, <3>1
  <2>4. QED BY <1>r, <2>2, <2>3 DEF RowsFollow
<1>3. \A x \in store'.remote : x.id <= issued'
  <2>1. TAKE x \in store'.remote
  <2>2. CASE x.id \in new
    <3>1. x.id = issued' BY <1>0, <2>2
    <3>2. QED BY <1>0, <3>1
  <2>3. CASE \E k \in store.remote : k.id = x.id
    <3>1. x.id <= issued BY <2>3 DEF StoreInv
    <3>2. QED BY <1>0, <1>t, <3>1
  <2>4. QED BY <1>r, <2>2, <2>3 DEF RemoteFollows
<1>4. ASSUME NEW l \in store'.rows PROVE Owned(l.pipe, l.ext)'
  <2>1. CASE Owned(l.pipe, l.ext)
    <3>1. l.ext \in 0 .. issued' /\ l.ext # issued + 1 BY <1>0, <1>t, <2>1 DEF Owned
    <3>2. ASSUME NEW s \in store'.remote, s.id = l.ext PROVE s.pipe = l.pipe
      <4>1. s.id \notin new BY <1>0, <3>1, <3>2
      <4>2. PICK r \in store.remote : r.id = s.id /\ r.pipe = s.pipe
        BY <1>r, <4>1 DEF RemoteFollows
      <4>3. QED BY <2>1, <3>2, <4>2 DEF Owned
    <3>3. QED BY <3>1, <3>2 DEF Owned
  <2>2. CASE l.ext \in new /\ l.pipe = p
    <3>1. l.ext \in 0 .. issued' BY <1>0, <1>t, <2>2
    <3>2. ASSUME NEW s \in store'.remote, s.id = l.ext PROVE s.pipe = l.pipe
      <4>1. ~ \E r \in store.remote : r.id = s.id
        BY <1>0, <1>t, <2>2, <3>2 DEF StoreInv
      <4>2. QED BY <1>r, <2>2, <4>1 DEF RemoteFollows
    <3>3. QED BY <3>1, <3>2 DEF Owned
  <2>3. QED BY <1>r, <2>1, <2>2 DEF RowsFollow
<1>5. StoreInv' BY <1>0, <1>1, <1>2, <1>3, <1>4 DEF StoreInv
<1>6. Known BY <1>0, <1>r DEF Known, RowsFollow, RemoteFollows
<1>7. QED BY <1>5, <1>6

(* The parts of a store that follow.                                       *)
LEMMA RowsLeft ==
  ASSUME StoreInv, NEW p, NEW new, NEW rows \in SUBSET store.rows
  PROVE  RowsFollow(rows, p, new)
BY DEF StoreInv, Typed, Keyed, RowsFollow

LEMMA RowReplaced ==
  ASSUME StoreInv, NEW p, NEW new, NEW l \in store.rows, NEW k \in Row,
         k.id = l.id, k.pipe = l.pipe, Owned(k.pipe, k.ext) \/ (k.ext \in new /\ k.pipe = p)
  PROVE  RowsFollow((store.rows \ {l}) \cup {k}, p, new)
BY DEF StoreInv, Typed, Keyed, RowsFollow

LEMMA RowAdded ==
  ASSUME Sensible, StoreInv, NEW p, NEW new, NEW k \in Row, k.id = issued + 1, k.id \in new,
         Owned(k.pipe, k.ext)
  PROVE  RowsFollow(store.rows \cup {k}, p, new)
<1>1. \A l \in store.rows : l.id # k.id
  <2>0. Ids \subseteq Nat BY DEF Ids, Sensible
  <2>1. \A l \in store.rows : l.id \in Nat BY <2>0 DEF StoreInv, Typed, Row
  <2>2. QED BY <2>1 DEF StoreInv
<1>2. QED BY <1>1 DEF StoreInv, Typed, Keyed, RowsFollow

LEMMA RemoteLeft ==
  ASSUME StoreInv, NEW p, NEW new, NEW remote \in SUBSET store.remote
  PROVE  RemoteFollows(remote, p, new)
BY DEF StoreInv, Typed, Keyed, RemoteFollows

LEMMA RemoteReplaced ==
  ASSUME StoreInv, NEW p, NEW new, NEW s \in store.remote, NEW r \in Scheme,
         r.id = s.id, r.pipe = s.pipe
  PROVE  RemoteFollows((store.remote \ {s}) \cup {r}, p, new)
BY DEF StoreInv, Typed, Keyed, RemoteFollows

LEMMA RemoteAdded ==
  ASSUME Sensible, StoreInv, NEW p, NEW new, NEW r \in Scheme, r.id = issued + 1, r.id \in new,
         r.pipe = p
  PROVE  RemoteFollows(store.remote \cup {r}, p, new)
<1>1. \A s \in store.remote : s.id # r.id
  <2>0. Ids \subseteq Nat BY DEF Ids, Sensible
  <2>1. \A s \in store.remote : s.id \in Nat BY <2>0 DEF StoreInv, Typed, Scheme
  <2>2. QED BY <2>1 DEF StoreInv
<1>2. QED BY <1>1 DEF StoreInv, Typed, Keyed, RemoteFollows

-----------------------------------------------------------------------------
(* What one item, a change elsewhere or a creation undone makes of the     *)
(* store.                                                                  *)

DataFits(p, v) == v \in DataView /\ Owned(p, v.ext)

LEMMA IdsAre == ASSUME Sensible PROVE Ids \subseteq Nat /\ Nil \in Nat /\ Nil \notin Ids
BY DEF Sensible, Ids, Nil

LEMMA NilOwned ==
  ASSUME Sensible, StoreInv, NEW p PROVE Owned(p, Nil)
<1>1. \A s \in store.remote : s.id # Nil BY IdsAre DEF StoreInv, Typed, Scheme
<1>2. QED BY <1>1 DEF Owned, StoreInv, Nil, Sensible

LEMMA NextIsId ==
  ASSUME Sensible, StoreInv, issued < MaxIds PROVE issued + 1 \in Ids
BY DEF Sensible, StoreInv, Ids

LEMMA RowFromIs ==
  ASSUME NEW i \in Ids, NEW p \in Pipes, NEW v \in DataView
  PROVE  /\ RowFrom(i, p, v) \in Row
         /\ RowFrom(i, p, v).id = i /\ RowFrom(i, p, v).pipe = p /\ RowFrom(i, p, v).ext = v.ext
BY DEF RowFrom, Row, DataView

LEMMA StayFollows ==
  ASSUME StoreInv, NEW p, NEW new PROVE Follows(store, p, new)
BY RowsLeft, RemoteLeft DEF Follows, StoreInv, Typed

LEMMA WithFollows ==
  ASSUME StoreInv, NEW p, NEW new, NEW l \in store.rows, NEW k \in Row, k.id = l.id,
         k.pipe = l.pipe, Owned(k.pipe, k.ext) \/ (k.ext \in new /\ k.pipe = p)
  PROVE  Follows(With(store, l, k), p, new)
<1>1. With(store, l, k) = [rows |-> (store.rows \ {l}) \cup {k}, remote |-> store.remote]
  <2>1. store = [rows |-> store.rows, remote |-> store.remote] BY DEF StoreInv, Typed
  <2>2. QED BY <2>1 DEF With
<1>2. RowsFollow((store.rows \ {l}) \cup {k}, p, new) BY RowReplaced
<1>3. RemoteFollows(store.remote, p, new) BY RemoteLeft
<1>4. QED BY <1>1, <1>2, <1>3 DEF Follows

LEMMA WithRemoteFollows ==
  ASSUME StoreInv, NEW p, NEW new, NEW rows, RowsFollow(rows, p, new),
         NEW s \in store.remote, NEW r \in Scheme, r.id = s.id, r.pipe = s.pipe,
         NEW st, st = [rows |-> rows, remote |-> store.remote]
  PROVE  Follows(WithRemote(st, s, r), p, new)
<1>1. WithRemote(st, s, r) = [rows |-> rows, remote |-> (store.remote \ {s}) \cup {r}]
  BY DEF WithRemote
<1>2. RemoteFollows((store.remote \ {s}) \cup {r}, p, new) BY RemoteReplaced
<1>3. QED BY <1>1, <1>2 DEF Follows

LEMMA PullAddFollows ==
  ASSUME Sensible, StoreInv, issued < MaxIds, NEW p \in Pipes, NEW v, DataFits(p, v),
         NEW st \in PullAdd(store, p, v, issued + 1)
  PROVE  Follows(st, p, {issued + 1})
<1> DEFINE k == RowFrom(issued + 1, p, v)
<1>1. k \in Row /\ k.id = issued + 1 /\ k.pipe = p /\ k.ext = v.ext
  BY NextIsId, RowFromIs DEF DataFits
<1>2. st = [rows |-> store.rows \cup {k}, remote |-> store.remote]
  BY DEF PullAdd, StoreInv, Typed
<1> HIDE DEF k
<1>3. RowsFollow(store.rows \cup {k}, p, {issued + 1}) BY <1>1, RowAdded DEF DataFits
<1>4. RemoteFollows(store.remote, p, {issued + 1}) BY RemoteLeft
<1>5. QED BY <1>2, <1>3, <1>4 DEF Follows

LEMMA PullDeleteFollows ==
  ASSUME StoreInv, NEW p, NEW row, NEW st \in PullDelete(store, p, row), NEW new
  PROVE  Follows(st, p, new)
<1>1. st = [rows |-> {l \in store.rows : ~(l.id = row /\ l.pipe = p)}, remote |-> store.remote]
  BY DEF PullDelete, StoreInv, Typed
<1>2. QED BY <1>1, RowsLeft, RemoteLeft DEF Follows

LEMMA PulledIs ==
  ASSUME NEW l \in Row, NEW v \in DataView, NEW category
  PROVE  /\ Pulled(l, v, category) \in Row
         /\ Pulled(l, v, category).id = l.id /\ Pulled(l, v, category).pipe = l.pipe
         /\ Pulled(l, v, category).ext \in {l.ext, v.ext}
         /\ category = "full" =>
              /\ Pulled(l, v, category).ext = v.ext /\ Pulled(l, v, category).branch = v.branch
              /\ Pulled(l, v, category).mr = v.mr /\ Pulled(l, v, category).daily = v.daily
              /\ Pulled(l, v, category).planName = v.planName
<1>1. PICK mr \in BOOLEAN, daily \in BOOLEAN, own \in BOOLEAN :
        /\ mr <=> category \in {"mr_binding", "full"}
        /\ daily <=> category \in {"execution_plan", "full"}
        /\ own <=> category \in {"scheme", "full"}
  OBVIOUS
<1>2. PICK a \in Branches : a = IF own \/ mr THEN v.branch ELSE l.branch BY DEF Row, DataView
<1>3. PICK b \in Ids \cup {Nil} : b = IF own THEN v.ext ELSE l.ext BY DEF Row, DataView
<1>4. PICK c \in Names : c = IF own THEN v.name ELSE l.name BY DEF Row, DataView
<1>5. PICK d \in BOOLEAN : d = IF mr THEN v.mr ELSE l.mr BY DEF Row, DataView
<1>6. PICK e \in Ids \cup {Nil} : e = IF mr THEN v.binding ELSE l.binding BY DEF Row, DataView
<1>7. PICK f \in BOOLEAN : f = IF daily THEN v.daily ELSE l.daily BY DEF Row, DataView
<1>8. PICK g \in Ids \cup {Nil} : g = IF daily THEN v.plan ELSE l.plan BY DEF Row, DataView
<1>9. PICK h \in Names \cup {""} : h = IF daily THEN v.planName ELSE l.planName
  BY DEF Row, DataView
<1>10. PICK k : k = [l EXCEPT !.branch = a, !.ext = b, !.name = c, !.mr = d, !.binding = e,
                              !.daily = f, !.plan = g, !.planName = h]
  OBVIOUS
<1>11. Pulled(l, v, category) = k
  BY <1>1, <1>2, <1>3, <1>4, <1>5, <1>6, <1>7, <1>8, <1>9, <1>10, Zenon DEF Pulled
<1>12. /\ k \in Row /\ k.id = l.id /\ k.pipe = l.pipe /\ k.ext = b /\ k.branch = a
       /\ k.mr = d /\ k.daily = f /\ k.planName = h
  <2>1. k \in Row BY <1>2, <1>3, <1>4, <1>5, <1>6, <1>7, <1>8, <1>9, <1>10 DEF Row
  <2>2. k.id = l.id /\ k.pipe = l.pipe /\ k.ext = b /\ k.branch = a BY <1>10 DEF Row
  <2>3. k.mr = d /\ k.daily = f /\ k.planName = h BY <1>10 DEF Row
  <2>4. QED BY <2>1, <2>2, <2>3
<1>13. QED BY <1>1, <1>2, <1>3, <1>5, <1>7, <1>9, <1>11, <1>12

LEMMA PullUpdateFollows ==
  ASSUME StoreInv, NEW p, NEW row, NEW v, DataFits(p, v), NEW category,
         NEW st \in PullUpdate(store, p, row, v, category), NEW new
  PROVE  Follows(st, p, new)
<1>1. PICK l \in store.rows : l.pipe = p /\ st = With(store, l, Pulled(l, v, category))
  BY DEF PullUpdate, RowsOf
<1>2. l \in Row /\ Owned(l.pipe, l.ext) BY DEF StoreInv, Typed
<1>3. /\ Pulled(l, v, category) \in Row
      /\ Pulled(l, v, category).id = l.id /\ Pulled(l, v, category).pipe = l.pipe
      /\ Pulled(l, v, category).ext \in {l.ext, v.ext}
  BY <1>2, PulledIs DEF DataFits
<1>4. Owned(l.pipe, Pulled(l, v, category).ext) BY <1>1, <1>2, <1>3 DEF DataFits
<1>5. QED BY <1>1, <1>3, <1>4, WithFollows

LEMMA DeleteRemoteFollows ==
  ASSUME StoreInv, NEW p, NEW v, NEW st \in DeleteRemote(store, v), NEW new
  PROVE  Follows(st, p, new)
<1>1. st = [rows |-> store.rows, remote |-> {s \in store.remote : s.id # v.ext}]
  BY DEF DeleteRemote, StoreInv, Typed
<1>2. QED BY <1>1, RowsLeft, RemoteLeft DEF Follows

LEMMA PlanIdsAreIds ==
  ASSUME StoreInv, NEW p, NEW name, NEW i \in Ids
  PROVE  PlanIds(store, p, name, i) \subseteq Ids
BY DEF PlanIds, StoreInv, Typed, Scheme, Plan

LEMMA PushCreateFollows ==
  ASSUME Sensible, StoreInv, issued < MaxIds, NEW p \in Pipes, NEW row, RowOf(p, row),
         NEW st \in PushCreate(store, p, row, issued + 1)
  PROVE  Follows(st, p, {issued + 1})
<1> DEFINE i == issued + 1
           s(l) == [id |-> i, pipe |-> p, name |-> l.name, branch |-> l.branch,
                    bindings |-> IF l.mr THEN {[id |-> i, branch |-> l.branch]} ELSE {},
                    plans |-> IF l.daily THEN {[id |-> i, name |-> l.name]} ELSE {}]
           k(l, j) == [l EXCEPT !.ext = i, !.binding = IF l.mr THEN i ELSE @,
                                !.plan = IF l.daily THEN j ELSE @,
                                !.planName = IF l.daily THEN l.name ELSE @]
<1>1. PICK l \in store.rows, j \in Ids :
        /\ l.id = row
        /\ st = [store EXCEPT !.remote = @ \cup {s(l)}, !.rows = (@ \ {l}) \cup {k(l, j)}]
  <2>1. PICK l \in store.rows : l.id = row /\ \E j \in PlanIds(store, p, l.name, i) :
          st = Created(store, p, l, i, j)
    BY DEF PushCreate
  <2>2. PlanIds(store, p, l.name, i) \subseteq Ids BY NextIsId, PlanIdsAreIds
  <2>3. \A j : Created(store, p, l, i, j) =
                [store EXCEPT !.remote = @ \cup {s(l)}, !.rows = (@ \ {l}) \cup {k(l, j)}]
    BY DEF Created
  <2> HIDE DEF s, k
  <2>4. QED BY <2>1, <2>2, <2>3, Zenon
<1>2. st = [rows |-> (store.rows \ {l}) \cup {k(l, j)}, remote |-> store.remote \cup {s(l)}]
  BY <1>1 DEF StoreInv, Typed
<1>3. l \in Row /\ l.pipe = p /\ i \in Ids BY <1>1, NextIsId DEF StoreInv, Typed, RowOf
<1>4. s(l) \in Scheme /\ s(l).id = i /\ s(l).pipe = p
  <2>1. l.name \in Names /\ l.branch \in Branches BY <1>3 DEF Row
  <2>2. [id |-> i, branch |-> l.branch] \in Binding /\ [id |-> i, name |-> l.name] \in Plan
    BY <1>3, <2>1 DEF Binding, Plan
  <2>3. s(l).bindings \in SUBSET Binding /\ s(l).plans \in SUBSET Plan BY <2>2
  <2>4. QED BY <1>3, <2>1, <2>3 DEF Scheme
<1>5. k(l, j) \in Row /\ k(l, j).id = l.id /\ k(l, j).pipe = p /\ k(l, j).ext = i
  BY <1>3 DEF Row
<1> HIDE DEF s, k
<1>6. RowsFollow((store.rows \ {l}) \cup {k(l, j)}, p, {i}) BY <1>3, <1>5, RowReplaced
<1>7. RemoteFollows(store.remote \cup {s(l)}, p, {i}) BY <1>4, RemoteAdded
<1>8. QED BY <1>2, <1>6, <1>7 DEF Follows

LEMMA WrittenFollows ==
  ASSUME StoreInv, NEW p, NEW new, NEW row, NEW f,
         \A l \in store.rows : l.id = row =>
           /\ f[l] \in Row /\ f[l].id = l.id /\ f[l].pipe = l.pipe /\ f[l].ext = l.ext
  PROVE  \E rows : /\ Written(store, row, f) = [rows |-> rows, remote |-> store.remote]
                   /\ RowsFollow(rows, p, new)
<1> DEFINE g(l) == IF l.id = row THEN f[l] ELSE l
<1>1. store = [rows |-> store.rows, remote |-> store.remote] BY DEF StoreInv, Typed
<1>2. \A l \in store.rows : g(l) \in Row /\ g(l).id = l.id /\ g(l).pipe = l.pipe /\ g(l).ext = l.ext
  BY DEF StoreInv, Typed
<1>3. PICK rows : rows = {g(l) : l \in store.rows} OBVIOUS
<1>4. Written(store, row, f) = [store EXCEPT !.rows = rows] BY <1>3, Zenon DEF Written
<1>5. Written(store, row, f) = [rows |-> rows, remote |-> store.remote] BY <1>1, <1>4
<1> HIDE DEF g
<1>6. RowsFollow(rows, p, new) BY <1>2, <1>3 DEF StoreInv, Keyed, RowsFollow
<1>7. QED BY <1>5, <1>6

LEMMA PushedIs ==
  ASSUME StoreInv, NEW p, NEW row, NEW v, DataFits(p, v)
  PROVE  /\ Pushed(store, p, row, v).name \in Names /\ Pushed(store, p, row, v).branch \in Branches
         /\ Pushed(store, p, row, v).binding \in Ids \cup {Nil}
<1> DEFINE here == {l \in store.rows : l.id = row}
           k == IF here = {} THEN RowFrom(row, p, v) ELSE CHOOSE x \in here : TRUE
<1>1. here # {} => k \in Row BY DEF StoreInv, Typed
<1>2. k.name \in Names /\ k.branch \in Branches /\ k.binding \in Ids \cup {Nil}
  <2>1. CASE here = {} BY <2>1 DEF DataFits, DataView, RowFrom
  <2>2. CASE here # {}
    <3>1. k \in Row BY <1>1, <2>2
    <3> HIDE DEF k
    <3>2. QED BY <3>1 DEF Row
  <2>3. QED BY <2>1, <2>2
<1>3. Pushed(store, p, row, v) = IF k.ext = Nil THEN [k EXCEPT !.ext = v.ext] ELSE k
  BY DEF Pushed
<1>4. /\ [k EXCEPT !.ext = v.ext].name = k.name /\ [k EXCEPT !.ext = v.ext].branch = k.branch
      /\ [k EXCEPT !.ext = v.ext].binding = k.binding
  <2>1. k \in Row \/ k = RowFrom(row, p, v) BY <1>1
  <2> HIDE DEF k
  <2>2. QED BY <2>1 DEF Row, RowFrom
<1> HIDE DEF k
<1>5. QED BY <1>2, <1>3, <1>4

LEMMA PushBindingFollows ==
  ASSUME Sensible, StoreInv, issued < MaxIds, NEW p, NEW l, l.branch \in Branches,
         l.binding \in Ids \cup {Nil}, NEW st \in PushBinding(store, l, issued + 1)
  PROVE  Follows(st, p, {issued + 1})
<1> DEFINE i == issued + 1
           new == {i}
           f == [x \in store.rows |-> [x EXCEPT !.mr = TRUE, !.binding = i]]
           g == [x \in store.rows |-> [x EXCEPT !.mr = FALSE, !.binding = Nil]]
<1>1. i \in Ids BY NextIsId
<1>2. store = [rows |-> store.rows, remote |-> store.remote] /\ RowsFollow(store.rows, p, new)
  BY RowsLeft DEF StoreInv, Typed
<1>3. CASE l.mr /\ l.binding = Nil
  <2>1. PICK s \in store.remote :
          st = WithRemote(Written(store, l.id, f), s,
                          [s EXCEPT !.bindings = @ \cup {[id |-> i, branch |-> l.branch]}])
    BY <1>3, Zenon DEF PushBinding, Home
  <2>2. \A k \in store.rows : /\ f[k] \in Row /\ f[k].id = k.id /\ f[k].pipe = k.pipe
                              /\ f[k].ext = k.ext
    <3>1. TAKE k \in store.rows
    <3>2. k \in Row /\ f[k] = [k EXCEPT !.mr = TRUE, !.binding = i] BY DEF StoreInv, Typed
    <3>3. QED BY <1>1, <3>2 DEF Row
  <2> HIDE DEF f
  <2>3. PICK rows : /\ Written(store, l.id, f) = [rows |-> rows, remote |-> store.remote]
                    /\ RowsFollow(rows, p, new)
    BY <2>2, WrittenFollows
  <2>4. PICK bindings : bindings = s.bindings \cup {[id |-> i, branch |-> l.branch]} OBVIOUS
  <2>5. s \in Scheme /\ bindings \in SUBSET Binding
    BY <1>1, <2>4 DEF StoreInv, Typed, Scheme, Binding
  <2>6. PICK r : r = [s EXCEPT !.bindings = bindings] OBVIOUS
  <2>7. r \in Scheme /\ r.id = s.id /\ r.pipe = s.pipe BY <2>5, <2>6 DEF Scheme
  <2>8. st = WithRemote(Written(store, l.id, f), s, r) BY <2>1, <2>4, <2>6, Zenon
  <2>9. QED BY <2>3, <2>7, <2>8, WithRemoteFollows
<1>4. CASE ~l.mr /\ l.binding = Nil
  <2>1. st = store BY <1>4 DEF PushBinding
  <2>2. QED BY <2>1, StayFollows
<1>5. CASE l.binding # Nil
  <2>1. PICK s \in store.remote :
          \/ st = WithRemote(store, s,
                    [s EXCEPT !.bindings = {b \in s.bindings : b.id # l.binding}
                                             \cup {[id |-> l.binding, branch |-> l.branch]}])
          \/ st = WithRemote(Written(store, l.id, g), s,
                    [s EXCEPT !.bindings = {b \in s.bindings : b.id # l.binding}])
    BY <1>5, Zenon DEF PushBinding
  <2>2. \A k \in store.rows : /\ g[k] \in Row /\ g[k].id = k.id /\ g[k].pipe = k.pipe
                              /\ g[k].ext = k.ext
    <3>1. TAKE k \in store.rows
    <3>2. k \in Row /\ g[k] = [k EXCEPT !.mr = FALSE, !.binding = Nil] BY DEF StoreInv, Typed
    <3>3. QED BY <1>1, <3>2 DEF Row
  <2> HIDE DEF g
  <2>3. PICK rows : /\ Written(store, l.id, g) = [rows |-> rows, remote |-> store.remote]
                    /\ RowsFollow(rows, p, new)
    BY <2>2, WrittenFollows
  <2>4. PICK kept : kept = {b \in s.bindings : b.id # l.binding} OBVIOUS
  <2>5. PICK put : put = kept \cup {[id |-> l.binding, branch |-> l.branch]} OBVIOUS
  <2>6. s \in Scheme /\ kept \in SUBSET Binding BY <2>4 DEF StoreInv, Typed, Scheme
  <2>7. put \in SUBSET Binding BY <1>5, <2>5, <2>6 DEF Binding
  <2>8. CASE st = WithRemote(store, s, [s EXCEPT !.bindings = put])
    <3>1. PICK r : r = [s EXCEPT !.bindings = put] OBVIOUS
    <3>2. r \in Scheme /\ r.id = s.id /\ r.pipe = s.pipe BY <2>6, <2>7, <3>1 DEF Scheme
    <3>3. st = WithRemote(store, s, r) BY <2>8, <3>1
    <3>4. QED BY <1>2, <3>2, <3>3, WithRemoteFollows
  <2>9. CASE st = WithRemote(Written(store, l.id, g), s, [s EXCEPT !.bindings = kept])
    <3>1. PICK r : r = [s EXCEPT !.bindings = kept] OBVIOUS
    <3>2. r \in Scheme /\ r.id = s.id /\ r.pipe = s.pipe BY <2>6, <2>7, <3>1 DEF Scheme
    <3>3. st = WithRemote(Written(store, l.id, g), s, r) BY <2>9, <3>1
    <3>4. QED BY <2>3, <3>2, <3>3, WithRemoteFollows
  <2>10. QED BY <2>1, <2>4, <2>5, <2>8, <2>9
<1>6. QED BY <1>3, <1>4, <1>5

LEMMA PushPlanFollows ==
  ASSUME Sensible, StoreInv, issued < MaxIds, NEW p, NEW l, l.name \in Names,
         NEW st \in PushPlan(store, p, l, issued + 1)
  PROVE  Follows(st, p, {issued + 1})
<1> DEFINE i == issued + 1
           new == {i}
           f(j) == [x \in store.rows |-> [x EXCEPT !.daily = TRUE, !.plan = j, !.planName = l.name]]
           g == [x \in store.rows |-> [x EXCEPT !.daily = FALSE, !.plan = Nil, !.planName = ""]]
<1>1. i \in Ids BY NextIsId
<1>2. CASE l.daily
  <2>1. PICK s \in store.remote, j \in PlanIds(store, p, l.name, i) :
          st = WithRemote(Written(store, l.id, f(j)), s,
                          [s EXCEPT !.plans = @ \cup {[id |-> i, name |-> l.name]}])
    <3>1. PICK s \in Home(store, l), j \in PlanIds(store, p, l.name, i) :
            st = WithPlan(store, l, i, j, s)
      BY <1>2 DEF PushPlan
    <3>2. s \in store.remote BY DEF Home
    <3>3. QED BY <3>1, <3>2, Zenon DEF WithPlan
  <2>j. j \in Ids BY <1>1, PlanIdsAreIds
  <2>2. \A k \in store.rows : /\ f(j)[k] \in Row /\ f(j)[k].id = k.id
                              /\ f(j)[k].pipe = k.pipe /\ f(j)[k].ext = k.ext
    <3>1. TAKE k \in store.rows
    <3>2. k \in Row /\ f(j)[k] = [k EXCEPT !.daily = TRUE, !.plan = j, !.planName = l.name]
      BY DEF StoreInv, Typed
    <3>3. QED BY <2>j, <3>2 DEF Row
  <2> HIDE DEF f
  <2>3. PICK rows : /\ Written(store, l.id, f(j)) = [rows |-> rows, remote |-> store.remote]
                    /\ RowsFollow(rows, p, new)
    BY <2>2, WrittenFollows
  <2>4. PICK plans : plans = s.plans \cup {[id |-> i, name |-> l.name]} OBVIOUS
  <2>5. s \in Scheme /\ plans \in SUBSET Plan
    BY <1>1, <2>4 DEF StoreInv, Typed, Scheme, Plan
  <2>6. PICK r : r = [s EXCEPT !.plans = plans] OBVIOUS
  <2>7. r \in Scheme /\ r.id = s.id /\ r.pipe = s.pipe BY <2>5, <2>6 DEF Scheme
  <2>8. st = WithRemote(Written(store, l.id, f(j)), s, r) BY <2>1, <2>4, <2>6, Zenon
  <2>9. QED BY <2>3, <2>7, <2>8, WithRemoteFollows
<1>3. CASE ~l.daily /\ l.plan = Nil
  <2>1. st = store BY <1>3 DEF PushPlan
  <2>2. QED BY <2>1, StayFollows
<1>4. CASE ~l.daily /\ l.plan # Nil
  <2>1. PICK s \in store.remote :
          st = WithRemote(Written(store, l.id, g), s,
                          [s EXCEPT !.plans = {b \in @ : b.id # l.plan}])
    BY <1>4, Zenon DEF PushPlan
  <2>2. \A k \in store.rows : /\ g[k] \in Row /\ g[k].id = k.id /\ g[k].pipe = k.pipe
                              /\ g[k].ext = k.ext
    <3>1. TAKE k \in store.rows
    <3>2. k \in Row /\ g[k] = [k EXCEPT !.daily = FALSE, !.plan = Nil, !.planName = ""]
      BY DEF StoreInv, Typed
    <3>3. QED BY <3>2 DEF Row
  <2> HIDE DEF g
  <2>3. PICK rows : /\ Written(store, l.id, g) = [rows |-> rows, remote |-> store.remote]
                    /\ RowsFollow(rows, p, new)
    BY <2>2, WrittenFollows
  <2>4. PICK plans : plans = {b \in s.plans : b.id # l.plan} OBVIOUS
  <2>5. s \in Scheme /\ plans \in SUBSET Plan BY <2>4 DEF StoreInv, Typed, Scheme
  <2>6. PICK r : r = [s EXCEPT !.plans = plans] OBVIOUS
  <2>7. r \in Scheme /\ r.id = s.id /\ r.pipe = s.pipe BY <2>5, <2>6 DEF Scheme
  <2>8. st = WithRemote(Written(store, l.id, g), s, r) BY <2>1, <2>4, <2>6, Zenon
  <2>9. QED BY <2>3, <2>7, <2>8, WithRemoteFollows
<1>5. QED BY <1>2, <1>3, <1>4

LEMMA PushSchemeFollows ==
  ASSUME StoreInv, NEW p, NEW new, NEW l, l.name \in Names, l.branch \in Branches,
         NEW st \in PushScheme(store, l)
  PROVE  Follows(st, p, new)
<1>1. PICK s \in store.remote :
        st = WithRemote(store, s, [s EXCEPT !.name = l.name, !.branch = l.branch])
  BY DEF PushScheme, Home
<1>2. PICK r : r = [s EXCEPT !.name = l.name, !.branch = l.branch] OBVIOUS
<1>3. s \in Scheme /\ store = [rows |-> store.rows, remote |-> store.remote]
  BY DEF StoreInv, Typed
<1>4. r \in Scheme /\ r.id = s.id /\ r.pipe = s.pipe BY <1>2, <1>3 DEF Scheme
<1>5. RowsFollow(store.rows, p, new) BY RowsLeft
<1>6. st = WithRemote(store, s, r) BY <1>1, <1>2
<1>7. QED BY <1>3, <1>4, <1>5, <1>6, WithRemoteFollows

LEMMA PushFollows ==
  ASSUME Sensible, StoreInv, issued < MaxIds, NEW p, NEW row, NEW v, DataFits(p, v),
         NEW category, NEW st \in Push(store, p, row, v, category, issued + 1)
  PROVE  Follows(st, p, {issued + 1})
<1>1. PICK l : l = Pushed(store, p, row, v) OBVIOUS
<1>2. l.name \in Names /\ l.branch \in Branches /\ l.binding \in Ids \cup {Nil}
  BY <1>1, PushedIs
<1>3. \/ st \in PushBinding(store, l, issued + 1) \/ st \in PushPlan(store, p, l, issued + 1)
      \/ st \in PushScheme(store, l)
  BY <1>1, Zenon DEF Push
<1>4. QED BY <1>2, <1>3, PushBindingFollows, PushPlanFollows, PushSchemeFollows

(* What the answer to an item may rely on: the row and the data it names   *)
(* are its pipeline's.                                                     *)
ItemFits(w) ==
  /\ w.pipe \in Pipes /\ w.title \in Pipes
  /\ \/ w.action = "pull_add" /\ DataFits(w.pipe, w.data)
     \/ w.action = "delete_remote"
     \/ w.action \in {"pull", "push"} /\ RowOf(w.pipe, w.row) /\ DataFits(w.pipe, w.data)
     \/ w.action \in {"create_remote", "pull_delete"} /\ RowOf(w.pipe, w.row)

LEMMA CarriedFollows ==
  ASSUME Sensible, StoreInv, issued < MaxIds, NEW w, ItemFits(w),
         NEW st \in Carried(store, w, issued + 1)
  PROVE  Follows(st, w.pipe, {issued + 1})
<1>1. CASE w.action = "pull_add"
  <2>1. st \in PullAdd(store, w.pipe, w.data, issued + 1) BY <1>1 DEF Carried
  <2>2. QED BY <1>1, <2>1, PullAddFollows DEF ItemFits
<1>2. CASE w.action = "delete_remote"
  <2>1. st \in DeleteRemote(store, w.data) BY <1>2 DEF Carried
  <2>2. QED BY <2>1, DeleteRemoteFollows
<1>3. CASE w.action = "pull"
  <2>1. st \in PullUpdate(store, w.pipe, w.row, w.data, w.category) BY <1>3 DEF Carried
  <2>2. QED BY <1>3, <2>1, PullUpdateFollows DEF ItemFits
<1>4. CASE w.action = "push"
  <2>1. st \in Push(store, w.pipe, w.row, w.data, w.category, issued + 1) BY <1>4 DEF Carried
  <2>2. QED BY <1>4, <2>1, PushFollows DEF ItemFits
<1>5. CASE w.action = "create_remote"
  <2>1. st \in PushCreate(store, w.pipe, w.row, issued + 1) BY <1>5 DEF Carried
  <2>2. QED BY <1>5, <2>1, PushCreateFollows DEF ItemFits
<1>6. CASE w.action = "pull_delete"
  <2>1. st \in PullDelete(store, w.pipe, w.row) BY <1>6 DEF Carried
  <2>2. QED BY <2>1, PullDeleteFollows
<1>7. QED BY <1>1, <1>2, <1>3, <1>4, <1>5, <1>6 DEF ItemFits

LEMMA ConsoleFollows ==
  ASSUME Sensible, StoreInv, NEW s \in store.remote, issued < MaxIds,
         ConsoleChange(s, issued + 1), NEW p
  PROVE  Follows(store', p, {})
<1> DEFINE i == issued + 1
<1>1. /\ s \in Scheme /\ store = [rows |-> store.rows, remote |-> store.remote] /\ i \in Ids
      /\ s.branch \in Branches /\ s.name \in Names
  BY NextIsId DEF StoreInv, Typed, Scheme
<1>2. ASSUME NEW r \in Scheme, r.id = s.id, r.pipe = s.pipe, store' = WithRemote(store, s, r)
      PROVE  Follows(store', p, {})
  BY <1>1, <1>2, RowsLeft, WithRemoteFollows
<1>3. ASSUME NEW b \in Branches, store' = WithRemote(store, s, [s EXCEPT !.branch = b])
      PROVE  Follows(store', p, {})
  <2>1. PICK r : r = [s EXCEPT !.branch = b] OBVIOUS
  <2>2. r \in Scheme /\ r.id = s.id /\ r.pipe = s.pipe BY <1>1, <2>1 DEF Scheme
  <2>3. QED BY <1>2, <1>3, <2>1, <2>2
<1>4. ASSUME store' = WithRemote(store, s, [s EXCEPT !.bindings =
                        IF @ = {} THEN {[id |-> i, branch |-> s.branch]} ELSE {}])
      PROVE  Follows(store', p, {})
  <2>1. PICK c : c = IF s.bindings = {} THEN {[id |-> i, branch |-> s.branch]} ELSE {} OBVIOUS
  <2>2. c \in SUBSET Binding BY <1>1, <2>1 DEF Binding
  <2>3. PICK r : r = [s EXCEPT !.bindings = c] OBVIOUS
  <2>4. r \in Scheme /\ r.id = s.id /\ r.pipe = s.pipe BY <1>1, <2>2, <2>3 DEF Scheme
  <2>5. store' = WithRemote(store, s, r) BY <1>4, <2>1, <2>3, Zenon
  <2>6. QED BY <1>2, <2>4, <2>5
<1>5. ASSUME store' = WithRemote(store, s, [s EXCEPT !.plans =
                        IF @ = {} THEN {[id |-> i, name |-> s.name]} ELSE {}])
      PROVE  Follows(store', p, {})
  <2>1. PICK c : c = IF s.plans = {} THEN {[id |-> i, name |-> s.name]} ELSE {} OBVIOUS
  <2>2. c \in SUBSET Plan BY <1>1, <2>1 DEF Plan
  <2>3. PICK r : r = [s EXCEPT !.plans = c] OBVIOUS
  <2>4. r \in Scheme /\ r.id = s.id /\ r.pipe = s.pipe BY <1>1, <2>2, <2>3 DEF Scheme
  <2>5. store' = WithRemote(store, s, r) BY <1>5, <2>1, <2>3, Zenon
  <2>6. QED BY <1>2, <2>4, <2>5
<1>6. CASE store' = [store EXCEPT !.remote = @ \ {s}]
  <2>1. store' = [rows |-> store.rows, remote |-> store.remote \ {s}] BY <1>1, <1>6
  <2>2. QED BY <2>1, RowsLeft, RemoteLeft DEF Follows
<1>7. QED BY <1>3, <1>4, <1>5, <1>6 DEF ConsoleChange

LEMMA RowFollows ==
  ASSUME StoreInv, NEW l \in store.rows, RowChange(l), NEW p
  PROVE  Follows(store', p, {})
<1>1. l \in Row /\ Owned(l.pipe, l.ext) BY DEF StoreInv, Typed
<1>2. PICK k : /\ store' = With(store, l, k)
               /\ \/ \E b \in Branches : k = [l EXCEPT !.branch = b]
                  \/ k = [l EXCEPT !.mr = ~@]
                  \/ k = [l EXCEPT !.daily = ~@]
  BY DEF RowChange
<1>3. k \in Row /\ k.id = l.id /\ k.pipe = l.pipe /\ k.ext = l.ext BY <1>1, <1>2 DEF Row
<1>4. QED BY <1>1, <1>2, <1>3, WithFollows

LEMMA RollbackFollows ==
  ASSUME Sensible, StoreInv, issued < MaxIds, NEW p \in Pipes, NEW l \in store.rows,
         NEW done, NEW bound, NEW st \in RolledBack(store, p, l, issued + 1, bound, done)
  PROVE  Follows(st, p, {issued + 1})
<1> DEFINE i == issued + 1
           plan == IF done > 0 THEN l.plan ELSE Nil
           binding == IF done > 1 /\ ~bound THEN l.binding ELSE Nil
           k == [l EXCEPT !.ext = IF done = 3 THEN Nil ELSE @,
                          !.binding = IF done > 1 THEN Nil ELSE @,
                          !.mr = @ /\ (done < 2 \/ (l.binding = Nil /\ ~bound)),
                          !.plan = IF done > 0 THEN Nil ELSE @,
                          !.daily = @ /\ plan = Nil,
                          !.planName = IF plan = Nil THEN @ ELSE ""]
           bindings == IF bound /\ done < 2 THEN {[id |-> i, branch |-> l.branch]} ELSE {}
           made == [id |-> i, pipe |-> p, name |-> l.name, branch |-> l.branch, plans |-> {},
                    bindings |-> bindings]
           less(s) == [s EXCEPT !.plans = {b \in @ : b.id # plan},
                                !.bindings = {b \in @ : b.id # binding}]
           rest == {less(s) : s \in store.remote}
<1>1. PICK left \in SUBSET {made} :
        st = [rows |-> (store.rows \ {l}) \cup {k}, remote |-> rest \cup left]
  <2>1. PICK left \in IF bound /\ done = 3 THEN {{}} ELSE {{}, {made}} :
          st = [rows |-> (store.rows \ {l}) \cup {k}, remote |-> rest \cup left]
    BY Zenon DEF RolledBack
  <2> HIDE DEF made, k, rest
  <2>2. left \in SUBSET {made} BY <2>1
  <2>3. QED BY <2>1, <2>2
<1>2. l \in Row /\ i \in Ids BY NextIsId DEF StoreInv, Typed
<1>3. RowsFollow((store.rows \ {l}) \cup {k}, p, {i})
  <2>1. PICK mr \in BOOLEAN : mr = (l.mr /\ (done < 2 \/ (l.binding = Nil /\ ~bound)))
    BY <1>2 DEF Row
  <2>2. PICK daily \in BOOLEAN : daily = (l.daily /\ plan = Nil) BY <1>2 DEF Row
  <2>3. PICK n \in Names \cup {""} : n = IF plan = Nil THEN l.planName ELSE "" BY <1>2 DEF Row
  <2>4. PICK e \in {l.ext, Nil} : e = IF done = 3 THEN Nil ELSE l.ext OBVIOUS
  <2>5. PICK bd \in {l.binding, Nil} : bd = IF done > 1 THEN Nil ELSE l.binding OBVIOUS
  <2>6. PICK pl \in {l.plan, Nil} : pl = IF done > 0 THEN Nil ELSE l.plan OBVIOUS
  <2>7. PICK h : h = [l EXCEPT !.ext = e, !.binding = bd, !.mr = mr, !.plan = pl,
                               !.daily = daily, !.planName = n]
    OBVIOUS
  <2>8. h = k BY <2>1, <2>2, <2>3, <2>4, <2>5, <2>6, <2>7, Zenon
  <2>9. h \in Row BY <1>2, <2>7 DEF Row
  <2>10. h.id = l.id /\ h.pipe = l.pipe /\ h.ext = e BY <1>2, <2>7 DEF Row
  <2>11. Owned(h.pipe, h.ext) BY <2>4, <2>10, NilOwned DEF StoreInv
  <2> HIDE DEF k
  <2>12. QED BY <2>8, <2>9, <2>10, <2>11, RowReplaced
<1>4. made \in Scheme /\ made.id = i /\ made.pipe = p
  <2>1. [id |-> i, branch |-> l.branch] \in Binding BY <1>2 DEF Binding, Row
  <2>2. bindings \in SUBSET Binding BY <2>1
  <2> HIDE DEF bindings
  <2>3. QED BY <1>2, <2>2 DEF Scheme, Row
<1>5. ASSUME NEW s \in store.remote
      PROVE  less(s) \in Scheme /\ less(s).id = s.id /\ less(s).pipe = s.pipe
  <2>1. s \in Scheme BY DEF StoreInv, Typed
  <2>2. PICK plans \in SUBSET Plan : plans = {b \in s.plans : b.id # plan} BY <2>1 DEF Scheme
  <2>3. PICK bs \in SUBSET Binding : bs = {b \in s.bindings : b.id # binding}
    BY <2>1 DEF Scheme
  <2>4. less(s) = [s EXCEPT !.plans = plans, !.bindings = bs] BY <2>2, <2>3, Zenon
  <2> HIDE DEF less
  <2>5. QED BY <2>1, <2>4 DEF Scheme
<1> HIDE DEF less, made, k
<1>6. \A s \in store.remote : s.id # i
  <2>1. \A s \in store.remote : s.id \in Nat /\ s.id <= issued
    BY IdsAre DEF StoreInv, Typed, Scheme
  <2>2. issued \in Nat BY DEF StoreInv, Sensible
  <2>3. QED BY <2>1, <2>2
<1>7. RemoteFollows(rest \cup left, p, {i})
  BY <1>4, <1>5, <1>6 DEF RemoteFollows, StoreInv, Keyed
<1>8. QED BY <1>1, <1>3, <1>7 DEF Follows

-----------------------------------------------------------------------------
(* What the differences and the requests of the page rely on *)

LEMMA OwnedStays ==
  ASSUME Known, NEW p, NEW e, Owned(p, e) PROVE Owned(p, e)'
<1>1. e \in 0 .. issued' /\ e # issued + 1 BY DEF Known, Owned
<1>2. ASSUME NEW s \in store'.remote, s.id = e PROVE s.pipe = p
  <2>1. PICK r \in store.remote : r.id = s.id /\ r.pipe = s.pipe BY <1>1, <1>2 DEF Known
  <2>2. QED BY <1>2, <2>1 DEF Owned
<1>3. QED BY <1>1, <1>2 DEF Owned

LEMMA RowStays ==
  ASSUME Known, NEW p, NEW row, RowOf(p, row) PROVE RowOf(p, row)'
<1>1. row \in 0 .. issued' /\ row # issued + 1 BY DEF Known, RowOf
<1>2. ASSUME NEW l \in store'.rows, l.id = row PROVE l.pipe = p
  <2>1. PICK k \in store.rows : k.id = l.id /\ k.pipe = l.pipe BY <1>1, <1>2 DEF Known
  <2>2. QED BY <1>2, <2>1 DEF RowOf
<1>3. QED BY <1>1, <1>2 DEF RowOf

LEMMA DataStays ==
  ASSUME Known, NEW p, NEW v, DataFits(p, v) PROVE DataFits(p, v)'
BY OwnedStays DEF DataFits

DiffFits(d) ==
  /\ d.pipe \in Pipes
  /\ \A u \in d.update : RowOf(d.pipe, u.row) /\ DataFits(d.pipe, u.data)
  /\ \A v \in d.add : DataFits(d.pipe, v)
  /\ \A row \in d.delete : RowOf(d.pipe, row)
CallFits(w) ==
  /\ w.kind = "item" => ItemFits(w)
  /\ w.kind = "diff" => w.pipe \in Pipes /\ (w.answer # None => DiffFits(w.answer))

PageInv ==
  /\ visible \in BOOLEAN /\ loading \in BOOLEAN /\ syncing \in BOOLEAN
  /\ target \in Pipes \cup {None} /\ (visible => target \in Pipes)
  /\ diff # None => DiffFits(diff)
  /\ \A w \in waiting : CallFits(w)

LEMMA DiffStays == ASSUME Known, NEW d, DiffFits(d) PROVE DiffFits(d)'
BY RowStays, DataStays DEF DiffFits

LEMMA CallStays == ASSUME Known, NEW w, CallFits(w) PROVE CallFits(w)'
<1>1. ASSUME w.kind = "item" PROVE ItemFits(w)'
  <2>1. ItemFits(w) BY <1>1 DEF CallFits
  <2>2. CASE w.action = "pull_add" /\ DataFits(w.pipe, w.data)
    BY <2>1, <2>2, DataStays DEF ItemFits
  <2>3. CASE w.action = "delete_remote" BY <2>1, <2>3 DEF ItemFits
  <2>4. CASE w.action \in {"pull", "push"} /\ RowOf(w.pipe, w.row) /\ DataFits(w.pipe, w.data)
    BY <2>1, <2>4, DataStays, RowStays DEF ItemFits
  <2>5. CASE w.action \in {"create_remote", "pull_delete"} /\ RowOf(w.pipe, w.row)
    BY <2>1, <2>5, RowStays DEF ItemFits
  <2>6. QED BY <2>1, <2>2, <2>3, <2>4, <2>5 DEF ItemFits
<1>2. QED BY <1>1, DiffStays DEF CallFits

LEMMA IdFacts ==
  ASSUME Sensible, StoreInv
  PROVE  /\ issued \in Nat
         /\ \A l \in store.rows : l.id \in 0 .. issued
         /\ \A s \in store.remote : s.id \in 0 .. issued
<1>1. \A l \in store.rows : l.id \in Nat BY IdsAre DEF StoreInv, Typed, Row
<1>2. \A s \in store.remote : s.id \in Nat BY IdsAre DEF StoreInv, Typed, Scheme
<1>3. QED BY <1>1, <1>2 DEF StoreInv, Sensible

LEMMA ViewFits ==
  ASSUME Sensible, StoreInv, NEW p, NEW v \in Views(store, p) PROVE DataFits(p, v)
<1>1. PICK s \in store.remote : s.pipe = p /\ v = View(s) BY DEF Views
<1>2. s \in Scheme BY DEF StoreInv, Typed
<1>3. v \in DataView /\ v.ext = s.id BY <1>1, <1>2, ViewIs
<1>4. Owned(p, s.id) BY <1>1, IdFacts DEF Owned, StoreInv, Keyed
<1>5. QED BY <1>3, <1>4 DEF DataFits

LEMMA DifferencesFit ==
  ASSUME Sensible, StoreInv, NEW p \in Pipes PROVE DiffFits(Differences(store, p))
<1>1. PICK d : d = Differences(store, p) OBVIOUS
<1>2. d.pipe = p /\ d.update = Updates(store, p) /\ d.add = Additions(store, p)
      /\ d.delete = Surplus(store, p)
  BY <1>1 DEF Differences
<1>3. \A l \in RowsOf(store, p) : RowOf(p, l.id)
  BY IdFacts DEF RowsOf, RowOf, StoreInv, Keyed
<1>4. ASSUME NEW u \in d.update PROVE RowOf(p, u.row) /\ DataFits(p, u.data)
  <2>1. PICK l \in RowsOf(store, p), v \in Views(store, p) :
          u = [row |-> l.id, data |-> v, changes |-> Changes(l, v)]
    BY <1>2 DEF Updates
  <2>2. u.row = l.id /\ u.data = v BY <2>1
  <2>3. QED BY <1>3, <2>2, ViewFits
<1>5. ASSUME NEW v \in d.add PROVE DataFits(p, v) BY <1>2, ViewFits DEF Additions
<1>6. ASSUME NEW row \in d.delete PROVE RowOf(p, row) BY <1>2, <1>3 DEF Surplus
<1>7. DiffFits(d) BY <1>2, <1>4, <1>5, <1>6 DEF DiffFits
<1>8. QED BY <1>1, <1>7

-----------------------------------------------------------------------------
(* At first, and at each step *)

LEMMA InitStore == ASSUME Sensible, Init PROVE StoreInv /\ PageInv
<1> DEFINE objects == store.rows \cup store.remote
           Fits(i) == /\ \A x \in objects : x.id <= i
                      /\ i = Nil \/ \E x \in objects : x.id = i
           T == {x.id : x \in objects}
<1>1. Typed(store) /\ Keyed(store) /\ store = Initially BY DEF Sensible, Init
<1>2. \A x \in objects : x.id \in Ids BY <1>1 DEF Typed, Row, Scheme
<1>3. \E i \in Ids \cup {Nil} : Fits(i)
  <2>1. CASE objects = {} BY <2>1
  <2>2. CASE objects # {}
    <3>1. T \in SUBSET 0 .. MaxIds /\ T # {} BY <1>2, <2>2 DEF Ids
    <3>2. PICK i \in T : \A y \in T : i >= y BY <3>1, GreatestExists DEF Sensible
    <3>3. i \in Ids /\ \A x \in objects : x.id <= i BY <1>2, <3>2, IdsAre
    <3>4. QED BY <3>2, <3>3
  <2>3. QED BY <2>1, <2>2
<1>4. issued = CHOOSE i \in Ids \cup {Nil} : Fits(i) BY DEF Init
<1> HIDE DEF Fits
<1>5. issued \in Ids \cup {Nil} /\ Fits(issued) BY <1>3, <1>4
<1> USE DEF Fits
<1>6. issued \in 0 .. MaxIds BY <1>5 DEF Ids, Nil, Sensible
<1>7. ASSUME NEW l \in store.rows PROVE Owned(l.pipe, l.ext)
  <2>1. l.ext \in Nat BY <1>1, IdsAre DEF Typed, Row
  <2>2. l.ext <= issued
    <3>1. CASE l.ext = Nil BY <1>6, <3>1 DEF Nil
    <3>2. CASE \E x \in objects : l.ext <= x.id
      <4>1. PICK x \in objects : l.ext <= x.id BY <3>2
      <4>2. x.id \in Nat /\ x.id <= issued /\ issued \in Nat BY <1>2, <1>5, <1>6, IdsAre
      <4>3. QED BY <2>1, <4>1, <4>2
    <3>3. QED BY <1>1, <3>1, <3>2 DEF Sensible
  <2>3. \A s \in store.remote : l.ext = s.id => l.pipe = s.pipe BY <1>1 DEF Sensible
  <2>4. QED BY <1>6, <2>1, <2>2, <2>3 DEF Owned
<1>8. StoreInv BY <1>1, <1>5, <1>6, <1>7 DEF StoreInv
<1>9. PageInv BY DEF Init, PageInv
<1>10. QED BY <1>8, <1>9

LEMMA StepStore ==
  ASSUME Sensible, StoreInv, PageInv, [Next]_vars PROVE StoreInv' /\ Known
<1>i. issued \in Nat /\ {} \in SUBSET {issued + 1} /\ MaxIds \in Nat BY IdFacts DEF Sensible
<1>1. ASSUME UNCHANGED <<store, issued>> PROVE StoreInv' /\ Known
  BY <1>i, <1>1 DEF StoreInv, Typed, Keyed, Owned, Known
<1>2. ASSUME NEW w \in waiting, ItemDone(w) PROVE StoreInv' /\ Known
  <2>1. /\ ItemFits(w) /\ issued < MaxIds /\ issued' = issued + 1
        /\ store' \in Carried(store, w, issued + 1)
    BY <1>2 DEF ItemDone, PageInv, CallFits
  <2>2. Follows(store', w.pipe, {issued + 1}) BY <2>1, CarriedFollows
  <2>3. QED BY <2>1, <2>2, FollowsKeeps
<1>3. ASSUME NEW w \in waiting, CreateRolledBack(w) PROVE StoreInv' /\ Known
  <2>1. issued < MaxIds /\ issued' = issued + 1 BY <1>3 DEF CreateRolledBack
  <2>2. ItemFits(w) BY <1>3 DEF CreateRolledBack, PageInv, CallFits
  <2>3. PICK l \in store.rows :
          \E done, bound : store' \in RolledBack(store, w.pipe, l, issued + 1, bound, done)
    BY <1>3, Zenon DEF CreateRolledBack
  <2>4. Follows(store', w.pipe, {issued + 1})
    BY <2>1, <2>2, <2>3, RollbackFollows DEF ItemFits
  <2>5. QED BY <2>1, <2>4, FollowsKeeps
<1>4. ASSUME Elsewhere PROVE StoreInv' /\ Known
  <2>1. issued < MaxIds /\ issued' = issued + 1 BY <1>4 DEF Elsewhere
  <2>2. Follows(store', None, {}) BY <1>4, <2>1, ConsoleFollows, RowFollows DEF Elsewhere
  <2>3. QED BY <1>i, <2>1, <2>2, FollowsKeeps
<1>5. QED BY <1>1, <1>2, <1>3, <1>4
       DEF Next, vars, OpenDiff, RefreshDiff, CloseDiff, SyncItem, Calculate, DiffAnswer,
           DiffRefused, ItemFailed

LEMMA ItemsFit ==
  ASSUME DiffFits(diff), target \in Pipes, NEW x \in UpdateItems \cup AddItems \cup DeleteItems,
         NEW w, w = [kind |-> "item", pipe |-> ItemPipe, action |-> x.action,
                     category |-> x.category, row |-> x.row, data |-> x.data,
                     title |-> target, n |-> sent]
  PROVE  CallFits(w)
<1>1. /\ w.kind = "item" /\ w.pipe = diff.pipe /\ w.title = target /\ w.action = x.action
      /\ w.row = x.row /\ w.data = x.data
  BY DEF ItemPipe
<1>2. CASE x \in UpdateItems
  <2>1. PICK u \in diff.update, a \in {"pull", "push"} : \E c : x = Item(a, c, u.row, u.data)
    BY <1>2 DEF UpdateItems
  <2>2. x.action = a /\ x.row = u.row /\ x.data = u.data BY <2>1 DEF Item
  <2>3. RowOf(diff.pipe, u.row) /\ DataFits(diff.pipe, u.data) BY DEF DiffFits
  <2>4. ItemFits(w) BY <1>1, <2>2, <2>3 DEF ItemFits, DiffFits
  <2>5. QED BY <1>1, <2>4 DEF CallFits
<1>3. CASE x \in AddItems
  <2>1. PICK v \in diff.add, a \in {"pull_add", "delete_remote"} : x = Item(a, "full", Nil, v)
    BY <1>3 DEF AddItems
  <2>2. x.action = a /\ x.data = v BY <2>1 DEF Item
  <2>3. DataFits(diff.pipe, v) BY DEF DiffFits
  <2>4. ItemFits(w) BY <1>1, <2>2, <2>3 DEF ItemFits, DiffFits
  <2>5. QED BY <1>1, <2>4 DEF CallFits
<1>4. CASE x \in DeleteItems
  <2>1. PICK row \in diff.delete, a \in {"create_remote", "pull_delete"} :
          x = Item(a, "full", row, NoData)
    BY <1>4 DEF DeleteItems
  <2>2. x.action = a /\ x.row = row BY <2>1 DEF Item
  <2>3. RowOf(diff.pipe, row) BY DEF DiffFits
  <2>4. ItemFits(w) BY <1>1, <2>2, <2>3 DEF ItemFits, DiffFits
  <2>5. QED BY <1>1, <2>4 DEF CallFits
<1>5. QED BY <1>2, <1>3, <1>4

LEMMA TriggerFits ==
  ASSUME Known, NEW p \in Pipes, NEW awaited, NEW rest \in SUBSET waiting,
         Trigger(p, awaited, rest), \A w \in waiting : CallFits(w), syncing' \in BOOLEAN
  PROVE  PageInv'
<1>1. PICK v : v = [kind |-> "diff", pipe |-> p, awaited |-> awaited, answer |-> None, n |-> sent]
  OBVIOUS
<1>2. CallFits(v)' BY <1>1 DEF CallFits
<1>3. waiting' = rest \cup {v} BY <1>1 DEF Trigger
<1>4. \A w \in waiting' : CallFits(w)' BY <1>2, <1>3, CallStays
<1>5. QED BY <1>4 DEF PageInv, Trigger

LEMMA StepPage ==
  ASSUME Sensible, StoreInv, PageInv, Shaped, Known, [Next]_vars PROVE PageInv'
<1>1. \A w \in waiting : CallFits(w)' BY CallStays DEF PageInv
<1>2. diff # None => \E d : d = diff /\ DiffFits(d)' BY DiffStays DEF PageInv
<1>3. CASE \E p \in Pipes : OpenDiff(p)
  BY <1>3, TriggerFits DEF OpenDiff, PageInv
<1>4. CASE RefreshDiff
  <2>1. target \in Pipes BY <1>4 DEF RefreshDiff, PageInv
  <2>2. PICK p \in Pipes : p = target BY <2>1
  <2>3. QED BY <1>4, <2>2, TriggerFits DEF RefreshDiff, PageInv
<1>5. ASSUME waiting' \subseteq waiting, UNCHANGED <<target, diff>>,
             visible' = visible \/ visible' = FALSE, loading' = loading \/ loading' = FALSE,
             syncing' \in BOOLEAN
      PROVE  PageInv'
  <2>1. \A w \in waiting' : CallFits(w)' BY <1>1, <1>5
  <2>2. diff' # None => DiffFits(diff)' BY <1>2, <1>5 DEF DiffFits
  <2>3. visible' \in BOOLEAN /\ loading' \in BOOLEAN /\ (visible' => visible)
    <3>1. visible \in BOOLEAN /\ loading \in BOOLEAN BY DEF PageInv
    <3>2. CASE visible' = visible BY <1>5, <3>1, <3>2
    <3>3. CASE visible' = FALSE BY <1>5, <3>1, <3>3
    <3>4. QED BY <1>5, <3>2, <3>3
  <2>4. target' \in Pipes \cup {None} /\ (visible' => target' \in Pipes)
    BY <1>5, <2>3 DEF PageInv
  <2>5. QED BY <1>5, <2>1, <2>2, <2>3, <2>4 DEF PageInv
<1>6. CASE CloseDiff \/ Elsewhere \/ UNCHANGED vars
  BY <1>5, <1>6 DEF CloseDiff, Elsewhere, vars, PageInv
<1>7. CASE SyncItem
  <2>1. /\ syncing' = TRUE /\ UNCHANGED <<visible, loading, diff, target>>
        /\ diff # None /\ target \in Pipes
    BY <1>7 DEF SyncItem, CanSync, Enabled, PageInv
  <2>2. PICK x \in UpdateItems \cup AddItems \cup DeleteItems : Ask(x) BY <1>7 DEF SyncItem
  <2>3. PICK v : v = [kind |-> "item", pipe |-> ItemPipe, action |-> x.action,
                      category |-> x.category, row |-> x.row, data |-> x.data,
                      title |-> target, n |-> sent]
    OBVIOUS
  <2>4. waiting' = waiting \cup {v} BY <2>2, <2>3 DEF Ask
  <2>5. CallFits(v) BY <2>1, <2>3, ItemsFit DEF PageInv
  <2>6. CallFits(v)' BY <2>5, CallStays
  <2>7. QED BY <1>1, <1>2, <2>1, <2>4, <2>6 DEF PageInv, DiffFits
<1>8. ASSUME NEW w \in waiting, Calculate(w) PROVE PageInv'
  <2>1. DiffShape(w) /\ w.kind = "diff" BY <1>8 DEF Calculate, Shaped
  <2>2. w.pipe \in Pipes BY <2>1 DEF PageInv, CallFits
  <2>3. PICK d : d = Differences(store, w.pipe) OBVIOUS
  <2>4. DiffFits(d)' BY <2>2, <2>3, DifferencesFit, DiffStays
  <2>5. PICK v : v = [w EXCEPT !.answer = d] OBVIOUS
  <2>6. v = [kind |-> "diff", pipe |-> w.pipe, awaited |-> w.awaited, answer |-> d, n |-> w.n]
    BY <2>1, <2>5 DEF DiffShape
  <2>7. CallFits(v)' BY <2>2, <2>4, <2>6 DEF CallFits
  <2>8. waiting' = (waiting \ {w}) \cup {v} BY <1>8, <2>3, <2>5 DEF Calculate
  <2>9. UNCHANGED <<visible, loading, diff, target, syncing>> BY <1>8 DEF Calculate
  <2>10. QED BY <1>1, <1>2, <2>7, <2>8, <2>9 DEF PageInv, DiffFits
<1>9. ASSUME NEW w \in waiting, DiffAnswer(w) PROVE PageInv'
  <2>1. PICK d : d = w.answer OBVIOUS
  <2>2. DiffFits(d)' BY <1>9, <2>1, DiffStays DEF DiffAnswer, PageInv, CallFits
  <2>3. DiffFits(diff)' BY <1>9, <2>1, <2>2 DEF DiffAnswer, DiffFits
  <2>4. /\ waiting' \subseteq waiting /\ UNCHANGED <<visible, target>> /\ loading' = FALSE
        /\ syncing' \in BOOLEAN
    BY <1>9 DEF DiffAnswer
  <2>5. QED BY <1>1, <2>3, <2>4 DEF PageInv
<1>10. ASSUME NEW w \in waiting, DiffRefused(w) PROVE PageInv'
  BY <1>5, <1>10 DEF DiffRefused
<1>11. ASSUME NEW w \in waiting, ItemDone(w) PROVE PageInv'
  <2>1. w.title \in Pipes BY <1>11 DEF ItemDone, PageInv, CallFits, ItemFits
  <2>2. waiting \ {w} \in SUBSET waiting OBVIOUS
  <2>3. Trigger(w.title, TRUE, waiting \ {w}) /\ syncing' \in BOOLEAN
    BY <1>11 DEF ItemDone, PageInv
  <2>4. QED BY <2>1, <2>2, <2>3, TriggerFits DEF PageInv
<1>12. ASSUME NEW w \in waiting, CreateRolledBack(w) \/ ItemFailed(w) PROVE PageInv'
  <2>1. waiting' \subseteq waiting /\ UNCHANGED <<visible, loading, diff, target>> /\ ~syncing'
        /\ syncing' \in BOOLEAN
    BY <1>12 DEF CreateRolledBack, ItemFailed
  <2>2. QED BY <1>5, <2>1
<1>13. QED BY <1>3, <1>4, <1>6, <1>7, <1>8, <1>9, <1>10, <1>11, <1>12 DEF Next

Inv == StoreInv /\ PageInv /\ Shaped /\ OneItem

LEMMA StepInv == ASSUME Sensible, Inv, [Next]_vars PROVE Inv'
<1>1. Shaped' /\ OneItem' BY StepOneItem DEF Inv
<1>2. StoreInv' /\ Known BY StepStore DEF Inv
<1>3. PageInv' BY <1>2, StepPage DEF Inv
<1>4. QED BY <1>1, <1>2, <1>3 DEF Inv

LEMMA InvHolds == ASSUME Sensible PROVE Spec => []Inv
<1>1. Init => Inv BY InitStore, InitOneItem DEF Inv
<1>2. Inv /\ [Next]_vars => Inv' BY StepInv
<1>3. QED BY <1>1, <1>2, PTL DEF Spec

(* TypeOK: the rows stay rows, and whatever is shown or asked for is of a  *)
(* pipeline, so that an item never goes out for none.                      *)
THEOREM TypeCorrect == ASSUME Sensible PROVE Spec => []TypeOK
<1>1. Inv => TypeOK
  <2>1. SUFFICES ASSUME Inv PROVE TypeOK OBVIOUS
  <2>2. store.rows \subseteq Row /\ issued \in Ids \cup {Nil}
    BY <2>1 DEF Inv, StoreInv, Typed, Ids, Nil, Sensible
  <2>3. {visible, loading, syncing} \subseteq BOOLEAN /\ target \in Pipes \cup {None}
    BY <2>1 DEF Inv, PageInv
  <2>4. diff = None \/ diff.pipe \in Pipes BY <2>1 DEF Inv, PageInv, DiffFits
  <2>5. QED BY <2>2, <2>3, <2>4 DEF TypeOK
<1>2. QED BY <1>1, InvHolds, PTL

(* OwnPipeline: no row names a remote scheme of another pipeline, although *)
(* items are asked for from differences that are stale, or are of another  *)
(* pipeline than the one in the title, and arrive in any order.            *)
THEOREM OwnPipelineOnly == ASSUME Sensible PROVE Spec => []OwnPipeline
<1>1. Inv => OwnPipeline BY DEF Inv, StoreInv, Owned, OwnPipeline
<1>2. QED BY <1>1, InvHolds, PTL

-----------------------------------------------------------------------------
(* What is pulled as a whole *)

LEMMA TheMatch ==
  ASSUME NEW n \in Nat, NEW rows, NEW v, NEW k \in rows, k.ext = v.ext,
         \A x \in rows : x.id \in 0 .. n, \A x, y \in rows : x.id = y.id => x = y,
         \A x \in rows : x.ext = v.ext => x.id <= k.id
  PROVE  Matching(rows, v) = {k}
<1> DEFINE byExt == {l \in rows : l.ext = v.ext}
<1>1. k \in byExt /\ \A x \in byExt : x.id \in 0 .. n OBVIOUS
<1>2. Latest(byExt) \in byExt /\ \A y \in byExt : Latest(byExt).id >= y.id
  <2> HIDE DEF byExt
  <2>1. QED BY <1>1, LatestIs
<1>3. Latest(byExt).id = k.id
  <2>1. PICK x \in byExt : x = Latest(byExt) /\ x.id >= k.id BY <1>1, <1>2
  <2>2. x.id <= k.id /\ x.id \in Nat /\ k.id \in Nat BY <1>1
  <2>3. QED BY <2>1, <2>2
<1>4. Latest(byExt) = k BY <1>2, <1>3
<1>5. Matching(rows, v) = {Latest(byExt)}
  <2>1. byExt # {} BY <1>1
  <2>2. QED BY <2>1, Zenon DEF Matching
<1>6. QED BY <1>4, <1>5

LEMMA NoChange ==
  ASSUME NEW k, NEW v, k.branch = v.branch, k.mr = v.mr, k.daily = v.daily,
         k.planName = v.planName
  PROVE  Changes(k, v) = {}
BY DEF Changes

LEMMA Settled ==
  ASSUME Sensible, StoreInv, NEW p, NEW v \in Views(store, p), NEW st, st.remote = store.remote,
         NEW n \in Nat, NEW k \in RowsOf(st, p), k.ext = v.ext,
         \A x \in RowsOf(st, p) : x.id \in 0 .. n,
         \A x, y \in RowsOf(st, p) : x.id = y.id => x = y,
         \A x \in RowsOf(st, p) : x.ext = v.ext => x.id <= k.id,
         Changes(k, v) = {}
  PROVE  Differing(st, p, v) = {}
<1>1. Views(st, p) = Views(store, p) BY DEF Views
<1>2. ASSUME NEW w \in Views(store, p), w.ext = v.ext PROVE w = v
  <2>1. PICK s \in store.remote : v = View(s) BY DEF Views
  <2>2. PICK r \in store.remote : w = View(r) BY DEF Views
  <2>3. v.ext = s.id /\ w.ext = r.id BY <2>1, <2>2, ViewIs DEF StoreInv, Typed
  <2>4. r = s BY <1>2, <2>3 DEF StoreInv, Keyed
  <2>5. QED BY <2>1, <2>2, <2>4
<1>3. Matching(RowsOf(st, p), v) = {k} BY TheMatch
<1>4. ASSUME NEW u \in Updates(st, p), u.data.ext = v.ext PROVE FALSE
  <2>1. PICK l \in RowsOf(st, p), w \in Views(st, p) :
          u = [row |-> l.id, data |-> w, changes |-> Changes(l, w)]
    BY DEF Updates
  <2>2. u.row = l.id /\ u.data = w /\ u.changes = Changes(l, w) BY <2>1
  <2>3. w = v BY <1>1, <1>2, <1>4, <2>2
  <2>4. \E x \in Matching(RowsOf(st, p), v) : x.id = l.id BY <2>2, <2>3 DEF Updates
  <2>5. l = k BY <1>3, <2>4
  <2>6. u.changes # {} BY DEF Updates
  <2>7. QED BY <2>2, <2>3, <2>5, <2>6
<1>5. QED BY <1>4 DEF Differing

LEMMA PullUpdateSettles ==
  ASSUME Sensible, StoreInv, NEW p, NEW u \in Updates(store, p),
         NEW st \in PullUpdate(store, p, u.row, u.data, "full")
  PROVE  Differing(st, p, u.data) = {}
<1>1. PICK v : v = u.data OBVIOUS
<1>2. v \in Views(store, p) /\ \E x \in Matching(RowsOf(store, p), v) : x.id = u.row
  BY <1>1 DEF Updates
<1>3. v \in DataView /\ DataFits(p, v) BY <1>2, ViewFits DEF DataFits
<1>4. PICK l \in store.rows : /\ l.id = u.row /\ l.pipe = p
                              /\ st = With(store, l, Pulled(l, v, "full"))
  BY <1>1 DEF PullUpdate, RowsOf
<1>5. PICK k : k = Pulled(l, v, "full") OBVIOUS
<1>6. l \in Row BY DEF StoreInv, Typed
<1>7. /\ k \in Row /\ k.id = l.id /\ k.pipe = p /\ k.ext = v.ext
      /\ k.branch = v.branch /\ k.mr = v.mr /\ k.daily = v.daily /\ k.planName = v.planName
  BY <1>3, <1>4, <1>5, <1>6, PulledIs
<1>8. Changes(k, v) = {} BY <1>7, NoChange
<1>9. st = [rows |-> (store.rows \ {l}) \cup {k}, remote |-> store.remote]
  <2>1. store = [rows |-> store.rows, remote |-> store.remote] BY DEF StoreInv, Typed
  <2>2. QED BY <1>4, <1>5, <2>1 DEF With
<1>10. st.remote = store.remote /\ st.rows = (store.rows \ {l}) \cup {k} BY <1>9
<1>11. k \in RowsOf(st, p) BY <1>7, <1>10 DEF RowsOf
<1>12. \A x \in RowsOf(st, p) : x = k \/ (x \in RowsOf(store, p) /\ x # l)
  BY <1>10 DEF RowsOf
<1>13. \A x \in RowsOf(store, p) : x.id \in 0 .. MaxIds
  <2>1. \A x \in store.rows : x.id \in Ids BY DEF StoreInv, Typed, Row
  <2>2. QED BY <2>1 DEF RowsOf, Ids, Sensible
<1>14. l \in RowsOf(store, p) BY <1>4 DEF RowsOf
<1>15. \A x, y \in RowsOf(store, p) : x.id = y.id => x = y BY DEF StoreInv, Keyed, RowsOf
<1>16. \A x \in RowsOf(st, p) : x.id \in 0 .. MaxIds BY <1>7, <1>12, <1>13, <1>14
<1>17. \A x, y \in RowsOf(st, p) : x.id = y.id => x = y BY <1>7, <1>12, <1>14, <1>15
<1>18. ASSUME NEW x \in RowsOf(store, p), x.ext = v.ext PROVE x.id <= l.id
  <2> DEFINE byExt == {y \in RowsOf(store, p) : y.ext = v.ext}
  <2>1. x \in byExt BY <1>18
  <2>2. Matching(RowsOf(store, p), v) = {Latest(byExt)}
    <3>1. byExt # {} BY <2>1
    <3>2. QED BY <3>1, Zenon DEF Matching
  <2>3. Latest(byExt).id = l.id BY <1>2, <1>4, <2>2
  <2>4. \A y \in byExt : y.id \in 0 .. MaxIds BY <1>13
  <2> HIDE DEF byExt
  <2>5. Latest(byExt).id >= x.id BY <2>1, <2>4, LatestIs DEF Sensible
  <2>6. QED BY <1>13, <1>14, <2>3, <2>5
<1>19. \A x \in RowsOf(st, p) : x.ext = v.ext => x.id <= k.id
  <2>1. TAKE x \in RowsOf(st, p)
  <2>2. HAVE x.ext = v.ext
  <2>3. CASE x = k BY <1>16, <2>3
  <2>4. CASE x \in RowsOf(store, p) BY <1>7, <1>18, <2>2, <2>4
  <2>5. QED BY <1>12, <2>3, <2>4
<1>20. MaxIds \in Nat BY DEF Sensible
<1>21. Differing(st, p, v) = {}
  BY <1>2, <1>7, <1>8, <1>10, <1>11, <1>16, <1>17, <1>19, <1>20, Settled
<1>22. QED BY <1>1, <1>21

LEMMA PullAddSettles ==
  ASSUME Sensible, StoreInv, NEW p, NEW v \in Additions(store, p),
         NEW st \in PullAdd(store, p, v, MaxIds + 1)
  PROVE  Differing(st, p, v) = {}
<1>1. v \in Views(store, p) BY DEF Additions
<1>2. PICK k : k = RowFrom(MaxIds + 1, p, v) OBVIOUS
<1>3. /\ k.id = MaxIds + 1 /\ k.pipe = p /\ k.ext = v.ext
      /\ k.branch = v.branch /\ k.mr = v.mr /\ k.daily = v.daily /\ k.planName = v.planName
  BY <1>2 DEF RowFrom
<1>4. Changes(k, v) = {} BY <1>3, NoChange
<1>5. st = [rows |-> store.rows \cup {k}, remote |-> store.remote]
  <2>1. store = [rows |-> store.rows, remote |-> store.remote] BY DEF StoreInv, Typed
  <2>2. QED BY <1>2, <2>1 DEF PullAdd
<1>6. st.remote = store.remote /\ st.rows = store.rows \cup {k} BY <1>5
<1>7. k \in RowsOf(st, p) BY <1>3, <1>6 DEF RowsOf
<1>8. \A x \in RowsOf(st, p) : x = k \/ (x \in store.rows /\ x.id \in 0 .. MaxIds)
  <2>1. \A x \in store.rows : x.id \in Ids BY DEF StoreInv, Typed, Row
  <2>2. QED BY <1>6, <2>1 DEF RowsOf, Ids, Sensible
<1>9. MaxIds \in Nat /\ MaxIds + 1 \in Nat BY DEF Sensible
<1>10. \A x \in RowsOf(st, p) : x.id \in 0 .. MaxIds + 1 /\ x.id <= k.id BY <1>3, <1>8, <1>9
<1>11. \A x, y \in RowsOf(st, p) : x.id = y.id => x = y
  <2>1. TAKE x, y \in RowsOf(st, p)
  <2>2. HAVE x.id = y.id
  <2>3. MaxIds + 1 \notin 0 .. MaxIds BY <1>9
  <2>4. QED BY <1>3, <1>8, <2>2, <2>3 DEF StoreInv, Keyed
<1>12. QED BY <1>1, <1>3, <1>4, <1>6, <1>7, <1>9, <1>10, <1>11, Settled

(* PullSettles: in every reachable store, what is pulled as a whole, into  *)
(* the row it was matched with or as a new one, is no difference any more  *)
(* however many rows claim the same remote scheme, its branch or its name. *)
THEOREM PulledSettles == ASSUME Sensible PROVE Spec => []PullSettles
<1>1. Inv => PullSettles BY PullUpdateSettles, PullAddSettles DEF Inv, PullSettles
<1>2. QED BY <1>1, InvHolds, PTL

-----------------------------------------------------------------------------
(* The pipelines and their groups: the flags of the dialogs                *)

Kinds == {"group", "attach", "join"}
Flag == [group |-> savingGroup, attach |-> attaching, join |-> joining]

(* A flag tells whether the call of its kind is in flight, and there are   *)
(* never two.  The flag alone would not be inductive: that a step may set  *)
(* it rests on there being no call, and that an answer may clear it rests  *)
(* on there being no other.                                                *)
Tells(k) == /\ Flag[k] \in BOOLEAN
            /\ IF Flag[k] THEN \E c \in calls : Page!Calls(k) = {c} ELSE Page!Calls(k) = {}
FlagInv == \A k \in Kinds : Tells(k)

(* What a step does to the flag and the calls of a kind.                   *)
Kept(k) == Flag[k]' = Flag[k] /\ Page!Calls(k)' = Page!Calls(k)
Started(k) == /\ ~Flag[k] /\ Flag[k]' = TRUE
              /\ Page!Calls(k) = {} /\ \E c \in Page!Calls(k)' : Page!Calls(k)' = {c}
Ended(k) == /\ Flag[k] /\ Flag[k]' = FALSE
            /\ \E c \in Page!Calls(k) : Page!Calls(k) = {c}
            /\ Page!Calls(k)' = {}
OneStep(k) == Tells(k)' /\ (Kept(k) \/ Started(k) \/ Ended(k))

LEMMA FlagsAre == /\ Flag["group"] = savingGroup /\ Flag["attach"] = attaching
                  /\ Flag["join"] = joining /\ DOMAIN Flag = Kinds
BY DEF Flag, Kinds

LEMMA FlagsWere == /\ Flag["group"]' = savingGroup' /\ Flag["attach"]' = attaching'
                   /\ Flag["join"]' = joining'
BY DEF Flag

(* The flags in the terms of the variables.                                *)
LEMMA FlagsSet ==
  ASSUME NEW s, savingGroup' = (savingGroup \/ s = "group"),
         attaching' = (attaching \/ s = "attach"), joining' = (joining \/ s = "join")
  PROVE  \A k \in Kinds : Flag[k]' = (Flag[k] \/ k = s)
<1>1. Flag["group"]' = (Flag["group"] \/ "group" = s) BY FlagsAre, FlagsWere, Zenon
<1>2. Flag["attach"]' = (Flag["attach"] \/ "attach" = s) BY FlagsAre, FlagsWere, Zenon
<1>3. Flag["join"]' = (Flag["join"] \/ "join" = s) BY FlagsAre, FlagsWere, Zenon
<1>4. QED BY <1>1, <1>2, <1>3, Zenon DEF Kinds

LEMMA FlagsCleared ==
  ASSUME NEW s, savingGroup' = (savingGroup /\ s # "group"),
         attaching' = (attaching /\ s # "attach"), joining' = (joining /\ s # "join")
  PROVE  \A k \in Kinds : Flag[k]' = (Flag[k] /\ k # s)
<1>1. Flag["group"]' = (Flag["group"] /\ "group" # s) BY FlagsAre, FlagsWere, Zenon
<1>2. Flag["attach"]' = (Flag["attach"] /\ "attach" # s) BY FlagsAre, FlagsWere, Zenon
<1>3. Flag["join"]' = (Flag["join"] /\ "join" # s) BY FlagsAre, FlagsWere, Zenon
<1>4. QED BY <1>1, <1>2, <1>3, Zenon DEF Kinds

LEMMA KeepsFlag ==
  ASSUME NEW k \in Kinds, Tells(k), Flag[k]' = Flag[k], Page!Calls(k)' = Page!Calls(k)
  PROVE  OneStep(k)
<1>1. Tells(k)' BY DEF Tells, Page!Calls
<1>2. QED BY <1>1 DEF OneStep, Kept

(* A request of a kind is sent only while its flag is not set.             *)
LEMMA Sending ==
  ASSUME FlagInv, NEW w, calls' = calls \cup {w}, w.kind \in Kinds => ~Flag[w.kind],
         \A k \in Kinds : Flag[k]' = (Flag[k] \/ k = w.kind)
  PROVE  \A k \in Kinds : OneStep(k)
<1> SUFFICES ASSUME NEW k \in Kinds PROVE OneStep(k) OBVIOUS
<1>1. Tells(k) BY DEF FlagInv
<1>2. CASE k = w.kind
  <2>1. Page!Calls(k) = {} /\ ~Flag[k] BY <1>1, <1>2 DEF Tells
  <2>2. Page!Calls(k)' = {w} /\ w \in calls' BY <1>2, <2>1 DEF Page!Calls
  <2>3. Flag[k]' = TRUE BY <1>2
  <2>4. Tells(k)' BY <2>2, <2>3 DEF Tells
  <2>5. Started(k) BY <2>1, <2>2, <2>3 DEF Started
  <2>6. QED BY <2>4, <2>5 DEF OneStep
<1>3. CASE k # w.kind
  <2>1. Page!Calls(k)' = Page!Calls(k) BY <1>3 DEF Page!Calls
  <2>2. Flag[k]' = Flag[k] BY <1>1, <1>3 DEF Tells
  <2>3. QED BY <1>1, <2>1, <2>2, KeepsFlag
<1>4. QED BY <1>2, <1>3

(* An answer ends the call it answers and asks for lists at most.          *)
LEMMA Answering ==
  ASSUME FlagInv, NEW w \in calls, NEW L, \A x \in L : x.kind \notin Kinds,
         calls' = (calls \ {w}) \cup L,
         \A k \in Kinds : Flag[k]' = (Flag[k] /\ k # w.kind)
  PROVE  \A k \in Kinds : OneStep(k)
<1> SUFFICES ASSUME NEW k \in Kinds PROVE OneStep(k) OBVIOUS
<1>1. Tells(k) BY DEF FlagInv
<1>2. CASE k = w.kind
  <2>1. w \in Page!Calls(k) BY <1>2 DEF Page!Calls
  <2>2. Flag[k] /\ Page!Calls(k) = {w} BY <1>1, <2>1 DEF Tells
  <2>3. Page!Calls(k)' = {} BY <1>1, <2>2 DEF Page!Calls
  <2>4. Flag[k]' = FALSE BY <1>2
  <2>5. Tells(k)' BY <2>3, <2>4 DEF Tells
  <2>6. Ended(k) BY <2>2, <2>3, <2>4 DEF Ended
  <2>7. QED BY <2>5, <2>6 DEF OneStep
<1>3. CASE k # w.kind
  <2>1. Page!Calls(k)' = Page!Calls(k) BY <1>1, <1>3 DEF Page!Calls
  <2>2. Flag[k]' = Flag[k] BY <1>1, <1>3 DEF Tells
  <2>3. QED BY <1>1, <2>1, <2>2, KeepsFlag
<1>4. QED BY <1>2, <1>3

-----------------------------------------------------------------------------
flagVars == <<savingGroup, attaching, joining>>

LEMMA SameFlags == UNCHANGED flagVars => \A k : Flag[k]' = Flag[k]
BY DEF flagVars, Flag

LEMMA Looks ==
  ASSUME FlagInv, UNCHANGED <<flagVars, calls>>
  PROVE  \A k \in Kinds : OneStep(k)
<1>1. \A k \in Kinds : Page!Calls(k)' = Page!Calls(k) BY DEF Page!Calls
<1>2. QED BY <1>1, SameFlags, KeepsFlag DEF FlagInv

(* A request that no flag is about.                                        *)
LEMMA SendsOther ==
  ASSUME FlagInv, UNCHANGED flagVars, NEW w, w.kind \notin Kinds, calls' = calls \cup {w}
  PROVE  \A k \in Kinds : OneStep(k)
<1>1. \A k \in Kinds : Flag[k]' = (Flag[k] \/ k = w.kind)
  BY SameFlags, Zenon DEF FlagInv, Tells
<1>2. QED BY <1>1, Sending

LEMMA AnswersOther ==
  ASSUME FlagInv, UNCHANGED flagVars, NEW w \in calls, w.kind \notin Kinds,
         calls' = calls \ {w}
  PROVE  \A k \in Kinds : OneStep(k)
<1>1. \A k \in Kinds : Flag[k]' = (Flag[k] /\ k # w.kind)
  BY SameFlags, Zenon DEF FlagInv, Tells
<1>2. PICK L : L = {} OBVIOUS
<1>3. calls' = (calls \ {w}) \cup L /\ \A x \in L : x.kind \notin Kinds BY <1>2
<1>4. QED BY <1>1, <1>3, Answering

LEMMA ListKinds == \A x \in Page!Lists : x.kind \notin Kinds
BY DEF Page!Lists, Kinds

(* The dialogs touch neither flags nor requests.                           *)
LEMMA DialogStep ==
  ASSUME FlagInv,
         \/ \E g : Page!EditGroup(g) \/ Page!OpenAttach(g) \/ Page!ChooseGroup(g)
         \/ \E p : Page!OpenJoin(p) \/ Page!EditPipeline(p) \/ Page!Tick(p)
         \/ Page!AddPipeline \/ Page!Close
  PROVE  \A k \in Kinds : OneStep(k)
<1>1. \E d : Page!Show(d)
  BY DEF Page!EditGroup, Page!OpenAttach, Page!ChooseGroup, Page!OpenJoin, Page!EditPipeline, Page!Tick, Page!AddPipeline, Page!Close
<1>2. UNCHANGED <<savingGroup, attaching, joining, calls>> BY <1>1 DEF Page!Show, Page!flags
<1>3. QED BY <1>2, Looks DEF flagVars

(* The requests that have a flag.                                          *)
LEMMA FlaggedStep ==
  ASSUME FlagInv, Page!SaveGroup \/ Page!ConfirmAttach \/ Page!ConfirmJoin
  PROVE  \A k \in Kinds : OneStep(k)
<1>f. /\ Kinds = {"group", "attach", "join"}
      /\ savingGroup \in BOOLEAN /\ attaching \in BOOLEAN /\ joining \in BOOLEAN
  BY FlagsAre DEF FlagInv, Tells, Kinds
<1>1. CASE Page!SaveGroup
  <2>1. PICK w : w = [kind |-> "group", on |-> dialog.on, with |-> None, n |-> clicks] OBVIOUS
  <2>2. w.kind = "group" BY <2>1
  <2>3. /\ calls' = calls \cup {w} /\ ~savingGroup
        /\ savingGroup' = TRUE /\ UNCHANGED <<attaching, joining>>
    BY <1>1, <2>1 DEF Page!SaveGroup, Page!MaySaveGroup, Page!Send
  <2>4. \A k \in Kinds : Flag[k]' = (Flag[k] \/ k = w.kind)
    BY <1>f, <2>2, <2>3, FlagsSet
  <2>5. QED BY <2>2, <2>3, <2>4, FlagsAre, Sending
<1>2. CASE Page!ConfirmAttach
  <2>1. PICK w : w = [kind |-> "attach", on |-> dialog.chosen, with |-> dialog.on, n |-> clicks]
    OBVIOUS
  <2>2. w.kind = "attach" BY <2>1
  <2>3. /\ calls' = calls \cup {w} /\ ~attaching
        /\ attaching' = TRUE /\ UNCHANGED <<savingGroup, joining>>
    BY <1>2, <2>1 DEF Page!ConfirmAttach, Page!Send
  <2>4. \A k \in Kinds : Flag[k]' = (Flag[k] \/ k = w.kind)
    BY <1>f, <2>2, <2>3, FlagsSet
  <2>5. QED BY <2>2, <2>3, <2>4, FlagsAre, Sending
<1>3. CASE Page!ConfirmJoin
  <2>1. PICK w : w = [kind |-> "join", on |-> {dialog.on}, with |-> dialog.with, n |-> clicks]
    OBVIOUS
  <2>2. w.kind = "join" BY <2>1
  <2>3. /\ calls' = calls \cup {w} /\ ~joining
        /\ joining' = TRUE /\ UNCHANGED <<savingGroup, attaching>>
    BY <1>3, <2>1 DEF Page!ConfirmJoin, Page!Send
  <2>4. \A k \in Kinds : Flag[k]' = (Flag[k] \/ k = w.kind)
    BY <1>f, <2>2, <2>3, FlagsSet
  <2>5. QED BY <2>2, <2>3, <2>4, FlagsAre, Sending
<1>4. QED BY <1>1, <1>2, <1>3

(* The requests that have none.                                            *)
LEMMA UnflaggedStep ==
  ASSUME FlagInv,
         \/ \E g : Page!DeleteGroup(g)
         \/ \E p : Page!Detach(p) \/ Page!DeletePipeline(p) \/ Page!FetchInfo(p) \/ Page!SavePipeline(p)
  PROVE  \A k \in Kinds : OneStep(k)
<1>1. \E kind, on, with : /\ kind \notin Kinds
                          /\ Page!Send(kind, on, with) /\ UNCHANGED flagVars
  BY DEF Page!DeleteGroup, Page!Detach, Page!DeletePipeline, Page!FetchInfo, Page!SavePipeline, Page!flags, flagVars, Kinds
<1>2. PICK kind, on, with : /\ kind \notin Kinds
                            /\ Page!Send(kind, on, with) /\ UNCHANGED flagVars
  BY <1>1
<1>3. PICK w : w = [kind |-> kind, on |-> on, with |-> with, n |-> clicks] OBVIOUS
<1>4. w.kind \notin Kinds /\ calls' = calls \cup {w} BY <1>2, <1>3 DEF Page!Send
<1>5. QED BY <1>2, <1>4, SendsOther

LEMMA AnswerStep ==
  ASSUME FlagInv, NEW w \in calls,
         \/ Page!Refused(w) \/ Page!GroupsAnswer(w) \/ Page!PipesAnswer(w) \/ Page!GroupSaved(w)
         \/ Page!GroupDeleted(w) \/ Page!Attached(w) \/ Page!Joined(w) \/ Page!Detached(w)
         \/ Page!PipelineCreated(w) \/ Page!PipelineSaved(w) \/ Page!PipelineDeleted(w)
         \/ Page!InfoAnswer(w)
  PROVE  \A k \in Kinds : OneStep(k)
<1>f. /\ Kinds = {"group", "attach", "join"}
      /\ savingGroup \in BOOLEAN /\ attaching \in BOOLEAN /\ joining \in BOOLEAN
  BY FlagsAre DEF FlagInv, Tells, Kinds
<1>1. \E L : (\A x \in L : x.kind \notin Kinds) /\ calls' = (calls \ {w}) \cup L
  BY ListKinds DEF Page!Refused, Page!GroupsAnswer, Page!PipesAnswer, Page!GroupSaved, Page!GroupDeleted, Page!Attached,
     Page!Joined, Page!Detached, Page!PipelineCreated, Page!PipelineSaved, Page!PipelineDeleted,
     Page!InfoAnswer, Page!Refreshed
<1>2. PICK L : (\A x \in L : x.kind \notin Kinds) /\ calls' = (calls \ {w}) \cup L
  BY <1>1
<1>3. /\ savingGroup' = (savingGroup /\ w.kind # "group")
      /\ attaching' = (attaching /\ w.kind # "attach")
      /\ joining' = (joining /\ w.kind # "join")
  <2>1. CASE Page!Refused(w) BY <2>1 DEF Page!Refused
  <2>2. CASE Page!GroupSaved(w) BY <1>f, <2>2 DEF Page!GroupSaved
  <2>3. CASE Page!Attached(w) BY <1>f, <2>3 DEF Page!Attached
  <2>4. CASE Page!Joined(w) BY <1>f, <2>4 DEF Page!Joined
  <2>5. CASE \/ Page!GroupsAnswer(w) \/ Page!PipesAnswer(w) \/ Page!GroupDeleted(w) \/ Page!Detached(w)
             \/ Page!PipelineCreated(w) \/ Page!PipelineSaved(w) \/ Page!PipelineDeleted(w)
             \/ Page!InfoAnswer(w)
    BY <1>f, <2>5 DEF Page!GroupsAnswer, Page!PipesAnswer, Page!GroupDeleted, Page!Detached, Page!PipelineCreated,
       Page!PipelineSaved, Page!PipelineDeleted, Page!InfoAnswer, Page!flags
  <2>6. QED BY <2>1, <2>2, <2>3, <2>4, <2>5
<1>4. \A k \in Kinds : Flag[k]' = (Flag[k] /\ k # w.kind) BY <1>f, <1>3, FlagsCleared
<1>5. QED BY <1>2, <1>4, Answering

LEMMA FlagStep ==
  ASSUME FlagInv, [Page!Next]_(Page!vars)
  PROVE  \A k \in Kinds : OneStep(k)
<1>1. CASE UNCHANGED Page!vars BY <1>1, Looks DEF Page!vars, flagVars
<1>2. ASSUME NEW p, NEW g, Page!MovedElsewhere(p, g) PROVE \A k \in Kinds : OneStep(k)
  BY <1>2, Looks DEF Page!MovedElsewhere, Page!flags, flagVars
<1>3. ASSUME NEW w, Page!Read(w) PROVE \A k \in Kinds : OneStep(k)
  BY <1>3, Looks DEF Page!Read, Page!flags, flagVars
<1>4. CASE Page!Next
  BY <1>2, <1>3, <1>4, DialogStep, FlaggedStep, UnflaggedStep, AnswerStep DEF Page!Next
<1>5. QED BY <1>1, <1>4

(* FlagInv: the flags of the dialogs tell what is in flight.               *)
THEOREM FlagsTell == Page!Spec => []FlagInv
<1>1. Page!Init => FlagInv
  BY FlagsAre DEF Page!Init, FlagInv, Tells, Page!Calls, Kinds
<1>2. FlagInv /\ [Page!Next]_(Page!vars) => FlagInv' BY FlagStep DEF FlagInv, OneStep
<1>3. QED BY <1>1, <1>2, PTL DEF Page!Spec

(* OneGroupCall: saving a group, attaching and joining each implement      *)
(* SingleFlight, however dialogs are closed and opened and in whatever     *)
(* order the calls are answered.                                           *)
THEOREM OneCallPerDialog == Page!Spec => Page!OneGroupCall
<1>1. FlagInv /\ [Page!Next]_(Page!vars) => /\ [Page!Saving!Next]_<<savingGroup, Page!Calls("group")>>
                                /\ [Page!Attaching!Next]_<<attaching, Page!Calls("attach")>>
                                /\ [Page!Joining!Next]_<<joining, Page!Calls("join")>>
  <2> SUFFICES ASSUME FlagInv, [Page!Next]_(Page!vars)
      PROVE  /\ [Page!Saving!Next]_<<savingGroup, Page!Calls("group")>>
             /\ [Page!Attaching!Next]_<<attaching, Page!Calls("attach")>>
             /\ [Page!Joining!Next]_<<joining, Page!Calls("join")>>
    OBVIOUS
  <2>1. OneStep("group") /\ OneStep("attach") /\ OneStep("join") BY FlagStep DEF Kinds
  <2>2. /\ Flag["group"]' = savingGroup' /\ Flag["attach"]' = attaching'
        /\ Flag["join"]' = joining' BY DEF Flag
  <2>3. [Page!Saving!Next]_<<savingGroup, Page!Calls("group")>>
    BY <2>1, <2>2, FlagsAre
    DEF OneStep, Kept, Started, Ended, Page!Saving!Next, Page!Saving!Start, Page!Saving!End
  <2>4. [Page!Attaching!Next]_<<attaching, Page!Calls("attach")>>
    BY <2>1, <2>2, FlagsAre
    DEF OneStep, Kept, Started, Ended, Page!Attaching!Next, Page!Attaching!Start, Page!Attaching!End
  <2>5. [Page!Joining!Next]_<<joining, Page!Calls("join")>>
    BY <2>1, <2>2, FlagsAre
    DEF OneStep, Kept, Started, Ended, Page!Joining!Next, Page!Joining!Start, Page!Joining!End
  <2>6. QED BY <2>3, <2>4, <2>5
<1>2. Page!Init => Page!Saving!Init /\ Page!Attaching!Init /\ Page!Joining!Init
  BY DEF Page!Init, Page!Saving!Init, Page!Attaching!Init, Page!Joining!Init, Page!Calls
<1>3. QED BY <1>1, <1>2, FlagsTell, PTL
          DEF Page!Spec, Page!OneGroupCall, Page!Saving!Spec, Page!Attaching!Spec, Page!Joining!Spec

-----------------------------------------------------------------------------
(* Leaving a group.  That a detachment takes a pipeline out of the group   *)
(* its request names rests on a pipeline having one row; and that a write  *)
(* puts it into a group, on the group its handler found.                   *)

Made(p) == p = [id |-> p.id, group |-> p.group]
FoundIs(w) == /\ w.kind \in {"attach", "join"} => w.with \in Groups
              /\ w.kind = "group" => w.on \in Groups
RowsInv == /\ groups \subseteq Groups
           /\ \A p \in pipes : Made(p)
           /\ \A p, q \in pipes : p.id = q.id => p = q
           /\ \A s \in seen : FoundIs(s.call)

(* What a move makes of the rows.                                          *)
LEMMA MovedRows ==
  ASSUME RowsInv, NEW ps, NEW g
  PROVE  \A q \in Page!Moved(ps, g) :
           /\ Made(q)
           /\ \E p \in pipes : /\ p.id = q.id
                              /\ q = IF p.id \in ps THEN [id |-> p.id, group |-> g] ELSE p
<1> SUFFICES ASSUME NEW q \in Page!Moved(ps, g)
    PROVE  /\ Made(q)
           /\ \E p \in pipes : /\ p.id = q.id
                              /\ q = IF p.id \in ps THEN [id |-> p.id, group |-> g] ELSE p
  OBVIOUS
<1>1. PICK p \in pipes : q = IF p.id \in ps THEN [p EXCEPT !.group = g] ELSE p BY DEF Page!Moved
<1>2. p = [id |-> p.id, group |-> p.group] BY DEF RowsInv, Made
<1>3. [p EXCEPT !.group = g] = [id |-> p.id, group |-> g] BY <1>2
<1>4. q = IF p.id \in ps THEN [id |-> p.id, group |-> g] ELSE p BY <1>1, <1>3
<1>5. Made(q) /\ p.id = q.id BY <1>2, <1>4 DEF Made
<1>6. QED BY <1>4, <1>5

LEMMA MovedOneRow ==
  ASSUME RowsInv, NEW ps, NEW g
  PROVE  /\ \A q \in Page!Moved(ps, g) : Made(q)
         /\ \A q, r \in Page!Moved(ps, g) : q.id = r.id => q = r
<1>1. \A p, q \in pipes : p.id = q.id => p = q BY DEF RowsInv
<1>2. QED BY <1>1, MovedRows

(* A row that a move leaves without a group had none or was moved to none. *)
LEMMA MovedLeaves ==
  ASSUME RowsInv, NEW ps, NEW g, NEW p \in pipes, NEW q \in Page!Moved(ps, g),
         p.id = q.id, p.group # None, q.group = None
  PROVE  g = None /\ p.id \in ps
<1>1. PICK r \in pipes : /\ r.id = q.id
                        /\ q = IF r.id \in ps THEN [id |-> r.id, group |-> g] ELSE r
  BY MovedRows
<1>2. r = p BY <1>1 DEF RowsInv
<1>3. QED BY <1>1, <1>2

Leaves(p, q) == p.id = q.id /\ p.group # None /\ q.group = None
Detaches(p) ==
  \E s \in seen : s.call.kind = "detach" /\ p.id \in s.call.on /\ s.call.with = p.group
WritesBack(p) ==
  \E s \in seen : /\ s.call.kind = "save" /\ p.id = s.call.on /\ s.call.with = None
                 /\ \E r \in s.rows : r.group = None
LeaveStep == /\ RowsInv'
             /\ \A p \in pipes, q \in pipes' : Leaves(p, q) => Detaches(p) \/ WritesBack(p)

(* What the handlers at work have found stays found.                       *)
LEMMA SeenStays ==
  ASSUME RowsInv, seen' \subseteq seen
  PROVE  \A s \in seen' : FoundIs(s.call)
BY DEF RowsInv

LEMMA Stay ==
  ASSUME RowsInv, pipes' \subseteq pipes, groups' \subseteq Groups,
         \A s \in seen' : FoundIs(s.call)
  PROVE  LeaveStep
BY DEF RowsInv, LeaveStep, Leaves, Made, FoundIs

LEMMA MoveTo ==
  ASSUME RowsInv, NEW ps, NEW g, g # None, pipes' = Page!Moved(ps, g), groups' = groups,
         seen' \subseteq seen
  PROVE  LeaveStep
<1>1. RowsInv' BY MovedOneRow, SeenStays DEF RowsInv, Made, FoundIs
<1>2. \A p \in pipes, q \in pipes' : ~Leaves(p, q) BY MovedLeaves DEF Leaves
<1>3. QED BY <1>1, <1>2 DEF LeaveStep

(* A write is of a handler that has read, and puts what it read away.      *)
LEMMA Writing ==
  ASSUME NEW w, NEW L, Page!Refreshed(w, L)
  PROVE  seen' \subseteq seen /\ \A s \in Page!ReadBy(w) : s \in seen /\ s.call = w
BY DEF Page!Refreshed, Page!ReadBy

LEMMA Detaching ==
  ASSUME RowsInv, NEW w \in calls, Page!Detached(w)
  PROVE  LeaveStep
<1>1. /\ pipes' = Page!Moved(Page!Members(w), None) /\ groups' = groups
      /\ w.kind = "detach" /\ Page!ReadBy(w) # {} /\ Page!Refreshed(w, Page!Lists)
  BY DEF Page!Detached
<1>s. PICK s \in seen : s.call = w BY <1>1, Writing
<1>2. RowsInv' BY <1>1, MovedOneRow, SeenStays, Writing DEF RowsInv, Made, FoundIs
<1>3. ASSUME NEW p \in pipes, NEW q \in pipes', Leaves(p, q) PROVE Detaches(p)
  <2>1. p.id \in Page!Members(w) BY <1>1, <1>3, MovedLeaves DEF Leaves
  <2>2. PICK r \in pipes : r.id = p.id /\ r.id \in w.on /\ r.group = w.with
    BY <2>1 DEF Page!Members
  <2>3. r = p BY <2>2 DEF RowsInv
  <2>4. QED BY <1>1, <1>s, <2>2, <2>3 DEF Detaches
<1>4. QED BY <1>2, <1>3 DEF LeaveStep

(* One row is put into the place of those with its identifier.             *)
LEMMA Placing ==
  ASSUME RowsInv, NEW i, NEW g, groups' = groups, seen' \subseteq seen,
         pipes' = {p \in pipes : p.id # i} \cup {[id |-> i, group |-> g]}
  PROVE  /\ RowsInv'
         /\ \A p \in pipes, q \in pipes' : Leaves(p, q) => p.id = i /\ g = None
<1>1. \A q \in pipes' : \/ q \in pipes /\ q.id # i
                        \/ q = [id |-> i, group |-> g] /\ q.id = i /\ q.group = g
  OBVIOUS
<1>2. RowsInv' BY <1>1, SeenStays DEF RowsInv, Made, FoundIs
<1>3. QED BY <1>1, <1>2 DEF RowsInv, Leaves

LEMMA SavingStep ==
  ASSUME RowsInv, NEW w \in calls, Page!PipelineSaved(w)
  PROVE  LeaveStep
<1>s. PICK s \in Page!ReadBy(w) : \E r \in s.rows :
        pipes' = {p \in pipes : p.id # w.on}
                   \cup {[id |-> w.on, group |-> Page!GroupKept(w, r)]}
  BY DEF Page!PipelineSaved
<1>1. PICK r \in s.rows :
        pipes' = {p \in pipes : p.id # w.on}
                   \cup {[id |-> w.on, group |-> Page!GroupKept(w, r)]}
  BY <1>s
<1>2. w.kind = "save" /\ groups' = groups /\ \E L : Page!Refreshed(w, L)
  BY DEF Page!PipelineSaved
<1>3. seen' \subseteq seen /\ s \in seen /\ s.call = w BY <1>2, Writing
<1>4. /\ RowsInv'
      /\ \A p \in pipes, q \in pipes' :
           Leaves(p, q) => p.id = w.on /\ Page!GroupKept(w, r) = None
  BY <1>1, <1>2, <1>3, Placing
<1>5. Page!GroupKept(w, r) = None => w.with = None /\ r.group = None BY DEF Page!GroupKept
<1>6. QED BY <1>1, <1>2, <1>3, <1>4, <1>5 DEF LeaveStep, WritesBack

LEMMA LeavingStep ==
  ASSUME None \notin Groups, RowsInv, [Page!Next]_(Page!vars)
  PROVE  LeaveStep
<1>g. None \notin groups BY DEF RowsInv
<1>1. CASE UNCHANGED <<pipes, groups>> /\ seen' \subseteq seen
  BY <1>1, Stay, SeenStays DEF RowsInv
<1>2. ASSUME NEW p \in pipes, NEW g \in groups, Page!MovedElsewhere(p, g) PROVE LeaveStep
  BY <1>g, <1>2, MoveTo DEF Page!MovedElsewhere
<1>3. ASSUME NEW w \in calls, Page!Attached(w) \/ Page!Joined(w) PROVE LeaveStep
  <2>1. /\ w.kind \in {"attach", "join"} /\ Page!ReadBy(w) # {} /\ groups' = groups
        /\ pipes' = Page!Moved(w.on, w.with) /\ Page!Refreshed(w, Page!Lists)
    BY <1>3 DEF Page!Attached, Page!Joined
  <2>2. PICK s \in seen : s.call = w BY <2>1, Writing
  <2>3. w.with # None BY <2>1, <2>2 DEF RowsInv, FoundIs
  <2>4. QED BY <2>1, <2>3, MoveTo, Writing
<1>4. ASSUME NEW w \in calls, Page!GroupSaved(w) PROVE LeaveStep
  <2>1. w.kind = "group" /\ pipes' = pipes /\ Page!Refreshed(w, Page!Lists)
    BY <1>4 DEF Page!GroupSaved
  <2>2. CASE w.on = None
    <3>1. groups' \subseteq Groups BY <1>4, <2>2 DEF Page!GroupSaved, RowsInv
    <3>2. QED BY <2>1, <3>1, Stay, SeenStays, Writing
  <2>3. CASE w.on # None
    <3>1. groups' = groups \cup {w.on} /\ Page!ReadBy(w) # {} BY <1>4, <2>3 DEF Page!GroupSaved
    <3>2. PICK s \in seen : s.call = w BY <2>1, <3>1, Writing
    <3>3. groups' \subseteq Groups BY <2>1, <3>1, <3>2 DEF RowsInv, FoundIs
    <3>4. QED BY <2>1, <3>3, Stay, SeenStays, Writing
  <2>4. QED BY <2>2, <2>3
<1>5. ASSUME NEW w \in calls, Page!GroupDeleted(w) PROVE LeaveStep
  <2>1. groups' \subseteq Groups /\ pipes' = pipes /\ Page!Refreshed(w, Page!Lists)
    BY <1>5 DEF Page!GroupDeleted, RowsInv
  <2>2. QED BY <2>1, Stay, SeenStays, Writing
<1>6. ASSUME NEW w \in calls, Page!PipelineCreated(w) PROVE LeaveStep
  <2>1. /\ groups' = groups /\ \A p \in pipes : p.id # w.on
        /\ pipes' = pipes \cup {[id |-> w.on, group |-> w.with]}
        /\ \E L : Page!Refreshed(w, L)
    BY <1>6 DEF Page!PipelineCreated
  <2>2. {p \in pipes : p.id # w.on} = pipes BY <2>1
  <2>3. RowsInv' /\ \A p \in pipes, q \in pipes' : Leaves(p, q) => p.id = w.on
    BY <2>1, <2>2, Placing, Writing
  <2>4. QED BY <2>1, <2>3 DEF LeaveStep
<1>7. ASSUME NEW w \in calls, Page!PipelineDeleted(w) PROVE LeaveStep
  <2>1. pipes' \subseteq pipes /\ groups' \subseteq Groups /\ \E L : Page!Refreshed(w, L)
    BY <1>7 DEF Page!PipelineDeleted, RowsInv
  <2>2. QED BY <2>1, Stay, SeenStays, Writing
<1>8. CASE \/ \E g \in shownGroups : Page!EditGroup(g) \/ Page!OpenAttach(g) \/ Page!ChooseGroup(g)
           \/ \E p \in shownPipes : Page!OpenJoin(p) \/ Page!EditPipeline(p) \/ Page!Tick(p)
           \/ Page!EditGroup(None) \/ Page!AddPipeline \/ Page!ChooseGroup(None) \/ Page!Close
  <2>1. \E d : Page!Show(d)
    BY <1>8
    DEF Page!EditGroup, Page!OpenAttach, Page!ChooseGroup, Page!OpenJoin, Page!EditPipeline, Page!Tick, Page!AddPipeline, Page!Close
  <2>2. QED BY <1>1, <2>1 DEF Page!Show, Page!server
<1>9. CASE \/ \E g \in shownGroups : Page!DeleteGroup(g)
           \/ \E p \in shownPipes : Page!Detach(p) \/ Page!DeletePipeline(p)
           \/ Page!SaveGroup \/ Page!ConfirmAttach \/ Page!ConfirmJoin
           \/ \E p \in GroupedPipes : Page!FetchInfo(p) \/ Page!SavePipeline(p)
  BY <1>1, <1>9
  DEF Page!DeleteGroup, Page!Detach, Page!DeletePipeline, Page!SaveGroup, Page!ConfirmAttach, Page!ConfirmJoin, Page!FetchInfo,
      Page!SavePipeline, Page!server
<1>10. CASE \E w \in calls : \/ Page!Refused(w) \/ Page!GroupsAnswer(w) \/ Page!PipesAnswer(w)
                               \/ Page!InfoAnswer(w)
  <2>1. UNCHANGED <<pipes, groups>> /\ \E w \in calls : Page!Refreshed(w, {})
    BY <1>10 DEF Page!Refused, Page!GroupsAnswer, Page!PipesAnswer, Page!InfoAnswer, Page!tables
  <2>2. QED BY <1>1, <2>1, Writing
<1>11. ASSUME NEW w \in calls, Page!Read(w) PROVE LeaveStep
  <2>1. UNCHANGED <<pipes, groups>> /\ Page!Found(w) BY <1>11 DEF Page!Read, Page!tables
  <2>2. FoundIs(w) BY <2>1 DEF Page!Found, FoundIs, RowsInv
  <2>3. \A s \in seen' : s \in seen \/ s.call = w BY <1>11 DEF Page!Read
  <2>4. \A s \in seen' : FoundIs(s.call) BY <2>2, <2>3 DEF RowsInv
  <2>5. QED BY <2>1, <2>4, Stay DEF RowsInv
<1>12. CASE UNCHANGED Page!vars BY <1>1, <1>12 DEF Page!vars
<1>13. CASE Page!Next
  BY <1>2, <1>3, <1>4, <1>5, <1>6, <1>7, <1>8, <1>9, <1>10, <1>11, <1>13, Detaching, SavingStep
  DEF Page!Next
<1>14. QED BY <1>12, <1>13

(* LeftAsRead: a pipeline leaves all groups only by a detachment that      *)
(* names the group it leaves, or by a save whose handler had read it       *)
(* outside any group, wherever other users have moved it meanwhile.        *)
THEOREM LeavesAsRead == ASSUME None \notin Groups PROVE Page!Spec => Page!LeftAsRead
<1>1. Page!Init => RowsInv BY DEF Page!Init, RowsInv, Made
<1>2. RowsInv /\ [Page!Next]_(Page!vars) => RowsInv' BY LeavingStep DEF LeaveStep
<1>3. RowsInv /\ [Page!Next]_(Page!vars) =>
        \A p \in pipes, q \in pipes' :
          p.id = q.id /\ p.group # None /\ q.group = None
            => \E s \in seen :
                 \/ s.call.kind = "detach" /\ p.id \in s.call.on /\ s.call.with = p.group
                 \/ s.call.kind = "save" /\ p.id = s.call.on /\ s.call.with = None
                    /\ \E r \in s.rows : r.group = None
  BY LeavingStep DEF LeaveStep, Leaves, Detaches, WritesBack
<1>4. QED BY <1>1, <1>2, <1>3, PTL DEF Page!Spec, Page!LeftAsRead
-----------------------------------------------------------------------------
(* The types of the page                                                   *)

(* A dialog has its fields, and a request that saves a pipeline has one.   *)
Shape(d) == d = [kind |-> d.kind, on |-> d.on, with |-> d.with, chosen |-> d.chosen]
Saves(w) ==
  w.kind \in {"create", "save"} => w.on \in GroupedPipes /\ w.with \in Groups \cup {None}
Finds == \A s \in seen : FoundIs(s.call)
PageTyped == Page!TypeOK /\ Shape(dialog) /\ Finds /\ \A w \in calls : Saves(w)
Opened(d) ==
  /\ Shape(d) /\ d.kind \in {"none", "group", "attach", "join", "pipeline"}
  /\ d.with \in Groups \cup {None} /\ d.chosen \subseteq GroupedPipes

LEMMA OpenedIs ==
  ASSUME NEW k \in {"none", "group", "attach", "join", "pipeline"}, NEW on,
         NEW with \in Groups \cup {None}
  PROVE  Opened(Page!Dialog(k, on, with))
BY DEF Opened, Shape, Page!Dialog

LEMMA ShowTyped ==
  ASSUME PageTyped, NEW d, Opened(d), Page!Show(d)
  PROVE  PageTyped'
BY DEF PageTyped, Opened, Page!Show, Page!TypeOK, Page!server, Page!shown, Page!flags, Saves,
       Shape, Finds, FoundIs

(* The least of the groups shown, if there is one.                         *)
LEMMA ProposedIs ==
  ASSUME Page!Sensible, Page!TypeOK, shownGroups # {}
  PROVE  (CHOOSE g \in shownGroups : \A h \in shownGroups : g <= h) \in Groups
<1>1. shownGroups \in SUBSET Nat BY DEF Page!Sensible, Page!TypeOK
<1>2. \E g \in shownGroups : \A h \in shownGroups : g <= h BY <1>1, LeastExists
<1>3. QED BY <1>2 DEF Page!TypeOK

LEMMA DialogTyped ==
  ASSUME Page!Sensible, PageTyped,
         \/ \E g \in shownGroups : Page!EditGroup(g) \/ Page!OpenAttach(g) \/ Page!ChooseGroup(g)
         \/ \E p \in shownPipes : Page!OpenJoin(p) \/ Page!EditPipeline(p) \/ Page!Tick(p)
         \/ Page!EditGroup(None) \/ Page!AddPipeline \/ Page!ChooseGroup(None) \/ Page!Close
  PROVE  PageTyped'
<1>t. /\ shownGroups \subseteq Groups
      /\ \A p \in shownPipes : p.id \in GroupedPipes /\ p.group \in Groups \cup {None}
  BY DEF PageTyped, Page!TypeOK, Page!Pipe
<1>d. Opened(dialog) BY DEF PageTyped, Page!TypeOK, Opened
<1>1. ASSUME NEW g, Page!EditGroup(g) \/ Page!OpenAttach(g) PROVE PageTyped'
  <2>1. \E k \in {"group", "attach"} : Page!Show(Page!Dialog(k, g, None))
    BY <1>1 DEF Page!EditGroup, Page!OpenAttach
  <2>2. QED BY <2>1, OpenedIs, ShowTyped
<1>2. ASSUME NEW g \in Groups \cup {None}, Page!ChooseGroup(g) PROVE PageTyped'
  <2>1. Page!Show([dialog EXCEPT !.with = g]) BY <1>2 DEF Page!ChooseGroup
  <2>2. [dialog EXCEPT !.with = g]
          = [kind |-> dialog.kind, on |-> dialog.on, with |-> g, chosen |-> dialog.chosen]
    BY <1>d DEF Opened, Shape
  <2>3. Opened([dialog EXCEPT !.with = g]) BY <1>d, <2>2 DEF Opened, Shape
  <2>4. QED BY <2>1, <2>3, ShowTyped
<1>3. ASSUME NEW p \in shownPipes, Page!OpenJoin(p) PROVE PageTyped'
  <2>1. PICK g : /\ Page!Show(Page!Dialog("join", p.id, g))
                 /\ g = IF shownGroups = {} THEN None
                        ELSE CHOOSE h \in shownGroups : \A i \in shownGroups : h <= i
    BY <1>3 DEF Page!OpenJoin
  <2>2. g \in Groups \cup {None} BY <2>1, ProposedIs DEF PageTyped
  <2>3. QED BY <2>1, <2>2, OpenedIs, ShowTyped
<1>4. ASSUME NEW p \in shownPipes, Page!EditPipeline(p) PROVE PageTyped'
  BY <1>t, <1>4, OpenedIs, ShowTyped DEF Page!EditPipeline
<1>5. ASSUME NEW p \in shownPipes, Page!Tick(p) PROVE PageTyped'
  <2>1. PICK ids : /\ ids \subseteq dialog.chosen \cup {p.id}
                   /\ Page!Show([dialog EXCEPT !.chosen = ids])
    BY <1>5 DEF Page!Tick
  <2>2. [dialog EXCEPT !.chosen = ids]
          = [kind |-> dialog.kind, on |-> dialog.on, with |-> dialog.with, chosen |-> ids]
    BY <1>d DEF Opened, Shape
  <2>3. ids \subseteq GroupedPipes BY <1>t, <1>d, <2>1 DEF Opened
  <2>4. Opened([dialog EXCEPT !.chosen = ids]) BY <1>d, <2>2, <2>3 DEF Opened, Shape
  <2>5. QED BY <2>1, <2>4, ShowTyped
<1>6. CASE Page!AddPipeline BY <1>6, OpenedIs, ShowTyped DEF Page!AddPipeline
<1>7. CASE Page!Close BY <1>7, OpenedIs, ShowTyped DEF Page!Close, Page!Closed
<1>8. QED BY <1>t, <1>1, <1>2, <1>3, <1>4, <1>5, <1>6, <1>7

LEMMA SendTyped ==
  ASSUME PageTyped, NEW kind, NEW on, NEW with, Page!Send(kind, on, with),
         kind \in {"create", "save"} => on \in GroupedPipes /\ with \in Groups \cup {None},
         UNCHANGED <<groups, pipes, seen, shownGroups, shownPipes, dialog>>
  PROVE  PageTyped'
<1>1. PICK w : w = [kind |-> kind, on |-> on, with |-> with, n |-> clicks] OBVIOUS
<1>2. calls' = calls \cup {w} BY <1>1 DEF Page!Send
<1>3. Saves(w) BY <1>1 DEF Saves
<1>4. QED BY <1>2, <1>3 DEF PageTyped, Page!TypeOK, Shape, Finds, FoundIs

LEMMA ClickTyped ==
  ASSUME PageTyped,
         \/ \E g \in shownGroups : Page!DeleteGroup(g)
         \/ \E p \in shownPipes : Page!Detach(p) \/ Page!DeletePipeline(p)
         \/ Page!SaveGroup \/ Page!ConfirmAttach \/ Page!ConfirmJoin
         \/ \E p \in GroupedPipes : Page!FetchInfo(p) \/ Page!SavePipeline(p)
  PROVE  PageTyped'
<1>1. ASSUME NEW p \in GroupedPipes, Page!SavePipeline(p) PROVE PageTyped'
  <2>1. dialog.with \in Groups \cup {None} BY DEF PageTyped, Page!TypeOK
  <2>2. QED BY <1>1, <2>1, SendTyped DEF Page!SavePipeline, Page!server, Page!shown
<1>2. CASE Page!SaveGroup
  BY <1>2, SendTyped DEF Page!SaveGroup, Page!server, Page!shown
<1>3. CASE Page!ConfirmAttach
  BY <1>3, SendTyped DEF Page!ConfirmAttach, Page!server, Page!shown
<1>4. CASE Page!ConfirmJoin
  BY <1>4, SendTyped DEF Page!ConfirmJoin, Page!server, Page!shown
<1>5. ASSUME NEW g, Page!DeleteGroup(g) PROVE PageTyped'
  BY <1>5, SendTyped DEF Page!DeleteGroup, Page!server, Page!shown
<1>6. ASSUME NEW p, Page!Detach(p) PROVE PageTyped'
  BY <1>6, SendTyped DEF Page!Detach, Page!server, Page!shown
<1>7. ASSUME NEW p, Page!DeletePipeline(p) PROVE PageTyped'
  BY <1>7, SendTyped DEF Page!DeletePipeline, Page!server, Page!shown
<1>8. ASSUME NEW p, Page!FetchInfo(p) PROVE PageTyped'
  BY <1>8, SendTyped DEF Page!FetchInfo, Page!server, Page!shown
<1>9. QED BY <1>1, <1>2, <1>3, <1>4, <1>5, <1>6, <1>7, <1>8

LEMMA MovedTyped ==
  ASSUME Page!TypeOK, NEW ps, NEW g \in Groups \cup {None}
  PROVE  Page!Moved(ps, g) \subseteq Page!Pipe
BY DEF Page!TypeOK, Page!Moved, Page!Pipe

(* What an answer keeps of the requests, and what it does with the dialog. *)
LEMMA AnswerTyped ==
  ASSUME PageTyped, NEW w, NEW L \in SUBSET Page!Lists, Page!Refreshed(w, L),
         dialog' \in {dialog, Page!Closed},
         groups' \subseteq Groups, shownGroups' \subseteq Groups,
         pipes' \subseteq Page!Pipe, shownPipes' \subseteq Page!Pipe
  PROVE  PageTyped'
<1>1. \A x \in L : Saves(x) BY DEF Page!Lists, Saves
<1>2. \A x \in calls' : Saves(x) BY <1>1 DEF PageTyped, Page!Refreshed
<1>3. Opened(dialog) BY DEF PageTyped, Page!TypeOK, Opened
<1>4. Opened(Page!Closed) BY OpenedIs DEF Page!Closed
<1>5. Opened(dialog') BY <1>3, <1>4
<1>6. seen' \subseteq seen BY Writing
<1>7. Finds' /\ \A s \in seen' : s.rows \subseteq Page!Pipe
  BY <1>6 DEF PageTyped, Finds, FoundIs, Page!TypeOK
<1>8. QED BY <1>2, <1>5, <1>7 DEF PageTyped, Page!TypeOK, Opened, Page!Pipe

LEMMA PageStep ==
  ASSUME Page!Sensible, PageTyped, [Page!Next]_(Page!vars)
  PROVE  PageTyped'
<1>t. /\ groups \subseteq Groups /\ shownGroups \subseteq Groups
      /\ pipes \subseteq Page!Pipe /\ shownPipes \subseteq Page!Pipe
  BY DEF PageTyped, Page!TypeOK
<1>l. /\ {} \in SUBSET Page!Lists /\ Page!Lists \in SUBSET Page!Lists
      /\ {x \in Page!Lists : x.kind = "pipes"} \in SUBSET Page!Lists
  OBVIOUS
<1>1. ASSUME NEW w \in calls,
             \/ Page!Refused(w) \/ Page!GroupsAnswer(w) \/ Page!PipesAnswer(w)
             \/ Page!GroupDeleted(w) \/ Page!InfoAnswer(w)
      PROVE  PageTyped'
  <2>1. \E L \in SUBSET Page!Lists : Page!Refreshed(w, L) /\ dialog' = dialog
    BY <1>1, <1>l DEF Page!Refused, Page!GroupsAnswer, Page!PipesAnswer, Page!GroupDeleted,
                     Page!InfoAnswer
  <2>2. /\ groups' \subseteq Groups /\ shownGroups' \subseteq Groups
        /\ pipes' \subseteq Page!Pipe /\ shownPipes' \subseteq Page!Pipe
    BY <1>1, <1>t DEF Page!Refused, Page!GroupsAnswer, Page!PipesAnswer, Page!GroupDeleted,
                     Page!InfoAnswer, Page!tables, Page!shown
  <2>3. QED BY <2>1, <2>2, AnswerTyped
<1>2. ASSUME NEW w \in calls, Page!GroupSaved(w) PROVE PageTyped'
  <2>1. /\ w.kind = "group" /\ UNCHANGED <<pipes, shownGroups, shownPipes>>
        /\ dialog' \in {dialog, Page!Closed} /\ Page!Refreshed(w, Page!Lists)
    BY <1>2 DEF Page!GroupSaved, Page!shown, Page!CloseIf
  <2>2. groups' \subseteq Groups
    <3>1. CASE w.on = None BY <1>2, <1>t, <3>1 DEF Page!GroupSaved
    <3>2. CASE w.on # None
      <4>1. groups' = groups \cup {w.on} /\ Page!ReadBy(w) # {}
        BY <1>2, <3>2 DEF Page!GroupSaved
      <4>2. PICK s \in seen : s.call = w BY <2>1, <4>1, Writing
      <4>3. QED BY <1>t, <2>1, <4>1, <4>2 DEF PageTyped, Finds, FoundIs
    <3>3. QED BY <3>1, <3>2
  <2>3. QED BY <1>t, <1>l, <2>1, <2>2, AnswerTyped
<1>3. ASSUME NEW w \in calls, Page!Attached(w) \/ Page!Joined(w) PROVE PageTyped'
  <2>1. /\ UNCHANGED <<groups, shownGroups, shownPipes>>
        /\ w.kind \in {"attach", "join"} /\ Page!ReadBy(w) # {}
        /\ pipes' = Page!Moved(w.on, w.with)
        /\ dialog' \in {dialog, Page!Closed} /\ Page!Refreshed(w, Page!Lists)
    BY <1>3 DEF Page!Attached, Page!Joined, Page!shown, Page!CloseIf
  <2>s. PICK s \in seen : s.call = w BY <2>1, Writing
  <2>w. w.with \in Groups BY <2>1, <2>s DEF PageTyped, Finds, FoundIs
  <2>2. pipes' \subseteq Page!Pipe BY <2>1, <2>w, MovedTyped DEF PageTyped
  <2>3. QED BY <1>t, <1>l, <2>1, <2>2, AnswerTyped
<1>4. ASSUME NEW w \in calls, Page!Detached(w) PROVE PageTyped'
  <2>1. /\ UNCHANGED <<groups, shownGroups, shownPipes, dialog>>
        /\ pipes' = Page!Moved(Page!Members(w), None) /\ Page!Refreshed(w, Page!Lists)
    BY <1>4 DEF Page!Detached, Page!shown
  <2>2. pipes' \subseteq Page!Pipe BY <2>1, MovedTyped DEF PageTyped
  <2>3. QED BY <1>t, <1>l, <2>1, <2>2, AnswerTyped
<1>5. ASSUME NEW w \in calls, Page!PipelineCreated(w) \/ Page!PipelineSaved(w) PROVE PageTyped'
  <2>1. /\ UNCHANGED <<groups, shownGroups, shownPipes>>
        /\ dialog' \in {dialog, Page!Closed}
        /\ Page!Refreshed(w, {x \in Page!Lists : x.kind = "pipes"})
        /\ w.kind \in {"create", "save"}
    BY <1>5 DEF Page!PipelineCreated, Page!PipelineSaved, Page!shown, Page!CloseIf
  <2>2. w.on \in GroupedPipes /\ w.with \in Groups \cup {None}
    BY <2>1 DEF PageTyped, Saves
  <2>3. \A g \in Groups \cup {None} : [id |-> w.on, group |-> g] \in Page!Pipe
    BY <2>2 DEF Page!Pipe
  <2>4. CASE Page!PipelineCreated(w)
    <3>1. pipes' \subseteq Page!Pipe BY <1>t, <2>2, <2>3, <2>4 DEF Page!PipelineCreated
    <3>2. QED BY <1>t, <1>l, <2>1, <3>1, AnswerTyped
  <2>5. CASE Page!PipelineSaved(w)
    <3>s. PICK s \in Page!ReadBy(w) : \E r \in s.rows :
            pipes' = {p \in pipes : p.id # w.on}
                       \cup {[id |-> w.on, group |-> Page!GroupKept(w, r)]}
      BY <2>5 DEF Page!PipelineSaved
    <3>1. PICK r \in s.rows :
            pipes' = {p \in pipes : p.id # w.on}
                       \cup {[id |-> w.on, group |-> Page!GroupKept(w, r)]}
      BY <3>s
    <3>2. r \in Page!Pipe BY <3>1 DEF Page!ReadBy, PageTyped, Page!TypeOK
    <3>3. Page!GroupKept(w, r) \in Groups \cup {None}
      BY <2>2, <3>2 DEF Page!GroupKept, Page!Pipe
    <3>4. pipes' \subseteq Page!Pipe BY <1>t, <2>3, <3>1, <3>3
    <3>5. QED BY <1>t, <1>l, <2>1, <3>4, AnswerTyped
  <2>6. QED BY <1>5, <2>4, <2>5
<1>6. ASSUME NEW w \in calls, Page!PipelineDeleted(w) PROVE PageTyped'
  <2>1. /\ UNCHANGED <<groups, shownGroups, shownPipes, dialog>>
        /\ pipes' \subseteq pipes
        /\ Page!Refreshed(w, {x \in Page!Lists : x.kind = "pipes"})
    BY <1>6 DEF Page!PipelineDeleted, Page!shown
  <2>2. pipes' \subseteq Page!Pipe BY <1>t, <2>1
  <2>3. QED BY <1>t, <1>l, <2>1, <2>2, AnswerTyped
<1>7. ASSUME NEW p \in pipes, NEW g \in groups, Page!MovedElsewhere(p, g) PROVE PageTyped'
  <2>1. /\ UNCHANGED <<groups, seen, shownGroups, shownPipes, dialog, calls>>
        /\ pipes' = Page!Moved({p.id}, g)
    BY <1>7 DEF Page!MovedElsewhere, Page!shown
  <2>2. pipes' \subseteq Page!Pipe BY <1>t, <2>1, MovedTyped DEF PageTyped
  <2>3. QED BY <2>1, <2>2 DEF PageTyped, Page!TypeOK, Shape, Finds, FoundIs
<1>8. ASSUME NEW w \in calls, Page!Read(w) PROVE PageTyped'
  <2>1. UNCHANGED <<groups, pipes, shownGroups, shownPipes, dialog, calls>> /\ Page!Found(w)
    BY <1>8 DEF Page!Read, Page!tables, Page!shown
  <2>2. FoundIs(w) BY <1>t, <2>1 DEF Page!Found, FoundIs
  <2>r. PICK R \in SUBSET pipes : seen' = seen \cup {[call |-> w, rows |-> R]}
    BY <1>8 DEF Page!Read
  <2>s. PICK t : t = [call |-> w, rows |-> R] OBVIOUS
  <2>t. t.call = w /\ t.rows = R BY <2>s
  <2>u. seen' = seen \cup {t} BY <2>r, <2>s
  <2>3. \A s \in seen' : s \in seen \/ (s.call = w /\ s.rows = R) BY <2>t, <2>u
  <2>4. \A s \in seen' : FoundIs(s.call) /\ s.rows \subseteq Page!Pipe
    BY <1>t, <2>2, <2>3 DEF PageTyped, Finds, Page!TypeOK
  <2>5. QED BY <2>1, <2>4 DEF PageTyped, Page!TypeOK, Shape, Finds, FoundIs, Page!Pipe
<1>9. CASE UNCHANGED Page!vars
  BY <1>9 DEF Page!vars, PageTyped, Page!TypeOK, Shape, Finds, FoundIs
<1>10. CASE Page!Next
  BY <1>1, <1>2, <1>3, <1>4, <1>5, <1>6, <1>7, <1>8, <1>10, DialogTyped, ClickTyped
  DEF Page!Next
<1>11. QED BY <1>9, <1>10

(* The pipelines, the groups, the lists shown and the dialog have their    *)
(* types.                                                                  *)
THEOREM PageTypeCorrect == ASSUME Page!Sensible PROVE Page!Spec => []Page!TypeOK
<1>1. ASSUME Page!Init PROVE PageTyped
  <2>1. Opened(dialog) BY <1>1, OpenedIs DEF Page!Init, Page!Closed
  <2>2. groups \subseteq Groups /\ pipes \subseteq Page!Pipe
    BY <1>1 DEF Page!Init, Page!Pipe
  <2>3. QED BY <1>1, <2>1, <2>2 DEF Page!Init, PageTyped, Page!TypeOK, Opened, Finds
<1>2. PageTyped /\ [Page!Next]_(Page!vars) => PageTyped' BY PageStep
<1>3. PageTyped => Page!TypeOK BY DEF PageTyped
<1>4. QED BY <1>1, <1>2, <1>3, PTL DEF Page!Spec
=============================================================================
