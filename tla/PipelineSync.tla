----------------------------- MODULE PipelineSync -----------------------------
(***************************************************************************)
(* The differences between the execution schemes of a pipeline and those   *)
(* of the third-party console: handlers/pipeline_sync.go, which computes   *)
(* them and carries single items one way or the other, and the drawer of   *)
(* components/SyncDiffModal.tsx with its part of pages/PipelineConfig.tsx, *)
(* which shows them and asks for the items.                                *)
(*                                                                         *)
(* A scheme is told from another by its name and by its branch of the one  *)
(* repository.  The differences are computed in one step and arrive in a   *)
(* later one, in any order.                                                *)
(***************************************************************************)
EXTENDS Naturals, FiniteSets

CONSTANTS
  None,       \* no pipeline, no differences
  Pipes, Names, Branches,
  Initially,  \* the store at first, see Stores
  MaxIds,     \* bound: identifiers of rows and remote objects
  MaxSent,    \* bound: requests sent by clicks
  MaxDrift    \* bound: changes made elsewhere, on the console or to a row

Nil == 0
Ids == 1 .. MaxIds
Categories == {"scheme", "mr_binding", "execution_plan"}

VARIABLES
  store,    \* the rows of execution_schemes and the schemes of the console
  issued,   \* the last identifier issued
  visible,  \* diffModalVisible
  loading,  \* diffLoading
  diff,     \* diffResult
  target,   \* syncTargetPipeline
  syncing,  \* syncingKey is set
  waiting,  \* requests in flight
  sent, drifted

vars == <<store, issued, visible, loading, diff, target, syncing, waiting, sent, drifted>>

-----------------------------------------------------------------------------
(* The store *)

Row == [id: Ids, pipe: Pipes, ext: Ids \cup {Nil}, name: Names, branch: Branches,
        mr: BOOLEAN, binding: Ids \cup {Nil}, daily: BOOLEAN, plan: Ids \cup {Nil},
        planName: Names \cup {""}]
Binding == [id: Ids, branch: Branches]
Plan == [id: Ids, name: Names]

Lowest(objects) == CHOOSE x \in objects : \A y \in objects : x.id <= y.id
Latest(rows) == CHOOSE x \in rows : \A y \in rows : x.id >= y.id

(* A remote scheme as the handler assembles it: its first binding and its  *)
(* first plan, and the branch of the binding before its own.               *)
View(s) ==
  LET mr == s.bindings # {}
      daily == s.plans # {}
  IN [ext |-> s.id, name |-> s.name, mr |-> mr, daily |-> daily,
      branch |-> IF mr THEN Lowest(s.bindings).branch ELSE s.branch,
      binding |-> IF mr THEN Lowest(s.bindings).id ELSE Nil,
      plan |-> IF daily THEN Lowest(s.plans).id ELSE Nil,
      planName |-> IF daily THEN Lowest(s.plans).name ELSE ""]
Views(st, p) == {View(s) : s \in {x \in st.remote : x.pipe = p}}
RowsOf(st, p) == {l \in st.rows : l.pipe = p}

(* By the identifier, else by the branch, else by the name: of several     *)
(* rows the last one, as the maps of the handler keep it.                  *)
Matching(rows, v) ==
  LET byExt == {l \in rows : l.ext = v.ext}
      byBranch == {l \in rows : l.branch = v.branch}
      byName == {l \in rows : l.name = v.name}
      found == IF byExt # {} THEN byExt ELSE IF byBranch # {} THEN byBranch ELSE byName
  IN IF found = {} THEN {} ELSE {Latest(found)}

Changes(l, v) ==
  {c \in Categories :
     \/ c = "scheme" /\ l.branch # v.branch
     \/ c = "mr_binding" /\ l.mr # v.mr
     \/ c = "execution_plan" /\ (l.daily # v.daily \/ (l.daily /\ l.planName # v.planName))}

Updates(st, p) ==
  {u \in {[row |-> l.id, data |-> v, changes |-> Changes(l, v)] :
             l \in RowsOf(st, p), v \in Views(st, p)} :
     /\ u.changes # {}
     /\ \E l \in Matching(RowsOf(st, p), u.data) : l.id = u.row}
Additions(st, p) == {v \in Views(st, p) : Matching(RowsOf(st, p), v) = {}}
Surplus(st, p) == {l.id : l \in {x \in RowsOf(st, p) :
                                   \A v \in Views(st, p) : x \notin Matching(RowsOf(st, p), v)}}
Differences(st, p) == [pipe |-> p, update |-> Updates(st, p), add |-> Additions(st, p),
                       delete |-> Surplus(st, p)]

-----------------------------------------------------------------------------
(* SyncSingleExecutionSchemeItem: the stores one item may lead to; none    *)
(* when it fails.  i is the next identifier.                               *)

With(st, old, new) == [st EXCEPT !.rows = (@ \ {old}) \cup {new}]
WithRemote(st, old, new) == [st EXCEPT !.remote = (@ \ {old}) \cup {new}]

(* Mutant: the row keeps the branch it has.                                *)
PulledParts(l, v, category) ==
  [l EXCEPT !.ext = v.ext, !.mr = v.mr, !.binding = v.binding,
            !.daily = v.daily, !.plan = v.plan, !.planName = v.planName]
Pulled(l, v, category) ==
  LET mr == category \in {"mr_binding", "full"}
      daily == category \in {"execution_plan", "full"}
      own == category \in {"scheme", "full"}
  IN [l EXCEPT !.branch = IF own \/ mr THEN v.branch ELSE @,
               !.ext = IF own THEN v.ext ELSE @, !.name = IF own THEN v.name ELSE @,
               !.mr = IF mr THEN v.mr ELSE @, !.binding = IF mr THEN v.binding ELSE @,
               !.daily = IF daily THEN v.daily ELSE @, !.plan = IF daily THEN v.plan ELSE @,
               !.planName = IF daily THEN v.planName ELSE @]
RowFrom(i, p, v) == [id |-> i, pipe |-> p, ext |-> v.ext, name |-> v.name, branch |-> v.branch,
                     mr |-> v.mr, binding |-> v.binding, daily |-> v.daily, plan |-> v.plan,
                     planName |-> v.planName]

PullAdd(st, p, v, i) == {[st EXCEPT !.rows = @ \cup {RowFrom(i, p, v)}]}
PullDelete(st, p, row) == {[st EXCEPT !.rows = {l \in @ : ~(l.id = row /\ l.pipe = p)}]}
PullUpdate(st, p, row, v, category) ==
  {With(st, l, Pulled(l, v, category)) : l \in {x \in RowsOf(st, p) : x.id = row}}

DeleteRemote(st, v) == {[st EXCEPT !.remote = {s \in @ : s.id # v.ext}]}

(* After a plan is created its identifier is looked up: the first plan of  *)
(* the pipeline with the scheme's name, which may be another scheme's.     *)
PlanIds(st, p, name, i) ==
  {i} \cup {b.id : b \in {x \in UNION {s.plans : s \in {r \in st.remote : r.pipe = p}} :
                           x.name = name}}

(* A new remote scheme with all its parts, its identifiers written back to *)
(* the row.                                                                *)
Created(st, p, l, i, plan) ==
  [st EXCEPT
     !.remote = @ \cup {[id |-> i, pipe |-> p, name |-> l.name, branch |-> l.branch,
                         bindings |-> IF l.mr THEN {[id |-> i, branch |-> l.branch]} ELSE {},
                         plans |-> IF l.daily THEN {[id |-> i, name |-> l.name]} ELSE {}]},
     !.rows = (@ \ {l}) \cup
              {[l EXCEPT !.ext = i, !.binding = IF l.mr THEN i ELSE @,
                         !.plan = IF l.daily THEN plan ELSE @,
                         !.planName = IF l.daily THEN l.name ELSE @]}]
PushCreate(st, p, row, i) ==
  UNION {{Created(st, p, l, i, j) : j \in PlanIds(st, p, l.name, i)} :
         l \in {x \in st.rows : x.id = row}}

(* The calls that undo a creation, in this order: they delete the plan, the *)
(* binding and the scheme, and stop at the first that fails; done of them   *)
(* did not.  bound tells that the creation failed after its binding was     *)
(* made; left is what of the new scheme stays on the console.               *)
RolledBack(st, p, l, i, bound, done) ==
  LET plan == IF done > 0 THEN l.plan ELSE Nil
      binding == IF done > 1 /\ ~bound THEN l.binding ELSE Nil
      k == [l EXCEPT !.ext = IF done = 3 THEN Nil ELSE @,
                     !.binding = IF done > 1 THEN Nil ELSE @,
                     !.mr = @ /\ (done < 2 \/ (l.binding = Nil /\ ~bound)),
                     !.plan = IF done > 0 THEN Nil ELSE @,
                     !.daily = @ /\ plan = Nil, !.planName = IF plan = Nil THEN @ ELSE ""]
      made == [id |-> i, pipe |-> p, name |-> l.name, branch |-> l.branch, plans |-> {},
               bindings |-> IF bound /\ done < 2 THEN {[id |-> i, branch |-> l.branch]} ELSE {}]
      rest == {[s EXCEPT !.plans = {b \in @ : b.id # plan},
                         !.bindings = {b \in @ : b.id # binding}] : s \in st.remote}
  IN {[rows |-> (st.rows \ {l}) \cup {k}, remote |-> rest \cup left] :
        left \in IF bound /\ done = 3 THEN {{}} ELSE {{}, {made}}}

(* The row that is pushed, or the data of the item once the row is gone.   *)
Pushed(st, p, row, v) ==
  LET here == {l \in st.rows : l.id = row}
      l == IF here = {} THEN RowFrom(row, p, v) ELSE CHOOSE x \in here : TRUE
  IN IF l.ext = Nil THEN [l EXCEPT !.ext = v.ext] ELSE l
Home(st, l) == {s \in st.remote : s.id = l.ext}
Written(st, row, new) == [st EXCEPT !.rows = {IF l.id = row THEN new[l] ELSE l : l \in @}]

PushBinding(st, l, i) ==
  IF l.mr /\ l.binding = Nil
  THEN {WithRemote(Written(st, l.id, [x \in st.rows |-> [x EXCEPT !.mr = TRUE, !.binding = i]]),
                   s, [s EXCEPT !.bindings = @ \cup {[id |-> i, branch |-> l.branch]}]) :
          s \in Home(st, l)}
  ELSE IF ~l.mr /\ l.binding = Nil THEN {st}
  ELSE {LET kept == {b \in s.bindings : b.id # l.binding}
            gone == Written(st, l.id, [x \in st.rows |-> [x EXCEPT !.mr = FALSE, !.binding = Nil]])
        IN IF l.mr
           THEN WithRemote(st, s, [s EXCEPT !.bindings =
                                     kept \cup {[id |-> l.binding, branch |-> l.branch]}])
           ELSE WithRemote(gone, s, [s EXCEPT !.bindings = kept]) :
          s \in {x \in st.remote : \E b \in x.bindings : b.id = l.binding}}

(* A plan that is wanted is always a new one.                              *)
WithPlan(st, l, i, plan, s) ==
  WithRemote(Written(st, l.id, [x \in st.rows |-> [x EXCEPT !.daily = TRUE, !.plan = plan,
                                                           !.planName = l.name]]),
             s, [s EXCEPT !.plans = @ \cup {[id |-> i, name |-> l.name]}])
PushPlan(st, p, l, i) ==
  IF l.daily
  THEN UNION {{WithPlan(st, l, i, j, s) : j \in PlanIds(st, p, l.name, i)} : s \in Home(st, l)}
  ELSE IF l.plan = Nil THEN {st}
  ELSE {WithRemote(Written(st, l.id, [x \in st.rows |-> [x EXCEPT !.daily = FALSE, !.plan = Nil,
                                                                 !.planName = ""]]),
                   s, [s EXCEPT !.plans = {b \in @ : b.id # l.plan}]) :
          s \in {x \in st.remote : \E b \in x.plans : b.id = l.plan}}

(* The whole scheme: neither the binding nor the plan are touched.         *)
PushScheme(st, l) ==
  {WithRemote(st, s, [s EXCEPT !.name = l.name, !.branch = l.branch]) : s \in Home(st, l)}

Push(st, p, row, v, category, i) ==
  LET l == Pushed(st, p, row, v)
  IN CASE category = "mr_binding" -> PushBinding(st, l, i)
       [] category = "execution_plan" -> PushPlan(st, p, l, i)
       [] OTHER -> PushScheme(st, l)

Carried(st, w, i) ==
  CASE w.action = "pull_add" -> PullAdd(st, w.pipe, w.data, i)
    [] w.action = "pull_delete" -> PullDelete(st, w.pipe, w.row)
    [] w.action = "pull" -> PullUpdate(st, w.pipe, w.row, w.data, w.category)
    [] w.action = "delete_remote" -> DeleteRemote(st, w.data)
    [] w.action = "create_remote" -> PushCreate(st, w.pipe, w.row, i)
    [] w.action = "push" -> Push(st, w.pipe, w.row, w.data, w.category, i)

-----------------------------------------------------------------------------
(* The page *)

Init ==
  /\ store = Initially
  /\ issued = CHOOSE i \in Ids \cup {Nil} :
                /\ \A x \in store.rows \cup store.remote : x.id <= i
                /\ i = Nil \/ \E x \in store.rows \cup store.remote : x.id = i
  /\ visible = FALSE /\ loading = FALSE /\ diff = None /\ target = None /\ syncing = FALSE
  /\ waiting = {} /\ sent = 0 /\ drifted = 0

(* handleTriggerSync; awaited tells that an item waits for this answer.    *)
Trigger(p, awaited, rest) ==
  /\ target' = p /\ visible' = TRUE /\ loading' = TRUE /\ diff' = None
  /\ waiting' = rest \cup {[kind |-> "diff", pipe |-> p, awaited |-> awaited,
                            answer |-> None, n |-> sent]}
Click == sent < MaxSent /\ sent' = sent + 1

(* The button of a pipeline; the drawer covers it while it is open.        *)
OpenDiff(p) ==
  /\ ~visible /\ Click /\ Trigger(p, FALSE, waiting)
  /\ UNCHANGED <<store, issued, syncing, drifted>>
RefreshDiff ==
  /\ visible /\ ~loading /\ ~syncing /\ Click /\ Trigger(target, FALSE, waiting)
  /\ UNCHANGED <<store, issued, syncing, drifted>>
(* The cross of the drawer closes it, whatever is in flight.               *)
CloseDiff ==
  /\ visible /\ visible' = FALSE
  /\ UNCHANGED <<store, issued, loading, diff, target, syncing, waiting, sent, drifted>>

(* CalculateExecutionSchemeDiff *)
Calculate(w) ==
  /\ w.kind = "diff" /\ w.answer = None
  /\ waiting' = (waiting \ {w}) \cup {[w EXCEPT !.answer = Differences(store, w.pipe)]}
  /\ UNCHANGED <<store, issued, visible, loading, diff, target, syncing, sent, drifted>>
DiffAnswer(w) ==
  /\ w.kind = "diff" /\ w.answer # None
  /\ waiting' = waiting \ {w} /\ diff' = w.answer /\ loading' = FALSE
  /\ syncing' = (syncing /\ ~w.awaited)
  /\ UNCHANGED <<store, issued, visible, target, sent, drifted>>
DiffRefused(w) ==
  /\ w.kind = "diff" /\ waiting' = waiting \ {w}
  /\ visible' = FALSE /\ loading' = FALSE /\ syncing' = (syncing /\ ~w.awaited)
  /\ UNCHANGED <<store, issued, diff, target, sent, drifted>>

(* Mutant: an item goes to the pipeline of the drawer's title.             *)
TitlePipe == target
(* handleSingleItemSync: the pipeline is that of the differences shown.    *)
ItemPipe == diff.pipe
NoData == [ext |-> Nil]
Item(action, category, row, data) ==
  [action |-> action, category |-> category, row |-> row, data |-> data]
UpdateItems == UNION {{Item(a, c, u.row, u.data) : a \in {"pull", "push"},
                                                   c \in u.changes \cup {"full"}} : u \in diff.update}
AddItems == {Item(a, "full", Nil, v) : a \in {"pull_add", "delete_remote"}, v \in diff.add}
DeleteItems == {Item(a, "full", l, NoData) : a \in {"create_remote", "pull_delete"}, l \in diff.delete}
Ask(x) == waiting' = waiting \cup
  {[kind |-> "item", pipe |-> ItemPipe, action |-> x.action, category |-> x.category,
    row |-> x.row, data |-> x.data, title |-> target, n |-> sent]}
(* Mutant: the buttons stay enabled.                                       *)
Enabled == visible /\ ~loading /\ diff # None
CanSync == Enabled /\ ~syncing
SyncItem ==
  /\ CanSync /\ Click /\ \E x \in UpdateItems \cup AddItems \cup DeleteItems : Ask(x)
  /\ syncing' = TRUE
  /\ UNCHANGED <<store, issued, visible, loading, diff, target, drifted>>

(* The differences of the pipeline the drawer named are asked for again,   *)
(* which opens the drawer again if it was closed meanwhile.                *)
ItemDone(w) ==
  /\ w.kind = "item" /\ issued < MaxIds /\ issued' = issued + 1
  /\ store' \in Carried(store, w, issued + 1)
  /\ Trigger(w.title, TRUE, waiting \ {w})
  /\ UNCHANGED <<syncing, sent, drifted>>
(* A creation that fails deletes what was made, as far as it gets.         *)
CreateRolledBack(w) ==
  /\ w.kind = "item" /\ w.action = "create_remote"
  /\ waiting' = waiting \ {w} /\ syncing' = FALSE
  /\ issued < MaxIds /\ issued' = issued + 1
  /\ \E l \in {x \in store.rows : x.id = w.row}, done \in 0 .. 3 :
       \E bound \in {FALSE, l.mr /\ l.daily} :
         store' \in RolledBack(store, w.pipe, l, issued + 1, bound, done)
  /\ UNCHANGED <<visible, loading, diff, target, sent, drifted>>
ItemFailed(w) ==
  /\ w.kind = "item" /\ waiting' = waiting \ {w} /\ syncing' = FALSE
  /\ UNCHANGED <<store, issued, visible, loading, diff, target, sent, drifted>>

-----------------------------------------------------------------------------
(* Changes made elsewhere *)

Drift == drifted < MaxDrift /\ drifted' = drifted + 1
(* On the console: a scheme, its binding or its plan is changed.           *)
ConsoleChange(s, i) ==
  \/ \E b \in Branches \ {s.branch} : store' = WithRemote(store, s, [s EXCEPT !.branch = b])
  \/ store' = WithRemote(store, s, [s EXCEPT !.bindings =
                IF @ = {} THEN {[id |-> i, branch |-> s.branch]} ELSE {}])
  \/ store' = WithRemote(store, s, [s EXCEPT !.plans =
                IF @ = {} THEN {[id |-> i, name |-> s.name]} ELSE {}])
  \/ store' = [store EXCEPT !.remote = @ \ {s}]
(* An update of the row whose remote calls failed.                         *)
RowChange(l) ==
  \/ \E b \in Branches \ {l.branch} : store' = With(store, l, [l EXCEPT !.branch = b])
  \/ store' = With(store, l, [l EXCEPT !.mr = ~@])
  \/ store' = With(store, l, [l EXCEPT !.daily = ~@])
Elsewhere ==
  /\ Drift /\ issued < MaxIds /\ issued' = issued + 1
  /\ \/ \E s \in store.remote : ConsoleChange(s, issued + 1)
     \/ \E l \in store.rows : RowChange(l)
  /\ UNCHANGED <<visible, loading, diff, target, syncing, waiting, sent>>

Next ==
  \/ \E p \in Pipes : OpenDiff(p)
  \/ RefreshDiff \/ CloseDiff \/ SyncItem \/ Elsewhere
  \/ \E w \in waiting : \/ Calculate(w) \/ DiffAnswer(w) \/ DiffRefused(w)
                        \/ ItemDone(w) \/ CreateRolledBack(w) \/ ItemFailed(w)

Spec == Init /\ [][Next]_vars

-----------------------------------------------------------------------------
(* Properties *)

Scheme == [id: Ids, pipe: Pipes, name: Names, branch: Branches, bindings: SUBSET Binding,
           plans: SUBSET Plan]
Typed(st) ==
  /\ st = [rows |-> st.rows, remote |-> st.remote]
  /\ st.rows \subseteq Row /\ st.remote \subseteq Scheme
(* An identifier is one row's, and one remote scheme's.                    *)
Keyed(st) ==
  /\ \A k, l \in st.rows : k.id = l.id => k = l
  /\ \A r, s \in st.remote : r.id = s.id => r = s

(* What the store is at first: types, keys, no row with a scheme of another *)
(* pipeline, and none with an identifier that is yet to be issued.          *)
Sensible ==
  /\ MaxIds \in Nat
  /\ Typed(Initially) /\ Keyed(Initially)
  /\ \A l \in Initially.rows :
       /\ \A s \in Initially.remote : l.ext = s.id => l.pipe = s.pipe
       /\ l.ext = Nil \/ \E x \in Initially.rows \cup Initially.remote : l.ext <= x.id

(* The values of the variables: rows and what the drawer holds.            *)
TypeOK ==
  /\ store.rows \subseteq Row /\ issued \in Ids \cup {Nil}
  /\ {visible, loading, syncing} \subseteq BOOLEAN /\ target \in Pipes \cup {None}
  /\ diff = None \/ diff.pipe \in Pipes

(* One item is carried at a time, and syncingKey is set from its click     *)
(* until the differences it asks for have arrived, however the drawer is   *)
(* closed and opened meanwhile.                                            *)
Carrying == {w \in waiting : w.kind = "item" \/ (w.kind = "diff" /\ w.awaited)}
OneItem == /\ syncing <=> Carrying # {}
           /\ \A v, w \in Carrying : v = w

(* A row never names a scheme of another pipeline, even when the           *)
(* differences of one pipeline are shown under the title of another.       *)
OwnPipeline ==
  \A l \in store.rows, s \in store.remote : l.ext = s.id => l.pipe = s.pipe

(* What is pulled as a whole is no difference any more.                    *)
Differing(st, p, v) == {u \in Updates(st, p) : u.data.ext = v.ext}
PullSettles ==
  \A p \in Pipes :
    /\ \A u \in Updates(store, p) :
         \A st \in PullUpdate(store, p, u.row, u.data, "full") : Differing(st, p, u.data) = {}
    /\ \A v \in Additions(store, p) :
         \A st \in PullAdd(store, p, v, MaxIds + 1) : Differing(st, p, v) = {}

(* What is pushed is no difference any more.                               *)
PushSettles ==
  \A p \in Pipes : \A u \in Updates(store, p) : \A c \in u.changes :
    \A st \in Push(store, p, u.row, u.data, c, MaxIds + 1) :
      \A d \in Differing(st, p, u.data) : c \notin d.changes
=============================================================================
