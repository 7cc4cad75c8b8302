-------------------------- MODULE SchemeUpdate_proofs --------------------------
(***************************************************************************)
(* Updates of a scheme, for any scenario: any number of updates at a time, *)
(* any forms, any faults and any number of them.                           *)
(***************************************************************************)
EXTENDS SchemeUpdate, FiniteSetTheorems, TLAPS

SchemeParams == [name: Names, branch: Branches, attrs: Attrs, langs: Langs \cup {NoLangs},
                 task: Ids \cup {Nil}]
Tasks == [id: Ids, name: Names, langs: Langs \cup {NoLangs}]
Bindings == [id: Ids, name: Names, branch: Branches]
Plans == [id: Ids, name: Names, time: Times]

Typed == TypeOK /\ scenario \in Scenarios /\ Idle \in Request

-----------------------------------------------------------------------------
(* Forms, rows and requests *)

LEMMA FewIds == 1 \in Ids /\ 2 \in Ids /\ 3 \in Ids /\ 3 \in 0 .. MaxIds /\ Nil \notin Ids
BY ConstantsAssumption DEF Ids, Nil

LEMMA NewRowTyped ==
  ASSUME NEW forms, forms \subseteq Form, NEW r \in NewRows(forms)
  PROVE  /\ r \in SchemeRow /\ r.form \in forms
         /\ r.ext.task \in {Nil, 1} /\ r.ext.binding \in {Nil, 2} /\ r.ext.plan \in {Nil, 3}
         /\ r.taskName \in {NoName, r.form.name}
         /\ r.ext.binding = (IF r.form.mr THEN 2 ELSE Nil)
BY FewIds DEF NewRows, IsFormed, SchemeRow, IdColumns

LEMMA IdleTyped ==
  ASSUME NEW r \in NewRows(Form)
  PROVE  Idle \in Request
<1>1. PICK x : x \in NewRows(Form) /\ x = CHOOSE y \in NewRows(Form) : TRUE OBVIOUS
<1>2. x \in SchemeRow /\ x.form \in Form BY <1>1, NewRowTyped
<1>3. Idle = [pc |-> "idle", form |-> x.form, old |-> x, s |-> x, clean |-> TRUE]
  BY <1>1 DEF Idle
<1>4. QED BY <1>2, <1>3 DEF Request, Steps

(* Where a request goes next is a request.                                 *)
LEMMA GotoTyped ==
  ASSUME NEW r \in Request, NEW step \in Steps
  PROVE  [r EXCEPT !.pc = step] \in Request
BY DEF Request

LEMMA SoiledTyped == Typed => Soiled \in [Reqs -> Request]
BY DEF Typed, TypeOK, Soiled, Request

LEMMA NextTyped ==
  ASSUME Typed, NEW q \in Reqs, NEW next \in Request, NEW f,
         NoFault(q, next) \/ Faulty(q, f, next) \/ Fails(q, f, next)
  PROVE  req' \in [Reqs -> Request] /\ faults' \in Nat
<1>1. Soiled \in [Reqs -> Request] BY SoiledTyped
<1>2. (IF next = Idle THEN Idle ELSE [next EXCEPT !.clean = FALSE]) \in Request
  BY DEF Typed, Request
<1>3. CASE NoFault(q, next) BY <1>3 DEF NoFault, Typed, TypeOK
<1>4. CASE Faulty(q, f, next) BY <1>1, <1>2, <1>4 DEF Faulty, Typed, TypeOK
<1>5. QED BY <1>3, <1>4 DEF Fails

LEMMA RowIs ==
  ASSUME NEW r \in SchemeRow
  PROVE  /\ r = [form |-> r.form, ext |-> r.ext, taskName |-> r.taskName]
         /\ r.form \in Form /\ r.ext \in IdColumns /\ r.taskName \in Names \cup {NoName}
         /\ r.form.name \in Names /\ r.form.branch \in Branches
         /\ r.form.attrs \in Attrs /\ r.form.langs \in Langs \cup {NoLangs}
         /\ r.form.time \in Times
         /\ r.ext.task \in Ids \cup {Nil} /\ r.ext.binding \in Ids \cup {Nil}
         /\ r.ext.plan \in Ids \cup {Nil}
BY DEF SchemeRow, Form, IdColumns

LEMMA RequestIs ==
  ASSUME NEW r \in Request
  PROVE  r.pc \in Steps /\ r.form \in Form /\ r.old \in SchemeRow /\ r.s \in SchemeRow
BY DEF Request

(* A form is written as it is, but for languages it leaves out.            *)
LEMMA StoredIs ==
  ASSUME Typed, NEW f \in Form
  PROVE  /\ Stored(f) \in Form /\ Stored(f).name = f.name
         /\ f.langs # NoLangs \/ row.form.langs = NoLangs => Stored(f) = f
<1>1. row.form.langs \in Langs \cup {NoLangs} BY RowIs DEF Typed, TypeOK
<1>2. QED BY <1>1 DEF Stored, Form

LEMMA FormWritten ==
  ASSUME NEW r \in SchemeRow, NEW f \in Form
  PROVE  [r EXCEPT !.form = f] \in SchemeRow /\ [r EXCEPT !.form = f].ext = r.ext
BY DEF SchemeRow

LEMMA BindingWritten ==
  ASSUME NEW r \in SchemeRow, NEW i \in Ids \cup {Nil}
  PROVE  /\ [r EXCEPT !.ext = [@ EXCEPT !.binding = i]] \in SchemeRow
         /\ \A on \in BOOLEAN :
              [r EXCEPT !.form = [@ EXCEPT !.mr = on],
                        !.ext = [@ EXCEPT !.binding = i]] \in SchemeRow
BY DEF SchemeRow, Form, IdColumns

LEMMA PlanWritten ==
  ASSUME NEW r \in SchemeRow, NEW i \in Ids \cup {Nil}
  PROVE  [r EXCEPT !.ext = [@ EXCEPT !.plan = i]] \in SchemeRow
BY DEF SchemeRow, IdColumns

LEMMA TaskWritten ==
  ASSUME NEW r \in SchemeRow, NEW i \in Ids \cup {Nil}, NEW n \in Names
  PROVE  WithTask(r, i, n) \in SchemeRow
BY DEF SchemeRow, IdColumns, WithTask

LEMMA RowSent ==
  ASSUME NEW r \in Request, NEW s \in SchemeRow, NEW step \in Steps
  PROVE  /\ [[r EXCEPT !.pc = step] EXCEPT !.s = s] \in Request
         /\ [r EXCEPT !.pc = step].s = r.s
BY DEF Request

(* The name a task is looked for, and the tasks it may find.               *)
LEMMA TaskNamed == ASSUME Typed, NEW q \in Reqs PROVE TaskName(q) \in Names
BY RowIs, RequestIs DEF Typed, TypeOK, TaskName

LEMMA UsedIsThere ==
  ASSUME NEW s, NEW n, NEW i \in UsedTask(s, n)
  PROVE  \E t \in tasks : t.id = i
BY DEF UsedTask, Found, FoundIn, ById

-----------------------------------------------------------------------------
(* Types *)

LEMMA InitTyped == Init => Typed
<1> SUFFICES ASSUME Init PROVE Typed OBVIOUS
<1>1. PICK sc \in Scenarios : sc = scenario BY DEF Init
<1>2. sc.forms \subseteq Form BY ConstantsAssumption, <1>1 DEF IsScenario
<1>3. row \in NewRows(sc.forms) BY <1>1 DEF Init
<1>4. row \in SchemeRow BY <1>2, <1>3, NewRowTyped
<1>5. row \in NewRows(Form) BY <1>2, <1>3 DEF NewRows
<1>6. Idle \in Request BY <1>5, IdleTyped
<1>7. scheme \in SchemeParams BY <1>4, RowIs DEF Init, Params, SchemeParams
<1>8. /\ tasks \subseteq Tasks /\ bindings \subseteq Bindings /\ plans \subseteq Plans
  BY <1>4, RowIs, FewIds DEF Init, Task, Tasks, Binding, Bindings, Plan, Plans
<1>9. issued \in 0 .. MaxIds /\ req \in [Reqs -> Request] /\ faults \in Nat
  BY <1>6, FewIds DEF Init
<1>10. QED BY <1>1, <1>4, <1>6, <1>7, <1>8, <1>9
              DEF Typed, TypeOK, SchemeParams, Tasks, Bindings, Plans

LEMMA LoadTyped ==
  ASSUME Typed, NEW q \in scenario.slots, Load(q), scenario' = scenario
  PROVE  Typed'
<1>1. q \in Reqs /\ scenario.forms \subseteq Form
  BY ConstantsAssumption DEF IsScenario, Typed
<1>2. PICK f \in scenario.forms :
        NoFault(q, [pc |-> "write", form |-> f, old |-> row, s |-> row, clean |-> TRUE])
  BY DEF Load
<1>3. [pc |-> "write", form |-> f, old |-> row, s |-> row, clean |-> TRUE] \in Request
  BY <1>1 DEF Request, Steps, Typed, TypeOK
<1>4. req' \in [Reqs -> Request] /\ faults' \in Nat BY <1>1, <1>2, <1>3, NextTyped
<1>5. QED BY <1>4 DEF Load, Typed, TypeOK

LEMMA RowStepTyped ==
  ASSUME Typed, NEW q \in Reqs, Write(q) \/ Reload(q), scenario' = scenario
  PROVE  Typed'
<1>r. req[q] \in Request /\ row \in SchemeRow BY DEF Typed, TypeOK
<1>1. CASE Write(q)
  <2>1. Goto(q, "reload") \in Request BY <1>r, GotoTyped DEF Goto, Steps
  <2>2. req' \in [Reqs -> Request] /\ faults' \in Nat BY <1>1, <2>1, NextTyped DEF Write
  <2>3. row' \in SchemeRow BY <1>1, <1>r, RequestIs, StoredIs, FormWritten DEF Write, Written
  <2>4. QED BY <1>1, <2>2, <2>3 DEF Write, Typed, TypeOK
<1>2. CASE Reload(q)
  <2>1. [Goto(q, "scheme") EXCEPT !.s = row] \in Request
    BY <1>r, RowSent DEF Goto, Steps
  <2>2. req' \in [Reqs -> Request] /\ faults' \in Nat BY <1>2, <2>1, NextTyped DEF Reload
  <2>3. QED BY <1>2, <2>2 DEF Reload, Typed, TypeOK
<1>3. QED BY <1>1, <1>2

LEMMA PutSchemeTyped ==
  ASSUME Typed, NEW q \in Reqs, PutScheme(q), scenario' = scenario
  PROVE  Typed'
<1>r. req[q] \in Request /\ req[q].s \in SchemeRow BY RequestIs DEF Typed, TypeOK
<1>1. Goto(q, "task") \in Request BY <1>r, GotoTyped DEF Goto, Steps
<1>2. \E f : NoFault(q, Goto(q, "task")) \/ Fails(q, f, Goto(q, "task")) BY DEF PutScheme
<1>3. req' \in [Reqs -> Request] /\ faults' \in Nat BY <1>1, <1>2, NextTyped
<1>4. Params(req[q].s) \in SchemeParams BY <1>r, RowIs DEF Params, SchemeParams
<1>5. scheme' \in SchemeParams BY <1>4 DEF PutScheme, Typed, TypeOK, SchemeParams
<1>6. QED BY <1>3, <1>5 DEF PutScheme, Typed, TypeOK, SchemeParams

LEMMA PutTaskTyped ==
  ASSUME Typed, NEW q \in Reqs, PutTask(q), scenario' = scenario
  PROVE  Typed'
<1> DEFINE s == req[q].s
           n == TaskName(q)
           go == Goto(q, "binding")
<1>r. req[q] \in Request /\ s \in SchemeRow /\ row \in SchemeRow /\ n \in Names
  BY RequestIs, TaskNamed DEF Typed, TypeOK
<1>g. go \in Request /\ Goto(q, "postTask") \in Request BY <1>r, GotoTyped DEF Goto, Steps
<1>w. \A i \in Ids : WithTask(row, i, n) \in SchemeRow /\ [go EXCEPT !.s = WithTask(s, i, n)] \in Request
  BY <1>r, TaskWritten, RowSent DEF Goto, Steps
<1>i. \A i \in UsedTask(s, n) : i \in Ids BY UsedIsThere DEF Typed, TypeOK
<1>t. \A i \in Ids : Task(i, n, s) \in Tasks BY <1>r, RowIs DEF Task, Tasks
<1>1. \E next \in Request : \E f : NoFault(q, next) \/ Faulty(q, f, next) \/ Fails(q, f, next)
  <2>1. CASE \E i \in UsedTask(s, n) :
               NoFault(q, IF i = s.ext.task THEN go ELSE [go EXCEPT !.s = WithTask(s, i, n)])
    BY <1>g, <1>w, <1>i, <2>1
  <2>2. CASE NoFault(q, go) \/ NoFault(q, Goto(q, "postTask")) BY <1>g, <2>2
  <2>3. CASE \E f : Fails(q, f, go) \/ Faulty(q, f, go) BY <1>g, <2>3
  <2>4. QED BY <2>1, <2>2, <2>3 DEF PutTask
<1>2. req' \in [Reqs -> Request] /\ faults' \in Nat BY <1>1, NextTyped
<1>3. row' \in SchemeRow BY <1>r, <1>w, <1>i DEF PutTask
<1>4. tasks' \subseteq Tasks
  <2>1. tasks \subseteq Tasks BY DEF Typed, TypeOK, Tasks
  <2>2. CASE UNCHANGED tasks BY <2>1, <2>2
  <2>3. CASE \E i \in UsedTask(s, n) : tasks' = (tasks \ ById(tasks, i)) \cup {Task(i, n, s)}
    BY <1>i, <1>t, <2>1, <2>3
  <2>4. QED BY <2>2, <2>3 DEF PutTask
<1>5. QED BY <1>2, <1>3, <1>4 DEF PutTask, Typed, TypeOK, Tasks

LEMMA IssuedTyped == ASSUME Typed, NewId PROVE issued' \in Ids /\ issued' \in 0 .. MaxIds
BY ConstantsAssumption DEF NewId, Typed, TypeOK, Ids

LEMMA PostTaskTyped ==
  ASSUME Typed, NEW q \in Reqs, PostTask(q), scenario' = scenario
  PROVE  Typed'
<1> DEFINE s == req[q].s
           n == TaskName(q)
           go == Goto(q, "binding")
<1>r. req[q] \in Request /\ s \in SchemeRow /\ row \in SchemeRow /\ n \in Names
  BY RequestIs, TaskNamed DEF Typed, TypeOK
<1>g. go \in Request BY <1>r, GotoTyped DEF Goto, Steps
<1>w. \A i \in Ids : WithTask(row, i, n) \in SchemeRow /\ [go EXCEPT !.s = WithTask(s, i, n)] \in Request
  BY <1>r, TaskWritten, RowSent DEF Goto, Steps
<1>t. \A i \in Ids : Task(i, n, s) \in Tasks BY <1>r, RowIs DEF Task, Tasks
<1>s. tasks \subseteq Tasks BY DEF Typed, TypeOK, Tasks
<1>1. tasks' \subseteq Tasks /\ issued' \in 0 .. MaxIds
  <2>1. CASE NewId /\ tasks' = tasks \cup {Task(issued', n, s)}
    BY <1>s, <1>t, <2>1, IssuedTyped
  <2>2. CASE UNCHANGED <<tasks, issued>> BY <1>s, <2>2 DEF Typed, TypeOK
  <2>3. QED BY <2>1, <2>2 DEF PostTask
<1>2. \A t \in FoundIn(tasks', n) : t.id \in Ids BY <1>1 DEF FoundIn, Tasks
<1>3. \E next \in Request : \E f : NoFault(q, next) \/ Faulty(q, f, next) \/ Fails(q, f, next)
  <2>1. CASE \E t \in FoundIn(tasks', n) : NoFault(q, [go EXCEPT !.s = WithTask(s, t.id, n)])
    BY <1>2, <1>w, <2>1
  <2>2. CASE \E f : Fails(q, f, go) \/ Faulty(q, f, go) BY <1>g, <2>2
  <2>3. QED BY <2>1, <2>2 DEF PostTask
<1>4. req' \in [Reqs -> Request] /\ faults' \in Nat BY <1>3, NextTyped
<1>5. row' \in SchemeRow BY <1>r, <1>w, <1>2 DEF PostTask
<1>6. QED BY <1>1, <1>4, <1>5 DEF PostTask, Typed, TypeOK, Tasks

LEMMA SyncBindingTyped ==
  ASSUME Typed, NEW q \in Reqs, SyncBinding(q), scenario' = scenario
  PROVE  Typed'
<1> DEFINE s == req[q].s
           go == Goto(q, "plan")
<1>r. req[q] \in Request /\ s \in SchemeRow /\ row \in SchemeRow
  BY RequestIs DEF Typed, TypeOK
<1>g. go \in Request /\ Goto(q, "postBinding") \in Request
  BY <1>r, GotoTyped DEF Goto, Steps
<1>w. \A i \in Ids \cup {Nil} : /\ [go EXCEPT !.s = WithBinding(s, i)] \in Request
                               /\ [Goto(q, "putBinding") EXCEPT !.s = WithBinding(s, i)] \in Request
  BY <1>r, BindingWritten, RowSent DEF WithBinding, Goto, Steps
<1>i. \A i \in Existing(s) : i \in Ids BY DEF Existing, Typed, TypeOK
<1>1. \E next \in Request : \E f : NoFault(q, next) \/ Faulty(q, f, next) \/ Fails(q, f, next)
  <2>1. CASE NoFault(q, [go EXCEPT !.s = WithBinding(s, Nil)]) BY <1>w, <2>1
  <2>2. CASE \E i \in Existing(s) :
               NoFault(q, [Goto(q, "putBinding") EXCEPT !.s = WithBinding(s, i)])
    BY <1>w, <1>i, <2>2
  <2>3. CASE NoFault(q, go) \/ NoFault(q, Goto(q, "postBinding")) BY <1>g, <2>3
  <2>4. CASE \E f : Fails(q, f, go) \/ Faulty(q, f, Goto(q, "postBinding")) BY <1>g, <2>4
  <2>5. QED BY <2>1, <2>2, <2>3, <2>4 DEF SyncBinding
<1>2. req' \in [Reqs -> Request] /\ faults' \in Nat BY <1>1, NextTyped
<1>3. row' \in SchemeRow BY <1>r, BindingWritten DEF SyncBinding, Unbound
<1>4. bindings' \subseteq bindings BY DEF SyncBinding
<1>5. QED BY <1>2, <1>3, <1>4 DEF SyncBinding, Typed, TypeOK

LEMMA PostBindingTyped ==
  ASSUME Typed, NEW q \in Reqs, PostBinding(q), scenario' = scenario
  PROVE  Typed'
<1> DEFINE s == req[q].s
           go == Goto(q, "plan")
<1>r. req[q] \in Request /\ s \in SchemeRow /\ row \in SchemeRow
  BY RequestIs DEF Typed, TypeOK
<1>g. go \in Request BY <1>r, GotoTyped DEF Goto, Steps
<1>w. \A i \in Ids : /\ [go EXCEPT !.s = WithBinding(s, i)] \in Request
                     /\ Bound(i) \in SchemeRow /\ Binding(i, s) \in Bindings
  BY <1>r, RowIs, BindingWritten, RowSent DEF WithBinding, Bound, Binding, Bindings, Goto, Steps
<1>1. \E next \in Request : \E f : NoFault(q, next) \/ Faulty(q, f, next) \/ Fails(q, f, next)
  <2>1. CASE NewId /\ NoFault(q, [go EXCEPT !.s = WithBinding(s, issued')])
    BY <1>w, <2>1, IssuedTyped
  <2>2. CASE \E f : Fails(q, f, go) BY <1>g, <2>2
  <2>3. QED BY <2>1, <2>2 DEF PostBinding
<1>2. req' \in [Reqs -> Request] /\ faults' \in Nat BY <1>1, NextTyped
<1>3. row' \in SchemeRow BY <1>r, <1>w, IssuedTyped DEF PostBinding
<1>4. bindings' \subseteq Bindings /\ issued' \in 0 .. MaxIds
  <2>1. bindings \subseteq Bindings BY DEF Typed, TypeOK, Bindings
  <2>2. CASE NewId /\ bindings' = bindings \cup {Binding(issued', s)}
    BY <1>w, <2>1, <2>2, IssuedTyped
  <2>3. CASE UNCHANGED <<bindings, issued>> BY <2>1, <2>3 DEF Typed, TypeOK
  <2>4. QED BY <2>2, <2>3 DEF PostBinding
<1>5. QED BY <1>2, <1>3, <1>4 DEF PostBinding, Typed, TypeOK, Bindings

LEMMA PutBindingTyped ==
  ASSUME Typed, NEW q \in Reqs, PutBinding(q), scenario' = scenario
  PROVE  Typed'
<1> DEFINE s == req[q].s
           go == Goto(q, "plan")
<1>r. req[q] \in Request /\ s \in SchemeRow BY RequestIs DEF Typed, TypeOK
<1>g. go \in Request BY <1>r, GotoTyped DEF Goto, Steps
<1>1. \E f : NoFault(q, go) \/ Fails(q, f, go) BY DEF PutBinding
<1>2. req' \in [Reqs -> Request] /\ faults' \in Nat BY <1>g, <1>1, NextTyped
<1>3. bindings' \subseteq Bindings
  <2>1. bindings \subseteq Bindings BY DEF Typed, TypeOK, Bindings
  <2>2. \A i \in Ids : Binding(i, s) \in Bindings BY <1>r, RowIs DEF Binding, Bindings
  <2>3. \A b \in bindings :
          (IF b.id = s.ext.binding THEN Binding(s.ext.binding, s) ELSE b) \in Bindings
    BY <2>1, <2>2 DEF Bindings
  <2>4. QED BY <2>1, <2>3 DEF PutBinding
<1>4. QED BY <1>2, <1>3 DEF PutBinding, Typed, TypeOK, Bindings

LEMMA SyncPlanTyped ==
  ASSUME Typed, NEW q \in Reqs, SyncPlan(q), scenario' = scenario
  PROVE  Typed'
<1>r. req[q] \in Request /\ row \in SchemeRow BY DEF Typed, TypeOK
<1>g. Goto(q, "postPlan") \in Request /\ Idle \in Request
  BY <1>r, GotoTyped DEF Goto, Steps, Typed
<1>1. \E next \in {Idle, Goto(q, "postPlan")} : \E f : NoFault(q, next) \/ Fails(q, f, next)
  BY DEF SyncPlan
<1>2. req' \in [Reqs -> Request] /\ faults' \in Nat BY <1>g, <1>1, NextTyped
<1>3. row' \in SchemeRow BY <1>r, PlanWritten DEF SyncPlan, PlanRecorded
<1>4. plans' \subseteq plans BY DEF SyncPlan
<1>5. QED BY <1>2, <1>3, <1>4 DEF SyncPlan, Typed, TypeOK

LEMMA NewPlanTyped ==
  ASSUME Typed, NEW q \in Reqs, PostPlan(q) \/ FindPlan(q), scenario' = scenario
  PROVE  Typed'
<1>r. req[q] \in Request /\ req[q].s \in SchemeRow /\ row \in SchemeRow
  BY RequestIs DEF Typed, TypeOK
<1>g. Goto(q, "findPlan") \in Request /\ Idle \in Request
  BY <1>r, GotoTyped DEF Goto, Steps, Typed
<1>1. \E next \in {Idle, Goto(q, "findPlan")} : \E f :
        NoFault(q, next) \/ Fails(q, f, next) \/ Faulty(q, f, next)
  BY DEF PostPlan, FindPlan
<1>2. req' \in [Reqs -> Request] /\ faults' \in Nat BY <1>g, <1>1, NextTyped
<1>3. plans \subseteq Plans BY DEF Typed, TypeOK, Plans
<1>4. CASE PostPlan(q)
  <2>1. \A i \in Ids : Plan(i, req[q].s) \in Plans BY <1>r, RowIs DEF Plan, Plans
  <2>2. CASE NewId /\ plans' = plans \cup {Plan(issued', req[q].s)}
    <3>1. plans' \subseteq Plans /\ issued' \in 0 .. MaxIds BY <1>3, <2>1, <2>2, IssuedTyped
    <3>2. QED BY <1>2, <1>4, <3>1 DEF PostPlan, Typed, TypeOK, Plans
  <2>3. CASE UNCHANGED <<plans, issued>>
    BY <1>2, <1>4, <2>3 DEF PostPlan, Typed, TypeOK
  <2>4. QED BY <1>4, <2>2, <2>3 DEF PostPlan
<1>5. CASE FindPlan(q)
  <2>1. \A p \in Namesakes(req[q].s) : p.id \in Ids BY <1>3 DEF Namesakes, Plans
  <2>2. row' \in SchemeRow BY <1>r, <1>5, <2>1, PlanWritten DEF FindPlan, PlanRecorded
  <2>3. QED BY <1>2, <1>5, <2>2 DEF FindPlan, Typed, TypeOK
<1>6. QED BY <1>4, <1>5

LEMMA EditTaskTyped ==
  ASSUME Typed, EditTask, scenario' = scenario
  PROVE  Typed'
<1>1. req' \in [Reqs -> Request] /\ faults' \in Nat
  <2>1. req' = Soiled /\ faults' = faults + 1 /\ faults \in Nat
    BY DEF EditTask, Typed, TypeOK
  <2>2. QED BY <2>1, SoiledTyped
<1>2. PICK t \in tasks :
        \/ NewId /\ tasks' = (tasks \ {t}) \cup {[t EXCEPT !.id = issued']}
        \/ (\E n \in Names : tasks' = (tasks \ {t}) \cup {[t EXCEPT !.name = n]}) /\ UNCHANGED issued
  BY DEF EditTask
<1>3. tasks \subseteq Tasks /\ t \in Tasks BY DEF Typed, TypeOK, Tasks
<1>4. /\ \A i \in Ids : [t EXCEPT !.id = i] \in Tasks
      /\ \A n \in Names : [t EXCEPT !.name = n] \in Tasks
  BY <1>3 DEF Tasks
<1>5. tasks' \subseteq Tasks /\ issued' \in 0 .. MaxIds
  BY <1>2, <1>3, <1>4, IssuedTyped DEF Typed, TypeOK
<1>6. QED BY <1>1, <1>5 DEF EditTask, Typed, TypeOK, Tasks

LEMMA StepTyped ==
  ASSUME Typed, [Next]_vars
  PROVE  Typed'
<1>1. CASE UNCHANGED vars BY <1>1 DEF vars, Typed, TypeOK
<1>2. CASE Next
  <2>1. scenario' = scenario /\ scenario.slots \subseteq Reqs
    BY <1>2, ConstantsAssumption DEF Next, IsScenario, Typed
  <2>2. CASE EditTask BY <2>1, <2>2, EditTaskTyped
  <2>3. ASSUME NEW q \in scenario.slots, Load(q) \/ Reject(q) PROVE Typed'
    BY <1>1, <2>1, <2>3, LoadTyped DEF Reject
  <2>4. ASSUME NEW q \in scenario.slots, Update(q) PROVE Typed'
    BY <2>1, <2>4, RowStepTyped, PutSchemeTyped, PutTaskTyped, PostTaskTyped,
       SyncBindingTyped, PostBindingTyped, PutBindingTyped, SyncPlanTyped, NewPlanTyped
    DEF Update
  <2>5. QED BY <1>2, <2>2, <2>3, <2>4 DEF Next
<1>3. QED BY <1>1, <1>2

(* TypeOK: the row, the remote objects and the updates in flight have      *)
(* their shapes, also after a call whose answer was lost.                  *)
THEOREM TypeCorrect == Spec => []TypeOK
<1>1. Typed => TypeOK BY DEF Typed
<1>2. Typed /\ [Next]_vars => Typed' BY StepTyped
<1>3. QED BY <1>1, <1>2, InitTyped, PTL DEF Spec

-----------------------------------------------------------------------------
(* The recorded binding.  Only a deletion takes bindings away, and it      *)
(* empties the column in the same step unless its answer is lost.          *)

LEMMA ExtKept ==
  ASSUME NEW r \in SchemeRow, NEW x,
         \/ x = r
         \/ \E f : x = [r EXCEPT !.form = f]
         \/ \E i, n : x = WithTask(r, i, n)
         \/ \E i : x = [r EXCEPT !.ext = [@ EXCEPT !.plan = i]]
  PROVE  x.ext.binding = r.ext.binding
<1>1. CASE x = r BY <1>1
<1>2. ASSUME NEW f, x = [r EXCEPT !.form = f] PROVE x.ext.binding = r.ext.binding
  BY <1>2 DEF SchemeRow
<1>3. ASSUME NEW i, NEW n, x = WithTask(r, i, n) PROVE x.ext.binding = r.ext.binding
  BY <1>3 DEF SchemeRow, IdColumns, WithTask
<1>4. ASSUME NEW i, x = [r EXCEPT !.ext = [@ EXCEPT !.plan = i]] PROVE x.ext.binding = r.ext.binding
  BY <1>4 DEF SchemeRow, IdColumns
<1>5. QED BY <1>1, <1>2, <1>3, <1>4

LEMMA BindingSet ==
  ASSUME NEW r \in SchemeRow, NEW i, NEW f
  PROVE  [r EXCEPT !.form = f, !.ext = [@ EXCEPT !.binding = i]].ext.binding = i
BY DEF SchemeRow, IdColumns

LEMMA LiveStep ==
  ASSUME Typed, RecordedBindingLive, [Next]_vars
  PROVE  RecordedBindingLive'
<1> SUFFICES ASSUME "lost" \notin scenario'.faults, row'.ext.binding # Nil
    PROVE  \E b \in bindings' : b.id = row'.ext.binding
  BY DEF RecordedBindingLive, ById
<1>s. scenario' = scenario BY DEF Next, vars
<1>l. \A q, next : ~Fails(q, "lost", next) BY <1>s DEF Fails, Faulty
<1>r. row \in SchemeRow BY DEF Typed, TypeOK
<1>k. row'.ext.binding = row.ext.binding => \E b \in bindings : b.id = row'.ext.binding
  BY <1>s DEF RecordedBindingLive, ById
<1>1. ASSUME row'.ext.binding = row.ext.binding, bindings' = bindings
      PROVE \E b \in bindings' : b.id = row'.ext.binding
  BY <1>1, <1>k
<1>2. CASE UNCHANGED vars BY <1>1, <1>2 DEF vars
<1>3. CASE EditTask BY <1>1, <1>3 DEF EditTask
<1>4. ASSUME NEW q, Load(q) \/ Reject(q) \/ Reload(q) \/ PutScheme(q) \/ PostPlan(q)
      PROVE \E b \in bindings' : b.id = row'.ext.binding
  BY <1>1, <1>2, <1>4 DEF Load, Reject, Reload, PutScheme, PostPlan
<1>5. ASSUME NEW q, Write(q) PROVE \E b \in bindings' : b.id = row'.ext.binding
  <2>1. row' = [row EXCEPT !.form = Stored(req[q].form)] /\ bindings' = bindings
    BY <1>5 DEF Write, Written
  <2>2. row'.ext.binding = row.ext.binding BY <2>1, <1>r, ExtKept
  <2>3. QED BY <1>1, <2>1, <2>2
<1>6. ASSUME NEW q, PutTask(q) PROVE \E b \in bindings' : b.id = row'.ext.binding
  <2>1. row' = row \/ \E i, n : row' = WithTask(row, i, n) BY <1>6 DEF PutTask
  <2>2. row'.ext.binding = row.ext.binding BY <2>1, <1>r, ExtKept
  <2>3. QED BY <1>1, <1>6, <2>2 DEF PutTask
<1>7. ASSUME NEW q, PostTask(q) PROVE \E b \in bindings' : b.id = row'.ext.binding
  <2>1. row' = row \/ \E t \in FoundIn(tasks', TaskName(q)) : row' = WithTask(row, t.id, TaskName(q))
    BY <1>7, ZenonT(30) DEF PostTask
  <2>2. row' = row \/ \E i, n : row' = WithTask(row, i, n) BY <2>1
  <2>3. row'.ext.binding = row.ext.binding BY <2>2, <1>r, ExtKept
  <2>4. QED BY <1>1, <1>7, <2>3 DEF PostTask
<1>8. ASSUME NEW q, SyncBinding(q) PROVE \E b \in bindings' : b.id = row'.ext.binding
  <2>1. CASE row' = Unbound
    <3>1. Unbound.ext.binding = Nil BY <1>r DEF Unbound, SchemeRow, IdColumns
    <3>2. QED BY <2>1, <3>1
  <2>2. CASE UNCHANGED <<row, bindings>> BY <1>1, <2>2
  <2>3. QED BY <1>8, <1>l, <2>1, <2>2 DEF SyncBinding
<1>9. ASSUME NEW q, PostBinding(q) PROVE \E b \in bindings' : b.id = row'.ext.binding
  <2>1. CASE row' = Bound(issued') /\ Binding(issued', req[q].s) \in bindings'
    <3>1. row'.ext.binding = issued' BY <1>r, <2>1, BindingSet DEF Bound
    <3>2. QED BY <2>1, <3>1 DEF Binding
  <2>2. CASE UNCHANGED <<row, bindings>> BY <1>1, <2>2
  <2>3. QED BY <1>9, <1>l, <2>1, <2>2 DEF PostBinding
<1>10. ASSUME NEW q, PutBinding(q) PROVE \E b \in bindings' : b.id = row'.ext.binding
  <2>1. PICK b \in bindings : b.id = row.ext.binding
    BY <1>k, <1>10 DEF PutBinding
  <2>2. CASE bindings' = bindings BY <1>1, <1>10, <2>2 DEF PutBinding
  <2>3. CASE bindings' = {IF x.id = req[q].s.ext.binding
                          THEN Binding(req[q].s.ext.binding, req[q].s) ELSE x : x \in bindings}
    <3> DEFINE y == IF b.id = req[q].s.ext.binding
                    THEN Binding(req[q].s.ext.binding, req[q].s) ELSE b
    <3>1. y \in bindings' BY <2>3
    <3>2. y.id = b.id BY DEF Binding
    <3>3. QED BY <1>10, <2>1, <3>1, <3>2 DEF PutBinding
  <2>4. QED BY <1>10, <2>2, <2>3 DEF PutBinding
<1>11. ASSUME NEW q, SyncPlan(q) \/ FindPlan(q) PROVE \E b \in bindings' : b.id = row'.ext.binding
  <2>1. row' = row \/ \E i : row' = [row EXCEPT !.ext = [@ EXCEPT !.plan = i]]
    BY <1>11 DEF SyncPlan, FindPlan, PlanRecorded
  <2>2. row'.ext.binding = row.ext.binding BY <2>1, <1>r, ExtKept
  <2>3. QED BY <1>1, <1>11, <2>2 DEF SyncPlan, FindPlan
<1>12. QED
  BY <1>2, <1>3, <1>4, <1>5, <1>6, <1>7, <1>8, <1>9, <1>10, <1>11 DEF Next, Update

(* RecordedBindingLive: the binding a row names exists, however many       *)
(* updates run at the same time, unless the answer of a deletion is lost.  *)
THEOREM RecordedBindingExists == Spec => []RecordedBindingLive
<1>1. Init => RecordedBindingLive
  <2> SUFFICES ASSUME Init PROVE row.ext.binding # Nil => ById(bindings, row.ext.binding) # {}
    BY DEF RecordedBindingLive
  <2>1. scenario.forms \subseteq Form /\ row \in NewRows(scenario.forms)
    BY ConstantsAssumption DEF Init, IsScenario
  <2>2. row.ext.binding = (IF row.form.mr THEN 2 ELSE Nil) BY <2>1, NewRowTyped
  <2>3. row.form.mr => Binding(2, row) \in bindings BY DEF Init
  <2>4. QED BY <2>2, <2>3 DEF ById, Binding
<1>2. Typed /\ RecordedBindingLive /\ [Next]_vars => Typed' /\ RecordedBindingLive'
  BY StepTyped, LiveStep
<1>3. QED BY <1>1, <1>2, InitTyped, PTL DEF Spec

-----------------------------------------------------------------------------
(* One binding.  A list that is read shows every binding of the scheme, so *)
(* a handler about to create one knows that there is none; with one update *)
(* at a time this stays so until it creates it.                            *)

Lone(S) == \A a, b \in S : a = b

LEMMA LoneCounts ==
  ASSUME NEW S, Lone(S)
  PROVE  Cardinality(S) <= 1
<1>1. CASE S = {} BY <1>1, FS_EmptySet
<1>2. CASE \E x : S = {x} BY <1>2, FS_Singleton
<1>3. QED BY <1>1, <1>2 DEF Lone

LEMMA OneSlot ==
  ASSUME IsFiniteSet(Reqs), Typed, Sequential
  PROVE  \E q \in Reqs : scenario.slots = {q}
<1>1. scenario.slots \subseteq Reqs BY ConstantsAssumption DEF Typed, IsScenario
<1>2. IsFiniteSet(scenario.slots) BY <1>1, FS_Subset
<1>3. QED BY <1>1, <1>2, FS_Singleton DEF Sequential

(* What a step of an update leaves in its slot.                            *)
Carries(q, next) == \E f : NoFault(q, next) \/ Faulty(q, f, next) \/ Fails(q, f, next)

LEMMA CarriesOver ==
  ASSUME Typed, NEW q \in Reqs, NEW next, Carries(q, next),
         next \in Request
  PROVE  req'[q].pc = next.pc /\ req'[q].s = next.s /\ req'[q].old = next.old /\ req'[q].form = next.form
<1>1. Soiled \in [Reqs -> Request] /\ req \in [Reqs -> Request] BY SoiledTyped DEF Typed, TypeOK
<1>2. PICK f : NoFault(q, next) \/ Faulty(q, f, next) BY DEF Carries, Fails
<1>3. CASE NoFault(q, next) BY <1>1, <1>3 DEF NoFault
<1>4. CASE Faulty(q, f, next)
  <2>1. req'[q] = (IF next = Idle THEN Idle ELSE [next EXCEPT !.clean = FALSE])
    BY <1>1, <1>4 DEF Faulty
  <2>2. QED BY <2>1 DEF Request
<1>5. QED BY <1>2, <1>3, <1>4

LEMMA GoesTo ==
  ASSUME Typed, NEW q \in Reqs, NEW step \in Steps, NEW next, Carries(q, next),
         next = Goto(q, step) \/ \E s \in SchemeRow : next = [Goto(q, step) EXCEPT !.s = s]
  PROVE  req'[q].pc = step /\ req'[q].s = next.s /\ req'[q].old = req[q].old /\ req'[q].form = req[q].form
<1>1. req[q] \in Request BY DEF Typed, TypeOK
<1>2. next \in Request
  <2>1. CASE next = Goto(q, step) BY <1>1, <2>1, GotoTyped DEF Goto
  <2>2. ASSUME NEW s \in SchemeRow, next = [Goto(q, step) EXCEPT !.s = s] PROVE next \in Request
    <3>1. [[req[q] EXCEPT !.pc = step] EXCEPT !.s = s] \in Request BY <1>1, RowSent
    <3>2. QED BY <2>2, <3>1 DEF Goto
  <2>3. QED BY <2>1, <2>2
<1>3. next.pc = step /\ next.old = req[q].old /\ next.form = req[q].form
  BY <1>1 DEF Goto, Request
<1>4. QED BY <1>2, <1>3, CarriesOver

LEMMA GoesIdle ==
  ASSUME Typed, NEW q \in Reqs, Carries(q, Idle)
  PROVE  req'[q].pc = "idle"
BY CarriesOver DEF Typed, Idle

(* Only a look for the binding leads to its creation.                      *)
LEMMA NotToCreate ==
  ASSUME Typed, NEW q \in Reqs, q \in scenario.slots,
         Load(q) \/ Write(q) \/ Reload(q) \/ PutScheme(q) \/ PutTask(q) \/ PostTask(q)
           \/ PostBinding(q) \/ PutBinding(q) \/ SyncPlan(q) \/ PostPlan(q) \/ FindPlan(q)
  PROVE  req'[q].pc # "postBinding"
<1>r. req[q] \in Request /\ req[q].s \in SchemeRow /\ row \in SchemeRow
  BY RequestIs DEF Typed, TypeOK
<1>t. TaskName(q) \in Names /\ tasks \subseteq Tasks BY TaskNamed DEF Typed, TypeOK, Tasks
<1>1. ASSUME NEW step \in Steps \ {"postBinding"}, NEW next, Carries(q, next),
             next = Goto(q, step) \/ \E s \in SchemeRow : next = [Goto(q, step) EXCEPT !.s = s]
      PROVE req'[q].pc # "postBinding"
  BY <1>1, GoesTo
<1>2. CASE Carries(q, Idle) BY <1>2, GoesIdle
<1>3. CASE Load(q)
  <2>1. PICK f : req'[q] = [pc |-> "write", form |-> f, old |-> row, s |-> row, clean |-> TRUE]
    BY <1>3 DEF Load, NoFault, Typed, TypeOK
  <2>2. QED BY <2>1
<1>4. CASE Write(q) BY <1>1, <1>4 DEF Write, Carries, Steps
<1>5. CASE Reload(q) BY <1>1, <1>5, <1>r DEF Reload, Carries, Steps
<1>6. CASE PutScheme(q) BY <1>1, <1>6 DEF PutScheme, Carries, Steps
<1>7. CASE PutTask(q)
  <2> DEFINE n == TaskName(q)
  <2>1. CASE Carries(q, Goto(q, "binding")) BY <1>1, <2>1 DEF Steps
  <2>2. CASE Carries(q, Goto(q, "postTask")) BY <1>1, <2>2 DEF Steps
  <2>3. ASSUME NEW i \in UsedTask(req[q].s, n),
               Carries(q, [Goto(q, "binding") EXCEPT !.s = WithTask(req[q].s, i, n)])
        PROVE req'[q].pc # "postBinding"
    <3>1. i \in Ids BY <1>t, UsedIsThere DEF Tasks
    <3>2. WithTask(req[q].s, i, n) \in SchemeRow BY <1>r, <1>t, <3>1, TaskWritten
    <3>3. QED BY <1>1, <2>3, <3>2 DEF Steps
  <2>4. QED BY <1>7, <2>1, <2>2, <2>3 DEF PutTask, Carries
<1>8. CASE PostTask(q)
  <2> DEFINE n == TaskName(q)
  <2>1. CASE Carries(q, Goto(q, "binding")) BY <1>1, <2>1 DEF Steps
  <2>2. ASSUME NEW t \in FoundIn(tasks', n),
               Carries(q, [Goto(q, "binding") EXCEPT !.s = WithTask(req[q].s, t.id, n)])
        PROVE req'[q].pc # "postBinding"
    <3>1. tasks' \subseteq Tasks
      BY <1>8, <1>t, <1>r, RowIs, IssuedTyped DEF PostTask, Task, Tasks
    <3>2. t.id \in Ids BY <2>2, <3>1 DEF FoundIn, Tasks
    <3>3. WithTask(req[q].s, t.id, n) \in SchemeRow BY <1>r, <1>t, <3>2, TaskWritten
    <3>4. QED BY <1>1, <2>2, <3>3 DEF Steps
  <2>3. QED BY <1>8, <2>1, <2>2 DEF PostTask, Carries
<1>9. CASE PostBinding(q)
  <2>1. CASE Carries(q, Goto(q, "plan")) BY <1>1, <2>1 DEF Steps
  <2>2. CASE NewId /\ Carries(q, [Goto(q, "plan") EXCEPT !.s = WithBinding(req[q].s, issued')])
    <3>1. WithBinding(req[q].s, issued') \in SchemeRow
      BY <1>r, <2>2, IssuedTyped, BindingWritten DEF WithBinding
    <3>2. QED BY <1>1, <2>2, <3>1 DEF Steps
  <2>3. QED BY <1>9, <2>1, <2>2 DEF PostBinding, Carries
<1>10. CASE PutBinding(q) BY <1>1, <1>10 DEF PutBinding, Carries, Steps
<1>11. CASE SyncPlan(q) BY <1>1, <1>2, <1>11 DEF SyncPlan, Carries, Steps
<1>12. CASE PostPlan(q) \/ FindPlan(q)
  BY <1>1, <1>2, <1>12 DEF PostPlan, FindPlan, Carries, Steps
<1>13. QED BY <1>3, <1>4, <1>5, <1>6, <1>7, <1>8, <1>9, <1>10, <1>11, <1>12

CreatesOnce ==
  Sequential /\ ListsRead =>
    /\ Lone(bindings)
    /\ \A q \in scenario.slots : req[q].pc = "postBinding" => bindings = {}

LEMMA CreatesOnceStep ==
  ASSUME IsFiniteSet(Reqs), Typed, CreatesOnce, [Next]_vars
  PROVE  CreatesOnce'
<1> SUFFICES ASSUME Sequential, ListsRead
    PROVE  /\ Lone(bindings')
           /\ \A q \in scenario.slots : req'[q].pc = "postBinding" => bindings' = {}
  BY DEF Next, vars, CreatesOnce, Sequential, ListsRead, Lone
<1>s. PICK q \in Reqs : scenario.slots = {q} BY OneSlot
<1>o. Lone(bindings) /\ (req[q].pc = "postBinding" => bindings = {}) BY <1>s DEF CreatesOnce
<1>r. req[q] \in Request /\ req[q].s \in SchemeRow /\ Idle \in Request
  BY RequestIs DEF Typed, TypeOK
<1> SUFFICES Lone(bindings') /\ (req'[q].pc = "postBinding" => bindings' = {}) BY <1>s
<1>1. CASE UNCHANGED vars BY <1>1, <1>o DEF vars
<1>2. CASE EditTask
  <2>1. req'[q] = Soiled[q] /\ bindings' = bindings BY <1>2 DEF EditTask
  <2>2. Soiled[q].pc = req[q].pc BY <1>r DEF Soiled, Idle, Request
  <2>3. QED BY <2>1, <2>2, <1>o
<1>3. CASE Load(q) \/ Write(q) \/ Reload(q) \/ PutScheme(q) \/ PutTask(q) \/ PostTask(q)
           \/ SyncPlan(q) \/ PostPlan(q) \/ FindPlan(q)
  <2>1. bindings' = bindings
    BY <1>3 DEF Load, Write, Reload, PutScheme, PutTask, PostTask, SyncPlan, PostPlan, FindPlan
  <2>2. QED BY <1>3, <1>s, <2>1, <1>o, NotToCreate
<1>4. CASE Reject(q) BY <1>1, <1>4 DEF Reject
<1>5. CASE SyncBinding(q)
  <2>1. bindings' \subseteq bindings BY <1>5 DEF SyncBinding
  <2>2. CASE Existing(req[q].s) = {} /\ UNCHANGED bindings
    BY <2>2, <1>o DEF Existing
  <2>3. ASSUME NEW next, NEW step \in {"plan", "putBinding"}, Carries(q, next),
               next = Goto(q, step) \/ \E s \in SchemeRow : next = [Goto(q, step) EXCEPT !.s = s]
        PROVE Lone(bindings') /\ (req'[q].pc = "postBinding" => bindings' = {})
    <3>1. req'[q].pc # "postBinding" BY <2>3, GoesTo DEF Steps
    <3>2. QED BY <2>1, <3>1, <1>o DEF Lone
  <2>4. CASE \E i \in Existing(req[q].s) \cup {Nil} :
               \/ Carries(q, [Goto(q, "plan") EXCEPT !.s = WithBinding(req[q].s, i)])
               \/ Carries(q, [Goto(q, "putBinding") EXCEPT !.s = WithBinding(req[q].s, i)])
    <3>1. PICK i \in Existing(req[q].s) \cup {Nil} :
               \/ Carries(q, [Goto(q, "plan") EXCEPT !.s = WithBinding(req[q].s, i)])
               \/ Carries(q, [Goto(q, "putBinding") EXCEPT !.s = WithBinding(req[q].s, i)])
      BY <2>4
    <3>2. i \in Ids \cup {Nil} BY DEF Existing, Typed, TypeOK
    <3>3. WithBinding(req[q].s, i) \in SchemeRow BY <1>r, <3>2, BindingWritten DEF WithBinding
    <3>4. QED BY <2>3, <3>1, <3>3
  <2>5. CASE Carries(q, Goto(q, "plan")) BY <2>3, <2>5
  <2>6. QED BY <1>5, <2>2, <2>4, <2>5 DEF SyncBinding, Carries, Faulty, ListsRead
<1>6. CASE PostBinding(q)
  <2>1. bindings = {} BY <1>6, <1>o DEF PostBinding
  <2>2. Lone(bindings') BY <1>6, <2>1 DEF PostBinding, Lone
  <2>3. QED BY <1>6, <1>s, <2>2, NotToCreate
<1>7. CASE PutBinding(q)
  <2>1. Lone(bindings')
    <3>1. CASE bindings' = bindings BY <3>1, <1>o
    <3>2. CASE bindings' = {IF b.id = req[q].s.ext.binding
                            THEN Binding(req[q].s.ext.binding, req[q].s) ELSE b : b \in bindings}
      BY <3>2, <1>o DEF Lone
    <3>3. QED BY <1>7, <3>1, <3>2 DEF PutBinding
  <2>2. QED BY <1>7, <1>s, <2>1, NotToCreate
<1>8. QED BY <1>s, <1>1, <1>2, <1>3, <1>4, <1>5, <1>6, <1>7 DEF Next, Update

LEMMA InitCreatesOnce == Init => CreatesOnce
<1> SUFFICES ASSUME Init PROVE CreatesOnce OBVIOUS
<1>1. Lone(bindings) BY DEF Init, Lone
<1>2. \A q \in scenario.slots : req[q].pc # "postBinding"
  BY ConstantsAssumption DEF Init, Idle, IsScenario
<1>3. QED BY <1>1, <1>2 DEF CreatesOnce

(* OneBinding: with one update at a time and lists that can be read, the   *)
(* scheme never has two MR bindings, however the calls before failed.      *)
THEOREM OneBindingEver ==
  ASSUME IsFiniteSet(Reqs)
  PROVE  Spec => []OneBinding
<1>1. Init => CreatesOnce BY InitCreatesOnce
<1>2. Typed /\ CreatesOnce /\ [Next]_vars => Typed' /\ CreatesOnce'
  BY StepTyped, CreatesOnceStep
<1>3. CreatesOnce => OneBinding
  <2>1. Lone(bindings) => Cardinality(bindings) <= 1 BY LoneCounts
  <2>2. QED BY <2>1 DEF CreatesOnce, OneBinding
<1>4. QED BY <1>1, <1>2, <1>3, InitTyped, PTL DEF Spec

-----------------------------------------------------------------------------
(* One task.  A task is created only when none is found and the row has    *)
(* none.  Then there is none: the row names every task whose creation was  *)
(* answered, and a task created without an answer has the one name under   *)
(* which the handler looks.                                                *)

OneName == /\ "renamed" \notin scenario.faults
           /\ \A f, g \in scenario.forms : f.name = g.name
Known == {f.name : f \in scenario.forms}
Early == {"write", "reload", "scheme", "task", "postTask"}

Same(q) == req'[q].form = req[q].form /\ req'[q].old = req[q].old

LEMMA EarlySteps ==
  ASSUME Typed, NEW q \in Reqs
  PROVE  /\ Load(q) => \E f \in scenario.forms :
                         /\ req'[q].pc = "write" /\ req'[q].form = f
                         /\ req'[q].old = row /\ req'[q].s = row
         /\ Write(q) => req'[q].pc = "reload" /\ Same(q) /\ req'[q].s = req[q].s
         /\ Reload(q) => req'[q].pc = "scheme" /\ Same(q) /\ req'[q].s = row
         /\ PutScheme(q) => req'[q].pc = "task" /\ Same(q) /\ req'[q].s = req[q].s
<1>r. req[q] \in Request /\ row \in SchemeRow BY DEF Typed, TypeOK
<1>1. ASSUME Load(q)
      PROVE \E f \in scenario.forms : /\ req'[q].pc = "write" /\ req'[q].form = f
                                      /\ req'[q].old = row /\ req'[q].s = row
  <2>1. PICK f \in scenario.forms :
          req'[q] = [pc |-> "write", form |-> f, old |-> row, s |-> row, clean |-> TRUE]
    BY <1>1 DEF Load, NoFault, Typed, TypeOK
  <2>2. QED BY <2>1
<1>2. ASSUME NEW step \in Steps, Carries(q, Goto(q, step))
      PROVE req'[q].pc = step /\ Same(q) /\ req'[q].s = req[q].s
  <2>1. Goto(q, step).s = req[q].s BY <1>r DEF Goto, Request
  <2>2. QED BY <1>2, <2>1, GoesTo DEF Same
<1>3. ASSUME Write(q) PROVE Carries(q, Goto(q, "reload")) BY <1>3 DEF Write, Carries
<1>4. ASSUME PutScheme(q) PROVE Carries(q, Goto(q, "task")) BY <1>4 DEF PutScheme, Carries
<1>5. ASSUME Reload(q) PROVE req'[q].pc = "scheme" /\ Same(q) /\ req'[q].s = row
  <2> DEFINE next == [Goto(q, "scheme") EXCEPT !.s = row]
  <2>1. Carries(q, next) BY <1>5 DEF Reload, Carries
  <2>2. next.s = row BY <1>r DEF Goto, Request
  <2>3. QED BY <1>r, <2>1, <2>2, GoesTo DEF Same, Steps
<1>6. QED BY <1>1, <1>2, <1>3, <1>4, <1>5 DEF Steps

LEMMA TaskSteps ==
  ASSUME Typed, NEW q \in Reqs
  PROVE  /\ PutTask(q) =>
              \/ req'[q].pc = "binding"
              \/ /\ req'[q].pc = "postTask" /\ Same(q) /\ req'[q].s = req[q].s
                 /\ Found(TaskName(q)) = {} /\ req[q].s.ext.task = Nil
                 /\ UNCHANGED <<row, tasks>>
         /\ PostTask(q) => req'[q].pc = "binding"
<1> DEFINE n == TaskName(q)
<1>r. req[q] \in Request /\ req[q].s \in SchemeRow BY RequestIs DEF Typed, TypeOK
<1>t. n \in Names /\ tasks \subseteq Tasks BY TaskNamed DEF Typed, TypeOK, Tasks
<1>1. ASSUME Carries(q, Goto(q, "binding")) PROVE req'[q].pc = "binding"
  BY <1>1, GoesTo DEF Steps
<1>2. ASSUME NEW i \in Ids, Carries(q, [Goto(q, "binding") EXCEPT !.s = WithTask(req[q].s, i, n)])
      PROVE req'[q].pc = "binding"
  <2>1. WithTask(req[q].s, i, n) \in SchemeRow BY <1>r, <1>t, TaskWritten
  <2>2. QED BY <1>2, <2>1, GoesTo DEF Steps
<1>3. ASSUME Carries(q, Goto(q, "postTask"))
      PROVE req'[q].pc = "postTask" /\ Same(q) /\ req'[q].s = req[q].s
  <2>1. Goto(q, "postTask").s = req[q].s BY <1>r DEF Goto, Request
  <2>2. QED BY <1>3, <2>1, GoesTo DEF Same, Steps
<1>4. ASSUME PutTask(q)
      PROVE \/ req'[q].pc = "binding"
            \/ /\ req'[q].pc = "postTask" /\ Same(q) /\ req'[q].s = req[q].s
               /\ Found(n) = {} /\ req[q].s.ext.task = Nil
               /\ UNCHANGED <<row, tasks>>
  <2>1. \A i \in UsedTask(req[q].s, n) : i \in Ids BY <1>t, UsedIsThere DEF Tasks
  <2>2. \/ Carries(q, Goto(q, "binding"))
        \/ \E i \in UsedTask(req[q].s, n) :
             Carries(q, [Goto(q, "binding") EXCEPT !.s = WithTask(req[q].s, i, n)])
        \/ /\ Carries(q, Goto(q, "postTask")) /\ Found(n) = {} /\ req[q].s.ext.task = Nil
           /\ UNCHANGED <<row, tasks>>
    BY <1>4 DEF PutTask, Carries, MayCreateTask
  <2>3. QED BY <1>1, <1>2, <1>3, <2>1, <2>2
<1>5. ASSUME PostTask(q) PROVE req'[q].pc = "binding"
  <2>1. tasks' \subseteq Tasks
    BY <1>5, <1>t, <1>r, RowIs, IssuedTyped DEF PostTask, Task, Tasks
  <2>2. \A t \in FoundIn(tasks', n) : t.id \in Ids BY <2>1 DEF FoundIn, Tasks
  <2>3. \/ Carries(q, Goto(q, "binding"))
        \/ \E t \in FoundIn(tasks', n) :
             Carries(q, [Goto(q, "binding") EXCEPT !.s = WithTask(req[q].s, t.id, n)])
    BY <1>5 DEF PostTask, Carries
  <2>4. QED BY <1>1, <1>2, <2>2, <2>3
<1>6. QED BY <1>4, <1>5

LEMMA LateSteps ==
  ASSUME Typed, NEW q \in Reqs,
         SyncBinding(q) \/ PostBinding(q) \/ PutBinding(q)
           \/ SyncPlan(q) \/ PostPlan(q) \/ FindPlan(q)
  PROVE  req'[q].pc \notin Early
<1>r. req[q] \in Request /\ req[q].s \in SchemeRow BY RequestIs DEF Typed, TypeOK
<1>1. ASSUME NEW step \in Steps \ Early, NEW next, Carries(q, next),
             next = Goto(q, step) \/ \E s \in SchemeRow : next = [Goto(q, step) EXCEPT !.s = s]
      PROVE req'[q].pc \notin Early
  BY <1>1, GoesTo
<1>2. CASE Carries(q, Idle) BY <1>2, GoesIdle DEF Early
<1>w. \A i \in Ids \cup {Nil} : WithBinding(req[q].s, i) \in SchemeRow
  BY <1>r, BindingWritten DEF WithBinding
<1>p. {"plan", "putBinding", "postBinding", "postPlan", "findPlan"} \subseteq Steps \ Early
  BY DEF Steps, Early
<1>3. CASE SyncBinding(q)
  <2>1. \A i \in Existing(req[q].s) : i \in Ids BY DEF Existing, Typed, TypeOK
  <2>2. \/ Carries(q, Goto(q, "plan")) \/ Carries(q, Goto(q, "postBinding"))
        \/ Carries(q, [Goto(q, "plan") EXCEPT !.s = WithBinding(req[q].s, Nil)])
        \/ \E i \in Existing(req[q].s) :
             Carries(q, [Goto(q, "putBinding") EXCEPT !.s = WithBinding(req[q].s, i)])
    BY <1>3 DEF SyncBinding, Carries
  <2>3. QED BY <1>1, <1>w, <1>p, <2>1, <2>2
<1>4. CASE PostBinding(q)
  <2>1. \/ Carries(q, Goto(q, "plan"))
        \/ NewId /\ Carries(q, [Goto(q, "plan") EXCEPT !.s = WithBinding(req[q].s, issued')])
    BY <1>4 DEF PostBinding, Carries
  <2>2. QED BY <1>1, <1>w, <1>p, <2>1, IssuedTyped
<1>5. CASE PutBinding(q) BY <1>1, <1>p, <1>5 DEF PutBinding, Carries
<1>6. CASE SyncPlan(q) BY <1>1, <1>2, <1>p, <1>6 DEF SyncPlan, Carries
<1>7. CASE PostPlan(q) \/ FindPlan(q)
  BY <1>1, <1>2, <1>p, <1>7 DEF PostPlan, FindPlan, Carries
<1>8. QED BY <1>3, <1>4, <1>5, <1>6, <1>7

(* The binding and the plan are written beside the task.                   *)
TaskKept(x, r) == x.form.name = r.form.name /\ x.taskName = r.taskName /\ x.ext.task = r.ext.task

LEMMA LateRow ==
  ASSUME Typed, NEW q \in Reqs,
         SyncBinding(q) \/ PostBinding(q) \/ PutBinding(q)
           \/ SyncPlan(q) \/ PostPlan(q) \/ FindPlan(q)
  PROVE  TaskKept(row', row)
<1>r. row \in SchemeRow BY DEF Typed, TypeOK
<1>1. ASSUME NEW b, NEW i, row' = [row EXCEPT !.form = [@ EXCEPT !.mr = b],
                                             !.ext = [@ EXCEPT !.binding = i]]
      PROVE TaskKept(row', row)
  BY <1>1, <1>r DEF TaskKept, SchemeRow, Form, IdColumns
<1>2. ASSUME NEW i, row' = [row EXCEPT !.ext = [@ EXCEPT !.plan = i]]
      PROVE TaskKept(row', row)
  BY <1>2, <1>r DEF TaskKept, SchemeRow, IdColumns
<1>3. CASE row' = row BY <1>3 DEF TaskKept
<1>4. row' = row \/ row' = Unbound \/ row' = Bound(issued') \/ \E i : row' = PlanRecorded(i)
  BY DEF SyncBinding, PostBinding, PutBinding, SyncPlan, PostPlan, FindPlan
<1>5. QED BY <1>1, <1>2, <1>3, <1>4 DEF Unbound, Bound, PlanRecorded

(* Names are only those of the forms sent.                                 *)
NamesKnown ==
  OneName =>
    /\ row.form.name \in Known /\ row.taskName \in Known \cup {NoName}
    /\ \A t \in tasks : t.name \in Known
    /\ \A q \in scenario.slots : req[q].pc \in Early =>
         /\ req[q].form.name \in Known /\ req[q].old.form.name \in Known
         /\ req[q].s.taskName \in Known \cup {NoName}

(* A row without a task has none, nor has the copy an update goes by.      *)
TasksRecorded ==
  "lost" \notin scenario.faults =>
    /\ row.ext.task = Nil => tasks = {}
    /\ \A q \in scenario.slots :
         req[q].pc \in {"scheme", "task", "postTask"} /\ req[q].s.ext.task = Nil => tasks = {}

CreatesTaskOnce ==
  Sequential /\ ListsRead /\ TasksFound =>
    /\ Lone(tasks)
    /\ \A q \in scenario.slots : req[q].pc = "postTask" => tasks = {}
    /\ NamesKnown /\ TasksRecorded

(* A look that finds nothing.                                              *)
LEMMA NoneThere ==
  ASSUME Typed, NEW q \in scenario.slots, TasksFound, NamesKnown, TasksRecorded,
         req[q].pc = "task", Found(TaskName(q)) = {}, req[q].s.ext.task = Nil
  PROVE  tasks = {}
<1>1. CASE "lost" \notin scenario.faults BY <1>1 DEF TasksRecorded
<1>2. CASE OneName
  <2>1. TaskName(q) \in Known BY <1>2 DEF NamesKnown, Early, TaskName
  <2>2. \A m, n \in Known : m = n BY <1>2 DEF OneName, Known
  <2>3. \A t \in tasks : t.name = TaskName(q) BY <1>2, <2>1, <2>2 DEF NamesKnown
  <2>4. QED BY <2>3 DEF Found, FoundIn
<1>3. QED BY <1>1, <1>2 DEF TasksFound, OneName

LEMMA TaskInRow ==
  ASSUME NEW r \in SchemeRow, NEW i, NEW n
  PROVE  /\ WithTask(r, i, n).form = r.form /\ WithTask(r, i, n).ext.task = i
         /\ WithTask(r, i, n).taskName \in {r.taskName, n}
BY DEF WithTask, SchemeRow, IdColumns

LEMMA CreatesTaskOnceStep ==
  ASSUME IsFiniteSet(Reqs), Typed, CreatesTaskOnce, [Next]_vars
  PROVE  CreatesTaskOnce'
<1>c. scenario' = scenario BY DEF Next, vars
<1> SUFFICES ASSUME Sequential, ListsRead, TasksFound
    PROVE  /\ Lone(tasks')
           /\ \A q \in scenario.slots : req'[q].pc = "postTask" => tasks' = {}
           /\ NamesKnown' /\ TasksRecorded'
  BY <1>c DEF CreatesTaskOnce, Sequential, ListsRead, TasksFound, Lone
<1>s. PICK q \in Reqs : scenario.slots = {q} BY OneSlot
<1>i. /\ Lone(tasks) /\ (req[q].pc = "postTask" => tasks = {})
      /\ NamesKnown /\ TasksRecorded
  BY <1>s DEF CreatesTaskOnce
<1>k. Known' = Known /\ OneName' = OneName BY <1>c DEF Known, OneName
<1>r. req[q] \in Request /\ req[q].s \in SchemeRow /\ row \in SchemeRow /\ Idle \in Request
  BY RequestIs DEF Typed, TypeOK
<1> DEFINE Goal == /\ Lone(tasks') /\ (req'[q].pc = "postTask" => tasks' = {})
                   /\ NamesKnown' /\ TasksRecorded'
<1> SUFFICES Goal BY <1>s
<1>n. ASSUME OneName => /\ row'.form.name \in Known /\ row'.taskName \in Known \cup {NoName}
                        /\ \A t \in tasks' : t.name \in Known
                        /\ req'[q].pc \in Early =>
                             /\ req'[q].form.name \in Known /\ req'[q].old.form.name \in Known
                             /\ req'[q].s.taskName \in Known \cup {NoName}
      PROVE NamesKnown'
  BY <1>n, <1>k, <1>c, <1>s DEF NamesKnown
<1>t. ASSUME "lost" \notin scenario.faults =>
               /\ row'.ext.task = Nil => tasks' = {}
               /\ req'[q].pc \in {"scheme", "task", "postTask"} /\ req'[q].s.ext.task = Nil
                    => tasks' = {}
      PROVE TasksRecorded'
  BY <1>t, <1>c, <1>s DEF TasksRecorded
<1>a. OneName => /\ row.form.name \in Known /\ row.taskName \in Known \cup {NoName}
                 /\ \A t \in tasks : t.name \in Known
                 /\ req[q].pc \in Early =>
                      /\ req[q].form.name \in Known /\ req[q].old.form.name \in Known
                      /\ req[q].s.taskName \in Known \cup {NoName}
  BY <1>i, <1>s DEF NamesKnown
<1>b. "lost" \notin scenario.faults =>
        /\ row.ext.task = Nil => tasks = {}
        /\ req[q].pc \in {"scheme", "task", "postTask"} /\ req[q].s.ext.task = Nil => tasks = {}
  BY <1>i, <1>s DEF TasksRecorded
<1>1. CASE UNCHANGED vars BY <1>1, <1>i, <1>a, <1>b, <1>n, <1>t DEF vars
<1>2. CASE EditTask
  <2>1. req'[q] = Soiled[q] /\ row' = row BY <1>2 DEF EditTask
  <2>2. /\ Soiled[q].pc = req[q].pc
        /\ Soiled[q].pc # "idle" => /\ Soiled[q].form = req[q].form /\ Soiled[q].old = req[q].old
                                    /\ Soiled[q].s = req[q].s
    BY <1>r DEF Soiled, Idle, Request
  <2>3. PICK t \in tasks :
          \/ \E i : tasks' = (tasks \ {t}) \cup {[t EXCEPT !.id = i]}
          \/ "renamed" \in scenario.faults /\ \E n : tasks' = (tasks \ {t}) \cup {[t EXCEPT !.name = n]}
    BY <1>2 DEF EditTask
  <2>4. tasks = {t} BY <1>i DEF Lone
  <2>5. Lone(tasks') BY <2>3, <2>4 DEF Lone
  <2>6. OneName => \A u \in tasks' : u.name \in Known
    <3>1. t \in Tasks BY DEF Typed, TypeOK, Tasks
    <3>2. \A i : [t EXCEPT !.id = i].name = t.name BY <3>1 DEF Tasks
    <3>3. QED BY <2>3, <2>4, <3>2, <1>a DEF OneName
  <2>7. NamesKnown' BY <1>n, <1>a, <2>1, <2>2, <2>6 DEF Early
  <2>8. TasksRecorded' BY <1>t, <1>b, <2>1, <2>2, <2>4
  <2>9. QED BY <1>i, <2>1, <2>2, <2>4, <2>5, <2>7, <2>8
<1>3. CASE Load(q)
  <2>1. PICK f \in scenario.forms : /\ req'[q].pc = "write" /\ req'[q].form = f
                                    /\ req'[q].old = row /\ req'[q].s = row
    BY <1>3, EarlySteps
  <2>2. UNCHANGED <<row, tasks>> /\ f.name \in Known BY <1>3 DEF Load, Known
  <2>3. QED BY <1>n, <1>t, <1>i, <1>a, <1>b, <2>1, <2>2
<1>4. CASE Write(q)
  <2>1. req'[q].pc = "reload" /\ Same(q) /\ req'[q].s = req[q].s /\ req[q].pc \in Early
    BY <1>4, EarlySteps DEF Write, Early
  <2>2. row' = [row EXCEPT !.form = Stored(req[q].form)] /\ tasks' = tasks
    BY <1>4 DEF Write, Written
  <2>3. /\ row'.form.name = req[q].form.name /\ row'.taskName = row.taskName
        /\ row'.ext = row.ext
    BY <1>r, <2>2, RequestIs, StoredIs DEF SchemeRow, Typed, TypeOK
  <2>4. QED BY <1>n, <1>t, <1>i, <1>a, <1>b, <2>1, <2>2, <2>3 DEF Same
<1>5. CASE Reload(q)
  <2>1. req'[q].pc = "scheme" /\ Same(q) /\ req'[q].s = row /\ req[q].pc \in Early
    BY <1>5, EarlySteps DEF Reload, Early
  <2>2. UNCHANGED <<row, tasks>> BY <1>5 DEF Reload
  <2>3. QED BY <1>n, <1>t, <1>i, <1>a, <1>b, <2>1, <2>2 DEF Same
<1>6. CASE PutScheme(q)
  <2>1. req'[q].pc = "task" /\ Same(q) /\ req'[q].s = req[q].s /\ req[q].pc = "scheme"
    BY <1>6, EarlySteps DEF PutScheme
  <2>2. UNCHANGED <<row, tasks>> /\ "scheme" \in Early BY <1>6 DEF PutScheme, Early
  <2>3. QED BY <1>n, <1>t, <1>i, <1>a, <1>b, <2>1, <2>2 DEF Same
<1>7. CASE Reject(q) BY <1>1, <1>7 DEF Reject
<1>10. CASE SyncBinding(q) \/ PostBinding(q) \/ PutBinding(q)
              \/ SyncPlan(q) \/ PostPlan(q) \/ FindPlan(q)
  <2>1. req'[q].pc \notin Early /\ TaskKept(row', row) BY <1>10, LateSteps, LateRow
  <2>2. tasks' = tasks
    BY <1>10 DEF SyncBinding, PostBinding, PutBinding, SyncPlan, PostPlan, FindPlan
  <2>3. QED BY <1>n, <1>t, <1>i, <1>a, <1>b, <2>1, <2>2 DEF TaskKept, Early
<1>8. CASE PutTask(q)
  <2> DEFINE n == TaskName(q)
  <2>1. req[q].pc = "task" /\ "task" \in Early BY <1>8 DEF PutTask, Early
  <2>2. OneName => n \in Known BY <1>a, <2>1 DEF TaskName
  <2>3. CASE req'[q].pc = "postTask" /\ Same(q) /\ req'[q].s = req[q].s /\ Found(n) = {}
             /\ req[q].s.ext.task = Nil /\ UNCHANGED <<row, tasks>>
    <3>1. tasks = {} BY <1>s, <1>i, <2>1, <2>3, NoneThere
    <3>2. NamesKnown' BY <1>n, <1>a, <2>1, <2>3 DEF Same
    <3>3. TasksRecorded' BY <1>t, <2>3, <3>1
    <3>4. QED BY <1>i, <2>3, <3>1, <3>2, <3>3
  <2>4. CASE req'[q].pc = "binding" /\ UNCHANGED <<row, tasks>>
    BY <1>n, <1>t, <1>i, <1>a, <1>b, <2>4 DEF Early
  <2>5. ASSUME NEW i \in UsedTask(req[q].s, n), req'[q].pc = "binding",
               tasks' = (tasks \ ById(tasks, i)) \cup {Task(i, n, req[q].s)},
               row' = row \/ row' = WithTask(row, i, n)
        PROVE Goal
    <3>1. PICK t \in tasks : t.id = i BY UsedIsThere
    <3>2. tasks = {t} BY <1>i DEF Lone
    <3>3. i # Nil BY <3>1, FewIds DEF Typed, TypeOK
    <3>4. tasks' = {Task(i, n, req[q].s)} BY <2>5, <3>1, <3>2 DEF ById
    <3>5. Lone(tasks') /\ \A u \in tasks' : u.name = n BY <3>4 DEF Lone, Task
    <3>6. /\ row'.form = row.form /\ row'.taskName \in {row.taskName, n}
          /\ row'.ext.task \in {row.ext.task, i}
      BY <2>5, <1>r, TaskInRow
    <3>7. NamesKnown' BY <1>n, <1>a, <2>2, <2>5, <3>5, <3>6 DEF Early
    <3>8. TasksRecorded' BY <1>t, <1>b, <2>5, <3>2, <3>3, <3>6
    <3>9. QED BY <2>5, <3>5, <3>7, <3>8
  <2>6. \/ UNCHANGED <<row, tasks>>
        \/ \E i \in UsedTask(req[q].s, n) :
             /\ tasks' = (tasks \ ById(tasks, i)) \cup {Task(i, n, req[q].s)}
             /\ row' = row \/ row' = WithTask(row, i, n)
    BY <1>8 DEF PutTask
  <2>7. QED BY <1>8, <2>3, <2>4, <2>5, <2>6, TaskSteps
<1>9. CASE PostTask(q)
  <2> DEFINE n == TaskName(q)
  <2>1. req[q].pc = "postTask" /\ "postTask" \in Early BY <1>9 DEF PostTask, Early
  <2>2. OneName => n \in Known BY <1>a, <2>1 DEF TaskName
  <2>3. tasks = {} /\ req'[q].pc = "binding" BY <1>9, <1>i, <2>1, TaskSteps
  <2>4. CASE UNCHANGED <<row, tasks>> BY <1>n, <1>t, <1>i, <1>a, <1>b, <2>3, <2>4 DEF Early
  <2>5. ASSUME NEW u, tasks' = {u}, u.name = n, u.id # Nil,
               row' = WithTask(row, u.id, n) \/ (row' = row /\ "lost" \in scenario.faults)
        PROVE Goal
    <3>1. Lone(tasks') BY <2>5 DEF Lone
    <3>2. /\ row'.form = row.form /\ row'.taskName \in {row.taskName, n}
          /\ row'.ext.task = u.id \/ "lost" \in scenario.faults
      BY <2>5, <1>r, TaskInRow
    <3>3. NamesKnown' BY <1>n, <1>a, <2>2, <2>3, <2>5, <3>2 DEF Early
    <3>4. TasksRecorded' BY <1>t, <2>3, <2>5, <3>2
    <3>5. QED BY <2>3, <3>1, <3>3, <3>4
  <2>6. CASE /\ NewId /\ tasks' = tasks \cup {Task(issued', n, req[q].s)}
             /\ \/ \E t \in FoundIn(tasks', n) : row' = WithTask(row, t.id, n)
                \/ row' = row /\ "lost" \in scenario.faults
    <3> DEFINE u == Task(issued', n, req[q].s)
    <3>1. u.name = n /\ u.id = issued' BY DEF Task
    <3>2. u.id # Nil BY <2>6, <3>1, IssuedTyped, FewIds
    <3>3. tasks' = {u} BY <2>3, <2>6
    <3>4. row' = WithTask(row, u.id, n) \/ (row' = row /\ "lost" \in scenario.faults)
      BY <2>6, <3>3 DEF FoundIn
    <3> HIDE DEF u
    <3>5. QED BY <2>5, <3>1, <3>2, <3>3, <3>4
  <2>7. QED BY <1>9, <2>4, <2>6 DEF PostTask, Fails, Faulty, ListsRead
<1>11. QED
  BY <1>s, <1>1, <1>2, <1>3, <1>4, <1>5, <1>6, <1>7, <1>8, <1>9, <1>10 DEF Next, Update

LEMMA InitCreatesTaskOnce == Init => CreatesTaskOnce
<1> SUFFICES ASSUME Init PROVE CreatesTaskOnce OBVIOUS
<1>1. scenario.forms \subseteq Form /\ row \in NewRows(scenario.forms) /\ scenario.slots \subseteq Reqs
  BY ConstantsAssumption DEF Init, IsScenario
<1>2. row.form \in scenario.forms /\ row.taskName \in {NoName, row.form.name} BY <1>1, NewRowTyped
<1>3. Lone(tasks) /\ (row.ext.task = Nil => tasks = {}) /\ \A t \in tasks : t.name = row.form.name
  BY DEF Init, Lone, Task
<1>4. \A q \in scenario.slots : req[q].pc = "idle" BY <1>1 DEF Init, Idle
<1>5. NamesKnown BY <1>2, <1>3, <1>4 DEF NamesKnown, Known, Early
<1>6. TasksRecorded BY <1>3, <1>4 DEF TasksRecorded
<1>7. QED BY <1>3, <1>4, <1>5, <1>6 DEF CreatesTaskOnce

(* OneTask: with one update at a time, lists that can be read and, if      *)
(* answers are lost, a scheme that keeps its name and a task that keeps    *)
(* its own, no second checker task is ever created.                        *)
THEOREM OneTaskEver ==
  ASSUME IsFiniteSet(Reqs)
  PROVE  Spec => []OneTask
<1>1. Init => CreatesTaskOnce BY InitCreatesTaskOnce
<1>2. Typed /\ CreatesTaskOnce /\ [Next]_vars => Typed' /\ CreatesTaskOnce'
  BY StepTyped, CreatesTaskOnceStep
<1>3. CreatesTaskOnce => OneTask
  <2>1. Lone(tasks) => Cardinality(tasks) <= 1 BY LoneCounts
  <2>2. QED BY <2>1 DEF CreatesTaskOnce, OneTask
<1>4. QED BY <1>1, <1>2, <1>3, InitTyped, PTL DEF Spec

-----------------------------------------------------------------------------
(* In step.  As long as nothing has failed, each remote part fits a row:   *)
(* the one the update has read, until the update comes to that part, and   *)
(* then the one it has written.                                            *)

SchemeFits(sc, r) ==
  sc.name = r.form.name /\ sc.attrs = r.form.attrs /\ sc.langs = r.form.langs
TaskFits(set, r) ==
  /\ r.form.langs = NoLangs => set = {} /\ r.ext.task = Nil /\ r.taskName = NoName
  /\ r.form.langs # NoLangs =>
       \E t \in set : /\ set = {t} /\ t.id = r.ext.task
                      /\ t.name = r.taskName /\ t.langs = r.form.langs
BindingFits(set, r) ==
  /\ r.form.mr => \E b \in set : set = {b} /\ b.id = r.ext.binding /\ b.branch = r.form.branch
  /\ ~r.form.mr => set = {} /\ r.ext.binding = Nil
PlanFits(set, r) ==
  /\ r.form.daily => \E p \in set : set = {p} /\ p.id = r.ext.plan /\ p.time = r.form.time
  /\ ~r.form.daily => set = {} /\ r.ext.plan = Nil
AllFit(r) == /\ SchemeFits(scheme, r) /\ TaskFits(tasks, r)
             /\ BindingFits(bindings, r) /\ PlanFits(plans, r)

AtTask == {"scheme", "task", "postTask"}
AtBinding == {"binding", "postBinding", "putBinding"}
AtPlan == {"plan", "postPlan", "findPlan"}

SchemeWritten(v) == SchemeFits(scheme, IF v.pc = "scheme" THEN v.old ELSE row)
TaskWrittenTo(v) ==
  /\ v.pc \in AtTask => /\ TaskFits(tasks, v.old)
                        /\ row.ext.task = v.old.ext.task /\ row.taskName = v.old.taskName
                        /\ v.s.ext.task = v.old.ext.task /\ v.s.taskName = v.old.taskName
  /\ v.pc \notin AtTask => TaskFits(tasks, row)
  /\ v.pc = "postTask" => tasks = {} /\ v.form.langs # NoLangs
BindingWrittenTo(v) ==
  /\ v.pc \in AtTask \cup {"binding"} =>
       /\ BindingFits(bindings, v.old)
       /\ row.ext.binding = v.old.ext.binding /\ v.s.ext.binding = v.old.ext.binding
  /\ v.pc = "postBinding" => bindings = {} /\ v.form.mr
  /\ v.pc = "putBinding" =>
       /\ v.form.mr
       /\ \E b \in bindings : bindings = {b} /\ b.id = row.ext.binding /\ b.id = v.s.ext.binding
  /\ v.pc \in AtPlan => BindingFits(bindings, row)
PlanWrittenTo(v) ==
  /\ row.ext.plan = v.old.ext.plan /\ v.s.ext.plan = v.old.ext.plan
  /\ v.pc = "postPlan" => plans = {} /\ v.form.daily
  /\ v.pc = "findPlan" =>
       /\ v.form.daily
       /\ \E p \in plans : plans = {p} /\ p.name = v.form.name /\ p.time = v.form.time
  /\ v.pc \notin {"postPlan", "findPlan"} => PlanFits(plans, v.old)

(* v is the state of the update, at each of its steps.                     *)
Fits(v) ==
  /\ v.pc = "idle" => AllFit(row)
  /\ v.pc # "idle" /\ v.form.langs = NoLangs => v.old.form.langs = NoLangs
  /\ v.pc \in {"write", "reload"} => AllFit(v.old)
  /\ v.pc = "write" => row = v.old
  /\ v.pc = "reload" => /\ row.form = v.form /\ row.ext = v.old.ext
                        /\ row.taskName = v.old.taskName
  /\ v.pc \in AtTask \cup AtBinding \cup AtPlan =>
       /\ row.form = v.form /\ v.s.form = v.form
       /\ SchemeWritten(v) /\ TaskWrittenTo(v) /\ BindingWrittenTo(v) /\ PlanWrittenTo(v)

InStep == Sequential /\ faults = 0 => \A q \in scenario.slots : Fits(req[q])

(* What a step without a fault leaves in its slot, and in the rows it      *)
(* writes.                                                                 *)
LEMMA Proceeds ==
  ASSUME Typed, NEW q \in Reqs, NEW next, NoFault(q, next)
  PROVE  req'[q] = next
BY DEF NoFault, Typed, TypeOK

LEMMA GotoIs ==
  ASSUME Typed, NEW q \in Reqs, NEW step, NEW x
  PROVE  /\ Goto(q, step).pc = step /\ Goto(q, step).form = req[q].form
         /\ Goto(q, step).old = req[q].old /\ Goto(q, step).s = req[q].s
         /\ [Goto(q, step) EXCEPT !.s = x].pc = step
         /\ [Goto(q, step) EXCEPT !.s = x].form = req[q].form
         /\ [Goto(q, step) EXCEPT !.s = x].old = req[q].old
         /\ [Goto(q, step) EXCEPT !.s = x].s = x
<1>1. req[q] \in Request BY DEF Typed, TypeOK
<1>2. QED BY <1>1 DEF Goto, Request

LEMMA RowForm ==
  ASSUME NEW r \in SchemeRow, NEW f
  PROVE  /\ [r EXCEPT !.form = f].form = f /\ [r EXCEPT !.form = f].ext = r.ext
         /\ [r EXCEPT !.form = f].taskName = r.taskName
BY DEF SchemeRow

LEMMA RowTask ==
  ASSUME NEW r \in SchemeRow, NEW i, NEW n
  PROVE  /\ WithTask(r, i, n).form = r.form /\ WithTask(r, i, n).ext.task = i
         /\ WithTask(r, i, n).ext.binding = r.ext.binding
         /\ WithTask(r, i, n).ext.plan = r.ext.plan
         /\ WithTask(r, i, n).taskName = (IF r.taskName = NoName THEN n ELSE r.taskName)
BY DEF WithTask, SchemeRow, IdColumns

LEMMA RowBinding ==
  ASSUME NEW r \in SchemeRow, NEW i
  PROVE  /\ WithBinding(r, i).form = r.form /\ WithBinding(r, i).ext.binding = i
         /\ WithBinding(r, i).ext.task = r.ext.task /\ WithBinding(r, i).ext.plan = r.ext.plan
         /\ WithBinding(r, i).taskName = r.taskName
BY DEF WithBinding, SchemeRow, IdColumns

LEMMA SameForm ==
  ASSUME NEW f \in Form, NEW on \in BOOLEAN, f.mr = on
  PROVE  [f EXCEPT !.mr = on] = f
BY DEF Form

(* A row whose trigger already has the value that is written with the id.  *)
LEMMA RowMr ==
  ASSUME row \in SchemeRow
  PROVE  /\ row.form.mr = FALSE =>
              /\ Unbound.form = row.form /\ Unbound.ext.binding = Nil
              /\ Unbound.ext.task = row.ext.task /\ Unbound.ext.plan = row.ext.plan
              /\ Unbound.taskName = row.taskName
         /\ row.form.mr = TRUE => \A i :
              /\ Bound(i).form = row.form /\ Bound(i).ext.binding = i
              /\ Bound(i).ext.task = row.ext.task /\ Bound(i).ext.plan = row.ext.plan
              /\ Bound(i).taskName = row.taskName
<1>1. /\ row.form.mr = FALSE => [row.form EXCEPT !.mr = FALSE] = row.form
      /\ row.form.mr = TRUE => [row.form EXCEPT !.mr = TRUE] = row.form
  BY SameForm, RowIs
<1>2. /\ Unbound.form = [row.form EXCEPT !.mr = FALSE]
      /\ Unbound.ext = [row.ext EXCEPT !.binding = Nil] /\ Unbound.taskName = row.taskName
  BY DEF Unbound, SchemeRow
<1>3. \A i : /\ Bound(i).form = [row.form EXCEPT !.mr = TRUE]
             /\ Bound(i).ext = [row.ext EXCEPT !.binding = i] /\ Bound(i).taskName = row.taskName
  BY DEF Bound, SchemeRow
<1>4. \A i : /\ [row.ext EXCEPT !.binding = i].binding = i
             /\ [row.ext EXCEPT !.binding = i].task = row.ext.task
             /\ [row.ext EXCEPT !.binding = i].plan = row.ext.plan
  BY RowIs DEF IdColumns
<1>5. ASSUME row.form.mr = FALSE
      PROVE  /\ Unbound.form = row.form /\ Unbound.ext.binding = Nil
             /\ Unbound.ext.task = row.ext.task /\ Unbound.ext.plan = row.ext.plan
             /\ Unbound.taskName = row.taskName
  BY <1>1, <1>2, <1>4, <1>5
<1>6. ASSUME row.form.mr = TRUE, NEW i
      PROVE  /\ Bound(i).form = row.form /\ Bound(i).ext.binding = i
             /\ Bound(i).ext.task = row.ext.task /\ Bound(i).ext.plan = row.ext.plan
             /\ Bound(i).taskName = row.taskName
  <2>1. Bound(i).form = row.form BY <1>1, <1>3, <1>6
  <2>2. Bound(i).ext = [row.ext EXCEPT !.binding = i] /\ Bound(i).taskName = row.taskName BY <1>3
  <2>3. QED BY <1>4, <2>1, <2>2, Zenon
<1>7. QED BY <1>5, <1>6

LEMMA RowPlan ==
  ASSUME row \in SchemeRow, NEW i
  PROVE  /\ PlanRecorded(i).form = row.form /\ PlanRecorded(i).ext.plan = i
         /\ PlanRecorded(i).ext.binding = row.ext.binding
         /\ PlanRecorded(i).ext.task = row.ext.task /\ PlanRecorded(i).taskName = row.taskName
BY DEF PlanRecorded, SchemeRow, IdColumns

(* What fits depends only on the columns of its part.                      *)
LEMMA FitsAlike ==
  ASSUME NEW set, NEW r, NEW x, x.form = r.form
  PROVE  /\ SchemeFits(set, r) => SchemeFits(set, x)
         /\ x.ext.task = r.ext.task /\ x.taskName = r.taskName /\ TaskFits(set, r)
              => TaskFits(set, x)
         /\ x.ext.binding = r.ext.binding /\ BindingFits(set, r) => BindingFits(set, x)
         /\ x.ext.plan = r.ext.plan /\ PlanFits(set, r) => PlanFits(set, x)
BY DEF SchemeFits, TaskFits, BindingFits, PlanFits

(* Objects have ids, and a row that fits one has its id.                   *)
LEMMA ObjectsHaveIds ==
  Typed => /\ \A t \in tasks : t.id \in Ids /\ t.id # Nil /\ t.name # NoName
           /\ \A b \in bindings : b.id \in Ids /\ b.id # Nil
           /\ \A p \in plans : p.id \in Ids /\ p.id # Nil
BY ConstantsAssumption, FewIds DEF Typed, TypeOK

(* The state of the updates, for a step that is not at an end.             *)
Going(v) == v.pc \in AtTask \cup AtBinding \cup AtPlan

LEMMA FitsGoing ==
  ASSUME NEW v, Going(v), Fits(v)
  PROVE  /\ v.form.langs = NoLangs => v.old.form.langs = NoLangs
         /\ row.form = v.form /\ v.s.form = v.form
         /\ SchemeWritten(v) /\ TaskWrittenTo(v) /\ BindingWrittenTo(v) /\ PlanWrittenTo(v)
BY DEF Fits, Going, AtTask, AtBinding, AtPlan

-----------------------------------------------------------------------------
(* The steps *)

LEMMA RowStepsFit ==
  ASSUME Typed, NEW q \in Reqs, Fits(req[q]), Load(q) \/ Write(q) \/ Reload(q)
  PROVE  Fits(req[q])'
<1>r. row \in SchemeRow BY DEF Typed, TypeOK
<1> DEFINE v == req[q]
           w == req'[q]
<1>p. AtTask \cup AtBinding \cup AtPlan
        = {"scheme", "task", "postTask", "binding", "postBinding", "putBinding",
           "plan", "postPlan", "findPlan"}
  BY DEF AtTask, AtBinding, AtPlan
<1>1. CASE Load(q)
  <2>1. PICK f \in scenario.forms :
          /\ ~(f.langs = NoLangs /\ row.form.langs # NoLangs)
          /\ w = [pc |-> "write", form |-> f, old |-> row, s |-> row, clean |-> TRUE]
    BY <1>1, Proceeds DEF Load
  <2>2. w.pc = "write" /\ w.form = f /\ w.old = row BY <2>1
  <2>3. UNCHANGED <<row, scheme, tasks, bindings, plans>> /\ AllFit(row) BY <1>1 DEF Load, Fits
  <2>4. (AllFit(v.old))' BY <2>2, <2>3 DEF AllFit
  <2>5. QED BY <1>p, <2>1, <2>2, <2>3, <2>4 DEF Fits
<1>2. CASE Write(q)
  <2>1. w.pc = "reload" /\ w.form = v.form /\ w.old = v.old
    BY <1>2, Proceeds, GotoIs DEF Write
  <2>2. row = v.old /\ AllFit(v.old) /\ (v.form.langs = NoLangs => v.old.form.langs = NoLangs)
    BY <1>2 DEF Write, Fits
  <2>s. Stored(v.form) = v.form BY <2>2, RequestIs, StoredIs DEF AllFit, Typed, TypeOK
  <2>3. row'.form = v.form /\ row'.ext = row.ext /\ row'.taskName = row.taskName
    BY <1>2, <1>r, <2>s, RowForm DEF Write, Written
  <2>4. (AllFit(v.old))' BY <1>2, <2>1, <2>2 DEF AllFit, Write
  <2>5. QED BY <1>p, <2>1, <2>2, <2>3, <2>4 DEF Fits
<1>3. CASE Reload(q)
  <2>1. w.pc = "scheme" /\ w.form = v.form /\ w.old = v.old /\ w.s = row
    <3>1. NoFault(q, [Goto(q, "scheme") EXCEPT !.s = row]) BY <1>3 DEF Reload
    <3>2. w = [Goto(q, "scheme") EXCEPT !.s = row] BY <3>1, Proceeds
    <3>3. QED BY <3>2, GotoIs
  <2>2. /\ AllFit(v.old) /\ (v.form.langs = NoLangs => v.old.form.langs = NoLangs)
        /\ row.form = v.form /\ row.ext = v.old.ext /\ row.taskName = v.old.taskName
    BY <1>3 DEF Reload, Fits
  <2>3. UNCHANGED <<row, scheme, tasks, bindings, plans>> BY <1>3 DEF Reload
  <2>4. SchemeWritten(v)' BY <2>1, <2>2, <2>3 DEF SchemeWritten, AllFit
  <2>5. TaskWrittenTo(v)' BY <2>1, <2>2, <2>3 DEF TaskWrittenTo, AllFit, AtTask
  <2>6. BindingWrittenTo(v)'
    BY <2>1, <2>2, <2>3 DEF BindingWrittenTo, AllFit, AtTask, AtPlan
  <2>7. PlanWrittenTo(v)' BY <2>1, <2>2, <2>3 DEF PlanWrittenTo, AllFit
  <2>8. QED BY <1>p, <2>1, <2>2, <2>3, <2>4, <2>5, <2>6, <2>7 DEF Fits
<1>4. QED BY <1>1, <1>2, <1>3

LEMMA PutSchemeFits ==
  ASSUME Typed, NEW q \in Reqs, Fits(req[q]), PutScheme(q), faults' = faults
  PROVE  Fits(req[q])'
<1> DEFINE v == req[q]
           w == req'[q]
<1>f. \A f, next : ~Fails(q, f, next) BY DEF Fails, Faulty, Typed, TypeOK
<1>1. w.pc = "task" /\ w.form = v.form /\ w.old = v.old /\ w.s = v.s /\ v.pc = "scheme"
  BY <1>f, Proceeds, GotoIs DEF PutScheme
<1>2. UNCHANGED <<row, tasks, bindings, plans>> BY DEF PutScheme
<1>3. /\ v.form.langs = NoLangs => v.old.form.langs = NoLangs
      /\ row.form = v.form /\ v.s.form = v.form
      /\ SchemeWritten(v) /\ TaskWrittenTo(v) /\ BindingWrittenTo(v) /\ PlanWrittenTo(v)
  BY <1>1, FitsGoing DEF Going, AtTask
<1>4. SchemeFits(scheme', row)
  <2>1. CASE ~SchemeConcerned(q) /\ scheme' = scheme
    BY <1>1, <1>3, <2>1 DEF SchemeConcerned, Changed, SchemeWritten, SchemeFits
  <2>2. CASE scheme' = Params(v.s) BY <1>3, <2>2 DEF Params, SchemeFits
  <2>3. QED BY <1>f, <2>1, <2>2 DEF PutScheme
<1>5. SchemeWritten(v)' BY <1>1, <1>2, <1>4 DEF SchemeWritten
<1>6. TaskWrittenTo(v)' BY <1>1, <1>2, <1>3 DEF TaskWrittenTo, AtTask
<1>7. BindingWrittenTo(v)' BY <1>1, <1>2, <1>3 DEF BindingWrittenTo, AtTask, AtPlan
<1>8. PlanWrittenTo(v)' BY <1>1, <1>2, <1>3 DEF PlanWrittenTo
<1>9. QED BY <1>1, <1>2, <1>3, <1>5, <1>6, <1>7, <1>8 DEF Fits

(* The task part alone changes; the rest of a row or of the update's copy  *)
(* keeps its columns.                                                      *)
LEMMA PastTask ==
  ASSUME NEW q \in Reqs, NEW v, NEW w, v = req[q], w = req'[q],
         v.pc \in {"task", "postTask"}, w.pc = "binding", Fits(v),
         w.form = v.form, w.old = v.old, w.s.form = v.s.form,
         w.s.ext.binding = v.s.ext.binding, w.s.ext.plan = v.s.ext.plan,
         row'.form = row.form, row'.ext.binding = row.ext.binding,
         row'.ext.plan = row.ext.plan,
         UNCHANGED <<scheme, bindings, plans>>, TaskFits(tasks', row')
  PROVE  Fits(req[q])'
<1>1. /\ v.form.langs = NoLangs => v.old.form.langs = NoLangs
      /\ row.form = v.form /\ v.s.form = v.form
      /\ SchemeWritten(v) /\ TaskWrittenTo(v) /\ BindingWrittenTo(v) /\ PlanWrittenTo(v)
  BY FitsGoing DEF Going, AtTask
<1>2. SchemeWritten(req[q])'
  <2>1. SchemeFits(scheme, row) BY <1>1 DEF SchemeWritten
  <2>2. SchemeFits(scheme', row') BY <2>1, FitsAlike
  <2>3. QED BY <2>2 DEF SchemeWritten
<1>3. TaskWrittenTo(req[q])' BY DEF TaskWrittenTo, AtTask
<1>4. BindingWrittenTo(req[q])' BY <1>1 DEF BindingWrittenTo, AtTask, AtPlan
<1>5. PlanWrittenTo(req[q])' BY <1>1 DEF PlanWrittenTo
<1>6. QED BY <1>1, <1>2, <1>3, <1>4, <1>5 DEF Fits

LEMMA PutTaskFits ==
  ASSUME Typed, NEW q \in Reqs, Fits(req[q]), PutTask(q), faults' = faults
  PROVE  Fits(req[q])'
<1> DEFINE v == req[q]
           w == req'[q]
           s == req[q].s
           n == TaskName(q)
           go == Goto(q, "binding")
<1>f. \A f, next : ~Fails(q, f, next) /\ ~Faulty(q, f, next)
  BY DEF Fails, Faulty, Typed, TypeOK
<1>1. /\ v.form.langs = NoLangs => v.old.form.langs = NoLangs
      /\ row.form = v.form /\ s.form = v.form /\ v.pc = "task"
      /\ SchemeWritten(v) /\ TaskWrittenTo(v) /\ BindingWrittenTo(v) /\ PlanWrittenTo(v)
  BY FitsGoing DEF Going, AtTask, PutTask
<1>2. /\ TaskFits(tasks, v.old)
      /\ row.ext.task = v.old.ext.task /\ row.taskName = v.old.taskName
      /\ s.ext.task = v.old.ext.task /\ s.taskName = v.old.taskName
  BY <1>1 DEF TaskWrittenTo, AtTask
<1>u. UNCHANGED <<scheme, bindings, plans>> BY DEF PutTask
<1>3. ASSUME NoFault(q, go), row' = row, TaskFits(tasks', row) PROVE Fits(req[q])'
  <2>1. w.pc = "binding" /\ w.form = v.form /\ w.old = v.old /\ w.s = s
    BY <1>3, Proceeds, GotoIs
  <2>2. QED BY <1>1, <1>3, <1>u, <2>1, PastTask
(* The recorded task is found: it has the name it is looked for.           *)
<1>4. ASSUME NEW t \in tasks PROVE /\ tasks = {t} /\ t.id = s.ext.task /\ t.name = n
                                   /\ v.old.form.langs # NoLangs /\ t.name = row.taskName
                                   /\ ById(Found(n), s.ext.task) = {t}
                                   /\ UsedTask(s, n) = {s.ext.task}
  <2>1. v.old.form.langs # NoLangs BY <1>2 DEF TaskFits
  <2>2. tasks = {t} /\ t.id = s.ext.task /\ t.name = s.taskName
    BY <1>2, <2>1 DEF TaskFits
  <2>3. t.name # NoName BY ObjectsHaveIds
  <2>4. t.name = n BY <2>2, <2>3 DEF TaskName
  <2>5. Found(n) = {t} BY <2>2, <2>4 DEF Found, FoundIn
  <2>6. ById(Found(n), s.ext.task) = {t} BY <2>2, <2>5 DEF ById
  <2>7. UsedTask(s, n) = {s.ext.task}
    <3>1. ById(Found(n), s.ext.task) # {} BY <2>6
    <3>2. QED BY <3>1 DEF UsedTask
  <2>8. QED BY <1>2, <2>1, <2>2, <2>4, <2>6, <2>7
<1>5. CASE ~Changed(q, "langs") /\ NoFault(q, go) /\ UNCHANGED <<row, tasks>>
  <2>1. row.form.langs = v.old.form.langs BY <1>1, <1>5 DEF Changed
  <2>2. TaskFits(tasks, row) BY <1>2, <2>1 DEF TaskFits
  <2>3. QED BY <1>3, <1>5, <2>2
<1>6. CASE /\ Changed(q, "langs") /\ Found(n) = {} /\ UNCHANGED <<row, tasks>>
           /\ NoFault(q, IF MayCreateTask(s) THEN Goto(q, "postTask") ELSE go)
  <2>1. tasks = {} BY <1>4, <1>6 DEF ById
  <2>2. v.old.form.langs = NoLangs /\ s.ext.task = Nil BY <1>2, <2>1 DEF TaskFits
  <2>3. v.form.langs # NoLangs BY <1>6, <2>2 DEF Changed
  <2>4. NoFault(q, Goto(q, "postTask")) BY <1>6, <2>2 DEF MayCreateTask
  <2>5. w.pc = "postTask" /\ w.form = v.form /\ w.old = v.old /\ w.s = s
    BY <2>4, Proceeds, GotoIs
  <2>6. SchemeWritten(v)' BY <1>1, <1>6, <1>u, <2>5 DEF SchemeWritten
  <2>7. TaskWrittenTo(v)' BY <1>2, <1>6, <2>1, <2>3, <2>5 DEF TaskWrittenTo, AtTask
  <2>8. BindingWrittenTo(v)'
    BY <1>1, <1>6, <1>u, <2>5 DEF BindingWrittenTo, AtTask, AtPlan
  <2>9. PlanWrittenTo(v)' BY <1>1, <1>6, <1>u, <2>5 DEF PlanWrittenTo
  <2>10. QED BY <1>1, <1>6, <2>3, <2>5, <2>6, <2>7, <2>8, <2>9 DEF Fits
<1>7. ASSUME NEW i \in UsedTask(s, n),
             tasks' = (tasks \ ById(tasks, i)) \cup {Task(i, n, s)},
             row' = (IF i = s.ext.task THEN row ELSE WithTask(row, i, n)),
             NoFault(q, IF i = s.ext.task THEN go ELSE [go EXCEPT !.s = WithTask(s, i, n)])
      PROVE  Fits(req[q])'
  <2>1. PICK t \in tasks : t.id = i BY UsedIsThere
  <2>2. /\ tasks = {t} /\ i = s.ext.task /\ n = row.taskName /\ v.old.form.langs # NoLangs
    BY <1>4, <2>1
  <2>3. row' = row /\ NoFault(q, go) BY <1>7, <2>2
  <2>4. tasks' = {Task(i, n, s)} BY <1>7, <2>1, <2>2 DEF ById
  <2>5. row.form.langs # NoLangs BY <1>1, <2>2
  <2>6. TaskFits(tasks', row) BY <1>1, <1>2, <2>2, <2>4, <2>5 DEF TaskFits, Task
  <2>7. QED BY <1>3, <2>3, <2>6
<1>8. CASE Found(n) # {} /\ UsedTask(s, n) = {}
  <2>1. PICK t \in tasks : TRUE BY <1>8 DEF Found, FoundIn
  <2>2. UsedTask(s, n) = {s.ext.task} BY <1>4, <2>1
  <2>3. QED BY <1>8, <2>2
<1>9. QED BY <1>f, <1>5, <1>6, <1>7, <1>8 DEF PutTask

LEMMA PostTaskFits ==
  ASSUME Typed, NEW q \in Reqs, Fits(req[q]), PostTask(q), faults' = faults
  PROVE  Fits(req[q])'
<1> DEFINE v == req[q]
           w == req'[q]
           s == req[q].s
           n == TaskName(q)
           t == Task(issued', n, s)
<1>f. \A f, next : ~Fails(q, f, next) /\ ~Faulty(q, f, next)
  BY DEF Fails, Faulty, Typed, TypeOK
<1>r. row \in SchemeRow /\ s \in SchemeRow /\ n \in Names
  BY RequestIs, TaskNamed DEF Typed, TypeOK
<1>1. /\ row.form = v.form /\ s.form = v.form /\ v.pc = "postTask" /\ TaskWrittenTo(v)
  BY FitsGoing DEF Going, AtTask, PostTask
<1>2. /\ tasks = {} /\ v.form.langs # NoLangs /\ TaskFits(tasks, v.old)
      /\ row.taskName = v.old.taskName
  BY <1>1 DEF TaskWrittenTo, AtTask
<1>3. row.taskName = NoName BY <1>2 DEF TaskFits
<1>4. PICK u \in FoundIn(tasks', n) :
        /\ tasks' = tasks \cup {t} /\ row' = WithTask(row, u.id, n)
        /\ NoFault(q, [Goto(q, "binding") EXCEPT !.s = WithTask(s, u.id, n)])
  BY <1>f DEF PostTask
<1>5. tasks' = {t} /\ u = t BY <1>2, <1>4 DEF FoundIn
<1>6. t.id = issued' /\ t.name = n /\ t.langs = row.form.langs BY <1>1 DEF Task
<1>7. /\ row'.form = row.form /\ row'.ext.task = u.id /\ row'.taskName = n
      /\ row'.ext.binding = row.ext.binding /\ row'.ext.plan = row.ext.plan
  BY <1>r, <1>3, <1>4, RowTask
<1>8. TaskFits(tasks', row')
  <2> HIDE DEF t
  <2>1. QED BY <1>1, <1>2, <1>5, <1>6, <1>7 DEF TaskFits
<1>9. w = [Goto(q, "binding") EXCEPT !.s = WithTask(s, u.id, n)] BY <1>4, Proceeds
<1>10. w.pc = "binding" /\ w.form = v.form /\ w.old = v.old /\ w.s = WithTask(s, u.id, n)
  BY <1>9, GotoIs
<1>11. w.s.form = s.form /\ w.s.ext.binding = s.ext.binding /\ w.s.ext.plan = s.ext.plan
  BY <1>r, <1>10, RowTask
<1>12. UNCHANGED <<scheme, bindings, plans>> BY DEF PostTask
<1>13. QED BY <1>1, <1>7, <1>8, <1>10, <1>11, <1>12, PastTask

LEMMA PastBinding ==
  ASSUME NEW q \in Reqs, NEW v, NEW w, v = req[q], w = req'[q],
         v.pc \in AtBinding, w.pc = "plan", Fits(v),
         w.form = v.form, w.old = v.old, w.s.form = v.s.form, w.s.ext.plan = v.s.ext.plan,
         row'.form = row.form, row'.ext.task = row.ext.task, row'.taskName = row.taskName,
         row'.ext.plan = row.ext.plan,
         UNCHANGED <<scheme, tasks, plans>>, BindingFits(bindings', row')
  PROVE  Fits(req[q])'
<1>1. /\ v.form.langs = NoLangs => v.old.form.langs = NoLangs
      /\ row.form = v.form /\ v.s.form = v.form
      /\ SchemeWritten(v) /\ TaskWrittenTo(v) /\ PlanWrittenTo(v)
  BY FitsGoing DEF Going
<1>2. v.pc # "scheme" /\ v.pc \notin AtTask /\ v.pc \notin {"postPlan", "findPlan"}
  BY DEF AtBinding, AtTask
<1>3. SchemeWritten(req[q])'
  <2>1. SchemeFits(scheme, row) BY <1>1, <1>2 DEF SchemeWritten
  <2>2. SchemeFits(scheme', row') BY <2>1, FitsAlike
  <2>3. QED BY <2>2 DEF SchemeWritten
<1>4. TaskWrittenTo(req[q])'
  <2>1. TaskFits(tasks, row) BY <1>1, <1>2 DEF TaskWrittenTo
  <2>2. TaskFits(tasks', row') BY <2>1, FitsAlike
  <2>3. QED BY <2>2 DEF TaskWrittenTo, AtTask
<1>5. BindingWrittenTo(req[q])' BY DEF BindingWrittenTo, AtTask, AtPlan
<1>6. PlanWrittenTo(req[q])' BY <1>1, <1>2 DEF PlanWrittenTo
<1>7. QED BY <1>1, <1>3, <1>4, <1>5, <1>6 DEF Fits

(* Within the binding part only the pc and the recorded id of the copy     *)
(* move.                                                                   *)
LEMMA WithinBinding ==
  ASSUME NEW q \in Reqs, NEW v, NEW w, v = req[q], w = req'[q],
         v.pc = "binding", w.pc \in {"postBinding", "putBinding"}, Fits(v),
         w.form = v.form, w.old = v.old, w.s.form = v.s.form, w.s.ext.plan = v.s.ext.plan,
         UNCHANGED <<row, scheme, tasks, bindings, plans>>, v.form.mr,
         w.pc = "postBinding" => bindings = {},
         w.pc = "putBinding" =>
           \E b \in bindings : bindings = {b} /\ b.id = row.ext.binding /\ b.id = w.s.ext.binding
  PROVE  Fits(req[q])'
<1>1. /\ v.form.langs = NoLangs => v.old.form.langs = NoLangs
      /\ row.form = v.form /\ v.s.form = v.form
      /\ SchemeWritten(v) /\ TaskWrittenTo(v) /\ PlanWrittenTo(v)
  BY FitsGoing DEF Going, AtBinding
<1>2. SchemeWritten(req[q])' BY <1>1 DEF SchemeWritten
<1>3. TaskWrittenTo(req[q])' BY <1>1 DEF TaskWrittenTo, AtTask
<1>4. BindingWrittenTo(req[q])' BY DEF BindingWrittenTo, AtTask, AtPlan
<1>5. PlanWrittenTo(req[q])' BY <1>1 DEF PlanWrittenTo
<1>6. QED BY <1>1, <1>2, <1>3, <1>4, <1>5 DEF Fits

LEMMA SyncBindingFits ==
  ASSUME Typed, NEW q \in Reqs, Fits(req[q]), SyncBinding(q), faults' = faults
  PROVE  Fits(req[q])'
<1> DEFINE v == req[q]
           w == req'[q]
           s == req[q].s
           old == req[q].old.ext.binding
           go == Goto(q, "plan")
<1>f. \A f, next : ~Fails(q, f, next) /\ ~Faulty(q, f, next)
  BY DEF Fails, Faulty, Typed, TypeOK
<1>r. row \in SchemeRow /\ s \in SchemeRow BY RequestIs DEF Typed, TypeOK
<1>1. /\ row.form = v.form /\ s.form = v.form /\ v.pc = "binding" /\ BindingWrittenTo(v)
      /\ BindingFits(bindings, v.old)
      /\ row.ext.binding = old /\ s.ext.binding = old
  BY FitsGoing DEF Going, AtBinding, SyncBinding, BindingWrittenTo
<1>u. UNCHANGED <<scheme, tasks, plans>> BY DEF SyncBinding
<1>b. v.pc \in AtBinding BY <1>1 DEF AtBinding
<1>2. ASSUME NEW b \in bindings
      PROVE  v.old.form.mr /\ bindings = {b} /\ b.id = old /\ b.branch = v.old.form.branch
  BY <1>1 DEF BindingFits
<1>3. old # Nil => \E b \in bindings : b.id = old
  BY <1>1 DEF BindingFits
<1>4. ASSUME TurnedOff(q, "mr"), old # Nil, row' = Unbound,
             bindings' = bindings \ ById(bindings, old),
             NoFault(q, [go EXCEPT !.s = WithBinding(s, Nil)])
      PROVE  Fits(req[q])'
  <2>1. row.form.mr = FALSE
    <3>1. row.form.mr \in BOOLEAN BY <1>r, RowIs DEF Form
    <3>2. QED BY <3>1, <1>1, <1>4 DEF TurnedOff
  <2>2. /\ row'.form = row.form /\ row'.ext.binding = Nil /\ row'.ext.task = row.ext.task
        /\ row'.ext.plan = row.ext.plan /\ row'.taskName = row.taskName
    BY <1>r, <1>4, <2>1, RowMr
  <2>3. bindings' = {} BY <1>2, <1>4 DEF ById
  <2>4. BindingFits(bindings', row') BY <2>1, <2>2, <2>3 DEF BindingFits
  <2>5. w = [go EXCEPT !.s = WithBinding(s, Nil)] BY <1>4, Proceeds
  <2>6. w.pc = "plan" /\ w.form = v.form /\ w.old = v.old /\ w.s = WithBinding(s, Nil)
    BY <2>5, GotoIs
  <2>7. w.s.form = s.form /\ w.s.ext.plan = s.ext.plan BY <1>r, <2>6, RowBinding
  <2>8. QED BY <1>b, <1>u, <2>2, <2>4, <2>6, <2>7, PastBinding
<1>5. ASSUME ~(TurnedOff(q, "mr") /\ old # Nil), ~BindingConcerned(q), NoFault(q, go),
             UNCHANGED <<row, bindings>>
      PROVE  Fits(req[q])'
  <2>1. BindingFits(bindings, row)
    <3>1. CASE row.form.mr
      <4>1. v.old.form.mr /\ v.form.branch = v.old.form.branch /\ old # Nil
        BY <1>1, <1>5, <3>1 DEF BindingConcerned, BranchChanged, Changed, TurnedOn
      <4>2. PICK b \in bindings : b.id = old BY <1>3, <4>1
      <4>3. bindings = {b} /\ b.branch = row.form.branch BY <1>1, <1>2, <4>1
      <4>4. QED BY <1>1, <3>1, <4>2, <4>3 DEF BindingFits
    <3>2. CASE ~row.form.mr
      <4>1. ~v.old.form.mr \/ old = Nil BY <1>1, <1>5, <3>2 DEF TurnedOff
      <4>2. bindings = {}
        <5>1. \A b \in bindings : v.old.form.mr /\ b.id = old BY <1>2
        <5>2. \A b \in bindings : b.id # Nil BY ObjectsHaveIds
        <5>3. QED BY <4>1, <5>1, <5>2
      <4>3. old = Nil BY <1>3, <4>2
      <4>4. QED BY <1>1, <3>2, <4>2, <4>3 DEF BindingFits
    <3>3. QED BY <3>1, <3>2
  <2>2. w.pc = "plan" /\ w.form = v.form /\ w.old = v.old /\ w.s = s
    BY <1>5, Proceeds, GotoIs
  <2>3. QED BY <1>b, <1>u, <1>5, <2>1, <2>2, PastBinding
<1>6. ASSUME BindingConcerned(q), Existing(s) = {}, NoFault(q, Goto(q, "postBinding")),
             UNCHANGED <<row, bindings>>
      PROVE  Fits(req[q])'
  <2>1. bindings = {} BY <1>6 DEF Existing
  <2>2. w.pc = "postBinding" /\ w.form = v.form /\ w.old = v.old /\ w.s = s
    BY <1>6, Proceeds, GotoIs
  <2>3. v.form.mr BY <1>1, <1>6 DEF BindingConcerned
  <2>4. QED BY <1>1, <1>u, <1>6, <2>1, <2>2, <2>3, WithinBinding
<1>7. ASSUME BindingConcerned(q), UNCHANGED <<row, bindings>>, NEW i \in Existing(s),
             NoFault(q, [Goto(q, "putBinding") EXCEPT !.s = WithBinding(s, i)])
      PROVE  Fits(req[q])'
  <2>1. PICK b \in bindings : b.id = i BY DEF Existing
  <2>2. w = [Goto(q, "putBinding") EXCEPT !.s = WithBinding(s, i)] BY <1>7, Proceeds
  <2>3. w.pc = "putBinding" /\ w.form = v.form /\ w.old = v.old /\ w.s = WithBinding(s, i)
    BY <2>2, GotoIs
  <2>4. w.s.form = s.form /\ w.s.ext.plan = s.ext.plan /\ w.s.ext.binding = i
    BY <1>r, <2>3, RowBinding
  <2>5. v.form.mr BY <1>1, <1>7 DEF BindingConcerned
  <2>6. bindings = {b} /\ b.id = row.ext.binding BY <1>1, <1>2
  <2>7. QED BY <1>1, <1>u, <1>7, <2>1, <2>3, <2>4, <2>5, <2>6, WithinBinding
<1>8. ~(old # Nil /\ ById(bindings, old) = {}) BY <1>3 DEF ById
<1>9. QED BY <1>f, <1>4, <1>5, <1>6, <1>7, <1>8 DEF SyncBinding

LEMMA PostBindingFits ==
  ASSUME Typed, NEW q \in Reqs, Fits(req[q]), PostBinding(q), faults' = faults
  PROVE  Fits(req[q])'
<1> DEFINE v == req[q]
           w == req'[q]
           s == req[q].s
<1>f. \A f, next : ~Fails(q, f, next) BY DEF Fails, Faulty, Typed, TypeOK
<1>r. row \in SchemeRow /\ s \in SchemeRow BY RequestIs DEF Typed, TypeOK
<1>1. /\ row.form = v.form /\ s.form = v.form /\ v.pc = "postBinding"
      /\ bindings = {} /\ v.form.mr
  BY FitsGoing DEF Going, AtBinding, PostBinding, BindingWrittenTo
<1>2. /\ bindings' = bindings \cup {Binding(issued', s)} /\ row' = Bound(issued')
      /\ NoFault(q, [Goto(q, "plan") EXCEPT !.s = WithBinding(s, issued')])
      /\ UNCHANGED <<scheme, tasks, plans>>
  BY <1>f DEF PostBinding
<1>3. row.form.mr = TRUE
  <2>1. row.form.mr \in BOOLEAN BY <1>r, RowIs DEF Form
  <2>2. QED BY <2>1, <1>1
<1>4. /\ row'.form = row.form /\ row'.ext.binding = issued' /\ row'.ext.task = row.ext.task
      /\ row'.ext.plan = row.ext.plan /\ row'.taskName = row.taskName
  BY <1>r, <1>2, <1>3, RowMr
<1>5. bindings' = {Binding(issued', s)} BY <1>1, <1>2
<1>6. BindingFits(bindings', row') BY <1>1, <1>3, <1>4, <1>5 DEF BindingFits, Binding
<1>7. w = [Goto(q, "plan") EXCEPT !.s = WithBinding(s, issued')] BY <1>2, Proceeds
<1>8. w.pc = "plan" /\ w.form = v.form /\ w.old = v.old /\ w.s = WithBinding(s, issued')
  BY <1>7, GotoIs
<1>9. w.s.form = s.form /\ w.s.ext.plan = s.ext.plan BY <1>r, <1>8, RowBinding
<1>10. v.pc \in AtBinding BY <1>1 DEF AtBinding
<1>11. QED BY <1>2, <1>4, <1>6, <1>8, <1>9, <1>10, PastBinding

LEMMA PutBindingFits ==
  ASSUME Typed, NEW q \in Reqs, Fits(req[q]), PutBinding(q), faults' = faults
  PROVE  Fits(req[q])'
<1> DEFINE v == req[q]
           w == req'[q]
           s == req[q].s
           i == s.ext.binding
<1>f. \A f, next : ~Fails(q, f, next) BY DEF Fails, Faulty, Typed, TypeOK
<1>1. /\ row.form = v.form /\ s.form = v.form /\ v.pc = "putBinding" /\ v.form.mr
      /\ \E b \in bindings : bindings = {b} /\ b.id = row.ext.binding /\ b.id = i
  BY FitsGoing DEF Going, AtBinding, PutBinding, BindingWrittenTo
<1>2. /\ bindings' = {IF b.id = i THEN Binding(i, s) ELSE b : b \in bindings}
      /\ NoFault(q, Goto(q, "plan")) /\ UNCHANGED <<row, scheme, tasks, plans>>
  BY <1>f DEF PutBinding
<1>3. PICK b \in bindings : bindings = {b} /\ b.id = row.ext.binding /\ b.id = i BY <1>1
<1>4. bindings' = {Binding(i, s)}
  <2> DEFINE new(x) == IF x.id = i THEN Binding(i, s) ELSE x
  <2>1. bindings' = {new(x) : x \in bindings} BY <1>2
  <2>2. new(b) = Binding(i, s) BY <1>3
  <2> HIDE DEF new
  <2>3. QED BY <1>3, <2>1, <2>2
<1>5. BindingFits(bindings', row')
  <2> DEFINE x == Binding(i, s)
  <2>1. x.id = i /\ x.branch = s.form.branch BY DEF Binding
  <2>2. row' = row /\ row'.form.mr BY <1>1, <1>2
  <2>3. x.id = row'.ext.binding /\ x.branch = row'.form.branch BY <1>1, <1>3, <2>1, <2>2
  <2> HIDE DEF x
  <2>4. bindings' = {x} BY <1>4 DEF x
  <2>5. QED BY <2>2, <2>3, <2>4 DEF BindingFits
<1>6. w.pc = "plan" /\ w.form = v.form /\ w.old = v.old /\ w.s = s
  BY <1>2, Proceeds, GotoIs
<1>7. v.pc \in AtBinding BY <1>1 DEF AtBinding
<1>8. QED BY <1>2, <1>5, <1>6, <1>7, PastBinding

(* The plan is the last part: with it the row and everything fits.         *)
LEMMA PastPlan ==
  ASSUME NEW q \in Reqs, NEW v, v = req[q], v.pc \in AtPlan, Fits(v),
         req'[q].pc = "idle",
         row'.form = row.form, row'.ext.task = row.ext.task, row'.taskName = row.taskName,
         row'.ext.binding = row.ext.binding,
         UNCHANGED <<scheme, tasks, bindings>>, PlanFits(plans', row')
  PROVE  Fits(req[q])'
<1>1. SchemeWritten(v) /\ TaskWrittenTo(v) /\ BindingWrittenTo(v) BY FitsGoing DEF Going
<1>2. v.pc # "scheme" /\ v.pc \notin AtTask BY DEF AtPlan, AtTask
<1>3. SchemeFits(scheme, row) /\ TaskFits(tasks, row) /\ BindingFits(bindings, row)
  BY <1>1, <1>2 DEF SchemeWritten, TaskWrittenTo, BindingWrittenTo
<1>4. SchemeFits(scheme', row') /\ TaskFits(tasks', row') /\ BindingFits(bindings', row')
  BY <1>3, FitsAlike
<1>5. AllFit(row)' BY <1>4 DEF AllFit
<1>6. QED BY <1>5 DEF Fits, AtTask, AtBinding, AtPlan

LEMMA WithinPlan ==
  ASSUME NEW q \in Reqs, NEW v, NEW w, v = req[q], w = req'[q],
         v.pc \in AtPlan, w.pc \in {"postPlan", "findPlan"}, Fits(v),
         w.form = v.form, w.old = v.old, w.s = v.s,
         UNCHANGED <<row, scheme, tasks, bindings>>, v.form.daily,
         w.pc = "postPlan" => plans' = {},
         w.pc = "findPlan" =>
           \E p \in plans' : plans' = {p} /\ p.name = v.form.name /\ p.time = v.form.time
  PROVE  Fits(req[q])'
<1>1. /\ v.form.langs = NoLangs => v.old.form.langs = NoLangs
      /\ row.form = v.form /\ v.s.form = v.form
      /\ SchemeWritten(v) /\ TaskWrittenTo(v) /\ BindingWrittenTo(v) /\ PlanWrittenTo(v)
  BY FitsGoing DEF Going
<1>2. v.pc # "scheme" /\ v.pc \notin AtTask BY DEF AtPlan, AtTask
<1>3. SchemeWritten(req[q])' BY <1>1, <1>2 DEF SchemeWritten
<1>4. TaskWrittenTo(req[q])' BY <1>1, <1>2 DEF TaskWrittenTo, AtTask
<1>5. BindingWrittenTo(req[q])' BY <1>1, <1>2 DEF BindingWrittenTo, AtTask, AtPlan
<1>6. PlanWrittenTo(req[q])' BY <1>1 DEF PlanWrittenTo
<1>7. QED BY <1>1, <1>3, <1>4, <1>5, <1>6 DEF Fits

LEMMA SyncPlanFits ==
  ASSUME Typed, NEW q \in Reqs, Fits(req[q]), SyncPlan(q), faults' = faults
  PROVE  Fits(req[q])'
<1> DEFINE v == req[q]
           w == req'[q]
           s == req[q].s
           old == req[q].old.ext.plan
           off == TurnedOff(q, "daily") /\ old # Nil
           moved == ~off /\ ~PlanWanted(q) /\ TimeChanged(q) /\ old # Nil
<1>f. \A f, next : ~Fails(q, f, next) BY DEF Fails, Faulty, Typed, TypeOK
<1>r. row \in SchemeRow BY DEF Typed, TypeOK
<1>1. /\ row.form = v.form /\ s.form = v.form /\ v.pc = "plan" /\ v.pc \in AtPlan
      /\ PlanFits(plans, v.old) /\ row.ext.plan = old /\ s.ext.plan = old
  BY FitsGoing DEF Going, AtPlan, SyncPlan, PlanWrittenTo
<1>u. UNCHANGED <<scheme, tasks, bindings>> BY DEF SyncPlan
<1>2. ASSUME NEW p \in plans
      PROVE  v.old.form.daily /\ plans = {p} /\ p.id = old /\ p.time = v.old.form.time
  BY <1>1 DEF PlanFits
<1>3. old # Nil => \E p \in plans : p.id = old BY <1>1 DEF PlanFits
<1>4. ~v.old.form.daily \/ old = Nil => plans = {}
  <2>1. \A p \in plans : v.old.form.daily /\ p.id = old BY <1>2
  <2>2. \A p \in plans : p.id # Nil BY ObjectsHaveIds
  <2>3. QED BY <2>1, <2>2
<1>5. plans \ ById(plans, old) = {} BY <1>2 DEF ById
<1>i. ASSUME NoFault(q, Idle) PROVE w.pc = "idle" BY <1>i, Proceeds DEF Idle
<1>6. ASSUME NoFault(q, Goto(q, "postPlan")), row' = row, plans' = {}, v.form.daily
      PROVE  Fits(req[q])'
  <2>1. w.pc = "postPlan" /\ w.form = v.form /\ w.old = v.old /\ w.s = s
    BY <1>6, Proceeds, GotoIs
  <2>2. QED BY <1>1, <1>u, <1>6, <2>1, WithinPlan
<1>7. ASSUME off, row' = PlanRecorded(Nil), plans' = plans \ ById(plans, old), NoFault(q, Idle)
      PROVE  Fits(req[q])'
  <2>1. /\ row'.form = row.form /\ row'.ext.plan = Nil /\ row'.ext.binding = row.ext.binding
        /\ row'.ext.task = row.ext.task /\ row'.taskName = row.taskName
    BY <1>r, <1>7, RowPlan
  <2>2. ~row.form.daily BY <1>1, <1>7 DEF TurnedOff
  <2>3. PlanFits(plans', row') BY <1>5, <1>7, <2>1, <2>2 DEF PlanFits
  <2>4. QED BY <1>1, <1>i, <1>u, <1>7, <2>1, <2>3, PastPlan
<1>8. ASSUME moved, row' = row, plans' = plans \ ById(plans, old), NoFault(q, Goto(q, "postPlan"))
      PROVE  Fits(req[q])'
  <2>1. v.form.daily BY <1>1, <1>8 DEF TimeChanged
  <2>2. QED BY <1>5, <1>6, <1>8, <2>1
<1>9. ~(old # Nil /\ ById(plans, old) = {}) BY <1>3 DEF ById
<1>10. ASSUME PlanWanted(q), NoFault(q, Goto(q, "postPlan")), UNCHANGED <<row, plans>>
       PROVE  Fits(req[q])'
  <2>1. v.form.daily /\ (~v.old.form.daily \/ old = Nil)
    BY <1>1, <1>10 DEF PlanWanted, TurnedOn
  <2>2. QED BY <1>4, <1>6, <1>10, <2>1
<1>11. ASSUME ~off, ~moved, ~PlanWanted(q), NoFault(q, Idle), UNCHANGED <<row, plans>>
       PROVE  Fits(req[q])'
  <2>1. PlanFits(plans, row)
    <3>1. CASE row.form.daily
      <4>1. v.old.form.daily /\ old # Nil BY <1>1, <1>11, <3>1 DEF PlanWanted, TurnedOn
      <4>2. v.form.time = v.old.form.time
        BY <1>1, <1>11, <3>1, <4>1 DEF TimeChanged, Changed
      <4>3. PICK p \in plans : p.id = old BY <1>3, <4>1
      <4>4. plans = {p} /\ p.time = row.form.time BY <1>1, <1>2, <4>2
      <4>5. QED BY <1>1, <3>1, <4>3, <4>4 DEF PlanFits
    <3>2. CASE ~row.form.daily
      <4>1. plans = {} BY <1>1, <1>4, <1>11, <3>2 DEF TurnedOff
      <4>2. old = Nil BY <1>3, <4>1
      <4>3. QED BY <1>1, <3>2, <4>1, <4>2 DEF PlanFits
    <3>3. QED BY <3>1, <3>2
  <2>2. QED BY <1>1, <1>i, <1>u, <1>11, <2>1, PastPlan
<1>12. CASE off \/ moved
  <2>1. old # Nil /\ ~(off /\ moved) BY <1>12
  <2>2. /\ plans' = plans \ ById(plans, old)
        /\ row' = IF off THEN PlanRecorded(Nil) ELSE row
        /\ NoFault(q, IF off THEN Idle ELSE Goto(q, "postPlan"))
    BY <1>f, <1>9, <1>12, <2>1 DEF SyncPlan
  <2>3. CASE off BY <1>7, <2>2, <2>3
  <2>4. CASE ~off BY <1>8, <1>12, <2>2, <2>4
  <2>5. QED BY <2>3, <2>4
<1>13. CASE ~off /\ ~moved
  <2>1. /\ NoFault(q, IF PlanWanted(q) THEN Goto(q, "postPlan") ELSE Idle)
        /\ UNCHANGED <<row, plans>>
    BY <1>13 DEF SyncPlan
  <2>2. CASE PlanWanted(q) BY <1>10, <2>1, <2>2
  <2>3. CASE ~PlanWanted(q) BY <1>11, <1>13, <2>1, <2>3
  <2>4. QED BY <2>2, <2>3
<1>14. QED BY <1>12, <1>13

LEMMA NewPlanFits ==
  ASSUME Typed, NEW q \in Reqs, Fits(req[q]), PostPlan(q) \/ FindPlan(q), faults' = faults
  PROVE  Fits(req[q])'
<1> DEFINE v == req[q]
           w == req'[q]
           s == req[q].s
<1>f. \A f, next : ~Fails(q, f, next) /\ ~Faulty(q, f, next)
  BY DEF Fails, Faulty, Typed, TypeOK
<1>r. row \in SchemeRow BY DEF Typed, TypeOK
<1>1. row.form = v.form /\ s.form = v.form /\ v.pc \in AtPlan /\ PlanWrittenTo(v)
  BY FitsGoing DEF Going, AtPlan, PostPlan, FindPlan
<1>2. CASE PostPlan(q)
  <2> DEFINE p == Plan(issued', s)
  <2>1. plans = {} /\ v.form.daily BY <1>1, <1>2 DEF PostPlan, PlanWrittenTo
  <2>2. /\ plans' = plans \cup {p} /\ NoFault(q, Goto(q, "findPlan"))
        /\ UNCHANGED <<row, scheme, tasks, bindings>>
    BY <1>f, <1>2 DEF PostPlan
  <2>3. w.pc = "findPlan" /\ w.form = v.form /\ w.old = v.old /\ w.s = s
    BY <2>2, Proceeds, GotoIs
  <2>4. p.name = v.form.name /\ p.time = v.form.time BY <1>1 DEF Plan
  <2>5. plans' = {p} BY <2>1, <2>2
  <2> HIDE DEF p
  <2>6. QED BY <1>1, <2>1, <2>2, <2>3, <2>4, <2>5, WithinPlan
<1>3. CASE FindPlan(q)
  <2>1. v.form.daily BY <1>1, <1>3 DEF FindPlan, PlanWrittenTo
  <2>2. PICK p \in plans : plans = {p} /\ p.name = v.form.name /\ p.time = v.form.time
    BY <1>1, <1>3 DEF FindPlan, PlanWrittenTo
  <2>3. Namesakes(s) = {p} BY <1>1, <2>2 DEF Namesakes
  <2>4. /\ row' = PlanRecorded(p.id) /\ NoFault(q, Idle)
        /\ UNCHANGED <<scheme, tasks, bindings, plans>>
    BY <1>f, <1>3, <2>3 DEF FindPlan
  <2>5. /\ row'.form = row.form /\ row'.ext.plan = p.id /\ row'.ext.binding = row.ext.binding
        /\ row'.ext.task = row.ext.task /\ row'.taskName = row.taskName
    BY <1>r, <2>4, RowPlan
  <2>6. PlanFits(plans', row') BY <1>1, <2>1, <2>2, <2>4, <2>5 DEF PlanFits
  <2>7. w.pc = "idle" BY <2>4, Proceeds DEF Idle
  <2>8. QED BY <1>1, <2>4, <2>5, <2>6, <2>7, PastPlan
<1>4. QED BY <1>2, <1>3

LEMMA InStepStep ==
  ASSUME IsFiniteSet(Reqs), Typed, InStep, [Next]_vars
  PROVE  InStep'
<1> SUFFICES ASSUME Sequential, faults' = 0
    PROVE  \A q \in scenario.slots : Fits(req[q])'
  BY DEF InStep, Sequential, Next, vars
<1>s. PICK q \in Reqs : scenario.slots = {q} BY OneSlot
<1>1. CASE UNCHANGED vars
  <2>1. Fits(req[q]) BY <1>s, <1>1 DEF InStep, vars
  <2>2. Fits(req[q])' BY <1>1, <2>1
    DEF vars, Fits, AllFit, SchemeWritten, TaskWrittenTo, BindingWrittenTo, PlanWrittenTo
  <2>3. QED BY <1>s, <2>2
<1>2. CASE EditTask BY <1>2 DEF EditTask, Typed, TypeOK
<1>3. CASE Load(q) \/ Update(q)
  <2>1. faults = 0
    <3>1. ASSUME NEW p, NEW f, NEW next PROVE ~Faulty(p, f, next) /\ ~Fails(p, f, next)
      BY DEF Fails, Faulty, Typed, TypeOK
    <3>2. \E next : NoFault(q, next)
      BY <1>3, <3>1 DEF Load, Update, Write, Reload, PutScheme, PutTask, PostTask, SyncBinding,
                        PostBinding, PutBinding, SyncPlan, PostPlan, FindPlan
    <3>3. QED BY <3>2 DEF NoFault
  <2>2. Fits(req[q]) /\ faults' = faults BY <1>s, <2>1 DEF InStep
  <2>3. Fits(req[q])'
    BY <1>3, <2>2, RowStepsFit, PutSchemeFits, PutTaskFits, PostTaskFits, SyncBindingFits,
       PostBindingFits, PutBindingFits, SyncPlanFits, NewPlanFits DEF Update
  <2>4. QED BY <1>s, <2>3
<1>4. QED BY <1>s, <1>1, <1>2, <1>3 DEF Next, Reject

(* PartsInSync: with one update at a time, and as long as nothing has      *)
(* failed, between updates the task, the binding, the plan and, of the     *)
(* scheme, name, attributes and languages are what the row says, whatever  *)
(* the forms were: nothing an update compares with is out of date, so none *)
(* of these parts that it skips needed it.  Nothing is said of the branch  *)
(* and the task in the scheme's own parameters.                            *)
THEOREM PartsInSyncEver ==
  ASSUME IsFiniteSet(Reqs)
  PROVE  Spec => []PartsInSync
<1>1. Init => InStep
  <2> SUFFICES ASSUME Init PROVE \A q \in scenario.slots : Fits(req[q]) BY DEF InStep
  <2>1. /\ scenario.forms \subseteq Form /\ row \in NewRows(scenario.forms)
        /\ scenario.slots \subseteq Reqs
    BY ConstantsAssumption DEF Init, IsScenario
  <2>2. /\ row.ext.task = (IF row.form.langs = NoLangs THEN Nil ELSE 1)
        /\ row.ext.binding = (IF row.form.mr THEN 2 ELSE Nil)
        /\ row.ext.plan = (IF row.form.daily THEN 3 ELSE Nil)
        /\ row.taskName = (IF row.form.langs = NoLangs THEN NoName ELSE row.form.name)
    BY <2>1 DEF NewRows, IsFormed
  <2>3. SchemeFits(scheme, row) BY DEF Init, Params, SchemeFits
  <2>4. TaskFits(tasks, row)
    <3>1. CASE row.form.langs = NoLangs BY <2>2, <3>1 DEF Init, TaskFits
    <3>2. CASE row.form.langs # NoLangs
      <4> DEFINE t == Task(1, row.form.name, row)
      <4>1. row.ext.task = 1 /\ row.taskName = row.form.name BY <2>2, <3>2
      <4>2. tasks = {t} BY <4>1 DEF Init, Nil
      <4>3. t.id = 1 /\ t.name = row.form.name /\ t.langs = row.form.langs BY DEF Task
      <4> HIDE DEF t
      <4>4. QED BY <3>2, <4>1, <4>2, <4>3 DEF TaskFits
    <3>3. QED BY <3>1, <3>2
  <2>5. BindingFits(bindings, row) BY <2>2 DEF Init, Binding, BindingFits
  <2>6. PlanFits(plans, row) BY <2>2 DEF Init, Plan, PlanFits
  <2>7. \A q \in scenario.slots : req[q].pc = "idle" BY <2>1 DEF Init, Idle
  <2>8. QED BY <2>3, <2>4, <2>5, <2>6, <2>7
            DEF Fits, AllFit, AtTask, AtBinding, AtPlan
<1>2. Typed /\ InStep /\ [Next]_vars => Typed' /\ InStep' BY StepTyped, InStepStep
<1>3. Typed /\ InStep => PartsInSync
  <2> SUFFICES ASSUME Typed, InStep, Sequential, Quiet, faults = 0
      PROVE  /\ SentInSync /\ TaskInSync /\ BindingInSync /\ PlanInSync
             /\ \A b \in bindings : b.id = row.ext.binding
    BY DEF PartsInSync
  <2>1. PICK q \in Reqs : scenario.slots = {q} BY OneSlot
  <2>2. AllFit(row) BY <2>1 DEF InStep, Fits, Quiet
  <2>3. SentInSync BY <2>2 DEF AllFit, SchemeFits, SentInSync
  <2>4. TaskInSync BY <2>2 DEF AllFit, TaskFits, TaskInSync
  <2>5. BindingInSync /\ \A b \in bindings : b.id = row.ext.binding
    <3>1. CASE row.form.mr
      <4>1. PICK b \in bindings :
              bindings = {b} /\ b.id = row.ext.binding /\ b.branch = row.form.branch
        BY <2>2, <3>1 DEF AllFit, BindingFits
      <4>2. {x.branch : x \in bindings} = {row.form.branch} BY <4>1
      <4>3. QED BY <3>1, <4>1, <4>2 DEF BindingInSync
    <3>2. CASE ~row.form.mr
      <4>1. bindings = {} BY <2>2, <3>2 DEF AllFit, BindingFits
      <4>2. QED BY <3>2, <4>1 DEF BindingInSync
    <3>3. QED BY <3>1, <3>2
  <2>6. PlanInSync
    <3>1. CASE row.form.daily
      <4>1. PICK p \in plans : plans = {p} /\ p.id = row.ext.plan /\ p.time = row.form.time
        BY <2>2, <3>1 DEF AllFit, PlanFits
      <4>2. {<<x.id, x.time>> : x \in plans} = {<<row.ext.plan, row.form.time>>} BY <4>1
      <4>3. QED BY <3>1, <4>2 DEF PlanInSync
    <3>2. CASE ~row.form.daily
      <4>1. plans = {} BY <2>2, <3>2 DEF AllFit, PlanFits
      <4>2. QED BY <3>2, <4>1 DEF PlanInSync
    <3>3. QED BY <3>1, <3>2
  <2>7. QED BY <2>3, <2>4, <2>5, <2>6
<1>4. QED BY <1>1, <1>2, <1>3, InitTyped, PTL DEF Spec
-----------------------------------------------------------------------------
(* Repair.  A row that names a task is never without a task of that name,  *)
(* for only its id changes by hand, so an update that changes the          *)
(* languages finds one to put them in; and an update that concerns the     *)
(* binding looks for it.                                                   *)

Repairable == Sequential /\ ListsRead /\ "renamed" \notin scenario.faults

(* What a search returns is one task, if the row has none and there are    *)
(* some without their ids being known.                                     *)
SearchesTell == "lost" \notin scenario.faults \/ scenario.similar = {}

RowNamesTask == row.ext.task # Nil => \E t \in tasks : t.name = row.taskName

Refers(v) ==
  /\ v.pc = "write" /\ v.form.langs = NoLangs => row.form.langs = NoLangs
  /\ v.pc = "reload" => row.form = v.form
  /\ v.pc \in AtTask \cup AtBinding \cup AtPlan => row.form = v.form /\ v.s.form = v.form
  /\ v.pc \in {"postBinding", "putBinding"} => v.s.form.mr
  /\ v.pc \in AtTask => v.s.ext.task = row.ext.task /\ v.s.taskName = row.taskName

MendsTask(q) ==
  req[q].clean /\ Changed(q, "langs") =>
    /\ req[q].pc \in {"task", "postTask"} \cup AtBinding \cup AtPlan => SentInSync
    /\ req[q].pc = "postTask" => Found(TaskName(q)) = {}
    /\ req[q].pc \in AtBinding \cup AtPlan => TaskInSync

Rebinds(q) == req[q].s.form.mr /\ (Changed(q, "branch") \/ TurnedOn(q, "mr"))
MendsBinding(q) ==
  req[q].clean /\ Rebinds(q) =>
    /\ req[q].pc = "putBinding" => \E b \in bindings : bindings = {b} /\ b.id = req[q].s.ext.binding
    /\ req[q].pc \in AtPlan => BindingInSync

(* What is sent of the scheme is the row, with the task it had when the    *)
(* update read it.                                                         *)
MendsScheme(q) ==
  /\ req[q].pc \in {"write", "reload"} => row.ext.task = req[q].old.ext.task
  /\ req[q].pc = "scheme" => req[q].s.ext.task = req[q].old.ext.task
  /\ req[q].clean /\ SchemeConcerned(q) =>
       (req[q].pc \in {"task", "postTask"} \cup AtBinding \cup AtPlan =>
          scheme = Params([form |-> row.form, ext |-> req[q].old.ext]))

Mends ==
  Repairable => /\ RowNamesTask
                /\ \A q \in scenario.slots : /\ Refers(req[q]) /\ MendsScheme(q)
                                             /\ MendsTask(q) /\ MendsBinding(q)

(* Where an update goes, its copy of the row goes with it.                 *)
Leads(q, next) ==
  next = Idle \/ \E step \in Steps : \/ next = Goto(q, step)
                                     \/ \E x \in SchemeRow : next = [Goto(q, step) EXCEPT !.s = x]

LEMMA UpdateLeads ==
  ASSUME Typed, NEW q \in Reqs, Update(q)
  PROVE  \E next : Carries(q, next) /\ Leads(q, next)
<1> DEFINE s == req[q].s
           n == TaskName(q)
<1>r. s \in SchemeRow /\ row \in SchemeRow BY RequestIs DEF Typed, TypeOK
<1>t. n \in Names /\ tasks \subseteq Tasks BY TaskNamed DEF Typed, TypeOK, Tasks
<1>1. ASSUME NEW step \in Steps, Carries(q, Goto(q, step))
      PROVE  \E next : Carries(q, next) /\ Leads(q, next)
  BY <1>1 DEF Leads
<1>2. ASSUME NEW step \in Steps, NEW x \in SchemeRow, Carries(q, [Goto(q, step) EXCEPT !.s = x])
      PROVE  \E next : Carries(q, next) /\ Leads(q, next)
  <2>1. Leads(q, [Goto(q, step) EXCEPT !.s = x]) BY DEF Leads
  <2>2. QED BY <1>2, <2>1
<1>3. ASSUME Carries(q, Idle) PROVE \E next : Carries(q, next) /\ Leads(q, next)
  BY <1>3 DEF Leads
<1>s. {"reload", "scheme", "task", "postTask", "binding", "postBinding", "putBinding",
       "plan", "postPlan", "findPlan"} \subseteq Steps
  BY DEF Steps
<1>4. CASE Write(q) BY <1>1, <1>4, <1>s DEF Write, Carries
<1>5. CASE Reload(q)
  <2>1. Carries(q, [Goto(q, "scheme") EXCEPT !.s = row]) BY <1>5 DEF Reload, Carries
  <2>2. QED BY <1>2, <1>r, <1>s, <2>1
<1>6. CASE PutScheme(q) BY <1>1, <1>6, <1>s DEF PutScheme, Carries
<1>7. CASE PutTask(q)
  <2>1. \A i \in UsedTask(s, n) : WithTask(s, i, n) \in SchemeRow
    BY <1>r, <1>t, UsedIsThere, TaskWritten DEF Tasks
  <2>2. \/ Carries(q, Goto(q, "binding")) \/ Carries(q, Goto(q, "postTask"))
        \/ \E i \in UsedTask(s, n) : Carries(q, [Goto(q, "binding") EXCEPT !.s = WithTask(s, i, n)])
    BY <1>7 DEF PutTask, Carries
  <2>3. QED BY <1>1, <1>2, <1>s, <2>1, <2>2
<1>8. CASE PostTask(q)
  <2>1. tasks' \subseteq Tasks
    BY <1>8, <1>t, <1>r, RowIs, IssuedTyped DEF PostTask, Task, Tasks
  <2>2. \A t \in FoundIn(tasks', n) : WithTask(s, t.id, n) \in SchemeRow
    <3>1. \A t \in FoundIn(tasks', n) : t.id \in Ids BY <2>1 DEF FoundIn, Tasks
    <3>2. QED BY <1>r, <1>t, <3>1, TaskWritten
  <2>3. \/ Carries(q, Goto(q, "binding"))
        \/ \E t \in FoundIn(tasks', n) :
             Carries(q, [Goto(q, "binding") EXCEPT !.s = WithTask(s, t.id, n)])
    BY <1>8 DEF PostTask, Carries
  <2>4. QED BY <1>1, <1>2, <1>s, <2>2, <2>3
<1>w. \A i \in Ids \cup {Nil} : WithBinding(s, i) \in SchemeRow
  BY <1>r, BindingWritten DEF WithBinding
<1>9. CASE SyncBinding(q)
  <2>1. \A i \in Existing(s) : i \in Ids BY DEF Existing, Typed, TypeOK
  <2>2. \/ Carries(q, Goto(q, "plan")) \/ Carries(q, Goto(q, "postBinding"))
        \/ Carries(q, [Goto(q, "plan") EXCEPT !.s = WithBinding(s, Nil)])
        \/ \E i \in Existing(s) :
             Carries(q, [Goto(q, "putBinding") EXCEPT !.s = WithBinding(s, i)])
    BY <1>9 DEF SyncBinding, Carries
  <2>3. QED BY <1>1, <1>2, <1>w, <1>s, <2>1, <2>2
<1>10. CASE PostBinding(q)
  <2>1. \/ Carries(q, Goto(q, "plan"))
        \/ NewId /\ Carries(q, [Goto(q, "plan") EXCEPT !.s = WithBinding(s, issued')])
    BY <1>10 DEF PostBinding, Carries
  <2>2. QED BY <1>1, <1>2, <1>w, <1>s, <2>1, IssuedTyped
<1>11. CASE PutBinding(q) BY <1>1, <1>11, <1>s DEF PutBinding, Carries
<1>12. CASE SyncPlan(q) BY <1>1, <1>3, <1>12, <1>s DEF SyncPlan, Carries
<1>13. CASE PostPlan(q) \/ FindPlan(q)
  BY <1>1, <1>3, <1>13, <1>s DEF PostPlan, FindPlan, Carries
<1>14. QED BY <1>4, <1>5, <1>6, <1>7, <1>8, <1>9, <1>10, <1>11, <1>12, <1>13 DEF Update

(* An update that is still clean was so before and met no fault; each goes *)
(* by the form it came with.                                               *)
LEMMA StillClean ==
  ASSUME Typed, NEW q \in Reqs, Update(q)
  PROVE  \/ req'[q].pc = "idle"
         \/ /\ Same(q)
            /\ req'[q].clean => req[q].clean /\ faults' = faults
<1>r. req[q] \in Request /\ Soiled \in [Reqs -> Request] BY SoiledTyped DEF Typed, TypeOK
<1>1. PICK next : Carries(q, next) /\ Leads(q, next) BY UpdateLeads
<1>2. CASE next = Idle BY <1>1, <1>2, GoesIdle
<1>3. CASE \E step \in Steps : \/ next = Goto(q, step)
                               \/ \E x \in SchemeRow : next = [Goto(q, step) EXCEPT !.s = x]
  <2>1. next \in Request /\ next.clean = req[q].clean
    <3>1. ASSUME NEW step \in Steps PROVE /\ Goto(q, step) \in Request
                                          /\ Goto(q, step).clean = req[q].clean
      BY <1>r DEF Goto, Request
    <3>2. ASSUME NEW step \in Steps, NEW x \in SchemeRow
          PROVE  /\ [Goto(q, step) EXCEPT !.s = x] \in Request
                 /\ [Goto(q, step) EXCEPT !.s = x].clean = req[q].clean
      BY <1>r DEF Goto, Request
    <3>3. QED BY <1>3, <3>1, <3>2
  <2>2. Same(q) BY <1>1, <1>3, GoesTo DEF Same
  <2>3. PICK f : NoFault(q, next) \/ Faulty(q, f, next) BY <1>1 DEF Carries, Fails
  <2>4. CASE NoFault(q, next)
    <3>1. req'[q] = next /\ faults' = faults BY <2>4, Proceeds DEF NoFault
    <3>2. QED BY <2>1, <2>2, <3>1
  <2>5. CASE Faulty(q, f, next)
    <3>1. req'[q] = (IF next = Idle THEN Idle ELSE [next EXCEPT !.clean = FALSE])
      BY <1>r, <2>5 DEF Faulty
    <3>2. CASE next = Idle BY <3>1, <3>2 DEF Idle
    <3>3. CASE next # Idle
      <4>1. req'[q].clean = FALSE BY <2>1, <3>1, <3>3 DEF Request
      <4>2. QED BY <2>2, <4>1
    <3>4. QED BY <3>2, <3>3
  <2>6. QED BY <2>3, <2>4, <2>5
<1>4. QED BY <1>1, <1>2, <1>3 DEF Leads

(* The forms of the row and of the copy, at each part.                     *)
LEMMA TaskForms ==
  ASSUME Typed, NEW q \in Reqs, PutTask(q) \/ PostTask(q)
  PROVE  /\ row'.form = row.form /\ req'[q].s.form = req[q].s.form
         /\ req'[q].pc \in {"binding", "postTask"}
         /\ req'[q].pc = "postTask" => req'[q].s = req[q].s /\ row' = row
<1> DEFINE s == req[q].s
           n == TaskName(q)
<1>r. s \in SchemeRow /\ row \in SchemeRow BY RequestIs DEF Typed, TypeOK
<1>t. n \in Names /\ tasks \subseteq Tasks BY TaskNamed DEF Typed, TypeOK, Tasks
<1>1. row'.form = row.form
  <2>1. row' = row \/ \E i : row' = WithTask(row, i, n)
    <3>1. CASE PutTask(q) BY <3>1 DEF PutTask
    <3>2. CASE PostTask(q)
      <4>1. row' = row \/ \E t \in FoundIn(tasks', n) : row' = WithTask(row, t.id, n)
        BY <3>2, ZenonT(30) DEF PostTask
      <4>2. QED BY <4>1
    <3>3. QED BY <3>1, <3>2
  <2>2. QED BY <1>r, <2>1, RowTask
<1>2. ASSUME Carries(q, Goto(q, "binding"))
      PROVE  req'[q].pc = "binding" /\ req'[q].s.form = s.form
  <2>1. Goto(q, "binding").s = s BY GotoIs
  <2>2. QED BY <1>2, <2>1, GoesTo DEF Steps
<1>3. ASSUME NEW i \in Ids, Carries(q, [Goto(q, "binding") EXCEPT !.s = WithTask(s, i, n)])
      PROVE  req'[q].pc = "binding" /\ req'[q].s.form = s.form
  <2>1. WithTask(s, i, n) \in SchemeRow BY <1>r, <1>t, TaskWritten
  <2>2. [Goto(q, "binding") EXCEPT !.s = WithTask(s, i, n)].s = WithTask(s, i, n) BY GotoIs
  <2>3. req'[q].pc = "binding" /\ req'[q].s = WithTask(s, i, n)
    BY <1>3, <2>1, <2>2, GoesTo DEF Steps
  <2>4. QED BY <1>r, <2>3, RowTask
<1>4. CASE PutTask(q)
  <2>1. \A i \in UsedTask(s, n) : i \in Ids BY <1>t, UsedIsThere DEF Tasks
  <2>2. \/ Carries(q, Goto(q, "binding"))
        \/ Carries(q, Goto(q, "postTask")) /\ row' = row
        \/ \E i \in UsedTask(s, n) : Carries(q, [Goto(q, "binding") EXCEPT !.s = WithTask(s, i, n)])
    BY <1>4 DEF PutTask, Carries
  <2>3. CASE Carries(q, Goto(q, "postTask")) /\ row' = row
    <3>1. Goto(q, "postTask").s = s BY GotoIs
    <3>2. QED BY <1>1, <2>3, <3>1, GoesTo DEF Steps
  <2>4. QED BY <1>1, <1>2, <1>3, <2>1, <2>2, <2>3
<1>5. CASE PostTask(q)
  <2>1. tasks' \subseteq Tasks
    BY <1>5, <1>t, <1>r, RowIs, IssuedTyped DEF PostTask, Task, Tasks
  <2>2. \A t \in FoundIn(tasks', n) : t.id \in Ids BY <2>1 DEF FoundIn, Tasks
  <2>3. \/ Carries(q, Goto(q, "binding"))
        \/ \E t \in FoundIn(tasks', n) :
             Carries(q, [Goto(q, "binding") EXCEPT !.s = WithTask(s, t.id, n)])
    BY <1>5 DEF PostTask, Carries
  <2>4. QED BY <1>1, <1>2, <1>3, <2>2, <2>3
<1>6. QED BY <1>4, <1>5

LEMMA BindingForms ==
  ASSUME Typed, NEW q \in Reqs, SyncBinding(q) \/ PostBinding(q) \/ PutBinding(q),
         row.form = req[q].s.form,
         req[q].pc \in {"postBinding", "putBinding"} => req[q].s.form.mr
  PROVE  /\ row'.form = row.form /\ req'[q].s.form = req[q].s.form
         /\ \/ req'[q].pc = "plan"
            \/ req'[q].pc \in {"postBinding", "putBinding"} /\ req[q].s.form.mr
<1> DEFINE s == req[q].s
<1>r. s \in SchemeRow /\ row \in SchemeRow BY RequestIs DEF Typed, TypeOK
<1>b. row.form.mr \in BOOLEAN BY <1>r, RowIs DEF Form
<1>1. row'.form = row.form
  <2>1. CASE row' = row BY <2>1
  <2>2. CASE SyncBinding(q) /\ row' = Unbound /\ TurnedOff(q, "mr")
    <3>1. row.form.mr = FALSE BY <1>b, <2>2 DEF TurnedOff
    <3>2. QED BY <1>r, <2>2, <3>1, RowMr
  <2>3. CASE PostBinding(q) /\ row' = Bound(issued')
    <3>1. row.form.mr BY <2>3 DEF PostBinding
    <3>2. row.form.mr = TRUE BY <1>b, <3>1
    <3>3. QED BY <1>r, <2>3, <3>2, RowMr
  <2>4. QED BY <2>1, <2>2, <2>3 DEF SyncBinding, PostBinding, PutBinding
<1>2. ASSUME NEW step \in Steps, Carries(q, Goto(q, step))
      PROVE  req'[q].pc = step /\ req'[q].s.form = s.form
  <2>1. Goto(q, step).s = s BY GotoIs
  <2>2. QED BY <1>2, <2>1, GoesTo
<1>3. ASSUME NEW step \in Steps, NEW i \in Ids \cup {Nil},
             Carries(q, [Goto(q, step) EXCEPT !.s = WithBinding(s, i)])
      PROVE  req'[q].pc = step /\ req'[q].s.form = s.form
  <2>1. WithBinding(s, i) \in SchemeRow BY <1>r, BindingWritten DEF WithBinding
  <2>2. [Goto(q, step) EXCEPT !.s = WithBinding(s, i)].s = WithBinding(s, i) BY GotoIs
  <2>3. req'[q].pc = step /\ req'[q].s = WithBinding(s, i) BY <1>3, <2>1, <2>2, GoesTo
  <2>4. QED BY <1>r, <2>3, RowBinding
<1>s. "plan" \in Steps /\ "postBinding" \in Steps /\ "putBinding" \in Steps BY DEF Steps
<1>4. CASE SyncBinding(q)
  <2>1. \A i \in Existing(s) : i \in Ids BY DEF Existing, Typed, TypeOK
  <2>2. \/ Carries(q, Goto(q, "plan"))
        \/ Carries(q, Goto(q, "postBinding")) /\ s.form.mr
        \/ Carries(q, [Goto(q, "plan") EXCEPT !.s = WithBinding(s, Nil)])
        \/ \E i \in Existing(s) :
             Carries(q, [Goto(q, "putBinding") EXCEPT !.s = WithBinding(s, i)]) /\ s.form.mr
    BY <1>4 DEF SyncBinding, Carries, BindingConcerned
  <2>3. QED BY <1>1, <1>2, <1>3, <1>s, <2>1, <2>2
<1>5. CASE PostBinding(q)
  <2>1. \/ Carries(q, Goto(q, "plan"))
        \/ NewId /\ Carries(q, [Goto(q, "plan") EXCEPT !.s = WithBinding(s, issued')])
    BY <1>5 DEF PostBinding, Carries
  <2>2. QED BY <1>1, <1>2, <1>3, <1>s, <2>1, IssuedTyped
<1>6. CASE PutBinding(q) BY <1>1, <1>2, <1>s, <1>6 DEF PutBinding, Carries
<1>7. QED BY <1>4, <1>5, <1>6

LEMMA PlanForms ==
  ASSUME Typed, NEW q \in Reqs, SyncPlan(q) \/ PostPlan(q) \/ FindPlan(q)
  PROVE  /\ row'.form = row.form /\ row'.ext.task = row.ext.task
         /\ \/ req'[q].pc = "idle"
            \/ req'[q].pc \in {"postPlan", "findPlan"} /\ req'[q].s = req[q].s
<1>r. row \in SchemeRow BY DEF Typed, TypeOK
<1>1. row'.form = row.form /\ row'.ext.task = row.ext.task
  <2>1. row' = row \/ \E i : row' = PlanRecorded(i) BY DEF SyncPlan, PostPlan, FindPlan
  <2>2. QED BY <1>r, <2>1, RowPlan
<1>2. ASSUME NEW step \in Steps, Carries(q, Goto(q, step))
      PROVE  req'[q].pc = step /\ req'[q].s = req[q].s
  <2>1. Goto(q, step).s = req[q].s BY GotoIs
  <2>2. QED BY <1>2, <2>1, GoesTo
<1>3. Carries(q, Idle) \/ Carries(q, Goto(q, "postPlan")) \/ Carries(q, Goto(q, "findPlan"))
  BY DEF SyncPlan, PostPlan, FindPlan, Carries
<1>4. "postPlan" \in Steps /\ "findPlan" \in Steps BY DEF Steps
<1>5. QED BY <1>1, <1>2, <1>3, <1>4, GoesIdle

(* A task is renamed, if at all, to the name the row has for it.           *)
LEMMA RowNamesTaskStep ==
  ASSUME Typed, NEW q \in Reqs, RowNamesTask, Refers(req[q]), Load(q) \/ Update(q)
  PROVE  RowNamesTask'
<1> DEFINE s == req[q].s
           n == TaskName(q)
<1>r. row \in SchemeRow BY DEF Typed, TypeOK
<1>n. PutTask(q) \/ PostTask(q) =>
        /\ s.ext.task = row.ext.task /\ s.taskName = row.taskName
        /\ row.ext.task # Nil => n = row.taskName
  <2>1. PutTask(q) \/ PostTask(q) => s.ext.task = row.ext.task /\ s.taskName = row.taskName
    BY DEF PutTask, PostTask, Refers, AtTask
  <2>2. row.ext.task # Nil => row.taskName # NoName BY ObjectsHaveIds DEF RowNamesTask
  <2>3. QED BY <2>1, <2>2 DEF TaskName
<1>k. ASSUME row'.ext.task = row.ext.task, row'.taskName = row.taskName, tasks' = tasks
      PROVE  RowNamesTask'
  BY <1>k DEF RowNamesTask
<1>p. ASSUME NEW i, PutTask(q) \/ PostTask(q), \E t \in tasks' : t.name = n,
             row' = row \/ row' = WithTask(row, i, n)
      PROVE  RowNamesTask'
  <2>1. CASE row' = row BY <1>n, <1>p, <2>1 DEF RowNamesTask
  <2>2. CASE row' = WithTask(row, i, n)
    <3>1. row'.taskName = (IF row.taskName = NoName THEN n ELSE row.taskName)
      BY <1>r, <2>2, RowTask
    <3>2. row'.taskName = n BY <1>n, <1>p, <3>1 DEF TaskName
    <3>3. QED BY <1>p, <3>2 DEF RowNamesTask
  <2>3. QED BY <1>p, <2>1, <2>2
<1>1. CASE Load(q) \/ Reload(q) \/ PutScheme(q)
  BY <1>k, <1>1 DEF Load, Reload, PutScheme
<1>2. CASE Write(q)
  <2>1. row'.ext = row.ext /\ row'.taskName = row.taskName /\ tasks' = tasks
    BY <1>r, <1>2, RowForm DEF Write, Written
  <2>2. QED BY <1>k, <2>1
<1>3. CASE PutTask(q)
  <2>1. CASE UNCHANGED <<row, tasks>> BY <1>k, <2>1
  <2>2. CASE \E i \in UsedTask(s, n) :
               /\ tasks' = (tasks \ ById(tasks, i)) \cup {Task(i, n, s)}
               /\ row' = row \/ row' = WithTask(row, i, n)
    <3>1. \A i : Task(i, n, s).name = n BY DEF Task
    <3>2. \E t \in tasks' : t.name = n BY <2>2, <3>1
    <3>3. QED BY <1>p, <1>3, <2>2, <3>2
  <2>3. QED BY <1>3, <2>1, <2>2 DEF PutTask
<1>4. CASE PostTask(q)
  <2>1. CASE UNCHANGED <<row, tasks>> BY <1>k, <2>1
  <2>2. CASE /\ tasks' = tasks \cup {Task(issued', n, s)}
             /\ row' = row \/ \E t \in FoundIn(tasks', n) : row' = WithTask(row, t.id, n)
    <3>1. Task(issued', n, s).name = n BY DEF Task
    <3>2. \E t \in tasks' : t.name = n BY <2>2, <3>1
    <3>3. QED BY <1>p, <1>4, <2>2, <3>2
  <2>3. QED BY <1>4, <2>1, <2>2, ZenonT(30) DEF PostTask
<1>5. CASE SyncBinding(q) \/ PostBinding(q) \/ PutBinding(q)
              \/ SyncPlan(q) \/ PostPlan(q) \/ FindPlan(q)
  <2>1. TaskKept(row', row) BY <1>5, LateRow
  <2>2. tasks' = tasks
    BY <1>5 DEF SyncBinding, PostBinding, PutBinding, SyncPlan, PostPlan, FindPlan
  <2>3. QED BY <1>k, <2>1, <2>2 DEF TaskKept
<1>6. QED BY <1>1, <1>2, <1>3, <1>4, <1>5 DEF Update

LEMMA RefersStep ==
  ASSUME Typed, NEW q \in Reqs, Refers(req[q]), Load(q) \/ Update(q)
  PROVE  Refers(req[q])'
<1> DEFINE v == req[q]
           w == req'[q]
<1>r. row \in SchemeRow BY DEF Typed, TypeOK
<1>d. Refers(req[q])' = (/\ w.pc = "write" /\ w.form.langs = NoLangs
                              => row'.form.langs = NoLangs
                         /\ w.pc = "reload" => row'.form = w.form
                         /\ w.pc \in AtTask \cup AtBinding \cup AtPlan =>
                              row'.form = w.form /\ w.s.form = w.form
                         /\ w.pc \in {"postBinding", "putBinding"} => w.s.form.mr
                         /\ w.pc \in AtTask => /\ w.s.ext.task = row'.ext.task
                                               /\ w.s.taskName = row'.taskName)
  BY DEF Refers
<1>1. CASE Load(q)
  <2>1. PICK f \in scenario.forms : w.pc = "write" /\ w.form = f /\ row' = row
                                    /\ ~(f.langs = NoLangs /\ row.form.langs # NoLangs)
    BY <1>1, Proceeds DEF Load
  <2>2. QED BY <1>d, <2>1 DEF AtTask, AtBinding, AtPlan
<1>2. CASE Write(q)
  <2>1. w.pc = "reload" /\ w.form = v.form BY <1>2, EarlySteps DEF Same
  <2>s. Stored(v.form) = v.form
    BY <1>2, RequestIs, StoredIs DEF Write, Refers, Typed, TypeOK
  <2>2. row'.form = v.form BY <1>r, <1>2, <2>s, RowForm DEF Write, Written
  <2>3. QED BY <1>d, <2>1, <2>2 DEF AtTask, AtBinding, AtPlan
<1>3. CASE Reload(q)
  <2>1. w.pc = "scheme" /\ w.form = v.form /\ w.s = row BY <1>3, EarlySteps DEF Same
  <2>2. row.form = v.form /\ row' = row BY <1>3 DEF Reload, Refers
  <2>3. QED BY <1>d, <2>1, <2>2
<1>4. CASE PutScheme(q)
  <2>1. w.pc = "task" /\ w.form = v.form /\ w.s = v.s BY <1>4, EarlySteps DEF Same
  <2>2. /\ row' = row /\ row.form = v.form /\ v.s.form = v.form
        /\ v.s.ext.task = row.ext.task /\ v.s.taskName = row.taskName
    BY <1>4 DEF PutScheme, Refers, AtTask
  <2>3. QED BY <1>d, <2>1, <2>2
<1>c. Update(q) => w.pc = "idle" \/ w.form = v.form BY StillClean DEF Same
<1>5. CASE PutTask(q) \/ PostTask(q)
  <2>1. /\ row.form = v.form /\ v.s.form = v.form
        /\ v.s.ext.task = row.ext.task /\ v.s.taskName = row.taskName
    BY <1>5 DEF PutTask, PostTask, Refers, AtTask
  <2>2. /\ row'.form = row.form /\ w.s.form = v.s.form /\ w.pc \in {"binding", "postTask"}
        /\ w.pc = "postTask" => w.s = v.s /\ row' = row
    BY <1>5, TaskForms
  <2>3. w.form = v.form BY <1>5, <1>c, <2>2 DEF Update
  <2>4. QED BY <1>d, <2>1, <2>2, <2>3 DEF AtTask
<1>6. CASE SyncBinding(q) \/ PostBinding(q) \/ PutBinding(q)
  <2>1. /\ row.form = v.form /\ v.s.form = v.form
        /\ v.pc \in {"postBinding", "putBinding"} => v.s.form.mr
    BY <1>6 DEF SyncBinding, PostBinding, PutBinding, Refers, AtBinding
  <2>2. /\ row'.form = row.form /\ w.s.form = v.s.form
        /\ w.pc = "plan" \/ (w.pc \in {"postBinding", "putBinding"} /\ v.s.form.mr)
    BY <1>6, <2>1, BindingForms
  <2>3. w.form = v.form BY <1>6, <1>c, <2>2 DEF Update
  <2>4. QED BY <1>d, <2>1, <2>2, <2>3 DEF AtTask
<1>7. CASE SyncPlan(q) \/ PostPlan(q) \/ FindPlan(q)
  <2>1. row.form = v.form /\ v.s.form = v.form
    BY <1>7 DEF SyncPlan, PostPlan, FindPlan, Refers, AtPlan
  <2>2. /\ row'.form = row.form
        /\ w.pc = "idle" \/ (w.pc \in {"postPlan", "findPlan"} /\ w.s = v.s)
    BY <1>7, PlanForms
  <2>3. w.pc = "idle" \/ w.form = v.form BY <1>7, <1>c DEF Update
  <2>4. QED BY <1>d, <2>1, <2>2, <2>3 DEF AtTask, AtBinding, AtPlan
<1>8. QED BY <1>1, <1>2, <1>3, <1>4, <1>5, <1>6, <1>7 DEF Update

(* What is in step stays so while its columns and objects stay.            *)
LEMMA StaysInSync ==
  ASSUME row'.form = row.form
  PROVE  /\ SentInSync /\ scheme' = scheme => SentInSync'
         /\ TaskInSync /\ row'.ext.task = row.ext.task /\ tasks' = tasks => TaskInSync'
         /\ BindingInSync /\ bindings' = bindings => BindingInSync'
BY DEF SentInSync, TaskInSync, BindingInSync

(* The scheme's part: sent as the row is, and later steps leave the form.  *)
LEMMA SchemeMends ==
  ASSUME Typed, NEW q \in Reqs, Refers(req[q]), MendsScheme(q), Load(q) \/ Update(q)
  PROVE  MendsScheme(q)'
<1> DEFINE v == req[q]
           w == req'[q]
<1>r. row \in SchemeRow BY DEF Typed, TypeOK
<1>p. {"task", "postTask"} \cup AtBinding \cup AtPlan
        = {"task", "postTask", "binding", "postBinding", "putBinding", "plan", "postPlan", "findPlan"}
  BY DEF AtBinding, AtPlan
<1>1. CASE Load(q)
  <2>1. w.pc = "write" /\ w.old = row /\ row' = row
    BY <1>1, Proceeds DEF Load
  <2>2. QED BY <1>p, <2>1 DEF MendsScheme
<1>2. CASE Write(q)
  <2>1. w.pc = "reload" /\ w.old = v.old BY <1>2, EarlySteps DEF Same
  <2>2. row'.ext = row.ext BY <1>r, <1>2, RowForm DEF Write, Written
  <2>3. QED BY <1>2, <1>p, <2>1, <2>2 DEF MendsScheme, Write
<1>3. CASE Reload(q)
  <2>1. w.pc = "scheme" /\ w.old = v.old /\ w.s = row BY <1>3, EarlySteps DEF Same
  <2>2. QED BY <1>3, <1>p, <2>1 DEF MendsScheme, Reload
<1>4. CASE PutScheme(q)
  <2>1. w.pc = "task" /\ Same(q) BY <1>4, EarlySteps
  <2>2. SUFFICES ASSUME w.clean, SchemeConcerned(q)'
        PROVE  scheme' = Params([form |-> row'.form, ext |-> w.old.ext])
    BY <2>1 DEF MendsScheme
  <2>3. faults' = faults BY <1>4, <2>1, <2>2, StillClean DEF Update
  <2>4. SchemeConcerned(q) BY <2>1, <2>2 DEF Same, Changed, SchemeConcerned
  <2>5. \A f, next : ~Fails(q, f, next) BY <2>3 DEF Fails, Faulty, Typed, TypeOK
  <2>6. scheme' = Params(v.s) /\ row' = row BY <1>4, <2>4, <2>5 DEF PutScheme
  <2>7. row.form = v.s.form /\ v.s.ext.task = v.old.ext.task
    BY <1>4 DEF PutScheme, Refers, AtTask, MendsScheme
  <2>8. w.old = v.old BY <2>1 DEF Same
  <2>9. QED BY <2>6, <2>7, <2>8 DEF Params
<1>5. ASSUME PutTask(q) \/ PostTask(q) \/ SyncBinding(q) \/ PostBinding(q) \/ PutBinding(q)
                \/ SyncPlan(q) \/ PostPlan(q) \/ FindPlan(q)
      PROVE  MendsScheme(q)'
  <2>1. v.pc \in {"task", "postTask"} \cup AtBinding \cup AtPlan /\ scheme' = scheme
    BY <1>5, <1>p DEF PutTask, PostTask, SyncBinding, PostBinding, PutBinding, SyncPlan, PostPlan,
                      FindPlan
  <2>2. row'.form = row.form /\ w.pc \notin {"write", "reload", "scheme"}
    <3>1. CASE PutTask(q) \/ PostTask(q) BY <3>1, TaskForms
    <3>2. CASE SyncBinding(q) \/ PostBinding(q) \/ PutBinding(q)
      <4>1. /\ row.form = v.s.form
            /\ v.pc \in {"postBinding", "putBinding"} => v.s.form.mr
        BY <2>1, <3>2 DEF Refers, AtBinding, SyncBinding, PostBinding, PutBinding
      <4>2. QED BY <3>2, <4>1, BindingForms
    <3>3. CASE SyncPlan(q) \/ PostPlan(q) \/ FindPlan(q) BY <3>3, PlanForms
    <3>4. QED BY <1>5, <3>1, <3>2, <3>3
  <2>3. CASE w.pc = "idle" BY <1>p, <2>2, <2>3 DEF MendsScheme
  <2>4. CASE Same(q) /\ (w.clean => v.clean)
    <3>1. SchemeConcerned(q)' => SchemeConcerned(q)
      BY <2>4 DEF Same, Changed, SchemeConcerned
    <3>2. w.old = v.old BY <2>4 DEF Same
    <3>3. QED BY <2>1, <2>2, <2>4, <3>1, <3>2 DEF MendsScheme
  <2>5. QED BY <1>5, <2>3, <2>4, StillClean DEF Update
<1>6. QED BY <1>1, <1>2, <1>3, <1>4, <1>5 DEF Update

LEMMA EarlyMends ==
  ASSUME Typed, NEW q \in Reqs, Refers(req[q]), Load(q) \/ Write(q) \/ Reload(q) \/ PutScheme(q)
  PROVE  MendsTask(q)' /\ MendsBinding(q)'
<1>1. req'[q].pc \in {"write", "reload", "scheme", "task"} BY EarlySteps
<1>2. MendsBinding(q)' BY <1>1 DEF MendsBinding, AtPlan
<1>3. MendsTask(q)'
  <2> SUFFICES ASSUME req'[q].clean, Changed(q, "langs")', req'[q].pc = "task"
      PROVE  SentInSync'
    BY <1>1 DEF MendsTask, AtBinding, AtPlan
  <2>1. PutScheme(q) BY EarlySteps
  <2>2. Same(q) /\ faults' = faults BY <2>1, StillClean DEF Update
  <2>3. SchemeConcerned(q) BY <2>2 DEF Same, Changed, SchemeConcerned
  <2>4. \A f, next : ~Fails(q, f, next) BY <2>2 DEF Fails, Faulty, Typed, TypeOK
  <2>5. scheme' = Params(req[q].s) /\ row' = row BY <2>1, <2>3, <2>4 DEF PutScheme
  <2>6. row.form = req[q].s.form BY <2>1 DEF PutScheme, Refers, AtTask
  <2>7. QED BY <2>5, <2>6 DEF Params, SentInSync
<1>4. QED BY <1>2, <1>3

LEMMA TaskMends ==
  ASSUME Typed, NEW q \in Reqs, scenario' = scenario,
         SearchesTell, RowNamesTask, Refers(req[q]), MendsTask(q),
         "lost" \notin scenario.faults /\ req[q].pc \in AtTask /\ req[q].s.ext.task = Nil
           => tasks = {},
         PutTask(q) \/ PostTask(q)
  PROVE  MendsTask(q)' /\ MendsBinding(q)'
<1> DEFINE s == req[q].s
           n == TaskName(q)
<1>r. row \in SchemeRow BY DEF Typed, TypeOK
<1>p. req[q].pc \in {"task", "postTask"} /\ req[q].pc \in AtTask
  BY DEF PutTask, PostTask, AtTask
<1>1. /\ row'.form = row.form /\ req'[q].s.form = s.form
      /\ req'[q].pc \in {"binding", "postTask"}
      /\ req'[q].pc = "postTask" => req'[q].s = s /\ row' = row
  BY TaskForms
<1>2. MendsBinding(q)' BY <1>1 DEF MendsBinding, AtPlan
<1>3. MendsTask(q)'
  <2> SUFFICES ASSUME req'[q].clean, Changed(q, "langs")'
      PROVE  /\ SentInSync'
             /\ req'[q].pc = "postTask" => Found(TaskName(q))' = {}
             /\ req'[q].pc = "binding" => TaskInSync'
    BY <1>1 DEF MendsTask, AtBinding, AtPlan
  <2>1. Same(q) /\ req[q].clean /\ faults' = faults BY <1>1, StillClean DEF Update
  <2>2. Changed(q, "langs") BY <2>1 DEF Same, Changed
  <2>3. SentInSync /\ (req[q].pc = "postTask" => Found(n) = {})
    BY <1>p, <2>1, <2>2 DEF MendsTask
  <2>4. SentInSync' BY <1>1, <2>3, StaysInSync DEF PutTask, PostTask
  <2>5. ASSUME req'[q].pc = "postTask" PROVE Found(TaskName(q))' = {}
    <3>1. PutTask(q) /\ Found(n) = {} /\ tasks' = tasks BY <2>5, TaskSteps
    <3>2. TaskName(q)' = n BY <1>1, <2>1, <2>5 DEF TaskName, Same
    <3>3. QED BY <3>1, <3>2 DEF Found, FoundIn
  <2>6. /\ row.form = s.form /\ s.ext.task = row.ext.task /\ s.taskName = row.taskName
    BY <1>p DEF Refers
  <2>7. ASSUME NEW i, Task(i, n, s) \in tasks', row'.ext.task = i PROVE TaskInSync'
    <3>1. Task(i, n, s).id = i /\ Task(i, n, s).langs = s.form.langs BY DEF Task
    <3>2. QED BY <1>1, <2>6, <2>7, <3>1 DEF TaskInSync
  <2>8. \A f, next : ~Fails(q, f, next) /\ ~Faulty(q, f, next)
    BY <2>1 DEF Fails, Faulty, Typed, TypeOK
  (* The row's own task is found, if the row has one; else the only ones.  *)
  <2>9. Found(n) # {} => UsedTask(s, n) # {}
    <3>1. SUFFICES ASSUME Found(n) # {}, UsedTask(s, n) = {} PROVE FALSE OBVIOUS
    <3>2. {t \in Found(n) : t.name = n} = {}
      BY <3>1 DEF UsedTask
    <3>3. scenario.similar # {} BY <3>1, <3>2 DEF Found, FoundIn
    <3>4. "lost" \notin scenario.faults BY <3>3 DEF SearchesTell
    <3>5. s.ext.task # Nil BY <1>p, <3>1, <3>4 DEF Found, FoundIn
    <3>6. PICK t \in tasks : t.name = row.taskName BY <2>6, <3>5 DEF RowNamesTask
    <3>7. t.name = n BY <2>6, <3>6, ObjectsHaveIds DEF TaskName
    <3>8. QED BY <3>2, <3>7 DEF Found, FoundIn
  <2>10. Found(n) = {} => s.ext.task = Nil
    <3>1. SUFFICES ASSUME s.ext.task # Nil PROVE Found(n) # {} OBVIOUS
    <3>2. PICK t \in tasks : t.name = row.taskName BY <2>6, <3>1 DEF RowNamesTask
    <3>3. t.name = n BY <2>6, <3>2, ObjectsHaveIds DEF TaskName
    <3>4. QED BY <3>3 DEF Found, FoundIn
  <2>11. ASSUME req'[q].pc = "binding", PutTask(q) PROVE TaskInSync'
    <3>1. CASE Found(n) = {}
      <4>1. UsedTask(s, n) = {}
        <5>1. ASSUME NEW i \in UsedTask(s, n) PROVE FALSE
          BY <3>1 DEF UsedTask, ById
        <5>2. QED BY <5>1
      <4>2. NoFault(q, Goto(q, "postTask"))
        BY <2>2, <2>8, <2>10, <2>11, <3>1, <4>1 DEF PutTask, MayCreateTask
      <4>3. req'[q].pc = "postTask" BY <4>2, Proceeds, GotoIs
      <4>4. QED BY <2>11, <4>3
    <3>2. CASE Found(n) # {}
      <4>1. PICK i \in UsedTask(s, n) :
              /\ tasks' = (tasks \ ById(tasks, i)) \cup {Task(i, n, s)}
              /\ row' = (IF i = s.ext.task THEN row ELSE WithTask(row, i, n))
        BY <2>2, <2>8, <2>9, <2>11, <3>2 DEF PutTask
      <4>2. row'.ext.task = i BY <1>r, <2>6, <4>1, RowTask
      <4>3. QED BY <2>7, <4>1, <4>2
    <3>3. QED BY <3>1, <3>2
  <2>12. ASSUME PostTask(q) PROVE TaskInSync'
    <3>1. PICK t \in FoundIn(tasks', n) :
            tasks' = tasks \cup {Task(issued', n, s)} /\ row' = WithTask(row, t.id, n)
      BY <2>8, <2>12 DEF PostTask
    <3>2. Found(n) = {} BY <2>3, <2>12 DEF PostTask
    <3>3. t = Task(issued', n, s) BY <3>1, <3>2 DEF Found, FoundIn
    <3>4. t.id = issued' BY <3>3 DEF Task
    <3>5. row'.ext.task = issued' BY <1>r, <3>1, <3>4, RowTask
    <3>6. QED BY <2>7, <3>1, <3>5
  <2>13. QED BY <2>4, <2>5, <2>11, <2>12
<1>4. QED BY <1>2, <1>3

LEMMA BindingMends ==
  ASSUME Typed, NEW q \in Reqs, Refers(req[q]), MendsTask(q), MendsBinding(q),
         Lone(bindings), req[q].pc = "postBinding" => bindings = {},
         SyncBinding(q) \/ PostBinding(q) \/ PutBinding(q)
  PROVE  MendsTask(q)' /\ MendsBinding(q)'
<1> DEFINE s == req[q].s
<1>p. req[q].pc \in AtBinding BY DEF SyncBinding, PostBinding, PutBinding, AtBinding
<1>1. /\ row.form = s.form
      /\ req[q].pc \in {"postBinding", "putBinding"} => s.form.mr
  BY <1>p DEF Refers
<1>2. /\ row'.form = row.form /\ req'[q].s.form = s.form
      /\ \/ req'[q].pc = "plan"
         \/ req'[q].pc \in {"postBinding", "putBinding"} /\ s.form.mr
  BY <1>1, BindingForms
<1>3. MendsTask(q)'
  <2> SUFFICES ASSUME req'[q].clean, Changed(q, "langs")' PROVE SentInSync' /\ TaskInSync'
    BY <1>2 DEF MendsTask, AtBinding, AtPlan
  <2>1. Same(q) /\ req[q].clean BY <1>2, StillClean DEF Update
  <2>2. Changed(q, "langs") BY <2>1 DEF Same, Changed
  <2>3. SentInSync /\ TaskInSync BY <1>p, <2>1, <2>2 DEF MendsTask
  <2>4. row'.ext.task = row.ext.task BY LateRow DEF TaskKept
  <2>5. UNCHANGED <<scheme, tasks>> BY DEF SyncBinding, PostBinding, PutBinding
  <2>6. QED BY <1>2, <2>3, <2>4, <2>5, StaysInSync
<1>4. MendsBinding(q)'
  <2> SUFFICES ASSUME req'[q].clean, Rebinds(q)'
      PROVE  /\ req'[q].pc = "putBinding" =>
                  \E b \in bindings' : bindings' = {b} /\ b.id = req'[q].s.ext.binding
             /\ req'[q].pc = "plan" => BindingInSync'
    BY <1>2 DEF MendsBinding, AtPlan
  <2>1. Same(q) /\ req[q].clean /\ faults' = faults BY <1>2, StillClean DEF Update
  <2>2. Rebinds(q) BY <1>2, <2>1 DEF Rebinds, Same, Changed, TurnedOn
  <2>3. \A f, next : ~Fails(q, f, next) /\ ~Faulty(q, f, next)
    BY <2>1 DEF Fails, Faulty, Typed, TypeOK
  <2>4. BindingConcerned(q) /\ ~TurnedOff(q, "mr") /\ s.form.mr
    BY <2>2 DEF Rebinds, BindingConcerned, BranchChanged, TurnedOff
  <2>5. ASSUME NEW i, bindings' = {Binding(i, s)} PROVE BindingInSync'
    <3> DEFINE b == Binding(i, s)
    <3>1. b.branch = s.form.branch BY DEF Binding
    <3>2. bindings' = {b} BY <2>5
    <3> HIDE DEF b
    <3>3. {x.branch : x \in bindings'} = {s.form.branch} BY <3>1, <3>2
    <3>4. row'.form.mr /\ row'.form.branch = s.form.branch BY <1>1, <1>2, <2>4
    <3>5. QED BY <3>3, <3>4 DEF BindingInSync
  <2>6. CASE SyncBinding(q)
    <3>1. CASE NoFault(q, Goto(q, "postBinding"))
      <4>1. req'[q].pc = "postBinding" BY <3>1, Proceeds, GotoIs
      <4>2. QED BY <4>1
    <3>2. ASSUME NEW i \in Existing(s), bindings' = bindings,
                 NoFault(q, [Goto(q, "putBinding") EXCEPT !.s = WithBinding(s, i)])
          PROVE  /\ req'[q].pc = "putBinding"
                 /\ \E b \in bindings' : bindings' = {b} /\ b.id = req'[q].s.ext.binding
      <4>1. PICK b \in bindings : b.id = i BY DEF Existing
      <4>2. bindings = {b} BY DEF Lone
      <4>3. req'[q] = [Goto(q, "putBinding") EXCEPT !.s = WithBinding(s, i)] BY <3>2, Proceeds
      <4>4. req'[q].pc = "putBinding" /\ req'[q].s = WithBinding(s, i) BY <4>3, GotoIs
      <4>5. s \in SchemeRow BY RequestIs DEF Typed, TypeOK
      <4>6. req'[q].s.ext.binding = i BY <4>4, <4>5, RowBinding
      <4>7. QED BY <3>2, <4>1, <4>2, <4>4, <4>6
    <3>3. \/ NoFault(q, Goto(q, "postBinding"))
          \/ \E i \in Existing(s) :
               /\ NoFault(q, [Goto(q, "putBinding") EXCEPT !.s = WithBinding(s, i)])
               /\ bindings' = bindings
      BY <2>3, <2>4, <2>6 DEF SyncBinding
    <3>4. QED BY <3>1, <3>2, <3>3
  <2>7. CASE PostBinding(q)
    <3>1. bindings = {} /\ bindings' = bindings \cup {Binding(issued', s)}
          /\ NoFault(q, [Goto(q, "plan") EXCEPT !.s = WithBinding(s, issued')])
      BY <2>3, <2>7 DEF PostBinding
    <3>2. bindings' = {Binding(issued', s)} BY <3>1
    <3>3. req'[q] = [Goto(q, "plan") EXCEPT !.s = WithBinding(s, issued')] BY <3>1, Proceeds
    <3>4. req'[q].pc = "plan" BY <3>3, GotoIs
    <3>5. QED BY <2>5, <3>2, <3>4
  <2>8. CASE PutBinding(q)
    <3> DEFINE i == s.ext.binding
               new(x) == IF x.id = i THEN Binding(i, s) ELSE x
    <3>1. PICK b \in bindings : bindings = {b} /\ b.id = i
      BY <2>1, <2>2, <2>8 DEF MendsBinding, PutBinding
    <3>2. bindings' = {new(x) : x \in bindings} /\ NoFault(q, Goto(q, "plan"))
      BY <2>3, <2>8 DEF PutBinding
    <3>3. new(b) = Binding(i, s) BY <3>1
    <3>4. bindings' = {Binding(i, s)}
      <4> HIDE DEF new
      <4>1. QED BY <3>1, <3>2, <3>3
    <3>5. req'[q].pc = "plan" BY <3>2, Proceeds, GotoIs
    <3>6. QED BY <2>5, <3>4, <3>5
  <2>9. QED BY <2>6, <2>7, <2>8
<1>5. QED BY <1>3, <1>4

(* The plan part disturbs none of the others.                              *)
LEMMA PlanMends ==
  ASSUME Typed, NEW q \in Reqs, Refers(req[q]), MendsTask(q), MendsBinding(q),
         SyncPlan(q) \/ PostPlan(q) \/ FindPlan(q)
  PROVE  /\ req[q].clean /\ Changed(q, "langs") => SentInSync' /\ TaskInSync'
         /\ req[q].clean /\ Rebinds(q) => BindingInSync'
         /\ MendsTask(q)' /\ MendsBinding(q)'
<1>p. req[q].pc \in AtPlan BY DEF SyncPlan, PostPlan, FindPlan, AtPlan
<1>1. /\ row'.form = row.form /\ row'.ext.task = row.ext.task
      /\ \/ req'[q].pc = "idle"
         \/ req'[q].pc \in {"postPlan", "findPlan"} /\ req'[q].s = req[q].s
  BY PlanForms
<1>2. UNCHANGED <<scheme, tasks, bindings>> BY DEF SyncPlan, PostPlan, FindPlan
<1>3. req[q].clean /\ Changed(q, "langs") => SentInSync' /\ TaskInSync'
  BY <1>p, <1>1, <1>2, StaysInSync DEF MendsTask
<1>4. req[q].clean /\ Rebinds(q) => BindingInSync'
  BY <1>p, <1>1, <1>2, StaysInSync DEF MendsBinding
<1>5. CASE req'[q].pc = "idle"
  BY <1>3, <1>4, <1>5 DEF MendsTask, MendsBinding, AtBinding, AtPlan
<1>6. CASE req'[q].pc \in {"postPlan", "findPlan"} /\ req'[q].s = req[q].s
  <2>1. Same(q) /\ (req'[q].clean => req[q].clean) BY <1>6, StillClean DEF Update
  <2>2. /\ Changed(q, "langs")' => Changed(q, "langs")
        /\ Rebinds(q)' => Rebinds(q)
    BY <1>6, <2>1 DEF Rebinds, Same, Changed, TurnedOn
  <2>3. MendsTask(q)' BY <1>3, <1>6, <2>1, <2>2 DEF MendsTask
  <2>4. MendsBinding(q)' BY <1>4, <1>6, <2>1, <2>2 DEF MendsBinding
  <2>5. QED BY <1>3, <1>4, <2>3, <2>4
<1>7. QED BY <1>1, <1>5, <1>6

LEMMA MendsStep ==
  ASSUME IsFiniteSet(Reqs), Typed, CreatesOnce, CreatesTaskOnce, SearchesTell, Mends, [Next]_vars
  PROVE  Mends'
<1>c. scenario' = scenario BY DEF Next, vars
<1> SUFFICES ASSUME Repairable
    PROVE  /\ RowNamesTask'
           /\ \A q \in scenario.slots : /\ Refers(req[q])' /\ MendsScheme(q)'
                                      /\ MendsTask(q)' /\ MendsBinding(q)'
  BY <1>c DEF Mends, Repairable, Sequential, ListsRead
<1>s. PICK q \in Reqs : scenario.slots = {q} BY OneSlot DEF Repairable
<1>i. RowNamesTask /\ Refers(req[q]) /\ MendsScheme(q) /\ MendsTask(q) /\ MendsBinding(q)
  BY <1>s DEF Mends
<1>b. Lone(bindings) /\ (req[q].pc = "postBinding" => bindings = {})
  BY <1>s DEF CreatesOnce, Repairable
<1>t. "lost" \notin scenario.faults /\ req[q].pc \in AtTask /\ req[q].s.ext.task = Nil => tasks = {}
  BY <1>s DEF CreatesTaskOnce, Repairable, TasksFound, TasksRecorded, AtTask
<1> SUFFICES /\ RowNamesTask' /\ Refers(req[q])' /\ MendsScheme(q)'
             /\ MendsTask(q)' /\ MendsBinding(q)'
  BY <1>s
<1>1. CASE UNCHANGED vars
  BY <1>1, <1>i DEF vars, RowNamesTask, Refers, MendsScheme, SchemeConcerned, MendsTask, MendsBinding, Rebinds, Changed, TurnedOn,
                    Found, FoundIn, TaskName, SentInSync, TaskInSync, BindingInSync
<1>2. CASE EditTask
  <2>r. req[q] \in Request /\ Idle \in Request BY DEF Typed, TypeOK
  <2>1. req'[q] = Soiled[q] /\ row' = row BY <1>2 DEF EditTask
  <2>2. \/ req'[q].pc = "idle"
        \/ /\ req'[q].pc = req[q].pc /\ req'[q].form = req[q].form /\ req'[q].old = req[q].old
           /\ req'[q].s = req[q].s /\ req'[q].clean = FALSE
    BY <2>r, <2>1 DEF Soiled, Idle, Request
  <2>3. Refers(req[q])' BY <1>i, <2>1, <2>2 DEF Refers, AtTask, AtBinding, AtPlan
  <2>4. MendsTask(q)' /\ MendsBinding(q)'
    BY <2>2 DEF MendsTask, MendsBinding, AtBinding, AtPlan
  <2>m. MendsScheme(q)' BY <1>i, <2>1, <2>2 DEF MendsScheme, AtBinding, AtPlan
  <2>5. RowNamesTask'
    <3>1. PICK t \in tasks : \E i : tasks' = (tasks \ {t}) \cup {[t EXCEPT !.id = i]}
      BY <1>2 DEF EditTask, Repairable
    <3>2. t \in Tasks BY DEF Typed, TypeOK, Tasks
    <3>3. \A i : [t EXCEPT !.id = i].name = t.name BY <3>2 DEF Tasks
    <3>4. \A u \in tasks : \E x \in tasks' : x.name = u.name BY <3>1, <3>3
    <3>5. QED BY <1>i, <2>1, <3>4 DEF RowNamesTask
  <2>6. QED BY <2>3, <2>4, <2>5, <2>m
<1>3. CASE Load(q) \/ Update(q)
  <2>1. RowNamesTask' /\ Refers(req[q])' /\ MendsScheme(q)'
    BY <1>3, <1>i, RowNamesTaskStep, RefersStep, SchemeMends
  <2>2. MendsTask(q)' /\ MendsBinding(q)'
    <3>1. CASE Load(q) \/ Write(q) \/ Reload(q) \/ PutScheme(q) BY <1>i, <3>1, EarlyMends
    <3>2. CASE PutTask(q) \/ PostTask(q) BY <1>c, <1>i, <1>t, <3>2, TaskMends
    <3>3. CASE SyncBinding(q) \/ PostBinding(q) \/ PutBinding(q)
      BY <1>b, <1>i, <3>3, BindingMends
    <3>4. CASE SyncPlan(q) \/ PostPlan(q) \/ FindPlan(q) BY <1>i, <3>4, PlanMends
    <3>5. QED BY <1>3, <3>1, <3>2, <3>3, <3>4 DEF Update
  <2>3. QED BY <2>1, <2>2
<1>4. QED BY <1>s, <1>1, <1>2, <1>3 DEF Next, Reject

LEMMA RepairsStep ==
  ASSUME IsFiniteSet(Reqs), Typed, Mends, [Next]_vars
  PROVE  CleanUpdateRepairsStep
<1> SUFFICES ASSUME NEW q \in Reqs, Repairable, Ends(q)
    PROVE  /\ SchemeConcerned(q) /\ row'.ext.task = req[q].old.ext.task => scheme' = Params(row')
           /\ Changed(q, "langs") => SentInSync' /\ TaskInSync'
           /\ Rebinds(q) => BindingInSync'
  BY DEF CleanUpdateRepairsStep, Repairable, Rebinds
<1>s. PICK p \in Reqs : scenario.slots = {p} BY OneSlot DEF Repairable
<1>e. req[q].pc # "idle" /\ req'[q].pc = "idle" /\ req[q].clean /\ faults' = faults BY DEF Ends
<1>1. ~UNCHANGED vars BY <1>e DEF vars
<1>2. ~EditTask BY <1>e DEF EditTask, Typed, TypeOK
<1>3. Load(p) \/ Update(p) BY <1>s, <1>1, <1>2 DEF Next, Reject
<1>f. ASSUME NEW f, NEW next PROVE ~Fails(p, f, next) /\ ~Faulty(p, f, next)
  BY <1>e DEF Fails, Faulty, Typed, TypeOK
<1>4. q = p
  <2>1. \E next : NoFault(p, next)
    BY <1>3, <1>f DEF Load, Update, Write, Reload, PutScheme, PutTask, PostTask, SyncBinding,
                      PostBinding, PutBinding, SyncPlan, PostPlan, FindPlan
  <2>2. q # p => req'[q] = req[q] BY <2>1 DEF NoFault, Typed, TypeOK
  <2>3. QED BY <1>e, <2>2
<1>i. Refers(req[q]) /\ MendsScheme(q) /\ MendsTask(q) /\ MendsBinding(q)
  BY <1>s, <1>4 DEF Mends
<1>5. ~(Load(q) \/ Write(q) \/ Reload(q) \/ PutScheme(q)) BY <1>e, EarlySteps
<1>6. ~(PutTask(q) \/ PostTask(q)) BY <1>e, TaskForms
<1>7. ~(SyncBinding(q) \/ PostBinding(q) \/ PutBinding(q))
  <2>1. ASSUME SyncBinding(q) \/ PostBinding(q) \/ PutBinding(q) PROVE FALSE
    <3>1. /\ row.form = req[q].s.form
          /\ req[q].pc \in {"postBinding", "putBinding"} => req[q].s.form.mr
      BY <1>i, <2>1 DEF Refers, SyncBinding, PostBinding, PutBinding, AtBinding
    <3>2. QED BY <1>e, <2>1, <3>1, BindingForms
  <2>2. QED BY <2>1
<1>8. SyncPlan(q) \/ PostPlan(q) \/ FindPlan(q) BY <1>3, <1>4, <1>5, <1>6, <1>7 DEF Update
<1>9. ASSUME SchemeConcerned(q), row'.ext.task = req[q].old.ext.task
      PROVE  scheme' = Params(row')
  <2>1. req[q].pc \in AtPlan /\ scheme' = scheme BY <1>8 DEF SyncPlan, PostPlan, FindPlan, AtPlan
  <2>2. scheme = Params([form |-> row.form, ext |-> req[q].old.ext])
    BY <1>e, <1>i, <1>9, <2>1 DEF MendsScheme
  <2>3. row'.form = row.form BY <1>8, PlanForms
  <2>4. QED BY <1>9, <2>1, <2>2, <2>3 DEF Params
<1>10. QED BY <1>e, <1>i, <1>8, <1>9, PlanMends

LEMMA AlwaysCreatesOnce ==
  ASSUME IsFiniteSet(Reqs)
  PROVE  Spec => [](Typed /\ CreatesOnce /\ CreatesTaskOnce)
<1>1. Init => Typed /\ CreatesOnce /\ CreatesTaskOnce
  BY InitTyped, InitCreatesOnce, InitCreatesTaskOnce
<1>2. /\ Typed /\ CreatesOnce /\ CreatesTaskOnce /\ [Next]_vars
      => (Typed /\ CreatesOnce /\ CreatesTaskOnce)'
  BY StepTyped, CreatesOnceStep, CreatesTaskOnceStep
<1>3. QED BY <1>1, <1>2, PTL DEF Spec

(* CleanUpdateRepairs: with one update at a time, lists that can be read   *)
(* and tasks nobody renames, an update that meets no fault brings into     *)
(* step what it changes, and the whole scheme when it sends it and the     *)
(* row's task stays, however the updates before it failed.  If answers     *)
(* may be lost and the search is fuzzy, two tasks of which the row knows   *)
(* neither can be found under a third name, and nothing is done.           *)
THEOREM CleanUpdateAlwaysRepairs ==
  ASSUME IsFiniteSet(Reqs),
         \A sc \in Scenarios : "lost" \notin sc.faults \/ sc.similar = {}
  PROVE  Spec => CleanUpdateRepairs
<1>1. Init => Mends
  <2> SUFFICES ASSUME Init
      PROVE  /\ RowNamesTask
             /\ \A q \in scenario.slots : /\ Refers(req[q]) /\ MendsScheme(q)
                                          /\ MendsTask(q) /\ MendsBinding(q)
    BY DEF Mends
  <2>1. row \in NewRows(scenario.forms) /\ scenario.slots \subseteq Reqs
    BY ConstantsAssumption DEF Init, IsScenario
  <2>2. RowNamesTask
    <3>1. row.ext.task # Nil => row.taskName = row.form.name
      BY <2>1 DEF NewRows, IsFormed
    <3>2. row.ext.task # Nil => Task(1, row.form.name, row) \in tasks BY DEF Init
    <3>3. Task(1, row.form.name, row).name = row.form.name BY DEF Task
    <3>4. QED BY <3>1, <3>2, <3>3 DEF RowNamesTask
  <2>3. \A q \in scenario.slots : req[q].pc = "idle" BY <2>1 DEF Init, Idle
  <2>4. QED BY <2>2, <2>3 DEF Refers, MendsScheme, MendsTask, MendsBinding, AtTask, AtBinding, AtPlan
<1>2. Typed => SearchesTell BY DEF Typed, SearchesTell
<1>3. Typed /\ CreatesOnce /\ CreatesTaskOnce /\ Mends /\ [Next]_vars => Mends'
  BY <1>2, MendsStep
<1>4. Typed /\ Mends /\ [Next]_vars => CleanUpdateRepairsStep BY RepairsStep
<1>5. Mends /\ [Next]_vars /\ Typed => [CleanUpdateRepairsStep]_vars BY <1>4
<1>6. QED BY <1>1, <1>3, <1>5, AlwaysCreatesOnce, PTL DEF Spec, CleanUpdateRepairs
=============================================================================
