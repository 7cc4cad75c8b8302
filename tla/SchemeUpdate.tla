----------------------------- MODULE SchemeUpdate -----------------------------
(***************************************************************************)
(* UpdateExecutionScheme of handlers/pipeline.go, for one scheme that is   *)
(* registered with the third-party system.                                 *)
(*                                                                         *)
(* The handler writes the whole form to the row first and then carries the *)
(* differences to the third party: the execution scheme, the checker task, *)
(* the MR binding and the daily plan, in this order.  Every remote error   *)
(* is only logged and the next part is attempted.  A field the form leaves *)
(* empty keeps the value of the row, so a form is a full set of values.    *)
(***************************************************************************)
EXTENDS Naturals, FiniteSets

CONSTANTS
  Reqs,       \* slots for updates in flight at the same time
  Names, Branches, Attrs, Langs, Times,   \* values a form may carry
  NoLangs,    \* languages not chosen
  Scenarios,  \* what may happen in a behaviour, see Scenario
  MaxIds      \* bound: identifiers the third-party system issues

Nil == 0         \* an empty id column
NoName == ""     \* an empty name column
Ids == 1 .. MaxIds
FaultKinds == {"refused",    \* a remote call fails and did nothing
               "lost",       \* a remote call was performed, its answer is an error
               "lookup",     \* a list of the third party cannot be read
               "recreated",  \* the task is deleted and created again by hand
               "renamed"}    \* the task is renamed by hand

Form == [name: Names, branch: Branches, attrs: Attrs, langs: Langs \cup {NoLangs},
         mr: BOOLEAN, daily: BOOLEAN, time: Times]

(* slots: the slots in use; forms: what users send; similar: <<n, m>> when *)
(* the search for a task n also returns a task m; faults: which faults may *)
(* happen; max: how many of them, a bound.                                 *)
IsScenario(sc) ==
  /\ sc.slots \subseteq Reqs /\ sc.forms \subseteq Form /\ sc.forms # {}
  /\ sc.similar \subseteq Names \X Names /\ sc.faults \subseteq FaultKinds /\ sc.max \in Nat

(* A name is required of a new scheme, and an update with an empty one     *)
(* keeps it.                                                               *)
ASSUME ConstantsAssumption ==
  /\ NoLangs \notin Langs /\ NoName \notin Names
  /\ \A sc \in Scenarios : IsScenario(sc)
  /\ MaxIds \in Nat \ (0 .. 2)

VARIABLES
  scenario, \* one of the scenarios, for the whole behaviour
  row,      \* the row of execution_schemes
  scheme,   \* the parameters of the remote execution scheme
  tasks,    \* remote checker tasks made for the scheme
  bindings, \* remote MR bindings of the scheme
  plans,    \* remote execution plans of the scheme
  issued,   \* the last identifier issued
  req,      \* updates in flight
  faults    \* faults that have happened

vars == <<scenario, row, scheme, tasks, bindings, plans, issued, req, faults>>

-----------------------------------------------------------------------------
(* Forms, rows and remote objects *)

IdColumns == [task: Ids \cup {Nil}, binding: Ids \cup {Nil}, plan: Ids \cup {Nil}]
SchemeRow == [form: Form, ext: IdColumns, taskName: Names \cup {NoName}]

(* What SyncUpdateExecutionSchemeRemote renders: name and build parameters. *)
Params(r) == [name |-> r.form.name, branch |-> r.form.branch, attrs |-> r.form.attrs,
              langs |-> r.form.langs, task |-> r.ext.task]
Task(i, n, r) == [id |-> i, name |-> n, langs |-> r.form.langs]
Binding(i, r) == [id |-> i, name |-> r.form.name, branch |-> r.form.branch]
Plan(i, r) == [id |-> i, name |-> r.form.name, time |-> r.form.time]

Steps == {"idle", "write", "reload", "scheme", "task", "postTask", "binding",
          "postBinding", "putBinding", "plan", "postPlan", "findPlan"}
Request == [pc: Steps,
            form: Form,              \* the body of the request
            old: SchemeRow,          \* the row as first loaded
            s: SchemeRow,            \* the row as re-read after the write
            clean: BOOLEAN]          \* history: no fault since it arrived

IsFormed(r) == /\ r.ext.task = (IF r.form.langs = NoLangs THEN Nil ELSE 1)
               /\ r.ext.binding = (IF r.form.mr THEN 2 ELSE Nil)
               /\ r.ext.plan = (IF r.form.daily THEN 3 ELSE Nil)
               /\ r.taskName = (IF r.form.langs = NoLangs THEN NoName ELSE r.form.name)
NewRows(forms) == {r \in [form: forms, ext: [task: {Nil, 1}, binding: {Nil, 2}, plan: {Nil, 3}],
                          taskName: Names \cup {NoName}] : IsFormed(r)}
Idle == LET r == CHOOSE x \in NewRows(Form) : TRUE
        IN [pc |-> "idle", form |-> r.form, old |-> r, s |-> r, clean |-> TRUE]

(* A scheme as CreateExecutionScheme leaves it.                            *)
Init ==
  /\ scenario \in Scenarios
  /\ row \in NewRows(scenario.forms)
  /\ scheme = Params(row)
  /\ tasks = (IF row.ext.task = Nil THEN {} ELSE {Task(1, row.form.name, row)})
  /\ bindings = (IF row.form.mr THEN {Binding(2, row)} ELSE {})
  /\ plans = (IF row.form.daily THEN {Plan(3, row)} ELSE {})
  /\ issued = 3
  /\ req = [q \in Reqs |-> Idle]
  /\ faults = 0

-----------------------------------------------------------------------------
(* Remote calls *)

NoFault(q, next) == /\ req' = [req EXCEPT ![q] = next]
                    /\ UNCHANGED faults
Soiled == [q \in Reqs |-> IF req[q].pc = "idle" THEN Idle ELSE [req[q] EXCEPT !.clean = FALSE]]
Faulty(q, f, next) ==
  /\ f \in scenario.faults /\ faults < scenario.max
  /\ faults' = faults + 1
  /\ req' = [Soiled EXCEPT ![q] = IF next = Idle THEN Idle ELSE [next EXCEPT !.clean = FALSE]]
Goto(q, step) == [req[q] EXCEPT !.pc = step]

(* A call that fails did nothing or, with its answer lost, did its work.   *)
Fails(q, f, next) == f \in {"refused", "lost"} /\ Faulty(q, f, next)

(* The bound on ids: an update starts only when it may create a task, a    *)
(* binding and a plan.                                                     *)
Reserved == issued + 3 * Cardinality({q \in Reqs : req[q].pc # "idle"})
NewId == issued < MaxIds /\ issued' = issued + 1
ById(set, i) == {o \in set : o.id = i}

-----------------------------------------------------------------------------
(* First, the row *)

Load(q) ==
  /\ req[q].pc = "idle"
  /\ Reserved + 3 <= MaxIds
  /\ \E f \in scenario.forms :
       /\ ~(f.langs = NoLangs /\ row.form.langs # NoLangs)
       /\ NoFault(q, [pc |-> "write", form |-> f, old |-> row, s |-> row, clean |-> TRUE])
  /\ UNCHANGED <<row, scheme, tasks, bindings, plans, issued>>

(* Languages that are not chosen are not written.                          *)
Stored(f) == [f EXCEPT !.langs = IF @ = NoLangs THEN row.form.langs ELSE @]
Written(f) == [row EXCEPT !.form = Stored(f)]
Write(q) ==
  /\ req[q].pc = "write"
  /\ row' = Written(req[q].form)
  /\ NoFault(q, Goto(q, "reload"))
  /\ UNCHANGED <<scheme, tasks, bindings, plans, issued>>

Reload(q) ==
  /\ req[q].pc = "reload"
  /\ NoFault(q, [Goto(q, "scheme") EXCEPT !.s = row])
  /\ UNCHANGED <<row, scheme, tasks, bindings, plans, issued>>

Changed(q, field) == req[q].form[field] # req[q].old.form[field]

-----------------------------------------------------------------------------
(* 1. The execution scheme, when its name, parameters or languages changed *)

\* Mutant: a change of the languages alone is not sent.
SchemeConcernedNoLangs(q) == Changed(q, "name") \/ Changed(q, "attrs")
SchemeConcerned(q) == Changed(q, "name") \/ Changed(q, "attrs") \/ Changed(q, "langs")

PutScheme(q) ==
  LET s == req[q].s IN
  /\ req[q].pc = "scheme"
  /\ \/ /\ ~SchemeConcerned(q)
        /\ NoFault(q, Goto(q, "task"))
        /\ UNCHANGED scheme
     \/ /\ SchemeConcerned(q)
        /\ scheme' = Params(s)
        /\ NoFault(q, Goto(q, "task")) \/ Fails(q, "lost", Goto(q, "task"))
     \/ /\ SchemeConcerned(q)
        /\ Fails(q, "refused", Goto(q, "task"))
        /\ UNCHANGED scheme
  /\ UNCHANGED <<row, tasks, bindings, plans, issued>>

-----------------------------------------------------------------------------
(* 1.5 The checker task, when the languages changed: among those a search  *)
(* by name returns, the task recorded in the row, else one of that very    *)
(* name, else the only one.  A task that vanished is not replaced unless   *)
(* the row never had one.                                                  *)

TaskName(q) == IF req[q].s.taskName # NoName THEN req[q].s.taskName
               ELSE req[q].old.form.name
FoundIn(set, n) ==                          \* QueryCheckerTaskInfo
  {t \in set : t.name = n \/ <<n, t.name>> \in scenario.similar}
Found(n) == FoundIn(tasks, n)
UsedTask(s, n) ==
  LET exact == {t \in Found(n) : t.name = n} IN
  CASE ById(Found(n), s.ext.task) # {} -> {s.ext.task}
    [] ById(Found(n), s.ext.task) = {} /\ exact # {} -> {t.id : t \in exact}
    [] OTHER -> IF Cardinality(Found(n)) = 1 THEN {t.id : t \in Found(n)} ELSE {}
\* Mutant: an adopted task is not written back.
WithTaskNameOnly(r, i, n) == [r EXCEPT !.taskName = IF @ = NoName THEN n ELSE @]
WithTask(r, i, n) == [r EXCEPT !.ext = [@ EXCEPT !.task = i],
                               !.taskName = IF @ = NoName THEN n ELSE @]

\* Mutant: a recorded task that is not found is created anew.
MayCreateTaskAlways(s) == TRUE
MayCreateTask(s) == s.ext.task = Nil

PutTask(q) ==
  LET s == req[q].s
      n == TaskName(q)
      go == Goto(q, "binding")
      put(i) == (tasks \ ById(tasks, i)) \cup {Task(i, n, s)} IN
  /\ req[q].pc = "task"
  /\ \/ /\ ~Changed(q, "langs")
        /\ NoFault(q, go)
        /\ UNCHANGED <<row, tasks>>
     \/ /\ Changed(q, "langs") /\ Found(n) = {}
        /\ NoFault(q, IF MayCreateTask(s) THEN Goto(q, "postTask") ELSE go)
        /\ UNCHANGED <<row, tasks>>
     \/ /\ Changed(q, "langs")
        /\ \E i \in UsedTask(s, n) :
             /\ tasks' = put(i)
             /\ \/ /\ row' = (IF i = s.ext.task THEN row ELSE WithTask(row, i, n))
                   /\ NoFault(q, IF i = s.ext.task THEN go
                                 ELSE [go EXCEPT !.s = WithTask(s, i, n)])
                \/ Fails(q, "lost", go) /\ UNCHANGED row
     \/ /\ Changed(q, "langs") /\ Found(n) # {} /\ UsedTask(s, n) = {}
        /\ NoFault(q, go)
        /\ UNCHANGED <<row, tasks>>
     \/ /\ Changed(q, "langs")
        /\ Fails(q, "refused", go) \/ Faulty(q, "lookup", go)
        /\ UNCHANGED <<row, tasks>>
  /\ UNCHANGED <<scheme, bindings, plans, issued>>

(* createCheckerTaskStep: the POST and the look-ups of the new id by name. *)
PostTask(q) ==
  LET s == req[q].s
      n == TaskName(q)
      go == Goto(q, "binding") IN
  /\ req[q].pc = "postTask"
  /\ \/ /\ NewId /\ tasks' = tasks \cup {Task(issued', n, s)}
        /\ \/ \E t \in FoundIn(tasks', n) :
                /\ row' = WithTask(row, t.id, n)
                /\ NoFault(q, [go EXCEPT !.s = WithTask(s, t.id, n)])
           \/ /\ Fails(q, "lost", go) \/ Faulty(q, "lookup", go)
              /\ UNCHANGED row
     \/ Fails(q, "refused", go) /\ UNCHANGED <<row, tasks, issued>>
  /\ UNCHANGED <<scheme, bindings, plans>>

-----------------------------------------------------------------------------
(* 2. The MR binding *)

TurnedOff(q, field) == req[q].old.form[field] /\ ~req[q].s.form[field]
TurnedOn(q, field) == ~req[q].old.form[field] /\ req[q].s.form[field]
BranchChanged(q) ==
  Changed(q, "branch") \/ req[q].s.form.branch # req[q].old.form.branch
BindingConcerned(q) ==
  /\ req[q].s.form.mr
  /\ BranchChanged(q) \/ TurnedOn(q, "mr") \/ req[q].s.ext.binding = Nil

(* SyncDeleteMRBindingRemote; an answer 404 is an error, unknown here      *)
(* whether the third party gives it.                                       *)
\* Mutant: the id column is not emptied.
UnboundKeepsId == [row EXCEPT !.form = [@ EXCEPT !.mr = FALSE]]
Unbound == [row EXCEPT !.form = [@ EXCEPT !.mr = FALSE],
                       !.ext = [@ EXCEPT !.binding = Nil]]

(* The bindings of the pipeline that have the recorded id or belong to the *)
(* scheme.                                                                 *)
\* Mutant: only the recorded id is looked for.
ExistingById(s) == {b.id : b \in ById(bindings, s.ext.binding)}
Existing(s) == {b.id : b \in bindings}

(* The id in the copy of the row that the later calls use.                 *)
WithBinding(s, i) == [s EXCEPT !.ext = [@ EXCEPT !.binding = i]]

SyncBinding(q) ==
  LET old == req[q].old.ext.binding
      go == Goto(q, "plan")
      known == Existing(req[q].s) IN
  /\ req[q].pc = "binding"
  /\ \/ /\ TurnedOff(q, "mr") /\ old # Nil
        /\ \/ /\ row' = Unbound /\ bindings' = bindings \ ById(bindings, old)
              /\ NoFault(q, [go EXCEPT !.s = WithBinding(req[q].s, Nil)])
           \/ /\ ById(bindings, old) = {} /\ NoFault(q, go)
              /\ UNCHANGED <<row, bindings>>
           \/ /\ Fails(q, "refused", go)
              /\ UNCHANGED <<row, bindings>>
           \/ /\ bindings' = bindings \ ById(bindings, old)
              /\ Fails(q, "lost", go)
              /\ UNCHANGED row
     \/ /\ ~(TurnedOff(q, "mr") /\ old # Nil) /\ ~BindingConcerned(q)
        /\ NoFault(q, go)
        /\ UNCHANGED <<row, bindings>>
     \/ /\ BindingConcerned(q)       \* the query; a failed one finds nothing
        /\ \/ known = {} /\ NoFault(q, Goto(q, "postBinding"))
           \/ Faulty(q, "lookup", Goto(q, "postBinding"))
           \/ \E i \in known :
                NoFault(q, [Goto(q, "putBinding") EXCEPT !.s = WithBinding(req[q].s, i)])
        /\ UNCHANGED <<row, bindings>>
  /\ UNCHANGED <<scheme, tasks, plans, issued>>

Bound(i) == [row EXCEPT !.form = [@ EXCEPT !.mr = TRUE],
                        !.ext = [@ EXCEPT !.binding = i]]
PostBinding(q) ==
  LET s == req[q].s
      go == Goto(q, "plan") IN
  /\ req[q].pc = "postBinding"
  /\ \/ /\ NewId /\ bindings' = bindings \cup {Binding(issued', s)}
        /\ \/ /\ row' = Bound(issued')
              /\ NoFault(q, [go EXCEPT !.s = WithBinding(s, issued')])
           \/ Fails(q, "lost", go) /\ UNCHANGED row
     \/ Fails(q, "refused", go) /\ UNCHANGED <<row, bindings, issued>>
  /\ UNCHANGED <<scheme, tasks, plans>>

(* The id found by the query is used but not written to the row.           *)
PutBinding(q) ==
  LET s == req[q].s
      i == s.ext.binding
      go == Goto(q, "plan") IN
  /\ req[q].pc = "putBinding"
  /\ \/ /\ bindings' = {IF b.id = i THEN Binding(i, s) ELSE b : b \in bindings}
        /\ NoFault(q, go) \/ Fails(q, "lost", go)
     \/ Fails(q, "refused", go) /\ UNCHANGED bindings
  /\ UNCHANGED <<row, scheme, tasks, plans, issued>>

-----------------------------------------------------------------------------
(* 3. The daily plan *)

TimeChanged(q) == req[q].s.form.daily /\ Changed(q, "time")
PlanWanted(q) ==
  TurnedOn(q, "daily") \/ (req[q].s.form.daily /\ req[q].s.ext.plan = Nil)
\* Mutant: the columns of the plan replace all the id columns.
PlanRecordedAlone(i) == [row EXCEPT !.ext = [plan |-> i]]
PlanRecorded(i) == [row EXCEPT !.ext = [@ EXCEPT !.plan = i]]

SyncPlan(q) ==
  LET old == req[q].old.ext.plan
      off == TurnedOff(q, "daily") /\ old # Nil
      moved == ~off /\ ~PlanWanted(q) /\ TimeChanged(q) /\ old # Nil IN
  /\ req[q].pc = "plan"
  /\ \/ /\ off \/ moved             \* SyncDeleteExecutionPlanRemote
        /\ \/ /\ plans' = plans \ ById(plans, old)
              /\ row' = IF off THEN PlanRecorded(Nil) ELSE row
              /\ NoFault(q, IF off THEN Idle ELSE Goto(q, "postPlan"))
           \/ /\ ById(plans, old) = {} /\ NoFault(q, Idle)
              /\ UNCHANGED <<row, plans>>
           \/ /\ Fails(q, "refused", Idle)
              /\ UNCHANGED <<row, plans>>
           \/ /\ plans' = plans \ ById(plans, old)
              /\ Fails(q, "lost", Idle)
              /\ UNCHANGED row
     \/ /\ ~off /\ ~moved
        /\ NoFault(q, IF PlanWanted(q) THEN Goto(q, "postPlan") ELSE Idle)
        /\ UNCHANGED <<row, plans>>
  /\ UNCHANGED <<scheme, tasks, bindings, issued>>

(* CreateExecutionPlanStep: the POST, then up to three look-ups by name,   *)
(* of which the first plan of that name is taken.                          *)
PostPlan(q) ==
  LET s == req[q].s IN
  /\ req[q].pc = "postPlan"
  /\ \/ /\ NewId /\ plans' = plans \cup {Plan(issued', s)}
        /\ NoFault(q, Goto(q, "findPlan")) \/ Fails(q, "lost", Idle)
     \/ Fails(q, "refused", Idle) /\ UNCHANGED <<plans, issued>>
  /\ UNCHANGED <<row, scheme, tasks, bindings>>

Namesakes(s) == {p \in plans : p.name = s.form.name}
FindPlan(q) ==
  /\ req[q].pc = "findPlan"
  /\ \/ \E p \in Namesakes(req[q].s) :
          /\ row' = PlanRecorded(p.id)
          /\ NoFault(q, Idle)
     \/ /\ \/ Namesakes(req[q].s) = {} /\ NoFault(q, Idle)
           \/ Faulty(q, "lookup", Idle)
        /\ UNCHANGED row
  /\ UNCHANGED <<scheme, tasks, bindings, plans, issued>>

-----------------------------------------------------------------------------
(* Someone edits the task in the third party's own pages.                  *)
EditTask ==
  /\ faults < scenario.max /\ faults' = faults + 1
  /\ \E t \in tasks :
       \/ /\ "recreated" \in scenario.faults /\ Reserved < MaxIds /\ NewId
          /\ tasks' = (tasks \ {t}) \cup {[t EXCEPT !.id = issued']}
       \/ /\ "renamed" \in scenario.faults
          /\ \E n \in Names : tasks' = (tasks \ {t}) \cup {[t EXCEPT !.name = n]}
          /\ UNCHANGED issued
  /\ req' = Soiled
  /\ UNCHANGED <<row, scheme, bindings, plans>>

(* A request that is answered 400 or 404: the row is not found, the body   *)
(* cannot be read, or the form clears the languages.                       *)
Reject(q) == req[q].pc = "idle" /\ UNCHANGED vars

Update(q) ==
  \/ Write(q) \/ Reload(q) \/ PutScheme(q) \/ PutTask(q) \/ PostTask(q)
  \/ SyncBinding(q) \/ PostBinding(q) \/ PutBinding(q)
  \/ SyncPlan(q) \/ PostPlan(q) \/ FindPlan(q)

Next == /\ UNCHANGED scenario
        /\ EditTask \/ \E q \in scenario.slots : Load(q) \/ Reject(q) \/ Update(q)
Spec == Init /\ [][Next]_vars

-----------------------------------------------------------------------------
(* Properties *)

Quiet == \A q \in Reqs : req[q].pc = "idle"

TypeOK ==
  /\ row \in SchemeRow
  /\ scheme \in [name: Names, branch: Branches, attrs: Attrs,
                 langs: Langs \cup {NoLangs}, task: Ids \cup {Nil}]
  /\ tasks \subseteq [id: Ids, name: Names, langs: Langs \cup {NoLangs}]
  /\ bindings \subseteq [id: Ids, name: Names, branch: Branches]
  /\ plans \subseteq [id: Ids, name: Names, time: Times]
  /\ issued \in 0 .. MaxIds
  /\ req \in [Reqs -> Request]
  /\ faults \in Nat

(* The parameters of which a change is sent.  The scheme also carries the  *)
(* branch and the task: a change of these alone is not sent.               *)
SentInSync == /\ scheme.name = row.form.name
              /\ scheme.attrs = row.form.attrs
              /\ scheme.langs = row.form.langs
TaskInSync == row.form.langs # NoLangs =>
                \E t \in tasks : t.id = row.ext.task /\ t.langs = row.form.langs
BindingInSync == {b.branch : b \in bindings} = (IF row.form.mr THEN {row.form.branch} ELSE {})
PlanInSync == {<<p.id, p.time>> : p \in plans} =
                (IF row.form.daily THEN {<<row.ext.plan, row.form.time>>} ELSE {})

Sequential == Cardinality(scenario.slots) = 1
(* A list that cannot be read lets the handler create what exists.         *)
ListsRead == "lookup" \notin scenario.faults

(* As long as nothing has failed, after any sequence of updates these parts*)
(* are what the row says: name, attributes and languages of the scheme, the*)
(* languages of the task, one binding on the branch exactly when MR        *)
(* triggering is on, one plan at the daily time exactly when the daily     *)
(* build is on.  The branch and the task in the scheme's own parameters are*)
(* not among them, see SchemeInSync.                                       *)
PartsInSync ==
  Sequential /\ Quiet /\ faults = 0 =>
    /\ SentInSync /\ TaskInSync /\ BindingInSync /\ PlanInSync
    /\ \A b \in bindings : b.id = row.ext.binding

(* "... PUT ... updates the remote ... execution scheme": as long as nothing*)
(* has failed, all parameters of the scheme are the row's.  A change of the*)
(* branch alone is not sent, and a task made by the update that first      *)
(* chooses languages comes after the PUT.  The code does not keep this     *)
(* promise, so no run claims it.                                           *)
SchemeInSync == Sequential /\ Quiet /\ faults = 0 => scheme = Params(row)

(* However the earlier calls failed, the scheme never has two MR bindings: *)
(* every update looks for the existing one before it creates.              *)
OneBinding == Sequential /\ ListsRead => Cardinality(bindings) <= 1

(* Nor a second checker task: a recorded task that is not found is never   *)
(* replaced, one recreated by hand is adopted, and one whose id was lost   *)
(* with the answer of its creation is found again, as long as it has the   *)
(* name the row has.                                                       *)
TasksFound == \/ "lost" \notin scenario.faults
              \/ /\ "renamed" \notin scenario.faults
                 /\ \A f, g \in scenario.forms : f.name = g.name
OneTask == Sequential /\ ListsRead /\ TasksFound => Cardinality(tasks) <= 1

(* A recorded binding exists, whatever two updates do at the same time, as *)
(* long as the answer of a deletion is not lost.                           *)
RecordedBindingLive ==
  "lost" \notin scenario.faults /\ row.ext.binding # Nil => ById(bindings, row.ext.binding) # {}

(* An update without a fault brings what it concerns into step even if     *)
(* earlier updates failed: the whole scheme, branch and task included, when*)
(* it changes name, attributes or languages and the row's task stays; the  *)
(* task when it changes the languages, and the binding when it concerns it,*)
(* as long as nobody renames the task and lists can be read.               *)
Ends(q) == /\ req[q].pc # "idle" /\ req'[q].pc = "idle"
           /\ req[q].clean /\ faults' = faults
CleanUpdateRepairsStep ==
  \A q \in Reqs : Sequential /\ ListsRead /\ "renamed" \notin scenario.faults /\ Ends(q) =>
    /\ SchemeConcerned(q) /\ row'.ext.task = req[q].old.ext.task => scheme' = Params(row')
    /\ Changed(q, "langs") => (SentInSync /\ TaskInSync)'
    /\ req[q].s.form.mr /\ (Changed(q, "branch") \/ TurnedOn(q, "mr")) => BindingInSync'
CleanUpdateRepairs == [][CleanUpdateRepairsStep]_vars

(* "... the old planID is kept ... and the next update tries again": an    *)
(* update without a fault leaves the plan at the time of the row.          *)
PlanRetriedStep ==
  \A q \in Reqs : Ends(q) /\ row'.form.daily => row'.form.time \in {p.time : p \in plans'}
PlanRetried == [][PlanRetriedStep]_vars
=============================================================================
