--------------------------- MODULE SchemeLifecycle ---------------------------
(***************************************************************************)
(* The life of an execution scheme: a row of the local table               *)
(* execution_schemes and the objects that stand for it in the third-party  *)
(* CI system -- a checker task (shared by the schemes of a repository), an *)
(* execution scheme, an MR binding and a daily execution plan.             *)
(*                                                                         *)
(* Three HTTP handlers of handlers/pipeline.go create, delete and cascade: *)
(* CreateExecutionScheme, DeleteExecutionScheme and DeletePipeline.  Each  *)
(* request is a sequence of steps, one per remote call or transaction, so  *)
(* that requests interleave, calls fail and the process may restart        *)
(* between any two steps.  Every error path of the code is a transition.   *)
(*                                                                         *)
(* The third-party system is external: it is modelled by the calls that    *)
(* services/pipeline_client.go makes and the answers it accepts.           *)
(***************************************************************************)
EXTENDS Naturals, FiniteSets

CONSTANTS
  Reqs,          \* slots for requests in flight at the same time
  Repos,         \* rows of the local table repositories
  Pipes,         \* physical pipelines that exist initially
  Names,         \* scheme names the users choose
  Similar,       \* <<n, m>>: the search for a task n also returns a task m
  MaxRows,       \* bound: rows inserted into execution_schemes
  MaxIds,        \* bound: identifiers the third-party system issues
  Wants,         \* trigger combinations a request may ask for
  Faults,        \* which faults may happen, see FaultKinds
  MaxFaults,     \* bound: how many of them happen in one behaviour
  Answers404,    \* TRUE: a DELETE of an unknown object is answered 404
  DistinctNames, \* TRUE: the users never reuse a name that is taken
  Handlers       \* the handlers the users call

(* Primary keys and third-party identifiers are serial numbers: neither is  *)
(* ever used twice.  Nil is the zero key and the empty id column.          *)
Nil == 0
Rows == 1 .. MaxRows
Ids == 1 .. MaxIds

Kinds == {"task", "scheme", "binding", "plan"}
Triggers == {"binding", "plan"}      \* mr_trigger and daily_build
FaultKinds == {"refused",  \* a remote call fails and did nothing
               "lost",     \* a remote call was performed, its answer is an error
               "lookup",   \* the three look-ups of an id by name all fail
               "db",       \* a database call whose error is answered fails
               "unnoted",  \* a write of id columns fails and is only logged
               "restart"}  \* the process restarts, requests in flight vanish

ASSUME ConstantsAssumption ==
  /\ MaxRows \in Nat /\ MaxIds \in Nat
  /\ Wants \subseteq SUBSET Triggers
  /\ Faults \subseteq FaultKinds
  /\ MaxFaults \in Nat
  /\ Answers404 \in BOOLEAN /\ DistinctNames \in BOOLEAN
  /\ Repos # {} /\ Pipes # {} /\ Names # {}
  /\ Similar \subseteq Names \X Names

VARIABLES
  present,   \* primary keys of the rows of execution_schemes
  inserted,  \* the last primary key used
  row,       \* contents of the rows
  pipes,     \* rows of the table pipelines
  repoTask,  \* repositories.code_checker_task_id
  remote,    \* objects alive in the third-party system
  issued,    \* the last identifier it has issued
  req,       \* the requests in flight
  faults     \* faults that have happened

vars == <<present, inserted, row, pipes, repoTask, remote, issued, req, faults>>
local == <<present, inserted, row, pipes, repoTask>>

-----------------------------------------------------------------------------
(* Rows, remote objects and requests *)

NoIds == [k \in Kinds |-> Nil]
SchemeRow == [repo: Repos, pipe: Pipes, name: Names, langs: BOOLEAN,
              want: SUBSET Triggers, ext: [Kinds -> Ids \cup {Nil}]]
Object == [id: Ids, kind: Kinds, name: Names, pipe: Pipes]

Steps == {"idle", "resolveTask", "postTask", "findTask", "postScheme",
          "findScheme", "postBinding", "postPlan", "findPlan", "insert",
          "delPlan", "delBinding", "delScheme", "countTask", "delTask",
          "delAgain", "dropRow", "nextRow"}
Request == [op: {"none", "create", "delete", "deletePipeline"},
            pc: Steps,
            id: Rows \cup {Nil},      \* scheme.ID of the in-memory scheme
            s: SchemeRow,             \* the in-memory scheme
            todo: SUBSET [id: Rows, s: SchemeRow]]   \* rows a cascade still visits

Blank == [repo |-> CHOOSE x \in Repos : TRUE, pipe |-> CHOOSE x \in Pipes : TRUE,
          name |-> CHOOSE x \in Names : TRUE, langs |-> FALSE, want |-> {},
          ext |-> NoIds]
Idle == [op |-> "none", pc |-> "idle", id |-> Nil, s |-> Blank, todo |-> {}]

Init ==
  /\ present = {} /\ inserted = 0
  /\ row = [r \in Rows |-> Blank]
  /\ pipes = Pipes
  /\ repoTask = [p \in Repos |-> Nil]
  /\ remote = {} /\ issued = 0
  /\ req = [q \in Reqs |-> Idle]
  /\ faults = 0

Live == {o.id : o \in remote}
\* Mutant: only the checker task is looked at.
HasTaskId(s) == s.ext["task"] # Nil
HasIds(s) == \E k \in Kinds : s.ext[k] # Nil
Creating == {q \in Reqs : req[q].op = "create"}
Fault(f) == f \in Faults /\ faults < MaxFaults /\ faults' = faults + 1

-----------------------------------------------------------------------------
(* The third-party system, seen through services/pipeline_client.go *)

Created(k, s) ==
  /\ issued < MaxIds
  /\ issued' = issued + 1
  /\ remote' = remote \cup {[id |-> issued', kind |-> k, name |-> s.name, pipe |-> s.pipe]}
Without(i) == {o \in remote : o.id # i}

(* A POST that fails may have created the object: its answer is lost in a  *)
(* timeout of the client or cannot be parsed.                              *)
PostSucceeds(k, s) == Created(k, s) /\ UNCHANGED faults
PostFails(k, s) ==
  \/ Fault("refused") /\ UNCHANGED <<remote, issued>>
  \/ Fault("lost") /\ Created(k, s)

(* An id is found by name in the list of the pipeline; a task by a search  *)
(* of the whole system, which is fuzzy.  The first match is taken and the  *)
(* order of the list is not ours.                                          *)
\* Mutant: the name is not compared.
MatchesAnyName(k, s) ==
  {o.id : o \in {x \in remote : x.kind = k /\ (k = "task" \/ x.pipe = s.pipe)}}
Matches(k, s) ==
  {o.id : o \in {x \in remote :
      /\ x.kind = k
      /\ x.name = s.name \/ (k = "task" /\ <<s.name, x.name>> \in Similar)
      /\ k = "task" \/ x.pipe = s.pipe}}
LookupFails(k, s) ==
  \/ Matches(k, s) = {} /\ UNCHANGED faults
  \/ Fault("lookup")

(* DELETE: ok404 says whether the call site accepts 404 as a success.      *)
\* Mutant: an error answer counts as a success.
DeleteSucceedsAnyway(i, ok404) ==
  UNCHANGED issued /\ (remote' = Without(i) \/ UNCHANGED remote)
DeleteSucceeds(i, ok404) ==
  /\ i \in Live \/ ok404 \/ ~Answers404
  /\ remote' = Without(i)
  /\ UNCHANGED issued
DeleteFails(i, ok404) ==
  /\ UNCHANGED issued
  /\ \/ i \notin Live /\ Answers404 /\ ~ok404 /\ UNCHANGED <<remote, faults>>
     \/ Fault("refused") /\ UNCHANGED remote
     \/ Fault("lost") /\ remote' = Without(i)

-----------------------------------------------------------------------------
(* Bookkeeping of a request *)

WithId(s, k, i) == [s EXCEPT !.ext = [s.ext EXCEPT ![k] = i]]
Goto(q, step) == req' = [req EXCEPT ![q].pc = step]
Reply(q) == req' = [req EXCEPT ![q] = Idle]
Learn(q, k, i, step) ==
  req' = [req EXCEPT ![q] = [req[q] EXCEPT !.pc = step, !.s = WithId(req[q].s, k, i)]]

(* UPDATE execution_schemes ... WHERE id = r after a remote deletion       *)
\* Mutant: the flag is reset but the id column is not emptied.
ClearedFlagOnly(r, k) ==
  IF r \in present
  THEN [row EXCEPT ![r] = [row[r] EXCEPT !.want = row[r].want \ {k}]]
  ELSE row
Cleared(r, k) ==
  IF r \in present
  THEN [row EXCEPT ![r] = WithId([row[r] EXCEPT !.want = row[r].want \ {k}], k, Nil)]
  ELSE row
Noted(q, k) ==
  \/ row' = Cleared(req[q].id, k) /\ UNCHANGED faults
  \/ Fault("unnoted") /\ UNCHANGED row

(* UPDATE repositories ... WHERE id = repo, once a task is known.          *)
Cached(repo, i) ==
  \/ repoTask' = [repoTask EXCEPT ![repo] = i] /\ UNCHANGED faults
  \/ Fault("unnoted") /\ UNCHANGED repoTask

-----------------------------------------------------------------------------
(* CreateExecutionScheme *)

(* The bounds: every creation finds a row key and the four ids it may use. *)
RoomToCreate ==
  /\ inserted + Cardinality(Creating) < MaxRows
  /\ issued + 4 * (Cardinality(Creating) + 1) <= MaxIds

NameFree(n) ==
  /\ \A r \in present : row[r].name # n
  /\ \A q \in Creating : req[q].s.name # n

StartCreate(q) ==
  /\ req[q].op = "none" /\ "create" \in Handlers
  /\ RoomToCreate
  /\ \E repo \in Repos, p \in pipes, n \in Names, l \in BOOLEAN, w \in Wants :
       /\ DistinctNames => NameFree(n)
       /\ req' = [req EXCEPT ![q] =
            [op |-> "create", pc |-> "resolveTask", id |-> Nil, todo |-> {},
             s |-> [repo |-> repo, pipe |-> p, name |-> n, langs |-> l,
                    want |-> w, ext |-> NoIds]]]
  /\ UNCHANGED <<local, remote, issued, faults>>

(* Steps 1.1 to 1.4: the task cached in the repository row, else the task  *)
(* of any scheme of the repository (written back), else a new one, but     *)
(* only when languages are chosen.  The reads and the write-back are one   *)
(* step, and a read of the repository that fails is left out.              *)
ReusableTasks(repo) ==
  IF repoTask[repo] # Nil THEN {repoTask[repo]}
  ELSE {row[r].ext["task"] : r \in {x \in present : row[x].repo = repo}} \ {Nil}

ResolveTask(q) ==
  LET s == req[q].s IN
  /\ req[q].pc = "resolveTask"
  /\ \/ \E t \in ReusableTasks(s.repo) :
          Cached(s.repo, t) /\ Learn(q, "task", t, "postScheme")
     \/ /\ ReusableTasks(s.repo) = {}
        /\ Goto(q, IF s.langs THEN "postTask" ELSE "postScheme")
        /\ UNCHANGED <<repoTask, faults>>
  /\ UNCHANGED <<present, inserted, row, pipes, remote, issued>>

(* createCheckerTaskStep: a failure ends the request without a rollback.   *)
PostTask(q) ==
  LET s == req[q].s IN
  /\ req[q].pc = "postTask"
  /\ \/ PostSucceeds("task", s) /\ Goto(q, "findTask")
     \/ PostFails("task", s) /\ Reply(q)
  /\ UNCHANGED local

FindTask(q) ==
  LET s == req[q].s IN
  /\ req[q].pc = "findTask"
  /\ \/ \E i \in Matches("task", s) :
          Cached(s.repo, i) /\ Learn(q, "task", i, "postScheme")
     \/ LookupFails("task", s) /\ Reply(q) /\ UNCHANGED repoTask
  /\ UNCHANGED <<present, inserted, row, pipes, remote, issued>>

(* From the scheme on, an error rolls back through the deletion below.     *)
PostScheme(q) ==
  LET s == req[q].s IN
  /\ req[q].pc = "postScheme"
  /\ \/ PostSucceeds("scheme", s) /\ Goto(q, "findScheme")
     \/ PostFails("scheme", s) /\ Goto(q, "delPlan")
  /\ UNCHANGED local

AfterScheme(s) == IF "binding" \in s.want THEN "postBinding"
                  ELSE IF "plan" \in s.want THEN "postPlan" ELSE "insert"

FindScheme(q) ==
  LET s == req[q].s IN
  /\ req[q].pc = "findScheme"
  /\ \/ \E i \in Matches("scheme", s) : Learn(q, "scheme", i, AfterScheme(s)) /\ UNCHANGED faults
     \/ LookupFails("scheme", s) /\ Goto(q, "delPlan")
  /\ UNCHANGED <<local, remote, issued>>

(* CreateMRBindingStep reads the id from the answer of the POST.           *)
PostBinding(q) ==
  LET s == req[q].s IN
  /\ req[q].pc = "postBinding"
  /\ \/ /\ PostSucceeds("binding", s)
        /\ Learn(q, "binding", issued', IF "plan" \in s.want THEN "postPlan" ELSE "insert")
     \/ PostFails("binding", s) /\ Goto(q, "delPlan")
  /\ UNCHANGED local

(* CreateExecutionPlanStep reads the row of the pipeline first.            *)
PostPlan(q) ==
  LET s == req[q].s IN
  /\ req[q].pc = "postPlan"
  /\ \/ s.pipe \in pipes /\ PostSucceeds("plan", s) /\ Goto(q, "findPlan")
     \/ /\ PostFails("plan", s) \/ (s.pipe \notin pipes /\ UNCHANGED <<remote, issued, faults>>)
        /\ Goto(q, "delPlan")
  /\ UNCHANGED local

FindPlan(q) ==
  LET s == req[q].s IN
  /\ req[q].pc = "findPlan"
  /\ \/ \E i \in Matches("plan", s) : Learn(q, "plan", i, "insert") /\ UNCHANGED faults
     \/ LookupFails("plan", s) /\ Goto(q, "delPlan")
  /\ UNCHANGED <<local, remote, issued>>

(* DB.Create; the row may refer to a pipeline deleted in the meantime,     *)
(* which the database may or may not refuse.                               *)
Insert(q) ==
  LET s == req[q].s IN
  /\ req[q].pc = "insert"
  /\ \/ /\ inserted < MaxRows
        /\ inserted' = inserted + 1
        /\ present' = present \cup {inserted'}
        /\ row' = [row EXCEPT ![inserted'] = s]
        /\ Reply(q)
        /\ UNCHANGED faults
     \/ /\ Fault("db") \/ (s.pipe \notin pipes /\ UNCHANGED faults)
        /\ Goto(q, "delPlan")
        /\ UNCHANGED <<present, inserted, row>>
  /\ UNCHANGED <<pipes, repoTask, remote, issued>>

-----------------------------------------------------------------------------
(* SyncDeleteExecutionSchemeRemote, run by all three handlers.  id = Nil   *)
(* is the rollback of a creation: no row is updated.                       *)

AfterDelete(op) == CASE op = "delete" -> "dropRow"
                     [] op = "deletePipeline" -> "nextRow"
                     [] OTHER -> "idle"
\* Mutant: a rollback does not end its request.
FinishNoReply(q) == Goto(q, AfterDelete(req[q].op))
Finish(q) == IF req[q].op = "create" THEN Reply(q) ELSE Goto(q, AfterDelete(req[q].op))

(* The deletion of the plan leaves the in-memory copy as it was.           *)
DeletePlan(q) ==
  LET i == req[q].s.ext["plan"] IN
  /\ req[q].pc = "delPlan"
  /\ \/ /\ i = Nil
        /\ Goto(q, "delBinding")
        /\ UNCHANGED <<row, remote, issued, faults>>
     \/ /\ i # Nil
        /\ DeleteSucceeds(i, FALSE) /\ Noted(q, "plan")
        /\ Goto(q, "delBinding")
     \/ i # Nil /\ DeleteFails(i, FALSE) /\ Reply(q) /\ UNCHANGED row
  /\ UNCHANGED <<present, inserted, pipes, repoTask>>

DeleteBinding(q) ==
  LET i == req[q].s.ext["binding"] IN
  /\ req[q].pc = "delBinding"
  /\ \/ /\ i = Nil
        /\ Goto(q, "delScheme")
        /\ UNCHANGED <<row, remote, issued, faults>>
     \/ /\ i # Nil
        /\ DeleteSucceeds(i, FALSE) /\ Noted(q, "binding")
        /\ Goto(q, "delScheme")
     \/ i # Nil /\ DeleteFails(i, FALSE) /\ Reply(q) /\ UNCHANGED row
  /\ UNCHANGED <<present, inserted, pipes, repoTask>>

DeleteScheme(q) ==
  LET i == req[q].s.ext["scheme"] IN
  /\ req[q].pc = "delScheme"
  /\ \/ /\ i = Nil
        /\ Goto(q, "countTask")
        /\ UNCHANGED <<row, remote, issued, faults>>
     \/ /\ i # Nil
        /\ DeleteSucceeds(i, TRUE) /\ Noted(q, "scheme")
        /\ Goto(q, "countTask")
     \/ i # Nil /\ DeleteFails(i, TRUE) /\ Reply(q) /\ UNCHANGED row
  /\ UNCHANGED <<present, inserted, pipes, repoTask>>

(* The checker task goes when no other row refers to it.  The count and    *)
(* the deletion are two steps.                                             *)
TaskOf(s) == IF s.ext["task"] # Nil THEN s.ext["task"] ELSE repoTask[s.repo]
\* Mutant: the row itself counts as another user of its task.
OtherUsersWithSelf(t, r) == {x \in present : row[x].ext["task"] = t}
OtherUsers(t, r) == {x \in present \ {r} : row[x].ext["task"] = t}

CountTask(q) ==
  LET t == TaskOf(req[q].s) IN
  /\ req[q].pc = "countTask"
  /\ \/ /\ Learn(q, "task", t,
                 IF t # Nil /\ OtherUsers(t, req[q].id) = {} THEN "delTask" ELSE "delAgain")
        /\ UNCHANGED faults
     \/ t # Nil /\ Fault("db") /\ Reply(q)
  /\ UNCHANGED <<local, remote, issued>>

DeleteTask(q) ==
  LET t == req[q].s.ext["task"] IN
  /\ req[q].pc = "delTask"
  /\ \/ /\ DeleteSucceeds(t, TRUE)
        /\ \/ /\ repoTask' = [p \in Repos |-> IF repoTask[p] = t THEN Nil ELSE repoTask[p]]
              /\ Goto(q, "delAgain")
              /\ UNCHANGED faults
           \/ Fault("db") /\ Reply(q) /\ UNCHANGED repoTask
     \/ DeleteFails(t, TRUE) /\ Reply(q) /\ UNCHANGED repoTask
  /\ UNCHANGED <<present, inserted, row, pipes>>

(* The scheme is deleted a second time through its id in memory, and this  *)
(* time a 404 is an error.                                                 *)
DeleteSchemeAgain(q) ==
  LET i == req[q].s.ext["scheme"] IN
  /\ req[q].pc = "delAgain"
  /\ \/ i = Nil /\ Finish(q) /\ UNCHANGED <<row, remote, issued, faults>>
     \/ /\ i # Nil
        /\ DeleteSucceeds(i, FALSE) /\ Noted(q, "scheme")
        /\ Finish(q)
     \/ i # Nil /\ DeleteFails(i, FALSE) /\ Reply(q) /\ UNCHANGED row
  /\ UNCHANGED <<present, inserted, pipes, repoTask>>

-----------------------------------------------------------------------------
(* DeleteExecutionScheme *)

StartDelete(q, r) ==
  /\ req[q].op = "none" /\ "delete" \in Handlers
  /\ r \in present
  /\ req' = [req EXCEPT ![q] =
               [op |-> "delete", id |-> r, s |-> row[r], todo |-> {},
                pc |-> IF HasIds(row[r]) THEN "delPlan" ELSE "dropRow"]]
  /\ UNCHANGED <<local, remote, issued, faults>>

Drop(gone) == /\ present' = present \ gone
              /\ row' = [r \in Rows |-> IF r \in gone THEN Blank ELSE row[r]]

DropRow(q) ==
  /\ req[q].pc = "dropRow"
  /\ \/ Drop({req[q].id}) /\ UNCHANGED faults
     \/ Fault("db") /\ UNCHANGED <<present, row>>
  /\ Reply(q)
  /\ UNCHANGED <<inserted, pipes, repoTask, remote, issued>>

-----------------------------------------------------------------------------
(* DeletePipeline: the rows are read once, taken down one by one, and only *)
(* deleted, with the pipeline, when all of them are down.                  *)

StartDeletePipeline(q) ==
  /\ req[q].op = "none" /\ "deletePipeline" \in Handlers
  /\ \E p \in pipes :
       req' = [req EXCEPT ![q] =
                 [op |-> "deletePipeline", pc |-> "nextRow", id |-> Nil,
                  s |-> [Blank EXCEPT !.pipe = p],
                  todo |-> {[id |-> r, s |-> row[r]] :
                              r \in {x \in present : row[x].pipe = p}}]]
  /\ UNCHANGED <<local, remote, issued, faults>>

NextRow(q) ==
  /\ req[q].pc = "nextRow"
  /\ \E t \in req[q].todo :
       req' = [req EXCEPT ![q] =
                 [req[q] EXCEPT !.todo = req[q].todo \ {t}, !.id = t.id, !.s = t.s,
                                !.pc = IF HasIds(t.s) THEN "delPlan" ELSE "nextRow"]]
  /\ UNCHANGED <<local, remote, issued, faults>>

DropPipeline(q) ==
  LET p == req[q].s.pipe IN
  /\ req[q].pc = "nextRow" /\ req[q].todo = {}
  /\ \/ /\ Drop({r \in present : row[r].pipe = p})
        /\ pipes' = pipes \ {p}
        /\ UNCHANGED faults
     \/ Fault("db") /\ UNCHANGED <<present, row, pipes>>
  /\ Reply(q)
  /\ UNCHANGED <<inserted, repoTask, remote, issued>>

-----------------------------------------------------------------------------
(* A request answered 400 or 404 before it changes anything.               *)
Reject(q) == req[q].op = "none" /\ UNCHANGED vars

(* The process restarts: what was in memory is gone.                       *)
Restart ==
  /\ \E q \in Reqs : req[q].op # "none"
  /\ Fault("restart")
  /\ req' = [q \in Reqs |-> Idle]
  /\ UNCHANGED <<local, remote, issued>>

CreateStep(q) ==
  \/ ResolveTask(q) \/ PostTask(q) \/ FindTask(q) \/ PostScheme(q) \/ FindScheme(q)
  \/ PostBinding(q) \/ PostPlan(q) \/ FindPlan(q) \/ Insert(q)
DeleteStep(q) ==
  \/ DeletePlan(q) \/ DeleteBinding(q) \/ DeleteScheme(q) \/ CountTask(q)
  \/ DeleteTask(q) \/ DeleteSchemeAgain(q)
  \/ DropRow(q) \/ NextRow(q) \/ DropPipeline(q)
Arrive(q) ==
  \/ StartCreate(q) \/ StartDeletePipeline(q) \/ Reject(q)
  \/ \E r \in Rows : StartDelete(q, r)

Next == Restart \/ \E q \in Reqs : Arrive(q) \/ CreateStep(q) \/ DeleteStep(q)

Spec == Init /\ [][Next]_vars

(* A request that has begun goes on (a goroutine per request, every call   *)
(* bounded by the client's timeout), and a user keeps asking for the       *)
(* deletion of a row that is still listed.                                 *)
FairSpec ==
  /\ Spec
  /\ \A q \in Reqs : WF_vars(CreateStep(q) \/ DeleteStep(q))
  /\ \A r \in Rows : SF_vars(\E q \in Reqs : StartDelete(q, r))

-----------------------------------------------------------------------------
(* Properties *)

TypeOK ==
  /\ inserted \in 0 .. MaxRows /\ present \subseteq 1 .. inserted
  /\ row \in [Rows -> SchemeRow]
  /\ pipes \subseteq Pipes
  /\ repoTask \in [Repos -> Ids \cup {Nil}]
  /\ issued \in 0 .. MaxIds /\ remote \subseteq Object
  /\ req \in [Reqs -> Request]
  /\ \A q \in Reqs : req[q].op = "none" <=> req[q].pc = "idle"
  /\ faults \in Nat

Own == Kinds \ {"task"}      \* the objects a scheme does not share

(* While the users respect the uniqueness of names that models.go relies   *)
(* on, two rows never carry the same remote scheme, binding or plan,       *)
(* although their ids are looked up by name in a list other requests and   *)
(* earlier failures have written to.                                       *)
NoSharedRemote ==
  \A r1, r2 \in present, k \in Own :
    row[r1].ext[k] # Nil /\ row[r1].ext[k] = row[r2].ext[k] => r1 = r2

(* What a row says it owns exists: the binding and the plan whose ids are  *)
(* recorded are alive (without lost answers), and an enabled trigger has   *)
(* its id.                                                                 *)
RecordedIsLive ==
  \A r \in present, k \in Triggers :
    /\ row[r].ext[k] # Nil => row[r].ext[k] \in Live
    /\ (k \in row[r].want) <=> (row[r].ext[k] # Nil)

(* A row never disappears while a scheme, binding or plan it records is    *)
(* still alive: the handlers stop before the database when a remote        *)
(* deletion fails.                                                         *)
NoResidueStep ==
  \A r \in present \ present', k \in Own : row[r].ext[k] \notin Live
NoResidue == [][NoResidueStep]_vars

(* Why: no id of the system is newer than the last one issued, so an       *)
(* object once deleted stays deleted; and a deletion remembers the ids of  *)
(* its row and has taken down, at each step, those of the steps before.    *)
DeleteSteps == {"delPlan", "delBinding", "delScheme", "countTask", "delTask",
                "delAgain", "dropRow"}
CascadeSteps == (DeleteSteps \ {"dropRow"}) \cup {"nextRow"}
Past(k) == CASE k = "plan" -> DeleteSteps \ {"delPlan"}
             [] k = "binding" -> DeleteSteps \ {"delPlan", "delBinding"}
             [] OTHER -> DeleteSteps \ {"delPlan", "delBinding", "delScheme"}
IdsIssued ==
  /\ \A o \in remote : o.id <= issued
  /\ \A p \in Repos : repoTask[p] <= issued
  /\ \A k \in Kinds : /\ \A r \in Rows : row[r].ext[k] <= issued
                      /\ \A q \in Reqs : /\ req[q].s.ext[k] <= issued
                                        /\ \A e \in req[q].todo : e.s.ext[k] <= issued
Orderly(q) ==
  /\ req[q].op = "create" => req[q].pc \notin {"dropRow", "nextRow"}
  /\ req[q].op = "deletePipeline" => req[q].pc \in CascadeSteps
  /\ req[q].op = "delete" =>
       /\ req[q].pc \in DeleteSteps
       /\ req[q].id \in 1 .. inserted
       /\ \A k \in Own :
            /\ req[q].id \in present => row[req[q].id].ext[k] \in {Nil, req[q].s.ext[k]}
            /\ req[q].pc \in Past(k) => req[q].s.ext[k] \notin Live
ResidueInv == IdsIssued /\ \A q \in Reqs : Orderly(q)

(* With no request in flight every remote object belongs to a row: a       *)
(* creation that failed has been rolled back completely, and the deletion  *)
(* of the last scheme of a repository took the checker task with it.       *)
NothingLeftBehind ==
  (\A q \in Reqs : req[q].op = "none") =>
     \A o \in remote : \E r \in present : row[r].ext[o.kind] = o.id

(* A deletion the users keep retrying completes.                           *)
RetriedDeleteCompletes == \A r \in Rows : r \in present ~> r \notin present
=============================================================================
