# A TLA+ model of code-pipeline

The repository is the back end (Go: gin, gorm) and the web pages (React) of a
system that manages CI pipelines and code repositories. Its rows stand for
objects of two systems it does not own: a **third-party CI system** (execution
schemes, checker tasks, MR bindings, daily plans) and a **hosting platform**
(groups, projects, branches). Almost every handler changes a row and a remote
object, in several steps, with nothing that makes the two atomic; and the pages
act on copies of the rows that answers, arriving in any order, replace. What
these modules ask is whether the rows and the remote objects stay in step when
calls fail, answers are lost, requests interleave and the process restarts, and
whether the pages ask for what they show.

## 1. Inventory

| Component | State | Operations | Hard behaviour | What makes it correct |
|---|---|---|---|---|
| Scheme life cycle (`handlers/pipeline.go`, `services/pipeline_client*.go`) | `execution_schemes`, `pipelines`, `repositories.code_checker_task_id`; remote tasks, schemes, bindings, plans | create, delete, delete a pipeline with its schemes | up to seven remote calls per request, rollback, lookup of ids by name, tasks shared by the schemes of a repository | a row never goes while its objects live; nothing is left behind; two rows never own one object |
| Scheme update (same files) | one row and its objects | `UpdateExecutionScheme` | the row is written first, then four parts that fail independently; manual changes on the other side | without faults the four parts are in step; never two bindings; a later update repairs |
| Scheme synchronisation (`handlers/pipeline_sync.go`, `components/SyncDiffModal.tsx`) | the same rows; the differences shown | difference, full replacement, confirmation, one item | differences are computed in one request and used in another | what is pulled is no difference any more; one item at a time; no row names a scheme of another pipeline |
| Managed groups (`services/group_sync_queue.go`, `handlers/managed_repo.go`) | `managed_groups`, `managed_repositories`, the queue, the worker's stack | enqueue, walk, import, hide, delete, create and archive repositories | stale lists of the platform applied while users hide and delete; the queue is lost at a restart | an undisturbed task mirrors the platform; hidden stays hidden |
| Pipelines and groups of them (`handlers/pipeline_group.go`, `pages/PipelineConfig.tsx`) | `pipelines`, `pipeline_groups`, the page's copies, dialogs | CRUD, attach, join, detach | dialogs closed and opened with calls in flight, other users' moves, a save that writes back the whole row it read | one call per dialog; a pipeline leaves its group by a detachment from it, or by a save that read it outside any group |
| Token manager (`services/token_manager.go`) | one token, its expiry, a lock | `GetToken`, `ResetTokenCache` | double-checked lock with a time read before waiting | a token handed out lives; one fetch at a time and only when needed |
| Approvals (`handlers/managed_approval.go`, `pages/ManagedApprovals.tsx`) | requests, repositories, rules; drawer and list | approve, reject | check-then-act on the status, remote effect before the row, two administrators | an approved request has its repository; one decision at a time |
| Branch audit, clean-up and batches (`services/branch_audit.go`, `managed_batch_branch.go`, `handlers/managed_repo.go`) | branch monitors, counters, remote branches | audit, clean up, create in a batch | three writers that each act on what they read before; pages read while the platform changes | an undisturbed audit restores the mirror |
| Panel of a repository (`pages/ManagedRepos.tsx`) | branch list, selection, forms, flags | list, audit, clean up, create, notify, grant | late lists of another repository or filter | one call per button; an unmerged branch is deleted only after typing |
| Managed repositories page (same file) | tree, address, selection, forms | select, hide, import, sync, create | the address, the tree and the selection are three states | the selection is the group of the address |
| Scheme form (`components/ExecutionSchemeModal.tsx`, `App.tsx`) | a scheme of App and the sheet's own copies of parts of it | edit, paste, load, save, close | effects copy between the two; answers of an older render | what is shown is what would be sent; one save |
| Repositories page (`pages/Repos.tsx`) | address, search box with its timer, list, unfolded rows | search, filter, page, unfold, run, webhook | a timer against clicks, answers for rows that are gone | spinners end; the box and the address agree; one call per row |
| Committer groups (`handlers/managed_committer.go`, `pages/ManagedCommitters.tsx`) | groups, list, detail, form | create, change, delete, look up | lookups of several groups share flags | the detail spins only while a lookup is awaited; one save and one lookup |
| Compliance engine (`services/compliance_engine.go`) | baselines, reports | audit, grade | count-then-create, delete-then-create | one default baseline, one report per repository |
| Execution reports (`handlers/execution.go`) | reports by task id | report, dashboard | repeated and late reports | a final state stays |
| Webhooks, merge requests, users, options | rows | CRUD, login, SSO | little | – |
| Clients and transport (`services/codehub_client.go`, `utils/http.go`) | none | HTTP with retries, accepted status codes | a timeout says nothing about what was done | modelled as the outcomes of each call |
| `main.go`, test support | none of their own | – | – | – |

The handlers run in goroutines of the HTTP server, one per request, and share
only the database, the token and the sync queue. One background goroutine
drains the queue. There is no lock around a handler and, outside the
transactions named below, none around its database calls. The pages run in the
browser's one thread: an event with its renders and effects is atomic, and
what interleaves are events, timers and answers.

`PROJECT.json` lists all components with what is left out of each, and the
hazards at their lines.

## 2. Modules

| Module | What it is |
|---|---|
| `SchemeLifecycle` | creation, deletion and cascade deletion of schemes; any number of requests in flight |
| `SchemeUpdate` | `UpdateExecutionScheme` of one registered scheme, with manual changes on the other side |
| `GroupSync` | the mirror of the hosting platform: worker, handlers and platform |
| `PipelineSync` | the differences of a pipeline, the items carried either way, and the drawer that shows them |
| `TokenCache` | the token, its lock and its clock |
| `BranchAudit` | the branches of one repository: audits, clean-ups, a batch, and the platform's own changes |
| `Approvals` | requests, two administrators, the page of one of them |
| `Committers` | committer groups, two administrators, the page of one of them |
| `PipelinePage` | pipelines and groups: tables, page, dialogs, another user |
| `RepoPanel` | the panel of a managed repository |
| `ManagedRepos` | the page around that panel |
| `SchemeForm` | the sheet of a scheme |
| `ReposPage` | the list of repositories with schemes and webhooks |
| `Parts` | the eight pages and the two services together: one is shown at a time |
| `SingleFlight` | abstract: what a button promises that is disabled while its call is in flight |
| `…_proofs` | the theorems of the module they are named after; `Services_proofs` has those of `Approvals`, `TokenCache` and `BranchAudit`, `Pages_proofs` those of `SchemeForm`, `ReposPage`, `RepoPanel` and `ManagedRepos`, `Pipelines_proofs` those of `PipelineSync` and `PipelinePage` |
| `MC…` | model values, symmetry, initial states and scenarios for TLC |

A definition written `Name` with a variant of it above under the comment
`Mutant` is a place where a small bug was planted to see which property notices
it; the variants are used by no specification.

**SchemeLifecycle.** A request of `req` is a goroutine: the handler `op`, the next
call `pc`, the in-memory row `s` and, for a cascade, the rows it has read (`todo`).
There is an action per remote call or transaction:

* creation (`CreateExecutionScheme`, `SyncCreateExecutionSchemeRemote`):
  `StartCreate` → `ResolveTask` (an id cached on the repository row, then one of
  another scheme of the repository) → `PostTask`/`FindTask` →
  `PostScheme`/`FindScheme` → `PostBinding` → `PostPlan`/`FindPlan` → `Insert`.
  A failure after the scheme exists enters the deletion steps, as the code's
  rollback does;
* deletion (`SyncDeleteExecutionSchemeRemote`): `DeletePlan` → `DeleteBinding`
  → `DeleteScheme` → `CountTask` → `DeleteTask` → `DeleteSchemeAgain` →
  `DropRow`. The scheme really is deleted twice: the first call accepts 404,
  the second (`services/pipeline_client.go:1440`) does not, which is why
  `Answers404` is a constant;
* cascade (`DeletePipeline`): `StartDeletePipeline` reads the rows, `NextRow`
  takes each down with the steps above, `DropPipeline` deletes rows and
  pipeline in one transaction.

`Faults` says what can go wrong: a refused call, an answer lost after the call
did its work, failed lookups, a database error, a failed write that is only
logged, a restart.

**SchemeUpdate.** `Load` and `Write` store the form; `Reload` reads the row again;
then come `PutScheme`, `PutTask`/`PostTask`, `SyncBinding`/`PutBinding`/`PostBinding`
and `SyncPlan`/`PostPlan`/`FindPlan`. Conditions compare the form with the row as
first loaded (`old`) and the calls use the row as read again (`s`), as the code
does. `EditTask` is a person who renames or recreates a task on the other side. A
scenario, chosen at the start, says how many updates run, with which forms, and
what may fail.

**GroupSync.** `worker` is the goroutine of `StartGroupSyncQueue`: its stack holds a
frame per open call of `syncGroupRecursive` with the children still to visit;
`path`, `projects` and `subs` are the locals of `syncSingleGroupDirect`. `Load`,
`FetchProjects`, `FetchSubgroups` and the transaction `Apply` are separate steps.
`ToggleGroupHide` and `DeleteManagedGroup` read the group in one step (`ReadGroup`)
and change the tables in the next; `CreateManagedRepo` creates the project on the
platform (`CreateRemoteRepo`) and then inserts its row (`InsertRepo`).
`PlatformChange` moves and removes groups, moves and archives projects.

**PipelineSync.** The store is the rows of schemes and what the console holds.
`Updates`, `Additions` and their like are `CalculateExecutionSchemeDiff`;
`PullUpdate`, `PullAdd` and `Push` are the cases of `SyncSingleExecutionSchemeItem`
as the set of stores they may leave. `PushCreate` is the creation of a scheme from a row,
with what its rollback leaves when a step of it fails too (`RolledBack`). A plan is found by
its name in the pipeline of the request (`PlanIds`). A request of the drawer keeps the pipeline
of the render that sent it. Drift is a change on the console or to a row between
the difference and its use.

**BranchAudit.** `audit[a]` is one call of `AuditSingleRepoBranches` with its locals:
`CountBranches` → `GetRemoteBranchesDetail`, page by page → `LoadMonitors` →
`StoreMonitors` → `PruneMonitors` → `SumUp`. Between any two the platform,
another audit, a clean-up or a batch may act. A failed write is logged and the
audit goes on, as in the code. The ghost `alone` says that nothing has.

**TokenCache.** A goroutine looks (`GetToken`), waits, looks again with the time it read
first (`Lock`), fetches (`Fetched`, `FetchFails`) and hands the token to its caller. `Tick`
is the clock, held while a request would outlive its timeout.

**The pages.** One action per event: a click or key with its guard (the condition
under which the button is there and enabled), an effect or timer, an answer. A request is a
record of `waiting` that keeps what the closure of its render held; the server's tables
change and are read when the answer is made. `sent` only bounds the requests.
In `PipelinePage` the handler of a request has two steps: `Read` takes the rows it works on into
`seen`, and the action of its kind writes and answers. `UpdatePipeline` reads at
`handlers/pipeline.go:130` and saves the whole row at `:160`, so that others may act between.
`Approvals`, `Committers`, `PipelinePage` and `RepoPanel` instantiate
`SingleFlight` for their buttons: the flag is its `busy` and the requests of that
kind in flight are its `calls`, so that the property (`OneDecision`, `OneFormCall`,
`OneGroupCall`, `OnePanelCall`) is that the page implements it.

**Parts.** The pages and the services beside them share no state, as App shows one
page at a time and its state ends with it. `PartsSpec` therefore chooses a part at
the start and keeps the others still. It instantiates the pages (`INSTANCE … WITH`,
their variables renamed) and extends `Approvals`, `TokenCache` and `BranchAudit`, whose
names do not meet. Its constants are those of its parts; `MCParts` gives the values.

## 3. Modelling decisions

* A remote call and the write of the id column that follows it are one action;
  the fault `unnoted` is the failure of that write, and a restart between the
  two is the same as `lost`.
* The three retries of a lookup by name are one outcome: found, not found, or
  failed.
* Lists of the CI system are not in our order, so "the first match" is any
  match. The search for a checker task is fuzzy: `Similar` says which names a
  search for a name also returns.
* Names, branches, attributes and languages are model values or a few strings; a
  form carries all fields (an empty field keeps the row's value in the code).
* All URLs are configured. Keys and remote ids are serial numbers and are never
  used twice.
* The database may or may not enforce the foreign keys that gorm declares (its
  driver is not part of the repository); no property depends on it.
* `GroupSync` leaves out `synced_at`, the access rows and the branch audit. A
  group stands for its name, so a full path is the sequence of the groups on it.
  The lists of a group are fetched whole, without the pages. The constant `Wild`
  says which names match as patterns of `LIKE`, which the code does not escape.
  Names never clash: a transaction that a unique index of the tables refuses
  (`models/models.go:193`, `:204`) is one of the faults.
  `ImportGroup` finds the group or does not; it leaves out that a search without an exact
  match returns its first result.
* `SchemeLifecycle`: `ResolveTask` reads the repository's row and writes the id it found
  among the other schemes back to it in one step; a failed read, which the code takes for "no
  id", is left out.
* `PipelineSync`: rows leave only through the page in the model, so `PushCreate` has no row
  that is gone and no use for the copy in the request (`handlers/pipeline_sync.go:942`).
* `RepoPanel`: the table of repositories that a clean-up fetches again (`ManagedRepos.tsx:492`)
  belongs to the page around the panel and is left out of it.
* `BranchAudit` has one repository, and a branch stands for its name and for how old it
  is; the platform lists branches by name.
* `ReposPage`: the setter of `useSearchParams` (react-router-dom 6.30.4, `package.json`)
  hands its updater the parameters of the render it was taken from.
* `TokenCache` assumes that a request ends within the HTTP client's 30 seconds and that a
  lock that is free is handed on at once; the clock does not run backwards.
* The signed-in user of the pages is an administrator, who may click everything.

## 4. Runs

| Run | Shows | Instance |
|---|---|---|
| `LifecycleSequential` | `TypeOK`, `NoSharedRemote`, `NoResidue`, all three handlers | one request at a time, two rows, two faults of all six kinds, fuzzy search |
| `LifecycleConcurrent` | `NoSharedRemote`, `RecordedIsLive`, `ResidueInv`, `NoResidue` | two requests, two rows, one refusal, database error or restart |
| `LifecycleRetry` | `NothingLeftBehind`, `RetriedDeleteCompletes` | one request at a time, fair |
| `UpdateScenarios` | `TypeOK`, `PartsInSync`, `OneBinding`, `OneTask`, `RecordedBindingLive`, `CleanUpdateRepairs` | five scenarios: nothing fails; two calls fail, lose their answers or meet a task made anew; tasks renamed by hand with a fuzzy search; two updates at once with one refusal; an unreadable list |
| `GroupSyncMirror` | `TypeOK`, `Mirrored`, `HideKept` | a chain of three groups with a project, all handlers, one fault or change of the platform |
| `Parts` | one or two properties of each page and service, below | see the table below |
| `CascadeKeepsTask`, `RetryAfterLost`, `PlanNotRetried`, `HiddenRefilled`, `PushSettles`, `UnmergedTyped` | the divergences of section 5 | the smallest that has them |

| Part | Properties | Instance |
|---|---|---|
| `SchemeForm` | `OneSave`, `FormIsShown` | two schemes, two repositories, one pattern, one edit between two openings |
| `RepoPanel` | `OnePanelCall` | two repositories that share a branch name, three requests |
| `ManagedRepos` | `SelectedFollowsUrl`, `TreeListed` | a group and its subgroup, two requests |
| `PipelineSync` | `OneItem`, `OwnPipeline`, `PullSettles` | two pipelines, a scheme in sync and a foreign one, three requests, one drift |
| `PipelinePage` | `OneGroupCall`, `LeftAsRead` | two groups, one pipeline, two requests, one move by another user |
| `Approvals` | `TypeOK`, `ApprovedHasRepo`, `OneDecision` | a request of each kind, two requests of each administrator's making |
| `Committers` | `DetailAwaits`, `OneFormCall` | two rows, two names, three requests |
| `ReposPage` | `SpinnersEnd`, `SearchSettles`, `OneRowCall` | two repositories, two schemes, two pages, three requests |
| `TokenCache` | `HandedFresh`, `OneFetch` | three goroutines, a life of 4, a margin of 2, a request of 1, time to 7 |
| `BranchAudit` | `AuditMirrors` | three branches, two to a page, two audits, four events |

`PartsTypeOK` is the type invariants of the others together.

Why the bounds are enough: two rows are what sharing a task, an id found under
the wrong name or a count of the other users take; two requests are what a
check and an act with another request in between take; two faults let a
rollback or a repair fail as well. Three groups are what a removal that
cascades takes. The scenarios of an update split the form's fields because their product
is too large: each has the fields its properties are about. On the pages, two
requests are what an answer that arrives late takes, and two objects what an
answer for the wrong one takes. Three goroutines let one fetch while two wait with
clocks of different age. Three branches at two to a page are two pages with a
branch that shifts between them, and four events are two clicks and two changes or failures
between them. `MaxIds` is set so that no behaviour within the other bounds runs
out of ids: an update or creation at the limit would be blocked.

Bounds, all of them constants: `MaxRows`, `MaxIds`, `MaxFaults` (SchemeLifecycle,
the scenarios of SchemeUpdate), `QueueCap` (100 in the code), `MaxEvents`
(GroupSync, BranchAudit), `MaxSent` (the pages), `MaxEdits`, `MaxOpens` (SchemeForm),
`MaxDrift` (PipelineSync), `MaxOther` (PipelinePage), `MaxTime` (TokenCache).

Fairness (`LifecycleRetry`, `RetryAfterLost`): a request that has begun goes on
(weak fairness of its steps) because it has a goroutine of its own and every
call ends by the client's timeout; and a user who wants a row deleted keeps
asking while it is listed (strong fairness of `StartDelete`, since a request
slot or the row is not always free). Nothing is assumed of creations. Nothing is
assumed of the pages: `SpinnersEnd` says that a spinner has its answer on the
way, not that the network brings it. Deadlock is checked in the modules of
schemes and groups, where an idle system can always refuse a request (`Reject`),
and not where the bound on clicks lets a page come to rest.

## 5. What disagrees with the documents

Six runs end in a counterexample, each a disagreement between the code and
what it says of itself:

1. `CascadeKeepsTask`: deleting a pipeline with two schemes of one repository
   leaves their checker task behind, because every row is counted as a user of
   the task while the others are taken down. `README.md:14` promises the clean-up.
2. `RetryAfterLost`: the deletions of plan and binding do not accept 404, so a
   deletion whose answer was lost stops at the same call for ever;
   `services/pipeline_client.go:1372` keeps the record "so that it can be retried".
3. `PlanNotRetried`: after a failed deletion of the old plan the next update sees
   an unchanged time and does nothing; `handlers/pipeline.go:565` says it tries again.
4. `HiddenRefilled`: a group hidden while a task is between its fetch and its
   transaction is filled again; `services/group_sync_queue.go:76` says that nothing
   of a hidden group is synchronised any more.
5. `PushSettles`: pushing a plan or binding that the row does not know calls nothing and
   answers success, so the same difference comes back;
   `frontend/src/components/SyncDiffModal.tsx:550` says the local setting wins.
6. `UnmergedTyped`: a late list of another repository or filter decides whether DELETE
   must be typed, so an unmerged branch is deleted after a plain confirmation;
   `frontend/src/pages/ManagedRepos.tsx:1512` says it must be typed.

Others, met while modelling, that have no run of their own. The first two have a definition
in the modules, of which TLC finds counterexamples when it is checked:

* scheme update, `SchemeInSync`: even when nothing fails the remote scheme is not all that
  the row says, though `README.md:13` promises that a change of languages or configuration is
  put to it. The scheme is put when its name, attributes or languages change
  (`handlers/pipeline.go:474`), so an update of the branch alone leaves the old branch there
  (`Scenarios <- OnlyBranch`; the web form repeats the branch among the custom attributes, which
  hides it). And it is put at `:475` before the update creates the task at `:489`, with the
  empty id of a task, and not again (`Scenarios <- OnlyLangs`). `PartsInSync` therefore
  claims neither;
* pipelines, `LeftByDetach`: a save without a group keeps the group of the row as it read it, so a
  pipeline attached between the read and the save (`handlers/pipeline.go:130`, `:160`) leaves the
  group again, though `docs/pipeline_group_review.md:93` asks that only an explicit
  detachment takes it out. `LeftAsRead` admits this case and no other;
* schemes: with `deletePipeline` among the handlers of `LifecycleConcurrent`, `NoResidue`
  fails, as a scheme created while the cascade works is dropped with its objects alive;
  a rename is not carried to the MR binding (`handlers/pipeline.go:506` says that it is); a failed
  query of the bindings counts as "none", so that a second POST is tried (a binding or
  task is then there twice, which is why the scenario with an unreadable list does not
  claim `OneBinding` of such behaviours); a binding found by its query is used without
  its id being saved; scheme names are said to be unique (`models/models.go:114`) and are
  not; after the second deletion of the scheme fails, the repository keeps the id of a task
  that is gone and the next creation reuses it;
* groups: below a group that was moved on the platform, descendants keep their old path until
  they are visited, and hiding or deleting the group misses them; an underscore in a path
  is a wildcard of `LIKE`;
* differences: a late answer for another pipeline is shown under the present title, a
  refresh opens the closed drawer again, an addition pulled twice from one difference
  is refused or doubled, and the confirmation of all differences
  (`PipelineConfig.tsx:483`) is never called by the drawer;
* scheme form: the comment at `ExecutionSchemeModal.tsx:478` (closing asks about unsaved
  changes) fails (`UnsavedAsked`, kept as a definition); the proposed group is overwritten;
* approvals: a rejection and an approval may overwrite each other's status; a remote
  repository is orphaned when its row cannot be stored or the answer of its creation is lost,
  and the request then stays stuck;
  errors of the protection call are ignored; an answer closes the drawer of another request;
* committers: a late lookup names another form; a verified badge survives a changed id;
  saving a deleted row inserts it again; a late detail shows another group's data and stops
  the spinner of the one still awaited; two groups of one name are refused by the unique index
  alone, as two handlers may both have looked before either saves;
* pipelines: the option "no group" of the form has no effect; attributes fetched late overwrite
  another form; the pipeline form has no flag against a second save; a stale edit
  moves a pipeline back;
* repositories page: a filter chosen within 400 ms of a key is lost; folded rows keep
  stale schemes after a save; lists of an older filter may replace newer ones; a row that
  leaves and comes back forgets that it is registering; the body of a refused list of schemes is
  stored as the row's schemes (`Repos.tsx:191`), which cannot be drawn (`:620`; the model
  shows no schemes then);
* branches: two audits at once leave double rows that no later audit removes while the
  branch lives; when the number of branches cannot be read, the rows of branches beyond
  the first page are dropped; an audit that listed earlier prunes the row of a batch;
* execution reports: a late "running" overwrites a final state (`handlers/execution.go:135`).

## 6. Proofs

Each theorem holds for every value of the constants, under the assumption named.

`SchemeLifecycle_proofs` (assuming `ConstantsAssumption`, the types of the constants):

* `TypeCorrect`: `Spec => []TypeOK`. Besides shapes, it says that a request is idle
  exactly when no handler serves it and that ids are within those issued.
* `DeletionInOrder`: `Spec => []ResidueInv`; all three handlers, any number of requests,
  all faults.
* `ResidueFree`: `Spec => NoResidue`, if `deletePipeline` is not among the handlers or
  requests come one at a time (`Sequential`). That a cascade runs alone is needed:
  section 5 has the counterexample with a concurrent one.
* `NothingShared`: `Spec => []NoSharedRemote`, if no name is reused (`DistinctNames`); all
  three handlers, any number of requests, all faults.
* `RecordedLives`: `Spec => []RecordedIsLive`, under the same condition, and without lost
  answers or identifiers that are not noted (`NoLoss`; both leave a column that disagrees
  with its trigger); again all three handlers, any number of requests.
* `NothingBehind`: `Spec => []NothingLeftBehind`, with distinct names, without
  `deletePipeline`, for one request at a time (`Sequential`), one repository (`OneRepo`) and at
  most one fault, which did nothing and is reported (`OneFailure`). TLC shows that two repositories
  or a second fault violate the invariant `TidyInv`.

`NoResidue` is not inductive: that the row may go at `DropRow` follows from what the
steps before it did. `ResidueInv` says so. Its first part, `IdsIssued`, is that no id
anywhere is newer than the last one issued; hence an object that is gone stays gone,
because a POST creates only newer ids. Its second part, `Orderly(q)`, is that a
deletion at a given step carries the ids that its row has (or an empty column, when
another deletion emptied it) and that each object whose step is past is not alive. The
proof has one lemma per action for each part; the two frame lemmas `MovedKept` and
`OrderlyFrame` carry the requests that another request's step does not move. `ResidueInv`
was checked by TLC in `LifecycleConcurrent` before it was proved.

A cascade drops its rows without looking at them again, one statement for the whole
pipeline, from the copies it read at its start. For it, `CascadeInv` adds that each row
of the pipeline is `Covered`: it is still to be visited, is being taken down, or records
nothing alive (`Clean`), and that a copy holds what its row has, or had before the row was
emptied (`Copied`). When the list is empty, every row is therefore clean and may go
(`PipelineLeavesClean`). `Covered` fails as soon as another request may create a row
behind the cascade, hence `Sequential`. TLC checked `CascadeInv` on the instance of
`LifecycleSequential`.

`NothingShared` rests on names: rows and creations in flight have distinct names
(`NamesApart`), and whatever identifier one of them holds, the object with it has its kind and its name
(`HeldByName`), although identifiers are also found by name among what earlier failures
left.

`RecordedLives` adds what the requests hold. What a creation will record is alive
(`BuildersLive`). A deletion works on copies, of the row it takes down and, in a cascade, of
the rows it has still to visit; `CopiesLive` says that each copy is `Faithful`: an object
alive that a copy would delete is in its row too, which the deletion therefore empties, or
the object is `Forgotten`: its row went with its pipeline, nobody records it, and no creation
will find it by its name. Random simulation with TLC, three requests and two pipelines,
showed that the invariant fails without `Forgotten`: a cascade may drop a row of which
another deletion still holds a copy. With it, simulation found no violation; a run that is
exhaustive for all three handlers at the same time is only feasible without faults, and is
not among the runs.

For `NothingBehind` the invariant accounts for every remote object (`Accounted`): a row
records it, or the one request in flight knows its identifier or is about to look it up.

`Services_proofs`, of `TokenCache` (assuming `TokenAssumption`: the margin is shorter than
the life):
`TokenTypeCorrect`, `TokensLive` (`[]HandedFresh`) and `FetchedWhenNeeded` (`[]OneFetch`).
The invariant adds that the cache never believes a token to live longer than it does
(`Honest`), that a request is not older than its timeout (`Prompt`), and
`OldClockHarmless`: the time a waiting goroutine holds is old, but the cached token, if
it is fresh at that time and not now, would have been handed out before the wait. That
is the answer to the question the second look raises.

and of `Approvals` (assuming that each request has a kind the page knows): `TypeCorrect`,
`ApprovedWithRepo` (`[]ApprovedHasRepo`; the invariant says of each approval in flight
which of platform, table and request it has already filled, and that nothing is ever
taken away) and `OneDecisionAtATime`, a refinement of `SingleFlight`;

and of `BranchAudit` (assuming `Sensible`: finitely many branches, in an order, and pages that
are not empty):

* `AuditTypeCorrect` (`BASpec => []BATypeOK`), with the ids of the rows unique. An
  identifier is never given twice, so a row an audit has read is, by its identifier,
  the row there is or one that is gone (`IdsKept`); the rows a step leaves are, by
  identifier and name, rows there were or new ones (`Grown`).
* `AuditMirrorsEver` (`BASpec => AuditMirrors`). The invariant `Told` says what an
  undisturbed audit knows at each step. While it reads, the pages it has are full and hold the
  first branches in the order of the platform (`Reading`), so that with the last page
  every branch is listed once (`Complete`); that the number of pages suffices is
  `PagesAre`. When it has stored, every branch has a row of its age (`Stored`), and a row
  of no branch is one the audit has read, which the pruning takes; the pruning takes no
  other, as identifiers name for good. A write by anybody else makes `alone` false
  (`ToldBy`, `Silenced`), which is all that needs to be said of the others, however many they are.
  The lemmas on `Place` and `Nth` (a number's place in a finite set, and
  the number at a place) are proved from a bijection; that a set of numbers with a bound has a
  greatest, from the well-foundedness of their order.

`Pages_proofs`, of `RepoPanel` (`PanelTypeCorrect`, `OneCallPerButton`), `Committers_proofs` (`TypeCorrect`,
`DetailAwaited`, `OneCallOfForm`; assuming `Sensible`: the sets are not empty and `None` is not an id) and
`Pipelines_proofs`, of `PipelinePage` (`PageTypeCorrect`, `OneCallPerDialog`, `LeavesAsRead`; the last assuming that
`None` is not a group). The refinements of `SingleFlight` all rest on the same
invariant: a flag is set exactly when one call of its kind is in flight. The flag
alone is not inductive, since an answer may clear it only because there is no second
call. `DetailAwaited` (`[]DetailAwaits`) holds because the answer, the refusal and the failure of such a
lookup all stop the spinner, and nothing else takes the lookup away. `LeavesAsRead` (`LeftAsRead`) needs that a
pipeline has one row, and that what a handler read (`seen`) is of that row: a save that read a
group writes a group. The types are proved first
(`PanelTyped`, `PageTyped`), with what the closures of requests keep, as an answer writes that into the page.

`Pages_proofs`, of `SchemeForm` (assuming its `Sensible`: the schemes of the list are schemes, and
a selection of branches they record is that of their branches):

* `OneSaveEver` (`Spec => []OneSave`), `FormTypeCorrect` (`[]TypeOK`) and `FormShownEver`
  (`[]FormIsShown`). The invariant `FormInv` says three things of the sheet. The attributes
  last read are those its parameters and build types show (`Reads`), also while it is
  closed: an opened scheme with the same attributes is not parsed again. While it is
  open these attributes are the scheme's, the switches and the text are copies of the
  scheme (`Copies`) and the recorded selection is of its branches (`Selects`). And a late
  answer that replaces the scheme carries a new one, which has nothing
  to agree with yet (`Fits`). One lemma, `SettleRenders`, does the renders and effects for all
  events; every edit then shows only that what it writes into both agrees.
  TLC checked `FormInv` on the instance of the run `Parts` (1.4 million states) first.

and of `ReposPage` (assuming its `Sensible`, the types of the constants):

* `ListTypeCorrect`, `SpinnersEndEver` (`[]SpinnersEnd`), `SearchSettlesEver`
  (`[]SearchSettles`) and `OneRowCallEver` (`[]OneRowCall`). While a key waits, the box has
  the text of the key or the search of an address chosen since (`BoxSettles`); when the
  timer writes over an older address, either agrees with what is written. A
  row that is asked about its webhook has exactly one call of the kind its flag names,
  and a call whose row has gone tells nobody (`RowTells`, `CallFits`). Each event touches
  calls of some kinds only (`Only`), which carries the parts about other kinds over.

`SchemeUpdate_proofs` (assuming `ConstantsAssumption`, the types of the constants and
scenarios): `TypeCorrect`; `RecordedBindingExists` (`[]RecordedBindingLive`), which is
inductive beside the types, for any number of updates at once; `OneBindingEver` and
`OneTaskEver` (`[]OneBinding`, `[]OneTask`), for a finite set of slots. Both properties are
about a creation that happens only after a look found nothing, so both invariants say that
while an update stands before the POST there is nothing yet (`CreatesOnce`,
`CreatesTaskOnce`). For the binding the look itself says so, as it lists all bindings of the
scheme. The task is looked for by name in a fuzzy search, and the invariant needs one of two
reasons: without lost answers every task is recorded (`TasksRecorded`: a row, or the copy
of it an update goes by, is without a task only if there is none); with lost answers all
names are one (`NamesKnown`), so that the search finds any task there is. A scheme that is
renamed after a lost answer does get a second task; `OneTask` states the
condition (`TasksFound`).

`PartsInSyncEver` (`[]PartsInSync`, finitely many slots) is about name, attributes and
languages of the scheme, the languages of the task, the binding and the plan; the branch and the
task in the scheme's own parameters are excluded, as section 5 shows. Its invariant says what each stage of an update has already brought
into step: `InStep` goes with the update from stage to stage, and says of the copy of the
row it carries that it is what will be saved. TLC checked it over 4.6 million states
before. `CleanUpdateAlwaysRepairs` (`CleanUpdateRepairs`) is for scenarios in which answers are
lost or searches are fuzzy, not both; with both TLC finds two tasks of which the row knows neither,
and an update without a fault goes by the wrong one. Its invariant `Mends` keeps no
history of the faults: whatever they left, the row names the task it refers to
(`RowNamesTask`), and an update that is clean so far stands before steps that will mend the
languages (`MendsTask`) and the binding (`MendsBinding`) if it changes them.
`ConstantsAssumption` says, too, that the empty name is none of `Names`.

`GroupSync_proofs` (assuming `ConstantsAssumption`, and `ForestAssumption`: at the
beginning no group of the platform is above itself):

* `HiddenStaysHidden` (`HideKept`), for any queue and any faults. The invariant says
  that, while nothing has changed on the platform, each row is where the platform has it
  (`Placed`), and that the lists the worker holds are those of the group it is at, which is not
  hidden unless a handler interfered (`AtGroup`). So the transaction of the worker takes no
  row away (`NothingUnlisted`), although it was decided from lists read earlier.
* `TypeCorrect` (`[]TypeOK`). A path is computed by recursion over the tree of the
  platform, in which people move groups. `PathsExist` shows that the recursive definition
  has a value: the finite approximations of the path function agree (`ApproximationsAgree`)
  and cover all groups, both by taking a group without a parent in the set where it would
  fail, which the forest provides. This replaces induction, and `MoveKeepsForest` shows
  that a move below a group that is not below the moved one keeps the forest.
* `TaskMirrors` (`[]Mirrored`), for any tree, whatever rows, stale parents and stale paths
  earlier tasks, faults and handlers left, if names match only themselves (`Literal`).
  While nothing interferes, the worker has a set `M` of groups whose rows are as the
  platform has them and a set `D` of groups it is done with: hidden, or in `M` with all
  subgroups in `D` (`Going`). The frames of its stack stand for what is neither (`Frames`), and the
  rows that were reached keep the right paths (`Tables`), because the transaction of one group
  removes only rows below stale rows: with literal names a path that is a proper
  prefix of a right path is a right path (`LikePrefix`). `Rooted` says that the worker never
  writes the root of its task anew, `GoneClosed` that what is removed on the platform
  goes with all that is below. When the root is in `D`, so is every group the task had
  to walk to (`GoingMirrors`): the highest that is not would have its parent in `D`.
  TLC checked the conjunction of these invariants on the instance of `GroupSyncMirror` (2.0
  million states) first. The condition is needed: with five groups, two changes on
  the platform and two names that LIKE takes for patterns of others, TLC finds
  a task that removes the row of a group it had finished. A name with an underscore
  is such a pattern.

`Pipelines_proofs`, of `PipelineSync` (assuming `Sensible` where it says so: the store is consistent at first,
that is, typed, with identifiers that are one row's or one scheme's, no row that names a
scheme of another pipeline, and none that names an identifier still to be issued):

* `OneItemAtATime` (`Spec => []OneItem`, for any store): the flag is set exactly when
  one call carries an item or the differences asked for after it. The call changes shape
  on the way, so there is a lemma for each way the set of such calls changes (`CarrySame`,
  `CarryOn`, `CarryBegins`, `CarryEnds`).
* `OwnPipelineOnly` (`[]OwnPipeline`) and `TypeCorrect` (`[]TypeOK`), if `Sensible`. An item is made
  of differences that may be stale and of another pipeline than the title. What saves it is that an
  identifier belongs to a pipeline for good: `Owned(p, e)` says that no scheme `e` is of a pipeline
  other than `p`, whether or not there still is one, and `RowOf(p, r)` the same of a row. As identifiers are
  not issued twice, both survive every step (`Known`, `OwnedStays`, `RowStays`), so that all
  that differences and requests in flight name stays their pipeline's (`DiffFits`,
  `CallFits`), and each of the ways an item is carried keeps the rows apart (one lemma
  each, all through `Follows`). TLC checked the invariant `Inv` and the step property
  `Known` on the instance of the run `Parts` first.
* `PulledSettles` (`[]PullSettles`), if `Sensible`. Of several rows with the identifier
  of a remote scheme the handler's map keeps the last; the row a pull goes to was the
  last, or the only one that will have the identifier, so it is matched again
  (`TheMatch`), and then nothing differs. That a last one exists is `LatestIs`, from the
  well-foundedness of the order on numbers.

`PushSettles` is false, see section 5.

`Pages_proofs`, of `ManagedRepos` (assuming its `Sensible`: departments of users are departments or
`None`, and `None` is no group):

* `TreeTypeCorrect` (`[]TypeOK`) and `SelectedFollowsUrlEver` (`[]SelectedFollowsUrl`). The
  effect chooses by the address, but an answer about hiding or deleting puts back the selection
  of its click; that the list changes with it, so that the effect runs again, keeps the two
  together. The invariant adds the shapes, also of what those requests keep (`Chose`).

* `TreeListedEver` (`[]TreeListed`), if moreover `Forest`: the groups are finitely many and some depth
  grows downward. The sidebar is made by three recursive functions: `Ancestors`, the
  depth-first search, and the flattening of its pieces. That a recursive function
  has the values its equation says is proved by induction on Nat (`UpFromZero`, from the
  well-foundedness of the order) over the depths, heights and lengths up to which it has
  (`AncestorsIs`, `DfsIs`, `FlattenIs`). `Under(g, gs)` is
  the least set with `g` and with the children of its groups; it is the group and, apart from one another,
  what is under each child (`ChildrenAre`), and a list is what is under its roots
  (`RootsAre`). `Laid(s, X)` says that `s` has the groups of `X` once each, and each group
  before those below it with no others between; this survives putting two sequences one after the
  other (`LaidJoined`), a group in front (`LaidBefore`) and a walk over peers
  (`ForEachLaid`), so that the search lays out what is under each group
  (`TreeLaid`). That the order by name has an enumeration is `ByNameIs`.

`Parts_proofs` (assuming `PartsAssumption`, the assumptions of the parts together, which TLC
evaluates on the values of `MCParts`) carries the above to `PartsSpec`: **every property of the
run `Parts` is a theorem for all values of its constants.** For each page a lemma
(`FormSame`, …) says that its definitions are those its theorems are about, and
another (`FormBehaves`, …) that a behaviour of `PartsSpec` is one of the page, for its steps are
steps of that page or leave it alone. `PartsTypeCorrect` joins the type invariants. For the
refinements of `SingleFlight` the two copies of the abstract specification are shown equal
action by action.

What stays with TLC:

* `RetriedDeleteCompletes`, as liveness under fairness and ENABLED are beyond the prover. It is the only
  property of a passing run that no theorem states.
* The properties of the six runs of section 5, which the code violates.

Recursion is written as recursive functions, as the prover cannot use `RECURSIVE` operators.

## 7. Not modelled

* Handlers with one plain row change and no second step: webhooks, merge requests, system
  options, dashboard. Execution reports (an upsert by task id) and the scores of
  compliance are planned, see section 8.
* The login: it rests on a portal library that is not part of the repository.
* Formatting, parsing, logging and transport, beyond the outcomes of a call.
* `CreateManagedApproval`, the log of a batch and the protected-branch rules behind a request
  (their effect is an insert after a call whose error is ignored).
* `SyncExecutionSchemes` and `ConfirmSyncExecutionSchemes`: the full replacement of a
  pipeline's rows and the confirmation of a whole difference.
* The pages Dashboard, Users, Options and Compliance: lists with no state of their own.

## 8. Plan

1. The full replacement and the confirmation of differences, over the store of `PipelineSync`.
2. `ExecutionReport` (late and repeated reports) and `Compliance` (its scoring as
   operators checked against their thresholds).
3. `GroupSync` with a wider tree and names that match as patterns; the end of every task.
