------------------------------ MODULE GroupSync ------------------------------
(***************************************************************************)
(* The mirror of the hosting platform's groups and projects: the tables    *)
(* managed_groups and managed_repositories, the background queue that      *)
(* brings a subtree up to date (services/group_sync_queue.go) and the      *)
(* handlers of handlers/managed_repo.go that import, hide and remove       *)
(* groups and create, hide and archive repositories at the same time.      *)
(*                                                                         *)
(* One worker takes one task at a time and walks the subtree, parents      *)
(* first.  For every group it reads the two lists of the platform and      *)
(* then, in one transaction, applies the differences to the tables.  The   *)
(* platform is external; people move, remove and archive things there.     *)
(***************************************************************************)
EXTENDS Naturals, Sequences, FiniteSets, Functions

CONSTANTS
  Groups, Projects, \* identifiers of the platform, the keys of the tables
  Roots,            \* the groups that users import
  Up0, Home0,       \* the tree of the platform at the beginning
  Wild,             \* <<g, h>>: LIKE takes the name of g for a pattern of h's
  QueueCap,         \* capacity of syncQueue
  MaxEvents,        \* bound: changes made on the platform, and faults
  Handlers          \* the handlers the users call

None == "none"      \* no parent, no group, no task

ASSUME ConstantsAssumption ==
  /\ None \notin Groups \cup Projects
  /\ Up0 \in [Groups -> Groups \cup {None}]
  /\ Home0 \in [Projects -> Groups \cup {None}]
  /\ Roots \subseteq Groups
  /\ Wild \subseteq Groups \X Groups
  /\ QueueCap \in Nat \ {0} /\ MaxEvents \in Nat

(* No group of the platform is above itself.                               *)
ASSUME ForestAssumption ==
  \A T \in SUBSET Groups : T # {} => \E g \in T : Up0[g] \notin T

VARIABLES
  groups,   \* rows of managed_groups, by id
  repos,    \* rows of managed_repositories, by id
  queue,    \* syncQueue
  worker,   \* the worker's state
  admin,    \* a handler between its reads and its transaction
  up, home, \* the platform: parent of a group, group of a project
  archived, \* the platform: projects archived there
  gone,     \* the platform: groups removed there
  moves,    \* changes made there so far
  faults,   \* faults so far
  calm      \* history: nothing interfered with the task of the worker

platform == <<up, home, archived, gone, moves>>
vars == <<groups, repos, queue, worker, admin, platform, faults, calm>>

-----------------------------------------------------------------------------
(* Rows.  A full path is the sequence of the groups on it; a name is unique *)
(* among its siblings, so a group stands for its own name.                 *)

GroupRow == [parent: Groups \cup {None}, path: Seq(Groups), hidden: BOOLEAN]
RepoRow == [home: Groups, archived: BOOLEAN, hidden: BOOLEAN]

Put(f, x, v) == [y \in DOMAIN f \cup {x} |-> IF y = x THEN v ELSE f[y]]
Without(f, S) == Restrict(f, DOMAIN f \ S)

Children(g) == {s \in DOMAIN groups : groups[s].parent = g}
ReposIn(S) == {r \in DOMAIN repos : repos[r].home \in S}

(* full_path LIKE path || '/%': the descendants of a group, by their paths. *)
Like(p, q) ==
  /\ Len(p) < Len(q)
  /\ \A i \in 1 .. Len(p) : p[i] = q[i] \/ <<p[i], q[i]>> \in Wild
Under(path) == {d \in DOMAIN groups : Like(path, groups[d].path)}

(* The platform. *)
Exists(g) == g \in Groups \ gone
SubgroupsOf(g) == {s \in Groups \ gone : up[s] = g}
ProjectsOf(g) == {p \in Projects : home[p] = g}
Listed(g) == [p \in ProjectsOf(g) |-> p \in archived]   \* what the call returns
PathOf[g \in Groups] == IF up[g] = None THEN <<g>> ELSE Append(PathOf[up[g]], g)

Frame == [g: Groups, todo: SUBSET Groups]
Nothing == [x \in {} |-> FALSE]
Idle == [pc |-> "idle", task |-> None, stack |-> <<>>, path |-> <<>>,
         projects |-> Nothing, subs |-> {}]
NoRequest == [op |-> "none", g |-> None, p |-> None, path |-> <<>>, hidden |-> FALSE]

Init ==
  /\ groups = Nothing /\ repos = Nothing
  /\ queue = <<>> /\ worker = Idle /\ admin = NoRequest
  /\ up = Up0 /\ home = Home0 /\ archived = {} /\ gone = {}
  /\ moves = 0 /\ faults = 0 /\ calm = FALSE

Event == moves + faults < MaxEvents
Fault == Event /\ faults' = faults + 1

-----------------------------------------------------------------------------
(* The queue and the worker *)

(* SyncManagedGroup: the task is refused when the queue is full.           *)
\* Mutant: one task too many.
RoomForOneMore == Len(queue) <= QueueCap
Room == Len(queue) < QueueCap
Enqueue(g) ==
  /\ "sync" \in Handlers
  /\ g \in DOMAIN groups
  /\ queue' = IF Room THEN Append(queue, g) ELSE queue
  /\ UNCHANGED <<groups, repos, worker, admin, platform, faults, calm>>

(* A task for a group that is not there any more is dropped.               *)
Take ==
  LET g == Head(queue) IN
  /\ worker.pc = "idle" /\ queue # <<>>
  /\ queue' = Tail(queue)
  /\ worker' = IF g \in DOMAIN groups
               THEN [Idle EXCEPT !.pc = "enter", !.task = g, !.stack = <<[g |-> g, todo |-> {}]>>]
               ELSE Idle
  /\ calm' = (g \in DOMAIN groups)
  /\ UNCHANGED <<groups, repos, admin, platform, faults>>

Top == worker.stack[Len(worker.stack)]
Below == SubSeq(worker.stack, 1, Len(worker.stack) - 1)
(* The call for the current group returns, with an error or without.       *)
Return == worker' = [Idle EXCEPT !.task = worker.task, !.stack = Below,
                                 !.pc = IF Len(worker.stack) = 1 THEN "finish" ELSE "next"]

(* syncGroupRecursive: hidden groups are skipped.                          *)
Skipped(g) == g \in DOMAIN groups /\ groups[g].hidden
Enter ==
  LET g == Top.g IN
  /\ worker.pc = "enter"
  /\ \/ /\ (g \in DOMAIN groups => Skipped(g))
        /\ Return
     \/ /\ g \in DOMAIN groups /\ ~Skipped(g)
        /\ worker' = [worker EXCEPT !.pc = "load"]
  /\ UNCHANGED <<groups, repos, queue, admin, platform, faults, calm>>

(* syncSingleGroupDirect: the group is loaded again, the two lists of the  *)
(* platform are fetched, the differences are applied.                      *)
Load ==
  LET g == Top.g IN
  /\ worker.pc = "load"
  /\ IF g \in DOMAIN groups
     THEN worker' = [worker EXCEPT !.pc = "projects", !.path = groups[g].path]
     ELSE Return
  /\ UNCHANGED <<groups, repos, queue, admin, platform, faults, calm>>

FetchFails(g) ==
  /\ \/ Fault
     \/ ~Exists(g) /\ UNCHANGED faults
  /\ Return
  /\ calm' = FALSE

FetchProjects ==
  LET g == Top.g IN
  /\ worker.pc = "projects"
  /\ \/ /\ Exists(g)
        /\ worker' = [worker EXCEPT !.pc = "subgroups", !.projects = Listed(g)]
        /\ UNCHANGED <<faults, calm>>
     \/ FetchFails(g)
  /\ UNCHANGED <<groups, repos, queue, admin, platform>>

FetchSubgroups ==
  LET g == Top.g IN
  /\ worker.pc = "subgroups"
  /\ \/ /\ Exists(g)
        /\ worker' = [worker EXCEPT !.pc = "apply", !.subs = SubgroupsOf(g)]
        /\ UNCHANGED <<faults, calm>>
     \/ FetchFails(g)
  /\ UNCHANGED <<groups, repos, queue, admin, platform>>

(* A project that is archived on the platform is archived and hidden here; *)
(* one that is not keeps what the users chose.                             *)
\* Mutant: the row stays with the group it was in.
MirroredRepoNotMoved(p, g) ==
  IF p \in DOMAIN repos /\ ~worker.projects[p] THEN repos[p]
  ELSE [home |-> g, archived |-> worker.projects[p], hidden |-> worker.projects[p]]
MirroredRepo(p, g) ==
  IF p \in DOMAIN repos /\ ~worker.projects[p]
  THEN [repos[p] EXCEPT !.home = g]
  ELSE [home |-> g, archived |-> worker.projects[p], hidden |-> worker.projects[p]]

\* Mutant: a group that is already there is written anew.
MirroredGroupAnew(s, g, path, there) ==
  [parent |-> g, path |-> path, hidden |-> FALSE]
MirroredGroup(s, g, path, there) ==
  IF there THEN [groups[s] EXCEPT !.parent = g, !.path = path]
  ELSE [parent |-> g, path |-> path, hidden |-> FALSE]

(* Direct subgroups that the platform does not list go, with the groups    *)
(* below them.  Names never clash in the model: a transaction that a       *)
(* unique index of the tables refuses is one of the faults.                *)
Unlisted(g, subs) ==
  LET direct == Children(g) \ subs
  IN direct \cup UNION {Under(groups[s].path) : s \in direct}

Apply ==
  LET g == Top.g
      lost == Unlisted(g, worker.subs)
      listed == DOMAIN worker.projects
      mirrored == [p \in (DOMAIN repos \ (ReposIn({g}) \ listed)) \cup listed |->
                     IF p \in listed THEN MirroredRepo(p, g) ELSE repos[p]]
      kept == DOMAIN groups \ lost IN
  /\ worker.pc = "apply"
  /\ \/ /\ repos' = Without(mirrored, {p \in DOMAIN mirrored : mirrored[p].home \in lost})
        /\ groups' = [s \in kept \cup worker.subs |->
                        IF s \notin worker.subs THEN groups[s]
                        ELSE MirroredGroup(s, g, Append(worker.path, s), s \in kept)]
        /\ worker' = [Idle EXCEPT !.pc = "children", !.task = worker.task, !.stack = worker.stack]
        /\ UNCHANGED <<faults, calm>>
     \/ /\ Fault /\ Return /\ calm' = FALSE
        /\ UNCHANGED <<groups, repos>>
  /\ UNCHANGED <<queue, admin, platform>>

(* The direct subgroups are read from the table and visited in turn.       *)
ReadChildren ==
  /\ worker.pc = "children"
  /\ worker' = [worker EXCEPT !.pc = "next",
                              !.stack = Append(Below, [Top EXCEPT !.todo = Children(Top.g)])]
  /\ UNCHANGED <<groups, repos, queue, admin, platform, faults, calm>>

NextChild ==
  /\ worker.pc = "next"
  /\ \/ \E s \in Top.todo :
          /\ worker' = [worker EXCEPT !.pc = "enter",
               !.stack = Append(Append(Below, [Top EXCEPT !.todo = @ \ {s}]), [g |-> s, todo |-> {}])]
     \/ Top.todo = {} /\ Return
  /\ UNCHANGED <<groups, repos, queue, admin, platform, faults, calm>>

(* The task is over, whatever became of it.                                *)
Finish ==
  /\ worker.pc = "finish"
  /\ worker' = Idle /\ calm' = FALSE
  /\ UNCHANGED <<groups, repos, queue, admin, platform, faults>>

-----------------------------------------------------------------------------
(* The handlers.  Those that hide or remove a group read it before their   *)
(* transaction begins.                                                     *)

(* CreateManagedGroup: a path that exists on the platform, as a local root. *)
(* Its other choice, the first result of a search for the path, is left out. *)
ImportGroup(g) ==
  /\ "import" \in Handlers
  /\ g \in Roots /\ Exists(g) /\ g \notin DOMAIN groups
  /\ groups' = Put(groups, g, [parent |-> None, path |-> PathOf[g], hidden |-> FALSE])
  /\ calm' = FALSE
  /\ UNCHANGED <<repos, queue, worker, admin, platform, faults>>

ReadGroup(op, g) ==
  /\ op \in Handlers /\ admin = NoRequest
  /\ g \in DOMAIN groups
  /\ admin' = [op |-> op, g |-> g, p |-> None, path |-> groups[g].path,
               hidden |-> op = "hide" /\ groups[g].hidden]
  /\ UNCHANGED <<groups, repos, queue, worker, platform, faults, calm>>

(* ToggleGroupHide: hiding removes everything below the group.             *)
ToggleGroupHide ==
  LET g == admin.g
      below == Under(admin.path)
      row == [groups[g] EXCEPT !.hidden = TRUE] IN
  /\ admin.op = "hide"
  /\ \/ /\ ~admin.hidden
        /\ groups' = IF g \in DOMAIN groups THEN Without(Put(groups, g, row), below)
                     ELSE Without(groups, below)
        /\ repos' = Without(repos, ReposIn({g} \cup below))
     \/ /\ admin.hidden
        /\ groups' = IF g \in DOMAIN groups THEN [groups EXCEPT ![g].hidden = FALSE] ELSE groups
        /\ UNCHANGED repos
  /\ admin' = NoRequest /\ calm' = FALSE
  /\ UNCHANGED <<queue, worker, platform, faults>>

DeleteManagedGroup ==
  LET all == {admin.g} \cup Under(admin.path) IN
  /\ admin.op = "delete"
  /\ groups' = Without(groups, all)
  /\ repos' = Without(repos, ReposIn(all))
  /\ admin' = NoRequest /\ calm' = FALSE
  /\ UNCHANGED <<queue, worker, platform, faults>>

(* CreateManagedRepo: first the project on the platform, then the row,     *)
(* which the worker may have written in the meantime.                      *)
CreateRemoteRepo(g, p) ==
  /\ "create" \in Handlers /\ admin = NoRequest
  /\ g \in DOMAIN groups /\ Exists(g)
  /\ home[p] = None /\ p \notin DOMAIN repos
  /\ home' = [home EXCEPT ![p] = g]
  /\ admin' = [NoRequest EXCEPT !.op = "create", !.g = g, !.p = p]
  /\ calm' = FALSE
  /\ UNCHANGED <<groups, repos, queue, worker, up, archived, gone, moves, faults>>
InsertRepo ==
  /\ admin.op = "create"
  /\ \/ /\ admin.p \notin DOMAIN repos
        /\ repos' = Put(repos, admin.p, [home |-> admin.g, archived |-> FALSE, hidden |-> FALSE])
     \/ admin.p \in DOMAIN repos /\ UNCHANGED repos
  /\ admin' = NoRequest /\ calm' = FALSE
  /\ UNCHANGED <<groups, queue, worker, platform, faults>>

(* A transaction of a handler is rolled back, its insert fails, or the     *)
(* answer of the platform is lost.                                         *)
HandlerFails ==
  /\ admin # NoRequest /\ Fault
  /\ admin' = NoRequest
  /\ UNCHANGED <<groups, repos, queue, worker, platform, calm>>

ToggleRepoArchive(p) ==
  /\ "archive" \in Handlers
  /\ p \in DOMAIN repos
  /\ repos' = [repos EXCEPT ![p] = [repos[p] EXCEPT !.archived = ~repos[p].archived,
                                                    !.hidden = ~repos[p].archived]]
  /\ calm' = FALSE
  /\ UNCHANGED <<groups, queue, worker, admin, platform, faults>>
ToggleRepoHide(p) ==
  /\ "archive" \in Handlers
  /\ p \in DOMAIN repos
  /\ repos' = [repos EXCEPT ![p].hidden = ~repos[p].hidden]
  /\ calm' = FALSE
  /\ UNCHANGED <<groups, queue, worker, admin, platform, faults>>

-----------------------------------------------------------------------------
(* People at work on the platform, and restarts of this process.           *)

Descends(g, h) == \E i \in DOMAIN PathOf[g] : PathOf[g][i] = h   \* g is h or below it
PlatformChange ==
  /\ Event /\ moves' = moves + 1
  /\ \/ \E g \in Groups \ gone, h \in (Groups \ gone) \cup {None} :
          /\ h # None => ~Descends(h, g)
          /\ up' = [up EXCEPT ![g] = h]
          /\ UNCHANGED <<home, archived, gone>>
     \/ \E g \in Groups \ gone :
          /\ gone' = gone \cup {h \in Groups : Descends(h, g)}
          /\ home' = [p \in Projects |-> IF home[p] \in gone' THEN None ELSE home[p]]
          /\ UNCHANGED <<up, archived>>
     \/ \E p \in Projects, h \in (Groups \ gone) \cup {None} :
          /\ home[p] # None
          /\ home' = [home EXCEPT ![p] = h]
          /\ UNCHANGED <<up, archived, gone>>
     \/ \E p \in Projects \ archived :
          /\ archived' = archived \cup {p}
          /\ UNCHANGED <<up, home, gone>>
  /\ calm' = FALSE
  /\ UNCHANGED <<groups, repos, queue, worker, admin, faults>>

Restart ==
  /\ worker # Idle \/ queue # <<>>
  /\ Fault
  /\ worker' = Idle /\ queue' = <<>> /\ admin' = NoRequest
  /\ calm' = FALSE
  /\ UNCHANGED <<groups, repos, platform>>

Reject == UNCHANGED vars      \* a request answered 400, 404 or 409

Work == \/ Take \/ Enter \/ Load \/ FetchProjects \/ FetchSubgroups \/ Apply
        \/ ReadChildren \/ NextChild \/ Finish
Handle == \/ ToggleGroupHide \/ DeleteManagedGroup \/ InsertRepo \/ HandlerFails
          \/ \E g \in Groups : Enqueue(g) \/ ImportGroup(g) \/ ReadGroup("hide", g)
                               \/ ReadGroup("delete", g)
          \/ \E g \in Groups, p \in Projects : CreateRemoteRepo(g, p)
          \/ \E p \in Projects : ToggleRepoArchive(p) \/ ToggleRepoHide(p)
Next == Work \/ Handle \/ PlatformChange \/ Restart \/ Reject

Spec == Init /\ [][Next]_vars

-----------------------------------------------------------------------------
(* Properties *)

TypeOK ==
  /\ DOMAIN groups \subseteq Groups /\ \A g \in DOMAIN groups : groups[g] \in GroupRow
  /\ DOMAIN repos \subseteq Projects /\ \A p \in DOMAIN repos : repos[p] \in RepoRow
  /\ queue \in Seq(Groups) /\ Len(queue) <= QueueCap
  /\ worker.stack \in Seq(Frame) /\ worker.task \in Groups \cup {None}
  /\ DOMAIN worker.projects \subseteq Projects /\ worker.subs \subseteq Groups
  /\ (worker.stack = <<>>) <=> (worker.pc \in {"idle", "finish"})
  /\ admin.g \in Groups \cup {None}
  /\ moves + faults \in 0 .. MaxEvents

(* A task with which nothing interfered leaves the tables as the platform  *)
(* has them: below its root and down to the groups that are hidden, the    *)
(* same subgroups, paths and projects.                                     *)
Hidden == {g \in DOMAIN groups : groups[g].hidden}
Walked(root) ==
  {g \in Groups \ gone :
     \E i \in DOMAIN PathOf[g] :
        /\ PathOf[g][i] = root
        /\ \A j \in i .. Len(PathOf[g]) : PathOf[g][j] \notin Hidden}
MirrorsPlatform(root) ==
  \A g \in Walked(root) :
    /\ g \in DOMAIN groups
    /\ Children(g) = SubgroupsOf(g)
    /\ \A s \in Children(g) : groups[s].path = Append(groups[g].path, s)
    /\ ReposIn({g}) = ProjectsOf(g)
    /\ \A p \in ReposIn({g}) : p \in archived => repos[p].archived
Mirrored ==
  worker.pc = "finish" /\ calm /\ worker.task \in DOMAIN groups => MirrorsPlatform(worker.task)

(* While nothing changes on the platform a synchronisation leaves hidden   *)
(* what a user has hidden, and nothing reappears below a hidden group      *)
(* unless it was hidden during the task.                                   *)
HideKeptStep ==
  Work /\ moves = 0 =>
    /\ \A g \in Hidden :
         /\ g \in DOMAIN groups' /\ groups'[g].hidden
         /\ calm => Children(g)' \subseteq Children(g) /\ ReposIn({g})' \subseteq ReposIn({g})
    /\ calm => \A p \in DOMAIN repos : repos[p].hidden =>
         p \in DOMAIN repos' /\ repos'[p].hidden
HideKept == [][HideKeptStep]_vars

(* Below a hidden group there is nothing: hiding it removes all data below *)
(* it and the synchronisation skips it.                                    *)
HiddenIsEmpty == \A g \in Hidden : ReposIn({g}) = {} /\ Children(g) = {}
=============================================================================
