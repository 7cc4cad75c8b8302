---------------------------- MODULE GroupSync_proofs ----------------------------
(***************************************************************************)
(* Three theorems about GroupSync, for any tree of the platform, any queue *)
(* and any handlers: what users hid stays hidden, the types, and that a    *)
(* task with which nothing interfered mirrors the platform.  The first     *)
(* does not depend on the paths; the others begin with the fact that the   *)
(* recursive definition of a path has the values it should have, which     *)
(* holds because the tree of the platform stays a forest.                  *)
(***************************************************************************)
EXTENDS GroupSync, TLAPS

-----------------------------------------------------------------------------
(* The forest of the platform.  A path is defined by recursion over it;    *)
(* the lemmas say that there is such a function and what its values are.   *)

Forest(u) == \A T \in SUBSET Groups : T # {} => \E g \in T : u[g] \notin T

Extended(u, f, g) == IF u[g] = None THEN <<g>> ELSE Append(f[u[g]], g)
Approximates(u, S, f) ==
  \A x \in S : (u[x] = None \/ u[x] \in S) /\ f[x] = Extended(u, f, x)

LEMMA ApproximationsAgree ==
  ASSUME NEW u \in [Groups -> Groups \cup {None}], Forest(u)
  PROVE  \A S, R \in SUBSET Groups : \A f, h \in [Groups -> Seq(Groups)] :
           Approximates(u, S, f) /\ Approximates(u, R, h) => \A x \in S \cap R : f[x] = h[x]
<1> TAKE S, R \in SUBSET Groups
<1> TAKE f, h \in [Groups -> Seq(Groups)]
<1> HAVE Approximates(u, S, f) /\ Approximates(u, R, h)
<1> DEFINE T == {x \in S \cap R : f[x] # h[x]}
<1> SUFFICES ASSUME T # {} PROVE FALSE OBVIOUS
<1>1. PICK g \in T : u[g] \notin T
  <2>1. T \in SUBSET Groups OBVIOUS
  <2>2. QED BY <2>1 DEF Forest
<1>2. CASE u[g] = None BY <1>2 DEF Approximates, Extended
<1>3. CASE u[g] # None
  <2>1. u[g] \in S \cap R BY <1>3 DEF Approximates
  <2>2. f[u[g]] = h[u[g]] BY <1>1, <2>1
  <2>3. QED BY <1>3, <2>2 DEF Approximates, Extended
<1>4. QED BY <1>2, <1>3

LEMMA GroupsApproximated ==
  ASSUME NEW u \in [Groups -> Groups \cup {None}], Forest(u)
  PROVE  \A x \in Groups : \E S \in SUBSET Groups, f \in [Groups -> Seq(Groups)] :
           x \in S /\ Approximates(u, S, f)
<1> DEFINE Covered(x) == \E S \in SUBSET Groups, f \in [Groups -> Seq(Groups)] :
                           x \in S /\ Approximates(u, S, f)
           T == {x \in Groups : ~Covered(x)}
<1> SUFFICES ASSUME T # {} PROVE FALSE OBVIOUS
<1>1. PICK g \in T : u[g] \notin T
  <2>1. T \in SUBSET Groups OBVIOUS
  <2>2. QED BY <2>1 DEF Forest
<1>2. g \in Groups /\ ~Covered(g) OBVIOUS
<1>3. CASE u[g] = None
  <2> DEFINE f == [x \in Groups |-> <<g>>]
  <2>1. f \in [Groups -> Seq(Groups)] /\ f[g] = <<g>> BY <1>2
  <2>2. Approximates(u, {g}, f) BY <1>3, <2>1 DEF Approximates, Extended
  <2>3. QED BY <1>2, <2>1, <2>2
<1>4. CASE u[g] # None
  <2>1. u[g] \in Groups /\ Covered(u[g]) BY <1>1, <1>2, <1>4
  <2>2. PICK S \in SUBSET Groups, f \in [Groups -> Seq(Groups)] :
          u[g] \in S /\ Approximates(u, S, f)
    BY <2>1
  <2>3. g \notin S BY <1>2, <2>2
  <2> DEFINE h == [f EXCEPT ![g] = Append(f[u[g]], g)]
  <2>4. Append(f[u[g]], g) \in Seq(Groups) BY <1>2, <2>1
  <2>5. h \in [Groups -> Seq(Groups)] /\ h[g] = Append(f[u[g]], g) /\ \A x \in S : h[x] = f[x]
    BY <1>2, <2>3, <2>4
  <2> HIDE DEF h
  <2>6. Approximates(u, S \cup {g}, h)
    BY <1>4, <2>2, <2>3, <2>5 DEF Approximates, Extended
  <2>7. S \cup {g} \in SUBSET Groups BY <1>2
  <2>8. QED BY <1>2, <2>5, <2>6, <2>7
<1>5. QED BY <1>3, <1>4

LEMMA PathsExist ==
  ASSUME NEW u \in [Groups -> Groups \cup {None}], Forest(u)
  PROVE  \E f : f = [g \in Groups |-> Extended(u, f, g)]
<1> DEFINE Value(x, v) == \E S \in SUBSET Groups, f \in [Groups -> Seq(Groups)] :
                            x \in S /\ Approximates(u, S, f) /\ v = f[x]
           Chosen(x) == CHOOSE v : Value(x, v)
           F == [x \in Groups |-> Chosen(x)]
<1>0. \A S, R \in SUBSET Groups : \A f, h \in [Groups -> Seq(Groups)] :
        Approximates(u, S, f) /\ Approximates(u, R, h) => \A x \in S \cap R : f[x] = h[x]
  BY ApproximationsAgree
<1>1. ASSUME NEW S \in SUBSET Groups, NEW f \in [Groups -> Seq(Groups)],
             Approximates(u, S, f), NEW x \in S
      PROVE  F[x] = f[x]
  <2>1. Value(x, f[x]) BY <1>1
  <2>2. Value(x, F[x]) BY <2>1
  <2>3. PICK R \in SUBSET Groups, h \in [Groups -> Seq(Groups)] :
          x \in R /\ Approximates(u, R, h) /\ F[x] = h[x]
    BY <2>2
  <2> HIDE DEF F
  <2>4. f[x] = h[x]
    <3>1. \A y \in S \cap R : f[y] = h[y]
      <4>1. Approximates(u, S, f) /\ Approximates(u, R, h) BY <1>1, <2>3
      <4>2. QED BY <4>1, <1>0
    <3>2. QED BY <1>1, <2>3, <3>1
  <2>5. QED BY <1>1, <2>3, <2>4
<1>2. ASSUME NEW g \in Groups PROVE F[g] = Extended(u, F, g)
  <2>1. PICK S \in SUBSET Groups, f \in [Groups -> Seq(Groups)] : g \in S /\ Approximates(u, S, f)
    BY GroupsApproximated
  <2> HIDE DEF F
  <2>2. F[g] = f[g] BY <1>1, <2>1
  <2>3. u[g] # None => F[u[g]] = f[u[g]] BY <1>1, <2>1 DEF Approximates
  <2>4. QED BY <2>1, <2>2, <2>3 DEF Approximates, Extended
<1>3. \A x \in Groups : Chosen(x) = Extended(u, F, x)
  <2>1. \A x \in Groups : F[x] = Chosen(x)
    <3> HIDE DEF Chosen
    <3>1. QED OBVIOUS
  <2> HIDE DEF F, Chosen
  <2>2. QED BY <1>2, <2>1
<1>4. F = [x \in Groups |-> Extended(u, F, x)]
  <2> HIDE DEF Chosen
  <2>1. QED BY <1>3
<1>5. QED BY <1>4

LEMMA PathTypes ==
  ASSUME NEW u \in [Groups -> Groups \cup {None}], Forest(u),
         NEW f, f = [g \in Groups |-> Extended(u, f, g)]
  PROVE  f \in [Groups -> Seq(Groups)]
<1> DEFINE T == {x \in Groups : f[x] \notin Seq(Groups)}
<1>0. \A x \in Groups : f[x] = Extended(u, f, x) OBVIOUS
<1>1. CASE T # {}
  <2>1. T \in SUBSET Groups OBVIOUS
  <2>2. PICK g \in T : u[g] \notin T BY <1>1, <2>1 DEF Forest
  <2>3. CASE u[g] = None BY <1>0, <2>2, <2>3 DEF Extended
  <2>4. CASE u[g] # None
    <3>1. u[g] \in Groups /\ f[u[g]] \in Seq(Groups) BY <2>2, <2>4
    <3>2. Append(f[u[g]], g) \in Seq(Groups) BY <3>1
    <3>3. QED BY <1>0, <2>4, <3>2 DEF Extended
  <2>5. QED BY <2>3, <2>4
<1>2. CASE T = {}
  <2>1. \A x \in Groups : f[x] \in Seq(Groups) BY <1>2
  <2>2. QED BY <2>1
<1>3. QED BY <1>1, <1>2

LEMMA PathOfIs ==
  ASSUME up \in [Groups -> Groups \cup {None}], Forest(up)
  PROVE  /\ PathOf \in [Groups -> Seq(Groups)]
         /\ \A g \in Groups : PathOf[g] = Extended(up, PathOf, g)
<1>1. \E f : f = [g \in Groups |-> IF up[g] = None THEN <<g>> ELSE Append(f[up[g]], g)]
  BY PathsExist DEF Extended
<1>2. PathOf = [g \in Groups |-> IF up[g] = None THEN <<g>> ELSE Append(PathOf[up[g]], g)]
  BY <1>1 DEF PathOf
<1>3. PathOf = [g \in Groups |-> Extended(up, PathOf, g)] BY <1>2 DEF Extended
<1>4. PathOf \in [Groups -> Seq(Groups)] BY <1>3, PathTypes
<1>5. \A g \in Groups : PathOf[g] = Extended(up, PathOf, g)
  <2> HIDE DEF PathOf
  <2>1. QED BY <1>3
<1>6. QED BY <1>4, <1>5

(* What a path is made of.                                                 *)
LEMMA PathSteps ==
  ASSUME up \in [Groups -> Groups \cup {None}], Forest(up), NEW g \in Groups
  PROVE  /\ PathOf[g] \in Seq(Groups) /\ Len(PathOf[g]) \in Nat \ {0}
         /\ PathOf[g][Len(PathOf[g])] = g
         /\ up[g] = None => PathOf[g] = <<g>>
         /\ up[g] # None =>
              /\ up[g] \in Groups
              /\ PathOf[g] = Append(PathOf[up[g]], g)
              /\ Len(PathOf[g]) = Len(PathOf[up[g]]) + 1
              /\ \A i \in 1 .. Len(PathOf[up[g]]) : PathOf[g][i] = PathOf[up[g]][i]
<1>1. PathOf \in [Groups -> Seq(Groups)] /\ PathOf[g] = Extended(up, PathOf, g) BY PathOfIs
<1> HIDE DEF PathOf
<1>2. CASE up[g] = None
  <2>1. PathOf[g] = <<g>> BY <1>1, <1>2 DEF Extended
  <2>2. QED BY <1>2, <2>1
<1>3. CASE up[g] # None
  <2>1. up[g] \in Groups /\ PathOf[g] = Append(PathOf[up[g]], g) BY <1>1, <1>3 DEF Extended
  <2>2. PathOf[up[g]] \in Seq(Groups) BY <1>1, <2>1
  <2>3. QED BY <1>3, <2>1, <2>2
<1>4. QED BY <1>2, <1>3

LEMMA Descent ==
  ASSUME up \in [Groups -> Groups \cup {None}], Forest(up), NEW g \in Groups, NEW h
  PROVE  Descends(g, h) <=> (g = h \/ (up[g] # None /\ Descends(up[g], h)))
<1> DEFINE p == PathOf[g]
<1>1. p \in Seq(Groups) /\ Len(p) \in Nat \ {0} /\ p[Len(p)] = g BY PathSteps
<1>2. g = h => Descends(g, h) BY <1>1 DEF Descends
<1>3. CASE up[g] = None
  <2>1. p = <<g>> BY <1>3, PathSteps
  <2>2. QED BY <1>2, <1>3, <2>1 DEF Descends
<1>4. CASE up[g] # None
  <2> DEFINE q == PathOf[up[g]]
  <2>1. up[g] \in Groups /\ Len(p) = Len(q) + 1 /\ \A i \in 1 .. Len(q) : p[i] = q[i]
    BY <1>4, PathSteps
  <2>2. q \in Seq(Groups) BY <2>1, PathSteps
  <2>3. Descends(g, h) <=> \E i \in 1 .. Len(p) : p[i] = h BY <1>1 DEF Descends
  <2>4. Descends(up[g], h) <=> \E i \in 1 .. Len(q) : q[i] = h BY <2>2 DEF Descends
  <2> HIDE DEF p, q
  <2>5. QED BY <1>1, <1>2, <1>4, <2>1, <2>2, <2>3, <2>4
<1>5. QED BY <1>3, <1>4

(* People who move a group on the platform keep the forest one.            *)
LEMMA MoveKeepsForest ==
  ASSUME up \in [Groups -> Groups \cup {None}], Forest(up),
         NEW g \in Groups, NEW h \in Groups \cup {None}, h # None => ~Descends(h, g),
         NEW T \in SUBSET Groups, T # {}
  PROVE  \E x \in T : [up EXCEPT ![g] = h][x] \notin T
<1> SUFFICES ASSUME \A x \in T : [up EXCEPT ![g] = h][x] \in T PROVE FALSE OBVIOUS
<1>1. \A x \in T \ {g} : up[x] \in T OBVIOUS
<1>2. CASE g \notin T BY <1>1, <1>2 DEF Forest
<1>3. CASE g \in T
  <2> DEFINE R == {x \in T : ~Descends(x, g)}
  <2>1. h \in T BY <1>3
  <2>2. h # None BY <2>1, ConstantsAssumption
  <2>3. h \in R BY <2>1, <2>2
  <2>4. PICK x \in R : up[x] \notin R
    <3>1. R \in SUBSET Groups /\ R # {} BY <2>3
    <3>2. QED BY <3>1 DEF Forest
  <2>5. x # g BY <2>4, Descent
  <2>6. up[x] \in T BY <1>1, <2>4, <2>5
  <2>7. up[x] # None BY <2>6, ConstantsAssumption
  <2>8. Descends(up[x], g) BY <2>4, <2>6
  <2>9. Descends(x, g) BY <2>4, <2>7, <2>8, Descent
  <2>10. QED BY <2>4, <2>9
<1>4. QED BY <1>2, <1>3

-----------------------------------------------------------------------------
(* What is hidden: the invariant *)

Visiting == {"load", "projects", "subgroups", "apply"}

-----------------------------------------------------------------------------
(* The invariant *)

Shapes ==
  /\ worker = [pc |-> worker.pc, task |-> worker.task, stack |-> worker.stack,
               path |-> worker.path, projects |-> worker.projects, subs |-> worker.subs]
  /\ admin = [op |-> admin.op, g |-> admin.g, p |-> admin.p, path |-> admin.path,
              hidden |-> admin.hidden]
  /\ DOMAIN groups \subseteq Groups
  /\ \A g \in DOMAIN groups :
       groups[g] = [parent |-> groups[g].parent, path |-> groups[g].path, hidden |-> groups[g].hidden]
  /\ DOMAIN repos \subseteq Projects
  /\ \A p \in DOMAIN repos :
       repos[p] = [home |-> repos[p].home, archived |-> repos[p].archived, hidden |-> repos[p].hidden]
  /\ moves \in Nat
  /\ home \in [Projects -> Groups \cup {None}]
  /\ DOMAIN worker.projects \subseteq Projects /\ worker.subs \subseteq Groups
  /\ admin.op = "create" => admin.p \in Projects /\ admin.g \in Groups

(* While nothing changed there, the rows have the place the platform gives. *)
Placed ==
  moves = 0 =>
    /\ gone = {} /\ archived = {}
    /\ \A s \in DOMAIN groups : groups[s].parent \in {None, up[s]}
    /\ \A p \in DOMAIN repos : repos[p].home = home[p]
    /\ admin.op = "create" => home[admin.p] = admin.g

(* The worker at a group: not at a hidden one unless it was hidden since,  *)
(* and with the lists of that group.                                       *)
AtGroup ==
  worker.pc \in Visiting =>
    /\ Top.g \in Groups
    /\ calm /\ Top.g \in DOMAIN groups => ~groups[Top.g].hidden
    /\ moves = 0 /\ worker.pc \in {"subgroups", "apply"} =>
         /\ \A p \in DOMAIN worker.projects : ~worker.projects[p] /\ home[p] = Top.g
         /\ calm => DOMAIN worker.projects = ProjectsOf(Top.g)
    /\ moves = 0 /\ worker.pc = "apply" => worker.subs = SubgroupsOf(Top.g)

Inv == Shapes /\ Placed /\ AtGroup

LEMMA InitInv == Init => Inv
<1> SUFFICES ASSUME Init PROVE Inv OBVIOUS
<1>1. Shapes
  BY ConstantsAssumption DEF Init, Shapes, Idle, NoRequest, Nothing
<1>2. Placed BY DEF Init, Placed, NoRequest, Nothing
<1>3. AtGroup BY DEF Init, AtGroup, Visiting, Idle
<1>4. QED BY <1>1, <1>2, <1>3 DEF Inv

-----------------------------------------------------------------------------
(* The worker *)

(* A step of the worker that touches neither tables nor platform.          *)
LEMMA WorkerMoves ==
  ASSUME Inv, UNCHANGED <<groups, repos, admin, platform>>,
         worker' = [pc |-> worker'.pc, task |-> worker'.task, stack |-> worker'.stack,
                    path |-> worker'.path, projects |-> worker'.projects, subs |-> worker'.subs],
         DOMAIN worker'.projects \subseteq Projects, worker'.subs \subseteq Groups,
         AtGroup'
  PROVE  Inv'
BY DEF Inv, Shapes, Placed, platform

LEMMA ReturnInv ==
  ASSUME Inv, UNCHANGED <<groups, repos, admin, platform>>, Return
  PROVE  Inv'
<1>1. worker' = [pc |-> worker'.pc, task |-> worker'.task, stack |-> worker'.stack,
                 path |-> worker'.path, projects |-> worker'.projects, subs |-> worker'.subs]
      /\ worker'.pc \in {"finish", "next"} /\ worker'.projects = Nothing /\ worker'.subs = {}
  BY DEF Return, Idle
<1>2. AtGroup' BY <1>1 DEF AtGroup, Visiting
<1>3. QED BY <1>1, <1>2, WorkerMoves DEF Nothing

LEMMA WorkInv ==
  ASSUME Inv, Work, ~Apply
  PROVE  Inv'
<1>u. UNCHANGED <<groups, repos, admin, platform>>
  <2>1. CASE Take \/ Enter \/ Load BY <2>1 DEF Take, Enter, Load
  <2>2. CASE FetchProjects \/ FetchSubgroups BY <2>2 DEF FetchProjects, FetchSubgroups
  <2>3. CASE ReadChildren \/ NextChild \/ Finish BY <2>3 DEF ReadChildren, NextChild, Finish
  <2>4. QED BY <2>1, <2>2, <2>3 DEF Work
<1>w. worker = [pc |-> worker.pc, task |-> worker.task, stack |-> worker.stack,
                path |-> worker.path, projects |-> worker.projects, subs |-> worker.subs]
      /\ DOMAIN worker.projects \subseteq Projects /\ worker.subs \subseteq Groups
  BY DEF Inv, Shapes
<1>r. CASE Return BY <1>u, <1>r, ReturnInv
(* A step after which the worker is not at a group.                        *)
<1>o. ASSUME worker'.pc \notin Visiting,
             worker' = [pc |-> worker'.pc, task |-> worker'.task, stack |-> worker'.stack,
                        path |-> worker'.path, projects |-> worker'.projects, subs |-> worker'.subs],
             DOMAIN worker'.projects \subseteq Projects, worker'.subs \subseteq Groups
      PROVE Inv'
  BY <1>u, <1>o, WorkerMoves DEF AtGroup
<1>1. CASE Take \/ Finish
  <2>1. CASE worker' = Idle BY <1>o, <2>1 DEF Idle, Nothing, Visiting
  <2>2. CASE \E g, k : worker' = [Idle EXCEPT !.pc = "enter", !.task = g, !.stack = k]
    <3>1. PICK g, k : worker' = [Idle EXCEPT !.pc = "enter", !.task = g, !.stack = k] BY <2>2
    <3>2. worker' = [pc |-> "enter", task |-> g, stack |-> k, path |-> <<>>,
                     projects |-> Nothing, subs |-> {}]
      BY <3>1 DEF Idle
    <3>3. QED BY <1>o, <3>2 DEF Nothing, Visiting
  <2>3. QED BY <1>1, <2>1, <2>2 DEF Take, Finish
<1>2. CASE Enter
  <2>1. CASE Top.g \in DOMAIN groups /\ ~Skipped(Top.g) /\ worker' = [worker EXCEPT !.pc = "load"]
             /\ UNCHANGED calm
    <3>1. /\ worker' = [pc |-> "load", task |-> worker.task, stack |-> worker.stack,
                        path |-> worker.path, projects |-> worker.projects, subs |-> worker.subs]
      BY <1>w, <2>1
    <3>2. Top' = Top BY <3>1 DEF Top
    <3>3. AtGroup' BY <1>u, <2>1, <3>1, <3>2 DEF AtGroup, Skipped, Inv, Shapes
    <3>4. QED BY <1>u, <1>w, <3>1, <3>3, WorkerMoves
  <2>2. QED BY <1>2, <1>r, <2>1 DEF Enter
<1>3. CASE Load
  <2>1. CASE \E k : worker' = [worker EXCEPT !.pc = "projects", !.path = k]
    <3>1. PICK k : worker' = [pc |-> "projects", task |-> worker.task, stack |-> worker.stack,
                              path |-> k, projects |-> worker.projects, subs |-> worker.subs]
      BY <1>w, <2>1
    <3>2. Top' = Top /\ worker.pc = "load" /\ calm' = calm BY <1>3, <3>1 DEF Top, Load
    <3>3. AtGroup' BY <1>u, <3>1, <3>2 DEF AtGroup, Visiting, Inv
    <3>4. QED BY <1>u, <1>w, <3>1, <3>3, WorkerMoves
  <2>2. QED BY <1>3, <1>r, <2>1 DEF Load
<1>4. CASE FetchProjects
  <2>1. CASE worker' = [worker EXCEPT !.pc = "subgroups", !.projects = Listed(Top.g)] /\ UNCHANGED calm
    <3>1. worker' = [pc |-> "subgroups", task |-> worker.task, stack |-> worker.stack,
                     path |-> worker.path, projects |-> Listed(Top.g), subs |-> worker.subs]
      BY <1>w, <2>1
    <3>2. Top' = Top /\ worker.pc = "projects" BY <1>4, <3>1 DEF Top, FetchProjects
    <3>3. /\ DOMAIN worker'.projects = ProjectsOf(Top.g) /\ ProjectsOf(Top.g) \subseteq Projects
          /\ \A p \in ProjectsOf(Top.g) : home[p] = Top.g /\ worker'.projects[p] = (p \in archived)
      BY <3>1 DEF Listed, ProjectsOf
    <3>4. ProjectsOf(Top.g)' = ProjectsOf(Top.g) BY <1>u, <3>2 DEF ProjectsOf, platform
    <3>5. AtGroup'
      BY <1>u, <2>1, <3>1, <3>2, <3>3, <3>4 DEF AtGroup, Visiting, Inv, Placed, platform
    <3>6. QED BY <1>u, <1>w, <3>1, <3>3, <3>5, WorkerMoves
  <2>2. QED BY <1>4, <1>r, <2>1 DEF FetchProjects, FetchFails
<1>5. CASE FetchSubgroups
  <2>1. CASE worker' = [worker EXCEPT !.pc = "apply", !.subs = SubgroupsOf(Top.g)] /\ UNCHANGED calm
    <3>1. worker' = [pc |-> "apply", task |-> worker.task, stack |-> worker.stack,
                     path |-> worker.path, projects |-> worker.projects, subs |-> SubgroupsOf(Top.g)]
      BY <1>w, <2>1
    <3>2. Top' = Top /\ worker.pc = "subgroups" BY <1>5, <3>1 DEF Top, FetchSubgroups
    <3>3. /\ SubgroupsOf(Top.g)' = SubgroupsOf(Top.g) /\ SubgroupsOf(Top.g) \subseteq Groups
          /\ ProjectsOf(Top.g)' = ProjectsOf(Top.g)
      BY <1>u, <3>2 DEF SubgroupsOf, ProjectsOf, platform
    <3>4. AtGroup'
      BY <1>u, <2>1, <3>1, <3>2, <3>3 DEF AtGroup, Visiting, Inv, platform
    <3>5. QED BY <1>u, <1>w, <3>1, <3>3, <3>4, WorkerMoves
  <2>2. QED BY <1>5, <1>r, <2>1 DEF FetchSubgroups, FetchFails
<1>6. CASE ReadChildren \/ NextChild
  <2>1. CASE \E step \in {"next", "enter"} : \E k : worker' = [worker EXCEPT !.pc = step, !.stack = k]
    <3>0. PICK step \in {"next", "enter"} :
            \E k : worker' = [worker EXCEPT !.pc = step, !.stack = k]
      BY <2>1
    <3>1. PICK k :
            worker' = [pc |-> step, task |-> worker.task, stack |-> k,
                       path |-> worker.path, projects |-> worker.projects, subs |-> worker.subs]
      BY <1>w, <3>0
    <3>2. QED BY <1>o, <1>w, <3>1 DEF Visiting
  <2>2. QED BY <1>6, <1>r, <2>1 DEF ReadChildren, NextChild
<1>7. QED BY <1>1, <1>2, <1>3, <1>4, <1>5, <1>6 DEF Work

-----------------------------------------------------------------------------
(* The transaction of the worker *)

(* While nothing changed on the platform nothing is removed from the       *)
(* tables: every row below the group is listed.                            *)
LEMMA NothingUnlisted ==
  ASSUME Inv, moves = 0, worker.pc = "apply"
  PROVE  /\ Unlisted(Top.g, worker.subs) = {}
         /\ \A s \in worker.subs : up[s] = Top.g
<1>1. Top.g \in Groups /\ worker.subs = SubgroupsOf(Top.g) BY DEF Inv, AtGroup, Visiting
<1>2. Top.g # None BY <1>1, ConstantsAssumption
<1>3. Children(Top.g) \subseteq worker.subs
  BY <1>1, <1>2 DEF Children, SubgroupsOf, Inv, Placed, Shapes
<1>4. Unlisted(Top.g, worker.subs) = {} BY <1>3 DEF Unlisted
<1>5. QED BY <1>1, <1>4 DEF SubgroupsOf

(* The rows after the transaction.                                         *)
Applied ==
  /\ DOMAIN groups' \subseteq DOMAIN groups \cup worker.subs
  /\ \A s \in DOMAIN groups' :
       \/ s \in DOMAIN groups \ worker.subs /\ groups'[s] = groups[s]
       \/ /\ s \in worker.subs
          /\ groups'[s] = [parent |-> Top.g, path |-> groups'[s].path, hidden |-> groups'[s].hidden]
          /\ s \in DOMAIN groups \ Unlisted(Top.g, worker.subs) => groups'[s].hidden = groups[s].hidden
  /\ DOMAIN repos' \subseteq DOMAIN repos \cup DOMAIN worker.projects
  /\ \A p \in DOMAIN repos' :
       \/ p \in DOMAIN repos \ DOMAIN worker.projects /\ repos'[p] = repos[p]
       \/ /\ p \in DOMAIN worker.projects
          /\ repos'[p] = [home |-> Top.g, archived |-> repos'[p].archived, hidden |-> repos'[p].hidden]
          /\ p \in DOMAIN repos /\ ~worker.projects[p] => repos'[p].hidden = repos[p].hidden

(* The same, row by row.                                                   *)
AppliedRows ==
  LET g == Top.g
      lost == Unlisted(g, worker.subs)
      kept == DOMAIN groups \ lost
      listed == DOMAIN worker.projects IN
  /\ DOMAIN groups' = kept \cup worker.subs
  /\ \A s \in kept \ worker.subs : groups'[s] = groups[s]
  /\ \A s \in worker.subs :
       groups'[s] = [parent |-> g, path |-> Append(worker.path, s),
                     hidden |-> IF s \in kept THEN groups[s].hidden ELSE FALSE]
  /\ DOMAIN repos' \subseteq DOMAIN repos \cup listed
  /\ \A p \in listed : p \in DOMAIN repos' <=> g \notin lost
  /\ \A p \in DOMAIN repos \ listed :
       p \in DOMAIN repos' <=> repos[p].home # g /\ repos[p].home \notin lost
  /\ \A p \in DOMAIN repos' \ listed : repos'[p] = repos[p]
  /\ \A p \in DOMAIN repos' \cap listed :
       repos'[p] = IF p \in DOMAIN repos /\ ~worker.projects[p]
                   THEN [home |-> g, archived |-> repos[p].archived, hidden |-> repos[p].hidden]
                   ELSE [home |-> g, archived |-> worker.projects[p], hidden |-> worker.projects[p]]

LEMMA ApplyIs ==
  ASSUME Inv, Apply
  PROVE  \/ UNCHANGED <<groups, repos>> /\ Return /\ Fault /\ calm' = FALSE
         \/ /\ AppliedRows /\ UNCHANGED <<faults, calm>>
            /\ worker' = [Idle EXCEPT !.pc = "children", !.task = worker.task, !.stack = worker.stack]
<1> DEFINE g == Top.g
           lost == Unlisted(g, worker.subs)
           listed == DOMAIN worker.projects
           mirrored == [p \in (DOMAIN repos \ (ReposIn({g}) \ listed)) \cup listed |->
                          IF p \in listed THEN MirroredRepo(p, g) ELSE repos[p]]
           kept == DOMAIN groups \ lost
<1>s. /\ \A s \in DOMAIN groups : groups[s] = [parent |-> groups[s].parent, path |-> groups[s].path,
                                               hidden |-> groups[s].hidden]
      /\ \A p \in DOMAIN repos : repos[p] = [home |-> repos[p].home, archived |-> repos[p].archived,
                                              hidden |-> repos[p].hidden]
  BY DEF Inv, Shapes
<1>1. CASE UNCHANGED <<groups, repos>> /\ Fault /\ Return /\ calm' = FALSE BY <1>1
<1>2. CASE /\ repos' = Without(mirrored, {p \in DOMAIN mirrored : mirrored[p].home \in lost})
           /\ groups' = [s \in kept \cup worker.subs |->
                           IF s \notin worker.subs THEN groups[s]
                           ELSE MirroredGroup(s, g, Append(worker.path, s), s \in kept)]
           /\ worker' = [Idle EXCEPT !.pc = "children", !.task = worker.task, !.stack = worker.stack]
           /\ UNCHANGED <<faults, calm>>
  <2>1. /\ DOMAIN groups' = kept \cup worker.subs
        /\ \A s \in kept \ worker.subs : groups'[s] = groups[s]
        /\ \A s \in worker.subs :
             groups'[s] = [parent |-> g, path |-> Append(worker.path, s),
                           hidden |-> IF s \in kept THEN groups[s].hidden ELSE FALSE]
    <3>1. /\ DOMAIN groups' = kept \cup worker.subs
          /\ \A s \in kept \cup worker.subs :
               groups'[s] = IF s \notin worker.subs THEN groups[s]
                            ELSE MirroredGroup(s, g, Append(worker.path, s), s \in kept)
      BY <1>2
    <3>2. ASSUME NEW s \in worker.subs
          PROVE  MirroredGroup(s, g, Append(worker.path, s), s \in kept) =
                   [parent |-> g, path |-> Append(worker.path, s),
                    hidden |-> IF s \in kept THEN groups[s].hidden ELSE FALSE]
      <4>1. CASE s \in kept
        <5>1. groups[s] = [parent |-> groups[s].parent, path |-> groups[s].path,
                           hidden |-> groups[s].hidden]
          BY <1>s, <4>1
        <5>2. QED BY <4>1, <5>1 DEF MirroredGroup
      <4>2. CASE s \notin kept BY <4>2 DEF MirroredGroup
      <4>3. QED BY <4>1, <4>2
    <3>3. QED BY <3>1, <3>2
  <2>2. \A p \in listed :
          MirroredRepo(p, g) =
            IF p \in DOMAIN repos /\ ~worker.projects[p]
            THEN [home |-> g, archived |-> repos[p].archived, hidden |-> repos[p].hidden]
            ELSE [home |-> g, archived |-> worker.projects[p], hidden |-> worker.projects[p]]
    <3>1. TAKE p \in listed
    <3>2. CASE p \in DOMAIN repos /\ ~worker.projects[p]
      <4>1. repos[p] = [home |-> repos[p].home, archived |-> repos[p].archived,
                        hidden |-> repos[p].hidden]
        BY <1>s, <3>2
      <4>2. [repos[p] EXCEPT !.home = g] =
              [home |-> g, archived |-> repos[p].archived, hidden |-> repos[p].hidden]
        BY <4>1
      <4>3. QED BY <3>2, <4>2 DEF MirroredRepo
    <3>3. CASE ~(p \in DOMAIN repos /\ ~worker.projects[p]) BY <3>3 DEF MirroredRepo
    <3>4. QED BY <3>2, <3>3
  <2>3. /\ DOMAIN repos' = DOMAIN mirrored \ {p \in DOMAIN mirrored : mirrored[p].home \in lost}
        /\ \A p \in DOMAIN repos' : repos'[p] = mirrored[p]
    BY <1>2 DEF Without, Restrict
  <2>4. DOMAIN mirrored = (DOMAIN repos \ (ReposIn({g}) \ listed)) \cup listed OBVIOUS
  <2>5. \A p \in DOMAIN mirrored : mirrored[p] = IF p \in listed THEN MirroredRepo(p, g) ELSE repos[p]
    OBVIOUS
  <2> HIDE DEF mirrored
  <2>6. \A p \in listed : MirroredRepo(p, g).home = g
    <3>1. TAKE p \in listed
    <3>2. \E a, h : MirroredRepo(p, g) = [home |-> g, archived |-> a, hidden |-> h] BY <2>2
    <3>3. QED BY <3>2
  <2>7. AppliedRows
    <3>1. \A p \in listed : p \in DOMAIN repos' <=> g \notin lost BY <2>3, <2>4, <2>5, <2>6
    <3>2. \A p \in DOMAIN repos \ listed :
            p \in DOMAIN repos' <=> repos[p].home # g /\ repos[p].home \notin lost
      BY <2>3, <2>4, <2>5 DEF ReposIn
    <3>3. /\ DOMAIN repos' \subseteq DOMAIN repos \cup listed
          /\ \A p \in DOMAIN repos' \ listed : repos'[p] = repos[p]
      BY <2>3, <2>4, <2>5
    <3>4. \A p \in DOMAIN repos' \cap listed : repos'[p] = MirroredRepo(p, g) BY <2>3, <2>4, <2>5
    <3>5. \A p \in DOMAIN repos' \cap listed :
            repos'[p] = IF p \in DOMAIN repos /\ ~worker.projects[p]
                        THEN [home |-> g, archived |-> repos[p].archived, hidden |-> repos[p].hidden]
                        ELSE [home |-> g, archived |-> worker.projects[p], hidden |-> worker.projects[p]]
      BY <2>2, <3>4
    <3>6. QED BY <2>1, <3>1, <3>2, <3>3, <3>5 DEF AppliedRows
  <2>8. QED BY <1>2, <2>7
<1>3. QED BY <1>1, <1>2 DEF Apply

LEMMA RowsApplied ==
  ASSUME Inv, AppliedRows
  PROVE  /\ Applied
         /\ DOMAIN groups \ Unlisted(Top.g, worker.subs) \subseteq DOMAIN groups'
         /\ \A p \in DOMAIN repos :
              \/ p \in DOMAIN repos'
              \/ repos[p].home = Top.g /\ p \notin DOMAIN worker.projects
              \/ repos[p].home \in Unlisted(Top.g, worker.subs)
              \/ p \in DOMAIN worker.projects /\ Top.g \in Unlisted(Top.g, worker.subs)
<1> DEFINE g == Top.g
           lost == Unlisted(g, worker.subs)
           listed == DOMAIN worker.projects
           kept == DOMAIN groups \ lost
<1>1. \A s \in DOMAIN groups' :
        \/ s \in DOMAIN groups \ worker.subs /\ groups'[s] = groups[s]
        \/ /\ s \in worker.subs
           /\ groups'[s] = [parent |-> g, path |-> groups'[s].path, hidden |-> groups'[s].hidden]
           /\ s \in DOMAIN groups \ lost => groups'[s].hidden = groups[s].hidden
  <2>1. TAKE s \in DOMAIN groups'
  <2>2. CASE s \in kept \ worker.subs BY <2>2 DEF AppliedRows
  <2>3. CASE s \in worker.subs
    <3>1. groups'[s] = [parent |-> g, path |-> Append(worker.path, s),
                        hidden |-> IF s \in kept THEN groups[s].hidden ELSE FALSE]
      BY <2>3 DEF AppliedRows
    <3>2. /\ groups'[s].path = Append(worker.path, s)
          /\ groups'[s].hidden = (IF s \in kept THEN groups[s].hidden ELSE FALSE)
      BY <3>1
    <3>3. groups'[s] = [parent |-> g, path |-> groups'[s].path, hidden |-> groups'[s].hidden]
      BY <3>1, <3>2
    <3>4. QED BY <2>3, <3>2, <3>3
  <2>4. QED BY <2>2, <2>3 DEF AppliedRows
<1>2. ASSUME NEW p \in DOMAIN repos'
      PROVE  \/ p \in DOMAIN repos \ listed /\ repos'[p] = repos[p]
             \/ /\ p \in listed
                /\ repos'[p] = [home |-> g, archived |-> repos'[p].archived, hidden |-> repos'[p].hidden]
                /\ p \in DOMAIN repos /\ ~worker.projects[p] => repos'[p].hidden = repos[p].hidden
  <2>1. CASE p \notin listed BY <2>1 DEF AppliedRows
  <2>2. CASE p \in listed /\ p \in DOMAIN repos /\ ~worker.projects[p]
    <3>1. repos'[p] = [home |-> g, archived |-> repos[p].archived, hidden |-> repos[p].hidden]
      BY <2>2 DEF AppliedRows
    <3>2. QED BY <2>2, <3>1
  <2>3. CASE p \in listed /\ ~(p \in DOMAIN repos /\ ~worker.projects[p])
    <3>1. repos'[p] = [home |-> g, archived |-> worker.projects[p], hidden |-> worker.projects[p]]
      BY <2>3 DEF AppliedRows
    <3>2. QED BY <2>3, <3>1
  <2>4. QED BY <2>1, <2>2, <2>3
<1>3. QED BY <1>1, <1>2 DEF AppliedRows, Applied

LEMMA ApplyInv ==
  ASSUME Inv, Apply
  PROVE  Inv'
<1>u. UNCHANGED <<admin, platform>> BY DEF Apply
<1>1. CASE UNCHANGED <<groups, repos>> /\ Return BY <1>u, <1>1, ReturnInv
<1>2. CASE Applied /\ worker' = [Idle EXCEPT !.pc = "children", !.task = worker.task, !.stack = worker.stack]
  <2>1. worker' = [pc |-> "children", task |-> worker.task, stack |-> worker.stack, path |-> <<>>,
                   projects |-> Nothing, subs |-> {}]
    BY <1>2 DEF Idle
  <2>2. AtGroup' BY <2>1 DEF AtGroup, Visiting
  <2>3. worker.pc = "apply" /\ Top.g \in Groups BY DEF Apply, Inv, AtGroup, Visiting
  <2>4. Shapes'
    <3>1. \A s \in DOMAIN groups' :
            groups'[s] = [parent |-> groups'[s].parent, path |-> groups'[s].path, hidden |-> groups'[s].hidden]
      <4>1. TAKE s \in DOMAIN groups'
      <4>2. CASE s \in DOMAIN groups /\ groups'[s] = groups[s] BY <4>2 DEF Inv, Shapes
      <4>3. CASE groups'[s] = [parent |-> Top.g, path |-> groups'[s].path, hidden |-> groups'[s].hidden]
        <5>1. groups'[s].parent = Top.g BY <4>3
        <5>2. QED BY <4>3, <5>1
      <4>4. QED BY <1>2, <4>2, <4>3 DEF Applied
    <3>2. \A p \in DOMAIN repos' :
            repos'[p] = [home |-> repos'[p].home, archived |-> repos'[p].archived, hidden |-> repos'[p].hidden]
      <4>1. TAKE p \in DOMAIN repos'
      <4>2. CASE p \in DOMAIN repos /\ repos'[p] = repos[p] BY <4>2 DEF Inv, Shapes
      <4>3. CASE repos'[p] = [home |-> Top.g, archived |-> repos'[p].archived, hidden |-> repos'[p].hidden]
        <5>1. repos'[p].home = Top.g BY <4>3
        <5>2. QED BY <4>3, <5>1
      <4>4. QED BY <1>2, <4>2, <4>3 DEF Applied
    <3>3. DOMAIN groups' \subseteq Groups /\ DOMAIN repos' \subseteq Projects
      BY <1>2 DEF Applied, Inv, Shapes
    <3>4. QED BY <1>u, <2>1, <3>1, <3>2, <3>3 DEF Inv, Shapes, Nothing, platform
  <2>5. Placed'
    <3> SUFFICES ASSUME moves = 0 PROVE Placed' BY <1>u DEF Placed, platform
    <3>1. \A s \in worker.subs : up[s] = Top.g BY <2>3, NothingUnlisted
    <3>2. \A p \in DOMAIN worker.projects : home[p] = Top.g BY <2>3 DEF Inv, AtGroup, Visiting
    <3>3. \A s \in DOMAIN groups' : groups'[s].parent \in {None, up[s]}
      BY <1>2, <3>1 DEF Applied, Inv, Placed
    <3>4. \A p \in DOMAIN repos' : repos'[p].home = home[p]
      BY <1>2, <3>2 DEF Applied, Inv, Placed
    <3>5. QED BY <1>u, <3>3, <3>4 DEF Inv, Placed, platform
  <2>6. QED BY <2>2, <2>4, <2>5 DEF Inv
<1>3. QED BY <1>1, <1>2, ApplyIs, RowsApplied

-----------------------------------------------------------------------------
(* The handlers, the platform and restarts *)

(* A handler that takes rows away or changes what is hidden, and says so.  *)
LEMMA RowsInv ==
  ASSUME Inv, UNCHANGED <<worker, platform>>, calm' = FALSE,
         admin' = admin \/ admin' = NoRequest,
         DOMAIN groups' \subseteq DOMAIN groups,
         \A s \in DOMAIN groups' :
           groups'[s] = [parent |-> groups[s].parent, path |-> groups[s].path, hidden |-> groups'[s].hidden],
         DOMAIN repos' \subseteq DOMAIN repos,
         \A p \in DOMAIN repos' :
           repos'[p] = [home |-> repos[p].home, archived |-> repos'[p].archived, hidden |-> repos'[p].hidden]
  PROVE  Inv'
<1>1. \A s \in DOMAIN groups' : groups'[s].parent = groups[s].parent /\ groups'[s].path = groups[s].path
  OBVIOUS
<1>2. \A p \in DOMAIN repos' : repos'[p].home = repos[p].home OBVIOUS
<1>3. Shapes'
  <2>1. \A s \in DOMAIN groups' :
          groups'[s] = [parent |-> groups'[s].parent, path |-> groups'[s].path, hidden |-> groups'[s].hidden]
    BY <1>1
  <2>2. \A p \in DOMAIN repos' :
          repos'[p] = [home |-> repos'[p].home, archived |-> repos'[p].archived, hidden |-> repos'[p].hidden]
    BY <1>2
  <2>3. QED BY <2>1, <2>2 DEF Inv, Shapes, NoRequest, platform
<1>4. Placed' BY <1>1, <1>2 DEF Inv, Placed, NoRequest, platform
<1>5. AtGroup'
  <2>1. Top' = Top /\ SubgroupsOf(Top.g)' = SubgroupsOf(Top.g)
    BY DEF Top, SubgroupsOf, platform
  <2>2. QED BY <2>1 DEF Inv, AtGroup, platform
<1>6. QED BY <1>3, <1>4, <1>5 DEF Inv

(* What they do to the rows.                                               *)
LEMMA HideRows ==
  ASSUME ToggleGroupHide \/ DeleteManagedGroup
  PROVE  /\ DOMAIN groups' \subseteq DOMAIN groups
         /\ \A s \in DOMAIN groups' : groups'[s] = groups[s]
              \/ \E h \in BOOLEAN : groups'[s] = [groups[s] EXCEPT !.hidden = h]
         /\ DOMAIN repos' \subseteq DOMAIN repos /\ \A p \in DOMAIN repos' : repos'[p] = repos[p]
<1>1. /\ DOMAIN groups' \subseteq DOMAIN groups
      /\ \A s \in DOMAIN groups' : groups'[s] = groups[s]
           \/ \E h \in BOOLEAN : groups'[s] = [groups[s] EXCEPT !.hidden = h]
  <2>1. CASE \E S : groups' = Without(groups, S) BY <2>1 DEF Without, Restrict
  <2>2. CASE \E S, g : g \in DOMAIN groups
               /\ groups' = Without(Put(groups, g, [groups[g] EXCEPT !.hidden = TRUE]), S)
    <3>1. PICK S, g : /\ g \in DOMAIN groups
                      /\ groups' = Without(Put(groups, g, [groups[g] EXCEPT !.hidden = TRUE]), S)
      BY <2>2
    <3> DEFINE put == Put(groups, g, [groups[g] EXCEPT !.hidden = TRUE])
    <3>2. /\ DOMAIN put = DOMAIN groups
          /\ \A s \in DOMAIN groups : put[s] = IF s = g THEN [groups[g] EXCEPT !.hidden = TRUE] ELSE groups[s]
      BY <3>1 DEF Put
    <3>3. groups' = [s \in DOMAIN put \ S |-> put[s]] BY <3>1 DEF Without, Restrict
    <3> HIDE DEF put
    <3>4. QED BY <3>2, <3>3
  <2>3. CASE groups' = groups BY <2>3
  <2>4. CASE \E g \in DOMAIN groups : groups' = [groups EXCEPT ![g].hidden = FALSE]
    BY <2>4
  <2>5. QED BY <2>1, <2>2, <2>3, <2>4 DEF ToggleGroupHide, DeleteManagedGroup
<1>2. DOMAIN repos' \subseteq DOMAIN repos /\ \A p \in DOMAIN repos' : repos'[p] = repos[p]
  <2>1. CASE \E S : repos' = Without(repos, S) BY <2>1 DEF Without, Restrict
  <2>2. CASE repos' = repos BY <2>2
  <2>3. QED BY <2>1, <2>2 DEF ToggleGroupHide, DeleteManagedGroup
<1>3. QED BY <1>1, <1>2

LEMMA HideInv ==
  ASSUME Inv, ToggleGroupHide \/ DeleteManagedGroup
  PROVE  Inv'
<1>s. \A s \in DOMAIN groups :
        groups[s] = [parent |-> groups[s].parent, path |-> groups[s].path, hidden |-> groups[s].hidden]
  BY DEF Inv, Shapes
<1>r. \A p \in DOMAIN repos :
        repos[p] = [home |-> repos[p].home, archived |-> repos[p].archived, hidden |-> repos[p].hidden]
  BY DEF Inv, Shapes
<1>f. UNCHANGED <<worker, platform>> /\ calm' = FALSE /\ admin' = NoRequest
  BY DEF ToggleGroupHide, DeleteManagedGroup
<1>1. /\ DOMAIN groups' \subseteq DOMAIN groups
      /\ \A s \in DOMAIN groups' : groups'[s] = groups[s]
           \/ \E h : groups'[s] = [groups[s] EXCEPT !.hidden = h]
  BY HideRows
<1>2. \A s \in DOMAIN groups' :
        groups'[s] = [parent |-> groups[s].parent, path |-> groups[s].path, hidden |-> groups'[s].hidden]
  <2>1. TAKE s \in DOMAIN groups'
  <2>2. groups[s] = [parent |-> groups[s].parent, path |-> groups[s].path, hidden |-> groups[s].hidden]
    BY <1>s, <1>1
  <2>3. CASE groups'[s] = groups[s] BY <2>2, <2>3
  <2>4. ASSUME NEW h, groups'[s] = [groups[s] EXCEPT !.hidden = h]
        PROVE  groups'[s] = [parent |-> groups[s].parent, path |-> groups[s].path, hidden |-> groups'[s].hidden]
    <3>1. groups'[s] = [parent |-> groups[s].parent, path |-> groups[s].path, hidden |-> h]
      BY <2>2, <2>4
    <3>2. groups'[s].hidden = h BY <3>1
    <3>3. QED BY <3>1, <3>2
  <2>5. QED BY <1>1, <2>3, <2>4
<1>3. DOMAIN repos' \subseteq DOMAIN repos /\ \A p \in DOMAIN repos' : repos'[p] = repos[p]
  BY HideRows
<1>4. \A p \in DOMAIN repos' :
        repos'[p] = [home |-> repos[p].home, archived |-> repos'[p].archived, hidden |-> repos'[p].hidden]
  BY <1>r, <1>3
<1>5. QED BY <1>f, <1>1, <1>2, <1>3, <1>4, RowsInv

LEMMA ToggleRepoInv ==
  ASSUME Inv, NEW p \in Projects, ToggleRepoArchive(p) \/ ToggleRepoHide(p)
  PROVE  Inv'
<1>1. UNCHANGED <<groups, worker, platform, admin>> /\ calm' = FALSE
  BY DEF ToggleRepoArchive, ToggleRepoHide
<1>2. PICK a, h : repos' = [repos EXCEPT ![p] = [repos[p] EXCEPT !.archived = a, !.hidden = h]]
  <2>1. repos[p] = [home |-> repos[p].home, archived |-> repos[p].archived, hidden |-> repos[p].hidden]
    BY DEF ToggleRepoArchive, ToggleRepoHide, Inv, Shapes
  <2>2. CASE ToggleRepoArchive(p) BY <2>2 DEF ToggleRepoArchive
  <2>3. CASE ToggleRepoHide(p)
    <3>1. [repos[p] EXCEPT !.hidden = ~repos[p].hidden] =
            [repos[p] EXCEPT !.archived = repos[p].archived, !.hidden = ~repos[p].hidden]
      BY <2>1
    <3>2. repos' = [repos EXCEPT ![p] = [repos[p] EXCEPT !.hidden = ~repos[p].hidden]]
      BY <2>3 DEF ToggleRepoHide
    <3>3. QED BY <3>1, <3>2
  <2>4. QED BY <2>2, <2>3
<1>3. \A x \in DOMAIN repos : repos[x] =
        [home |-> repos[x].home, archived |-> repos[x].archived, hidden |-> repos[x].hidden]
  BY DEF Inv, Shapes
<1>4. DOMAIN repos' = DOMAIN repos BY <1>2
<1>5. \A x \in DOMAIN repos' :
        repos'[x] = [home |-> repos[x].home, archived |-> repos'[x].archived, hidden |-> repos'[x].hidden]
  <2>1. TAKE x \in DOMAIN repos'
  <2>2. CASE x # p BY <1>2, <1>3, <1>4, <2>2
  <2>3. CASE x = p
    <3>1. repos'[x] = [repos[x] EXCEPT !.archived = a, !.hidden = h] BY <1>2, <1>4, <2>3
    <3>2. repos[x] = [home |-> repos[x].home, archived |-> repos[x].archived, hidden |-> repos[x].hidden]
      BY <1>3, <1>4
    <3>3. repos'[x] = [home |-> repos[x].home, archived |-> a, hidden |-> h] BY <3>1, <3>2
    <3>4. repos'[x].archived = a /\ repos'[x].hidden = h BY <3>3
    <3>5. QED BY <3>3, <3>4
  <2>4. QED BY <2>2, <2>3
<1>6. \A s \in DOMAIN groups' :
        groups'[s] = [parent |-> groups[s].parent, path |-> groups[s].path, hidden |-> groups'[s].hidden]
  BY <1>1 DEF Inv, Shapes
<1>7. QED BY <1>1, <1>4, <1>5, <1>6, RowsInv

LEMMA ImportInv ==
  ASSUME Inv, NEW g \in Groups, ImportGroup(g)
  PROVE  Inv'
<1>1. /\ UNCHANGED <<repos, worker, admin, platform>> /\ calm' = FALSE /\ g \notin DOMAIN groups
      /\ groups' = [y \in DOMAIN groups \cup {g} |->
                      IF y = g THEN [parent |-> None, path |-> PathOf[g], hidden |-> FALSE] ELSE groups[y]]
  BY DEF ImportGroup, Put
<1>2. \A s \in DOMAIN groups' :
        \/ s \in DOMAIN groups /\ groups'[s] = groups[s]
        \/ s = g /\ groups'[s] = [parent |-> None, path |-> PathOf[g], hidden |-> FALSE]
  BY <1>1
<1>3. Shapes'
  <2>1. \A s \in DOMAIN groups' :
          groups'[s] = [parent |-> groups'[s].parent, path |-> groups'[s].path, hidden |-> groups'[s].hidden]
    BY <1>2 DEF Inv, Shapes
  <2>2. QED BY <1>1, <2>1 DEF Inv, Shapes, platform
<1>4. Placed' BY <1>1, <1>2 DEF Inv, Placed, platform
<1>5. AtGroup'
  <2>1. Top' = Top /\ SubgroupsOf(Top.g)' = SubgroupsOf(Top.g)
    BY <1>1 DEF Top, SubgroupsOf, platform
  <2>2. QED BY <1>1, <2>1 DEF Inv, AtGroup, platform
<1>6. QED BY <1>3, <1>4, <1>5 DEF Inv

LEMMA CreateInv ==
  ASSUME Inv, NEW g \in Groups, NEW p \in Projects, CreateRemoteRepo(g, p)
  PROVE  Inv'
<1>1. /\ UNCHANGED <<groups, repos, worker, up, archived, gone, moves>> /\ calm' = FALSE
      /\ home[p] = None /\ p \notin DOMAIN repos /\ home' = [home EXCEPT ![p] = g]
      /\ admin' = [op |-> "create", g |-> g, p |-> p, path |-> <<>>, hidden |-> FALSE]
  BY DEF CreateRemoteRepo, NoRequest
<1>2. home' \in [Projects -> Groups \cup {None}] /\ home'[p] = g
      /\ \A x \in Projects \ {p} : home'[x] = home[x]
  BY <1>1 DEF Inv, Shapes
<1>3. Shapes' BY <1>1, <1>2 DEF Inv, Shapes
<1>4. Placed' BY <1>1, <1>2 DEF Inv, Placed, Shapes
<1>5. AtGroup'
  <2>1. Top' = Top /\ SubgroupsOf(Top.g)' = SubgroupsOf(Top.g) BY <1>1 DEF Top, SubgroupsOf
  <2>2. \A x \in Projects : home[x] \in Groups => home'[x] = home[x]
    BY <1>1, <1>2, ConstantsAssumption
  <2>3. QED BY <1>1, <2>1, <2>2 DEF Inv, AtGroup, Shapes
<1>6. QED BY <1>3, <1>4, <1>5 DEF Inv

LEMMA InsertInv ==
  ASSUME Inv, InsertRepo
  PROVE  Inv'
<1>1. /\ UNCHANGED <<groups, worker, platform>> /\ calm' = FALSE /\ admin' = NoRequest
      /\ admin.op = "create"
  BY DEF InsertRepo
<1>2. /\ DOMAIN repos' \subseteq DOMAIN repos \cup {admin.p}
      /\ \A x \in DOMAIN repos' :
           \/ x \in DOMAIN repos /\ repos'[x] = repos[x]
           \/ x = admin.p /\ repos'[x] = [home |-> admin.g, archived |-> FALSE, hidden |-> FALSE]
  BY DEF InsertRepo, Put
<1>3. Shapes'
  <2>1. \A x \in DOMAIN repos' :
          repos'[x] = [home |-> repos'[x].home, archived |-> repos'[x].archived, hidden |-> repos'[x].hidden]
    BY <1>2 DEF Inv, Shapes
  <2>2. DOMAIN repos' \subseteq Projects BY <1>1, <1>2 DEF Inv, Shapes
  <2>3. QED BY <1>1, <2>1, <2>2 DEF Inv, Shapes, NoRequest, platform
<1>4. Placed' BY <1>1, <1>2 DEF Inv, Placed, NoRequest, platform
<1>5. AtGroup'
  <2>1. Top' = Top /\ SubgroupsOf(Top.g)' = SubgroupsOf(Top.g)
    BY <1>1 DEF Top, SubgroupsOf, platform
  <2>2. QED BY <1>1, <2>1 DEF Inv, AtGroup, platform
<1>6. QED BY <1>3, <1>4, <1>5 DEF Inv

(* A request that only reads, waits or fails.                              *)
LEMMA ReadInv ==
  ASSUME Inv, UNCHANGED <<groups, repos, worker, platform, calm>>,
         \/ admin' \in {admin, NoRequest}
         \/ \E op \in {"hide", "delete"} : \E g, k, h :
              admin' = [op |-> op, g |-> g, p |-> None, path |-> k, hidden |-> h]
  PROVE  Inv'
<1>1. /\ admin' = [op |-> admin'.op, g |-> admin'.g, p |-> admin'.p, path |-> admin'.path,
                   hidden |-> admin'.hidden]
      /\ admin'.op = "create" => admin' = admin
  BY DEF Inv, Shapes, NoRequest
<1>2. Shapes' /\ Placed' BY <1>1 DEF Inv, Shapes, Placed, platform
<1>3. AtGroup'
  <2>1. Top' = Top /\ SubgroupsOf(Top.g)' = SubgroupsOf(Top.g)
        /\ ProjectsOf(Top.g)' = ProjectsOf(Top.g)
    BY DEF Top, SubgroupsOf, ProjectsOf, platform
  <2>2. QED BY <2>1 DEF Inv, AtGroup, platform
<1>4. QED BY <1>2, <1>3 DEF Inv

LEMMA PlatformInv ==
  ASSUME Inv, PlatformChange
  PROVE  Inv'
<1>1. /\ UNCHANGED <<groups, repos, worker, admin>> /\ calm' = FALSE /\ moves' = moves + 1
      /\ moves \in Nat
  BY DEF PlatformChange, Inv, Shapes
<1>2. home' \in [Projects -> Groups \cup {None}] BY DEF PlatformChange, Inv, Shapes
<1>3. moves' # 0 /\ moves' \in Nat BY <1>1
<1>4. Shapes' BY <1>1, <1>2, <1>3 DEF Inv, Shapes
<1>5. Placed' BY <1>3 DEF Placed
<1>6. AtGroup' BY <1>1, <1>3 DEF Inv, AtGroup, Top
<1>7. QED BY <1>4, <1>5, <1>6 DEF Inv

LEMMA RestartInv ==
  ASSUME Inv, Restart
  PROVE  Inv'
<1>1. UNCHANGED <<groups, repos, platform>> /\ worker' = Idle /\ admin' = NoRequest
  BY DEF Restart
<1>2. Shapes' /\ Placed' BY <1>1 DEF Inv, Shapes, Placed, Idle, NoRequest, Nothing, platform
<1>3. AtGroup' BY <1>1 DEF AtGroup, Visiting, Idle
<1>4. QED BY <1>2, <1>3 DEF Inv

LEMMA StepInv ==
  ASSUME Inv, [Next]_vars
  PROVE  Inv'
<1>u. CASE UNCHANGED vars
  <2>1. UNCHANGED <<groups, repos, worker, admin, platform, calm>> BY <1>u DEF vars
  <2>2. QED BY <2>1, ReadInv
<1>1. CASE Work BY <1>1, WorkInv, ApplyInv
<1>2. CASE Handle
  <2>1. CASE ToggleGroupHide \/ DeleteManagedGroup BY <2>1, HideInv
  <2>2. CASE InsertRepo BY <2>2, InsertInv
  <2>3. CASE HandlerFails BY <2>3, ReadInv DEF HandlerFails
  <2>4. ASSUME NEW g \in Groups, Enqueue(g) PROVE Inv' BY <2>4, ReadInv DEF Enqueue
  <2>5. ASSUME NEW g \in Groups, ImportGroup(g) PROVE Inv' BY <2>5, ImportInv
  <2>6. ASSUME NEW g \in Groups, NEW op \in {"hide", "delete"}, ReadGroup(op, g) PROVE Inv'
    <3>1. admin' = [op |-> op, g |-> g, p |-> None, path |-> groups[g].path,
                    hidden |-> op = "hide" /\ groups[g].hidden]
      BY <2>6 DEF ReadGroup
    <3>2. UNCHANGED <<groups, repos, worker, platform, calm>> BY <2>6 DEF ReadGroup
    <3>3. QED BY <3>1, <3>2, ReadInv
  <2>7. ASSUME NEW g \in Groups, NEW p \in Projects, CreateRemoteRepo(g, p) PROVE Inv'
    BY <2>7, CreateInv
  <2>8. ASSUME NEW p \in Projects, ToggleRepoArchive(p) \/ ToggleRepoHide(p) PROVE Inv'
    BY <2>8, ToggleRepoInv
  <2>9. QED BY <1>2, <2>1, <2>2, <2>3, <2>4, <2>5, <2>6, <2>7, <2>8 DEF Handle
<1>3. CASE PlatformChange BY <1>3, PlatformInv
<1>4. CASE Restart BY <1>4, RestartInv
<1>5. QED BY <1>u, <1>1, <1>2, <1>3, <1>4 DEF Next, Reject

-----------------------------------------------------------------------------
(* What is hidden stays hidden *)

LEMMA HideKeptByWork ==
  ASSUME Inv, Work, moves = 0
  PROVE  HideKeptStep
<1> DEFINE Kept ==
      /\ \A g \in Hidden :
           /\ g \in DOMAIN groups' /\ groups'[g].hidden
           /\ calm => Children(g)' \subseteq Children(g) /\ ReposIn({g})' \subseteq ReposIn({g})
      /\ calm => \A p \in DOMAIN repos : repos[p].hidden =>
           p \in DOMAIN repos' /\ repos'[p].hidden
<1> SUFFICES Kept BY DEF HideKeptStep
<1>1. CASE UNCHANGED <<groups, repos>> BY <1>1 DEF Hidden, Children, ReposIn
<1>2. CASE Apply /\ ~UNCHANGED <<groups, repos>>
  <2> DEFINE at == Top.g
  <2>1. worker.pc = "apply" /\ at \in Groups
    BY <1>2 DEF Apply, Inv, AtGroup, Visiting
  <2>2. Unlisted(at, worker.subs) = {} BY <2>1, NothingUnlisted
  <2>3. /\ Applied
        /\ DOMAIN groups \subseteq DOMAIN groups'
        /\ \A p \in DOMAIN repos : \/ p \in DOMAIN repos'
                                   \/ repos[p].home = at /\ p \notin DOMAIN worker.projects
    BY <1>2, <2>2, ApplyIs, RowsApplied
  <2>4. calm /\ at \in DOMAIN groups => ~groups[at].hidden
    BY <2>1 DEF Inv, AtGroup, Visiting
  <2>5. \A g \in Hidden : g \in DOMAIN groups' /\ groups'[g].hidden
    BY <2>2, <2>3 DEF Hidden, Applied
  <2>6. ASSUME calm, NEW g \in Hidden
        PROVE  Children(g)' \subseteq Children(g) /\ ReposIn({g})' \subseteq ReposIn({g})
    <3>1. g # at BY <2>4, <2>6 DEF Hidden
    <3>2. \A s \in DOMAIN groups' : groups'[s].parent = g => s \in DOMAIN groups /\ groups[s].parent = g
      BY <2>3, <3>1 DEF Applied
    <3>3. \A p \in DOMAIN repos' : repos'[p].home = g => p \in DOMAIN repos /\ repos[p].home = g
      BY <2>3, <3>1 DEF Applied
    <3>4. QED BY <3>2, <3>3 DEF Children, ReposIn
  <2>7. ASSUME calm, NEW p \in DOMAIN repos, repos[p].hidden
        PROVE  p \in DOMAIN repos' /\ repos'[p].hidden
    <3>1. DOMAIN worker.projects = ProjectsOf(at) /\ \A x \in DOMAIN worker.projects : ~worker.projects[x]
      BY <2>1, <2>7 DEF Inv, AtGroup, Visiting
    <3>2. repos[p].home = home[p] /\ p \in Projects BY DEF Inv, Placed, Shapes
    <3>3. p \in DOMAIN repos' BY <2>3, <3>1, <3>2 DEF ProjectsOf
    <3>4. QED BY <2>3, <2>7, <3>1, <3>3 DEF Applied
  <2>8. QED BY <2>5, <2>6, <2>7
<1>3. QED
  <2>1. Apply \/ UNCHANGED <<groups, repos>>
    BY DEF Work, Take, Enter, Load, FetchProjects, FetchSubgroups, ReadChildren, NextChild, Finish
  <2>2. QED BY <1>1, <1>2, <2>1

(* HideKept: as long as nothing changes on the platform, a step of the     *)
(* worker leaves hidden what the users have hidden, whatever handlers run  *)
(* between its reads and its transaction.                                  *)
THEOREM HiddenStaysHidden == Spec => HideKept
<1>1. Inv /\ [Next]_vars => Inv' BY StepInv
<1>2. Inv /\ [Next]_vars => [HideKeptStep]_vars
  <2> SUFFICES ASSUME Inv, Next PROVE HideKeptStep OBVIOUS
  <2>1. CASE Work /\ moves = 0 BY <2>1, HideKeptByWork
  <2>2. CASE ~(Work /\ moves = 0) BY <2>2 DEF HideKeptStep
  <2>3. QED BY <2>1, <2>2
<1>3. QED BY <1>1, <1>2, InitInv, PTL DEF Spec, HideKept

-----------------------------------------------------------------------------
(* The types *)

Ends(path, g) == path # <<>> /\ path[Len(path)] = g   \* the path of g
RowsSound ==
  /\ \A g \in DOMAIN groups : groups[g] \in GroupRow /\ Ends(groups[g].path, g)
  /\ \A p \in DOMAIN repos : repos[p] \in RepoRow
QueueSound == queue \in Seq(Groups) /\ Len(queue) <= QueueCap
WorkerSound ==
  /\ worker.stack \in Seq(Frame) /\ worker.task \in Groups \cup {None}
  /\ (worker.stack = <<>>) <=> (worker.pc \in {"idle", "finish"})
  /\ \A p \in DOMAIN worker.projects : worker.projects[p] \in BOOLEAN
  /\ worker.path \in Seq(Groups)
AdminSound == admin.g \in Groups \cup {None}
PlatformSound == up \in [Groups -> Groups \cup {None}] /\ Forest(up)
Counted == moves \in Nat /\ faults \in Nat /\ moves + faults <= MaxEvents

Sound == RowsSound /\ QueueSound /\ WorkerSound /\ AdminSound /\ PlatformSound /\ Counted

LEMMA InitSound == Init => Sound
<1> SUFFICES ASSUME Init PROVE Sound OBVIOUS
<1>1. RowsSound BY DEF Init, RowsSound, Nothing
<1>2. QueueSound BY ConstantsAssumption DEF Init, QueueSound
<1>3. WorkerSound BY DEF Init, WorkerSound, Idle, Nothing
<1>4. AdminSound BY DEF Init, AdminSound, NoRequest
<1>5. PlatformSound BY ConstantsAssumption, ForestAssumption DEF Init, PlatformSound, Forest
<1>6. Counted BY ConstantsAssumption DEF Init, Counted
<1>7. QED BY <1>1, <1>2, <1>3, <1>4, <1>5, <1>6 DEF Sound

LEMMA CountedKept == ASSUME Sound, Next PROVE Counted'
<1>0. Counted BY DEF Sound
<1>1. CASE UNCHANGED <<moves, faults>> BY <1>0, <1>1 DEF Counted
<1>2. CASE UNCHANGED moves /\ Fault
  BY <1>0, <1>2, ConstantsAssumption DEF Counted, Fault, Event
<1>3. CASE PlatformChange
  BY <1>0, <1>3, ConstantsAssumption DEF Counted, PlatformChange, Event
<1>4. CASE Work
  <2>1. CASE Take \/ Enter \/ Load BY <1>1, <2>1 DEF Take, Enter, Load, platform
  <2>2. CASE FetchProjects BY <1>1, <1>2, <2>2 DEF FetchProjects, FetchFails, platform
  <2>3. CASE FetchSubgroups BY <1>1, <1>2, <2>3 DEF FetchSubgroups, FetchFails, platform
  <2>4. CASE Apply BY <1>1, <1>2, <2>4 DEF Apply, platform
  <2>5. CASE ReadChildren \/ NextChild \/ Finish
    BY <1>1, <2>5 DEF ReadChildren, NextChild, Finish, platform
  <2>6. QED BY <1>4, <2>1, <2>2, <2>3, <2>4, <2>5 DEF Work
<1>5. CASE Handle
  <2>1. CASE HandlerFails BY <1>2, <2>1 DEF HandlerFails, platform
  <2>2. CASE ~HandlerFails
    <3>1. UNCHANGED <<moves, faults>>
      BY <1>5, <2>2 DEF Handle, ToggleGroupHide, DeleteManagedGroup, InsertRepo, Enqueue,
                        ImportGroup, ReadGroup, CreateRemoteRepo, ToggleRepoArchive,
                        ToggleRepoHide, platform
    <3>2. QED BY <1>1, <3>1
  <2>3. QED BY <2>1, <2>2
<1>6. CASE Restart BY <1>2, <1>6 DEF Restart, platform
<1>7. QED BY <1>1, <1>3, <1>4, <1>5, <1>6 DEF Next, Reject, vars, platform

LEMMA PlatformKept == ASSUME Sound, Next PROVE PlatformSound'
<1>0. PlatformSound BY DEF Sound
<1>1. CASE UNCHANGED up BY <1>0, <1>1 DEF PlatformSound, Forest
<1>2. CASE PlatformChange
  <2>1. CASE UNCHANGED up BY <1>1, <2>1
  <2>2. ASSUME NEW g \in Groups, NEW h \in Groups \cup {None},
               h # None => ~Descends(h, g), up' = [up EXCEPT ![g] = h]
        PROVE  PlatformSound'
    <3>1. up' \in [Groups -> Groups \cup {None}] BY <1>0, <2>2 DEF PlatformSound
    <3>2. \A T \in SUBSET Groups : T # {} => \E x \in T : [up EXCEPT ![g] = h][x] \notin T
      BY <1>0, <2>2, MoveKeepsForest DEF PlatformSound
    <3>3. QED BY <2>2, <3>1, <3>2 DEF PlatformSound, Forest
  <2>3. \/ UNCHANGED up
        \/ \E g \in Groups \ gone, h \in (Groups \ gone) \cup {None} :
             (h # None => ~Descends(h, g)) /\ up' = [up EXCEPT ![g] = h]
    BY <1>2 DEF PlatformChange
  <2>4. QED BY <2>1, <2>2, <2>3
<1>3. CASE ~PlatformChange
  <2>1. UNCHANGED up
    BY <1>3 DEF Next, Reject, vars, platform, Restart, Work, Take, Enter, Load, FetchProjects,
                FetchSubgroups, Apply, ReadChildren, NextChild, Finish, Handle, HandlerFails,
                ToggleGroupHide, DeleteManagedGroup, InsertRepo, Enqueue, ImportGroup, ReadGroup,
                CreateRemoteRepo, ToggleRepoArchive, ToggleRepoHide
  <2>2. QED BY <1>1, <2>1
<1>4. QED BY <1>2, <1>3

LEMMA QueueKept == ASSUME Inv, Sound, Next PROVE QueueSound'
<1>0. QueueSound BY DEF Sound
<1>1. CASE UNCHANGED queue BY <1>0, <1>1 DEF QueueSound
<1>2. CASE queue' = <<>> BY <1>2, ConstantsAssumption DEF QueueSound
<1>3. CASE Take
  <2>1. queue # <<>> /\ queue' = Tail(queue) BY <1>3 DEF Take
  <2>2. QED BY <1>0, <2>1, ConstantsAssumption DEF QueueSound
<1>4. ASSUME NEW g \in Groups, Enqueue(g) PROVE QueueSound'
  <2>1. CASE Room
    <3>1. queue' = Append(queue, g) /\ Len(queue) < QueueCap BY <1>4, <2>1 DEF Enqueue, Room
    <3>2. QED BY <1>0, <3>1, ConstantsAssumption DEF QueueSound
  <2>2. CASE ~Room BY <1>1, <1>4, <2>2 DEF Enqueue
  <2>3. QED BY <2>1, <2>2
<1>5. CASE Restart BY <1>2, <1>5 DEF Restart
<1>6. CASE Work /\ ~Take
  BY <1>1, <1>6 DEF Work, Enter, Load, FetchProjects, FetchSubgroups, Apply, ReadChildren,
                    NextChild, Finish
<1>7. CASE Handle
  <2>1. CASE \E g \in Groups : Enqueue(g) BY <1>4, <2>1
  <2>2. CASE ~\E g \in Groups : Enqueue(g)
    <3>1. UNCHANGED queue
      BY <1>7, <2>2 DEF Handle, ToggleGroupHide, DeleteManagedGroup, InsertRepo, HandlerFails,
                        ImportGroup, ReadGroup, CreateRemoteRepo, ToggleRepoArchive, ToggleRepoHide
    <3>2. QED BY <1>1, <3>1
  <2>3. QED BY <2>1, <2>2
<1>8. QED BY <1>1, <1>3, <1>5, <1>6, <1>7 DEF Next, PlatformChange, Reject, vars

LEMMA AdminKept == ASSUME Sound, Next PROVE AdminSound'
<1>0. AdminSound BY DEF Sound
<1>1. CASE UNCHANGED admin BY <1>0, <1>1 DEF AdminSound
<1>2. CASE admin' = NoRequest BY <1>2 DEF AdminSound, NoRequest
<1>3. ASSUME NEW g \in Groups, NEW op, ReadGroup(op, g) PROVE AdminSound'
  BY <1>3 DEF ReadGroup, AdminSound
<1>4. ASSUME NEW g \in Groups, NEW p \in Projects, CreateRemoteRepo(g, p) PROVE AdminSound'
  BY <1>4 DEF CreateRemoteRepo, NoRequest, AdminSound
<1>5. CASE Work
  BY <1>1, <1>5 DEF Work, Take, Enter, Load, FetchProjects, FetchSubgroups, Apply, ReadChildren,
                    NextChild, Finish
<1>6. CASE Handle
  <2>1. CASE \/ \E g \in Groups : ReadGroup("hide", g) \/ ReadGroup("delete", g)
             \/ \E g \in Groups, p \in Projects : CreateRemoteRepo(g, p)
    BY <1>3, <1>4, <2>1
  <2>2. CASE ToggleGroupHide \/ DeleteManagedGroup \/ InsertRepo \/ HandlerFails
    BY <1>2, <2>2 DEF ToggleGroupHide, DeleteManagedGroup, InsertRepo, HandlerFails
  <2>3. CASE \/ \E g \in Groups : Enqueue(g) \/ ImportGroup(g)
             \/ \E p \in Projects : ToggleRepoArchive(p) \/ ToggleRepoHide(p)
    BY <1>1, <2>3 DEF Enqueue, ImportGroup, ToggleRepoArchive, ToggleRepoHide
  <2>4. QED BY <1>6, <2>1, <2>2, <2>3 DEF Handle
<1>7. QED BY <1>1, <1>2, <1>5, <1>6 DEF Next, Restart, PlatformChange, Reject, vars

(* The stack of the worker.                                                *)
LEMMA StackParts ==
  ASSUME WorkerSound, worker.pc \notin {"idle", "finish"}
  PROVE  /\ Len(worker.stack) \in Nat \ {0}
         /\ Top \in Frame /\ Top.g \in Groups /\ Top.todo \subseteq Groups
         /\ Top = [g |-> Top.g, todo |-> Top.todo]
         /\ Below \in Seq(Frame) /\ Len(Below) = Len(worker.stack) - 1
         /\ \A i \in 1 .. Len(Below) : Below[i] = worker.stack[i]
<1>1. worker.stack \in Seq(Frame) /\ worker.stack # <<>> BY DEF WorkerSound
<1>2. Len(worker.stack) \in Nat \ {0} BY <1>1
<1>3. Top \in Frame BY <1>1, <1>2 DEF Top
<1>4. /\ Below \in Seq(Frame) /\ Len(Below) = Len(worker.stack) - 1
      /\ \A i \in 1 .. Len(Below) : Below[i] = worker.stack[i]
  BY <1>1, <1>2 DEF Below
<1>5. Top.g \in Groups /\ Top.todo \subseteq Groups /\ Top = [g |-> Top.g, todo |-> Top.todo]
  BY <1>3 DEF Frame
<1>6. QED BY <1>2, <1>3, <1>4, <1>5

LEMMA ReturnSound ==
  ASSUME WorkerSound, worker.pc \notin {"idle", "finish"}, Return
  PROVE  WorkerSound'
<1>1. /\ Below \in Seq(Frame) /\ Len(Below) = Len(worker.stack) - 1
      /\ Len(worker.stack) \in Nat \ {0}
  BY StackParts
<1>2. worker' = [pc |-> IF Len(worker.stack) = 1 THEN "finish" ELSE "next", task |-> worker.task,
                 stack |-> Below, path |-> <<>>, projects |-> Nothing, subs |-> {}]
  BY DEF Return, Idle
<1>3. (Below = <<>>) <=> (Len(worker.stack) = 1)
  <2>1. \A s \in Seq(Frame) : s = <<>> <=> Len(s) = 0 OBVIOUS
  <2>2. (Below = <<>>) <=> (Len(Below) = 0) BY <1>1, <2>1
  <2>3. QED BY <1>1, <2>2
<1>4. QED
  <2>1. /\ worker'.pc = (IF Len(worker.stack) = 1 THEN "finish" ELSE "next")
        /\ worker'.task = worker.task /\ worker'.stack = Below /\ worker'.path = <<>>
        /\ worker'.projects = Nothing
    BY <1>2
  <2>2. DOMAIN Nothing = {} BY DEF Nothing
  <2> HIDE DEF Nothing
  <2>3. QED BY <1>1, <1>3, <2>1, <2>2 DEF WorkerSound

(* A step from one place to another that leaves task and stack.            *)
LEMMA PlaceSound ==
  ASSUME WorkerSound, worker.pc \notin {"idle", "finish"},
         worker'.stack = worker.stack, worker'.task = worker.task,
         worker'.pc \notin {"idle", "finish"}, worker'.path \in Seq(Groups),
         \A p \in DOMAIN worker'.projects : worker'.projects[p] \in BOOLEAN
  PROVE  WorkerSound'
BY DEF WorkerSound

LEMMA PushSound ==
  ASSUME Inv, WorkerSound, worker.pc \notin {"idle", "finish"},
         NEW k, k \in Seq(Frame), k # <<>>,
         NEW step \in {"enter", "next"},
         worker' = [worker EXCEPT !.pc = step, !.stack = k]
  PROVE  WorkerSound'
<1>1. worker = [pc |-> worker.pc, task |-> worker.task, stack |-> worker.stack,
                path |-> worker.path, projects |-> worker.projects, subs |-> worker.subs]
  BY DEF Inv, Shapes
<1>2. worker' = [pc |-> step, task |-> worker.task, stack |-> k,
                 path |-> worker.path, projects |-> worker.projects, subs |-> worker.subs]
  BY <1>1
<1>3. /\ worker'.pc = step /\ worker'.task = worker.task /\ worker'.stack = k
      /\ worker'.path = worker.path /\ worker'.projects = worker.projects
  BY <1>2
<1>4. QED BY <1>3 DEF WorkerSound

LEMMA WorkerKept == ASSUME Inv, Sound, Next PROVE WorkerSound'
<1>0. WorkerSound BY DEF Sound
<1>w. worker = [pc |-> worker.pc, task |-> worker.task, stack |-> worker.stack,
                path |-> worker.path, projects |-> worker.projects, subs |-> worker.subs]
  BY DEF Inv, Shapes
<1>1. CASE UNCHANGED worker BY <1>0, <1>1 DEF WorkerSound
<1>2. CASE worker' = Idle
  <2>1. /\ Idle.pc = "idle" /\ Idle.task = None /\ Idle.stack = <<>> /\ Idle.path = <<>>
        /\ DOMAIN Idle.projects = {}
    BY DEF Idle, Nothing
  <2>2. QED BY <1>2, <2>1 DEF WorkerSound
<1>3. CASE Return /\ worker.pc \notin {"idle", "finish"} BY <1>0, <1>3, ReturnSound
<1>4. CASE Take
  <2> DEFINE g == Head(queue)
  <2>1. CASE g \in DOMAIN groups
    <3>1. g \in Groups BY <2>1 DEF Inv, Shapes
    <3>2. worker' = [Idle EXCEPT !.pc = "enter", !.task = g, !.stack = <<[g |-> g, todo |-> {}]>>]
      BY <1>4, <2>1 DEF Take
    <3>3. worker' = [pc |-> "enter", task |-> g, stack |-> <<[g |-> g, todo |-> {}]>>, path |-> <<>>,
                     projects |-> Nothing, subs |-> {}]
      BY <3>2 DEF Idle
    <3>4. /\ worker'.pc = "enter" /\ worker'.task = g /\ worker'.stack = <<[g |-> g, todo |-> {}]>>
          /\ worker'.path = <<>> /\ DOMAIN worker'.projects = {}
      BY <3>3 DEF Nothing
    <3>5. <<[g |-> g, todo |-> {}]>> \in Seq(Frame) BY <3>1 DEF Frame
    <3>6. QED BY <3>1, <3>4, <3>5 DEF WorkerSound
  <2>2. CASE g \notin DOMAIN groups BY <1>2, <1>4, <2>2 DEF Take
  <2>3. QED BY <2>1, <2>2
<1>5. CASE Enter
  <2>1. worker.pc = "enter" BY <1>5 DEF Enter
  <2>2. CASE worker' = [worker EXCEPT !.pc = "load"]
    <3>1. worker' = [pc |-> "load", task |-> worker.task, stack |-> worker.stack,
                     path |-> worker.path, projects |-> worker.projects, subs |-> worker.subs]
      BY <1>w, <2>2
    <3>2. QED BY <1>0, <2>1, <3>1, PlaceSound DEF WorkerSound
  <2>3. QED BY <1>3, <1>5, <2>1, <2>2 DEF Enter
<1>6. CASE Load
  <2>1. worker.pc = "load" BY <1>6 DEF Load
  <2>2. CASE Top.g \in DOMAIN groups /\ worker' = [worker EXCEPT !.pc = "projects", !.path = groups[Top.g].path]
    <3>1. worker' = [pc |-> "projects", task |-> worker.task, stack |-> worker.stack,
                     path |-> groups[Top.g].path, projects |-> worker.projects, subs |-> worker.subs]
      BY <1>w, <2>2
    <3>2. groups[Top.g].path \in Seq(Groups) BY <2>2 DEF Sound, RowsSound, GroupRow
    <3>3. QED BY <1>0, <2>1, <3>1, <3>2, PlaceSound DEF WorkerSound
  <2>3. QED BY <1>3, <1>6, <2>1, <2>2 DEF Load
<1>7. CASE FetchProjects
  <2>1. worker.pc = "projects" BY <1>7 DEF FetchProjects
  <2>2. CASE worker' = [worker EXCEPT !.pc = "subgroups", !.projects = Listed(Top.g)]
    <3>1. worker' = [pc |-> "subgroups", task |-> worker.task, stack |-> worker.stack,
                     path |-> worker.path, projects |-> Listed(Top.g), subs |-> worker.subs]
      BY <1>w, <2>2
    <3>2. \A p \in DOMAIN Listed(Top.g) : Listed(Top.g)[p] \in BOOLEAN BY DEF Listed
    <3>3. QED BY <1>0, <2>1, <3>1, <3>2, PlaceSound DEF WorkerSound
  <2>3. QED BY <1>3, <1>7, <2>1, <2>2 DEF FetchProjects, FetchFails
<1>8. CASE FetchSubgroups
  <2>1. worker.pc = "subgroups" BY <1>8 DEF FetchSubgroups
  <2>2. CASE worker' = [worker EXCEPT !.pc = "apply", !.subs = SubgroupsOf(Top.g)]
    <3>1. worker' = [pc |-> "apply", task |-> worker.task, stack |-> worker.stack,
                     path |-> worker.path, projects |-> worker.projects, subs |-> SubgroupsOf(Top.g)]
      BY <1>w, <2>2
    <3>2. QED BY <1>0, <2>1, <3>1, PlaceSound DEF WorkerSound
  <2>3. QED BY <1>3, <1>8, <2>1, <2>2 DEF FetchSubgroups, FetchFails
<1>9. CASE Apply
  <2>1. worker.pc = "apply" BY <1>9 DEF Apply
  <2>2. CASE worker' = [Idle EXCEPT !.pc = "children", !.task = worker.task, !.stack = worker.stack]
    <3>1. worker' = [pc |-> "children", task |-> worker.task, stack |-> worker.stack, path |-> <<>>,
                     projects |-> Nothing, subs |-> {}]
      BY <2>2 DEF Idle
    <3>2. /\ worker'.pc = "children" /\ worker'.task = worker.task /\ worker'.stack = worker.stack
          /\ worker'.path = <<>> /\ DOMAIN worker'.projects = {}
      BY <3>1 DEF Nothing
    <3>3. QED BY <1>0, <2>1, <3>2, PlaceSound
  <2>3. QED BY <1>3, <1>9, <2>1, <2>2, ApplyIs
<1>10. CASE ReadChildren
  <2>1. worker.pc = "children" BY <1>10 DEF ReadChildren
  <2> DEFINE here == [Top EXCEPT !.todo = Children(Top.g)]
  <2>2. here \in Frame
    <3>1. Children(Top.g) \subseteq Groups BY DEF Children, Inv, Shapes
    <3>2. QED BY <1>0, <2>1, <3>1, StackParts DEF Frame
  <2>3. Below \in Seq(Frame) BY <1>0, <2>1, StackParts
  <2>4. worker' = [worker EXCEPT !.pc = "next", !.stack = Append(Below, here)]
    BY <1>10 DEF ReadChildren
  <2> HIDE DEF here
  <2>5. Append(Below, here) \in Seq(Frame) /\ Append(Below, here) # <<>> BY <2>2, <2>3
  <2>6. QED BY <1>0, <2>1, <2>4, <2>5, PushSound
<1>11. CASE NextChild
  <2>1. worker.pc = "next" BY <1>11 DEF NextChild
  <2>2. ASSUME NEW s \in Top.todo,
               worker' = [worker EXCEPT !.pc = "enter",
                 !.stack = Append(Append(Below, [Top EXCEPT !.todo = @ \ {s}]), [g |-> s, todo |-> {}])]
        PROVE  WorkerSound'
    <3> DEFINE here == [Top EXCEPT !.todo = @ \ {s}]
               next == [g |-> s, todo |-> {}]
    <3>1. here \in Frame /\ next \in Frame BY <1>0, <2>1, <2>2, StackParts DEF Frame
    <3>2. Below \in Seq(Frame) BY <1>0, <2>1, StackParts
    <3>3. worker' = [worker EXCEPT !.pc = "enter", !.stack = Append(Append(Below, here), next)]
      BY <2>2
    <3> HIDE DEF here, next
    <3>4. Append(Append(Below, here), next) \in Seq(Frame) /\ Append(Append(Below, here), next) # <<>>
      BY <3>1, <3>2
    <3>5. QED BY <1>0, <2>1, <3>3, <3>4, PushSound
  <2>3. QED BY <1>3, <1>11, <2>1, <2>2 DEF NextChild
<1>12. CASE Finish \/ Restart BY <1>2, <1>12 DEF Finish, Restart
<1>13. CASE Handle
  BY <1>1, <1>13 DEF Handle, HandlerFails, ToggleGroupHide, DeleteManagedGroup, InsertRepo, Enqueue,
                     ImportGroup, ReadGroup, CreateRemoteRepo, ToggleRepoArchive, ToggleRepoHide
<1>14. QED
  BY <1>1, <1>4, <1>5, <1>6, <1>7, <1>8, <1>9, <1>10, <1>11, <1>12, <1>13
  DEF Next, Work, PlatformChange, Reject, vars

LEMMA AppliedSound ==
  ASSUME Inv, Sound, AppliedRows, worker.pc = "apply"
  PROVE  RowsSound'
<1> DEFINE g == Top.g
           listed == DOMAIN worker.projects
<1>0. RowsSound /\ WorkerSound BY DEF Sound
<1>1. g \in Groups /\ worker.path \in Seq(Groups) /\ worker.subs \subseteq Groups
      /\ \A p \in listed : worker.projects[p] \in BOOLEAN
  BY <1>0, StackParts DEF WorkerSound, Inv, Shapes
<1> HIDE DEF g, listed
<1>2. ASSUME NEW s \in DOMAIN groups'
      PROVE  groups'[s] \in GroupRow /\ Ends(groups'[s].path, s)
  <2>1. CASE s \notin worker.subs
    <3>1. s \in DOMAIN groups /\ groups'[s] = groups[s] BY <1>2, <2>1 DEF AppliedRows
    <3>2. QED BY <1>0, <3>1 DEF RowsSound
  <2>2. CASE s \in worker.subs
    <3>1. PICK h : groups'[s] = [parent |-> g, path |-> Append(worker.path, s), hidden |-> h]
                   /\ (h = FALSE \/ (s \in DOMAIN groups /\ h = groups[s].hidden))
      <4>1. groups'[s] = [parent |-> g, path |-> Append(worker.path, s),
              hidden |-> IF s \in DOMAIN groups \ Unlisted(g, worker.subs) THEN groups[s].hidden ELSE FALSE]
        BY <2>2 DEF AppliedRows, g
      <4>2. QED BY <4>1
    <3>2. h \in BOOLEAN BY <1>0, <3>1 DEF RowsSound, GroupRow
    <3>3. s \in Groups BY <1>1, <2>2
    <3>4. /\ Append(worker.path, s) \in Seq(Groups) /\ Append(worker.path, s) # <<>>
          /\ Append(worker.path, s)[Len(Append(worker.path, s))] = s
      BY <1>1, <3>3
    <3>5. groups'[s].path = Append(worker.path, s) BY <3>1
    <3>6. groups'[s] \in GroupRow BY <1>1, <3>1, <3>2, <3>4 DEF GroupRow
    <3>7. QED BY <3>4, <3>5, <3>6 DEF Ends
  <2>3. QED BY <2>1, <2>2
<1>3. ASSUME NEW p \in DOMAIN repos' PROVE repos'[p] \in RepoRow
  <2>1. CASE p \notin listed
    <3>1. p \in DOMAIN repos /\ repos'[p] = repos[p] BY <1>3, <2>1 DEF AppliedRows, listed
    <3>2. QED BY <1>0, <3>1 DEF RowsSound
  <2>2. CASE p \in listed
    <3>1. repos'[p] = IF p \in DOMAIN repos /\ ~worker.projects[p]
                      THEN [home |-> g, archived |-> repos[p].archived, hidden |-> repos[p].hidden]
                      ELSE [home |-> g, archived |-> worker.projects[p], hidden |-> worker.projects[p]]
      BY <1>3, <2>2 DEF AppliedRows, g, listed
    <3>2. CASE p \in DOMAIN repos /\ ~worker.projects[p]
      <4>1. repos[p] \in RepoRow BY <1>0, <3>2 DEF RowsSound
      <4>2. repos[p].archived \in BOOLEAN /\ repos[p].hidden \in BOOLEAN BY <4>1 DEF RepoRow
      <4>3. repos'[p] = [home |-> g, archived |-> repos[p].archived, hidden |-> repos[p].hidden]
        BY <3>1, <3>2
      <4>4. QED BY <1>1, <4>2, <4>3 DEF RepoRow
    <3>3. CASE ~(p \in DOMAIN repos /\ ~worker.projects[p])
      <4>1. repos'[p] = [home |-> g, archived |-> worker.projects[p], hidden |-> worker.projects[p]]
        BY <3>1, <3>3
      <4>2. worker.projects[p] \in BOOLEAN BY <1>1, <2>2
      <4>3. QED BY <1>1, <4>1, <4>2 DEF RepoRow
    <3>4. QED BY <3>2, <3>3
  <2>3. QED BY <2>1, <2>2
<1>4. QED BY <1>2, <1>3 DEF RowsSound

LEMMA RowsKept == ASSUME Inv, Sound, Next PROVE RowsSound'
<1>0. RowsSound BY DEF Sound
<1>1. CASE UNCHANGED <<groups, repos>> BY <1>0, <1>1 DEF RowsSound
<1>2. CASE Apply
  <2>1. worker.pc = "apply" BY <1>2 DEF Apply
  <2>2. QED BY <1>1, <1>2, <2>1, ApplyIs, AppliedSound
<1>3. ASSUME NEW g \in Groups, ImportGroup(g) PROVE RowsSound'
  <2>1. PathOf[g] \in Seq(Groups) /\ Len(PathOf[g]) \in Nat \ {0} /\ PathOf[g][Len(PathOf[g])] = g
    BY PathSteps DEF Sound, PlatformSound
  <2> DEFINE path == PathOf[g]
             row == [parent |-> None, path |-> path, hidden |-> FALSE]
  <2>2. UNCHANGED repos /\ groups' = Put(groups, g, row) BY <1>3 DEF ImportGroup
  <2> HIDE DEF path
  <2>3. row \in GroupRow /\ Ends(row.path, g) BY <2>1 DEF GroupRow, Ends, path
  <2> HIDE DEF row
  <2>4. \A s \in DOMAIN groups' : \/ s = g /\ groups'[s] = row
                                  \/ s \in DOMAIN groups /\ groups'[s] = groups[s]
    BY <2>2 DEF Put
  <2>5. QED BY <1>0, <2>2, <2>3, <2>4 DEF RowsSound
<1>4. CASE ToggleGroupHide \/ DeleteManagedGroup
  <2>1. ASSUME NEW s \in DOMAIN groups' PROVE groups'[s] \in GroupRow /\ Ends(groups'[s].path, s)
    <3>1. s \in DOMAIN groups
          /\ (groups'[s] = groups[s] \/ \E h \in BOOLEAN : groups'[s] = [groups[s] EXCEPT !.hidden = h])
      BY <1>4, <2>1, HideRows
    <3>2. groups[s] \in GroupRow /\ Ends(groups[s].path, s) BY <1>0, <3>1 DEF RowsSound
    <3>3. CASE groups'[s] = groups[s] BY <3>2, <3>3
    <3>4. ASSUME NEW h \in BOOLEAN, groups'[s] = [groups[s] EXCEPT !.hidden = h]
          PROVE groups'[s] \in GroupRow /\ groups'[s].path = groups[s].path
      BY <3>2, <3>4 DEF GroupRow
    <3>5. QED BY <3>1, <3>2, <3>3, <3>4
  <2>2. DOMAIN repos' \subseteq DOMAIN repos /\ \A p \in DOMAIN repos' : repos'[p] = repos[p]
    BY <1>4, HideRows
  <2>3. QED BY <1>0, <2>1, <2>2 DEF RowsSound
<1>5. CASE InsertRepo
  <2>1. UNCHANGED groups /\ admin.g \in Groups BY <1>5 DEF InsertRepo, Inv, Shapes
  <2>2. \A p \in DOMAIN repos' :
          \/ p \in DOMAIN repos /\ repos'[p] = repos[p]
          \/ repos'[p] = [home |-> admin.g, archived |-> FALSE, hidden |-> FALSE]
    BY <1>5 DEF InsertRepo, Put
  <2>3. [home |-> admin.g, archived |-> FALSE, hidden |-> FALSE] \in RepoRow BY <2>1 DEF RepoRow
  <2>4. QED BY <1>0, <2>1, <2>2, <2>3 DEF RowsSound
<1>6. ASSUME NEW p \in Projects, ToggleRepoArchive(p) \/ ToggleRepoHide(p) PROVE RowsSound'
  <2>1. UNCHANGED groups /\ p \in DOMAIN repos BY <1>6 DEF ToggleRepoArchive, ToggleRepoHide
  <2>2. repos[p] \in RepoRow BY <1>0, <2>1 DEF RowsSound
  <2>3. PICK row \in RepoRow : repos' = [repos EXCEPT ![p] = row]
    <3>1. CASE ToggleRepoArchive(p)
      <4>1. [repos[p] EXCEPT !.archived = ~repos[p].archived, !.hidden = ~repos[p].archived] \in RepoRow
        BY <2>2 DEF RepoRow
      <4>2. QED BY <3>1, <4>1 DEF ToggleRepoArchive
    <3>2. CASE ToggleRepoHide(p)
      <4>1. [repos[p] EXCEPT !.hidden = ~repos[p].hidden] \in RepoRow BY <2>2 DEF RepoRow
      <4>2. repos' = [repos EXCEPT ![p] = [repos[p] EXCEPT !.hidden = ~repos[p].hidden]]
        BY <3>2 DEF ToggleRepoHide
      <4>3. QED BY <4>1, <4>2
    <3>3. QED BY <1>6, <3>1, <3>2
  <2>4. \A x \in DOMAIN repos' : x \in DOMAIN repos /\ (repos'[x] = row \/ repos'[x] = repos[x])
    BY <2>3
  <2>5. QED BY <1>0, <2>1, <2>3, <2>4 DEF RowsSound
<1>7. CASE Work /\ ~Apply
  BY <1>1, <1>7 DEF Work, Take, Enter, Load, FetchProjects, FetchSubgroups, ReadChildren,
                    NextChild, Finish
<1>8. CASE Handle
  <2>1. CASE HandlerFails \/ \E g \in Groups : Enqueue(g) \/ ReadGroup("hide", g) \/ ReadGroup("delete", g)
    BY <1>1, <2>1 DEF HandlerFails, Enqueue, ReadGroup
  <2>2. CASE \E g \in Groups, p \in Projects : CreateRemoteRepo(g, p)
    BY <1>1, <2>2 DEF CreateRemoteRepo
  <2>3. QED BY <1>3, <1>4, <1>5, <1>6, <1>8, <2>1, <2>2 DEF Handle
<1>9. QED
  BY <1>1, <1>2, <1>7, <1>8 DEF Next, PlatformChange, Restart, Reject, vars

LEMMA StepSound == Inv /\ Sound /\ [Next]_vars => Sound'
<1> SUFFICES ASSUME Inv, Sound, [Next]_vars PROVE Sound' OBVIOUS
<1>1. CASE Next BY <1>1, CountedKept, PlatformKept, QueueKept, AdminKept, WorkerKept, RowsKept DEF Sound
<1>2. CASE UNCHANGED vars
  BY <1>2 DEF vars, platform, Sound, RowsSound, QueueSound, WorkerSound, AdminSound, PlatformSound, Counted,
              Forest
<1>3. QED BY <1>1, <1>2

(* TypeOK: the tables, the queue, the worker and the handlers keep their   *)
(* shapes; the paths of the rows are sequences of groups, though they are  *)
(* computed by recursion over the tree of the platform while people move   *)
(* groups in it.                                                           *)
THEOREM TypeCorrect == Spec => []TypeOK
<1>1. Init => Inv /\ Sound BY InitInv, InitSound
<1>2. Inv /\ Sound /\ [Next]_vars => Inv' /\ Sound' BY StepInv, StepSound
<1>3. Inv /\ Sound => TypeOK
  BY DEF Inv, Shapes, Sound, RowsSound, QueueSound, WorkerSound, AdminSound, Counted, TypeOK
<1>4. QED BY <1>1, <1>2, <1>3, PTL DEF Spec

-----------------------------------------------------------------------------
(* The mirror.  While nothing interferes, the worker has a set M of groups *)
(* whose rows are as the platform has them, and a set D of groups it is    *)
(* done with: hidden, or mirrored with all subgroups done.  The frames of  *)
(* its stack stand for what is neither.                                    *)

(* What a group's row, its children and its projects must be.              *)
MirroredAt(g) ==
  /\ Children(g) = SubgroupsOf(g)
  /\ ReposIn({g}) = ProjectsOf(g)
  /\ \A p \in ReposIn({g}) : p \in archived => repos[p].archived

(* The groups the task has come to see.                                    *)
Reached(M) == {worker.task} \cup UNION {SubgroupsOf(x) : x \in M}

Tables(M, D) ==
  /\ M \subseteq Reached(M) /\ D \subseteq Reached(M) /\ Reached(M) \subseteq DOMAIN groups
  /\ \A x \in Reached(M) \ {worker.task} : groups[x].path = Append(groups[up[x]].path, x)
  /\ \A x \in M : MirroredAt(x)
  /\ \A x \in D : x \notin Hidden => x \in M /\ SubgroupsOf(x) \subseteq D

Frames(M, D) ==
  LET stack == worker.stack IN
  /\ stack # <<>> => stack[1].g = worker.task
  /\ \A i \in 1 .. Len(stack) : stack[i].g \in Reached(M) /\ stack[i].todo \subseteq Reached(M)
  /\ \A i \in 1 .. Len(stack) - 1 :
       stack[i].g \in M /\ SubgroupsOf(stack[i].g) \subseteq D \cup stack[i].todo \cup {stack[i + 1].g}
  /\ worker.pc \in {"children", "next"} => Top.g \in M
  /\ worker.pc = "next" => SubgroupsOf(Top.g) \subseteq D \cup Top.todo
  /\ worker.pc = "finish" => worker.task \in D

Lists ==
  /\ worker.pc \in {"projects", "subgroups", "apply"} => worker.path = groups[Top.g].path
  /\ worker.pc \in {"subgroups", "apply"} => worker.projects = Listed(Top.g)
  /\ worker.pc = "apply" => worker.subs = SubgroupsOf(Top.g)

Progress(M, D) == Tables(M, D) /\ Frames(M, D) /\ Lists

(* Nothing is left of a group that was removed but what is below it.       *)
GoneClosed == gone \subseteq Groups /\ \A g \in Groups : up[g] \in gone => g \in gone

Going == calm /\ worker.task \in DOMAIN groups => \E M, D \in SUBSET Groups : Progress(M, D)

(* No name matches another's as a pattern.                                 *)
Literal == \A g, h \in Groups : <<g, h>> \in Wild => g = h

(* Where a group that was reached comes from; nothing reached is above the *)
(* root of the task.                                                       *)
LEMMA ReachedFrom ==
  ASSUME Sound, NEW M \in SUBSET Groups, NEW D, Tables(M, D), DOMAIN groups \subseteq Groups
  PROVE  /\ \A x \in Reached(M) \ {worker.task} : up[x] \in M /\ x \in SubgroupsOf(up[x])
         /\ up[worker.task] \notin Reached(M)
<1>1. \A x \in Reached(M) \ {worker.task} : up[x] \in M /\ x \in SubgroupsOf(up[x])
  BY DEF Reached, SubgroupsOf
<1>2. Reached(M) \in SUBSET Groups /\ Reached(M) # {} /\ M \subseteq Reached(M)
  BY DEF Tables, Reached
<1>3. PICK x \in Reached(M) : up[x] \notin Reached(M)
  BY <1>2 DEF Sound, PlatformSound, Forest
<1>4. x = worker.task BY <1>1, <1>2, <1>3
<1>5. QED BY <1>1, <1>3, <1>4

LEMMA LikePrefix ==
  ASSUME Literal, NEW p \in Seq(Groups), NEW q \in Seq(Groups), NEW v \in Groups,
         Like(p, Append(q, v)), ~Like(p, q)
  PROVE  p = q
<1>1. Append(q, v) \in Seq(Groups) /\ Len(Append(q, v)) = Len(q) + 1
      /\ \A i \in 1 .. Len(q) : Append(q, v)[i] = q[i]
  OBVIOUS
<1>2. Len(p) <= Len(q) BY <1>1 DEF Like
<1>3. \A i \in 1 .. Len(p) : p[i] = q[i]
  <2>1. TAKE i \in 1 .. Len(p)
  <2>2. p[i] \in Groups /\ q[i] \in Groups BY <1>2
  <2>3. p[i] = q[i] \/ <<p[i], q[i]>> \in Wild BY <1>1, <1>2 DEF Like
  <2>4. QED BY <2>2, <2>3 DEF Literal
<1>4. Len(p) = Len(q) BY <1>2, <1>3 DEF Like
<1>5. QED BY <1>3, <1>4

(* The transaction removes nothing that was reached, unless it removes the *)
(* root of the task.                                                       *)
LEMMA ReachedStays ==
  ASSUME Literal, Inv, Sound, NEW M \in SUBSET Groups, NEW D, Progress(M, D),
         worker.pc = "apply", worker.task \notin Unlisted(Top.g, worker.subs)
  PROVE  Reached(M) \cap Unlisted(Top.g, worker.subs) = {}
<1> DEFINE g == Top.g
           direct == Children(g) \ worker.subs
<1>0. DOMAIN groups \subseteq Groups /\ Tables(M, D) /\ Reached(M) \subseteq DOMAIN groups
      /\ worker.subs = SubgroupsOf(g)
  BY DEF Inv, Shapes, Progress, Tables, Lists
<1>1. /\ \A x \in Reached(M) \ {worker.task} : up[x] \in M /\ x \in SubgroupsOf(up[x])
      /\ M \subseteq Reached(M)
  BY <1>0, ReachedFrom DEF Tables
<1>2. Unlisted(g, worker.subs) = direct \cup UNION {Under(groups[s].path) : s \in direct}
  BY DEF Unlisted
<1>3. ASSUME NEW d \in direct PROVE d \notin Reached(M)
  <2>1. SUFFICES ASSUME d \in Reached(M) PROVE FALSE OBVIOUS
  <2>2. d # worker.task BY <1>2
  <2>3. up[d] \in M /\ d \in SubgroupsOf(up[d]) BY <1>1, <2>1, <2>2
  <2>4. d \in Children(up[d]) BY <1>0, <2>3 DEF Tables, MirroredAt
  <2>5. up[d] = g BY <2>4 DEF Children
  <2>6. QED BY <1>0, <2>3, <2>5
<1>4. ASSUME NEW d \in direct PROVE Reached(M) \cap Under(groups[d].path) = {}
  <2> DEFINE T == {v \in Reached(M) : Like(groups[d].path, groups[v].path)}
  <2>1. SUFFICES ASSUME T # {} PROVE FALSE BY DEF Under
  <2>2. T \in SUBSET Groups BY <1>0
  <2>3. PICK v \in T : up[v] \notin T BY <2>1, <2>2 DEF Sound, PlatformSound, Forest
  <2>4. v \in DOMAIN groups /\ v \in Under(groups[d].path) BY <1>0, <2>3 DEF Under
  <2>5. v # worker.task BY <1>2, <2>4
  <2>6. up[v] \in Reached(M) /\ groups[v].path = Append(groups[up[v]].path, v)
    BY <1>0, <1>1, <2>3, <2>5 DEF Tables
  <2>7. ~Like(groups[d].path, groups[up[v]].path) BY <2>3, <2>6
  <2>8. d \in DOMAIN groups /\ up[v] \in DOMAIN groups /\ v \in Groups
    BY <1>0, <2>4, <2>6 DEF Children
  <2>9. /\ groups[d].path \in Seq(Groups) /\ groups[up[v]].path \in Seq(Groups)
        /\ Ends(groups[d].path, d) /\ Ends(groups[up[v]].path, up[v])
    BY <2>8 DEF Sound, RowsSound, GroupRow
  <2>10. Like(groups[d].path, Append(groups[up[v]].path, v)) BY <2>3, <2>6
  <2>11. groups[d].path = groups[up[v]].path BY <2>7, <2>8, <2>9, <2>10, LikePrefix
  <2>12. d = up[v] BY <2>9, <2>11 DEF Ends
  <2>13. QED BY <1>3, <2>6, <2>12
<1>5. QED BY <1>2, <1>3, <1>4

(* Its rows stay as they are.                                              *)
LEMMA ReachedRowsStay ==
  ASSUME Literal, Inv, Sound, NEW M \in SUBSET Groups, NEW D, Progress(M, D),
         worker.pc = "apply", AppliedRows, worker.task \in DOMAIN groups',
         worker.stack # <<>>
  PROVE  /\ worker.task \notin Unlisted(Top.g, worker.subs)
         /\ Top.g \in Reached(M)
         /\ \A x \in Reached(M) :
              /\ x \notin Unlisted(Top.g, worker.subs)
              /\ x \in DOMAIN groups' /\ groups'[x] = groups[x]
<1> DEFINE g == Top.g
           lost == Unlisted(g, worker.subs)
<1>0. /\ DOMAIN groups \subseteq Groups /\ Tables(M, D) /\ Reached(M) \subseteq DOMAIN groups
      /\ worker.subs = SubgroupsOf(g) /\ worker.path = groups[g].path
  BY DEF Inv, Shapes, Progress, Tables, Lists
<1>1. g \in Reached(M)
  <2>1. Len(worker.stack) \in Nat \ {0} BY StackParts DEF Sound
  <2>2. QED BY <2>1 DEF Progress, Frames, Top
<1>2. /\ \A x \in Reached(M) \ {worker.task} : up[x] \in M /\ x \in SubgroupsOf(up[x])
      /\ up[worker.task] \notin Reached(M)
  BY <1>0, ReachedFrom
<1>3. worker.task \notin worker.subs BY <1>0, <1>1, <1>2 DEF SubgroupsOf
<1>4. worker.task \notin lost BY <1>3 DEF AppliedRows
<1>5. Reached(M) \cap lost = {} BY <1>4, ReachedStays
<1>6. ASSUME NEW x \in Reached(M) PROVE x \in DOMAIN groups' /\ groups'[x] = groups[x]
  <2>1. x \in DOMAIN groups \ lost BY <1>0, <1>5
  <2>2. CASE x \notin worker.subs BY <2>1, <2>2 DEF AppliedRows
  <2>3. CASE x \in worker.subs
    <3>1. x # worker.task /\ up[x] = g BY <1>0, <1>3, <2>3 DEF SubgroupsOf
    <3>2. g \in M /\ x \in SubgroupsOf(g) BY <1>2, <3>1
    <3>3. groups[x].parent = g BY <1>0, <3>2 DEF Tables, MirroredAt, Children
    <3>4. groups[x].path = Append(worker.path, x) BY <1>0, <3>1 DEF Tables
    <3>5. groups'[x] = [parent |-> g, path |-> Append(worker.path, x), hidden |-> groups[x].hidden]
      BY <2>1, <2>3 DEF AppliedRows
    <3>6. groups[x] = [parent |-> groups[x].parent, path |-> groups[x].path, hidden |-> groups[x].hidden]
      BY <2>1 DEF Inv, Shapes
    <3>7. groups'[x] = groups[x] BY <3>3, <3>4, <3>5, <3>6
    <3>8. QED BY <2>3, <3>7 DEF AppliedRows
  <2>4. QED BY <2>2, <2>3
<1>7. QED BY <1>1, <1>4, <1>5, <1>6

LEMMA ApplyMirrors ==
  ASSUME Literal, Inv, Sound, NEW M \in SUBSET Groups, NEW D, Progress(M, D),
         worker.pc = "apply", AppliedRows, worker.task \in DOMAIN groups', UNCHANGED platform,
         worker.stack # <<>>
  PROVE  \A x \in M \cup {Top.g} : MirroredAt(x)'
<1> DEFINE g == Top.g
           lost == Unlisted(g, worker.subs)
           listed == DOMAIN worker.projects
<1>0. /\ DOMAIN groups \subseteq Groups /\ Tables(M, D) /\ M \subseteq Reached(M)
      /\ worker.subs = SubgroupsOf(g) /\ worker.projects = Listed(g)
  BY DEF Inv, Shapes, Progress, Tables, Lists
<1>p. listed = ProjectsOf(g) /\ (\A p \in listed : worker.projects[p] = (p \in archived))
      /\ (\A p \in Projects : p \in listed <=> home[p] = g)
  BY <1>0 DEF Listed, ProjectsOf
<1>k. /\ g \in Reached(M) /\ g \notin lost
      /\ \A x \in Reached(M) : x \notin lost /\ x \in DOMAIN groups' /\ groups'[x] = groups[x]
  BY ReachedRowsStay
<1>f. /\ \A x : SubgroupsOf(x)' = SubgroupsOf(x) /\ ProjectsOf(x)' = ProjectsOf(x)
      /\ archived' = archived
  BY DEF SubgroupsOf, ProjectsOf, platform
<1>g. /\ DOMAIN groups' = (DOMAIN groups \ lost) \cup worker.subs
      /\ \A s \in (DOMAIN groups \ lost) \ worker.subs : groups'[s] = groups[s]
      /\ \A s \in worker.subs : groups'[s].parent = g
  <2>1. ASSUME NEW s \in worker.subs PROVE groups'[s].parent = g
    <3>1. groups'[s] = [parent |-> g, path |-> Append(worker.path, s),
                        hidden |-> IF s \in DOMAIN groups \ lost THEN groups[s].hidden ELSE FALSE]
      BY DEF AppliedRows
    <3>2. QED BY <3>1
  <2>2. QED BY <2>1 DEF AppliedRows
<1>r. /\ \A p \in DOMAIN repos' \ listed : p \in DOMAIN repos /\ repos'[p] = repos[p] /\ repos[p].home # g
      /\ \A p \in DOMAIN repos \ listed :
           repos[p].home # g /\ repos[p].home \notin lost => p \in DOMAIN repos'
      /\ listed \subseteq DOMAIN repos'
      /\ \A p \in listed : repos'[p].home = g /\ (worker.projects[p] => repos'[p].archived)
  <2>1. listed \subseteq DOMAIN repos' BY <1>k DEF AppliedRows
  <2>2. ASSUME NEW p \in listed
        PROVE  repos'[p].home = g /\ (worker.projects[p] => repos'[p].archived)
    <3>1. repos'[p] = IF p \in DOMAIN repos /\ ~worker.projects[p]
                      THEN [home |-> g, archived |-> repos[p].archived, hidden |-> repos[p].hidden]
                      ELSE [home |-> g, archived |-> worker.projects[p], hidden |-> worker.projects[p]]
      BY <2>1 DEF AppliedRows
    <3>2. CASE p \in DOMAIN repos /\ ~worker.projects[p]
      <4>1. repos'[p] = [home |-> g, archived |-> repos[p].archived, hidden |-> repos[p].hidden]
        BY <3>1, <3>2
      <4>2. QED BY <3>2, <4>1
    <3>3. CASE ~(p \in DOMAIN repos /\ ~worker.projects[p])
      <4>1. repos'[p] = [home |-> g, archived |-> worker.projects[p], hidden |-> worker.projects[p]]
        BY <3>1, <3>3
      <4>2. QED BY <4>1
    <3>4. QED BY <3>2, <3>3
  <2>3. QED BY <2>1, <2>2 DEF AppliedRows
<1> HIDE DEF g, lost, listed
<1>1. ASSUME NEW x, x = g PROVE MirroredAt(x)'
  <2>1. Children(x) \ worker.subs \subseteq lost BY <1>1 DEF lost, Unlisted, g
  <2>2. \A s \in DOMAIN groups' : groups'[s].parent = x <=> s \in worker.subs
    BY <1>1, <1>g, <2>1 DEF Children
  <2>3. Children(x)' = {s \in DOMAIN groups' : groups'[s].parent = x} BY DEF Children
  <2>4. Children(x)' = SubgroupsOf(x)'
    <3>1. Children(x)' = worker.subs BY <1>g, <2>2, <2>3
    <3>2. QED BY <1>0, <1>1, <1>f, <3>1
  <2>5. \A p \in DOMAIN repos' : repos'[p].home = x <=> p \in listed BY <1>1, <1>r
  <2>6. ReposIn({x})' = {p \in DOMAIN repos' : repos'[p].home \in {x}} BY DEF ReposIn
  <2>7. ReposIn({x})' = listed BY <1>r, <2>5, <2>6
  <2>8. QED BY <1>1, <1>f, <1>p, <1>r, <2>4, <2>7 DEF MirroredAt
<1>2. ASSUME NEW x \in M PROVE MirroredAt(x)'
  <2>1. CASE x = g BY <1>1, <2>1
  <2>2. CASE x # g
    <3>1. /\ Children(x) = SubgroupsOf(x) /\ ReposIn({x}) = ProjectsOf(x)
          /\ \A p \in ReposIn({x}) : p \in archived => repos[p].archived
      BY <1>0, <1>2 DEF Tables, MirroredAt
    <3>2. SubgroupsOf(x) \subseteq Reached(M) BY <1>2 DEF Reached
    <3>3. \A s : s \in Children(x)' <=> s \in Children(x)
      <4>1. ASSUME NEW s \in Children(x) PROVE s \in Children(x)'
        BY <1>k, <3>1, <3>2, <4>1 DEF Children
      <4>2. ASSUME NEW s \in Children(x)' PROVE s \in Children(x)
        BY <1>g, <2>2, <4>2 DEF Children
      <4>3. QED BY <4>1, <4>2
    <3>4. x \notin lost BY <1>0, <1>2, <1>k
    <3>5. \A p : p \in ReposIn({x})' <=> p \in ReposIn({x})
      <4>1. ASSUME NEW p \in ReposIn({x}) PROVE p \in ReposIn({x})'
        <5>1. p \in DOMAIN repos /\ repos[p].home = x /\ p \in ProjectsOf(x)
          BY <3>1, <4>1 DEF ReposIn
        <5>2. p \notin listed BY <1>p, <2>2, <5>1 DEF ProjectsOf
        <5>3. p \in DOMAIN repos' /\ repos'[p] = repos[p] BY <1>r, <2>2, <3>4, <5>1, <5>2
        <5>4. QED BY <5>1, <5>3 DEF ReposIn
      <4>2. ASSUME NEW p \in ReposIn({x})' PROVE p \in ReposIn({x})
        BY <1>r, <2>2, <4>2 DEF ReposIn
      <4>3. QED BY <4>1, <4>2
    <3>6. \A p \in ReposIn({x}) : repos'[p] = repos[p]
      <4>1. TAKE p \in ReposIn({x})
      <4>2. p \in ReposIn({x})' BY <3>5
      <4>3. p \in DOMAIN repos' /\ repos'[p].home = x BY <4>2 DEF ReposIn
      <4>4. QED BY <1>r, <2>2, <4>3
    <3>7. Children(x)' = SubgroupsOf(x)' /\ ReposIn({x})' = ProjectsOf(x)'
      <4>1. Children(x)' = Children(x) /\ ReposIn({x})' = ReposIn({x}) BY <3>3, <3>5
      <4>2. QED BY <1>f, <3>1, <4>1
    <3>8. QED BY <1>f, <3>1, <3>5, <3>6, <3>7 DEF MirroredAt
  <2>3. QED BY <2>1, <2>2
<1>3. QED BY <1>1, <1>2 DEF g

LEMMA ApplyGoes ==
  ASSUME Literal, Inv, Sound, NEW M \in SUBSET Groups, NEW D \in SUBSET Groups, Progress(M, D),
         worker.pc = "apply", AppliedRows, worker.task \in DOMAIN groups', UNCHANGED platform,
         worker' = [Idle EXCEPT !.pc = "children", !.task = worker.task, !.stack = worker.stack]
  PROVE  \E N \in SUBSET Groups : Progress(N, D)'
<1> DEFINE g == Top.g
<1>s. worker.stack # <<>> BY DEF Sound, WorkerSound
<1>0. /\ DOMAIN groups \subseteq Groups /\ Tables(M, D) /\ M \subseteq Reached(M)
      /\ worker.subs = SubgroupsOf(g) /\ worker.path = groups[g].path
  BY DEF Inv, Shapes, Progress, Tables, Lists
<1>k. /\ g \in Reached(M)
      /\ \A x \in Reached(M) : x \in DOMAIN groups' /\ groups'[x] = groups[x]
  BY <1>s, ReachedRowsStay
<1>n. PICK N \in SUBSET Groups : N = M \cup {g}
  <2>1. M \cup {g} \in SUBSET Groups BY <1>0, <1>k DEF Tables
  <2>2. QED BY <2>1
<1>m. \A x \in N : MirroredAt(x)' BY <1>n, <1>s, ApplyMirrors
<1>f. (\A x : SubgroupsOf(x)' = SubgroupsOf(x)) /\ up' = up BY DEF SubgroupsOf, platform
<1>w. /\ worker'.pc = "children" /\ worker'.task = worker.task /\ worker'.stack = worker.stack
      /\ Top' = Top
  <2>1. worker' = [pc |-> "children", task |-> worker.task, stack |-> worker.stack, path |-> <<>>,
                   projects |-> Nothing, subs |-> {}]
    BY DEF Idle
  <2>2. QED BY <2>1 DEF Top
<1>r. Reached(N)' = Reached(M) \cup worker.subs BY <1>0, <1>f, <1>n, <1>w DEF Reached
<1>u. \A x \in Reached(M) \ {worker.task} : up[x] \in M BY <1>0, ReachedFrom
<1> HIDE DEF g
<1>1. Tables(N, D)'
  <2>1. N \subseteq Reached(N)' /\ D \subseteq Reached(N)' BY <1>0, <1>k, <1>n, <1>r DEF Tables
  <2>2. Reached(N)' \subseteq DOMAIN groups' BY <1>k, <1>r DEF AppliedRows
  <2>3. ASSUME NEW x \in Reached(N)' \ {worker.task}
        PROVE  groups'[x].path = Append(groups'[up[x]].path, x)
    <3>1. CASE x \in Reached(M)
      <4>1. up[x] \in Reached(M) /\ groups[x].path = Append(groups[up[x]].path, x)
        BY <1>0, <1>u, <2>3, <3>1 DEF Tables
      <4>2. QED BY <1>k, <3>1, <4>1
    <3>2. CASE x \in worker.subs
      <4>1. up[x] = g BY <1>0, <3>2 DEF SubgroupsOf
      <4>2. \E h : groups'[x] = [parent |-> g, path |-> Append(worker.path, x), hidden |-> h]
        BY <3>2 DEF AppliedRows, g
      <4>3. groups'[x].path = Append(worker.path, x) BY <4>2
      <4>4. QED BY <1>0, <1>k, <4>1, <4>3
    <3>3. QED BY <1>r, <2>3, <3>1, <3>2
  <2>4. ASSUME NEW x \in D, x \notin Hidden' PROVE x \in N /\ SubgroupsOf(x)' \subseteq D
    <3>1. x \in Reached(M) BY <1>0, <2>4 DEF Tables
    <3>2. x \notin Hidden BY <1>k, <2>4, <3>1 DEF Hidden
    <3>3. QED BY <1>0, <1>f, <1>n, <2>4, <3>2 DEF Tables
  <2>5. QED BY <1>f, <1>m, <1>w, <2>1, <2>2, <2>3, <2>4 DEF Tables
<1>2. Frames(N, D)'
  <2>1. Frames(M, D) BY DEF Progress
  <2>2. /\ worker.stack[1].g = worker.task
        /\ \A i \in 1 .. Len(worker.stack) :
             worker.stack[i].g \in Reached(M) /\ worker.stack[i].todo \subseteq Reached(M)
        /\ \A i \in 1 .. Len(worker.stack) - 1 : \A x :
             x = worker.stack[i].g =>
               x \in M /\ SubgroupsOf(x)' \subseteq D \cup worker.stack[i].todo \cup {worker.stack[i + 1].g}
    BY <1>f, <1>s, <2>1 DEF Frames
  <2>3. PICK stack : stack = worker.stack OBVIOUS
  <2>4. worker'.stack = stack BY <1>w, <2>3
  <2>5. /\ stack[1].g = worker'.task
        /\ \A i \in 1 .. Len(stack) :
             stack[i].g \in Reached(N)' /\ stack[i].todo \subseteq Reached(N)'
        /\ \A i \in 1 .. Len(stack) - 1 :
             /\ stack[i].g \in N
             /\ SubgroupsOf(stack[i].g)' \subseteq D \cup stack[i].todo \cup {stack[i + 1].g}
    BY <1>n, <1>r, <1>w, <2>2, <2>3
  <2>6. Top'.g \in N BY <1>n, <1>w DEF g
  <2>7. QED BY <1>w, <2>4, <2>5, <2>6 DEF Frames
<1>3. Lists' BY <1>w DEF Lists
<1>4. QED BY <1>1, <1>2, <1>3 DEF Progress

(* The steps of the worker that leave the tables.                          *)
LEMMA TablesFrame ==
  ASSUME UNCHANGED <<groups, repos, platform>>, worker'.task = worker.task, NEW M, NEW D
  PROVE  /\ Reached(M)' = Reached(M) /\ Hidden' = Hidden
         /\ \A x : SubgroupsOf(x)' = SubgroupsOf(x)
         /\ Tables(M, D) => Tables(M, D)'
<1>1. \A x : SubgroupsOf(x)' = SubgroupsOf(x) BY DEF SubgroupsOf, platform
<1>2. Reached(M)' = Reached(M) BY <1>1 DEF Reached
<1>3. Hidden' = Hidden BY DEF Hidden
<1>4. \A x : MirroredAt(x)' <=> MirroredAt(x)
  BY DEF MirroredAt, Children, SubgroupsOf, ReposIn, ProjectsOf, platform
<1>5. Tables(M, D) => Tables(M, D)' BY <1>1, <1>2, <1>3, <1>4 DEF Tables, platform
<1>6. QED BY <1>1, <1>2, <1>3, <1>5

LEMMA ReturnGoes ==
  ASSUME Sound, NEW M \in SUBSET Groups, NEW D \in SUBSET Groups, Progress(M, D),
         worker.pc \notin {"idle", "finish"}, Return, UNCHANGED <<groups, repos, platform>>,
         Top.g \in Hidden \/ (Top.g \in M /\ SubgroupsOf(Top.g) \subseteq D)
  PROVE  \E E \in SUBSET Groups : Progress(M, E)'
<1>w. worker' = [pc |-> IF Len(worker.stack) = 1 THEN "finish" ELSE "next", task |-> worker.task,
                 stack |-> Below, path |-> <<>>, projects |-> Nothing, subs |-> {}]
  BY DEF Return, Idle
<1>0. /\ worker'.pc = (IF Len(worker.stack) = 1 THEN "finish" ELSE "next")
      /\ worker'.task = worker.task /\ worker'.stack = Below
  BY <1>w
<1>s. /\ Len(worker.stack) \in Nat \ {0} /\ Len(Below) = Len(worker.stack) - 1
      /\ \A i \in 1 .. Len(Below) : Below[i] = worker.stack[i]
      /\ Top.g \in Groups /\ worker.stack # <<>>
  BY StackParts DEF Sound, WorkerSound
<1>t. /\ Reached(M)' = Reached(M) /\ Hidden' = Hidden
      /\ \A x : SubgroupsOf(x)' = SubgroupsOf(x)
      /\ Tables(M, D)'
  BY <1>0, TablesFrame DEF Progress
<1>f. Frames(M, D) BY DEF Progress
<1>g. Top = worker.stack[Len(worker.stack)] BY DEF Top
<1>e. PICK E \in SUBSET Groups : E = D \cup {Top.g} BY <1>s
<1>1. Tables(M, E)'
  <2>1. Top.g \in Reached(M) BY <1>f, <1>g, <1>s DEF Frames
  <2>2. QED BY <1>e, <1>t, <2>1 DEF Tables
<1>2. Frames(M, E)'
  <2>1. PICK stack : stack = Below OBVIOUS
  <2>2. worker'.stack = stack /\ Len(stack) = Len(worker.stack) - 1
        /\ \A i \in 1 .. Len(stack) : stack[i] = worker.stack[i]
    BY <1>0, <1>s, <2>1
  <2>n. Len(stack) \in Nat
    <3>1. \A n \in Nat \ {0} : n - 1 \in Nat OBVIOUS
    <3>2. QED BY <1>s, <2>2, <3>1
  <2>3. \A i \in 1 .. Len(stack) :
          /\ stack[i].g \in Reached(M) /\ stack[i].todo \subseteq Reached(M)
          /\ stack[i].g \in M
          /\ SubgroupsOf(stack[i].g) \subseteq D \cup stack[i].todo \cup {worker.stack[i + 1].g}
    BY <1>f, <1>s, <2>2 DEF Frames
  <2>4. \A i \in 1 .. Len(stack) - 1 : \A x : x = stack[i].g =>
          SubgroupsOf(x)' \subseteq E \cup stack[i].todo \cup {stack[i + 1].g}
    BY <1>e, <1>s, <1>t, <2>2, <2>3
  <2>5. stack # <<>> => stack[1].g = worker.task
    <3>1. CASE Len(stack) = 0
      <4>1. stack = <<>>
        <5>1. Below \in Seq(Frame) BY StackParts DEF Sound
        <5>2. QED BY <2>1, <3>1, <5>1
      <4>2. QED BY <4>1
    <3>2. CASE Len(stack) # 0
      <4>1. 1 \in 1 .. Len(stack) BY <2>n, <3>2
      <4>2. stack[1] = worker.stack[1] BY <2>2, <4>1
      <4>3. QED BY <1>f, <1>s, <4>2 DEF Frames
    <3>3. QED BY <3>1, <3>2
  <2>6. CASE Len(worker.stack) = 1
    <3>1. worker.task = Top.g BY <1>f, <1>g, <1>s, <2>6 DEF Frames
    <3>2. worker.task \in E /\ worker'.pc = "finish" BY <1>0, <1>e, <2>6, <3>1
    <3>3. QED BY <1>0, <1>t, <2>2, <2>3, <2>4, <2>5, <3>2 DEF Frames
  <2>7. CASE Len(worker.stack) # 1
    <3>1. PICK top : top = stack[Len(stack)] OBVIOUS
    <3>2. Len(stack) \in 1 .. Len(stack) /\ Len(stack) + 1 = Len(worker.stack)
      <4>1. Len(stack) + 1 = Len(worker.stack) BY <1>s, <2>2
      <4>2. \A n \in Nat : n + 1 # 1 => n \in 1 .. n OBVIOUS
      <4>3. Len(stack) + 1 # 1 BY <2>7, <4>1
      <4>4. QED BY <2>n, <4>1, <4>2, <4>3
    <3>3. top.g \in M /\ SubgroupsOf(top.g) \subseteq D \cup top.todo \cup {Top.g}
      BY <1>g, <2>3, <3>1, <3>2
    <3>4. Top' = top BY <2>2, <3>1 DEF Top
    <3>5. \A x : x = top.g => SubgroupsOf(x)' \subseteq E \cup top.todo BY <1>e, <1>t, <3>3
    <3>6. worker'.pc = "next" BY <1>0, <2>7
    <3>7. QED BY <1>0, <1>t, <2>2, <2>3, <2>4, <2>5, <3>3, <3>4, <3>5, <3>6 DEF Frames
  <2>8. QED BY <2>6, <2>7
<1>3. Lists' BY <1>0 DEF Lists
<1>4. QED BY <1>1, <1>2, <1>3 DEF Progress

(* A step at one group.                                                    *)
LEMMA PlaceGoes ==
  ASSUME NEW M, NEW D, Progress(M, D), UNCHANGED <<groups, repos, platform>>,
         worker'.task = worker.task, worker'.stack = worker.stack,
         worker'.pc \in Visiting, Lists'
  PROVE  Progress(M, D)'
<1>t. /\ Reached(M)' = Reached(M)
      /\ \A x : SubgroupsOf(x)' = SubgroupsOf(x)
      /\ Tables(M, D)'
  BY TablesFrame DEF Progress
<1>1. Frames(M, D)'
  <2>1. /\ worker.stack # <<>> => worker.stack[1].g = worker.task
        /\ \A i \in 1 .. Len(worker.stack) :
             worker.stack[i].g \in Reached(M) /\ worker.stack[i].todo \subseteq Reached(M)
        /\ \A i \in 1 .. Len(worker.stack) - 1 : \A x :
             x = worker.stack[i].g =>
               x \in M /\ SubgroupsOf(x)' \subseteq D \cup worker.stack[i].todo \cup {worker.stack[i + 1].g}
    BY <1>t DEF Progress, Frames
  <2>2. PICK stack : stack = worker.stack OBVIOUS
  <2>3. worker'.stack = stack BY <2>2
  <2>4. /\ stack # <<>> => stack[1].g = worker'.task
        /\ \A i \in 1 .. Len(stack) :
             stack[i].g \in Reached(M)' /\ stack[i].todo \subseteq Reached(M)'
        /\ \A i \in 1 .. Len(stack) - 1 :
             stack[i].g \in M /\ SubgroupsOf(stack[i].g)' \subseteq D \cup stack[i].todo \cup {stack[i + 1].g}
    BY <1>t, <2>1, <2>2
  <2>5. QED BY <2>3, <2>4 DEF Frames, Visiting
<1>2. QED BY <1>1, <1>t DEF Progress

(* A step that leaves the worker with the stack k.                         *)
LEMMA StackGoes ==
  ASSUME NEW M, NEW D, Progress(M, D), UNCHANGED <<groups, repos, platform>>,
         NEW k, worker'.stack = k, worker'.task = worker.task, worker'.pc \in {"enter", "next"},
         k[1].g = worker.task,
         \A i \in 1 .. Len(k) : k[i].g \in Reached(M) /\ k[i].todo \subseteq Reached(M),
         \A i \in 1 .. Len(k) - 1 :
           k[i].g \in M /\ SubgroupsOf(k[i].g) \subseteq D \cup k[i].todo \cup {k[i + 1].g},
         worker'.pc = "next" =>
           k[Len(k)].g \in M /\ SubgroupsOf(k[Len(k)].g) \subseteq D \cup k[Len(k)].todo
  PROVE  Progress(M, D)'
<1>t. /\ Reached(M)' = Reached(M)
      /\ \A x : SubgroupsOf(x)' = SubgroupsOf(x)
      /\ Tables(M, D)'
  BY TablesFrame DEF Progress
<1>1. PICK stack : stack = k OBVIOUS
<1>2. PICK top : top = stack[Len(stack)] OBVIOUS
<1>3. worker'.stack = stack /\ Top' = top BY <1>1, <1>2 DEF Top
<1>4. /\ stack[1].g = worker'.task
      /\ \A i \in 1 .. Len(stack) :
           stack[i].g \in Reached(M)' /\ stack[i].todo \subseteq Reached(M)'
      /\ \A i \in 1 .. Len(stack) - 1 :
           stack[i].g \in M /\ SubgroupsOf(stack[i].g)' \subseteq D \cup stack[i].todo \cup {stack[i + 1].g}
      /\ worker'.pc = "next" => top.g \in M /\ SubgroupsOf(top.g)' \subseteq D \cup top.todo
  BY <1>1, <1>2, <1>t
<1>5. Frames(M, D)' BY <1>3, <1>4 DEF Frames
<1>6. Lists' BY DEF Lists
<1>7. QED BY <1>5, <1>6, <1>t DEF Progress

(* The stack with another frame on its top.                                *)
LEMMA Replaced ==
  ASSUME WorkerSound, worker.pc \notin {"idle", "finish"}, NEW f \in Frame
  PROVE  /\ Append(Below, f) \in Seq(Frame) /\ Len(Append(Below, f)) = Len(worker.stack)
         /\ Append(Below, f)[Len(worker.stack)] = f
         /\ \A i \in 1 .. Len(worker.stack) - 1 : Append(Below, f)[i] = worker.stack[i]
<1>1. /\ Len(worker.stack) \in Nat \ {0} /\ Below \in Seq(Frame) /\ Len(Below) = Len(worker.stack) - 1
      /\ \A i \in 1 .. Len(Below) : Below[i] = worker.stack[i]
  BY StackParts
<1>2. PICK b \in Seq(Frame) : b = Below BY <1>1
<1>3. /\ Append(b, f) \in Seq(Frame) /\ Len(Append(b, f)) = Len(b) + 1 /\ Append(b, f)[Len(b) + 1] = f
      /\ \A i \in 1 .. Len(b) : Append(b, f)[i] = b[i]
  OBVIOUS
<1>4. Len(b) + 1 = Len(worker.stack) BY <1>1, <1>2
<1>5. QED BY <1>1, <1>2, <1>3, <1>4

LEMMA ReadChildrenGoes ==
  ASSUME Inv, Sound, NEW M \in SUBSET Groups, NEW D \in SUBSET Groups, Progress(M, D), ReadChildren
  PROVE  Progress(M, D)'
<1> DEFINE n == Len(worker.stack)
           here == [Top EXCEPT !.todo = Children(Top.g)]
<1>0. worker.pc = "children" /\ UNCHANGED <<groups, repos, platform>>
      /\ worker' = [worker EXCEPT !.pc = "next", !.stack = Append(Below, here)]
  BY DEF ReadChildren
<1>s. n \in Nat \ {0} /\ Top = [g |-> Top.g, todo |-> Top.todo] /\ Top.g \in Groups
      /\ worker.stack # <<>> /\ WorkerSound
  BY <1>0, StackParts DEF Sound, WorkerSound
<1>h. here = [g |-> Top.g, todo |-> Children(Top.g)] /\ here \in Frame
  <2>1. here = [g |-> Top.g, todo |-> Children(Top.g)] BY <1>s
  <2>2. Children(Top.g) \subseteq Groups BY DEF Children, Inv, Shapes
  <2>3. QED BY <1>s, <2>1, <2>2 DEF Frame
<1>g. here.g = Top.g /\ here.todo = Children(Top.g) BY <1>h
<1>f. Frames(M, D) /\ Tables(M, D) BY DEF Progress
<1>m. Top.g \in M /\ Children(Top.g) = SubgroupsOf(Top.g) /\ SubgroupsOf(Top.g) \subseteq Reached(M)
  BY <1>0, <1>f DEF Frames, Tables, MirroredAt, Reached
<1>w. worker'.pc = "next" /\ worker'.task = worker.task /\ worker'.stack = Append(Below, here)
  <2>1. worker = [pc |-> worker.pc, task |-> worker.task, stack |-> worker.stack,
                  path |-> worker.path, projects |-> worker.projects, subs |-> worker.subs]
    BY DEF Inv, Shapes
  <2>2. worker' = [pc |-> "next", task |-> worker.task, stack |-> Append(Below, here),
                   path |-> worker.path, projects |-> worker.projects, subs |-> worker.subs]
    BY <1>0, <2>1
  <2>3. QED BY <2>2
<1>p. Top = worker.stack[n] BY DEF Top
<1> HIDE DEF here
<1>k. PICK k : k = Append(Below, here) OBVIOUS
<1>1. Len(k) = n /\ k[n] = here /\ \A i \in 1 .. n - 1 : k[i] = worker.stack[i]
  BY <1>0, <1>h, <1>k, <1>s, Replaced
<1> HIDE DEF n
<1>2. \A i \in 1 .. n : k[i].g = worker.stack[i].g
  <2>1. TAKE i \in 1 .. n
  <2>2. CASE i = n BY <1>1, <1>g, <1>p, <2>2
  <2>3. CASE i # n BY <1>1, <1>s, <2>3
  <2>4. QED BY <2>2, <2>3
<1>3. \A i \in 1 .. n : k[i].g \in Reached(M) /\ k[i].todo \subseteq Reached(M)
  <2>1. TAKE i \in 1 .. n
  <2>2. worker.stack[i].g \in Reached(M) /\ worker.stack[i].todo \subseteq Reached(M)
    BY <1>f DEF Frames, n
  <2>3. CASE i = n BY <1>1, <1>2, <1>g, <1>m, <2>2, <2>3
  <2>4. CASE i # n BY <1>1, <1>s, <2>2, <2>4
  <2>5. QED BY <2>3, <2>4
<1>4. \A i \in 1 .. n - 1 :
        k[i].g \in M /\ SubgroupsOf(k[i].g) \subseteq D \cup k[i].todo \cup {k[i + 1].g}
  <2>1. TAKE i \in 1 .. n - 1
  <2>2. i \in 1 .. n /\ i + 1 \in 1 .. n BY <1>s
  <2>3. worker.stack[i].g \in M /\ SubgroupsOf(worker.stack[i].g)
          \subseteq D \cup worker.stack[i].todo \cup {worker.stack[i + 1].g}
    BY <1>f DEF Frames, n
  <2>4. QED BY <1>1, <1>2, <2>2, <2>3
<1>5. k[n].g \in M /\ SubgroupsOf(k[n].g) \subseteq D \cup k[n].todo BY <1>1, <1>g, <1>m
<1>6. k[1].g = worker.task
  <2>1. 1 \in 1 .. n BY <1>s
  <2>2. QED BY <1>2, <1>f, <1>s, <2>1 DEF Frames
<1>7. worker'.stack = k BY <1>k, <1>w
<1>8. QED BY <1>0, <1>1, <1>3, <1>4, <1>5, <1>6, <1>7, <1>w, StackGoes

LEMMA NextChildGoes ==
  ASSUME Inv, Sound, NEW M \in SUBSET Groups, NEW D \in SUBSET Groups, Progress(M, D), NextChild
  PROVE  \E E \in SUBSET Groups : Progress(M, E)'
<1> DEFINE n == Len(worker.stack)
<1>0. worker.pc = "next" /\ UNCHANGED <<groups, repos, platform>> BY DEF NextChild
<1>s. n \in Nat \ {0} /\ Top = [g |-> Top.g, todo |-> Top.todo] /\ Top \in Frame
      /\ worker.stack # <<>> /\ WorkerSound /\ Top.todo \subseteq Groups
  BY <1>0, StackParts DEF Sound, WorkerSound
<1>f. Frames(M, D) BY DEF Progress
<1>m. Top.g \in M /\ SubgroupsOf(Top.g) \subseteq D \cup Top.todo BY <1>0, <1>f DEF Frames
<1>p. Top = worker.stack[n] BY DEF Top
<1>1. CASE Top.todo = {} /\ Return BY <1>0, <1>1, <1>m, ReturnGoes
<1>2. ASSUME NEW s \in Top.todo,
             worker' = [worker EXCEPT !.pc = "enter",
               !.stack = Append(Append(Below, [Top EXCEPT !.todo = @ \ {s}]), [g |-> s, todo |-> {}])]
      PROVE  Progress(M, D)'
  <2> DEFINE here == [Top EXCEPT !.todo = @ \ {s}]
             next == [g |-> s, todo |-> {}]
  <2>1. here = [g |-> Top.g, todo |-> Top.todo \ {s}]
    <3>1. \A r \in Frame : [r EXCEPT !.todo = @ \ {s}] = [g |-> r.g, todo |-> r.todo \ {s}]
      BY DEF Frame
    <3>2. QED BY <1>s, <3>1
  <2>2. here.g = Top.g /\ here.todo = Top.todo \ {s} /\ next.g = s /\ next.todo = {} BY <2>1
  <2>3. here \in Frame /\ next \in Frame BY <1>s, <1>2, <2>1 DEF Frame
  <2>w. worker'.pc = "enter" /\ worker'.task = worker.task
        /\ worker'.stack = Append(Append(Below, here), next)
    <3>1. worker = [pc |-> worker.pc, task |-> worker.task, stack |-> worker.stack,
                    path |-> worker.path, projects |-> worker.projects, subs |-> worker.subs]
      BY DEF Inv, Shapes
    <3>2. worker' = [pc |-> "enter", task |-> worker.task, stack |-> Append(Append(Below, here), next),
                     path |-> worker.path, projects |-> worker.projects, subs |-> worker.subs]
      BY <1>2, <3>1
    <3>3. QED BY <3>2
  <2> HIDE DEF here, next
  <2>4. PICK b \in Seq(Frame) : b = Append(Below, here) BY <1>0, <1>s, <2>3, Replaced
  <2>5. Len(b) = n /\ b[n] = here /\ \A i \in 1 .. n - 1 : b[i] = worker.stack[i]
    BY <1>0, <1>s, <2>3, <2>4, Replaced
  <2>6. PICK k : k = Append(b, next) OBVIOUS
  <2>7. Len(k) = n + 1 /\ k[n + 1] = next /\ \A i \in 1 .. n : k[i] = b[i]
    BY <2>3, <2>5, <2>6
  <2> HIDE DEF n
  <2>8. \A i \in 1 .. n : k[i].g = worker.stack[i].g
    <3>1. TAKE i \in 1 .. n
    <3>2. CASE i = n BY <1>p, <2>2, <2>5, <2>7, <3>2
    <3>3. CASE i # n BY <1>s, <2>5, <2>7, <3>3
    <3>4. QED BY <3>2, <3>3
  <2>9. \A i \in 1 .. n : worker.stack[i].g \in Reached(M) /\ worker.stack[i].todo \subseteq Reached(M)
    BY <1>f DEF Frames, n
  <2>10. Top.todo \subseteq Reached(M) BY <1>p, <1>s, <2>9
  <2>11. \A i \in 1 .. n + 1 : k[i].g \in Reached(M) /\ k[i].todo \subseteq Reached(M)
    <3>1. TAKE i \in 1 .. n + 1
    <3>2. CASE i = n + 1 BY <1>2, <2>2, <2>7, <2>10, <3>2
    <3>3. CASE i = n BY <1>s, <2>2, <2>5, <2>7, <2>8, <2>9, <2>10, <3>3
    <3>4. CASE i \notin {n, n + 1} BY <1>s, <2>5, <2>7, <2>9, <3>4
    <3>5. QED BY <3>2, <3>3, <3>4
  <2>12. \A i \in 1 .. n :
           k[i].g \in M /\ SubgroupsOf(k[i].g) \subseteq D \cup k[i].todo \cup {k[i + 1].g}
    <3>1. TAKE i \in 1 .. n
    <3>2. CASE i = n
      <4>1. k[i] = here /\ k[i + 1].g = s BY <1>s, <2>2, <2>5, <2>7, <3>2
      <4>2. QED BY <1>m, <2>2, <4>1
    <3>3. CASE i # n
      <4>1. i \in 1 .. n - 1 /\ i + 1 \in 1 .. n BY <1>s, <3>3
      <4>2. worker.stack[i].g \in M /\ SubgroupsOf(worker.stack[i].g)
              \subseteq D \cup worker.stack[i].todo \cup {worker.stack[i + 1].g}
        BY <1>f, <4>1 DEF Frames, n
      <4>3. k[i] = worker.stack[i] /\ k[i + 1].g = worker.stack[i + 1].g
        BY <2>5, <2>7, <2>8, <4>1
      <4>4. QED BY <4>2, <4>3
    <3>4. QED BY <3>2, <3>3
  <2>13. k[1].g = worker.task
    <3>1. 1 \in 1 .. n BY <1>s
    <3>2. QED BY <1>f, <1>s, <2>8, <3>1 DEF Frames
  <2>14. worker'.stack = k BY <2>4, <2>6, <2>w
  <2>15. Len(k) = n + 1 /\ Len(k) - 1 = n BY <1>s, <2>7
  <2>16. \A i \in 1 .. Len(k) : k[i].g \in Reached(M) /\ k[i].todo \subseteq Reached(M)
    BY <2>11, <2>15
  <2>17. \A i \in 1 .. Len(k) - 1 :
           k[i].g \in M /\ SubgroupsOf(k[i].g) \subseteq D \cup k[i].todo \cup {k[i + 1].g}
    BY <2>12, <2>15
  <2>18. worker'.pc = "enter" /\ worker'.task = worker.task BY <2>w
  <2>19. QED BY <1>0, <2>13, <2>14, <2>16, <2>17, <2>18, StackGoes
<1>3. QED BY <1>1, <1>2 DEF NextChild

(* The steps of a task with which nothing interferes, and those beside it. *)
Moved(step) ==   \* the worker goes on with the group it is at
  /\ UNCHANGED <<groups, repos, platform>>
  /\ worker'.task = worker.task /\ worker'.stack = worker.stack /\ worker'.pc = step
Fetched ==
  \/ worker.pc = "enter" /\ Moved("load")
  \/ /\ worker.pc = "load" /\ Moved("projects") /\ worker'.path = groups[Top.g].path
  \/ /\ worker.pc = "projects" /\ Moved("subgroups")
     /\ worker'.path = worker.path /\ worker'.projects = Listed(Top.g)
  \/ /\ worker.pc = "subgroups" /\ Moved("apply")
     /\ worker'.path = worker.path /\ worker'.projects = worker.projects
     /\ worker'.subs = SubgroupsOf(Top.g)
Left ==          \* nothing is to be done for the group
  /\ UNCHANGED <<groups, repos, platform>> /\ Return
  /\ \/ worker.pc = "enter" /\ (Top.g \in DOMAIN groups => Top.g \in Hidden)
     \/ worker.pc = "load" /\ Top.g \notin DOMAIN groups
Written ==
  /\ worker.pc = "apply" /\ AppliedRows /\ UNCHANGED platform
  /\ worker' = [Idle EXCEPT !.pc = "children", !.task = worker.task, !.stack = worker.stack]
Started == Take /\ Head(queue) \in DOMAIN groups
Beside == UNCHANGED <<groups, repos, platform, worker, calm>>

LEMMA CalmSteps ==
  ASSUME Inv, [Next]_vars, calm'
  PROVE  \/ Beside \/ Started
         \/ calm /\ (Fetched \/ Left \/ Written \/ ReadChildren \/ NextChild)
<1>w. worker = [pc |-> worker.pc, task |-> worker.task, stack |-> worker.stack,
                path |-> worker.path, projects |-> worker.projects, subs |-> worker.subs]
  BY DEF Inv, Shapes
<1>1. CASE Work
  <2>1. CASE Take BY <2>1 DEF Take, Started
  <2>2. CASE Enter
    <3>1. calm /\ worker.pc = "enter" /\ UNCHANGED <<groups, repos, platform>> BY <2>2 DEF Enter
    <3>2. CASE (Top.g \in DOMAIN groups => Skipped(Top.g)) /\ Return
      BY <3>1, <3>2 DEF Left, Skipped, Hidden
    <3>3. CASE worker' = [worker EXCEPT !.pc = "load"]
      <4>1. worker'.task = worker.task /\ worker'.stack = worker.stack /\ worker'.pc = "load"
        BY <1>w, <3>3
      <4>2. QED BY <3>1, <4>1 DEF Fetched, Moved
    <3>4. QED BY <2>2, <3>2, <3>3 DEF Enter
  <2>3. CASE Load
    <3>1. calm /\ worker.pc = "load" /\ UNCHANGED <<groups, repos, platform>> BY <2>3 DEF Load
    <3>2. CASE Top.g \notin DOMAIN groups /\ Return BY <3>1, <3>2 DEF Left
    <3>3. CASE worker' = [worker EXCEPT !.pc = "projects", !.path = groups[Top.g].path]
      <4>1. worker'.task = worker.task /\ worker'.stack = worker.stack /\ worker'.pc = "projects"
            /\ worker'.path = groups[Top.g].path
        BY <1>w, <3>3
      <4>2. QED BY <3>1, <4>1 DEF Fetched, Moved
    <3>4. QED BY <2>3, <3>2, <3>3 DEF Load
  <2>4. CASE FetchProjects
    <3>1. /\ calm /\ worker.pc = "projects" /\ UNCHANGED <<groups, repos, platform>>
          /\ worker' = [worker EXCEPT !.pc = "subgroups", !.projects = Listed(Top.g)]
      BY <2>4 DEF FetchProjects, FetchFails
    <3>2. /\ worker'.task = worker.task /\ worker'.stack = worker.stack /\ worker'.pc = "subgroups"
          /\ worker'.path = worker.path /\ worker'.projects = Listed(Top.g)
      BY <1>w, <3>1
    <3>3. QED BY <3>1, <3>2 DEF Fetched, Moved
  <2>5. CASE FetchSubgroups
    <3>1. /\ calm /\ worker.pc = "subgroups" /\ UNCHANGED <<groups, repos, platform>>
          /\ worker' = [worker EXCEPT !.pc = "apply", !.subs = SubgroupsOf(Top.g)]
      BY <2>5 DEF FetchSubgroups, FetchFails
    <3>2. /\ worker'.task = worker.task /\ worker'.stack = worker.stack /\ worker'.pc = "apply"
          /\ worker'.path = worker.path /\ worker'.projects = worker.projects
          /\ worker'.subs = SubgroupsOf(Top.g)
      BY <1>w, <3>1
    <3>3. QED BY <3>1, <3>2 DEF Fetched, Moved
  <2>6. CASE Apply
    <3>1. worker.pc = "apply" /\ UNCHANGED platform BY <2>6 DEF Apply
    <3>2. QED BY <2>6, <3>1, ApplyIs DEF Written
  <2>7. CASE ReadChildren BY <2>7 DEF ReadChildren
  <2>8. CASE NextChild BY <2>8 DEF NextChild
  <2>9. CASE Finish BY <2>9 DEF Finish
  <2>10. QED BY <1>1, <2>1, <2>2, <2>3, <2>4, <2>5, <2>6, <2>7, <2>8, <2>9 DEF Work
<1>2. CASE Handle
  BY <1>2 DEF Handle, ToggleGroupHide, DeleteManagedGroup, InsertRepo, HandlerFails, Enqueue,
              ImportGroup, ReadGroup, CreateRemoteRepo, ToggleRepoArchive, ToggleRepoHide, Beside
<1>3. CASE PlatformChange \/ Restart BY <1>3 DEF PlatformChange, Restart
<1>4. CASE UNCHANGED vars BY <1>4 DEF vars, Beside
<1>5. QED BY <1>1, <1>2, <1>3, <1>4 DEF Next, Reject

-----------------------------------------------------------------------------
(* What was removed on the platform stays closed downwards.                *)
LEMMA GoneKept == ASSUME Sound, GoneClosed, Next PROVE GoneClosed'
<1>1. CASE UNCHANGED <<up, gone>> BY <1>1 DEF GoneClosed
<1>2. CASE PlatformChange
  <2>0. up \in [Groups -> Groups \cup {None}] /\ Forest(up) BY DEF Sound, PlatformSound
  <2>n. None \notin Groups BY ConstantsAssumption
  <2>1. CASE UNCHANGED gone /\ \E g \in Groups \ gone, h \in (Groups \ gone) \cup {None} :
                                 up' = [up EXCEPT ![g] = h]
    <3>1. PICK g \in Groups \ gone, h \in (Groups \ gone) \cup {None} : up' = [up EXCEPT ![g] = h]
      BY <2>1
    <3>2. h \notin gone BY <2>n DEF GoneClosed
    <3>3. QED BY <2>0, <2>1, <3>1, <3>2 DEF GoneClosed
  <2>2. CASE UNCHANGED up /\ \E g \in Groups \ gone : gone' = gone \cup {h \in Groups : Descends(h, g)}
    <3>1. PICK g \in Groups \ gone : gone' = gone \cup {h \in Groups : Descends(h, g)} BY <2>2
    <3>2. ASSUME NEW x \in Groups, up[x] \in gone' PROVE x \in gone'
      <4>1. CASE up[x] \in gone BY <3>1, <4>1 DEF GoneClosed
      <4>2. CASE up[x] \in Groups /\ Descends(up[x], g)
        <5>1. up[x] # None BY <2>n, <4>2
        <5>2. Descends(x, g) BY <2>0, <4>2, <5>1, Descent
        <5>3. QED BY <3>1, <5>2
      <4>3. QED BY <3>1, <3>2, <4>1, <4>2
    <3>3. QED BY <2>2, <3>1, <3>2 DEF GoneClosed
  <2>3. QED BY <1>1, <1>2, <2>1, <2>2 DEF PlatformChange
<1>3. CASE Work
  BY <1>1, <1>3 DEF Work, Take, Enter, Load, FetchProjects, FetchSubgroups, Apply, ReadChildren,
                    NextChild, Finish, platform
<1>4. CASE Handle
  BY <1>1, <1>4 DEF Handle, ToggleGroupHide, DeleteManagedGroup, InsertRepo, HandlerFails, Enqueue,
                    ImportGroup, ReadGroup, CreateRemoteRepo, ToggleRepoArchive, ToggleRepoHide, platform
<1>5. CASE Restart \/ Reject BY <1>1, <1>5 DEF Restart, Reject, vars, platform
<1>6. QED BY <1>2, <1>3, <1>4, <1>5 DEF Next

(* The worker stays below the root of its task, so that nothing writes the *)
(* root again once it is gone from the table.                              *)
Within(S) ==
  /\ \A x \in S : x = worker.task \/ up[x] \in S
  /\ \A i \in 1 .. Len(worker.stack) : worker.stack[i].g \in S /\ worker.stack[i].todo \subseteq S
Rooted ==
  calm => /\ \E S \in SUBSET Groups : Within(S)
          /\ worker.pc = "children" => Children(Top.g) \subseteq SubgroupsOf(Top.g)
          /\ worker.pc = "apply" => worker.subs = SubgroupsOf(Top.g)

LEMMA RootNotBelow ==
  ASSUME Sound, NEW S \in SUBSET Groups, Within(S), NEW g \in S
  PROVE  worker.task \notin SubgroupsOf(g)
<1> SUFFICES ASSUME worker.task \in SubgroupsOf(g) PROVE FALSE OBVIOUS
<1>1. worker.task \in Groups /\ up[worker.task] = g BY DEF SubgroupsOf
<1> DEFINE T == S \cup {worker.task}
<1>2. T \in SUBSET Groups /\ T # {} BY <1>1
<1>3. PICK x \in T : up[x] \notin T BY <1>2 DEF Sound, PlatformSound, Forest
<1>4. QED BY <1>1, <1>3 DEF Within

LEMMA RootedStart ==
  ASSUME Sound, Started PROVE Rooted'
<1>1. PICK g \in Groups : g = Head(queue)
  BY DEF Started, Take, Sound, QueueSound
<1>2. /\ worker' = [Idle EXCEPT !.pc = "enter", !.task = g, !.stack = <<[g |-> g, todo |-> {}]>>]
  BY <1>1 DEF Started, Take
<1>3. /\ worker'.pc = "enter" /\ worker'.task = g /\ worker'.stack = <<[g |-> g, todo |-> {}]>>
  BY <1>2 DEF Idle
<1>4. Within({g})'
  <2>1. \A i \in 1 .. Len(<<[g |-> g, todo |-> {}]>>) :
          <<[g |-> g, todo |-> {}]>>[i].g = g /\ <<[g |-> g, todo |-> {}]>>[i].todo = {}
    OBVIOUS
  <2>2. QED BY <1>3, <2>1 DEF Within
<1>5. QED BY <1>3, <1>4 DEF Rooted

LEMMA RootedStack ==
  ASSUME UNCHANGED up, worker'.task = worker.task, NEW S, Within(S),
         NEW k, worker'.stack = k,
         \A i \in 1 .. Len(k) : k[i].g \in S /\ k[i].todo \subseteq S
  PROVE  Within(S)'
BY DEF Within

LEMMA RootedReturn ==
  ASSUME Sound, worker.pc \notin {"idle", "finish"}, Return, UNCHANGED platform, NEW S, Within(S)
  PROVE  Within(S)' /\ worker'.pc \in {"finish", "next"}
<1>1. /\ Len(Below) = Len(worker.stack) - 1 /\ Len(worker.stack) \in Nat \ {0}
      /\ \A i \in 1 .. Len(Below) : Below[i] = worker.stack[i]
  BY StackParts DEF Sound
<1>2. worker' = [pc |-> IF Len(worker.stack) = 1 THEN "finish" ELSE "next", task |-> worker.task,
                 stack |-> Below, path |-> <<>>, projects |-> Nothing, subs |-> {}]
  BY DEF Return, Idle
<1>3. worker'.pc \in {"finish", "next"} /\ worker'.task = worker.task /\ worker'.stack = Below
  BY <1>2
<1>4. \A i \in 1 .. Len(Below) : i \in 1 .. Len(worker.stack) BY <1>1
<1>5. \A i \in 1 .. Len(Below) : Below[i].g \in S /\ Below[i].todo \subseteq S
  BY <1>1, <1>4 DEF Within
<1>6. QED BY <1>3, <1>5, RootedStack DEF platform

LEMMA RootedRead ==
  ASSUME Inv, Sound, ReadChildren, NEW S \in SUBSET Groups, Within(S),
         Children(Top.g) \subseteq SubgroupsOf(Top.g)
  PROVE  worker'.pc = "next" /\ \E R \in SUBSET Groups : Within(R)'
<1> DEFINE n == Len(worker.stack)
           here == [Top EXCEPT !.todo = Children(Top.g)]
<1>0. worker.pc = "children" /\ UNCHANGED up
      /\ worker' = [worker EXCEPT !.pc = "next", !.stack = Append(Below, here)]
  BY DEF ReadChildren, platform
<1>s. n \in Nat \ {0} /\ Top = [g |-> Top.g, todo |-> Top.todo] /\ Top.g \in Groups /\ WorkerSound
  BY <1>0, StackParts DEF Sound
<1>h. here = [g |-> Top.g, todo |-> Children(Top.g)] /\ here \in Frame
  <2>1. here = [g |-> Top.g, todo |-> Children(Top.g)] BY <1>s
  <2>2. Children(Top.g) \subseteq Groups BY DEF Children, Inv, Shapes
  <2>3. QED BY <1>s, <2>1, <2>2 DEF Frame
<1>g. here.g = Top.g /\ here.todo = Children(Top.g) BY <1>h
<1>p. Top = worker.stack[n] BY DEF Top
<1>w. worker'.pc = "next" /\ worker'.task = worker.task /\ worker'.stack = Append(Below, here)
  <2>1. worker = [pc |-> worker.pc, task |-> worker.task, stack |-> worker.stack,
                  path |-> worker.path, projects |-> worker.projects, subs |-> worker.subs]
    BY DEF Inv, Shapes
  <2>2. worker' = [pc |-> "next", task |-> worker.task, stack |-> Append(Below, here),
                   path |-> worker.path, projects |-> worker.projects, subs |-> worker.subs]
    BY <1>0, <2>1
  <2>3. QED BY <2>2
<1> HIDE DEF here
<1>k. PICK k : k = Append(Below, here) OBVIOUS
<1>1. Len(k) = n /\ k[n] = here /\ \A i \in 1 .. n - 1 : k[i] = worker.stack[i]
  BY <1>0, <1>h, <1>k, <1>s, Replaced
<1>r. PICK R \in SUBSET Groups : R = S \cup SubgroupsOf(Top.g)
  <2>1. S \cup SubgroupsOf(Top.g) \in SUBSET Groups BY DEF SubgroupsOf
  <2>2. QED BY <2>1
<1>2. Top.g \in S BY <1>p, <1>s DEF Within
<1>3. Within(R)
  <2>1. \A x \in R : x = worker.task \/ up[x] \in R BY <1>2, <1>r DEF Within, SubgroupsOf
  <2>2. QED BY <1>r, <2>1 DEF Within
<1>4. \A i \in 1 .. Len(k) : k[i].g \in R /\ k[i].todo \subseteq R
  <2>1. TAKE i \in 1 .. Len(k)
  <2>2. CASE i = n BY <1>1, <1>2, <1>g, <1>r, <2>2
  <2>3. CASE i # n
    <3>1. i \in 1 .. n - 1 /\ i \in 1 .. n BY <1>1, <1>s, <2>3
    <3>2. QED BY <1>1, <1>3, <3>1 DEF Within
  <2>4. QED BY <2>2, <2>3
<1>5. QED BY <1>0, <1>3, <1>4, <1>k, <1>w, RootedStack

LEMMA RootedNext ==
  ASSUME Inv, Sound, NextChild, NEW S \in SUBSET Groups, Within(S)
  PROVE  worker'.pc \in {"finish", "next", "enter"} /\ Within(S)'
<1> DEFINE n == Len(worker.stack)
<1>0. worker.pc = "next" /\ UNCHANGED platform BY DEF NextChild
<1>s. n \in Nat \ {0} /\ Top \in Frame /\ WorkerSound BY <1>0, StackParts DEF Sound
<1>p. Top = worker.stack[n] BY DEF Top
<1>t. Top.g \in S /\ Top.todo \subseteq S BY <1>p, <1>s DEF Within
<1>1. CASE Return BY <1>0, <1>1, RootedReturn
<1>2. ASSUME NEW s \in Top.todo,
             worker' = [worker EXCEPT !.pc = "enter",
               !.stack = Append(Append(Below, [Top EXCEPT !.todo = @ \ {s}]), [g |-> s, todo |-> {}])]
      PROVE  worker'.pc = "enter" /\ Within(S)'
  <2> DEFINE here == [Top EXCEPT !.todo = @ \ {s}]
             next == [g |-> s, todo |-> {}]
  <2>1. here = [g |-> Top.g, todo |-> Top.todo \ {s}]
    <3>1. \A r \in Frame : [r EXCEPT !.todo = @ \ {s}] = [g |-> r.g, todo |-> r.todo \ {s}]
      BY DEF Frame
    <3>2. QED BY <1>s, <3>1
  <2>2. here.g = Top.g /\ here.todo = Top.todo \ {s} /\ next.g = s /\ next.todo = {} BY <2>1
  <2>3. here \in Frame /\ next \in Frame BY <1>s, <1>2, <2>1 DEF Frame
  <2>w. worker'.pc = "enter" /\ worker'.task = worker.task
        /\ worker'.stack = Append(Append(Below, here), next)
    <3>1. worker = [pc |-> worker.pc, task |-> worker.task, stack |-> worker.stack,
                    path |-> worker.path, projects |-> worker.projects, subs |-> worker.subs]
      BY DEF Inv, Shapes
    <3>2. worker' = [pc |-> "enter", task |-> worker.task, stack |-> Append(Append(Below, here), next),
                     path |-> worker.path, projects |-> worker.projects, subs |-> worker.subs]
      BY <1>2, <3>1
    <3>3. QED BY <3>2
  <2> HIDE DEF here, next
  <2>4. PICK b \in Seq(Frame) : b = Append(Below, here) BY <1>0, <1>s, <2>3, Replaced
  <2>5. Len(b) = n /\ b[n] = here /\ \A i \in 1 .. n - 1 : b[i] = worker.stack[i]
    BY <1>0, <1>s, <2>3, <2>4, Replaced
  <2>6. PICK k : k = Append(b, next) OBVIOUS
  <2>7. Len(k) = n + 1 /\ k[n + 1] = next /\ \A i \in 1 .. n : k[i] = b[i]
    BY <2>3, <2>5, <2>6
  <2>8. \A i \in 1 .. n : worker.stack[i].g \in S /\ worker.stack[i].todo \subseteq S BY DEF Within
  <2> HIDE DEF n
  <2>9. \A i \in 1 .. Len(k) : k[i].g \in S /\ k[i].todo \subseteq S
    <3>1. TAKE i \in 1 .. Len(k)
    <3>2. CASE i = n + 1 BY <1>2, <1>t, <2>2, <2>7, <3>2
    <3>3. CASE i = n BY <1>s, <1>t, <2>2, <2>5, <2>7, <3>3
    <3>4. CASE i \notin {n, n + 1} BY <1>s, <2>5, <2>7, <2>8, <3>4
    <3>5. QED BY <3>2, <3>3, <3>4
  <2>10. worker'.stack = k BY <2>4, <2>6, <2>w
  <2>11. QED BY <1>0, <2>9, <2>10, <2>w, RootedStack DEF platform
<1>3. QED BY <1>1, <1>2 DEF NextChild

LEMMA RootedApply ==
  ASSUME Inv, Sound, Rooted, calm, Written
  PROVE  Rooted'
<1>0. PICK S \in SUBSET Groups : Within(S) BY DEF Rooted
<1>1. worker.subs = SubgroupsOf(Top.g) BY DEF Rooted, Written
<1>2. worker'.pc = "children" /\ worker'.task = worker.task /\ worker'.stack = worker.stack
  BY DEF Written, Idle
<1>3. PICK k : k = worker.stack OBVIOUS
<1>4. Within(S)'
  <2>1. \A i \in 1 .. Len(k) : k[i].g \in S /\ k[i].todo \subseteq S BY <1>0, <1>3 DEF Within
  <2>2. QED BY <1>0, <1>2, <1>3, <2>1, RootedStack DEF Written, platform
<1>5. ASSUME NEW g, g = Top.g, NEW s \in DOMAIN groups', groups'[s].parent = g
      PROVE  s \in SubgroupsOf(g)
  <2>1. CASE s \in worker.subs BY <1>1, <1>5, <2>1
  <2>2. CASE s \notin worker.subs
    <3>1. s \in DOMAIN groups \ Unlisted(g, worker.subs) /\ groups'[s] = groups[s]
      BY <1>5, <2>2 DEF Written, AppliedRows
    <3>2. s \in Unlisted(g, worker.subs) BY <1>5, <2>2, <3>1 DEF Unlisted, Children
    <3>3. QED BY <3>1, <3>2
  <2>3. QED BY <2>1, <2>2
<1>6. PICK g : g = Top.g OBVIOUS
<1>7. Top' = Top BY <1>2 DEF Top
<1>8. SubgroupsOf(g)' = SubgroupsOf(g) BY DEF SubgroupsOf, Written, platform
<1>9. Children(g)' \subseteq SubgroupsOf(g)' BY <1>5, <1>6, <1>8 DEF Children
<1>10. (Children(Top.g) \subseteq SubgroupsOf(Top.g))'
  <2>1. Top'.g = g BY <1>6, <1>7
  <2>2. QED BY <1>9, <2>1 DEF Children, SubgroupsOf
<1>11. QED BY <1>2, <1>4, <1>10 DEF Rooted

LEMMA RootedKept == ASSUME Inv, Sound, Rooted, [Next]_vars PROVE Rooted'
<1> SUFFICES ASSUME calm' PROVE Rooted' BY DEF Rooted
<1>1. CASE Beside
  BY <1>1 DEF Beside, Rooted, Within, Children, SubgroupsOf, Top, platform
<1>2. CASE Started BY <1>2, RootedStart
<1>3. ASSUME calm, Fetched PROVE Rooted'
  <2>1. PICK S \in SUBSET Groups : Within(S) BY <1>3 DEF Rooted
  <2>2. /\ worker'.task = worker.task /\ worker'.stack = worker.stack
        /\ worker'.pc \in {"load", "projects", "subgroups", "apply"} /\ UNCHANGED platform
        /\ worker'.pc = "apply" => worker'.subs = SubgroupsOf(Top.g)
    BY <1>3 DEF Fetched, Moved
  <2>3. PICK k : k = worker.stack OBVIOUS
  <2>4. Within(S)'
    <3>1. \A i \in 1 .. Len(k) : k[i].g \in S /\ k[i].todo \subseteq S BY <2>1, <2>3 DEF Within
    <3>2. QED BY <2>1, <2>2, <2>3, <3>1, RootedStack DEF platform
  <2>5. (worker.pc = "apply" => worker.subs = SubgroupsOf(Top.g))'
    BY <2>2 DEF Top, SubgroupsOf, platform
  <2>6. QED BY <2>2, <2>4, <2>5 DEF Rooted
<1>4. ASSUME calm, Left PROVE Rooted'
  <2>1. PICK S \in SUBSET Groups : Within(S) BY <1>4 DEF Rooted
  <2>2. Within(S)' /\ worker'.pc \in {"finish", "next"} BY <1>4, <2>1, RootedReturn DEF Left
  <2>3. QED BY <2>2 DEF Rooted
<1>5. ASSUME calm, Written PROVE Rooted' BY <1>5, RootedApply
<1>6. ASSUME calm, ReadChildren PROVE Rooted'
  <2>1. PICK S \in SUBSET Groups : Within(S) BY <1>6 DEF Rooted
  <2>2. Children(Top.g) \subseteq SubgroupsOf(Top.g) BY <1>6 DEF ReadChildren, Rooted
  <2>3. QED BY <1>6, <2>1, <2>2, RootedRead DEF Rooted
<1>7. ASSUME calm, NextChild PROVE Rooted'
  <2>1. PICK S \in SUBSET Groups : Within(S) BY <1>7 DEF Rooted
  <2>2. QED BY <1>7, <2>1, RootedNext DEF Rooted
<1>8. QED BY <1>1, <1>2, <1>3, <1>4, <1>5, <1>6, <1>7, CalmSteps

(* The invariant of the mirror. *)
LEMMA GoingStart == ASSUME Inv, Sound, Started PROVE Going'
<1>1. PICK g \in Groups : g = Head(queue) BY DEF Started, Take, Sound, QueueSound
<1>2. /\ g \in DOMAIN groups /\ UNCHANGED <<groups, repos, platform>>
      /\ worker' = [Idle EXCEPT !.pc = "enter", !.task = g, !.stack = <<[g |-> g, todo |-> {}]>>]
  BY <1>1 DEF Started, Take
<1>3. /\ worker'.pc = "enter" /\ worker'.task = g /\ worker'.stack = <<[g |-> g, todo |-> {}]>>
  BY <1>2 DEF Idle
<1>4. Reached({})' = {g} BY <1>3 DEF Reached
<1>5. Tables({}, {})' BY <1>2, <1>3, <1>4 DEF Tables
<1>6. Frames({}, {})'
  <2>1. PICK k : k = <<[g |-> g, todo |-> {}]>> OBVIOUS
  <2>2. Len(k) = 1 /\ k[1].g = g /\ k[1].todo = {} BY <2>1
  <2>3. worker'.stack = k BY <1>3, <2>1
  <2>4. 1 .. Len(k) = {1} /\ 1 .. Len(k) - 1 = {} BY <2>2
  <2>5. QED BY <1>3, <1>4, <2>2, <2>3, <2>4 DEF Frames
<1>7. Lists' BY <1>3 DEF Lists
<1>8. Progress({}, {})' BY <1>5, <1>6, <1>7 DEF Progress
<1>9. QED BY <1>8 DEF Going

LEMMA GoingFetched ==
  ASSUME Inv, Sound, NEW M \in SUBSET Groups, NEW D \in SUBSET Groups, Progress(M, D), Fetched
  PROVE  Progress(M, D)'
<1>1. /\ UNCHANGED <<groups, repos, platform>> /\ worker'.task = worker.task
      /\ worker'.stack = worker.stack /\ worker'.pc \in Visiting
  BY DEF Fetched, Moved, Visiting
<1>2. Top' = Top BY <1>1 DEF Top
<1>3. Lists BY DEF Progress
<1>4. Lists'
  <2>1. worker'.pc \in {"projects", "subgroups", "apply"} => worker'.path = groups'[Top'.g].path
    BY <1>1, <1>2, <1>3 DEF Fetched, Moved, Lists
  <2>2. \A g : Listed(g)' = Listed(g) BY <1>1 DEF Listed, ProjectsOf, platform
  <2>3. worker'.pc \in {"subgroups", "apply"} => (worker.projects = Listed(Top.g))'
    <3>1. worker'.pc \in {"subgroups", "apply"} => worker'.projects = Listed(Top.g)
      BY <1>3 DEF Fetched, Moved, Lists
    <3>2. QED BY <1>1, <1>2, <3>1 DEF Listed, ProjectsOf, platform
  <2>4. worker'.pc = "apply" => (worker.subs = SubgroupsOf(Top.g))'
    <3>1. worker'.pc = "apply" => worker'.subs = SubgroupsOf(Top.g)
      BY DEF Fetched, Moved
    <3>2. QED BY <1>1, <1>2, <3>1 DEF SubgroupsOf, platform
  <2>5. QED BY <2>1, <2>3, <2>4 DEF Lists
<1>5. QED BY <1>1, <1>4, PlaceGoes

LEMMA GoingKept ==
  ASSUME Literal, Inv, Sound, Rooted, Going, [Next]_vars PROVE Going'
<1> SUFFICES ASSUME calm', worker'.task \in DOMAIN groups'
             PROVE  \E M, D \in SUBSET Groups : Progress(M, D)'
  BY DEF Going
<1>1. CASE Beside
  <2>1. PICK M, D \in SUBSET Groups : Progress(M, D) BY <1>1 DEF Beside, Going
  <2>2. Reached(M)' = Reached(M) /\ Tables(M, D)' BY <1>1, <2>1, TablesFrame DEF Beside, Progress
  <2>3. Frames(M, D)' BY <1>1, <2>1, <2>2 DEF Beside, Progress, Frames, Top, SubgroupsOf, platform
  <2>4. Lists' BY <1>1, <2>1 DEF Beside, Progress, Lists, Top, Listed, ProjectsOf, SubgroupsOf, platform
  <2>5. QED BY <2>2, <2>3, <2>4 DEF Progress
<1>2. CASE Started BY <1>2, GoingStart DEF Going
<1>3. ASSUME calm, Fetched \/ Left \/ ReadChildren \/ NextChild
      PROVE  \E M, D \in SUBSET Groups : Progress(M, D)'
  <2>1. UNCHANGED <<groups, repos, platform>> /\ worker'.task = worker.task
    <3>1. CASE Fetched BY <3>1 DEF Fetched, Moved
    <3>2. CASE Left
      <4>1. worker' = [pc |-> IF Len(worker.stack) = 1 THEN "finish" ELSE "next", task |-> worker.task,
                       stack |-> Below, path |-> <<>>, projects |-> Nothing, subs |-> {}]
        BY <3>2 DEF Left, Return, Idle
      <4>2. QED BY <3>2, <4>1 DEF Left
    <3>3. CASE ReadChildren \/ NextChild
      <4>1. UNCHANGED <<groups, repos, platform>> BY <3>3 DEF ReadChildren, NextChild
      <4>2. worker = [pc |-> worker.pc, task |-> worker.task, stack |-> worker.stack,
                      path |-> worker.path, projects |-> worker.projects, subs |-> worker.subs]
        BY DEF Inv, Shapes
      <4>3. \A p, k : [worker EXCEPT !.pc = p, !.stack = k].task = worker.task BY <4>2
      <4>4. Return => worker'.task = worker.task BY DEF Return, Idle
      <4>5. QED BY <3>3, <4>1, <4>3, <4>4 DEF ReadChildren, NextChild
    <3>4. QED BY <1>3, <3>1, <3>2, <3>3
  <2>2. worker.task \in DOMAIN groups BY <2>1
  <2>3. PICK M, D \in SUBSET Groups : Progress(M, D) BY <1>3, <2>2 DEF Going
  <2>4. CASE Fetched BY <2>3, <2>4, GoingFetched
  <2>5. CASE Left
    <3>1. worker.stack # <<>> /\ worker.pc \notin {"idle", "finish"} /\ Len(worker.stack) \in Nat \ {0}
      BY <2>5, StackParts DEF Left, Sound, WorkerSound
    <3>2. Top.g \in Reached(M) BY <2>3, <3>1 DEF Progress, Frames, Top
    <3>3. Top.g \in DOMAIN groups BY <2>3, <3>2 DEF Progress, Tables
    <3>4. Top.g \in Hidden BY <2>5, <3>3 DEF Left
    <3>5. \E E \in SUBSET Groups : Progress(M, E)' BY <2>3, <2>5, <3>1, <3>4, ReturnGoes DEF Left
    <3>6. QED BY <2>3, <3>5
  <2>6. CASE ReadChildren BY <2>3, <2>6, ReadChildrenGoes
  <2>7. CASE NextChild
    <3>1. \E E \in SUBSET Groups : Progress(M, E)' BY <2>3, <2>7, NextChildGoes
    <3>2. QED BY <2>3, <3>1
  <2>8. QED BY <1>3, <2>4, <2>5, <2>6, <2>7
<1>4. ASSUME calm, Written PROVE \E M, D \in SUBSET Groups : Progress(M, D)'
  <2>1. worker'.task = worker.task BY <1>4 DEF Written, Idle
  <2>2. worker.task \in DOMAIN groups
    <3>1. PICK S \in SUBSET Groups : Within(S) BY <1>4 DEF Rooted
    <3>2. worker.stack # <<>> /\ Len(worker.stack) \in Nat \ {0}
      BY <1>4, StackParts DEF Written, Sound, WorkerSound
    <3>3. Top.g \in S BY <3>1, <3>2 DEF Within, Top
    <3>4. worker.task \notin worker.subs
      BY <1>4, <3>1, <3>3, RootNotBelow DEF Rooted, Written
    <3>5. QED BY <1>4, <2>1, <3>4 DEF Written, AppliedRows
  <2>3. PICK M, D \in SUBSET Groups : Progress(M, D) BY <1>4, <2>2 DEF Going
  <2>4. \E N \in SUBSET Groups : Progress(N, D)' BY <1>4, <2>1, <2>3, ApplyGoes DEF Written
  <2>5. QED BY <2>3, <2>4
<1>5. QED BY <1>1, <1>2, <1>3, <1>4, CalmSteps

(* At the end of the task: what is done reaches every group that the task  *)
(* had to walk to, from the root down.                                     *)
LEMMA GoingMirrors == ASSUME Inv, Sound, GoneClosed, Going PROVE Mirrored
<1> SUFFICES ASSUME worker.pc = "finish", calm, worker.task \in DOMAIN groups
             PROVE  MirrorsPlatform(worker.task)
  BY DEF Mirrored
<1> DEFINE root == worker.task
<1>0. up \in [Groups -> Groups \cup {None}] /\ Forest(up) BY DEF Sound, PlatformSound
<1>1. PICK M, D \in SUBSET Groups : Progress(M, D) BY DEF Going
<1>2. Tables(M, D) /\ root \in D BY <1>1 DEF Progress, Frames
<1>3. \A x \in Walked(root) : x \notin Hidden
  <2>1. TAKE x \in Walked(root)
  <2>2. x \in Groups BY DEF Walked
  <2>3. PathOf[x] \in Seq(Groups) /\ Len(PathOf[x]) \in Nat \ {0} /\ PathOf[x][Len(PathOf[x])] = x
    BY <1>0, <2>2, PathSteps
  <2> HIDE DEF PathOf
  <2>4. PICK i \in DOMAIN PathOf[x] : \A j \in i .. Len(PathOf[x]) : PathOf[x][j] \notin Hidden
    BY DEF Walked
  <2>5. Len(PathOf[x]) \in i .. Len(PathOf[x]) BY <2>3, <2>4
  <2>6. QED BY <2>3, <2>4, <2>5
<1>4. Walked(root) \subseteq D
  <2> DEFINE T == {x \in Walked(root) : x \notin D}
  <2> SUFFICES ASSUME T # {} PROVE FALSE OBVIOUS
  <2>1. T \in SUBSET Groups BY DEF Walked
  <2>2. PICK x \in T : up[x] \notin T BY <1>0, <2>1 DEF Forest
  <2>3. x \in Groups /\ x \notin gone /\ x \notin D /\ x \in Walked(root) BY <2>2 DEF Walked
  <2> DEFINE p == PathOf[x]
  <2>4. p \in Seq(Groups) /\ Len(p) \in Nat \ {0} /\ p[Len(p)] = x /\ (up[x] = None => p = <<x>>)
    BY <1>0, <2>3, PathSteps
  <2>5. PICK i \in 1 .. Len(p) : p[i] = root /\ \A j \in i .. Len(p) : p[j] \notin Hidden
    <3>1. PICK i \in DOMAIN p : p[i] = root /\ \A j \in i .. Len(p) : p[j] \notin Hidden
      BY <2>3 DEF Walked
    <3>2. QED BY <2>4, <3>1
  <2>6. i # Len(p) BY <1>2, <2>3, <2>4, <2>5
  <2>7. up[x] # None
    <3> HIDE DEF p
    <3>1. CASE up[x] = None
      <4>1. Len(p) = 1 BY <2>4, <3>1
      <4>2. QED BY <2>5, <2>6, <4>1
    <3>2. QED BY <3>1
  <2>8. PICK y \in Groups : y = up[x] BY <1>0, <2>3, <2>7
  <2> DEFINE q == PathOf[y]
  <2>9. Len(p) = Len(q) + 1 /\ \A j \in 1 .. Len(q) : p[j] = q[j]
    BY <1>0, <2>3, <2>7, <2>8, PathSteps
  <2>10. q \in Seq(Groups) /\ Len(q) \in Nat \ {0} /\ q[Len(q)] = y BY <1>0, <2>8, PathSteps
  <2>11. y \in Groups \ gone BY <2>3, <2>8 DEF GoneClosed
  <2>12. y \in Walked(root)
    <3> HIDE DEF p, q
    <3>1. i \in 1 .. Len(q) BY <2>5, <2>6, <2>9, <2>10
    <3>2. q[i] = root /\ \A j \in i .. Len(q) : q[j] \notin Hidden
      <4>1. q[i] = root BY <2>5, <2>9, <3>1
      <4>2. ASSUME NEW j \in i .. Len(q) PROVE q[j] \notin Hidden
        <5>1. j \in 1 .. Len(q) /\ j \in i .. Len(p) BY <2>9, <2>10, <3>1, <4>2
        <5>2. QED BY <2>5, <2>9, <5>1
      <4>3. QED BY <4>1, <4>2
    <3>3. i \in DOMAIN q BY <2>10, <3>1
    <3>4. QED BY <2>11, <3>2, <3>3 DEF Walked, q
  <2>13. y \in D BY <2>2, <2>8, <2>12
  <2>14. SubgroupsOf(y) \subseteq D BY <1>2, <1>3, <2>12, <2>13 DEF Tables
  <2>15. x \in SubgroupsOf(y) BY <2>3, <2>8 DEF SubgroupsOf
  <2>16. QED BY <2>3, <2>14, <2>15
<1>5. ASSUME NEW g \in Walked(root)
      PROVE  /\ g \in DOMAIN groups /\ MirroredAt(g)
             /\ \A s \in Children(g) : groups[s].path = Append(groups[g].path, s)
  <2>1. g \in M /\ g \in Reached(M) /\ Reached(M) \subseteq DOMAIN groups
    BY <1>2, <1>3, <1>4 DEF Tables
  <2>2. MirroredAt(g) BY <1>2, <2>1 DEF Tables
  <2>3. ASSUME NEW s \in Children(g) PROVE groups[s].path = Append(groups[g].path, s)
    <3>1. s \in SubgroupsOf(g) /\ up[s] = g BY <2>2 DEF MirroredAt, SubgroupsOf
    <3>2. s \in Reached(M) BY <2>1, <3>1 DEF Reached
    <3>3. s # root
      <4>1. DOMAIN groups \subseteq Groups BY DEF Inv, Shapes
      <4>2. up[root] \notin Reached(M) BY <1>2, <4>1, ReachedFrom
      <4>3. QED BY <2>1, <3>1, <4>2
    <3>4. QED BY <1>2, <3>1, <3>2, <3>3 DEF Tables
  <2>4. QED BY <2>1, <2>2, <2>3
<1>6. QED BY <1>5 DEF MirrorsPlatform, MirroredAt

LEMMA StepMirror ==
  ASSUME Literal
  PROVE  Inv /\ Sound /\ GoneClosed /\ Rooted /\ Going /\ [Next]_vars =>
           GoneClosed' /\ Rooted' /\ Going'
<1> SUFFICES ASSUME Inv, Sound, GoneClosed, Rooted, Going, [Next]_vars
             PROVE  GoneClosed' /\ Rooted' /\ Going'
  OBVIOUS
<1>1. GoneClosed'
  <2>1. CASE Next BY <2>1, GoneKept
  <2>2. CASE UNCHANGED vars BY <2>2 DEF vars, platform, GoneClosed
  <2>3. QED BY <2>1, <2>2
<1>2. QED BY <1>1, RootedKept, GoingKept

(* Mirrored: a task with which nothing interfered leaves the tables as the *)
(* platform has them, whatever tree it walks, whatever rows, stale parents *)
(* and stale paths it found, and whatever happened before it.  Names that  *)
(* LIKE takes for patterns of other names are excluded: with them the      *)
(* transaction of one group removes rows of another that is done.          *)
THEOREM TaskMirrors == ASSUME Literal PROVE Spec => []Mirrored
<1>1. Init => Inv /\ Sound BY InitInv, InitSound
<1>2. Init => GoneClosed /\ Rooted /\ Going
  BY ConstantsAssumption DEF Init, GoneClosed, Rooted, Going
<1>3. Inv /\ Sound /\ [Next]_vars => Inv' /\ Sound' BY StepInv, StepSound
<1>4. Inv /\ Sound /\ GoneClosed /\ Rooted /\ Going /\ [Next]_vars => GoneClosed' /\ Rooted' /\ Going'
  BY StepMirror
<1>5. Inv /\ Sound /\ GoneClosed /\ Going => Mirrored BY GoingMirrors
<1>6. QED BY <1>1, <1>2, <1>3, <1>4, <1>5, PTL DEF Spec

=============================================================================
