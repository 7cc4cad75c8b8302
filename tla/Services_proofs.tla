---------------------------- MODULE Services_proofs ----------------------------
(***************************************************************************)
(* Theorems about the approvals and two services: Approvals, for any       *)
(* requests and any number of decisions of both administrators; the token  *)
(* cache, for any number of goroutines, any lifetime, margin and timeout,  *)
(* provided the margin is shorter than the lifetime; and the audit of      *)
(* branches, for any finite set of them, page size and number of requests. *)
(***************************************************************************)
EXTENDS Approvals, TokenCache, BranchAudit, FiniteSetTheorems, WellFoundedInduction, TLAPS

PageFilters == Statuses \cup {"all"}
Works == [n: Nat, id: Requests, act: Decisions, mine: BOOLEAN,
          pc: {"read", "create", "store", "protect", "save"}, repo: BOOLEAN, filter: PageFilters]

(* The values of the variables, those of the decisions in progress too.    *)
Typed ==
  /\ TypeOK /\ deciding \subseteq Works
  /\ filter \in PageFilters /\ lists \subseteq PageFilters
  /\ isProcessing \in BOOLEAN /\ sent \in Nat

-----------------------------------------------------------------------------
(* Type correctness *)

LEMMA WorkMoves ==
  ASSUME Typed, NEW w \in deciding, NEW v \in Works, Goes(w, v)
  PROVE  deciding' \subseteq Works
BY DEF Typed, Goes

LEMMA ListedType ==
  ASSUME row \in [Requests -> [status: Statuses, repo: BOOLEAN]], NEW f
  PROVE  Listed(f) \subseteq [id: Requests, status: Statuses]
BY DEF Listed

LEMMA PageType ==
  ASSUME Typed,
         \/ \E f \in PageFilters : ChooseFilter(f) \/ ListAnswer(f)
         \/ \E a \in shown : OpenDrawer(a)
         \/ CloseDrawer \/ TypeComment
         \/ \E d \in Decisions : ChooseDecision(d)
  PROVE  Typed'
<1>1. ASSUME NEW f \in PageFilters, ChooseFilter(f) PROVE Typed'
  BY <1>1 DEF Typed, TypeOK, ChooseFilter, Click, tables
<1>2. ASSUME NEW f \in PageFilters, ListAnswer(f) PROVE Typed'
  BY <1>2, ListedType DEF Typed, TypeOK, ListAnswer, tables
<1>3. ASSUME NEW a \in shown, OpenDrawer(a) PROVE Typed'
  BY <1>3 DEF Typed, TypeOK, OpenDrawer, tables
<1>4. CASE CloseDrawer BY <1>4 DEF Typed, TypeOK, CloseDrawer, CloseModal, tables
<1>5. CASE TypeComment BY <1>5 DEF Typed, TypeOK, TypeComment, Decidable, tables
<1>6. ASSUME NEW d \in Decisions, ChooseDecision(d) PROVE Typed'
  BY <1>6 DEF Typed, TypeOK, ChooseDecision, Decidable, tables
<1>7. QED BY <1>1, <1>2, <1>3, <1>4, <1>5, <1>6

LEMMA NewType ==
  ASSUME Typed, NEW r \in Requests, NEW d \in Decisions, NEW mine \in BOOLEAN
  PROVE  New(r, d, mine) \in Works
BY DEF Typed, New, Works

LEMMA SubmitType == Typed /\ HandleActionSubmit => Typed'
<1> SUFFICES ASSUME Typed, HandleActionSubmit PROVE Typed' OBVIOUS
<1>1. drawer.id \in Requests /\ decision \in Decisions
  BY DEF HandleActionSubmit, MaySubmit, Decidable, Typed, TypeOK
<1>2. New(drawer.id, decision, TRUE) \in Works BY <1>1, NewType
<1>3. deciding' \subseteq Works BY <1>2, Zenon DEF HandleActionSubmit, Typed
<1>4. sent' \in Nat BY DEF HandleActionSubmit, Click, Typed
<1>5. isProcessing' \in BOOLEAN BY DEF HandleActionSubmit
<1>6. UNCHANGED <<tables, lists, shown, filter, drawer, decision, comment>> BY DEF HandleActionSubmit
<1>7. QED BY <1>3, <1>4, <1>5, <1>6 DEF Typed, TypeOK, tables

LEMMA ElsewhereType ==
  ASSUME Typed, NEW r \in Requests, NEW d \in Decisions, DecideElsewhere(r, d)
  PROVE  Typed'
<1>1. New(r, d, FALSE) \in Works BY NewType
<1>2. deciding' \subseteq Works BY <1>1, Zenon DEF DecideElsewhere, Typed
<1>3. sent' \in Nat BY DEF DecideElsewhere, Click, Typed
<1>4. UNCHANGED <<tables, lists, page>> BY DEF DecideElsewhere
<1>5. QED BY <1>2, <1>3, <1>4 DEF Typed, TypeOK, tables, page

LEMMA RefuseType ==
  ASSUME Typed, NEW w \in deciding, Refuse(w)
  PROVE  /\ deciding' \subseteq Works /\ lists' \subseteq PageFilters
         /\ isProcessing' \in BOOLEAN /\ sent' \in Nat
         /\ UNCHANGED <<shown, filter, drawer, decision, comment>>
BY DEF Refuse, Typed

LEMMA AnswerType ==
  ASSUME Typed, NEW w \in deciding, Answer(w)
  PROVE  /\ deciding' \subseteq Works /\ lists' \subseteq PageFilters
         /\ isProcessing' \in BOOLEAN /\ sent' \in Nat
         /\ UNCHANGED <<shown, filter>>
         /\ \/ UNCHANGED <<drawer, decision, comment>>
            \/ drawer' = None /\ decision' = None /\ comment' = FALSE
<1>1. w.filter \in PageFilters BY DEF Typed, Works
<1>2. QED BY <1>1 DEF Answer, CloseModal, Typed

LEMMA PerformingType ==
  ASSUME Typed, NEW w \in deciding
  PROVE  Performing(w) \in {"create", "protect", "save"}
<1>1. Kind[w.id] \in Kinds BY ApprovalAssumption DEF Typed, Works
<1>2. QED BY <1>1 DEF Performing, Kinds

LEMMA ServerType ==
  ASSUME Typed, NEW w \in deciding,
         \/ Read(w) \/ AlreadyProcessed(w) \/ CreateRepo(w) \/ CreateFails(w) \/ Protect(w)
         \/ \E ok \in BOOLEAN : Store(w, ok) \/ Save(w, ok)
  PROVE  Typed'
<1>w. w \in Works /\ w.id \in Requests BY DEF Typed, Works
<1>1. CASE Read(w)
  <2>1. row[w.id].repo \in BOOLEAN BY <1>w DEF Typed, TypeOK
  <2>2. [w EXCEPT !.pc = Performing(w), !.repo = row[w.id].repo] \in Works
    BY <1>w, <2>1, PerformingType DEF Works
  <2>3. QED BY <1>1, <2>2, WorkMoves DEF Read, Typed, TypeOK, tables, page
<1>2. CASE AlreadyProcessed(w)
  BY <1>2, RefuseType DEF AlreadyProcessed, Typed, TypeOK, tables
<1>3. CASE CreateRepo(w)
  <2>1. [w EXCEPT !.pc = "store"] \in Works BY <1>w DEF Works
  <2>2. QED BY <1>3, <1>w, <2>1, WorkMoves DEF CreateRepo, Typed, TypeOK, page
<1>4. CASE CreateFails(w) BY <1>4, <1>w, RefuseType DEF CreateFails, Typed, TypeOK
<1>5. CASE Protect(w)
  <2>1. [w EXCEPT !.pc = "save"] \in Works BY <1>w DEF Works
  <2>2. QED BY <1>5, <1>w, <2>1, WorkMoves DEF Protect, Typed, TypeOK, page
<1>6. ASSUME NEW ok \in BOOLEAN, Store(w, ok) PROVE Typed'
  <2>1. [w EXCEPT !.pc = "save", !.repo = TRUE] \in Works BY <1>w DEF Works
  <2>2. CASE ok BY <1>6, <1>w, <2>1, <2>2, WorkMoves DEF Store, Typed, TypeOK, page
  <2>3. CASE ~ok BY <1>6, <2>3, RefuseType DEF Store, Typed, TypeOK
  <2>4. QED BY <2>2, <2>3
<1>7. ASSUME NEW ok \in BOOLEAN, Save(w, ok) PROVE Typed'
  <2>1. CASE ok
    <3>1. row' \in [Requests -> [status: Statuses, repo: BOOLEAN]]
      BY <1>7, <1>w, <2>1 DEF Save, Typed, TypeOK, Works, Statuses
    <3>2. QED BY <1>7, <2>1, <3>1, AnswerType DEF Save, Typed, TypeOK
  <2>2. CASE ~ok BY <1>7, <2>2, RefuseType DEF Save, Typed, TypeOK
  <2>3. QED BY <2>1, <2>2
<1>8. QED BY <1>1, <1>2, <1>3, <1>4, <1>5, <1>6, <1>7

LEMMA InitType == Init => Typed
<1> SUFFICES ASSUME Init PROVE Typed OBVIOUS
<1>1. row \in [Requests -> [status: Statuses, repo: BOOLEAN]] BY DEF Init, Statuses
<1>2. shown \subseteq [id: Requests, status: Statuses]
  BY <1>1, ListedType DEF Init
<1>3. QED BY <1>1, <1>2 DEF Init, Typed, TypeOK, Statuses, PageFilters

LEMMA StepType ==
  ASSUME Typed, [Next]_vars
  PROVE  Typed'
<1>1. CASE UNCHANGED vars BY <1>1 DEF vars, Typed, TypeOK
<1>2. CASE Next BY <1>2, PageType, SubmitType, ElsewhereType, ServerType DEF Next, PageFilters
<1>3. QED BY <1>1, <1>2

(* TypeOK: the tables and what the page shows keep their types, and the    *)
(* decisions in progress theirs, whatever is decided and in which order.   *)
THEOREM TypeCorrect == Spec => []TypeOK
<1>1. Typed /\ [Next]_vars => Typed' BY StepType
<1>2. Typed => TypeOK BY DEF Typed
<1>3. QED BY <1>1, <1>2, InitType, PTL DEF Spec

-----------------------------------------------------------------------------
(* Approved requests have their repository *)

Recorded(r) == r \in platform /\ r \in stored

(* What a decision in progress has learnt and made; platforms and tables   *)
(* only grow, so that it stays true.                                       *)
Knows(w) ==
  /\ w.repo => Recorded(w.id)
  /\ w.pc = "store" => w.id \in platform
  /\ w.pc = "protect" => Kind[w.id] = "protected_branch"
  /\ w.pc = "save" /\ w.act = "approve" /\ Kind[w.id] = "repo_create" => w.repo
RepoInv ==
  /\ \A r \in Requests : row[r].repo => Recorded(r)
  /\ \A w \in deciding : Knows(w)
  /\ ApprovedHasRepo

LEMMA StillKnows ==
  ASSUME NEW w, Knows(w), platform \subseteq platform', stored \subseteq stored'
  PROVE  Knows(w)'
BY DEF Knows, Recorded

(* A step that adds at most one decision, and leaves the requests alone.   *)
LEMMA RowsAlone ==
  ASSUME RepoInv, UNCHANGED row, platform \subseteq platform', stored \subseteq stored',
         NEW S \in SUBSET deciding, NEW v, Knows(v)', deciding' \subseteq S \cup {v}
  PROVE  RepoInv'
<1>1. \A w \in deciding' : Knows(w)'
  <2> SUFFICES ASSUME NEW w \in deciding' PROVE Knows(w)' OBVIOUS
  <2>1. CASE w = v BY <2>1
  <2>2. CASE w \in deciding BY <2>2, StillKnows DEF RepoInv
  <2>3. QED BY <2>1, <2>2
<1>2. QED BY <1>1 DEF RepoInv, ApprovedHasRepo, Recorded

LEMMA NoDecision ==
  ASSUME RepoInv, UNCHANGED tables, deciding' \subseteq deciding
  PROVE  RepoInv'
<1>1. \A w \in deciding' : Knows(w)' BY StillKnows DEF RepoInv, tables
<1>2. QED BY <1>1 DEF RepoInv, ApprovedHasRepo, Recorded, tables

LEMMA NewKnows == ASSUME NEW r, NEW d, NEW mine, NEW v, v = New(r, d, mine) PROVE Knows(v)'
BY DEF Knows, New

LEMMA ServerRepo ==
  ASSUME Typed, RepoInv, NEW w \in deciding,
         \/ Read(w) \/ AlreadyProcessed(w) \/ CreateRepo(w) \/ CreateFails(w) \/ Protect(w)
         \/ \E ok \in BOOLEAN : Store(w, ok) \/ Save(w, ok)
  PROVE  RepoInv'
<1>w. w \in Works /\ w.id \in Requests /\ Knows(w) BY DEF Typed, Works, RepoInv
<1>1. CASE Read(w)
  <2>0. PICK v : v = [w EXCEPT !.pc = Performing(w), !.repo = row[w.id].repo] OBVIOUS
  <2>1. /\ v.id = w.id /\ v.act = w.act /\ v.repo = row[w.id].repo /\ v.pc = Performing(w)
    BY <1>w, <2>0 DEF Works
  <2>2. Kind[w.id] \in Kinds BY <1>w, ApprovalAssumption
  <2>3. /\ Performing(w) # "store"
        /\ Performing(w) = "protect" => Kind[w.id] = "protected_branch"
        /\ Performing(w) = "save" /\ w.act = "approve" => Kind[w.id] # "repo_create"
    BY <1>w, <2>2 DEF Performing, Kinds, Works, Decisions
  <2>4. UNCHANGED tables BY <1>1 DEF Read
  <2>5. row[w.id].repo => Recorded(w.id)' BY <1>w, <2>4 DEF RepoInv, Recorded, tables
  <2>6. Knows(v)' BY <2>1, <2>3, <2>5 DEF Knows
  <2>7. deciding' \subseteq (deciding \ {w}) \cup {v} BY <1>1, <2>0 DEF Read, Goes
  <2>8. QED BY <2>4, <2>6, <2>7, RowsAlone DEF tables
<1>2. CASE AlreadyProcessed(w) BY <1>2, NoDecision DEF AlreadyProcessed, Refuse
<1>3. CASE CreateRepo(w)
  <2> DEFINE v == [w EXCEPT !.pc = "store"]
  <2>1. v.id = w.id /\ v.act = w.act /\ v.repo = w.repo /\ v.pc = "store"
    BY <1>w DEF Works
  <2>2. w.id \in platform' /\ platform \subseteq platform' /\ UNCHANGED <<row, stored>>
    BY <1>3 DEF CreateRepo
  <2>3. Knows(v)' BY <1>w, <2>1, <2>2 DEF Knows, Recorded
  <2>4. deciding' \subseteq (deciding \ {w}) \cup {v} BY <1>3 DEF CreateRepo, Goes
  <2>5. QED BY <2>2, <2>3, <2>4, RowsAlone
<1>4. CASE CreateFails(w)
  <2>1. deciding' = deciding \ {w} /\ platform \subseteq platform' /\ UNCHANGED <<row, stored>>
    BY <1>4 DEF CreateFails, Refuse
  <2>2. Knows(w)' BY <1>w, <2>1, StillKnows
  <2>3. QED BY <2>1, <2>2, RowsAlone
<1>5. CASE Protect(w)
  <2> DEFINE v == [w EXCEPT !.pc = "save"]
  <2>1. v.id = w.id /\ v.act = w.act /\ v.repo = w.repo /\ v.pc = "save"
    BY <1>w DEF Works
  <2>2. UNCHANGED <<row, platform, stored>> /\ w.pc = "protect" BY <1>5 DEF Protect
  <2>3. Knows(v)' BY <1>w, <2>1, <2>2 DEF Knows, Recorded
  <2>4. deciding' \subseteq (deciding \ {w}) \cup {v} BY <1>5 DEF Protect, Goes
  <2>5. QED BY <2>2, <2>3, <2>4, RowsAlone
<1>6. ASSUME NEW ok \in BOOLEAN, Store(w, ok) PROVE RepoInv'
  <2> DEFINE v == [w EXCEPT !.pc = "save", !.repo = TRUE]
  <2>1. CASE ok
    <3>1. v.id = w.id /\ v.act = w.act /\ v.repo = TRUE /\ v.pc = "save" BY <1>w DEF Works
    <3>2. /\ w.pc = "store" /\ w.id \in stored' /\ stored \subseteq stored'
          /\ UNCHANGED <<row, platform>>
      BY <1>6, <2>1 DEF Store
    <3>3. Knows(v)' BY <1>w, <3>1, <3>2 DEF Knows, Recorded
    <3>4. deciding' \subseteq (deciding \ {w}) \cup {v} BY <1>6, <2>1 DEF Store, Goes
    <3>5. QED BY <3>2, <3>3, <3>4, RowsAlone
  <2>2. CASE ~ok BY <1>6, <2>2, NoDecision DEF Store, Refuse, tables
  <2>3. QED BY <2>1, <2>2
<1>7. ASSUME NEW ok \in BOOLEAN, Save(w, ok) PROVE RepoInv'
  <2>1. CASE ok
    <3>1. /\ w.pc = "save" /\ UNCHANGED <<platform, stored>> /\ deciding' \subseteq deciding
          /\ row' = [row EXCEPT ![w.id] =
                       [status |-> IF w.act = "approve" THEN "approved" ELSE "rejected",
                        repo |-> w.repo]]
      BY <1>7, <2>1 DEF Save, Answer
    <3>2. \A r \in Requests : row'[r].repo => Recorded(r)'
      BY <1>w, <3>1 DEF Knows, RepoInv, Recorded, Typed, TypeOK
    <3>3. \A v \in deciding' : Knows(v)' BY <3>1, StillKnows DEF RepoInv
    <3>4. ApprovedHasRepo'
      <4> SUFFICES ASSUME NEW r \in Requests, Kind[r] = "repo_create",
                          row'[r].status = "approved"
                   PROVE  row'[r].repo
        BY <3>2 DEF ApprovedHasRepo, Recorded
      <4>1. CASE r = w.id BY <1>w, <3>1, <4>1 DEF Knows, Typed, TypeOK
      <4>2. CASE r # w.id BY <3>1, <4>2 DEF RepoInv, ApprovedHasRepo, Typed, TypeOK
      <4>3. QED BY <4>1, <4>2
    <3>5. QED BY <3>2, <3>3, <3>4 DEF RepoInv
  <2>2. CASE ~ok BY <1>7, <2>2, NoDecision DEF Save, Refuse, tables
  <2>3. QED BY <2>1, <2>2
<1>8. QED BY <1>1, <1>2, <1>3, <1>4, <1>5, <1>6, <1>7

LEMMA StepRepo ==
  ASSUME Typed, RepoInv, [Next]_vars
  PROVE  RepoInv'
<1>1. CASE UNCHANGED vars BY <1>1, NoDecision DEF vars, tables
<1>2. ASSUME NEW f, ChooseFilter(f) \/ ListAnswer(f) PROVE RepoInv'
  BY <1>2, NoDecision DEF ChooseFilter, ListAnswer
<1>3. ASSUME \/ \E a \in shown : OpenDrawer(a)
             \/ CloseDrawer \/ TypeComment \/ \E d \in Decisions : ChooseDecision(d)
      PROVE RepoInv'
  BY <1>3, NoDecision DEF OpenDrawer, CloseDrawer, TypeComment, ChooseDecision
<1>4. CASE HandleActionSubmit
  <2>1. PICK r, d, v : r = drawer.id /\ d = decision /\ v = New(r, d, TRUE) OBVIOUS
  <2>2. UNCHANGED tables /\ deciding' \subseteq deciding \cup {v}
    BY <1>4, <2>1 DEF HandleActionSubmit
  <2>3. Knows(v)' BY <2>1, NewKnows
  <2>4. QED BY <2>2, <2>3, RowsAlone DEF tables
<1>5. ASSUME NEW r \in Requests, NEW d \in Decisions, DecideElsewhere(r, d) PROVE RepoInv'
  <2>1. PICK v : v = New(r, d, FALSE) OBVIOUS
  <2>2. UNCHANGED tables /\ deciding' \subseteq deciding \cup {v}
    BY <1>5, <2>1 DEF DecideElsewhere
  <2>3. Knows(v)' BY <2>1, NewKnows
  <2>4. QED BY <2>2, <2>3, RowsAlone DEF tables
<1>6. QED BY <1>1, <1>2, <1>3, <1>4, <1>5, ServerRepo DEF Next

(* ApprovedHasRepo: however two administrators decide, fail and overlap, a *)
(* request for a repository is approved only with its repository.          *)
THEOREM ApprovedWithRepo == Spec => []ApprovedHasRepo
<1>1. Init => RepoInv BY DEF Init, RepoInv, ApprovedHasRepo, Knows
<1>2. Typed /\ RepoInv /\ [Next]_vars => Typed' /\ RepoInv' BY StepType, StepRepo
<1>3. RepoInv => ApprovedHasRepo BY DEF RepoInv
<1>4. QED BY <1>1, <1>2, <1>3, InitType, PTL DEF Spec

-----------------------------------------------------------------------------
(* One decision of the page at a time *)

Mine == {x \in deciding : x.mine}
MineInv == IF isProcessing THEN \E w \in deciding : Mine = {w} ELSE Mine = {}
Calls == {w.n : w \in Mine}
OneStep == MineInv' /\ [Deciding!Next]_<<isProcessing, Calls>>

LEMMA SameMine ==
  ASSUME MineInv, UNCHANGED isProcessing, Mine' = Mine
  PROVE  OneStep
<1>1. MineInv' BY DEF MineInv, Mine
<1>2. Calls' = Calls BY DEF Calls
<1>3. QED BY <1>1, <1>2 DEF OneStep

LEMMA StartsMine ==
  ASSUME MineInv, ~isProcessing, isProcessing' = TRUE,
         NEW v, v.mine = TRUE, deciding' = deciding \cup {v}
  PROVE  OneStep
<1>1. Mine = {} BY DEF MineInv
<1>2. Mine' = {v} BY <1>1 DEF Mine
<1>3. Calls = {} /\ Calls' = {v.n} BY <1>1, <1>2 DEF Calls
<1>4. MineInv' BY <1>2 DEF MineInv
<1>5. Deciding!Start BY <1>3 DEF Deciding!Start, Calls, Mine
<1>6. QED BY <1>4, <1>5 DEF OneStep, Deciding!Next

LEMMA MovesMine ==
  ASSUME MineInv, UNCHANGED isProcessing, NEW w \in deciding, NEW v, Goes(w, v),
         v.mine = w.mine, v.n = w.n
  PROVE  OneStep
<1>1. CASE w.mine
  <2>1. isProcessing /\ Mine = {w} BY <1>1 DEF MineInv, Mine
  <2>2. Mine' = {v} BY <1>1, <2>1 DEF Mine, Goes
  <2>3. Calls' = Calls BY <2>1, <2>2 DEF Calls
  <2>4. MineInv' BY <2>1, <2>2 DEF MineInv, Mine
  <2>5. QED BY <2>3, <2>4 DEF OneStep
<1>2. CASE ~w.mine
  <2>1. Mine' = Mine BY <1>2 DEF Mine, Goes
  <2>2. QED BY <2>1, SameMine
<1>3. QED BY <1>1, <1>2

LEMMA EndsMine ==
  ASSUME Typed, MineInv, NEW w \in deciding, deciding' = deciding \ {w},
         isProcessing' = (isProcessing /\ ~w.mine)
  PROVE  OneStep
<1>w. w.mine \in BOOLEAN /\ isProcessing \in BOOLEAN BY DEF Typed, Works
<1>1. CASE w.mine
  <2>1. isProcessing /\ Mine = {w} BY <1>1 DEF MineInv, Mine
  <2>2. Mine' = {} /\ isProcessing' = FALSE BY <1>1, <2>1 DEF Mine
  <2>3. Calls = {w.n} /\ Calls' = {} BY <2>1, <2>2 DEF Calls
  <2>4. MineInv' BY <2>2 DEF MineInv
  <2>5. Deciding!End BY <2>1, <2>2, <2>3 DEF Deciding!End, Calls, Mine
  <2>6. QED BY <2>4, <2>5 DEF OneStep, Deciding!Next
<1>2. CASE ~w.mine
  <2>1. Mine' = Mine /\ UNCHANGED isProcessing BY <1>w, <1>2 DEF Mine
  <2>2. QED BY <2>1, SameMine
<1>3. QED BY <1>1, <1>2

LEMMA ServerMine ==
  ASSUME Typed, MineInv, NEW w \in deciding,
         \/ Read(w) \/ AlreadyProcessed(w) \/ CreateRepo(w) \/ CreateFails(w) \/ Protect(w)
         \/ \E ok \in BOOLEAN : Store(w, ok) \/ Save(w, ok)
  PROVE  OneStep
<1>w. w \in Works BY DEF Typed
<1>1. CASE \E v : Goes(w, v) /\ v.mine = w.mine /\ v.n = w.n /\ UNCHANGED isProcessing
  BY <1>1, MovesMine
<1>2. CASE Refuse(w) \/ Answer(w) BY <1>2, EndsMine DEF Refuse, Answer
<1>3. CASE Read(w)
  <2>1. PICK v : v = [w EXCEPT !.pc = Performing(w), !.repo = row[w.id].repo] OBVIOUS
  <2>2. v.mine = w.mine /\ v.n = w.n BY <1>w, <2>1 DEF Works
  <2>3. Goes(w, v) /\ UNCHANGED isProcessing BY <1>3, <2>1 DEF Read, Goes, page
  <2>4. QED BY <1>1, <2>2, <2>3
<1>4. CASE CreateRepo(w)
  <2>1. PICK v : v = [w EXCEPT !.pc = "store"] OBVIOUS
  <2>2. v.mine = w.mine /\ v.n = w.n BY <1>w, <2>1 DEF Works
  <2>3. Goes(w, v) /\ UNCHANGED isProcessing BY <1>4, <2>1 DEF CreateRepo, page
  <2>4. QED BY <1>1, <2>2, <2>3
<1>5. CASE Protect(w)
  <2>1. PICK v : v = [w EXCEPT !.pc = "save"] OBVIOUS
  <2>2. v.mine = w.mine /\ v.n = w.n BY <1>w, <2>1 DEF Works
  <2>3. Goes(w, v) /\ UNCHANGED isProcessing BY <1>5, <2>1 DEF Protect, page
  <2>4. QED BY <1>1, <2>2, <2>3
<1>6. ASSUME Store(w, TRUE) PROVE OneStep
  <2>1. PICK v : v = [w EXCEPT !.pc = "save", !.repo = TRUE] OBVIOUS
  <2>2. v.mine = w.mine /\ v.n = w.n BY <1>w, <2>1 DEF Works
  <2>3. Goes(w, v) /\ UNCHANGED isProcessing BY <1>6, <2>1 DEF Store, page
  <2>4. QED BY <1>1, <2>2, <2>3
<1>7. ASSUME Store(w, FALSE) PROVE OneStep BY <1>2, <1>7 DEF Store
<1>8. ASSUME NEW ok \in BOOLEAN, Save(w, ok) PROVE OneStep BY <1>2, <1>8 DEF Save
<1>9. QED BY <1>2, <1>3, <1>4, <1>5, <1>6, <1>7, <1>8 DEF AlreadyProcessed, CreateFails

LEMMA StepMine ==
  ASSUME Typed, MineInv, [Next]_vars
  PROVE  OneStep
<1>1. CASE UNCHANGED <<deciding, isProcessing>> BY <1>1, SameMine DEF Mine
<1>2. CASE HandleActionSubmit
  <2>1. PICK r, d, v : r = drawer.id /\ d = decision /\ v = New(r, d, TRUE) OBVIOUS
  <2>2. v.mine = TRUE BY <2>1 DEF New
  <2>3. ~isProcessing /\ isProcessing' = TRUE /\ deciding' = deciding \cup {v}
    BY <1>2, <2>1 DEF HandleActionSubmit, MaySubmit
  <2>4. QED BY <2>2, <2>3, StartsMine
<1>3. ASSUME NEW r \in Requests, NEW d \in Decisions, DecideElsewhere(r, d) PROVE OneStep
  <2>1. PICK v : v = New(r, d, FALSE) OBVIOUS
  <2>2. v.mine = FALSE BY <2>1 DEF New
  <2>3. UNCHANGED isProcessing /\ deciding' = deciding \cup {v}
    BY <1>3, <2>1 DEF DecideElsewhere, page
  <2>4. Mine' = Mine BY <2>2, <2>3 DEF Mine
  <2>5. QED BY <2>3, <2>4, SameMine
<1>4. ASSUME NEW f, ChooseFilter(f) \/ ListAnswer(f) PROVE OneStep
  BY <1>1, <1>4 DEF ChooseFilter, ListAnswer
<1>5. ASSUME \/ \E a \in shown : OpenDrawer(a)
             \/ CloseDrawer \/ TypeComment \/ \E d \in Decisions : ChooseDecision(d)
      PROVE OneStep
  BY <1>1, <1>5 DEF OpenDrawer, CloseDrawer, TypeComment, ChooseDecision
<1>6. CASE UNCHANGED vars BY <1>1, <1>6 DEF vars
<1>7. QED BY <1>2, <1>3, <1>4, <1>5, <1>6, ServerMine DEF Next

(* OneDecision: the page's decisions implement SingleFlight, however its   *)
(* drawer is closed and opened and whatever the other administrator does.  *)
THEOREM OneDecisionAtATime == Spec => OneDecision
<1>1. Init => MineInv /\ Deciding!Init BY DEF Init, MineInv, Mine, Deciding!Init
<1>2. Typed /\ MineInv /\ [Next]_vars => Typed' /\ OneStep BY StepType, StepMine
<1>3. OneStep => MineInv' /\ [Deciding!Next]_<<isProcessing, {w.n : w \in {x \in deciding : x.mine}}>>
  BY DEF OneStep, Calls, Mine
<1>4. QED BY <1>1, <1>2, <1>3, InitType, PTL DEF Spec, OneDecision, Deciding!Spec

-----------------------------------------------------------------------------
(* The token cache *)

(* What the cache believes exceeds what is true by a request at most.      *)
Honest == token + Slow >= expiresAt
(* The request under way began within the timeout, and its token is as old *)
(* as the request at most.                                                 *)
Prompt ==
  ~Unlocked => /\ fetch.began <= clock /\ clock <= fetch.began + Slow
               /\ fetch.token # 0 => fetch.token >= fetch.began + Life
(* What a waiting goroutine would take for fresh by its old clock is fresh *)
(* by the clock there is now.                                              *)
OldClockHarmless ==
  \A c \in Callers : caller[c].pc = "waiting" =>
    /\ caller[c].now <= clock
    /\ expiresAt > caller[c].now + Margin => expiresAt > clock + Margin
TokenInv == TCTypeOK /\ Honest /\ Prompt /\ OldClockHarmless /\ OneFetch /\ HandedFresh

LEMMA InitInv == TCInit => TokenInv
<1> SUFFICES ASSUME TCInit PROVE TokenInv OBVIOUS
<1>1. \A c \in Callers : caller[c] = Idle BY DEF TCInit
<1>2. Idle \in Caller BY DEF Idle, Caller
<1>a. TCTypeOK BY <1>2 DEF TCInit, TCTypeOK
<1>3. Honest BY TokenAssumption DEF TCInit, Honest
<1>b. Idle.pc = "idle" BY DEF Idle
<1>4. Unlocked BY <1>1, <1>b DEF Unlocked
<1>5. Prompt /\ OldClockHarmless /\ OneFetch /\ HandedFresh
  BY <1>1, <1>4, <1>b DEF Prompt, OldClockHarmless, OneFetch, HandedFresh
<1>6. QED BY <1>a, <1>3, <1>5 DEF TokenInv

(* A step that moves one caller, and not to the request, and leaves the    *)
(* cache and the clock alone.                                              *)
LEMMA OneMoves ==
  ASSUME TokenInv, NEW c \in Callers, NEW r \in Caller, r.pc # "fetching",
         caller' = [caller EXCEPT ![c] = r], UNCHANGED <<clock, token, expiresAt, fetch>>,
         r.pc = "waiting" => r.now = clock /\ ~Fresh(clock),
         r.pc = "done" => r.left + Slow > Margin
  PROVE  TokenInv'
<1> USE DEF TokenInv
<1>t. caller \in [Callers -> Caller] BY DEF TCTypeOK
<1>1. /\ caller'[c] = r /\ \A d \in Callers : d # c => caller'[d] = caller[d] BY <1>t
<1>2. TCTypeOK' BY <1>t DEF TCTypeOK
<1>3. Honest' BY DEF Honest
<1>4. Prompt' BY <1>1 DEF Prompt, Unlocked
<1>5. OldClockHarmless'
  <2> SUFFICES ASSUME NEW d \in Callers, caller'[d].pc = "waiting"
      PROVE  /\ caller'[d].now <= clock
             /\ expiresAt > caller'[d].now + Margin => expiresAt > clock + Margin
    BY DEF OldClockHarmless
  <2>1. CASE d = c BY <1>1, <2>1 DEF TCTypeOK
  <2>2. CASE d # c BY <1>1, <2>2 DEF OldClockHarmless
  <2>3. QED BY <2>1, <2>2
<1>6. OneFetch' BY <1>1 DEF OneFetch, Fresh
<1>7. HandedFresh' BY <1>1 DEF HandedFresh
<1>8. QED BY <1>2, <1>3, <1>4, <1>5, <1>6, <1>7

LEMMA Hands ==
  ASSUME TokenInv, NEW t \in Nat, NEW ends \in Nat, ends + Slow > clock + Margin
  PROVE  Handed(t, ends) \in Caller /\ Handed(t, ends).left + Slow > Margin
BY TokenAssumption DEF TokenInv, TCTypeOK, Handed, Caller

LEMMA GetTokenInv == ASSUME TokenInv, NEW c \in Callers, GetToken(c) PROVE TokenInv'
<1> USE DEF GetToken
<1>t. caller[c] \in Caller /\ clock \in Nat /\ token \in Nat /\ expiresAt \in Nat
  BY DEF TokenInv, TCTypeOK
<1>1. CASE Fresh(clock)
  <2>1. token + Slow > clock + Margin
    BY <1>t, <1>1, TokenAssumption DEF TokenInv, Honest, Fresh
  <2>2. Handed(clock, token) \in Caller /\ Handed(clock, token).left + Slow > Margin
    BY <1>t, <2>1, Hands
  <2>3. Handed(clock, token).pc = "done" BY DEF Handed
  <2>4. QED BY <1>1, <2>2, <2>3, OneMoves
<1>2. CASE ~Fresh(clock)
  <2>1. PICK r : r = [caller[c] EXCEPT !.pc = "waiting", !.now = clock] OBVIOUS
  <2>2. r \in Caller /\ r.pc = "waiting" /\ r.now = clock BY <1>t, <2>1 DEF Caller
  <2>3. caller' = [caller EXCEPT ![c] = r] BY <1>2, <2>1
  <2>4. QED BY <1>2, <2>2, <2>3, OneMoves
<1>3. QED BY <1>1, <1>2

LEMMA LockInv == ASSUME TokenInv, NEW c \in Callers, Lock(c) PROVE TokenInv'
<1> USE DEF Lock
<1>t. /\ caller \in [Callers -> Caller] /\ caller[c] \in Caller /\ caller[c].now \in Nat
      /\ clock \in Nat /\ token \in Nat /\ expiresAt \in Nat
  BY DEF TokenInv, TCTypeOK, Caller
<1>o. /\ caller[c].now <= clock
      /\ expiresAt > caller[c].now + Margin => expiresAt > clock + Margin
  BY DEF TokenInv, OldClockHarmless
<1>1. CASE Fresh(caller[c].now)
  <2>1. token + Slow > clock + Margin
    BY <1>t, <1>o, <1>1, TokenAssumption DEF TokenInv, Honest, Fresh
  <2>2. /\ Handed(caller[c].now, token) \in Caller
        /\ Handed(caller[c].now, token).left + Slow > Margin
    BY <1>t, <2>1, Hands
  <2>3. Handed(caller[c].now, token).pc = "done" BY DEF Handed
  <2>4. /\ caller' = [caller EXCEPT ![c] = Handed(caller[c].now, token)]
        /\ UNCHANGED <<clock, token, expiresAt, fetch>>
    BY <1>1
  <2>5. QED BY <2>2, <2>3, <2>4, OneMoves
<1>2. CASE ~Fresh(caller[c].now)
  <2>1. /\ caller' = [caller EXCEPT ![c].pc = "fetching"]
        /\ fetch' = [began |-> clock, token |-> 0] /\ UNCHANGED <<clock, token, expiresAt>>
    BY <1>2 DEF Fetch
  <2>2. /\ caller'[c] = [caller[c] EXCEPT !.pc = "fetching"]
        /\ \A d \in Callers : d # c => caller'[d] = caller[d] /\ caller'[d].pc # "fetching"
    BY <1>t, <2>1 DEF Unlocked
  <2>3. caller'[c] \in Caller /\ caller'[c].pc = "fetching" BY <1>t, <2>2 DEF Caller
  <2>4. TCTypeOK' BY <1>t, <2>1, <2>2, <2>3 DEF TokenInv, TCTypeOK
  <2>5. Honest' BY <2>1 DEF TokenInv, Honest
  <2>6. Prompt' BY <1>t, <2>1, TokenAssumption DEF Prompt
  <2>7. OldClockHarmless' BY <2>1, <2>2, <2>3 DEF TokenInv, OldClockHarmless
  <2>8. ~Fresh(clock) BY <1>t, <1>o, <1>2, TokenAssumption DEF Fresh
  <2>9. OneFetch' BY <2>1, <2>2, <2>8 DEF OneFetch, Fresh
  <2>10. HandedFresh' BY <2>1, <2>2, <2>3 DEF TokenInv, HandedFresh
  <2>11. QED BY <2>4, <2>5, <2>6, <2>7, <2>9, <2>10 DEF TokenInv
<1>3. QED BY <1>1, <1>2

LEMMA IssueInv == ASSUME TokenInv, Issue PROVE TokenInv'
<1> USE DEF Issue, TokenInv
<1>t. clock \in Nat /\ fetch \in [began: Nat, token: Nat] BY DEF TCTypeOK
<1>1. fetch'.began = fetch.began /\ fetch'.token = clock + Life
      /\ fetch' \in [began: Nat, token: Nat]
  BY <1>t, TokenAssumption
<1>2. TCTypeOK' BY <1>1 DEF TCTypeOK
<1>3. Prompt' BY <1>1, <1>t, TokenAssumption DEF Prompt, Unlocked
<1>4. Honest' /\ OldClockHarmless' /\ OneFetch' /\ HandedFresh'
  BY DEF Honest, OldClockHarmless, OneFetch, Fresh, HandedFresh
<1>5. QED BY <1>2, <1>3, <1>4

LEMMA FetchedInv == ASSUME TokenInv, NEW c \in Callers, Fetched(c) PROVE TokenInv'
<1> USE DEF Fetched
<1>t. /\ caller \in [Callers -> Caller] /\ caller[c] \in Caller /\ caller[c].now \in Nat
      /\ clock \in Nat /\ fetch \in [began: Nat, token: Nat]
  BY DEF TokenInv, TCTypeOK, Caller
<1>p. /\ fetch.began <= clock /\ clock <= fetch.began + Slow
      /\ fetch.token >= fetch.began + Life
  BY DEF TokenInv, Prompt, Unlocked
<1>1. fetch.token + Slow >= clock + Life BY <1>t, <1>p, TokenAssumption
<1>2. /\ Handed(caller[c].now, fetch.token) \in Caller
      /\ Handed(caller[c].now, fetch.token).left + Slow > Margin
  BY <1>t, <1>1, TokenAssumption, Hands
<1>3. /\ caller'[c] = Handed(caller[c].now, fetch.token) /\ caller'[c].pc = "done"
      /\ \A d \in Callers : d # c => caller'[d] = caller[d] /\ caller'[d].pc # "fetching"
  BY <1>t DEF Handed, TokenInv, OneFetch
<1>4. Unlocked' BY <1>3 DEF Unlocked
<1>5. caller' \in [Callers -> Caller] BY <1>t, <1>2, <1>3
<1>6. TCTypeOK' BY <1>t, <1>5, <1>p, TokenAssumption DEF TokenInv, TCTypeOK
<1>7. Honest' /\ Prompt' BY <1>1, <1>4 DEF Honest, Prompt
<1>8. OldClockHarmless'
  <2> SUFFICES ASSUME NEW d \in Callers, caller'[d].pc = "waiting"
      PROVE  caller'[d].now <= clock /\ clock + Life > clock + Margin
    BY DEF OldClockHarmless
  <2>1. caller'[d] = caller[d] BY <1>3
  <2>2. QED BY <2>1, <1>t, TokenAssumption DEF TokenInv, OldClockHarmless
<1>9. OneFetch' BY <1>4 DEF OneFetch, Unlocked
<1>10. HandedFresh' BY <1>2, <1>3 DEF TokenInv, HandedFresh
<1>11. QED BY <1>6, <1>7, <1>8, <1>9, <1>10 DEF TokenInv

LEMMA EndsInv ==
  ASSUME TokenInv, NEW c \in Callers, FetchFails(c) \/ Return(c) PROVE TokenInv'
<1>1. Idle \in Caller /\ Idle.pc = "idle" BY DEF Idle, Caller
<1>2. caller' = [caller EXCEPT ![c] = Idle] /\ UNCHANGED <<clock, token, expiresAt, fetch>>
  BY DEF FetchFails, Return
<1>3. QED BY <1>1, <1>2, OneMoves

LEMMA ResetInv == ASSUME TokenInv, ResetTokenCache PROVE TokenInv'
<1> USE DEF ResetTokenCache, TokenInv
<1>1. TCTypeOK' /\ Honest' BY TokenAssumption DEF TCTypeOK, Honest
<1>2. Prompt' BY DEF Prompt, Unlocked
<1>3. OldClockHarmless'
  <2> SUFFICES ASSUME NEW c \in Callers, caller[c].pc = "waiting"
      PROVE  caller[c].now <= clock /\ ~(0 > caller[c].now + Margin)
    BY DEF OldClockHarmless
  <2>1. caller[c].now \in Nat BY DEF TCTypeOK, Caller
  <2>2. QED BY <2>1, TokenAssumption DEF OldClockHarmless
<1>4. OneFetch' /\ HandedFresh' BY DEF OneFetch, Fresh, HandedFresh, Unlocked
<1>5. QED BY <1>1, <1>2, <1>3, <1>4

(* Time passes for those who wait only while another fetches, and then     *)
(* none of them takes the token for fresh.                                 *)
LEMMA TickInv == ASSUME TokenInv, Tick PROVE TokenInv'
<1> USE DEF Tick, TokenInv
<1>t. /\ clock \in Nat /\ token \in Nat /\ expiresAt \in Nat /\ (token = 0 <=> expiresAt = 0)
      /\ fetch.began \in Nat
  BY DEF TCTypeOK
<1>1. TCTypeOK' /\ Honest' /\ HandedFresh' BY <1>t DEF TCTypeOK, Honest, HandedFresh
<1>2. Prompt' BY <1>t, TokenAssumption DEF Prompt, Unlocked
<1>3. Unlocked \/ expiresAt <= clock + Margin
  BY <1>t, TokenAssumption DEF OneFetch, Fresh, Unlocked
<1>4. OldClockHarmless'
  <2> SUFFICES ASSUME NEW c \in Callers, caller[c].pc = "waiting"
      PROVE  /\ caller[c].now <= clock + 1
             /\ expiresAt > caller[c].now + Margin => expiresAt > clock + 1 + Margin
    BY DEF OldClockHarmless
  <2>1. caller[c].now \in Nat /\ ~Unlocked BY DEF TCTypeOK, Caller
  <2>2. QED BY <1>t, <1>3, <2>1, TokenAssumption DEF OldClockHarmless
<1>5. OneFetch' BY <1>t, TokenAssumption DEF OneFetch, Fresh
<1>6. QED BY <1>1, <1>2, <1>4, <1>5

LEMMA StepInv == ASSUME TokenInv, [TCNext]_tokenVars PROVE TokenInv'
<1>1. CASE UNCHANGED tokenVars
  BY <1>1 DEF tokenVars, TokenInv, TCTypeOK, Honest, Prompt, Unlocked, OldClockHarmless,
              OneFetch, Fresh, HandedFresh
<1>2. CASE TCNext
  BY <1>2, GetTokenInv, LockInv, IssueInv, FetchedInv, EndsInv, ResetInv, TickInv DEF TCNext
<1>3. QED BY <1>1, <1>2

LEMMA Invariant == TCSpec => []TokenInv
BY InitInv, StepInv, PTL DEF TCSpec

(* TCTypeOK: the values of the cache, the clock and the callers.           *)
THEOREM TokenTypeCorrect == TCSpec => []TCTypeOK
BY Invariant, PTL DEF TokenInv

(* HandedFresh: every token handed out has the margin left, but for a      *)
(* request's time, although the second look uses an old clock.             *)
THEOREM TokensLive == TCSpec => []HandedFresh
BY Invariant, PTL DEF TokenInv

(* OneFetch: one caller fetches at a time, and only when no token is fresh *)
(* by the clock there is.                                                  *)
THEOREM FetchedWhenNeeded == TCSpec => []OneFetch
BY Invariant, PTL DEF TokenInv

-----------------------------------------------------------------------------
(* The mirror of a repository's branches: sets of numbers, and pages *)

(* A set of numbers with a bound has a greatest, and one that is not empty *)
(* a least.                                                                *)
LEMMA LeastIs ==
  ASSUME NEW S \in SUBSET Nat, S # {}
  PROVE  \E m \in S : \A x \in S : m <= x
<1>1. IsWellFoundedOn(OpToRel(<, Nat), Nat) BY NatLessThanWellFounded
<1>2. PICK m \in S : \A y \in S : ~(<<y, m>> \in OpToRel(<, Nat)) BY <1>1, WFMin
<1>3. \A y \in S : ~(y < m) BY <1>2 DEF OpToRel
<1>4. \A y \in S : m <= y BY <1>3
<1>5. QED BY <1>4

LEMMA GreatestIs ==
  ASSUME NEW S \in SUBSET Nat, S # {}, NEW n \in Nat, \A x \in S : x <= n
  PROVE  /\ \E m \in S : \A x \in S : x <= m
         /\ Max(S) \in S
<1> DEFINE T == {n - x : x \in S}
<1>s. PICK s \in S : TRUE OBVIOUS
<1>1. T \in SUBSET Nat /\ n - s \in T OBVIOUS
<1>2. PICK t \in T : \A x \in T : t <= x BY <1>1, LeastIs
<1>3. PICK m \in S : t = n - m BY <1>2
<1>4. \A x \in S : x <= m
  <2>1. TAKE x \in S
  <2>2. n - m <= n - x BY <1>2, <1>3
  <2>3. QED BY <2>2
<1>5. \A x \in S : m >= x BY <1>4
<1>6. Max(S) \in S BY <1>5 DEF Max
<1>7. QED BY <1>4, <1>6

(* The places of the numbers of a set are those from 1 to how many.        *)
LEMMA PlaceIs ==
  ASSUME NEW S \in SUBSET Nat, IsFiniteSet(S)
  PROVE  /\ \A x \in S : Place(x, S) \in 1 .. Cardinality(S)
         /\ \A x, y \in S : Place(x, S) = Place(y, S) => x = y
<1> DEFINE Upto(x) == {z \in S : z <= x}
<1>c. Cardinality(S) \in Nat BY FS_CardinalityType
<1>1. ASSUME NEW x \in S
      PROVE IsFiniteSet(Upto(x)) /\ Cardinality(Upto(x)) \in 1 .. Cardinality(S)
  <2>1. Upto(x) \in SUBSET S /\ x \in Upto(x) OBVIOUS
  <2>2. IsFiniteSet(Upto(x)) /\ Cardinality(Upto(x)) <= Cardinality(S) BY <2>1, FS_Subset
  <2>3. Cardinality(Upto(x)) \in Nat BY <2>2, FS_CardinalityType
  <2>4. Cardinality(Upto(x)) # 0 BY <2>1, <2>2, FS_EmptySet
  <2>5. QED BY <1>c, <2>2, <2>3, <2>4
<1>2. ASSUME NEW x \in S, NEW y \in S, x < y PROVE Place(x, S) # Place(y, S)
  <2>0. x \in Nat /\ y \in Nat /\ S \subseteq Nat OBVIOUS
  <2>a. \A z \in S : z <= x => z <= y BY <1>2, <2>0
  <2>b. y <= y /\ ~(y <= x) BY <1>2, <2>0
  <2>1. Upto(x) \in SUBSET Upto(y) /\ y \in Upto(y) /\ y \notin Upto(x) BY <2>a, <2>b
  <2>2. Cardinality(Upto(y)) # Cardinality(Upto(x)) BY <1>1, <2>1, FS_Subset
  <2>3. QED BY <2>2 DEF Place
<1>3. \A x \in S : Place(x, S) \in 1 .. Cardinality(S) BY <1>1 DEF Place
<1>4. ASSUME NEW x \in S, NEW y \in S, Place(x, S) = Place(y, S) PROVE x = y
  <2>1. x < y \/ y < x \/ x = y OBVIOUS
  <2>2. QED BY <1>2, <1>4, <2>1
<1>5. QED BY <1>3, <1>4

LEMMA NthIs ==
  ASSUME NEW S \in SUBSET Nat, IsFiniteSet(S)
  PROVE  /\ \A i \in 1 .. Cardinality(S) : Nth(i, S) \in S
         /\ \A x \in S : Place(x, S) \in 1 .. Cardinality(S) /\ Nth(Place(x, S), S) = x
<1> DEFINE n == Cardinality(S)
           f == [x \in S |-> Place(x, S)]
<1>c. n \in Nat BY FS_CardinalityType
<1>1. f \in [S -> 1 .. n] BY PlaceIs
<1>2. f \in Injection(S, 1 .. n) BY <1>1, PlaceIs DEF Injection, IsInjective
<1>3. IsFiniteSet(1 .. n) /\ Cardinality(1 .. n) = n BY <1>c, FS_Interval
<1>4. f \in Surjection(S, 1 .. n) BY <1>2, <1>3, FS_Injection
<1>5. \A i \in 1 .. n : \E x \in S : Place(x, S) = i BY <1>4 DEF Surjection
<1>6. \A i \in 1 .. n : Nth(i, S) \in S /\ Place(Nth(i, S), S) = i BY <1>5 DEF Nth
<1>7. ASSUME NEW x \in S
      PROVE  Place(x, S) \in 1 .. n /\ Nth(Place(x, S), S) = x
  <2>1. Place(x, S) \in 1 .. n BY PlaceIs
  <2>2. Nth(Place(x, S), S) \in S /\ Place(Nth(Place(x, S), S), S) = Place(x, S)
    BY <1>6, <2>1
  <2>3. QED BY <2>1, <2>2, PlaceIs
<1>8. QED BY <1>6, <1>7

LEMMA PagesAre ==
  ASSUME Sensible, NEW n \in Nat
  PROVE  /\ Pages(n) \in Nat /\ 1 <= Pages(n) /\ Pages(n) <= n + 1
         /\ n <= Pages(n) * PerPage
         /\ \A k \in 1 .. Pages(n) : (k - 1) * PerPage <= n
<1>p. PerPage \in Nat /\ PerPage >= 1 BY DEF Sensible
<1>1. CASE n = 0 BY <1>1, <1>p DEF Pages
<1>2. CASE n # 0
  <2>1. PICK m \in Nat : m = n + PerPage - 1 BY <1>p
  <2>2. PICK q \in Int : q = m \div PerPage BY <1>p
  <2>3. q * PerPage <= m BY <1>p, <2>2
  <2>4. m < q * PerPage + PerPage BY <1>p, <2>2
  <2>5. q >= 0 BY <1>p, <2>2
  <2>6. Pages(n) = q BY <1>2, <2>1, <2>2 DEF Pages
  <2>7. n <= q * PerPage
    <3>1. PICK t \in Int : t = q * PerPage BY <1>p
    <3>2. QED BY <1>p, <2>1, <2>4, <3>1
  <2>8. q >= 1 BY <1>2, <1>p, <2>5, <2>7
  <2>9. q <= n + 1
    <3>1. q - 1 <= (q - 1) * PerPage BY <1>p, <2>8
    <3>2. PICK t \in Int : t = q * PerPage BY <1>p
    <3>3. (q - 1) * PerPage = t - PerPage BY <1>p, <3>2
    <3>4. t <= n + PerPage - 1 BY <2>1, <2>3, <3>2
    <3>5. QED BY <1>p, <3>1, <3>3, <3>4
  <2>10. ASSUME NEW k \in 1 .. q PROVE (k - 1) * PerPage <= n
    <3>1. (k - 1) * PerPage <= (q - 1) * PerPage BY <1>p
    <3>2. PICK t \in Int : t = q * PerPage BY <1>p
    <3>3. (q - 1) * PerPage = t - PerPage BY <1>p, <3>2
    <3>4. t <= n + PerPage - 1 BY <2>1, <2>3, <3>2
    <3>5. QED BY <1>p, <3>1, <3>3, <3>4
  <2>11. QED BY <2>5, <2>6, <2>7, <2>8, <2>9, <2>10
<1>3. QED BY <1>1, <1>2
-----------------------------------------------------------------------------
(* The shape of the state *)

Steps == {"idle", "delete", "count", "pages", "load", "store", "prune", "sum"}
Entries == [name: Branches, status: BranchStatuses]
PageCounts == 0 .. Cardinality(Branches) + 1
Lists == Seq(Entries)
AuditRecs == [pc: Steps, todo: SUBSET Branches, pages: PageCounts, page: Nat, list: Lists,
              local: SUBSET Row, alone: BOOLEAN]
RemoteTyped ==
  /\ remote = [b \in DOMAIN remote |-> remote[b]] /\ DOMAIN remote \subseteq Branches
  /\ \A b \in DOMAIN remote : remote[b] \in BranchStatuses
CountsTyped ==
  DOMAIN counts = BranchStatuses \cup {"all"}
      /\ counts = [s \in DOMAIN counts |-> counts[s]]
AuditTyped ==
  /\ audit \in [Audits -> AuditRecs]
  /\ \A a \in Audits : /\ audit[a].pc = "pages" => audit[a].page >= 1
                       /\ audit[a].pc \in {"delete", "count"} => audit[a].list = <<>>
BatchTyped ==
  /\ batch \in [pc: {"idle", "look", "insert"}, branch: Nat]
  /\ batch.pc # "idle" => batch.branch \in Branches
MirrorTyped ==
  /\ RemoteTyped /\ CountsTyped /\ AuditTyped /\ BatchTyped
  /\ rows \subseteq Row /\ issued \in Nat /\ events \in Nat

(* Ids are never given twice: a row an audit has read is, by its id, the   *)
(* row there is or one that is gone.                                       *)
Ids ==
  /\ \A q, r \in rows : q.id = r.id => q = r
  /\ \A r \in rows : r.id <= issued
LocalIds(local) ==
  /\ \A q \in local : q.id <= issued
  /\ \A q \in local : \A r \in rows : q.id = r.id => q.name = r.name

LEMMA Branch ==
  ASSUME Sensible, RemoteTyped
  PROVE  /\ DOMAIN remote \in SUBSET Nat /\ IsFiniteSet(DOMAIN remote)
         /\ Cardinality(DOMAIN remote) \in Nat /\ Cardinality(Branches) \in Nat
         /\ Cardinality(DOMAIN remote) <= Cardinality(Branches)
BY FS_Subset, FS_CardinalityType DEF Sensible, RemoteTyped

(* What a page holds, which may be nothing when branches went.             *)
LEMMA PageIs ==
  ASSUME Sensible, RemoteTyped, NEW k \in Nat, k >= 1, NEW before,
         before = (k - 1) * PerPage,
         NEW all, all = Cardinality(DOMAIN remote)
  PROVE  /\ PageOf(k) \in Seq(Entries) /\ before \in Nat
         /\ Len(PageOf(k)) = IF all < before THEN 0
                             ELSE IF before + PerPage < all THEN PerPage ELSE all - before
         /\ \A i \in 1 .. Len(PageOf(k)) :
              PageOf(k)[i] = Entry(Nth(before + i, DOMAIN remote))
<1>a. all \in Nat /\ PerPage \in Nat /\ PerPage >= 1 BY Branch DEF Sensible
<1>b. before \in Nat BY <1>a
<1> DEFINE last == IF before + PerPage < all THEN before + PerPage ELSE all
           At(i) == Entry(Nth(before + i, DOMAIN remote))
<1>1. PageOf(k) = [i \in 1 .. (last - before) |-> At(i)] BY DEF PageOf
<1>2. ASSUME NEW i \in 1 .. (last - before) PROVE At(i) \in Entries
  <2>1. before + i \in 1 .. all BY <1>a, <1>b
  <2>2. Nth(before + i, DOMAIN remote) \in DOMAIN remote BY <2>1, Branch, NthIs
  <2>3. QED BY <2>2 DEF RemoteTyped, Entry, Entries
<1>3. CASE all < before
  <2>1. 1 .. (last - before) = 1 .. 0 BY <1>a, <1>b, <1>3
  <2>2. PageOf(k) = [i \in 1 .. 0 |-> At(i)] BY <1>1, <2>1
  <2>3. PageOf(k) \in Seq(Entries) /\ Len(PageOf(k)) = 0 BY <2>2
  <2>4. QED BY <1>b, <1>3, <2>3
<1>4. CASE ~(all < before)
  <2>1. PICK m \in Nat : m = last - before BY <1>a, <1>b, <1>4
  <2>2. PageOf(k) = [i \in 1 .. m |-> At(i)] BY <1>1, <2>1
  <2>3. PageOf(k) \in Seq(Entries) /\ Len(PageOf(k)) = m BY <1>2, <2>1, <2>2
  <2>4. QED BY <1>a, <1>b, <1>4, <2>1, <2>2, <2>3
<1>5. QED BY <1>3, <1>4

LEMMA GoesTyped ==
  ASSUME AuditTyped, NEW a \in Audits, NEW r \in AuditRecs, Turns(a, r) \/ Writes(a, r),
         r.pc = "pages" => r.page >= 1, r.pc \in {"delete", "count"} => r.list = <<>>
  PROVE  AuditTyped' /\ audit'[a] = r
<1> DEFINE f == Disturbed(audit)
<1>1. /\ f \in [Audits -> AuditRecs]
      /\ \A d \in Audits : f[d] = [audit[d] EXCEPT !.alone = FALSE]
  <2>1. \A d \in Audits : [audit[d] EXCEPT !.alone = FALSE] \in AuditRecs
    BY DEF AuditTyped, AuditRecs
  <2>2. QED BY <2>1 DEF Disturbed
<1>2. \A d \in Audits : /\ f[d].pc = audit[d].pc /\ f[d].page = audit[d].page
                        /\ f[d].list = audit[d].list
  BY <1>1 DEF AuditTyped, AuditRecs
<1>3. CASE Turns(a, r) BY <1>3 DEF Turns, AuditTyped
<1>4. CASE Writes(a, r)
  <2>1. audit' = [f EXCEPT ![a] = r] BY <1>4 DEF Writes
  <2>2. audit' \in [Audits -> AuditRecs] /\ audit'[a] = r BY <1>1, <2>1
  <2>3. \A d \in Audits : d # a => audit'[d] = f[d] BY <1>1, <2>1
  <2>4. ASSUME NEW d \in Audits
        PROVE  /\ audit'[d].pc = "pages" => audit'[d].page >= 1
               /\ audit'[d].pc \in {"delete", "count"} => audit'[d].list = <<>>
    BY <1>2, <2>2, <2>3 DEF AuditTyped
  <2>5. QED BY <2>2, <2>4 DEF AuditTyped
<1>5. QED BY <1>3, <1>4

LEMMA DisturbedTyped ==
  ASSUME AuditTyped, audit' = Disturbed(audit)
  PROVE  AuditTyped' /\ \A d \in Audits : ~audit'[d].alone
      /\ audit'[d].local = audit[d].local
<1>1. \A d \in Audits : [audit[d] EXCEPT !.alone = FALSE] \in AuditRecs
  BY DEF AuditTyped, AuditRecs
<1>2. /\ audit' \in [Audits -> AuditRecs]
      /\ \A d \in Audits : audit'[d] = [audit[d] EXCEPT !.alone = FALSE]
  BY <1>1 DEF Disturbed
<1>3. \A d \in Audits :
        /\ audit'[d].pc = audit[d].pc /\ audit'[d].page = audit[d].page
        /\ audit'[d].list = audit[d].list /\ audit'[d].local = audit[d].local
        /\ ~audit'[d].alone
  BY <1>2 DEF AuditTyped, AuditRecs
<1>4. QED BY <1>2, <1>3 DEF AuditTyped

LEMMA NoAuditIs == ASSUME Sensible, RemoteTyped PROVE NoAudit \in AuditRecs
<1>1. <<>> \in Lists BY DEF Lists
<1>2. 0 \in PageCounts BY Branch DEF PageCounts
<1>3. QED BY <1>1, <1>2 DEF NoAudit, AuditRecs, Steps

LEMMA EventIs == ASSUME events \in Nat, Event \/ events' = events PROVE events' \in Nat
BY DEF Event

(* What an audit does next is a record of the right shape.                 *)
LEMMA NextIs ==
  ASSUME NEW x \in AuditRecs
  PROVE  /\ \A pc \in Steps : [x EXCEPT !.pc = pc] \in AuditRecs
         /\ \A pc \in Steps, names \in SUBSET Branches :
              [x EXCEPT !.pc = pc, !.todo = names] \in AuditRecs
         /\ \A names \in SUBSET Branches, pc \in Steps :
              [x EXCEPT !.todo = names, !.pc = pc] \in AuditRecs
         /\ \A q \in PageCounts, alone \in BOOLEAN :
              [x EXCEPT !.pc = "pages", !.page = 1, !.pages = q,
                  !.alone = alone] \in AuditRecs
         /\ \A list \in Lists, k \in Nat, pc \in Steps :
              [x EXCEPT !.list = list, !.page = k, !.pc = pc] \in AuditRecs
         /\ \A local \in SUBSET Row, pc \in Steps :
              [x EXCEPT !.local = local, !.pc = pc] \in AuditRecs
         /\ \A pc \in Steps, alone \in BOOLEAN :
              [x EXCEPT !.pc = pc, !.alone = alone] \in AuditRecs
BY DEF AuditRecs, Steps

LEMMA GoneOn ==
  ASSUME MirrorTyped, NEW a \in Audits, NEW r \in AuditRecs, Turns(a, r) \/ Writes(a, r),
         r.pc = "pages" => r.page >= 1, r.pc \in {"delete", "count"} => r.list = <<>>,
         events' = events \/ Event, UNCHANGED <<remote, rows, batch, issued>>,
         counts' = counts \/ CountsTyped'
  PROVE  MirrorTyped' /\ audit'[a] = r
<1>1. AuditTyped' /\ audit'[a] = r BY GoesTyped DEF MirrorTyped
<1>2. CountsTyped' BY DEF MirrorTyped, CountsTyped
<1>3. RemoteTyped' /\ BatchTyped' BY DEF MirrorTyped, RemoteTyped, BatchTyped
<1>4. events' \in Nat BY DEF MirrorTyped, Event
<1>5. QED BY <1>1, <1>2, <1>3, <1>4 DEF MirrorTyped

LEMMA TriggerTyped ==
  ASSUME Sensible, MirrorTyped, NEW a \in Audits, TriggerManagedRepoBranchAudit(a)
  PROVE  MirrorTyped'
<1>1. PICK r : r = [NoAudit EXCEPT !.pc = "count"] OBVIOUS
<1>2. r \in AuditRecs BY <1>1, NoAuditIs, NextIs DEF MirrorTyped, Steps
<1>3. r.pc = "count" /\ r.list = <<>> BY <1>1 DEF NoAudit
<1>4. Turns(a, r) /\ Event /\ UNCHANGED <<remote, rows, counts, batch, issued>>
  BY <1>1 DEF TriggerManagedRepoBranchAudit
<1>5. QED BY <1>2, <1>3, <1>4, GoneOn

LEMMA CleanupTyped ==
  ASSUME Sensible, MirrorTyped, NEW a \in Audits, NEW names \in SUBSET NamesOf(rows),
         CleanupManagedBranches(a, names)
  PROVE  MirrorTyped'
<1>1. PICK r : r = [NoAudit EXCEPT !.pc = "delete", !.todo = names] OBVIOUS
<1>2. names \in SUBSET Branches BY DEF MirrorTyped, NamesOf, Row
<1>3. r \in AuditRecs BY <1>1, <1>2, NoAuditIs, NextIs DEF MirrorTyped, Steps
<1>4. r.pc = "delete" /\ r.list = <<>> BY <1>1 DEF NoAudit
<1>5. Turns(a, r) /\ Event /\ UNCHANGED <<remote, rows, counts, batch, issued>>
  BY <1>1 DEF CleanupManagedBranches
<1>6. QED BY <1>3, <1>4, <1>5, GoneOn

LEMMA CountTyped ==
  ASSUME Sensible, MirrorTyped, NEW a \in Audits, CountBranches(a)
  PROVE  MirrorTyped'
<1>a. audit[a] \in AuditRecs BY DEF MirrorTyped, AuditTyped
<1>1. PICK n : n = Cardinality(DOMAIN remote) OBVIOUS
<1>2. n \in Nat /\ n <= Cardinality(Branches) /\ Cardinality(Branches) \in Nat
  BY <1>1, Branch DEF MirrorTyped
<1>3. PICK k \in {0, n}, b \in BOOLEAN :
        LET r == [audit[a] EXCEPT !.pc = "pages", !.page = 1, !.pages = Pages(k),
            !.alone = b]
        IN (Turns(a, r) \/ Writes(a, r))
            /\ counts' \in {counts, [counts EXCEPT !["all"] = n]}
  <2>1. CASE Turns(a, [audit[a] EXCEPT !.pc = "pages", !.page = 1, !.pages = Pages(0),
                                      !.alone = FALSE]) /\ counts' = counts
    BY <2>1
  <2>2. CASE ~(Turns(a, [audit[a] EXCEPT !.pc = "pages", !.page = 1, !.pages = Pages(0),
                                        !.alone = FALSE]) /\ counts' = counts)
    <3>1. \E b \in BOOLEAN :
            LET r == [audit[a] EXCEPT !.pc = "pages", !.page = 1, !.pages = Pages(n),
                !.alone = b]
            IN (Turns(a, r) \/ Writes(a, r))
                /\ counts' \in {counts, [counts EXCEPT !["all"] = n]}
      BY <1>1, <2>2 DEF CountBranches
    <3>2. QED BY <3>1
  <2>3. QED BY <2>1, <2>2
<1>4. PICK r : r = [audit[a] EXCEPT !.pc = "pages", !.page = 1, !.pages = Pages(k),
    !.alone = b]
  OBVIOUS
<1>5. Pages(k) \in PageCounts BY <1>2, PagesAre DEF PageCounts
<1>6. r \in AuditRecs BY <1>a, <1>4, <1>5, NextIs
<1>7. r.pc = "pages" /\ r.page = 1 BY <1>a, <1>4 DEF AuditRecs
<1>8. CountsTyped' BY <1>3 DEF MirrorTyped, CountsTyped
<1>9. (events' = events \/ Event) /\ UNCHANGED <<remote, rows, batch, issued>>
  BY DEF CountBranches
<1>10. Turns(a, r) \/ Writes(a, r) BY <1>3, <1>4
<1>11. r.pc = "pages" => r.page >= 1 BY <1>7
<1>12. r.pc \notin {"delete", "count"} BY <1>7
<1>13. QED BY <1>6, <1>8, <1>9, <1>10, <1>11, <1>12, GoneOn

LEMMA ListTyped ==
  ASSUME Sensible, MirrorTyped, NEW a \in Audits, GetRemoteBranchesDetail(a)
  PROVE  MirrorTyped'
<1>a. audit[a] \in AuditRecs BY DEF MirrorTyped, AuditTyped
<1>u. UNCHANGED <<remote, rows, counts, batch, issued>> /\ (events' = events \/ Event)
  BY DEF GetRemoteBranchesDetail
<1>1. CASE Turns(a, NoAudit)
  <2>1. NoAudit \in AuditRecs /\ NoAudit.pc = "idle" BY NoAuditIs DEF MirrorTyped, NoAudit
  <2>2. QED BY <1>1, <1>u, <2>1, GoneOn
<1>2. CASE ~Turns(a, NoAudit)
  <2>1. PICK p : p = PageOf(audit[a].page) OBVIOUS
  <2>2. PICK pc \in {"load", "pages"} :
          Turns(a, [audit[a] EXCEPT !.list = @ \o p, !.page = @ + 1, !.pc = pc])
    BY <1>2, <2>1 DEF GetRemoteBranchesDetail
  <2>3. PICK r : r = [audit[a] EXCEPT !.list = @ \o p, !.page = @ + 1, !.pc = pc] OBVIOUS
  <2>4. audit[a].page \in Nat /\ audit[a].page >= 1 /\ audit[a].list \in Seq(Entries)
    BY <1>a DEF MirrorTyped, AuditTyped, AuditRecs, GetRemoteBranchesDetail, Lists
  <2>5. p \in Seq(Entries) BY <2>1, <2>4, PageIs DEF MirrorTyped
  <2>6. audit[a].list \o p \in Lists /\ audit[a].page + 1 \in Nat BY <2>4, <2>5 DEF Lists
  <2>7. r \in AuditRecs BY <1>a, <2>3, <2>6, NextIs DEF Steps
  <2>8. r.pc = pc /\ r.page = audit[a].page + 1 BY <1>a, <2>3 DEF AuditRecs
  <2>9. r.page >= 1 BY <2>4, <2>8
  <2>10. QED BY <1>u, <2>2, <2>3, <2>7, <2>8, <2>9, GoneOn
<1>3. QED BY <1>1, <1>2

LEMMA LoadTyped ==
  ASSUME Sensible, MirrorTyped, NEW a \in Audits, LoadMonitors(a)
  PROVE  MirrorTyped'
<1>a. audit[a] \in AuditRecs /\ rows \in SUBSET Row BY DEF MirrorTyped, AuditTyped
<1>u. UNCHANGED <<remote, rows, counts, batch, issued>> /\ (events' = events \/ Event)
  BY DEF LoadMonitors
<1>1. PICK r \in {NoAudit, [audit[a] EXCEPT !.local = rows, !.pc = "store"]} : Turns(a, r)
  BY DEF LoadMonitors
<1>n. NoAudit \in AuditRecs /\ NoAudit.pc = "idle" BY NoAuditIs DEF MirrorTyped, NoAudit
<1>l. [audit[a] EXCEPT !.local = rows, !.pc = "store"] \in AuditRecs
  BY <1>a, NextIs DEF Steps
<1>2. r \in AuditRecs BY <1>1, <1>n, <1>l
<1>3. r.pc \in {"idle", "store"} BY <1>a, <1>n, <1>1 DEF AuditRecs
<1>4. QED BY <1>1, <1>2, <1>3, <1>u, GoneOn

(* The rows an audit stores: those there are, with the status of some that *)
(* it read, and new ones with ids of their own.                            *)
Refreshed(a, lost, r) ==
  IF r.name \in ListedNames(a) \ lost /\ \E q \in audit[a].local :
       q.name = r.name /\ RowOf(audit[a].local, r.name).id = r.id
  THEN [r EXCEPT !.status =
          audit[a].list[Max({i \in DOMAIN audit[a].list :
              audit[a].list[i].name = r.name})].status]
  ELSE r
NewIn(a, lost) ==
  {i \in DOMAIN audit[a].list :
      audit[a].list[i].name \notin lost \cup NamesOf(audit[a].local)}
NewRow(a, lost, i) ==
  [id |-> issued + Place(i, NewIn(a, lost)), name |-> audit[a].list[i].name,
   status |-> audit[a].list[i].status]

LEMMA StoreIs ==
  ASSUME NEW a, NEW lost, StoreMonitors(a, lost)
  PROVE  /\ audit[a].pc = "store"
         /\ rows' = {Refreshed(a, lost, r) : r \in rows}
                      \cup {NewRow(a, lost, i) : i \in NewIn(a, lost)}
         /\ issued' = issued + Cardinality(NewIn(a, lost))
         /\ Logged(a, lost, "prune") /\ UNCHANGED <<remote, counts, batch>>
BY DEF StoreMonitors, Refreshed, NewRow, NewIn

LEMMA Latest ==
  ASSUME MirrorTyped, NEW a \in Audits, NEW b \in ListedNames(a)
  PROVE  LET m == Max({i \in DOMAIN audit[a].list : audit[a].list[i].name = b})
         IN m \in DOMAIN audit[a].list /\ audit[a].list[m].name = b
<1> DEFINE S == {i \in DOMAIN audit[a].list : audit[a].list[i].name = b}
<1>1. audit[a].list \in Seq(Entries) BY DEF MirrorTyped, AuditTyped, AuditRecs, Lists
<1>2. PICK n \in Nat : n = Len(audit[a].list) /\ DOMAIN audit[a].list = 1 .. n BY <1>1
<1>3. S \in SUBSET Nat /\ \A i \in S : i <= n BY <1>2
<1>4. S # {} BY DEF ListedNames
<1>5. Max(S) \in S BY <1>2, <1>3, <1>4, GreatestIs
<1>6. QED BY <1>5

LEMMA StoredRows ==
  ASSUME Sensible, MirrorTyped, NEW a \in Audits, NEW lost
  PROVE  /\ \A r \in rows : /\ Refreshed(a, lost, r) \in Row
                            /\ Refreshed(a, lost, r).id = r.id
                            /\ Refreshed(a, lost, r).name = r.name
         /\ NewIn(a, lost) \in SUBSET Nat /\ IsFiniteSet(NewIn(a, lost))
         /\ Cardinality(NewIn(a, lost)) \in Nat
         /\ \A i \in NewIn(a, lost) :
              /\ NewRow(a, lost, i) \in Row
              /\ NewRow(a, lost,
                 i).id \in issued + 1 .. issued + Cardinality(NewIn(a, lost))
         /\ \A i, j \in NewIn(a, lost) : NewRow(a, lost, i).id = NewRow(a, lost, j).id =>
            i = j
<1>1. /\ audit[a].list \in Seq(Entries) /\ rows \subseteq Row /\ issued \in Nat
  BY DEF MirrorTyped, AuditTyped, AuditRecs, Lists
<1>2. PICK n \in Nat : n = Len(audit[a].list) /\ DOMAIN audit[a].list = 1 .. n BY <1>1
<1>3. \A i \in DOMAIN audit[a].list : audit[a].list[i] \in Entries BY <1>1
<1>4. ASSUME NEW r \in rows
      PROVE  /\ Refreshed(a, lost, r) \in Row /\ Refreshed(a, lost, r).id = r.id
             /\ Refreshed(a, lost, r).name = r.name
  <2>1. CASE Refreshed(a, lost, r) = r BY <1>1, <2>1
  <2>2. CASE Refreshed(a, lost, r) # r
    <3>1. PICK m : m = Max({i \in DOMAIN audit[a].list :
        audit[a].list[i].name = r.name}) OBVIOUS
    <3>2. /\ r.name \in ListedNames(a)
          /\ Refreshed(a, lost, r) = [r EXCEPT !.status = audit[a].list[m].status]
      BY <2>2, <3>1 DEF Refreshed
    <3>3. audit[a].list[m].status \in BranchStatuses BY <1>3, <3>1, <3>2, Latest DEF Entries
    <3>4. QED BY <1>1, <3>2, <3>3 DEF Row
  <2>3. QED BY <2>1, <2>2
<1> DEFINE new == NewIn(a, lost)
<1>5. new \in SUBSET Nat /\ new \in SUBSET (1 .. n) BY <1>2 DEF NewIn
<1>6. IsFiniteSet(new) /\ Cardinality(new) \in Nat
  <2>1. IsFiniteSet(1 .. n) BY FS_Interval
  <2>2. IsFiniteSet(new) BY <1>5, <2>1, FS_Subset
  <2>3. QED BY <2>2, FS_CardinalityType
<1>7. ASSUME NEW i \in new
      PROVE  /\ NewRow(a, lost, i) \in Row
             /\ NewRow(a, lost, i).id \in issued + 1 .. issued + Cardinality(new)
             /\ NewRow(a, lost, i).id = issued + Place(i, new) /\ Place(i, new) \in Nat
  <2>1. Place(i, new) \in 1 .. Cardinality(new) BY <1>5, <1>6, PlaceIs
  <2>2. audit[a].list[i] \in Entries BY <1>3 DEF NewIn
  <2>3. NewRow(a, lost, i).id = issued + Place(i, new) BY DEF NewRow
  <2>4. issued + Place(i, new) \in issued + 1 .. issued + Cardinality(new)
    BY <1>1, <1>6, <2>1
  <2>5. NewRow(a, lost, i) \in Row BY <1>1, <2>1, <2>2, <1>6 DEF NewRow, Row, Entries
  <2>6. QED BY <1>6, <2>1, <2>3, <2>4, <2>5
<1>8. ASSUME NEW i \in new, NEW j \in new, NewRow(a, lost, i).id = NewRow(a, lost, j).id
      PROVE  i = j
  <2>1. Place(i, new) = Place(j, new) BY <1>1, <1>7, <1>8
  <2>2. QED BY <1>5, <1>6, <2>1, PlaceIs
<1>9. QED BY <1>4, <1>5, <1>6, <1>7, <1>8
-----------------------------------------------------------------------------
(* The other steps keep the shape *)

LEMMA DeleteTyped ==
  ASSUME Sensible, MirrorTyped, NEW a \in Audits, NEW b \in Branches,
         DeleteRemoteBranch(a, b)
  PROVE  MirrorTyped'
<1>a. audit[a] \in AuditRecs /\ audit[a].list = <<>> /\ audit[a].todo \in SUBSET Branches
  BY DEF MirrorTyped, AuditTyped, AuditRecs, DeleteRemoteBranch
<1>1. PICK pc \in {"count", "delete"} :
        Writes(a, [audit[a] EXCEPT !.todo = @ \ {b}, !.pc = pc])
  BY DEF DeleteRemoteBranch
<1>2. PICK r : r = [audit[a] EXCEPT !.todo = @ \ {b}, !.pc = pc] OBVIOUS
<1>3. r \in AuditRecs BY <1>a, <1>2, NextIs DEF Steps
<1>4. r.pc = pc /\ r.list = <<>> BY <1>a, <1>2 DEF AuditRecs
<1>5. AuditTyped' BY <1>1, <1>2, <1>3, <1>4, GoesTyped DEF MirrorTyped
<1>6. UNCHANGED <<rows, counts, batch, issued>> /\ (events' = events \/ Event)
  BY DEF DeleteRemoteBranch
<1>7. remote' = remote \/ remote' = [x \in DOMAIN remote \ {b} |-> remote[x]]
  BY DEF DeleteRemoteBranch
<1>8. RemoteTyped' BY <1>7 DEF MirrorTyped, RemoteTyped
<1>9. CountsTyped' /\ BatchTyped' BY <1>6 DEF MirrorTyped, CountsTyped, BatchTyped
<1>10. QED BY <1>5, <1>6, <1>8, <1>9, EventIs DEF MirrorTyped

LEMMA LoggedTyped ==
  ASSUME Sensible, MirrorTyped, NEW a \in Audits, NEW lost, NEW next \in {"prune", "sum"},
         Logged(a, lost, next)
  PROVE  /\ AuditTyped' /\ events' \in Nat
         /\ audit'[a] = [audit[a] EXCEPT !.pc = next, !.alone = @ /\ lost = {}]
         /\ Writes(a, audit'[a])
<1>1. audit[a] \in AuditRecs BY DEF MirrorTyped, AuditTyped
<1>2. PICK t \in BOOLEAN : t = (audit[a].alone /\ lost = {}) OBVIOUS
<1>3. PICK r : r = [audit[a] EXCEPT !.pc = next, !.alone = t] OBVIOUS
<1>4. r = [audit[a] EXCEPT !.pc = next, !.alone = @ /\ lost = {}] BY <1>2, <1>3
<1>5. Writes(a, r) /\ (events' = events \/ Event) BY <1>4 DEF Logged
<1>6. r \in AuditRecs BY <1>1, <1>3, NextIs DEF Steps
<1>7. r.pc = next BY <1>1, <1>3 DEF AuditRecs
<1>8. AuditTyped' /\ audit'[a] = r BY <1>5, <1>6, <1>7, GoesTyped DEF MirrorTyped
<1>9. QED BY <1>4, <1>5, <1>8, EventIs DEF MirrorTyped

LEMMA StoreTyped ==
  ASSUME Sensible, MirrorTyped, NEW a \in Audits, NEW lost, StoreMonitors(a, lost)
  PROVE  MirrorTyped'
<1>1. AuditTyped' /\ events' \in Nat BY StoreIs, LoggedTyped
<1>2. UNCHANGED <<remote, counts, batch>> BY StoreIs
<1>3. RemoteTyped' /\ CountsTyped' /\ BatchTyped'
  BY <1>2 DEF MirrorTyped, RemoteTyped, CountsTyped, BatchTyped
<1>4. rows' \subseteq Row BY StoreIs, StoredRows
<1>5. issued' \in Nat BY StoreIs, StoredRows DEF MirrorTyped
<1>6. QED BY <1>1, <1>3, <1>4, <1>5 DEF MirrorTyped

LEMMA PruneTyped ==
  ASSUME Sensible, MirrorTyped, NEW a \in Audits, NEW lost, PruneMonitors(a, lost)
  PROVE  MirrorTyped'
<1>1. AuditTyped' /\ events' \in Nat BY LoggedTyped DEF PruneMonitors
<1>2. UNCHANGED <<remote, counts, batch, issued>> BY DEF PruneMonitors
<1>3. RemoteTyped' /\ CountsTyped' /\ BatchTyped'
  BY <1>2 DEF MirrorTyped, RemoteTyped, CountsTyped, BatchTyped
<1>4. rows' \subseteq rows BY DEF PruneMonitors
<1>5. QED BY <1>1, <1>2, <1>3, <1>4 DEF MirrorTyped

LEMMA SumTyped ==
  ASSUME Sensible, MirrorTyped, NEW a \in Audits, SumUp(a)
  PROVE  MirrorTyped' /\ audit'[a] = NoAudit
<1>1. NoAudit \in AuditRecs /\ NoAudit.pc = "idle" BY NoAuditIs DEF MirrorTyped, NoAudit
<1>2. Turns(a, NoAudit) \/ Writes(a, NoAudit) BY DEF SumUp
<1>3. UNCHANGED <<remote, rows, batch, issued>> /\ (events' = events \/ Event) BY DEF SumUp
<1>4. counts' = counts \/ CountsTyped' BY DEF SumUp, CountsTyped
<1>5. QED BY <1>1, <1>2, <1>3, <1>4, GoneOn

LEMMA CreateTyped ==
  ASSUME Sensible, MirrorTyped, NEW b \in Branches, CreateRemoteBranch(b)
  PROVE  MirrorTyped'
<1>1. AuditTyped' BY DisturbedTyped DEF MirrorTyped, CreateRemoteBranch
<1>2. RemoteTyped' BY DEF MirrorTyped, RemoteTyped, CreateRemoteBranch, With, BranchStatuses
<1>3. BatchTyped' BY DEF BatchTyped, CreateRemoteBranch, Sensible
<1>4. UNCHANGED <<rows, counts, issued>> /\ Event BY DEF CreateRemoteBranch
<1>5. QED BY <1>1, <1>2, <1>3, <1>4, EventIs DEF MirrorTyped, CountsTyped

LEMMA LookUpTyped == ASSUME Sensible, MirrorTyped, LookUp \/ InsertFails PROVE MirrorTyped'
<1>1. UNCHANGED <<remote, rows, counts, audit, issued>> /\ (events' = events \/ Event)
  BY DEF LookUp, InsertFails
<1>2. /\ batch' \in [pc: {"idle", "look", "insert"}, branch: Nat]
      /\ batch'.branch = batch.branch /\ batch.pc # "idle"
  BY DEF LookUp, InsertFails, MirrorTyped, BatchTyped
<1>3. BatchTyped' BY <1>2 DEF MirrorTyped, BatchTyped
<1>4. events' \in Nat BY <1>1, EventIs DEF MirrorTyped
<1>5. QED BY <1>1, <1>3, <1>4 DEF MirrorTyped, RemoteTyped, CountsTyped, AuditTyped

LEMMA InsertTyped == ASSUME Sensible, MirrorTyped, Insert PROVE MirrorTyped'
<1>1. UNCHANGED <<remote, counts, events>> /\ audit' = Disturbed(audit)
    /\ issued' = issued + 1
  BY DEF Insert
<1>2. BatchTyped' BY DEF Insert, MirrorTyped, BatchTyped
<1>3. AuditTyped' BY <1>1, DisturbedTyped DEF MirrorTyped
<1>4. batch.branch \in Branches BY DEF Insert, MirrorTyped, BatchTyped
<1>5. rows' \subseteq Row BY <1>4 DEF Insert, MirrorTyped, Row, BranchStatuses
<1>6. QED BY <1>1, <1>2, <1>3, <1>5 DEF MirrorTyped, RemoteTyped, CountsTyped

LEMMA PlatformTyped ==
  ASSUME Sensible, MirrorTyped, NEW b \in Branches, NEW s \in BranchStatuses \cup {"gone"},
         PlatformChange(b, s)
  PROVE  MirrorTyped'
<1>1. UNCHANGED <<rows, counts, batch, issued>> /\ audit' = Disturbed(audit) /\ Event
  BY DEF PlatformChange
<1>2. AuditTyped' BY <1>1, DisturbedTyped DEF MirrorTyped
<1>3. (s \in BranchStatuses
    /\ remote' = With(b, s)) \/ remote' = [x \in DOMAIN remote \ {b} |-> remote[x]]
  BY DEF PlatformChange, BranchStatuses
<1>4. RemoteTyped' BY <1>3 DEF MirrorTyped, RemoteTyped, With
<1>5. QED BY <1>1, <1>2, <1>4, EventIs DEF MirrorTyped, CountsTyped, BatchTyped

LEMMA InitTyped == ASSUME Sensible, BAInit PROVE MirrorTyped
<1>1. RemoteTyped /\ CountsTyped BY DEF BAInit, RemoteTyped, CountsTyped
<1>2. AuditTyped BY <1>1, NoAuditIs DEF BAInit, AuditTyped, NoAudit
<1>3. BatchTyped BY DEF BAInit, BatchTyped
<1>4. QED BY <1>1, <1>2, <1>3 DEF BAInit, MirrorTyped

LEMMA MirrorTypedNext == ASSUME Sensible, MirrorTyped, [BANext]_auditVars PROVE MirrorTyped'
<1>1. CASE UNCHANGED auditVars
  BY <1>1 DEF auditVars, MirrorTyped, RemoteTyped, CountsTyped, AuditTyped, BatchTyped
<1>2. CASE LookUp \/ InsertFails BY <1>2, LookUpTyped
<1>3. CASE Insert BY <1>3, InsertTyped
<1>4. ASSUME NEW b \in Branches,
             CreateRemoteBranch(b)
                 \/ \E s \in BranchStatuses \cup {"gone"} : PlatformChange(b, s)
      PROVE  MirrorTyped'
  BY <1>4, CreateTyped, PlatformTyped
<1>5. ASSUME NEW a \in Audits, TriggerManagedRepoBranchAudit(a) PROVE MirrorTyped'
  BY <1>5, TriggerTyped
<1>6. ASSUME NEW a \in Audits, NEW names \in SUBSET NamesOf(rows),
             CleanupManagedBranches(a, names)
      PROVE  MirrorTyped'
  BY <1>6, CleanupTyped
<1>7. ASSUME NEW a \in Audits, NEW b \in Branches, DeleteRemoteBranch(a, b)
      PROVE MirrorTyped'
  BY <1>7, DeleteTyped
<1>8. ASSUME NEW a \in Audits, CountBranches(a) \/ GetRemoteBranchesDetail(a)
    \/ LoadMonitors(a)
      PROVE  MirrorTyped'
  BY <1>8, CountTyped, ListTyped, LoadTyped
<1>9. ASSUME NEW a \in Audits, NEW lost, StoreMonitors(a, lost) \/ PruneMonitors(a, lost)
      PROVE  MirrorTyped'
  BY <1>9, StoreTyped, PruneTyped
<1>10. ASSUME NEW a \in Audits, SumUp(a) PROVE MirrorTyped' BY <1>10, SumTyped
<1>11. QED BY <1>1, <1>2, <1>3, <1>4, <1>5, <1>6, <1>7, <1>8, <1>9, <1>10 DEF BANext

-----------------------------------------------------------------------------
(* The ids of the rows *)

IdsKept == Ids /\ \A d \in Audits : LocalIds(audit[d].local)
(* The rows after a step: rows there were, under their ids and names, and  *)
(* new ones.                                                               *)
Grown ==
  /\ issued' \in Nat /\ issued <= issued'
  /\ \A r \in rows' : \/ \E q \in rows : q.id = r.id /\ q.name = r.name
                      \/ issued < r.id /\ r.id <= issued'
  /\ \A q, r \in rows' : q.id = r.id => q = r

LEMMA OthersStay ==
  ASSUME AuditTyped, NEW a \in Audits, NEW r, Turns(a, r) \/ Writes(a, r)
  PROVE  /\ \A d \in Audits \ {a} :
              /\ audit'[d].local = audit[d].local /\ audit'[d].pc = audit[d].pc
              /\ audit'[d] = audit[d] \/ ~audit'[d].alone
              /\ Writes(a, r) => ~audit'[d].alone
         /\ audit'[a] = r
<1>1. CASE Turns(a, r) /\ ~Writes(a, r) BY <1>1 DEF Turns, AuditTyped
<1>2. CASE Writes(a, r)
  <2>1. \A d \in Audits : [audit[d] EXCEPT !.alone = FALSE] \in AuditRecs
    BY DEF AuditTyped, AuditRecs
  <2>2. /\ Disturbed(audit) \in [Audits -> AuditRecs]
        /\ \A d \in Audits : Disturbed(audit)[d] = [audit[d] EXCEPT !.alone = FALSE]
    BY <2>1 DEF Disturbed
  <2>3. audit'[a] = r
      /\ \A d \in Audits \ {a} : audit'[d] = [audit[d] EXCEPT !.alone = FALSE]
    BY <1>2, <2>2 DEF Writes
  <2>4. \A d \in Audits \ {a} : /\ audit'[d].local = audit[d].local
                                /\ audit'[d].pc = audit[d].pc /\ ~audit'[d].alone
    BY <2>3 DEF AuditTyped, AuditRecs
  <2>5. QED BY <2>3, <2>4
<1>3. QED BY <1>1, <1>2

LEMMA GrownIds ==
  ASSUME MirrorTyped, IdsKept, Grown
  PROVE  /\ Ids'
         /\ \A local \in SUBSET Row :
              LocalIds(local) => /\ \A q \in local : q.id <= issued'
                                 /\ \A q \in local : \A r \in rows' : q.id = r.id =>
                                    q.name = r.name
<1>t. issued \in Nat /\ issued' \in Nat /\ issued <= issued' /\ \A r \in rows : r.id \in Nat
  BY DEF MirrorTyped, Grown, Row
<1>1. ASSUME NEW r \in rows' PROVE r.id <= issued'
  <2>1. CASE \E q \in rows : q.id = r.id BY <1>t, <2>1 DEF IdsKept, Ids
  <2>2. QED BY <2>1 DEF Grown
<1>2. Ids' BY <1>1 DEF Ids, Grown
<1>3. ASSUME NEW local \in SUBSET Row, LocalIds(local), NEW q \in local
      PROVE  q.id <= issued' /\ \A r \in rows' : q.id = r.id => q.name = r.name
  <2>1. q.id \in Nat /\ q.id <= issued BY <1>3 DEF Row, LocalIds
  <2>2. q.id <= issued' BY <1>t, <2>1
  <2>3. ASSUME NEW r \in rows', q.id = r.id PROVE q.name = r.name
    <3>1. ~(issued < r.id) BY <1>t, <2>1, <2>3
    <3>2. PICK z \in rows : z.id = r.id /\ z.name = r.name BY <3>1 DEF Grown
    <3>3. QED BY <1>3, <2>3, <3>2 DEF LocalIds
  <2>4. QED BY <2>2, <2>3
<1>4. QED BY <1>2, <1>3

LEMMA SameGrown ==
  ASSUME MirrorTyped, IdsKept, rows' \subseteq rows, issued' = issued
  PROVE  Grown
BY DEF MirrorTyped, IdsKept, Ids, Grown

LEMMA StoreGrown ==
  ASSUME Sensible, MirrorTyped, IdsKept, NEW a \in Audits, NEW lost, StoreMonitors(a, lost)
  PROVE  Grown
<1> DEFINE new == NewIn(a, lost)
           old(r) == Refreshed(a, lost, r)
           made(i) == NewRow(a, lost, i)
<1>t. /\ issued \in Nat /\ Cardinality(new) \in Nat /\ issued' = issued + Cardinality(new)
      /\ \A r \in rows : r.id \in Nat /\ r.id <= issued
  BY StoreIs, StoredRows DEF MirrorTyped, IdsKept, Ids, Row
<1>1. rows' = {old(r) : r \in rows} \cup {made(i) : i \in new} BY StoreIs
<1>2. \A r \in rows : old(r).id = r.id /\ old(r).name = r.name BY StoredRows
<1>3. \A i \in new : made(i).id \in Nat /\ issued < made(i).id /\ made(i).id <= issued'
  BY <1>t, StoredRows
<1>4. \A i, j \in new : made(i).id = made(j).id => i = j BY StoredRows
<1> HIDE DEF new, old, made
<1>5. ASSUME NEW r \in rows'
      PROVE  \/ \E q \in rows : q.id = r.id /\ q.name = r.name /\ r = old(q)
             \/ \E i \in new : r = made(i)
  BY <1>1, <1>2
<1>6. ASSUME NEW q \in rows', NEW r \in rows', q.id = r.id PROVE q = r
  <2>1. CASE \E i \in new : q = made(i)
    <3>1. PICK i \in new : q = made(i) BY <2>1
    <3>2. ~\E z \in rows : z.id = r.id BY <1>t, <1>3, <1>6, <3>1
    <3>3. PICK j \in new : r = made(j) BY <1>5, <3>2
    <3>4. QED BY <1>4, <1>6, <3>1, <3>3
  <2>2. CASE ~\E i \in new : q = made(i)
    <3>1. PICK y \in rows : y.id = q.id /\ q = old(y) BY <1>5, <2>2
    <3>2. ~\E j \in new : r = made(j) BY <1>t, <1>3, <1>6, <3>1
    <3>3. PICK z \in rows : z.id = r.id /\ r = old(z) BY <1>5, <3>2
    <3>4. y = z BY <1>6, <3>1, <3>3 DEF IdsKept, Ids
    <3>5. QED BY <3>1, <3>3, <3>4
  <2>3. QED BY <2>1, <2>2
<1>7. issued' \in Nat /\ issued <= issued' BY <1>t
<1>8. \A r \in rows' : \/ \E q \in rows : q.id = r.id /\ q.name = r.name
                       \/ issued < r.id /\ r.id <= issued'
  BY <1>3, <1>5
<1>9. QED BY <1>6, <1>7, <1>8 DEF Grown

LEMMA InsertGrown == ASSUME MirrorTyped, IdsKept, Insert PROVE Grown
<1>1. PICK z : z = [id |-> issued + 1, name |-> batch.branch, status |-> "active"] OBVIOUS
<1>2. rows' = rows \cup {z} /\ issued' = issued + 1 /\ issued \in Nat /\ z.id = issued + 1
  BY <1>1 DEF Insert, MirrorTyped
<1>3. \A r \in rows : r.id \in Nat /\ r.id <= issued BY DEF MirrorTyped, IdsKept, Ids, Row
<1>4. \A r \in rows : r.id # z.id BY <1>2, <1>3
<1>5. \A q, r \in rows' : q.id = r.id => q = r BY <1>2, <1>4 DEF IdsKept, Ids
<1>6. QED BY <1>2, <1>5 DEF Grown

LEMMA KeptBy ==
  ASSUME MirrorTyped, IdsKept, Grown, MirrorTyped',
         \A d \in Audits : \/ audit'[d].local \in {audit[d].local, {}}
                           \/ audit'[d].local = rows /\ UNCHANGED <<rows, issued>>
  PROVE  IdsKept'
<1>1. Ids' BY GrownIds
<1>2. ASSUME NEW d \in Audits PROVE LocalIds(audit[d].local)'
  <2>1. CASE audit'[d].local = rows /\ UNCHANGED <<rows, issued>>
    BY <2>1 DEF IdsKept, Ids, LocalIds
  <2>2. CASE audit'[d].local = {} BY <2>2 DEF LocalIds
  <2>3. CASE audit'[d].local = audit[d].local
    <3>1. audit[d].local \in SUBSET Row /\ LocalIds(audit[d].local)
      BY DEF MirrorTyped, AuditTyped, AuditRecs, IdsKept
    <3>2. QED BY <2>3, <3>1, GrownIds DEF LocalIds
  <2>4. QED BY <2>1, <2>2, <2>3
<1>3. QED BY <1>1, <1>2 DEF IdsKept

(* What a request's own step does to the rows it has read.                 *)
LEMMA LocalAfter ==
  ASSUME Sensible, MirrorTyped, NEW a \in Audits, NEW names, NEW b, NEW lost,
         \/ TriggerManagedRepoBranchAudit(a) \/ CleanupManagedBranches(a, names)
         \/ DeleteRemoteBranch(a, b) \/ CountBranches(a) \/ GetRemoteBranchesDetail(a)
         \/ LoadMonitors(a) \/ StoreMonitors(a, lost) \/ PruneMonitors(a, lost) \/ SumUp(a)
  PROVE  /\ \E r : (Turns(a, r) \/ Writes(a, r))
                   /\ \/ r.local \in {audit[a].local, {}}
                      \/ r.local = rows /\ UNCHANGED <<rows, issued>>
         /\ StoreMonitors(a, lost) \/ (rows' \subseteq rows /\ issued' = issued)
<1>a. audit[a] \in AuditRecs BY DEF MirrorTyped, AuditTyped
<1> DEFINE Kept(r) == (Turns(a, r) \/ Writes(a, r)) /\ r.local \in {audit[a].local, {}}
<1>1. CASE TriggerManagedRepoBranchAudit(a)
  <2>1. [NoAudit EXCEPT !.pc = "count"].local = {} BY DEF NoAudit
  <2>2. Turns(a, [NoAudit EXCEPT !.pc = "count"]) BY <1>1 DEF TriggerManagedRepoBranchAudit
  <2>3. QED BY <1>1, <2>1, <2>2 DEF TriggerManagedRepoBranchAudit
<1>2. CASE CleanupManagedBranches(a, names)
  <2>1. [NoAudit EXCEPT !.pc = "delete", !.todo = names].local = {} BY DEF NoAudit
  <2>2. Turns(a, [NoAudit EXCEPT !.pc = "delete", !.todo = names])
    BY <1>2 DEF CleanupManagedBranches
  <2>3. QED BY <1>2, <2>1, <2>2 DEF CleanupManagedBranches
<1>3. CASE DeleteRemoteBranch(a, b)
  <2>1. PICK pc : Writes(a, [audit[a] EXCEPT !.todo = @ \ {b}, !.pc = pc])
    BY <1>3 DEF DeleteRemoteBranch
  <2>2. [audit[a] EXCEPT !.todo = @ \ {b}, !.pc = pc].local = audit[a].local
    BY <1>a DEF AuditRecs
  <2>3. QED BY <1>3, <2>1, <2>2 DEF DeleteRemoteBranch
<1>4. CASE CountBranches(a)
  <2>1. PICK k, t : LET r == [audit[a] EXCEPT !.pc = "pages", !.page = 1,
      !.pages = Pages(k),
                                              !.alone = t]
                    IN Turns(a, r) \/ Writes(a, r)
    BY <1>4 DEF CountBranches
  <2>2. [audit[a] EXCEPT !.pc = "pages", !.page = 1, !.pages = Pages(k),
                         !.alone = t].local = audit[a].local
    BY <1>a DEF AuditRecs
  <2>3. QED BY <1>4, <2>1, <2>2 DEF CountBranches
<1>5. CASE GetRemoteBranchesDetail(a)
  <2>1. NoAudit.local = {} BY DEF NoAudit
  <2>2. PICK p, pc : \/ Turns(a, NoAudit)
                     \/ Turns(a, [audit[a] EXCEPT !.list = @ \o p, !.page = @ + 1,
                        !.pc = pc])
    BY <1>5 DEF GetRemoteBranchesDetail
  <2>3. [audit[a] EXCEPT !.list = @ \o p, !.page = @ + 1, !.pc = pc].local = audit[a].local
    BY <1>a DEF AuditRecs
  <2>4. QED BY <1>5, <2>1, <2>2, <2>3 DEF GetRemoteBranchesDetail
<1>6. CASE LoadMonitors(a)
  <2>1. NoAudit.local = {} BY DEF NoAudit
  <2>2. [audit[a] EXCEPT !.local = rows, !.pc = "store"].local = rows BY <1>a DEF AuditRecs
  <2>3. QED BY <1>6, <2>1, <2>2 DEF LoadMonitors
<1>7. CASE StoreMonitors(a, lost)
  <2>1. Writes(a, audit'[a])
        /\ audit'[a] = [audit[a] EXCEPT !.pc = "prune", !.alone = @ /\ lost = {}]
    BY <1>7, StoreIs, LoggedTyped
  <2>2. audit'[a].local = audit[a].local BY <1>a, <2>1 DEF AuditRecs
  <2>3. QED BY <1>7, <2>1, <2>2
<1>8. CASE PruneMonitors(a, lost)
  <2>1. Writes(a, audit'[a])
        /\ audit'[a] = [audit[a] EXCEPT !.pc = "sum", !.alone = @ /\ lost = {}]
    BY <1>8, LoggedTyped DEF PruneMonitors
  <2>2. audit'[a].local = audit[a].local BY <1>a, <2>1 DEF AuditRecs
  <2>3. QED BY <1>8, <2>1, <2>2 DEF PruneMonitors
<1>9. CASE SumUp(a)
  <2>1. NoAudit.local = {} BY DEF NoAudit
  <2>2. QED BY <1>9, <2>1 DEF SumUp
<1>10. QED BY <1>1, <1>2, <1>3, <1>4, <1>5, <1>6, <1>7, <1>8, <1>9

Own(a) ==
  \/ TriggerManagedRepoBranchAudit(a)
  \/ \E names \in SUBSET NamesOf(rows) : CleanupManagedBranches(a, names)
  \/ \E b \in Branches : DeleteRemoteBranch(a, b)
  \/ CountBranches(a) \/ GetRemoteBranchesDetail(a) \/ LoadMonitors(a)
  \/ \E lost \in OneOf(ListedNames(a)) : StoreMonitors(a, lost)
  \/ \E lost \in OneOf(NamesOf(audit[a].local) \ ListedNames(a)) : PruneMonitors(a, lost)
  \/ SumUp(a)

LEMMA OwnIds ==
  ASSUME Sensible, MirrorTyped, IdsKept, MirrorTyped', NEW a \in Audits, Own(a)
  PROVE  IdsKept'
<1>1. PICK names, b, lost :
        \/ TriggerManagedRepoBranchAudit(a) \/ CleanupManagedBranches(a, names)
        \/ DeleteRemoteBranch(a, b) \/ CountBranches(a) \/ GetRemoteBranchesDetail(a)
        \/ LoadMonitors(a) \/ StoreMonitors(a, lost) \/ PruneMonitors(a, lost) \/ SumUp(a)
  BY DEF Own
<1>2. /\ \E r : (Turns(a, r) \/ Writes(a, r))
                /\ \/ r.local \in {audit[a].local, {}}
                   \/ r.local = rows /\ UNCHANGED <<rows, issued>>
      /\ StoreMonitors(a, lost) \/ (rows' \subseteq rows /\ issued' = issued)
  BY <1>1, LocalAfter
<1>3. PICK r : /\ Turns(a, r) \/ Writes(a, r)
               /\ \/ r.local \in {audit[a].local, {}}
                  \/ r.local = rows /\ UNCHANGED <<rows, issued>>
  BY <1>2
<1>4. Grown BY <1>2, SameGrown, StoreGrown
<1>5. audit'[a] = r /\ \A d \in Audits \ {a} : audit'[d].local = audit[d].local
  BY <1>3, OthersStay DEF MirrorTyped
<1>6. QED BY <1>3, <1>4, <1>5, KeptBy

LEMMA IdsNext == ASSUME Sensible, MirrorTyped, IdsKept, [BANext]_auditVars PROVE IdsKept'
<1>1. MirrorTyped' BY MirrorTypedNext
<1>2. CASE UNCHANGED auditVars \/ LookUp \/ InsertFails
  <2>1. UNCHANGED <<rows, issued, audit>> BY <1>2 DEF auditVars, LookUp, InsertFails
  <2>2. Grown BY <2>1, SameGrown
  <2>3. QED BY <1>1, <2>1, <2>2, KeptBy
<1>3. CASE Insert
  <2>1. audit' = Disturbed(audit) BY <1>3 DEF Insert
  <2>2. \A d \in Audits : audit'[d].local = audit[d].local
    BY <2>1, DisturbedTyped DEF MirrorTyped
  <2>3. QED BY <1>1, <1>3, <2>2, InsertGrown, KeptBy
<1>4. ASSUME NEW b \in Branches,
             CreateRemoteBranch(b)
                 \/ \E s \in BranchStatuses \cup {"gone"} : PlatformChange(b, s)
      PROVE  IdsKept'
  <2>1. audit' = Disturbed(audit) /\ UNCHANGED <<rows, issued>>
    BY <1>4 DEF CreateRemoteBranch, PlatformChange
  <2>2. \A d \in Audits : audit'[d].local = audit[d].local
    BY <2>1, DisturbedTyped DEF MirrorTyped
  <2>3. Grown BY <2>1, SameGrown
  <2>4. QED BY <1>1, <2>2, <2>3, KeptBy
<1>5. ASSUME NEW a \in Audits, Own(a) PROVE IdsKept' BY <1>1, <1>5, OwnIds
<1>6. QED BY <1>2, <1>3, <1>4, <1>5 DEF BANext, Own

-----------------------------------------------------------------------------
(* What an audit nothing has disturbed knows *)

Complete(list) ==
  /\ {list[i].name : i \in DOMAIN list} = DOMAIN remote
  /\ \A i \in DOMAIN list : list[i].status = remote[list[i].name]
(* The pages it has read are full and hold the first branches.             *)
Reading(x) ==
  LET n == Cardinality(DOMAIN remote)
  IN /\ x.pages = Pages(n) /\ x.page \in 1 .. Pages(n)
     /\ Len(x.list) = (x.page - 1) * PerPage
     /\ \A i \in 1 .. Len(x.list) : x.list[i] = Entry(Nth(i, DOMAIN remote))
Stored == \A b \in DOMAIN remote : \E r \in rows : r.name = b /\ r.status = remote[b]
Tells(x) ==
  x.alone =>
    /\ x.pc \in {"pages", "load", "store", "prune", "sum"}
    /\ counts["all"] = Cardinality(DOMAIN remote)
    /\ x.pc = "pages" => Reading(x)
    /\ x.pc \in {"load", "store", "prune"} => Complete(x.list)
    /\ x.pc = "store" => x.local = rows
    /\ x.pc \in {"prune", "sum"} => Stored
    /\ x.pc = "prune" => \A r \in rows : \/ r.name \in DOMAIN remote
                                         \/ \E q \in x.local : q.id = r.id
                                            /\ q.name = r.name
    /\ x.pc = "sum" => \A r \in rows : r.name \in DOMAIN remote
Told == \A d \in Audits : Tells(audit[d])

(* A step of a that writes silences the others; one that only moves a on   *)
(* leaves what they know true.                                             *)
LEMMA ToldBy ==
  ASSUME MirrorTyped, Told, NEW a \in Audits, NEW r,
         Writes(a, r) \/ (Turns(a, r) /\ UNCHANGED <<remote, rows, counts>>),
         Tells(audit[a])'
  PROVE  Told'
<1>1. ASSUME NEW d \in Audits, d # a PROVE Tells(audit[d])'
  <2>1. CASE ~audit'[d].alone BY <2>1 DEF Tells
  <2>2. CASE audit'[d].alone
    <3>1. /\ audit'[d] = audit[d] /\ ~Writes(a, r) BY <1>1, <2>2, OthersStay DEF MirrorTyped
    <3>2. UNCHANGED <<remote, rows, counts>> BY <3>1
    <3>3. Tells(audit[d]) BY DEF Told
    <3>4. QED BY <3>1, <3>2, <3>3 DEF Tells, Complete, Reading, Stored, Entry
  <2>3. QED BY <2>1, <2>2
<1>2. QED BY <1>1 DEF Told

LEMMA SilentBy ==
  ASSUME MirrorTyped, Told, NEW a \in Audits, NEW r,
         Writes(a, r) \/ (Turns(a, r) /\ UNCHANGED <<remote, rows, counts>>),
         ~r.alone
  PROVE  Told'
<1>1. audit'[a] = r BY OthersStay DEF MirrorTyped
<1>2. Tells(audit[a])' BY <1>1 DEF Tells
<1>3. QED BY <1>2, ToldBy

LEMMA Silenced ==
  ASSUME MirrorTyped, audit' = Disturbed(audit)
  PROVE  Told'
BY DisturbedTyped DEF MirrorTyped, Told, Tells

LEMMA RequestTold ==
  ASSUME Sensible, MirrorTyped, Told, NEW a \in Audits, NEW names, NEW b,
         \/ TriggerManagedRepoBranchAudit(a) \/ CleanupManagedBranches(a, names)
         \/ DeleteRemoteBranch(a, b)
  PROVE  Told'
<1>1. CASE TriggerManagedRepoBranchAudit(a)
  <2>1. ~[NoAudit EXCEPT !.pc = "count"].alone BY DEF NoAudit
  <2>2. QED BY <1>1, <2>1, SilentBy DEF TriggerManagedRepoBranchAudit
<1>2. CASE CleanupManagedBranches(a, names)
  <2>1. ~[NoAudit EXCEPT !.pc = "delete", !.todo = names].alone BY DEF NoAudit
  <2>2. QED BY <1>2, <2>1, SilentBy DEF CleanupManagedBranches
<1>3. CASE DeleteRemoteBranch(a, b)
  <2>1. PICK pc : Writes(a, [audit[a] EXCEPT !.todo = @ \ {b}, !.pc = pc])
    BY <1>3 DEF DeleteRemoteBranch
  <2>2. audit[a] \in AuditRecs /\ audit[a].pc = "delete" /\ Tells(audit[a])
    BY <1>3 DEF MirrorTyped, AuditTyped, DeleteRemoteBranch, Told
  <2>3. ~audit[a].alone BY <2>2 DEF Tells
  <2>4. ~[audit[a] EXCEPT !.todo = @ \ {b}, !.pc = pc].alone BY <2>2, <2>3 DEF AuditRecs
  <2>5. QED BY <2>1, <2>4, SilentBy
<1>4. QED BY <1>1, <1>2, <1>3

LEMMA CountTold ==
  ASSUME Sensible, MirrorTyped, Told, NEW a \in Audits, CountBranches(a)
  PROVE  Told'
<1>a. audit[a] \in AuditRecs /\ audit[a].list = <<>>
  BY DEF MirrorTyped, AuditTyped, CountBranches
<1> DEFINE Asks(k, t) == [audit[a] EXCEPT !.pc = "pages", !.page = 1, !.pages = Pages(k),
                                          !.alone = t]
           n == Cardinality(DOMAIN remote)
<1>1. \A k, t : /\ Asks(k, t).alone = t /\ Asks(k, t).pc = "pages" /\ Asks(k, t).page = 1
                /\ Asks(k, t).pages = Pages(k) /\ Asks(k, t).list = <<>>
  BY <1>a DEF AuditRecs
<1>2. UNCHANGED <<remote, rows>> BY DEF CountBranches
<1>3. CASE \E k : Turns(a, Asks(k, FALSE)) /\ counts' = counts
  BY <1>1, <1>2, <1>3, SilentBy
<1>4. CASE ~\E k : Turns(a, Asks(k, FALSE)) /\ counts' = counts
  <2>1. PICK t : Writes(a, Asks(n, t)) /\ counts' = [counts EXCEPT !["all"] = n]
    BY <1>4 DEF CountBranches
  <2>2. PICK r : r = Asks(n, t) OBVIOUS
  <2>3. audit'[a] = r BY <2>1, <2>2, OthersStay DEF MirrorTyped
  <2>4. counts'["all"] = n BY <2>1 DEF MirrorTyped, CountsTyped
  <2>5. n \in Nat BY Branch DEF MirrorTyped
  <2>6. 1 \in 1 .. Pages(n) BY <2>5, PagesAre
  <2>7. Len(<<>>) = 0 /\ 0 = (1 - 1) * PerPage BY DEF Sensible
  <2>8. /\ r.pc = "pages" /\ r.page = 1 /\ r.pages = Pages(n) /\ r.list = <<>> BY <1>1, <2>2
  <2>9. Pages(n)' = Pages(n) /\ (DOMAIN remote)' = DOMAIN remote BY <1>2 DEF Pages
  <2>10. Reading(audit[a])' BY <1>2, <2>3, <2>6, <2>7, <2>8, <2>9 DEF Reading
  <2>11. Tells(audit[a])' BY <1>2, <2>3, <2>4, <2>8, <2>10 DEF Tells
  <2>12. QED BY <2>1, <2>2, <2>11, ToldBy
<1>5. QED BY <1>3, <1>4

LEMMA AllListed ==
  ASSUME Sensible, MirrorTyped, NEW list \in Seq(Entries),
         Len(list) = Cardinality(DOMAIN remote),
         \A i \in 1 .. Len(list) : list[i] = Entry(Nth(i, DOMAIN remote))
  PROVE  Complete(list)
<1>1. PICK n \in Nat : n = Cardinality(DOMAIN remote) BY Branch DEF MirrorTyped
<1>2. DOMAIN list = 1 .. n BY <1>1
<1>3. ASSUME NEW i \in DOMAIN list
      PROVE  list[i].name \in DOMAIN remote /\ list[i].status = remote[list[i].name]
  <2>1. Nth(i, DOMAIN remote) \in DOMAIN remote BY <1>1, <1>2, Branch, NthIs DEF MirrorTyped
  <2>2. list[i] = Entry(Nth(i, DOMAIN remote)) BY <1>1, <1>2
  <2>3. QED BY <2>1, <2>2 DEF Entry
<1>4. ASSUME NEW b \in DOMAIN remote PROVE \E i \in DOMAIN list : list[i].name = b
  <2>1. PICK i \in 1 .. n : Nth(i, DOMAIN remote) = b BY <1>1, Branch, NthIs DEF MirrorTyped
  <2>2. list[i] = Entry(b) BY <1>1, <1>2, <2>1
  <2>3. QED BY <1>2, <2>2 DEF Entry
<1>5. QED BY <1>3, <1>4 DEF Complete

LEMMA Joined ==
  ASSUME NEW s \in Seq(Entries), NEW t \in Seq(Entries)
  PROVE  /\ s \o t \in Seq(Entries) /\ Len(s \o t) = Len(s) + Len(t)
         /\ \A i \in 1 .. Len(s) : (s \o t)[i] = s[i]
         /\ \A j \in 1 .. Len(t) : (s \o t)[Len(s) + j] = t[j]
OBVIOUS

LEMMA ListTold ==
  ASSUME Sensible, MirrorTyped, Told, NEW a \in Audits, GetRemoteBranchesDetail(a)
  PROVE  Told'
<1>a. audit[a] \in AuditRecs /\ audit[a].pc = "pages" /\ Tells(audit[a])
      /\ audit[a].list \in Seq(Entries) /\ audit[a].page \in Nat /\ audit[a].page >= 1
  BY DEF MirrorTyped, AuditTyped, AuditRecs, Lists, GetRemoteBranchesDetail, Told
<1>u. UNCHANGED <<remote, rows, counts>> BY DEF GetRemoteBranchesDetail
<1>1. CASE Turns(a, NoAudit)
  <2>1. ~NoAudit.alone BY DEF NoAudit
  <2>2. QED BY <1>1, <1>u, <2>1, SilentBy
<1>2. CASE ~Turns(a, NoAudit)
  <2>1. PICK k : k = audit[a].page OBVIOUS
  <2>2. PICK p : p = PageOf(k) OBVIOUS
  <2>3. PICK pc : pc = IF k = audit[a].pages \/ Len(p) < PerPage THEN "load" ELSE "pages"
    OBVIOUS
  <2>4. PICK r : r = [audit[a] EXCEPT !.list = @ \o p, !.page = @ + 1, !.pc = pc] OBVIOUS
  <2>5. Turns(a, r) BY <1>2, <2>1, <2>2, <2>3, <2>4 DEF GetRemoteBranchesDetail
  <2>6. /\ r.pc = pc /\ r.page = k + 1 /\ r.list = audit[a].list \o p
        /\ r.pages = audit[a].pages /\ r.alone = audit[a].alone
    BY <1>a, <2>1, <2>4 DEF AuditRecs
  <2>7. CASE ~audit[a].alone BY <1>u, <2>5, <2>6, <2>7, SilentBy
  <2>8. CASE audit[a].alone
    <3>1. PICK n \in Nat : n = Cardinality(DOMAIN remote) BY Branch DEF MirrorTyped
    <3>2. PICK before \in Nat : before = (k - 1) * PerPage
      BY <1>a, <2>1, PageIs DEF MirrorTyped
    <3>3. /\ Reading(audit[a]) /\ counts["all"] = n BY <1>a, <2>8, <3>1 DEF Tells
    <3>4. /\ audit[a].pages = Pages(n) /\ k \in 1 .. Pages(n) /\ Len(audit[a].list) = before
          /\ \A i \in 1 .. before : audit[a].list[i] = Entry(Nth(i, DOMAIN remote))
      BY <2>1, <3>1, <3>2, <3>3 DEF Reading
    <3>5. /\ p \in Seq(Entries)
          /\ Len(p) = IF n < before THEN 0 ELSE IF before + PerPage < n THEN PerPage ELSE n
             - before
          /\ \A i \in 1 .. Len(p) : p[i] = Entry(Nth(before + i, DOMAIN remote))
      <4>1. RemoteTyped /\ k \in Nat /\ k >= 1 BY <1>a, <2>1 DEF MirrorTyped
      <4>2. QED BY <2>2, <3>1, <3>2, <4>1, PageIs
    <3>p. p \in Seq(Entries) /\ Len(p) \in Nat BY <3>5
    <3>q. audit[a].list \in Seq(Entries) /\ Len(audit[a].list) = before BY <1>a, <3>4
    <3>j. PICK s \in Seq(Entries) : s = audit[a].list /\ r.list = s \o p /\ Len(s) = before
      BY <2>6, <3>q
    <3>k. /\ s \o p \in Seq(Entries) /\ Len(s \o p) = before + Len(p)
          /\ \A i \in 1 .. before : (s \o p)[i] = s[i]
          /\ \A j \in 1 .. Len(p) : (s \o p)[before + j] = p[j]
      <4>1. /\ s \o p \in Seq(Entries) /\ Len(s \o p) = Len(s) + Len(p)
            /\ \A i \in 1 .. Len(s) : (s \o p)[i] = s[i]
            /\ \A j \in 1 .. Len(p) : (s \o p)[Len(s) + j] = p[j]
        BY <3>p, Joined
      <4>2. Len(s) = before BY <3>j
      <4>3. QED BY <4>1, <4>2
    <3>6. PerPage \in Nat /\ PerPage >= 1 BY DEF Sensible
    <3>7. /\ Pages(n) \in Nat /\ n <= Pages(n) * PerPage
          /\ \A q \in 1 .. Pages(n) : (q - 1) * PerPage <= n
      BY PagesAre
    <3>8. before <= n BY <3>2, <3>4, <3>7
    <3>9. /\ r.list \in Seq(Entries) /\ Len(r.list) = before + Len(p)
      BY <3>j, <3>k
    <3>10. ASSUME NEW i \in 1 .. Len(r.list) PROVE r.list[i] = Entry(Nth(i, DOMAIN remote))
      <4>1. CASE i <= before
        <5>1. r.list[i] = audit[a].list[i] BY <3>9, <3>p, <3>j, <3>k, <4>1
        <5>2. QED BY <3>4, <4>1, <5>1
      <4>2. CASE before < i
        <5>1. PICK j \in 1 .. Len(p) : i = before + j
          <6>1. Len(p) \in Nat BY <3>5
          <6>2. i - before \in 1 .. Len(p) /\ i = before + (i - before) BY <3>9, <4>2, <6>1
          <6>3. QED BY <6>2
        <5>2. r.list[i] = p[j] BY <3>j, <3>k, <5>1
        <5>3. QED BY <3>5, <5>1, <5>2
      <4>3. QED BY <4>1, <4>2, <3>9
    <3>11. audit'[a] = r BY <2>5, OthersStay DEF MirrorTyped
    <3>12. CASE k = Pages(n)
      <4>1. n <= before + PerPage
        <5>1. k * PerPage = before + PerPage BY <1>a, <2>1, <3>2, <3>6
        <5>2. QED BY <3>7, <3>12, <5>1
      <4>2. Len(r.list) = n BY <3>5, <3>6, <3>8, <3>9, <4>1
      <4>3. Complete(r.list) BY <3>1, <3>9, <3>10, <4>2, AllListed
      <4>4. r.pc = "load" BY <2>3, <2>6, <3>4, <3>12
      <4>5. Complete(audit[a].list)' BY <1>u, <3>11, <4>3 DEF Complete
      <4>6. Tells(audit[a])' BY <1>u, <3>1, <3>3, <3>11, <4>4, <4>5 DEF Tells
      <4>7. QED BY <1>u, <2>5, <4>6, ToldBy
    <3>13. CASE k # Pages(n)
      <4>1. k + 1 \in 1 .. Pages(n) BY <3>4, <3>7, <3>13
      <4>2. ((k + 1) - 1) * PerPage <= n BY <3>7, <4>1
      <4>3. ((k + 1) - 1) * PerPage = before + PerPage BY <1>a, <2>1, <3>2, <3>6
      <4>4. Len(r.list) = ((k + 1) - 1) * PerPage BY <3>5, <3>6, <3>8, <3>9, <4>2, <4>3
      <4>l. Len(p) = PerPage BY <3>5, <3>6, <3>8, <4>2, <4>3
      <4>5. r.pc = "pages" /\ r.pages = Pages(n) BY <2>3, <2>6, <3>4, <3>6, <3>13, <4>l
      <4>6. Reading(r) BY <2>6, <3>1, <3>10, <4>1, <4>4, <4>5 DEF Reading
      <4>7. Reading(audit[a])' BY <1>u, <3>11, <4>6 DEF Reading, Entry
      <4>8. Tells(audit[a])' BY <1>u, <3>1, <3>3, <3>11, <4>5, <4>7 DEF Tells
      <4>9. QED BY <1>u, <2>5, <4>8, ToldBy
    <3>14. QED BY <3>12, <3>13
  <2>9. QED BY <2>7, <2>8
<1>3. QED BY <1>1, <1>2

LEMMA LoadTold ==
  ASSUME Sensible, MirrorTyped, Told, NEW a \in Audits, LoadMonitors(a)
  PROVE  Told'
<1>a. audit[a] \in AuditRecs /\ audit[a].pc = "load" /\ Tells(audit[a])
  BY DEF MirrorTyped, AuditTyped, LoadMonitors, Told
<1>u. UNCHANGED <<remote, rows, counts>> BY DEF LoadMonitors
<1>1. CASE Turns(a, NoAudit)
  <2>1. ~NoAudit.alone BY DEF NoAudit
  <2>2. QED BY <1>1, <1>u, <2>1, SilentBy
<1>2. CASE ~Turns(a, NoAudit)
  <2>1. PICK r : r = [audit[a] EXCEPT !.local = rows, !.pc = "store"] OBVIOUS
  <2>2. Turns(a, r) BY <1>2, <2>1 DEF LoadMonitors
  <2>3. r.pc = "store" /\ r.local = rows /\ r.list = audit[a].list
      /\ r.alone = audit[a].alone
    BY <1>a, <2>1 DEF AuditRecs
  <2>4. audit'[a] = r BY <2>2, OthersStay DEF MirrorTyped
  <2>5. ASSUME audit'[a].alone
        PROVE  counts["all"] = Cardinality(DOMAIN remote) /\ Complete(audit[a].list)
    <3>1. audit[a].alone BY <2>3, <2>4, <2>5
    <3>2. QED BY <1>a, <3>1 DEF Tells
  <2>6. /\ audit'[a].pc = "store" /\ audit'[a].local = rows
           /\ audit'[a].list = audit[a].list
        /\ UNCHANGED <<remote, rows, counts>>
    BY <1>u, <2>3, <2>4
  <2>7. audit'[a].alone => Complete(audit[a].list)' BY <2>5, <2>6 DEF Complete
  <2>8. Tells(audit[a])' BY <2>5, <2>6, <2>7 DEF Tells
  <2>9. QED BY <1>u, <2>2, <2>8, ToldBy
<1>3. QED BY <1>1, <1>2

LEMMA SumTold ==
  ASSUME Sensible, MirrorTyped, Told, NEW a \in Audits, SumUp(a)
  PROVE  Told'
<1>1. ~NoAudit.alone BY DEF NoAudit
<1>2. Writes(a, NoAudit) \/ (Turns(a, NoAudit) /\ counts' = counts) BY DEF SumUp
<1>3. UNCHANGED <<remote, rows>> BY DEF SumUp
<1>4. QED BY <1>1, <1>2, <1>3, SilentBy

-----------------------------------------------------------------------------
(* The writes of an audit *)

(* Of the rows of one name one was made last.                              *)
LEMMA RowOfIs ==
  ASSUME MirrorTyped, IdsKept, NEW b \in NamesOf(rows)
  PROVE  RowOf(rows, b) \in rows /\ RowOf(rows, b).name = b
<1> DEFINE ids == {r.id : r \in {x \in rows : x.name = b}}
<1>1. /\ issued \in Nat /\ \A r \in rows : r.id \in Nat /\ r.id <= issued
  BY DEF MirrorTyped, IdsKept, Ids, Row
<1>2. ids \in SUBSET Nat /\ \A i \in ids : i <= issued BY <1>1
<1>3. ids # {} BY DEF NamesOf
<1>4. PICK m \in ids : \A i \in ids : i <= m BY <1>1, <1>2, <1>3, GreatestIs
<1>5. PICK r \in rows : r.name = b /\ r.id = m BY <1>4
<1>6. \A x \in rows : x.name = b => x.id <= r.id BY <1>4, <1>5
<1>7. QED BY <1>5, <1>6 DEF RowOf

LEMMA StoreTold ==
  ASSUME Sensible, MirrorTyped, IdsKept, Told, NEW a \in Audits, NEW lost,
         StoreMonitors(a, lost)
  PROVE  Told'
<1>a. audit[a] \in AuditRecs /\ audit[a].pc = "store" /\ Tells(audit[a])
      /\ audit[a].list \in Seq(Entries)
  BY StoreIs DEF MirrorTyped, AuditTyped, AuditRecs, Lists, Told
<1>1. PICK r : r = audit'[a] OBVIOUS
<1>2. /\ Writes(a, r) /\ r = [audit[a] EXCEPT !.pc = "prune", !.alone = @ /\ lost = {}]
  BY <1>1, StoreIs, LoggedTyped
<1>3. /\ r.pc = "prune" /\ r.list = audit[a].list /\ r.local = audit[a].local
      /\ r.alone = (audit[a].alone /\ lost = {})
  BY <1>a, <1>2 DEF AuditRecs
<1>4. CASE ~r.alone BY <1>2, <1>4, SilentBy
<1>5. CASE r.alone
  <2> DEFINE list == audit[a].list
             new == NewIn(a, lost)
             old(x) == Refreshed(a, lost, x)
             made(i) == NewRow(a, lost, i)
  <2>1. /\ lost = {} /\ audit[a].alone BY <1>3, <1>5
  <2>2. /\ counts["all"] = Cardinality(DOMAIN remote) /\ Complete(list)
           /\ audit[a].local = rows
    BY <1>a, <2>1 DEF Tells
  <2>3. /\ rows' = {old(x) : x \in rows} \cup {made(i) : i \in new}
        /\ UNCHANGED <<remote, counts>>
    BY StoreIs
  <2>4. ListedNames(a) = DOMAIN remote BY <2>2 DEF ListedNames, Complete
  <2>5. ASSUME NEW b \in DOMAIN remote
        PROVE  \E x \in rows' : x.name = b /\ x.status = remote[b]
    <3>1. CASE b \in NamesOf(rows)
      <4>1. PICK x \in rows : x = RowOf(rows, b) /\ x.name = b BY <3>1, RowOfIs
      <4>2. PICK m : /\ m = Max({i \in DOMAIN list : list[i].name = b})
                     /\ m \in DOMAIN list /\ list[m].name = b
        BY <2>4, Latest
      <4>3. x.name \in ListedNames(a) \ lost
            /\ \E q \in audit[a].local : q.name = x.name
               /\ RowOf(audit[a].local, x.name).id = x.id
        BY <2>1, <2>2, <2>4, <4>1
      <4>4. old(x) = [x EXCEPT !.status = list[m].status] BY <4>1, <4>2, <4>3 DEF Refreshed
      <4>5. x \in Row BY DEF MirrorTyped
      <4>6. list[m].status = remote[b] BY <2>2, <4>2 DEF Complete
      <4>7. old(x).name = b /\ old(x).status = remote[b] BY <4>1, <4>4, <4>5, <4>6 DEF Row
      <4>8. QED BY <2>3, <4>7
    <3>2. CASE b \notin NamesOf(rows)
      <4>1. PICK i \in DOMAIN list : list[i].name = b BY <2>4 DEF ListedNames
      <4>2. i \in new BY <2>1, <2>2, <3>2, <4>1 DEF NewIn
      <4>3. made(i).name = b /\ made(i).status = remote[b]
        BY <2>2, <4>1 DEF NewRow, Complete
      <4>4. QED BY <2>3, <4>2, <4>3
    <3>3. QED BY <3>1, <3>2
  <2>6. ASSUME NEW x \in rows'
        PROVE  \/ x.name \in DOMAIN remote
               \/ \E q \in audit[a].local : q.id = x.id /\ q.name = x.name
    <3>1. CASE \E y \in rows : x = old(y)
      <4>1. PICK y \in rows : x = old(y) BY <3>1
      <4>2. y.id = x.id /\ y.name = x.name BY <4>1, StoredRows
      <4>3. QED BY <2>2, <4>2
    <3>2. CASE \E i \in new : x = made(i)
      <4>1. PICK i \in new : x = made(i) BY <3>2
      <4>2. x.name \in ListedNames(a) BY <4>1 DEF NewRow, NewIn, ListedNames
      <4>3. QED BY <2>4, <4>2
    <3>3. QED BY <2>3, <3>1, <3>2
  <2>7. Stored' BY <2>3, <2>5 DEF Stored
  <2>8. Complete(audit[a].list)' BY <1>1, <1>3, <2>2, <2>3 DEF Complete
  <2>9. Tells(audit[a])' BY <1>1, <1>3, <2>2, <2>3, <2>6, <2>7, <2>8 DEF Tells
  <2>10. QED BY <1>2, <2>9, ToldBy
<1>6. QED BY <1>4, <1>5

LEMMA PruneTold ==
  ASSUME Sensible, MirrorTyped, IdsKept, Told, NEW a \in Audits, NEW lost,
         PruneMonitors(a, lost)
  PROVE  Told'
<1>a. audit[a] \in AuditRecs /\ audit[a].pc = "prune" /\ Tells(audit[a])
  BY DEF MirrorTyped, AuditTyped, AuditRecs, Told, PruneMonitors
<1>1. PICK r : r = audit'[a] OBVIOUS
<1>2. Writes(a, r) /\ r = [audit[a] EXCEPT !.pc = "sum", !.alone = @ /\ lost = {}]
  BY <1>1, LoggedTyped DEF PruneMonitors
<1>3. r.pc = "sum" /\ r.alone = (audit[a].alone /\ lost = {}) BY <1>a, <1>2 DEF AuditRecs
<1>4. CASE ~r.alone BY <1>2, <1>4, SilentBy
<1>5. CASE r.alone
  <2> DEFINE gone ==
      {x.id : x \in {y \in audit[a].local : y.name \notin ListedNames(a) \cup lost}}
  <2>1. /\ lost = {} /\ audit[a].alone BY <1>3, <1>5
  <2>2. /\ counts["all"] = Cardinality(DOMAIN remote) /\ Complete(audit[a].list) /\ Stored
        /\ \A x \in rows : \/ x.name \in DOMAIN remote
                           \/ \E q \in audit[a].local : q.id = x.id /\ q.name = x.name
    BY <1>a, <2>1 DEF Tells
  <2>3. rows' = {x \in rows : x.id \notin gone} /\ UNCHANGED <<remote, counts>>
    BY DEF PruneMonitors
  <2>4. ListedNames(a) = DOMAIN remote BY <2>2 DEF ListedNames, Complete
  <2>5. ASSUME NEW b \in DOMAIN remote
        PROVE  \E x \in rows' : x.name = b /\ x.status = remote[b]
    <3>1. PICK x \in rows : x.name = b /\ x.status = remote[b] BY <2>2 DEF Stored
    <3>2. ASSUME x.id \in gone PROVE FALSE
      <4>1. PICK q \in audit[a].local : q.id = x.id /\ q.name \notin ListedNames(a) BY <3>2
      <4>2. q.name = b BY <3>1, <4>1 DEF IdsKept, LocalIds
      <4>3. QED BY <2>4, <4>1, <4>2
    <3>3. QED BY <2>3, <3>1, <3>2
  <2>6. ASSUME NEW x \in rows' PROVE x.name \in DOMAIN remote
    <3>1. x \in rows /\ x.id \notin gone BY <2>3
    <3>2. CASE \E q \in audit[a].local : q.id = x.id /\ q.name = x.name
      <4>1. PICK q \in audit[a].local : q.id = x.id /\ q.name = x.name BY <3>2
      <4>2. q.name \in ListedNames(a) BY <2>1, <3>1, <4>1
      <4>3. QED BY <2>4, <4>1, <4>2
    <3>3. QED BY <2>2, <3>1, <3>2
  <2>7. Stored' BY <2>3, <2>5 DEF Stored
  <2>8. Tells(audit[a])' BY <1>1, <1>3, <2>2, <2>3, <2>6, <2>7 DEF Tells
  <2>9. QED BY <1>2, <2>8, ToldBy
<1>6. QED BY <1>4, <1>5

LEMMA ToldNext ==
  ASSUME Sensible, MirrorTyped, IdsKept, Told, [BANext]_auditVars
  PROVE  Told'
<1>1. CASE UNCHANGED auditVars \/ LookUp \/ InsertFails
  <2>1. UNCHANGED <<remote, rows, counts, audit>> BY <1>1 DEF auditVars, LookUp, InsertFails
  <2>2. ASSUME NEW d \in Audits PROVE Tells(audit[d])'
    <3>1. Tells(audit[d]) /\ audit'[d] = audit[d] BY <2>1 DEF Told
    <3>2. UNCHANGED <<remote, rows, counts>> BY <2>1
    <3>3. CASE ~audit[d].alone BY <3>1, <3>3 DEF Tells
    <3>4. CASE audit[d].alone
      BY <3>1, <3>2, <3>4 DEF Tells, Complete, Reading, Stored, Entry
    <3>5. QED BY <3>3, <3>4
  <2>3. QED BY <2>2 DEF Told
<1>2. CASE Insert BY <1>2, Silenced DEF Insert
<1>3. ASSUME NEW b \in Branches,
             CreateRemoteBranch(b)
                 \/ \E s \in BranchStatuses \cup {"gone"} : PlatformChange(b, s)
      PROVE  Told'
  BY <1>3, Silenced DEF CreateRemoteBranch, PlatformChange
<1>4. ASSUME NEW a \in Audits, Own(a) PROVE Told'
  BY <1>4, RequestTold, CountTold, ListTold, LoadTold, StoreTold, PruneTold, SumTold DEF Own
<1>5. QED BY <1>1, <1>2, <1>3, <1>4 DEF BANext, Own

-----------------------------------------------------------------------------
(* The theorems *)

MirrorInv == MirrorTyped /\ IdsKept /\ Told

LEMMA MirrorInvHolds == ASSUME Sensible PROVE BASpec => []MirrorInv
<1>1. ASSUME BAInit PROVE MirrorInv
  <2>1. MirrorTyped BY <1>1, InitTyped
  <2>2. \A d \in Audits : audit[d] = NoAudit BY <1>1 DEF BAInit
  <2>3. IdsKept BY <1>1, <2>2 DEF BAInit, NoAudit, IdsKept, Ids, LocalIds
  <2>4. Told BY <2>2 DEF Told, Tells, NoAudit
  <2>5. QED BY <2>1, <2>3, <2>4 DEF MirrorInv
<1>2. ASSUME MirrorInv, [BANext]_auditVars PROVE MirrorInv'
  BY <1>2, MirrorTypedNext, IdsNext, ToldNext DEF MirrorInv
<1>3. QED BY <1>1, <1>2, PTL DEF BASpec

(* Every variable keeps its type, and no two rows ever have one id.        *)
THEOREM AuditTypeCorrect == ASSUME Sensible PROVE BASpec => []BATypeOK
<1>1. ASSUME MirrorInv PROVE BATypeOK
  <2>1. MirrorTyped /\ Ids BY <1>1 DEF MirrorInv, IdsKept
  <2>2. Cardinality(Branches) \in Nat BY <2>1, Branch DEF MirrorTyped
  <2>3. \A a \in Audits : /\ audit[a].local \in SUBSET Row
                          /\ audit[a].pages <= Cardinality(Branches) + 1
    BY <2>1, <2>2 DEF MirrorTyped, AuditTyped, AuditRecs, PageCounts
  <2>4. QED BY <2>1, <2>3 DEF BATypeOK, MirrorTyped, RemoteTyped, Ids
<1>2. QED BY <1>1, MirrorInvHolds, PTL

(* What a request does moves only itself on.                               *)
LEMMA OthersWait ==
  ASSUME Sensible, MirrorTyped, NEW a \in Audits, audit[a].pc = "sum",
         audit'[a].pc = "idle", events' = events, [BANext]_auditVars
  PROVE  /\ counts' = [s \in BranchStatuses \cup {"all"} |->
                        IF s = "all" THEN counts["all"]
                        ELSE Cardinality({r \in rows : r.status = s})]
         /\ UNCHANGED <<remote, rows>>
<1>1. CASE audit' = audit BY <1>1
<1>2. CASE audit' = Disturbed(audit)
  <2>1. audit'[a] = [audit[a] EXCEPT !.alone = FALSE] BY <1>2 DEF Disturbed
  <2>2. audit'[a].pc = audit[a].pc BY <2>1 DEF MirrorTyped, AuditTyped, AuditRecs
  <2>3. QED BY <2>2
<1>3. ASSUME NEW d \in Audits, d # a, Own(d) PROVE FALSE
  <2>1. PICK names, b, lost :
          \/ TriggerManagedRepoBranchAudit(d) \/ CleanupManagedBranches(d, names)
          \/ DeleteRemoteBranch(d, b) \/ CountBranches(d) \/ GetRemoteBranchesDetail(d)
          \/ LoadMonitors(d) \/ StoreMonitors(d, lost) \/ PruneMonitors(d, lost) \/ SumUp(d)
    BY <1>3 DEF Own
  <2>2. \E r : Turns(d, r) \/ Writes(d, r) BY <2>1, LocalAfter
  <2>3. audit'[a].pc = audit[a].pc BY <1>3, <2>2, OthersStay DEF MirrorTyped
  <2>4. QED BY <2>3
<1>4. CASE Own(a)
  <2>1. SumUp(a)
    BY <1>4, StoreIs DEF Own, TriggerManagedRepoBranchAudit, CleanupManagedBranches,
       DeleteRemoteBranch, CountBranches, GetRemoteBranchesDetail, LoadMonitors,
           PruneMonitors
  <2>2. ~Event BY DEF Event, MirrorTyped
  <2>3. QED BY <2>1, <2>2 DEF SumUp
<1>5. QED BY <1>1, <1>2, <1>3, <1>4
      DEF BANext, Own, auditVars, LookUp, Insert, InsertFails, CreateRemoteBranch,
          PlatformChange

(* An audit that nothing has disturbed leaves a mirror of the platform.    *)
THEOREM AuditMirrorsEver == ASSUME Sensible PROVE BASpec => AuditMirrors
<1> DEFINE Ends(a) == audit[a].pc = "sum" /\ audit[a].alone /\ audit'[a].pc = "idle"
                      /\ events' = events
<1>1. ASSUME MirrorInv, [BANext]_auditVars, NEW a \in Audits, Ends(a) PROVE Mirror'
  <2>1. /\ counts["all"] = Cardinality(DOMAIN remote) /\ Stored
        /\ \A r \in rows : r.name \in DOMAIN remote
    BY <1>1 DEF MirrorInv, Told, Tells
  <2>2. /\ counts' = [s \in BranchStatuses \cup {"all"} |->
                       IF s = "all" THEN counts["all"]
                       ELSE Cardinality({r \in rows : r.status = s})]
        /\ UNCHANGED <<remote, rows>>
    BY <1>1, OthersWait DEF MirrorInv
  <2>3. counts'["all"] = counts["all"]
        /\ \A s \in BranchStatuses : counts'[s] = Cardinality({r \in rows : r.status = s})
    BY <2>2 DEF BranchStatuses
  <2>4. NamesOf(rows) = DOMAIN remote BY <2>1 DEF NamesOf, Stored
  <2>5. QED BY <2>1, <2>2, <2>3, <2>4 DEF Mirror, NamesOf, Stored
<1>2. ASSUME MirrorInv, [BANext]_auditVars
      PROVE [\A a \in Audits : Ends(a) => Mirror']_auditVars
  BY <1>1, <1>2
<1>3. QED BY <1>2, MirrorInvHolds, PTL DEF BASpec, AuditMirrors
=============================================================================
