------------------------ MODULE SchemeLifecycle_proofs ------------------------
(***************************************************************************)
(* What holds of SchemeLifecycle for any number of requests, rows, remote  *)
(* identifiers and faults.                                                 *)
(***************************************************************************)
EXTENDS SchemeLifecycle, TLAPS

(* The part of TypeOK that is about the requests.                          *)
ReqOK == /\ req \in [Reqs -> Request]
         /\ \A q \in Reqs : req[q].op = "none" <=> req[q].pc = "idle"

-----------------------------------------------------------------------------
(* Type correctness: the operators the actions are built from *)

LEMMA BlankType == Blank \in SchemeRow /\ Idle \in Request
<1>1. Blank \in SchemeRow
  BY ConstantsAssumption DEF Blank, SchemeRow, NoIds
<1>2. QED
  BY <1>1 DEF Idle, Request, Steps

LEMMA ReplyType ==
  ASSUME ReqOK, NEW q \in Reqs, Reply(q)
  PROVE  ReqOK'
BY BlankType DEF ReqOK, Reply, Idle

LEMMA GotoType ==
  ASSUME ReqOK, NEW q \in Reqs, req[q].op # "none",
         NEW step \in Steps \ {"idle"}, Goto(q, step)
  PROVE  ReqOK'
<1>1. req[q] \in Request BY DEF ReqOK
<1>2. [req[q] EXCEPT !.pc = step] \in Request BY <1>1 DEF Request
<1>3. req' = [req EXCEPT ![q] = [req[q] EXCEPT !.pc = step]] BY DEF Goto, ReqOK
<1>4. QED BY <1>1, <1>2, <1>3 DEF ReqOK, Request

LEMMA LearnType ==
  ASSUME ReqOK, NEW q \in Reqs, req[q].op # "none",
         NEW k \in Kinds, NEW i \in Ids \cup {Nil},
         NEW step \in Steps \ {"idle"}, Learn(q, k, i, step)
  PROVE  ReqOK'
<1> DEFINE e == [req[q].s.ext EXCEPT ![k] = i]
           s == [req[q].s EXCEPT !.ext = e]
           n == [req[q] EXCEPT !.pc = step, !.s = s]
<1>1. req[q] \in Request /\ req[q].s \in SchemeRow BY DEF ReqOK, Request
<1>2. e \in [Kinds -> Ids \cup {Nil}] BY <1>1 DEF SchemeRow
<1>3. s \in SchemeRow BY <1>1, <1>2 DEF SchemeRow
<1>4. n \in Request BY <1>1, <1>3 DEF Request
<1>5. req' = [req EXCEPT ![q] = n] BY DEF Learn, WithId
<1>6. n.pc = step /\ n.op = req[q].op BY <1>1 DEF Request
<1>7. QED BY <1>4, <1>5, <1>6 DEF ReqOK

LEMMA CreatedType ==
  ASSUME TypeOK, NEW k \in Kinds, NEW s \in SchemeRow, Created(k, s)
  PROVE  /\ issued' \in Ids /\ issued' \in 0 .. MaxIds
         /\ remote' \subseteq Object
BY ConstantsAssumption DEF TypeOK, Created, Ids, SchemeRow, Object

LEMMA ClearedType ==
  ASSUME TypeOK, NEW r \in Rows \cup {Nil}, NEW k \in Kinds
  PROVE  Cleared(r, k) \in [Rows -> SchemeRow]
<1>1. CASE r \in present
  <2> DEFINE e == [row[r].ext EXCEPT ![k] = Nil]
             s == [row[r] EXCEPT !.want = row[r].want \ {k}, !.ext = e]
  <2>1. r \in Rows BY <1>1, ConstantsAssumption DEF TypeOK, Rows, Nil
  <2>2. row[r] \in SchemeRow BY <2>1 DEF TypeOK
  <2>3. e \in [Kinds -> Ids \cup {Nil}] BY <2>2 DEF SchemeRow
  <2>4. s \in SchemeRow BY <2>2, <2>3 DEF SchemeRow
  <2>5. Cleared(r, k) = [row EXCEPT ![r] = s] BY <1>1, <2>3, <2>2 DEF Cleared, WithId, SchemeRow
  <2>6. QED BY <2>4, <2>5 DEF TypeOK
<1>2. CASE r \notin present
  BY <1>2 DEF Cleared, TypeOK
<1>3. QED BY <1>1, <1>2

LEMMA PostType ==
  ASSUME TypeOK, NEW k \in Kinds, NEW s \in SchemeRow,
         PostSucceeds(k, s) \/ PostFails(k, s)
  PROVE  issued' \in 0 .. MaxIds /\ remote' \subseteq Object /\ faults' \in Nat
<1>1. CASE Created(k, s)
  <2>1. issued' \in 0 .. MaxIds /\ remote' \subseteq Object BY <1>1, CreatedType
  <2>2. faults' \in Nat BY DEF PostSucceeds, PostFails, Fault, TypeOK
  <2>3. QED BY <2>1, <2>2
<1>2. CASE ~Created(k, s)
  BY <1>2 DEF PostSucceeds, PostFails, Fault, TypeOK
<1>3. QED BY <1>1, <1>2

LEMMA DeleteType ==
  ASSUME TypeOK, NEW i, NEW ok \in BOOLEAN,
         DeleteSucceeds(i, ok) \/ DeleteFails(i, ok)
  PROVE  issued' \in 0 .. MaxIds /\ remote' \subseteq Object
BY DEF DeleteSucceeds, DeleteFails, Without, TypeOK

LEMMA FaultType == TypeOK => \A f : Fault(f) \/ UNCHANGED faults => faults' \in Nat
BY DEF Fault, TypeOK

LEMMA MatchesIds == TypeOK => \A k, s : Matches(k, s) \subseteq Ids
<1> SUFFICES ASSUME TypeOK, NEW k, NEW s, NEW i \in Matches(k, s) PROVE i \in Ids
  OBVIOUS
<1>1. PICK o \in remote : i = o.id
  BY Zenon DEF Matches
<1>2. o \in Object
  BY <1>1 DEF TypeOK
<1>3. QED BY <1>1, <1>2 DEF Object

(* A request that is at a step other than "idle" is being served.          *)
LEMMA Serving ==
  ASSUME ReqOK, NEW q \in Reqs, req[q].pc # "idle"
  PROVE  /\ req[q].op # "none" /\ req[q] \in Request
         /\ req[q].s \in SchemeRow
         /\ req[q].id \in Rows \cup {Nil}
         /\ \A k \in Kinds : req[q].s.ext[k] \in Ids \cup {Nil}
BY DEF ReqOK, Request, SchemeRow

LEMMA FinishType ==
  ASSUME ReqOK, NEW q \in Reqs, req[q].op # "none", Finish(q)
  PROVE  ReqOK'
<1>1. CASE req[q].op = "create" BY <1>1, ReplyType DEF Finish
<1>2. CASE req[q].op # "create"
  <2>1. AfterDelete(req[q].op) \in Steps \ {"idle"}
    BY <1>2 DEF AfterDelete, Steps, ReqOK, Request
  <2>2. Goto(q, AfterDelete(req[q].op)) BY <1>2 DEF Finish
  <2>3. QED BY <2>1, <2>2, GotoType
<1>3. QED BY <1>1, <1>2

-----------------------------------------------------------------------------
(* Type correctness: the actions *)

(* TypeOK without its part about the requests.                             *)
StoreOK == /\ inserted \in 0 .. MaxRows /\ present \subseteq 1 .. inserted
           /\ row \in [Rows -> SchemeRow]
           /\ pipes \subseteq Pipes
           /\ repoTask \in [Repos -> Ids \cup {Nil}]
           /\ issued \in 0 .. MaxIds /\ remote \subseteq Object
           /\ faults \in Nat

LEMMA TypeSplit == TypeOK <=> StoreOK /\ ReqOK
BY DEF TypeOK, StoreOK, ReqOK

LEMMA TypeInit == Init => TypeOK
<1> SUFFICES ASSUME Init PROVE TypeOK
  OBVIOUS
<1>1. StoreOK
  BY BlankType, ConstantsAssumption DEF Init, StoreOK, Rows
<1>2. ReqOK
  BY BlankType DEF Init, ReqOK, Idle
<1>3. QED BY <1>1, <1>2, TypeSplit

LEMMA PostTaskType ==
  ASSUME TypeOK, NEW q \in Reqs, PostTask(q)
  PROVE  TypeOK'
<1>0. StoreOK /\ ReqOK BY TypeSplit
<1>1. /\ req[q].op # "none" /\ req[q] \in Request /\ req[q].s \in SchemeRow
      /\ req[q].id \in Rows \cup {Nil}
      /\ \A k \in Kinds : req[q].s.ext[k] \in Ids \cup {Nil}
  BY <1>0, Serving DEF PostTask
<1>2. StoreOK'
  <2>1. PostSucceeds("task", req[q].s) \/ PostFails("task", req[q].s) BY DEF PostTask
  <2>2. issued' \in 0 .. MaxIds /\ remote' \subseteq Object /\ faults' \in Nat
    BY <1>1, <2>1, PostType DEF Kinds
  <2>3. QED BY <1>0, <2>2 DEF PostTask, local, StoreOK
<1>3. ReqOK'
  <2>1. CASE Goto(q, "findTask") BY <1>0, <1>1, <2>1, GotoType DEF Steps
  <2>2. CASE Reply(q) BY <1>0, <1>1, <2>2, ReplyType
  <2>3. QED BY <2>1, <2>2 DEF PostTask
<1>4. QED BY <1>2, <1>3 DEF TypeOK, StoreOK, ReqOK

LEMMA PostSchemeType ==
  ASSUME TypeOK, NEW q \in Reqs, PostScheme(q)
  PROVE  TypeOK'
<1>0. StoreOK /\ ReqOK BY TypeSplit
<1>1. /\ req[q].op # "none" /\ req[q] \in Request /\ req[q].s \in SchemeRow
      /\ req[q].id \in Rows \cup {Nil}
      /\ \A k \in Kinds : req[q].s.ext[k] \in Ids \cup {Nil}
  BY <1>0, Serving DEF PostScheme
<1>2. StoreOK'
  <2>1. PostSucceeds("scheme", req[q].s) \/ PostFails("scheme", req[q].s) BY DEF PostScheme
  <2>2. issued' \in 0 .. MaxIds /\ remote' \subseteq Object /\ faults' \in Nat
    BY <1>1, <2>1, PostType DEF Kinds
  <2>3. QED BY <1>0, <2>2 DEF PostScheme, local, StoreOK
<1>3. ReqOK'
  <2>1. CASE Goto(q, "findScheme") BY <1>0, <1>1, <2>1, GotoType DEF Steps
  <2>2. CASE Goto(q, "delPlan") BY <1>0, <1>1, <2>2, GotoType DEF Steps
  <2>3. QED BY <2>1, <2>2 DEF PostScheme
<1>4. QED BY <1>2, <1>3 DEF TypeOK, StoreOK, ReqOK

LEMMA PostPlanType ==
  ASSUME TypeOK, NEW q \in Reqs, PostPlan(q)
  PROVE  TypeOK'
<1>0. StoreOK /\ ReqOK BY TypeSplit
<1>1. /\ req[q].op # "none" /\ req[q] \in Request /\ req[q].s \in SchemeRow
      /\ req[q].id \in Rows \cup {Nil}
      /\ \A k \in Kinds : req[q].s.ext[k] \in Ids \cup {Nil}
  BY <1>0, Serving DEF PostPlan
<1>2. StoreOK'
  <2>1. \/ PostSucceeds("plan", req[q].s) \/ PostFails("plan", req[q].s)
        \/ UNCHANGED <<remote, issued, faults>>
    BY DEF PostPlan
  <2>2. issued' \in 0 .. MaxIds /\ remote' \subseteq Object /\ faults' \in Nat
    BY <1>0, <1>1, <2>1, PostType DEF Kinds, StoreOK
  <2>3. QED BY <1>0, <2>2 DEF PostPlan, local, StoreOK
<1>3. ReqOK'
  <2>1. CASE Goto(q, "findPlan") BY <1>0, <1>1, <2>1, GotoType DEF Steps
  <2>2. CASE Goto(q, "delPlan") BY <1>0, <1>1, <2>2, GotoType DEF Steps
  <2>3. QED BY <2>1, <2>2 DEF PostPlan
<1>4. QED BY <1>2, <1>3 DEF TypeOK, StoreOK, ReqOK

LEMMA PostBindingType ==
  ASSUME TypeOK, NEW q \in Reqs, PostBinding(q)
  PROVE  TypeOK'
<1>0. StoreOK /\ ReqOK BY TypeSplit
<1>1. /\ req[q].op # "none" /\ req[q] \in Request /\ req[q].s \in SchemeRow
      /\ req[q].id \in Rows \cup {Nil}
      /\ \A k \in Kinds : req[q].s.ext[k] \in Ids \cup {Nil}
  BY <1>0, Serving DEF PostBinding
<1>2. StoreOK'
  <2>1. PostSucceeds("binding", req[q].s) \/ PostFails("binding", req[q].s) BY DEF PostBinding
  <2>2. issued' \in 0 .. MaxIds /\ remote' \subseteq Object /\ faults' \in Nat
    BY <1>1, <2>1, PostType DEF Kinds
  <2>3. QED BY <1>0, <2>2 DEF PostBinding, local, StoreOK
<1>3. ReqOK'
  <2> DEFINE step == IF "plan" \in req[q].s.want THEN "postPlan" ELSE "insert"
  <2>1. CASE PostSucceeds("binding", req[q].s) /\ Learn(q, "binding", issued', step)
    <3>1. issued' \in Ids BY <1>1, <2>1, CreatedType DEF PostSucceeds, Kinds
    <3>2. step \in Steps \ {"idle"} BY DEF Steps
    <3>3. QED BY <1>0, <1>1, <2>1, <3>1, <3>2, LearnType DEF Kinds
  <2>2. CASE Goto(q, "delPlan") BY <1>0, <1>1, <2>2, GotoType DEF Steps
  <2>3. QED BY <2>1, <2>2 DEF PostBinding
<1>4. QED BY <1>2, <1>3 DEF TypeOK, StoreOK, ReqOK

LEMMA FindTaskType ==
  ASSUME TypeOK, NEW q \in Reqs, FindTask(q)
  PROVE  TypeOK'
<1>0. StoreOK /\ ReqOK BY TypeSplit
<1>1. /\ req[q].op # "none" /\ req[q] \in Request /\ req[q].s \in SchemeRow
      /\ req[q].id \in Rows \cup {Nil}
      /\ \A k \in Kinds : req[q].s.ext[k] \in Ids \cup {Nil}
  BY <1>0, Serving DEF FindTask
<1>2. StoreOK'
  <2>1. faults' \in Nat BY FaultType DEF FindTask, Cached, LookupFails
  <2>2. repoTask' \in [Repos -> Ids \cup {Nil}]
    BY <1>0, <1>1, MatchesIds DEF FindTask, Cached, StoreOK, SchemeRow
  <2>3. QED BY <1>0, <2>1, <2>2 DEF FindTask, StoreOK
<1>3. ReqOK'
  <2>1. CASE \E i \in Matches("task", req[q].s) : Learn(q, "task", i, "postScheme")
    <3>1. "postScheme" \in Steps \ {"idle"} BY DEF Steps, AfterScheme
    <3>2. QED BY <1>0, <1>1, <2>1, <3>1, MatchesIds, LearnType DEF Kinds
  <2>2. CASE Reply(q) BY <1>0, <1>1, <2>2, ReplyType
  <2>3. QED BY <2>1, <2>2 DEF FindTask
<1>4. QED BY <1>2, <1>3 DEF TypeOK, StoreOK, ReqOK

LEMMA FindSchemeType ==
  ASSUME TypeOK, NEW q \in Reqs, FindScheme(q)
  PROVE  TypeOK'
<1>0. StoreOK /\ ReqOK BY TypeSplit
<1>1. /\ req[q].op # "none" /\ req[q] \in Request /\ req[q].s \in SchemeRow
      /\ req[q].id \in Rows \cup {Nil}
      /\ \A k \in Kinds : req[q].s.ext[k] \in Ids \cup {Nil}
  BY <1>0, Serving DEF FindScheme
<1>2. StoreOK'
  <2>1. faults' \in Nat BY FaultType DEF FindScheme, Cached, LookupFails
  <2>2. QED BY <1>0, <2>1 DEF FindScheme, local, StoreOK
<1>3. ReqOK'
  <2>1. CASE \E i \in Matches("scheme", req[q].s) : Learn(q, "scheme", i, AfterScheme(req[q].s))
    <3>1. AfterScheme(req[q].s) \in Steps \ {"idle"} BY DEF Steps, AfterScheme
    <3>2. QED BY <1>0, <1>1, <2>1, <3>1, MatchesIds, LearnType DEF Kinds
  <2>2. CASE Goto(q, "delPlan") BY <1>0, <1>1, <2>2, GotoType DEF Steps
  <2>3. QED BY <2>1, <2>2 DEF FindScheme
<1>4. QED BY <1>2, <1>3 DEF TypeOK, StoreOK, ReqOK

LEMMA FindPlanType ==
  ASSUME TypeOK, NEW q \in Reqs, FindPlan(q)
  PROVE  TypeOK'
<1>0. StoreOK /\ ReqOK BY TypeSplit
<1>1. /\ req[q].op # "none" /\ req[q] \in Request /\ req[q].s \in SchemeRow
      /\ req[q].id \in Rows \cup {Nil}
      /\ \A k \in Kinds : req[q].s.ext[k] \in Ids \cup {Nil}
  BY <1>0, Serving DEF FindPlan
<1>2. StoreOK'
  <2>1. faults' \in Nat BY FaultType DEF FindPlan, Cached, LookupFails
  <2>2. QED BY <1>0, <2>1 DEF FindPlan, local, StoreOK
<1>3. ReqOK'
  <2>1. CASE \E i \in Matches("plan", req[q].s) : Learn(q, "plan", i, "insert")
    <3>1. "insert" \in Steps \ {"idle"} BY DEF Steps, AfterScheme
    <3>2. QED BY <1>0, <1>1, <2>1, <3>1, MatchesIds, LearnType DEF Kinds
  <2>2. CASE Goto(q, "delPlan") BY <1>0, <1>1, <2>2, GotoType DEF Steps
  <2>3. QED BY <2>1, <2>2 DEF FindPlan
<1>4. QED BY <1>2, <1>3 DEF TypeOK, StoreOK, ReqOK

LEMMA DeletePlanType ==
  ASSUME TypeOK, NEW q \in Reqs, DeletePlan(q)
  PROVE  TypeOK'
<1>0. StoreOK /\ ReqOK BY TypeSplit
<1>1. /\ req[q].op # "none" /\ req[q] \in Request /\ req[q].s \in SchemeRow
      /\ req[q].id \in Rows \cup {Nil}
      /\ \A k \in Kinds : req[q].s.ext[k] \in Ids \cup {Nil}
  BY <1>0, Serving DEF DeletePlan
<1>2. StoreOK'
  <2>1. CASE UNCHANGED <<row, remote, issued, faults>>
    BY <1>0, <2>1 DEF DeletePlan, StoreOK
  <2>2. CASE \/ DeleteSucceeds(req[q].s.ext["plan"], FALSE)
             \/ DeleteFails(req[q].s.ext["plan"], FALSE)
    <3>1. issued' \in 0 .. MaxIds /\ remote' \subseteq Object
      BY <2>2, DeleteType
    <3>0. faults' \in Nat BY FaultType DEF DeletePlan, Noted, DeleteFails
    <3>2. Cleared(req[q].id, "plan") \in [Rows -> SchemeRow]
      BY <1>1, ClearedType DEF Kinds
    <3>3. QED BY <1>0, <3>1, <3>2, <3>0 DEF DeletePlan, Noted, StoreOK
  <2>3. QED BY <2>1, <2>2 DEF DeletePlan
<1>3. ReqOK'
  <2>1. CASE Goto(q, "delBinding") BY <1>0, <1>1, <2>1, GotoType DEF Steps
  <2>2. CASE Reply(q) BY <1>0, <1>1, <2>2, ReplyType
  <2>3. QED BY <2>1, <2>2 DEF DeletePlan
<1>4. QED BY <1>2, <1>3 DEF TypeOK, StoreOK, ReqOK

LEMMA DeleteBindingType ==
  ASSUME TypeOK, NEW q \in Reqs, DeleteBinding(q)
  PROVE  TypeOK'
<1>0. StoreOK /\ ReqOK BY TypeSplit
<1>1. /\ req[q].op # "none" /\ req[q] \in Request /\ req[q].s \in SchemeRow
      /\ req[q].id \in Rows \cup {Nil}
      /\ \A k \in Kinds : req[q].s.ext[k] \in Ids \cup {Nil}
  BY <1>0, Serving DEF DeleteBinding
<1>2. StoreOK'
  <2>1. CASE UNCHANGED <<row, remote, issued, faults>>
    BY <1>0, <2>1 DEF DeleteBinding, StoreOK
  <2>2. CASE \/ DeleteSucceeds(req[q].s.ext["binding"], FALSE)
             \/ DeleteFails(req[q].s.ext["binding"], FALSE)
    <3>1. issued' \in 0 .. MaxIds /\ remote' \subseteq Object
      BY <2>2, DeleteType
    <3>0. faults' \in Nat BY FaultType DEF DeleteBinding, Noted, DeleteFails
    <3>2. Cleared(req[q].id, "binding") \in [Rows -> SchemeRow]
      BY <1>1, ClearedType DEF Kinds
    <3>3. QED BY <1>0, <3>1, <3>2, <3>0 DEF DeleteBinding, Noted, StoreOK
  <2>3. QED BY <2>1, <2>2 DEF DeleteBinding
<1>3. ReqOK'
  <2>1. CASE Goto(q, "delScheme") BY <1>0, <1>1, <2>1, GotoType DEF Steps
  <2>2. CASE Reply(q) BY <1>0, <1>1, <2>2, ReplyType
  <2>3. QED BY <2>1, <2>2 DEF DeleteBinding
<1>4. QED BY <1>2, <1>3 DEF TypeOK, StoreOK, ReqOK

LEMMA DeleteSchemeType ==
  ASSUME TypeOK, NEW q \in Reqs, DeleteScheme(q)
  PROVE  TypeOK'
<1>0. StoreOK /\ ReqOK BY TypeSplit
<1>1. /\ req[q].op # "none" /\ req[q] \in Request /\ req[q].s \in SchemeRow
      /\ req[q].id \in Rows \cup {Nil}
      /\ \A k \in Kinds : req[q].s.ext[k] \in Ids \cup {Nil}
  BY <1>0, Serving DEF DeleteScheme
<1>2. StoreOK'
  <2>1. CASE UNCHANGED <<row, remote, issued, faults>>
    BY <1>0, <2>1 DEF DeleteScheme, StoreOK
  <2>2. CASE \/ DeleteSucceeds(req[q].s.ext["scheme"], TRUE)
             \/ DeleteFails(req[q].s.ext["scheme"], TRUE)
    <3>1. issued' \in 0 .. MaxIds /\ remote' \subseteq Object
      BY <2>2, DeleteType
    <3>0. faults' \in Nat BY FaultType DEF DeleteScheme, Noted, DeleteFails
    <3>2. Cleared(req[q].id, "scheme") \in [Rows -> SchemeRow]
      BY <1>1, ClearedType DEF Kinds
    <3>3. QED BY <1>0, <3>1, <3>2, <3>0 DEF DeleteScheme, Noted, StoreOK
  <2>3. QED BY <2>1, <2>2 DEF DeleteScheme
<1>3. ReqOK'
  <2>1. CASE Goto(q, "countTask") BY <1>0, <1>1, <2>1, GotoType DEF Steps
  <2>2. CASE Reply(q) BY <1>0, <1>1, <2>2, ReplyType
  <2>3. QED BY <2>1, <2>2 DEF DeleteScheme
<1>4. QED BY <1>2, <1>3 DEF TypeOK, StoreOK, ReqOK

LEMMA DeleteSchemeAgainType ==
  ASSUME TypeOK, NEW q \in Reqs, DeleteSchemeAgain(q)
  PROVE  TypeOK'
<1>0. StoreOK /\ ReqOK BY TypeSplit
<1>1. /\ req[q].op # "none" /\ req[q] \in Request /\ req[q].s \in SchemeRow
      /\ req[q].id \in Rows \cup {Nil}
      /\ \A k \in Kinds : req[q].s.ext[k] \in Ids \cup {Nil}
  BY <1>0, Serving DEF DeleteSchemeAgain
<1>2. StoreOK'
  <2>1. CASE UNCHANGED <<row, remote, issued, faults>>
    BY <1>0, <2>1 DEF DeleteSchemeAgain, StoreOK
  <2>2. CASE \/ DeleteSucceeds(req[q].s.ext["scheme"], FALSE)
             \/ DeleteFails(req[q].s.ext["scheme"], FALSE)
    <3>1. issued' \in 0 .. MaxIds /\ remote' \subseteq Object
      BY <2>2, DeleteType
    <3>0. faults' \in Nat BY FaultType DEF DeleteSchemeAgain, Noted, DeleteFails
    <3>2. Cleared(req[q].id, "scheme") \in [Rows -> SchemeRow]
      BY <1>1, ClearedType DEF Kinds
    <3>3. QED BY <1>0, <3>1, <3>2, <3>0 DEF DeleteSchemeAgain, Noted, StoreOK
  <2>3. QED BY <2>1, <2>2 DEF DeleteSchemeAgain
<1>3. ReqOK'
  <2>1. CASE Finish(q) BY <1>0, <1>1, <2>1, FinishType
  <2>2. CASE Reply(q) BY <1>0, <1>1, <2>2, ReplyType
  <2>3. QED BY <2>1, <2>2 DEF DeleteSchemeAgain
<1>4. QED BY <1>2, <1>3 DEF TypeOK, StoreOK, ReqOK

LEMMA ReusableType ==
  ASSUME StoreOK, NEW repo \in Repos
  PROVE  ReusableTasks(repo) \subseteq Ids \cup {Nil}
<1>1. \A r \in present : row[r].ext["task"] \in Ids \cup {Nil}
  <2> SUFFICES ASSUME NEW r \in present PROVE row[r].ext["task"] \in Ids \cup {Nil}
    OBVIOUS
  <2>1. r \in Rows BY ConstantsAssumption DEF StoreOK, Rows
  <2>2. QED BY <2>1 DEF StoreOK, SchemeRow, Kinds
<1>2. repoTask[repo] \in Ids \cup {Nil} BY DEF StoreOK
<1>3. QED BY <1>1, <1>2 DEF ReusableTasks

LEMMA ResolveTaskType ==
  ASSUME TypeOK, NEW q \in Reqs, ResolveTask(q)
  PROVE  TypeOK'
<1>0. StoreOK /\ ReqOK BY TypeSplit
<1>1. /\ req[q].op # "none" /\ req[q] \in Request /\ req[q].s \in SchemeRow
      /\ req[q].id \in Rows \cup {Nil}
      /\ \A k \in Kinds : req[q].s.ext[k] \in Ids \cup {Nil}
  BY <1>0, Serving DEF ResolveTask
<1>2. StoreOK'
  <2>1. repoTask' \in [Repos -> Ids \cup {Nil}]
    <3>1. ReusableTasks(req[q].s.repo) \subseteq Ids \cup {Nil}
      BY <1>0, <1>1, ReusableType DEF SchemeRow
    <3>2. QED BY <1>0, <1>1, <3>1 DEF ResolveTask, Cached, StoreOK, SchemeRow
  <2>2. faults' \in Nat BY FaultType DEF ResolveTask, Cached
  <2>3. QED BY <1>0, <2>1, <2>2 DEF ResolveTask, StoreOK
<1>3. ReqOK'
  <2>1. CASE \E i \in ReusableTasks(req[q].s.repo) : Learn(q, "task", i, "postScheme")
    <3>1. ReusableTasks(req[q].s.repo) \subseteq Ids \cup {Nil}
      BY <1>0, <1>1, ReusableType DEF SchemeRow
    <3>2. QED BY <1>0, <1>1, <2>1, <3>1, LearnType DEF Kinds, Steps
  <2>2. CASE Goto(q, "postTask") \/ Goto(q, "postScheme")
    BY <1>0, <1>1, <2>2, GotoType DEF Steps
  <2>3. QED BY <2>1, <2>2 DEF ResolveTask
<1>4. QED BY <1>2, <1>3 DEF TypeOK, StoreOK, ReqOK

LEMMA InsertType ==
  ASSUME TypeOK, NEW q \in Reqs, Insert(q)
  PROVE  TypeOK'
<1>0. StoreOK /\ ReqOK BY TypeSplit
<1>1. /\ req[q].op # "none" /\ req[q] \in Request /\ req[q].s \in SchemeRow
      /\ req[q].id \in Rows \cup {Nil}
      /\ \A k \in Kinds : req[q].s.ext[k] \in Ids \cup {Nil}
  BY <1>0, Serving DEF Insert
<1>2. StoreOK'
  <2>1. CASE /\ inserted < MaxRows
             /\ inserted' = inserted + 1
             /\ present' = present \cup {inserted'}
             /\ row' = [row EXCEPT ![inserted'] = req[q].s]
             /\ UNCHANGED faults
    <3>1. inserted' \in 0 .. MaxRows BY <1>0, <2>1, ConstantsAssumption DEF StoreOK
    <3>2. present' \subseteq 1 .. inserted' BY <1>0, <2>1, ConstantsAssumption DEF StoreOK
    <3>3. row' \in [Rows -> SchemeRow] BY <1>0, <1>1, <2>1 DEF StoreOK
    <3>4. QED BY <1>0, <2>1, <3>1, <3>2, <3>3 DEF Insert, StoreOK
  <2>2. CASE UNCHANGED <<present, inserted, row>>
    BY <1>0, <2>2 DEF Insert, Fault, StoreOK
  <2>3. QED BY <2>1, <2>2 DEF Insert
<1>3. ReqOK'
  <2>1. CASE Reply(q) BY <1>0, <1>1, <2>1, ReplyType
  <2>2. CASE Goto(q, "delPlan") BY <1>0, <1>1, <2>2, GotoType DEF Steps
  <2>3. QED BY <2>1, <2>2 DEF Insert
<1>4. QED BY <1>2, <1>3 DEF TypeOK, StoreOK, ReqOK

LEMMA CountTaskType ==
  ASSUME TypeOK, NEW q \in Reqs, CountTask(q)
  PROVE  TypeOK'
<1>0. StoreOK /\ ReqOK BY TypeSplit
<1>1. /\ req[q].op # "none" /\ req[q] \in Request /\ req[q].s \in SchemeRow
      /\ req[q].id \in Rows \cup {Nil}
      /\ \A k \in Kinds : req[q].s.ext[k] \in Ids \cup {Nil}
  BY <1>0, Serving DEF CountTask
<1>2. StoreOK'
  BY <1>0, FaultType DEF CountTask, local, StoreOK
<1>3. ReqOK'
  <2>1. TaskOf(req[q].s) \in Ids \cup {Nil}
    BY <1>0, <1>1 DEF TaskOf, StoreOK, SchemeRow, Kinds
  <2>2. CASE Reply(q) BY <1>0, <2>2, ReplyType
  <2>3. CASE ~Reply(q)
    BY <1>0, <1>1, <2>1, <2>3, LearnType DEF CountTask, Kinds, Steps
  <2>4. QED BY <2>2, <2>3
<1>4. QED BY <1>2, <1>3 DEF TypeOK, StoreOK, ReqOK

LEMMA DeleteTaskType ==
  ASSUME TypeOK, NEW q \in Reqs, DeleteTask(q)
  PROVE  TypeOK'
<1>0. StoreOK /\ ReqOK BY TypeSplit
<1>1. /\ req[q].op # "none" /\ req[q] \in Request /\ req[q].s \in SchemeRow
      /\ req[q].id \in Rows \cup {Nil}
      /\ \A k \in Kinds : req[q].s.ext[k] \in Ids \cup {Nil}
  BY <1>0, Serving DEF DeleteTask
<1>2. StoreOK'
  <2>1. issued' \in 0 .. MaxIds /\ remote' \subseteq Object /\ faults' \in Nat
    BY DeleteType, FaultType DEF DeleteTask, DeleteFails
  <2>2. repoTask' \in [Repos -> Ids \cup {Nil}]
    BY <1>0 DEF DeleteTask, StoreOK
  <2>3. QED BY <1>0, <2>1, <2>2 DEF DeleteTask, StoreOK
<1>3. ReqOK'
  <2>1. CASE Goto(q, "delAgain") BY <1>0, <1>1, <2>1, GotoType DEF Steps
  <2>2. CASE Reply(q) BY <1>0, <1>1, <2>2, ReplyType
  <2>3. QED BY <2>1, <2>2 DEF DeleteTask
<1>4. QED BY <1>2, <1>3 DEF TypeOK, StoreOK, ReqOK

LEMMA DropType ==
  ASSUME StoreOK, NEW gone, Drop(gone)
  PROVE  present' \subseteq present /\ row' \in [Rows -> SchemeRow]
BY BlankType DEF StoreOK, Drop

LEMMA DropRowType ==
  ASSUME TypeOK, NEW q \in Reqs, DropRow(q)
  PROVE  TypeOK'
<1>0. StoreOK /\ ReqOK BY TypeSplit
<1>1. /\ req[q].op # "none" /\ req[q] \in Request /\ req[q].s \in SchemeRow
      /\ req[q].id \in Rows \cup {Nil}
      /\ \A k \in Kinds : req[q].s.ext[k] \in Ids \cup {Nil}
  BY <1>0, Serving DEF DropRow
<1>2. StoreOK'
  <2>1. CASE Drop({req[q].id}) /\ UNCHANGED faults
    BY <1>0, <2>1, DropType DEF DropRow, StoreOK
  <2>2. CASE Fault("db") /\ UNCHANGED <<present, row>>
    BY <1>0, <2>2 DEF DropRow, Fault, StoreOK
  <2>3. QED BY <2>1, <2>2 DEF DropRow
<1>3. ReqOK'
  BY <1>0, ReplyType DEF DropRow
<1>4. QED BY <1>2, <1>3 DEF TypeOK, StoreOK, ReqOK

LEMMA DropPipelineType ==
  ASSUME TypeOK, NEW q \in Reqs, DropPipeline(q)
  PROVE  TypeOK'
<1>0. StoreOK /\ ReqOK BY TypeSplit
<1>1. /\ req[q].op # "none" /\ req[q] \in Request /\ req[q].s \in SchemeRow
      /\ req[q].id \in Rows \cup {Nil}
      /\ \A k \in Kinds : req[q].s.ext[k] \in Ids \cup {Nil}
  BY <1>0, Serving DEF DropPipeline
<1>2. StoreOK'
  <2>1. CASE UNCHANGED <<present, row, pipes>>
    BY <1>0, <2>1 DEF DropPipeline, Fault, StoreOK
  <2>2. CASE \E gone : Drop(gone) /\ pipes' = pipes \ {req[q].s.pipe} /\ UNCHANGED faults
    BY <1>0, <2>2, DropType DEF DropPipeline, StoreOK
  <2>3. QED BY <2>1, <2>2 DEF DropPipeline
<1>3. ReqOK'
  BY <1>0, ReplyType DEF DropPipeline
<1>4. QED BY <1>2, <1>3 DEF TypeOK, StoreOK, ReqOK

LEMMA NextRowType ==
  ASSUME TypeOK, NEW q \in Reqs, NextRow(q)
  PROVE  TypeOK'
<1>0. StoreOK /\ ReqOK BY TypeSplit
<1>1. /\ req[q].op # "none" /\ req[q] \in Request /\ req[q].s \in SchemeRow
      /\ req[q].id \in Rows \cup {Nil}
      /\ \A k \in Kinds : req[q].s.ext[k] \in Ids \cup {Nil}
  BY <1>0, Serving DEF NextRow
<1>2. StoreOK'
  BY <1>0 DEF NextRow, local, StoreOK
<1>3. ReqOK'
  <2>1. PICK t \in req[q].todo :
          req' = [req EXCEPT ![q] =
            [req[q] EXCEPT !.todo = req[q].todo \ {t}, !.id = t.id, !.s = t.s,
                           !.pc = IF HasIds(t.s) THEN "delPlan" ELSE "nextRow"]]
    BY DEF NextRow
  <2>2. t.id \in Rows /\ t.s \in SchemeRow BY <1>1 DEF Request
  <2>3. req'[q] \in Request BY <1>0, <1>1, <2>1, <2>2 DEF ReqOK, Request, Steps
  <2>4. req'[q].op # "none" /\ req'[q].pc # "idle" BY <1>0, <1>1, <2>1 DEF ReqOK, Request
  <2>5. QED BY <1>0, <2>1, <2>3, <2>4 DEF ReqOK
<1>4. QED BY <1>2, <1>3 DEF TypeOK, StoreOK, ReqOK

LEMMA StartType ==
  ASSUME ReqOK, NEW q \in Reqs, NEW r \in Request,
         r.op # "none", r.pc # "idle", req' = [req EXCEPT ![q] = r]
  PROVE  ReqOK'
BY DEF ReqOK

LEMMA StartCreateType ==
  ASSUME TypeOK, NEW q \in Reqs, StartCreate(q)
  PROVE  TypeOK'
<1>0. StoreOK /\ ReqOK BY TypeSplit
<1>2. StoreOK'
  BY <1>0 DEF StartCreate, local, StoreOK
<1>3. ReqOK'
  <2>1. PICK repo \in Repos, p \in pipes, n \in Names, l \in BOOLEAN, w \in Wants :
          req' = [req EXCEPT ![q] =
            [op |-> "create", pc |-> "resolveTask", id |-> Nil, todo |-> {},
             s |-> [repo |-> repo, pipe |-> p, name |-> n, langs |-> l,
                    want |-> w, ext |-> NoIds]]]
    BY DEF StartCreate
  <2> DEFINE s == [repo |-> repo, pipe |-> p, name |-> n, langs |-> l,
                   want |-> w, ext |-> NoIds]
             r == [op |-> "create", pc |-> "resolveTask", id |-> Nil, todo |-> {}, s |-> s]
  <2>2. s \in SchemeRow
    BY <1>0, ConstantsAssumption DEF StoreOK, SchemeRow, NoIds
  <2>3. r \in Request BY <2>2 DEF Request, Steps
  <2>4. r.op # "none" /\ r.pc # "idle" OBVIOUS
  <2>5. req' = [req EXCEPT ![q] = r] BY <2>1
  <2> HIDE DEF r
  <2>6. QED BY <1>0, <2>3, <2>4, <2>5, StartType
<1>4. QED BY <1>2, <1>3 DEF TypeOK, StoreOK, ReqOK

LEMMA StartDeleteType ==
  ASSUME TypeOK, NEW q \in Reqs, NEW x \in Rows, StartDelete(q, x)
  PROVE  TypeOK'
<1>0. StoreOK /\ ReqOK BY TypeSplit
<1>2. StoreOK'
  BY <1>0 DEF StartDelete, local, StoreOK
<1>3. ReqOK'
  <2> DEFINE r == [op |-> "delete", id |-> x, s |-> row[x], todo |-> {},
                   pc |-> IF HasIds(row[x]) THEN "delPlan" ELSE "dropRow"]
  <2>1. row[x] \in SchemeRow BY <1>0 DEF StoreOK
  <2>2. r \in Request BY <2>1 DEF Request, Steps
  <2>3. r.op # "none" /\ r.pc # "idle" OBVIOUS
  <2>4. req' = [req EXCEPT ![q] = r] BY DEF StartDelete
  <2> HIDE DEF r
  <2>5. QED BY <1>0, <2>2, <2>3, <2>4, StartType
<1>4. QED BY <1>2, <1>3 DEF TypeOK, StoreOK, ReqOK

LEMMA StartDeletePipelineType ==
  ASSUME TypeOK, NEW q \in Reqs, StartDeletePipeline(q)
  PROVE  TypeOK'
<1>0. StoreOK /\ ReqOK BY TypeSplit
<1>2. StoreOK'
  BY <1>0 DEF StartDeletePipeline, local, StoreOK
<1>3. ReqOK'
  <2>1. PICK p \in pipes :
          req' = [req EXCEPT ![q] =
                 [op |-> "deletePipeline", pc |-> "nextRow", id |-> Nil,
                  s |-> [Blank EXCEPT !.pipe = p],
                  todo |-> {[id |-> r, s |-> row[r]] :
                              r \in {x \in present : row[x].pipe = p}}]]
    BY DEF StartDeletePipeline
  <2> DEFINE todo == {[id |-> r, s |-> row[r]] : r \in {x \in present : row[x].pipe = p}}
             s == [Blank EXCEPT !.pipe = p]
             n == [op |-> "deletePipeline", pc |-> "nextRow", id |-> Nil, s |-> s,
                   todo |-> todo]
  <2>2. s \in SchemeRow BY <1>0, BlankType DEF StoreOK, SchemeRow
  <2>3. todo \in SUBSET [id: Rows, s: SchemeRow]
    BY <1>0, ConstantsAssumption DEF StoreOK, Rows
  <2>4. n \in Request
    <3> HIDE DEF todo, s
    <3> QED BY <2>2, <2>3 DEF Request, Steps
  <2>5. n.op # "none" /\ n.pc # "idle" OBVIOUS
  <2>6. req' = [req EXCEPT ![q] = n] BY <2>1
  <2> HIDE DEF n
  <2>7. QED BY <1>0, <2>4, <2>5, <2>6, StartType
<1>4. QED BY <1>2, <1>3 DEF TypeOK, StoreOK, ReqOK

LEMMA RestartType == TypeOK /\ Restart => TypeOK'
<1> SUFFICES ASSUME TypeOK, Restart PROVE TypeOK'
  OBVIOUS
<1>2. StoreOK' BY DEF Restart, Fault, local, TypeOK, StoreOK
<1>3. ReqOK' BY BlankType DEF Restart, ReqOK, Idle
<1>4. QED BY <1>2, <1>3 DEF TypeOK, StoreOK, ReqOK

LEMMA StutterType == TypeOK /\ UNCHANGED vars => TypeOK'
BY DEF TypeOK, vars

(* Every step keeps the types.                                             *)
LEMMA TypeStep == TypeOK /\ [Next]_vars => TypeOK'
<1> SUFFICES ASSUME TypeOK, [Next]_vars PROVE TypeOK'
  OBVIOUS
<1>1. CASE Restart BY <1>1, RestartType
<1>2. ASSUME NEW q \in Reqs, Arrive(q) PROVE TypeOK'
  BY <1>2, StartCreateType, StartDeletePipelineType, StartDeleteType, StutterType
     DEF Arrive, Reject
<1>3. ASSUME NEW q \in Reqs, CreateStep(q) PROVE TypeOK'
  BY <1>3, ResolveTaskType, PostTaskType, FindTaskType, PostSchemeType, FindSchemeType,
     PostBindingType, PostPlanType, FindPlanType, InsertType DEF CreateStep
<1>4. ASSUME NEW q \in Reqs, DeleteStep(q) PROVE TypeOK'
  BY <1>4, DeletePlanType, DeleteBindingType, DeleteSchemeType, CountTaskType,
     DeleteTaskType, DeleteSchemeAgainType, DropRowType, NextRowType, DropPipelineType
     DEF DeleteStep
<1>5. CASE UNCHANGED vars BY <1>5, StutterType
<1>6. QED BY <1>1, <1>2, <1>3, <1>4, <1>5 DEF Next

(* TypeOK of SchemeLifecycle: rows, remote objects and requests keep their *)
(* shape, keys and ids stay within what was issued, and a request is idle  *)
(* exactly when no handler serves it -- for any number of requests, rows   *)
(* and faults, at every step of the three handlers.                        *)
THEOREM TypeCorrect == Spec => []TypeOK
BY TypeInit, TypeStep, PTL DEF Spec

-----------------------------------------------------------------------------
(* No residue: what a step may do to the stores *)

(* Every step only issues newer ids, inserts newer rows and empties the id *)
(* columns of the rows it keeps.                                           *)
Onward ==
  /\ issued' \in Nat /\ issued <= issued'
  /\ \A i \in Live' : i \in Live \/ i > issued
  /\ inserted' \in Nat /\ inserted <= inserted'
  /\ \A r \in present' : r \in present \/ r > inserted
  /\ \A r \in present \cap present', k \in Own :
       row'[r].ext[k] \in {Nil, row[r].ext[k]}

LEMMA LiveIds == TypeOK => Live \subseteq Ids /\ Nil \notin Live
BY DEF TypeOK, Live, Object, Ids, Nil

LEMMA PresentRows == TypeOK => present \subseteq Rows /\ inserted \in Nat /\ Nil \notin present
BY ConstantsAssumption DEF TypeOK, Rows, Nil

(* A request that does not move keeps its part of the invariant.           *)
LEMMA OrderlyFrame ==
  ASSUME TypeOK, IdsIssued, Onward, NEW q \in Reqs, Orderly(q), req'[q] = req[q]
  PROVE  Orderly(q)'
<1>1. ASSUME req[q].op = "delete"
      PROVE  req[q].id \in 1 .. inserted'
  BY <1>1, PresentRows DEF Orderly, Onward
<1>2. ASSUME req[q].op = "delete", NEW k \in Own, req[q].id \in present'
      PROVE  row'[req[q].id].ext[k] \in {Nil, req[q].s.ext[k]}
  <2>1. req[q].id \in present BY <1>2, PresentRows DEF Orderly, Onward
  <2>2. row'[req[q].id].ext[k] \in {Nil, row[req[q].id].ext[k]} BY <1>2, <2>1 DEF Onward
  <2>3. QED BY <1>2, <2>1, <2>2 DEF Orderly
<1>3. ASSUME req[q].op = "delete", NEW k \in Own, req[q].pc \in Past(k)
      PROVE  req[q].s.ext[k] \notin Live'
  <2>1. req[q].s.ext[k] <= issued /\ req[q].s.ext[k] \in Nat /\ issued \in Nat
    BY DEF TypeOK, IdsIssued, Request, SchemeRow, Ids, Nil, Own
  <2>2. req[q].s.ext[k] \notin Live BY <1>3 DEF Orderly
  <2>3. QED BY <2>1, <2>2 DEF Onward
<1>4. QED
  BY <1>1, <1>2, <1>3 DEF Orderly

LEMMA SameStores ==
  ASSUME TypeOK, UNCHANGED <<present, inserted, row, remote, issued>>
  PROVE  Onward
BY PresentRows DEF TypeOK, Onward, Live

LEMMA SameRows ==
  ASSUME TypeOK, UNCHANGED <<present, inserted, row>>,
         issued' \in Nat, issued <= issued',
         \A i \in Live' : i \in Live \/ i > issued
  PROVE  Onward
BY PresentRows DEF Onward

LEMMA CreatedOnward ==
  ASSUME TypeOK, NEW k, NEW s, Created(k, s) \/ UNCHANGED <<remote, issued>>
  PROVE  /\ issued' \in Nat /\ issued <= issued'
         /\ \A i \in Live' : i \in Live \/ i > issued
BY DEF TypeOK, Created, Live

LEMMA PostOnward ==
  ASSUME TypeOK, NEW k, NEW s, PostSucceeds(k, s) \/ PostFails(k, s)
  PROVE  /\ issued' \in Nat /\ issued <= issued'
         /\ \A i \in Live' : i \in Live \/ i > issued
<1>1. Created(k, s) \/ UNCHANGED <<remote, issued>> BY DEF PostSucceeds, PostFails
<1>2. QED BY <1>1, CreatedOnward

LEMMA DeleteOnward ==
  ASSUME TypeOK, NEW i, NEW ok \in BOOLEAN,
         DeleteSucceeds(i, ok) \/ DeleteFails(i, ok)
  PROVE  /\ issued' \in Nat /\ issued <= issued'
         /\ Live' \subseteq Live
BY DEF TypeOK, DeleteSucceeds, DeleteFails, Without, Live

LEMMA ClearedIds ==
  ASSUME TypeOK, NEW r \in Rows \cup {Nil}, NEW k \in Kinds
  PROVE  \A x \in Rows, j \in Kinds : Cleared(r, k)[x].ext[j] \in {Nil, row[x].ext[j]}
<1>1. CASE r \in present
  <2> DEFINE e == [row[r].ext EXCEPT ![k] = Nil]
             s == [row[r] EXCEPT !.want = row[r].want \ {k}, !.ext = e]
  <2>1. r \in Rows BY <1>1, PresentRows
  <2>2. row[r] \in SchemeRow BY <2>1 DEF TypeOK
  <2>3. s.ext = e /\ \A j \in Kinds : e[j] \in {Nil, row[r].ext[j]} BY <2>2 DEF SchemeRow
  <2>5. Cleared(r, k) = [row EXCEPT ![r] = s] BY <1>1, <2>2 DEF Cleared, WithId, SchemeRow
  <2>6. QED BY <2>1, <2>3, <2>5 DEF TypeOK
<1>2. CASE r \notin present
  BY <1>2 DEF Cleared
<1>3. QED BY <1>1, <1>2

-----------------------------------------------------------------------------
(* No residue: the invariant, part by part *)

StoresKept ==
  /\ Onward
  /\ \A i \in Live' : i <= issued'
  /\ \A p \in Repos : repoTask'[p] <= issued'
  /\ \A r \in Rows, k \in Kinds : row'[r].ext[k] <= issued'
ReqsKept ==
  /\ \A q \in Reqs : Orderly(q)'
  /\ \A q \in Reqs, k \in Kinds : /\ req'[q].s.ext[k] <= issued'
                                  /\ \A e \in req'[q].todo : e.s.ext[k] <= issued'

LEMMA Kept == StoresKept /\ ReqsKept => ResidueInv'
BY DEF StoresKept, ReqsKept, ResidueInv, IdsIssued, Live

LEMMA Numbers ==
  TypeOK => /\ issued \in Nat /\ inserted \in Nat
            /\ \A i \in Live : i \in Nat
            /\ \A p \in Repos : repoTask[p] \in Nat
            /\ \A r \in Rows, k \in Kinds : row[r].ext[k] \in Nat
            /\ \A q \in Reqs, k \in Kinds : /\ req[q].s.ext[k] \in Nat
                                          /\ \A e \in req[q].todo : e.s.ext[k] \in Nat
BY DEF TypeOK, Live, Object, SchemeRow, Request, Ids, Nil

LEMMA LiveIssued == IdsIssued => \A i \in Live : i <= issued
BY DEF IdsIssued, Live

LEMMA OthersKept ==
  ASSUME TypeOK, ResidueInv, Onward, NEW q \in Reqs,
         \A p \in Reqs \ {q} : req'[p] = req[p],
         Orderly(q)', \A k \in Kinds : req'[q].s.ext[k] <= issued',
         \A k \in Kinds, e \in req'[q].todo : e.s.ext[k] <= issued'
  PROVE  ReqsKept
<1>1. ASSUME NEW p \in Reqs PROVE Orderly(p)'
  BY OrderlyFrame DEF ResidueInv
<1>2. ASSUME NEW p \in Reqs \ {q}, NEW k \in Kinds
      PROVE  req'[p].s.ext[k] <= issued' /\ \A e \in req'[p].todo : e.s.ext[k] <= issued'
  BY Numbers DEF ResidueInv, IdsIssued, Onward
<1>3. QED BY <1>1, <1>2 DEF ReqsKept

LEMMA ReplyKept ==
  ASSUME TypeOK, ResidueInv, Onward, NEW q \in Reqs, Reply(q)
  PROVE  ReqsKept
<1>1. req'[q] = Idle /\ \A p \in Reqs \ {q} : req'[p] = req[p] BY DEF Reply, TypeOK
<1>2. Orderly(q)' BY <1>1 DEF Orderly, Idle
<1>3. \A k \in Kinds : req'[q].s.ext[k] <= issued'
  BY <1>1 DEF Idle, Blank, NoIds, Nil, Onward
<1>4. req'[q].todo = {} BY <1>1 DEF Idle
<1>5. QED BY <1>1, <1>2, <1>3, <1>4, OthersKept

(* A step that moves a request to a step of its handler, possibly with the *)
(* id of a shared task, keeps its part of the invariant when what the new  *)
(* step presupposes has been taken down.                                   *)
LEMMA MovedKept ==
  ASSUME TypeOK, ResidueInv, Onward, NEW q \in Reqs, NEW step, NEW s,
         req' = [req EXCEPT ![q] = [req[q] EXCEPT !.pc = step, !.s = s]],
         \A k \in Kinds : s.ext[k] <= issued',
         req[q].op = "delete" => \A k \in Own : s.ext[k] = req[q].s.ext[k],
         req[q].op = "create" => step \notin {"dropRow", "nextRow"},
         req[q].op = "deletePipeline" => step \in CascadeSteps,
         req[q].op = "delete" => step \in DeleteSteps,
         req[q].op = "delete" => \A k \in Own :
            step \in Past(k) => req[q].pc \in Past(k) \/ req[q].s.ext[k] \notin Live'
  PROVE  ReqsKept
<1>1. /\ req'[q].pc = step /\ req'[q].s = s
      /\ req'[q].op = req[q].op /\ req'[q].id = req[q].id /\ req'[q].todo = req[q].todo
  BY DEF TypeOK, Request
<1>2. \A p \in Reqs \ {q} : req'[p] = req[p] BY DEF TypeOK
<1>3. Orderly(q) BY DEF ResidueInv
<1>4. ASSUME req[q].op = "delete"
      PROVE  req[q].id \in 1 .. inserted'
  BY <1>3, <1>4, PresentRows DEF Orderly, Onward
<1>5. ASSUME req[q].op = "delete", NEW k \in Own, req[q].id \in present'
      PROVE  row'[req[q].id].ext[k] \in {Nil, s.ext[k]}
  <2>1. req[q].id \in present BY <1>3, <1>5, PresentRows DEF Orderly, Onward
  <2>2. row'[req[q].id].ext[k] \in {Nil, row[req[q].id].ext[k]} BY <1>5, <2>1 DEF Onward
  <2>3. QED BY <1>3, <1>5, <2>1, <2>2 DEF Orderly
<1>6. ASSUME req[q].op = "delete", NEW k \in Own, step \in Past(k)
      PROVE  s.ext[k] \notin Live'
  <2>1. k \in Kinds BY DEF Own
  <2>2. req[q].s.ext[k] <= issued BY <2>1 DEF ResidueInv, IdsIssued
  <2>3. CASE req[q].pc \in Past(k)
    <3>1. req[q].s.ext[k] \notin Live BY <1>3, <1>6, <2>3 DEF Orderly
    <3>2. QED BY <1>6, <2>1, <2>2, <3>1, Numbers DEF Onward
  <2>4. QED BY <1>6, <2>3
<1>7. Orderly(q)' BY <1>1, <1>3, <1>4, <1>5, <1>6 DEF Orderly
<1>8. \A k \in Kinds, e \in req'[q].todo : e.s.ext[k] <= issued'
  BY <1>1, Numbers DEF ResidueInv, IdsIssued, Onward
<1>9. QED BY <1>1, <1>2, <1>7, <1>8, OthersKept

LEMMA GotoKept ==
  ASSUME TypeOK, ResidueInv, Onward, NEW q \in Reqs, NEW step, Goto(q, step),
         req[q].op = "create" => step \notin {"dropRow", "nextRow"},
         req[q].op = "deletePipeline" => step \in CascadeSteps,
         req[q].op = "delete" => step \in DeleteSteps,
         req[q].op = "delete" => \A k \in Own :
            step \in Past(k) => req[q].pc \in Past(k) \/ req[q].s.ext[k] \notin Live'
  PROVE  ReqsKept
<1>1. req' = [req EXCEPT ![q] = [req[q] EXCEPT !.pc = step, !.s = req[q].s]]
  <2>1. req[q] \in Request BY DEF TypeOK
  <2>2. [req[q] EXCEPT !.pc = step] = [req[q] EXCEPT !.pc = step, !.s = req[q].s]
    BY <2>1 DEF Request
  <2>3. QED BY <2>2 DEF Goto
<1>2. \A k \in Kinds : req[q].s.ext[k] <= issued'
  BY Numbers DEF ResidueInv, IdsIssued, Onward
<1>3. QED BY <1>1, <1>2, MovedKept

LEMMA LearnKept ==
  ASSUME TypeOK, ResidueInv, Onward, NEW q \in Reqs, NEW step,
         NEW j \in Kinds, NEW i, Learn(q, j, i, step), i <= issued',
         req[q].op = "create" => step \notin {"dropRow", "nextRow"},
         req[q].op = "deletePipeline" => step \in CascadeSteps,
         req[q].op = "delete" => j = "task" /\ step \in DeleteSteps,
         req[q].op = "delete" => \A k \in Own :
            step \in Past(k) => req[q].pc \in Past(k) \/ req[q].s.ext[k] \notin Live'
  PROVE  ReqsKept
<1> DEFINE s == WithId(req[q].s, j, i)
<1>1. req[q].s \in SchemeRow BY DEF TypeOK, Request
<1>2. \A k \in Kinds : s.ext[k] = IF k = j THEN i ELSE req[q].s.ext[k]
  BY <1>1 DEF WithId, SchemeRow
<1>3. \A k \in Kinds : s.ext[k] <= issued'
  BY <1>2, Numbers DEF ResidueInv, IdsIssued, Onward
<1>4. req[q].op = "delete" => \A k \in Own : s.ext[k] = req[q].s.ext[k]
  BY <1>2 DEF Own
<1>5. req' = [req EXCEPT ![q] = [req[q] EXCEPT !.pc = step, !.s = s]] BY DEF Learn
<1> HIDE DEF s
<1>6. QED BY <1>3, <1>4, <1>5, MovedKept

(* The stores, after a step that creates at most one object, or deletes    *)
(* objects and empties columns.                                            *)
LEMMA PostStores ==
  ASSUME TypeOK, ResidueInv, NEW k, NEW s,
         \/ PostSucceeds(k, s) \/ PostFails(k, s) \/ UNCHANGED <<remote, issued>>,
         UNCHANGED <<present, inserted, row>>,
         \A p \in Repos : repoTask'[p] \in Nat /\ repoTask'[p] <= issued
  PROVE  StoresKept
<1>1. /\ issued' \in Nat /\ issued <= issued'
      /\ \A i \in Live' : i \in Live \/ i = issued'
  BY DEF TypeOK, Created, PostSucceeds, PostFails, Live
<1>2. \A i \in Live' : i \in Live \/ i > issued
  BY CreatedOnward DEF PostSucceeds, PostFails
<1>3. Onward BY <1>1, <1>2, SameRows
<1>4. \A i \in Live' : i <= issued'
  BY <1>1, LiveIssued, Numbers DEF ResidueInv
<1>5. \A p \in Repos : repoTask'[p] <= issued'
  BY <1>1, Numbers
<1>6. \A r \in Rows, j \in Kinds : row'[r].ext[j] <= issued'
  BY <1>1, Numbers DEF ResidueInv, IdsIssued
<1>7. QED BY <1>3, <1>4, <1>5, <1>6 DEF StoresKept

LEMMA DeleteStores ==
  ASSUME TypeOK, ResidueInv, NEW i, NEW ok \in BOOLEAN,
         DeleteSucceeds(i, ok) \/ DeleteFails(i, ok) \/ UNCHANGED <<remote, issued>>,
         UNCHANGED <<present, inserted>>,
         \A r \in Rows, k \in Kinds : row'[r].ext[k] \in {Nil, row[r].ext[k]},
         \A p \in Repos : repoTask'[p] \in {Nil, repoTask[p]}
  PROVE  StoresKept
<1>1. issued' = issued /\ Live' \subseteq Live
  BY DEF DeleteSucceeds, DeleteFails, Without, Live
<1>2. Onward
  <2>1. present \subseteq Rows /\ inserted \in Nat BY PresentRows
  <2>2. issued' \in Nat /\ issued <= issued' BY <1>1, Numbers
  <2>3. QED BY <1>1, <2>1, <2>2 DEF Onward, Own
<1>3. \A j \in Live' : j <= issued' BY <1>1, LiveIssued DEF ResidueInv
<1>4. Nil <= issued' BY <1>1, Numbers DEF Nil
<1>5. \A p \in Repos : repoTask'[p] <= issued' BY <1>1, <1>4 DEF ResidueInv, IdsIssued
<1>6. \A r \in Rows, k \in Kinds : row'[r].ext[k] <= issued'
  BY <1>1, <1>4 DEF ResidueInv, IdsIssued
<1>7. QED BY <1>2, <1>3, <1>5, <1>6 DEF StoresKept

-----------------------------------------------------------------------------
(* No residue: the actions *)

LEMMA CreatedStores ==
  ASSUME TypeOK, ResidueInv, NEW k, NEW s,
         PostSucceeds(k, s) \/ PostFails(k, s) \/ UNCHANGED <<remote, issued>>,
         UNCHANGED local
  PROVE  StoresKept /\ Onward
<1>1. \A p \in Repos : repoTask'[p] \in Nat /\ repoTask'[p] <= issued
  BY Numbers DEF local, ResidueInv, IdsIssued
<1>2. UNCHANGED <<present, inserted, row>> BY DEF local
<1>3. StoresKept BY <1>1, <1>2, PostStores
<1>4. QED BY <1>3 DEF StoresKept

LEMMA FoundIssued ==
  ASSUME TypeOK, ResidueInv, NEW k, NEW s, NEW i, i \in Matches(k, s)
  PROVE  i \in Nat /\ i <= issued
<1>1. PICK o \in remote : i = o.id
  BY Zenon DEF Matches
<1>2. o.id <= issued
  BY <1>1 DEF ResidueInv, IdsIssued
<1>3. o.id \in Nat
  <2>1. o \in Object
    BY <1>1 DEF TypeOK
  <2>2. QED BY <2>1 DEF Object, Ids
<1>4. QED BY <1>1, <1>2, <1>3

LEMMA PostTaskKept ==
  ASSUME TypeOK, ResidueInv, NEW q \in Reqs, PostTask(q)
  PROVE  ResidueInv'
<1>1. req[q].op \notin {"delete", "deletePipeline"}
  BY DEF PostTask, ResidueInv, Orderly, DeleteSteps, CascadeSteps
<1>2. StoresKept /\ Onward
  BY CreatedStores DEF PostTask
<1>3. ReqsKept
  <2>1. CASE Goto(q, "findTask") BY <1>1, <1>2, <2>1, GotoKept
  <2>2. CASE Reply(q) BY <1>2, <2>2, ReplyKept
  <2>3. QED BY <2>1, <2>2 DEF PostTask
<1>9. QED BY <1>2, <1>3, Kept

LEMMA PostSchemeKept ==
  ASSUME TypeOK, ResidueInv, NEW q \in Reqs, PostScheme(q)
  PROVE  ResidueInv'
<1>1. req[q].op \notin {"delete", "deletePipeline"}
  BY DEF PostScheme, ResidueInv, Orderly, DeleteSteps, CascadeSteps
<1>2. StoresKept /\ Onward
  BY CreatedStores DEF PostScheme
<1>3. ReqsKept
  <2>1. CASE Goto(q, "findScheme") BY <1>1, <1>2, <2>1, GotoKept
  <2>2. CASE Goto(q, "delPlan") BY <1>1, <1>2, <2>2, GotoKept
  <2>3. QED BY <2>1, <2>2 DEF PostScheme
<1>9. QED BY <1>2, <1>3, Kept

LEMMA PostPlanKept ==
  ASSUME TypeOK, ResidueInv, NEW q \in Reqs, PostPlan(q)
  PROVE  ResidueInv'
<1>1. req[q].op \notin {"delete", "deletePipeline"}
  BY DEF PostPlan, ResidueInv, Orderly, DeleteSteps, CascadeSteps
<1>2. StoresKept /\ Onward
  BY CreatedStores DEF PostPlan
<1>3. ReqsKept
  <2>1. CASE Goto(q, "findPlan") BY <1>1, <1>2, <2>1, GotoKept
  <2>2. CASE Goto(q, "delPlan") BY <1>1, <1>2, <2>2, GotoKept
  <2>3. QED BY <2>1, <2>2 DEF PostPlan
<1>9. QED BY <1>2, <1>3, Kept

LEMMA PostBindingKept ==
  ASSUME TypeOK, ResidueInv, NEW q \in Reqs, PostBinding(q)
  PROVE  ResidueInv'
<1>1. req[q].op \notin {"delete", "deletePipeline"}
  BY DEF PostBinding, ResidueInv, Orderly, DeleteSteps, CascadeSteps
<1>2. StoresKept /\ Onward
  BY CreatedStores DEF PostBinding
<1>3. ReqsKept
  <2> DEFINE step == IF "plan" \in req[q].s.want THEN "postPlan" ELSE "insert"
  <2>1. CASE Learn(q, "binding", issued', step)
    <3>1. issued' <= issued' BY <1>2 DEF Onward
    <3>2. step \notin {"dropRow", "nextRow"} OBVIOUS
    <3> HIDE DEF step
    <3>3. QED BY <1>1, <1>2, <2>1, <3>1, <3>2, LearnKept DEF Kinds
  <2>2. CASE Goto(q, "delPlan") BY <1>1, <1>2, <2>2, GotoKept
  <2>3. QED BY <2>1, <2>2 DEF PostBinding
<1>9. QED BY <1>2, <1>3, Kept

LEMMA FindTaskKept ==
  ASSUME TypeOK, ResidueInv, NEW q \in Reqs, FindTask(q)
  PROVE  ResidueInv'
<1>1. req[q].op \notin {"delete", "deletePipeline"}
  BY DEF FindTask, ResidueInv, Orderly, DeleteSteps, CascadeSteps
<1>2. StoresKept /\ Onward
  <2>1. \A p \in Repos : repoTask'[p] \in Nat /\ repoTask'[p] <= issued
    BY FoundIssued, Numbers DEF FindTask, Cached, TypeOK, ResidueInv, IdsIssued
  <2>2. StoresKept BY <2>1, PostStores DEF FindTask
  <2>3. QED BY <2>2 DEF StoresKept
<1>3. ReqsKept
  <2>1. CASE \E i \in Matches("task", req[q].s) : Learn(q, "task", i, "postScheme")
    <3>1. PICK i \in Matches("task", req[q].s) : Learn(q, "task", i, "postScheme")
      BY <2>1
    <3>2. i <= issued'
      BY <1>2, <3>1, FoundIssued, Numbers DEF Onward
    <3>3. "postScheme" \notin {"dropRow", "nextRow"} BY DEF AfterScheme
    <3>4. QED BY <1>1, <1>2, <3>1, <3>2, <3>3, LearnKept DEF Kinds
  <2>2. CASE Reply(q) BY <1>2, <2>2, ReplyKept
  <2>3. QED BY <2>1, <2>2 DEF FindTask
<1>9. QED BY <1>2, <1>3, Kept

LEMMA FindSchemeKept ==
  ASSUME TypeOK, ResidueInv, NEW q \in Reqs, FindScheme(q)
  PROVE  ResidueInv'
<1>1. req[q].op \notin {"delete", "deletePipeline"}
  BY DEF FindScheme, ResidueInv, Orderly, DeleteSteps, CascadeSteps
<1>2. StoresKept /\ Onward
  BY CreatedStores DEF FindScheme
<1>3. ReqsKept
  <2>1. CASE \E i \in Matches("scheme", req[q].s) : Learn(q, "scheme", i, AfterScheme(req[q].s))
    <3>1. PICK i \in Matches("scheme", req[q].s) : Learn(q, "scheme", i, AfterScheme(req[q].s))
      BY <2>1
    <3>2. i <= issued'
      BY <1>2, <3>1, FoundIssued, Numbers DEF Onward
    <3>3. AfterScheme(req[q].s) \notin {"dropRow", "nextRow"} BY DEF AfterScheme
    <3>4. QED BY <1>1, <1>2, <3>1, <3>2, <3>3, LearnKept DEF Kinds
  <2>2. CASE Goto(q, "delPlan") BY <1>1, <1>2, <2>2, GotoKept
  <2>3. QED BY <2>1, <2>2 DEF FindScheme
<1>9. QED BY <1>2, <1>3, Kept

LEMMA FindPlanKept ==
  ASSUME TypeOK, ResidueInv, NEW q \in Reqs, FindPlan(q)
  PROVE  ResidueInv'
<1>1. req[q].op \notin {"delete", "deletePipeline"}
  BY DEF FindPlan, ResidueInv, Orderly, DeleteSteps, CascadeSteps
<1>2. StoresKept /\ Onward
  BY CreatedStores DEF FindPlan
<1>3. ReqsKept
  <2>1. CASE \E i \in Matches("plan", req[q].s) : Learn(q, "plan", i, "insert")
    <3>1. PICK i \in Matches("plan", req[q].s) : Learn(q, "plan", i, "insert")
      BY <2>1
    <3>2. i <= issued'
      BY <1>2, <3>1, FoundIssued, Numbers DEF Onward
    <3>3. "insert" \notin {"dropRow", "nextRow"} BY DEF AfterScheme
    <3>4. QED BY <1>1, <1>2, <3>1, <3>2, <3>3, LearnKept DEF Kinds
  <2>2. CASE Goto(q, "delPlan") BY <1>1, <1>2, <2>2, GotoKept
  <2>3. QED BY <2>1, <2>2 DEF FindPlan
<1>9. QED BY <1>2, <1>3, Kept

LEMMA ResolveTaskKept ==
  ASSUME TypeOK, ResidueInv, NEW q \in Reqs, ResolveTask(q)
  PROVE  ResidueInv'
<1>1. req[q].op \notin {"delete", "deletePipeline"}
  BY DEF ResolveTask, ResidueInv, Orderly, DeleteSteps, CascadeSteps
<1>4. ASSUME NEW i \in ReusableTasks(req[q].s.repo) PROVE i \in Nat /\ i <= issued
  <2>1. req[q].s.repo \in Repos BY DEF TypeOK, Request, SchemeRow
  <2>2. \A r \in present : row[r].ext["task"] \in Nat /\ row[r].ext["task"] <= issued
    BY PresentRows, Numbers DEF ResidueInv, IdsIssued, Kinds
  <2>3. repoTask[req[q].s.repo] \in Nat /\ repoTask[req[q].s.repo] <= issued
    BY <2>1, Numbers DEF ResidueInv, IdsIssued
  <2>4. QED BY <1>4, <2>2, <2>3 DEF ReusableTasks
<1>2. StoresKept /\ Onward
  <2>1. \A p \in Repos : repoTask'[p] \in Nat /\ repoTask'[p] <= issued
    BY <1>4, Numbers DEF ResolveTask, Cached, TypeOK, ResidueInv, IdsIssued
  <2>2. StoresKept BY <2>1, PostStores DEF ResolveTask
  <2>3. QED BY <2>2 DEF StoresKept
<1>3. ReqsKept
  <2>1. CASE \E i \in ReusableTasks(req[q].s.repo) : Learn(q, "task", i, "postScheme")
    <3>1. PICK i \in ReusableTasks(req[q].s.repo) : Learn(q, "task", i, "postScheme")
      BY <2>1
    <3>2. i <= issued' BY <1>2, <1>4, Numbers DEF Onward
    <3>3. QED BY <1>1, <1>2, <3>1, <3>2, LearnKept DEF Kinds
  <2>2. CASE Goto(q, "postTask") BY <1>1, <1>2, <2>2, GotoKept
  <2>3. CASE Goto(q, "postScheme") BY <1>1, <1>2, <2>3, GotoKept
  <2>4. QED BY <2>1, <2>2, <2>3 DEF ResolveTask
<1>9. QED BY <1>2, <1>3, Kept

LEMMA InsertKept ==
  ASSUME TypeOK, ResidueInv, NEW q \in Reqs, Insert(q)
  PROVE  ResidueInv'
<1>1. req[q].op \notin {"delete", "deletePipeline"}
  BY DEF Insert, ResidueInv, Orderly, DeleteSteps, CascadeSteps
<1>2. StoresKept /\ Onward
  <2>1. CASE UNCHANGED <<present, inserted, row>>
    BY <2>1, CreatedStores DEF Insert, local
  <2>2. CASE /\ inserted < MaxRows
             /\ inserted' = inserted + 1
             /\ present' = present \cup {inserted'}
             /\ row' = [row EXCEPT ![inserted'] = req[q].s]
    <3>1. issued' = issued /\ Live' = Live /\ repoTask' = repoTask
      BY DEF Insert, Live
    <3>2. \A r \in present : row'[r] = row[r]
      BY <2>2, PresentRows, ConstantsAssumption DEF TypeOK
    <3>3. Onward
      BY <2>2, <3>1, <3>2, Numbers DEF Onward
    <3>4. \A r \in Rows, k \in Kinds : row'[r].ext[k] <= issued'
      BY <2>2, <3>1 DEF TypeOK, ResidueInv, IdsIssued
    <3>5. QED BY <3>1, <3>3, <3>4, LiveIssued DEF StoresKept, ResidueInv, IdsIssued
  <2>3. QED BY <2>1, <2>2 DEF Insert
<1>3. ReqsKept
  <2>1. CASE Reply(q) BY <1>2, <2>1, ReplyKept
  <2>2. CASE Goto(q, "delPlan") BY <1>1, <1>2, <2>2, GotoKept
  <2>3. QED BY <2>1, <2>2 DEF Insert
<1>9. QED BY <1>2, <1>3, Kept

LEMMA GoneAfterDelete ==
  ASSUME NEW i, NEW ok, DeleteSucceeds(i, ok)
  PROVE  i \notin Live'
BY DEF DeleteSucceeds, Without, Live

(* The three deletions that a row's own objects need, one after the other. *)
LEMMA DeletionStores ==
  ASSUME TypeOK, ResidueInv, NEW q \in Reqs, NEW j \in Kinds, NEW i, NEW ok \in BOOLEAN,
         req[q].pc # "idle",
         DeleteSucceeds(i, ok) \/ DeleteFails(i, ok) \/ UNCHANGED <<remote, issued>>,
         row' = row \/ row' = Cleared(req[q].id, j),
         UNCHANGED <<present, inserted, pipes, repoTask>>
  PROVE  StoresKept /\ Onward
<1>1. req[q].id \in Rows \cup {Nil} BY DEF TypeOK, Request
<1>2. \A r \in Rows, k \in Kinds : row'[r].ext[k] \in {Nil, row[r].ext[k]}
  BY <1>1, ClearedIds
<1>3. StoresKept BY <1>2, DeleteStores
<1>4. QED BY <1>3 DEF StoresKept

LEMMA DeletePlanKept ==
  ASSUME TypeOK, ResidueInv, NEW q \in Reqs, DeletePlan(q)
  PROVE  ResidueInv'
<1>2. StoresKept /\ Onward
  BY DeletionStores DEF DeletePlan, Noted, Kinds
<1>3. ReqsKept
  <2>1. CASE Goto(q, "delBinding") /\ req[q].s.ext["plan"] \notin Live'
    <3>1. \A k \in Own : "delBinding" \in Past(k) =>
             req[q].pc \in Past(k) \/ req[q].s.ext[k] \notin Live'
      BY <2>1 DEF DeletePlan, Own, Kinds, Past, DeleteSteps
    <3>2. QED BY <1>2, <2>1, <3>1, GotoKept DEF DeleteSteps, CascadeSteps
  <2>2. CASE Reply(q) BY <1>2, <2>2, ReplyKept
  <2>3. CASE req[q].s.ext["plan"] = Nil /\ Goto(q, "delBinding") /\ UNCHANGED remote
    <3>1. Nil \notin Live' BY <2>3, LiveIds DEF Live
    <3>2. QED BY <2>1, <2>3, <3>1
  <2>4. QED BY <2>1, <2>2, <2>3, GoneAfterDelete DEF DeletePlan
<1>9. QED BY <1>2, <1>3, Kept

LEMMA DeleteBindingKept ==
  ASSUME TypeOK, ResidueInv, NEW q \in Reqs, DeleteBinding(q)
  PROVE  ResidueInv'
<1>2. StoresKept /\ Onward
  BY DeletionStores DEF DeleteBinding, Noted, Kinds
<1>3. ReqsKept
  <2>1. CASE Goto(q, "delScheme") /\ req[q].s.ext["binding"] \notin Live'
    <3>1. \A k \in Own : "delScheme" \in Past(k) =>
             req[q].pc \in Past(k) \/ req[q].s.ext[k] \notin Live'
      BY <2>1 DEF DeleteBinding, Own, Kinds, Past, DeleteSteps
    <3>2. QED BY <1>2, <2>1, <3>1, GotoKept DEF DeleteSteps, CascadeSteps
  <2>2. CASE Reply(q) BY <1>2, <2>2, ReplyKept
  <2>3. CASE req[q].s.ext["binding"] = Nil /\ Goto(q, "delScheme") /\ UNCHANGED remote
    <3>1. Nil \notin Live' BY <2>3, LiveIds DEF Live
    <3>2. QED BY <2>1, <2>3, <3>1
  <2>4. QED BY <2>1, <2>2, <2>3, GoneAfterDelete DEF DeleteBinding
<1>9. QED BY <1>2, <1>3, Kept

LEMMA DeleteSchemeKept ==
  ASSUME TypeOK, ResidueInv, NEW q \in Reqs, DeleteScheme(q)
  PROVE  ResidueInv'
<1>2. StoresKept /\ Onward
  BY DeletionStores DEF DeleteScheme, Noted, Kinds
<1>3. ReqsKept
  <2>1. CASE Goto(q, "countTask") /\ req[q].s.ext["scheme"] \notin Live'
    <3>1. \A k \in Own : "countTask" \in Past(k) =>
             req[q].pc \in Past(k) \/ req[q].s.ext[k] \notin Live'
      BY <2>1 DEF DeleteScheme, Own, Kinds, Past, DeleteSteps
    <3>2. QED BY <1>2, <2>1, <3>1, GotoKept DEF DeleteSteps, CascadeSteps
  <2>2. CASE Reply(q) BY <1>2, <2>2, ReplyKept
  <2>3. CASE req[q].s.ext["scheme"] = Nil /\ Goto(q, "countTask") /\ UNCHANGED remote
    <3>1. Nil \notin Live' BY <2>3, LiveIds DEF Live
    <3>2. QED BY <2>1, <2>3, <3>1
  <2>4. QED BY <2>1, <2>2, <2>3, GoneAfterDelete DEF DeleteScheme
<1>9. QED BY <1>2, <1>3, Kept

LEMMA CountTaskKept ==
  ASSUME TypeOK, ResidueInv, NEW q \in Reqs, CountTask(q)
  PROVE  ResidueInv'
<1>2. StoresKept /\ Onward
  BY CreatedStores DEF CountTask
<1>3. ReqsKept
  <2> DEFINE i == TaskOf(req[q].s)
             step == IF i # Nil /\ OtherUsers(i, req[q].id) = {} THEN "delTask" ELSE "delAgain"
  <2>1. i <= issued'
    <3>1. i <= issued
      BY DEF TaskOf, TypeOK, Request, SchemeRow, ResidueInv, IdsIssued, Kinds
    <3>2. QED BY <3>1 DEF CountTask
  <2>2. step \in {"delTask", "delAgain"} OBVIOUS
  <2>3. (Learn(q, "task", i, step) \/ Reply(q)) /\ req[q].pc = "countTask" BY DEF CountTask
  <2> HIDE DEF i, step
  <2>4. \A k \in Own : req[q].pc \in Past(k)
    BY <2>3 DEF Own, Kinds, Past, DeleteSteps
  <2>5. CASE Reply(q) BY <1>2, <2>5, ReplyKept
  <2>6. CASE Learn(q, "task", i, step)
    BY <1>2, <2>1, <2>2, <2>4, <2>6, LearnKept DEF Kinds, DeleteSteps, CascadeSteps
  <2>7. QED BY <2>3, <2>5, <2>6
<1>9. QED BY <1>2, <1>3, Kept

LEMMA DeleteTaskKept ==
  ASSUME TypeOK, ResidueInv, NEW q \in Reqs, DeleteTask(q)
  PROVE  ResidueInv'
<1>2. StoresKept /\ Onward
  <2>1. \A p \in Repos : repoTask'[p] \in {Nil, repoTask[p]} BY DEF DeleteTask
  <2>2. StoresKept BY <2>1, DeleteStores DEF DeleteTask
  <2>3. QED BY <2>2 DEF StoresKept
<1>3. ReqsKept
  <2>1. CASE Goto(q, "delAgain")
    <3>1. \A k \in Own : req[q].pc \in Past(k)
      BY DEF DeleteTask, Own, Kinds, Past, DeleteSteps
    <3>2. QED BY <1>2, <2>1, <3>1, GotoKept DEF DeleteSteps, CascadeSteps
  <2>2. CASE Reply(q) BY <1>2, <2>2, ReplyKept
  <2>3. QED BY <2>1, <2>2 DEF DeleteTask
<1>9. QED BY <1>2, <1>3, Kept

LEMMA DeleteSchemeAgainKept ==
  ASSUME TypeOK, ResidueInv, NEW q \in Reqs, DeleteSchemeAgain(q)
  PROVE  ResidueInv'
<1>2. StoresKept /\ Onward
  BY DeletionStores DEF DeleteSchemeAgain, Noted, Kinds
<1>3. ReqsKept
  <2>1. CASE Goto(q, AfterDelete(req[q].op)) /\ req[q].op # "create"
    <3>1. \A k \in Own : req[q].pc \in Past(k)
      BY DEF DeleteSchemeAgain, Own, Kinds, Past, DeleteSteps
    <3>2. /\ req[q].op = "delete" => AfterDelete(req[q].op) = "dropRow"
          /\ req[q].op = "deletePipeline" => AfterDelete(req[q].op) = "nextRow"
      BY DEF AfterDelete
    <3>3. QED BY <1>2, <2>1, <3>1, <3>2, GotoKept DEF DeleteSteps, CascadeSteps
  <2>2. CASE Reply(q) BY <1>2, <2>2, ReplyKept
  <2>3. QED BY <2>1, <2>2 DEF DeleteSchemeAgain, Finish
<1>9. QED BY <1>2, <1>3, Kept

LEMMA StartCreateKept ==
  ASSUME TypeOK, ResidueInv, NEW q \in Reqs, StartCreate(q)
  PROVE  ResidueInv'
<1>2. StoresKept /\ Onward
  BY CreatedStores DEF StartCreate
<1>3. ReqsKept
  <2>1. /\ req'[q].op = "create" /\ req'[q].pc = "resolveTask"
        /\ req'[q].s.ext = NoIds
        /\ \A p \in Reqs \ {q} : req'[p] = req[p]
        /\ req'[q].todo = {}
    BY DEF StartCreate, TypeOK
  <2>2. Orderly(q)' BY <2>1 DEF Orderly
  <2>3. \A k \in Kinds : req'[q].s.ext[k] <= issued'
    BY <1>2, <2>1 DEF NoIds, Nil, Onward
  <2>4. QED BY <1>2, <2>1, <2>2, <2>3, OthersKept
<1>9. QED BY <1>2, <1>3, Kept

LEMMA StartDeleteKept ==
  ASSUME TypeOK, ResidueInv, NEW q \in Reqs, NEW x \in Rows, StartDelete(q, x)
  PROVE  ResidueInv'
<1>2. StoresKept /\ Onward
  BY CreatedStores DEF StartDelete
<1>3. ReqsKept
  <2>1. /\ req'[q].op = "delete" /\ req'[q].id = x /\ req'[q].s = row[x]
        /\ req'[q].pc = (IF HasIds(row[x]) THEN "delPlan" ELSE "dropRow")
        /\ \A p \in Reqs \ {q} : req'[p] = req[p]
        /\ x \in present /\ row' = row /\ present' = present /\ inserted' = inserted
        /\ Live' = Live /\ issued' = issued /\ req'[q].todo = {}
    BY DEF StartDelete, TypeOK, local, Live
  <2>2. x \in 1 .. inserted' BY <2>1 DEF TypeOK
  <2>3. ASSUME NEW k \in Own, req'[q].pc \in Past(k) PROVE row[x].ext[k] \notin Live'
    <3>1. ~HasIds(row[x]) BY <2>1, <2>3 DEF Past, DeleteSteps
    <3>2. row[x].ext[k] = Nil BY <3>1 DEF HasIds, Own
    <3>3. QED BY <2>1, <3>2, LiveIds
  <2>4. Orderly(q)' BY <2>1, <2>2, <2>3 DEF Orderly, DeleteSteps
  <2>5. \A k \in Kinds : req'[q].s.ext[k] <= issued' BY <2>1 DEF ResidueInv, IdsIssued
  <2>6. QED BY <1>2, <2>1, <2>4, <2>5, OthersKept
<1>9. QED BY <1>2, <1>3, Kept

LEMMA StartDeletePipelineKept ==
  ASSUME TypeOK, ResidueInv, NEW q \in Reqs, StartDeletePipeline(q)
  PROVE  ResidueInv'
<1>2. StoresKept /\ Onward
  BY CreatedStores DEF StartDeletePipeline
<1>3. ReqsKept
  <2>1. PICK p \in pipes :
          req' = [req EXCEPT ![q] =
                    [op |-> "deletePipeline", pc |-> "nextRow", id |-> Nil,
                     s |-> [Blank EXCEPT !.pipe = p],
                     todo |-> {[id |-> r, s |-> row[r]] :
                                 r \in {x \in present : row[x].pipe = p}}]]
    BY DEF StartDeletePipeline
  <2>2. /\ req'[q].op = "deletePipeline" /\ req'[q].pc = "nextRow" /\ req'[q].s.ext = NoIds
        /\ \A e \in req'[q].todo : \E r \in present : e.s = row[r]
        /\ \A p1 \in Reqs \ {q} : req'[p1] = req[p1]
        /\ issued' = issued
    BY <2>1 DEF TypeOK, Blank, StartDeletePipeline
  <2>3. Orderly(q)' BY <2>2 DEF Orderly, CascadeSteps
  <2>4. \A k \in Kinds : req'[q].s.ext[k] <= issued'
    BY <1>2, <2>2 DEF NoIds, Nil, Onward
  <2>5. \A k \in Kinds, e \in req'[q].todo : e.s.ext[k] <= issued'
    BY <2>2, PresentRows DEF ResidueInv, IdsIssued
  <2>6. QED BY <1>2, <2>2, <2>3, <2>4, <2>5, OthersKept
<1>9. QED BY <1>2, <1>3, Kept

LEMMA NextRowKept ==
  ASSUME TypeOK, ResidueInv, NEW q \in Reqs, NextRow(q)
  PROVE  ResidueInv'
<1>2. StoresKept /\ Onward
  BY CreatedStores DEF NextRow
<1>3. ReqsKept
  <2>1. PICK t \in req[q].todo :
          req' = [req EXCEPT ![q] =
                    [req[q] EXCEPT !.todo = req[q].todo \ {t}, !.id = t.id, !.s = t.s,
                                   !.pc = IF HasIds(t.s) THEN "delPlan" ELSE "nextRow"]]
    BY Zenon DEF NextRow
  <2>2. req[q] \in Request /\ req[q].op = "deletePipeline"
    BY DEF NextRow, TypeOK, ResidueInv, Orderly, DeleteSteps, CascadeSteps, Request
  <2>3. /\ req'[q].op = "deletePipeline" /\ req'[q].pc \in {"delPlan", "nextRow"}
        /\ req'[q].s = t.s /\ req'[q].todo \subseteq req[q].todo
        /\ \A p \in Reqs \ {q} : req'[p] = req[p]
        /\ issued' = issued
    BY <2>1, <2>2 DEF TypeOK, Request, NextRow
  <2>4. Orderly(q)' BY <2>3 DEF Orderly, DeleteSteps, CascadeSteps
  <2>5. \A k \in Kinds : req'[q].s.ext[k] <= issued'
    BY <2>1, <2>3 DEF ResidueInv, IdsIssued
  <2>6. \A k \in Kinds, e \in req'[q].todo : e.s.ext[k] <= issued'
    BY <2>3 DEF ResidueInv, IdsIssued
  <2>7. QED BY <1>2, <2>3, <2>4, <2>5, <2>6, OthersKept
<1>9. QED BY <1>2, <1>3, Kept

(* Rows go; those that stay are as they were.                              *)
LEMMA DropStores ==
  ASSUME TypeOK, ResidueInv, NEW gone, Drop(gone) \/ UNCHANGED <<present, row>>,
         UNCHANGED <<inserted, repoTask, remote, issued>>
  PROVE  StoresKept /\ Onward
<1>1. present' \subseteq present /\ \A r \in present \cap present' : row'[r] = row[r]
  BY PresentRows DEF Drop
<1>2. issued' = issued /\ Live' = Live /\ repoTask' = repoTask /\ inserted' = inserted
  BY DEF Live
<1>3. Onward BY <1>1, <1>2, Numbers DEF Onward
<1>4. \A r \in Rows, k \in Kinds : row'[r].ext[k] <= issued'
  BY <1>2, Numbers DEF Drop, Blank, NoIds, Nil, ResidueInv, IdsIssued
<1>5. QED BY <1>2, <1>3, <1>4, LiveIssued DEF StoresKept, ResidueInv, IdsIssued

LEMMA DropRowKept ==
  ASSUME TypeOK, ResidueInv, NEW q \in Reqs, DropRow(q)
  PROVE  ResidueInv'
<1>2. StoresKept /\ Onward BY DropStores DEF DropRow
<1>3. ReqsKept BY <1>2, ReplyKept DEF DropRow
<1>9. QED BY <1>2, <1>3, Kept

LEMMA DropPipelineKept ==
  ASSUME TypeOK, ResidueInv, NEW q \in Reqs, DropPipeline(q)
  PROVE  ResidueInv'
<1>2. StoresKept /\ Onward BY DropStores DEF DropPipeline
<1>3. ReqsKept BY <1>2, ReplyKept DEF DropPipeline
<1>9. QED BY <1>2, <1>3, Kept

LEMMA RestartKept == TypeOK /\ ResidueInv /\ Restart => ResidueInv'
<1> SUFFICES ASSUME TypeOK, ResidueInv, Restart PROVE ResidueInv'
  OBVIOUS
<1>2. StoresKept /\ Onward BY CreatedStores DEF Restart
<1>3. ReqsKept
  <2>1. \A q \in Reqs : req'[q] = Idle BY DEF Restart
  <2>2. \A q \in Reqs : Orderly(q)' BY <2>1 DEF Orderly, Idle
  <2>3. \A k \in Kinds : Idle.s.ext[k] = 0 BY DEF Idle, Blank, NoIds, Nil
  <2>4. \A q \in Reqs, k \in Kinds : /\ req'[q].s.ext[k] <= issued'
                                     /\ \A e \in req'[q].todo : e.s.ext[k] <= issued'
    BY <1>2, <2>1, <2>3 DEF Onward, Idle
  <2>5. QED BY <2>2, <2>4 DEF ReqsKept
<1>9. QED BY <1>2, <1>3, Kept

LEMMA StutterKept == ResidueInv /\ UNCHANGED vars => ResidueInv'
BY DEF ResidueInv, IdsIssued, Orderly, Live, vars

LEMMA ResidueInit == Init => ResidueInv
<1> SUFFICES ASSUME Init PROVE ResidueInv
  OBVIOUS
<1>1. IdsIssued BY DEF Init, IdsIssued, Idle, Blank, NoIds, Nil
<1>2. \A q \in Reqs : Orderly(q) BY DEF Init, Orderly, Idle
<1>3. QED BY <1>1, <1>2 DEF ResidueInv

LEMMA ResidueStep ==
  ASSUME TypeOK, ResidueInv, [Next]_vars
  PROVE  ResidueInv'
<1>1. CASE Restart BY <1>1, RestartKept
<1>2. ASSUME NEW q \in Reqs, Arrive(q) PROVE ResidueInv'
  BY <1>2, StartCreateKept, StartDeleteKept, StartDeletePipelineKept, StutterKept
  DEF Arrive, Reject
<1>3. ASSUME NEW q \in Reqs, CreateStep(q) PROVE ResidueInv'
  BY <1>3, ResolveTaskKept, PostTaskKept, FindTaskKept, PostSchemeKept, FindSchemeKept,
     PostBindingKept, PostPlanKept, FindPlanKept, InsertKept DEF CreateStep
<1>4. ASSUME NEW q \in Reqs, DeleteStep(q) PROVE ResidueInv'
  BY <1>4, DeletePlanKept, DeleteBindingKept, DeleteSchemeKept, CountTaskKept, DeleteTaskKept,
     DeleteSchemeAgainKept, DropRowKept, NextRowKept, DropPipelineKept DEF DeleteStep
<1>5. CASE UNCHANGED vars BY <1>5, StutterKept
<1>6. QED BY <1>1, <1>2, <1>3, <1>4, <1>5 DEF Next

(* ResidueInv, for any number of interleaved requests: a deletion has      *)
(* taken down what its current step presupposes, whatever the other        *)
(* requests create or empty meanwhile, cascades included.                  *)
THEOREM DeletionInOrder == Spec => []ResidueInv
<1>1. TypeOK /\ ResidueInv /\ [Next]_vars => ResidueInv' BY ResidueStep
<1>2. QED BY <1>1, TypeCorrect, ResidueInit, PTL DEF Spec

-----------------------------------------------------------------------------
(* No residue: without a cascade *)

Uncascaded == \A q \in Reqs : req[q].op # "deletePipeline"

(* A request serves its handler until it is answered.                      *)
LEMMA MovesOn ==
  ASSUME TypeOK, NEW q \in Reqs, NEW step, NEW k, NEW i,
         Goto(q, step) \/ Reply(q) \/ Learn(q, k, i, step)
  PROVE  /\ req'[q].op \in {req[q].op, "none"}
         /\ \A p \in Reqs \ {q} : req'[p] = req[p]
<1>1. req[q] \in Request BY DEF TypeOK
<1>2. CASE Goto(q, step) BY <1>1, <1>2 DEF Goto, TypeOK, Request
<1>3. CASE Reply(q) BY <1>3 DEF Reply, Idle, TypeOK
<1>4. CASE Learn(q, k, i, step)
  <2> DEFINE s == WithId(req[q].s, k, i)
  <2>1. req' = [req EXCEPT ![q] = [req[q] EXCEPT !.pc = step, !.s = s]] BY <1>4 DEF Learn
  <2> HIDE DEF s
  <2>2. QED BY <1>1, <2>1 DEF TypeOK, Request
<1>5. QED BY <1>2, <1>3, <1>4

LEMMA SameHandler ==
  ASSUME TypeOK, NEW q \in Reqs, CreateStep(q) \/ DeleteStep(q)
  PROVE  /\ req'[q].op \in {req[q].op, "none"}
         /\ \A p \in Reqs \ {q} : req'[p] = req[p]
<1>1. CASE NextRow(q)
  <2>1. \E t \in req[q].todo, step \in {"delPlan", "nextRow"} : req' = [req EXCEPT ![q] =
          [req[q] EXCEPT !.todo = req[q].todo \ {t}, !.id = t.id, !.s = t.s, !.pc = step]]
    BY <1>1 DEF NextRow
  <2>2. QED BY <2>1 DEF TypeOK, Request
<1>2. \/ NextRow(q)
      \/ \E step, k, i : Goto(q, step) \/ Reply(q) \/ Learn(q, k, i, step)
  <2>1. CASE CreateStep(q)
    BY <2>1 DEF CreateStep, ResolveTask, PostTask, FindTask, PostScheme, FindScheme, PostBinding,
                PostPlan, FindPlan, Insert
  <2>2. CASE DeleteStep(q)
    BY <2>2 DEF DeleteStep, DeletePlan, DeleteBinding, DeleteScheme, CountTask, DeleteTask,
                DeleteSchemeAgain, DropRow, DropPipeline, Finish
  <2>3. QED BY <2>1, <2>2
<1>3. QED BY <1>1, <1>2, MovesOn

LEMMA UncascadedStep ==
  ASSUME "deletePipeline" \notin Handlers, TypeOK, Uncascaded, [Next]_vars
  PROVE  Uncascaded'
<1>1. CASE Restart BY <1>1 DEF Restart, Idle, Uncascaded
<1>2. ASSUME NEW q \in Reqs, Arrive(q) PROVE Uncascaded'
  <2>1. ~StartDeletePipeline(q) BY DEF StartDeletePipeline
  <2>2. CASE StartCreate(q) BY <2>2 DEF StartCreate, TypeOK, Uncascaded
  <2>3. CASE \E r \in Rows : StartDelete(q, r) BY <2>3 DEF StartDelete, TypeOK, Uncascaded
  <2>4. CASE Reject(q) BY <2>4 DEF Reject, vars, Uncascaded
  <2>5. QED BY <1>2, <2>1, <2>2, <2>3, <2>4 DEF Arrive
<1>3. ASSUME NEW q \in Reqs, CreateStep(q) \/ DeleteStep(q) PROVE Uncascaded'
  BY <1>3, SameHandler DEF Uncascaded
<1>4. CASE UNCHANGED vars BY <1>4 DEF vars, Uncascaded
<1>5. QED BY <1>1, <1>2, <1>3, <1>4 DEF Next

LEMMA AlwaysUncascaded ==
  ASSUME "deletePipeline" \notin Handlers
  PROVE  Spec => []Uncascaded
<1>1. Init => Uncascaded BY DEF Init, Idle, Uncascaded
<1>2. TypeOK /\ Uncascaded /\ [Next]_vars => Uncascaded' BY UncascadedStep
<1>3. QED BY <1>1, <1>2, TypeCorrect, PTL DEF Spec

(* Without the cascade its steps are never reached.                        *)
LEMMA NoCascade ==
  ASSUME TypeOK, ResidueInv, Uncascaded, NEW q \in Reqs
  PROVE  req[q].pc # "nextRow"
BY DEF TypeOK, Request, ResidueInv, Orderly, Uncascaded, DeleteSteps, CascadeSteps

(* A row goes alone or with its pipeline.                                  *)
LEMMA RowsGo ==
  ASSUME TypeOK, [Next]_vars, NEW r \in present \ present'
  PROVE  \/ \E q \in Reqs : DropRow(q) /\ r = req[q].id
         \/ \E q \in Reqs : DropPipeline(q) /\ row[r].pipe = req[q].s.pipe
<1>2. CASE UNCHANGED present BY <1>2
<1>3. CASE \E q \in Reqs : Insert(q) BY <1>3 DEF Insert
<1>4. CASE Restart BY <1>4 DEF Restart, local
<1>5. ASSUME NEW q \in Reqs, Arrive(q) PROVE UNCHANGED present
  BY <1>5 DEF Arrive, StartCreate, StartDelete, StartDeletePipeline, Reject, local, vars
<1>6. ASSUME NEW q \in Reqs, CreateStep(q), ~Insert(q) PROVE UNCHANGED present
  BY <1>6 DEF CreateStep, ResolveTask, PostTask, FindTask, PostScheme, FindScheme,
              PostBinding, PostPlan, FindPlan, local
<1>7. ASSUME NEW q \in Reqs, DeleteStep(q), ~DropRow(q), ~DropPipeline(q) PROVE UNCHANGED present
  BY <1>7 DEF DeleteStep, DeletePlan, DeleteBinding, DeleteScheme, CountTask,
              DeleteTask, DeleteSchemeAgain, NextRow, local
<1>8. ASSUME NEW q \in Reqs, DropRow(q) PROVE r = req[q].id BY <1>8 DEF DropRow, Drop
<1>9. ASSUME NEW q \in Reqs, DropPipeline(q) PROVE row[r].pipe = req[q].s.pipe
  BY <1>9 DEF DropPipeline, Drop
<1>10. QED BY <1>2, <1>3, <1>4, <1>5, <1>6, <1>7, <1>8, <1>9 DEF Next, vars

(* DropRow removes a row only when its objects are gone.                   *)
LEMMA RowLeavesClean ==
  ASSUME TypeOK, ResidueInv, NEW q \in Reqs, DropRow(q), req[q].id \in present, NEW k \in Own
  PROVE  row[req[q].id].ext[k] \notin Live
<1>2. req[q].pc = "dropRow" BY DEF DropRow
<1>3. req[q].op = "delete" BY <1>2 DEF TypeOK, Request, ResidueInv, Orderly, DeleteSteps, CascadeSteps
<1>4. req[q].pc \in Past(k) BY <1>2 DEF Past, DeleteSteps
<1>5. row[req[q].id].ext[k] \in {Nil, req[q].s.ext[k]} /\ req[q].s.ext[k] \notin Live
  BY <1>2, <1>3, <1>4 DEF ResidueInv, Orderly
<1>6. QED BY <1>5, LiveIds

-----------------------------------------------------------------------------
(* No residue: a cascade that is alone *)

Sequential == \A p, q \in Reqs : p = q

(* A row records nothing but what the copy that was read of it does.       *)
Copied(r, s) == r \in present => \A k \in Own : row[r].ext[k] \in {Nil, s.ext[k]}
Clean(r) == \A k \in Own : row[r].ext[k] \notin Live
(* A row of the pipeline is to be visited, is being taken down or is down. *)
Covered(q) ==
  req[q].op = "deletePipeline" =>
    /\ \A e \in req[q].todo : e.s.pipe = req[q].s.pipe /\ Copied(e.id, e.s)
    /\ req[q].pc # "nextRow" =>
         /\ Copied(req[q].id, req[q].s)
         /\ \A k \in Own : req[q].pc \in Past(k) => req[q].s.ext[k] \notin Live
    /\ \A r \in present : row[r].pipe = req[q].s.pipe =>
         \/ \E e \in req[q].todo : e.id = r
         \/ req[q].pc # "nextRow" /\ req[q].id = r
         \/ Clean(r)
CascadeInv == \A q \in Reqs : Covered(q)

(* What taking a row down does to the stores, and to the cascade.          *)
Emptying ==
  /\ UNCHANGED present /\ Live' \subseteq Live
  /\ \A r \in Rows : /\ row'[r].pipe = row[r].pipe
                     /\ \A k \in Own : row'[r].ext[k] \in {Nil, row[r].ext[k]}

LEMMA ClearedPipe ==
  ASSUME TypeOK, NEW r, NEW k
  PROVE  \A x \in Rows : Cleared(r, k)[x].pipe = row[x].pipe
<1>1. CASE r \in present
  <2>1. r \in Rows /\ row[r] \in SchemeRow BY <1>1, PresentRows DEF TypeOK
  <2> DEFINE s == WithId([row[r] EXCEPT !.want = row[r].want \ {k}], k, Nil)
  <2>2. s.pipe = row[r].pipe BY <2>1 DEF WithId, SchemeRow
  <2>3. Cleared(r, k) = [row EXCEPT ![r] = s] BY <1>1 DEF Cleared
  <2> HIDE DEF s
  <2>4. QED BY <2>1, <2>2, <2>3 DEF TypeOK
<1>2. CASE r \notin present BY <1>2 DEF Cleared
<1>3. QED BY <1>1, <1>2

LEMMA DeletionEmpties ==
  ASSUME TypeOK, NEW q \in Reqs, NEW j \in Kinds, NEW i, NEW ok \in BOOLEAN,
         DeleteSucceeds(i, ok) \/ DeleteFails(i, ok) \/ UNCHANGED <<remote, issued>>,
         row' = row \/ row' = Cleared(req[q].id, j), UNCHANGED present
  PROVE  Emptying
<1>1. Live' \subseteq Live BY DEF DeleteSucceeds, DeleteFails, Without, Live
<1>2. req[q].id \in Rows \cup {Nil} BY DEF TypeOK, Request
<1>3. \A r \in Rows : /\ row'[r].pipe = row[r].pipe
                      /\ \A k \in Own : row'[r].ext[k] \in {Nil, row[r].ext[k]}
  BY <1>2, ClearedIds, ClearedPipe DEF Own
<1>4. QED BY <1>1, <1>3 DEF Emptying

LEMMA CopiedStays ==
  ASSUME TypeOK, Emptying, NEW r \in Rows \cup {Nil}, NEW s, Copied(r, s)
  PROVE  Copied(r, s)'
BY PresentRows DEF Copied, Emptying

(* A cascade goes on with the row it is at, or has taken it down.          *)
LEMMA CoveredMoved ==
  ASSUME TypeOK, NEW q \in Reqs, Covered(q), req[q].op = "deletePipeline",
         req[q].pc # "nextRow", Emptying, NEW step, NEW s,
         req' = [req EXCEPT ![q] = [req[q] EXCEPT !.pc = step, !.s = s]],
         s.pipe = req[q].s.pipe, \A k \in Own : s.ext[k] = req[q].s.ext[k],
         IF step = "nextRow" THEN \A k \in Own : req[q].pc \in Past(k)
         ELSE \A k \in Own :
                step \in Past(k) => req[q].pc \in Past(k) \/ req[q].s.ext[k] \notin Live'
  PROVE  Covered(q)'
<1>1. /\ req'[q].pc = step /\ req'[q].s = s /\ req'[q].id = req[q].id
      /\ req'[q].todo = req[q].todo
  BY DEF TypeOK, Request
<1>2. /\ req[q].id \in Rows \cup {Nil}
      /\ \A e \in req[q].todo : e.id \in Rows
  BY DEF TypeOK, Request
<1>3. Nil \notin Live' BY LiveIds DEF Emptying
<1>4. \A e \in req[q].todo : e.s.pipe = s.pipe /\ Copied(e.id, e.s)'
  BY <1>2, CopiedStays DEF Covered
<1>5. Copied(req[q].id, s)
  BY DEF Covered, Copied
<1>6. Copied(req[q].id, s)' BY <1>2, <1>5, CopiedStays
<1>7. ASSUME step # "nextRow", NEW k \in Own, step \in Past(k) PROVE s.ext[k] \notin Live'
  BY <1>7 DEF Covered, Emptying
<1>8. ASSUME NEW r \in present', row'[r].pipe = s.pipe
      PROVE  \/ \E e \in req[q].todo : e.id = r
             \/ step # "nextRow" /\ req[q].id = r
             \/ Clean(r)'
  <2>1. r \in present /\ r \in Rows /\ row[r].pipe = req[q].s.pipe
    BY <1>8, PresentRows DEF Emptying
  <2>2. CASE Clean(r)
    <3>1. \A k \in Own : row'[r].ext[k] \notin Live'
      BY <1>3, <2>1, <2>2 DEF Clean, Emptying
    <3>2. QED BY <3>1 DEF Clean
  <2>3. CASE step = "nextRow" /\ req[q].id = r
    <3>1. \A k \in Own : s.ext[k] \notin Live' BY <2>3 DEF Covered, Emptying
    <3>2. \A k \in Own : row'[r].ext[k] \in {Nil, s.ext[k]} BY <1>6, <1>8, <2>3 DEF Copied
    <3>3. QED BY <1>3, <3>1, <3>2 DEF Clean
  <2>4. QED BY <2>1, <2>2, <2>3 DEF Covered
<1>9. QED BY <1>1, <1>4, <1>6, <1>7, <1>8 DEF Covered, Copied, Clean

LEMMA CoveredGoto ==
  ASSUME TypeOK, NEW q \in Reqs, Covered(q), req[q].op = "deletePipeline",
         req[q].pc # "nextRow", Emptying, NEW step, Goto(q, step),
         IF step = "nextRow" THEN \A k \in Own : req[q].pc \in Past(k)
         ELSE \A k \in Own :
                step \in Past(k) => req[q].pc \in Past(k) \/ req[q].s.ext[k] \notin Live'
  PROVE  Covered(q)'
<1>1. req' = [req EXCEPT ![q] = [req[q] EXCEPT !.pc = step, !.s = req[q].s]]
  <2>1. req[q] \in Request BY DEF TypeOK
  <2>2. [req[q] EXCEPT !.pc = step] = [req[q] EXCEPT !.pc = step, !.s = req[q].s]
    BY <2>1 DEF Request
  <2>3. QED BY <2>2 DEF Goto
<1>2. QED BY <1>1, CoveredMoved

LEMMA CoveredReply ==
  ASSUME TypeOK, NEW q \in Reqs, Reply(q)
  PROVE  Covered(q)'
<1>1. req'[q] = Idle BY DEF TypeOK, Reply
<1>2. QED BY <1>1 DEF Covered, Idle

LEMMA DeletionCovered ==
  ASSUME TypeOK, NEW q \in Reqs, Covered(q), req[q].op = "deletePipeline",
         DeletePlan(q) \/ DeleteBinding(q) \/ DeleteScheme(q) \/ DeleteSchemeAgain(q)
  PROVE  Covered(q)'
<1>1. Emptying
  BY DeletionEmpties DEF DeletePlan, DeleteBinding, DeleteScheme, DeleteSchemeAgain, Noted, Kinds
<1>2. Nil \notin Live' BY <1>1, LiveIds DEF Emptying
<1>3. CASE DeletePlan(q)
  <2>1. Reply(q) \/ (Goto(q, "delBinding") /\ req[q].s.ext["plan"] \notin Live')
    BY <1>2, <1>3, GoneAfterDelete DEF DeletePlan
  <2>2. \A k \in Own : "delBinding" \in Past(k) => k = "plan"
    BY DEF Own, Kinds, Past, DeleteSteps
  <2>3. QED BY <1>1, <1>3, <2>1, <2>2, CoveredGoto, CoveredReply DEF DeletePlan
<1>4. CASE DeleteBinding(q)
  <2>1. Reply(q) \/ (Goto(q, "delScheme") /\ req[q].s.ext["binding"] \notin Live')
    BY <1>2, <1>4, GoneAfterDelete DEF DeleteBinding
  <2>2. \A k \in Own : "delScheme" \in Past(k) => k = "binding" \/ req[q].pc \in Past(k)
    BY <1>4 DEF DeleteBinding, Own, Kinds, Past, DeleteSteps
  <2>3. QED BY <1>1, <1>4, <2>1, <2>2, CoveredGoto, CoveredReply DEF DeleteBinding
<1>5. CASE DeleteScheme(q)
  <2>1. Reply(q) \/ (Goto(q, "countTask") /\ req[q].s.ext["scheme"] \notin Live')
    BY <1>2, <1>5, GoneAfterDelete DEF DeleteScheme
  <2>2. \A k \in Own : k = "scheme" \/ req[q].pc \in Past(k)
    BY <1>5 DEF DeleteScheme, Own, Kinds, Past, DeleteSteps
  <2>3. QED BY <1>1, <1>5, <2>1, <2>2, CoveredGoto, CoveredReply DEF DeleteScheme
<1>6. CASE DeleteSchemeAgain(q)
  <2>1. Reply(q) \/ Goto(q, "nextRow") BY <1>6 DEF DeleteSchemeAgain, Finish, AfterDelete
  <2>2. \A k \in Own : req[q].pc \in Past(k)
    BY <1>6 DEF DeleteSchemeAgain, Own, Kinds, Past, DeleteSteps
  <2>3. QED BY <1>1, <1>6, <2>1, <2>2, CoveredGoto, CoveredReply DEF DeleteSchemeAgain
<1>7. QED BY <1>3, <1>4, <1>5, <1>6

LEMMA TaskCovered ==
  ASSUME TypeOK, NEW q \in Reqs, Covered(q), req[q].op = "deletePipeline",
         CountTask(q) \/ DeleteTask(q)
  PROVE  Covered(q)'
<1>1. Emptying
  BY DEF CountTask, DeleteTask, DeleteSucceeds, DeleteFails, Without, local, Live, Emptying
<1>2. req[q].pc \in {"countTask", "delTask"} BY DEF CountTask, DeleteTask
<1>3. \A k \in Own : req[q].pc \in Past(k) BY <1>2 DEF Own, Kinds, Past, DeleteSteps
<1>4. CASE CountTask(q)
  <2> DEFINE i == TaskOf(req[q].s)
             step == IF i # Nil /\ OtherUsers(i, req[q].id) = {} THEN "delTask" ELSE "delAgain"
             s == WithId(req[q].s, "task", i)
  <2>1. Reply(q) \/ req' = [req EXCEPT ![q] = [req[q] EXCEPT !.pc = step, !.s = s]]
    BY <1>4 DEF CountTask, Learn
  <2>2. req[q].s \in SchemeRow BY DEF TypeOK, Request
  <2>3. s.pipe = req[q].s.pipe /\ \A k \in Own : s.ext[k] = req[q].s.ext[k]
    BY <2>2 DEF WithId, SchemeRow, Own, Kinds
  <2>4. step # "nextRow" OBVIOUS
  <2> HIDE DEF s, step
  <2>5. CASE Reply(q) BY <2>5, CoveredReply
  <2>6. CASE req' = [req EXCEPT ![q] = [req[q] EXCEPT !.pc = step, !.s = s]]
    <3>1. req[q].pc # "nextRow" BY <1>2
    <3>2. QED BY <1>1, <1>3, <2>3, <2>4, <2>6, <3>1, CoveredMoved
  <2>7. QED BY <2>1, <2>5, <2>6
<1>5. CASE DeleteTask(q)
  <2>1. Reply(q) \/ Goto(q, "delAgain") BY <1>5 DEF DeleteTask
  <2>2. QED BY <1>1, <1>2, <1>3, <2>1, CoveredGoto, CoveredReply
<1>6. QED BY <1>4, <1>5

LEMMA NextRowCovered ==
  ASSUME TypeOK, NEW q \in Reqs, Covered(q), req[q].op = "deletePipeline", NextRow(q)
  PROVE  Covered(q)'
<1>1. PICK t \in req[q].todo :
        req' = [req EXCEPT ![q] =
                  [req[q] EXCEPT !.todo = req[q].todo \ {t}, !.id = t.id, !.s = t.s,
                                 !.pc = IF HasIds(t.s) THEN "delPlan" ELSE "nextRow"]]
  BY Zenon DEF NextRow
<1>2. /\ req'[q].todo = req[q].todo \ {t} /\ req'[q].id = t.id /\ req'[q].s = t.s
      /\ req'[q].pc = IF HasIds(t.s) THEN "delPlan" ELSE "nextRow"
  BY <1>1 DEF TypeOK, Request
<1>3. /\ req[q].pc = "nextRow" /\ UNCHANGED <<present, row>> /\ Live' = Live
  BY DEF NextRow, local, Live
<1>4. t.s.pipe = req[q].s.pipe /\ Copied(t.id, t.s) BY <1>1 DEF Covered
<1>5. \A k \in Own : "delPlan" \notin Past(k) BY DEF Own, Kinds, Past, DeleteSteps
<1>6. ASSUME ~HasIds(t.s), t.id \in present PROVE Clean(t.id)
  <2>1. \A k \in Own : t.s.ext[k] = Nil BY <1>6 DEF HasIds, Own
  <2>2. QED BY <1>4, <1>6, <2>1, LiveIds DEF Copied, Clean
<1>7. \A e \in req'[q].todo : e.s.pipe = t.s.pipe /\ Copied(e.id, e.s)
  BY <1>2, <1>4 DEF Covered
<1>8. ASSUME NEW r \in present, row[r].pipe = t.s.pipe
      PROVE  \/ \E e \in req'[q].todo : e.id = r
             \/ req'[q].pc # "nextRow" /\ t.id = r
             \/ Clean(r)
  <2>1. (\E e \in req[q].todo : e.id = r) \/ Clean(r) BY <1>3, <1>4, <1>8 DEF Covered
  <2>2. QED BY <1>2, <1>6, <1>8, <2>1
<1>9. QED BY <1>2, <1>3, <1>4, <1>5, <1>7, <1>8 DEF Covered, Copied, Clean

LEMMA ArrivesCovered ==
  ASSUME TypeOK, NEW q \in Reqs, Covered(q), Arrive(q)
  PROVE  Covered(q)'
<1>1. CASE StartCreate(q) BY <1>1 DEF StartCreate, TypeOK, Covered
<1>2. CASE \E r \in Rows : StartDelete(q, r) BY <1>2 DEF StartDelete, TypeOK, Covered
<1>3. CASE Reject(q) BY <1>3 DEF Reject, vars, Covered, Copied, Clean, Live
<1>4. CASE StartDeletePipeline(q)
  <2>1. PICK p \in pipes :
          req' = [req EXCEPT ![q] =
                    [op |-> "deletePipeline", pc |-> "nextRow", id |-> Nil,
                     s |-> [Blank EXCEPT !.pipe = p],
                     todo |-> {[id |-> r, s |-> row[r]] :
                                 r \in {x \in present : row[x].pipe = p}}]]
    BY <1>4 DEF StartDeletePipeline
  <2>2. /\ req'[q].pc = "nextRow" /\ req'[q].s.pipe = p
        /\ req'[q].todo = {[id |-> r, s |-> row[r]] : r \in {x \in present : row[x].pipe = p}}
    BY <2>1 DEF TypeOK, Blank
  <2>3. UNCHANGED <<present, row>> BY <1>4 DEF StartDeletePipeline, local
  <2>4. \A e \in req'[q].todo : e.s.pipe = p /\ Copied(e.id, e.s)
    BY <2>2 DEF Copied
  <2>5. ASSUME NEW r \in present, row[r].pipe = p PROVE \E e \in req'[q].todo : e.id = r
    <3>1. [id |-> r, s |-> row[r]] \in req'[q].todo BY <2>2, <2>5
    <3>2. QED BY <3>1
  <2>6. \A e \in req'[q].todo : Copied(e.id, e.s)' BY <2>3, <2>4 DEF Copied
  <2>7. \A r \in present' : row'[r].pipe = p => \E e \in req'[q].todo : e.id = r
    BY <2>3, <2>5
  <2>8. QED BY <2>2, <2>4, <2>6, <2>7 DEF Covered
<1>5. QED BY <1>1, <1>2, <1>3, <1>4 DEF Arrive

LEMMA CascadeStep ==
  ASSUME Sequential, TypeOK, ResidueInv, CascadeInv, [Next]_vars
  PROVE  CascadeInv'
<1>1. CASE Restart BY <1>1 DEF Restart, Idle, Covered, CascadeInv
<1>2. CASE UNCHANGED vars BY <1>2 DEF vars, CascadeInv, Covered, Copied, Clean, Live
<1>3. ASSUME NEW q \in Reqs, Arrive(q) \/ CreateStep(q) \/ DeleteStep(q) PROVE CascadeInv'
  <2>1. Covered(q)'
    <3>1. CASE Arrive(q) BY <3>1, ArrivesCovered DEF CascadeInv
    <3>2. CASE CreateStep(q) \/ DeleteStep(q)
      <4>1. CASE req[q].op # "deletePipeline"
        BY <3>2, <4>1, SameHandler DEF Covered
      <4>2. CASE req[q].op = "deletePipeline"
        <5>1. req[q].pc \in CascadeSteps
          BY <4>2 DEF ResidueInv, Orderly
        <5>2. ~CreateStep(q) /\ ~DropRow(q)
          BY <5>1 DEF DeleteSteps, CascadeSteps, CreateStep, ResolveTask, PostTask, FindTask, PostScheme,
             FindScheme, PostBinding, PostPlan, FindPlan, Insert, DropRow
        <5>3. QED
          BY <3>2, <4>2, <5>2, DeletionCovered, TaskCovered, NextRowCovered, CoveredReply
          DEF DeleteStep, DropPipeline, CascadeInv
      <4>3. QED BY <4>1, <4>2
    <3>3. QED BY <1>3, <3>1, <3>2
  <2>2. QED BY <2>1 DEF Sequential, CascadeInv
<1>4. QED BY <1>1, <1>2, <1>3 DEF Next

LEMMA AlwaysCascade ==
  ASSUME Sequential
  PROVE  Spec => []CascadeInv
<1>1. Init => CascadeInv BY DEF Init, Idle, CascadeInv, Covered
<1>2. TypeOK /\ ResidueInv /\ CascadeInv /\ [Next]_vars => CascadeInv' BY CascadeStep
<1>3. QED BY <1>1, <1>2, TypeCorrect, DeletionInOrder, PTL DEF Spec

(* When all rows are visited, those of the pipeline are down.              *)
LEMMA PipelineLeavesClean ==
  ASSUME TypeOK, ResidueInv, CascadeInv, NEW q \in Reqs, DropPipeline(q),
         NEW r \in present, row[r].pipe = req[q].s.pipe
  PROVE  Clean(r)
<1>1. req[q].pc = "nextRow" /\ req[q].todo = {} BY DEF DropPipeline
<1>2. req[q].op = "deletePipeline" BY <1>1 DEF TypeOK, Request, ResidueInv, Orderly, DeleteSteps, CascadeSteps
<1>3. QED BY <1>1, <1>2 DEF CascadeInv, Covered

-----------------------------------------------------------------------------
(* No residue: the theorem *)

(* NoResidue: no row is deleted while a remote scheme, binding or plan it  *)
(* records is alive.  This holds with any faults, either of creations and  *)
(* deletions in any number, or of all three handlers one after the other.  *)
THEOREM ResidueFree ==
  ASSUME "deletePipeline" \notin Handlers \/ Sequential
  PROVE  Spec => NoResidue
<1>1. ASSUME TypeOK, ResidueInv, Uncascaded \/ CascadeInv, [Next]_vars PROVE NoResidueStep
  <2> SUFFICES ASSUME NEW r \in present \ present', NEW k \in Own
      PROVE  row[r].ext[k] \notin Live
    BY DEF NoResidueStep
  <2>1. ASSUME NEW q \in Reqs, DropRow(q), r = req[q].id PROVE row[r].ext[k] \notin Live
    BY <1>1, <2>1, RowLeavesClean
  <2>2. ASSUME NEW q \in Reqs, DropPipeline(q), row[r].pipe = req[q].s.pipe
        PROVE  row[r].ext[k] \notin Live
    <3>1. CascadeInv BY <1>1, <2>2, NoCascade DEF DropPipeline
    <3>2. QED BY <1>1, <2>2, <3>1, PipelineLeavesClean DEF Clean
  <2>3. QED BY <1>1, <2>1, <2>2, RowsGo
<1>2. Spec => [](Uncascaded \/ CascadeInv)
  <2>1. CASE "deletePipeline" \notin Handlers BY <2>1, AlwaysUncascaded, PTL
  <2>2. CASE Sequential BY <2>2, AlwaysCascade, PTL
  <2>3. QED BY <2>1, <2>2
<1>3. TypeOK /\ ResidueInv /\ (Uncascaded \/ CascadeInv) /\ [Next]_vars => [NoResidueStep]_vars
  BY <1>1
<1>4. QED BY <1>2, <1>3, TypeCorrect, DeletionInOrder, PTL DEF Spec, NoResidue

-----------------------------------------------------------------------------
(* No shared object: the invariant *)

(* Who may name an object of the third party as its own: the rows and the  *)
(* creations in flight.                                                    *)
Held == {row[r] : r \in present} \cup {req[q].s : q \in Creating}

(* Names are unique over the rows and the creations in flight.             *)
NamesApart ==
  /\ \A r1, r2 \in present : row[r1].name = row[r2].name => r1 = r2
  /\ \A q1, q2 \in Creating : req[q1].s.name = req[q2].s.name => q1 = q2
  /\ \A r \in present, q \in Creating : row[r].name # req[q].s.name

(* The third party never issues an id twice.                               *)
IdsApart ==
  /\ \A o1, o2 \in remote : o1.id = o2.id => o1 = o2
  /\ \A o \in remote : o.id <= issued

(* An id that is held was issued, is that of an object of this kind, name  *)
(* and pipeline while the object lives, and has one name among those who   *)
(* hold it.                                                                *)
HeldByName ==
  \A s \in Held, k \in Own :
    /\ s.ext[k] <= issued
    /\ \A o \in remote : s.ext[k] = o.id => o.kind = k /\ o.name = s.name /\ o.pipe = s.pipe
    /\ \A t \in Held : s.ext[k] # Nil /\ s.ext[k] = t.ext[k] => s.name = t.name

(* A handler is never at a step of another one.                            *)
OwnStep(op, step) ==
  /\ op = "create" => step # "nextRow"
  /\ op \in {"delete", "deletePipeline"} => step \in DeleteSteps \cup {"nextRow"}
OwnSteps == \A q \in Reqs : OwnStep(req[q].op, req[q].pc)

SharedInv == NamesApart /\ IdsApart /\ HeldByName /\ OwnSteps

(* What a step does to the objects: some go, or one with a new id comes.   *)
RemoteStep ==
  \/ remote' \subseteq remote /\ issued' = issued
  \/ \E o : remote' = remote \cup {o} /\ o.id = issued + 1 /\ issued' = issued + 1

(* What a step does to the ids that are held: each was held under the same *)
(* name before, or is that of a live object of this kind, name, pipeline.   *)
NamedObject(s, k) ==
  \E o \in remote' : o.id = s.ext[k] /\ o.kind = k /\ o.name = s.name /\ o.pipe = s.pipe
HeldStep ==
  \A s \in Held', k \in Own :
    \/ s.ext[k] = Nil
    \/ \E t \in Held : t.name = s.name /\ t.pipe = s.pipe /\ t.ext[k] = s.ext[k]
    \/ NamedObject(s, k)

LEMMA HeldShape ==
  TypeOK => /\ \A s \in Held : s \in SchemeRow
            /\ \A s \in Held, k \in Kinds : s.ext[k] \in Nat
            /\ \A o \in remote : o.id \in Nat /\ o.id # Nil
            /\ issued \in Nat
<1> SUFFICES ASSUME TypeOK
    PROVE  /\ \A s \in Held : s \in SchemeRow
           /\ \A s \in Held, k \in Kinds : s.ext[k] \in Nat
           /\ \A o \in remote : o.id \in Nat /\ o.id # Nil
           /\ issued \in Nat
  OBVIOUS
<1>1. \A r \in present : row[r] \in SchemeRow BY PresentRows DEF TypeOK
<1>2. \A q \in Creating : req[q].s \in SchemeRow BY DEF TypeOK, Request, Creating
<1>3. \A s \in Held : s \in SchemeRow BY <1>1, <1>2 DEF Held
<1>4. \A s \in Held, k \in Kinds : s.ext[k] \in Nat BY <1>3 DEF SchemeRow, Ids, Nil
<1>5. \A o \in remote : o.id \in Nat /\ o.id # Nil BY DEF TypeOK, Object, Ids, Nil
<1>6. QED BY <1>3, <1>4, <1>5 DEF TypeOK

LEMMA IdsStayApart ==
  ASSUME TypeOK, IdsApart, RemoteStep
  PROVE  IdsApart' /\ issued <= issued' /\ issued' \in Nat
<1>0. issued \in Nat /\ \A o \in remote : o.id \in Nat BY HeldShape
<1>1. CASE remote' \subseteq remote /\ issued' = issued
  BY <1>0, <1>1 DEF IdsApart
<1>2. ASSUME NEW o, remote' = remote \cup {o}, o.id = issued + 1, issued' = issued + 1
      PROVE  IdsApart' /\ issued <= issued' /\ issued' \in Nat
  BY <1>0, <1>2 DEF IdsApart
<1>3. QED BY <1>1, <1>2 DEF RemoteStep

(* An old holder and a live object with the id it holds have one name and  *)
(* pipeline.                                                               *)
LEMMA OldHolder ==
  ASSUME TypeOK, SharedInv, RemoteStep, NEW t \in Held, NEW k \in Own,
         NEW o \in remote', o.id = t.ext[k]
  PROVE  o.kind = k /\ o.name = t.name /\ o.pipe = t.pipe
<1>1. k \in Kinds /\ t.ext[k] <= issued BY DEF Own, SharedInv, HeldByName
<1>2. issued \in Nat /\ t.ext[k] \in Nat BY <1>1, HeldShape
<1>3. o \in remote
  <2>1. CASE remote' \subseteq remote BY <2>1
  <2>2. ASSUME NEW n, remote' = remote \cup {n}, n.id = issued + 1 PROVE o \in remote
    BY <1>1, <1>2, <2>2
  <2>3. QED BY <2>1, <2>2 DEF RemoteStep
<1>4. QED BY <1>3 DEF SharedInv, HeldByName

LEMMA HeldStaysNamed ==
  ASSUME TypeOK, TypeOK', SharedInv, RemoteStep, HeldStep
  PROVE  HeldByName'
<1>0. IdsApart' /\ issued <= issued' /\ issued' \in Nat /\ issued \in Nat
  BY IdsStayApart, HeldShape DEF SharedInv
<1> SUFFICES ASSUME NEW s \in Held', NEW k \in Own
    PROVE  /\ s.ext[k] <= issued'
           /\ \A o \in remote' :
                s.ext[k] = o.id => o.kind = k /\ o.name = s.name /\ o.pipe = s.pipe
           /\ \A t \in Held' : s.ext[k] # Nil /\ s.ext[k] = t.ext[k] => s.name = t.name
  BY DEF HeldByName
<1>1. k \in Kinds BY DEF Own
<1>2. s.ext[k] <= issued'
  <2>1. CASE s.ext[k] = Nil BY <1>0, <2>1 DEF Nil
  <2>2. ASSUME NEW t \in Held, t.ext[k] = s.ext[k] PROVE s.ext[k] <= issued'
    <3>1. t.ext[k] <= issued /\ t.ext[k] \in Nat
      BY <1>1, HeldShape DEF SharedInv, HeldByName
    <3>2. QED BY <1>0, <2>2, <3>1
  <2>3. CASE NamedObject(s, k) BY <1>0, <2>3 DEF NamedObject, IdsApart
  <2>4. QED BY <2>1, <2>2, <2>3 DEF HeldStep
<1>3. ASSUME NEW o \in remote', s.ext[k] = o.id
      PROVE  o.kind = k /\ o.name = s.name /\ o.pipe = s.pipe
  <2>1. s.ext[k] # Nil
    <3>1. \A x \in remote' : x.id # Nil BY DEF TypeOK, Object, Ids, Nil
    <3>2. QED BY <1>3, <3>1
  <2>2. ASSUME NEW t \in Held, t.name = s.name, t.pipe = s.pipe, t.ext[k] = s.ext[k]
        PROVE  o.kind = k /\ o.name = s.name /\ o.pipe = s.pipe
    BY <1>3, <2>2, OldHolder
  <2>3. CASE NamedObject(s, k) BY <1>0, <1>3, <2>3 DEF NamedObject, IdsApart
  <2>4. QED BY <2>1, <2>2, <2>3 DEF HeldStep
<1>4. ASSUME NEW t \in Held', s.ext[k] # Nil, s.ext[k] = t.ext[k] PROVE s.name = t.name
  <2>1. CASE NamedObject(s, k)
    <3>1. PICK o \in remote' : o.id = s.ext[k] /\ o.name = s.name BY <2>1 DEF NamedObject
    <3>2. ASSUME NEW u \in Held, u.name = t.name, u.ext[k] = t.ext[k] PROVE s.name = t.name
      BY <1>4, <3>1, <3>2, OldHolder
    <3>3. CASE NamedObject(t, k) BY <1>0, <1>4, <3>1, <3>3 DEF NamedObject, IdsApart
    <3>4. QED BY <1>4, <3>2, <3>3 DEF HeldStep
  <2>2. ASSUME NEW u \in Held, u.name = s.name, u.ext[k] = s.ext[k] PROVE s.name = t.name
    <3>1. ASSUME NEW v \in Held, v.name = t.name, v.ext[k] = t.ext[k] PROVE s.name = t.name
      BY <1>4, <2>2, <3>1 DEF SharedInv, HeldByName
    <3>2. CASE NamedObject(t, k)
      <4>1. PICK o \in remote' : o.id = t.ext[k] /\ o.name = t.name BY <3>2 DEF NamedObject
      <4>2. QED BY <1>4, <2>2, <4>1, OldHolder
    <3>3. QED BY <1>4, <3>1, <3>2 DEF HeldStep
  <2>3. QED BY <1>4, <2>1, <2>2 DEF HeldStep
<1>5. QED BY <1>2, <1>3, <1>4

-----------------------------------------------------------------------------
(* No shared object: steps after which the same rows and creations, or     *)
(* fewer, hold the same ids, or fewer, or one that was found by name       *)

RowsShrink ==
  /\ present' \subseteq present
  /\ \A r \in present' : /\ row'[r].name = row[r].name /\ row'[r].pipe = row[r].pipe
                         /\ \A k \in Own : row'[r].ext[k] \in {Nil, row[r].ext[k]}
RequestsKeep ==
  /\ OwnSteps'
  /\ \A q \in Creating' :
    /\ q \in Creating
    /\ req'[q].s.name = req[q].s.name /\ req'[q].s.pipe = req[q].s.pipe
    /\ \A k \in Own : \/ req'[q].s.ext[k] = req[q].s.ext[k]
                      \/ NamedObject(req'[q].s, k)

LEMMA QuietStep ==
  ASSUME TypeOK, TypeOK', SharedInv, RemoteStep, RowsShrink, RequestsKeep
  PROVE  SharedInv'
<1>1. NamesApart' BY DEF SharedInv, NamesApart, RowsShrink, RequestsKeep
<1>2. HeldStep
  <2> SUFFICES ASSUME NEW s \in Held', NEW k \in Own
      PROVE  \/ s.ext[k] = Nil
             \/ \E t \in Held : t.name = s.name /\ t.pipe = s.pipe /\ t.ext[k] = s.ext[k]
             \/ NamedObject(s, k)
    BY DEF HeldStep
  <2>1. ASSUME NEW r \in present', s = row'[r]
        PROVE  \/ s.ext[k] = Nil
               \/ \E t \in Held : t.name = s.name /\ t.pipe = s.pipe /\ t.ext[k] = s.ext[k]
    BY <2>1 DEF RowsShrink, Held
  <2>2. ASSUME NEW q \in Creating', s = req'[q].s
        PROVE  \/ \E t \in Held : t.name = s.name /\ t.pipe = s.pipe /\ t.ext[k] = s.ext[k]
               \/ NamedObject(s, k)
    BY <2>2 DEF RequestsKeep, Held
  <2>3. QED BY <2>1, <2>2 DEF Held
<1>3. OwnSteps' BY DEF RequestsKeep
<1>4. QED BY <1>1, <1>2, <1>3, HeldStaysNamed, IdsStayApart DEF SharedInv

(* The parts of a step.                                                    *)
LEMMA PostRemote ==
  ASSUME TypeOK, NEW k, NEW s, PostSucceeds(k, s) \/ PostFails(k, s)
  PROVE  RemoteStep
<1>1. CASE Created(k, s)
  <2> DEFINE o == [id |-> issued', kind |-> k, name |-> s.name, pipe |-> s.pipe]
  <2>1. remote' = remote \cup {o} /\ o.id = issued + 1 /\ issued' = issued + 1
    BY <1>1 DEF Created
  <2> HIDE DEF o
  <2>2. QED BY <2>1 DEF RemoteStep
<1>2. CASE UNCHANGED <<remote, issued>> BY <1>2 DEF RemoteStep
<1>3. QED BY <1>1, <1>2 DEF PostSucceeds, PostFails

LEMMA DeleteRemote ==
  ASSUME NEW i, NEW ok, DeleteSucceeds(i, ok) \/ DeleteFails(i, ok)
  PROVE  RemoteStep
BY DEF DeleteSucceeds, DeleteFails, Without, RemoteStep

LEMMA SameRemote ==
  ASSUME UNCHANGED <<remote, issued>>
  PROVE  RemoteStep
BY DEF RemoteStep

LEMMA SameRowsShrink ==
  ASSUME UNCHANGED <<present, row>>
  PROVE  RowsShrink
BY DEF RowsShrink

LEMMA ClearedShrink ==
  ASSUME TypeOK, NEW r \in Rows \cup {Nil}, NEW j \in Kinds,
         row' = row \/ row' = Cleared(r, j), UNCHANGED present
  PROVE  RowsShrink
<1>1. CASE row' = row BY <1>1, SameRowsShrink
<1>2. CASE row' = Cleared(r, j)
  <2>1. \A x \in Rows, k \in Kinds : row'[x].ext[k] \in {Nil, row[x].ext[k]}
    BY <1>2, ClearedIds
  <2>2. \A x \in Rows : row'[x].name = row[x].name
    BY <1>2 DEF Cleared, WithId, TypeOK, SchemeRow
  <2>3. \A x \in Rows : row'[x].pipe = row[x].pipe BY <1>2, ClearedPipe
  <2>4. QED BY <2>1, <2>2, <2>3, PresentRows DEF RowsShrink, Own
<1>3. QED BY <1>1, <1>2

LEMMA DropShrink ==
  ASSUME TypeOK, NEW gone, Drop(gone)
  PROVE  RowsShrink
BY PresentRows DEF Drop, RowsShrink

LEMMA SameCreations ==
  ASSUME SharedInv, UNCHANGED req
  PROVE  RequestsKeep
BY DEF RequestsKeep, Creating, SharedInv, OwnSteps, OwnStep

LEMMA ReplyKeeps ==
  ASSUME TypeOK, SharedInv, NEW q \in Reqs, Reply(q)
  PROVE  RequestsKeep
BY DEF TypeOK, Reply, Idle, RequestsKeep, Creating, SharedInv, OwnSteps, OwnStep

LEMMA GotoKeeps ==
  ASSUME TypeOK, SharedInv, NEW q \in Reqs, NEW step, Goto(q, step),
         OwnStep(req[q].op, step)
  PROVE  RequestsKeep
<1>1. /\ req'[q].pc = step
      /\ \A p \in Reqs : req'[p].op = req[p].op /\ req'[p].s = req[p].s
      /\ \A p \in Reqs \ {q} : req'[p].pc = req[p].pc
  BY DEF TypeOK, Request, Goto
<1>2. QED BY <1>1 DEF RequestsKeep, Creating, SharedInv, OwnSteps, OwnStep

LEMMA FinishKeeps ==
  ASSUME TypeOK, SharedInv, NEW q \in Reqs, Finish(q)
  PROVE  RequestsKeep
BY ReplyKeeps, GotoKeeps DEF Finish, AfterDelete, OwnStep, DeleteSteps, TypeOK, Request

LEMMA LearnKeeps ==
  ASSUME TypeOK, SharedInv, NEW q \in Reqs, NEW j \in Kinds, NEW i, NEW step,
         Learn(q, j, i, step), OwnStep(req[q].op, step),
         j # "task" => \E o \in remote' : /\ o.id = i /\ o.kind = j
                                         /\ o.name = req[q].s.name /\ o.pipe = req[q].s.pipe
  PROVE  RequestsKeep
<1> DEFINE s == WithId(req[q].s, j, i)
<1>1. req[q].s \in SchemeRow BY DEF TypeOK, Request
<1>2. /\ s.name = req[q].s.name /\ s.pipe = req[q].s.pipe
      /\ \A k \in Kinds : s.ext[k] = IF k = j THEN i ELSE req[q].s.ext[k]
  BY <1>1 DEF WithId, SchemeRow
<1>3. /\ req'[q].op = req[q].op /\ req'[q].s = s /\ req'[q].pc = step
      /\ \A p \in Reqs \ {q} : req'[p] = req[p]
  BY DEF TypeOK, Request, Learn
<1> HIDE DEF s
<1>4. \A k \in Own : s.ext[k] = req[q].s.ext[k] \/ NamedObject(s, k)
  BY <1>2 DEF Own, NamedObject
<1>5. QED BY <1>2, <1>3, <1>4 DEF RequestsKeep, Creating, SharedInv, OwnSteps, OwnStep

(* An id that is found by name is that of a live object of that name and   *)
(* pipeline.                                                               *)
LEMMA FoundNamed ==
  ASSUME NEW k \in Own, NEW s, NEW i \in Matches(k, s)
  PROVE  \E o \in remote : o.id = i /\ o.kind = k /\ o.name = s.name /\ o.pipe = s.pipe
<1>1. k # "task" BY DEF Own
<1>2. PICK o \in {x \in remote :
          /\ x.kind = k
          /\ x.name = s.name \/ (k = "task" /\ <<s.name, x.name>> \in Similar)
          /\ k = "task" \/ x.pipe = s.pipe} : i = o.id
  BY Zenon DEF Matches
<1>3. QED BY <1>1, <1>2

-----------------------------------------------------------------------------
(* No shared object: the actions *)

LEMMA CreateQuiet ==
  ASSUME TypeOK, SharedInv, NEW q \in Reqs, CreateStep(q), ~Insert(q)
  PROVE  RemoteStep /\ RowsShrink /\ RequestsKeep
<1>0. OwnStep(req[q].op, req[q].pc) BY DEF SharedInv, OwnSteps
<1>1. RowsShrink
  BY SameRowsShrink
  DEF CreateStep, ResolveTask, PostTask, FindTask, PostScheme, FindScheme, PostBinding,
      PostPlan, FindPlan, local
<1>a. \A step : step # "nextRow" => OwnStep(req[q].op, step)
  BY <1>0
  DEF OwnStep, CreateStep, ResolveTask, PostTask, FindTask, PostScheme, FindScheme,
      PostBinding, PostPlan, FindPlan, Insert, DeleteSteps
<1>2. CASE ResolveTask(q)
  <2>1. RequestsKeep BY <1>a, <1>2, GotoKeeps, LearnKeeps DEF ResolveTask, Kinds
  <2>2. QED BY <1>1, <1>2, <2>1, SameRemote DEF ResolveTask
<1>3. CASE PostTask(q)
  BY <1>a, <1>1, <1>3, PostRemote, GotoKeeps, ReplyKeeps DEF PostTask
<1>4. CASE FindTask(q)
  <2>1. RequestsKeep BY <1>a, <1>4, ReplyKeeps, LearnKeeps DEF FindTask, Kinds
  <2>2. QED BY <1>1, <1>4, <2>1, SameRemote DEF FindTask
<1>5. CASE PostScheme(q)
  BY <1>a, <1>1, <1>5, PostRemote, GotoKeeps DEF PostScheme
<1>6. CASE FindScheme(q)
  <2>1. "scheme" \in Own /\ "scheme" \in Kinds BY DEF Own, Kinds
  <2>2. remote' = remote BY <1>6 DEF FindScheme
  <2>3. AfterScheme(req[q].s) # "nextRow" BY DEF AfterScheme
  <2>4. CASE \E i \in Matches("scheme", req[q].s) :
                Learn(q, "scheme", i, AfterScheme(req[q].s))
    <3>1. PICK i \in Matches("scheme", req[q].s) :
             Learn(q, "scheme", i, AfterScheme(req[q].s))
      BY <2>4
    <3>2. RequestsKeep BY <1>a, <2>1, <2>2, <2>3, <3>1, LearnKeeps, FoundNamed
    <3>3. QED BY <1>1, <1>6, <3>2, SameRemote DEF FindScheme
  <2>5. CASE Goto(q, "delPlan")
    BY <1>a, <1>1, <1>6, <2>5, GotoKeeps, SameRemote DEF FindScheme
  <2>6. QED BY <1>6, <2>4, <2>5 DEF FindScheme
<1>7. CASE PostBinding(q)
  <2>1. "binding" \in Own /\ "binding" \in Kinds BY DEF Own, Kinds
  <2>2. ASSUME PostSucceeds("binding", req[q].s)
        PROVE  \E o \in remote' : /\ o.id = issued' /\ o.kind = "binding"
                                  /\ o.name = req[q].s.name /\ o.pipe = req[q].s.pipe
    <3> DEFINE o == [id |-> issued', kind |-> "binding", name |-> req[q].s.name,
                     pipe |-> req[q].s.pipe]
    <3>1. remote' = remote \cup {o} BY <2>2, Zenon DEF PostSucceeds, Created
    <3>2. /\ o.id = issued' /\ o.kind = "binding"
          /\ o.name = req[q].s.name /\ o.pipe = req[q].s.pipe
      OBVIOUS
    <3> HIDE DEF o
    <3>3. QED BY <3>1, <3>2
  <2> DEFINE step == IF "plan" \in req[q].s.want THEN "postPlan" ELSE "insert"
  <2>3. CASE PostSucceeds("binding", req[q].s) /\ Learn(q, "binding", issued', step)
    <3>1. step # "nextRow" OBVIOUS
    <3> HIDE DEF step
    <3>2. RequestsKeep BY <1>a, <2>1, <2>2, <2>3, <3>1, LearnKeeps
    <3>3. QED BY <1>1, <2>3, <3>2, PostRemote
  <2>4. CASE PostFails("binding", req[q].s) /\ Goto(q, "delPlan")
    BY <1>a, <1>1, <2>4, GotoKeeps, PostRemote
  <2>5. QED BY <1>7, <2>3, <2>4 DEF PostBinding
<1>8. CASE PostPlan(q)
  <2>1. RemoteStep
    <3>1. CASE PostSucceeds("plan", req[q].s) \/ PostFails("plan", req[q].s)
      BY <3>1, PostRemote
    <3>2. CASE UNCHANGED <<remote, issued>> BY <3>2, SameRemote
    <3>3. QED BY <1>8, <3>1, <3>2 DEF PostPlan
  <2>2. Goto(q, "findPlan") \/ Goto(q, "delPlan") BY <1>8 DEF PostPlan
  <2>3. QED BY <1>a, <1>1, <2>1, <2>2, GotoKeeps
<1>9. CASE FindPlan(q)
  <2>1. "plan" \in Own /\ "plan" \in Kinds BY DEF Own, Kinds
  <2>2. remote' = remote BY <1>9 DEF FindPlan
  <2>3. RequestsKeep BY <1>a, <1>9, <2>1, <2>2, GotoKeeps, LearnKeeps, FoundNamed DEF FindPlan
  <2>4. QED BY <1>1, <1>9, <2>3, SameRemote DEF FindPlan
<1>10. QED
  BY <1>2, <1>3, <1>4, <1>5, <1>6, <1>7, <1>8, <1>9 DEF CreateStep

LEMMA DeleteQuiet ==
  ASSUME TypeOK, SharedInv, NEW q \in Reqs, DeleteStep(q)
  PROVE  RemoteStep /\ RowsShrink /\ RequestsKeep
<1>0. req[q].id \in Rows \cup {Nil} BY DEF TypeOK, Request
<1>a. \A step \in DeleteSteps : step # "dropRow" => OwnStep(req[q].op, step)
  BY DEF OwnStep, DeleteSteps
<1>1. CASE DeletePlan(q)
  BY <1>0, <1>a, <1>1, DeleteRemote, SameRemote, ClearedShrink, GotoKeeps, ReplyKeeps
  DEF DeletePlan, Noted, Kinds, DeleteSteps
<1>2. CASE DeleteBinding(q)
  BY <1>0, <1>a, <1>2, DeleteRemote, SameRemote, ClearedShrink, GotoKeeps, ReplyKeeps
  DEF DeleteBinding, Noted, Kinds, DeleteSteps
<1>3. CASE DeleteScheme(q)
  BY <1>0, <1>a, <1>3, DeleteRemote, SameRemote, ClearedShrink, GotoKeeps, ReplyKeeps
  DEF DeleteScheme, Noted, Kinds, DeleteSteps
<1>4. CASE CountTask(q)
  <2>1. RequestsKeep BY <1>a, <1>4, ReplyKeeps, LearnKeeps DEF CountTask, Kinds, DeleteSteps
  <2>2. QED BY <1>4, <2>1, SameRemote, SameRowsShrink DEF CountTask, local
<1>5. CASE DeleteTask(q)
  BY <1>a, <1>5, DeleteRemote, SameRowsShrink, GotoKeeps, ReplyKeeps DEF DeleteTask, DeleteSteps
<1>6. CASE DeleteSchemeAgain(q)
  BY <1>0, <1>6, DeleteRemote, SameRemote, ClearedShrink, FinishKeeps, ReplyKeeps
  DEF DeleteSchemeAgain, Noted, Kinds, DeleteSteps
<1>7. CASE DropRow(q)
  BY <1>7, SameRemote, DropShrink, SameRowsShrink, ReplyKeeps DEF DropRow
<1>8. CASE NextRow(q)
  <2>1. req[q].op # "create" BY <1>8 DEF NextRow, SharedInv, OwnSteps, OwnStep, Creating
  <2>a. req'[q].op = req[q].op /\ req'[q].pc \in {"delPlan", "nextRow"}
    BY <1>8 DEF NextRow, TypeOK, Request
  <2>2. RequestsKeep
    BY <1>8, <2>1, <2>a
    DEF DeleteSteps, NextRow, TypeOK, Request, RequestsKeep, Creating, SharedInv, OwnSteps, OwnStep
  <2>3. QED BY <1>8, <2>2, SameRemote, SameRowsShrink DEF NextRow, local
<1>9. CASE DropPipeline(q)
  BY <1>9, SameRemote, DropShrink, SameRowsShrink, ReplyKeeps DEF DropPipeline
<1>10. QED
  BY <1>1, <1>2, <1>3, <1>4, <1>5, <1>6, <1>7, <1>8, <1>9 DEF DeleteStep

(* The two steps that change who holds what: a creation begins under a     *)
(* name that is free, and its scheme becomes a row.                        *)
LEMMA StartCreateShared ==
  ASSUME DistinctNames, TypeOK, TypeOK', SharedInv, NEW q \in Reqs, StartCreate(q)
  PROVE  SharedInv'
<1>1. PICK n \in Names :
        /\ NameFree(n)
        /\ req'[q].op = "create" /\ req'[q].pc = "resolveTask"
        /\ req'[q].s.name = n /\ req'[q].s.ext = NoIds
        /\ \A p \in Reqs \ {q} : req'[p] = req[p]
  BY DEF StartCreate, TypeOK
<1>2. UNCHANGED <<present, row, remote, issued>> /\ req[q].op = "none"
  BY DEF StartCreate, local
<1>3. Creating' = Creating \cup {q} BY <1>1, <1>2 DEF Creating
<1>4. NamesApart'
  BY <1>1, <1>2, <1>3 DEF SharedInv, NamesApart, NameFree, Creating
<1>5. OwnSteps' BY <1>1 DEF SharedInv, OwnSteps, OwnStep
<1>6. HeldStep
  <2> SUFFICES ASSUME NEW s \in Held', NEW k \in Own
      PROVE  \/ s.ext[k] = Nil
             \/ \E t \in Held : t.name = s.name /\ t.pipe = s.pipe /\ t.ext[k] = s.ext[k]
    BY DEF HeldStep
  <2>1. CASE s = req'[q].s BY <1>1, <2>1 DEF NoIds, Own
  <2>2. CASE s # req'[q].s
    <3>1. s \in Held BY <1>1, <1>2, <1>3, <2>2 DEF Held, Creating
    <3>2. QED BY <3>1
  <2>3. QED BY <2>1, <2>2
<1>7. QED
  BY <1>2, <1>4, <1>5, <1>6, SameRemote, HeldStaysNamed, IdsStayApart DEF SharedInv

LEMMA InsertShared ==
  ASSUME TypeOK, TypeOK', SharedInv, NEW q \in Reqs, Insert(q)
  PROVE  SharedInv'
<1>0. req[q].op = "create" /\ OwnStep(req[q].op, "delPlan")
  BY DEF Insert, SharedInv, OwnSteps, OwnStep, DeleteSteps, TypeOK, Request
<1>1. RemoteStep BY SameRemote DEF Insert
<1>2. CASE Goto(q, "delPlan") /\ UNCHANGED <<present, row>>
  BY <1>0, <1>1, <1>2, GotoKeeps, SameRowsShrink, QuietStep
<1>3. CASE /\ inserted < MaxRows
           /\ inserted' = inserted + 1
           /\ present' = present \cup {inserted'}
           /\ row' = [row EXCEPT ![inserted'] = req[q].s]
           /\ Reply(q)
  <2>0. inserted' \in Rows /\ inserted' \notin present
    BY <1>3, PresentRows, ConstantsAssumption DEF TypeOK, Rows
  <2>1. row'[inserted'] = req[q].s /\ \A r \in present : row'[r] = row[r]
    BY <1>3, <2>0, PresentRows DEF TypeOK
  <2>2. q \in Creating => Creating' = Creating \ {q}
    BY <1>3 DEF Reply, Idle, TypeOK, Creating
  <2>3. \A p \in Reqs \ {q} : req'[p] = req[p] BY <1>3 DEF Reply, TypeOK
  <2>4. q \in Creating BY <1>0 DEF Creating
  <2>5. NamesApart'
    <3>1. \A p \in Creating' : p \in Creating /\ p # q /\ req'[p].s.name = req[p].s.name
      BY <2>2, <2>3, <2>4 DEF Creating
    <3>2. \A r \in present' : \/ r \in present /\ row'[r].name = row[r].name
                              \/ r = inserted' /\ row'[r].name = req[q].s.name
      BY <1>3, <2>1
    <3>3. QED BY <2>4, <3>1, <3>2 DEF SharedInv, NamesApart
  <2>6. OwnSteps' BY <1>3, <2>3 DEF Reply, Idle, TypeOK, SharedInv, OwnSteps, OwnStep
  <2>7. HeldStep
    <3>1. \A s \in Held' : s \in Held
      BY <1>3, <2>1, <2>2, <2>3, <2>4 DEF Held, Creating
    <3>2. QED BY <3>1 DEF HeldStep
  <2>8. QED BY <1>1, <2>5, <2>6, <2>7, HeldStaysNamed, IdsStayApart DEF SharedInv
<1>4. QED BY <1>2, <1>3 DEF Insert

LEMMA DeletionKeeps ==
  ASSUME TypeOK, SharedInv, NEW q \in Reqs,
         StartDeletePipeline(q) \/ \E r \in Rows : StartDelete(q, r)
  PROVE  RequestsKeep
<1>1. /\ req'[q].op \in {"delete", "deletePipeline"}
      /\ req'[q].pc \in {"delPlan", "dropRow", "nextRow"}
      /\ \A p \in Reqs \ {q} : req'[p] = req[p]
  BY DEF StartDelete, StartDeletePipeline, TypeOK
<1>2. QED BY <1>1 DEF RequestsKeep, Creating, SharedInv, OwnSteps, OwnStep, DeleteSteps

LEMMA SharedInit == Init => SharedInv
BY DEF Init, SharedInv, NamesApart, IdsApart, HeldByName, OwnSteps, OwnStep, Held,
       Creating, Idle

LEMMA SharedStutter == SharedInv /\ UNCHANGED vars => SharedInv'
BY DEF SharedInv, NamesApart, IdsApart, HeldByName, OwnSteps, Held, Creating, vars

LEMMA SharedStep ==
  ASSUME DistinctNames, TypeOK, TypeOK', SharedInv, [Next]_vars
  PROVE  SharedInv'
<1>1. CASE Restart
  <2>1. RequestsKeep
    BY <1>1 DEF Restart, RequestsKeep, OwnSteps, OwnStep, Creating, Idle
  <2>2. RemoteStep /\ RowsShrink BY <1>1, SameRemote, SameRowsShrink DEF Restart, local
  <2>3. QED BY <2>1, <2>2, QuietStep
<1>2. ASSUME NEW q \in Reqs, Arrive(q) PROVE SharedInv'
  <2>1. CASE StartCreate(q) BY <2>1, StartCreateShared
  <2>2. CASE StartDeletePipeline(q) \/ \E r \in Rows : StartDelete(q, r)
    <3>1. RequestsKeep BY <2>2, DeletionKeeps
    <3>2. RemoteStep /\ RowsShrink
      BY <2>2, SameRemote, SameRowsShrink DEF StartDelete, StartDeletePipeline, local
    <3>3. QED BY <3>1, <3>2, QuietStep
  <2>3. CASE Reject(q) BY <2>3, SharedStutter DEF Reject
  <2>4. QED BY <1>2, <2>1, <2>2, <2>3 DEF Arrive
<1>3. ASSUME NEW q \in Reqs, CreateStep(q) PROVE SharedInv'
  BY <1>3, CreateQuiet, QuietStep, InsertShared
<1>4. ASSUME NEW q \in Reqs, DeleteStep(q) PROVE SharedInv'
  BY <1>4, DeleteQuiet, QuietStep
<1>5. CASE UNCHANGED vars BY <1>5, SharedStutter
<1>6. QED BY <1>1, <1>2, <1>3, <1>4, <1>5 DEF Next

LEMMA ApartShared == TypeOK /\ SharedInv => NoSharedRemote
<1> SUFFICES ASSUME TypeOK, SharedInv, NEW r1 \in present, NEW r2 \in present, NEW k \in Own,
                    row[r1].ext[k] # Nil, row[r1].ext[k] = row[r2].ext[k]
    PROVE  r1 = r2
  BY DEF NoSharedRemote
<1>1. row[r1] \in Held /\ row[r2] \in Held BY DEF Held
<1>2. row[r1].name = row[r2].name BY <1>1 DEF SharedInv, HeldByName
<1>3. QED BY <1>2 DEF SharedInv, NamesApart

(* NoSharedRemote, for the three handlers, any number of requests at the   *)
(* same time and all faults: while no name is reused, no two rows carry    *)
(* the same remote scheme, binding or plan, although the ids are looked up *)
(* by name among what other requests and earlier failures have left.       *)
THEOREM NothingShared ==
  ASSUME DistinctNames
  PROVE  Spec => []NoSharedRemote
<1>1. TypeOK /\ TypeOK' /\ SharedInv /\ [Next]_vars => SharedInv' BY SharedStep
<1>2. Spec => []SharedInv BY <1>1, SharedInit, TypeCorrect, PTL DEF Spec
<1>3. QED BY <1>2, ApartShared, TypeCorrect, PTL

-----------------------------------------------------------------------------
(* What is recorded lives: every id of a checker task is that of a task    *)

TaskIds == {repoTask[p] : p \in Repos} \cup {row[r].ext["task"] : r \in present}
           \cup {req[q].s.ext["task"] : q \in Reqs}
           \cup {e.s.ext["task"] : e \in UNION {req[q].todo : q \in Reqs}}
TasksAreTasks == \A o \in remote : o.id \in TaskIds => o.kind = "task"

(* Where the ids of tasks come from in a step.                             *)
TaskSource(i) ==
  \/ i = Nil \/ i \in TaskIds
  \/ \E o \in remote' : o.id = i /\ o.kind = "task"
RequestTasks ==
  \A q \in Reqs : /\ TaskSource(req'[q].s.ext["task"])
                  /\ \A e \in req'[q].todo : TaskSource(e.s.ext["task"])
TaskStep ==
  /\ \A p \in Repos : TaskSource(repoTask'[p])
  /\ \A r \in present' : TaskSource(row'[r].ext["task"])
  /\ RequestTasks

LEMMA TasksStayTasks ==
  ASSUME TypeOK, TypeOK', IdsIssued, SharedInv, TasksAreTasks, RemoteStep, TaskStep
  PROVE  TasksAreTasks'
<1>0. IdsApart' BY IdsStayApart DEF SharedInv
<1> SUFFICES ASSUME NEW o \in remote', o.id \in TaskIds' PROVE o.kind = "task"
  BY DEF TasksAreTasks
<1>1. TaskSource(o.id) BY DEF TaskIds, TaskStep, RequestTasks
<1>2. o.id # Nil BY DEF TypeOK, Object, Ids, Nil
<1>3. CASE o.id \in TaskIds
  <2>1. o.id <= issued /\ o.id \in Nat /\ issued \in Nat
    BY <1>3, PresentRows, Numbers DEF TaskIds, IdsIssued, Kinds
  <2>2. o \in remote BY <2>1 DEF RemoteStep
  <2>3. QED BY <1>3, <2>2 DEF TasksAreTasks
<1>4. CASE \E x \in remote' : x.id = o.id /\ x.kind = "task"
  BY <1>0, <1>4 DEF IdsApart
<1>5. QED BY <1>1, <1>2, <1>3, <1>4 DEF TaskSource

LEMMA SameRepoTasks ==
  ASSUME UNCHANGED repoTask
  PROVE  \A p \in Repos : TaskSource(repoTask'[p])
BY DEF TaskSource, TaskIds

LEMMA ShrunkRowTasks ==
  ASSUME TypeOK,
         \/ UNCHANGED <<present, row>>
         \/ \E r \in Rows \cup {Nil}, j \in Kinds : row' = Cleared(r, j) /\ UNCHANGED present
         \/ \E gone : Drop(gone)
  PROVE  \A r \in present' : TaskSource(row'[r].ext["task"])
<1>1. CASE UNCHANGED <<present, row>> BY <1>1 DEF TaskSource, TaskIds
<1>2. ASSUME NEW r \in Rows \cup {Nil}, NEW j \in Kinds, row' = Cleared(r, j),
             UNCHANGED present
      PROVE  \A x \in present' : TaskSource(row'[x].ext["task"])
  BY <1>2, ClearedIds, PresentRows DEF TaskSource, TaskIds, Kinds
<1>3. ASSUME NEW gone, Drop(gone)
      PROVE  \A x \in present' : TaskSource(row'[x].ext["task"])
  BY <1>3, PresentRows DEF TaskSource, TaskIds, Drop
<1>4. QED BY <1>1, <1>2, <1>3

LEMMA ReplyTasks ==
  ASSUME TypeOK, NEW q \in Reqs, Reply(q)
  PROVE  RequestTasks
BY DEF TypeOK, Reply, Idle, Blank, NoIds, Kinds, RequestTasks, TaskSource, TaskIds

LEMMA GotoTasks ==
  ASSUME TypeOK, NEW q \in Reqs, NEW step, Goto(q, step)
  PROVE  RequestTasks
<1>1. \A p \in Reqs : req'[p].s = req[p].s /\ req'[p].todo = req[p].todo
  BY DEF TypeOK, Request, Goto
<1>2. QED BY <1>1 DEF RequestTasks, TaskSource, TaskIds

LEMMA LearnTasks ==
  ASSUME TypeOK, NEW q \in Reqs, NEW j \in Kinds, NEW i, NEW step, Learn(q, j, i, step),
         j = "task" => TaskSource(i)
  PROVE  RequestTasks
<1>1. req[q].s \in SchemeRow BY DEF TypeOK, Request
<1>2. /\ req'[q].s = WithId(req[q].s, j, i)
      /\ \A p \in Reqs \ {q} : req'[p].s = req[p].s
      /\ \A p \in Reqs : req'[p].todo = req[p].todo
  BY DEF TypeOK, Request, Learn
<1>3. req'[q].s.ext["task"] = IF j = "task" THEN i ELSE req[q].s.ext["task"]
  BY <1>1, <1>2 DEF WithId, SchemeRow, Kinds
<1>4. QED BY <1>2, <1>3 DEF RequestTasks, TaskSource, TaskIds

(* A search for a task returns only tasks.                                 *)
LEMMA FoundTask ==
  ASSUME NEW s, UNCHANGED remote, NEW i \in Matches("task", s)
  PROVE  TaskSource(i)
<1>1. PICK o \in {x \in remote :
          /\ x.kind = "task"
          /\ x.name = s.name \/ ("task" = "task" /\ <<s.name, x.name>> \in Similar)
          /\ "task" = "task" \/ x.pipe = s.pipe} : i = o.id
  BY Zenon DEF Matches
<1>2. QED BY <1>1 DEF TaskSource

LEMMA CreateTasks ==
  ASSUME TypeOK, ResidueInv, NEW q \in Reqs, CreateStep(q)
  PROVE  TaskStep
<1>1. CASE ResolveTask(q)
  <2>1. \A t \in ReusableTasks(req[q].s.repo) : TaskSource(t)
    <3>1. req[q].s.repo \in Repos BY DEF TypeOK, Request, SchemeRow
    <3>2. QED BY <3>1 DEF ReusableTasks, TaskSource, TaskIds
  <2>2. \A p \in Repos : TaskSource(repoTask'[p])
    BY <1>1, <2>1, SameRepoTasks DEF ResolveTask, Cached, TypeOK, TaskSource, TaskIds
  <2>3. RequestTasks
    BY <1>1, <2>1, GotoTasks, LearnTasks DEF ResolveTask, Kinds
  <2>4. QED BY <1>1, <2>2, <2>3, ShrunkRowTasks DEF ResolveTask, TaskStep
<1>2. CASE PostTask(q)
  BY <1>2, SameRepoTasks, ShrunkRowTasks, GotoTasks, ReplyTasks DEF PostTask, local, TaskStep
<1>3. CASE FindTask(q)
  <2>1. \A t \in Matches("task", req[q].s) : TaskSource(t)
    BY <1>3, FoundTask DEF FindTask
  <2>2. \A p \in Repos : TaskSource(repoTask'[p])
    BY <1>3, <2>1, SameRepoTasks DEF FindTask, Cached, TypeOK, TaskSource, TaskIds
  <2>3. RequestTasks
    BY <1>3, <2>1, ReplyTasks, LearnTasks DEF FindTask, Kinds
  <2>4. QED BY <1>3, <2>2, <2>3, ShrunkRowTasks DEF FindTask, TaskStep
<1>4. CASE PostScheme(q)
  BY <1>4, SameRepoTasks, ShrunkRowTasks, GotoTasks DEF PostScheme, local, TaskStep
<1>5. CASE FindScheme(q)
  BY <1>5, SameRepoTasks, ShrunkRowTasks, GotoTasks, LearnTasks
  DEF FindScheme, local, TaskStep, Kinds
<1>6. CASE PostBinding(q)
  BY <1>6, SameRepoTasks, ShrunkRowTasks, GotoTasks, LearnTasks
  DEF PostBinding, local, TaskStep, Kinds
<1>7. CASE PostPlan(q)
  BY <1>7, SameRepoTasks, ShrunkRowTasks, GotoTasks DEF PostPlan, local, TaskStep
<1>8. CASE FindPlan(q)
  BY <1>8, SameRepoTasks, ShrunkRowTasks, GotoTasks, LearnTasks
  DEF FindPlan, local, TaskStep, Kinds
<1>9. CASE Insert(q)
  <2>1. RequestTasks
    BY <1>9, ReplyTasks, GotoTasks DEF Insert
  <2>2. \A r \in present' : TaskSource(row'[r].ext["task"])
    <3>1. CASE UNCHANGED <<present, row>> BY <3>1, ShrunkRowTasks
    <3>2. CASE /\ present' = present \cup {inserted'}
               /\ row' = [row EXCEPT ![inserted'] = req[q].s]
               /\ inserted' = inserted + 1 /\ inserted < MaxRows
      <4>1. \A r \in present' : (r \in present /\ row'[r] = row[r]) \/ row'[r] = req[q].s
        BY <3>2, PresentRows, ConstantsAssumption DEF TypeOK, Rows
      <4>2. QED BY <4>1 DEF TaskSource, TaskIds
    <3>3. QED BY <1>9, <3>1, <3>2 DEF Insert
  <2>3. QED BY <1>9, <2>1, <2>2, SameRepoTasks DEF Insert, TaskStep
<1>10. QED
  BY <1>1, <1>2, <1>3, <1>4, <1>5, <1>6, <1>7, <1>8, <1>9 DEF CreateStep

LEMMA DeleteTasks ==
  ASSUME TypeOK, ResidueInv, NEW q \in Reqs, DeleteStep(q)
  PROVE  TaskStep
<1>0. req[q].id \in Rows \cup {Nil} BY DEF TypeOK, Request
<1>1. CASE DeletePlan(q)
  BY <1>0, <1>1, SameRepoTasks, ShrunkRowTasks, GotoTasks, ReplyTasks
  DEF DeletePlan, Noted, Kinds, TaskStep
<1>2. CASE DeleteBinding(q)
  BY <1>0, <1>2, SameRepoTasks, ShrunkRowTasks, GotoTasks, ReplyTasks
  DEF DeleteBinding, Noted, Kinds, TaskStep
<1>3. CASE DeleteScheme(q)
  BY <1>0, <1>3, SameRepoTasks, ShrunkRowTasks, GotoTasks, ReplyTasks
  DEF DeleteScheme, Noted, Kinds, TaskStep
<1>4. CASE CountTask(q)
  <2>1. TaskSource(TaskOf(req[q].s))
    <3>1. req[q].s.repo \in Repos BY DEF TypeOK, Request, SchemeRow
    <3>2. QED BY <3>1 DEF TaskOf, TaskSource, TaskIds
  <2>2. RequestTasks
    BY <1>4, <2>1, ReplyTasks, LearnTasks DEF CountTask, Kinds
  <2>3. QED BY <1>4, <2>2, SameRepoTasks, ShrunkRowTasks DEF CountTask, local, TaskStep
<1>5. CASE DeleteTask(q)
  <2>1. \A p \in Repos : TaskSource(repoTask'[p])
    BY <1>5, SameRepoTasks DEF DeleteTask, TaskSource, TaskIds
  <2>2. QED BY <1>5, <2>1, ShrunkRowTasks, GotoTasks, ReplyTasks DEF DeleteTask, TaskStep
<1>6. CASE DeleteSchemeAgain(q)
  BY <1>0, <1>6, SameRepoTasks, ShrunkRowTasks, GotoTasks, ReplyTasks
  DEF DeleteSchemeAgain, Noted, Kinds, TaskStep, Finish
<1>7. CASE DropRow(q)
  BY <1>7, SameRepoTasks, ShrunkRowTasks, ReplyTasks DEF DropRow, TaskStep
<1>8. CASE NextRow(q)
  <2>1. PICK e \in req[q].todo :
          /\ req'[q].s = e.s /\ req'[q].todo \subseteq req[q].todo
          /\ \A p \in Reqs \ {q} : req'[p] = req[p]
    BY <1>8 DEF NextRow, TypeOK, Request
  <2>2. RequestTasks BY <2>1 DEF RequestTasks, TaskSource, TaskIds
  <2>3. QED BY <1>8, <2>2, SameRepoTasks, ShrunkRowTasks DEF NextRow, local, TaskStep
<1>9. CASE DropPipeline(q)
  BY <1>9, SameRepoTasks, ShrunkRowTasks, ReplyTasks DEF DropPipeline, TaskStep
<1>10. QED
  BY <1>1, <1>2, <1>3, <1>4, <1>5, <1>6, <1>7, <1>8, <1>9 DEF DeleteStep

LEMMA NextTasks ==
  ASSUME TypeOK, ResidueInv, [Next]_vars
  PROVE  TaskStep
<1>1. CASE Restart
  <2>1. RequestTasks BY <1>1 DEF Restart, Idle, Blank, NoIds, Kinds, RequestTasks, TaskSource
  <2>2. QED BY <1>1, <2>1, SameRepoTasks, ShrunkRowTasks DEF Restart, local, TaskStep
<1>2. ASSUME NEW q \in Reqs, Arrive(q) PROVE TaskStep
  <2>1. UNCHANGED <<repoTask, present, row>>
    BY <1>2 DEF Arrive, StartCreate, StartDelete, StartDeletePipeline, Reject, local, vars
  <2>2. RequestTasks
    <3>1. CASE StartCreate(q)
      BY <3>1 DEF StartCreate, TypeOK, NoIds, Kinds, RequestTasks, TaskSource, TaskIds
    <3>2. ASSUME NEW r \in Rows, StartDelete(q, r)
          PROVE  RequestTasks
      BY <3>2 DEF StartDelete, TypeOK, RequestTasks, TaskSource, TaskIds
    <3>3. CASE StartDeletePipeline(q)
      <4>1. PICK p \in pipes :
              /\ req'[q].s = [Blank EXCEPT !.pipe = p]
              /\ req'[q].todo = {[id |-> r, s |-> row[r]] :
                                   r \in {x \in present : row[x].pipe = p}}
              /\ \A o \in Reqs \ {q} : req'[o] = req[o]
        BY <3>3 DEF StartDeletePipeline, TypeOK
      <4>2. req'[q].s.ext["task"] = Nil BY <4>1 DEF Blank, NoIds, Kinds
      <4>3. \A e \in req'[q].todo : \E r \in present : e.s.ext["task"] = row[r].ext["task"]
        BY <4>1
      <4>4. /\ \A r \in present : TaskSource(row[r].ext["task"])
            /\ \A o \in Reqs : /\ TaskSource(req[o].s.ext["task"])
                              /\ \A e \in req[o].todo : TaskSource(e.s.ext["task"])
        BY DEF TaskSource, TaskIds
      <4>5. TaskSource(Nil) BY DEF TaskSource
      <4>6. QED BY <4>1, <4>2, <4>3, <4>4, <4>5 DEF RequestTasks
    <3>4. CASE UNCHANGED vars BY <3>4 DEF vars, RequestTasks, TaskSource, TaskIds
    <3>5. QED BY <1>2, <3>1, <3>2, <3>3, <3>4 DEF Arrive, Reject
  <2>3. QED BY <2>1, <2>2, SameRepoTasks, ShrunkRowTasks DEF TaskStep
<1>3. CASE UNCHANGED vars BY <1>3 DEF vars, TaskStep, RequestTasks, TaskSource, TaskIds
<1>4. QED BY <1>1, <1>2, <1>3, CreateTasks, DeleteTasks DEF Next

LEMMA NextRemote ==
  ASSUME TypeOK, SharedInv, [Next]_vars
  PROVE  RemoteStep
<1>1. CASE Restart BY <1>1, SameRemote DEF Restart
<1>2. ASSUME NEW q \in Reqs, Arrive(q) PROVE RemoteStep
  BY <1>2, SameRemote DEF Arrive, StartCreate, StartDelete, StartDeletePipeline, Reject, vars
<1>3. ASSUME NEW q \in Reqs, CreateStep(q) PROVE RemoteStep
  BY <1>3, CreateQuiet, SameRemote DEF Insert
<1>4. CASE UNCHANGED vars BY <1>4, SameRemote DEF vars
<1>5. QED BY <1>1, <1>2, <1>3, <1>4, DeleteQuiet DEF Next

-----------------------------------------------------------------------------
(* What is recorded lives: the invariant *)

CreateSteps == {"resolveTask", "postTask", "findTask", "postScheme", "findScheme",
                "postBinding", "postPlan", "findPlan", "insert"}

(* The triggers whose objects a creation has, if they are wanted, when it  *)
(* comes to a step.                                                        *)
Built(step) == CASE step \in {"postPlan", "findPlan"} -> {"binding"}
                 [] step = "insert" -> Triggers
                 [] OTHER -> {}
BuiltWell(x) ==
  /\ x.op = "create" => x.id = Nil
  /\ x.op = "create" /\ x.pc \in CreateSteps =>
       /\ x.pc = "postBinding" => "binding" \in x.s.want
       /\ x.pc \in {"postPlan", "findPlan"} => "plan" \in x.s.want
       /\ \A k \in Triggers :
            /\ x.s.ext[k] # Nil <=> k \in Built(x.pc) \cap x.s.want
            /\ x.s.ext[k] # Nil => x.s.ext[k] \in Live

BuildersLive == \A q \in Reqs : BuiltWell(req[q])

(* A deletion works on copies: of the row it takes down, and of the rows   *)
(* that a cascade has still to visit.                                      *)
Copies(x) == IF x.op \in {"delete", "deletePipeline"}
             THEN {[id |-> x.id, s |-> x.s]} \cup x.todo ELSE {}

(* An object whose row went with its pipeline: nobody records it, and no   *)
(* creation will find it by its name.                                      *)
Forgotten(i) ==
  /\ \A t \in Held, k \in Own : t.ext[k] # i
  /\ \A o \in remote : o.id = i =>
       /\ o.pipe \notin pipes
       /\ \A q \in Creating : req[q].s.name = o.name => req[q].s.pipe # o.pipe

(* What a copy still has to delete its row records too, or nobody does;    *)
(* and the row has nothing that the copy does not have.                    *)
StillRecorded(c, k) == c.id \in present /\ row[c.id].ext[k] = c.s.ext[k]
Faithful(c) ==
  /\ c.id <= inserted /\ Copied(c.id, c.s)
  /\ \A k \in Own : c.s.ext[k] \in Live => StillRecorded(c, k) \/ Forgotten(c.s.ext[k])
CopiesLive == \A q \in Reqs : \A c \in Copies(req[q]) : Faithful(c)

LiveInv == TasksAreTasks /\ RecordedIsLive /\ BuildersLive /\ CopiesLive

(* All that is known of a state.                                           *)
Known == TypeOK /\ ResidueInv /\ SharedInv /\ LiveInv

(* A step that deletes nothing and leaves the rows alone.                  *)
Calm == Live \subseteq Live' /\ UNCHANGED <<present, row>>

LEMMA CalmRows ==
  ASSUME Known, Calm
  PROVE  RecordedIsLive'
BY DEF Known, LiveInv, RecordedIsLive, Calm

LEMMA CalmRequest ==
  ASSUME Known, Calm, NEW q \in Reqs, req'[q] = req[q]
  PROVE  BuiltWell(req[q])'
BY DEF Known, LiveInv, BuildersLive, BuiltWell, Calm

LEMMA CalmStep ==
  ASSUME Known, Calm, NEW q \in Reqs,
         \A p \in Reqs \ {q} : req'[p] = req[p], BuiltWell(req[q])'
  PROVE  RecordedIsLive' /\ BuildersLive'
BY CalmRows, CalmRequest DEF BuildersLive

(* A creation holds what no row holds, and no other creation.              *)
LEMMA HeldAlone ==
  ASSUME Known, NEW q \in Creating, NEW k \in Own, req[q].s.ext[k] # Nil
  PROVE  /\ \A r \in present : row[r].ext[k] # req[q].s.ext[k]
         /\ \A p \in Creating : p # q => req[p].s.ext[k] # req[q].s.ext[k]
<1>1. req[q].s \in Held BY DEF Held
<1>2. \A r \in present : row[r] \in Held BY DEF Held
<1>3. \A p \in Creating : req[p].s \in Held BY DEF Held
<1>4. QED BY <1>1, <1>2, <1>3 DEF Known, SharedInv, HeldByName, NamesApart

(* A live id that is held is that of an object of its column's kind.       *)
LEMMA HeldKind ==
  ASSUME Known, NEW s \in Held, NEW k \in Own, NEW o \in remote, o.id = s.ext[k]
  PROVE  o.kind = k
BY DEF Known, SharedInv, HeldByName

-----------------------------------------------------------------------------
(* What is recorded lives: the steps of a creation *)

LEMMA ReplyCalm ==
  ASSUME Known, Calm, NEW q \in Reqs, Reply(q)
  PROVE  RecordedIsLive' /\ BuildersLive'
<1>1. req'[q] = Idle /\ \A p \in Reqs \ {q} : req'[p] = req[p]
  BY DEF Known, TypeOK, Reply
<1>2. BuiltWell(req[q])'
  BY <1>1 DEF BuiltWell, Idle
<1>3. QED BY <1>1, <1>2, CalmStep

(* A creation goes on to a step that finds what it needs.                  *)
LEMMA GotoCalm ==
  ASSUME Known, Calm, NEW q \in Creating, req[q].pc \in CreateSteps, NEW step, Goto(q, step),
         step \in CreateSteps =>
           /\ Built(step) \cap req[q].s.want = Built(req[q].pc) \cap req[q].s.want
           /\ step = "postBinding" => "binding" \in req[q].s.want
           /\ step \in {"postPlan", "findPlan"} => "plan" \in req[q].s.want
  PROVE  RecordedIsLive' /\ BuildersLive'
<1>0. q \in Reqs BY DEF Creating
<1>1. /\ req'[q].op = "create" /\ req'[q].s = req[q].s /\ req'[q].pc = step
      /\ req'[q].id = req[q].id
      /\ \A p \in Reqs \ {q} : req'[p] = req[p]
  BY <1>0 DEF Known, TypeOK, Request, Goto, Creating
<1>2. BuiltWell(req[q]) BY <1>0 DEF Known, LiveInv, BuildersLive
<1>3. BuiltWell(req[q])' BY <1>0, <1>1, <1>2 DEF BuiltWell, Calm, Creating
<1>4. QED BY <1>0, <1>1, <1>3, CalmStep

(* It learns an id: of its task or scheme, or of a trigger it wants.       *)
LEMMA LearnCalm ==
  ASSUME Known, Calm, NEW q \in Creating, req[q].pc \in CreateSteps,
         NEW j \in Kinds, NEW i, NEW step, Learn(q, j, i, step),
         j \in Triggers => i # Nil /\ i \in Live',
         Built(step) \cap req[q].s.want
           = (Built(req[q].pc) \cap req[q].s.want) \cup ({j} \cap Triggers),
         step = "postBinding" => "binding" \in req[q].s.want,
         step \in {"postPlan", "findPlan"} => "plan" \in req[q].s.want
  PROVE  RecordedIsLive' /\ BuildersLive'
<1>0. q \in Reqs BY DEF Creating
<1> DEFINE s == WithId(req[q].s, j, i)
<1>1. req[q].s \in SchemeRow BY <1>0 DEF Known, TypeOK, Request
<1>2. /\ s.want = req[q].s.want
      /\ \A k \in Kinds : s.ext[k] = IF k = j THEN i ELSE req[q].s.ext[k]
  BY <1>1 DEF WithId, SchemeRow
<1>3. /\ req'[q].op = "create" /\ req'[q].s = s /\ req'[q].pc = step
      /\ req'[q].id = req[q].id
      /\ \A p \in Reqs \ {q} : req'[p] = req[p]
  BY <1>0 DEF Known, TypeOK, Request, Learn, Creating
<1>4. BuiltWell(req[q]) /\ Triggers \subseteq Kinds
  BY <1>0 DEF Known, LiveInv, BuildersLive, Triggers, Kinds
<1> HIDE DEF s
<1>5. \A k \in Triggers : /\ s.ext[k] # Nil <=> k \in Built(step) \cap s.want
                          /\ s.ext[k] # Nil => s.ext[k] \in Live'
  <2> SUFFICES ASSUME NEW k \in Triggers
      PROVE  /\ s.ext[k] # Nil <=> k \in Built(step) \cap s.want
             /\ s.ext[k] # Nil => s.ext[k] \in Live'
    OBVIOUS
  <2>1. /\ req[q].s.ext[k] # Nil <=> k \in Built(req[q].pc) \cap req[q].s.want
        /\ req[q].s.ext[k] # Nil => req[q].s.ext[k] \in Live
    BY <1>4 DEF BuiltWell, Creating
  <2>2. CASE k = j BY <1>2, <1>4, <2>2
  <2>3. CASE k # j BY <1>2, <1>4, <2>1, <2>3 DEF Calm
  <2>4. QED BY <2>2, <2>3
<1>6. BuiltWell(req[q])' BY <1>2, <1>3, <1>4, <1>5 DEF BuiltWell, Creating
<1>7. QED BY <1>0, <1>3, <1>6, CalmStep

(* A request at a step of a creation is one.                               *)
LEMMA AtCreateStep ==
  ASSUME Known, NEW q \in Reqs, req[q].pc \in CreateSteps
  PROVE  q \in Creating /\ BuiltWell(req[q])
<1>1. req[q].op = "create"
  BY DEF Known, TypeOK, Request, SharedInv, OwnSteps, OwnStep, CreateSteps, DeleteSteps
<1>2. QED BY <1>1 DEF Creating, Known, LiveInv, BuildersLive

LEMMA CreatedLive ==
  ASSUME NEW k, NEW s, Created(k, s)
  PROVE  issued' = issued + 1 /\ Live' = Live \cup {issued'}
<1> DEFINE o == [id |-> issued', kind |-> k, name |-> s.name, pipe |-> s.pipe]
<1>1. remote' = remote \cup {o} BY Zenon DEF Created
<1>2. o.id = issued' OBVIOUS
<1> HIDE DEF o
<1>3. Live' = Live \cup {issued'} BY <1>1, <1>2 DEF Live
<1>4. QED BY <1>3 DEF Created

LEMMA PostCalm ==
  ASSUME Known, NEW k, NEW s, UNCHANGED <<present, row>>,
         PostSucceeds(k, s) \/ PostFails(k, s) \/ UNCHANGED <<remote, issued>>
  PROVE  Calm
<1>1. CASE UNCHANGED <<remote, issued>> BY <1>1 DEF Calm, Live
<1>2. CASE Created(k, s)
  <2>1. Live' = Live \cup {issued'} BY <1>2, CreatedLive
  <2>2. QED BY <2>1 DEF Calm
<1>3. QED BY <1>1, <1>2 DEF PostSucceeds, PostFails

LEMMA LiveCreateCalm ==
  ASSUME Known, NEW q \in Reqs, CreateStep(q), ~Insert(q)
  PROVE  RecordedIsLive' /\ BuildersLive'
<1>1. req[q].pc \in CreateSteps
  BY DEF CreateStep, ResolveTask, PostTask, FindTask, PostScheme, FindScheme, PostBinding,
         PostPlan, FindPlan, CreateSteps, Insert
<1>2. q \in Creating /\ BuiltWell(req[q]) BY <1>1, AtCreateStep
<1>3. Calm
  BY PostCalm
  DEF CreateStep, ResolveTask, PostTask, FindTask, PostScheme, FindScheme, PostBinding,
      PostPlan, FindPlan, local
<1>4. /\ "binding" \in Triggers /\ "plan" \in Triggers
      /\ "task" \notin Triggers /\ "scheme" \notin Triggers /\ req[q].s.want \subseteq Triggers
      /\ "binding" \in Kinds /\ "plan" \in Kinds /\ "task" \in Kinds /\ "scheme" \in Kinds
  BY DEF Triggers, Kinds, Known, TypeOK, Request, SchemeRow
<1>5. CASE ResolveTask(q)
  BY <1>1, <1>2, <1>3, <1>4, <1>5, GotoCalm, LearnCalm DEF ResolveTask, CreateSteps, Built
<1>6. CASE PostTask(q)
  BY <1>1, <1>2, <1>3, <1>6, GotoCalm, ReplyCalm DEF PostTask, CreateSteps, Built
<1>7. CASE FindTask(q)
  BY <1>1, <1>2, <1>3, <1>4, <1>7, ReplyCalm, LearnCalm DEF FindTask, CreateSteps, Built
<1>8. CASE PostScheme(q)
  BY <1>1, <1>2, <1>3, <1>8, GotoCalm DEF PostScheme, CreateSteps, Built
<1>9. CASE FindScheme(q)
  <2>1. CASE Goto(q, "delPlan")
    BY <1>1, <1>2, <1>3, <2>1, GotoCalm DEF CreateSteps
  <2>2. ASSUME NEW i, Learn(q, "scheme", i, AfterScheme(req[q].s))
        PROVE  RecordedIsLive' /\ BuildersLive'
    <3>1. req[q].pc = "findScheme" BY <1>9 DEF FindScheme
    <3>2. Built(req[q].pc) = {} BY <3>1 DEF Built
    <3>3. Built(AfterScheme(req[q].s)) \cap req[q].s.want = {}
      BY <1>4 DEF AfterScheme, Built, Triggers
    <3>4. /\ AfterScheme(req[q].s) = "postBinding" => "binding" \in req[q].s.want
          /\ AfterScheme(req[q].s) \in {"postPlan", "findPlan"} => "plan" \in req[q].s.want
      BY DEF AfterScheme
    <3>5. QED BY <1>1, <1>2, <1>3, <1>4, <2>2, <3>2, <3>3, <3>4, LearnCalm
  <2>3. QED BY <1>9, <2>1, <2>2 DEF FindScheme
<1>10. CASE PostBinding(q)
  <2> DEFINE step == IF "plan" \in req[q].s.want THEN "postPlan" ELSE "insert"
  <2>1. CASE Goto(q, "delPlan")
    BY <1>1, <1>2, <1>3, <2>1, GotoCalm DEF CreateSteps
  <2>2. CASE PostSucceeds("binding", req[q].s) /\ Learn(q, "binding", issued', step)
    <3>0. req[q].pc = "postBinding" BY <1>10 DEF PostBinding
    <3>1. "binding" \in req[q].s.want BY <1>1, <1>2, <3>0 DEF BuiltWell, Creating
    <3>2. issued' # Nil /\ issued' \in Live'
      <4>1. issued \in Nat /\ Created("binding", req[q].s)
        BY <2>2, Numbers DEF Known, PostSucceeds
      <4>2. QED BY <4>1, CreatedLive DEF Nil
    <3>3. Built(req[q].pc) = {} BY <3>0 DEF Built
    <3>4. Built(step) \cap req[q].s.want = {"binding"}
      BY <1>4, <3>1 DEF Built, Triggers
    <3>5. step # "postBinding" /\ (step \in {"postPlan", "findPlan"} => "plan" \in req[q].s.want)
      OBVIOUS
    <3> HIDE DEF step
    <3>6. QED BY <1>1, <1>2, <1>3, <1>4, <2>2, <3>2, <3>3, <3>4, <3>5, LearnCalm
  <2>3. QED BY <1>10, <2>1, <2>2 DEF PostBinding
<1>11. CASE PostPlan(q)
  <2>1. req[q].pc = "postPlan" BY <1>11 DEF PostPlan
  <2>2. "plan" \in req[q].s.want BY <1>1, <1>2, <2>1 DEF BuiltWell, Creating
  <2>3. QED BY <1>1, <1>2, <1>3, <1>11, <2>1, <2>2, GotoCalm DEF PostPlan, CreateSteps, Built
<1>12. CASE FindPlan(q)
  <2>1. req[q].pc = "findPlan" BY <1>12 DEF FindPlan
  <2>2. "plan" \in req[q].s.want BY <1>1, <1>2, <2>1 DEF BuiltWell, Creating
  <2>3. CASE Goto(q, "delPlan")
    BY <1>1, <1>2, <1>3, <2>3, GotoCalm DEF CreateSteps
  <2>4. ASSUME NEW i \in Matches("plan", req[q].s), Learn(q, "plan", i, "insert")
        PROVE  RecordedIsLive' /\ BuildersLive'
    <3>1. "plan" \in Own BY DEF Own, Kinds
    <3>2. i \in Live BY <3>1, FoundNamed DEF Live
    <3>3. i # Nil /\ i \in Live' BY <1>3, <3>2, LiveIds DEF Known, Calm
    <3>4. Built("insert") \cap req[q].s.want = (Built(req[q].pc) \cap req[q].s.want) \cup {"plan"}
      BY <1>4, <2>1, <2>2 DEF Built, Triggers
    <3>5. QED BY <1>1, <1>2, <1>3, <1>4, <2>4, <3>3, <3>4, LearnCalm
  <2>5. QED BY <1>12, <2>3, <2>4 DEF FindPlan
<1>13. QED
  BY <1>5, <1>6, <1>7, <1>8, <1>9, <1>10, <1>11, <1>12 DEF CreateStep

LEMMA InsertLive ==
  ASSUME Known, NEW q \in Reqs, Insert(q)
  PROVE  RecordedIsLive' /\ BuildersLive'
<1>1. req[q].pc = "insert" BY DEF Insert
<1>2. q \in Creating /\ BuiltWell(req[q]) BY <1>1, AtCreateStep DEF CreateSteps
<1>3. CASE Goto(q, "delPlan") /\ UNCHANGED <<present, row>>
  <2>1. Calm BY <1>3, PostCalm DEF Insert
  <2>2. QED BY <1>1, <1>2, <1>3, <2>1, GotoCalm DEF CreateSteps
<1>4. CASE /\ inserted < MaxRows
           /\ inserted' = inserted + 1
           /\ present' = present \cup {inserted'}
           /\ row' = [row EXCEPT ![inserted'] = req[q].s]
           /\ Reply(q)
  <2>0. Live' = Live BY DEF Insert, Live
  <2>1. inserted' \in Rows /\ inserted' \notin present
    BY <1>4, PresentRows, ConstantsAssumption DEF Known, TypeOK, Rows
  <2>2. row'[inserted'] = req[q].s /\ \A r \in present : row'[r] = row[r]
    BY <1>4, <2>1, PresentRows DEF Known, TypeOK
  <2>3. req'[q] = Idle /\ \A p \in Reqs \ {q} : req'[p] = req[p]
    BY <1>4 DEF Reply, Known, TypeOK
  <2>4. \A k \in Triggers : /\ req[q].s.ext[k] # Nil <=> k \in req[q].s.want
                            /\ req[q].s.ext[k] # Nil => req[q].s.ext[k] \in Live
    BY <1>1, <1>2 DEF BuiltWell, Built, CreateSteps, Creating
  <2>5. RecordedIsLive'
    BY <1>4, <2>0, <2>2, <2>4 DEF Known, LiveInv, RecordedIsLive
  <2>6. ASSUME NEW p \in Reqs PROVE BuiltWell(req[p])'
    <3>1. CASE p = q BY <2>3, <3>1 DEF BuiltWell, Idle
    <3>2. CASE p # q
      <4>1. req'[p] = req[p] /\ BuiltWell(req[p])
        BY <2>3, <3>2 DEF Known, LiveInv, BuildersLive
      <4>2. QED BY <1>4, <2>0, <2>2, <4>1 DEF BuiltWell
    <3>3. QED BY <3>1, <3>2
  <2>7. QED BY <2>5, <2>6 DEF BuildersLive
<1>5. QED BY <1>3, <1>4 DEF Insert

-----------------------------------------------------------------------------
(* What is recorded lives: the steps of a deletion *)

(* What becomes of the request of a deletion: it ends, or goes on with the *)
(* row it has read.                                                        *)
GoesOn(q) ==
  /\ \A p \in Reqs \ {q} : req'[p] = req[p]
  /\ \/ req'[q] = Idle
     \/ /\ req'[q].op = req[q].op /\ req'[q].pc \notin CreateSteps
        /\ req[q].op = "create" => req'[q].id = req[q].id

LEMMA GotoGoesOn ==
  ASSUME TypeOK, NEW q \in Reqs, NEW step, Goto(q, step), step \notin CreateSteps
  PROVE  GoesOn(q)
BY DEF TypeOK, Request, Goto, GoesOn

LEMMA ReplyGoesOn ==
  ASSUME TypeOK, NEW q \in Reqs, Reply(q)
  PROVE  GoesOn(q)
BY DEF TypeOK, Reply, GoesOn

LEMMA FinishGoesOn ==
  ASSUME TypeOK, NEW q \in Reqs, Finish(q)
  PROVE  GoesOn(q)
<1>1. AfterDelete(req[q].op) \notin CreateSteps BY DEF AfterDelete, CreateSteps
<1>2. QED BY <1>1, GotoGoesOn, ReplyGoesOn DEF Finish

LEMMA LearnGoesOn ==
  ASSUME TypeOK, NEW q \in Reqs, NEW k, NEW i, NEW step, Learn(q, k, i, step),
         step \notin CreateSteps
  PROVE  GoesOn(q)
<1> DEFINE s == WithId(req[q].s, k, i)
<1>1. req' = [req EXCEPT ![q] = [req[q] EXCEPT !.pc = step, !.s = s]] BY DEF Learn
<1> HIDE DEF s
<1>2. QED BY <1>1 DEF TypeOK, Request, GoesOn

LEMMA BuiltGoesOn ==
  ASSUME Known, NEW q \in Reqs, GoesOn(q)
  PROVE  BuiltWell(req[q])'
BY DEF Known, LiveInv, BuildersLive, BuiltWell, GoesOn, Idle

LEMMA CalmGoesOn ==
  ASSUME Known, Calm, NEW q \in Reqs, GoesOn(q)
  PROVE  RecordedIsLive' /\ BuildersLive'
BY BuiltGoesOn, CalmStep DEF GoesOn

(* The copy of its row that a deletion has in hand.                        *)
LEMMA InHand ==
  ASSUME Known, NEW q \in Reqs, req[q].op \in {"delete", "deletePipeline"}
  PROVE  /\ Copied(req[q].id, req[q].s)
         /\ \A k \in Own : req[q].s.ext[k] \in Live =>
              \/ req[q].id \in present /\ row[req[q].id].ext[k] = req[q].s.ext[k]
              \/ Forgotten(req[q].s.ext[k])
<1>1. [id |-> req[q].id, s |-> req[q].s] \in Copies(req[q]) BY DEF Copies
<1>2. Faithful([id |-> req[q].id, s |-> req[q].s]) BY <1>1 DEF Known, LiveInv, CopiesLive
<1>3. QED BY <1>2 DEF Faithful, StillRecorded

(* The one who owns the object a deletion takes down: the row of the       *)
(* deletion, or the creation that is rolled back.                          *)
Owner(q) == IF req[q].op = "create" THEN req[q].s ELSE row[req[q].id]

(* Nobody else holds that object, under any kind.                          *)
LEMMA HeldByOwner ==
  ASSUME Known, NEW q \in Reqs, req[q].op # "none", NEW k \in Own,
         req[q].s.ext[k] \in Live, NEW t \in Held, NEW j \in Own,
         t.ext[j] = req[q].s.ext[k]
  PROVE  /\ j = k /\ t.name = Owner(q).name
         /\ req[q].op # "create" => req[q].id \in present
<1>1. /\ Owner(q) \in Held /\ Owner(q).ext[k] = req[q].s.ext[k]
      /\ req[q].op # "create" => req[q].id \in present
  <2>1. CASE req[q].op = "create" BY <2>1 DEF Owner, Held, Creating
  <2>2. CASE req[q].op # "create"
    <3>1. req[q].op \in {"delete", "deletePipeline"} BY <2>2 DEF Known, TypeOK, Request
    <3>2. ~Forgotten(req[q].s.ext[k]) BY DEF Forgotten
    <3>3. req[q].id \in present /\ row[req[q].id].ext[k] = req[q].s.ext[k]
      BY <3>1, <3>2, InHand
    <3>4. QED BY <2>2, <3>3 DEF Owner, Held
  <2>3. QED BY <2>1, <2>2
<1>2. PICK o \in remote : o.id = req[q].s.ext[k] BY DEF Live
<1>3. o.kind = j BY <1>2, HeldKind
<1>4. o.kind = k BY <1>1, <1>2, HeldKind
<1>5. t.ext[k] # Nil BY <1>3, <1>4, LiveIds DEF Known
<1>6. t.name = Owner(q).name
  BY <1>1, <1>3, <1>4, <1>5 DEF Known, SharedInv, HeldByName
<1>7. QED BY <1>1, <1>3, <1>4, <1>6

LEMMA ClearedRow ==
  ASSUME TypeOK, NEW x \in Rows \cup {Nil}, NEW k \in Kinds
  PROVE  \A r \in present : LET c == Cleared(x, k)[r] IN
           /\ r # x => c = row[r]
           /\ r = x => /\ c.ext[k] = Nil /\ k \notin c.want
                       /\ \A j \in Kinds \ {k} : /\ c.ext[j] = row[r].ext[j]
                                                 /\ j \in c.want <=> j \in row[r].want
<1> SUFFICES ASSUME NEW r \in present
    PROVE  LET c == Cleared(x, k)[r] IN
             /\ r # x => c = row[r]
             /\ r = x => /\ c.ext[k] = Nil /\ k \notin c.want
                         /\ \A j \in Kinds \ {k} : /\ c.ext[j] = row[r].ext[j]
                                                   /\ j \in c.want <=> j \in row[r].want
  OBVIOUS
<1>1. r \in Rows /\ row[r] \in SchemeRow BY PresentRows DEF TypeOK
<1>2. CASE r # x BY <1>1, <1>2 DEF Cleared, TypeOK
<1>3. CASE r = x
  <2> DEFINE e == [row[r].ext EXCEPT ![k] = Nil]
             s == [row[r] EXCEPT !.want = row[r].want \ {k}, !.ext = e]
  <2>1. Cleared(x, k)[r] = s BY <1>1, <1>3 DEF Cleared, WithId, SchemeRow, TypeOK
  <2>2. s.ext = e /\ s.want = row[r].want \ {k} BY <1>1 DEF SchemeRow
  <2>3. e[k] = Nil /\ \A j \in Kinds \ {k} : e[j] = row[r].ext[j] BY <1>1 DEF SchemeRow
  <2>4. QED BY <1>3, <2>1, <2>2, <2>3
<1>4. QED BY <1>2, <1>3

(* An object is taken down and its column emptied.                         *)
LEMMA TakenDown ==
  ASSUME Known, NEW q \in Reqs, req[q].op # "none", NEW k \in Own, GoesOn(q),
         remote' = Without(req[q].s.ext[k]), row' = Cleared(req[q].id, k),
         UNCHANGED <<present, issued>>
  PROVE  RecordedIsLive' /\ BuildersLive'
<1> DEFINE i == req[q].s.ext[k]
<1>0. Live' = Live \ {i} BY DEF Live, Without
<1>1. k \in Kinds /\ req[q].id \in Rows \cup {Nil}
  BY DEF Own, Known, TypeOK, Request
<1>2. \A r \in present :
        /\ r # req[q].id => row'[r] = row[r]
        /\ r = req[q].id =>
             /\ row'[r].ext[k] = Nil /\ k \notin row'[r].want
             /\ \A j \in Kinds \ {k} : /\ row'[r].ext[j] = row[r].ext[j]
                                       /\ j \in row'[r].want <=> j \in row[r].want
  BY <1>1, ClearedRow DEF Known
<1>3. req[q].op = "create" => req[q].id = Nil /\ req[q].id \notin present
  BY PresentRows DEF Known, LiveInv, BuildersLive, BuiltWell
<1>4. RecordedIsLive'
  <2> SUFFICES ASSUME NEW r \in present, NEW j \in Triggers
      PROVE  /\ row'[r].ext[j] # Nil => row'[r].ext[j] \in Live'
             /\ (j \in row'[r].want) <=> (row'[r].ext[j] # Nil)
    BY DEF RecordedIsLive
  <2>1. j \in Own /\ j \in Kinds BY DEF Triggers, Own, Kinds
  <2>2. /\ row[r].ext[j] # Nil => row[r].ext[j] \in Live
        /\ (j \in row[r].want) <=> (row[r].ext[j] # Nil)
    BY DEF Known, LiveInv, RecordedIsLive
  <2>3. CASE r = req[q].id /\ j = k BY <1>2, <2>3
  <2>4. CASE ~(r = req[q].id /\ j = k)
    <3>1. /\ row'[r].ext[j] = row[r].ext[j]
          /\ (j \in row'[r].want) <=> (j \in row[r].want)
      BY <1>2, <2>1, <2>4
    <3>2. ASSUME row[r].ext[j] = i, i \in Live PROVE FALSE
      <4>1. row[r] \in Held BY DEF Held
      <4>2. /\ j = k /\ row[r].name = Owner(q).name
            /\ req[q].op # "create" => req[q].id \in present
        BY <2>1, <3>2, <4>1, HeldByOwner
      <4>3. CASE req[q].op = "create"
        BY <4>2, <4>3 DEF Owner, Creating, Known, SharedInv, NamesApart
      <4>4. CASE req[q].op # "create"
        <5>1. r = req[q].id
          BY <4>2, <4>4 DEF Owner, Known, SharedInv, NamesApart
        <5>2. QED BY <2>4, <4>2, <5>1
      <4>5. QED BY <4>3, <4>4
    <3>3. QED BY <1>0, <2>2, <3>1, <3>2
  <2>5. QED BY <2>3, <2>4
<1>5. ASSUME NEW p \in Reqs, p # q PROVE BuiltWell(req[p])'
  <2>1. req'[p] = req[p] BY <1>5 DEF GoesOn
  <2>2. BuiltWell(req[p]) BY DEF Known, LiveInv, BuildersLive
  <2>3. ASSUME req[p].op = "create", NEW j \in Triggers, req[p].s.ext[j] \in Live
        PROVE  req[p].s.ext[j] \in Live'
    <3>1. j \in Own BY DEF Triggers, Own, Kinds
    <3>2. req[p].s \in Held BY <2>3 DEF Held, Creating
    <3>3. ASSUME req[p].s.ext[j] = i, i \in Live PROVE FALSE
      <4>1. /\ req[p].s.name = Owner(q).name
            /\ req[q].op # "create" => req[q].id \in present
        BY <3>1, <3>2, <3>3, HeldByOwner
      <4>2. QED
        BY <1>5, <2>3, <4>1 DEF Owner, Creating, Known, SharedInv, NamesApart
    <3>4. QED BY <1>0, <2>3, <3>3
  <2>4. QED BY <2>1, <2>2, <2>3 DEF BuiltWell
<1>6. BuiltWell(req[q])' BY BuiltGoesOn
<1>7. QED BY <1>4, <1>5, <1>6 DEF BuildersLive

(* The faults under which what is recorded lives: all but the loss of an   *)
(* answer and of a note.                                                   *)
NoLoss == {"lost", "unnoted"} \cap Faults = {}

(* The faults that are excluded leave two ways for a deletion: the object  *)
(* goes and its column is emptied, or nothing happens.                     *)
LEMMA DeleteOrCalm ==
  ASSUME NoLoss, Known, NEW q \in Reqs, NEW k \in Kinds, NEW i, NEW ok,
         UNCHANGED present,
         \/ DeleteSucceeds(i, ok) /\ Noted(q, k)
         \/ DeleteFails(i, ok) /\ UNCHANGED row
         \/ UNCHANGED <<row, remote, issued, faults>>
  PROVE  \/ remote' = Without(i) /\ row' = Cleared(req[q].id, k) /\ UNCHANGED issued
         \/ Calm
<1>1. CASE DeleteSucceeds(i, ok) /\ Noted(q, k)
  BY <1>1 DEF DeleteSucceeds, Noted, Fault, NoLoss
<1>2. CASE DeleteFails(i, ok) /\ UNCHANGED row
  <2>1. UNCHANGED <<remote, issued>> BY <1>2 DEF DeleteFails, Fault, NoLoss
  <2>2. QED BY <1>2, <2>1 DEF Calm, Live
<1>3. CASE UNCHANGED <<row, remote, issued, faults>>
  BY <1>3 DEF Calm, Live
<1>4. QED BY <1>1, <1>2, <1>3

(* A task goes that no row needs: no binding and no plan dies with it.     *)
LEMMA TaskTakenDown ==
  ASSUME Known, NEW q \in Reqs, GoesOn(q), remote' = Without(req[q].s.ext["task"]),
         UNCHANGED <<present, row>>
  PROVE  RecordedIsLive' /\ BuildersLive'
<1>1. Live' = Live \ {req[q].s.ext["task"]} BY DEF Live, Without
<1>2. ASSUME NEW t \in Held, NEW j \in Own, t.ext[j] \in Live PROVE t.ext[j] \in Live'
  <2>1. PICK o \in remote : o.id = t.ext[j] BY <1>2 DEF Live
  <2>2. o.kind # "task" BY <2>1, HeldKind DEF Own
  <2>3. o.id # req[q].s.ext["task"]
    BY <2>1, <2>2 DEF Known, LiveInv, TasksAreTasks, TaskIds
  <2>4. QED BY <1>1, <1>2, <2>1, <2>3
<1>3. Triggers \subseteq Own BY DEF Triggers, Own, Kinds
<1>4. RecordedIsLive'
  BY <1>2, <1>3 DEF Held, Known, LiveInv, RecordedIsLive
<1>5. ASSUME NEW p \in Reqs, req'[p] = req[p] PROVE BuiltWell(req[p])'
  <2>1. BuiltWell(req[p]) BY DEF Known, LiveInv, BuildersLive
  <2>2. req[p].op = "create" => req[p].s \in Held BY DEF Held, Creating
  <2>3. QED BY <1>2, <1>3, <1>5, <2>1, <2>2 DEF BuiltWell
<1>6. BuiltWell(req[q])' BY BuiltGoesOn
<1>7. QED BY <1>4, <1>5, <1>6 DEF BuildersLive, GoesOn

(* Rows go, with their request or with their pipeline.                     *)
LEMMA RowsDropLive ==
  ASSUME Known, NEW q \in Reqs, Reply(q), remote' = remote,
         UNCHANGED <<present, row>> \/ \E gone : Drop(gone)
  PROVE  RecordedIsLive' /\ BuildersLive'
<1>1. Live' = Live /\ GoesOn(q) BY ReplyGoesOn DEF Live, Known
<1>2. present' \subseteq present /\ \A r \in present' : row'[r] = row[r]
  BY PresentRows DEF Drop, Known
<1>3. RecordedIsLive' BY <1>1, <1>2 DEF Known, LiveInv, RecordedIsLive
<1>4. \A p \in Reqs \ {q} : BuiltWell(req[p])'
  BY <1>1 DEF GoesOn, Known, LiveInv, BuildersLive, BuiltWell
<1>5. BuiltWell(req[q])' BY <1>1, BuiltGoesOn
<1>6. QED BY <1>3, <1>4, <1>5 DEF BuildersLive

LEMMA DeleteLive ==
  ASSUME NoLoss, Known, NEW q \in Reqs, DeleteStep(q)
  PROVE  RecordedIsLive' /\ BuildersLive'
<1>1. "plan" \in Own /\ "binding" \in Own /\ "scheme" \in Own /\ Own \subseteq Kinds
  BY DEF Own, Kinds
<1>2. {"delBinding", "delScheme", "countTask", "delTask", "delAgain"} \cap CreateSteps = {}
  BY DEF CreateSteps
<1>3. ASSUME req[q].pc \in DeleteSteps PROVE req[q].op # "none"
  BY <1>3 DEF Known, TypeOK, Request, DeleteSteps
<1>4. ASSUME req[q].pc \in DeleteSteps, NEW k \in Own, NEW ok, GoesOn(q), UNCHANGED present,
             \/ DeleteSucceeds(req[q].s.ext[k], ok) /\ Noted(q, k)
             \/ DeleteFails(req[q].s.ext[k], ok) /\ UNCHANGED row
             \/ UNCHANGED <<row, remote, issued, faults>>
      PROVE  RecordedIsLive' /\ BuildersLive'
  <2>1. CASE Calm BY <1>4, <2>1, CalmGoesOn
  <2>2. CASE /\ remote' = Without(req[q].s.ext[k]) /\ row' = Cleared(req[q].id, k)
             /\ UNCHANGED issued
    BY <1>3, <1>4, <2>2, TakenDown
  <2>3. QED BY <1>1, <1>4, <2>1, <2>2, DeleteOrCalm
<1>5. CASE DeletePlan(q)
  <2>1. GoesOn(q) BY <1>2, <1>5, GotoGoesOn, ReplyGoesOn DEF DeletePlan, Known
  <2>2. QED BY <1>1, <1>4, <1>5, <2>1 DEF DeletePlan, DeleteSteps
<1>6. CASE DeleteBinding(q)
  <2>1. GoesOn(q) BY <1>2, <1>6, GotoGoesOn, ReplyGoesOn DEF DeleteBinding, Known
  <2>2. QED BY <1>1, <1>4, <1>6, <2>1 DEF DeleteBinding, DeleteSteps
<1>7. CASE DeleteScheme(q)
  <2>1. GoesOn(q) BY <1>2, <1>7, GotoGoesOn, ReplyGoesOn DEF DeleteScheme, Known
  <2>2. QED BY <1>1, <1>4, <1>7, <2>1 DEF DeleteScheme, DeleteSteps
<1>8. CASE CountTask(q)
  <2>1. GoesOn(q) BY <1>2, <1>8, LearnGoesOn, ReplyGoesOn DEF CountTask, Known
  <2>2. Calm BY <1>8 DEF CountTask, local, Calm, Live
  <2>3. QED BY <2>1, <2>2, CalmGoesOn
<1>9. CASE DeleteTask(q)
  <2>1. GoesOn(q) BY <1>2, <1>9, GotoGoesOn, ReplyGoesOn DEF DeleteTask, Known
  <2>2. CASE DeleteSucceeds(req[q].s.ext["task"], TRUE)
    BY <1>9, <2>1, <2>2, TaskTakenDown DEF DeleteTask, DeleteSucceeds
  <2>3. CASE DeleteFails(req[q].s.ext["task"], TRUE)
    <3>1. UNCHANGED remote BY <2>3 DEF DeleteFails, Fault, NoLoss
    <3>2. Calm BY <1>9, <3>1 DEF DeleteTask, Calm, Live
    <3>3. QED BY <2>1, <3>2, CalmGoesOn
  <2>4. QED BY <1>9, <2>2, <2>3 DEF DeleteTask
<1>10. CASE DeleteSchemeAgain(q)
  <2>1. GoesOn(q) BY <1>10, FinishGoesOn, ReplyGoesOn DEF DeleteSchemeAgain, Known
  <2>2. QED BY <1>1, <1>4, <1>10, <2>1 DEF DeleteSchemeAgain, DeleteSteps
<1>11. CASE DropRow(q) \/ DropPipeline(q) BY <1>11, RowsDropLive DEF DropRow, DropPipeline
<1>12. CASE NextRow(q)
  <2>1. /\ req'[q].op = req[q].op /\ req'[q].pc \in {"delPlan", "nextRow"}
        /\ \A p \in Reqs \ {q} : req'[p] = req[p]
    BY <1>12 DEF NextRow, Known, TypeOK, Request
  <2>2. req[q].op # "create"
    BY <1>12 DEF NextRow, Known, SharedInv, OwnSteps, OwnStep
  <2>3. GoesOn(q) BY <2>1, <2>2 DEF GoesOn, CreateSteps
  <2>4. Calm BY <1>12 DEF NextRow, local, Calm, Live
  <2>5. QED BY <2>3, <2>4, CalmGoesOn
<1>13. QED
  BY <1>5, <1>6, <1>7, <1>8, <1>9, <1>10, <1>11, <1>12 DEF DeleteStep

LEMMA ArriveLive ==
  ASSUME Known, NEW q \in Reqs, Arrive(q)
  PROVE  RecordedIsLive' /\ BuildersLive'
<1>1. Calm
  BY PostCalm DEF Arrive, StartCreate, StartDelete, StartDeletePipeline, Reject, local, vars
<1>2. CASE StartCreate(q)
  <2>1. /\ req'[q].op = "create" /\ req'[q].pc = "resolveTask" /\ req'[q].id = Nil
        /\ req'[q].s.ext = NoIds
        /\ \A p \in Reqs \ {q} : req'[p] = req[p]
    BY <1>2 DEF StartCreate, Known, TypeOK
  <2>2. BuiltWell(req[q])'
    BY <2>1 DEF BuiltWell, Built, NoIds, Triggers, Kinds
  <2>3. QED BY <1>1, <2>1, <2>2, CalmStep
<1>3. ASSUME NEW r \in Rows, StartDelete(q, r) PROVE RecordedIsLive' /\ BuildersLive'
  <2>1. /\ req'[q].op = "delete" /\ req'[q].id = r /\ req'[q].s = row[r]
        /\ r \in present
        /\ \A p \in Reqs \ {q} : req'[p] = req[p]
    BY <1>3 DEF StartDelete, Known, TypeOK
  <2>2. BuiltWell(req[q])'
    BY <1>1, <2>1 DEF BuiltWell, Calm
  <2>3. QED BY <1>1, <2>1, <2>2, CalmStep
<1>4. CASE StartDeletePipeline(q)
  <2>1. req'[q].op = "deletePipeline" /\ \A p \in Reqs \ {q} : req'[p] = req[p]
    BY <1>4 DEF StartDeletePipeline, Known, TypeOK
  <2>2. BuiltWell(req[q])' BY <2>1 DEF BuiltWell
  <2>3. QED BY <1>1, <2>1, <2>2, CalmStep
<1>5. CASE UNCHANGED vars
  BY <1>1, <1>5, CalmStep DEF vars, Known, LiveInv, BuildersLive, BuiltWell, Live
<1>6. QED BY <1>2, <1>3, <1>4, <1>5 DEF Arrive, Reject

-----------------------------------------------------------------------------
(* What is recorded lives: the copies of a deletion *)

(* A copy, of the requests in flight or of a row as it is.                 *)
IsCopy(c) ==
  /\ c.id \in Rows \cup {Nil} /\ Faithful(c)
  /\ \A k \in Own : c.s.ext[k] \in Nat /\ c.s.ext[k] <= issued
Alike(c, d) == c.id = d.id /\ \A k \in Own : c.s.ext[k] = d.s.ext[k]

LEMMA HasCopy ==
  ASSUME Known, NEW q \in Reqs, NEW c \in Copies(req[q])
  PROVE  IsCopy(c)
<1>1. Faithful(c) BY DEF Known, LiveInv, CopiesLive
<1>2. /\ req[q].id \in Rows \cup {Nil} /\ req[q].s \in SchemeRow
      /\ \A e \in req[q].todo : e.id \in Rows /\ e.s \in SchemeRow
  BY DEF Known, TypeOK, Request
<1>3. c.id \in Rows \cup {Nil} /\ c.s \in SchemeRow BY <1>2 DEF Copies
<1>4. ASSUME NEW k \in Own PROVE c.s.ext[k] \in Nat /\ c.s.ext[k] <= issued
  <2>1. k \in Kinds BY DEF Own
  <2>2. c.s.ext[k] \in Nat BY <1>3, <2>1 DEF SchemeRow, Ids, Nil
  <2>3. c.s.ext[k] <= issued BY <2>1 DEF Copies, Known, ResidueInv, IdsIssued
  <2>4. QED BY <2>2, <2>3
<1>5. QED BY <1>1, <1>3, <1>4 DEF IsCopy

LEMMA RowIsCopy ==
  ASSUME Known, NEW r \in present
  PROVE  IsCopy([id |-> r, s |-> row[r]])
<1>1. r \in Rows /\ r <= inserted /\ row[r] \in SchemeRow
  BY PresentRows DEF Known, TypeOK
<1>2. \A k \in Own : row[r].ext[k] \in Nat /\ row[r].ext[k] <= issued
  BY <1>1 DEF SchemeRow, Ids, Nil, Own, Known, ResidueInv, IdsIssued
<1>3. QED BY <1>1, <1>2 DEF IsCopy, Faithful, Copied, StillRecorded

LEMMA EmptyIsCopy ==
  ASSUME Known, NEW s, \A k \in Own : s.ext[k] = Nil
  PROVE  IsCopy([id |-> Nil, s |-> s])
<1>1. inserted \in Nat /\ issued \in Nat BY Numbers DEF Known, TypeOK
<1>2. Nil \notin present /\ Nil \notin Live BY PresentRows, LiveIds DEF Known
<1>3. QED BY <1>1, <1>2 DEF IsCopy, Faithful, Copied, Nil

(* A request works on the copies it had, or begins with those of rows.     *)
CopiesKept(q) ==
  \A c \in Copies(req'[q]) : \E d : IsCopy(d) /\ Alike(c, d)

LEMMA SameCopies ==
  ASSUME Known, NEW q \in Reqs, Copies(req'[q]) \subseteq Copies(req[q])
  PROVE  CopiesKept(q)
BY HasCopy DEF CopiesKept, Alike

LEMMA GoneCopies ==
  ASSUME NEW q \in Reqs, req'[q].op \in {"create", "none"}
  PROVE  CopiesKept(q)
BY DEF Copies, CopiesKept

LEMMA GotoCopies ==
  ASSUME Known, NEW q \in Reqs, NEW step, Goto(q, step) \/ Reply(q) \/ Finish(q)
  PROVE  CopiesKept(q)
<1>1. CASE Reply(q)
  <2>1. req'[q].op = "none" BY <1>1 DEF Reply, Idle, Known, TypeOK
  <2>2. QED BY <2>1, GoneCopies
<1>2. ASSUME NEW next, Goto(q, next) PROVE CopiesKept(q)
  <2>1. /\ req'[q].op = req[q].op /\ req'[q].id = req[q].id
        /\ req'[q].s = req[q].s /\ req'[q].todo = req[q].todo
    BY <1>2 DEF Goto, Known, TypeOK, Request
  <2>2. QED BY <2>1, SameCopies DEF Copies
<1>3. QED BY <1>1, <1>2 DEF Finish

LEMMA LearnCopies ==
  ASSUME Known, NEW q \in Reqs, NEW i, NEW step, Learn(q, "task", i, step)
  PROVE  CopiesKept(q)
<1> DEFINE s == WithId(req[q].s, "task", i)
<1>1. req[q].s \in SchemeRow BY DEF Known, TypeOK, Request
<1>2. \A k \in Own : s.ext[k] = req[q].s.ext[k] BY <1>1 DEF WithId, SchemeRow, Own
<1>3. req' = [req EXCEPT ![q] = [req[q] EXCEPT !.pc = step, !.s = s]] BY DEF Learn
<1> HIDE DEF s
<1>4. /\ req'[q].op = req[q].op /\ req'[q].id = req[q].id
      /\ req'[q].s = s /\ req'[q].todo = req[q].todo
  BY <1>3 DEF Known, TypeOK, Request
<1>5. SUFFICES ASSUME NEW c \in Copies(req'[q])
      PROVE  \E d \in Copies(req[q]) : Alike(c, d)
  BY HasCopy DEF CopiesKept
<1>6. CASE c \in req[q].todo
  BY <1>4, <1>6 DEF Copies, Alike
<1>7. CASE c = [id |-> req[q].id, s |-> s]
  <2>1. [id |-> req[q].id, s |-> req[q].s] \in Copies(req[q]) BY <1>4 DEF Copies
  <2>2. QED BY <1>2, <1>7, <2>1 DEF Alike
<1>8. QED BY <1>4, <1>6, <1>7 DEF Copies

LEMMA NextRowCopies ==
  ASSUME Known, NEW q \in Reqs, NextRow(q)
  PROVE  CopiesKept(q)
<1>1. PICK t \in req[q].todo :
        /\ req'[q].op = req[q].op /\ req'[q].id = t.id
        /\ req'[q].s = t.s /\ req'[q].todo \subseteq req[q].todo
  BY DEF NextRow, Known, TypeOK, Request
<1>2. [id |-> t.id, s |-> t.s] = t
  BY <1>1 DEF Known, TypeOK, Request
<1>3. QED BY <1>1, <1>2, SameCopies DEF Copies

LEMMA ArriveCopies ==
  ASSUME Known, NEW q \in Reqs, Arrive(q)
  PROVE  CopiesKept(q)
<1>1. CASE StartCreate(q)
  <2>1. req'[q].op = "create" BY <1>1 DEF StartCreate, Known, TypeOK
  <2>2. QED BY <2>1, GoneCopies
<1>2. ASSUME NEW r \in Rows, StartDelete(q, r) PROVE CopiesKept(q)
  <2>1. /\ req'[q].op = "delete" /\ req'[q].id = r /\ req'[q].s = row[r]
        /\ req'[q].todo = {} /\ r \in present
    BY <1>2 DEF StartDelete, Known, TypeOK
  <2>2. Copies(req'[q]) = {[id |-> r, s |-> row[r]]} BY <2>1 DEF Copies
  <2>3. QED BY <2>1, <2>2, RowIsCopy DEF CopiesKept, Alike
<1>3. CASE StartDeletePipeline(q)
  <2>1. PICK p \in pipes :
          /\ req'[q].op = "deletePipeline" /\ req'[q].id = Nil
          /\ req'[q].s = [Blank EXCEPT !.pipe = p]
          /\ req'[q].todo = {[id |-> r, s |-> row[r]] :
                               r \in {x \in present : row[x].pipe = p}}
    BY <1>3 DEF StartDeletePipeline, Known, TypeOK
  <2>2. IsCopy([id |-> Nil, s |-> req'[q].s])
    <3>1. \A k \in Own : req'[q].s.ext[k] = Nil BY <2>1 DEF Blank, NoIds, Own
    <3>2. QED BY <3>1, EmptyIsCopy
  <2>3. \A c \in req'[q].todo : IsCopy(c) BY <2>1, RowIsCopy
  <2>4. \A c \in Copies(req'[q]) : IsCopy(c) BY <2>1, <2>2, <2>3 DEF Copies
  <2>5. QED BY <2>4 DEF CopiesKept, Alike
<1>4. CASE UNCHANGED vars BY <1>4, SameCopies DEF vars
<1>5. QED BY <1>1, <1>2, <1>3, <1>4 DEF Arrive, Reject

LEMMA DeleteCopies ==
  ASSUME Known, NEW q \in Reqs, DeleteStep(q)
  PROVE  CopiesKept(q)
BY GotoCopies, LearnCopies, NextRowCopies
DEF DeleteStep, DeletePlan, DeleteBinding, DeleteScheme, CountTask, DeleteTask,
    DeleteSchemeAgain, DropRow, DropPipeline

LEMMA CreateCopies ==
  ASSUME Known, NEW q \in Reqs, CreateStep(q)
  PROVE  CopiesKept(q)
<1>1. req[q].pc \in CreateSteps
  BY DEF CreateStep, ResolveTask, PostTask, FindTask, PostScheme, FindScheme, PostBinding,
         PostPlan, FindPlan, Insert, CreateSteps
<1>2. req[q].op = "create" BY <1>1, AtCreateStep DEF Creating
<1>3. req'[q].op \in {"create", "none"} BY <1>2, SameHandler DEF Known
<1>4. QED BY <1>3, GoneCopies

LEMMA AllCopies ==
  ASSUME Known, [Next]_vars
  PROVE  \A q \in Reqs : CopiesKept(q)
<1>1. CASE Restart
  <2>1. \A q \in Reqs : req'[q].op = "none" BY <1>1 DEF Restart, Idle
  <2>2. QED BY <2>1, GoneCopies
<1>2. CASE UNCHANGED vars BY <1>2, SameCopies DEF vars
<1>3. ASSUME NEW q \in Reqs, Arrive(q) \/ CreateStep(q) \/ DeleteStep(q)
      PROVE  \A p \in Reqs : CopiesKept(p)
  <2>1. CopiesKept(q) BY <1>3, ArriveCopies, CreateCopies, DeleteCopies
  <2>2. \A p \in Reqs \ {q} : req'[p] = req[p]
    <3>1. CASE Arrive(q)
      BY <3>1 DEF Arrive, StartCreate, StartDelete, StartDeletePipeline, Reject, vars, Known, TypeOK
    <3>2. CASE CreateStep(q) \/ DeleteStep(q) BY <3>2, SameHandler DEF Known
    <3>3. QED BY <1>3, <3>1, <3>2
  <2>3. QED BY <2>1, <2>2, SameCopies
<1>4. QED BY <1>1, <1>2, <1>3 DEF Next

(* A step after which the same rows and creations, or fewer, hold the same *)
(* ids, or fewer, or one that was found by name.                           *)
Quiet == RemoteStep /\ RowsShrink /\ RequestsKeep

LEMMA LiveStays ==
  ASSUME Known, RemoteStep, NEW i \in Nat, i <= issued, i \in Live'
  PROVE  i \in Live
BY Numbers DEF Known, RemoteStep, Live

(* What nobody records and nobody will find stays so.                      *)
LEMMA ForgottenStays ==
  ASSUME Known, TypeOK', Quiet, pipes' \subseteq pipes, NEW i, Forgotten(i), i \in Live,
         i \in Live'
  PROVE  Forgotten(i)'
<1>0. IdsApart' /\ i # Nil
  BY IdsStayApart, LiveIds DEF Known, SharedInv, Quiet
<1>1. PICK o \in remote : o.id = i BY DEF Live
<1>2. \A x \in remote' : x.id = i => x = o
  <2>1. o.id <= issued /\ o.id \in Nat /\ issued \in Nat
    BY HeldShape DEF Known, SharedInv, IdsApart
  <2>2. QED BY <1>1, <2>1 DEF Quiet, RemoteStep, Known, SharedInv, IdsApart
<1>3. o.pipe \notin pipes /\ \A q \in Creating : req[q].s.name = o.name => req[q].s.pipe # o.pipe
  BY <1>1 DEF Forgotten
<1>4. \A q \in Creating' : req'[q].s.name = o.name => req'[q].s.pipe # o.pipe
  BY <1>3 DEF Quiet, RequestsKeep
<1>5. ASSUME NEW t \in Held', NEW k \in Own PROVE t.ext[k] # i
  <2>1. ASSUME NEW r \in present', t = row'[r] PROVE t.ext[k] # i
    <3>1. r \in present /\ t.ext[k] \in {Nil, row[r].ext[k]}
      BY <2>1 DEF Quiet, RowsShrink
    <3>2. row[r].ext[k] # i BY <3>1 DEF Forgotten, Held
    <3>3. QED BY <1>0, <3>1, <3>2
  <2>2. ASSUME NEW q \in Creating', t = req'[q].s PROVE t.ext[k] # i
    <3>1. q \in Creating /\ (t.ext[k] = req[q].s.ext[k] \/ NamedObject(t, k))
      BY <2>2 DEF Quiet, RequestsKeep
    <3>2. req[q].s.ext[k] # i BY <3>1 DEF Forgotten, Held
    <3>3. ~(NamedObject(t, k) /\ t.ext[k] = i) BY <1>2, <1>4, <2>2 DEF NamedObject
    <3>4. QED BY <3>1, <3>2, <3>3
  <2>3. QED BY <2>1, <2>2 DEF Held
<1>6. QED BY <1>2, <1>3, <1>4, <1>5 DEF Forgotten

(* A copy stays faithful if its row keeps what it still has to delete.     *)
LEMMA CopyStays ==
  ASSUME Known, TypeOK', Quiet, pipes' \subseteq pipes, UNCHANGED inserted,
         NEW c, IsCopy(c),
         \A k \in Own : c.s.ext[k] \in Live' /\ StillRecorded(c, k)
                          => StillRecorded(c, k)' \/ Forgotten(c.s.ext[k])'
  PROVE  Faithful(c)'
<1>1. Copied(c.id, c.s)'
  BY DEF IsCopy, Faithful, Copied, Quiet, RowsShrink
<1>2. ASSUME NEW k \in Own, c.s.ext[k] \in Live'
      PROVE  StillRecorded(c, k)' \/ Forgotten(c.s.ext[k])'
  <2>1. c.s.ext[k] \in Live BY <1>2, LiveStays DEF IsCopy, Quiet
  <2>2. StillRecorded(c, k) \/ Forgotten(c.s.ext[k]) BY <2>1 DEF IsCopy, Faithful
  <2>3. QED BY <1>2, <2>1, <2>2, ForgottenStays
<1>3. QED BY <1>1, <1>2 DEF IsCopy, Faithful

LEMMA SameRowsFaithful ==
  ASSUME Known, TypeOK', Quiet, UNCHANGED <<present, row, pipes, inserted>>, NEW c, IsCopy(c)
  PROVE  Faithful(c)'
BY CopyStays DEF StillRecorded

(* An object is taken down: the copies whose row recorded it have it.      *)
LEMMA ClearedFaithful ==
  ASSUME Known, TypeOK', Quiet, UNCHANGED <<present, pipes, inserted>>,
         NEW q \in Reqs, req[q].op # "none", NEW j \in Own,
         remote' = Without(req[q].s.ext[j]), row' = Cleared(req[q].id, j),
         NEW c, IsCopy(c)
  PROVE  Faithful(c)'
<1> SUFFICES ASSUME NEW k \in Own, c.s.ext[k] \in Live', StillRecorded(c, k)
    PROVE  StillRecorded(c, k)'
  BY CopyStays
<1>1. Live' = Live \ {req[q].s.ext[j]} BY DEF Live, Without
<1>2. j \in Kinds /\ k \in Kinds /\ req[q].id \in Rows \cup {Nil}
  BY DEF Own, Known, TypeOK, Request
<1>3. c.id \in present /\ row[c.id].ext[k] = c.s.ext[k] BY DEF StillRecorded
<1>4. ~(c.id = req[q].id /\ j = k)
  <2> SUFFICES ASSUME c.id = req[q].id, j = k PROVE FALSE
    OBVIOUS
  <2>1. req[q].op # "create"
    BY <1>3, PresentRows DEF Known, LiveInv, BuildersLive, BuiltWell
  <2>2. req[q].op \in {"delete", "deletePipeline"} BY <2>1 DEF Known, TypeOK, Request
  <2>3. row[req[q].id].ext[k] \in {Nil, req[q].s.ext[k]}
    BY <1>3, <2>2, InHand DEF Copied
  <2>4. c.s.ext[k] # Nil /\ c.s.ext[k] # req[q].s.ext[k] BY <1>1, LiveIds DEF Known
  <2>5. row[req[q].id].ext[k] = c.s.ext[k] BY <1>3
  <2>6. QED BY <2>3, <2>4, <2>5
<1>5. \A r \in present :
        /\ r # req[q].id => row'[r] = row[r]
        /\ r = req[q].id =>
             /\ row'[r].ext[j] = Nil /\ j \notin row'[r].want
             /\ \A i \in Kinds \ {j} : /\ row'[r].ext[i] = row[r].ext[i]
                                       /\ i \in row'[r].want <=> i \in row[r].want
  BY <1>2, ClearedRow DEF Known
<1>6. row'[c.id].ext[k] = row[c.id].ext[k] BY <1>2, <1>3, <1>4, <1>5
<1>7. QED BY <1>3, <1>6 DEF StillRecorded

LEMMA RowGoneFaithful ==
  ASSUME Known, TypeOK', Quiet, NEW q \in Reqs, DropRow(q), NEW c, IsCopy(c)
  PROVE  Faithful(c)'
<1>0. UNCHANGED <<pipes, inserted>> /\ Live' = Live BY DEF DropRow, Live
<1>1. CASE UNCHANGED <<present, row>> BY <1>0, <1>1, SameRowsFaithful
<1>2. CASE Drop({req[q].id})
  <2> SUFFICES ASSUME NEW k \in Own, c.s.ext[k] \in Live', StillRecorded(c, k)
      PROVE  StillRecorded(c, k)'
    BY <1>0, CopyStays
  <2>1. c.id \in present /\ row[c.id].ext[k] = c.s.ext[k] BY DEF StillRecorded
  <2>2. c.id # req[q].id BY <1>0, <2>1, RowLeavesClean DEF Known
  <2>3. c.id \in present' /\ row'[c.id] = row[c.id] BY <1>2, <2>1, <2>2, PresentRows DEF Drop, Known
  <2>4. QED BY <2>1, <2>3 DEF StillRecorded
<1>3. QED BY <1>1, <1>2 DEF DropRow

(* A row that goes with its pipeline leaves its objects to nobody.         *)
LEMMA DroppedForgotten ==
  ASSUME Known, NEW gone, Drop(gone), NEW r \in present \cap gone, NEW k \in Own,
         Creating' \subseteq Creating, \A q \in Creating' : req'[q] = req[q],
         remote' = remote, row[r].pipe \notin pipes',
         NEW i \in Live, i = row[r].ext[k]
  PROVE  Forgotten(i)'
<1>0. row[r] \in Held /\ i # Nil BY LiveIds DEF Held, Known
<1>1. Held' \subseteq Held
  BY PresentRows DEF Held, Drop, Known
<1>2. \A o \in remote : o.id = i => o.kind = k /\ o.name = row[r].name /\ o.pipe = row[r].pipe
  BY <1>0 DEF Known, SharedInv, HeldByName
<1>3. \A q \in Creating' : req'[q].s.name # row[r].name
  BY DEF Known, SharedInv, NamesApart
<1>4. ASSUME NEW t \in Held', NEW j \in Own, t.ext[j] = i PROVE FALSE
  <2>1. j = k
    <3>1. PICK o \in remote : o.id = i BY DEF Live
    <3>2. o.kind = k BY <1>2, <3>1
    <3>3. o.kind = j BY <1>1, <1>4, <3>1, HeldKind
    <3>4. QED BY <3>2, <3>3
  <2>2. t.name = row[r].name BY <1>0, <1>1, <1>4, <2>1 DEF Known, SharedInv, HeldByName
  <2>3. ASSUME NEW x \in present', t = row'[x] PROVE FALSE
    <3>1. x \in present /\ x \notin gone /\ row'[x] = row[x]
      BY PresentRows DEF Drop, Known
    <3>2. x = r BY <2>2, <2>3, <3>1 DEF Known, SharedInv, NamesApart
    <3>3. QED BY <3>1, <3>2
  <2>4. ASSUME NEW q \in Creating', t = req'[q].s PROVE FALSE
    BY <1>3, <2>2, <2>4
  <2>5. (\E x \in present' : t = row'[x]) \/ (\E q \in Creating' : t = req'[q].s) BY DEF Held
  <2>6. QED BY <2>3, <2>4, <2>5
<1>5. QED BY <1>2, <1>3, <1>4 DEF Forgotten

LEMMA PipelineGoneFaithful ==
  ASSUME Known, TypeOK', Quiet, NEW q \in Reqs, DropPipeline(q), NEW c, IsCopy(c)
  PROVE  Faithful(c)'
<1>0. UNCHANGED inserted /\ Live' = Live /\ remote' = remote BY DEF DropPipeline, Live
<1>1. CASE UNCHANGED <<present, row, pipes>> BY <1>0, <1>1, SameRowsFaithful
<1>2. CASE /\ Drop({r \in present : row[r].pipe = req[q].s.pipe})
           /\ pipes' = pipes \ {req[q].s.pipe}
  <2> SUFFICES ASSUME NEW k \in Own, c.s.ext[k] \in Live', StillRecorded(c, k)
      PROVE  StillRecorded(c, k)' \/ Forgotten(c.s.ext[k])'
    BY <1>0, <1>2, CopyStays
  <2>1. c.id \in present /\ row[c.id].ext[k] = c.s.ext[k] BY DEF StillRecorded
  <2>2. CASE row[c.id].pipe = req[q].s.pipe
    <3>1. Reply(q) BY DEF DropPipeline
    <3>2. Creating' \subseteq Creating /\ \A p \in Creating' : req'[p] = req[p]
      BY <3>1 DEF Reply, Idle, Known, TypeOK, Creating
    <3> DEFINE gone == {r \in present : row[r].pipe = req[q].s.pipe}
    <3>3. /\ Drop(gone) /\ c.id \in present \cap gone
          /\ row[c.id].pipe \notin pipes' /\ c.s.ext[k] \in Live
      BY <1>0, <1>2, <2>1, <2>2
    <3> HIDE DEF gone
    <3>4. QED BY <1>0, <2>1, <3>2, <3>3, DroppedForgotten
  <2>3. CASE row[c.id].pipe # req[q].s.pipe
    <3>1. c.id \in present' /\ row'[c.id] = row[c.id]
      BY <1>2, <2>1, <2>3, PresentRows DEF Drop, Known
    <3>2. QED BY <2>1, <3>1 DEF StillRecorded
  <2>4. QED BY <2>2, <2>3
<1>3. QED BY <1>1, <1>2 DEF DropPipeline

(* A creation begins on a pipeline that is there, and its row is new.      *)
LEMMA StartFaithful ==
  ASSUME Known, NEW q \in Reqs, StartCreate(q), NEW c, IsCopy(c)
  PROVE  Faithful(c)'
<1>1. PICK p \in pipes :
        /\ req'[q].s.pipe = p /\ req'[q].s.ext = NoIds
        /\ \A x \in Reqs \ {q} : req'[x] = req[x]
  BY DEF StartCreate, Known, TypeOK
<1>2. UNCHANGED <<present, row, inserted, pipes, remote>> BY DEF StartCreate, local
<1>3. Creating' \subseteq Creating \cup {q} BY <1>1 DEF Creating
<1>4. ASSUME NEW i \in Live, Forgotten(i) PROVE Forgotten(i)'
  <2>1. i # Nil BY LiveIds DEF Known
  <2>2. \A t \in Held' : t \in Held \/ t.ext = NoIds
    BY <1>1, <1>2, <1>3 DEF Held, Creating
  <2>3. \A t \in Held', k \in Own : t.ext[k] # i
    BY <1>4, <2>1, <2>2 DEF Forgotten, NoIds, Own
  <2>4. ASSUME NEW o \in remote, o.id = i, NEW x \in Creating', req'[x].s.name = o.name
        PROVE  req'[x].s.pipe # o.pipe
    <3>1. o.pipe \notin pipes BY <1>4, <2>4 DEF Forgotten
    <3>2. CASE x = q BY <1>1, <3>1, <3>2
    <3>3. CASE x # q
      <4>1. x \in Creating /\ req'[x] = req[x] BY <1>1, <1>3, <3>3 DEF Creating
      <4>2. QED BY <1>4, <2>4, <4>1 DEF Forgotten
    <3>4. QED BY <3>2, <3>3
  <2>5. \A o \in remote : o.id = i => o.pipe \notin pipes BY <1>4 DEF Forgotten
  <2>6. QED BY <1>2, <2>3, <2>4, <2>5 DEF Forgotten
<1>5. Live' = Live BY <1>2 DEF Live
<1>6. QED BY <1>2, <1>4, <1>5 DEF IsCopy, Faithful, Copied, StillRecorded

LEMMA InsertFaithful ==
  ASSUME Known, TypeOK', NEW q \in Reqs, Insert(q), NEW c, IsCopy(c)
  PROVE  Faithful(c)'
<1>0. req[q].pc = "insert" /\ remote' = remote /\ UNCHANGED pipes BY DEF Insert
<1>1. q \in Creating BY <1>0, AtCreateStep DEF CreateSteps
<1>2. Live' = Live BY <1>0 DEF Live
<1>3. CASE Goto(q, "delPlan") /\ UNCHANGED <<present, inserted, row>>
  <2>1. OwnStep(req[q].op, "delPlan")
    BY <1>1 DEF Creating, OwnStep
  <2>2. Quiet
    BY <1>3, <2>1, GotoKeeps, SameRowsShrink, SameRemote DEF Insert, Quiet, Known
  <2>3. QED BY <1>0, <1>3, <2>2, SameRowsFaithful
<1>4. CASE /\ inserted < MaxRows
           /\ inserted' = inserted + 1
           /\ present' = present \cup {inserted'}
           /\ row' = [row EXCEPT ![inserted'] = req[q].s]
           /\ Reply(q)
  <2>1. inserted \in Nat /\ inserted' \in Rows /\ inserted' \notin present
    BY <1>4, PresentRows, ConstantsAssumption DEF Known, TypeOK, Rows
  <2>2. row'[inserted'] = req[q].s /\ \A r \in present : row'[r] = row[r]
    BY <1>4, <2>1, PresentRows DEF Known, TypeOK
  <2>3. /\ Creating' \subseteq Creating /\ \A p \in Creating' : req'[p] = req[p]
    BY <1>4 DEF Reply, Idle, Known, TypeOK, Creating
  <2>4. Held' \subseteq Held BY <1>1, <1>4, <2>2, <2>3 DEF Held
  <2>5. \A i : Forgotten(i) => Forgotten(i)' BY <1>0, <2>3, <2>4 DEF Forgotten
  <2>6. c.id <= inserted /\ c.id \in Nat BY DEF IsCopy, Faithful, Rows, Nil
  <2>7. c.id # inserted' /\ c.id <= inserted' BY <1>4, <2>1, <2>6
  <2>8. c.id \in present' <=> c.id \in present BY <1>4, <2>7
  <2>9. Copied(c.id, c.s)' BY <2>2, <2>8 DEF IsCopy, Faithful, Copied
  <2>10. \A k \in Own : StillRecorded(c, k) => StillRecorded(c, k)'
    BY <2>2, <2>8 DEF StillRecorded
  <2>11. QED BY <1>2, <2>5, <2>7, <2>9, <2>10 DEF IsCopy, Faithful
<1>5. QED BY <1>3, <1>4 DEF Insert

LEMMA DeleteFaithful ==
  ASSUME NoLoss, Known, TypeOK', NEW q \in Reqs, DeleteStep(q), NEW c, IsCopy(c)
  PROVE  Faithful(c)'
<1>0. Quiet BY DeleteQuiet DEF Known, Quiet
<1>1. "plan" \in Own /\ "binding" \in Own /\ "scheme" \in Own /\ Own \subseteq Kinds
  BY DEF Own, Kinds
<1>2. ASSUME req[q].pc \in DeleteSteps, NEW k \in Own, NEW ok,
             UNCHANGED <<present, inserted, pipes>>,
             \/ DeleteSucceeds(req[q].s.ext[k], ok) /\ Noted(q, k)
             \/ DeleteFails(req[q].s.ext[k], ok) /\ UNCHANGED row
             \/ UNCHANGED <<row, remote, issued, faults>>
      PROVE  Faithful(c)'
  <2>1. req[q].op # "none" BY <1>2 DEF Known, TypeOK, Request, DeleteSteps
  <2>2. CASE Calm BY <1>0, <1>2, <2>2, SameRowsFaithful DEF Calm
  <2>3. CASE remote' = Without(req[q].s.ext[k]) /\ row' = Cleared(req[q].id, k)
    BY <1>0, <1>2, <2>1, <2>3, ClearedFaithful
  <2>4. QED BY <1>1, <1>2, <2>2, <2>3, DeleteOrCalm
<1>3. CASE DeletePlan(q) BY <1>1, <1>2, <1>3 DEF DeletePlan, DeleteSteps
<1>4. CASE DeleteBinding(q) BY <1>1, <1>2, <1>4 DEF DeleteBinding, DeleteSteps
<1>5. CASE DeleteScheme(q) BY <1>1, <1>2, <1>5 DEF DeleteScheme, DeleteSteps
<1>6. CASE DeleteSchemeAgain(q) BY <1>1, <1>2, <1>6 DEF DeleteSchemeAgain, DeleteSteps
<1>7. CASE CountTask(q) \/ DeleteTask(q) \/ NextRow(q)
  <2>1. UNCHANGED <<present, row, pipes, inserted>>
    BY <1>7 DEF CountTask, DeleteTask, NextRow, local
  <2>2. QED BY <1>0, <2>1, SameRowsFaithful
<1>8. CASE DropRow(q) BY <1>0, <1>8, RowGoneFaithful
<1>9. CASE DropPipeline(q) BY <1>0, <1>9, PipelineGoneFaithful
<1>10. QED BY <1>3, <1>4, <1>5, <1>6, <1>7, <1>8, <1>9 DEF DeleteStep

LEMMA FaithfulStep ==
  ASSUME NoLoss, Known, TypeOK', [Next]_vars, NEW c, IsCopy(c)
  PROVE  Faithful(c)'
<1>1. CASE Restart
  <2>1. RequestsKeep BY <1>1 DEF Restart, RequestsKeep, OwnSteps, OwnStep, Creating, Idle
  <2>2. Quiet BY <1>1, <2>1, SameRemote, SameRowsShrink DEF Restart, local, Quiet
  <2>3. QED BY <1>1, <2>2, SameRowsFaithful DEF Restart, local
<1>2. CASE UNCHANGED vars
  BY <1>2 DEF vars, IsCopy, Faithful, Copied, StillRecorded, Forgotten, Held, Creating, Live
<1>3. ASSUME NEW q \in Reqs, StartCreate(q) PROVE Faithful(c)' BY <1>3, StartFaithful
<1>4. ASSUME NEW q \in Reqs, StartDeletePipeline(q) \/ \E r \in Rows : StartDelete(q, r)
      PROVE  Faithful(c)'
  <2>1. RequestsKeep BY <1>4, DeletionKeeps DEF Known
  <2>2. UNCHANGED <<local, remote, issued>> BY <1>4 DEF StartDelete, StartDeletePipeline
  <2>3. Quiet BY <2>1, <2>2, SameRemote, SameRowsShrink DEF local, Quiet
  <2>4. QED BY <2>2, <2>3, SameRowsFaithful DEF local
<1>5. ASSUME NEW q \in Reqs, CreateStep(q), ~Insert(q) PROVE Faithful(c)'
  <2>1. Quiet BY <1>5, CreateQuiet DEF Known, Quiet
  <2>2. UNCHANGED <<present, row, pipes, inserted>>
    BY <1>5 DEF CreateStep, ResolveTask, PostTask, FindTask, PostScheme, FindScheme,
                PostBinding, PostPlan, FindPlan, local
  <2>3. QED BY <2>1, <2>2, SameRowsFaithful
<1>6. ASSUME NEW q \in Reqs, Insert(q) PROVE Faithful(c)' BY <1>6, InsertFaithful
<1>7. ASSUME NEW q \in Reqs, DeleteStep(q) PROVE Faithful(c)' BY <1>7, DeleteFaithful
<1>8. QED BY <1>1, <1>2, <1>3, <1>4, <1>5, <1>6, <1>7 DEF Next, Arrive, Reject

LEMMA CopiesStep ==
  ASSUME NoLoss, Known, TypeOK', [Next]_vars
  PROVE  CopiesLive'
<1> SUFFICES ASSUME NEW q \in Reqs, NEW c \in Copies(req'[q]) PROVE Faithful(c)'
  BY DEF CopiesLive, Copies
<1>1. PICK d : IsCopy(d) /\ Alike(c, d) BY AllCopies DEF CopiesKept
<1>2. Faithful(d)' BY <1>1, FaithfulStep
<1>3. QED BY <1>1, <1>2 DEF Alike, Faithful, Copied, StillRecorded, Forgotten

-----------------------------------------------------------------------------
(* What is recorded lives: the theorem *)

LEMMA LiveStep ==
  ASSUME NoLoss, Known, TypeOK', [Next]_vars
  PROVE  LiveInv'
<1>1. TasksAreTasks' /\ CopiesLive'
  BY CopiesStep, NextTasks, NextRemote, TasksStayTasks DEF Known, ResidueInv, LiveInv
<1>2. CASE Restart
  <2>1. \A q \in Reqs : req'[q] = Idle BY <1>2 DEF Restart
  <2>2. Calm BY <1>2 DEF Restart, Calm, Live, local
  <2>3. BuildersLive' BY <2>1 DEF BuildersLive, BuiltWell, Idle
  <2>4. QED BY <1>1, <2>2, <2>3, CalmRows DEF LiveInv
<1>3. CASE UNCHANGED vars
  BY <1>1, <1>3 DEF vars, Known, LiveInv, BuildersLive, BuiltWell, Live, RecordedIsLive
<1>4. ASSUME NEW q \in Reqs, Arrive(q) \/ CreateStep(q) \/ DeleteStep(q)
      PROVE  RecordedIsLive' /\ BuildersLive'
  BY <1>4, ArriveLive, LiveCreateCalm, InsertLive, DeleteLive
<1>5. QED BY <1>1, <1>2, <1>3, <1>4 DEF Next, LiveInv

LEMMA LiveInit == Init => LiveInv
BY DEF Init, LiveInv, TasksAreTasks, RecordedIsLive, BuildersLive, BuiltWell, CopiesLive,
       Copies, Idle

LEMMA AlwaysKnown ==
  ASSUME DistinctNames, NoLoss
  PROVE  Spec => []Known
<1>1. Known /\ TypeOK' /\ ResidueInv' /\ [Next]_vars => Known'
  BY SharedStep, LiveStep DEF Known
<1>2. Init /\ TypeOK => Known BY ResidueInit, SharedInit, LiveInit DEF Known
<1>3. QED
  BY <1>1, <1>2, TypeCorrect, DeletionInOrder, PTL DEF Spec

(* RecordedIsLive, for the three handlers and any number of requests: when *)
(* names are not reused and no answer and no note is lost, a row that      *)
(* records a binding or a plan has one that exists, and records one        *)
(* exactly when its trigger is on -- whatever fails, whenever the process  *)
(* restarts, and whatever a cascade of the pipeline has read before.       *)
THEOREM RecordedLives ==
  ASSUME DistinctNames, NoLoss
  PROVE  Spec => []RecordedIsLive
<1>1. Spec => []Known BY AlwaysKnown
<1>2. Known => RecordedIsLive BY DEF Known, LiveInv
<1>3. QED BY <1>1, <1>2, PTL

-----------------------------------------------------------------------------
(* Nothing left behind: one request at a time, one repository, one failure *)

OneRepo == \A p1, p2 \in Repos : p1 = p2
OneFailure == MaxFaults <= 1 /\ Faults \subseteq {"refused", "db"}

(* An object belongs to a row, or the creation in flight still owes it a   *)
(* row or a deletion: it knows its id, or is about to look it up.          *)
Recorded(o) == \E r \in present : row[r].ext[o.kind] = o.id
FindStep(k) == CASE k = "task" -> "findTask" [] k = "scheme" -> "findScheme"
                 [] k = "plan" -> "findPlan" [] OTHER -> "none"
Before(k) ==
  CASE k = "plan" -> {"delPlan"}
    [] k = "binding" -> {"delPlan", "delBinding"}
    [] k = "scheme" -> {"delPlan", "delBinding", "delScheme"}
    [] OTHER -> {"delPlan", "delBinding", "delScheme", "countTask", "delTask"}
Owed(q, o) ==
  /\ req[q].op = "create"
  /\ \/ req[q].pc = FindStep(o.kind) /\ o.id \in Matches(o.kind, req[q].s)
     \/ /\ req[q].s.ext[o.kind] = o.id
        /\ req[q].pc \in DeleteSteps => req[q].pc \in Before(o.kind)
Accounted == \A o \in remote : Recorded(o) \/ \E q \in Reqs : Owed(q, o)

(* A creation posts what is not there yet, so that what it looks up is its *)
(* own; once it rolls back nothing fails any more and the trigger objects  *)
(* it must delete are alive.                                               *)
TidyCreation(q) ==
  req[q].op = "create" =>
    /\ req[q].pc = "postTask" => \A o \in remote : o.kind # "task"
    /\ req[q].pc \in {"resolveTask", "postTask", "findTask"} => req[q].s.ext["task"] = Nil
    /\ req[q].pc \in {"resolveTask", "postTask", "findTask", "postScheme", "findScheme"} =>
         req[q].s.ext["scheme"] = Nil
    /\ \A k \in Kinds : req[q].pc = FindStep(k) => \E i \in Ids : Matches(k, req[q].s) = {i}
    /\ req[q].pc \in DeleteSteps =>
         /\ faults >= MaxFaults
         /\ \A k \in Triggers : req[q].pc \in Before(k) /\ req[q].s.ext[k] # Nil =>
              req[q].s.ext[k] \in Live

(* A deletion knows the task of its row, and drops the row only when the   *)
(* task is gone or another row uses it.                                    *)
TidyDeletion(q) ==
  req[q].op = "delete" /\ req[q].id \in present =>
    /\ row[req[q].id].ext["task"] \in {Nil, req[q].s.ext["task"]}
    /\ req[q].pc \in {"delAgain", "dropRow"} /\ row[req[q].id].ext["task"] \in Live =>
         \E r \in present \ {req[q].id} : row[r].ext["task"] = row[req[q].id].ext["task"]

TidyInv ==
  /\ Accounted /\ pipes = Pipes
  /\ \A q \in Reqs : TidyCreation(q) /\ TidyDeletion(q)

(* With one slot it is enough to look at its request.                      *)
LEMMA OneSlot ==
  ASSUME Sequential, NEW q \in Reqs, TidyInv, UNCHANGED pipes,
         TidyCreation(q)', TidyDeletion(q)',
         \A o \in remote' : Recorded(o)' \/ Owed(q, o)'
  PROVE  TidyInv'
BY DEF Sequential, TidyInv, Accounted

LEMMA OneSlotBefore ==
  ASSUME Sequential, NEW q \in Reqs, TidyInv
  PROVE  /\ TidyCreation(q) /\ TidyDeletion(q)
         /\ \A o \in remote : Recorded(o) \/ Owed(q, o)
BY DEF Sequential, TidyInv, Accounted

(* No row records an object that could be the one a creation posts.        *)
LEMMA PostedAlone ==
  ASSUME Sequential, Known, TidyInv, NEW q \in Creating, NEW k \in Own,
         req[q].s.ext[k] = Nil, req[q].pc # FindStep(k)
  PROVE  \A o \in remote : o.kind = k => o.name # req[q].s.name
<1> SUFFICES ASSUME NEW o \in remote, o.kind = k, o.name = req[q].s.name PROVE FALSE
  OBVIOUS
<1>0. q \in Reqs BY DEF Creating
<1>1. o.id # Nil BY HeldShape DEF Known
<1>2. ~Owed(q, o) BY <1>1 DEF Owed
<1>3. PICK r \in present : row[r].ext[k] = o.id
  BY <1>0, <1>2, OneSlotBefore DEF Recorded
<1>4. row[r] \in Held BY DEF Held
<1>5. o.name = row[r].name BY <1>3, <1>4 DEF Known, SharedInv, HeldByName
<1>6. QED BY <1>5 DEF Known, SharedInv, NamesApart

(* The object a POST creates is the only one a search then finds.          *)
LEMMA PostedFound ==
  ASSUME Known, NEW k \in Kinds, NEW s \in SchemeRow, Created(k, s),
         \A o \in remote : o.kind = k => k # "task" /\ o.name # s.name
  PROVE  Matches(k, s)' = {issued'}
<1> DEFINE o == [id |-> issued', kind |-> k, name |-> s.name, pipe |-> s.pipe]
           good(x) == /\ x.kind = k
                      /\ x.name = s.name \/ (k = "task" /\ <<s.name, x.name>> \in Similar)
                      /\ k = "task" \/ x.pipe = s.pipe
<1>1. remote' = remote \cup {o} BY Zenon DEF Created
<1>2. o.id = issued' /\ good(o) OBVIOUS
<1>3. \A x \in remote : ~good(x) OBVIOUS
<1>4. Matches(k, s)' = {x.id : x \in {y \in remote' : good(y)}} BY Zenon DEF Matches
<1> HIDE DEF o, good
<1>5. {y \in remote' : good(y)} = {o} BY <1>1, <1>2, <1>3
<1>6. QED BY <1>2, <1>4, <1>5

LEMMA SameMatches ==
  ASSUME UNCHANGED remote, NEW k, NEW s
  PROVE  Matches(k, s)' = Matches(k, s)
BY DEF Matches

(* What a step makes of the request it is for.                             *)
LEMMA GotoEffect ==
  ASSUME TypeOK, NEW q \in Reqs, NEW step, Goto(q, step)
  PROVE  /\ req'[q].op = req[q].op /\ req'[q].id = req[q].id /\ req'[q].s = req[q].s
         /\ req'[q].pc = step
BY DEF TypeOK, Request, Goto

LEMMA LearnEffect ==
  ASSUME TypeOK, NEW q \in Reqs, NEW j \in Kinds, NEW i, NEW step, Learn(q, j, i, step)
  PROVE  /\ req'[q].op = req[q].op /\ req'[q].id = req[q].id /\ req'[q].pc = step
         /\ req'[q].s.name = req[q].s.name /\ req'[q].s.pipe = req[q].s.pipe
         /\ \A k \in Kinds : req'[q].s.ext[k] = IF k = j THEN i ELSE req[q].s.ext[k]
<1> DEFINE e == [req[q].s.ext EXCEPT ![j] = i]
           s == [req[q].s EXCEPT !.ext = e]
<1>1. req[q].s \in SchemeRow BY DEF TypeOK, Request
<1>2. s.name = req[q].s.name /\ s.pipe = req[q].s.pipe /\ s.ext = e BY <1>1 DEF SchemeRow
<1>3. \A k \in Kinds : e[k] = IF k = j THEN i ELSE req[q].s.ext[k] BY <1>1 DEF SchemeRow
<1>4. /\ req'[q].op = req[q].op /\ req'[q].s = s /\ req'[q].pc = step
      /\ req'[q].id = req[q].id
  BY DEF TypeOK, Request, Learn, WithId
<1> HIDE DEF e, s
<1>5. QED BY <1>2, <1>3, <1>4

(* A request ends with everything in a row.                                *)
LEMMA TidyReply ==
  ASSUME Sequential, Known, TidyInv, NEW q \in Reqs, Reply(q), UNCHANGED pipes,
         \A o \in remote' : Recorded(o)'
  PROVE  TidyInv'
<1>1. req'[q] = Idle BY DEF Known, TypeOK, Reply
<1>2. TidyCreation(q)' /\ TidyDeletion(q)' BY <1>1 DEF Idle, TidyCreation, TidyDeletion
<1>3. QED BY <1>2, OneSlot

(* The rows keep recording what they record.                               *)
LEMMA SameRecords ==
  ASSUME UNCHANGED <<present, row>>, NEW o, Recorded(o)
  PROVE  Recorded(o)'
BY DEF Recorded

(* A creation that knows no id and looks for none owes nothing.            *)
LEMMA NothingOwed ==
  ASSUME Sequential, Known, TidyInv, NEW q \in Reqs,
         \/ req[q].op # "create"
         \/ /\ \A k \in Kinds : req[q].s.ext[k] = Nil
            /\ \A k \in Kinds : req[q].pc # FindStep(k)
         \/ req[q].pc = "delAgain"
  PROVE  \A o \in remote : Recorded(o)
<1> SUFFICES ASSUME NEW o \in remote, Owed(q, o) PROVE FALSE
  BY OneSlotBefore
<1>1. o.id # Nil /\ o.kind \in Kinds BY LiveIds DEF Known, TypeOK, Object, Ids, Nil
<1>2. CASE req[q].op # "create" BY <1>2 DEF Owed
<1>3. CASE /\ \A k \in Kinds : req[q].s.ext[k] = Nil
           /\ \A k \in Kinds : req[q].pc # FindStep(k)
  BY <1>1, <1>3 DEF Owed
<1>4. CASE req[q].pc = "delAgain"
  <2>1. req[q].pc # FindStep(o.kind) BY <1>4 DEF FindStep
  <2>2. req[q].pc \in DeleteSteps /\ req[q].pc \notin Before(o.kind)
    BY <1>4 DEF DeleteSteps, Before
  <2>3. QED BY <2>1, <2>2 DEF Owed
<1>5. QED BY <1>2, <1>3, <1>4

(* The one failure starts a rollback, which then owes what was known.      *)
LEMMA TidyRollback ==
  ASSUME Sequential, OneFailure, Known, TidyInv, NEW q \in Creating,
         req[q].pc \in CreateSteps, \A k \in Kinds : req[q].pc # FindStep(k),
         NEW f, Fault(f), Goto(q, "delPlan"), UNCHANGED <<present, row, remote, pipes>>
  PROVE  TidyInv'
<1>0. q \in Reqs BY DEF Creating
<1>1. /\ req'[q].op = "create" /\ req'[q].s = req[q].s /\ req'[q].pc = "delPlan"
  BY <1>0, GotoEffect DEF Known, Creating
<1>2. faults' >= MaxFaults
  BY ConstantsAssumption DEF OneFailure, Fault, Known, TypeOK
<1>3. \A o \in remote' : Recorded(o)' \/ Owed(q, o)'
  <2> SUFFICES ASSUME NEW o \in remote, ~Recorded(o) PROVE Owed(q, o)'
    BY SameRecords
  <2>1. Owed(q, o) /\ o.kind \in Kinds BY <1>0, OneSlotBefore DEF Known, TypeOK, Object
  <2>2. req[q].s.ext[o.kind] = o.id BY <2>1 DEF Owed
  <2>3. "delPlan" \in Before(o.kind) BY DEF Before
  <2>4. QED BY <1>1, <2>2, <2>3 DEF Owed
<1>4. \A k \in Triggers : req[q].s.ext[k] # Nil => req[q].s.ext[k] \in Live'
  BY <1>0 DEF Known, LiveInv, BuildersLive, BuiltWell, Creating, Live
<1>5. TidyCreation(q)'
  BY <1>1, <1>2, <1>4 DEF TidyCreation, FindStep, Kinds
<1>6. TidyDeletion(q)' BY <1>1 DEF TidyDeletion
<1>7. QED BY <1>0, <1>3, <1>5, <1>6, OneSlot

-----------------------------------------------------------------------------
(* Nothing left behind: the steps of a creation *)

Looked == {"task", "scheme", "plan"}     \* the ids that are found by name
Early == {"resolveTask", "postTask", "findTask", "postScheme", "findScheme"}

(* At the steps that obtain an id, the creation does not have it yet.      *)
LEMMA NotYet ==
  ASSUME Known, TidyInv, NEW q \in Creating
  PROVE  /\ req[q].pc \in {"resolveTask", "postTask", "findTask"} => req[q].s.ext["task"] = Nil
         /\ req[q].pc \in Early => \A k \in Own : req[q].s.ext[k] = Nil
         /\ req[q].pc = "postBinding" => req[q].s.ext["binding"] = Nil
         /\ req[q].pc \in {"postPlan", "findPlan", "postBinding"} => req[q].s.ext["plan"] = Nil
<1>0. q \in Reqs /\ req[q].op = "create" BY DEF Creating
<1>1. TidyCreation(q) /\ BuiltWell(req[q])
  BY <1>0 DEF TidyInv, Known, LiveInv, BuildersLive
<1>2. Own = {"scheme", "binding", "plan"} BY DEF Own, Kinds
<1>3. QED
  BY <1>0, <1>1, <1>2 DEF TidyCreation, BuiltWell, Built, CreateSteps, Triggers, Early

(* A POST: what it created is what the next step looks for, and all it     *)
(* finds.                                                                  *)
LEMMA TidyPosted ==
  ASSUME Sequential, Known, TidyInv, NEW q \in Creating, NEW k \in Looked,
         req[q].pc = (CASE k = "task" -> "postTask" [] k = "scheme" -> "postScheme"
                        [] OTHER -> "postPlan"),
         Created(k, req[q].s), Goto(q, FindStep(k)), UNCHANGED <<present, row, pipes>>
  PROVE  TidyInv'
<1>0. q \in Reqs /\ k \in Kinds BY DEF Creating, Looked, Kinds
<1>1. /\ req'[q].op = "create" /\ req'[q].s = req[q].s /\ req'[q].pc = FindStep(k)
  BY <1>0, GotoEffect DEF Known, Creating
<1>2. \A j \in Kinds : req[q].pc # FindStep(j) BY DEF FindStep, Looked
<1>3. \A o \in remote : o.kind = k => k # "task" /\ o.name # req[q].s.name
  <2>1. CASE k = "task"
    BY <1>0, <2>1 DEF TidyInv, TidyCreation, Creating
  <2>2. CASE k # "task"
    <3>1. k \in Own BY <1>0, <2>2 DEF Own
    <3>2. req[q].s.ext[k] = Nil BY <2>2, <3>1, NotYet DEF Looked, Early
    <3>3. QED BY <1>2, <1>0, <2>2, <3>1, <3>2, PostedAlone
  <2>3. QED BY <2>1, <2>2
<1>4. Matches(k, req[q].s)' = {issued'}
  <2>1. req[q].s \in SchemeRow BY <1>0 DEF Known, TypeOK, Request
  <2> DEFINE s == req[q].s
  <2>2. Matches(k, s)' = {issued'} BY <1>0, <1>1, <1>3, <2>1, PostedFound
  <2>3. QED BY <2>2
<1>5. \A o \in remote' : Recorded(o)' \/ Owed(q, o)'
  <2> DEFINE n == [id |-> issued', kind |-> k, name |-> req[q].s.name, pipe |-> req[q].s.pipe]
  <2>1. remote' = remote \cup {n} BY DEF Created
  <2>2. n.id = issued' /\ n.kind = k OBVIOUS
  <2> HIDE DEF n
  <2>3. ASSUME NEW o \in remote', o.id = issued', o.kind = k PROVE Owed(q, o)'
    BY <1>1, <1>4, <2>3 DEF Owed
  <2>4. ASSUME NEW o \in remote, ~Recorded(o) PROVE Owed(q, o)'
    <3>1. Owed(q, o) /\ o.kind \in Kinds
      BY <1>0, <2>4, OneSlotBefore DEF Known, TypeOK, Object
    <3>2. req[q].s.ext[o.kind] = o.id BY <1>2, <3>1 DEF Owed
    <3>3. FindStep(k) \notin DeleteSteps BY DEF FindStep, DeleteSteps, Looked
    <3>4. QED BY <1>1, <3>2, <3>3 DEF Owed
  <2>5. QED BY <2>1, <2>2, <2>3, <2>4, SameRecords
<1>6. TidyCreation(q)'
  <2>1. issued' \in Ids
    BY ConstantsAssumption DEF Created, Ids, Known, TypeOK
  <2>2. \A j \in Kinds : FindStep(j) = FindStep(k) => j = k
    BY DEF FindStep, Looked, Kinds
  <2>3. /\ FindStep(k) \notin {"postTask", "resolveTask", "postScheme"} \cup DeleteSteps
        /\ FindStep(k) = "findTask" <=> k = "task"
        /\ FindStep(k) = "findScheme" <=> k = "scheme"
    BY DEF FindStep, DeleteSteps, Looked
  <2>4. /\ k = "task" => req[q].s.ext["task"] = Nil
        /\ k \in {"task", "scheme"} => req[q].s.ext["scheme"] = Nil
    BY NotYet DEF Early, Own, Kinds
  <2>5. \A j \in Kinds : FindStep(k) = FindStep(j) => \E i \in Ids : Matches(j, req[q].s)' = {i}
    BY <1>4, <2>1, <2>2
  <2>6. QED BY <1>1, <2>3, <2>4, <2>5 DEF TidyCreation
<1>7. TidyDeletion(q)' BY <1>1 DEF TidyDeletion
<1>8. QED BY <1>0, <1>5, <1>6, <1>7, OneSlot

(* A search that succeeds: the creation now has the id it looked for.      *)
LEMMA TidyFound ==
  ASSUME Sequential, Known, TidyInv, NEW q \in Creating, NEW k \in Looked,
         req[q].pc = FindStep(k), NEW i \in Matches(k, req[q].s), NEW step,
         Learn(q, k, i, step), UNCHANGED <<present, row, remote, pipes>>,
         IF k = "task" THEN step = "postScheme" ELSE step \in {"postBinding", "postPlan", "insert"}
  PROVE  TidyInv'
<1>0. q \in Reqs /\ k \in Kinds BY DEF Creating, Looked, Kinds
<1>1. /\ req'[q].op = "create" /\ req'[q].pc = step
      /\ \A j \in Kinds : req'[q].s.ext[j] = IF j = k THEN i ELSE req[q].s.ext[j]
  BY <1>0, LearnEffect DEF Known, Creating
<1>2. Matches(k, req[q].s) = {i} BY <1>0 DEF TidyInv, TidyCreation, Creating
<1>3. req[q].s.ext[k] = Nil BY NotYet DEF FindStep, Looked, Early, Own, Kinds
<1>4. \A o \in remote' : Recorded(o)' \/ Owed(q, o)'
  <2> SUFFICES ASSUME NEW o \in remote, ~Recorded(o) PROVE Owed(q, o)'
    BY SameRecords
  <2>1. Owed(q, o) /\ o.kind \in Kinds /\ o.id # Nil
    BY <1>0, OneSlotBefore, LiveIds DEF Known, TypeOK, Object, Ids, Nil
  <2>2. step \notin DeleteSteps BY DEF DeleteSteps
  <2>3. CASE o.kind = k
    <3>1. o.id = i BY <1>2, <1>3, <2>1, <2>3 DEF Owed
    <3>2. QED BY <1>1, <2>1, <2>2, <2>3, <3>1 DEF Owed
  <2>4. CASE o.kind # k
    <3>1. FindStep(o.kind) # FindStep(k) BY <2>1, <2>4 DEF FindStep, Looked, Kinds
    <3>2. req[q].s.ext[o.kind] = o.id BY <2>1, <3>1 DEF Owed
    <3>3. QED BY <1>1, <2>1, <2>2, <2>4, <3>2 DEF Owed
  <2>5. QED BY <2>3, <2>4
<1>5. TidyCreation(q)'
  <2>1. \A j \in Kinds : step # FindStep(j) BY DEF FindStep, Looked
  <2>2. step \notin DeleteSteps /\ step \notin {"resolveTask", "postTask", "findTask", "findScheme"}
    BY DEF DeleteSteps
  <2>3. step = "postScheme" => k = "task" /\ req[q].s.ext["scheme"] = Nil
    BY NotYet DEF FindStep, Early, Own, Kinds
  <2>4. "scheme" \in Kinds BY DEF Kinds
  <2>5. QED BY <1>1, <2>1, <2>2, <2>3, <2>4 DEF TidyCreation
<1>6. TidyDeletion(q)' BY <1>1 DEF TidyDeletion
<1>7. QED BY <1>0, <1>4, <1>5, <1>6, OneSlot

(* A search finds what was posted.                                         *)
LEMMA LookupSucceeds ==
  ASSUME OneFailure, TidyInv, NEW q \in Creating, NEW k \in Looked, req[q].pc = FindStep(k)
  PROVE  ~LookupFails(k, req[q].s)
<1>1. q \in Reqs /\ k \in Kinds BY DEF Creating, Looked, Kinds
<1>2. Matches(k, req[q].s) # {} BY <1>1 DEF TidyInv, TidyCreation, Creating
<1>3. ~Fault("lookup") BY DEF OneFailure, Fault
<1>4. QED BY <1>2, <1>3 DEF LookupFails

(* A POST that fails did nothing.                                          *)
LEMMA FailedPost ==
  ASSUME OneFailure, NEW k, NEW s, PostFails(k, s)
  PROVE  Fault("refused") /\ UNCHANGED <<remote, issued>>
BY DEF OneFailure, PostFails, Fault

LEMMA ResolveTaskTidy ==
  ASSUME Sequential, OneRepo, Known, TidyInv, NEW q \in Creating, ResolveTask(q)
  PROVE  TidyInv'
<1>0. q \in Reqs /\ req[q].op = "create" /\ req[q].pc = "resolveTask"
  BY DEF Creating, ResolveTask
<1>1. \A k \in Kinds : req[q].s.ext[k] = Nil
  <2>1. \A k \in Kinds : k = "task" \/ k \in Own BY DEF Own
  <2>2. QED BY <1>0, <2>1, NotYet DEF Early
<1>2. \A o \in remote : Recorded(o)
  <2>1. \A k \in Kinds : req[q].pc # FindStep(k) BY <1>0 DEF FindStep, Kinds
  <2>2. QED BY <1>0, <1>1, <2>1, NothingOwed
<1>3. \A o \in remote' : Recorded(o)'
  BY <1>2, SameRecords DEF ResolveTask
<1>4. "scheme" \in Kinds /\ "task" \in Kinds BY DEF Kinds
<1>5. ASSUME NEW t, Learn(q, "task", t, "postScheme") PROVE TidyInv'
  <2>1. /\ req'[q].op = "create" /\ req'[q].pc = "postScheme"
        /\ req'[q].s.ext["scheme"] = Nil
    BY <1>0, <1>1, <1>4, <1>5, LearnEffect DEF Known
  <2>2. TidyCreation(q)' BY <2>1 DEF TidyCreation, FindStep, Kinds, DeleteSteps
  <2>3. TidyDeletion(q)' BY <2>1 DEF TidyDeletion
  <2>4. QED BY <1>0, <1>3, <2>2, <2>3, OneSlot DEF ResolveTask
<1>6. ASSUME ReusableTasks(req[q].s.repo) = {}, NEW step \in {"postTask", "postScheme"},
             Goto(q, step)
      PROVE  TidyInv'
  <2>1. req'[q].op = "create" /\ req'[q].pc = step /\ req'[q].s = req[q].s
    BY <1>0, <1>6, GotoEffect DEF Known
  <2>2. ASSUME NEW o \in remote, o.kind = "task" PROVE FALSE
    <3>1. PICK r \in present : row[r].ext["task"] = o.id BY <1>2, <2>2 DEF Recorded
    <3>2. row[r] \in SchemeRow /\ req[q].s \in SchemeRow
      BY <1>0, PresentRows DEF Known, TypeOK, Request
    <3>3. row[r].repo = req[q].s.repo BY <3>2 DEF OneRepo, SchemeRow
    <3>4. o.id # Nil BY LiveIds DEF Known, TypeOK, Object, Ids, Nil
    <3>5. QED BY <1>6, <3>1, <3>3, <3>4 DEF ReusableTasks
  <2>3. UNCHANGED remote BY DEF ResolveTask
  <2>4. TidyCreation(q)'
    BY <1>1, <1>4, <2>1, <2>2, <2>3 DEF TidyCreation, FindStep, Kinds, DeleteSteps
  <2>5. TidyDeletion(q)' BY <2>1 DEF TidyDeletion
  <2>6. QED BY <1>0, <1>3, <2>4, <2>5, OneSlot DEF ResolveTask
<1>7. QED BY <1>5, <1>6 DEF ResolveTask

LEMMA PostBindingTidy ==
  ASSUME Sequential, OneFailure, Known, TidyInv, NEW q \in Creating, PostBinding(q)
  PROVE  TidyInv'
<1>0. /\ q \in Reqs /\ req[q].op = "create" /\ req[q].pc = "postBinding"
      /\ "binding" \in Kinds /\ UNCHANGED <<present, row, pipes>>
  BY DEF Creating, PostBinding, Kinds, local
<1>1. \A k \in Kinds : req[q].pc # FindStep(k) BY <1>0 DEF FindStep, Kinds
<1>2. CASE PostFails("binding", req[q].s) /\ Goto(q, "delPlan")
  BY <1>0, <1>1, <1>2, FailedPost, TidyRollback DEF CreateSteps
<1>3. ASSUME NEW step \in {"postPlan", "insert"}, Created("binding", req[q].s),
             Learn(q, "binding", issued', step)
      PROVE  TidyInv'
  <2>1. /\ req'[q].op = "create" /\ req'[q].pc = step
        /\ \A j \in Kinds : req'[q].s.ext[j] = IF j = "binding" THEN issued' ELSE req[q].s.ext[j]
    BY <1>0, <1>3, LearnEffect DEF Known
  <2>2. req[q].s.ext["binding"] = Nil BY <1>0, NotYet
  <2>3. step \notin DeleteSteps /\ step \notin Early /\ \A k \in Kinds : step # FindStep(k)
    BY DEF DeleteSteps, Early, FindStep
  <2>4. ASSUME NEW o \in remote, ~Recorded(o) PROVE Owed(q, o)'
    <3>1. Owed(q, o) /\ o.kind \in Kinds /\ o.id # Nil
      BY <1>0, <2>4, OneSlotBefore, LiveIds DEF Known, TypeOK, Object, Ids, Nil
    <3>2. req[q].s.ext[o.kind] = o.id BY <1>1, <3>1 DEF Owed
    <3>3. QED BY <2>1, <2>2, <2>3, <3>1, <3>2 DEF Owed
  <2>5. ASSUME NEW o \in remote', o.id = issued', o.kind = "binding" PROVE Owed(q, o)'
    BY <1>0, <2>1, <2>3, <2>5 DEF Owed
  <2>6. \A o \in remote' : Recorded(o)' \/ Owed(q, o)'
    <3> DEFINE n == [id |-> issued', kind |-> "binding", name |-> req[q].s.name,
                     pipe |-> req[q].s.pipe]
    <3>1. remote' = remote \cup {n} BY <1>3 DEF Created
    <3>2. n.id = issued' /\ n.kind = "binding" OBVIOUS
    <3> HIDE DEF n
    <3>3. QED BY <1>0, <2>4, <2>5, <3>1, <3>2, SameRecords
  <2>7. TidyCreation(q)' BY <2>1, <2>3 DEF TidyCreation, Early
  <2>8. TidyDeletion(q)' BY <2>1 DEF TidyDeletion
  <2>9. QED BY <1>0, <2>6, <2>7, <2>8, OneSlot
<1>4. QED BY <1>2, <1>3 DEF PostBinding, PostSucceeds

LEMMA InsertTidy ==
  ASSUME Sequential, OneFailure, Known, TidyInv, NEW q \in Creating, Insert(q)
  PROVE  TidyInv'
<1>0. q \in Reqs /\ req[q].op = "create" /\ req[q].pc = "insert" /\ UNCHANGED <<pipes, remote>>
  BY DEF Creating, Insert
<1>1. \A k \in Kinds : req[q].pc # FindStep(k) BY <1>0 DEF FindStep, Kinds
<1>2. req[q].s.pipe \in pipes BY <1>0 DEF TidyInv, Known, TypeOK, Request, SchemeRow
<1>3. CASE Fault("db") /\ Goto(q, "delPlan") /\ UNCHANGED <<present, row>>
  BY <1>0, <1>1, <1>3, TidyRollback DEF CreateSteps
<1>4. CASE /\ inserted < MaxRows
           /\ inserted' = inserted + 1
           /\ present' = present \cup {inserted'}
           /\ row' = [row EXCEPT ![inserted'] = req[q].s]
           /\ Reply(q)
  <2>1. inserted' \in Rows /\ inserted' \notin present
    BY <1>4, PresentRows, ConstantsAssumption DEF Known, TypeOK, Rows
  <2>2. row'[inserted'] = req[q].s /\ \A r \in present : row'[r] = row[r]
    BY <1>4, <2>1, PresentRows DEF Known, TypeOK
  <2>3. ASSUME NEW o \in remote PROVE Recorded(o)'
    <3>1. CASE Recorded(o) BY <1>4, <2>2, <3>1 DEF Recorded
    <3>2. CASE Owed(q, o)
      <4>1. req[q].s.ext[o.kind] = o.id BY <1>1, <3>2 DEF Owed, Known, TypeOK, Object
      <4>2. QED BY <1>4, <2>2, <4>1 DEF Recorded
    <3>3. QED BY <1>0, <3>1, <3>2, OneSlotBefore
  <2>4. QED BY <1>0, <1>4, <2>3, TidyReply
<1>5. QED BY <1>2, <1>3, <1>4 DEF Insert

LEMMA CreateTidy ==
  ASSUME Sequential, OneRepo, OneFailure, Known, TidyInv, NEW q \in Reqs, CreateStep(q)
  PROVE  TidyInv'
<1>1. req[q].pc \in CreateSteps
  BY DEF CreateStep, ResolveTask, PostTask, FindTask, PostScheme, FindScheme, PostBinding,
         PostPlan, FindPlan, Insert, CreateSteps
<1>2. q \in Creating BY <1>1, AtCreateStep
<1>3. /\ FindStep("task") = "findTask" /\ FindStep("scheme") = "findScheme"
      /\ FindStep("plan") = "findPlan" /\ Looked = {"task", "scheme", "plan"}
  BY DEF FindStep, Looked
<1>4. \A k \in Kinds : FindStep(k) \notin {"postTask", "postScheme", "postPlan", "insert"}
  BY DEF FindStep
<1>5. CASE PostTask(q)
  <2>1. CASE PostFails("task", req[q].s) /\ Reply(q)
    <3>0. req[q].pc = "postTask" /\ UNCHANGED <<present, row, pipes>>
      BY <1>5 DEF PostTask, local
    <3>1. \A k \in Kinds : req[q].s.ext[k] = Nil
      <4>1. \A k \in Kinds : k = "task" \/ k \in Own BY DEF Own
      <4>2. QED BY <1>2, <3>0, <4>1, NotYet DEF Early
    <3>2. \A o \in remote : Recorded(o) BY <1>4, <3>0, <3>1, NothingOwed
    <3>3. QED BY <2>1, <3>0, <3>2, FailedPost, SameRecords, TidyReply
  <2>2. CASE PostSucceeds("task", req[q].s) /\ Goto(q, "findTask")
    BY <1>2, <1>3, <1>5, <2>2, TidyPosted DEF PostTask, PostSucceeds, local
  <2>3. QED BY <1>5, <2>1, <2>2 DEF PostTask
<1>6. CASE PostScheme(q)
  <2>1. CASE PostFails("scheme", req[q].s) /\ Goto(q, "delPlan")
    BY <1>1, <1>2, <1>4, <1>6, <2>1, FailedPost, TidyRollback DEF PostScheme, local
  <2>2. CASE PostSucceeds("scheme", req[q].s) /\ Goto(q, "findScheme")
    BY <1>2, <1>3, <1>6, <2>2, TidyPosted DEF PostScheme, PostSucceeds, local
  <2>3. QED BY <1>6, <2>1, <2>2 DEF PostScheme
<1>7. CASE PostPlan(q)
  <2>1. CASE PostFails("plan", req[q].s) /\ Goto(q, "delPlan")
    BY <1>1, <1>2, <1>4, <1>7, <2>1, FailedPost, TidyRollback DEF PostPlan, local
  <2>2. CASE PostSucceeds("plan", req[q].s) /\ Goto(q, "findPlan")
    BY <1>2, <1>3, <1>7, <2>2, TidyPosted DEF PostPlan, PostSucceeds, local
  <2>3. req[q].s.pipe \in pipes BY <1>2 DEF Creating, TidyInv, Known, TypeOK, Request, SchemeRow
  <2>4. QED BY <1>7, <2>1, <2>2, <2>3 DEF PostPlan
<1>8. CASE FindTask(q)
  BY <1>2, <1>3, <1>8, LookupSucceeds, TidyFound DEF FindTask
<1>9. CASE FindScheme(q)
  BY <1>2, <1>3, <1>9, LookupSucceeds, TidyFound DEF FindScheme, AfterScheme, local
<1>10. CASE FindPlan(q)
  BY <1>2, <1>3, <1>10, LookupSucceeds, TidyFound DEF FindPlan, local
<1>11. QED
  BY <1>2, <1>5, <1>6, <1>7, <1>8, <1>9, <1>10, ResolveTaskTidy, PostBindingTidy, InsertTidy
  DEF CreateStep

-----------------------------------------------------------------------------
(* Nothing left behind: a rollback, in which nothing fails any more *)

LEMMA RollbackSettled ==
  ASSUME TypeOK, TidyInv, NEW q \in Creating, req[q].pc \in DeleteSteps
  PROVE  \A f : ~Fault(f)
<1>1. faults >= MaxFaults BY DEF TidyInv, TidyCreation, Creating
<1>2. QED BY <1>1, ConstantsAssumption DEF Fault, TypeOK

(* A rollback goes on with less to delete.                                 *)
LEMMA TidyOnward ==
  ASSUME Sequential, Known, TidyInv, NEW q \in Creating, req[q].pc \in DeleteSteps,
         NEW step \in DeleteSteps, UNCHANGED <<present, row, pipes, faults>>,
         req'[q].op = "create", req'[q].pc = step,
         remote' \subseteq remote,
         \A o \in remote' : Owed(q, o) => Recorded(o) \/ Owed(q, o)',
         \A k \in Triggers : step \in Before(k) =>
           /\ req[q].pc \in Before(k) /\ req'[q].s.ext[k] = req[q].s.ext[k]
           /\ req[q].s.ext[k] \in Live => req[q].s.ext[k] \in Live'
  PROVE  TidyInv'
<1>0. q \in Reqs BY DEF Creating
<1>1. \A o \in remote' : Recorded(o)' \/ Owed(q, o)'
  BY <1>0, OneSlotBefore, SameRecords
<1>2. /\ faults' >= MaxFaults
      /\ \A k \in Triggers : req[q].pc \in Before(k) /\ req[q].s.ext[k] # Nil =>
           req[q].s.ext[k] \in Live
  BY <1>0 DEF TidyInv, TidyCreation, Creating
<1>3. TidyCreation(q)'
  <2>1. /\ step \notin {"resolveTask", "postTask", "findTask", "postScheme", "findScheme"}
        /\ \A k \in Kinds : step # FindStep(k)
    BY DEF DeleteSteps, FindStep
  <2>2. QED BY <1>2, <2>1 DEF TidyCreation
<1>4. TidyDeletion(q)' BY DEF TidyDeletion
<1>5. QED BY <1>0, <1>1, <1>3, <1>4, OneSlot

(* A rollback updates no row.                                              *)
LEMMA RollbackNotes ==
  ASSUME Known, NEW q \in Creating, NEW k
  PROVE  Cleared(req[q].id, k) = row
<1>1. req[q].id = Nil /\ Nil \notin present
  BY PresentRows DEF Creating, Known, LiveInv, BuildersLive, BuiltWell
<1>2. QED BY <1>1 DEF Cleared

(* The plan, the binding and the scheme are taken down in this order.      *)
LEMMA RollbackTidy ==
  ASSUME Sequential, Known, TidyInv, NEW q \in Creating, NEW k \in Own, NEW step, NEW ok,
         \/ k = "plan" /\ req[q].pc = "delPlan" /\ step = "delBinding"
         \/ k = "binding" /\ req[q].pc = "delBinding" /\ step = "delScheme"
         \/ k = "scheme" /\ req[q].pc = "delScheme" /\ step = "countTask" /\ ok,
         \/ /\ req[q].s.ext[k] = Nil
            /\ Goto(q, step)
            /\ UNCHANGED <<row, remote, issued, faults>>
         \/ /\ req[q].s.ext[k] # Nil
            /\ DeleteSucceeds(req[q].s.ext[k], ok) /\ Noted(q, k)
            /\ Goto(q, step)
         \/ req[q].s.ext[k] # Nil /\ DeleteFails(req[q].s.ext[k], ok) /\ Reply(q) /\ UNCHANGED row,
         UNCHANGED <<present, pipes>>
  PROVE  TidyInv'
<1> DEFINE i == req[q].s.ext[k]
<1>0. /\ q \in Reqs /\ req[q].op = "create" /\ k \in Kinds
      /\ req[q].pc \in DeleteSteps /\ step \in DeleteSteps
  BY DEF Creating, Own, DeleteSteps
<1>1. \A f : ~Fault(f) BY <1>0, RollbackSettled DEF Known
<1>2. k \in Triggers /\ i # Nil => i \in Live
  BY <1>0 DEF TidyInv, TidyCreation, Before, Triggers
<1>3. Own = {"plan", "binding", "scheme"} BY DEF Own, Kinds
<1>4. ~DeleteFails(i, ok) \/ i = Nil
  BY <1>1, <1>2, <1>3 DEF DeleteFails, Triggers
<1>5. Goto(q, step) /\ UNCHANGED <<row, faults>> /\ remote' = {o \in remote : o.id # i}
  <2>1. CASE /\ i = Nil /\ Goto(q, step) /\ UNCHANGED <<row, remote, faults>>
    <3>1. \A o \in remote : o.id # Nil BY LiveIds DEF Known, TypeOK, Object, Ids, Nil
    <3>2. QED BY <2>1, <3>1
  <2>2. CASE DeleteSucceeds(i, ok) /\ Noted(q, k) /\ Goto(q, step)
    BY <1>1, <2>2, RollbackNotes DEF DeleteSucceeds, Without, Noted
  <2>3. QED BY <1>4, <2>1, <2>2
<1>6. req'[q].op = "create" /\ req'[q].pc = step /\ req'[q].s = req[q].s
  BY <1>0, <1>5, GotoEffect DEF Known
<1>7. ASSUME NEW o \in remote', Owed(q, o) PROVE Owed(q, o)'
  <2>1. o \in remote /\ o.id # i /\ o.kind \in Kinds BY <1>5 DEF Known, TypeOK, Object
  <2>2. req[q].pc # FindStep(o.kind) BY DEF FindStep
  <2>3. req[q].s.ext[o.kind] = o.id /\ req[q].pc \in Before(o.kind)
    BY <1>0, <1>7, <2>2 DEF Owed
  <2>4. o.kind # k BY <2>1, <2>3
  <2>5. step \in Before(o.kind) BY <2>1, <2>3, <2>4 DEF Before, Kinds
  <2>6. QED BY <1>6, <2>3, <2>5 DEF Owed
<1>8. ASSUME NEW j \in Triggers, step \in Before(j)
      PROVE  /\ req[q].pc \in Before(j)
             /\ req[q].s.ext[j] \in Live => req[q].s.ext[j] \in Live'
  <2>1. req[q].pc \in Before(j) /\ j # k /\ j \in Own
    BY <1>8, <1>3 DEF Before, Triggers
  <2>2. ASSUME NEW o \in remote, o.id = req[q].s.ext[j] PROVE o.id # i
    <3>1. req[q].s \in Held BY DEF Held
    <3>2. QED BY <2>1, <2>2, <3>1, HeldKind
  <2>3. QED BY <1>5, <2>1, <2>2 DEF Live
<1>9. QED BY <1>0, <1>5, <1>6, <1>7, <1>8, TidyOnward

LEMMA CountTaskRollback ==
  ASSUME Sequential, Known, TidyInv, NEW q \in Creating, CountTask(q)
  PROVE  TidyInv'
<1> DEFINE t == TaskOf(req[q].s)
           step == IF t # Nil /\ OtherUsers(t, req[q].id) = {} THEN "delTask" ELSE "delAgain"
<1>0. /\ q \in Reqs /\ req[q].op = "create" /\ req[q].pc = "countTask"
      /\ req[q].pc \in DeleteSteps /\ step \in DeleteSteps
      /\ UNCHANGED <<present, row, pipes, remote>> /\ "task" \in Kinds
  BY DEF Creating, CountTask, DeleteSteps, local, Kinds
<1>1. Learn(q, "task", t, step) /\ UNCHANGED faults
  BY <1>0, RollbackSettled DEF CountTask, Known
<1>2. /\ req'[q].op = "create" /\ req'[q].pc = step
      /\ req'[q].s.ext["task"] = t
  BY <1>0, <1>1, LearnEffect DEF Known
<1>3. ASSUME NEW o \in remote, Owed(q, o) PROVE Recorded(o) \/ Owed(q, o)'
  <2>1. o.kind \in Kinds /\ o.id # Nil BY LiveIds DEF Known, TypeOK, Object, Ids, Nil
  <2>2. req[q].pc # FindStep(o.kind) BY <1>0 DEF FindStep
  <2>3. req[q].s.ext[o.kind] = o.id /\ req[q].pc \in Before(o.kind)
    BY <1>0, <1>3, <2>2 DEF Owed
  <2>4. o.kind = "task" BY <1>0, <2>1, <2>3 DEF Before, Kinds
  <2>5. t = o.id BY <2>1, <2>3, <2>4 DEF TaskOf
  <2>6. CASE OtherUsers(t, req[q].id) = {}
    <3>1. step = "delTask" BY <2>1, <2>5, <2>6
    <3>2. QED BY <1>2, <2>4, <2>5, <3>1 DEF Owed, Before
  <2>7. CASE OtherUsers(t, req[q].id) # {}
    BY <2>4, <2>5, <2>7 DEF OtherUsers, Recorded
  <2>8. QED BY <2>6, <2>7
<1>4. \A k \in Triggers : step \notin Before(k) BY DEF Before, Triggers
<1> HIDE DEF t, step
<1>5. QED BY <1>0, <1>1, <1>2, <1>3, <1>4, TidyOnward

LEMMA DeleteTaskRollback ==
  ASSUME Sequential, Known, TidyInv, NEW q \in Creating, DeleteTask(q)
  PROVE  TidyInv'
<1> DEFINE t == req[q].s.ext["task"]
<1>0. /\ q \in Reqs /\ req[q].op = "create" /\ req[q].pc = "delTask"
      /\ req[q].pc \in DeleteSteps /\ "delAgain" \in DeleteSteps
      /\ UNCHANGED <<present, row, pipes>>
  BY DEF Creating, DeleteTask, DeleteSteps
<1>1. \A f : ~Fault(f) BY <1>0, RollbackSettled DEF Known
<1>2. ~DeleteFails(t, TRUE) BY <1>1 DEF DeleteFails
<1>3. remote' = Without(t) /\ Goto(q, "delAgain") /\ UNCHANGED faults
  BY <1>1, <1>2 DEF DeleteTask, DeleteSucceeds
<1>4. req'[q].op = "create" /\ req'[q].pc = "delAgain" BY <1>0, <1>3, GotoEffect DEF Known
<1>5. ASSUME NEW o \in remote', Owed(q, o) PROVE FALSE
  <2>1. o \in remote /\ o.id # t /\ o.kind \in Kinds BY <1>3 DEF Without, Known, TypeOK, Object
  <2>2. req[q].pc # FindStep(o.kind) BY <1>0 DEF FindStep
  <2>3. req[q].s.ext[o.kind] = o.id /\ req[q].pc \in Before(o.kind)
    BY <1>0, <1>5, <2>2 DEF Owed
  <2>4. o.kind = "task" BY <1>0, <2>1, <2>3 DEF Before, Kinds
  <2>5. QED BY <2>1, <2>3, <2>4
<1>6. \A k \in Triggers : "delAgain" \notin Before(k) BY DEF Before, Triggers
<1>7. remote' \subseteq remote BY <1>3 DEF Without
<1>8. QED BY <1>0, <1>3, <1>4, <1>5, <1>6, <1>7, TidyOnward

LEMMA AgainRollback ==
  ASSUME Sequential, Known, TidyInv, NEW q \in Creating, DeleteSchemeAgain(q)
  PROVE  TidyInv'
<1>0. /\ q \in Reqs /\ req[q].op = "create" /\ req[q].pc = "delAgain"
      /\ UNCHANGED <<present, pipes>>
  BY DEF Creating, DeleteSchemeAgain
<1>1. \A o \in remote : Recorded(o) BY <1>0, NothingOwed
<1>2. UNCHANGED row /\ remote' \subseteq remote /\ Reply(q)
  BY <1>0, RollbackNotes
  DEF DeleteSchemeAgain, Noted, DeleteSucceeds, DeleteFails, Without, Finish
<1>3. QED BY <1>0, <1>1, <1>2, SameRecords, TidyReply

-----------------------------------------------------------------------------
(* Nothing left behind: a deletion *)

(* While a row is taken down, what still exists stays recorded.            *)
LEMMA StillRecordedTidy ==
  ASSUME Sequential, Known, TidyInv, NEW q \in Reqs, req[q].op = "delete", NEW k \in Own,
         UNCHANGED present,
         \/ remote' = Without(req[q].s.ext[k]) /\ row' = Cleared(req[q].id, k)
         \/ remote' \subseteq remote /\ UNCHANGED row
  PROVE  /\ \A o \in remote' : Recorded(o)'
         /\ \A r \in present : row'[r].ext["task"] = row[r].ext["task"]
         /\ Live' \subseteq Live
<1>0. \A o \in remote : Recorded(o) BY NothingOwed
<1>1. CASE remote' \subseteq remote /\ UNCHANGED row
  BY <1>0, <1>1, SameRecords DEF Live
<1>2. CASE remote' = Without(req[q].s.ext[k]) /\ row' = Cleared(req[q].id, k)
  <2>0. /\ k \in Kinds /\ req[q].id \in Rows \cup {Nil} /\ "task" \in Kinds /\ k # "task"
        /\ Live' \subseteq Live
    BY <1>2 DEF Own, Known, TypeOK, Request, Kinds, Without, Live
  <2>1. \A r \in present :
          /\ r # req[q].id => row'[r] = row[r]
          /\ r = req[q].id => \A j \in Kinds \ {k} : row'[r].ext[j] = row[r].ext[j]
    BY <1>2, <2>0, ClearedRow DEF Known
  <2>2. ASSUME NEW o \in remote' PROVE Recorded(o)'
    <3>1. o \in remote /\ o.id # req[q].s.ext[k] /\ o.kind \in Kinds /\ o.id # Nil
      BY <1>2, LiveIds DEF Without, Known, TypeOK, Object, Ids, Nil
    <3>2. PICK r \in present : row[r].ext[o.kind] = o.id BY <1>0, <3>1 DEF Recorded
    <3>3. ~(r = req[q].id /\ o.kind = k)
      BY <3>1, <3>2 DEF Known, ResidueInv, Orderly
    <3>4. row'[r].ext[o.kind] = o.id BY <2>1, <3>1, <3>2, <3>3
    <3>5. QED BY <3>2, <3>4 DEF Recorded
  <2>3. QED BY <2>0, <2>1, <2>2
<1>3. QED BY <1>1, <1>2

LEMMA TidyDeleted ==
  ASSUME Sequential, Known, TidyInv, NEW q \in Reqs, req[q].op = "delete", NEW k \in Own,
         UNCHANGED <<present, pipes>>,
         \/ remote' = Without(req[q].s.ext[k]) /\ row' = Cleared(req[q].id, k)
         \/ remote' \subseteq remote /\ UNCHANGED row,
         NEW step, Reply(q) \/ Goto(q, step),
         step \in {"delAgain", "dropRow"} => req[q].pc = "delAgain"
  PROVE  TidyInv'
<1>1. /\ \A o \in remote' : Recorded(o)'
      /\ \A r \in present : row'[r].ext["task"] = row[r].ext["task"]
      /\ Live' \subseteq Live
  BY StillRecordedTidy
<1>2. CASE Reply(q) BY <1>1, <1>2, TidyReply
<1>3. CASE Goto(q, step)
  <2>1. /\ req'[q].op = "delete" /\ req'[q].pc = step /\ req'[q].s = req[q].s
        /\ req'[q].id = req[q].id
    BY <1>3, GotoEffect DEF Known
  <2>2. TidyDeletion(q) BY DEF TidyInv
  <2>3. TidyCreation(q)' BY <2>1 DEF TidyCreation
  <2>4. TidyDeletion(q)' BY <1>1, <2>1, <2>2 DEF TidyDeletion
  <2>5. QED BY <1>1, <2>3, <2>4, OneSlot
<1>4. QED BY <1>2, <1>3

(* The task of the row is looked for: either the row is its only user, or  *)
(* another row keeps it.                                                   *)
LEMMA CountTaskTidy ==
  ASSUME Sequential, Known, TidyInv, NEW q \in Reqs, req[q].op = "delete", CountTask(q)
  PROVE  TidyInv'
<1> DEFINE t == TaskOf(req[q].s)
           step == IF t # Nil /\ OtherUsers(t, req[q].id) = {} THEN "delTask" ELSE "delAgain"
<1>0. UNCHANGED <<present, row, pipes, remote>> /\ "task" \in Kinds
  BY DEF CountTask, local, Kinds
<1>1. \A o \in remote' : Recorded(o)'
  BY <1>0, NothingOwed, SameRecords
<1>2. CASE Reply(q) BY <1>0, <1>1, <1>2, TidyReply
<1>3. CASE Learn(q, "task", t, step)
  <2>1. /\ req'[q].op = "delete" /\ req'[q].pc = step /\ req'[q].id = req[q].id
        /\ req'[q].s.ext["task"] = t
    BY <1>0, <1>3, LearnEffect DEF Known
  <2>2. TidyCreation(q)' BY <2>1 DEF TidyCreation
  <2>3. TidyDeletion(q)'
    <3> SUFFICES ASSUME req[q].id \in present
        PROVE  /\ row[req[q].id].ext["task"] \in {Nil, t}
               /\ step = "delAgain" /\ row[req[q].id].ext["task"] \in Live =>
                    \E r \in present \ {req[q].id} :
                       row[r].ext["task"] = row[req[q].id].ext["task"]
      BY <1>0, <2>1 DEF TidyDeletion, Live
    <3>1. row[req[q].id].ext["task"] \in {Nil, req[q].s.ext["task"]}
      BY DEF TidyInv, TidyDeletion
    <3>2. row[req[q].id].ext["task"] \in {Nil, t} BY <3>1 DEF TaskOf
    <3>3. ASSUME step = "delAgain", row[req[q].id].ext["task"] \in Live
          PROVE  \E r \in present \ {req[q].id} :
                    row[r].ext["task"] = row[req[q].id].ext["task"]
      <4>1. row[req[q].id].ext["task"] = t /\ t # Nil BY <3>2, <3>3, LiveIds DEF Known
      <4>2. OtherUsers(t, req[q].id) # {} BY <3>3, <4>1
      <4>3. QED BY <4>1, <4>2 DEF OtherUsers
    <3>4. QED BY <3>2, <3>3
  <2>4. QED BY <1>0, <1>1, <2>2, <2>3, OneSlot
<1>4. QED BY <1>2, <1>3 DEF CountTask

LEMMA DeleteTaskTidy ==
  ASSUME Sequential, OneFailure, Known, TidyInv, NEW q \in Reqs, req[q].op = "delete",
         DeleteTask(q)
  PROVE  TidyInv'
<1> DEFINE t == req[q].s.ext["task"]
<1>0. UNCHANGED <<present, row, pipes>> /\ remote' \subseteq remote
  BY DEF DeleteTask, DeleteSucceeds, DeleteFails, Without
<1>1. \A o \in remote' : Recorded(o)'
  BY <1>0, NothingOwed, SameRecords
<1>2. CASE Reply(q) BY <1>0, <1>1, <1>2, TidyReply
<1>3. CASE remote' = Without(t) /\ Goto(q, "delAgain")
  <2>1. /\ req'[q].op = "delete" /\ req'[q].id = req[q].id /\ req'[q].s = req[q].s
    BY <1>3, GotoEffect DEF Known
  <2>2. TidyCreation(q)' BY <2>1 DEF TidyCreation
  <2>3. Nil \notin Live' /\ t \notin Live'
    BY <1>0, <1>3, LiveIds DEF Without, Live, Known
  <2>4. TidyDeletion(q)'
    <3>1. req[q].id \in present => row[req[q].id].ext["task"] \in {Nil, t}
      BY DEF TidyInv, TidyDeletion
    <3>2. QED BY <1>0, <2>1, <2>3, <3>1 DEF TidyDeletion
  <2>5. QED BY <1>0, <1>1, <2>2, <2>4, OneSlot
<1>4. QED BY <1>2, <1>3 DEF DeleteTask, DeleteSucceeds

(* The row goes last: nothing is alive any more that only it records.      *)
LEMMA DropRowTidy ==
  ASSUME Sequential, Known, TidyInv, NEW q \in Reqs, req[q].op = "delete", DropRow(q)
  PROVE  TidyInv'
<1>0. req[q].pc = "dropRow" /\ Reply(q) /\ UNCHANGED <<pipes, remote>> BY DEF DropRow
<1>1. \A o \in remote : Recorded(o) BY NothingOwed
<1>2. CASE UNCHANGED <<present, row>> BY <1>0, <1>1, <1>2, SameRecords, TidyReply
<1>3. CASE Drop({req[q].id})
  <2>1. /\ present' = present \ {req[q].id}
        /\ \A r \in present' : row'[r] = row[r]
    BY <1>3, PresentRows DEF Drop, Known
  <2>2. ASSUME NEW o \in remote PROVE Recorded(o)'
    <3>1. PICK r \in present : row[r].ext[o.kind] = o.id BY <1>1 DEF Recorded
    <3>2. CASE r # req[q].id BY <2>1, <3>1, <3>2 DEF Recorded
    <3>3. CASE r = req[q].id
      <4>0. o.kind \in Kinds /\ o.id \in Live /\ o.id # Nil
        BY LiveIds DEF Known, TypeOK, Object, Live
      <4>1. CASE o.kind = "task"
        <5>1. PICK x \in present \ {req[q].id} :
                row[x].ext["task"] = row[req[q].id].ext["task"]
          BY <1>0, <3>1, <3>3, <4>0, <4>1 DEF TidyInv, TidyDeletion
        <5>2. QED BY <2>1, <3>1, <3>3, <4>1, <5>1 DEF Recorded
      <4>2. CASE o.kind \in Own
        <5>1. req[q].pc \in Past(o.kind) BY <1>0 DEF Past, DeleteSteps
        <5>2. QED
          BY <3>1, <3>3, <4>0, <4>2, <5>1 DEF Known, ResidueInv, Orderly
      <4>3. QED BY <4>0, <4>1, <4>2 DEF Own
    <3>4. QED BY <3>2, <3>3
  <2>3. QED BY <1>0, <2>2, TidyReply
<1>4. QED BY <1>2, <1>3 DEF DropRow

LEMMA DeleteTidy ==
  ASSUME Sequential, OneFailure, Known, Uncascaded, TidyInv, NEW q \in Reqs, DeleteStep(q)
  PROVE  TidyInv'
<1>0. /\ req[q].pc \in DeleteSteps \cup {"nextRow"} /\ req[q].op # "none"
  BY DEF DeleteStep, DeletePlan, DeleteBinding, DeleteScheme, CountTask, DeleteTask,
         DeleteSchemeAgain, DropRow, NextRow, DropPipeline, DeleteSteps, Known, TypeOK
<1>1. "plan" \in Own /\ "binding" \in Own /\ "scheme" \in Own /\ Own \subseteq Kinds
  BY DEF Own, Kinds
<1>2. ~NextRow(q) /\ ~DropPipeline(q) BY NoCascade DEF NextRow, DropPipeline, Known
<1>3. CASE req[q].op = "create"
  <2>0. q \in Creating /\ ~DropRow(q) BY <1>3 DEF Creating, DropRow, Known, ResidueInv, Orderly
  <2> DEFINE took(k, ok, step) ==
        /\ UNCHANGED <<present, pipes>>
        /\ \/ /\ req[q].s.ext[k] = Nil
              /\ Goto(q, step)
              /\ UNCHANGED <<row, remote, issued, faults>>
           \/ /\ req[q].s.ext[k] # Nil
              /\ DeleteSucceeds(req[q].s.ext[k], ok) /\ Noted(q, k)
              /\ Goto(q, step)
           \/ /\ req[q].s.ext[k] # Nil /\ DeleteFails(req[q].s.ext[k], ok)
              /\ Reply(q) /\ UNCHANGED row
  <2>1. CASE DeletePlan(q)
    <3>1. took("plan", FALSE, "delBinding") /\ req[q].pc = "delPlan" BY <2>1 DEF DeletePlan
    <3>2. QED BY <1>1, <2>0, <3>1, RollbackTidy
  <2>2. CASE DeleteBinding(q)
    <3>1. took("binding", FALSE, "delScheme") /\ req[q].pc = "delBinding"
      BY <2>2 DEF DeleteBinding
    <3>2. QED BY <1>1, <2>0, <3>1, RollbackTidy
  <2>3. CASE DeleteScheme(q)
    <3>1. took("scheme", TRUE, "countTask") /\ req[q].pc = "delScheme"
      BY <2>3 DEF DeleteScheme
    <3>2. QED BY <1>1, <2>0, <3>1, RollbackTidy
  <2>4. QED
    BY <1>2, <2>0, <2>1, <2>2, <2>3, CountTaskRollback, DeleteTaskRollback, AgainRollback
    DEF DeleteStep
<1>4. CASE req[q].op = "delete"
  <2>0. \A i, ok, k : \/ DeleteSucceeds(i, ok) /\ Noted(q, k)
                      \/ DeleteFails(i, ok) /\ UNCHANGED row
                      \/ UNCHANGED <<row, remote, issued, faults>>
           => \/ remote' = Without(i) /\ row' = Cleared(req[q].id, k)
              \/ remote' \subseteq remote /\ UNCHANGED row
    BY DEF DeleteSucceeds, Noted, Fault, OneFailure, DeleteFails, Without
  <2>1. CASE DeletePlan(q)
    BY <1>1, <1>4, <2>0, <2>1, TidyDeleted DEF DeletePlan
  <2>2. CASE DeleteBinding(q)
    BY <1>1, <1>4, <2>0, <2>2, TidyDeleted DEF DeleteBinding
  <2>3. CASE DeleteScheme(q)
    BY <1>1, <1>4, <2>0, <2>3, TidyDeleted DEF DeleteScheme
  <2>4. CASE DeleteSchemeAgain(q)
    BY <1>1, <1>4, <2>0, <2>4, TidyDeleted DEF DeleteSchemeAgain, Finish
  <2>5. QED
    BY <1>2, <1>4, <2>1, <2>2, <2>3, <2>4, CountTaskTidy, DeleteTaskTidy, DropRowTidy
    DEF DeleteStep
<1>5. QED BY <1>0, <1>3, <1>4 DEF Uncascaded, Known, TypeOK, Request

LEMMA StutterTidy ==
  ASSUME TidyInv, UNCHANGED vars
  PROVE  TidyInv'
<1>1. \A k, s : Matches(k, s)' = Matches(k, s) BY SameMatches DEF vars
<1>2. Live' = Live BY DEF vars, Live
<1>3. Accounted' BY <1>1 DEF TidyInv, Accounted, Recorded, Owed, vars
<1>4. ASSUME NEW q \in Reqs PROVE TidyCreation(q)' /\ TidyDeletion(q)'
  BY <1>1, <1>2 DEF TidyInv, TidyCreation, TidyDeletion, vars
<1>5. QED BY <1>3, <1>4 DEF TidyInv, vars

LEMMA ArriveTidy ==
  ASSUME Sequential, "deletePipeline" \notin Handlers, Known, TidyInv, NEW q \in Reqs, Arrive(q)
  PROVE  TidyInv'
<1>0. UNCHANGED <<present, row, pipes, remote>>
  BY DEF Arrive, StartCreate, StartDelete, StartDeletePipeline, Reject, local, vars
<1>1. \A o \in remote' : Recorded(o)'
  <2>1. req[q].op # "create"
    BY DEF Arrive, StartCreate, StartDelete, StartDeletePipeline, Reject
  <2>2. QED BY <1>0, <2>1, NothingOwed, SameRecords
<1>2. CASE StartCreate(q)
  <2>1. /\ req'[q].op = "create" /\ req'[q].pc = "resolveTask" /\ req'[q].s.ext = NoIds
    BY <1>2 DEF StartCreate, Known, TypeOK
  <2>2. TidyCreation(q)' BY <2>1 DEF TidyCreation, NoIds, Kinds, FindStep, DeleteSteps
  <2>3. TidyDeletion(q)' BY <2>1 DEF TidyDeletion
  <2>4. QED BY <1>0, <1>1, <2>2, <2>3, OneSlot
<1>3. ASSUME NEW r \in Rows, StartDelete(q, r) PROVE TidyInv'
  <2>1. /\ req'[q].op = "delete" /\ req'[q].id = r /\ req'[q].s = row[r]
        /\ req'[q].pc = IF HasIds(row[r]) THEN "delPlan" ELSE "dropRow"
        /\ r \in present
    BY <1>3 DEF StartDelete, Known, TypeOK
  <2>2. TidyCreation(q)' BY <2>1 DEF TidyCreation
  <2>3. req'[q].pc \in {"delAgain", "dropRow"} => row[r].ext["task"] = Nil
    BY <2>1 DEF HasIds, Kinds
  <2>4. TidyDeletion(q)' BY <1>0, <2>1, <2>3, LiveIds DEF TidyDeletion, Known, Live
  <2>5. QED BY <1>0, <1>1, <2>2, <2>4, OneSlot
<1>4. CASE UNCHANGED vars
  BY <1>4, StutterTidy
<1>5. QED BY <1>2, <1>3, <1>4 DEF Arrive, StartDeletePipeline, Reject

LEMMA TidyStep ==
  ASSUME Sequential, OneRepo, OneFailure, "deletePipeline" \notin Handlers,
         Known, Uncascaded, TidyInv, [Next]_vars
  PROVE  TidyInv'
<1>1. ~Restart BY DEF Restart, Fault, OneFailure
<1>2. CASE UNCHANGED vars BY <1>2, StutterTidy
<1>3. QED BY <1>1, <1>2, ArriveTidy, CreateTidy, DeleteTidy DEF Next

LEMMA TidyInit == Init => TidyInv
BY DEF Init, Idle, TidyInv, Accounted, TidyCreation, TidyDeletion

(* One request at a time, on the schemes of one repository, with distinct  *)
(* names and at most one failure that did nothing and is reported: when    *)
(* the request is over, no scheme, binding, plan or checker task is left   *)
(* in the third-party system that no row refers to.  The creation that     *)
(* failed has rolled back all it made, and the deletion of the last row    *)
(* took the shared task with it (CreateExecutionScheme,                    *)
(* DeleteExecutionScheme, SyncDeleteExecutionSchemeRemote).                *)
THEOREM NothingBehind ==
  ASSUME DistinctNames, Sequential, OneRepo, OneFailure, "deletePipeline" \notin Handlers
  PROVE  Spec => []NothingLeftBehind
<1>0. NoLoss BY DEF NoLoss, OneFailure
<1>1. Spec => [](Known /\ Uncascaded) BY <1>0, AlwaysKnown, AlwaysUncascaded, PTL
<1>2. Known /\ Uncascaded /\ TidyInv /\ [Next]_vars => TidyInv' BY TidyStep
<1>3. Spec => []TidyInv BY <1>1, <1>2, TidyInit, PTL DEF Spec
<1>4. TidyInv => NothingLeftBehind
  BY DEF NothingLeftBehind, TidyInv, Accounted, Recorded, Owed
<1>5. QED BY <1>3, <1>4, PTL
=============================================================================
