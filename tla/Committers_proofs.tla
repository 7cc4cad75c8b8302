--------------------------- MODULE Committers_proofs ---------------------------
(***************************************************************************)
(* What holds of Committers for any rows, iRight groups and requests of    *)
(* two administrators.                                                     *)
(***************************************************************************)
EXTENDS Committers, TLAPS

Works == [n: Nat, kind: {"detail", "verify", "save", "delete", "deleteViewed", "list"},
          on: Ids \cup {None}, name: Names \cup {None}, uuid: Uuids \cup {None},
          mine: BOOLEAN, pc: {"read", "save"}]
Forms == [on: Ids \cup {None}, name: Names \cup {None}, uuid: Uuids \cup {None},
          verified: Uuids \cup {None}]

(* The values of the variables, those of the calls in flight too.          *)
Typed ==
  /\ TypeOK /\ waiting \subseteq Works
  /\ \A w \in waiting : w.kind = "save" => w.name \in Names
  /\ querying \in BOOLEAN /\ detailQuerying \in BOOLEAN /\ isSubmitting \in BOOLEAN
  /\ sent \in Nat

-----------------------------------------------------------------------------
(* Type correctness *)

LEMMA SendType ==
  ASSUME Typed, NEW w \in Works, w.kind = "save" => w.name \in Names, Send(w)
  PROVE  /\ waiting' \subseteq Works /\ sent' \in Nat
         /\ \A x \in waiting' : x.kind = "save" => x.name \in Names
<1>1. sent' \in Nat BY DEF Typed, Send
<1>2. waiting' = waiting \cup {w} BY DEF Send
<1>3. QED BY <1>1, <1>2 DEF Typed

LEMMA CallType ==
  ASSUME Typed, NEW k \in {"detail", "verify", "save", "delete", "deleteViewed"},
         NEW on \in Ids \cup {None}, NEW name \in Names \cup {None}, NEW u \in Uuids \cup {None}
  PROVE  /\ Call(k, on, name, u) \in Works
         /\ Call(k, on, name, u).kind = k /\ Call(k, on, name, u).name = name
BY DEF Typed, Call, Works

LEMMA SendCallType ==
  ASSUME Typed, NEW k \in {"detail", "verify", "save", "delete", "deleteViewed"},
         NEW on \in Ids \cup {None}, NEW name \in Names \cup {None}, NEW u \in Uuids \cup {None},
         k = "save" => name \in Names, Send(Call(k, on, name, u))
  PROVE  /\ waiting' \subseteq Works /\ sent' \in Nat
         /\ \A x \in waiting' : x.kind = "save" => x.name \in Names
<1>1. PICK w : w = Call(k, on, name, u) OBVIOUS
<1>2. w \in Works /\ (w.kind = "save" => w.name \in Names) BY <1>1, CallType
<1>3. Send(w) BY <1>1 DEF Send
<1>4. QED BY <1>2, <1>3, SendType

LEMMA FormType ==
  ASSUME Typed, form # None
  PROVE  form \in Forms
BY DEF Typed, TypeOK, Forms

LEMMA DrawerType ==
  ASSUME Typed,
         \/ \E g \in shown : OpenDetail(g) \/ OpenEdit(g)
         \/ view # None /\ OpenEdit(view)
         \/ RefreshDetail \/ CloseDetail \/ OpenCreate \/ CloseForm
         \/ \E u \in Uuids \cup {None} : TypeUuid(u)
  PROVE  Typed'
<1>1. ASSUME NEW g \in shown, OpenDetail(g) PROVE Typed'
  <2>1. g \in Row BY DEF Typed, TypeOK
  <2>2. g.uuid \in Uuids \cup {None} BY <2>1 DEF Row
  <2>3. CASE g.uuid = None BY <1>1, <2>1, <2>3 DEF OpenDetail, Typed, TypeOK
  <2>4. CASE g.uuid # None
    <3>1. Send(Call("detail", None, None, g.uuid)) BY <1>1, <2>4 DEF OpenDetail
    <3>2. /\ waiting' \subseteq Works /\ sent' \in Nat
          /\ \A x \in waiting' : x.kind = "save" => x.name \in Names
      BY <2>2, <3>1, SendCallType
    <3>3. QED BY <1>1, <2>1, <2>4, <3>2 DEF OpenDetail, Typed, TypeOK
  <2>5. QED BY <2>3, <2>4
<1>2. ASSUME NEW g \in Row, OpenEdit(g) PROVE Typed'
  <2>1. FormOf(g) \in Forms BY DEF FormOf, Forms, Row
  <2>2. QED BY <1>2, <2>1 DEF OpenEdit, OpenForm, Typed, TypeOK, Forms, flags
<1>3. CASE RefreshDetail
  <2>1. view \in Row BY <1>3 DEF RefreshDetail, Typed, TypeOK
  <2>2. view.uuid \in Uuids \cup {None} BY <2>1 DEF Row
  <2>3. /\ waiting' \subseteq Works /\ sent' \in Nat
        /\ \A x \in waiting' : x.kind = "save" => x.name \in Names
    BY <1>3, <2>2, SendCallType DEF RefreshDetail
  <2>4. QED BY <1>3, <2>3 DEF RefreshDetail, Typed, TypeOK
<1>4. CASE CloseDetail BY <1>4 DEF CloseDetail, Typed, TypeOK, flags
<1>5. CASE OpenCreate
  <2>1. NewForm \in Forms BY DEF NewForm, Forms
  <2>2. QED BY <1>5, <2>1 DEF OpenCreate, OpenForm, Typed, TypeOK, Forms, flags
<1>6. CASE CloseForm BY <1>6 DEF CloseForm, Typed, TypeOK, flags
<1>7. ASSUME NEW u \in Uuids \cup {None}, TypeUuid(u) PROVE Typed'
  <2>1. form \in Forms BY <1>7, FormType DEF TypeUuid
  <2>2. form' \in Forms BY <1>7, <2>1 DEF TypeUuid, Forms
  <2>3. QED BY <1>7, <2>2 DEF TypeUuid, Typed, TypeOK, Forms, flags
<1>8. \A g \in shown : g \in Row BY DEF Typed, TypeOK
<1>9. view # None => view \in Row BY DEF Typed, TypeOK
<1>10. QED BY <1>1, <1>2, <1>3, <1>4, <1>5, <1>6, <1>7, <1>8, <1>9

LEMMA RequestType ==
  ASSUME Typed,
         \/ Verify \/ Submit \/ \E g \in Row : DeleteGroup(g)
         \/ \E i \in Ids \cup {None}, n \in Names, u \in Uuids : SaveElsewhere(i, n, u)
  PROVE  Typed'
<1>1. CASE Verify
  <2>1. form \in Forms BY <1>1, FormType DEF Verify
  <2>2. form.uuid \in Uuids \cup {None} BY <2>1 DEF Forms
  <2>3. /\ waiting' \subseteq Works /\ sent' \in Nat
        /\ \A x \in waiting' : x.kind = "save" => x.name \in Names
    BY <1>1, <2>2, SendCallType DEF Verify
  <2>4. QED BY <1>1, <2>3 DEF Verify, Typed, TypeOK
<1>2. CASE Submit
  <2>1. form \in Forms BY <1>2, FormType DEF Submit, MaySubmit
  <2>2. /\ form.on \in Ids \cup {None} /\ form.uuid \in Uuids \cup {None}
        /\ form.name \in Names \cup {None} /\ form.name \in Names
    BY <1>2, <2>1 DEF Forms, Submit, MaySubmit
  <2>3. Send(Call("save", form.on, form.name, form.uuid)) BY <1>2 DEF Submit
  <2>4. /\ waiting' \subseteq Works /\ sent' \in Nat
        /\ \A x \in waiting' : x.kind = "save" => x.name \in Names
    BY <2>2, <2>3, SendCallType
  <2>5. QED BY <1>2, <2>4 DEF Submit, Typed, TypeOK
<1>3. ASSUME NEW g \in Row, DeleteGroup(g) PROVE Typed'
  <2>1. PICK k \in {"delete", "deleteViewed"} :
          k = IF view = None THEN "delete" ELSE "deleteViewed" OBVIOUS
  <2>2. g.id \in Ids \cup {None} BY DEF Row
  <2>3. Send(Call(k, g.id, None, None)) BY <1>3, <2>1 DEF DeleteGroup
  <2>4. /\ waiting' \subseteq Works /\ sent' \in Nat
        /\ \A x \in waiting' : x.kind = "save" => x.name \in Names
    BY <2>2, <2>3, SendCallType
  <2>5. QED BY <1>3, <2>4 DEF DeleteGroup, Typed, TypeOK, flags
<1>4. ASSUME NEW i \in Ids \cup {None}, NEW n \in Names, NEW u \in Uuids, SaveElsewhere(i, n, u)
      PROVE Typed'
  <2>1. PICK c : c = Call("save", i, n, u) OBVIOUS
  <2>2. c \in Works /\ c.name = n BY <2>1, CallType
  <2>3. PICK w : w = [c EXCEPT !.mine = FALSE] OBVIOUS
  <2>4. w \in Works /\ w.name = n BY <2>2, <2>3 DEF Works
  <2>5. Send(w) BY <1>4, <2>1, <2>3 DEF SaveElsewhere, Send
  <2>6. /\ waiting' \subseteq Works /\ sent' \in Nat
        /\ \A x \in waiting' : x.kind = "save" => x.name \in Names
    BY <2>4, <2>5, SendType
  <2>7. QED BY <1>4, <2>6 DEF SaveElsewhere, Typed, TypeOK, flags
<1>5. QED BY <1>1, <1>2, <1>3, <1>4

LEMMA ListInWorks == List \in Works /\ List.kind = "list"
BY DEF List, Works

LEMMA StoredType ==
  ASSUME Typed, NEW w \in waiting, w.kind = "save", NEW i \in Ids
  PROVE  Stored(w, i) \subseteq Row
<1>1. w.name \in Names /\ w.uuid \in Uuids \cup {None} BY DEF Typed, Works
<1>2. [id |-> i, name |-> w.name, uuid |-> w.uuid] \in Row BY <1>1 DEF Row
<1>3. QED BY <1>2 DEF Stored, Typed, TypeOK

LEMMA SaveIds ==
  ASSUME Typed, NEW w \in waiting, Save(w)
  PROVE  \E i \in Ids : /\ rows' = Stored(w, i)
                        /\ i = w.on \/ (w.on = None /\ ~Has(i))
<1>1. w.on \in Ids \cup {None} BY DEF Typed, Works
<1>2. QED BY <1>1 DEF Save

LEMMA ServerType ==
  ASSUME Typed, NEW w \in waiting,
         \/ Check(w) \/ Save(w) \/ Deleted(w) \/ Refused(w) \/ ListAnswer(w)
         \/ DetailAnswer(w) \/ \E n \in Names : VerifyAnswer(w, n)
  PROVE  Typed'
<1>w. w \in Works /\ (w.kind = "save" => w.name \in Names) BY DEF Typed
<1>1. CASE Check(w)
  <2>1. PICK v : v = [w EXCEPT !.pc = "save"] OBVIOUS
  <2>2. v \in Works /\ v.name = w.name /\ v.kind = w.kind BY <1>w, <2>1 DEF Works
  <2>3. waiting' = (waiting \ {w}) \cup {v} BY <1>1, <2>1 DEF Check
  <2>4. QED BY <1>1, <1>w, <2>2, <2>3 DEF Check, Typed, TypeOK, flags
<1>2. CASE Save(w)
  <2>1. rows' \subseteq Row BY <1>2, SaveIds, StoredType DEF Save
  <2>2. /\ waiting' \subseteq Works
        /\ \A x \in waiting' : x.kind = "save" => x.name \in Names
    BY <1>2, ListInWorks DEF Save, Typed
  <2>3. isSubmitting' \in BOOLEAN BY <1>2 DEF Save
  <2>4. form' = None \/ form' = form BY <1>2 DEF Save
  <2>5. QED BY <1>2, <2>1, <2>2, <2>3, <2>4 DEF Save, Typed, TypeOK
<1>3. CASE Deleted(w)
  <2>1. /\ waiting' \subseteq Works
        /\ \A x \in waiting' : x.kind = "save" => x.name \in Names
    BY <1>3, ListInWorks DEF Deleted, Typed
  <2>2. rows' \subseteq Row /\ view' \in Row \cup {None} BY <1>3 DEF Deleted, Typed, TypeOK
  <2>3. QED BY <1>3, <2>1, <2>2 DEF Deleted, Typed, TypeOK, flags
<1>4. CASE Refused(w)
  <2>1. form' = None \/ form' \in Forms
    <3>1. CASE w.kind = "verify" /\ form # None
      <4>1. form \in Forms BY <3>1, FormType
      <4>2. QED BY <1>4, <3>1, <4>1 DEF Refused, Forms
    <3>2. CASE ~(w.kind = "verify" /\ form # None)
      BY <1>4, <3>2, FormType DEF Refused
    <3>3. QED BY <3>1, <3>2
  <2>2. waiting' \subseteq waiting BY <1>4 DEF Refused
  <2>3. /\ querying' \in BOOLEAN /\ detailQuerying' \in BOOLEAN /\ isSubmitting' \in BOOLEAN
    BY <1>4 DEF Refused, SpinsOn
  <2>4. live' \in Uuids \cup {None} BY <1>4 DEF Refused, Typed, TypeOK
  <2>5. QED BY <1>4, <2>1, <2>2, <2>3, <2>4 DEF Refused, Typed, TypeOK, Forms
<1>5. CASE ListAnswer(w) BY <1>5 DEF ListAnswer, Typed, TypeOK, flags
<1>6. CASE DetailAnswer(w)
  <2>1. live' \in Uuids \cup {None} BY <1>6, <1>w DEF DetailAnswer, Works
  <2>2. QED BY <1>6, <2>1 DEF DetailAnswer, Typed, TypeOK
<1>7. ASSUME NEW n \in Names, VerifyAnswer(w, n) PROVE Typed'
  <2>1. form' = None \/ form' \in Forms
    <3>1. CASE form # None
      <4>1. form \in Forms /\ w.uuid \in Uuids \cup {None} BY <1>w, <3>1, FormType DEF Works
      <4>2. QED BY <1>7, <3>1, <4>1 DEF VerifyAnswer, Forms
    <3>2. CASE form = None BY <1>7, <3>2 DEF VerifyAnswer
    <3>3. QED BY <3>1, <3>2
  <2>2. QED BY <1>7, <2>1 DEF VerifyAnswer, Typed, TypeOK, Forms
<1>8. QED BY <1>1, <1>2, <1>3, <1>4, <1>5, <1>6, <1>7

LEMMA InitRows ==
  ASSUME Sensible, Init
  PROVE  \E r \in Row : rows = {r}
<1> DEFINE Elem(S) == CHOOSE x \in S : TRUE
<1>0. /\ Elem(Ids) \in Ids /\ Elem(Names) \in Names /\ Elem(Uuids) \in Uuids
  BY Zenon DEF Sensible
<1>1. PICK i, n, u : i = Elem(Ids) /\ n = Elem(Names) /\ u = Elem(Uuids) OBVIOUS
<1>f. First(Ids) = {i} /\ First(Names) = {n} /\ First(Uuids) = {u} BY <1>1 DEF First
<1> HIDE DEF Elem
<1>2. rows = {[id |-> i, name |-> n, uuid |-> u]}
  <2>1. rows = {[id |-> a, name |-> b, uuid |-> c] : a \in First(Ids), b \in First(Names),
                                                     c \in First(Uuids)} BY DEF Init
  <2>2. rows = {[id |-> a, name |-> b, uuid |-> c] : a \in {i}, b \in {n}, c \in {u}}
    BY <1>f, <2>1
  <2>3. QED BY <2>2
<1>3. [id |-> i, name |-> n, uuid |-> u] \in Row BY <1>0, <1>1 DEF Row
<1>4. PICK r : r = [id |-> i, name |-> n, uuid |-> u] OBVIOUS
<1>5. r \in Row /\ rows = {r} BY <1>2, <1>3, <1>4
<1>6. QED BY <1>5

LEMMA InitType == Sensible /\ Init => Typed
<1> SUFFICES ASSUME Sensible, Init PROVE Typed OBVIOUS
<1>1. rows \subseteq Row BY InitRows
<1>2. /\ shown = rows /\ view = None /\ live = None /\ form = None /\ waiting = {} /\ sent = 0
      /\ querying = FALSE /\ detailQuerying = FALSE /\ isSubmitting = FALSE
  BY DEF Init
<1>3. QED BY <1>1, <1>2 DEF Typed, TypeOK

LEMMA StepType ==
  ASSUME Typed, [Next]_vars
  PROVE  Typed'
<1>1. CASE UNCHANGED vars BY <1>1 DEF vars, Typed, TypeOK
<1>2. CASE Next
  <2>1. \A g \in shown : g \in Row BY DEF Typed, TypeOK
  <2>2. view # None => view \in Row BY DEF Typed, TypeOK
  <2>3. QED BY <1>2, <2>1, <2>2, DrawerType, RequestType, ServerType DEF Next
<1>3. QED BY <1>1, <1>2

(* TypeOK: rows, copies and drawers keep their types; in particular no row *)
(* is stored without a name.                                               *)
THEOREM TypeCorrect == ASSUME Sensible PROVE Spec => []TypeOK
<1>1. Init => Typed BY InitType
<1>2. Typed /\ [Next]_vars => Typed' BY StepType
<1>3. Typed => TypeOK BY DEF Typed
<1>4. QED BY <1>1, <1>2, <1>3, PTL DEF Spec

-----------------------------------------------------------------------------
(* The button of the detail *)

(* No lookup of a detail ends, and the flag is not set.                    *)
LEMMA StillAwaits ==
  ASSUME DetailAwaits, detailQuerying' => detailQuerying,
         \A x \in waiting : x.kind = "detail" => x \in waiting'
  PROVE  DetailAwaits'
BY DEF DetailAwaits

(* A lookup begins.                                                        *)
LEMMA Asks ==
  ASSUME NEW u, Send(Call("detail", None, None, u))
  PROVE  DetailAwaits'
<1>1. PICK w : w = Call("detail", None, None, u) OBVIOUS
<1>2. w.kind = "detail" BY <1>1 DEF Call
<1>3. w \in waiting' BY <1>1 DEF Send
<1>4. QED BY <1>2, <1>3 DEF DetailAwaits

LEMMA StepDetail ==
  ASSUME DetailAwaits, [Next]_vars
  PROVE  DetailAwaits'
<1>1. CASE UNCHANGED vars BY <1>1, StillAwaits DEF vars
<1>2. ASSUME NEW g, OpenDetail(g) PROVE DetailAwaits'
  <2>1. CASE g.uuid = None BY <1>2, <2>1, StillAwaits DEF OpenDetail
  <2>2. CASE g.uuid # None BY <1>2, <2>2, Asks DEF OpenDetail
  <2>3. QED BY <2>1, <2>2
<1>3. CASE RefreshDetail BY <1>3, Asks DEF RefreshDetail
<1>4. CASE \/ \E g : OpenEdit(g) \/ DeleteGroup(g)
           \/ CloseDetail \/ OpenCreate \/ CloseForm \/ Verify \/ Submit
           \/ \E u : TypeUuid(u) \/ \E i, n : SaveElsewhere(i, n, u)
  <2>1. UNCHANGED detailQuerying /\ (UNCHANGED waiting \/ \E w : Send(w))
    BY <1>4 DEF OpenEdit, DeleteGroup, CloseDetail, OpenCreate, OpenForm, CloseForm, Verify,
                Submit, TypeUuid, SaveElsewhere, flags
  <2>2. waiting \subseteq waiting' BY <2>1 DEF Send
  <2>3. QED BY <2>1, <2>2, StillAwaits
<1>5. ASSUME NEW w \in waiting,
             \/ Check(w) \/ Save(w) \/ Deleted(w) \/ ListAnswer(w)
             \/ \E n \in Names : VerifyAnswer(w, n)
      PROVE  DetailAwaits'
  <2>1. w.kind # "detail" /\ UNCHANGED detailQuerying
    BY <1>5 DEF Check, Save, Deleted, Deletions, ListAnswer, VerifyAnswer, flags
  <2>2. \A x \in waiting : x # w => x \in waiting'
    BY <1>5 DEF Check, Save, Deleted, ListAnswer, VerifyAnswer
  <2>3. QED BY <2>1, <2>2, StillAwaits
<1>6. ASSUME NEW w \in waiting, Refused(w) PROVE DetailAwaits'
  <2>1. waiting' = waiting \ {w} /\ detailQuerying' = (detailQuerying /\ w.kind # "detail")
    BY <1>6 DEF Refused, SpinsOn
  <2>2. CASE w.kind = "detail" BY <2>1, <2>2 DEF DetailAwaits
  <2>3. CASE w.kind # "detail" BY <2>1, <2>3, StillAwaits
  <2>4. QED BY <2>2, <2>3
<1>7. ASSUME NEW w \in waiting, DetailAnswer(w) PROVE DetailAwaits'
  BY <1>7 DEF DetailAnswer, DetailAwaits
<1>8. QED BY <1>1, <1>2, <1>3, <1>4, <1>5, <1>6, <1>7 DEF Next

(* DetailAwaits: the button of the detail spins only while a lookup is in  *)
(* flight, however details are opened, closed and refreshed.               *)
THEOREM DetailAwaited == Spec => []DetailAwaits
<1>1. Init => DetailAwaits BY DEF Init, DetailAwaits
<1>2. DetailAwaits /\ [Next]_vars => DetailAwaits' BY StepDetail
<1>3. QED BY <1>1, <1>2, PTL DEF Spec

-----------------------------------------------------------------------------
(* One save and one lookup of the form at a time *)

FormKinds == {"save", "verify"}
(* The calls a flag is about: the form's saves, and the lookups.           *)
Counts(w, k) == w.kind = k /\ (k = "save" => w.mine)
Of(k) == {w \in waiting : Counts(w, k)}
Flag == [save |-> isSubmitting, verify |-> querying]
Tells(k) == /\ Flag[k] \in BOOLEAN
            /\ IF Flag[k] THEN \E w \in waiting : Of(k) = {w} ELSE Of(k) = {}
FlagInv == \A k \in FormKinds : Tells(k)
Calls(k) == {w.n : w \in Of(k)}

Kept(k) == Flag[k]' = Flag[k] /\ Calls(k)' = Calls(k)
Started(k) == /\ ~Flag[k] /\ Flag[k]' = TRUE
              /\ Calls(k) = {} /\ \E c \in Calls(k)' : Calls(k)' = {c}
Ended(k) == /\ Flag[k] /\ Flag[k]' = FALSE
            /\ \E c \in Calls(k) : Calls(k) = {c}
            /\ Calls(k)' = {}
OneStep(k) == Tells(k)' /\ (Kept(k) \/ Started(k) \/ Ended(k))

LEMMA FlagsAre == /\ Flag["save"] = isSubmitting /\ Flag["verify"] = querying
                  /\ Flag["save"]' = isSubmitting' /\ Flag["verify"]' = querying'
BY DEF Flag

LEMMA KeepsFlag ==
  ASSUME NEW k \in FormKinds, Tells(k), Flag[k]' = Flag[k], Of(k)' = Of(k)
  PROVE  OneStep(k)
<1>1. Tells(k)' BY DEF Tells, Of
<1>2. Calls(k)' = Calls(k) BY DEF Calls
<1>3. QED BY <1>1, <1>2 DEF OneStep, Kept

LEMMA Sending ==
  ASSUME FlagInv, NEW w, waiting' = waiting \cup {w}, NEW k \in FormKinds,
         Counts(w, k) => ~Flag[k], Flag[k]' = (Flag[k] \/ Counts(w, k))
  PROVE  OneStep(k)
<1>1. Tells(k) BY DEF FlagInv
<1>2. CASE Counts(w, k)
  <2>1. Of(k) = {} /\ ~Flag[k] BY <1>1, <1>2 DEF Tells
  <2>2. Of(k)' = {w} /\ w \in waiting' BY <1>2, <2>1 DEF Of, Counts
  <2>3. Calls(k) = {} /\ Calls(k)' = {w.n} BY <2>1, <2>2 DEF Calls
  <2>4. Flag[k]' = TRUE BY <1>2
  <2>5. Tells(k)' BY <2>2, <2>4 DEF Tells
  <2>6. Started(k) BY <2>1, <2>3, <2>4 DEF Started
  <2>7. QED BY <2>5, <2>6 DEF OneStep
<1>3. CASE ~Counts(w, k)
  <2>1. Of(k)' = Of(k) BY <1>3 DEF Of, Counts
  <2>2. Flag[k]' = Flag[k] BY <1>1, <1>3 DEF Tells
  <2>3. QED BY <1>1, <2>1, <2>2, KeepsFlag
<1>4. QED BY <1>2, <1>3

(* A check hands the save on as the same call.                             *)
LEMMA Moving ==
  ASSUME FlagInv, NEW w \in waiting, NEW v, waiting' = (waiting \ {w}) \cup {v},
         v.kind = w.kind, v.n = w.n, v.mine = w.mine,
         NEW k \in FormKinds, Flag[k]' = Flag[k]
  PROVE  OneStep(k)
<1>1. Tells(k) BY DEF FlagInv
<1>2. CASE Counts(w, k)
  <2>1. Of(k) = {w} /\ Flag[k] BY <1>1, <1>2 DEF Tells, Of
  <2>2. Counts(v, k) BY <1>2 DEF Counts
  <2>3. Of(k)' = {v} /\ v \in waiting' BY <2>1, <2>2 DEF Of, Counts
  <2>4. Calls(k)' = Calls(k) BY <2>1, <2>3 DEF Calls
  <2>5. Tells(k)' BY <1>1, <2>1, <2>3 DEF Tells
  <2>6. QED BY <2>4, <2>5 DEF OneStep, Kept
<1>3. CASE ~Counts(w, k)
  <2>1. ~Counts(v, k) BY <1>3 DEF Counts
  <2>2. Of(k)' = Of(k) BY <1>3, <2>1 DEF Of, Counts
  <2>3. QED BY <1>1, <2>2, KeepsFlag
<1>4. QED BY <1>2, <1>3

LEMMA Ending ==
  ASSUME FlagInv, NEW w \in waiting, NEW L, waiting' = (waiting \ {w}) \cup L,
         \A x \in L : x.kind = "list",
         NEW k \in FormKinds, Flag[k]' = (Flag[k] /\ ~Counts(w, k))
  PROVE  OneStep(k)
<1>1. Tells(k) /\ k # "list" BY DEF FlagInv, FormKinds
<1>2. CASE Counts(w, k)
  <2>1. Of(k) = {w} /\ Flag[k] BY <1>1, <1>2 DEF Tells, Of
  <2>2. Of(k)' = {} BY <1>1, <2>1 DEF Of, Counts
  <2>3. Calls(k) = {w.n} /\ Calls(k)' = {} BY <2>1, <2>2 DEF Calls
  <2>4. Flag[k]' = FALSE BY <1>2
  <2>5. Tells(k)' BY <2>2, <2>4 DEF Tells
  <2>6. Ended(k) BY <2>1, <2>3, <2>4 DEF Ended
  <2>7. QED BY <2>5, <2>6 DEF OneStep
<1>3. CASE ~Counts(w, k)
  <2>1. Of(k)' = Of(k) BY <1>1, <1>3 DEF Of, Counts
  <2>2. Flag[k]' = Flag[k] BY <1>1, <1>3 DEF Tells
  <2>3. QED BY <1>1, <2>1, <2>2, KeepsFlag
<1>4. QED BY <1>2, <1>3

BothStep == OneStep("save") /\ OneStep("verify")

LEMMA BothKeep ==
  ASSUME FlagInv, UNCHANGED <<querying, isSubmitting, waiting>>
  PROVE  BothStep
<1>1. \A k : Of(k)' = Of(k) BY DEF Of
<1>2. QED BY <1>1, FlagsAre, KeepsFlag DEF BothStep, FlagInv, FormKinds

LEMMA CallIs == \A k, on, name, u : /\ Call(k, on, name, u).kind = k
                                    /\ Call(k, on, name, u).mine = TRUE
BY DEF Call

LEMMA BothSend ==
  ASSUME FlagInv, Typed, NEW w, Send(w),
         Counts(w, "save") => ~isSubmitting, Counts(w, "verify") => ~querying,
         isSubmitting' = (isSubmitting \/ Counts(w, "save")),
         querying' = (querying \/ Counts(w, "verify"))
  PROVE  BothStep
<1>1. waiting' = waiting \cup {w} BY DEF Send
<1>2. OneStep("save") BY <1>1, FlagsAre, Sending DEF FormKinds
<1>3. OneStep("verify") BY <1>1, FlagsAre, Sending DEF FormKinds
<1>4. QED BY <1>2, <1>3 DEF BothStep

(* A call that neither flag is about.                                      *)
LEMMA BothSendOther ==
  ASSUME FlagInv, Typed, NEW w, Send(w), ~Counts(w, "save"), ~Counts(w, "verify"),
         UNCHANGED <<querying, isSubmitting>>
  PROVE  BothStep
<1>1. isSubmitting' = (isSubmitting \/ Counts(w, "save")) BY Zenon DEF Typed
<1>2. querying' = (querying \/ Counts(w, "verify")) BY Zenon DEF Typed
<1>3. QED BY <1>1, <1>2, BothSend

LEMMA BothEnd ==
  ASSUME FlagInv, NEW w \in waiting, NEW L, waiting' = (waiting \ {w}) \cup L,
         \A x \in L : x.kind = "list",
         isSubmitting' = (isSubmitting /\ ~Counts(w, "save")),
         querying' = (querying /\ ~Counts(w, "verify"))
  PROVE  BothStep
<1>1. OneStep("save") BY FlagsAre, Ending DEF FormKinds
<1>2. OneStep("verify") BY FlagsAre, Ending DEF FormKinds
<1>3. QED BY <1>1, <1>2 DEF BothStep

LEMMA PageFlags ==
  ASSUME FlagInv, Typed,
         \/ \E g : OpenDetail(g) \/ OpenEdit(g) \/ DeleteGroup(g)
         \/ RefreshDetail \/ CloseDetail \/ OpenCreate \/ CloseForm \/ Verify \/ Submit
         \/ \E u : TypeUuid(u) \/ \E i, n : SaveElsewhere(i, n, u)
  PROVE  BothStep
<1>1. ASSUME NEW g, OpenDetail(g) PROVE BothStep
  <2>1. CASE g.uuid = None BY <1>1, <2>1, BothKeep DEF OpenDetail
  <2>2. CASE g.uuid # None
    <3>1. PICK w : w = Call("detail", None, None, g.uuid) OBVIOUS
    <3>2. Send(w) /\ UNCHANGED <<querying, isSubmitting>>
      BY <1>1, <2>2, <3>1 DEF OpenDetail, Send
    <3>3. ~Counts(w, "save") /\ ~Counts(w, "verify") BY <3>1, CallIs DEF Counts
    <3>4. QED BY <3>2, <3>3, BothSendOther
  <2>3. QED BY <2>1, <2>2
<1>2. CASE RefreshDetail
  <2>1. PICK w : w = Call("detail", None, None, view.uuid) OBVIOUS
  <2>2. Send(w) /\ UNCHANGED <<querying, isSubmitting>>
    BY <1>2, <2>1 DEF RefreshDetail, Send
  <2>3. ~Counts(w, "save") /\ ~Counts(w, "verify") BY <2>1, CallIs DEF Counts
  <2>4. QED BY <2>2, <2>3, BothSendOther
<1>3. ASSUME NEW g, DeleteGroup(g) PROVE BothStep
  <2>1. PICK k, w : /\ k = IF view = None THEN "delete" ELSE "deleteViewed"
                    /\ w = Call(k, g.id, None, None) OBVIOUS
  <2>2. Send(w) /\ UNCHANGED <<querying, isSubmitting>>
    BY <1>3, <2>1 DEF DeleteGroup, Send, flags
  <2>3. ~Counts(w, "save") /\ ~Counts(w, "verify") BY <2>1, CallIs DEF Counts
  <2>4. QED BY <2>2, <2>3, BothSendOther
<1>4. ASSUME NEW i, NEW n, NEW u, SaveElsewhere(i, n, u) PROVE BothStep
  <2>1. PICK c : c = Call("save", i, n, u) OBVIOUS
  <2>2. PICK w : w = [c EXCEPT !.mine = FALSE] OBVIOUS
  <2>3. w.kind = "save" /\ w.mine = FALSE BY <2>1, <2>2 DEF Call
  <2>4. Send(w) /\ UNCHANGED <<querying, isSubmitting>>
    BY <1>4, <2>1, <2>2 DEF SaveElsewhere, Send, flags
  <2>5. ~Counts(w, "save") /\ ~Counts(w, "verify") BY <2>3 DEF Counts
  <2>6. QED BY <2>4, <2>5, BothSendOther
<1>5. CASE Verify
  <2>1. PICK w : w = Call("verify", None, None, form.uuid) OBVIOUS
  <2>2. Send(w) /\ ~querying /\ querying' = TRUE /\ isSubmitting' = isSubmitting
    BY <1>5, <2>1 DEF Verify, Send
  <2>3. ~Counts(w, "save") /\ Counts(w, "verify") BY <2>1, CallIs DEF Counts
  <2>4. isSubmitting' = (isSubmitting \/ Counts(w, "save")) BY <2>2, <2>3, Zenon DEF Typed
  <2>5. querying' = (querying \/ Counts(w, "verify")) BY <2>2, <2>3, Zenon
  <2>6. QED BY <2>2, <2>3, <2>4, <2>5, BothSend
<1>6. CASE Submit
  <2>1. PICK w : w = Call("save", form.on, form.name, form.uuid) OBVIOUS
  <2>2. Send(w) /\ ~isSubmitting /\ isSubmitting' = TRUE /\ querying' = querying
    BY <1>6, <2>1 DEF Submit, MaySubmit, Send
  <2>3. Counts(w, "save") /\ ~Counts(w, "verify") BY <2>1, CallIs DEF Counts
  <2>4. isSubmitting' = (isSubmitting \/ Counts(w, "save")) BY <2>2, <2>3, Zenon
  <2>5. querying' = (querying \/ Counts(w, "verify")) BY <2>2, <2>3, Zenon DEF Typed
  <2>6. QED BY <2>2, <2>3, <2>4, <2>5, BothSend
<1>7. ASSUME \/ \E g : OpenEdit(g)
             \/ CloseDetail \/ OpenCreate \/ CloseForm \/ \E u : TypeUuid(u)
      PROVE BothStep
  BY <1>7, BothKeep DEF OpenEdit, OpenForm, CloseDetail, OpenCreate, CloseForm, TypeUuid, flags
<1>8. QED BY <1>1, <1>2, <1>3, <1>4, <1>5, <1>6, <1>7

LEMMA AnswerFlags ==
  ASSUME FlagInv, Typed, NEW w \in waiting,
         \/ Check(w) \/ Save(w) \/ Deleted(w) \/ Refused(w) \/ ListAnswer(w)
         \/ DetailAnswer(w) \/ \E n : VerifyAnswer(w, n)
  PROVE  BothStep
<1>w. w \in Works /\ w.mine \in BOOLEAN BY DEF Typed, Works
<1>b. querying \in BOOLEAN /\ isSubmitting \in BOOLEAN BY DEF Typed
<1>1. CASE Check(w)
  <2>1. PICK v : v = [w EXCEPT !.pc = "save"] OBVIOUS
  <2>2. v.kind = w.kind /\ v.n = w.n /\ v.mine = w.mine BY <1>w, <2>1 DEF Works
  <2>3. waiting' = (waiting \ {w}) \cup {v} /\ UNCHANGED <<querying, isSubmitting>>
    BY <1>1, <2>1 DEF Check, flags
  <2>4. QED BY <2>2, <2>3, FlagsAre, Moving DEF BothStep, FormKinds
<1>2. CASE Save(w)
  <2>1. PICK L : L = {x \in {List} : w.mine} OBVIOUS
  <2>2. \A x \in L : x.kind = "list" BY <2>1 DEF List
  <2>3. waiting' = (waiting \ {w}) \cup L BY <1>2, <2>1 DEF Save
  <2>4. (Counts(w, "save") <=> w.mine) /\ ~Counts(w, "verify") BY <1>2 DEF Save, Counts
  <2>5. isSubmitting' = (isSubmitting /\ ~Counts(w, "save"))
    BY <1>2, <1>b, <1>w, <2>4, Zenon DEF Save
  <2>6. querying' = (querying /\ ~Counts(w, "verify")) BY <1>2, <1>b, <2>4, Zenon DEF Save
  <2>7. QED BY <2>2, <2>3, <2>5, <2>6, BothEnd
<1>3. CASE Deleted(w)
  <2>1. PICK L : L = {List} OBVIOUS
  <2>2. \A x \in L : x.kind = "list" BY <2>1 DEF List
  <2>3. waiting' = (waiting \ {w}) \cup L BY <1>3, <2>1 DEF Deleted
  <2>4. ~Counts(w, "save") /\ ~Counts(w, "verify") BY <1>3 DEF Deleted, Deletions, Counts
  <2>5. UNCHANGED <<querying, isSubmitting>> BY <1>3 DEF Deleted, flags
  <2>6. /\ isSubmitting' = (isSubmitting /\ ~Counts(w, "save"))
        /\ querying' = (querying /\ ~Counts(w, "verify")) BY <1>b, <2>4, <2>5, Zenon
  <2>7. QED BY <2>2, <2>3, <2>6, BothEnd
<1>4. PICK L : L = {} OBVIOUS
<1>5. \A x \in L : x.kind = "list" BY <1>4
<1>6. CASE Refused(w)
  <2>1. waiting' = (waiting \ {w}) \cup L BY <1>4, <1>6 DEF Refused
  <2>2. isSubmitting' = (isSubmitting /\ ~Counts(w, "save")) BY <1>6 DEF Refused, Counts
  <2>3. querying' = (querying /\ ~Counts(w, "verify")) BY <1>6 DEF Refused, Counts
  <2>4. QED BY <1>5, <2>1, <2>2, <2>3, BothEnd
<1>7. CASE ListAnswer(w) \/ DetailAnswer(w)
  <2>1. waiting' = (waiting \ {w}) \cup L BY <1>4, <1>7 DEF ListAnswer, DetailAnswer
  <2>2. ~Counts(w, "save") /\ ~Counts(w, "verify") BY <1>7 DEF ListAnswer, DetailAnswer, Counts
  <2>3. UNCHANGED <<querying, isSubmitting>> BY <1>7 DEF ListAnswer, DetailAnswer, flags
  <2>4. /\ isSubmitting' = (isSubmitting /\ ~Counts(w, "save"))
        /\ querying' = (querying /\ ~Counts(w, "verify")) BY <1>b, <2>2, <2>3, Zenon
  <2>5. QED BY <1>5, <2>1, <2>4, BothEnd
<1>8. ASSUME NEW n, VerifyAnswer(w, n) PROVE BothStep
  <2>1. waiting' = (waiting \ {w}) \cup L BY <1>4, <1>8 DEF VerifyAnswer
  <2>2. ~Counts(w, "save") /\ Counts(w, "verify") BY <1>8 DEF VerifyAnswer, Counts
  <2>3. querying' = FALSE /\ UNCHANGED isSubmitting BY <1>8 DEF VerifyAnswer
  <2>4. /\ isSubmitting' = (isSubmitting /\ ~Counts(w, "save"))
        /\ querying' = (querying /\ ~Counts(w, "verify")) BY <1>b, <2>2, <2>3, Zenon
  <2>5. QED BY <1>5, <2>1, <2>4, BothEnd
<1>9. QED BY <1>1, <1>2, <1>3, <1>6, <1>7, <1>8

LEMMA StepFlags ==
  ASSUME Typed, FlagInv, [Next]_vars
  PROVE  BothStep
<1>1. CASE UNCHANGED vars BY <1>1, BothKeep DEF vars
<1>2. CASE Next BY <1>2, PageFlags, AnswerFlags DEF Next
<1>3. QED BY <1>1, <1>2

(* OneFormCall: the saves and the lookups of the form implement            *)
(* SingleFlight, however the form is closed and opened for another group   *)
(* and whatever the other administrator saves.                             *)
THEOREM OneCallOfForm == ASSUME Sensible PROVE Spec => OneFormCall
<1>c. /\ Calls("save") = {w.n : w \in {x \in waiting : x.kind = "save" /\ x.mine}}
      /\ Calls("verify") = {w.n : w \in {x \in waiting : x.kind = "verify"}}
  BY DEF Calls, Of, Counts
<1>p. /\ Calls("save")' = {w.n : w \in {x \in waiting' : x.kind = "save" /\ x.mine}}
      /\ Calls("verify")' = {w.n : w \in {x \in waiting' : x.kind = "verify"}}
  BY DEF Calls, Of, Counts
<1>1. Init => FlagInv /\ Submitting!Init /\ Verifying!Init
  <2> SUFFICES ASSUME Init PROVE FlagInv /\ Submitting!Init /\ Verifying!Init OBVIOUS
  <2>1. waiting = {} /\ isSubmitting = FALSE /\ querying = FALSE BY DEF Init
  <2>2. \A k \in FormKinds : Of(k) = {} BY <2>1 DEF Of
  <2>3. Flag["save"] = FALSE /\ Flag["verify"] = FALSE BY <2>1, FlagsAre
  <2>4. FlagInv BY <2>2, <2>3 DEF FlagInv, Tells, FormKinds
  <2>5. Submitting!Init /\ Verifying!Init BY <2>1 DEF Submitting!Init, Verifying!Init
  <2>6. QED BY <2>4, <2>5
<1>2. Typed /\ FlagInv /\ [Next]_vars => Typed' /\ FlagInv' /\ BothStep
  BY StepType, StepFlags DEF BothStep, OneStep, FlagInv, FormKinds
<1>3. BothStep =>
        [Submitting!Next]_<<isSubmitting,
                            {w.n : w \in {x \in waiting : x.kind = "save" /\ x.mine}}>>
  BY <1>c, <1>p, FlagsAre
  DEF BothStep, OneStep, Kept, Started, Ended, Submitting!Next, Submitting!Start, Submitting!End
<1>4. BothStep =>
        [Verifying!Next]_<<querying, {w.n : w \in {x \in waiting : x.kind = "verify"}}>>
  BY <1>c, <1>p, FlagsAre
  DEF BothStep, OneStep, Kept, Started, Ended, Verifying!Next, Verifying!Start, Verifying!End
<1>5. QED BY <1>1, <1>2, <1>3, <1>4, InitType, PTL
          DEF Spec, OneFormCall, Submitting!Spec, Verifying!Spec
=============================================================================
