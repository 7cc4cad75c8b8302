------------------------------ MODULE Committers ------------------------------
(***************************************************************************)
(* The committer groups: pages/ManagedCommitters.tsx over the handlers of  *)
(* handlers/managed_committer.go, while another administrator saves too.   *)
(*                                                                         *)
(* A name is never typed: it comes from the lookup of an iRight group.     *)
(* The server checks the name when it reads the row and saves in a later   *)
(* step, which the unique index of the table may still refuse.             *)
(***************************************************************************)
EXTENDS Naturals

CONSTANTS
  None,
  Ids,       \* ids of rows
  Uuids,     \* ids of iRight groups
  Names,
  MaxSent    \* bound: requests made

Row == [id: Ids, name: Names, uuid: Uuids \cup {None}]

(* What the theorems ask: there is something to begin with, and None is no *)
(* row's id.                                                               *)
Sensible == None \notin Ids /\ Ids # {} /\ Names # {} /\ Uuids # {}

VARIABLES
  rows,       \* managed_committer_groups
  shown,      \* the page's list
  view,       \* the row the detail drawer shows
  live,       \* the iRight group whose data the detail drawer shows
  form,       \* the form drawer
  querying, detailQuerying, isSubmitting,
  waiting,    \* calls in flight; a save or deletion also has its server step
  sent

vars == <<rows, shown, view, live, form, querying, detailQuerying, isSubmitting, waiting, sent>>
flags == <<querying, detailQuerying, isSubmitting>>

(* on: the row that is edited, None in a form for a new one.               *)
NewForm == [on |-> None, name |-> None, uuid |-> None, verified |-> None]
FormOf(g) == [on |-> g.id, name |-> g.name, uuid |-> g.uuid, verified |-> None]

(* One group is there; which one makes no difference.                      *)
First(S) == {CHOOSE x \in S : TRUE}
Init ==
  /\ rows = {[id |-> i, name |-> n, uuid |-> u] : i \in First(Ids), n \in First(Names),
                                                  u \in First(Uuids)}
  /\ shown = rows /\ view = None /\ live = None /\ form = None
  /\ querying = FALSE /\ detailQuerying = FALSE /\ isSubmitting = FALSE
  /\ waiting = {} /\ sent = 0

Call(kind, on, name, uuid) ==
  [n |-> sent, kind |-> kind, on |-> on, name |-> name, uuid |-> uuid, mine |-> TRUE,
   pc |-> "read"]
Send(w) == sent < MaxSent /\ sent' = sent + 1 /\ waiting' = waiting \cup {w}
Looking == view = None /\ form = None

-----------------------------------------------------------------------------
(* The drawers *)

(* Opening the detail asks iRight, whatever else is being asked.           *)
OpenDetail(g) ==
  /\ Looking /\ view' = g /\ live' = None
  /\ IF g.uuid = None THEN UNCHANGED <<detailQuerying, waiting, sent>>
     ELSE detailQuerying' = TRUE /\ Send(Call("detail", None, None, g.uuid))
  /\ UNCHANGED <<rows, shown, form, querying, isSubmitting>>
RefreshDetail ==
  /\ view # None /\ ~detailQuerying /\ view.uuid # None
  /\ detailQuerying' = TRUE /\ Send(Call("detail", None, None, view.uuid))
  /\ UNCHANGED <<rows, shown, view, live, form, querying, isSubmitting>>
CloseDetail ==
  /\ view # None /\ view' = None
  /\ UNCHANGED <<rows, shown, live, form, flags, waiting, sent>>
OpenForm(f) ==
  /\ form' = f /\ view' = None
  /\ UNCHANGED <<rows, shown, live, flags, waiting, sent>>
OpenCreate == Looking /\ OpenForm(NewForm)
OpenEdit(g) == (Looking \/ view = g) /\ form = None /\ OpenForm(FormOf(g))
(* The button of the form waits for the save, the cross does not.          *)
CloseForm ==
  /\ form # None /\ form' = None
  /\ UNCHANGED <<rows, shown, view, live, flags, waiting, sent>>
(* What was verified before stays shown as verified.                       *)
TypeUuid(u) ==
  /\ form # None /\ form.uuid # u /\ form' = [form EXCEPT !.uuid = u]
  /\ UNCHANGED <<rows, shown, view, live, flags, waiting, sent>>

-----------------------------------------------------------------------------
(* Requests *)

Verify ==
  /\ form # None /\ ~querying /\ form.uuid # None
  /\ querying' = TRUE /\ Send(Call("verify", None, None, form.uuid))
  /\ UNCHANGED <<rows, shown, view, live, form, detailQuerying, isSubmitting>>
(* Mutant: the button stays enabled.                                       *)
MaySubmitAgain == form # None /\ form.name # None
MaySubmit == form # None /\ form.name # None /\ ~isSubmitting
Submit ==
  /\ MaySubmit /\ isSubmitting' = TRUE
  /\ Send(Call("save", form.on, form.name, form.uuid))
  /\ UNCHANGED <<rows, shown, view, live, form, querying, detailQuerying>>
(* The answer to a deletion asked for in the detail of the row closes the  *)
(* detail that is open by then, the other one none.                        *)
Deletions == {"delete", "deleteViewed"}
DeleteGroup(g) ==
  /\ form = None /\ view \in {None, g}
  /\ Send(Call(IF view = None THEN "delete" ELSE "deleteViewed", g.id, None, None))
  /\ UNCHANGED <<rows, shown, view, live, form, flags>>
SaveElsewhere(on, n, u) ==
  /\ Send([Call("save", on, n, u) EXCEPT !.mine = FALSE])
  /\ UNCHANGED <<rows, shown, view, live, form, flags>>

-----------------------------------------------------------------------------
(* The server *)

Other(w, n) == \E r \in rows : r.name = n /\ r.id # w.on
Has(i) == \E r \in rows : r.id = i
(* The checks of a save: the row is there and no other has its name.       *)
Check(w) ==
  /\ w.kind = "save" /\ w.pc = "read" /\ (w.on = None \/ Has(w.on)) /\ ~Other(w, w.name)
  /\ waiting' = (waiting \ {w}) \cup {[w EXCEPT !.pc = "save"]}
  /\ UNCHANGED <<rows, shown, view, live, form, flags, sent>>
(* The unique index of the table.                                          *)
IndexAllows(w) == ~Other(w, w.name)
(* Save writes all columns, and inserts the row if it is gone.             *)
Stored(w, i) ==
  {r \in rows : r.id # i} \cup {[id |-> i, name |-> w.name, uuid |-> w.uuid]}
List == [n |-> 0, kind |-> "list", on |-> None, name |-> None, uuid |-> None, mine |-> TRUE,
         pc |-> "read"]
Save(w) ==
  /\ w.kind = "save" /\ w.pc = "save" /\ IndexAllows(w)
  /\ \E i \in IF w.on = None THEN {j \in Ids : ~Has(j)} ELSE {w.on} : rows' = Stored(w, i)
  /\ waiting' = (waiting \ {w}) \cup {x \in {List} : w.mine}
  /\ isSubmitting' = (isSubmitting /\ ~w.mine)
  /\ form' = IF w.mine THEN None ELSE form
  /\ UNCHANGED <<shown, view, live, querying, detailQuerying, sent>>
Deleted(w) ==
  /\ w.kind \in Deletions /\ Has(w.on) /\ rows' = {r \in rows : r.id # w.on}
  /\ view' = IF w.kind = "deleteViewed" THEN None ELSE view
  /\ waiting' = (waiting \ {w}) \cup {List}
  /\ UNCHANGED <<shown, live, form, flags, sent>>
(* Mutant: only an answer stops the button of the detail.                  *)
SpinsOnError(w) == detailQuerying
SpinsOn(w) == detailQuerying /\ w.kind # "detail"
(* A refusal, an error or a lost answer; an error of a lookup leaves what  *)
(* was verified, a refusal does not.                                       *)
Refused(w) ==
  /\ w.kind # "list" /\ waiting' = waiting \ {w}
  /\ querying' = (querying /\ w.kind # "verify")
  /\ detailQuerying' = SpinsOn(w)
  /\ isSubmitting' = (isSubmitting /\ ~(w.kind = "save" /\ w.mine))
  /\ live' = IF w.kind = "detail" THEN None ELSE live
  /\ form' \in IF w.kind = "verify" /\ form # None THEN {form, [form EXCEPT !.verified = None]}
               ELSE {form}
  /\ UNCHANGED <<rows, shown, view, sent>>

-----------------------------------------------------------------------------
(* Answers *)

ListAnswer(w) ==
  /\ w.kind = "list" /\ shown' = rows /\ waiting' = waiting \ {w}
  /\ UNCHANGED <<rows, view, live, form, flags, sent>>
(* The name iRight answers goes into the form that is open by then.        *)
VerifyAnswer(w, n) ==
  /\ w.kind = "verify" /\ waiting' = waiting \ {w} /\ querying' = FALSE
  /\ form' = IF form = None THEN None ELSE [form EXCEPT !.name = n, !.verified = w.uuid]
  /\ UNCHANGED <<rows, shown, view, live, detailQuerying, isSubmitting, sent>>
DetailAnswer(w) ==
  /\ w.kind = "detail" /\ waiting' = waiting \ {w} /\ detailQuerying' = FALSE
  /\ live' = w.uuid
  /\ UNCHANGED <<rows, shown, view, form, querying, isSubmitting, sent>>

Next ==
  \/ \E g \in shown : OpenDetail(g) \/ OpenEdit(g) \/ DeleteGroup(g)
  \/ view # None /\ (OpenEdit(view) \/ DeleteGroup(view))
  \/ RefreshDetail \/ CloseDetail \/ OpenCreate \/ CloseForm \/ Verify \/ Submit
  \/ \E u \in Uuids \cup {None} : TypeUuid(u)
  \/ \E i \in Ids \cup {None}, n \in Names, u \in Uuids : SaveElsewhere(i, n, u)
  \/ \E w \in waiting :
       \/ Check(w) \/ Save(w) \/ Deleted(w) \/ Refused(w) \/ ListAnswer(w)
       \/ DetailAnswer(w) \/ \E n \in Names : VerifyAnswer(w, n)

Spec == Init /\ [][Next]_vars

-----------------------------------------------------------------------------
(* Properties *)

(* The values of the variables: rows, copies and drawers.                  *)
TypeOK ==
  /\ rows \subseteq Row /\ shown \subseteq Row /\ view \in Row \cup {None}
  /\ live \in Uuids \cup {None}
  /\ form = None \/ form \in [on: Ids \cup {None}, name: Names \cup {None},
                              uuid: Uuids \cup {None}, verified: Uuids \cup {None}]

(* The button of the detail spins, and refuses clicks, only while a lookup *)
(* is in flight: lookups of details opened one after another share one     *)
(* flag, and the first answer stops it, so it may stop early but never     *)
(* stays when nothing is awaited.                                          *)
DetailAwaits == detailQuerying => \E w \in waiting : w.kind = "detail"

(* The form makes one save and one lookup at a time, also when it is       *)
(* closed and opened for another group while one is in flight.             *)
Submitting == INSTANCE SingleFlight
  WITH busy <- isSubmitting, calls <- {w.n : w \in {x \in waiting : x.kind = "save" /\ x.mine}}
Verifying == INSTANCE SingleFlight
  WITH busy <- querying, calls <- {w.n : w \in {x \in waiting : x.kind = "verify"}}
OneFormCall == Submitting!Spec /\ Verifying!Spec
=============================================================================
