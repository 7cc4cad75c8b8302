------------------------------ MODULE Approvals ------------------------------
(***************************************************************************)
(* The approval of requests for repositories and branches: the handlers of *)
(* handlers/managed_approval.go and the page pages/ManagedApprovals.tsx of *)
(* one administrator, while another one decides too.                       *)
(*                                                                         *)
(* A handler reads the request, performs it and saves all its columns from *)
(* what it read, in steps of its own.  The platform refuses a second       *)
(* repository of one name.                                                 *)
(***************************************************************************)
EXTENDS Naturals

CONSTANTS
  None,
  Requests,   \* the requests that were filed
  Kind,       \* [Requests -> Kinds]
  MaxSent     \* bound: decisions and lists asked for

Kinds == {"repo_create", "protected_branch", "batch_branch"}
Decisions == {"approve", "reject"}
Statuses == {"pending", "approved", "rejected"}

ASSUME ApprovalAssumption == Kind \in [Requests -> Kinds]

VARIABLES
  row,       \* managed_repo_approvals: status, and whether repo_id is set
  platform,  \* requests whose repository the platform has
  stored,    \* requests whose repository is in managed_repositories
  rules,     \* requests whose protection rule is recorded
  deciding,  \* decisions in progress, of both administrators
  lists,     \* lists asked for
  shown,     \* the page's list
  filter,
  drawer,    \* the request whose drawer is open, as the list showed it
  decision,  \* decisionAction
  comment,   \* whether a comment is written
  isProcessing,
  sent

vars == <<row, platform, stored, rules, deciding, lists, shown, filter, drawer, decision,
          comment, isProcessing, sent>>
tables == <<row, platform, stored, rules>>
page == <<shown, filter, drawer, decision, comment, isProcessing>>

Listed(f) == {[id |-> r, status |-> row[r].status] :
                r \in {x \in Requests : f \in {"all", row[x].status}}}

Init ==
  /\ row = [r \in Requests |-> [status |-> "pending", repo |-> FALSE]]
  /\ platform = {} /\ stored = {} /\ rules = {} /\ deciding = {}
  /\ lists = {} /\ shown = Listed("pending") /\ filter = "pending" /\ drawer = None
  /\ decision = None /\ comment = FALSE /\ isProcessing = FALSE /\ sent = 0

Click == sent < MaxSent /\ sent' = sent + 1

-----------------------------------------------------------------------------
(* The page *)

ChooseFilter(f) ==
  /\ drawer = None /\ f # filter /\ Click /\ filter' = f /\ lists' = lists \cup {f}
  /\ UNCHANGED <<tables, deciding, shown, drawer, decision, comment, isProcessing>>
(* fetchApprovals: the list of the filter it was asked with.               *)
ListAnswer(f) ==
  /\ f \in lists /\ lists' = lists \ {f} /\ shown' = Listed(f)
  /\ UNCHANGED <<tables, deciding, filter, drawer, decision, comment, isProcessing, sent>>
OpenDrawer(a) ==
  /\ drawer = None /\ a \in shown /\ drawer' = a /\ decision' = None /\ comment' = FALSE
  /\ UNCHANGED <<tables, deciding, lists, shown, filter, isProcessing, sent>>
(* Mutant: what was chosen stays for the next drawer.                      *)
CloseOnly == drawer' = None /\ UNCHANGED <<decision, comment>>
CloseModal == drawer' = None /\ decision' = None /\ comment' = FALSE
CloseDrawer ==
  /\ drawer # None /\ CloseModal
  /\ UNCHANGED <<tables, deciding, lists, shown, filter, isProcessing, sent>>
Decidable == drawer # None /\ drawer.status = "pending"
ChooseDecision(d) ==
  /\ Decidable /\ d # decision /\ decision' = d
  /\ UNCHANGED <<tables, deciding, lists, shown, filter, drawer, comment, isProcessing, sent>>
TypeComment ==
  /\ Decidable /\ comment' = ~comment
  /\ UNCHANGED <<tables, deciding, lists, shown, filter, drawer, decision, isProcessing, sent>>

(* Mutant: the button stays enabled while a decision is in flight.         *)
MaySubmitAgain == Decidable /\ decision # None /\ (decision = "reject" => comment)
MaySubmit == /\ Decidable /\ decision # None /\ ~isProcessing
             /\ decision = "reject" => comment
New(r, d, mine) == [n |-> sent, id |-> r, act |-> d, mine |-> mine, pc |-> "read",
                    repo |-> FALSE, filter |-> filter]
HandleActionSubmit ==
  /\ MaySubmit /\ Click /\ deciding' = deciding \cup {New(drawer.id, decision, TRUE)}
  /\ isProcessing' = TRUE
  /\ UNCHANGED <<tables, lists, shown, filter, drawer, decision, comment>>
DecideElsewhere(r, d) ==
  /\ Click /\ deciding' = deciding \cup {New(r, d, FALSE)}
  /\ UNCHANGED <<tables, lists, page>>

-----------------------------------------------------------------------------
(* ApproveManagedApproval and RejectManagedApproval, step by step.  The    *)
(* last step is the answer, which closes the drawer open by then and asks  *)
(* for the list again.                                                     *)

Goes(w, v) == deciding' = (deciding \ {w}) \cup {v}
Refuse(w) ==
  /\ deciding' = deciding \ {w} /\ isProcessing' = (isProcessing /\ ~w.mine)
  /\ UNCHANGED <<lists, shown, filter, drawer, decision, comment, sent>>
Answer(w) ==
  /\ deciding' = deciding \ {w} /\ isProcessing' = (isProcessing /\ ~w.mine)
  /\ IF w.mine THEN CloseModal /\ lists' = lists \cup {w.filter}
     ELSE UNCHANGED <<drawer, decision, comment, lists>>
  /\ UNCHANGED <<shown, filter, sent>>

Performing(w) == IF w.act = "reject" THEN "save"
                 ELSE CASE Kind[w.id] = "repo_create" -> "create"
                        [] Kind[w.id] = "protected_branch" -> "protect"
                        [] Kind[w.id] = "batch_branch" -> "save"
Read(w) ==
  /\ w.pc = "read" /\ row[w.id].status = "pending"
  /\ Goes(w, [w EXCEPT !.pc = Performing(w), !.repo = row[w.id].repo])
  /\ UNCHANGED <<tables, lists, page, sent>>
AlreadyProcessed(w) ==
  /\ w.pc = "read" /\ row[w.id].status # "pending" /\ Refuse(w) /\ UNCHANGED tables

CreateRepo(w) ==
  /\ w.pc = "create" /\ w.id \notin platform /\ platform' = platform \cup {w.id}
  /\ Goes(w, [w EXCEPT !.pc = "store"])
  /\ UNCHANGED <<row, stored, rules, lists, page, sent>>
(* A call that fails, or whose answer is lost after it was done.           *)
CreateFails(w) ==
  /\ w.pc = "create" /\ Refuse(w) /\ platform' \in {platform, platform \cup {w.id}}
  /\ UNCHANGED <<row, stored, rules>>
(* Mutant: the failure to store the repository is only logged.             *)
StoreLogged(w, ok) ==
  /\ w.pc = "store" /\ Goes(w, [w EXCEPT !.pc = "save", !.repo = ok])
  /\ stored' = IF ok THEN stored \cup {w.id} ELSE stored
  /\ UNCHANGED <<row, platform, rules, lists, page, sent>>
Store(w, ok) ==
  /\ w.pc = "store"
  /\ IF ok THEN /\ stored' = stored \cup {w.id}
                /\ Goes(w, [w EXCEPT !.pc = "save", !.repo = TRUE])
                /\ UNCHANGED <<lists, page, sent>>
     ELSE stored' = stored /\ Refuse(w)
  /\ UNCHANGED <<row, platform, rules>>
(* The branch and its protection are asked for and their errors ignored,   *)
(* and so is a repository that is not found, and a rule that is not stored.*)
Protect(w) ==
  /\ w.pc = "protect" /\ rules' \in {rules, rules \cup {w.id}}
  /\ Goes(w, [w EXCEPT !.pc = "save"])
  /\ UNCHANGED <<row, platform, stored, lists, page, sent>>
(* All columns, as they were read, with the decision.                      *)
Save(w, ok) ==
  /\ w.pc = "save"
  /\ IF ok THEN /\ Answer(w)
                /\ row' = [row EXCEPT ![w.id] =
                     [status |-> IF w.act = "approve" THEN "approved" ELSE "rejected",
                      repo |-> w.repo]]
     ELSE Refuse(w) /\ row' = row
  /\ UNCHANGED <<platform, stored, rules>>

Next ==
  \/ \E f \in Statuses \cup {"all"} : ChooseFilter(f) \/ ListAnswer(f)
  \/ \E a \in shown : OpenDrawer(a)
  \/ CloseDrawer \/ TypeComment \/ HandleActionSubmit
  \/ \E d \in Decisions : ChooseDecision(d) \/ \E r \in Requests : DecideElsewhere(r, d)
  \/ \E w \in deciding :
       \/ Read(w) \/ AlreadyProcessed(w) \/ CreateRepo(w) \/ CreateFails(w) \/ Protect(w)
       \/ \E ok \in BOOLEAN : Store(w, ok) \/ Save(w, ok)

Spec == Init /\ [][Next]_vars

-----------------------------------------------------------------------------
(* Properties *)

(* The values of the variables: tables and page.  A decision is chosen and *)
(* a comment written only in a drawer.                                     *)
TypeOK ==
  /\ row \in [Requests -> [status: Statuses, repo: BOOLEAN]]
  /\ platform \subseteq Requests /\ stored \subseteq Requests /\ rules \subseteq Requests
  /\ shown \subseteq [id: Requests, status: Statuses]
  /\ drawer \in [id: Requests, status: Statuses] \cup {None}
  /\ decision \in Decisions \cup {None} /\ comment \in BOOLEAN
  /\ drawer = None => decision = None /\ ~comment

(* A request for a repository is approved only with a repository: the      *)
(* platform has it, the table has it and the request names it, whatever    *)
(* failed on the way and whatever the other administrator did meanwhile.   *)
ApprovedHasRepo ==
  \A r \in Requests :
    Kind[r] = "repo_create" /\ row[r].status = "approved"
      => r \in platform /\ r \in stored /\ row[r].repo

(* One decision of the page is in flight at a time, and isProcessing tells *)
(* for how long, also when the drawer is closed and another one opened.    *)
Deciding == INSTANCE SingleFlight
              WITH busy <- isProcessing, calls <- {w.n : w \in {x \in deciding : x.mine}}
OneDecision == Deciding!Spec
=============================================================================
