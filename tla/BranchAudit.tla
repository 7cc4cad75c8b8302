------------------------------ MODULE BranchAudit ------------------------------
(***************************************************************************)
(* The mirror of one repository's branches, services/branch_audit.go, with *)
(* the handlers that start an audit (handlers/managed_repo.go) and those   *)
(* that create branches in many repositories (managed_batch_branch.go).    *)
(*                                                                         *)
(* An audit asks for the number of branches, then for that many pages,     *)
(* then reads its rows, and only then writes.  No lock keeps two audits    *)
(* apart, and the platform changes while its pages are read.               *)
(***************************************************************************)
EXTENDS Naturals, Sequences, FiniteSets, FiniteSetsExt

CONSTANTS
  Branches,    \* numbers: the platform lists them in their order,
  PerPage,     \* a page of so many, 100, at a time
  Audits,      \* the requests that audit
  MaxEvents    \* bound: clicks, changes of the platform and failures

(* What the theorems ask: finitely many branches, in an order.             *)
Sensible == Branches \subseteq Nat /\ IsFiniteSet(Branches) /\ PerPage \in Nat \ {0}

VARIABLES
  remote,   \* the platform: the branches there are, with how old they are
  rows,     \* the monitors of the repository
  counts,   \* the counters on the repository's row
  audit,    \* per request: its step and what it has read
  batch,    \* the goroutine of a batch: its step and its branch
  issued, events

auditVars == <<remote, rows, counts, audit, batch, issued, events>>

(* What an audit judges a branch by the age of its last commit.            *)
BranchStatuses == {"active", "merged_stale", "unmerged_stale"}
Row == [id: Nat, name: Branches, status: BranchStatuses]
(* alone: nothing else has changed anything since the audit began, and all *)
(* it asked for it was told.                                               *)
NoAudit == [pc |-> "idle", todo |-> {}, pages |-> 0, page |-> 0, list |-> <<>>,
            local |-> {}, alone |-> FALSE]

BAInit ==
  /\ remote = [b \in {} |-> "active"] /\ rows = {}
  /\ counts = [s \in BranchStatuses \cup {"all"} |-> 0]
  /\ audit = [a \in Audits |-> NoAudit] /\ batch = [pc |-> "idle", branch |-> 0]
  /\ issued = 0 /\ events = 0

NamesOf(rs) == {r.name : r \in rs}
With(b, s) == [x \in DOMAIN remote \cup {b} |-> IF x = b THEN s ELSE remote[x]]
Event == events < MaxEvents /\ events' = events + 1
Disturbed(f) == [a \in Audits |-> [f[a] EXCEPT !.alone = FALSE]]
(* What request a does next; a write of its own disturbs the others.       *)
Turns(a, r) == audit' = [audit EXCEPT ![a] = r]
Writes(a, r) == audit' = [Disturbed(audit) EXCEPT ![a] = r]

-----------------------------------------------------------------------------
(* The requests *)

TriggerManagedRepoBranchAudit(a) ==
  /\ audit[a].pc = "idle" /\ Event /\ Turns(a, [NoAudit EXCEPT !.pc = "count"])
  /\ UNCHANGED <<remote, rows, counts, batch, issued>>

(* The branches to delete are chosen among the rows; each is tried.        *)
CleanupManagedBranches(a, names) ==
  /\ audit[a].pc = "idle" /\ names # {} /\ Event
  /\ Turns(a, [NoAudit EXCEPT !.pc = "delete", !.todo = names])
  /\ UNCHANGED <<remote, rows, counts, batch, issued>>
DeleteRemoteBranch(a, b) ==
  /\ audit[a].pc = "delete" /\ b \in audit[a].todo
  /\ \/ /\ b \in DOMAIN remote
        /\ remote' = [x \in DOMAIN remote \ {b} |-> remote[x]] /\ events' = events
     \/ b \notin DOMAIN remote /\ UNCHANGED <<remote, events>>
     \/ b \in DOMAIN remote /\ Event /\ remote' = remote
  /\ Writes(a, [audit[a] EXCEPT !.todo = @ \ {b},
                                !.pc = IF audit[a].todo = {b} THEN "count" ELSE "delete"])
  /\ UNCHANGED <<rows, counts, batch, issued>>

-----------------------------------------------------------------------------
(* AuditSingleRepoBranches *)

(* Mutant: the last page, when it is not full, is not asked for.           *)
FullPages(n) == IF n < PerPage THEN 1 ELSE n \div PerPage
Pages(n) == IF n = 0 THEN 1 ELSE (n + PerPage - 1) \div PerPage

(* When the number cannot be read one page is asked for; when it is read   *)
(* but cannot be stored the audit goes on with it.                         *)
CountBranches(a) ==
  LET n == Cardinality(DOMAIN remote)
      Asks(k, alone) == [audit[a] EXCEPT !.pc = "pages", !.page = 1, !.pages = Pages(k),
                                         !.alone = alone]
  IN /\ audit[a].pc = "count"
     /\ \/ /\ counts' = [counts EXCEPT !["all"] = n] /\ events' = events
           /\ Writes(a, Asks(n, \A d \in Audits \ {a} : audit[d].pc = "idle"))
        \/ Event /\ Turns(a, Asks(0, FALSE)) /\ counts' = counts
        \/ Event /\ Turns(a, Asks(n, FALSE)) /\ counts' = counts
     /\ UNCHANGED <<remote, rows, batch, issued>>

(* The place of x among the numbers of s, and the number at place i.       *)
Place(x, s) == Cardinality({y \in s : y <= x})
Nth(i, s) == CHOOSE x \in s : Place(x, s) = i
(* A page of the branches there are now, in their order.                   *)
Entry(b) == [name |-> b, status |-> remote[b]]
PageOf(n) ==
  LET all == Cardinality(DOMAIN remote)
      before == (n - 1) * PerPage
      last == IF before + PerPage < all THEN before + PerPage ELSE all
  IN [i \in 1 .. (last - before) |-> Entry(Nth(before + i, DOMAIN remote))]
(* The pages end with the last one, or with the first that is not full.    *)
GetRemoteBranchesDetail(a) ==
  LET n == audit[a].page
      items == PageOf(n)
      after == IF n = audit[a].pages \/ Len(items) < PerPage THEN "load" ELSE "pages"
  IN
  /\ audit[a].pc = "pages"
  /\ \/ /\ events' = events
        /\ Turns(a, [audit[a] EXCEPT !.list = @ \o items, !.page = @ + 1, !.pc = after])
     \/ Event /\ Turns(a, NoAudit)
  /\ UNCHANGED <<remote, rows, counts, batch, issued>>

LoadMonitors(a) ==
  /\ audit[a].pc = "load"
  /\ \/ Turns(a, [audit[a] EXCEPT !.local = rows, !.pc = "store"]) /\ events' = events
     \/ Event /\ Turns(a, NoAudit)
  /\ UNCHANGED <<remote, rows, counts, batch, issued>>

(* A write that fails is logged and the audit goes on: lost is the branch, *)
(* if any, whose row is not written.                                       *)
Logged(a, lost, next) ==
  /\ IF lost = {} THEN events' = events ELSE Event
  /\ Writes(a, [audit[a] EXCEPT !.pc = next, !.alone = @ /\ lost = {}])
OneOf(bs) == {{}} \cup {{b} : b \in bs}
ListedNames(a) == {audit[a].list[i].name : i \in DOMAIN audit[a].list}

(* The row of a branch is the last one read of its name; a branch without  *)
(* one gets a new row, twice when two pages listed it.                     *)
RowOf(local, b) ==
  CHOOSE r \in local : r.name = b /\ \A x \in local : x.name = b => x.id <= r.id
StoreMonitors(a, lost) ==
  LET list == audit[a].list
      local == audit[a].local
      new == {i \in DOMAIN list : list[i].name \notin lost \cup NamesOf(local)}
      Latest(b) == list[Max({i \in DOMAIN list : list[i].name = b})].status
  IN /\ audit[a].pc = "store"
     /\ rows' = {IF r.name \in ListedNames(a) \ lost /\ \E q \in local : q.name = r.name
                                           /\ RowOf(local, r.name).id = r.id
                   THEN [r EXCEPT !.status = Latest(r.name)] ELSE r : r \in rows}
                \cup {[id |-> issued + Place(i, new), name |-> list[i].name,
                       status |-> list[i].status] : i \in new}
     /\ issued' = issued + Cardinality(new)
     /\ Logged(a, lost, "prune")
     /\ UNCHANGED <<remote, counts, batch>>

PruneMonitors(a, lost) ==
  LET gone == {r.id : r \in {x \in audit[a].local : x.name \notin ListedNames(a) \cup lost}}
  IN /\ audit[a].pc = "prune" /\ rows' = {r \in rows : r.id \notin gone}
     /\ Logged(a, lost, "sum")
     /\ UNCHANGED <<remote, counts, batch, issued>>

SumUp(a) ==
  /\ audit[a].pc = "sum"
  /\ \/ /\ counts' = [s \in BranchStatuses \cup {"all"} |->
                       IF s = "all" THEN counts["all"]
                       ELSE Cardinality({r \in rows : r.status = s})]
        /\ Writes(a, NoAudit) /\ events' = events
     \/ Event /\ Turns(a, NoAudit) /\ counts' = counts
  /\ UNCHANGED <<remote, rows, batch, issued>>

-----------------------------------------------------------------------------
(* BatchCreateManagedBranches, of this repository: the branch, then its row *)

CreateRemoteBranch(b) ==
  /\ batch.pc = "idle" /\ b \notin DOMAIN remote /\ Event
  /\ remote' = With(b, "active") /\ batch' = [pc |-> "look", branch |-> b]
  /\ audit' = Disturbed(audit) /\ UNCHANGED <<rows, counts, issued>>
(* Any error of the query counts as no row found.                          *)
LookUp ==
  /\ batch.pc = "look"
  /\ \/ /\ batch' = [batch EXCEPT !.pc = IF batch.branch \in NamesOf(rows)
                                        THEN "idle" ELSE "insert"]
        /\ events' = events
     \/ Event /\ batch' = [batch EXCEPT !.pc = "insert"]
  /\ UNCHANGED <<remote, rows, counts, audit, issued>>
Insert ==
  /\ batch.pc = "insert" /\ batch' = [batch EXCEPT !.pc = "idle"]
  /\ rows' = rows \cup {[id |-> issued + 1, name |-> batch.branch, status |-> "active"]}
  /\ issued' = issued + 1
  /\ audit' = Disturbed(audit) /\ UNCHANGED <<remote, counts, events>>
(* A row that cannot be stored is missing, and nobody is told.             *)
InsertFails ==
  /\ batch.pc = "insert" /\ Event /\ batch' = [batch EXCEPT !.pc = "idle"]
  /\ UNCHANGED <<remote, rows, counts, audit, issued>>

(* Developers push, merge and delete; branches grow old.                   *)
PlatformChange(b, s) ==
  /\ Event
  /\ \/ /\ IF b \in DOMAIN remote THEN s \in BranchStatuses \ {remote[b]} ELSE s = "active"
        /\ remote' = With(b, s)
     \/ s = "gone" /\ b \in DOMAIN remote
        /\ remote' = [x \in DOMAIN remote \ {b} |-> remote[x]]
  /\ audit' = Disturbed(audit) /\ UNCHANGED <<rows, counts, batch, issued>>

BANext ==
  \/ \E a \in Audits :
       \/ TriggerManagedRepoBranchAudit(a)
       \/ \E names \in SUBSET NamesOf(rows) : CleanupManagedBranches(a, names)
       \/ \E b \in Branches : DeleteRemoteBranch(a, b)
       \/ CountBranches(a) \/ GetRemoteBranchesDetail(a) \/ LoadMonitors(a)
       \/ \E lost \in OneOf(ListedNames(a)) : StoreMonitors(a, lost)
       \/ \E lost \in OneOf(NamesOf(audit[a].local) \ ListedNames(a)) :
            PruneMonitors(a, lost)
       \/ SumUp(a)
  \/ \E b \in Branches : \/ CreateRemoteBranch(b)
                         \/ \E s \in BranchStatuses \cup {"gone"} : PlatformChange(b, s)
  \/ LookUp \/ Insert \/ InsertFails

BASpec == BAInit /\ [][BANext]_auditVars

-----------------------------------------------------------------------------
(* Properties *)

(* The values of the variables; no two rows have one id.                   *)
BATypeOK ==
  /\ DOMAIN remote \subseteq Branches
  /\ \A b \in DOMAIN remote : remote[b] \in BranchStatuses
  /\ rows \subseteq Row /\ \A q, r \in rows : q.id = r.id => q = r
  /\ \A r \in rows : r.id <= issued
  /\ \A a \in Audits :
       audit[a].local \subseteq Row /\ audit[a].pages <= Cardinality(Branches) + 1

(* An audit that nothing disturbs leaves a mirror of the platform: a row   *)
(* for every branch that is, as old as it is, none for a branch that is    *)
(* not, and counters that agree, whatever races and failures came before.  *)
Mirror ==
  /\ NamesOf(rows) = DOMAIN remote
  /\ \A b \in DOMAIN remote : \E r \in rows : r.name = b /\ r.status = remote[b]
  /\ counts["all"] = Cardinality(DOMAIN remote)
  /\ \A s \in BranchStatuses : counts[s] = Cardinality({r \in rows : r.status = s})
AuditMirrors ==
  [][\A a \in Audits :
       audit[a].pc = "sum" /\ audit[a].alone /\ audit'[a].pc = "idle" /\ events' = events
         => Mirror']_auditVars
=============================================================================
