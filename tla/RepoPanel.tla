------------------------------ MODULE RepoPanel ------------------------------
(***************************************************************************)
(* The panel of one managed repository in pages/ManagedRepos.tsx: its      *)
(* branches with their audit, the clean-up of branches, the creation of a  *)
(* feature branch and the grants.  The server is the table of branches the *)
(* handlers of managed_repo.go keep; it is read when an answer is made,    *)
(* and answers arrive in any order.                                        *)
(*                                                                         *)
(* A request keeps the repository and the filter of the render that sent   *)
(* it.  The lists it asks for when it succeeds are asked with these; the   *)
(* table of repositories a clean-up asks for too is the page's, and is     *)
(* left out here.                                                          *)
(***************************************************************************)
EXTENDS Naturals

CONSTANTS
  None,        \* no repository
  Repos,
  Names,       \* names of branches; repositories share them
  Initially,   \* [Repos -> [Names -> Statuses \cup {None}]], None: no such branch
  MaxSent      \* bound: requests sent by clicks in one behaviour

Statuses == {"active", "merged_stale", "unmerged_stale"}

(* What the theorems ask: the branches there are at first have a status,   *)
(* and None is no name of a form.                                          *)
Sensible ==
  /\ Initially \in [Repos -> [Names -> Statuses \cup {None}]]
  /\ None \notin {"branch", "acl"}

VARIABLES
  server,      \* the branches of each repository
  activeRepo,  \* the repository of the panel, or None
  activeTab,
  branches,    \* the list shown: names with their statuses
  filter,      \* branchStatusFilter
  selected,    \* selectedBranchNames
  isAuditing, isCleaning, isCreating,
  modal,       \* the form on top of the panel: "branch", "acl" or None
  aclTarget,   \* the repository whose grants are shown and given
  waiting,     \* requests in flight
  sent         \* requests sent by clicks

vars == <<server, activeRepo, activeTab, branches, filter, selected, isAuditing, isCleaning,
          isCreating, modal, aclTarget, waiting, sent>>

-----------------------------------------------------------------------------
Present(r) == {b \in Names : server[r][b] # None}
(* Mutant: branches that are gone are still listed.                        *)
ListedWithDeleted(r, f) ==
  {[name |-> b, status |-> server[r][b]] : b \in {x \in Names : f \in {"all", server[r][x]}}}
Listed(r, f) == {[name |-> b, status |-> server[r][b]] :
                   b \in {x \in Present(r) : f \in {"all", server[r][x]}}}
Named(list, st) == {b.name : b \in {x \in list : x.status = st}}
Stale(list) == {b.name : b \in {x \in list : x.status # "active"}}

Init ==
  /\ server = Initially
  /\ activeRepo = None /\ activeTab = "branches" /\ branches = {} /\ filter = "all"
  /\ selected = {} /\ isAuditing = FALSE /\ isCleaning = FALSE /\ isCreating = FALSE
  /\ modal = None /\ aclTarget = None /\ waiting = {} /\ sent = 0

(* fetchBranchAudits: the selection is cleared when the list is asked for. *)
List(r, f) == [kind |-> "list", repo |-> r, filter |-> f]
Click == sent < MaxSent /\ sent' = sent + 1

(* The button of a row: the list of all branches, whatever the filter says *)
(* since the last panel.                                                   *)
OpenPanel(r) ==
  /\ activeRepo = None /\ modal = None /\ Click
  /\ activeRepo' = r /\ aclTarget' = r /\ activeTab' = "branches" /\ selected' = {}
  /\ waiting' = waiting \cup {List(r, "all")}
  /\ UNCHANGED <<server, branches, filter, isAuditing, isCleaning, isCreating, modal>>
(* Mutant: a panel that is opened takes no clean-up to be running.         *)
ClosePanelAnew ==
  /\ activeRepo # None /\ modal = None
  /\ activeRepo' = None /\ isCleaning' = FALSE /\ isAuditing' = FALSE
  /\ UNCHANGED <<server, activeTab, branches, filter, selected, isCreating,
                 modal, aclTarget, waiting, sent>>
ClosePanel ==
  /\ activeRepo # None /\ modal = None
  /\ activeRepo' = None
  /\ UNCHANGED <<server, activeTab, branches, filter, selected, isAuditing, isCleaning,
                 isCreating, modal, aclTarget, waiting, sent>>
ShowTab(t) ==
  /\ activeRepo # None /\ modal = None /\ activeTab' = t
  /\ UNCHANGED <<server, activeRepo, branches, filter, selected, isAuditing, isCleaning,
                 isCreating, modal, aclTarget, waiting, sent>>
ShowModal(m) ==
  /\ activeRepo # None
  /\ IF modal = None THEN m = (IF activeTab = "acl" THEN "acl" ELSE "branch") ELSE m = None
  /\ modal' = m
  /\ UNCHANGED <<server, activeRepo, activeTab, branches, filter, selected, isAuditing,
                 isCleaning, isCreating, aclTarget, waiting, sent>>

Looking == activeRepo # None /\ activeTab = "branches" /\ modal = None

ChooseFilter(f) ==
  /\ Looking /\ f # filter /\ Click
  /\ filter' = f /\ selected' = {} /\ waiting' = waiting \cup {List(activeRepo, f)}
  /\ UNCHANGED <<server, activeRepo, activeTab, branches, isAuditing, isCleaning, isCreating,
                 modal, aclTarget>>
ToggleSelectBranch(b) ==
  /\ Looking /\ b \in Stale(branches)
  /\ selected' = IF b \in selected THEN selected \ {b} ELSE selected \cup {b}
  /\ UNCHANGED <<server, activeRepo, activeTab, branches, filter, isAuditing, isCleaning,
                 isCreating, modal, aclTarget, waiting, sent>>
ToggleSelectAll ==
  /\ Looking /\ Stale(branches) # {}
  /\ selected' = IF Stale(branches) \subseteq selected THEN {} ELSE Stale(branches)
  /\ UNCHANGED <<server, activeRepo, activeTab, branches, filter, isAuditing, isCleaning,
                 isCreating, modal, aclTarget, waiting, sent>>

-----------------------------------------------------------------------------
(* Requests.  The button of the table audits without a panel.              *)

Send(w) == Click /\ waiting' = waiting \cup {w}
TriggerAudit(r) ==
  /\ ~isAuditing /\ ((Looking /\ r = activeRepo) \/ activeRepo = None)
  /\ Send([kind |-> "audit", repo |-> r, filter |-> filter, n |-> sent])
  /\ isAuditing' = TRUE
  /\ UNCHANGED <<server, activeRepo, activeTab, branches, filter, selected, isCleaning,
                 isCreating, modal, aclTarget>>

(* handleCleanupBranches: the user types DELETE when an unmerged branch of *)
(* the list shown is among the names, else only agrees.                    *)
NeedsTyping(names) == names \cap Named(branches, "unmerged_stale") # {}
CleanUp(names) ==
  /\ Looking /\ ~isCleaning /\ names # {}
  /\ Send([kind |-> "clean", repo |-> activeRepo, filter |-> filter, names |-> names,
           typed |-> NeedsTyping(names), n |-> sent])
  /\ isCleaning' = TRUE
  /\ UNCHANGED <<server, activeRepo, activeTab, branches, filter, selected, isAuditing,
                 isCreating, modal, aclTarget>>
CleanUpMerged == CleanUp(Named(branches, "merged_stale"))
CleanUpSelected == CleanUp(selected)
CleanUpOne == \E b \in Stale(branches) : CleanUp({b})
NotifyOwner ==
  /\ Looking /\ Stale(branches) # {} /\ Send([kind |-> "notify", n |-> sent])
  /\ UNCHANGED <<server, activeRepo, activeTab, branches, filter, selected, isAuditing,
                 isCleaning, isCreating, modal, aclTarget>>

(* handleCreateBranch: only names of features pass the form.               *)
CreateBranch(b) ==
  /\ modal = "branch" /\ ~isCreating
  /\ Send([kind |-> "create", repo |-> activeRepo, filter |-> filter, names |-> {b}, n |-> sent])
  /\ isCreating' = TRUE
  /\ UNCHANGED <<server, activeRepo, activeTab, branches, filter, selected, isAuditing,
                 isCleaning, modal, aclTarget>>
AddAcl ==
  /\ modal = "acl" /\ Send([kind |-> "acl", repo |-> aclTarget, n |-> sent])
  /\ UNCHANGED <<server, activeRepo, activeTab, branches, filter, selected, isAuditing,
                 isCleaning, isCreating, modal, aclTarget>>

-----------------------------------------------------------------------------
(* Answers *)

(* Whatever the panel shows by now, the list that arrives is the list; a   *)
(* refusal is an empty one.                                                *)
ListAnswer(w, ok) ==
  /\ w.kind = "list" /\ waiting' = waiting \ {w}
  /\ branches' \in IF ok THEN {Listed(w.repo, w.filter)} ELSE {branches, {}}
  /\ UNCHANGED <<server, activeRepo, activeTab, filter, selected, isAuditing, isCleaning,
                 isCreating, modal, aclTarget, sent>>
Again(w, ok) == waiting' = (waiting \ {w}) \cup (IF ok THEN {List(w.repo, w.filter)} ELSE {})
AuditAnswer(w, ok) ==
  /\ w.kind = "audit" /\ Again(w, ok)
  /\ isAuditing' = FALSE /\ selected' = IF ok THEN {} ELSE selected
  /\ UNCHANGED <<server, activeRepo, activeTab, branches, filter, isCleaning, isCreating,
                 modal, aclTarget, sent>>
(* A clean-up succeeds when it deleted one of the branches; one that fails *)
(* for the panel may have deleted any of them.                             *)
CleanAnswer(w, ok) ==
  /\ w.kind = "clean" /\ Again(w, ok)
  /\ isCleaning' = FALSE /\ selected' = IF ok THEN {} ELSE selected
  /\ \E gone \in SUBSET w.names :
       /\ ok => gone # {}
       /\ server' = [server EXCEPT ![w.repo] = [b \in Names |-> IF b \in gone THEN None ELSE @[b]]]
  /\ UNCHANGED <<activeRepo, activeTab, branches, filter, isAuditing, isCreating, modal,
                 aclTarget, sent>>
CreateAnswer(w, ok) ==
  /\ w.kind = "create" /\ Again(w, ok)
  /\ isCreating' = FALSE /\ selected' = IF ok THEN {} ELSE selected
  /\ modal' = IF ok /\ modal = "branch" THEN None ELSE modal
  /\ server' = IF ok THEN [server EXCEPT ![w.repo] =
                             [b \in Names |-> IF b \in w.names THEN "active" ELSE @[b]]]
               ELSE server
  /\ UNCHANGED <<activeRepo, activeTab, branches, filter, isAuditing, isCleaning, aclTarget, sent>>
AclAnswer(w, ok) ==
  /\ w.kind = "acl" /\ waiting' = waiting \ {w}
  /\ modal' = IF ok /\ modal = "acl" THEN None ELSE modal
  /\ UNCHANGED <<server, activeRepo, activeTab, branches, filter, selected, isAuditing,
                 isCleaning, isCreating, aclTarget, sent>>
NotifyAnswer(w) ==
  /\ w.kind = "notify" /\ waiting' = waiting \ {w}
  /\ UNCHANGED <<server, activeRepo, activeTab, branches, filter, selected, isAuditing,
                 isCleaning, isCreating, modal, aclTarget, sent>>

Next ==
  \/ \E r \in Repos : OpenPanel(r) \/ TriggerAudit(r)
  \/ ClosePanel \/ \E t \in {"branches", "acl"} : ShowTab(t)
  \/ \E m \in {"branch", "acl", None} : ShowModal(m)
  \/ \E f \in Statuses \cup {"all"} : ChooseFilter(f)
  \/ \E b \in Names : ToggleSelectBranch(b) \/ CreateBranch(b)
  \/ ToggleSelectAll \/ CleanUpMerged \/ CleanUpSelected \/ CleanUpOne \/ NotifyOwner \/ AddAcl
  \/ \E w \in waiting, ok \in BOOLEAN :
       \/ ListAnswer(w, ok) \/ AuditAnswer(w, ok) \/ CleanAnswer(w, ok)
       \/ CreateAnswer(w, ok) \/ AclAnswer(w, ok) \/ NotifyAnswer(w)

Spec == Init /\ [][Next]_vars

-----------------------------------------------------------------------------
(* Properties *)

(* The values of the variables: the list shown and what is in flight.      *)
TypeOK ==
  /\ server \in [Repos -> [Names -> Statuses \cup {None}]]
  /\ {activeRepo, aclTarget} \subseteq Repos \cup {None} /\ filter \in Statuses \cup {"all"}
  /\ branches \subseteq [name: Names, status: Statuses] /\ selected \subseteq Names
  /\ modal \in {"branch", "acl", None}

(* The panel makes one audit, one clean-up and one creation at a time, and *)
(* the flags that disable the buttons tell for how long, however panels    *)
(* are closed and opened meanwhile.                                        *)
Calls(kind) == {w \in waiting : w.kind = kind}
Auditing == INSTANCE SingleFlight WITH busy <- isAuditing, calls <- Calls("audit")
Cleaning == INSTANCE SingleFlight WITH busy <- isCleaning, calls <- Calls("clean")
Creating == INSTANCE SingleFlight WITH busy <- isCreating, calls <- Calls("create")
OnePanelCall == Auditing!Spec /\ Cleaning!Spec /\ Creating!Spec

(* An unmerged branch is deleted only when DELETE was typed, as the panel  *)
(* says below the list.                                                    *)
UnmergedTyped ==
  [][\A w \in waiting' \ waiting :
       w.kind = "clean" /\ (\E b \in w.names : server[w.repo][b] = "unmerged_stale")
         => w.typed]_vars
=============================================================================
