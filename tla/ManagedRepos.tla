---------------------------- MODULE ManagedRepos ----------------------------
(***************************************************************************)
(* The page of the managed groups and their repositories,                  *)
(* pages/ManagedRepos.tsx without the panel of one repository (RepoPanel): *)
(* the tree of groups, the group chosen in the address, the table, and the *)
(* forms that bring in a root group and ask for a repository.              *)
(*                                                                         *)
(* An action is an event with its renders and the effects they cause.      *)
(* An answer calls the closure of the render that sent the request, so a   *)
(* request keeps the group selected and the switch "archived" of then.     *)
(***************************************************************************)
EXTENDS Naturals, SequencesExt

CONSTANTS
  None,
  Groups,      \* groups; numbers, in the order of their names
  Parent,      \* [Groups -> Groups \cup {None}]
  Users, Depts, DeptOf,   \* users, departments, [Users -> Depts \cup {None}]
  MaxSent      \* bound: requests sent by clicks, and changes by others

(* The groups are a forest.                                                *)
Forest ==
  /\ IsFiniteSet(Groups) /\ Groups \subseteq Nat /\ Parent \in [Groups -> Groups \cup {None}]
  /\ \E depth \in [Groups -> 1..Cardinality(Groups)] :
       \A g \in Groups : Parent[g] # None => depth[Parent[g]] < depth[g]
(* What the theorems ask: a department of a user is one there is, and None *)
(* is no group.                                                            *)
Sensible == None \notin Groups /\ DeptOf \in [Users -> Depts \cup {None}]

VARIABLES
  server,        \* the groups there are, and whether each is hidden
  groups,        \* the page's copy
  url,           \* group_id of the address, or None
  selectedGroup, \* [id, hidden], or None
  hasInitialized,
  repos,         \* the request whose answer the table shows, or None
  showArchived, isSyncingGroup,
  expanded, showHidden,   \* expandedGroups and the box of the sidebar
  systemUsers,
  form,          \* what the open form holds, or None
  waiting, sent

vars == <<server, groups, url, selectedGroup, hasInitialized, repos, showArchived,
          isSyncingGroup, expanded, showHidden, systemUsers, form, waiting, sent>>
side == <<expanded, showHidden, systemUsers, form>>

-----------------------------------------------------------------------------
(* The tree *)

Ancestors[g \in Groups] ==
  IF Parent[g] = None THEN {} ELSE {Parent[g]} \cup Ancestors[Parent[g]]
With(f, g, v) == [h \in DOMAIN f \cup {g} |-> IF h = g THEN v ELSE f[h]]
Below(g) == {h \in Groups : g = h \/ g \in Ancestors[h]}

(* Mutant: a group is a root only if it has no parent at all.              *)
StrictRoots(gs) == {g \in gs : Parent[g] = None}
(* A group whose parent is not in the list is a root of the list.          *)
Roots(gs) == {g \in gs : Parent[g] \notin gs}
ByName(gs) == CHOOSE s \in [1..Cardinality(gs) -> gs] : \A i, j \in DOMAIN s : i < j => s[i] < s[j]
Children(g, gs) == {h \in gs : Parent[h] = g}
(* What the depth-first search dfs adds for each node of hs.               *)
ForEach(dfs, hs) == FlattenSeq([i \in 1..Cardinality(hs) |-> dfs[ByName(hs)[i]]])
SortGroupsAsTree(gs) ==
  LET dfs[g \in gs] == <<g>> \o ForEach(dfs, Children(g, gs))
  IN ForEach(dfs, Roots(gs))

IsAnyAncestorHidden(g, gs) == \E a \in Ancestors[g] \cap DOMAIN gs : gs[a]
IsGroupVisible(g) == (Ancestors[g] \cap DOMAIN groups) \subseteq expanded
Shown == {g \in DOMAIN groups :
            IsGroupVisible(g) /\ (showHidden \/ ~(groups[g] \/ IsAnyAncestorHidden(g, groups)))}
Offered == {g \in DOMAIN groups : ~groups[g] /\ ~IsAnyAncestorHidden(g, groups)}

-----------------------------------------------------------------------------
(* The effect on [searchParams, groups, hasInitialized]; sel is the group  *)
(* selected in the render it belongs to.                                   *)

Nothing == [g \in {} |-> FALSE]
Repos(g, a) == [kind |-> "repos", group |-> g, archived |-> a]
Chosen(u, gs, sel) ==
  IF u = None THEN None
  ELSE IF gs = Nothing \/ (sel # None /\ sel.id = u) THEN IF gs = Nothing \/ u \in DOMAIN gs THEN sel ELSE None
  ELSE IF u \in DOMAIN gs THEN [id |-> u, hidden |-> gs[u]] ELSE None
Fetched(u, gs, sel) ==
  IF u = None THEN IF sel # None \/ ~hasInitialized THEN {Repos(None, showArchived)} ELSE {}
  ELSE IF gs = Nothing \/ (u \in DOMAIN gs /\ sel # None /\ sel.id = u) THEN {}
  ELSE {Repos(IF u \in DOMAIN gs THEN u ELSE None, showArchived)}

(* An event that leaves the address u, the groups gs and the selection     *)
(* sel, and has the requests ws in flight.                                 *)
WithEffect(u, gs, sel, ws) ==
  /\ url' = u /\ groups' = gs
  /\ selectedGroup' = Chosen(u, gs, sel)
  /\ hasInitialized' = (hasInitialized \/ u = None)
  /\ waiting' = ws \cup Fetched(u, gs, sel)

Init ==
  /\ server \in {[g \in Groups |-> FALSE], [g \in Groups |-> Parent[g] # None]}
  /\ groups = Nothing /\ url \in Groups \cup {None} /\ selectedGroup = None
  /\ hasInitialized = (url = None) /\ repos = None
  /\ showArchived = FALSE /\ isSyncingGroup = FALSE
  /\ expanded = {} /\ showHidden = FALSE /\ systemUsers = {} /\ form = None
  /\ waiting = {[kind |-> "groups"], [kind |-> "options"]}
                 \cup (IF url = None THEN {Repos(None, FALSE)} ELSE {})
  /\ sent = 0

-----------------------------------------------------------------------------
(* Clicks.  A form covers the page.                                        *)

SelId(sel) == IF sel = None THEN None ELSE sel.id
Click == form = None /\ sent < MaxSent /\ sent' = sent + 1

HandleGroupSelect(g) ==
  /\ Click /\ g \in Shown \cup {None}
  /\ WithEffect(g, groups, selectedGroup, waiting)
  /\ UNCHANGED <<server, repos, showArchived, isSyncingGroup>> /\ UNCHANGED side
ToggleGroupExpand(g) ==
  /\ form = None /\ g \in Shown /\ \E h \in DOMAIN groups : Parent[h] = g
  /\ expanded' = IF g \in expanded THEN expanded \ {g} ELSE expanded \cup {g}
  /\ UNCHANGED <<server, groups, url, selectedGroup, hasInitialized, repos, showArchived,
                 isSyncingGroup, showHidden, systemUsers, form, waiting, sent>>
ToggleShowHidden ==
  /\ form = None /\ showHidden' = ~showHidden
  /\ UNCHANGED <<server, groups, url, selectedGroup, hasInitialized, repos, showArchived,
                 isSyncingGroup, expanded, systemUsers, form, waiting, sent>>
ToggleShowArchived ==
  /\ Click /\ showArchived' = ~showArchived
  /\ waiting' = waiting \cup {Repos(SelId(selectedGroup), ~showArchived)}
  /\ UNCHANGED <<server, groups, url, selectedGroup, hasInitialized, repos, isSyncingGroup>>
  /\ UNCHANGED side

Send(w) ==
  /\ Click /\ waiting' = waiting \cup {w}
  /\ UNCHANGED <<server, groups, url, selectedGroup, hasInitialized, repos, showArchived>>
Here(kind) == [kind |-> kind, sel |-> selectedGroup, archived |-> showArchived, n |-> sent]

(* A root can be removed, another group hidden or shown.                   *)
HandleDeleteGroup ==
  selectedGroup # None /\ Parent[selectedGroup.id] = None
    /\ Send(Here("delete")) /\ UNCHANGED isSyncingGroup /\ UNCHANGED side
HandleToggleGroupHide ==
  selectedGroup # None /\ Parent[selectedGroup.id] # None
    /\ Send(Here("hide")) /\ UNCHANGED isSyncingGroup /\ UNCHANGED side
HandleSyncGroup ==
  selectedGroup # None /\ ~isSyncingGroup
    /\ Send(Here("sync")) /\ isSyncingGroup' = TRUE /\ UNCHANGED side
HandleToggleRepoArchive ==
  repos # None /\ Send(Here("archive")) /\ UNCHANGED isSyncingGroup /\ UNCHANGED side

-----------------------------------------------------------------------------
(* The forms *)

Form(f) ==
  /\ form' = f
  /\ UNCHANGED <<server, groups, url, selectedGroup, hasInitialized, repos, showArchived,
                 isSyncingGroup, expanded, showHidden, systemUsers, waiting, sent>>
ImportForm == [group |-> None, owner |-> None, dept |-> None]
OpenGroupForm == form = None /\ Form(ImportForm)
OpenRepoForm ==
  /\ form = None /\ DOMAIN groups # {}
  /\ Form([group |-> IF selectedGroup # None THEN selectedGroup.id
                     ELSE CHOOSE g \in DOMAIN groups : TRUE,
           owner |-> None, dept |-> None])
CloseForm == form # None /\ Form(None)

IsRepoForm == form \notin {None, ImportForm}
(* The owner's department is taken when none is chosen.                    *)
WithDept(f, us) == IF f.owner \in us /\ f.dept = None THEN [f EXCEPT !.dept = DeptOf[f.owner]] ELSE f
ChooseOwner(u) == IsRepoForm /\ Form(WithDept([form EXCEPT !.owner = u], systemUsers))
ChooseDept(d) == IsRepoForm /\ d # None /\ Form([form EXCEPT !.dept = d])
ChooseGroup(g) == IsRepoForm /\ g \in Offered /\ Form([form EXCEPT !.group = g])

Submit(w) ==
  /\ sent < MaxSent /\ sent' = sent + 1 /\ waiting' = waiting \cup {w}
  /\ UNCHANGED <<server, groups, url, selectedGroup, hasInitialized, repos, showArchived,
                 isSyncingGroup, expanded, showHidden, systemUsers, form>>
HandleCreateGroup == form = ImportForm /\ Submit(Here("import"))
HandleCreateRepo == IsRepoForm /\ form.owner # None /\ form.dept # None /\ Submit(Here("ask"))

-----------------------------------------------------------------------------
(* Answers *)

Later(w) == waiting \ {w}
(* A refusal counts as an empty list; an answer that cannot be read, or is *)
(* lost, changes nothing.                                                  *)
GroupsAnswer(w, ok) ==
  /\ w.kind = "groups"
  /\ \/ WithEffect(url, IF ok THEN server ELSE Nothing, selectedGroup, Later(w))
     \/ /\ ~ok /\ waiting' = Later(w)
        /\ UNCHANGED <<groups, url, selectedGroup, hasInitialized>>
  /\ UNCHANGED <<server, repos, showArchived, isSyncingGroup, sent>> /\ UNCHANGED side
OptionsAnswer(w) ==
  /\ w.kind = "options" /\ waiting' = Later(w) /\ systemUsers' = Users
  /\ form' = IF IsRepoForm THEN WithDept(form, Users) ELSE form
  /\ UNCHANGED <<server, groups, url, selectedGroup, hasInitialized, repos, showArchived,
                 isSyncingGroup, expanded, showHidden, sent>>
ReposAnswer(w) ==
  /\ w.kind = "repos" /\ waiting' = Later(w) /\ repos' = [group |-> w.group, archived |-> w.archived]
  /\ UNCHANGED <<server, groups, url, selectedGroup, hasInitialized, showArchived,
                 isSyncingGroup, sent>> /\ UNCHANGED side

(* Mutant: only the selection is changed, the list is left to the refresh. *)
HideAnswerSelection(w, ok) ==
  LET g == w.sel.id
      hid == IF ok /\ g \in DOMAIN server THEN ~server[g] ELSE FALSE
  IN /\ w.kind = "hide"
     /\ ok => g \in DOMAIN server
     /\ server' = IF ok THEN [server EXCEPT ![g] = hid] ELSE server
     /\ selectedGroup' = IF ok THEN [id |-> g, hidden |-> hid] ELSE selectedGroup
     /\ waiting' = IF ok THEN Later(w) \cup {[kind |-> "groups"]} ELSE Later(w)
     /\ UNCHANGED <<groups, url, hasInitialized, repos, showArchived, isSyncingGroup, sent>>
     /\ UNCHANGED side
(* The row of the group is changed in the page's copy, which is a new list *)
(* and so runs the effect; the selection is that of the click.             *)
HideAnswer(w, ok) ==
  LET g == w.sel.id
      hid == IF ok /\ g \in DOMAIN server THEN ~server[g] ELSE FALSE
  IN /\ w.kind = "hide"
     /\ ok => g \in DOMAIN server
     /\ server' = IF ok THEN [server EXCEPT ![g] = hid] ELSE server
     /\ IF ok
        THEN WithEffect(url, IF g \in DOMAIN groups THEN [groups EXCEPT ![g] = hid] ELSE groups,
                        [id |-> g, hidden |-> hid], Later(w) \cup {[kind |-> "groups"]})
        ELSE /\ waiting' = Later(w)
             /\ UNCHANGED <<groups, url, selectedGroup, hasInitialized>>
     /\ UNCHANGED <<repos, showArchived, isSyncingGroup, sent>> /\ UNCHANGED side

(* fetchRepos without a group: the address still names the group removed.  *)
DeleteAnswer(w, ok) ==
  /\ w.kind = "delete"
  /\ server' = IF ok THEN [g \in DOMAIN server \ Below(w.sel.id) |-> server[g]] ELSE server
  /\ selectedGroup' = IF ok THEN None ELSE selectedGroup
  /\ waiting' = IF ok THEN Later(w) \cup {[kind |-> "groups"], Repos(None, w.archived)}
                ELSE Later(w)
  /\ UNCHANGED <<groups, url, hasInitialized, repos, showArchived, isSyncingGroup, sent>>
  /\ UNCHANGED side
SyncAnswer(w, ok) ==
  /\ w.kind = "sync" /\ isSyncingGroup' = FALSE
  /\ waiting' = IF ok THEN Later(w) \cup {[kind |-> "groups"]} ELSE Later(w)
  /\ UNCHANGED <<server, groups, url, selectedGroup, hasInitialized, repos, showArchived, sent>>
  /\ UNCHANGED side
ArchiveAnswer(w, ok) ==
  /\ w.kind = "archive"
  /\ waiting' = IF ok THEN Later(w) \cup {Repos(SelId(w.sel), w.archived)} ELSE Later(w)
  /\ UNCHANGED <<server, groups, url, selectedGroup, hasInitialized, repos, showArchived,
                 isSyncingGroup, sent>> /\ UNCHANGED side
(* The form that is open by now is closed and emptied.                     *)
ImportAnswer(w, ok) ==
  /\ w.kind = "import"
  /\ \E g \in Groups : /\ Parent[g] = None
                       /\ server' = IF ok THEN With(server, g, FALSE) ELSE server
  /\ waiting' = IF ok THEN Later(w) \cup {[kind |-> "groups"]} ELSE Later(w)
  /\ form' = IF ok /\ form = ImportForm THEN None ELSE form
  /\ UNCHANGED <<groups, url, selectedGroup, hasInitialized, repos, showArchived,
                 isSyncingGroup, expanded, showHidden, systemUsers, sent>>
AskAnswer(w, ok) ==
  /\ w.kind = "ask" /\ waiting' = Later(w)
  /\ form' = IF ok /\ IsRepoForm THEN None ELSE form
  /\ UNCHANGED <<server, groups, url, selectedGroup, hasInitialized, repos, showArchived,
                 isSyncingGroup, expanded, showHidden, systemUsers, sent>>

(* The background task, or somebody else, adds and removes subgroups.      *)
Others ==
  /\ sent < MaxSent /\ sent' = sent + 1
  /\ \E g \in Groups :
       /\ Parent[g] # None
       /\ \/ g \in DOMAIN server /\ server' = [h \in DOMAIN server \ Below(g) |-> server[h]]
          \/ g \notin DOMAIN server /\ Parent[g] \in DOMAIN server /\ server' = With(server, g, FALSE)
  /\ UNCHANGED <<groups, url, selectedGroup, hasInitialized, repos, showArchived,
                 isSyncingGroup, expanded, showHidden, systemUsers, form, waiting>>

Next ==
  \/ \E g \in Groups : HandleGroupSelect(g) \/ ToggleGroupExpand(g) \/ ChooseGroup(g)
  \/ HandleGroupSelect(None) \/ ToggleShowHidden \/ ToggleShowArchived
  \/ HandleDeleteGroup \/ HandleToggleGroupHide \/ HandleSyncGroup \/ HandleToggleRepoArchive
  \/ OpenGroupForm \/ OpenRepoForm \/ CloseForm
  \/ \E u \in Users \cup {None} : ChooseOwner(u)
  \/ \E d \in Depts : ChooseDept(d)
  \/ HandleCreateGroup \/ HandleCreateRepo \/ Others
  \/ \E w \in waiting : OptionsAnswer(w) \/ ReposAnswer(w)
  \/ \E w \in waiting, ok \in BOOLEAN :
       \/ GroupsAnswer(w, ok) \/ HideAnswer(w, ok) \/ DeleteAnswer(w, ok) \/ SyncAnswer(w, ok)
       \/ ArchiveAnswer(w, ok) \/ ImportAnswer(w, ok) \/ AskAnswer(w, ok)

Spec == Init /\ [][Next]_vars

-----------------------------------------------------------------------------
(* Properties *)

(* The values of the variables: groups, the selection, the open form.      *)
TypeOK ==
  /\ DOMAIN groups \subseteq Groups /\ DOMAIN server \subseteq Groups
  /\ url \in Groups \cup {None}
  /\ selectedGroup \in [id: Groups, hidden: BOOLEAN] \cup {None}
  /\ form \in {None} \cup [group: Groups \cup {None}, owner: Users \cup {None}, dept: Depts \cup {None}]

(* The group shown as selected, to which the buttons apply, is the one of  *)
(* the address and one that exists, although answers set it back to the    *)
(* group selected when they were asked for.                                *)
SelectedFollowsUrl ==
  selectedGroup # None /\ DOMAIN groups # {} =>
    url = selectedGroup.id /\ selectedGroup.id \in DOMAIN groups

(* The sidebar lists each group that matches a search once, and a group    *)
(* before those below it, with no other between, whatever the search       *)
(* leaves out.                                                             *)
TreeListed ==
  \A gs \in SUBSET DOMAIN groups :
    LET s == SortGroupsAsTree(gs)
        At(g) == CHOOSE i \in DOMAIN s : s[i] = g
    IN /\ Len(s) = Cardinality(gs) /\ ToSet(s) = gs
       /\ \A g \in gs : Parent[g] \in gs =>
            /\ At(Parent[g]) < At(g)
            /\ \A i \in At(Parent[g])..At(g) : Parent[g] \in {s[i]} \cup Ancestors[s[i]]
=============================================================================
