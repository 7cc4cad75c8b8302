----------------------------- MODULE PipelinePage -----------------------------
(***************************************************************************)
(* The pipelines and their groups: pages/PipelineConfig.tsx with the       *)
(* pipeline form of components/PipelineModal.tsx and the handlers of       *)
(* App.tsx behind them, over the tables that handlers/pipeline_group.go    *)
(* and handlers/pipeline.go keep.                                          *)
(*                                                                         *)
(* The page acts on its own copies of the two lists.  A dialog covers the  *)
(* page, so that one is open at a time; its cross closes it whatever is in *)
(* flight, and an answer closes the dialog of its kind, whichever it is.   *)
(*                                                                         *)
(* A handler reads the row its request names and writes in a second step,  *)
(* with no transaction around the two; Pipes stands for rows, whose        *)
(* identifiers the server issues.                                          *)
(***************************************************************************)
EXTENDS Naturals

CONSTANTS
  None, Groups, Pipes,
  MaxSent,   \* bound: requests sent by clicks
  MaxOther   \* bound: changes other users make

(* What the theorems ask: groups are numbers and None is no group.         *)
Sensible == Groups \subseteq Nat /\ None \notin Groups

VARIABLES
  groups,     \* server: the groups there are
  pipes,      \* server: the pipelines, with their groups
  seen,       \* server: what the handlers at work have read
  shownGroups, shownPipes,   \* the page's copies
  dialog,     \* the dialog on top of the page
  savingGroup, attaching, joining, fetching,   \* calls in flight, by button
  waiting, sent, others

vars == <<groups, pipes, seen, shownGroups, shownPipes, dialog, savingGroup, attaching, joining,
          fetching, waiting, sent, others>>
tables == <<groups, pipes>>
server == <<groups, pipes, seen>>
shown == <<shownGroups, shownPipes>>
flags == <<savingGroup, attaching, joining, fetching>>

Pipe == [id: Pipes, group: Groups \cup {None}]
(* on: what the dialog is about, None in a form for a new one; with: the   *)
(* group chosen; chosen: the pipelines ticked.                             *)
Dialog(kind, on, with) == [kind |-> kind, on |-> on, with |-> with, chosen |-> {}]
Closed == Dialog("none", None, None)

Init ==
  /\ groups \in SUBSET Groups /\ pipes \in SUBSET [id: Pipes, group: {None}] /\ seen = {}
  /\ shownGroups = groups /\ shownPipes = pipes
  /\ dialog = Closed /\ savingGroup = FALSE /\ attaching = FALSE /\ joining = FALSE
  /\ fetching = FALSE /\ waiting = {} /\ sent = 0 /\ others = 0

Looking == dialog = Closed
Send(kind, on, with) ==
  /\ sent < MaxSent /\ sent' = sent + 1
  /\ waiting' = waiting \cup {[kind |-> kind, on |-> on, with |-> with, n |-> sent]}
Lists == {[kind |-> k, on |-> None, with |-> None, n |-> 0] : k \in {"groups", "pipes"}}
Show(d) == dialog' = d /\ UNCHANGED <<server, shown, flags, waiting, sent, others>>

-----------------------------------------------------------------------------
(* Dialogs *)

EditGroup(g) == Looking /\ Show(Dialog("group", g, None))
OpenAttach(g) == Looking /\ Show(Dialog("attach", g, None))
(* The first group of the list is proposed.                                *)
OpenJoin(p) ==
  /\ Looking /\ p.group = None
  /\ Show(Dialog("join", p.id,
                 IF shownGroups = {} THEN None
                 ELSE CHOOSE g \in shownGroups : \A h \in shownGroups : g <= h))
(* The form of a pipeline is the copy the page holds of it.                *)
EditPipeline(p) == Looking /\ Show(Dialog("pipeline", p.id, p.group))
AddPipeline == Looking /\ Show(Dialog("pipeline", None, None))
Tick(p) ==
  /\ dialog.kind = "attach" /\ p.group = None
  /\ Show([dialog EXCEPT !.chosen = IF p.id \in @ THEN @ \ {p.id} ELSE @ \cup {p.id}])
ChooseGroup(g) ==
  /\ dialog.kind \in {"join", "pipeline"} /\ g # dialog.with
  /\ Show([dialog EXCEPT !.with = g])
Close == ~Looking /\ Show(Closed)

-----------------------------------------------------------------------------
(* Requests *)

(* Mutant: the button stays enabled.                                       *)
MaySaveAgain == dialog.kind = "group"
MaySaveGroup == dialog.kind = "group" /\ ~savingGroup
SaveGroup ==
  /\ MaySaveGroup /\ Send("group", dialog.on, None) /\ savingGroup' = TRUE
  /\ UNCHANGED <<server, shown, dialog, attaching, joining, fetching, others>>
ConfirmAttach ==
  /\ dialog.kind = "attach" /\ dialog.chosen # {} /\ ~attaching
  /\ Send("attach", dialog.chosen, dialog.on) /\ attaching' = TRUE
  /\ UNCHANGED <<server, shown, dialog, savingGroup, joining, fetching, others>>
ConfirmJoin ==
  /\ dialog.kind = "join" /\ dialog.with # None /\ ~joining
  /\ Send("join", {dialog.on}, dialog.with) /\ joining' = TRUE
  /\ UNCHANGED <<server, shown, dialog, savingGroup, attaching, fetching, others>>
(* A group is deleted when the page's copy shows no pipeline in it.        *)
DeleteGroup(g) ==
  /\ Looking /\ \A p \in shownPipes : p.group # g
  /\ Send("ungroup", g, None)
  /\ UNCHANGED <<server, shown, dialog, flags, others>>
(* The group the page's copy shows the pipeline in.                        *)
Detach(p) ==
  /\ Looking /\ p.group # None /\ Send("detach", {p.id}, p.group)
  /\ UNCHANGED <<server, shown, dialog, flags, others>>
DeletePipeline(p) ==
  /\ Looking /\ Send("drop", p.id, None)
  /\ UNCHANGED <<server, shown, dialog, flags, others>>
(* Only the form of a new pipeline asks for its third-party attributes;    *)
(* leaving the field asks for them even while others are awaited.          *)
FetchInfo(p) ==
  /\ dialog.kind = "pipeline" /\ dialog.on = None
  /\ Send("info", p, None) /\ fetching' = TRUE
  /\ UNCHANGED <<server, shown, dialog, savingGroup, attaching, joining, others>>
(* Nothing tells that a save is in flight.                                 *)
SavePipeline(p) ==
  /\ dialog.kind = "pipeline" /\ dialog.on \in {None, p} /\ ~fetching
  /\ Send(IF dialog.on = None THEN "create" ELSE "save", p, dialog.with)
  /\ UNCHANGED <<server, shown, dialog, flags, others>>

-----------------------------------------------------------------------------
(* The server.  A handler first looks for the row its request names; a     *)
(* new group and a new pipeline are one insertion.                         *)

ReadBy(w) == {s \in seen : s.call = w}
Found(w) ==
  \/ w.kind \in {"attach", "join", "detach"} /\ w.with \in groups
  \/ w.kind = "group" /\ w.on \in groups
  \/ w.kind = "ungroup" /\ w.on \in groups /\ \A p \in pipes : p.group # w.on
  \/ w.kind \in {"save", "drop"} /\ \E p \in pipes : p.id = w.on
(* UpdatePipeline keeps the row it read.                                   *)
Read(w) ==
  /\ ReadBy(w) = {} /\ Found(w)
  /\ seen' = seen \cup {[call |-> w, rows |-> {p \in pipes : w.kind = "save" /\ p.id = w.on}]}
  /\ UNCHANGED <<tables, shown, dialog, flags, waiting, sent, others>>

-----------------------------------------------------------------------------
(* Writes, with their answers.  A request that is refused changes nothing  *)
(* on the server.                                                          *)

Refreshed(w, lists) == waiting' = (waiting \ {w}) \cup lists /\ seen' = seen \ ReadBy(w)
CloseIf(kind) == dialog' = IF dialog.kind = kind THEN Closed ELSE dialog
Moved(ps, g) == {IF p.id \in ps THEN [p EXCEPT !.group = g] ELSE p : p \in pipes}

Refused(w) ==
  /\ w.kind \notin {"groups", "pipes"} /\ Refreshed(w, {})
  /\ savingGroup' = (savingGroup /\ w.kind # "group")
  /\ attaching' = (attaching /\ w.kind # "attach")
  /\ joining' = (joining /\ w.kind # "join")
  /\ fetching' = (fetching /\ w.kind # "info")
  /\ UNCHANGED <<tables, shown, dialog, sent, others>>

GroupsAnswer(w) ==
  /\ w.kind = "groups" /\ Refreshed(w, {}) /\ shownGroups' = groups
  /\ UNCHANGED <<tables, shownPipes, dialog, flags, sent, others>>
PipesAnswer(w) ==
  /\ w.kind = "pipes" /\ Refreshed(w, {}) /\ shownPipes' = pipes
  /\ UNCHANGED <<tables, shownGroups, dialog, flags, sent, others>>

(* CreatePipelineGroup and UpdatePipelineGroup, which inserts its copy of  *)
(* a group that is gone.                                                   *)
GroupSaved(w) ==
  /\ w.kind = "group"
  /\ IF w.on = None THEN \E g \in Groups \ groups : groups' = groups \cup {g}
     ELSE ReadBy(w) # {} /\ groups' = groups \cup {w.on}
  /\ savingGroup' = FALSE /\ CloseIf("group") /\ Refreshed(w, Lists)
  /\ UNCHANGED <<pipes, shown, attaching, joining, fetching, sent, others>>
(* DeletePipelineGroup                                                     *)
GroupDeleted(w) ==
  /\ w.kind = "ungroup" /\ ReadBy(w) # {} /\ groups' = groups \ {w.on}
  /\ Refreshed(w, Lists)
  /\ UNCHANGED <<pipes, shown, dialog, flags, sent, others>>
(* AttachDetachPipelinesToGroup                                            *)
Attached(w) ==
  /\ w.kind = "attach" /\ ReadBy(w) # {} /\ pipes' = Moved(w.on, w.with)
  /\ attaching' = FALSE /\ CloseIf("attach") /\ Refreshed(w, Lists)
  /\ UNCHANGED <<groups, shown, savingGroup, joining, fetching, sent, others>>
Joined(w) ==
  /\ w.kind = "join" /\ ReadBy(w) # {} /\ pipes' = Moved(w.on, w.with)
  /\ joining' = FALSE /\ CloseIf("join") /\ Refreshed(w, Lists)
  /\ UNCHANGED <<groups, shown, savingGroup, attaching, fetching, sent, others>>
Members(w) == {p.id : p \in {x \in pipes : x.id \in w.on /\ x.group = w.with}}
Detached(w) ==
  /\ w.kind = "detach" /\ ReadBy(w) # {} /\ pipes' = Moved(Members(w), None)
  /\ Refreshed(w, Lists)
  /\ UNCHANGED <<groups, shown, dialog, flags, sent, others>>
(* CreatePipeline                                                          *)
PipelineCreated(w) ==
  /\ w.kind = "create" /\ (\A p \in pipes : p.id # w.on)
  /\ pipes' = pipes \cup {[id |-> w.on, group |-> w.with]}
  /\ CloseIf("pipeline") /\ Refreshed(w, {x \in Lists : x.kind = "pipes"})
  /\ UNCHANGED <<groups, shown, flags, sent, others>>
(* Mutant: the group is what the form says, also when it says none.        *)
GroupSent(w, r) == w.with
GroupKept(w, r) == IF w.with = None THEN r.group ELSE w.with
(* UpdatePipeline saves the whole row it read, a form without a group with *)
(* the group it had then; it inserts one that is gone.                     *)
PipelineSaved(w) ==
  /\ w.kind = "save"
  /\ \E s \in ReadBy(w) : \E r \in s.rows :
       pipes' = {p \in pipes : p.id # w.on} \cup {[id |-> w.on, group |-> GroupKept(w, r)]}
  /\ CloseIf("pipeline") /\ Refreshed(w, {x \in Lists : x.kind = "pipes"})
  /\ UNCHANGED <<groups, shown, flags, sent, others>>
(* DeletePipeline                                                          *)
PipelineDeleted(w) ==
  /\ w.kind = "drop" /\ ReadBy(w) # {}
  /\ pipes' = {p \in pipes : p.id # w.on}
  /\ Refreshed(w, {x \in Lists : x.kind = "pipes"})
  /\ UNCHANGED <<groups, shown, dialog, flags, sent, others>>
(* What the attributes are is not kept.                                    *)
InfoAnswer(w) ==
  /\ w.kind = "info" /\ fetching' = FALSE /\ Refreshed(w, {})
  /\ UNCHANGED <<tables, shown, dialog, savingGroup, attaching, joining, sent, others>>

(* Another user puts a pipeline into another group.                        *)
MovedElsewhere(p, g) ==
  /\ others < MaxOther /\ others' = others + 1 /\ g # p.group /\ pipes' = Moved({p.id}, g)
  /\ UNCHANGED <<groups, seen, shown, dialog, flags, waiting, sent>>

Next ==
  \/ \E g \in shownGroups : EditGroup(g) \/ OpenAttach(g) \/ DeleteGroup(g) \/ ChooseGroup(g)
  \/ \E p \in shownPipes : \/ OpenJoin(p) \/ EditPipeline(p) \/ Tick(p)
                           \/ Detach(p) \/ DeletePipeline(p)
  \/ EditGroup(None) \/ AddPipeline \/ ChooseGroup(None) \/ Close
  \/ SaveGroup \/ ConfirmAttach \/ ConfirmJoin
  \/ \E p \in Pipes : FetchInfo(p) \/ SavePipeline(p)
  \/ \E w \in waiting :
       \/ Read(w) \/ Refused(w) \/ GroupsAnswer(w) \/ PipesAnswer(w) \/ GroupSaved(w)
       \/ GroupDeleted(w) \/ Attached(w) \/ Joined(w) \/ Detached(w) \/ PipelineCreated(w)
       \/ PipelineSaved(w) \/ PipelineDeleted(w) \/ InfoAnswer(w)
  \/ \E p \in pipes, g \in groups : MovedElsewhere(p, g)

Spec == Init /\ [][Next]_vars

-----------------------------------------------------------------------------
(* Properties *)

(* The values of the variables: the lists and the dialog.                  *)
TypeOK ==
  /\ groups \subseteq Groups /\ shownGroups \subseteq Groups
  /\ pipes \subseteq Pipe /\ shownPipes \subseteq Pipe /\ \A s \in seen : s.rows \subseteq Pipe
  /\ dialog.kind \in {"none", "group", "attach", "join", "pipeline"}
  /\ dialog.with \in Groups \cup {None} /\ dialog.chosen \subseteq Pipes

(* The forms of groups, of attaching and of joining each make one call at  *)
(* a time, also when the dialog is closed and opened while one is in       *)
(* flight.                                                                 *)
Calls(kind) == {w \in waiting : w.kind = kind}
Saving == INSTANCE SingleFlight WITH busy <- savingGroup, calls <- Calls("group")
Attaching == INSTANCE SingleFlight WITH busy <- attaching, calls <- Calls("attach")
Joining == INSTANCE SingleFlight WITH busy <- joining, calls <- Calls("join")
OneGroupCall == Saving!Spec /\ Attaching!Spec /\ Joining!Spec

(* A pipeline leaves all groups by a request that names the group it is    *)
(* in, even when another user has moved it meanwhile, or by a save without *)
(* a group whose handler read the row outside any group; no save of a row  *)
(* that was read in a group takes it out, and no detachment takes it out   *)
(* of another group than the one it names.                                 *)
LeftAsRead ==
  [][\A p \in pipes, q \in pipes' :
       p.id = q.id /\ p.group # None /\ q.group = None
         => \E s \in seen :
              \/ s.call.kind = "detach" /\ p.id \in s.call.on /\ s.call.with = p.group
              \/ s.call.kind = "save" /\ p.id = s.call.on /\ s.call.with = None
                 /\ \E r \in s.rows : r.group = None]_vars

(* What docs/pipeline_group_review.md:93 asks for: a pipeline leaves its   *)
(* group by an explicit detachment alone.  UpdatePipeline writes back the  *)
(* group it read, so that one put into a group meanwhile leaves it again,  *)
(* and no run claims this.                                                 *)
LeftByDetach ==
  [][\A p \in pipes, q \in pipes' :
       p.id = q.id /\ p.group # None /\ q.group = None
         => \E s \in seen : s.call.kind = "detach" /\ p.id \in s.call.on]_vars
=============================================================================
