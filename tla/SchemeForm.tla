------------------------------ MODULE SchemeForm ------------------------------
(***************************************************************************)
(* The sheet in which a scheme is created or edited:                       *)
(* components/ExecutionSchemeModal.tsx, with the state App.tsx keeps for   *)
(* it (the scheme in the sheet, "saving", the success banner).             *)
(*                                                                         *)
(* The scheme is App's; the switches, the parameters and the branch text   *)
(* are the sheet's own copies of parts of it.  Effects bring the two       *)
(* together.  React renders after an event, runs the effects whose         *)
(* dependencies changed and renders again, all before the next event, so   *)
(* one action is an event with its renders and effects.  Answers arrive in *)
(* any order and call the closures of the render that asked.               *)
(*                                                                         *)
(* The timers of the closing animation (300 ms) end before the next event. *)
(***************************************************************************)
EXTENDS Naturals

CONSTANTS
  None,         \* no value: undefined, null or an empty string
  Repos,        \* code repositories
  Branches,     \* branches and patterns of branches
  Patterns,     \* the branches that contain a wildcard
  Langs, Codes, ParamLists,   \* languages, codes of build types, lists of parameters
  Default,      \* the build type of a scheme that names none (SCH)
  NoParams,     \* the empty list of parameters
  LangsOf,      \* the languages of the schemes a repository has
  Rows,         \* the schemes of the list that can be opened
  MaxEdits,     \* bound: edits in one behaviour
  MaxOpens      \* bound: openings of the sheet in one behaviour

VARIABLES
  scheme,    \* App: activeScheme, or None
  visible,   \* App: showSchemeModal
  saving,    \* App: isSavingScheme
  success,   \* App: schemeSaveSuccess, the banner
  sheet,     \* the sheet's own state
  refs,      \* what the sheet keeps between renders
  dirty,     \* isFormDirty as last computed
  asking,    \* showDiscardConfirm
  pasting,   \* showPasteModal
  branches,  \* the repository whose branches are offered, or None
  others,    \* repoExistingSchemes: the repository whose schemes are known, or None
  waiting,   \* requests for branches and schemes in flight
  saves,     \* requests that save in flight
  opened,    \* history: the scheme as it was opened, or last saved
  edits, opens

vars == <<scheme, visible, saving, success, sheet, refs, dirty, asking, pasting,
          branches, others, waiting, saves, opened, edits, opens>>

-----------------------------------------------------------------------------
(* Schemes *)

(* custom_attributes, parsed: buildParameters without the reserved names,  *)
(* and of these the build types and the selected branches.                 *)
Attrs == [params: ParamLists, types: SUBSET Codes, sel: (SUBSET Branches) \cup {None}]
NoAttrs == [params |-> NoParams, types |-> {}, sel |-> None]
Given(attrs) == IF attrs = None THEN NoAttrs ELSE attrs

(* A scheme of the list is complete; a new one has a repository, maybe the *)
(* default group, and what App knows of the languages.                     *)
NewScheme(r, t, l) ==
  [id |-> None, repo |-> r, target |-> t, branchs |-> {CHOOSE b \in Branches \ Patterns : TRUE},
   langs |-> l, mr |-> None, daily |-> None, attrs |-> None]

Sheet == [mr: BOOLEAN, daily: BOOLEAN, params: ParamLists, types: SUBSET Codes,
          text: SUBSET Branches, manual: BOOLEAN]

(* getFormSnapshot: the group is not part of it.                           *)
Snapshot(s, h) ==
  [pipe |-> IF s.target = "group" THEN None ELSE s.target,
   branchs |-> IF h.manual THEN h.text ELSE s.branchs,
   langs |-> s.langs, mr |-> h.mr, daily |-> h.daily, types |-> h.types, params |-> h.params]

IsDirty(s, h, snap) == /\ visible' /\ s # None /\ ~success'
                       /\ snap # None /\ Snapshot(s, h) # snap

-----------------------------------------------------------------------------
(* Renders and effects *)

IsOn(flag) == IF flag = None THEN TRUE ELSE flag
TypesOf(attrs) == IF Given(attrs).types = {} THEN {Default} ELSE attrs.types
Inherited(s) == IF s.id = None /\ s.langs = {} THEN LangsOf[s.repo] ELSE s.langs

(* The effect on an opening and on a change of custom_attributes: the      *)
(* sheet takes its copies from the scheme, the scheme is completed and the *)
(* snapshot is taken again, since userInteractedRef is never set.          *)
Filled(s) == [s EXCEPT !.mr = IsOn(@), !.daily = IsOn(@), !.langs = Inherited(s)]
Copied(s, h, parse) ==
  [h EXCEPT !.mr = IsOn(s.mr), !.daily = IsOn(s.daily), !.text = s.branchs,
            !.manual = @ \/ s.branchs \cap Patterns # {},
            !.params = IF parse THEN Given(s.attrs).params ELSE @,
            !.types = IF parse THEN TypesOf(s.attrs) ELSE @]
Retaken(s, h) == [Snapshot(s, h) EXCEPT !.branchs = s.branchs]

(* The first render still compares with the old snapshot; there is a       *)
(* second one only if the effect changed something.                        *)
RenderWithEffect(s, h, last) ==
  LET parse == s.attrs = None \/ s.attrs # last
      s2 == Filled(s)
      h2 == Copied(s, h, parse)
      again == parse \/ s2 # s \/ h2 # h
  IN /\ scheme' = s2 /\ sheet' = h2
     /\ refs' = [attrs |-> s.attrs, langs |-> s.langs, snap |-> Retaken(s2, h2)]
     /\ dirty' = IF again THEN IsDirty(s2, h2, Retaken(s2, h2)) ELSE IsDirty(s, h, refs.snap)
Render(s, h, last, snap) ==
  /\ scheme' = s /\ sheet' = h
  /\ refs' = [refs EXCEPT !.attrs = last, !.snap = snap]
  /\ dirty' = IsDirty(s, h, snap)

(* An event that leaves the scheme s and the sheet h; last is the string   *)
(* of attributes already read.                                             *)
Settle(s, h, last, snap) ==
  LET appeared == ~visible \/ scheme = None
  IN IF visible' /\ s # None
          /\ (appeared \/ <<s.id, s.repo, s.attrs>> # <<scheme.id, scheme.repo, scheme.attrs>>)
     THEN RenderWithEffect(s, h, last)
     ELSE Render(s, h, last, snap)

(* The effects that fetch keep the scheme and the sheet of their render.   *)
(* The answer to an opened row's question for schemes changes nothing.     *)
Asked(s) ==
  (IF scheme = None \/ s.repo # scheme.repo
   THEN {[kind |-> "branches", repo |-> s.repo]} ELSE {})
  \cup (IF /\ visible' /\ s.id = None
          /\ (~visible \/ scheme = None \/ <<s.repo, s.id>> # <<scheme.repo, scheme.id>>)
        THEN {[kind |-> "schemes", repo |-> s.repo, scheme |-> s, sheet |-> sheet]} ELSE {})

-----------------------------------------------------------------------------
(* Opening and closing *)

Init ==
  /\ scheme = None /\ visible = FALSE /\ saving = FALSE /\ success = FALSE
  /\ sheet = [mr |-> TRUE, daily |-> TRUE, params |-> NoParams, types |-> {Default},
              text |-> {}, manual |-> FALSE]
  /\ refs = [attrs |-> NoAttrs, langs |-> {}, snap |-> None]
  /\ dirty = FALSE /\ asking = FALSE /\ pasting = FALSE
  /\ branches = None /\ others = None /\ waiting = {} /\ saves = {}
  /\ opened = None /\ edits = 0 /\ opens = 0

(* onAddScheme and onEditScheme of App: the sheet covers the page, so it   *)
(* is opened only when it is closed.                                       *)
Open(s) ==
  /\ ~visible /\ opens < MaxOpens
  /\ visible' = TRUE /\ asking' = FALSE /\ opens' = opens + 1
  /\ UNCHANGED <<saving, success, pasting, branches, others, saves, edits>>
  /\ Settle(s, sheet, refs.attrs, refs.snap)
  /\ opened' = refs'.snap
  /\ waiting' = waiting \cup Asked(s)
OpenNew == \E r \in Repos, t \in {"group", None}, l \in {{}, Langs} :
             l \in {{}, LangsOf[r]} /\ Open(NewScheme(r, t, l))
OpenRow == \E s \in Rows : Open(s)

(* Mutant: closing forgets the save in flight.                             *)
StopSavingOnClose == FALSE
(* onClose and onSuccessClose: neither looks at a save in flight.          *)
StopSaving == saving
Closed ==
  /\ visible' = FALSE /\ success' = FALSE /\ asking' = FALSE
  /\ scheme' = None /\ dirty' = FALSE /\ refs' = [refs EXCEPT !.snap = None]
  /\ saving' = StopSaving
  /\ branches' = None /\ others' = None
  /\ UNCHANGED <<sheet, pasting, waiting, saves, opened, edits, opens>>

(* The cross, the button "cancel", and Esc when no layer is open.          *)
RequestClose ==
  /\ visible /\ scheme # None /\ ~saving
  /\ IF dirty /\ ~success
     THEN /\ asking' = TRUE
          /\ UNCHANGED <<scheme, visible, saving, success, sheet, refs, dirty, pasting,
                         branches, others, waiting, saves, opened, edits, opens>>
     ELSE Closed
ConfirmDiscard == visible /\ asking /\ Closed
BannerDone == visible /\ scheme # None /\ success /\ Closed

Layers(a, p) ==
  /\ asking' = a /\ pasting' = p
  /\ UNCHANGED <<scheme, visible, saving, success, sheet, refs, dirty, branches, others,
                 waiting, saves, opened, edits, opens>>
KeepEditing == visible /\ asking /\ Layers(FALSE, pasting)
OpenPaste == visible /\ scheme # None /\ ~saving /\ ~asking /\ ~pasting /\ Layers(FALSE, TRUE)
CancelPaste == visible /\ pasting /\ ~asking /\ Layers(FALSE, FALSE)

-----------------------------------------------------------------------------
(* Edits.  While a request that saves is in flight an overlay covers the   *)
(* form; the dialogs cover it too.                                         *)

Edit(s, h, last) ==
  /\ visible /\ scheme # None /\ ~saving /\ ~asking
  /\ edits < MaxEdits /\ edits' = edits + 1
  /\ UNCHANGED <<visible, saving, success, asking, branches, others, saves, opened, opens>>
  /\ Settle(s, h, last, refs.snap)
  /\ waiting' = waiting \cup Asked(s)

(* handleTriggerOrTimeChange                                               *)
ToggleTrigger ==
  \E m, d \in BOOLEAN :
    /\ <<m, d>> # <<sheet.mr, sheet.daily>> /\ (m = sheet.mr \/ d = sheet.daily)
    /\ ~pasting /\ UNCHANGED pasting
    /\ Edit([scheme EXCEPT !.mr = m, !.daily = d], [sheet EXCEPT !.mr = m, !.daily = d], refs.attrs)

(* Mutant: the attributes are written from the previous build types.       *)
WithOldTypes(s, h) == [s EXCEPT !.attrs = [params |-> h.params, types |-> sheet.types, sel |-> None],
                                !.mr = h.mr, !.daily = h.daily]
(* updateCustomAttrs: buildParameters is written anew, so the selected     *)
(* branches are no longer among them; the switches are passed on.          *)
WithAttrs(s, h) == [s EXCEPT !.attrs = [params |-> h.params, types |-> h.types, sel |-> None],
                             !.mr = h.mr, !.daily = h.daily]
UpdateCustomAttrs(h) == LET s == WithAttrs(scheme, h) IN Edit(s, h, s.attrs)

BuildTypeChange ==
  \E c \in Codes :
    /\ ~pasting /\ UNCHANGED pasting
    /\ UpdateCustomAttrs([sheet EXCEPT !.types = IF c \in @ THEN @ \ {c} ELSE @ \cup {c}])
ParamsChange ==
  \E ps \in ParamLists \ {sheet.params} :
    ~pasting /\ UNCHANGED pasting /\ UpdateCustomAttrs([sheet EXCEPT !.params = ps])

(* handlePasteAttrs: a line build_type replaces the build types.           *)
PasteAttrs ==
  \E ps \in ParamLists, ts \in (SUBSET Codes) \cup {None} :
    /\ pasting /\ pasting' = FALSE
    /\ UpdateCustomAttrs([sheet EXCEPT !.params = ps, !.types = IF ts = None THEN @ ELSE ts])

(* Mutant: a selection that is recorded already is left as it is.          *)
SelectedOnce(attrs, bs) == IF Given(attrs).sel = None THEN [Given(attrs) EXCEPT !.sel = bs]
                           ELSE attrs
(* A change of the branches, by the boxes or in the text, also records     *)
(* them among the attributes.                                              *)
Selected(attrs, bs) == [Given(attrs) EXCEPT !.sel = bs]
BranchsChange(bs, h) ==
  LET s == [scheme EXCEPT !.branchs = bs, !.attrs = Selected(@, bs)]
  IN ~pasting /\ UNCHANGED pasting /\ Edit(s, h, s.attrs)
PickBranch ==
  \E b \in Branches :
    LET bs == IF b \in scheme.branchs THEN scheme.branchs \ {b} ELSE scheme.branchs \cup {b}
    IN /\ scheme # None /\ ~sheet.manual
       /\ b \in scheme.branchs \cup (IF branches = None THEN {} ELSE Branches \ Patterns)
       /\ BranchsChange(bs, [sheet EXCEPT !.text = bs])
TypeBranchs ==
  \E bs \in SUBSET Branches \ {sheet.text} :
    /\ scheme # None /\ sheet.manual
    /\ BranchsChange(bs, [sheet EXCEPT !.text = bs])

(* The box "type in": the text starts from the branches of the scheme.     *)
SetManual ==
  /\ scheme # None /\ ~pasting /\ UNCHANGED pasting
  /\ Edit(scheme, IF sheet.manual THEN [sheet EXCEPT !.manual = FALSE]
                  ELSE [sheet EXCEPT !.manual = TRUE, !.text = scheme.branchs],
          refs.attrs)

(* The group and the pipeline of a new scheme exclude each other.          *)
ChooseTarget ==
  \E t \in {"group", "pipe", None} :
    /\ scheme # None /\ scheme.id = None /\ t # scheme.target
    /\ ~pasting /\ UNCHANGED pasting
    /\ Edit([scheme EXCEPT !.target = t], sheet, refs.attrs)

(* isInheritedMode: the repository's other schemes fix the languages of a  *)
(* new one.                                                                *)
IsInherited == scheme.id = None /\ LangsOf[IF others = None THEN scheme.repo ELSE others] # {}
LanguagesChange ==
  \E l \in Langs :
    /\ scheme # None /\ ~IsInherited /\ ~pasting /\ UNCHANGED pasting
    /\ Edit([scheme EXCEPT !.langs = IF l \in @ THEN @ \ {l} ELSE @ \cup {l}], sheet, refs.attrs)

-----------------------------------------------------------------------------
(* Answers *)

(* The branches that arrive are shown whatever repository they are of.     *)
BranchesAnswer ==
  \E w \in waiting :
    /\ w.kind = "branches" /\ waiting' = waiting \ {w}
    /\ \E ok \in BOOLEAN : branches' = IF ok THEN w.repo ELSE None
    /\ UNCHANGED <<scheme, visible, saving, success, sheet, refs, dirty, asking, pasting,
                   others, saves, opened, edits, opens>>

(* The schemes of the repository give a new scheme its languages: the      *)
(* scheme becomes that of the render that asked, whatever it is by now.    *)
SchemesAnswer ==
  \E w \in waiting :
    LET s == [w.scheme EXCEPT !.langs = LangsOf[w.repo]] IN
    /\ w.kind = "schemes" /\ waiting' = waiting \ {w}
    /\ UNCHANGED <<visible, saving, success, asking, pasting, branches, saves, opened,
                   edits, opens>>
    /\ others' = w.repo
    /\ IF s.langs # {} /\ s # w.scheme
       THEN Settle(s, sheet, refs.attrs, Snapshot(s, w.sheet))
       ELSE UNCHANGED <<scheme, sheet, refs, dirty>>

-----------------------------------------------------------------------------
(* Saving *)

(* handleSubmit and then handleSaveScheme.  The button is disabled while   *)
(* saving and lies beneath the layers, but Enter submits beneath the       *)
(* dialog that asks and beneath the banner.                                *)
Valid ==
  /\ scheme.id # None \/ scheme.target # None
  /\ sheet.mr => scheme.branchs # {}
  /\ sheet.types # {}
  /\ refs.langs # {} => scheme.langs # {}
  /\ scheme.mr = TRUE => scheme.branchs # {}
Submit ==
  /\ visible /\ scheme # None /\ ~saving /\ ~pasting /\ edits < MaxEdits
  /\ Valid
  /\ saving' = TRUE /\ edits' = edits + 1
  /\ saves' = saves \cup {[n |-> edits, scheme |-> scheme, sheet |-> sheet]}
  /\ UNCHANGED <<scheme, visible, success, sheet, refs, dirty, asking, pasting, branches,
                 others, waiting, opened, opens>>

(* The answer ends the flag, and its banner is that of whichever scheme is *)
(* in the sheet.                                                           *)
SaveAnswer ==
  \E w \in saves, ok \in BOOLEAN :
    /\ saves' = saves \ {w} /\ saving' = FALSE
    /\ success' = (ok \/ success)
    /\ IF ok THEN dirty' = FALSE /\ opened' = Snapshot(w.scheme, w.sheet)
             ELSE UNCHANGED <<dirty, opened>>
    /\ UNCHANGED <<scheme, visible, sheet, refs, asking, pasting, branches, others, waiting,
                   edits, opens>>

Next ==
  \/ OpenNew \/ OpenRow \/ RequestClose \/ ConfirmDiscard \/ BannerDone
  \/ KeepEditing \/ OpenPaste \/ CancelPaste
  \/ ToggleTrigger \/ BuildTypeChange \/ ParamsChange \/ PasteAttrs
  \/ PickBranch \/ TypeBranchs \/ SetManual \/ ChooseTarget \/ LanguagesChange
  \/ BranchesAnswer \/ SchemesAnswer \/ Submit \/ SaveAnswer

Spec == Init /\ [][Next]_vars

-----------------------------------------------------------------------------
(* Properties *)

Schemes == [id: {None} \cup {r.id : r \in Rows}, repo: Repos, target: {"group", "pipe", None},
            branchs: SUBSET Branches, langs: SUBSET Langs, mr: BOOLEAN \cup {None},
            daily: BOOLEAN \cup {None}, attrs: Attrs \cup {None}]

(* What is given: the schemes of the list are schemes, in which the        *)
(* selection that is recorded is that of the branches, as the form itself  *)
(* writes it; and there is a branch that is no pattern.                    *)
Sensible ==
  /\ None \notin Schemes /\ None \notin Attrs /\ Rows \subseteq Schemes
  /\ \A s \in Rows : Given(s.attrs).sel \in {None, s.branchs}
  /\ LangsOf \in [Repos -> SUBSET Langs] /\ Branches \ Patterns # {}
  /\ Default \in Codes /\ NoParams \in ParamLists

(* The values of the variables: the scheme of App, the sheet's own state.  *)
TypeOK ==
  /\ scheme \in Schemes \cup {None} /\ sheet \in Sheet
  /\ {visible, saving, success, dirty, asking, pasting} \subseteq BOOLEAN
  /\ {branches, others} \subseteq Repos \cup {None}

(* One request that saves is in flight at a time, and the flag "saving"    *)
(* tells: nothing that closes and opens the sheet makes room for a second  *)
(* save that would overtake the first one on its way to the platform.      *)
OneSave == (saving <=> saves # {}) /\ \A v, w \in saves : v = w

(* What the sheet shows of an opened scheme is what App would send: the    *)
(* sheet's copies and the scheme agree after every edit, paste, answer and *)
(* reopening, though each edit writes both by hand.                        *)
FormIsShown ==
  visible /\ scheme # None /\ scheme.id # None =>
    /\ sheet.mr = scheme.mr /\ sheet.daily = scheme.daily
    /\ sheet.params = Given(scheme.attrs).params
    /\ sheet.types # {} => sheet.types = TypesOf(scheme.attrs)
    /\ sheet.manual => sheet.text = scheme.branchs
    /\ Given(scheme.attrs).sel \in {None, scheme.branchs}

(* The sheet never closes on changes that were not saved without asking,   *)
(* as the comment of handleRequestClose says.                              *)
UnsavedAsked ==
  [][visible /\ ~visible' /\ ~asking /\ ~success => Snapshot(scheme, sheet) = opened]_vars
=============================================================================
