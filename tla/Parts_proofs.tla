------------------------------ MODULE Parts_proofs -----------------------------
(***************************************************************************)
(* Theorems about the specification that the run of the parts checks: each *)
(* of its properties, for any values of the constants of all the pages.    *)
(*                                                                         *)
(* They are proved of a page where its module is extended or instantiated, *)
(* in Pages_proofs, Pipelines_proofs, Committers_proofs and                *)
(* Services_proofs.  Here these modules are instances for the variables of *)
(* Parts.  A lemma for each page says that its formulas, taken through     *)
(* Parts and through the instance, are the same; and since the parts that  *)
(* are not shown do not move, every behaviour of Parts is one of the page. *)
(***************************************************************************)
EXTENDS Parts, Services_proofs

PagesP == INSTANCE Pages_proofs
  WITH Repos <- CodeRepos, NoParams <- EmptyParams,
       Branches <- FormBranches, Rows <- SchemeRows, scheme <- sf_scheme,
       visible <- sf_visible, saving <- sf_saving, success <- sf_success, sheet <- sf_sheet,
       refs <- sf_refs, dirty <- sf_dirty, asking <- sf_asking, pasting <- sf_pasting, branches <- sf_branches,
       others <- sf_others, waiting <- sf_waiting, saves <- sf_saves, opened <- sf_opened,
       edits <- sf_edits, opens <- sf_opens,
       SchemeIds <- ListSchemes, stored <- rl_stored, hooks <- rl_hooks,
       url <- rl_url, search <- rl_search, searchTimer <- rl_searchTimer,
       result <- rl_result, loading <- rl_loading, expanded <- rl_expanded,
       repoSchemes <- rl_repoSchemes, fetching <- rl_fetching, running <- rl_running,
       status <- rl_status, registered <- rl_registered, calls <- rl_waiting,
       sent <- rl_sent,
       Names <- PanelNames, Initially <- PanelBranches,
       server <- rp_server, activeRepo <- rp_activeRepo,
       activeTab <- rp_activeTab, listed <- rp_branches, filter <- rp_filter,
       selected <- rp_selected, isAuditing <- rp_isAuditing, isCleaning <- rp_isCleaning,
       isCreating <- rp_isCreating, modal <- rp_modal, aclTarget <- rp_aclTarget,
       asked <- rp_waiting, clicks <- rp_sent,
       known <- mr_server,
       groups <- mr_groups, address <- mr_url, selectedGroup <- mr_selectedGroup,
       hasInitialized <- mr_hasInitialized, table <- mr_repos,
       showArchived <- mr_showArchived, isSyncingGroup <- mr_isSyncingGroup,
       unfolded <- mr_expanded, showHidden <- mr_showHidden, systemUsers <- mr_systemUsers,
       form <- mr_form, pending <- mr_waiting, turns <- mr_sent
PipelinesP == INSTANCE Pipelines_proofs
  WITH Names <- SchemeNames, Branches <- SchemeBranches, Initially <- SyncStore,
       MaxSent <- SyncSent, store <- ps_store,
       issued <- ps_issued, visible <- ps_visible, loading <- ps_loading, diff <- ps_diff,
       target <- ps_target, syncing <- ps_syncing, waiting <- ps_waiting, sent <- ps_sent,
       drifted <- ps_drifted,
       PageSent <- MaxSent, groups <- pp_groups,
       pipes <- pp_pipes, seen <- pp_seen, shownGroups <- pp_shownGroups,
       shownPipes <- pp_shownPipes,
       dialog <- pp_dialog, savingGroup <- pp_savingGroup, attaching <- pp_attaching,
       joining <- pp_joining, fetching <- pp_fetching, calls <- pp_waiting,
       clicks <- pp_sent, others <- pp_others
CommitterP == INSTANCE Committers_proofs
  WITH Ids <- CommitterIds, Names <- CommitterNames, MaxSent <- CommitterSent, rows <- co_rows,
       shown <- co_shown, view <- co_view, live <- co_live, form <- co_form,
       querying <- co_querying, detailQuerying <- co_detailQuerying,
       isSubmitting <- co_isSubmitting, waiting <- co_waiting, sent <- co_sent

-----------------------------------------------------------------------------
(* The form of a scheme *)

LEMMA FormSame ==
  /\ Form!Init = PagesP!Init
  /\ Form!Next = PagesP!Next
  /\ Form!Sensible = PagesP!Sensible
  /\ Form!TypeOK = PagesP!TypeOK
  /\ Form!OneSave = PagesP!OneSave
  /\ Form!FormIsShown = PagesP!FormIsShown
<1>1. Form!Init = PagesP!Init
  BY Zenon DEF Form!NoAttrs, PagesP!NoAttrs, Form!Init, PagesP!Init
<1>2. Form!Next = PagesP!Next
  <2>1. /\ Form!OpenNew = PagesP!OpenNew
        /\ Form!OpenRow = PagesP!OpenRow
    BY Zenon DEF Form!NoAttrs, PagesP!NoAttrs, Form!Given, PagesP!Given, Form!NewScheme,
       PagesP!NewScheme, Form!Snapshot, PagesP!Snapshot, Form!IsDirty, PagesP!IsDirty,
       Form!IsOn, PagesP!IsOn, Form!TypesOf, PagesP!TypesOf, Form!Inherited,
       PagesP!Inherited, Form!Filled, PagesP!Filled, Form!Copied, PagesP!Copied,
       Form!Retaken, PagesP!Retaken, Form!RenderWithEffect, PagesP!RenderWithEffect,
       Form!Render, PagesP!Render, Form!Settle, PagesP!Settle, Form!Asked, PagesP!Asked,
       Form!Open, PagesP!Open, Form!OpenNew, PagesP!OpenNew, Form!OpenRow,
       PagesP!OpenRow
  <2>2. /\ Form!RequestClose = PagesP!RequestClose
        /\ Form!ConfirmDiscard = PagesP!ConfirmDiscard
        /\ Form!BannerDone = PagesP!BannerDone
        /\ Form!KeepEditing = PagesP!KeepEditing
        /\ Form!OpenPaste = PagesP!OpenPaste
        /\ Form!CancelPaste = PagesP!CancelPaste
    BY Zenon DEF Form!StopSaving, PagesP!StopSaving, Form!Closed, PagesP!Closed,
       Form!RequestClose, PagesP!RequestClose, Form!ConfirmDiscard,
       PagesP!ConfirmDiscard, Form!BannerDone, PagesP!BannerDone, Form!Layers,
       PagesP!Layers, Form!KeepEditing, PagesP!KeepEditing, Form!OpenPaste,
       PagesP!OpenPaste, Form!CancelPaste, PagesP!CancelPaste
  <2>3. /\ Form!ToggleTrigger = PagesP!ToggleTrigger
        /\ Form!BuildTypeChange = PagesP!BuildTypeChange
        /\ Form!ParamsChange = PagesP!ParamsChange
        /\ Form!PasteAttrs = PagesP!PasteAttrs
    BY Zenon DEF Form!NoAttrs, PagesP!NoAttrs, Form!Given, PagesP!Given, Form!Snapshot,
       PagesP!Snapshot, Form!IsDirty, PagesP!IsDirty, Form!IsOn, PagesP!IsOn,
       Form!TypesOf, PagesP!TypesOf, Form!Inherited, PagesP!Inherited, Form!Filled,
       PagesP!Filled, Form!Copied, PagesP!Copied, Form!Retaken, PagesP!Retaken,
       Form!RenderWithEffect, PagesP!RenderWithEffect, Form!Render, PagesP!Render,
       Form!Settle, PagesP!Settle, Form!Asked, PagesP!Asked, Form!Edit, PagesP!Edit,
       Form!ToggleTrigger, PagesP!ToggleTrigger, Form!WithAttrs, PagesP!WithAttrs,
       Form!UpdateCustomAttrs, PagesP!UpdateCustomAttrs, Form!BuildTypeChange,
       PagesP!BuildTypeChange, Form!ParamsChange, PagesP!ParamsChange, Form!PasteAttrs,
       PagesP!PasteAttrs
  <2>4. /\ Form!PickBranch = PagesP!PickBranch
        /\ Form!TypeBranchs = PagesP!TypeBranchs
        /\ Form!SetManual = PagesP!SetManual
        /\ Form!ChooseTarget = PagesP!ChooseTarget
        /\ Form!LanguagesChange = PagesP!LanguagesChange
    BY Zenon DEF Form!NoAttrs, PagesP!NoAttrs, Form!Given, PagesP!Given, Form!Snapshot,
       PagesP!Snapshot, Form!IsDirty, PagesP!IsDirty, Form!IsOn, PagesP!IsOn,
       Form!TypesOf, PagesP!TypesOf, Form!Inherited, PagesP!Inherited, Form!Filled,
       PagesP!Filled, Form!Copied, PagesP!Copied, Form!Retaken, PagesP!Retaken,
       Form!RenderWithEffect, PagesP!RenderWithEffect, Form!Render, PagesP!Render,
       Form!Settle, PagesP!Settle, Form!Asked, PagesP!Asked, Form!Edit, PagesP!Edit,
       Form!Selected, PagesP!Selected, Form!BranchsChange, PagesP!BranchsChange,
       Form!PickBranch, PagesP!PickBranch, Form!TypeBranchs, PagesP!TypeBranchs,
       Form!SetManual, PagesP!SetManual, Form!ChooseTarget, PagesP!ChooseTarget,
       Form!IsInherited, PagesP!IsInherited, Form!LanguagesChange,
       PagesP!LanguagesChange
  <2>5. /\ Form!BranchesAnswer = PagesP!BranchesAnswer
        /\ Form!SchemesAnswer = PagesP!SchemesAnswer
        /\ Form!Submit = PagesP!Submit
        /\ Form!SaveAnswer = PagesP!SaveAnswer
    BY Zenon DEF Form!NoAttrs, PagesP!NoAttrs, Form!Given, PagesP!Given, Form!Snapshot,
       PagesP!Snapshot, Form!IsDirty, PagesP!IsDirty, Form!IsOn, PagesP!IsOn,
       Form!TypesOf, PagesP!TypesOf, Form!Inherited, PagesP!Inherited, Form!Filled,
       PagesP!Filled, Form!Copied, PagesP!Copied, Form!Retaken, PagesP!Retaken,
       Form!RenderWithEffect, PagesP!RenderWithEffect, Form!Render, PagesP!Render,
       Form!Settle, PagesP!Settle, Form!BranchesAnswer, PagesP!BranchesAnswer,
       Form!SchemesAnswer, PagesP!SchemesAnswer, Form!Valid, PagesP!Valid, Form!Submit,
       PagesP!Submit, Form!SaveAnswer, PagesP!SaveAnswer
  <2>6. QED BY <2>1, <2>2, <2>3, <2>4, <2>5, Zenon DEF Form!Next, PagesP!Next
<1>3. Form!Sensible = PagesP!Sensible
  BY Zenon DEF Form!Attrs, PagesP!Attrs, Form!NoAttrs, PagesP!NoAttrs, Form!Given,
     PagesP!Given, Form!Schemes, PagesP!Schemes, Form!Sensible, PagesP!Sensible
<1>4. Form!TypeOK = PagesP!TypeOK
  BY Zenon DEF Form!Attrs, PagesP!Attrs, Form!Sheet, PagesP!Sheet, Form!Schemes,
     PagesP!Schemes, Form!TypeOK, PagesP!TypeOK
<1>5. Form!OneSave = PagesP!OneSave
  BY Zenon DEF Form!OneSave, PagesP!OneSave
<1>6. Form!FormIsShown = PagesP!FormIsShown
  BY Zenon DEF Form!NoAttrs, PagesP!NoAttrs, Form!Given, PagesP!Given, Form!TypesOf,
     PagesP!TypesOf, Form!FormIsShown, PagesP!FormIsShown
<1>7. QED BY <1>1, <1>2, <1>3, <1>4, <1>5, <1>6

LEMMA FormBehaves == PartsSpec => PagesP!Spec
<1>1. PartsInit => PagesP!Init BY FormSame DEF PartsInit
<1>2. [PartsNext]_partsVars => [PagesP!Next]_(PagesP!vars)
  <2>1. UNCHANGED sf_vars => UNCHANGED Form!vars
    BY DEF sf_vars, Form!vars
  <2>2. [PartsNext]_partsVars => [Form!Next]_(Form!vars) BY <2>1 DEF PartsNext, partsVars
  <2>3. Form!Next = PagesP!Next BY FormSame
  <2>4. QED BY <2>2, <2>3 DEF Form!vars, PagesP!vars
<1>3. QED BY <1>1, <1>2, PTL DEF PartsSpec, PagesP!Spec

LEMMA FormTypes == PartsSpec => []Form!TypeOK
<1>1. PagesP!Sensible BY PartsAssumption, FormSame
<1>2. PagesP!Spec => []PagesP!TypeOK BY <1>1, PagesP!FormTypeCorrect
<1>3. PagesP!TypeOK => Form!TypeOK BY FormSame
<1>4. QED BY <1>2, <1>3, FormBehaves, PTL

(* The form makes one save at a time.                                      *)
THEOREM FormSavesOnce == PartsSpec => []OneSave
<1>1. PagesP!Sensible BY PartsAssumption, FormSame
<1>2. PagesP!Spec => []PagesP!OneSave BY <1>1, PagesP!OneSaveEver
<1>3. PagesP!OneSave => OneSave BY FormSame DEF OneSave
<1>4. QED BY <1>2, <1>3, FormBehaves, PTL

(* An open form shows what it would send.                                  *)
THEOREM FormShowsWhatItSends == PartsSpec => []FormIsShown
<1>1. PagesP!Sensible BY PartsAssumption, FormSame
<1>2. PagesP!Spec => []PagesP!FormIsShown BY <1>1, PagesP!FormShownEver
<1>3. PagesP!FormIsShown => FormIsShown BY FormSame DEF FormIsShown
<1>4. QED BY <1>2, <1>3, FormBehaves, PTL

-----------------------------------------------------------------------------
(* The panel of a repository *)

LEMMA PanelSame ==
  /\ Panel!Init = PagesP!Panel!Init
  /\ Panel!Next = PagesP!Panel!Next
  /\ Panel!Sensible = PagesP!Panel!Sensible
  /\ Panel!TypeOK = PagesP!Panel!TypeOK
<1>1. Panel!Init = PagesP!Panel!Init
  BY Zenon DEF Panel!Init, PagesP!Panel!Init
<1>2. Panel!Next = PagesP!Panel!Next
  BY Zenon DEF Panel!Statuses, PagesP!Panel!Statuses, Panel!Present,
     PagesP!Panel!Present, Panel!Listed, PagesP!Panel!Listed, Panel!Named,
     PagesP!Panel!Named, Panel!Stale, PagesP!Panel!Stale, Panel!List, PagesP!Panel!List,
     Panel!Click, PagesP!Panel!Click, Panel!OpenPanel, PagesP!Panel!OpenPanel,
     Panel!ClosePanel, PagesP!Panel!ClosePanel, Panel!ShowTab, PagesP!Panel!ShowTab,
     Panel!ShowModal, PagesP!Panel!ShowModal, Panel!Looking, PagesP!Panel!Looking,
     Panel!ChooseFilter, PagesP!Panel!ChooseFilter, Panel!ToggleSelectBranch,
     PagesP!Panel!ToggleSelectBranch, Panel!ToggleSelectAll,
     PagesP!Panel!ToggleSelectAll, Panel!Send, PagesP!Panel!Send, Panel!TriggerAudit,
     PagesP!Panel!TriggerAudit, Panel!NeedsTyping, PagesP!Panel!NeedsTyping,
     Panel!CleanUp, PagesP!Panel!CleanUp, Panel!CleanUpMerged,
     PagesP!Panel!CleanUpMerged, Panel!CleanUpSelected, PagesP!Panel!CleanUpSelected,
     Panel!CleanUpOne, PagesP!Panel!CleanUpOne, Panel!NotifyOwner,
     PagesP!Panel!NotifyOwner, Panel!CreateBranch, PagesP!Panel!CreateBranch,
     Panel!AddAcl, PagesP!Panel!AddAcl, Panel!ListAnswer, PagesP!Panel!ListAnswer,
     Panel!Again, PagesP!Panel!Again, Panel!AuditAnswer, PagesP!Panel!AuditAnswer,
     Panel!CleanAnswer, PagesP!Panel!CleanAnswer, Panel!CreateAnswer,
     PagesP!Panel!CreateAnswer, Panel!AclAnswer, PagesP!Panel!AclAnswer,
     Panel!NotifyAnswer, PagesP!Panel!NotifyAnswer, Panel!Next, PagesP!Panel!Next
<1>3. Panel!Sensible = PagesP!Panel!Sensible
  BY Zenon DEF Panel!Statuses, PagesP!Panel!Statuses, Panel!Sensible,
     PagesP!Panel!Sensible
<1>4. Panel!TypeOK = PagesP!Panel!TypeOK
  BY Zenon DEF Panel!Statuses, PagesP!Panel!Statuses, Panel!TypeOK, PagesP!Panel!TypeOK
<1>5. QED BY <1>1, <1>2, <1>3, <1>4

LEMMA PanelBehaves == PartsSpec => PagesP!Panel!Spec
<1>1. PartsInit => PagesP!Panel!Init BY PanelSame DEF PartsInit
<1>2. [PartsNext]_partsVars => [PagesP!Panel!Next]_(PagesP!Panel!vars)
  <2>1. UNCHANGED rp_vars => UNCHANGED Panel!vars
    BY DEF rp_vars, Panel!vars
  <2>2. [PartsNext]_partsVars => [Panel!Next]_(Panel!vars) BY <2>1 DEF PartsNext, partsVars
  <2>3. Panel!Next = PagesP!Panel!Next BY PanelSame
  <2>4. QED BY <2>2, <2>3 DEF Panel!vars, PagesP!Panel!vars
<1>3. QED BY <1>1, <1>2, PTL DEF PartsSpec, PagesP!Panel!Spec

LEMMA PanelTypes == PartsSpec => []Panel!TypeOK
<1>1. PagesP!Panel!Sensible BY PartsAssumption, PanelSame
<1>2. PagesP!Panel!Spec => []PagesP!Panel!TypeOK BY <1>1, PagesP!PanelTypeCorrect
<1>3. PagesP!Panel!TypeOK => Panel!TypeOK BY PanelSame
<1>4. QED BY <1>2, <1>3, PanelBehaves, PTL

(* The panel makes one audit, one clean-up and one creation at a time,     *)
(* whichever repositories' panels are opened meanwhile.                    *)
THEOREM PanelCallsOnce == PartsSpec => OnePanelCall
<1>1. PagesP!Panel!Spec => PagesP!Panel!OnePanelCall BY PagesP!OneCallPerButton
<1>2. /\ PagesP!Panel!Auditing!Init => Panel!Auditing!Init
      /\ [PagesP!Panel!Auditing!Next]_<<rp_isAuditing, PagesP!Panel!Calls("audit")>> =>
           [Panel!Auditing!Next]_<<rp_isAuditing, Panel!Calls("audit")>>
  BY Zenon DEF Panel!Auditing!Init, PagesP!Panel!Auditing!Init, Panel!Auditing!Next,
     PagesP!Panel!Auditing!Next, Panel!Auditing!Start, PagesP!Panel!Auditing!Start,
     Panel!Auditing!End, PagesP!Panel!Auditing!End, Panel!Calls, PagesP!Panel!Calls
<1>3. /\ PagesP!Panel!Cleaning!Init => Panel!Cleaning!Init
      /\ [PagesP!Panel!Cleaning!Next]_<<rp_isCleaning, PagesP!Panel!Calls("clean")>> =>
           [Panel!Cleaning!Next]_<<rp_isCleaning, Panel!Calls("clean")>>
  BY Zenon DEF Panel!Cleaning!Init, PagesP!Panel!Cleaning!Init, Panel!Cleaning!Next,
     PagesP!Panel!Cleaning!Next, Panel!Cleaning!Start, PagesP!Panel!Cleaning!Start,
     Panel!Cleaning!End, PagesP!Panel!Cleaning!End, Panel!Calls, PagesP!Panel!Calls
<1>4. /\ PagesP!Panel!Creating!Init => Panel!Creating!Init
      /\ [PagesP!Panel!Creating!Next]_<<rp_isCreating, PagesP!Panel!Calls("create")>> =>
           [Panel!Creating!Next]_<<rp_isCreating, Panel!Calls("create")>>
  BY Zenon DEF Panel!Creating!Init, PagesP!Panel!Creating!Init, Panel!Creating!Next,
     PagesP!Panel!Creating!Next, Panel!Creating!Start, PagesP!Panel!Creating!Start,
     Panel!Creating!End, PagesP!Panel!Creating!End, Panel!Calls, PagesP!Panel!Calls
<1>5. QED BY <1>1, <1>2, <1>3, <1>4, PanelBehaves, PTL
         DEF OnePanelCall, Panel!OnePanelCall, PagesP!Panel!OnePanelCall,
             Panel!Auditing!Spec, PagesP!Panel!Auditing!Spec, Panel!Cleaning!Spec,
             PagesP!Panel!Cleaning!Spec, Panel!Creating!Spec, PagesP!Panel!Creating!Spec

-----------------------------------------------------------------------------
(* The tree of the groups *)

LEMMA TreeSame ==
  /\ Tree!Init = PagesP!Tree!Init
  /\ Tree!Next = PagesP!Tree!Next
  /\ Tree!Sensible = PagesP!Tree!Sensible
  /\ Tree!TypeOK = PagesP!Tree!TypeOK
  /\ Tree!SelectedFollowsUrl = PagesP!Tree!SelectedFollowsUrl
  /\ Tree!Forest = PagesP!Tree!Forest
  /\ Tree!TreeListed = PagesP!Tree!TreeListed
<1>1. Tree!Init = PagesP!Tree!Init
  BY Zenon DEF Tree!Nothing, PagesP!Tree!Nothing, Tree!Repos, PagesP!Tree!Repos,
     Tree!Init, PagesP!Tree!Init
<1>2. Tree!Next = PagesP!Tree!Next
  BY Zenon DEF Tree!side, PagesP!Tree!side, Tree!Ancestors, PagesP!Tree!Ancestors,
     Tree!With, PagesP!Tree!With, Tree!Below, PagesP!Tree!Below,
     Tree!IsAnyAncestorHidden, PagesP!Tree!IsAnyAncestorHidden, Tree!IsGroupVisible,
     PagesP!Tree!IsGroupVisible, Tree!Shown, PagesP!Tree!Shown, Tree!Offered,
     PagesP!Tree!Offered, Tree!Nothing, PagesP!Tree!Nothing, Tree!Repos,
     PagesP!Tree!Repos, Tree!Chosen, PagesP!Tree!Chosen, Tree!Fetched,
     PagesP!Tree!Fetched, Tree!WithEffect, PagesP!Tree!WithEffect, Tree!SelId,
     PagesP!Tree!SelId, Tree!Click, PagesP!Tree!Click, Tree!HandleGroupSelect,
     PagesP!Tree!HandleGroupSelect, Tree!ToggleGroupExpand,
     PagesP!Tree!ToggleGroupExpand, Tree!ToggleShowHidden, PagesP!Tree!ToggleShowHidden,
     Tree!ToggleShowArchived, PagesP!Tree!ToggleShowArchived, Tree!Send,
     PagesP!Tree!Send, Tree!Here, PagesP!Tree!Here, Tree!HandleDeleteGroup,
     PagesP!Tree!HandleDeleteGroup, Tree!HandleToggleGroupHide,
     PagesP!Tree!HandleToggleGroupHide, Tree!HandleSyncGroup,
     PagesP!Tree!HandleSyncGroup, Tree!HandleToggleRepoArchive,
     PagesP!Tree!HandleToggleRepoArchive, Tree!Form, PagesP!Tree!Form, Tree!ImportForm,
     PagesP!Tree!ImportForm, Tree!OpenGroupForm, PagesP!Tree!OpenGroupForm,
     Tree!OpenRepoForm, PagesP!Tree!OpenRepoForm, Tree!CloseForm, PagesP!Tree!CloseForm,
     Tree!IsRepoForm, PagesP!Tree!IsRepoForm, Tree!WithDept, PagesP!Tree!WithDept,
     Tree!ChooseOwner, PagesP!Tree!ChooseOwner, Tree!ChooseDept, PagesP!Tree!ChooseDept,
     Tree!ChooseGroup, PagesP!Tree!ChooseGroup, Tree!Submit, PagesP!Tree!Submit,
     Tree!HandleCreateGroup, PagesP!Tree!HandleCreateGroup, Tree!HandleCreateRepo,
     PagesP!Tree!HandleCreateRepo, Tree!Later, PagesP!Tree!Later, Tree!GroupsAnswer,
     PagesP!Tree!GroupsAnswer, Tree!OptionsAnswer, PagesP!Tree!OptionsAnswer,
     Tree!ReposAnswer, PagesP!Tree!ReposAnswer, Tree!HideAnswer, PagesP!Tree!HideAnswer,
     Tree!DeleteAnswer, PagesP!Tree!DeleteAnswer, Tree!SyncAnswer,
     PagesP!Tree!SyncAnswer, Tree!ArchiveAnswer, PagesP!Tree!ArchiveAnswer,
     Tree!ImportAnswer, PagesP!Tree!ImportAnswer, Tree!AskAnswer, PagesP!Tree!AskAnswer,
     Tree!Others, PagesP!Tree!Others, Tree!Next, PagesP!Tree!Next
<1>3. Tree!Sensible = PagesP!Tree!Sensible
  BY Zenon DEF Tree!Sensible, PagesP!Tree!Sensible
<1>4. Tree!TypeOK = PagesP!Tree!TypeOK
  BY Zenon DEF Tree!TypeOK, PagesP!Tree!TypeOK
<1>5. Tree!SelectedFollowsUrl = PagesP!Tree!SelectedFollowsUrl
  BY Zenon DEF Tree!SelectedFollowsUrl, PagesP!Tree!SelectedFollowsUrl
<1>6. Tree!Forest = PagesP!Tree!Forest
  BY Zenon DEF Tree!Forest, PagesP!Tree!Forest, Tree!IsFiniteSet, PagesP!Tree!IsFiniteSet,
     Tree!Cardinality, PagesP!Tree!Cardinality
<1>7. Tree!TreeListed = PagesP!Tree!TreeListed
  BY Zenon DEF Tree!TreeListed, PagesP!Tree!TreeListed, Tree!SortGroupsAsTree,
     PagesP!Tree!SortGroupsAsTree, Tree!ForEach, PagesP!Tree!ForEach, Tree!Children,
     PagesP!Tree!Children, Tree!Roots, PagesP!Tree!Roots, Tree!ByName,
     PagesP!Tree!ByName, Tree!Ancestors, PagesP!Tree!Ancestors, Tree!FlattenSeq,
     PagesP!Tree!FlattenSeq, Tree!ToSet, PagesP!Tree!ToSet, Tree!Cardinality,
     PagesP!Tree!Cardinality
<1>8. QED BY <1>1, <1>2, <1>3, <1>4, <1>5, <1>6, <1>7

LEMMA TreeBehaves == PartsSpec => PagesP!Tree!Spec
<1>1. PartsInit => PagesP!Tree!Init BY TreeSame DEF PartsInit
<1>2. [PartsNext]_partsVars => [PagesP!Tree!Next]_(PagesP!Tree!vars)
  <2>1. UNCHANGED mr_vars => UNCHANGED Tree!vars
    BY DEF mr_vars, Tree!vars
  <2>2. [PartsNext]_partsVars => [Tree!Next]_(Tree!vars) BY <2>1 DEF PartsNext, partsVars
  <2>3. Tree!Next = PagesP!Tree!Next BY TreeSame
  <2>4. QED BY <2>2, <2>3 DEF Tree!vars, PagesP!Tree!vars
<1>3. QED BY <1>1, <1>2, PTL DEF PartsSpec, PagesP!Tree!Spec

LEMMA TreeTypes == PartsSpec => []Tree!TypeOK
<1>1. PagesP!Tree!Sensible BY PartsAssumption, TreeSame
<1>2. PagesP!Tree!Spec => []PagesP!Tree!TypeOK BY <1>1, PagesP!TreeTypeCorrect
<1>3. PagesP!Tree!TypeOK => Tree!TypeOK BY TreeSame
<1>4. QED BY <1>2, <1>3, TreeBehaves, PTL

(* The selected group of the sidebar is the one of the address.            *)
THEOREM SelectionIsAddress == PartsSpec => []SelectedFollowsUrl
<1>1. PagesP!Tree!Sensible BY PartsAssumption, TreeSame
<1>2. PagesP!Tree!Spec => []PagesP!Tree!SelectedFollowsUrl BY <1>1, PagesP!SelectedFollowsUrlEver
<1>3. PagesP!Tree!SelectedFollowsUrl => SelectedFollowsUrl BY TreeSame DEF SelectedFollowsUrl
<1>4. QED BY <1>2, <1>3, TreeBehaves, PTL

(* The sidebar lists every group once, before those below it and with no   *)
(* other between.                                                          *)
THEOREM GroupsInPlace == PartsSpec => []TreeListed
<1>1. PagesP!Tree!Sensible /\ PagesP!Tree!Forest BY PartsAssumption, TreeSame
<1>2. PagesP!Tree!Spec => []PagesP!Tree!TreeListed BY <1>1, PagesP!TreeListedEver
<1>3. PagesP!Tree!TreeListed => TreeListed BY TreeSame DEF TreeListed
<1>4. QED BY <1>2, <1>3, TreeBehaves, PTL

-----------------------------------------------------------------------------
(* The differences of a pipeline's schemes *)

LEMMA SyncSame ==
  /\ Sync!Init = PipelinesP!Init
  /\ Sync!Next = PipelinesP!Next
  /\ Sync!Sensible = PipelinesP!Sensible
  /\ Sync!TypeOK = PipelinesP!TypeOK
  /\ Sync!OneItem = PipelinesP!OneItem
  /\ Sync!OwnPipeline = PipelinesP!OwnPipeline
  /\ Sync!PullSettles = PipelinesP!PullSettles
<1>1. Sync!Init = PipelinesP!Init
  BY Zenon DEF Sync!Nil, PipelinesP!Nil, Sync!Ids, PipelinesP!Ids, Sync!Init,
     PipelinesP!Init
<1>2. Sync!Next = PipelinesP!Next
  BY SMT DEF Sync!Nil, PipelinesP!Nil, Sync!Categories, PipelinesP!Categories,
     Sync!Lowest, PipelinesP!Lowest, Sync!Latest, PipelinesP!Latest, Sync!View,
     PipelinesP!View, Sync!Views, PipelinesP!Views, Sync!RowsOf, PipelinesP!RowsOf,
     Sync!Matching, PipelinesP!Matching, Sync!Changes, PipelinesP!Changes, Sync!Updates,
     PipelinesP!Updates, Sync!Additions, PipelinesP!Additions, Sync!Surplus,
     PipelinesP!Surplus, Sync!Differences, PipelinesP!Differences, Sync!With,
     PipelinesP!With, Sync!WithRemote, PipelinesP!WithRemote, Sync!Pulled,
     PipelinesP!Pulled, Sync!RowFrom, PipelinesP!RowFrom, Sync!PullAdd,
     PipelinesP!PullAdd, Sync!PullDelete, PipelinesP!PullDelete, Sync!PullUpdate,
     PipelinesP!PullUpdate, Sync!DeleteRemote, PipelinesP!DeleteRemote, Sync!PlanIds,
     PipelinesP!PlanIds, Sync!Created, PipelinesP!Created, Sync!PushCreate,
     PipelinesP!PushCreate, Sync!RolledBack, PipelinesP!RolledBack, Sync!Pushed, PipelinesP!Pushed, Sync!Home, PipelinesP!Home,
     Sync!Written, PipelinesP!Written, Sync!PushBinding, PipelinesP!PushBinding,
     Sync!WithPlan, PipelinesP!WithPlan, Sync!PushPlan, PipelinesP!PushPlan, Sync!PushScheme, PipelinesP!PushScheme,
     Sync!Push, PipelinesP!Push, Sync!Carried, PipelinesP!Carried, Sync!Trigger,
     PipelinesP!Trigger, Sync!Click, PipelinesP!Click, Sync!OpenDiff,
     PipelinesP!OpenDiff, Sync!RefreshDiff, PipelinesP!RefreshDiff, Sync!CloseDiff,
     PipelinesP!CloseDiff, Sync!Calculate, PipelinesP!Calculate, Sync!DiffAnswer,
     PipelinesP!DiffAnswer, Sync!DiffRefused, PipelinesP!DiffRefused, Sync!ItemPipe,
     PipelinesP!ItemPipe, Sync!NoData, PipelinesP!NoData, Sync!Item, PipelinesP!Item,
     Sync!UpdateItems, PipelinesP!UpdateItems, Sync!AddItems, PipelinesP!AddItems,
     Sync!DeleteItems, PipelinesP!DeleteItems, Sync!Ask, PipelinesP!Ask, Sync!Enabled,
     PipelinesP!Enabled, Sync!CanSync, PipelinesP!CanSync, Sync!SyncItem,
     PipelinesP!SyncItem, Sync!ItemDone, PipelinesP!ItemDone, Sync!CreateRolledBack,
     PipelinesP!CreateRolledBack, Sync!ItemFailed, PipelinesP!ItemFailed, Sync!Drift,
     PipelinesP!Drift, Sync!ConsoleChange, PipelinesP!ConsoleChange, Sync!RowChange,
     PipelinesP!RowChange, Sync!Elsewhere, PipelinesP!Elsewhere, Sync!Next,
     PipelinesP!Next
<1>3. Sync!Sensible = PipelinesP!Sensible
  BY Zenon DEF Sync!Nil, PipelinesP!Nil, Sync!Ids, PipelinesP!Ids, Sync!Row,
     PipelinesP!Row, Sync!Binding, PipelinesP!Binding, Sync!Plan, PipelinesP!Plan,
     Sync!Scheme, PipelinesP!Scheme, Sync!Typed, PipelinesP!Typed, Sync!Keyed,
     PipelinesP!Keyed, Sync!Sensible, PipelinesP!Sensible
<1>4. Sync!TypeOK = PipelinesP!TypeOK
  BY Zenon DEF Sync!Nil, PipelinesP!Nil, Sync!Ids, PipelinesP!Ids, Sync!Row,
     PipelinesP!Row, Sync!TypeOK, PipelinesP!TypeOK
<1>5. Sync!OneItem = PipelinesP!OneItem
  BY Zenon DEF Sync!Carrying, PipelinesP!Carrying, Sync!OneItem, PipelinesP!OneItem
<1>6. Sync!OwnPipeline = PipelinesP!OwnPipeline
  BY Zenon DEF Sync!OwnPipeline, PipelinesP!OwnPipeline
<1>7. Sync!PullSettles = PipelinesP!PullSettles
  BY SMT DEF Sync!Nil, PipelinesP!Nil, Sync!Categories, PipelinesP!Categories,
     Sync!Lowest, PipelinesP!Lowest, Sync!Latest, PipelinesP!Latest, Sync!View,
     PipelinesP!View, Sync!Views, PipelinesP!Views, Sync!RowsOf, PipelinesP!RowsOf,
     Sync!Matching, PipelinesP!Matching, Sync!Changes, PipelinesP!Changes, Sync!Updates,
     PipelinesP!Updates, Sync!Additions, PipelinesP!Additions, Sync!With,
     PipelinesP!With, Sync!Pulled, PipelinesP!Pulled, Sync!RowFrom, PipelinesP!RowFrom,
     Sync!PullAdd, PipelinesP!PullAdd, Sync!PullUpdate, PipelinesP!PullUpdate,
     Sync!Differing, PipelinesP!Differing, Sync!PullSettles, PipelinesP!PullSettles
<1>8. QED BY <1>1, <1>2, <1>3, <1>4, <1>5, <1>6, <1>7

LEMMA SyncBehaves == PartsSpec => PipelinesP!Spec
<1>1. PartsInit => PipelinesP!Init BY SyncSame DEF PartsInit
<1>2. [PartsNext]_partsVars => [PipelinesP!Next]_(PipelinesP!vars)
  <2>1. UNCHANGED ps_vars => UNCHANGED Sync!vars
    BY DEF ps_vars, Sync!vars
  <2>2. [PartsNext]_partsVars => [Sync!Next]_(Sync!vars) BY <2>1 DEF PartsNext, partsVars
  <2>3. Sync!Next = PipelinesP!Next BY SyncSame
  <2>4. QED BY <2>2, <2>3 DEF Sync!vars, PipelinesP!vars
<1>3. QED BY <1>1, <1>2, PTL DEF PartsSpec, PipelinesP!Spec

LEMMA SyncTypes == PartsSpec => []Sync!TypeOK
<1>1. PipelinesP!Sensible BY PartsAssumption, SyncSame
<1>2. PipelinesP!Spec => []PipelinesP!TypeOK BY <1>1, PipelinesP!TypeCorrect
<1>3. PipelinesP!TypeOK => Sync!TypeOK BY SyncSame
<1>4. QED BY <1>2, <1>3, SyncBehaves, PTL

(* One item of the differences is settled at a time.                       *)
THEOREM ItemsOneByOne == PartsSpec => []OneItem
<1>1. PipelinesP!Spec => []PipelinesP!OneItem BY PipelinesP!OneItemAtATime
<1>2. PipelinesP!OneItem => OneItem BY SyncSame DEF OneItem
<1>3. QED BY <1>1, <1>2, SyncBehaves, PTL

(* No row names a remote scheme of another pipeline.                       *)
THEOREM RowsOwnTheirs == PartsSpec => []OwnPipeline
<1>1. PipelinesP!Sensible BY PartsAssumption, SyncSame
<1>2. PipelinesP!Spec => []PipelinesP!OwnPipeline BY <1>1, PipelinesP!OwnPipelineOnly
<1>3. PipelinesP!OwnPipeline => OwnPipeline BY SyncSame DEF OwnPipeline
<1>4. QED BY <1>2, <1>3, SyncBehaves, PTL

(* A confirmed item that is pulled is a difference no more.                *)
THEOREM PulledIsSettled == PartsSpec => []PullSettles
<1>1. PipelinesP!Sensible BY PartsAssumption, SyncSame
<1>2. PipelinesP!Spec => []PipelinesP!PullSettles BY <1>1, PipelinesP!PulledSettles
<1>3. PipelinesP!PullSettles => PullSettles BY SyncSame DEF PullSettles
<1>4. QED BY <1>2, <1>3, SyncBehaves, PTL

-----------------------------------------------------------------------------
(* The pipelines and their groups *)

LEMMA PipelinesSame ==
  /\ Pipelines!Init = PipelinesP!Page!Init
  /\ Pipelines!Next = PipelinesP!Page!Next
  /\ Pipelines!Sensible = PipelinesP!Page!Sensible
  /\ Pipelines!TypeOK = PipelinesP!Page!TypeOK
<1>1. Pipelines!Init = PipelinesP!Page!Init
  BY Zenon DEF Pipelines!Dialog, PipelinesP!Page!Dialog, Pipelines!Closed,
     PipelinesP!Page!Closed, Pipelines!Init, PipelinesP!Page!Init
<1>2. Pipelines!Next = PipelinesP!Page!Next
  BY Zenon DEF Pipelines!tables, PipelinesP!Page!tables, Pipelines!server,
     PipelinesP!Page!server, Pipelines!ReadBy, PipelinesP!Page!ReadBy, Pipelines!Found,
     PipelinesP!Page!Found, Pipelines!Read, PipelinesP!Page!Read, Pipelines!GroupKept,
     PipelinesP!Page!GroupKept, Pipelines!PipelineCreated,
     PipelinesP!Page!PipelineCreated, Pipelines!shown,
     PipelinesP!Page!shown, Pipelines!flags, PipelinesP!Page!flags, Pipelines!Dialog,
     PipelinesP!Page!Dialog, Pipelines!Closed, PipelinesP!Page!Closed,
     Pipelines!Looking, PipelinesP!Page!Looking, Pipelines!Send, PipelinesP!Page!Send,
     Pipelines!Lists, PipelinesP!Page!Lists, Pipelines!Show, PipelinesP!Page!Show,
     Pipelines!EditGroup, PipelinesP!Page!EditGroup, Pipelines!OpenAttach,
     PipelinesP!Page!OpenAttach, Pipelines!OpenJoin, PipelinesP!Page!OpenJoin,
     Pipelines!EditPipeline, PipelinesP!Page!EditPipeline, Pipelines!AddPipeline,
     PipelinesP!Page!AddPipeline, Pipelines!Tick, PipelinesP!Page!Tick,
     Pipelines!ChooseGroup, PipelinesP!Page!ChooseGroup, Pipelines!Close,
     PipelinesP!Page!Close, Pipelines!MaySaveGroup, PipelinesP!Page!MaySaveGroup,
     Pipelines!SaveGroup, PipelinesP!Page!SaveGroup, Pipelines!ConfirmAttach,
     PipelinesP!Page!ConfirmAttach, Pipelines!ConfirmJoin, PipelinesP!Page!ConfirmJoin,
     Pipelines!DeleteGroup, PipelinesP!Page!DeleteGroup, Pipelines!Detach,
     PipelinesP!Page!Detach, Pipelines!DeletePipeline, PipelinesP!Page!DeletePipeline,
     Pipelines!FetchInfo, PipelinesP!Page!FetchInfo, Pipelines!SavePipeline,
     PipelinesP!Page!SavePipeline, Pipelines!Refreshed, PipelinesP!Page!Refreshed,
     Pipelines!CloseIf, PipelinesP!Page!CloseIf, Pipelines!Moved, PipelinesP!Page!Moved,
     Pipelines!Refused, PipelinesP!Page!Refused, Pipelines!GroupsAnswer,
     PipelinesP!Page!GroupsAnswer, Pipelines!PipesAnswer, PipelinesP!Page!PipesAnswer,
     Pipelines!GroupSaved, PipelinesP!Page!GroupSaved, Pipelines!GroupDeleted,
     PipelinesP!Page!GroupDeleted, Pipelines!Attached, PipelinesP!Page!Attached,
     Pipelines!Joined, PipelinesP!Page!Joined, Pipelines!Members,
     PipelinesP!Page!Members, Pipelines!Detached, PipelinesP!Page!Detached,
     Pipelines!PipelineSaved, PipelinesP!Page!PipelineSaved, Pipelines!PipelineDeleted,
     PipelinesP!Page!PipelineDeleted, Pipelines!InfoAnswer, PipelinesP!Page!InfoAnswer,
     Pipelines!MovedElsewhere, PipelinesP!Page!MovedElsewhere, Pipelines!Next,
     PipelinesP!Page!Next
<1>3. Pipelines!Sensible = PipelinesP!Page!Sensible
  BY Zenon DEF Pipelines!Sensible, PipelinesP!Page!Sensible
<1>4. Pipelines!TypeOK = PipelinesP!Page!TypeOK
  BY Zenon DEF Pipelines!Pipe, PipelinesP!Page!Pipe, Pipelines!TypeOK,
     PipelinesP!Page!TypeOK
<1>5. QED BY <1>1, <1>2, <1>3, <1>4

LEMMA PipelinesBehaves == PartsSpec => PipelinesP!Page!Spec
<1>1. PartsInit => PipelinesP!Page!Init BY PipelinesSame DEF PartsInit
<1>2. [PartsNext]_partsVars => [PipelinesP!Page!Next]_(PipelinesP!Page!vars)
  <2>1. UNCHANGED pp_vars => UNCHANGED Pipelines!vars
    BY DEF pp_vars, Pipelines!vars
  <2>2. [PartsNext]_partsVars => [Pipelines!Next]_(Pipelines!vars) BY <2>1 DEF PartsNext, partsVars
  <2>3. Pipelines!Next = PipelinesP!Page!Next BY PipelinesSame
  <2>4. QED BY <2>2, <2>3 DEF Pipelines!vars, PipelinesP!Page!vars
<1>3. QED BY <1>1, <1>2, PTL DEF PartsSpec, PipelinesP!Page!Spec

LEMMA PipelinesTypes == PartsSpec => []Pipelines!TypeOK
<1>1. PipelinesP!Page!Sensible BY PartsAssumption, PipelinesSame
<1>2. PipelinesP!Page!Spec => []PipelinesP!Page!TypeOK BY <1>1, PipelinesP!PageTypeCorrect
<1>3. PipelinesP!Page!TypeOK => Pipelines!TypeOK BY PipelinesSame
<1>4. QED BY <1>2, <1>3, PipelinesBehaves, PTL

(* Each dialog of the groups makes one call at a time.                     *)
THEOREM DialogsCallOnce == PartsSpec => OneGroupCall
<1>1. PipelinesP!Page!Spec => PipelinesP!Page!OneGroupCall BY PipelinesP!OneCallPerDialog
<1>2. /\ PipelinesP!Page!Saving!Init => Pipelines!Saving!Init
      /\ [PipelinesP!Page!Saving!Next]_<<pp_savingGroup, PipelinesP!Page!Calls("group")>> =>
           [Pipelines!Saving!Next]_<<pp_savingGroup, Pipelines!Calls("group")>>
  BY Zenon DEF Pipelines!Saving!Init, PipelinesP!Page!Saving!Init,
     Pipelines!Saving!Next, PipelinesP!Page!Saving!Next, Pipelines!Saving!Start,
     PipelinesP!Page!Saving!Start, Pipelines!Saving!End, PipelinesP!Page!Saving!End,
     Pipelines!Calls, PipelinesP!Page!Calls
<1>3. /\ PipelinesP!Page!Attaching!Init => Pipelines!Attaching!Init
      /\ [PipelinesP!Page!Attaching!Next]_<<pp_attaching, PipelinesP!Page!Calls("attach")>> =>
           [Pipelines!Attaching!Next]_<<pp_attaching, Pipelines!Calls("attach")>>
  BY Zenon DEF Pipelines!Attaching!Init, PipelinesP!Page!Attaching!Init,
     Pipelines!Attaching!Next, PipelinesP!Page!Attaching!Next,
     Pipelines!Attaching!Start, PipelinesP!Page!Attaching!Start,
     Pipelines!Attaching!End, PipelinesP!Page!Attaching!End, Pipelines!Calls,
     PipelinesP!Page!Calls
<1>4. /\ PipelinesP!Page!Joining!Init => Pipelines!Joining!Init
      /\ [PipelinesP!Page!Joining!Next]_<<pp_joining, PipelinesP!Page!Calls("join")>> =>
           [Pipelines!Joining!Next]_<<pp_joining, Pipelines!Calls("join")>>
  BY Zenon DEF Pipelines!Joining!Init, PipelinesP!Page!Joining!Init,
     Pipelines!Joining!Next, PipelinesP!Page!Joining!Next, Pipelines!Joining!Start,
     PipelinesP!Page!Joining!Start, Pipelines!Joining!End, PipelinesP!Page!Joining!End,
     Pipelines!Calls, PipelinesP!Page!Calls
<1>5. QED BY <1>1, <1>2, <1>3, <1>4, PipelinesBehaves, PTL
         DEF OneGroupCall, Pipelines!OneGroupCall, PipelinesP!Page!OneGroupCall,
             Pipelines!Saving!Spec, PipelinesP!Page!Saving!Spec,
             Pipelines!Attaching!Spec, PipelinesP!Page!Attaching!Spec,
             Pipelines!Joining!Spec, PipelinesP!Page!Joining!Spec

(* A pipeline leaves all groups only by a detachment that names the group  *)
(* it is in, or by a save whose handler read it outside any group.         *)
LeavesAs(p) ==
  \E s \in pp_seen :
    \/ s.call.kind = "detach" /\ p.id \in s.call.on /\ s.call.with = p.group
    \/ s.call.kind = "save" /\ p.id = s.call.on /\ s.call.with = None
       /\ \E r \in s.rows : r.group = None
THEOREM PipelineLeavesAsRead == PartsSpec => LeftAsRead
<1>1. None \notin Groups BY PartsAssumption DEF Pipelines!Sensible
<1>2. PipelinesP!Page!Spec => PipelinesP!Page!LeftAsRead BY <1>1, PipelinesP!LeavesAsRead
<1>3. [\A p \in pp_pipes, q \in pp_pipes' :
         p.id = q.id /\ p.group # None /\ q.group = None => LeavesAs(p)]_(PipelinesP!Page!vars)
      => [\A p \in pp_pipes, q \in pp_pipes' :
            p.id = q.id /\ p.group # None /\ q.group = None => LeavesAs(p)]_(Pipelines!vars)
  BY DEF Pipelines!vars, PipelinesP!Page!vars, Pipelines!server, PipelinesP!Page!server,
     Pipelines!shown, PipelinesP!Page!shown, Pipelines!flags, PipelinesP!Page!flags
<1>4. QED BY <1>2, <1>3, PipelinesBehaves, PTL
         DEF LeavesAs, LeftAsRead, Pipelines!LeftAsRead, PipelinesP!Page!LeftAsRead

-----------------------------------------------------------------------------
(* The committer groups *)

LEMMA CommitterSame ==
  /\ Committer!Init = CommitterP!Init
  /\ Committer!Next = CommitterP!Next
  /\ Committer!Sensible = CommitterP!Sensible
  /\ Committer!TypeOK = CommitterP!TypeOK
  /\ Committer!DetailAwaits = CommitterP!DetailAwaits
<1>1. Committer!Init = CommitterP!Init
  BY SMT DEF Committer!First, CommitterP!First, Committer!Init, CommitterP!Init
<1>2. Committer!Next = CommitterP!Next
  BY Zenon DEF Committer!flags, CommitterP!flags, Committer!NewForm, CommitterP!NewForm,
     Committer!FormOf, CommitterP!FormOf, Committer!Call, CommitterP!Call,
     Committer!Send, CommitterP!Send, Committer!Looking, CommitterP!Looking,
     Committer!OpenDetail, CommitterP!OpenDetail, Committer!RefreshDetail,
     CommitterP!RefreshDetail, Committer!CloseDetail, CommitterP!CloseDetail,
     Committer!OpenForm, CommitterP!OpenForm, Committer!OpenCreate,
     CommitterP!OpenCreate, Committer!OpenEdit, CommitterP!OpenEdit,
     Committer!CloseForm, CommitterP!CloseForm, Committer!TypeUuid, CommitterP!TypeUuid,
     Committer!Verify, CommitterP!Verify, Committer!MaySubmit, CommitterP!MaySubmit,
     Committer!Submit, CommitterP!Submit, Committer!Deletions, CommitterP!Deletions,
     Committer!DeleteGroup, CommitterP!DeleteGroup, Committer!SaveElsewhere,
     CommitterP!SaveElsewhere, Committer!Other, CommitterP!Other, Committer!Has,
     CommitterP!Has, Committer!Check, CommitterP!Check, Committer!IndexAllows,
     CommitterP!IndexAllows, Committer!Stored, CommitterP!Stored, Committer!List,
     CommitterP!List, Committer!Save, CommitterP!Save, Committer!Deleted,
     CommitterP!Deleted, Committer!SpinsOn, CommitterP!SpinsOn, Committer!Refused,
     CommitterP!Refused, Committer!ListAnswer,
     CommitterP!ListAnswer, Committer!VerifyAnswer, CommitterP!VerifyAnswer,
     Committer!DetailAnswer, CommitterP!DetailAnswer, Committer!Next, CommitterP!Next
<1>3. Committer!Sensible = CommitterP!Sensible
  BY Zenon DEF Committer!Sensible, CommitterP!Sensible
<1>4. Committer!TypeOK = CommitterP!TypeOK
  BY Zenon DEF Committer!Row, CommitterP!Row, Committer!TypeOK, CommitterP!TypeOK
<1>5. Committer!DetailAwaits = CommitterP!DetailAwaits
  BY Zenon DEF Committer!DetailAwaits, CommitterP!DetailAwaits
<1>6. QED BY <1>1, <1>2, <1>3, <1>4, <1>5

LEMMA CommitterBehaves == PartsSpec => CommitterP!Spec
<1>1. PartsInit => CommitterP!Init BY CommitterSame DEF PartsInit
<1>2. [PartsNext]_partsVars => [CommitterP!Next]_(CommitterP!vars)
  <2>1. UNCHANGED co_vars => UNCHANGED Committer!vars
    BY DEF co_vars, Committer!vars
  <2>2. [PartsNext]_partsVars => [Committer!Next]_(Committer!vars) BY <2>1 DEF PartsNext, partsVars
  <2>3. Committer!Next = CommitterP!Next BY CommitterSame
  <2>4. QED BY <2>2, <2>3 DEF Committer!vars, CommitterP!vars
<1>3. QED BY <1>1, <1>2, PTL DEF PartsSpec, CommitterP!Spec

LEMMA CommitterTypes == PartsSpec => []Committer!TypeOK
<1>1. CommitterP!Sensible BY PartsAssumption, CommitterSame
<1>2. CommitterP!Spec => []CommitterP!TypeOK BY <1>1, CommitterP!TypeCorrect
<1>3. CommitterP!TypeOK => Committer!TypeOK BY CommitterSame
<1>4. QED BY <1>2, <1>3, CommitterBehaves, PTL

(* The detail of a committer group spins only while it awaits an answer.   *)
THEOREM CommitterDetailAwaits == PartsSpec => []DetailAwaits
<1>1. CommitterP!Spec => []CommitterP!DetailAwaits BY CommitterP!DetailAwaited
<1>2. CommitterP!DetailAwaits => DetailAwaits BY CommitterSame DEF DetailAwaits
<1>3. QED BY <1>1, <1>2, CommitterBehaves, PTL

(* The form of a committer group makes one save and one lookup at a time.  *)
THEOREM CommitterFormCallsOnce == PartsSpec => OneFormCall
<1>s. CommitterP!Sensible BY PartsAssumption, CommitterSame
<1>1. CommitterP!Spec => CommitterP!OneFormCall BY <1>s, CommitterP!OneCallOfForm
<1>2. /\ CommitterP!Submitting!Init => Committer!Submitting!Init
      /\ [CommitterP!Submitting!Next]_<<co_isSubmitting,
             {w.n : w \in {x \in co_waiting : x.kind = "save" /\ x.mine}}>> =>
           [Committer!Submitting!Next]_<<co_isSubmitting,
             {w.n : w \in {x \in co_waiting : x.kind = "save" /\ x.mine}}>>
  BY Zenon DEF Committer!Submitting!Init, CommitterP!Submitting!Init,
     Committer!Submitting!Next, CommitterP!Submitting!Next, Committer!Submitting!Start,
     CommitterP!Submitting!Start, Committer!Submitting!End, CommitterP!Submitting!End
<1>3. /\ CommitterP!Verifying!Init => Committer!Verifying!Init
      /\ [CommitterP!Verifying!Next]_<<co_querying,
             {w.n : w \in {x \in co_waiting : x.kind = "verify"}}>> =>
           [Committer!Verifying!Next]_<<co_querying,
             {w.n : w \in {x \in co_waiting : x.kind = "verify"}}>>
  BY Zenon DEF Committer!Verifying!Init, CommitterP!Verifying!Init,
     Committer!Verifying!Next, CommitterP!Verifying!Next, Committer!Verifying!Start,
     CommitterP!Verifying!Start, Committer!Verifying!End, CommitterP!Verifying!End
<1>4. QED BY <1>1, <1>2, <1>3, CommitterBehaves, PTL
         DEF OneFormCall, Committer!OneFormCall, CommitterP!OneFormCall,
             Committer!Submitting!Spec, CommitterP!Submitting!Spec,
             Committer!Verifying!Spec, CommitterP!Verifying!Spec

-----------------------------------------------------------------------------
(* The repositories and their schemes *)

LEMMA ListSame ==
  /\ List!Init = PagesP!Page!Init
  /\ List!Next = PagesP!Page!Next
  /\ List!Sensible = PagesP!Page!Sensible
  /\ List!TypeOK = PagesP!Page!TypeOK
  /\ List!SpinnersEnd = PagesP!Page!SpinnersEnd
  /\ List!SearchSettles = PagesP!Page!SearchSettles
  /\ List!OneRowCall = PagesP!Page!OneRowCall
<1>1. List!Init = PagesP!Page!Init
  BY Zenon DEF List!ReposOf, PagesP!Page!ReposOf, List!Init, PagesP!Page!Init
<1>2. List!Next = PagesP!Page!Next
  BY Zenon DEF List!Listed, PagesP!Page!Listed, List!Own, PagesP!Page!Own, List!Rows,
     PagesP!Page!Rows, List!NoParams, PagesP!Page!NoParams, List!ReposOf,
     PagesP!Page!ReposOf, List!SchemesOf, PagesP!Page!SchemesOf, List!Click,
     PagesP!Page!Click, List!Go, PagesP!Page!Go, List!ResetAndFilter,
     PagesP!Page!ResetAndFilter, List!ChoosePage, PagesP!Page!ChoosePage,
     List!ChooseMenu, PagesP!Page!ChooseMenu, List!HandleSearchChange,
     PagesP!Page!HandleSearchChange, List!SearchTimeout, PagesP!Page!SearchTimeout,
     List!ToggleExpand, PagesP!Page!ToggleExpand, List!FetchAgain,
     PagesP!Page!FetchAgain, List!Refresh, PagesP!Page!Refresh, List!Shown,
     PagesP!Page!Shown, List!Send, PagesP!Page!Send, List!HandleRunScheme,
     PagesP!Page!HandleRunScheme, List!SaveScheme, PagesP!Page!SaveScheme,
     List!HandleDeleteScheme, PagesP!Page!HandleDeleteScheme, List!HandleWebhook,
     PagesP!Page!HandleWebhook, List!Told, PagesP!Page!Told, List!OfRow,
     PagesP!Page!OfRow, List!Ended, PagesP!Page!Ended, List!ReposAnswer,
     PagesP!Page!ReposAnswer, List!SchemesAnswer, PagesP!Page!SchemesAnswer,
     List!RunAnswer, PagesP!Page!RunAnswer, List!ChangeAnswer, PagesP!Page!ChangeAnswer,
     List!WebhookAnswer, PagesP!Page!WebhookAnswer, List!Next, PagesP!Page!Next
<1>3. List!Sensible = PagesP!Page!Sensible
  BY Zenon DEF List!Sensible, PagesP!Page!Sensible
<1>4. List!TypeOK = PagesP!Page!TypeOK
  BY Zenon DEF List!TypeOK, PagesP!Page!TypeOK
<1>5. List!SpinnersEnd = PagesP!Page!SpinnersEnd
  BY Zenon DEF List!Asked, PagesP!Page!Asked, List!SpinnersEnd, PagesP!Page!SpinnersEnd
<1>6. List!SearchSettles = PagesP!Page!SearchSettles
  BY Zenon DEF List!SearchSettles, PagesP!Page!SearchSettles
<1>7. List!OneRowCall = PagesP!Page!OneRowCall
  BY Zenon DEF List!OfRow, PagesP!Page!OfRow, List!Asked, PagesP!Page!Asked, List!Flies,
     PagesP!Page!Flies, List!OneRowCall, PagesP!Page!OneRowCall
<1>8. QED BY <1>1, <1>2, <1>3, <1>4, <1>5, <1>6, <1>7

LEMMA ListBehaves == PartsSpec => PagesP!Page!Spec
<1>1. PartsInit => PagesP!Page!Init BY ListSame DEF PartsInit
<1>2. [PartsNext]_partsVars => [PagesP!Page!Next]_(PagesP!Page!vars)
  <2>1. UNCHANGED rl_vars => UNCHANGED List!vars
    BY DEF rl_vars, List!vars
  <2>2. [PartsNext]_partsVars => [List!Next]_(List!vars) BY <2>1 DEF PartsNext, partsVars
  <2>3. List!Next = PagesP!Page!Next BY ListSame
  <2>4. QED BY <2>2, <2>3 DEF List!vars, PagesP!Page!vars
<1>3. QED BY <1>1, <1>2, PTL DEF PartsSpec, PagesP!Page!Spec

LEMMA ListTypes == PartsSpec => []List!TypeOK
<1>1. PagesP!Page!Sensible BY PartsAssumption, ListSame
<1>2. PagesP!Page!Spec => []PagesP!Page!TypeOK BY <1>1, PagesP!ListTypeCorrect
<1>3. PagesP!Page!TypeOK => List!TypeOK BY ListSame
<1>4. QED BY <1>2, <1>3, ListBehaves, PTL

(* A spinner of the list turns only while a call it waits for is in        *)
(* flight.                                                                 *)
THEOREM SpinnersHaveCalls == PartsSpec => []SpinnersEnd
<1>1. PagesP!Page!Sensible BY PartsAssumption, ListSame
<1>2. PagesP!Page!Spec => []PagesP!Page!SpinnersEnd BY <1>1, PagesP!SpinnersEndEver
<1>3. PagesP!Page!SpinnersEnd => SpinnersEnd BY ListSame DEF SpinnersEnd
<1>4. QED BY <1>2, <1>3, ListBehaves, PTL

(* The box shows the search of the list, or a timer or a render will make  *)
(* it so.                                                                  *)
THEOREM BoxIsSearch == PartsSpec => []SearchSettles
<1>1. PagesP!Page!Sensible BY PartsAssumption, ListSame
<1>2. PagesP!Page!Spec => []PagesP!Page!SearchSettles BY <1>1, PagesP!SearchSettlesEver
<1>3. PagesP!Page!SearchSettles => SearchSettles BY ListSame DEF SearchSettles
<1>4. QED BY <1>2, <1>3, ListBehaves, PTL

(* A scheme is run by one call at a time.                                  *)
THEOREM SchemesRunOnce == PartsSpec => []OneRowCall
<1>1. PagesP!Page!Sensible BY PartsAssumption, ListSame
<1>2. PagesP!Page!Spec => []PagesP!Page!OneRowCall BY <1>1, PagesP!OneRowCallEver
<1>3. PagesP!Page!OneRowCall => OneRowCall BY ListSame DEF OneRowCall
<1>4. QED BY <1>2, <1>3, ListBehaves, PTL

-----------------------------------------------------------------------------
(* The approvals and the two services, whose modules are extended *)

LEMMA ApprovalsBehave == PartsSpec => Spec
<1>1. [PartsNext]_partsVars => [Next]_vars BY DEF PartsNext, partsVars
<1>2. PartsInit => Init BY DEF PartsInit
<1>3. QED BY <1>1, <1>2, PTL DEF PartsSpec, Spec

LEMMA TokensBehave == PartsSpec => TCSpec
<1>1. [PartsNext]_partsVars => [TCNext]_tokenVars BY DEF PartsNext, partsVars
<1>2. PartsInit => TCInit BY DEF PartsInit
<1>3. QED BY <1>1, <1>2, PTL DEF PartsSpec, TCSpec

LEMMA AuditBehaves == PartsSpec => BASpec
<1>1. [PartsNext]_partsVars => [BANext]_auditVars BY DEF PartsNext, partsVars
<1>2. PartsInit => BAInit BY DEF PartsInit
<1>3. QED BY <1>1, <1>2, PTL DEF PartsSpec, BASpec

(* All parts but the approvals are typed, those not shown as they began.   *)
THEOREM PartsTypeCorrect == PartsSpec => []PartsTypeOK
<1>1. PartsSpec => [](part \in Parts)
  <2>1. PartsInit => part \in Parts BY DEF PartsInit
  <2>2. part \in Parts /\ [PartsNext]_partsVars => (part \in Parts)'
    BY DEF PartsNext, partsVars
  <2>3. QED BY <2>1, <2>2, PTL DEF PartsSpec
<1>2. PartsSpec => []TCTypeOK BY TokensBehave, TokenTypeCorrect, PTL
<1>3. PartsSpec => []BATypeOK
  <2>1. BASpec => []BATypeOK BY PartsAssumption, AuditTypeCorrect
  <2>2. QED BY <2>1, AuditBehaves, PTL
<1>4. QED BY <1>1, <1>2, <1>3, FormTypes, PanelTypes, TreeTypes, SyncTypes, PipelinesTypes,
             CommitterTypes, ListTypes, PTL DEF PartsTypeOK

(* The values of the approval page and of the requests behind it.          *)
THEOREM ApprovalsTypeCorrect == PartsSpec => []TypeOK
BY ApprovalsBehave, TypeCorrect, PTL

(* An approved request that asked for a repository has its row.            *)
THEOREM ApprovedHasItsRepo == PartsSpec => []ApprovedHasRepo
BY ApprovalsBehave, ApprovedWithRepo, PTL

(* The page of the approvals makes one decision at a time.                 *)
THEOREM DecidesOnce == PartsSpec => OneDecision
BY ApprovalsBehave, OneDecisionAtATime, PTL

(* A token handed out has the margin left, but for the time of a request.  *)
THEOREM TokensHandedLive == PartsSpec => []HandedFresh
BY TokensBehave, TokensLive, PTL

(* One caller fetches a token at a time, and only when there is none.      *)
THEOREM OneCallerFetches == PartsSpec => []OneFetch
BY TokensBehave, FetchedWhenNeeded, PTL

(* An audit of branches that nothing disturbed leaves a mirror.            *)
THEOREM AuditLeavesMirror == PartsSpec => AuditMirrors
<1>1. BASpec => AuditMirrors BY PartsAssumption, AuditMirrorsEver
<1>2. QED BY <1>1, AuditBehaves, PTL
=============================================================================
