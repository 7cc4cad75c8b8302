-------------------------------- MODULE Parts --------------------------------
(***************************************************************************)
(* The pages of the web interface and two services beside them.            *)
(* They share no state: App shows one page at a time, and a page's state   *)
(* ends with it.  A behaviour is therefore one part's: part tells which,   *)
(* and the others stay as they began.  Variables begin with the initials   *)
(* of their part; Approvals, TokenCache and BranchAudit keep their names.  *)
(***************************************************************************)
EXTENDS Approvals, TokenCache, BranchAudit

CONSTANTS
  CodeRepos,
  FormBranches, Patterns, Langs, Codes, ParamLists, Default, EmptyParams, LangsOf,
  SchemeRows, MaxEdits, MaxOpens,                              \* SchemeForm
  PanelNames, PanelBranches, PanelSent,                        \* RepoPanel
  Groups, Parent, Users, Depts, DeptOf,                        \* ManagedRepos
  Pipes, SchemeNames, SchemeBranches, SyncStore, MaxIds, SyncSent, MaxDrift, \* PipelineSync
  GroupedPipes, MaxOther,                                      \* PipelinePage
  CommitterIds, Uuids, CommitterNames, CommitterSent,          \* Committers
  ListSchemes, Owner, Configured, Texts, Filters, Matches, ListSent \* ReposPage

VARIABLES
  part,
  sf_scheme, sf_visible, sf_saving, sf_success, sf_sheet, sf_refs, sf_dirty, sf_asking,
  sf_pasting, sf_branches, sf_others, sf_waiting, sf_saves, sf_opened, sf_edits, sf_opens,
  rp_server, rp_activeRepo, rp_activeTab, rp_branches, rp_filter, rp_selected,
  rp_isAuditing, rp_isCleaning, rp_isCreating, rp_modal, rp_aclTarget, rp_waiting, rp_sent,
  mr_server, mr_groups, mr_url, mr_selectedGroup, mr_hasInitialized, mr_repos,
  mr_showArchived, mr_isSyncingGroup, mr_expanded, mr_showHidden, mr_systemUsers, mr_form,
  mr_waiting, mr_sent,
  ps_store, ps_issued, ps_visible, ps_loading, ps_diff, ps_target, ps_syncing, ps_waiting,
  ps_sent, ps_drifted,
  pp_groups, pp_pipes, pp_seen, pp_shownGroups, pp_shownPipes, pp_dialog, pp_savingGroup,
  pp_attaching, pp_joining, pp_fetching, pp_waiting, pp_sent, pp_others,
  co_rows, co_shown, co_view, co_live, co_form, co_querying, co_detailQuerying,
  co_isSubmitting, co_waiting, co_sent,
  rl_stored, rl_hooks, rl_url, rl_search, rl_searchTimer, rl_result, rl_loading,
  rl_expanded, rl_repoSchemes, rl_fetching, rl_running, rl_status, rl_registered,
  rl_waiting, rl_sent

Parts == {"Approvals", "TokenCache", "SchemeForm", "RepoPanel", "ManagedRepos",
          "PipelineSync", "PipelinePage", "Committers", "ReposPage", "BranchAudit"}

Form == INSTANCE SchemeForm
  WITH Repos <- CodeRepos, NoParams <- EmptyParams,
       Branches <- FormBranches, Rows <- SchemeRows, scheme <- sf_scheme,
       visible <- sf_visible, saving <- sf_saving, success <- sf_success, sheet <- sf_sheet,
       refs <- sf_refs, dirty <- sf_dirty, asking <- sf_asking, pasting <- sf_pasting, branches <- sf_branches,
       others <- sf_others, waiting <- sf_waiting, saves <- sf_saves, opened <- sf_opened,
       edits <- sf_edits, opens <- sf_opens
Panel == INSTANCE RepoPanel
  WITH Repos <- CodeRepos, Names <- PanelNames, Initially <- PanelBranches, MaxSent <- PanelSent,
       server <- rp_server, activeRepo <- rp_activeRepo,
       activeTab <- rp_activeTab, branches <- rp_branches, filter <- rp_filter,
       selected <- rp_selected, isAuditing <- rp_isAuditing, isCleaning <- rp_isCleaning,
       isCreating <- rp_isCreating, modal <- rp_modal, aclTarget <- rp_aclTarget,
       waiting <- rp_waiting, sent <- rp_sent
Tree == INSTANCE ManagedRepos
  WITH server <- mr_server,
       groups <- mr_groups, url <- mr_url, selectedGroup <- mr_selectedGroup,
       hasInitialized <- mr_hasInitialized, repos <- mr_repos,
       showArchived <- mr_showArchived, isSyncingGroup <- mr_isSyncingGroup,
       expanded <- mr_expanded, showHidden <- mr_showHidden, systemUsers <- mr_systemUsers,
       form <- mr_form, waiting <- mr_waiting, sent <- mr_sent
Sync == INSTANCE PipelineSync
  WITH Names <- SchemeNames, Branches <- SchemeBranches, Initially <- SyncStore,
       MaxSent <- SyncSent, store <- ps_store,
       issued <- ps_issued, visible <- ps_visible, loading <- ps_loading, diff <- ps_diff,
       target <- ps_target, syncing <- ps_syncing, waiting <- ps_waiting, sent <- ps_sent,
       drifted <- ps_drifted
Pipelines == INSTANCE PipelinePage
  WITH Pipes <- GroupedPipes, groups <- pp_groups,
       pipes <- pp_pipes, seen <- pp_seen, shownGroups <- pp_shownGroups, shownPipes <- pp_shownPipes,
       dialog <- pp_dialog, savingGroup <- pp_savingGroup, attaching <- pp_attaching,
       joining <- pp_joining, fetching <- pp_fetching, waiting <- pp_waiting,
       sent <- pp_sent, others <- pp_others
Committer == INSTANCE Committers
  WITH Ids <- CommitterIds, Names <- CommitterNames, MaxSent <- CommitterSent, rows <- co_rows,
       shown <- co_shown, view <- co_view, live <- co_live, form <- co_form,
       querying <- co_querying, detailQuerying <- co_detailQuerying,
       isSubmitting <- co_isSubmitting, waiting <- co_waiting, sent <- co_sent
List == INSTANCE ReposPage
  WITH Repos <- CodeRepos, Schemes <- ListSchemes, MaxSent <- ListSent, stored <- rl_stored, hooks <- rl_hooks,
       url <- rl_url, search <- rl_search, searchTimer <- rl_searchTimer,
       result <- rl_result, loading <- rl_loading, expanded <- rl_expanded,
       repoSchemes <- rl_repoSchemes, fetching <- rl_fetching, running <- rl_running,
       status <- rl_status, registered <- rl_registered, waiting <- rl_waiting,
       sent <- rl_sent

(* What the theorems ask of the constants.                                 *)
ASSUME PartsAssumption ==
  /\ Form!Sensible /\ Panel!Sensible /\ Tree!Sensible /\ Tree!Forest
  /\ Sync!Sensible /\ Pipelines!Sensible /\ Committer!Sensible /\ List!Sensible
  /\ Sensible

sf_vars == <<sf_scheme, sf_visible, sf_saving, sf_success, sf_sheet, sf_refs, sf_dirty,
             sf_asking, sf_pasting, sf_branches, sf_others, sf_waiting, sf_saves,
             sf_opened, sf_edits, sf_opens>>
rp_vars == <<rp_server, rp_activeRepo, rp_activeTab, rp_branches, rp_filter, rp_selected,
             rp_isAuditing, rp_isCleaning, rp_isCreating, rp_modal, rp_aclTarget,
             rp_waiting, rp_sent>>
mr_vars == <<mr_server, mr_groups, mr_url, mr_selectedGroup, mr_hasInitialized, mr_repos,
             mr_showArchived, mr_isSyncingGroup, mr_expanded, mr_showHidden,
             mr_systemUsers, mr_form, mr_waiting, mr_sent>>
ps_vars == <<ps_store, ps_issued, ps_visible, ps_loading, ps_diff, ps_target, ps_syncing,
             ps_waiting, ps_sent, ps_drifted>>
pp_vars == <<pp_groups, pp_pipes, pp_seen, pp_shownGroups, pp_shownPipes, pp_dialog,
             pp_savingGroup, pp_attaching, pp_joining, pp_fetching, pp_waiting, pp_sent, pp_others>>
co_vars == <<co_rows, co_shown, co_view, co_live, co_form, co_querying, co_detailQuerying,
             co_isSubmitting, co_waiting, co_sent>>
rl_vars == <<rl_stored, rl_hooks, rl_url, rl_search, rl_searchTimer, rl_result, rl_loading,
             rl_expanded, rl_repoSchemes, rl_fetching, rl_running, rl_status,
             rl_registered, rl_waiting, rl_sent>>

PartsInit ==
  /\ part \in Parts
  /\ Init /\ TCInit /\ Form!Init /\ Panel!Init /\ Tree!Init /\ Sync!Init
  /\ Pipelines!Init /\ Committer!Init /\ List!Init /\ BAInit
  /\ part # "ManagedRepos" => mr_url = None /\ \A g \in DOMAIN mr_server : ~mr_server[g]
  /\ part # "PipelinePage" => pp_groups = {} /\ pp_pipes = {}
  /\ part # "ReposPage" => rl_search = "" /\ rl_url.filter = ""

PartsNext ==
  /\ UNCHANGED part
  /\ IF part = "Approvals" THEN Next ELSE UNCHANGED vars
  /\ IF part = "TokenCache" THEN TCNext ELSE UNCHANGED tokenVars
  /\ IF part = "SchemeForm" THEN Form!Next ELSE UNCHANGED sf_vars
  /\ IF part = "RepoPanel" THEN Panel!Next ELSE UNCHANGED rp_vars
  /\ IF part = "ManagedRepos" THEN Tree!Next ELSE UNCHANGED mr_vars
  /\ IF part = "PipelineSync" THEN Sync!Next ELSE UNCHANGED ps_vars
  /\ IF part = "PipelinePage" THEN Pipelines!Next ELSE UNCHANGED pp_vars
  /\ IF part = "Committers" THEN Committer!Next ELSE UNCHANGED co_vars
  /\ IF part = "ReposPage" THEN List!Next ELSE UNCHANGED rl_vars
  /\ IF part = "BranchAudit" THEN BANext ELSE UNCHANGED auditVars

partsVars == <<part, vars, tokenVars, sf_vars, rp_vars, mr_vars, ps_vars, pp_vars, co_vars,
               rl_vars, auditVars>>
PartsSpec == PartsInit /\ [][PartsNext]_partsVars

-----------------------------------------------------------------------------
(* Properties *)

(* The values of the variables of all parts but Approvals, which has its   *)
(* own: TypeOK.                                                            *)
PartsTypeOK ==
  /\ part \in Parts /\ TCTypeOK
  /\ Form!TypeOK /\ Panel!TypeOK /\ Tree!TypeOK /\ Sync!TypeOK /\ Pipelines!TypeOK
  /\ Committer!TypeOK /\ List!TypeOK /\ BATypeOK

(* The scheme form: one save at a time, and it shows what it would send.   *)
OneSave == Form!OneSave
FormIsShown == Form!FormIsShown

(* The panel of a repository: one call at a time of each of its buttons.   *)
OnePanelCall == Panel!OnePanelCall

(* The sidebar of the groups: the selected group is the one of the         *)
(* address, and the tree lists every group in its place.                   *)
SelectedFollowsUrl == Tree!SelectedFollowsUrl
TreeListed == Tree!TreeListed

(* The differences of a pipeline's schemes: one item at a time, no row of  *)
(* one pipeline names another's scheme, and what is pulled is settled.     *)
OneItem == Sync!OneItem
OwnPipeline == Sync!OwnPipeline
PullSettles == Sync!PullSettles

(* The pipelines and their groups: one call at a time of each form, and a  *)
(* pipeline leaves its group as the request says or as its handler read.   *)
OneGroupCall == Pipelines!OneGroupCall
LeftAsRead == Pipelines!LeftAsRead

(* The committer groups: the detail spins only while it awaits an answer,  *)
(* and the form makes one save and one lookup at a time.                   *)
DetailAwaits == Committer!DetailAwaits
OneFormCall == Committer!OneFormCall

(* The repositories and their schemes: spinners end, the box shows the     *)
(* search of the list, and a scheme is run by one call at a time.          *)
SpinnersEnd == List!SpinnersEnd
SearchSettles == List!SearchSettles
OneRowCall == List!OneRowCall
=============================================================================
