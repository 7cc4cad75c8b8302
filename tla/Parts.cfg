SPECIFICATION PartsSpec
CONSTANTS
  None = None
  Requests = {"p", "q", "s"}
  Kind <- RequestKind
  MaxSent = 2
  Callers = {"c", "d", "e"}
  Life = 4
  Margin = 2
  Slow = 1
  MaxTime = 7
  Branches = {1, 2, 3}
  PerPage = 2
  Audits = {"a", "b"}
  MaxEvents = 4
  CodeRepos = {"r1", "r2"}
  FormBranches = {"m", "f*"}
  Patterns = {"f*"}
  Langs = {"go"}
  Codes = {"SCH", "X"}
  ParamLists = {"p0", "p1"}
  Default = "SCH"
  EmptyParams = "p0"
  LangsOf <- FormLangs
  SchemeRows <- TwoSchemes
  MaxEdits = 1
  MaxOpens = 2
  PanelNames = {"f", "g"}
  PanelBranches <- TwoRepositories
  PanelSent = 3
  Groups = {1, 2}
  Parent <- GroupParent
  Users = {"u"}
  Depts = {"d"}
  DeptOf <- UserDept
  Pipes = {"p", "q"}
  SchemeNames = {"n", "m"}
  SchemeBranches = {"b", "c"}
  SyncStore <- OneInSync
  MaxIds = 6
  SyncSent = 3
  MaxDrift = 1
  GroupedPipes = {"p"}
  MaxOther = 1
  CommitterIds = {1, 2}
  Uuids = {"u"}
  CommitterNames = {"a", "b"}
  CommitterSent = 3
  ListSchemes = {"s", "t"}
  Owner <- SchemeOwner
  Configured = {"s"}
  Texts = {"", "x"}
  Filters = {"", "g"}
  Matches <- RepoMatches
  ListSent = 3
INVARIANTS TypeOK ApprovedHasRepo HandedFresh OneFetch
           PartsTypeOK OneSave FormIsShown SelectedFollowsUrl TreeListed
           OneItem OwnPipeline PullSettles DetailAwaits
           SpinnersEnd SearchSettles OneRowCall
PROPERTIES OneDecision OnePanelCall OneGroupCall LeftAsRead OneFormCall AuditMirrors
CHECK_DEADLOCK FALSE
