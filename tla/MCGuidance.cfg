SPECIFICATION FairGuidanceSpec
CONSTANTS
  Keys = {"k1", "k2", "k3", "k4"}
  ScriptIds = {"id1", "id2"}
  Paths = {"f1"}
  Hashes = {"h1", "h2"}
  Profiles = {"pr1", "pr2"}
  NoFile = nofile
  NoCatalog = nocatalog
  Unbound = unbound
  NoProposal = noproposal
  Catalogs <- MCCatalogs
  Policies <- MCPolicies
  Adapters = {"docker_engine_running"}
  Count = 2
  Deadline = 3
  Lag = 1
  Horizon = 7
  Locators = {"a", "b"}
  Operations = {"op", "op2"}
  PreconditionLists = {"pre", "pre2"}
  Body <- MCBody
  Libraries <- MCLibraries
  JudgeAnswers = {"ANSWERED", "MODEL_TIMEOUT", "raised", "unreadable"}
  NoHit = nohit
  NoInvocation = noinvocation
  NoCitation = nocitation
INVARIANTS
  GuidanceTypeOK
  BoundScriptOnly
  ObservationsJustify
  StandingCoversRun
  CitationsStable
  EvidenceStands
PROPERTIES
  ChecksEnd
  JudgedCallCreates
