SPECIFICATION LibrariesSpec
CONSTANTS
  Units <- LokiUnits
  AppOf <- LokiApps
  Containers = {"c"}
  Ingressed = {"l0"}
  LogFaults = {"container"}
  Lokis = {"l0", "l1"}
  Workloads = {"w0"}
  Attached = FALSE
  ProxyFaults = {"restart", "network", "corrupt"}
  Sources = {1, 2, 3}
  SourceApp <- RuleApps
  Labelling = {1, 2}
  RuleDirs <- Directories
  Endpoints = {"e1", "e2"}
  ScrapedUnits = {"u0", "u1"}
  JobSpecs <- JobLists
  Lookaside <- LookasideJobs
  Earlier <- EarlierRelations
  MaxPods = 2
  ScrapedApps = {"a", "b"}
  AppUnits <- UnitsOfApps
  Values <- ValuesOfApps
  Prometheuses = {1}
  DashboardUnits = {"u0", "u1"}
  Revisions <- DashboardFiles
  Programs <- DashboardPrograms
  Grafanas = {"g0", "g1"}
  GrafanaLeader = "g0"
  Sharing = {9, 10}
  Offers <- DashboardOffers
  Refs <- PanelRefs
  OwnVariables <- PanelVariables
  SpeltLoki = {"b"}
  SpeltGrafana = {}
  Expressions <- PanelExpressions
  Labels = {"x", "y"}
  ForeignLabels = {"f"}
  MaxKills = 2
  Callers = {"a", "remote"}
  RemoteModel <- RemoteCallers
  AccessPolicies <- MeshAccess
  RawPolicies <- ReadyMade
  PatchUnits = {"u0", "u1"}
  PatchWants <- ServiceWants
  ServiceNames = {"app", "app-lb", "svc"}
  AppService = "app"
  NoService = NoService
  PatchFaults = {"api", "scale-down"}
  Nodes = {"n0", "n1"}
  Shapes <- NodeShapes
  Options <- WorkerOptions
  Defaults <- WorkerDefaults
  Unset = 9
INVARIANTS
  LibrariesTypeOK LogsFollowLoki PromtailFollows RulesArrive EveryTargetScraped TargetsFollowUnits
  SharesWhatLeaderHas EveryUnitLoadsNewest KeepsWhatPanelsShow LabelsFollowMesh AuthorizesRelated
  ServiceFollowsRevision VerdictHolds
CHECK_DEADLOCK FALSE
