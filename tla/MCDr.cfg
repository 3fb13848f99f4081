\* A collection on the host: every component enabled.
SPECIFICATION FairSpec
CONSTANTS
  host = host
  sac = sac
  helper = helper
  older = older
  old = old
  new = new
  point = point
  parse = parse
  report = report
  Absent = Absent
  None = None
  Component <- Nodes
  Kind <- NodeKind
  Requires <- NodeRequires
  AtLeastOne <- NodeAtLeastOne
  Optional <- NodeOptional
  Rank <- NodeRank
  Ignore <- NodeIgnore
  Enabled <- AllDelegates
  Graph <- AllDelegates
  Seed <- HostOnly
  Serialized = FALSE
  StoreSkips = FALSE
  Persist <- PointOnly
INVARIANTS
  TypeOK
  OrderIsTopological
  VerdictStands
  PointServesLatest
  DatasourceErrorsObserved
PROPERTIES
  BrokerOnlyGrows
  RunReturns
  ImplementsEvaluation
