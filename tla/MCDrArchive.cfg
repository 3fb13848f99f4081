\* The evaluation of a serialized archive that holds a point and its older implementation.
SPECIFICATION FairSpec
CONSTANTS
  host = host
  sac = sac
  helper = helper
  older = older
  old = old
  new = new
  point = point
  parse = parse
  report = report
  Absent = Absent
  None = None
  Component <- ArchiveNodes
  Kind <- NodeKind
  Requires <- ArchiveRequires
  AtLeastOne <- NodeAtLeastOne
  Optional <- ArchiveOptional
  Rank <- NodeRank
  Ignore <- NodeIgnore
  Enabled <- AllDelegates
  Graph <- AllDelegates
  Seed <- ArchiveOfOld
  Serialized = TRUE
  StoreSkips = TRUE
  Persist <- PointOnly
INVARIANTS
  CycleDetected
  VerdictStands
PROPERTIES
  ImplementsEvaluation
