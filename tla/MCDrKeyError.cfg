\* An archive that holds a point and its parser: does run always return its broker?
SPECIFICATION FairSpec
CONSTANTS
  host = host
  sac = sac
  helper = helper
  older = older
  old = old
  new = new
  point = point
  parse = parse
  report = report
  Absent = Absent
  None = None
  Component <- ArchiveNodes
  Kind <- NodeKind
  Requires <- NodeRequires
  AtLeastOne <- NodeAtLeastOne
  Optional <- NodeOptional
  Rank <- NodeRank
  Ignore <- NodeIgnore
  Enabled <- AllDelegates
  Graph <- AllDelegates
  Seed <- ArchiveOfParser
  Serialized = TRUE
  StoreSkips = FALSE
  Persist <- PointOnly
INVARIANTS
  NoKeyError
