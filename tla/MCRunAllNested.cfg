SPECIFICATION FairSpec
CONSTANTS
  ctx = ctx  files = files  point = point  packages = packages
  audit = audit  specs = specs
  w1 = w1  w2 = w2  w3 = w3
  Idle = Idle
  Component <- Nodes
  Graph <- Keys
  Rules <- NodeRules
  Datasources <- NodeDatasources
  Points <- NodePoints
  Requires <- NodeRequires
  AtLeastOne <- NodeAtLeastOne
  Optional <- NodeOptional
  Given <- OnlyContext
  Prios <- NodePrios
  Reporter = specs
  Hosts <- Elsewhere
  Worker <- TwoThreads
  Pool = TRUE
  Persist <- TwoLists
  ListLength = 2
PROPERTIES
  RunAllReturns
CHECK_DEADLOCK FALSE
