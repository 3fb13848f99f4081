SPECIFICATION FairSpec
CONSTANTS
  Datasource = {"impl", "point"}
  Downstream <- Chain
  Key = {"a", "b"}
  MAX_MATCH = 2
  Plugin <- Plugins
  Impl = "impl"
  Point = "point"
  File = {f1, f2}
  Content <- Contents
  Workers = 1
  StartIp = 10
  max_files = 2
INVARIANTS
  TypeOK
  OwnFiltersCurrent
  NeededLinesKept
  NothingUnwanted
  AnalysisSeesNeeded
  OneToOne
  Reversible
  NoOriginalLeft
PROPERTY CollectionEnds
\* The system stops when the parsers have their lines, or there are none.
CHECK_DEADLOCK FALSE
