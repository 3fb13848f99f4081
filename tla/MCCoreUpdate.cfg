SPECIFICATION Spec
CONSTANTS
  r1 = r1
  r2 = r2
  Run <- MCRun
  MaxRelease = 2
SYMMETRY Symmetric
INVARIANTS
  TypeOK
  PairsVerify
  NeverDowngraded
