SPECIFICATION Spec
CONSTANTS
  Ids = {status, tset, tret}
  TSet = tset
  Values = {1, 2}
  Overrides = {3}
  CacheN = 2
  ProbeTicks = 2
  HoldTicks = 3
  Threshold = 3
INVARIANTS
  TypeOK
  CacheIsNewest
  OverrideReachesBoiler
PROPERTIES
  LinkRecovers
  LossIsShown
