CONSTANTS
  Caller = {c1, c2}
  Pod = {p1, p2, p3}
  NoCaller = NoCaller
  NoPod = NoPod
SPECIFICATION PoolSpec
INVARIANTS
  TypeOK
  OnePlace
  NoneLost
  PoolBound
  LockHolderRuns
PROPERTIES
  BindingIsSticky
  OwnershipSpec
CHECK_DEADLOCK FALSE
