CONSTANTS
  Pod = {p1, p2}
  Node = {n1}
  Scheduler = sched
  Caller = {sched, n1, p1, p2}
  NoCaller = NoCaller
  NoPod = NoPod
  MaxAttempts = 2
  Exports = {"prefilter", "addpod", "removepod", "score", "normalizescore", "bind"}
  Faults = {"instantiate", "trap"}
SPECIFICATION Spec
INVARIANTS
  ExclusiveGuest
PROPERTIES
  BindingGuestPinned
  OwnershipSpec
CHECK_DEADLOCK FALSE
