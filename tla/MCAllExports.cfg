CONSTANTS
  Pod = {p1, p2}
  Node = {n1, n2}
  Scheduler = sched
  Caller = {sched, n1, n2, p1, p2}
  NoCaller = NoCaller
  NoPod = NoPod
  MaxAttempts = 2
  Exports = {"enqueue", "prefilter", "filter", "addpod", "removepod", "postfilter", "prescore", "score", "normalizescore", "reserve", "unreserve", "permit", "prebind", "bind", "postbind"}
  Faults = {"instantiate", "trap"}
SPECIFICATION Spec
INVARIANTS
  CycleTypeOK
  ExclusiveGuest
  CycleCoherent
  PodCoherent
  NoLeak
  NeverUnexpectedPod
PROPERTIES
  BindingGuestPinned
CHECK_DEADLOCK FALSE
