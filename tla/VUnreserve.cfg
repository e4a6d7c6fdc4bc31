CONSTANTS
  Pod = {p1, p2}
  Node = {n1}
  Scheduler = sched
  Caller = {sched, n1, p1, p2}
  NoCaller = NoCaller
  NoPod = NoPod
  MaxAttempts = 1
  Exports = {"enqueue", "prefilter", "filter", "addpod", "removepod", "postfilter", "prescore", "score", "normalizescore", "reserve", "unreserve", "permit", "prebind", "bind", "postbind"}
  Faults = {}
SPECIFICATION Spec
INVARIANTS
  UnreserveCoherent
CHECK_DEADLOCK FALSE
