CONSTANTS
  Pod = {p1, p2}
  Node = {n1, n2}
  Scheduler = sched
  Caller = {sched, n1, n2, p1, p2}
  NoCaller = NoCaller
  NoPod = NoPod
  MaxAttempts = 1
  Exports = {"enqueue", "prefilter", "filter", "addpod", "removepod", "postfilter", "prescore", "score", "normalizescore", "reserve", "unreserve", "permit", "prebind", "bind", "postbind"}
  Faults = {}
SPECIFICATION FairSpec
PROPERTIES
  CyclesEnd
  GuestsComeBack
CHECK_DEADLOCK FALSE
