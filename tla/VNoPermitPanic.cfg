CONSTANTS
  Pod = {p1, p2}
  Node = {n1}
  Scheduler = sched
  Caller = {sched, n1, p1, p2}
  NoCaller = NoCaller
  NoPod = NoPod
  MaxAttempts = 1
  Exports = {"prefilter", "filter", "prebind", "bind", "postbind"}
  Faults = {}
SPECIFICATION Spec
INVARIANTS
  NeverUnexpectedPod
CHECK_DEADLOCK FALSE
