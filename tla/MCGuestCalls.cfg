CONSTANTS
  Op = {"enqueue", "prefilter", "filter", "postfilter", "score", "normalizescore", "permit", "postbind"}
  Byte = 2
  WordBytes = 2
  Reason = {"", "why"}
  NodeNames <- MCNodeNames
  Event <- MCEvent
  MaxEvents = 2
  LogSeverity = {0, 1, 2, 3}
  Text <- MCText
  MaxArgs = 2
  MaxDepth = 2
  Node = {n1, n2}
  Score = {0, 1}
SPECIFICATION CallsSpec
INVARIANTS
  CallTypeOK
  ResultsArrive
  WrittenWhole
  NothingBelowSeverity
  ScoreTypeOK
  ScoresAsAnswered
  AllOrNothing
CHECK_DEADLOCK FALSE
