CONSTANTS
  Node = {n1, n2}
  MaxVersion = 2
SPECIFICATION CacheSpec
INVARIANT GetFinds
