CONSTANTS
  Node = {n1, n2}
  MaxVersion = 1
  Value <- MCValue
  Size <- MCSize
  Word <- MCWord
  WordSize = 1
  FirstLimit = 1
  Zero = Zero
SPECIFICATION ReadsSpec
INVARIANTS
  CacheTypeOK
  OneSnapshot
  OneEntryPerName
  MemTypeOK
  LimitIsLength
  ExactValue
PROPERTIES
  OnlyGrows
  FetchesSucceed
  CacheSpec
