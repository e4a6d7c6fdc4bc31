CONSTANT Modules <- MCModules
SPECIFICATION LoadSpec
INVARIANTS
  LoadTypeOK
  NoRuntimeLeak
  NoNilCall
  MainExportsOffered
CHECK_DEADLOCK FALSE
