CONSTANTS
  NaN = NaN
  Builtin <- MCBuiltin
  Depth = 3
  Source <- Programs
  TreeSource <- TreePrograms
SPECIFICATION Session
INVARIANTS OperandsReady ReferencesExact NoDangling TargetsAlive FramesMatched JumpsInsideFunction JumpsOwnLoop StatementsBalanced SameGlobals RunReferencesExact RunAddressesValid
PROPERTIES RunEnds RunScopesClosed
