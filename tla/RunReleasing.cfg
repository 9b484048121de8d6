CONSTANTS
  NaN = NaN
  Builtin <- MCBuiltin
  Depth = 3
  Source <- Exchanges
  TreeSource <- Unowned
SPECIFICATION Session
INVARIANT RunPlacesValid
