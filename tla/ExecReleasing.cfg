CONSTANTS
  NaN = NaN
  Builtin <- MCBuiltin
  Source <- Releasing
SPECIFICATION Spec
INVARIANT TargetsAlive
