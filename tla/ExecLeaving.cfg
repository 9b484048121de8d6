CONSTANTS
  NaN = NaN
  Builtin <- MCBuiltin
  Source <- Leaving
SPECIFICATION Spec
INVARIANT ReturnDeletesFunction
