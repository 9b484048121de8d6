CONSTANTS
  NaN = NaN
  Builtin <- MCBuiltin
  Source <- OldIterator
SPECIFICATION Spec
INVARIANT OperandsReady
