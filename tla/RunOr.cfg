CONSTANTS
  NaN = NaN
  Builtin <- MCBuiltin
  Depth = 3
  Source <- OrStatement
  TreeSource <- OrStatement
SPECIFICATION Session
INVARIANT SameGlobals
