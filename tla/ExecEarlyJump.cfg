CONSTANTS
  NaN = NaN
  Builtin <- MCBuiltin
  Source <- EarlyJump
SPECIFICATION Spec
INVARIANT JumpsOwnLoop
