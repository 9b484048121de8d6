CONSTANTS
  NaN = NaN
  Source <- MCSource
  Text <- MCText
  Mixed <- MCMixed
SPECIFICATION Spec
INVARIANTS WellShaped ReadsInside NumeralsConvert
PROPERTIES NothingLeft ReadBack FoldingAgrees
