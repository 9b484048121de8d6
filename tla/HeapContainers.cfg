CONSTANTS
  GcMax = 3
  GcChunk = 1
  MemMax = 2
  MemChunk = 1
  MaxIndex = 1
  Name <- MCName
  Elem <- MCElem
  MaxPara = 0
  MaxHeld = 1
  MaxOwned = 2
  Kind = {"plain", "vector", "hash"}
SPECIFICATION Spec
CONSTRAINT FewOwned
INVARIANTS IInv CellsPartitioned UnitsPartitioned ClearDestroysAll
PROPERTY FreedOnlyWhenUnheld
