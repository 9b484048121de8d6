CONSTANTS
  GcMax = 3
  GcChunk = 3
  MemMax = 2
  MemChunk = 2
  MaxIndex = 1
  Name <- MCName
  Elem <- MCElem
  MaxPara = 0
  MaxHeld = 1
  MaxOwned = 2
  Kind = {"function", "closure"}
SPECIFICATION Spec
CONSTRAINT FewOwned
INVARIANTS TypeOK CountExact LiveIffHeld CellsPartitioned TargetSurvives
