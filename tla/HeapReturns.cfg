CONSTANTS
  GcMax = 3
  GcChunk = 3
  MemMax = 2
  MemChunk = 1
  MaxIndex = 0
  Name <- MCName
  Elem <- MCElem
  MaxPara = 1
  MaxHeld = 1
  MaxOwned = 2
  Kind = {"function", "closure"}
SPECIFICATION Spec
CONSTRAINT FewOwned
INVARIANT IInv
PROPERTY CallReturns
