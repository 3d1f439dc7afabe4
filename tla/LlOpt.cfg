CONSTANTS
  x = x
  y = y
  z = z
  la = la
  lb = lb
  None = None
  Var = {x, y, z}
  Label = {la, lb}
  MaxOps = 6
  ConstevalIterations = 1
  JumpRounds = 4
  Programs <- LlOptPrograms
SPECIFICATION Spec
INVARIANTS
  TypeOK
  JumpsResolved
  MeaningPreserved
  NoDeadTail
