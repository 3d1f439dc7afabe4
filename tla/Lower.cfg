CONSTANTS
  None = None
  Var = {2, 3, 4, 5, 6, 7, 8, 9, 10, 11, 12, 13, 14, 15, 16}
  Label = {2, 3, 4, 5, 6, 7, 8, 9, 10}
  MaxOps = 40
  MaxSteps = 30
  Programs <- LoweredPrograms
SPECIFICATION Spec
INVARIANTS
  TypeOK
  LabelsMatch
  MeaningPreserved
