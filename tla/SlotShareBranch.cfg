CONSTANTS
  la = la
  lb = lb
  None = None
  Var = {2, 3, 4, 5}
  Ins = {2}
  Label = {la, lb}
  MaxOps = 10
  BodyLen = 1
  TypeSize <- McOneSize
  Programs <- BranchPrograms
SPECIFICATION Spec
INVARIANTS
  MeaningPreserved
