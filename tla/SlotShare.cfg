CONSTANTS
  la = la
  lb = lb
  None = None
  Var = {2, 3, 4, 5}
  Ins = {2}
  Label = {la, lb}
  MaxOps = 6
  BodyLen = 5
  TypeSize <- McOneSize
  Programs <- LinearPrograms
SPECIFICATION FairSpec
INVARIANTS
  TypeOK
  LifetimesCover
  MeaningPreserved
  TypesKnown
PROPERTY Finishes
