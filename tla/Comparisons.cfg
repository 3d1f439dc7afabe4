CONSTANTS
  x = x
  o1 = o1
  o2 = o2
  o3 = o3
  None = None
  Var = {x, o1, o2, o3}
  Half = 2
  Programs <- InnerPrograms
SPECIFICATION Spec
INVARIANTS
  ResultsKept
