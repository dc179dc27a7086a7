CONSTANTS
  o1 = o1
  o2 = o2
  c1 = c1
  Main = Main
  Obj <- TwoAndCoro
  Coros <- OneCoro
  StepBudget = 1
  MaxRefs = 1
  MaxTemps = 1
  MaxGlobals = 0
SYMMETRY Symmetry2
SPECIFICATION Spec
INVARIANTS TypeOK NoDangling CleanBetweenCycles IInv
