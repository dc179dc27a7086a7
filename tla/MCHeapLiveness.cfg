CONSTANTS
  o1 = o1
  o2 = o2
  c1 = c1
  Main = Main
  Obj <- OneAndCoro
  Coros <- OneCoro
  StepBudget = 2
  MaxRefs = 1
  MaxTemps = 1
  MaxGlobals = 1
SPECIFICATION FairSpec
PROPERTIES GarbageFreed ImplementsSafeHeap
