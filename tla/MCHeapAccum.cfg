CONSTANTS
  o1 = o1
  o2 = o2
  o3 = o3
  Main = Main
  Obj <- Plain3
  Coros <- NoCoros
  Sites <- AccumSites
  StepBudget = 1
  MaxRefs = 1
  MaxTemps = 1
  MaxGlobals = 1
SYMMETRY Symmetry3
SPECIFICATION SitesSpec
INVARIANT HeldObjectsExist
