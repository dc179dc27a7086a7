CONSTANTS
  x1 = x1
  x2 = x2
  b1 = b1
  b2 = b2
  c1 = c1
  Main = Main
  Vals <- Values
  Nil = 0
  Cells <- TwoCells
  Vars <- TwoVars
  Coros <- OneCoro
  LoopSlot = 0
  PlainSlot = 1
  MaxFrames = 2
  MaxCaptures = 1
  MaxStrayed = 1
  MaxLive = 3
  MaxClosures = 2
  OutsideLoop = TRUE
SYMMETRY SymmetryIds
SPECIFICATION Spec
INVARIANTS TypeOK CellsFollowTheirVariable LocalsAreShared OpenListsSound IInv
