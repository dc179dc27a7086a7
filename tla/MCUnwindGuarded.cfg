CONSTANTS
  c1 = c1
  c2 = c2
  Main = Main
  Coros <- NoCoros
  MaxFrames = 3
  StackLimit = 8
  Headroom = 2
  MaxOperands = 1
  MaxCalls = 5
  MaxTries = 2
  Uses <- Guarded
SPECIFICATION Spec
INVARIANTS RunOwnsItsFrames
