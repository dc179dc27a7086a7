CONSTANTS
  c1 = c1
  c2 = c2
  Main = Main
  Coros <- TwoCoros
  MaxFrames = 3
  StackLimit = 5
  Headroom = 1
  MaxOperands = 1
  MaxCalls = 8
  MaxTries = 2
  Uses <- CoreOnly
SYMMETRY SymmetryCoros
SPECIFICATION Spec
INVARIANTS TypeOK RunOwnsItsFrames NativeFindsItsStack OverrunWithinOneFrame HandlersNested FramesNested YieldIsConsumed RunningIffResumed IInv
