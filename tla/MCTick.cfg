SPECIFICATION FairSpec
CONSTANTS
  MaxDepth = 3
  MaxSends = 1
  MaxAsks = 1
INVARIANTS OneServing ForegroundFree SendUndisturbed FramesHandedOver
PROPERTY TickReturns
