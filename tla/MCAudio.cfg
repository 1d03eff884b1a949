CONSTANTS
  Chunk = 2
  Frame = 2
  Needs = {3}
  Rounds = 2
  Made = 9
SPECIFICATION FairSpec
INVARIANTS TypeOK PullFits NoRace InOrder
PROPERTIES NothingVanishes OverflowMeansGaveUp WaitEnds BufferDrains
CHECK_DEADLOCK FALSE
