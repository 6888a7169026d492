SPECIFICATION FairSpec
CONSTANTS
  Null = null
  UntypedBits = 2
  RootBits = 2
  UserSlots = {0, 2, 3}
  ObjectSizes <- ZombieObjects
  MaxCaps = 6
  MaxRetype = 2
  Badges = {0}
  ResetChunk = 2
  Invocations <- ZombieInvocations
CHECK_DEADLOCK FALSE
INVARIANTS TypeOK NoCapAssertionFails FinalityKnown NoOverlap CapsInObjects
PROPERTIES DeletionEnds
