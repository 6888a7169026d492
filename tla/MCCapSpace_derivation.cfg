SPECIFICATION Spec
CONSTANTS
  Null = null
  UntypedBits = 1
  RootBits = 3
  UserSlots = {2, 3, 4, 5}
  ObjectSizes <- DerivationObjects
  MaxCaps = 7
  MaxRetype = 2
  Badges = {0, 1}
  ResetChunk = 1
  Invocations <- DerivationInvocations
CHECK_DEADLOCK FALSE
INVARIANTS MDBLinks RevokeFinds UntypedCovers
PROPERTIES TreeSpec
