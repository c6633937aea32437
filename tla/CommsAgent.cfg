SPECIFICATION Spec
CONSTANTS
  MaxRequests = 4
  MaxFrames = 1
  Leftovers = {0, 1}
  MaxCommands = 2
  Producers <- MCProducers
  Inputs <- AllInputs
INVARIANTS
  WokenByOwnReply
  SuccessIffApplied
  StrayTokensFromTimeouts
  NoLostWakeup
  ResponsesInOrder
  GroupFollowsWarp
PROPERTY
  WarpSpec
CHECK_DEADLOCK FALSE
