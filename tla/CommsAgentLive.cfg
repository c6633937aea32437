SPECIFICATION FairSpec
CONSTANTS
  MaxRequests = 4
  MaxFrames = 0
  Leftovers = {0, 1}
  MaxCommands = 2
  Producers <- MCProducers
  Inputs <- FewInputs
PROPERTIES
  ImplementsService
  EveryCommandServed
  LatestResponsePublished
CHECK_DEADLOCK FALSE
