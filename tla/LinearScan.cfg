CONSTANTS
  v1 = v1  v2 = v2  v3 = v3  v4 = v4
  NoInterval = NoInterval
  Vals <- FourVals
  Positions <- UpTo3
  kNumRegs = 2
SPECIFICATION FairSpec
INVARIANTS
  TypeOK NoAssertionFails NoRegisterConflict StackSlotsDistinct
  PoolMatchesActive SpillOnlyUnderPressure MinimalSpills
PROPERTIES
  Termination AssignmentSpec
CHECK_DEADLOCK FALSE
