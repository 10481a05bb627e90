CONSTANTS
  None = None
  Insts <- SevenInsts
  MaxInputs = 2
  Bits <- SmallBits
  Programs <- AllPrograms
SPECIFICATION PassesSpec
INVARIANTS PassesTypeOK MeaningKept BlockHoldsAlive StopsHaveReasons
