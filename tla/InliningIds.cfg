CONSTANTS
  Insts <- AllInsts
  BBs <- AllBBs
  Caller = "main"
  Programs <- BranchingCall
SPECIFICATION Spec
INVARIANTS BlocksToldApart
