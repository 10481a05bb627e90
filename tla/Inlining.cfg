CONSTANTS
  Insts <- AllInsts
  BBs <- AllBBs
  Caller = "main"
  Programs <- AllPrograms
SPECIFICATION Spec
INVARIANTS InliningKeepsMeaning GraphFollowsCode OnlyCallsAndReturnsStale EverythingPlacedOnce AbortsHaveReasons
