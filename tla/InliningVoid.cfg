CONSTANTS
  Insts <- AllInsts
  BBs <- AllBBs
  Caller = "main"
  Programs <- VoidCall
SPECIFICATION Spec
INVARIANTS VoidCallsKeepMeaning
