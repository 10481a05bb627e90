CONSTANTS
  BBs = {b1, b2, b3}
  MaxSucc = 2
SYMMETRY Symmetry
SPECIFICATION Spec
INVARIANTS LinksPaired LinksFollowTerminator
PROPERTY AbortOnlyBeyondTwo
CHECK_DEADLOCK FALSE
