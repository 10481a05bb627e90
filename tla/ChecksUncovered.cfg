CONSTANTS
  NoNode = NoNode
  NoCheck = NoCheck
  Nodes <- SixNodes
  Graphs <- SkippedConditions
  Placements <- TwoZeroChecks
SPECIFICATION CeSpec
INVARIANTS ErasedCovered
