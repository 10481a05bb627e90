CONSTANTS
  NoNode = NoNode
  NoCheck = NoCheck
  Nodes <- FourNodes
  Graphs <- CheckGraphs
  Placements <- AllPlacements
SPECIFICATION CeSpec
INVARIANTS ErasedCoveredByTree NoneRedundant FreedReadForReasons
