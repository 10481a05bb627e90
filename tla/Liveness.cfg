CONSTANTS
  NoNode = NoNode
  Nodes <- SixNodes
  Graphs <- AllGraphs
  Programs <- AllPrograms
SPECIFICATION LiveFairSpec
INVARIANTS
  LiveTypeOK PostOrderTopological BackEdgesCloseCycles TreeWellFormed
  BodiesNatural LoopsInnermost LoopsContiguous IntervalsKeepApart RangesComplete
PROPERTIES WalksEnd
