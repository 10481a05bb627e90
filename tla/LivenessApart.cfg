CONSTANTS
  NoNode = NoNode
  Nodes <- SixNodes
  Graphs <- BranchInLoop
  Programs <- WithoutPhi
SPECIFICATION LiveSpec
INVARIANTS AllKeptApart
