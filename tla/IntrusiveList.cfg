CONSTANTS
  l1 = l1
  l2 = l2
  n1 = n1
  n2 = n2
  n3 = n3
  n4 = n4
  Lists <- TwoLists
  Nodes <- FourNodes
  Null = Null
SPECIFICATION FairSpec
INVARIANTS TypeOK ListsPartitionNodes
PROPERTIES LoopsTerminate ListSpecImplemented
CHECK_DEADLOCK FALSE
