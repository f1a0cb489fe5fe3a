SPECIFICATION PostingTreeSpec
CONSTANTS
  PostingKey = {1, 2, 3, 4, 5, 6, 7, 8, 9, 10}
  PostBatch = 2
  LeafBatch = 2
  LeafMax = 3
  LeafSplit = 2
  LeafMin = 2
  TreeFanout = 4
  TreeNodeMin = 2
INVARIANTS CursorIsExact
CHECK_DEADLOCK FALSE
