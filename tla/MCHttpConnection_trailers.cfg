SPECIFICATION FairSpec
CONSTANTS
  Shapes <- TrailerShapes
  MaxRequests = 1
  TextLen = 2
  Statuses = {200, 404}
  Pieces = {0, 1, 2}
  Bodies = {0, 3}
  AnswerMax = 3
  ChunkMax = 2
CHECK_DEADLOCK FALSE
INVARIANT RequestsIntact
