SPECIFICATION FairSpec
CONSTANTS
  Shapes <- PlainShapes
  MaxRequests = 2
  TextLen = 2
  Statuses = {200, 404}
  Pieces = {0, 1, 2}
  Bodies = {0, 3}
  AnswerMax = 3
  ChunkMax = 2
CHECK_DEADLOCK FALSE
INVARIANTS
  TypeOK
  RequestsIntact
  ResponsesDecodable
PROPERTIES
  ImplementsExchange
  EveryRequestAnswered
