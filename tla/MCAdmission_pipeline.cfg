CONSTANTS
  n1 = n1
  n2 = n2
  n3 = n3
  Conns <- ThreeConns
  MaxActive = 2
  TotalBudget = 18
  MaxBody = 4
  Lengths <- SomeLengths
  Word = 1024
SPECIFICATION HandlerSpec
SYMMETRY AnyOrder
INVARIANTS
  HandlerTypes
  CapacityAccounted
  SharesAccounted
  LengthsBounded
  AnswersRecorded
  NobodyWaits
