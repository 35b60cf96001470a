CONSTANTS
  n1 = n1
  n2 = n2
  n3 = n3
  Conns <- ThreeConns
  MaxActive = 2
  TotalBudget = 16
  MaxBody = 4
  Lengths <- WrappingLengths
  Word = 32
SPECIFICATION HandlerSpec
SYMMETRY AnyOrder
INVARIANTS
  LengthsBounded
