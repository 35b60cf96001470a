CONSTANTS
  low = low
  middle = middle
  high = high
  twin = twin
  Prefix <- OneLetter
  Types <- AllTypes
  Priority <- Priorities
  NameOrder <- Names
  Inputs <- AllInputs
  Examples <- AllExamples
SPECIFICATION EvaluationSpec
CHECK_DEADLOCK FALSE
INVARIANTS
  MasksExactly
  RestoresText
  FailsClosed
  HighestTypeWins
  ReportIsHonest
