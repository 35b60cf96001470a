SPECIFICATION FairLoadSpec
CONSTANTS
  Callers <- TwoAndProducer
  Workers <- TwoWorkers
  Producer <- OneProducer
  Configs <- DelayedRun
  MaxAttempts = 2
  MaxInvalid = 2
  SlotQueue = 1
  QueueSize = 1
  MaxBurst = 1
  Unit = 1
  Accruals <- Ticks
  Answers <- SomeAnswers
  Endings <- Deadline
PROPERTY SleepersAreWoken
