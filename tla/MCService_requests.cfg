CONSTANTS
  k1 = k1
  c1 = c1
  c2 = c2
  c3 = c3
  t1 = t1
  t2 = t2
  m = m
  s = s
  mix = mix
  mix1 = mix1
  mix2 = mix2
  NoClient = NoClient
  NoText = NoText
  Keys <- OneKey
  Clients <- ThreeClients
  KeyOf <- SameKey
  MinSize <- UnitSize
  Texts <- AllTexts
  MaskWith <- Masks
  Substitute <- Substitutions
  Workloads <- EveryWorkload
  Policy <- Consumers
  TTL = 2
  ReplayTTL = 1
  MaxEntries = 1
  MaxBytes = 0
  MaxRecordBytes = 0
  CreateWait = 1
  CleanupInterval = 0
  InflightOverhead = 1
  Extras = {0}
  DrainBatch = 1
  MaxClock = 3
SPECIFICATION ServiceSpec
SYMMETRY Maskers
INVARIANTS
  ServiceTypeOK
  MasksOwnText
  RestoresWhatWasMasked
  OneOriginalPerRecord
  CompletedByRestore
