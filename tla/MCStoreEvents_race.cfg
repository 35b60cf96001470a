CONSTANTS
  k1 = k1
  k2 = k2
  k3 = k3
  c1 = c1
  c2 = c2
  c3 = c3
  NoClient = NoClient
  Keys <- TwoKeys
  Clients <- ThreeClients
  KeyOf <- RaceForOneKey
  MinSize <- UnequalSizes
  TTL = 2
  ReplayTTL = 1
  MaxEntries = 2
  MaxBytes = 4
  MaxRecordBytes = 3
  CreateWait = 1
  CleanupInterval = 1
  InflightOverhead = 1
  Extras = {0, 2}
  DrainBatch = 1
  MaxClock = 4
SPECIFICATION ObservedSpec
SYMMETRY Racers
INVARIANTS
  TypeOK
  ExpiryIndex
  Accounted
  WithinLimits
  CreatorOwnsKey
  NoLostWaiter
  VersionsIdentify
  GaugesAgree
PROPERTIES
  OnlyExpiredRecordsLeave
  RestoredByItsReader
  KeepsPromise
