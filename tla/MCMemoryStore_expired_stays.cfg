CONSTANTS
  k1 = k1
  k2 = k2
  k3 = k3
  c1 = c1
  c2 = c2
  c3 = c3
  NoClient = NoClient
  Keys <- OneKey
  Clients <- ThreeClients
  KeyOf <- SameKey
  MinSize <- EqualSizes
  TTL = 2
  ReplayTTL = 1
  MaxEntries = 2
  MaxBytes = 6
  MaxRecordBytes = 3
  CreateWait = 1
  CleanupInterval = 1
  InflightOverhead = 1
  Extras = {0, 2}
  DrainBatch = 1
  MaxClock = 4
SPECIFICATION Spec
SYMMETRY AllClients
PROPERTIES
  ExpiredStaysExpired
