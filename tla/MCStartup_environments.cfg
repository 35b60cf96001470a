CONSTANTS
  Numbers = {"StoreTTL", "MaxWorkingBytes"}
  BuiltIn = {"email"}
  Environments <- AllEnvironments
  PayloadIDs <- IDs
  Tokens = {"k1", "k2", "k9"}
  Clients = {"c1", "c2"}
SPECIFICATION StartupSpec
INVARIANTS
  ServesWholeConfiguration
  GracefulExit
