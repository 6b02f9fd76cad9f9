SPECIFICATION Spec
CONSTANTS
  NULL = NULL
  Lib = {"nccl", "oneccl", "eccl"}
  exports <- MCExports
  OtherName = {"typo", "libnccl.dylib"}
  LongName = {}
  DylibOf <- MCDylibOf
  Platform = "linux"
  Envs <- MCBackends
  Hosts <- MCNamedHosts
  BackendResults = {0, 1, 2}
  PeerIds <- MCPeerIds
INVARIANTS LastErrorExact ResultsHonest IdNeverMisread IdRoundTrip LibraryPathIsLoaded
PROPERTIES ImplementsService
