SPECIFICATION Spec
CONSTANTS
  NULL = NULL
  Lib = {"nccl", "oneccl", "eccl"}
  exports <- MCExports
  OtherName = {"typo", "libnccl.dylib"}
  LongName = {}
  DylibOf <- MCDylibOf
  Platform = "macos"
  Envs <- MCBackends
  Hosts <- MCNamedHosts
  BackendResults = {0, 1, 2}
  PeerIds <- MCPeerIds
INVARIANT LibraryPathIsLoaded
