SPECIFICATION Spec
CONSTANTS
  NULL = NULL
  Lib = {"nccl", "oneccl", "eccl"}
  exports <- MCExports
  OtherName = {"typo", "libnccl.dylib"}
  LongName = {}
  DylibOf <- MCDylibOf
  Platform = "linux"
  Envs <- MCBackends
  Hosts <- MCNamedHosts
  BackendResults <- MCNegativeResults
  PeerIds <- MCPeerIds
INVARIANT AnyNonzeroIsUnhandled
