SPECIFICATION Spec
CONSTANTS
  NULL = NULL
  Lib = {"nccl", "dual", "rccleccl"}
  exports <- MCExports
  OtherName = {"nccl", "dual", "rccleccl", "long", "libnccl.dylib"}
  LongName = {"long"}
  DylibOf <- MCDylibOf
  Platform = "linux"
  Envs <- MCPaths
  Hosts <- MCFileHosts
  BackendResults = {0}
  PeerIds = {}
INVARIANT IdentifiedInDocumentedOrder
