SPECIFICATION Spec
CONSTANTS
  NULL = NULL
  Lib = {"nccl", "ncclgap", "dual", "hybrid", "onenoid", "onegap", "eccl", "other"}
  exports <- MCExports
  OtherName = {"nccl", "ncclgap", "dual", "hybrid", "onenoid", "onegap", "eccl", "other", "long", "libnccl.dylib"}
  LongName = {"long"}
  DylibOf <- MCDylibOf
  Platform = "linux"
  Envs <- MCPaths
  Hosts <- MCFileHosts
  BackendResults = {0}
  PeerIds = {}
INVARIANTS TypeOK LifecycleCoherent DispatchSafe RefsBalanced GatesTruthful NeverMisidentifiedAsNccl
PROPERTIES DispatchStable
