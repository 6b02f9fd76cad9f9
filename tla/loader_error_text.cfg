SPECIFICATION Spec
CONSTANTS
  NULL = NULL
  Lib = {"nccl", "oneccl"}
  exports <- MCExports
  OtherName = {"typo", "libnccl.dylib", "libccl.dylib"}
  LongName = {}
  DylibOf <- MCDylibOf
  Platform = "linux"
  Hosts <- MCHosts
  Paths <- MCPaths
INVARIANTS PrimaryReported
CHECK_DEADLOCK FALSE
