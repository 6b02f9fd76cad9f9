SPECIFICATION Spec
CONSTANTS
  NULL = NULL
  Lib = {"nccl", "oneccl"}
  exports <- MCExports
  OtherName = {"typo", "libnccl.dylib", "libccl.dylib"}
  LongName = {}
  DylibOf <- MCDylibOf
  Platform = "macos"
  Hosts <- MCHosts
  Paths <- MCPaths
INVARIANTS TypeOK LoadsAsOneStep MisledOnlyByFallback
CHECK_DEADLOCK FALSE
