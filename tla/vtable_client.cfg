SPECIFICATION Spec
CONSTANTS
  NULL = NULL
  Lib = {"nccl", "oneccl", "onegap", "eccl", "hybrid"}
  exports <- MCExports
  OtherName = {}
  LongName = {}
  DylibOf <- MCDylibOf
  Platform = "linux"
  MAX_REFS = 2
INVARIANTS TypeOK BoundSlotsSound NeverMixedFamily FailedInitLeavesZeros
