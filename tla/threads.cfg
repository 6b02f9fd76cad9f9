SPECIFICATION ThreadsSpec
CONSTANTS
  NULL = NULL
  Lib = {"nccl", "onenoid", "onegap"}
  exports <- MCExports
  OtherName = {"nccl", "onenoid", "onegap"}
  LongName = {}
  DylibOf <- MCDylibOf
  Platform = "linux"
  Envs <- MCEnvs
  Hosts <- MCHosts
  BackendResults = {0, 1}
  PeerIds <- MCPeerIds
  Thread = {t1, t2, t3}
  Ops = {"allreduce", "get_unique_id", "comm_init_rank"}
INVARIANTS ThreadsTypeOK NoCallOutlivesItsLibrary FailureNotForgotten
PROPERTIES CallsAreAtomic
