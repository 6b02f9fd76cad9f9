SPECIFICATION Spec
CONSTANTS
  World = 3
  MAX_TRIES = 2
  UidBytes = 2
  FAULTS = {"init", "write", "flush", "rename", "device", "native", "crash", "interrupt", "slow"}
INVARIANTS TypeOK WholeIdOnly VerdictHonest KeptWhilePolled PartialOnlyUnflushed FailureHasCause NoCircularWait
PROPERTIES EveryStepAdvances ImplementsRendezvous PollEnds NoDeadlockOfItsOwn PassesWithoutFaults
CHECK_DEADLOCK FALSE
