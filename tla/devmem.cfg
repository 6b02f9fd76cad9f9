SPECIFICATION Spec
CONSTANTS
  NULL = NULL
  Indeterminate = Indeterminate
  Lib = {"l1", "l2"}
  Function = {"Malloc", "Free"}
  cuda_libs = 2
  hip_libs = 2
INVARIANTS TypeOK OneOpenRuntime FailsOnlyWithoutRuntime CudaPreferred
CHECK_DEADLOCK FALSE
