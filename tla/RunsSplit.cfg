SPECIFICATION Spec
CONSTANTS
  Process = {transport, worker}
  Front = transport
  Worker = worker
  Job = {j1}
  Owner <- SplitOwner
  MaxAttempts = 2
  NoJob = NoJob
  Faults = {}
INVARIANTS CancelFindsJob
CHECK_DEADLOCK FALSE
