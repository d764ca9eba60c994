SPECIFICATION FairSpec
CONSTANTS
  Process = {engine}
  Front = engine
  Worker = engine
  Job = {j1}
  Owner <- InlineOwner
  MaxAttempts = 2
  NoJob = NoJob
  Faults = {"heirs"}
PROPERTIES NoneRunsForever
CHECK_DEADLOCK FALSE
