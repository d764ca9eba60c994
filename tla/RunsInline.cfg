SPECIFICATION FairSpec
CONSTANTS
  Process = {engine}
  Front = engine
  Worker = engine
  Job = {j1, j2}
  Owner <- InlineOwner
  MaxAttempts = 2
  NoJob = NoJob
  Faults = {"save", "spawn", "io", "heirs", "kill"}
INVARIANTS OneAgentPerJob FinishedMeansGone CancelSticks
PROPERTIES RecordsKept RunsEnd
CHECK_DEADLOCK FALSE
