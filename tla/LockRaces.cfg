SPECIFICATION FairSpec
CONSTANTS
  Process = {p1, p2}
  Modes = {"try", "wait", "ask"}
  Faults = {"kill", "disk"}
  Nobody = Nobody
INVARIANTS IInv ExclusiveUntilStolen SerialStartsSafe
PROPERTIES WaiterTakesOver
CHECK_DEADLOCK FALSE
