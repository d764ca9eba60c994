SPECIFICATION Spec
CONSTANTS
  Process = {p1, p2, p3}
  Modes = {"try"}
  Faults = {"kill"}
  Nobody = Nobody
INVARIANTS OneHolder
CHECK_DEADLOCK FALSE
