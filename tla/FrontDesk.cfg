SPECIFICATION Spec
CONSTANTS
  Chat = {home, work}
  Ask = {a1}
  Sender = {alice, bob}
  Process = {service}
  None = None
  PinRequired = TRUE
  Faults = {"approvals", "sessions", "config", "group", "queue", "kill", "opener", "operator"}
  MaxStrikes = 3
SYMMETRY AlikeSenders
INVARIANTS RunsOnce OnePairing StaysPaired JobChatsAnswer
PROPERTY KeepsDecisions
