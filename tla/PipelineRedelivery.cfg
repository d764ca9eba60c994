SPECIFICATION Spec
CONSTANTS
  Message = {m1, m2}
  Anonymous = {}
  Bare = {m2}
  Resuming = {}
  Chat = {home, c1}
  Worker = {w1}
  Faults = {"append", "lookup", "claim", "exit", "listenerKill", "kill"}
  MaxJobs = 2
  Home = home
  NoChat = NoChat
  Nothing = Nothing
  NoOne = NoOne
  Instant <- StoppedClock
INVARIANTS ExecutedOnce
