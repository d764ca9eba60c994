SPECIFICATION Spec
CONSTANTS
  Message = {m1, m2}
  Anonymous = {m2}
  Bare = {}
  Resuming = {m2}
  Chat = {home, c1}
  Worker = {w1, w2}
  Faults = {"lock", "mark", "abandon", "kill", "send"}
  MaxJobs = 2
  Home = home
  NoChat = NoChat
  Nothing = Nothing
  NoOne = NoOne
  Instant <- StoppedClock
INVARIANTS NoJobInTwoHands ResultMatchesQueue MirrorTellsTruth
PROPERTIES FinishedStays KeepsPromise
SYMMETRY Symmetry
