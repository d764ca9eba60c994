SPECIFICATION FairSpec
CONSTANTS
  Message = {m1, m2, m3}
  Anonymous = {}
  Bare = {m2}
  Resuming = {m3}
  Chat = {home, c1}
  Worker = {w1}
  Faults = {"enqueue", "session", "exit"}
  MaxJobs = 3
  Home = home
  NoChat = NoChat
  Nothing = Nothing
  NoOne = NoOne
  Instant <- Clock
INVARIANTS JournaledIsHandled FollowUpWaits RunsInOrder
PROPERTIES CommandsAnswered JobsFinish
