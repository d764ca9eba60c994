SPECIFICATION FairSpec
CONSTANTS
  Chat = {home}
  NoChat = NoChat
  PollLimit = 1
  ReplayLimit = 0
  Faults = {"exit", "deaf", "error", "wait", "spawn", "poll", "daemon"}
  MaxMessages = 2
  MaxFaults = 1
  Room = 1
  RepeatedExits = 1
INVARIANTS OneStreamPerChat PollFlagHonest
PROPERTIES MissedAreSeen StreamsComeBack
