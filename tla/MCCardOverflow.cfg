CONSTANTS
  Bits = {b1}
  NUM_POSSIBLE_VIRTINES = 2
  CPUs = {c1}
  MainLoop = MainLoop
  CleanupThread = CleanupThread
  NoOne = NoOne
  BatchFactors = {1}
  HostAccesses <- HighGuest
  CleanState <- ModelCleanState
  CleanStateSize <- ModelCleanStateSize
SPECIFICATION Spec
INVARIANT CleanedIsKept
CHECK_DEADLOCK FALSE
