CONSTANTS
  Bits = {b1}
  NUM_POSSIBLE_VIRTINES = 2
  CPUs = {c1}
  MainLoop = MainLoop
  CleanupThread = CleanupThread
  NoOne = NoOne
  BatchFactors = {1}
  HostAccesses <- PollingGuest
  CleanState <- ModelCleanState
  CleanStateSize <- ModelCleanStateSize
SPECIFICATION FairSpec
PROPERTIES BellWakesSleeper RoundEnds UnplugCompletes
CHECK_DEADLOCK FALSE
