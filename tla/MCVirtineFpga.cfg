CONSTANTS
  Bits = {b1}
  NUM_POSSIBLE_VIRTINES = 2
  CPUs = {c1, c2}
  MainLoop = MainLoop
  CleanupThread = CleanupThread
  NoOne = NoOne
  BatchFactors = {1, 3}
  HostAccesses <- SmallGuest
  CleanState <- ModelCleanState
  CleanStateSize <- ModelCleanStateSize
SYMMETRY SymmetricCPUs
SPECIFICATION Spec
INVARIANTS
  TypeOK LockDiscipline CqWellFormed CleanedBound NotifyFindsWork
  NotifyOnlyWhileMsiReady UninitIsLast
CHECK_DEADLOCK FALSE
