CONSTANTS
  Bits = {b1}
  NUM_POSSIBLE_VIRTINES = 2
  Processes = {p1, p2}
  Isr = isr
  CPUs = {p1, p2, isr}
  MainLoop = MainLoop
  CleanupThread = CleanupThread
  NoOne = NoOne
  BatchFactors = {2}
  HostAccesses <- DriverAccesses
  CleanState <- LowVirtine
  CleanStateSize <- ModelCleanStateSize
  Virtines <- TwoVirtines
  Snapshots <- OneSnapshot
  Calls <- WriterAndController
  Closers = {p2}
SPECIFICATION DriverSpec
INVARIANTS DriverTypeOK Conservation NoStrandedCompletion 
CHECK_DEADLOCK FALSE
