CONSTANTS
  Bits = {b1}
  NUM_POSSIBLE_VIRTINES = 2
  Processes = {p1, p2}
  Isr = isr
  CPUs = {p1, p2, isr}
  MainLoop = MainLoop
  CleanupThread = CleanupThread
  NoOne = NoOne
  BatchFactors = {1}
  HostAccesses <- DriverAccesses
  CleanState <- LowVirtine
  CleanStateSize <- ModelCleanStateSize
  Virtines <- TwoVirtines
  Snapshots <- OneSnapshot
  Calls <- WriterAndReader
  Closers = {}
SPECIFICATION DriverSpec
INVARIANT ReadsWholeAddress
CHECK_DEADLOCK FALSE
