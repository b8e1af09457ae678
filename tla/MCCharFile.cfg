CONSTANTS
  Drivers <- BothDrivers
  Faults <- FallibleCalls
  MaxFaults = 1
  MaxEnables = 3
  Processes = {p1, p2}
  Handler = handler
  NoFile = NoFile
  Offsets = {0, 2}
  Lengths = {0, 6}
SPECIFICATION CharSpec
SYMMETRY SymmetricProcesses
INVARIANTS CharTypeOK ClaimOwnsAllButFailed  LeftBehind 
PROPERTIES FileUsersFindDevice HandlerFindsDevice NeverShort
CHECK_DEADLOCK FALSE
