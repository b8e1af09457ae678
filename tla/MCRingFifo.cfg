CONSTANTS
  Bits = {b1}
  NUM_POSSIBLE_VIRTINES = 4
SPECIFICATION Spec
INVARIANTS TypeOK RingWellFormed
PROPERTY ImplementsFifo
