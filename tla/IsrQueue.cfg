CONSTANTS
  Capacity = 3
  MaxFrames = 6
SPECIFICATION FairSpec
INVARIANTS NoSlotRace Fifo
PROPERTIES EverythingDrained
