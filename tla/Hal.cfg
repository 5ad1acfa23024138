SPECIFICATION Spec
CONSTANTS
  NIfaces = 2
  FdIfaces = {1}
  RxCapacity = 1
  TxCapacity = 2
  Backends = {"socketcan", "mock"}
  Arrivals <- MCArrivals
  SendResults = {"sent", "again", "down", "error"}
  ScheduledFaults = {"BUS_OFF", "BUS_ERROR_PASSIVE"}
  MaxFrames = 3
INVARIANTS NoSilentLoss FramesInOrder TxAccounting
PROPERTY CallsReturn
