CONSTANTS
  Capacity = 3
  Reserved = 1
  TimeMax = 1
  OfferedClasses = {0, 3, 7}
  IdMod = 16
  MaxOffers = 5
SPECIFICATION Spec
INVARIANTS FaultsProtected CountersAccount FifoWithinClass
CHECK_DEADLOCK FALSE
