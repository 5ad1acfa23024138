CONSTANTS
  Capacity = 6
  Reserved = 2
  TimeMax = 0
  OfferedClasses = {0, 3}
  IdMod = 16
  MaxOffers = 7
  MaxPublished = 1
SPECIFICATION Spec
PROPERTY ImplementsEventQueue
CHECK_DEADLOCK FALSE
