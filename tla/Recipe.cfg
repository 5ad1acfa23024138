CONSTANTS
  IntMax = 7
  Recipes <- MCRecipes
  SignalIds = {"a", "b", "c"}
  StoreSlots = 2
  VariableCapacity = 1
  Interfaces = {"can0"}
  Bindings <- MCBindings
  Messages <- MCMessages
  TimerIds <- MCTimerIds
  BusCapacity = 4
  Ingress <- MCIngress
  External <- MCExternal
  TimeMax = 3
  MaxInputs = 4
  MaxDispatches = 4
  Hooks = {"log", "fault"}
  Nil = Nil
SPECIFICATION Spec
INVARIANT NoSilentChange
PROPERTIES ConsequencesFirst DrainEnds
CHECK_DEADLOCK FALSE
