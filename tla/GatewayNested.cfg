CONSTANTS
  IntMax = 7
  Order <- MCOrder
  Machine <- MCMachine
  Def <- MCDef
  Signals = {"in", "out"}
  SignalRead = {"in", "out"}
  SignalWrite = {"out"}
  Capability <- MCCapability
  Bindings <- MCBindings
  Namespace <- MCNamespace
  QueueCapacity = 4
  BusCapacity = 4
  MaxChain = 3
  MaxActions = 4
  MaxEvents = 2
  None = None
  Ingress <- MCIngress
  External <- MCExternal
  Periods = {3}
  TimeMax = 7
  TimeTop = 7
  CountMod = 3
  MaxDispatches = 3
  MaxInputs = 1
  MaxOrders = 2
  MaxCallbacks = 1
SPECIFICATION Spec
CHECK_DEADLOCK FALSE
INVARIANT NoNestedActivation
