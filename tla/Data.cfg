CONSTANTS
  IntMax = 7
  ByteBits = 3
  WordBits = 7
  DoubleMax = 32
  ClassicBytes = 2
  FdLengths = {3}
  FdTarget = TRUE
  NamespaceCapacity = 2
  Documents <- MCDocuments
  Shapes <- MCShapes
  Inputs <- MCInputs
  ExactMax = 4
  RealMax = 40
  MaxDepth = 14
  Alphabets <- MCAlphabets
  Context <- MCContext
  UMax = 7
  PowerDenominator = 12
  EfficiencyScale = 3
  Requests <- MCRequests
  NameMax = 3
  ExpressionMax = 4
  LogMessageMax = 4
  DescriptionMax = 5
  UIntMax = 5
  CanIdMax = 4
  LongKeys = {"long"}
  CountMax = 9
  SizeOf <- MCSizeOf
  Drafts <- MCDrafts
  Replacements <- MCReplacements
  NewKeys <- MCKeys
  ByteBase = 4
  LengthMax = 4
  SignalLengthMax = 2
  EntriesMax = 5
  Configurations <- MCConfigurations
  Namespace <- MCNamespace
  StoreCapacity = 2
  ClientRequests <- MCClientRequests
  Capacities = {2, 4, 7}
  Writes <- MCWrites
  MaxSteps = 3
  Malformed = Malformed
  None = None
SPECIFICATION MCSpec
INVARIANTS
  
  NamesKeepTheirMeaning
  LoadedSignalsFit
  EvaluatesToMeaning
  CheckPredictsRun
  GuardAndConditionAgree
  CurrentWithinLimit
  MachinesFollowSchema
  RecipesLoadSound
  ReadYourWrites
PROPERTY NoPartialEffect
CHECK_DEADLOCK FALSE
