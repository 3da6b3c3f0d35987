CONSTANTS
  Variants <- OwnNames
  Unparsed = Unparsed
  None = None
  TopK = 5
  Whole = 10
  ClassLists <- SmallClassLists
  HeadsOf <- SmallHeads
  ShapsOf <- SmallShaps
  NInstances = 3
  Operators <- RegisteredOperators
  Designated <- RegisteredDesignations
  Scale = 120
  SensPercent = 90
  SpecPercent = 90
  RegisteredPoint <- RegisteredPoints
  ErasureK = 5
SPECIFICATION Spec
CHECK_DEADLOCK FALSE
INVARIANTS EveryPairSeparates OperatingPointsAreBest OneClassThroughout
