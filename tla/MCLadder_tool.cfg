CONSTANTS
  Benign = "BENIGN"
  Attack = "ATTACK"
  Excluded = "excluded"
  MinSupport = 1
  FailurePercent = 50
  MinAttack = 2
  Families = {"xgboost"}
  Registered <- SmallTaxonomy
  KbEntries <- Labels
  RowsOf <- SmallRows
  TrainRows = 7
  NExplain = 5
  MinorityFloor = 2
  StratumOrder <- SortedClasses
  None = None
SPECIFICATION Spec
CHECK_DEADLOCK FALSE
INVARIANTS TaxonomyStaysValid DecisionsApply SplitsStaySound
PROPERTIES NoStaleDecisionApplied
