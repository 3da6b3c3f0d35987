CONSTANTS
  Runs = {1, 2}
  m1 = m1
  m2 = m2
  None = None
  Contents <- MCContents
  Keys <- MCKeys
  Configs = {1, 2}
  Plans <- MCPlans
  Latest = {2}
  Choices <- MCChoices
  GateMin = 1
  Threshold = 1
  Params <- MCParams
SPECIFICATION Spec
INVARIANTS ManifestNamesItsRuns EnumeratedReproduces
