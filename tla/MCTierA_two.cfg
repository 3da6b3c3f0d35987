CONSTANTS
  N = 4
  Drafted <- TwoDrafted
  Verified <- TwoVerified
  Cases = {"i1", "i2"}
  Case <- TwoCase
  Template <- TwoTemplate
  Rosters <- TwoRosters
  t1 = t1
  t2 = t2
  Texts = {t1, t2}
  Claims = {x1}
  Scores = {s1}
  None = None
  Fatal = {}
  Rank <- TwoRank
  MaxCrashes = 1
SPECIFICATION Spec
INVARIANTS CompleteMeansComplete
PROPERTIES ImplementsStudy
