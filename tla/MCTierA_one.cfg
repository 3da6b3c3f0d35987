CONSTANTS
  N = 3
  Drafted <- OneDrafted
  Verified <- OneVerified
  Cases = {"i1"}
  Case <- OneCase
  Template <- OneTemplate
  Rosters <- OneRoster
  t1 = t1
  t2 = t2
  Texts = {t1, t2}
  Claims = {x1, x2}
  Scores = {s1, s2}
  None = None
  Fatal = {s2}
  Rank <- OneRank
  MaxCrashes = 2
SPECIFICATION FairSpec
INVARIANTS OneModelAtATime RunsReplay
PROPERTIES ScoringReplays EveryStudyPublishes
