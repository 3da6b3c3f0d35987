CONSTANTS
  F1Percent = 70
  Explanations <- Run
  Quota <- OneEach
  Vocabulary = {"f1", "f2", "f3"}
  Mentioned <- Lenient
  ClaimedInRun <- NoneClaimed
  Decoys = 0
  Replies <- FewerReplies
  Rulings = {"absent"}
  Readings <- ReadingSet
  MaxVersion = 2
  MaxBatches = 2
  MaxTokens = 1
  None = None
SPECIFICATION Spec
CHECK_DEADLOCK FALSE
INVARIANTS VerdictIsSymmetric AdjudicationDecides ToolsAgree TokensKeepTheirClaims
