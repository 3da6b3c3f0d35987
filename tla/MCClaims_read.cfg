CONSTANTS
  Variants <- SmallVariants
  Unparsed = Unparsed
  None = None
  TopK = 2
  Attributions <- SmallAttributions
  Texts <- SmallTexts
  RepliesTo <- SmallReplies
  NameOf <- SmallNames
SPECIFICATION ClaimsSpec
CHECK_DEADLOCK FALSE
INVARIANTS TemplateRoundTrips SentencesAreLocal SilenceIsNotScored
