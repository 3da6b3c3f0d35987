CONSTANTS
  Studies <- RegisteredAndSmoke
  CellsOf <- SmallerSmoke
  Verified = {"b4"}
  Drafts <- TwoDrafts
  Readers = {"judge"}
  Builds <- PulledBuilds
  Pins <- Pinned
  MaxFaults = 1
  None = None
SPECIFICATION FairSpec
INVARIANTS TypeOK ChainNests InstrumentsReadTheseDrafts InstrumentsArePinned RunsAreGatedAndWhole
PROPERTIES EveryStudyIsPublished
