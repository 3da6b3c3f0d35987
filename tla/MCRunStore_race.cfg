CONSTANTS
  Procs = {p1, p2}
  Gates = {"G1"}
  Studies = {"A1"}
  ExtractorGate = "G1"
  c1 = c1
  c2 = c2
  Commits = {c1, c2}
  Version <- Bumped
  None = None
  MaxMinute = 1
  MaxLaunches = 3
SPECIFICATION Spec
SYMMETRY Processes
INVARIANTS CompleteIsWhole StudiesAreGated
PROPERTIES PublishedIsFinal MappedIsFinal
