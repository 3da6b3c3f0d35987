CONSTANTS
  Procs = {p1, p2}
  Requests = {r1, r2}
  Pinned = {r1}
  Texts = {t1, t2}
  None = None
SPECIFICATION Spec
INVARIANTS OneAnswer ServedIsRecorded ReplaysAgree
PROPERTY ImplementsStore
