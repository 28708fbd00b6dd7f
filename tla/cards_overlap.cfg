SPECIFICATION Spec
CONSTANTS
  c1 = c1
  c2 = c2
  Long = 4
  Short = 2
  Cards = {c1}
  Procs = {p1, p2}
  Fields = {photo}
  UniqueFields = {}
  ImageFields = {photo}
  Values = {}
  Blank = Blank
  Absent = Absent
  Overlap = TRUE
  MaxVersion <- Versions
  MaxHistory <- Entries
SYMMETRY SameWorkers
INVARIANTS TypeOK PrintedWasApproved ApprovalInvariant StatusWasReached
CHECK_DEADLOCK FALSE
