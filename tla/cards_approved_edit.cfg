SPECIFICATION Spec
CONSTANTS
  c1 = c1
  c2 = c2
  Long = 4
  Short = 2
  Cards = {c1}
  Procs = {p1}
  Fields = {name}
  UniqueFields = {name}
  ImageFields = {}
  Values = {v1}
  Blank = Blank
  Absent = Absent
  Overlap = FALSE
  MaxVersion <- Versions
  MaxHistory <- Entries
SYMMETRY SameWorkers
PROPERTY ApprovedDataLocked
CHECK_DEADLOCK FALSE
