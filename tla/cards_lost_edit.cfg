SPECIFICATION Spec
CONSTANTS
  c1 = c1
  c2 = c2
  Long = 4
  Short = 2
  Cards = {c1}
  Procs = {p1, p2}
  Fields = {name}
  UniqueFields = {name}
  ImageFields = {}
  Values = {v1}
  Blank = Blank
  Absent = Absent
  Overlap = TRUE
  MaxVersion <- Versions
  MaxHistory <- Entries
SYMMETRY SameWorkers
PROPERTY AcceptedEditsSurvive
CHECK_DEADLOCK FALSE
