SPECIFICATION Spec
CONSTANTS
  c1 = c1
  c2 = c2
  Long = 4
  Short = 2
  Cards = {c1, c2}
  Procs = {p1, p2}
  Fields = {photo}
  UniqueFields = {photo}
  ImageFields = {photo}
  Values = {v1}
  Blank = Blank
  Absent = Absent
  Overlap = FALSE
  MaxVersion <- Versions
  MaxHistory <- Entries
SYMMETRY SameWorkers
CONSTRAINT Small
INVARIANTS LiveValuesRegistered LiveValuesDistinct HistoryTellsStatus
PROPERTIES ImplementsAtomicCards EditsSeeCurrentData AcceptedEditsSurvive
CHECK_DEADLOCK FALSE
