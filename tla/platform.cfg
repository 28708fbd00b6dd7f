SPECIFICATION Spec
CONSTANTS
  d1 = d1
  d2 = d2
  PrintCards = {d1, d2}
  PrintRequests = {r1, r2}
  PrintLists <- Orders
  PrintArrivals = 2
  FlagOrgs = {o1}
  Global = Global
  FlagCheckers = {k1}
  FlagAdmins = {a1, a2}
  FlagChanges = 2
  BackupSessions = {b1}
  Verifiers = {v1}
  Sweepers = {w1, w2}
  BackupFaults = 2
  Notices = {n1}
  Recipients = {u1, u2}
  QueueRead = TRUE
  NoticeFaults = 1
INVARIANTS TypeOK PrintedOnce StaleIsExplained
INVARIANTS KeptBackupsReadable NoFalseAlarm ArchivedIsQuiet
PROPERTIES ImplementsAtomicPrints PrintsEnd StalenessEnds OldBackupsGo NoticesArrive
CHECK_DEADLOCK FALSE
