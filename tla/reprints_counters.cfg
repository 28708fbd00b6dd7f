SPECIFICATION Spec
CONSTANTS
  ExportCards = {e1, e2}
  e1 = e1
  ExportSessions = {s1}
  ExportScopes <- Scopes
  ExportRequests = {w1}
  ExportRetries = 1
  ExportEdits = 1
  k1 = k1
  ReprintCards = {k1}
  ReprintRequests = {r1, r2}
  ReprintWorkers = {w1, w2}
  CardOf <- OneCard
  WithDraft = {r1}
  MaxPrinted = 2
  ImportSessions = {i1}
  Creators = {p1}
  ImportRows = 3
  ChunkSize = 2
  ImportValues = {v1}
  ValueOf <- Repeated
  NoValue = NoValue
  ImportRetries = 1
  MaxNumber = 8
  Images = {m1, m2}
  ImageFields = {f1, f2}
  ImageWorkers = {t1, t2}
  MaxReferences = 3
  NoImage = NoImage
  SandboxCards = {c1}
  SandboxNew = {x1}
  SandboxCalls = {r1, r2}
PROPERTY ApprovalCounts
CONSTRAINTS OneSavedByOthers SavesAlone
CHECK_DEADLOCK FALSE
