SPECIFICATION Spec
CONSTANTS
  Jobs = {j1}
  Workers = {w1, w2}
  MaxRetries = 3
  ImportUnits = 2
  Consumed = {"default", "images"}
INVARIANTS TypeOK OneAttempt CompletedDidWork FinishedLeavesNoFile
PROPERTIES FinishedStaysFinished PublishedJobsEnd
CHECK_DEADLOCK FALSE
