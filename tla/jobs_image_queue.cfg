SPECIFICATION Spec
CONSTANTS
  Jobs = {j1}
  Workers = {w1, w2}
  MaxRetries = 3
  ImportUnits = 2
  Consumed = {"default"}
PROPERTY PublishedJobsEnd
CHECK_DEADLOCK FALSE
