SPECIFICATION Spec
CONSTANTS
  Jobs = {j1}
  Workers = {w1, w2}
  MaxRetries = 3
  ImportUnits = 2
  Consumed = {"default", "images"}
PROPERTY ImportStatesForward
CHECK_DEADLOCK FALSE
