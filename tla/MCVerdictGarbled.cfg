CONSTANTS
  Inputs <- MCInputs
  MaxLines = 2
  MaxFaults = 0
SPECIFICATION Spec
INVARIANT GarbledFailsJob
CHECK_DEADLOCK FALSE
