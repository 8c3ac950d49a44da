CONSTANTS
  Inputs <- MCInputs
  MaxLines = 2
  MaxFaults = 1
SPECIFICATION Spec
INVARIANTS TypeOK ViolationFailsJob OnlyViolationsFail EntryPointsAgree ShipsOwnReport
PROPERTY FailFastSees
CHECK_DEADLOCK FALSE
