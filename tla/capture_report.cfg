SPECIFICATION Spec
CONSTANTS
  Requests <- MCRequests
  Flows <- MCFlows
  PATTERNS <- Everything
  TIMEOUT = 1
  SETTLE = 1
  BUDGET = 2
  MaxCalls = 20
CHECK_DEADLOCK FALSE
INVARIANTS ReportedIsAborted
