SPECIFICATION Spec
CONSTANTS
  r1 = r1
  r2 = r2
  Requests = {r1, r2}
  Scenarios <- AllScenarios
  MaxRecords = 2
INVARIANT NoBypass
INVARIANT StrictServedIsRecorded
INVARIANT RefusalLeavesTrace
INVARIANT OutcomeBinding
INVARIANT AuditPinsRecord
