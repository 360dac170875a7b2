\* One other run, a page of one commit, one request that fails.
SPECIFICATION Spec
CONSTANTS
  Policies = {"AUTONOMOUS_EXPECTED_WHEN_NEXT_CONTRACT_FROZEN", "PARKED"}
  Runs = {"r"}
  Stale = 1
  Period = 1
  Timeout = 1
  ClockError = 1
  PageSize = 1
  MaxFaults = 1
INVARIANTS
  SteadyRunCounted
  GreenExpires
PROPERTIES
  IssueFollows
