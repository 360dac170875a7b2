\* A commit whose date is ahead keeps the status green beyond the window.
SPECIFICATION Spec
CONSTANTS
  Policies = {"AUTONOMOUS_EXPECTED_WHEN_NEXT_CONTRACT_FROZEN", "PARKED"}
  Runs = {"r"}
  Stale = 1
  Period = 1
  Timeout = 1
  ClockError = 1
  PageSize = 1
  MaxFaults = 0
INVARIANT GreenWithinWindow
