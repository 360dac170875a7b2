\* Two executors and a reconciler on one dedupe key.
SPECIFICATION RSpec
CONSTANTS
  k1 = k1
  p1 = p1
  p2 = p2
  e1 = e1
  e2 = e2
  r1 = r1
  Keys = {k1}
  Permissions <- MCPermissions
  PermissionAllowlist <- MCAllowlist
  Executors = {e1, e2}
  Reconcilers = {r1}
  Items <- MCItems
  MaxFaults = 1
  AuditBound = 1
  MaxReconciles = 2
  MaxRetryLimit = 2
SYMMETRY Symmetric
INVARIANTS
  LaunchBound
  SharedAuditReplaysRow
PROPERTIES
  ReconcilerKeepsSuccess
  CompleteEvidenceIsSafe
CHECK_DEADLOCK FALSE
