\* One executor, two fields revised of all the deciders look at, restarts.
SPECIFICATION ReadinessSpec
CONSTANTS
  k1 = k1
  k2 = k2
  p1 = p1
  p2 = p2
  Keys = {k1, k2}
  Permissions <- MCPermissions
  PermissionAllowlist <- MCAllowlist
  StartItems <- MCStartItems
  FieldValues <- MCFieldValues
  StartPrep <- MCStartPrep
  PrepValues <- MCPrepValues
  StartCost <- MCStartCost
  CostValues <- MCCostValues
  MaxEdits = 2
  MaxAttempts = 3
INVARIANTS
  OnlyLegalDispatch
  BooksBalance
  DecidersAgree
  CostSound
