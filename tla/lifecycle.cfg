SPECIFICATION FairSpec
CONSTANTS
  u1 = u1
  u2 = u2
  Services = {u1, u2}
  SettleWait = 2
  Off = Off
  MaxUpsets = 2
  MaxFaults = 1
CHECK_DEADLOCK FALSE
INVARIANTS CheckedMeansRan BudgetSpent OkMeansVerified
PROPERTIES Returns
