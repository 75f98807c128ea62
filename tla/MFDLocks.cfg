SPECIFICATION Spec
CONSTANTS
  NumUsers = 2
  Tokens = {"prnt"}
  Prnt = "prnt"
  DAY = 2
  vestDuration = 4
  rewardsDuration = 2
  minDLPBalance = 2
  PRECISION = 1
  RPT_PRECISION = 1
  LockTypeInfos <- TwoTables
  InitLockTypeInfo <- DayLocks
  Lookbacks = {1}
  operationExpenseRatio = 0
  AddableRewards = {}
  RemovableRewards = {}
  StakeAmounts = {2}
  VestAmounts = {}
  WithdrawAmounts = {}
  FeeAmounts = {}
  Limits = {0, 1}
  ConfigUsers = {1}
  PauseStatuses = {}
  StartTime = 1
  MaxTime = 5
  MaxSupply = 6
  MaxVested = 0
  FeeBudgets <- NoFees
INVARIANTS
  LocksMatchBalances
  SuppliesMatch
  LocksSorted
PROPERTIES
  LockedUntilExpiry
  BountyPaidOnce
