SPECIFICATION Spec
CONSTANTS
  NumUsers = 1
  Tokens = {"prnt"}
  Prnt = "prnt"
  DAY = 2
  vestDuration = 4
  rewardsDuration = 2
  minDLPBalance = 2
  PRECISION = 1
  RPT_PRECISION = 1
  LockTypeInfos <- OneTable
  InitLockTypeInfo <- DayLocks
  Lookbacks = {1}
  operationExpenseRatio = 0
  AddableRewards = {}
  RemovableRewards = {"prnt"}
  StakeAmounts = {}
  VestAmounts = {3, 5}
  WithdrawAmounts = {1, 2, 4}
  FeeAmounts = {}
  Limits = {0, 1}
  ConfigUsers = {}
  PauseStatuses = {TRUE, FALSE}
  StartTime = 1
  MaxTime = 7
  MaxSupply = 0
  MaxVested = 14
  FeeBudgets <- NoFees
INVARIANTS
  TypeOK
  TotalIsSumOfParts
  EarningsMatchBalances
  EarningsSorted
  PrntAccountedFor
PROPERTIES
  WithdrawCostsItsAmount
