SPECIFICATION Spec
CONSTANTS
  NumUsers = 1
  Tokens = {"prnt", "dai"}
  Prnt = "prnt"
  DAY = 1
  vestDuration = 4
  rewardsDuration = 2
  minDLPBalance = 1
  PRECISION = 2
  RPT_PRECISION = 3
  LockTypeInfos = {}
  InitLockTypeInfo <- DoubleLock
  Lookbacks = {1}
  operationExpenseRatio = 2000
  AddableRewards = {"dai"}
  RemovableRewards = {"dai"}
  StakeAmounts = {1}
  VestAmounts = {}
  WithdrawAmounts = {}
  FeeAmounts = {3}
  Limits = {0}
  ConfigUsers = {}
  PauseStatuses = {}
  StartTime = 1
  MaxTime = 5
  MaxSupply = 1
  MaxVested = 0
  FeeBudgets <- TwoFees
INVARIANTS
  RewardUpdateNeverReverts
