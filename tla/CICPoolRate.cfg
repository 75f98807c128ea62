SPECIFICATION Spec
CONSTANTS
  NumUsers = 1
  Pools = {"r", "d"}
  InitialPools <- BothPools
  AllocPoints = {1}
  CollateralTokens <- Deposits
  ACC_REWARD_PRECISION = 2
  Rates = {}
  InitialRate = 2
  Schedules <- NoSchedules
  DepositAmounts = {4}
  InitialDeposit = 6
  FundAmounts = {}
  TokenLists <- FullList
  InitialEligibilityEnabled = FALSE
  EligibilitySwitches = {}
  ExemptableUsers = {}
  PauseStatuses = {}
  LockAmounts = {}
  InitialLocked = 0
  MaxBalance = 1
  MaxIndex = 1
  MaxUpdates = 4
  MaxDeposited = 10
  MaxFunded = 6
  MaxSchedule = 0
  StartTime = 1
  MaxTime = 8
  RequiredDepositRatios <- FullRatio
  PriceToleranceRatios <- FullTolerance
  LpPrices <- OnePrice
INVARIANTS
  PoolPaidAtRate
