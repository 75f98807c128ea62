SPECIFICATION Spec
CONSTANTS
  NumUsers = 2
  Pools = {"r", "d"}
  InitialPools <- BothPools
  AllocPoints = {1}
  CollateralTokens <- Deposits
  ACC_REWARD_PRECISION = 2
  Rates = {}
  InitialRate = 2
  Schedules <- NoSchedules
  DepositAmounts = {3}
  InitialDeposit = 5
  FundAmounts = {}
  TokenLists <- FullList
  InitialEligibilityEnabled = FALSE
  EligibilitySwitches = {}
  ExemptableUsers = {}
  PauseStatuses = {}
  LockAmounts = {}
  InitialLocked = 0
  MaxBalance = 2
  MaxIndex = 1
  MaxUpdates = 3
  MaxDeposited = 8
  MaxFunded = 5
  MaxSchedule = 0
  StartTime = 1
  MaxTime = 4
  RequiredDepositRatios <- FullRatio
  PriceToleranceRatios <- FullTolerance
  LpPrices <- OnePrice
INVARIANTS
  HooksNeverRevert
  OwedIsAccounted
PROPERTIES
  EarnedIsKept
