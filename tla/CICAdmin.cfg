SPECIFICATION Spec
CONSTANTS
  NumUsers = 1
  Pools = {"r", "d"}
  InitialPools <- OnePool
  AllocPoints = {1, 2}
  CollateralTokens <- Deposits
  ACC_REWARD_PRECISION = 2
  Rates = {2}
  InitialRate = 2
  Schedules <- TwoSchedules
  DepositAmounts = {}
  InitialDeposit = 5
  FundAmounts = {3}
  TokenLists <- FullList
  InitialEligibilityEnabled = FALSE
  EligibilitySwitches = {TRUE}
  ExemptableUsers = {}
  PauseStatuses = {TRUE, FALSE}
  LockAmounts = {0}
  InitialLocked = 1
  MaxBalance = 1
  MaxIndex = 1
  MaxUpdates = 2
  MaxDeposited = 8
  MaxFunded = 8
  MaxSchedule = 2
  StartTime = 1
  MaxTime = 3
  RequiredDepositRatios <- FullRatio
  PriceToleranceRatios <- FullTolerance
  LpPrices <- OnePrice
INVARIANTS
  TypeOK
  TotalsMatch
  NoRateBeforeItsTime
PROPERTIES
  IneligibleIsRemoved
