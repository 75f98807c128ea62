SPECIFICATION Spec
CONSTANTS
  NumUsers = 2
  Pools = {"r", "d"}
  InitialPools <- BothPools
  AllocPoints = {1}
  CollateralTokens <- Deposits
  ACC_REWARD_PRECISION = 2
  Rates = {}
  InitialRate = 0
  Schedules <- NoSchedules
  DepositAmounts = {}
  InitialDeposit = 0
  FundAmounts = {}
  TokenLists = {}
  InitialEligibilityEnabled = TRUE
  EligibilitySwitches = {}
  ExemptableUsers = {2}
  PauseStatuses = {}
  LockAmounts = {0, 1}
  InitialLocked = 0
  MaxBalance = 2
  MaxIndex = 2
  MaxUpdates = 4
  MaxDeposited = 8
  MaxFunded = 5
  MaxSchedule = 0
  StartTime = 1
  MaxTime = 1
  RequiredDepositRatios <- FullRatio
  PriceToleranceRatios <- FullTolerance
  LpPrices <- Prices
INVARIANTS
  RegisteredIsHeld
PROPERTIES
  IneligibleIsRemoved
  LockingRegistersAll
