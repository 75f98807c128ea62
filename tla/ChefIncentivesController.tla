---------------------- MODULE ChefIncentivesController ----------------------
(***************************************************************************)
(* ChefIncentivesController.sol (CIC) with EligibilityDataProvider.sol: PRNT *)
(* emissions to the holders of the lending market's deposit and debt tokens. *)
(*                                                                         *)
(* Every registered token is a pool.  A token's mint, burn or transfer calls *)
(* handleActionAfter, a change of a user's locks calls afterLockUpdate; both *)
(* refresh the user's eligibility, and register the user's balance in the    *)
(* pools or remove it from all of them.  Emissions go to pools by allocation *)
(* points and run until the deposited reserve is used up.                    *)
(*                                                                         *)
(* Each external call is one atomic transaction, hence one action; a revert  *)
(* is a disabled action.  A transaction runs several internal functions in   *)
(* sequence, each on the state the one before left: they are operators on    *)
(* the record `chef` of what those functions write, and an action assigns    *)
(* the last result.                                                          *)
(***************************************************************************)
EXTENDS EligibilityDataProvider, Sums, Functions

CONSTANTS
  NumUsers,                     \* accounts are numbered 1..NumUsers
  Pools,                        \* tokens that may be registered
  InitialPools,                 \* the ones registered at deployment, in order
  AllocPoints,                  \* allocation points the owner may give
  CollateralTokens,             \* the deposit tokens, as a sequence
  ACC_REWARD_PRECISION,         \* the 1e12 that scales accRewardPerShare
  Rates,                        \* rewards per second the owner may set
  InitialRate,
  Schedules,                    \* arguments of setEmissionSchedule
  DepositAmounts,               \* arguments of registerRewardDeposit
  InitialDeposit,               \* deposited, and transferred, at deployment
  FundAmounts,                  \* transfers of PRNT to the contract
  TokenLists,                   \* lists of tokens in a claim or an allocation
  InitialEligibilityEnabled,
  EligibilitySwitches,          \* values the owner may give eligibilityEnabled
  ExemptableUsers,
  PauseStatuses,                \* {TRUE, FALSE} when the owner may pause, else {}
  LockAmounts, InitialLocked,   \* locked LP amounts
  MaxBalance,                   \* bound: scaled token balance of a user
  MaxIndex,                     \* bound: liquidity index
  MaxUpdates,                   \* bound: balance updates
  MaxDeposited, MaxFunded, MaxSchedule, StartTime, MaxTime      \* bounds

Users == 1..NumUsers

EmissionPoint == [startTimeOffset : Nat, rewardsPerSecond : Nat]

ASSUME ControllerAssumption ==
  /\ NumUsers \in Nat
  /\ InitialPools \in Seq(Pools)
  /\ \A i, j \in 1..Len(InitialPools) : i # j => InitialPools[i] # InitialPools[j]
  /\ AllocPoints \subseteq Nat \ {0}
  /\ AllocPoints # {}
  /\ CollateralTokens \in Seq(Pools)
  /\ ACC_REWARD_PRECISION \in Nat \ {0}
  /\ Rates \subseteq Nat
  /\ InitialRate \in Nat
  /\ Schedules \subseteq Seq(EmissionPoint)
  /\ DepositAmounts \subseteq Nat
  /\ InitialDeposit \in Nat
  /\ FundAmounts \subseteq Nat \ {0}
  /\ TokenLists \subseteq Seq(Pools)
  /\ InitialEligibilityEnabled \in BOOLEAN
  /\ EligibilitySwitches \subseteq BOOLEAN
  /\ ExemptableUsers \subseteq Users
  /\ PauseStatuses \subseteq BOOLEAN
  /\ LockAmounts \subseteq Nat
  /\ InitialLocked \in Nat
  /\ MaxBalance \in Nat
  /\ MaxIndex \in Nat
  /\ MaxUpdates \in Nat
  /\ MaxDeposited \in Nat
  /\ MaxFunded \in Nat
  /\ MaxSchedule \in Nat
  /\ StartTime \in Nat \ {0}
  /\ MaxTime \in Nat

VARIABLES
  now,                          \* block.timestamp
  paused,
  chef,                         \* what transactions write: see Chef
  registeredTokens,
  startTime,
  persistRewardsPerSecond,
  emissionSchedule,
  eligibilityEnabled,
  eligibilityExempt,
  reserve,                      \* PRNT held by the controller
  funded,                       \* PRNT ever transferred to it
  vested,                       \* what the controller vested in MFD, per user
  tokenBalance,                 \* scaled balances of the lending tokens
  normalizedIncome,             \* of the lending tokens: balanceOf = scaled * it
  locked                        \* MFD's Balances.locked

settingVars == <<paused, startTime, persistRewardsPerSecond, emissionSchedule,
                 eligibilityEnabled, eligibilityExempt>>
payoutVars  == <<reserve, funded, vested>>
marketVars  == <<tokenBalance, normalizedIncome, locked>>

vars == <<now, chef, registeredTokens, settingVars, payoutVars, marketVars,
          eligibilityVars>>

PoolInfo == [totalSupply : Nat, allocPoint : Nat, lastRewardTime : Nat,
             accRewardPerShare : Nat]
UserInfo == [amount : Nat, rewardDebt : Nat]

\* `paid` and `updates` are history: what each pool was accounted so far, and
\* how many balance updates there were (each may round by one unit).
Chef == [poolInfo : [Pools -> PoolInfo],
         userInfo : [Users -> [Pools -> UserInfo]],
         userBaseClaimable : [Users -> Nat],
         totalAllocPoint : Nat,
         rewardsPerSecond : Nat,
         lastRPS : Nat,
         emissionScheduleIndex : Nat,
         depositedRewards : Nat,
         accountedRewards : Nat,
         lastAllPoolUpdate : Nat,
         lastEligibleStatus : [Users -> BOOLEAN],
         disqualifiedTime : [Users -> Nat],
         paid : [Pools -> Nat],
         updates : Nat]

NoPool == [totalSupply |-> 0, allocPoint |-> 0, lastRewardTime |-> 0,
           accRewardPerShare |-> 0]

\* The state after deployment: pools added, rewards deposited, started.
Init ==
  /\ now = StartTime
  /\ paused = FALSE
  /\ registeredTokens = InitialPools
  /\ startTime = StartTime
  /\ persistRewardsPerSecond = TRUE
  /\ emissionSchedule = <<>>
  /\ eligibilityEnabled = InitialEligibilityEnabled
  /\ eligibilityExempt = [u \in Users |-> FALSE]
  /\ reserve = InitialDeposit
  /\ funded = InitialDeposit
  /\ vested = [u \in Users |-> 0]
  /\ tokenBalance = [u \in Users |-> [p \in Pools |-> 0]]
  /\ normalizedIncome = [p \in Pools |-> 1]
  /\ locked = [u \in Users |-> InitialLocked]
  /\ EligibilityInit
  /\ \E alloc \in [Range(InitialPools) -> AllocPoints] :
       chef = [poolInfo |-> [p \in Pools |->
                 IF p \in Range(InitialPools)
                 THEN [NoPool EXCEPT !.allocPoint = alloc[p],
                                     !.lastRewardTime = StartTime]
                 ELSE NoPool],
               userInfo |-> [u \in Users |->
                 [p \in Pools |-> [amount |-> 0, rewardDebt |-> 0]]],
               userBaseClaimable |-> [u \in Users |-> 0],
               totalAllocPoint |-> Sum([i \in 1..Len(InitialPools) |->
                                          alloc[InitialPools[i]]]),
               rewardsPerSecond |-> InitialRate,
               lastRPS |-> 0,
               emissionScheduleIndex |-> 0,
               depositedRewards |-> InitialDeposit,
               accountedRewards |-> 0,
               lastAllPoolUpdate |-> StartTime,
               lastEligibleStatus |-> [u \in Users |-> FALSE],
               disqualifiedTime |-> [u \in Users |-> 0],
               paid |-> [p \in Pools |-> 0],
               updates |-> 0]

-----------------------------------------------------------------------------
(* Emissions: endRewardTime, _newRewards, _updatePool, _massUpdatePools ...   *)

\* A loop over registeredTokens that applies Op to the state and each pool.
ForEachPool(c, Op(_, _)) ==
  LET after[i \in 0..Len(registeredTokens)] ==
        IF i = 0 THEN c ELSE Op(after[i - 1], registeredTokens[i])
  IN  after[Len(registeredTokens)]

availableRewards(c) == c.depositedRewards - c.accountedRewards

\* When the reserve is used up, at a rate that is not zero.
endRewardTime(c) ==
  LET alreadyPaid(p) ==
        LET pool == c.poolInfo[p]
        IN  IF pool.lastRewardTime > c.lastAllPoolUpdate
            THEN ((pool.lastRewardTime - c.lastAllPoolUpdate) * pool.allocPoint
                    * c.rewardsPerSecond) \div c.totalAllocPoint
            ELSE 0
      extra == Sum([i \in 1..Len(registeredTokens) |->
                      alreadyPaid(registeredTokens[i])])
  IN  (availableRewards(c) + extra) \div c.rewardsPerSecond + c.lastAllPoolUpdate

\* block.timestamp, or endRewardTime() if that has passed (a rate of zero never
\* uses the reserve up).
rewardedUntil(c) ==
  IF c.rewardsPerSecond = 0 THEN now
  ELSE LET endReward == endRewardTime(c)
       IN  IF endReward <= now THEN endReward ELSE now

\* Mutant: the reward is not limited to what is available.
newRewardsUncapped(c, pool) ==
  IF pool.totalSupply = 0 THEN 0
  ELSE ((now - pool.lastRewardTime) * c.rewardsPerSecond * pool.allocPoint)
         \div c.totalAllocPoint

\* _newRewards: the pool's share of the emissions since it was last updated, or
\* of the whole available reserve if that is less.
newRewards(c, pool) ==
  LET wanted == (now - pool.lastRewardTime) * c.rewardsPerSecond
      rawReward == IF availableRewards(c) < wanted THEN availableRewards(c) ELSE wanted
  IN  IF pool.totalSupply = 0 THEN 0
      ELSE (rawReward * pool.allocPoint) \div c.totalAllocPoint

\* _updatePool.
UpdatePool(c, p) ==
  LET pool   == c.poolInfo[p]
      until  == rewardedUntil(c)
      reward == newRewards(c, pool)
      perShare == IF pool.totalSupply = 0 THEN 0
                  ELSE (reward * ACC_REWARD_PRECISION) \div pool.totalSupply
  IN  IF until <= pool.lastRewardTime THEN c
      ELSE [c EXCEPT !.accountedRewards = @ + reward,
                     !.paid[p] = @ + reward,
                     !.poolInfo[p].accRewardPerShare = @ + perShare,
                     !.poolInfo[p].lastRewardTime = until]

\* _massUpdatePools.
MassUpdatePools(c) ==
  [ForEachPool(c, UpdatePool) EXCEPT !.lastAllPoolUpdate = now]

\* Mutant: offsets are compared with the time itself.
ScheduledByTime(c) ==
  LET reached == {i \in (c.emissionScheduleIndex + 1)..Len(emissionSchedule) :
                    \A j \in (c.emissionScheduleIndex + 1)..i :
                      emissionSchedule[j].startTimeOffset <= now}
      last == CHOOSE i \in reached : \A j \in reached : j <= i
  IN  IF persistRewardsPerSecond \/ reached = {} THEN c
      ELSE [MassUpdatePools([c EXCEPT !.emissionScheduleIndex = last]) EXCEPT
              !.rewardsPerSecond = emissionSchedule[last].rewardsPerSecond]

\* setScheduledRewardsPerSecond: unless the rate is fixed, move on to the last
\* scheduled point in a row that has been reached.
SetScheduledRewardsPerSecond(c) ==
  LET reached == {i \in (c.emissionScheduleIndex + 1)..Len(emissionSchedule) :
                    \A j \in (c.emissionScheduleIndex + 1)..i :
                      emissionSchedule[j].startTimeOffset <= now - startTime}
      last == CHOOSE i \in reached : \A j \in reached : j <= i
  IN  IF persistRewardsPerSecond \/ reached = {} THEN c
      ELSE [MassUpdatePools([c EXCEPT !.emissionScheduleIndex = last]) EXCEPT
              !.rewardsPerSecond = emissionSchedule[last].rewardsPerSecond]

\* _updateEmissions: emissions stop when the reserve is used up.
UpdateEmissions(c) ==
  IF c.rewardsPerSecond # 0 /\ now > endRewardTime(c)
  THEN [MassUpdatePools(c) EXCEPT !.lastRPS = c.rewardsPerSecond,
                                  !.rewardsPerSecond = 0]
  ELSE SetScheduledRewardsPerSecond(c)

-----------------------------------------------------------------------------
(* Balances and eligibility: _handleActionAfterForToken and its callers       *)

Pending(c, u, p) ==
  (c.userInfo[u][p].amount * c.poolInfo[p].accRewardPerShare)
     \div ACC_REWARD_PRECISION - c.userInfo[u][p].rewardDebt

\* Mutants: the pending reward is only kept when some balance remains; the old
\* amount leaves totalSupply twice.
HandleLosesPending(c, u, p, balance) ==
  LET d   == UpdatePool(c, p)
      old == d.userInfo[u][p].amount
      acc == d.poolInfo[p].accRewardPerShare
  IN  [d EXCEPT
         !.userBaseClaimable[u] = @ + (IF balance = 0 THEN 0 ELSE Pending(d, u, p)),
         !.poolInfo[p].totalSupply = @ - old + balance,
         !.userInfo[u][p] = [amount |-> balance,
                             rewardDebt |-> (balance * acc) \div ACC_REWARD_PRECISION],
         !.updates = @ + 1]

HandleSubtractsTwice(c, u, p, balance) ==
  LET d   == UpdatePool(c, p)
      old == d.userInfo[u][p].amount
      acc == d.poolInfo[p].accRewardPerShare
  IN  [d EXCEPT
         !.userBaseClaimable[u] = @ + Pending(d, u, p),
         !.poolInfo[p].totalSupply = @ - old - old + balance,
         !.userInfo[u][p] = [amount |-> balance,
                             rewardDebt |-> (balance * acc) \div ACC_REWARD_PRECISION],
         !.updates = @ + 1]

\* _handleActionAfterForToken: what is pending becomes claimable, and the new
\* balance is registered.
HandleActionAfterForToken(c, u, p, balance) ==
  LET d   == UpdatePool(c, p)
      old == d.userInfo[u][p].amount
      acc == d.poolInfo[p].accRewardPerShare
  IN  [d EXCEPT
         !.userBaseClaimable[u] = @ + Pending(d, u, p),
         !.poolInfo[p].totalSupply = @ - old + balance,
         !.userInfo[u][p] = [amount |-> balance,
                             rewardDebt |-> (balance * acc) \div ACC_REWARD_PRECISION],
         !.updates = @ + 1]

\* Mutant: only tokens without a registered amount are looked at.
UpdateUnregisteredBalance(c, u, balances) ==
  ForEachPool(c, LAMBDA d, p :
    IF balances[p] # 0 /\ d.userInfo[u][p].amount = 0
    THEN HandleActionAfterForToken(d, u, p, balances[p])
    ELSE d)

\* _updateRegisteredBalance: register every balance that is not zero and not
\* the registered one.  `balances` is what balanceOf returns, interest included.
UpdateRegisteredBalance(c, u, balances) ==
  ForEachPool(c, LAMBDA d, p :
    IF balances[p] # 0 /\ balances[p] # d.userInfo[u][p].amount
    THEN HandleActionAfterForToken(d, u, p, balances[p])
    ELSE d)

hasEligibleDeposits(c, u) ==
  \E i \in 1..Len(registeredTokens) : c.userInfo[u][registeredTokens[i]].amount # 0

\* stopEmissionsFor.
StopEmissionsFor(c, u) ==
  setDqTime(ForEachPool(c, LAMBDA d, p :
              IF d.userInfo[u][p].amount # 0
              THEN HandleActionAfterForToken(d, u, p, 0)
              ELSE d),
            u, now)

\* _processEligibility, executed.
ProcessEligibility(c, u, eligible) ==
  IF ~eligible /\ hasEligibleDeposits(c, u) /\ c.disqualifiedTime[u] = 0
  THEN StopEmissionsFor(c, u)
  ELSE c

\* stopEmissionsFor reverts while eligibility is disabled.
CanProcessEligibility(c, u, eligible) ==
  \/ eligibilityEnabled
  \/ eligible
  \/ ~hasEligibleDeposits(c, u)
  \/ c.disqualifiedTime[u] # 0

\* Mutant: the new balance is registered without looking at the eligibility.
HandleUnchecked(c, u, p, balance, eligible, balances) ==
  LET r == Refresh(c, u, eligible)
  IN  IF ~eligibilityEnabled THEN HandleActionAfterForToken(c, u, p, balance)
      ELSE IF c.lastEligibleStatus[u] THEN HandleActionAfterForToken(r, u, p, balance)
      ELSE IF eligible THEN UpdateRegisteredBalance(r, u, balances)
      ELSE ProcessEligibility(r, u, eligible)

\* handleActionAfter, called by token p with the new scaled balance of a user
\* that is not exempt (nothing happens for one that is).
HandleActionAfter(c, u, p, balance, eligible, balances) ==
  LET r == Refresh(c, u, eligible)
  IN  IF ~eligibilityEnabled THEN HandleActionAfterForToken(c, u, p, balance)
      ELSE IF ~eligible THEN ProcessEligibility(r, u, eligible)
      ELSE IF c.lastEligibleStatus[u] THEN HandleActionAfterForToken(r, u, p, balance)
      ELSE UpdateRegisteredBalance(r, u, balances)

\* afterLockUpdate, called by MFD.
AfterLockUpdate(c, u, eligible, balances) ==
  LET r == Refresh(c, u, eligible)
  IN  IF ~eligibilityEnabled THEN c
      ELSE IF eligible THEN UpdateRegisteredBalance(r, u, balances)
      ELSE ProcessEligibility(r, u, eligible)

\* balanceOf of every token, and eligibility, of a user with these scaled
\* balances and locked amount.
balancesOf(scaled) == [p \in Pools |-> scaled[p] * normalizedIncome[p]]

eligibleWith(scaled, lockedLP) ==
  isEligibleForRewards(lockedLP,
    Sum([i \in 1..Len(CollateralTokens) |->
           balancesOf(scaled)[CollateralTokens[i]]]))

eligibleNow(u) == eligibleWith(tokenBalance[u], locked[u])

-----------------------------------------------------------------------------
(* External: the lending market's tokens, the user's locks, and prices        *)

mayUpdate    == chef.updates < MaxUpdates
withinBounds == chef'.updates <= MaxUpdates

\* The hook of token p on the state c, when u's scaled balances are these.
HookUnlessExempt(c, u, p, scaled, exempt) ==
  IF exempt THEN c
  ELSE HandleActionAfter(c, u, p, scaled[p], eligibleWith(scaled, locked[u]),
                         balancesOf(scaled))

Hook(c, u, p, scaled) == HookUnlessExempt(c, u, p, scaled, eligibilityExempt[u])

\* A deposit or a borrow mints, a withdrawal or a repayment burns.
MintOrBurn(u, p, balance) ==
  /\ p \in Range(registeredTokens)
  /\ balance # tokenBalance[u][p]
  /\ mayUpdate
  /\ tokenBalance' = [tokenBalance EXCEPT ![u][p] = balance]
  /\ chef' = Hook(chef, u, p, tokenBalance'[u])
  /\ withinBounds
  /\ UNCHANGED <<now, registeredTokens, settingVars, payoutVars,
                 normalizedIncome, locked, eligibilityVars>>

\* Mutant: the sender's hook is not called.
TransferToldToRecipient(u, v, p, amount) ==
  /\ p \in Range(CollateralTokens) \cap Range(registeredTokens)
  /\ u # v
  /\ mayUpdate
  /\ tokenBalance[u][p] >= amount
  /\ tokenBalance[v][p] + amount <= MaxBalance
  /\ tokenBalance' = [tokenBalance EXCEPT ![u][p] = @ - amount, ![v][p] = @ + amount]
  /\ chef' = Hook(chef, v, p, tokenBalance'[v])
  /\ withinBounds
  /\ UNCHANGED <<now, registeredTokens, settingVars, payoutVars,
                 normalizedIncome, locked, eligibilityVars>>

\* A transfer (or the liquidation of a deposit) calls the hook for both sides.
Transfer(u, v, p, amount) ==
  /\ p \in Range(CollateralTokens) \cap Range(registeredTokens)
  /\ u # v
  /\ mayUpdate
  /\ tokenBalance[u][p] >= amount
  /\ tokenBalance[v][p] + amount <= MaxBalance
  /\ tokenBalance' = [tokenBalance EXCEPT ![u][p] = @ - amount, ![v][p] = @ + amount]
  /\ chef' = Hook(Hook(chef, u, p, tokenBalance'[u]), v, p, tokenBalance'[v])
  /\ withinBounds
  /\ UNCHANGED <<now, registeredTokens, settingVars, payoutVars,
                 normalizedIncome, locked, eligibilityVars>>

\* Leverager.loop: the user is exempt while `asset` and then `debt` are minted in
\* turn, up to the last round, whose borrow and deposit call their hooks.
Loop(u, asset, debt, before, borrowed, deposited) ==
  LET penultimate == [tokenBalance[u] EXCEPT ![asset] = before, ![debt] = borrowed]
      final       == [penultimate EXCEPT ![asset] = deposited]
      afterBorrow == HookUnlessExempt(chef, u, debt, penultimate, FALSE)
  IN  /\ asset \in Range(CollateralTokens) \cap Range(registeredTokens)
      /\ debt \in Range(registeredTokens) \ Range(CollateralTokens)
      /\ tokenBalance[u][asset] <= before /\ before < deposited
      /\ tokenBalance[u][debt] < borrowed
      /\ mayUpdate
      /\ tokenBalance' = [tokenBalance EXCEPT ![u] = final]
      /\ chef' = HookUnlessExempt(afterBorrow, u, asset, final, FALSE)
      /\ withinBounds
      /\ eligibilityExempt' = [eligibilityExempt EXCEPT ![u] = FALSE]
      /\ UNCHANGED <<now, registeredTokens, paused, startTime,
                     persistRewardsPerSecond, emissionSchedule, eligibilityEnabled,
                     payoutVars, normalizedIncome, locked, eligibilityVars>>

\* MFD changed the user's locks (or requalifyFor asks for a refresh).
LockUpdate(u, amount) ==
  /\ locked' = [locked EXCEPT ![u] = amount]
  /\ chef' = AfterLockUpdate(chef, u, eligibleWith(tokenBalance[u], amount),
                             balancesOf(tokenBalance[u]))
  /\ withinBounds
  /\ UNCHANGED <<now, registeredTokens, settingVars, payoutVars, tokenBalance,
                 normalizedIncome, eligibilityVars>>

\* Interest raises what balanceOf returns, without a hook.
InterestAccrues(p) ==
  /\ normalizedIncome[p] < MaxIndex
  /\ normalizedIncome' = [normalizedIncome EXCEPT ![p] = @ + 1]
  /\ UNCHANGED <<now, chef, registeredTokens, settingVars, payoutVars,
                 tokenBalance, locked, eligibilityVars>>

EligibilityChanges ==
  /\ \/ \E i \in 1..Len(LpPrices) : PriceMoves(LpPrices[i])
     \/ \E i \in 1..Len(RequiredDepositRatios) :
          setRequiredDepositRatio(RequiredDepositRatios[i])
     \/ \E i \in 1..Len(PriceToleranceRatios) :
          setPriceToleranceRatio(PriceToleranceRatios[i])
  /\ UNCHANGED <<now, chef, registeredTokens, settingVars, payoutVars, marketVars>>

-----------------------------------------------------------------------------
(* Claims and bounties                                                       *)

\* Mutant: the reward debt of the claimed pool is not brought up to date.
ClaimPoolKeepsDebt(s, u, p) ==
  LET d == UpdatePool(s.chef, p)
  IN  [chef |-> d, pending |-> s.pending + Pending(d, u, p)]

\* One step of claim's loop.
ClaimPool(s, u, p) ==
  LET d == UpdatePool(s.chef, p)
      rewardDebt == (d.userInfo[u][p].amount * d.poolInfo[p].accRewardPerShare)
                      \div ACC_REWARD_PRECISION
  IN  [chef    |-> [d EXCEPT !.userInfo[u][p].rewardDebt = rewardDebt],
       pending |-> s.pending + Pending(d, u, p)]

\* claim's loop over the listed tokens, on <<state, pending>>.
ClaimPools(s, u, tokens) ==
  LET after[i \in 0..Len(tokens)] ==
        IF i = 0 THEN s ELSE ClaimPool(after[i - 1], u, tokens[i])
  IN  after[Len(tokens)]

\* claim(u, tokens); claimAll claims registeredTokens.
Claim(u, tokens) ==
  LET eligible  == eligibleNow(u)
      processed == IF eligibilityEnabled
                   THEN ProcessEligibility(Refresh(chef, u, eligible), u, eligible)
                   ELSE chef
      updated   == UpdateEmissions(processed)
      start     == [chef    |-> [updated EXCEPT !.userBaseClaimable[u] = 0],
                    pending |-> updated.userBaseClaimable[u]]
      claimed   == ClaimPools(start, u, tokens)
  IN  /\ ~paused
      /\ Range(tokens) \subseteq Range(registeredTokens)
      /\ claimed.pending # 0
      /\ claimed.pending <= reserve
      /\ chef' = claimed.chef
      /\ reserve' = reserve - claimed.pending
      /\ vested' = [vested EXCEPT ![u] = @ + claimed.pending]
      /\ withinBounds
      /\ UNCHANGED <<now, registeredTokens, settingVars, funded, marketVars,
                     eligibilityVars>>

\* claimBounty with execute, called by the bounty manager for any user.
ClaimBounty(u) ==
  LET eligible  == eligibleNow(u)
      refreshed == Refresh(chef, u, eligible)
  IN  /\ CanProcessEligibility(refreshed, u, eligible)
      /\ chef' = ProcessEligibility(refreshed, u, eligible)
      /\ withinBounds
      /\ UNCHANGED <<now, registeredTokens, settingVars, payoutVars, marketVars,
                     eligibilityVars>>

-----------------------------------------------------------------------------
(* Administration                                                            *)

\* Mutant: the pool's points are not added to the total.
AddPoolKeepsTotal(p, allocPoint) ==
  LET c == UpdateEmissions(chef)
  IN  /\ c.poolInfo[p].lastRewardTime = 0
      /\ registeredTokens' = Append(registeredTokens, p)
      /\ chef' = [c EXCEPT !.poolInfo[p].allocPoint = allocPoint,
                           !.poolInfo[p].lastRewardTime = now]
      /\ UNCHANGED <<now, settingVars, payoutVars, marketVars, eligibilityVars>>

AddPool(p, allocPoint) ==
  LET c == UpdateEmissions(chef)
  IN  /\ c.poolInfo[p].lastRewardTime = 0
      /\ registeredTokens' = Append(registeredTokens, p)
      /\ chef' = [c EXCEPT !.totalAllocPoint = @ + allocPoint,
                           !.poolInfo[p].allocPoint = allocPoint,
                           !.poolInfo[p].lastRewardTime = now]
      /\ UNCHANGED <<now, settingVars, payoutVars, marketVars, eligibilityVars>>

unchangedButChef ==
  UNCHANGED <<now, registeredTokens, payoutVars, marketVars, eligibilityVars>>

\* batchUpdateAllocPoint(tokens, allocPoints).
BatchUpdateAllocPoint(tokens, allocPoints) ==
  LET after[i \in 0..Len(tokens)] ==
        IF i = 0 THEN MassUpdatePools(chef)
        ELSE LET c == after[i - 1]
             IN  [c EXCEPT
                    !.totalAllocPoint = @ - c.poolInfo[tokens[i]].allocPoint + allocPoints[i],
                    !.poolInfo[tokens[i]].allocPoint = allocPoints[i]]
  IN  /\ Range(tokens) \subseteq Range(registeredTokens)
      /\ chef' = after[Len(tokens)]
      /\ UNCHANGED settingVars
      /\ unchangedButChef

SetRewardsPerSecond(rate, persist) ==
  /\ chef' = [MassUpdatePools(chef) EXCEPT !.rewardsPerSecond = rate]
  /\ persistRewardsPerSecond' = persist
  /\ UNCHANGED <<paused, startTime, emissionSchedule, eligibilityEnabled,
                 eligibilityExempt>>
  /\ unchangedButChef

\* registerRewardDeposit resumes emissions at the rate they stopped at.
RegisterRewardDeposit(amount) ==
  LET c == MassUpdatePools([chef EXCEPT !.depositedRewards = @ + amount])
  IN  /\ chef.depositedRewards + amount <= MaxDeposited
      /\ chef' = IF c.rewardsPerSecond = 0 /\ c.lastRPS > 0
                 THEN [c EXCEPT !.rewardsPerSecond = c.lastRPS]
                 ELSE c
      /\ UNCHANGED settingVars
      /\ unchangedButChef

\* The owner transfers PRNT to the controller.
FundReserve(amount) ==
  /\ funded + amount <= MaxFunded
  /\ reserve' = reserve + amount
  /\ funded' = funded + amount
  /\ UNCHANGED <<now, chef, registeredTokens, settingVars, vested, marketVars,
                 eligibilityVars>>

unchangedButSettings ==
  UNCHANGED <<now, chef, registeredTokens, payoutVars, marketVars, eligibilityVars>>

\* setEmissionSchedule appends: offsets ascend within one call, no offset is
\* given twice, and none lies in the past.
SetEmissionSchedule(points) ==
  LET all == emissionSchedule \o points
      n   == Len(emissionSchedule)
  IN  /\ points # <<>>
      /\ Len(all) <= MaxSchedule
      /\ \A i \in 2..Len(points) :
           points[i - 1].startTimeOffset <= points[i].startTimeOffset
      /\ \A i \in (n + 1)..Len(all), j \in 1..Len(all) :
           j < i => all[j].startTimeOffset # all[i].startTimeOffset
      /\ \A i \in 1..Len(points) : points[i].startTimeOffset >= now - startTime
      /\ emissionSchedule' = all
      /\ UNCHANGED <<paused, startTime, persistRewardsPerSecond,
                     eligibilityEnabled, eligibilityExempt>>
      /\ unchangedButSettings

SetEligibilityEnabled(status) ==
  /\ eligibilityEnabled' = status
  /\ UNCHANGED <<paused, startTime, persistRewardsPerSecond, emissionSchedule,
                 eligibilityExempt>>
  /\ unchangedButSettings

SetEligibilityExempt(u, status) ==
  /\ eligibilityExempt' = [eligibilityExempt EXCEPT ![u] = status]
  /\ UNCHANGED <<paused, startTime, persistRewardsPerSecond, emissionSchedule,
                 eligibilityEnabled>>
  /\ unchangedButSettings

SetPaused(status) ==
  /\ paused # status
  /\ paused' = status
  /\ UNCHANGED <<startTime, persistRewardsPerSecond, emissionSchedule,
                 eligibilityEnabled, eligibilityExempt>>
  /\ unchangedButSettings

Tick ==
  /\ now < MaxTime
  /\ now' = now + 1
  /\ UNCHANGED <<chef, registeredTokens, settingVars, payoutVars, marketVars,
                 eligibilityVars>>

Next ==
  \/ Tick
  \/ \E u \in Users, p \in Pools, b \in 0..MaxBalance : MintOrBurn(u, p, b)
  \/ \E u, v \in Users, p \in Pools, a \in 1..MaxBalance : Transfer(u, v, p, a)
  \/ \E u \in Users, p, d \in Pools, b \in 0..MaxBalance, e, f \in 1..MaxBalance :
       Loop(u, p, d, b, e, f)
  \/ \E u \in Users, a \in LockAmounts : LockUpdate(u, a)
  \/ \E p \in Pools : InterestAccrues(p)
  \/ EligibilityChanges
  \/ \E u \in Users, ts \in TokenLists : Claim(u, ts)
  \/ \E u \in Users : ClaimBounty(u)
  \/ \E p \in Pools, a \in AllocPoints : AddPool(p, a)
  \/ \E ts \in TokenLists : \E a \in [1..Len(ts) -> AllocPoints] :
       BatchUpdateAllocPoint(ts, a)
  \/ \E r \in Rates, s \in BOOLEAN : SetRewardsPerSecond(r, s)
  \/ \E a \in DepositAmounts : RegisterRewardDeposit(a)
  \/ \E a \in FundAmounts : FundReserve(a)
  \/ \E points \in Schedules : SetEmissionSchedule(points)
  \/ \E s \in EligibilitySwitches : SetEligibilityEnabled(s)
  \/ \E u \in ExemptableUsers, s \in BOOLEAN : SetEligibilityExempt(u, s)
  \/ \E s \in PauseStatuses : SetPaused(s)

Spec == Init /\ [][Next]_vars
=============================================================================
