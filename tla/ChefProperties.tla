--------------------------- MODULE ChefProperties ---------------------------
(***************************************************************************)
(* What ChefIncentivesController must guarantee, and what its comments and   *)
(* tests say of it that it does not.                                         *)
(***************************************************************************)
EXTENDS ChefIncentivesController

\* Every variable has its type; in particular no checked subtraction of the
\* reward accounting ever went below zero.
TypeOK ==
  /\ now \in Nat
  /\ paused \in BOOLEAN
  /\ chef \in Chef
  /\ registeredTokens \in Seq(Pools)
  /\ startTime \in Nat
  /\ persistRewardsPerSecond \in BOOLEAN
  /\ emissionSchedule \in Seq(EmissionPoint)
  /\ eligibilityEnabled \in BOOLEAN
  /\ eligibilityExempt \in [Users -> BOOLEAN]
  /\ reserve \in Nat
  /\ funded \in Nat
  /\ vested \in [Users -> Nat]
  /\ tokenBalance \in [Users -> [Pools -> Nat]]
  /\ normalizedIncome \in [Pools -> Nat]
  /\ locked \in [Users -> Nat]

-----------------------------------------------------------------------------
(* Reward accounting *)

\* The totals the rewards are divided by are the sums of their parts: a pool's
\* totalSupply of the registered amounts, totalAllocPoint of the pools' points
\* ("Must be the sum of all allocation points in all pools").
TotalsMatch ==
  /\ \A p \in Pools :
       chef.poolInfo[p].totalSupply = Sum([u \in Users |-> chef.userInfo[u][p].amount])
  /\ chef.totalAllocPoint =
       Sum([i \in 1..Len(registeredTokens) |->
              chef.poolInfo[registeredTokens[i]].allocPoint])

\* No hook is blocked by reward arithmetic: the reserve covers what was
\* accounted, no debt exceeds what the amount has earned, and no pool was
\* updated in the future.  A revert here would block deposits, repayments,
\* liquidations and unlocks of the user.
HooksNeverRevert ==
  /\ chef.accountedRewards <= chef.depositedRewards
  /\ \A u \in Users, p \in Pools : Pending(chef, u, p) >= 0
  /\ \A p \in Pools : chef.poolInfo[p].lastRewardTime <= now

\* What a user has earned: vested, set aside, and pending in the pools.
EarnedTotal(u) ==
  vested[u] + chef.userBaseClaimable[u]
    + Sum([i \in 1..Len(registeredTokens) |-> Pending(chef, u, registeredTokens[i])])

\* Nothing a user has earned is ever taken away: not by disqualification, by
\* withdrawing, by transfers of others, or by claiming (the test 'Unlock all,
\* earnings go to zero; but prev emissions are kept').
EarnedIsKept ==
  [][\A u \in Users : EarnedTotal(u)' >= EarnedTotal(u)]_vars

\* Users together never earn more than was taken out of the reserve, up to one
\* unit of rounding per balance update.
OwedIsAccounted ==
  Sum([u \in Users |-> EarnedTotal(u)]) <= chef.accountedRewards + chef.updates

\* A pool is never paid more than its share of rewardsPerSecond for the time
\* that has passed (in a system whose rate and points do not change).
PoolPaidAtRate ==
  \A p \in Range(registeredTokens) :
    chef.paid[p] * chef.totalAllocPoint
      <= InitialRate * chef.poolInfo[p].allocPoint * (now - StartTime)

\* No scheduled rate is applied before its time, although points may be appended
\* later, out of order, and the rate may be fixed and released in between.
NoRateBeforeItsTime ==
  /\ chef.emissionScheduleIndex <= Len(emissionSchedule)
  /\ \A i \in 1..chef.emissionScheduleIndex :
       emissionSchedule[i].startTimeOffset <= now - startTime

-----------------------------------------------------------------------------
(* Eligibility *)

\* While eligibility is enforced, a transaction that finds a user no longer
\* eligible removes all of its registered amounts, and none that leaves it
\* ineligible raises one.
IneligibleIsRemoved ==
  [][eligibilityEnabled =>
       \A u \in Users : ~chef'.lastEligibleStatus[u] =>
         \A p \in Pools :
           /\ chef'.userInfo[u][p].amount <= chef.userInfo[u][p].amount
           /\ chef.lastEligibleStatus[u] => chef'.userInfo[u][p].amount = 0]_vars

\* Nobody earns on more than it holds, whatever was transferred, looped,
\* disqualified and registered again: a registered amount is at most the
\* balance, which is scaled when a token reports it and includes interest when
\* the controller asks for it.  (A user the owner exempted keeps
\* the amounts registered before, whatever its balances become.)
RegisteredIsHeld ==
  \A u \in Users \ ExemptableUsers, p \in Pools :
    chef.userInfo[u][p].amount <= balancesOf(tokenBalance[u])[p]

\* A change of the locks that leaves the user eligible registers all it holds
\* (a user the owner exempted may keep amounts of tokens it no longer holds).
LockingRegistersAll ==
  [][\A u \in Users \ ExemptableUsers, a \in LockAmounts :
       LockUpdate(u, a) /\ chef'.lastEligibleStatus[u] =>
         \A p \in Range(registeredTokens) :
           chef'.userInfo[u][p].amount = balancesOf(tokenBalance[u])[p]]_vars

=============================================================================
