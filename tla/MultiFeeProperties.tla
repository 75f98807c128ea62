------------------------- MODULE MultiFeeProperties -------------------------
(***************************************************************************)
(* What MultiFeeDistribution must guarantee.                               *)
(***************************************************************************)
EXTENDS MultiFeeDistribution

\* Every variable has its type: in particular no balance, supply or token
\* holding is ever driven below zero.
TypeOK ==
  /\ now \in Nat
  /\ paused \in BOOLEAN
  /\ bal \in [Users -> Balances]
  /\ userLocks \in [Users -> Seq(Lock)]
  /\ userEarnings \in [Users -> Seq(Earning)]
  /\ lockedSupply \in Nat
  /\ lockedSupplyWithMultiplier \in Nat
  /\ lockTypes \in Seq(LockType)
  /\ defaultLockIndex \in [Users -> Nat]
  /\ autoRelockDisabled \in [Users -> BOOLEAN]
  /\ rewardsLookback \in 1..rewardsDuration
  /\ rewardTokens \in Seq(Tokens)
  /\ rewardData \in [Tokens -> Reward]
  /\ userRewardPerTokenPaid \in [Users -> [Tokens -> Nat]]
  /\ rewards \in [Users -> [Tokens -> Nat]]
  /\ held \in [Tokens -> Nat]
  /\ stakeHeld \in Nat
  /\ middleFee \in [Tokens -> Nat]
  /\ feesLeft \in [Tokens -> Nat]

-----------------------------------------------------------------------------
(* Locks *)

\* Balances.locked and lockedWithMultiplier of a user are the sums over its
\* lock list, whatever merges, insertions, partial cleanings and relocks with
\* another multiplier happened.
LocksMatchBalances ==
  \A u \in Users :
    /\ bal[u].locked = Sum(Amounts(userLocks[u]))
    /\ bal[u].lockedWithMultiplier = Sum(Weighted(userLocks[u]))

\* The global supplies are the sums of the users' balances, and the staking
\* tokens the contract holds are exactly the locked supply.
SuppliesMatch ==
  /\ lockedSupply = Sum([u \in Users |-> bal[u].locked])
  /\ lockedSupplyWithMultiplier = Sum([u \in Users |-> bal[u].lockedWithMultiplier])
  /\ stakeHeld = lockedSupply

\* Lock lists stay ordered by unlock time although lock periods may be
\* reconfigured: _cleanWithdrawableLocks stops at the first unexpired lock and
\* the eligibility provider walks the list from its end.
LocksSorted ==
  \A u \in Users : \A i, j \in 1..Len(userLocks[u]) :
    i <= j => userLocks[u][i].unlockTime <= userLocks[u][j].unlockTime

\* What is locked stays locked until it expires: at any instant no transaction
\* of anybody reduces the amount of a user's locks that have not expired.
Unexpired(u) ==
  Sum([i \in 1..Len(userLocks[u]) |->
         IF Expired(userLocks[u][i]) THEN 0 ELSE userLocks[u][i].amount])

LockedUntilExpiry ==
  [][now' = now => \A u \in Users : Unexpired(u)' >= Unexpired(u)]_vars

\* A bounty on a user's expired locks is paid once: after the execution of
\* claimBounty the user has no expired lock left, so a second hunter in the
\* same block finds nothing.  (A relock for less than a day expires at once.)
BountyPaidOnce ==
  [][\A u \in Users :
       /\ unlockable(u)' > 0
       /\ \A i \in 1..Len(lockTypes) : lockTypes[i].period >= DAY
       => ~ClaimBounty(u)]_vars

-----------------------------------------------------------------------------
(* Vesting *)

\* total = unlocked + locked + earned, although withdraw() computes what it
\* takes from earned and what it takes from total by different roundings.
TotalIsSumOfParts ==
  \A u \in Users :
    bal[u].total = bal[u].unlocked + bal[u].locked + bal[u].earned

\* Balances.earned is the sum of the vesting entries, and no entry is empty:
\* the loops of withdraw and withdrawableBalance do not advance past an empty
\* entry, and the former relies on earned to stop before the end of the list.
EarningsMatchBalances ==
  \A u \in Users :
    /\ bal[u].earned = Sum(Amounts(userEarnings[u]))
    /\ \A i \in 1..Len(userEarnings[u]) : userEarnings[u][i].amount > 0

\* Vesting entries stay ordered by unlock time, so that zapVestingToLp, which
\* stops at the first matured entry from the end, takes only unmatured ones and
\* all of them.
EarningsSorted ==
  \A u \in Users : \A i, j \in 1..Len(userEarnings[u]) :
    i <= j => userEarnings[u][i].unlockTime <= userEarnings[u][j].unlockTime

\* PRNT conservation: what the contract holds is exactly what it owes, as
\* unlocked and vesting balances and as the notified lockers' reward.
PrntAccountedFor ==
  held[Prnt] = AllVested + rewardData[Prnt].balance

\* withdraw(amount) costs the user's withdrawable balance that amount, less at
\* most one unit of rounding: splitting a withdrawal evades no penalty.
withdrawableAmount(u) == bal[u].unlocked + Sum(Nets(userEarnings[u]))

WithdrawCostsItsAmount ==
  [][\A u \in Users, a \in WithdrawAmounts :
       Withdraw(u, a) =>
         /\ withdrawableAmount(u)' <= withdrawableAmount(u) - a + 1
         /\ withdrawableAmount(u)' >= withdrawableAmount(u) - a]_vars

-----------------------------------------------------------------------------
(* Rewards *)

\* Claims are covered: what all users have accrued and what is still to be
\* streamed never exceeds the notified balance, which the contract holds.
RewardsBacked ==
  \A t \in Listed :
    LET r == rewardData[t]
        accrued == Sum([u \in Users |-> Earned(u, t)])
        running == IF r.periodFinish > now
                   THEN (r.periodFinish - now) * r.rewardPerSecond ELSE 0
    IN  /\ accrued + running <= r.balance * PRECISION
        /\ t # Prnt => held[t] >= r.balance

\* No user is locked out by reward arithmetic: the checked subtractions in
\* _updateReward, which every stake, withdrawal and claim runs, never revert.
RewardUpdateNeverReverts == \A u \in Users : CanUpdateReward(u)

\* What a user has accrued changes only with time or by the user's own claim:
\* stakes, withdrawals, relocks and claims of others at the same instant, and
\* the new rewards they notify, neither dilute nor add to it.
Claims(u) ==
  \/ \E ts \in SUBSET Tokens : GetReward(u, ts)
  \/ ClaimFromConverter(u)
  \/ Exit(u, TRUE)
  \/ \E i \in 1..Len(userEarnings[u]) :
       IndividualEarlyExit(u, userEarnings[u][i].unlockTime, TRUE)

AccruedIsPreserved ==
  [][now' = now =>
       \A u \in Users, t \in Listed :
         \/ Earned(u, t)' = Earned(u, t)
         \/ t \notin Listed'
         \/ Claims(u) /\ Earned(u, t)' = 0]_vars

=============================================================================
