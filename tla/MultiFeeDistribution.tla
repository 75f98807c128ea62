------------------------ MODULE MultiFeeDistribution ------------------------
(***************************************************************************)
(* The staking contract of Prime (MultiFeeDistribution.sol, MFD) together  *)
(* with the fee forwarder it pulls from (MiddleFeeDistribution.sol).       *)
(*                                                                         *)
(*   - users lock LP tokens for a lock type; expired locks are withdrawn   *)
(*     or relocked, by the user, by the zapper or by a bounty hunter;      *)
(*   - minters vest PRNT to users; leaving early costs a penalty that      *)
(*     decays with time;                                                   *)
(*   - reward tokens are streamed to lockers over rewardsDuration, in      *)
(*     proportion to their locked amount times its multiplier.             *)
(*                                                                         *)
(* One external call is one atomic transaction, hence one action; a revert *)
(* is a disabled action.  Interleaving is the order in which users,        *)
(* keepers, minters and the owner transact, and the passing of block time. *)
(* Checked subtraction of Solidity 0.8 appears as a guard "x >= y".        *)
(***************************************************************************)
EXTENDS Integers, Sequences, FiniteSets, Sums

CONSTANTS
  NumUsers,             \* accounts are numbered 1..NumUsers
  Tokens, Prnt,         \* reward tokens; Prnt is the one minted and vested
  DAY,                  \* time units in "1 days"
  vestDuration, rewardsDuration,        \* storage set once by initialize()
  minDLPBalance,        \* BountyManager.minDLPBalance()
  PRECISION,            \* the 1e12 that scales rewardPerSecond and rewards
  RPT_PRECISION,        \* the 1e18 that scales rewardPerTokenStored
  LockTypeInfos,        \* lock type tables the owner may install
  InitLockTypeInfo,     \* ... and the one installed at deployment
  Lookbacks,            \* values of rewardsLookback the owner may set
  operationExpenseRatio,\* of MiddleFeeDistribution, out of RATIO_DIVISOR
  AddableRewards, RemovableRewards,     \* what the admin (de)lists
  StakeAmounts, VestAmounts, WithdrawAmounts, FeeAmounts, Limits,
  ConfigUsers,          \* users that change their relock settings
  PauseStatuses,        \* {TRUE, FALSE} when the owner may pause, else {}
  StartTime, MaxTime, MaxSupply, MaxVested,             \* bounds
  FeeBudgets            \* bound: how many times each token's fees arrive

QUART == 25000
HALF  == 65000
WHOLE == 100000
RATIO_DIVISOR == 10000

Users == 1..NumUsers

\* Callers other than the user concerned: the zapper, and any third party (the
\* bounty manager and other users included).
LockZap  == 0
Stranger == NumUsers + 1

LockType == [period : Nat, multiplier : Nat]

ASSUME ConstantsAssumption ==
  /\ NumUsers \in Nat
  /\ Prnt \in Tokens
  /\ DAY \in Nat \ {0}
  /\ vestDuration \in Nat \ {0}
  /\ rewardsDuration \in Nat \ {0}
  /\ minDLPBalance \in Nat
  /\ PRECISION \in Nat \ {0}
  /\ RPT_PRECISION \in Nat \ {0}
  /\ LockTypeInfos \subseteq Seq(LockType)
  /\ InitLockTypeInfo \in Seq(LockType)
  /\ Lookbacks \subseteq 1..rewardsDuration
  /\ Lookbacks # {}
  /\ operationExpenseRatio \in 0..RATIO_DIVISOR
  /\ AddableRewards \subseteq Tokens
  /\ RemovableRewards \subseteq Tokens
  /\ StakeAmounts \subseteq Nat \ {0}
  /\ VestAmounts \subseteq Nat \ {0}
  /\ WithdrawAmounts \subseteq Nat \ {0}
  /\ FeeAmounts \subseteq Nat \ {0}
  /\ Limits \subseteq Nat
  /\ ConfigUsers \subseteq Users
  /\ PauseStatuses \subseteq BOOLEAN
  /\ StartTime \in Nat \ {0}
  /\ MaxTime \in Nat
  /\ MaxSupply \in Nat
  /\ MaxVested \in Nat
  /\ FeeBudgets \subseteq [Tokens -> Nat]

VARIABLES
  now,                  \* block.timestamp
  paused,
  bal,                  \* _balances
  userLocks,            \* _userLocks
  userEarnings,         \* _userEarnings
  lockedSupply,
  lockedSupplyWithMultiplier,
  lockTypes,            \* _lockPeriod and _rewardMultipliers
  defaultLockIndex,
  autoRelockDisabled,
  rewardsLookback,
  rewardTokens,
  rewardData,
  userRewardPerTokenPaid,
  rewards,
  held,                 \* balanceOf(MFD), per reward token
  stakeHeld,            \* balanceOf(MFD) of the staking token
  middleFee,            \* balanceOf(MiddleFeeDistribution), per reward token
  feesLeft              \* bound: fee arrivals left, per reward token

balanceVars == <<bal, userLocks, userEarnings>>
supplyVars  == <<lockedSupply, lockedSupplyWithMultiplier, stakeHeld>>
configVars  == <<paused, lockTypes, defaultLockIndex, autoRelockDisabled,
                 rewardsLookback>>
rewardVars  == <<rewardData, userRewardPerTokenPaid, rewards>>
tokenVars   == <<held, middleFee, feesLeft>>

vars == <<now, balanceVars, supplyVars, configVars, rewardTokens, rewardVars,
          tokenVars>>

-----------------------------------------------------------------------------
(* Types *)

Balances == [total : Nat, unlocked : Nat, locked : Nat,
             lockedWithMultiplier : Nat, earned : Nat]

\* LockedBalance of a stake, and of a vesting entry (its multiplier is always
\* 1 and its duration always vestDuration; a lock's duration is only shown).
Lock    == [amount : Nat, unlockTime : Nat, multiplier : Nat]
Earning == [amount : Nat, unlockTime : Nat]

Reward == [periodFinish : Nat, rewardPerSecond : Nat, lastUpdateTime : Nat,
           rewardPerTokenStored : Nat, balance : Nat]

NoReward == [periodFinish |-> 0, rewardPerSecond |-> 0, lastUpdateTime |-> 0,
             rewardPerTokenStored |-> 0, balance |-> 0]

Amounts(s)  == [i \in 1..Len(s) |-> s[i].amount]
Weighted(s) == [i \in 1..Len(s) |-> s[i].amount * s[i].multiplier]

Init ==
  /\ now = StartTime
  /\ paused = FALSE
  /\ bal = [u \in Users |-> [total |-> 0, unlocked |-> 0, locked |-> 0,
                             lockedWithMultiplier |-> 0, earned |-> 0]]
  /\ userLocks = [u \in Users |-> <<>>]
  /\ userEarnings = [u \in Users |-> <<>>]
  /\ lockedSupply = 0
  /\ lockedSupplyWithMultiplier = 0
  /\ lockTypes = InitLockTypeInfo
  /\ defaultLockIndex = [u \in Users |-> 0]
  /\ autoRelockDisabled = [u \in Users |-> FALSE]
  /\ rewardsLookback \in Lookbacks
  /\ rewardTokens = <<Prnt>>
  /\ rewardData = [t \in Tokens |->
                     IF t = Prnt THEN [NoReward EXCEPT !.lastUpdateTime = StartTime]
                     ELSE NoReward]
  /\ userRewardPerTokenPaid = [u \in Users |-> [t \in Tokens |-> 0]]
  /\ rewards = [u \in Users |-> [t \in Tokens |-> 0]]
  /\ held = [t \in Tokens |-> 0]
  /\ stakeHeld = 0
  /\ middleFee = [t \in Tokens |-> 0]
  /\ feesLeft \in FeeBudgets

-----------------------------------------------------------------------------
(* Reward streaming: _updateReward, forwardReward, _notifyReward, _getReward *)

Listed == {rewardTokens[i] : i \in 1..Len(rewardTokens)}

lastTimeRewardApplicable(t) ==
  IF now < rewardData[t].periodFinish THEN now ELSE rewardData[t].periodFinish

rewardPerToken(t) ==
  LET newReward == (lastTimeRewardApplicable(t) - rewardData[t].lastUpdateTime)
                     * rewardData[t].rewardPerSecond
  IN  IF lockedSupplyWithMultiplier > 0
      THEN rewardData[t].rewardPerTokenStored
             + (newReward * RPT_PRECISION) \div lockedSupplyWithMultiplier
      ELSE rewardData[t].rewardPerTokenStored

Earned(u, t) ==
  rewards[u][t]
    + (bal[u].lockedWithMultiplier
         * (rewardPerToken(t) - userRewardPerTokenPaid[u][t])) \div RPT_PRECISION

\* The two checked subtractions of _updateReward(u) do not revert.
CanUpdateReward(u) ==
  \A t \in Listed :
    /\ lockedSupplyWithMultiplier > 0
         => lastTimeRewardApplicable(t) >= rewardData[t].lastUpdateTime
    /\ rewardPerToken(t) >= userRewardPerTokenPaid[u][t]

\* Mutant: the end of the reward period is ignored.
UpdatedPastTheEnd(t) ==
  IF t \in Listed
  THEN [rewardData[t] EXCEPT !.rewardPerTokenStored = rewardPerToken(t),
                             !.lastUpdateTime = now]
  ELSE rewardData[t]

\* rewardData[t] after _updateReward.
Updated(t) ==
  IF t \in Listed
  THEN [rewardData[t] EXCEPT !.rewardPerTokenStored = rewardPerToken(t),
                             !.lastUpdateTime = lastTimeRewardApplicable(t)]
  ELSE rewardData[t]

\* Mutant: the leftover is taken for the whole period, not for what remains.
NotifyWholeLeftover(r, reward) ==
  LET leftover == IF now >= r.periodFinish THEN 0
                  ELSE (rewardsDuration * r.rewardPerSecond) \div PRECISION
  IN  [r EXCEPT
         !.rewardPerSecond = ((reward + leftover) * PRECISION) \div rewardsDuration,
         !.lastUpdateTime = now,
         !.periodFinish = now + rewardsDuration,
         !.balance = @ + reward]

\* _notifyReward: stream `reward`, and what is left of the running period,
\* over a new period starting now.
Notify(r, reward) ==
  LET remaining == IF now >= r.periodFinish THEN 0 ELSE r.periodFinish - now
      leftover  == (remaining * r.rewardPerSecond) \div PRECISION
  IN  [r EXCEPT
         !.rewardPerSecond = ((reward + leftover) * PRECISION) \div rewardsDuration,
         !.lastUpdateTime = now,
         !.periodFinish = now + rewardsDuration,
         !.balance = @ + reward]

\* What forwardReward sends on: the forwarder's balance less operation expenses.
Forwarded(t) ==
  middleFee[t] - (middleFee[t] * operationExpenseRatio) \div RATIO_DIVISOR

Stale(t) ==
  rewardData[t].periodFinish < now + rewardsDuration - rewardsLookback

\* Mutant: PRNT is notified before the running stream is accounted for.
NoticedBeforeUpdate(t, present) ==
  LET r == Updated(t)
      unseen == present - r.balance
  IN  IF t = Prnt
      THEN IF Forwarded(t) > 0 THEN Notify(rewardData[t], Forwarded(t)) ELSE r
      ELSE IF Stale(t) /\ unseen > 0 THEN Notify(r, unseen) ELSE r

\* rewardData[t] after _updateReward, then forwardReward and
\* _notifyUnseenReward.  Forwarded PRNT is vested to the contract itself, which
\* notifies it at once; any other token is noticed by its balance, when the
\* running period is older than the lookback.
Noticed(t, present) ==
  LET r == Updated(t)
      unseen == present - r.balance
  IN  IF t = Prnt
      THEN IF Forwarded(t) > 0 THEN Notify(r, Forwarded(t)) ELSE r
      ELSE IF Stale(t) /\ unseen > 0 THEN Notify(r, unseen) ELSE r

\* The part of a transaction that touches rewards: _updateReward(u), a transfer
\* of `prntOut` PRNT out of the contract, then forwardReward for the tokens
\* `fwd` and the payment of the tokens `pay` to u (_getReward).  With fwd and
\* pay empty it is a plain _updateReward(u).
Settle(u, fwd, pay, prntOut) ==
  LET present == [t \in Tokens |-> held[t] + (IF t \in fwd THEN Forwarded(t) ELSE 0)
                                           - (IF t = Prnt THEN prntOut ELSE 0)]
      data    == [t \in Tokens |-> IF t \in fwd THEN Noticed(t, present[t])
                                   ELSE Updated(t)]
      due     == [t \in Tokens |-> IF t \in Listed THEN Earned(u, t)
                                   ELSE rewards[u][t]]
      payout  == [t \in Tokens |-> IF t \in pay THEN due[t] \div PRECISION ELSE 0]
  IN  /\ CanUpdateReward(u)
      /\ held[Prnt] >= prntOut
      /\ \A t \in fwd \ {Prnt} :
           /\ rewardData[t].periodFinish # 0
           /\ Stale(t) => present[t] >= rewardData[t].balance
      /\ \A t \in Tokens : /\ data[t].balance >= payout[t]
                           /\ present[t] >= payout[t]
      /\ rewardData' = [t \in Tokens |->
                          [data[t] EXCEPT !.balance = @ - payout[t]]]
      /\ rewards' = [rewards EXCEPT ![u] =
                       [t \in Tokens |-> IF payout[t] > 0 THEN 0 ELSE due[t]]]
      /\ userRewardPerTokenPaid' = [userRewardPerTokenPaid EXCEPT ![u] =
           [t \in Tokens |-> IF t \in Listed THEN rewardPerToken(t) ELSE @[t]]]
      /\ held' = [t \in Tokens |-> present[t] - payout[t]]
      /\ middleFee' = [t \in Tokens |-> IF t \in fwd THEN 0 ELSE middleFee[t]]
      /\ UNCHANGED feesLeft

UpdateReward(u) == Settle(u, {}, {}, 0)

-----------------------------------------------------------------------------
(* Locks: stake, withdrawExpiredLocksForWithOptions, relock, claimBounty     *)

Expired(lock) == lock.unlockTime <= now

\* Mutant: the new lock goes to the end of the list.
AppendLock(locks, lock) == Append(locks, lock)

\* _insertLock: before the first lock that does not unlock earlier.  On a
\* sorted list (LocksSorted) _binarySearch returns the number of earlier locks.
InsertLock(locks, lock) ==
  LET p == Cardinality({i \in 1..Len(locks) :
                          locks[i].unlockTime < lock.unlockTime})
  IN  SubSeq(locks, 1, p) \o <<lock>> \o SubSeq(locks, p + 1, Len(locks))

\* Mutant: locks of one day are merged whatever their multiplier.
AddLockByDay(locks, amount, type) ==
  LET days == type.period \div DAY
      merges == IF locks = <<>> THEN FALSE
                ELSE locks[Len(locks)].unlockTime \div DAY = (now \div DAY) + days
  IN  IF merges
      THEN [locks EXCEPT ![Len(locks)].amount = @ + amount]
      ELSE InsertLock(locks, [amount |-> amount, unlockTime |-> now + days * DAY,
                              multiplier |-> type.multiplier])

\* The list part of _stake: merge with the last lock when it unlocks on the
\* same day with the same multiplier, otherwise insert a new lock.
AddLock(locks, amount, type) ==
  LET days == type.period \div DAY
      merges == IF locks = <<>> THEN FALSE
                ELSE LET last == locks[Len(locks)]
                     IN  /\ last.unlockTime \div DAY = (now \div DAY) + days
                         /\ last.multiplier = type.multiplier
  IN  IF merges
      THEN [locks EXCEPT ![Len(locks)].amount = @ + amount]
      ELSE InsertLock(locks, [amount |-> amount, unlockTime |-> now + days * DAY,
                              multiplier |-> type.multiplier])

\* Mutant: the multiplier is left out of the supply.
StakeUnweightedSupply(u, amount, typeIndex) ==
  /\ ~paused
  /\ amount >= minDLPBalance
  /\ typeIndex < Len(lockTypes)
  /\ lockedSupply + amount <= MaxSupply
  /\ UpdateReward(u)
  /\ LET type == lockTypes[typeIndex + 1]
     IN  /\ userLocks' = [userLocks EXCEPT ![u] = AddLock(@, amount, type)]
         /\ bal' = [bal EXCEPT ![u].total = @ + amount,
                               ![u].locked = @ + amount,
                               ![u].lockedWithMultiplier = @ + amount * type.multiplier]
  /\ lockedSupplyWithMultiplier' = lockedSupplyWithMultiplier + amount
  /\ lockedSupply' = lockedSupply + amount
  /\ stakeHeld' = stakeHeld + amount
  /\ UNCHANGED <<now, userEarnings, configVars, rewardTokens>>

\* _stake called by stake(): the LP tokens come from the sender.
Stake(u, amount, typeIndex) ==
  /\ ~paused
  /\ amount >= minDLPBalance
  /\ typeIndex < Len(lockTypes)
  /\ lockedSupply + amount <= MaxSupply
  /\ UpdateReward(u)
  /\ LET type == lockTypes[typeIndex + 1]
         weighted == amount * type.multiplier
     IN  /\ userLocks' = [userLocks EXCEPT ![u] = AddLock(@, amount, type)]
         /\ bal' = [bal EXCEPT ![u].total = @ + amount,
                               ![u].locked = @ + amount,
                               ![u].lockedWithMultiplier = @ + weighted]
         /\ lockedSupplyWithMultiplier' = lockedSupplyWithMultiplier + weighted
  /\ lockedSupply' = lockedSupply + amount
  /\ stakeHeld' = stakeHeld + amount
  /\ UNCHANGED <<now, userEarnings, configVars, rewardTokens>>

\* Mutants: expiry by the day instead of by the second, and a loop that stops
\* one lock short of its limit.
CleanCountByDay(locks, limit) ==
  Cardinality({i \in 1..Len(locks) :
                 i <= limit /\ \A j \in 1..i : locks[j].unlockTime \div DAY <= now \div DAY})

CleanCountShort(locks, limit) ==
  Cardinality({i \in 1..Len(locks) :
                 i < limit /\ \A j \in 1..i : Expired(locks[j])})

\* How many locks _cleanWithdrawableLocks removes: it stops at the first lock
\* that has not expired, relying on the order of the list.
CleanCount(locks, limit) ==
  Cardinality({i \in 1..Len(locks) :
                 i <= limit /\ \A j \in 1..i : Expired(locks[j])})

\* _withdrawExpiredLocksFor: the expired locks among the first `limit` leave
\* the list; a relock stakes them again with the user's default type, else the
\* tokens go to the user.  With nothing to relock, _stake returns at once.
WithdrawExpiredLocksFor(caller, u, isRelockAction, limit) ==
  LET k        == CleanCount(userLocks[u], limit)
      gone     == SubSeq(userLocks[u], 1, k)
      kept     == SubSeq(userLocks[u], k + 1, Len(userLocks[u]))
      amount   == Sum(Amounts(gone))
      weighted == Sum(Weighted(gone))
      relocks  == /\ isRelockAction \/ (caller # u /\ ~autoRelockDisabled[u])
                  /\ amount > 0
  IN  /\ ~paused
      /\ isRelockAction => caller \in {u, LockZap}
      /\ UpdateReward(u)
      /\ bal[u].locked >= amount /\ bal[u].total >= amount
      /\ bal[u].lockedWithMultiplier >= weighted
      /\ lockedSupply >= amount /\ lockedSupplyWithMultiplier >= weighted
      /\ IF relocks
         THEN /\ amount >= minDLPBalance
              /\ defaultLockIndex[u] < Len(lockTypes)
              /\ LET type  == lockTypes[defaultLockIndex[u] + 1]
                     again == amount * type.multiplier
                 IN  /\ userLocks' = [userLocks EXCEPT ![u] =
                                        AddLock(kept, amount, type)]
                     /\ bal' = [bal EXCEPT ![u].lockedWithMultiplier =
                                  @ - weighted + again]
                     /\ lockedSupplyWithMultiplier' =
                          lockedSupplyWithMultiplier - weighted + again
              /\ UNCHANGED <<lockedSupply, stakeHeld>>
         ELSE /\ stakeHeld >= amount
              /\ userLocks' = [userLocks EXCEPT ![u] = kept]
              /\ bal' = [bal EXCEPT ![u].total = @ - amount,
                                    ![u].locked = @ - amount,
                                    ![u].lockedWithMultiplier = @ - weighted]
              /\ lockedSupply' = lockedSupply - amount
              /\ lockedSupplyWithMultiplier' = lockedSupplyWithMultiplier - weighted
              /\ stakeHeld' = stakeHeld - amount
      /\ UNCHANGED <<now, userEarnings, configVars, rewardTokens>>

\* withdrawExpiredLocksForWithOptions; a limit of 0 stands for all locks.
WithdrawExpiredLocks(caller, u, limit, isRelockAction) ==
  WithdrawExpiredLocksFor(caller, u, isRelockAction,
                          IF limit = 0 THEN Len(userLocks[u]) ELSE limit)

Relock(u) == WithdrawExpiredLocksFor(u, u, TRUE, Len(userLocks[u]))

\* claimBounty with execute, called by the bounty manager.
unlockable(u) ==
  Sum([i \in 1..Len(userLocks[u]) |->
         IF Expired(userLocks[u][i]) THEN userLocks[u][i].amount ELSE 0])

ClaimBounty(u) ==
  /\ unlockable(u) > 0
  /\ WithdrawExpiredLocksFor(Stranger, u, FALSE, Len(userLocks[u]))

-----------------------------------------------------------------------------
(* Vesting: vestTokens, withdraw, individualEarlyExit, exit, zapVestingToLp  *)

AllVested == Sum([v \in Users |-> bal[v].unlocked + bal[v].earned])

\* vestTokens for a user.  The minters (incentives controller, bounty manager)
\* send the PRNT first.  Vesting of the same day goes into one entry.
VestTokens(u, amount, withPenalty) ==
  LET earnings == userEarnings[u]
      n == Len(earnings)
      sameDay == /\ n > 0
                 /\ earnings[n].unlockTime \div DAY
                      = (now \div DAY) + (vestDuration \div DAY)
  IN  /\ ~paused
      /\ AllVested + amount <= MaxVested
      /\ held' = [held EXCEPT ![Prnt] = @ + amount]
      /\ IF withPenalty
         THEN /\ bal' = [bal EXCEPT ![u].total = @ + amount,
                                    ![u].earned = @ + amount]
              /\ userEarnings' = [userEarnings EXCEPT ![u] =
                   IF sameDay THEN [earnings EXCEPT ![n].amount = @ + amount]
                   ELSE Append(earnings, [amount |-> amount,
                                          unlockTime |-> now + vestDuration])]
         ELSE /\ bal' = [bal EXCEPT ![u].total = @ + amount,
                                    ![u].unlocked = @ + amount]
              /\ UNCHANGED userEarnings
      /\ UNCHANGED <<now, userLocks, supplyVars, configVars, rewardTokens,
                     rewardVars, middleFee, feesLeft>>

\* _penaltyInfo: 90% at the start of vesting, 25% just before its end.  (The
\* burn ratio only splits the penalty between two treasuries.)
PenaltyFactor(e) ==
  IF e.unlockTime > now
  THEN ((e.unlockTime - now) * HALF) \div vestDuration + QUART
  ELSE 0

PenaltyOf(amount, factor) == (amount * factor) \div WHOLE
Penalty(e) == PenaltyOf(e.amount, PenaltyFactor(e))
Net(e)     == e.amount - Penalty(e)

Penalties(es) == [i \in 1..Len(es) |-> Penalty(es[i])]
Nets(es)      == [i \in 1..Len(es) |-> Net(es[i])]

\* Mutants of the last step of withdraw()'s loop: the penalty is computed on the
\* whole entry; an exactly used up entry stays; the penalty is not added to what
\* is taken.
DrainWith(es, remaining, wholePenalty, keepsLast, noGrossUp) ==
  LET netTo(i)  == SumTo(Nets(es), i)
      k         == CHOOSE i \in 1..Len(es) :
                     netTo(i - 1) < remaining /\ remaining <= netTo(i)
      factor    == PenaltyFactor(es[k])
      whole     == netTo(k) = remaining
      short     == remaining - netTo(k - 1)
      required  == IF whole THEN es[k].amount
                   ELSE IF noGrossUp THEN short ELSE (short * WHOLE) \div (WHOLE - factor)
      rest      == SubSeq(es, k + 1, Len(es))
  IN  [taken    |-> SumTo(Amounts(es), k - 1) + required,
       penalty  |-> SumTo(Penalties(es), k - 1)
                      + PenaltyOf(IF wholePenalty THEN es[k].amount ELSE required, factor),
       earnings |-> IF whole THEN IF keepsLast THEN <<es[k]>> \o rest ELSE rest
                    ELSE <<[es[k] EXCEPT !.amount = @ - required]>> \o rest]

DrainWholePenalty(es, remaining) == DrainWith(es, remaining, TRUE, FALSE, FALSE)
DrainKeepsLast(es, remaining)    == DrainWith(es, remaining, FALSE, TRUE, FALSE)
DrainNoGrossUp(es, remaining)    == DrainWith(es, remaining, FALSE, FALSE, TRUE)

\* withdraw() when more than the unlocked balance is asked for: entries are
\* consumed from the oldest until their net amounts cover `remaining`; of the
\* last one only what is needed is taken, penalty included.  The result says
\* what is taken from earned, the penalty, and the entries left.
Drain(es, remaining) ==
  LET netTo(i)  == SumTo(Nets(es), i)
      k         == CHOOSE i \in 1..Len(es) :
                     netTo(i - 1) < remaining /\ remaining <= netTo(i)
      factor    == PenaltyFactor(es[k])
      whole     == netTo(k) = remaining
      required  == IF whole THEN es[k].amount
                   ELSE ((remaining - netTo(k - 1)) * WHOLE) \div (WHOLE - factor)
      rest      == SubSeq(es, k + 1, Len(es))
  IN  [taken    |-> SumTo(Amounts(es), k - 1) + required,
       penalty  |-> SumTo(Penalties(es), k - 1) + PenaltyOf(required, factor),
       earnings |-> IF whole THEN rest
                    ELSE <<[es[k] EXCEPT !.amount = @ - required]>> \o rest]

\* withdraw.  The loop reverts (InvalidEarned) when the entries run out.
Withdraw(u, amount) ==
  /\ IF amount <= bal[u].unlocked
     THEN /\ bal[u].total >= amount
          /\ bal' = [bal EXCEPT ![u].unlocked = @ - amount, ![u].total = @ - amount]
          /\ UNCHANGED userEarnings
          /\ Settle(u, {}, {}, amount)
     ELSE LET es == userEarnings[u]
              remaining == amount - bal[u].unlocked
              drained == Drain(es, remaining)
          IN  /\ bal[u].earned >= remaining
              /\ Sum(Nets(es)) >= remaining
              /\ bal[u].earned >= drained.taken
              /\ bal[u].total >= amount + drained.penalty
              /\ bal' = [bal EXCEPT ![u].unlocked = 0,
                                    ![u].earned = @ - drained.taken,
                                    ![u].total = @ - amount - drained.penalty]
              /\ userEarnings' = [userEarnings EXCEPT ![u] = drained.earnings]
              /\ Settle(u, {}, {}, amount + drained.penalty)
  /\ UNCHANGED <<now, userLocks, supplyVars, configVars, rewardTokens>>

\* _withdrawTokens with claimRewards claims every listed token.
ClaimSet(claimRewards) == IF claimRewards THEN Listed ELSE {}

\* Mutant: the removed entry is replaced by the last one.
SwapRemoveEntry(es, i) == SubSeq([es EXCEPT ![i] = es[Len(es)]], 1, Len(es) - 1)

\* The later entries move up by one.
RemoveEntry(es, i) == SubSeq(es, 1, i - 1) \o SubSeq(es, i + 1, Len(es))

\* individualEarlyExit: the first entry with that unlock time leaves the list.
IndividualEarlyExit(u, unlockTime, claimRewards) ==
  LET es == userEarnings[u]
      i  == CHOOSE j \in 1..Len(es) :
              /\ es[j].unlockTime = unlockTime
              /\ \A h \in 1..(j - 1) : es[h].unlockTime # unlockTime
  IN  /\ unlockTime > now
      /\ \E j \in 1..Len(es) : es[j].unlockTime = unlockTime
      /\ claimRewards => ~paused
      /\ bal[u].total >= es[i].amount /\ bal[u].earned >= es[i].amount
      /\ bal' = [bal EXCEPT ![u].total = @ - es[i].amount,
                            ![u].earned = @ - es[i].amount]
      /\ userEarnings' = [userEarnings EXCEPT ![u] = RemoveEntry(es, i)]
      /\ Settle(u, ClaimSet(claimRewards), ClaimSet(claimRewards), es[i].amount)
      /\ UNCHANGED <<now, userLocks, supplyVars, configVars, rewardTokens>>

\* Mutant: the penalty is deducted twice from total, and never leaves.
ExitKeepsPenalty(u, claimRewards) ==
  LET leaving == bal[u].unlocked + bal[u].earned
      penalty == Sum(Penalties(userEarnings[u]))
  IN  /\ claimRewards => ~paused
      /\ bal[u].total >= leaving
      /\ bal' = [bal EXCEPT ![u].total = @ - leaving - penalty,
                            ![u].unlocked = 0, ![u].earned = 0]
      /\ userEarnings' = [userEarnings EXCEPT ![u] = <<>>]
      /\ Settle(u, ClaimSet(claimRewards), ClaimSet(claimRewards), leaving - penalty)
      /\ UNCHANGED <<now, userLocks, supplyVars, configVars, rewardTokens>>

\* exit: everything unlocked or vesting leaves, with its penalty.
Exit(u, claimRewards) ==
  LET leaving == bal[u].unlocked + bal[u].earned
  IN  /\ claimRewards => ~paused
      /\ leaving >= Sum(Penalties(userEarnings[u]))
      /\ bal[u].total >= leaving
      /\ bal' = [bal EXCEPT ![u].total = @ - leaving,
                            ![u].unlocked = 0, ![u].earned = 0]
      /\ userEarnings' = [userEarnings EXCEPT ![u] = <<>>]
      /\ Settle(u, ClaimSet(claimRewards), ClaimSet(claimRewards), leaving)
      /\ UNCHANGED <<now, userLocks, supplyVars, configVars, rewardTokens>>

\* zapVestingToLp: the entries still vesting, from the newest back to the first
\* that has matured, leave for the zapper without a penalty.
ZapVestingToLp(u) ==
  LET es == userEarnings[u]
      kept == Cardinality({i \in 1..Len(es) :
                             \E j \in i..Len(es) : es[j].unlockTime <= now})
      zapped == Sum(Amounts(SubSeq(es, kept + 1, Len(es))))
  IN  /\ bal[u].earned >= zapped /\ bal[u].total >= zapped
      /\ bal' = [bal EXCEPT ![u].earned = @ - zapped, ![u].total = @ - zapped]
      /\ userEarnings' = [userEarnings EXCEPT ![u] = SubSeq(es, 1, kept)]
      /\ Settle(u, {}, {}, zapped)
      /\ UNCHANGED <<now, userLocks, supplyVars, configVars, rewardTokens>>

-----------------------------------------------------------------------------
(* Rewards: getReward, claimFromConverter, addReward, removeReward, fees     *)

\* getReward: `tokens` is the caller's choice, listed or not.
GetReward(u, tokens) ==
  /\ ~paused
  /\ Settle(u, tokens, tokens, 0)
  /\ UNCHANGED <<now, balanceVars, supplyVars, configVars, rewardTokens>>

\* claimFromConverter: every listed token is forwarded, all but PRNT are paid.
ClaimFromConverter(u) ==
  /\ ~paused
  /\ Settle(u, Listed, Listed \ {Prnt}, 0)
  /\ UNCHANGED <<now, balanceVars, supplyVars, configVars, rewardTokens>>

\* addReward, through MiddleFeeDistribution.addReward.
AddReward(t) ==
  /\ t \in AddableRewards
  /\ rewardData[t].lastUpdateTime = 0
  /\ rewardTokens' = Append(rewardTokens, t)
  /\ rewardData' = [rewardData EXCEPT ![t].lastUpdateTime = now,
                                      ![t].periodFinish = now]
  /\ UNCHANGED <<now, balanceVars, supplyVars, configVars,
                 userRewardPerTokenPaid, rewards, tokenVars>>

\* removeReward: the last token takes the removed one's place.
RemoveReward(t) ==
  LET n == Len(rewardTokens)
      i == CHOOSE j \in 1..n : /\ rewardTokens[j] = t
                               /\ \A h \in 1..(j - 1) : rewardTokens[h] # t
  IN  /\ t \in RemovableRewards
      /\ t \in Listed
      /\ rewardTokens' = SubSeq([rewardTokens EXCEPT ![i] = rewardTokens[n]], 1, n - 1)
      /\ rewardData' = [rewardData EXCEPT ![t] = NoReward]
      /\ UNCHANGED <<now, balanceVars, supplyVars, configVars,
                     userRewardPerTokenPaid, rewards, tokenVars>>

\* External: fees reach the forwarder (reserve treasury of the lending pool),
\* or, for tokens other than PRNT, the contract itself (a transfer, or the
\* interest on the aTokens it holds).
FeesArrive(t, amount) ==
  /\ feesLeft[t] > 0
  /\ feesLeft' = [feesLeft EXCEPT ![t] = @ - 1]
  /\ \/ /\ middleFee' = [middleFee EXCEPT ![t] = @ + amount]
        /\ UNCHANGED held
     \/ /\ t # Prnt
        /\ held' = [held EXCEPT ![t] = @ + amount]
        /\ UNCHANGED middleFee
  /\ UNCHANGED <<now, balanceVars, supplyVars, configVars, rewardTokens, rewardVars>>

-----------------------------------------------------------------------------
(* Settings and time                                                         *)

unchangedButConfig ==
  UNCHANGED <<now, balanceVars, supplyVars, rewardTokens, rewardVars, tokenVars>>

SetRelock(u, status) ==
  /\ autoRelockDisabled' = [autoRelockDisabled EXCEPT ![u] = ~status]
  /\ UNCHANGED <<paused, lockTypes, defaultLockIndex, rewardsLookback>>
  /\ unchangedButConfig

SetDefaultRelockTypeIndex(u, index) ==
  /\ index < Len(lockTypes)
  /\ defaultLockIndex' = [defaultLockIndex EXCEPT ![u] = index]
  /\ UNCHANGED <<paused, lockTypes, autoRelockDisabled, rewardsLookback>>
  /\ unchangedButConfig

SetLockTypeInfo(info) ==
  /\ lockTypes' = info
  /\ UNCHANGED <<paused, defaultLockIndex, autoRelockDisabled, rewardsLookback>>
  /\ unchangedButConfig

SetLookback(lookback) ==
  /\ rewardsLookback' = lookback
  /\ UNCHANGED <<paused, lockTypes, defaultLockIndex, autoRelockDisabled>>
  /\ unchangedButConfig

\* pause() and unpause() each revert in the state they lead to.
SetPaused(status) ==
  /\ paused # status
  /\ paused' = status
  /\ UNCHANGED <<lockTypes, defaultLockIndex, autoRelockDisabled,
                 rewardsLookback>>
  /\ unchangedButConfig

Tick ==
  /\ now < MaxTime
  /\ now' = now + 1
  /\ UNCHANGED <<balanceVars, supplyVars, configVars, rewardTokens, rewardVars,
                 tokenVars>>

Next ==
  \/ Tick
  \/ \E u \in Users, a \in StakeAmounts, i \in 0..Len(lockTypes) : Stake(u, a, i)
  \/ \E u \in Users, l \in Limits, r \in BOOLEAN :
       \E c \in {u, LockZap, Stranger} : WithdrawExpiredLocks(c, u, l, r)
  \/ \E u \in Users : Relock(u)
  \/ \E u \in Users : ClaimBounty(u)
  \/ \E u \in Users, a \in VestAmounts, p \in BOOLEAN : VestTokens(u, a, p)
  \/ \E u \in Users, a \in WithdrawAmounts : Withdraw(u, a)
  \/ \E u \in Users, c \in BOOLEAN :
       \E i \in 1..Len(userEarnings[u]) :
         IndividualEarlyExit(u, userEarnings[u][i].unlockTime, c)
  \/ \E u \in Users, c \in BOOLEAN : Exit(u, c)
  \/ \E u \in Users : ZapVestingToLp(u)
  \/ \E u \in Users, ts \in SUBSET Tokens : GetReward(u, ts)
  \/ \E u \in Users : ClaimFromConverter(u)
  \/ \E t \in Tokens : AddReward(t)
  \/ \E t \in Tokens : RemoveReward(t)
  \/ \E t \in Tokens, a \in FeeAmounts : FeesArrive(t, a)
  \/ \E u \in ConfigUsers, s \in BOOLEAN : SetRelock(u, s)
  \/ \E u \in ConfigUsers, i \in 0..(Len(lockTypes) - 1) :
       SetDefaultRelockTypeIndex(u, i)
  \/ \E info \in LockTypeInfos : SetLockTypeInfo(info)
  \/ \E l \in Lookbacks : SetLookback(l)
  \/ \E s \in PauseStatuses : SetPaused(s)

Spec == Init /\ [][Next]_vars
=============================================================================
