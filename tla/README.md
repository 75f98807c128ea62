# Prime protocol: TLA+ specifications

Prime is a lending market (a fork of Aave v2) whose users earn PRNT emissions on
deposits and debts as long as they keep enough liquidity tokens locked, and whose
lockers share the fees of the market. The repository holds the contracts and, in
TypeScript, the programs that deploy, configure and maintain them. This directory
models the contracts where emissions and fees are accounted
(`src/contracts/prime/staking`, `src/contracts/prime/eligibility`), the deployment
(`src/deploy`, `src/scripts`) and the task that wires the token across chains
(`src/tasks/wireAll.ts`), checks them with TLC, and proves with TLAPS the properties
of locks, vesting, reward streams, emissions, eligibility, of the deployment and of the wiring.

## 1. Inventory

| component | state | operations | modelled |
|---|---|---|---|
| MultiFeeDistribution (MFD) | balances, lock lists, vesting entries, supplies, lock types, reward tokens and streams, per-user accruals | stake, withdrawExpiredLocks, relock, claimBounty, vestTokens, withdraw, individualEarlyExit, exit, zapVestingToLp, getReward, claimFromConverter, addReward, removeReward, settings, pause | partly (all but wiring) |
| MiddleFeeDistribution | its token balances, the expense ratio | forwardReward, addReward, removeReward | partly, inside MFD's transactions |
| ChefIncentivesController (CIC) | pools, registered amounts and debts, claimable base, reserve accounting, schedule, eligibility switches | handleActionAfter, afterLockUpdate, claim, claimBounty, registerRewardDeposit, addPool, batchUpdateAllocPoint, setRewardsPerSecond, setEmissionSchedule, switches | partly (all but start, wiring) |
| EligibilityDataProvider (EDP) | last status and disqualification time per user, two ratios | refresh, setDqTime, setters | partly (all but a view) |
| lending tokens | scaled balances, index | mint, burn, transfer with hooks | as CIC's environment |
| Leverager | none of its own here | loop | the order of its calls to CIC |
| BountyManager | PRNT reserve, whitelist, pause, parameters | quote, claim | not yet |
| LockerList | list and index of lockers | addToList, removeFromList | not yet |
| Compounder, LockZap, pool helpers, Migration, StargateBorrow | next to none | one-transaction pipelines over AMMs and bridges | no |
| PrimeToken | an omnichain ERC20 | bridge fee, pause | no |
| oracles | TWAP window, feeds | update, consult | no: prices are arbitrary |
| lending pool | reserves, indices, user flags | deposit, borrow, repay, withdraw, liquidate | no: reduced to mint, burn and a growing index |
| deployment scripts | the chain, the deployment files, `.migrations.json`; per run the script, its next call, the step's transaction options | `hardhat deploy`: 47 scripts, errors, kills, repeated runs | yes |
| network configuration | none: tag sets, named accounts, chains | selects scripts and calls | partly (5 networks) |
| maintenance scripts | none: they keep no record | set reserves, rates, points, oracle, treasury, recover ... | partly (14 scripts) |
| wireAll | per run the settings read, noted and written; the Safes' queues | read, diff, write or propose, report | yes |
| oftSend, defender, utilities | none | one bridge transfer, calls to a service, look-ups | no |

How the contracts interact, always within one transaction:

- a lending token's mint, burn or transfer calls `CIC.handleActionAfter(user, balance)`;
  CIC asks EDP to `refresh(user)`, which reads the user's collateral from the
  lending pool, its locks from MFD and the LP price;
- a change of locks in MFD calls `CIC.afterLockUpdate(user)`;
- `CIC.claim` sends PRNT to MFD and calls `vestTokens`;
- `MFD.getReward` calls `MiddleFeeDistribution.forwardReward`, which transfers the
  collected fees back and, for PRNT, calls `vestTokens(MFD, ...)`, that is
  `_notifyReward`;
- BountyManager calls `MFD.claimBounty` and `CIC.claimBounty` for any user.

The programs around them share only files and the chain. `hardhat deploy` runs the
scripts of `deploy/` in an order given by file names, dependency tags and
`runAtTheEnd`; a script is a `DeployStep` (`scripts/deploy/depfunc.ts`), which is
skipped when it is recorded or when the network lacks one of its tags, makes one call after the
other, each waited for, and is recorded when its body has returned. The scripts
find each other's contracts by the name of a deployment file. `wireAll` reads the
settings of the token on each local network concurrently and, when all are
read, writes those that differ, each network on its own, or proposes them to the
network's Safe.

In the contracts, what is hard is not parallelism, since transactions are atomic, but order: users,
third parties, keepers, minters and the owner transact in any order and at any
time; the same sums are kept incrementally in several places; streams, schedules,
penalties and eligibility depend on when somebody last caused an update; integer
division rounds at every step; and a checked subtraction that underflows does
not merely give a wrong number but blocks the user, or everybody. The hazards are
listed, with their lines, in PROJECT.json.

In the programs nothing is atomic: a run can fail or be killed between two
transactions, its operator starts it again, and what it finds done is decided by
records, by deployment files, or by a field of a contract that an earlier call
set. Reads are acted on later, receipts get lost, and several networks proceed at once.

What makes each component correct:

- MFD locks: lists are sorted and sum to the balances, the balances to the
  supplies, the supplies to the tokens held; nothing unexpired ever leaves; a
  bounty is paid once.
- MFD vesting: total = unlocked + locked + earned; entries sum to earned and are
  never empty; sorted; PRNT held is PRNT owed; a withdrawal costs what it says.
- MFD rewards: what was accrued plus what is still to be streamed is covered;
  updates never revert; nobody changes what another has accrued.
- CIC: totals are sums; hooks never revert by arithmetic; what is earned is kept
  and covered by the reserve; a rate is not applied before its time.
- CIC and EDP: an ineligible user is removed, nobody is registered for more than
  it holds, a change of locks registers all an eligible user holds.
- deployment: nothing is asked for before it exists; what is recorded is complete;
  supplies are paid once and the pool opens at its price; the pool's admin role
  comes back; a repeated command finishes the deployment and then changes nothing.
- wireAll: its reports are true of every network, a setting is never forgotten,
  and the repeated command converges.

## 2. Modules

| module | content |
|---|---|
| `Sums` | the sum of a sequence, as a recursive function |
| `MultiFeeDistribution` | MFD with MiddleFeeDistribution |
| `MultiFeeProperties` | its properties |
| `MCMultiFee` | constants of its runs |
| `EligibilityDataProvider` | EDP: operators on the transaction state, settings, prices |
| `ChefIncentivesController` | CIC, extending EDP, with the tokens' hooks and Leverager's loop |
| `ChefProperties`, `MCChef` | its properties, and constants of its runs |
| `SumsProofs` | lemmas on sums: updates, extension, splitting, bounds, scaling, the index where a running sum crosses a value; and on loops of any number of rounds |
| `MultiFeeProofs` | lemmas on the penalty, on withdraw's loop, on vesting entries; the types and sums of MFD: the inductive invariant `Inv` the next two extend |
| `MultiFeeStakeProofs` | theorems on locks: `LockInv`, what a step may never do to them, bounties; on vesting: `VestingInv`, the PRNT held, what a withdrawal costs |
| `MultiFeeRewardProofs` | theorems on reward streams: `RewardInv`, what is accrued and covered |
| `ChefProofs` | theorems on CIC: `ChefInv`, and `HeldInv` where eligibility is enforced |
| `DeployChain` | what a call of a script does on the chain, and when it reverts |
| `DeployScripts`, `DeployPlan` | the files of `deploy/core`; those of `deploy/mocks`, `deploy/post-assets` and `scripts/`; the order of a run |
| `DeployNetworks` | the networks of `hardhat.config.ts` |
| `Deployment` | the runs: steps, errors, kills, repetition, funding, maintenance |
| `Rollout` | abstract: ordered steps, attempted, recorded, published |
| `DeploymentProperties`, `MCDeployment` | its properties, the refinement of `Rollout`, its instances |
| `DeployPlanProofs` | what the scripts are on any network, and the order of a run: `PlanIsOk`, `PlanRepeats` |
| `DeploymentProofs` | the inductive invariants of the deployment, its theorems, the refinement |
| `WireAll` | the task, its networks and their Safes |
| `Wiring` | abstract: settings owed, entrusted to a Safe, or holding |
| `WireProperties`, `MCWire` | its properties, the refinement of `Wiring`, its instances |
| `WireProofs` | the inductive invariant of wireAll and its theorems |

**Conventions of the contracts.** An external call is an action; a revert is a disabled action; a
checked subtraction is a guard `x >= y`, or is left unguarded where a property
says that it never goes below zero (CIC, whose hooks would block other contracts).
Time is `now`, moved by `Tick`. Users are numbered, so that sums over them
are sums over sequences.

**MultiFeeDistribution.** `bal`, `userLocks`, `userEarnings`, `lockedSupply`,
`rewardData` ... are the contract's storage of the same names; `held`, `stakeHeld` and
`middleFee` are the token balances of the two contracts. `Settle(u, fwd, pay, out)` is
the reward part every transaction shares: `_updateReward(u)`, a transfer of PRNT,
then for a claim `forwardReward`, `_notifyUnseenReward` and the payment. `Stake`,
`WithdrawExpiredLocksFor` (with its relock through `_stake`), `VestTokens`,
`Withdraw`, `IndividualEarlyExit`, `Exit`, `ZapVestingToLp`, `GetReward` ... combine it
with the lists. `Drain` is the loop of withdraw in closed form: the first entry at
which the running sum of net amounts reaches what is asked for, the entries before it
consumed whole. Callers matter only where the code looks at them: the user, the
zapper (`LockZap`), or anyone else (`Stranger`).

**ChefIncentivesController.** A hook runs several internal functions one after another, each
on the state left by the previous. These are operators on a record `chef` of
everything they write, and an action assigns the last result. `UpdatePool`,
`MassUpdatePools`, `HandleActionAfterForToken`, `StopEmissionsFor`,
`UpdateRegisteredBalance` have the names of the code. Balances are scaled when a
token reports them to the hook and include interest when CIC asks `balanceOf`
(`balancesOf`), as in AToken. `paid` and `updates` are history variables, of what each pool was
accounted and of how often an amount was registered (each may round by one).

**Deployment.** A script is data: the sequence of calls its body makes on a given
network (`Get`, `Deploy`, `Exec`, `ExecFrom`, `Signer`, `When`), one operator per
file, so that the operators of `DeployScripts` can be laid beside the files. `Deployment` interprets the
sequence, one call per step. `from` is the
sender in the step's transaction options, which `executeFrom` and `executeFromOwner`
change and later calls inherit; calls through `signer` do not look at it. `When`
is an `if` of the body on `newlyDeployed` or on something read from a contract. The chain is a
record of what a call can depend on: the methods called, the owner, the
roles that are passed around, the base asset and PRNT of the parties, the pool.
Two assets stand for the reserves of the configuration and two more for the
mock assets, since a script treats all alike. The last script,
`export`, reads everything it publishes, and its end is `exported`.

The order (`RunOrder`) is hardhat-deploy's: files sorted by path, each after
the files its dependency tags name, depth first, then those marked
`runAtTheEnd`. The depth-first walk is written as rounds that each put
before every file those it names, as many as the longest chain of dependencies
(`LongestChain`, 4), since the prover cannot follow a recursive operator. The order is evaluated, not assumed. `deployments/bsc_testnet/.migrations.json` records
21 ids of an actual deployment, which are in exactly the order of the model.

**Rollout** is what that promises: once-only steps are recorded in their order, one
at a time; an attempt may be given up; nothing recorded is forgotten; the result is
published when all are recorded. `R == INSTANCE Rollout WITH` maps
`order` to the places of the plan that hold a once-only script that applies to the network,
`recorded` to the migrations, `attempt` to the script whose body is running,
`published` to `exported`.

**WireAll.** A setting is the adapter flag, the trusted path of a remote, or the least gas of a packet
type for a remote; `wired[l]` are those of network `l` that hold the configured
value, `needs[l]` those the run has noted as different. `Read` interleaves
over networks and remotes as the nested `Promise.all` do. `Throw` and `Abort` reject the
whole task before a write; `WriteFails` ends one network, with the transaction
mined or not. `Propose` sends a batch, an empty one too, as the code does.
`SafeExecutes` and `Drift` belong to the Safe's owners and to other people.

**Wiring** knows settings that hold, are owed by the running task, or are entrusted
to a Safe; a task may only be done when it owes none, and what it owed then holds, waits or was
changed by others. `WireProperties` maps it by `Holds`, `Owed`, `Waiting`.

## 3. Runs

For the contracts, constants are small, and the precisions (`PRECISION`, `RPT_PRECISION`,
`ACC_REWARD_PRECISION`, 1e12 and 1e18 in the code) are 1 to 3, so that every
division rounds and rounding hazards show at once. `DAY` is 1 or 2 time units,
`rewardsDuration` 2, `vestDuration` 4 (2 days of 2 units), so that merging by day,
several entries, partial and matured vesting and overlapping streams all occur.
The parts of MFD touch each other only through the reward update, so each run
turns on what its question needs.

| run | instance | checks |
|---|---|---|
| `MFDLocks` | 2 users, locks of 1 and 2 days with multipliers 1 and 2 and a second type table, limits all and 1, up to 3 stakes, 4 time steps | LocksMatchBalances, SuppliesMatch, LocksSorted, LockedUntilExpiry, BountyPaidOnce |
| `MFDVesting` | 1 user, vesting of 3 and 5, withdrawals of 1, 2 and 4, 6 time steps, pause, removal of PRNT | TypeOK, TotalIsSumOfParts, EarningsMatchBalances, EarningsSorted, PrntAccountedFor, WithdrawCostsItsAmount |
| `MFDRewards` | 2 users with multiplier 2, PRNT and another token, each with two arrivals of fees, expenses of 20% | RewardsBacked, RewardUpdateNeverReverts, AccruedIsPreserved |
| `CICEmissions` | 2 users, a deposit and a debt pool, a rate of 2 on a reserve of 5 then 8, 3 balance updates, 3 time steps: the reserve runs out | HooksNeverRevert, OwedIsAccounted, EarnedIsKept |
| `CICAdmin` | 1 user, a second pool to add, points 1 and 2, two schedules, rates, reserve transfers, pause, eligibility switched on | TypeOK, TotalsMatch, NoRateBeforeItsTime, IneligibleIsRemoved |
| `CICEligibility` | 2 users, one of whom may be exempted, 2 pools, interest, two LP prices, loops, transfers, locks | RegisteredIsHeld, IneligibleIsRemoved, LockingRegistersAll |
| `Deploy` | networks bsc_testnet, bsc, arbitrum and localhost, all scripts, one kill at any point, one further command (any maintenance script or a second deployment) | TypeOK, NothingThrows, RecordedIsComplete, PoolOpensAtItsPrice, SuppliesPaidOnce, MarketsConfigured, RerunChangesNothing, ImplementsRollout, Completes |
| `WireAll` | three mainnet and two testnet networks, six commands (direct, by Safe, with the proxy chain, without a Safe, two that are refused), any settings wrong at first, one failure, one drift, two batches per Safe | TypeOK, CleanNetworksAreWired, NoChangesMeansWired, ImplementsWiring, Converges |

One user suffices for vesting, whose only shared state is the PRNT held; one for
the administration of CIC, whose totals are tested across users by the other two
runs. The bounds on time, supply, updates and arrivals (`MaxTime`, `MaxSupply`,
`MaxVested`, `MaxUpdates`, `MaxDeposited`, `MaxFunded`, `MaxSchedule`, `FeeBudgets`)
are guards of the actions, so an instance is finite and stops at its end, when only
actions that change nothing are left.

`Deploy` has every script on at least one network. bsc_testnet has the tags of the
configuration and, as in the repository, a PrimeToken from before. The production networks are
configured with the tags of an upgrade, which leaves out what exists; bsc and
arbitrum are here the first deployment that precedes it, with `token` and `lending`, and
arbitrum with the oracle on a Uniswap V3 pool and the post-assets. localhost, whose
tags are edited by hand (the configuration keeps alternatives in comments), has all mocks and
impersonation, without `testing`; `fund_cic` and `bypass_chainlink` make the last two mock scripts run. On the networks with several accounts, runs fail at
every point where the deployer may not have been funded yet, as often as the operator repeats them; one kill more
can fall between any two calls of any run. One kill at a time is what is asked: a second one
in the same script adds nothing to what the properties except (`cut`), one in another script meets
the chain as the repeated run has left it; one further command suffices because nothing but the chain, the files and the records is kept between commands. `MaxBase` bounds the base asset
that failing runs keep paying in: two payments are told from one, more are not.
`StrayFile` is FALSE: `deploy/core/deploy.ts` exports no function, so that any
deployment would end at it; the run is about the deployment without it.

`NothingThrows` speaks of an undisturbed, funded run before ownership is handed over,
`RecordedIsComplete` of every script except the four
(`Guarded`) that look at a contract to see whether they were run, when they were
themselves stopped: those are recorded by the next run although calls are
missing. `Completes` excepts the scripts that cannot be run again
(`NotRerunnable`), for which one of their calls reverts the second time or a file is taken
for the whole. Both sets are as small as TLC allows, and are themselves a
result: an operator who sees one of these scripts stopped has to act by hand.

`WireAll`'s networks behave alike, so two local ones show every interleaving of reads and
writes; one packet type, as several only lengthen a network's list.

Liveness is stated for the programs, of which somebody waits for the end. `Deploy` assumes
WF of a run's steps (promises settle, the node answers), of `RunDeploy` (the operator
repeats the command while it is not complete) and of `FundDeployer` (the dao
pays); `WireAll` WF of the task's steps, of `Start` (the operator repeats until nothing is to be changed) and of
`SafeExecutes` (the owners work through their queue). Failures, kills and drift are not fair and
are bounded. A run stops when nothing is left to do, hence CHECK_DEADLOCK FALSE.

Four runs show disagreements between the code and what its comments and tests say
of it (the quotations are in PROJECT.json, "findings"):

| run | property | shows |
|---|---|---|
| `MFDRelist` | RewardUpdateNeverReverts | a token removed and listed again blocks its earlier lockers: `userRewardPerTokenPaid` is not scrubbed |
| `CICPoolRate` | PoolPaidAtRate | near the end of the reserve the same seconds are paid twice |
| `DeployTests` | FixtureDeploys | the tests' deployment deploys MockPrimeToken and configures PrimeToken, which is not there |
| `WireExample` | ExampleRuns | the documented command throws at the proxy chain: `proxyContractName` is not configured |

Four more, known and listed among the hazards without a run: PRNT can be listed as a reward twice
(MultiFeeDistribution.sol:346, :1144); vesting that joins the entry of the day
unlocks with it (:476); a second `setEmissionSchedule` may append an earlier point
(ChefIncentivesController.sol:391); claims and bounty attempts refresh a user's status without
registering balances (:754). Met while modelling, and outside what a run asks:
`tasks/index.ts:13` names an environment `sandbox` that `wireAll.ts:26` refuses (modelled, `Refuse`); the
scripts of `scripts/params` read `paramData[network.name]`, which has only the two production
networks, and make their calls only on a local node, so that they never make any (modelled, `FromParams`).

No liveness is stated of the contracts. Nothing in these contracts happens by itself: every step
is a transaction somebody chooses to send, so no fairness is justified, and
their `Spec` is `Init /\ [][Next]_vars`.

## 4. Proofs

Every property that a passing run of the contracts checks, invariant or action property,
is a theorem, and so are most of those of the programs: of MFD under `ConstantsAssumption`, of CIC under
`ControllerAssumption` and `EligibilityAssumption`, of the deployment under `BoundsAssumption`,
the conditions on the constants that TLC evaluates on every run. Where a theorem needs a hypothesis more, it is in its
statement and explained below. Each proof has one lemma per action
(`WithdrawStep`, `ClaimActs` ...) and one case split over `Next`.

**Types and sums of MFD.** `MultiFeeProofs` proves, for any number of users and tokens and any durations,
precisions, lock types and amounts:

- `SpecTypeOK`: no balance, supply, holding or stream datum is ever below zero;
- `SpecTotalIsSumOfParts`: total = unlocked + locked + earned;
- `SpecEarningsMatchBalances`: earned is the sum of the vesting entries, none of
  which is empty;
- `SpecInv`: the inductive invariant `Inv` from which these follow.

`Inv` is `TypeOK` with, for every user, the two sums and `Vesting`: every entry has a
positive amount and unlocks at most `vestDuration` from now. The sums alone are
not inductive. `withdraw` divides by `WHOLE - penaltyFactor` and takes the
quotient from one entry: that the division is defined, that the entry keeps
something, and that earned and total lose the same, needs the factor to be at most
`QUART + HALF` = 90%, hence the bound on unlock times. `GrossUp` is the arithmetic
of that step (the penalty of the grossed-up amount is exactly what was added,
rounded-down divisions included), `DrainEffect` what the whole loop does to any
list of entries. The lemmas on division, and those
on sums in `SumsProofs`, are stated once and cited.

**Locks.** `MultiFeeStakeProofs` proves `SpecLocksMatchBalances`, `SpecSuppliesMatch`,
`SpecLocksSorted`, `SpecLockedUntilExpiry` and `SpecBountyPaidOnce`. The invariant `LockInv` is `Inv` with
the sums over the lock lists, the sums over users, and the order of each list. `LockSteps` is the
fact everything follows from: a transaction moves the locks of at most one user, by withdrawing
expired ones, by inserting one, or both, and changes the list, the user's balances and the
supplies by the same two amounts (`LocksMoved`). What is unexpired
is therefore never reduced, by anybody, as long as time stands still. A bounty needs the
order: the loop stops at the first unexpired lock, and only in a sorted list has it met all expired ones.

**Vesting.** The same module proves `SpecEarningsSorted`, `SpecPrntCovered`,
`SpecPrntAccountedFor` and `SpecWithdrawCostsItsAmount`. `VestingInv` says of the
reserve, the PRNT held beyond what is notified to the lockers, that it covers what
all users are owed, and equals it if PRNT is never taken off the reward list. That
condition (`Prnt \notin RemovableRewards`) is the hypothesis of `SpecPrntAccountedFor`:
`removeReward` deletes the notified balance of a token, which for PRNT stays in the
contract and belongs to nobody; `SpecPrntCovered` is what holds with it. (`MFDVesting` removes PRNT
while nothing is notified, so that both sides still agree there.) Every
transaction takes out of the reserve exactly what it takes off the books
(`VestingSteps`), the rounding of penalties included, because both are computed from the same
quotients. The cost of a withdrawal follows from `DrainEffect`: the net worth of the entries
left differs from what was asked for by the rounding of the one entry that is split.

**Reward streams.** `MultiFeeRewardProofs` proves `SpecRewardUpdateNeverReverts`,
`SpecRewardsBacked` and `SpecAccruedIsPreserved`. `RewardInv` adds to `LockInv` that PRNT
is listed, and for every listed token (`Streamed`) that nobody was paid beyond
`rewardPerTokenStored`, that the stream was updated no later than now, and that what all users are owed, unrounded,
with what the stream has yet to pay, is covered by the notified balance. It
needs the supply to be the sum of the weights (`SuppliesMatch`), since what a second of the stream adds to all
users together is the rate times their sum over the supply. The hypothesis is
`NoRelisting`: no token that the owner may remove may be added. Without it the theorems are false, as
the run `MFDRelist` shows: `removeReward` does not clear `userRewardPerTokenPaid`.
Whoever lists a token again does so against these theorems.

**Emissions.** `ChefProofs` proves `ChefSpecTypeOK`, `ChefSpecTotalsMatch`,
`ChefSpecNoRateBeforeItsTime`, `ChefSpecHooksNeverRevert`, `ChefSpecOwedIsAccounted`,
`ChefSpecEarnedIsKept` and `ChefSpecIneligibleIsRemoved`. `Good` is the set of values of
`chef` whose books balance: totals are sums; no debt exceeds what its amount has
earned and no pool is ahead of the clock (`Solvent`); only registered pools have points or
amounts; the rate is one whose time has come; and, the heart, what was accounted, plus one unit per update of a
balance, covers what all users have earned (`Slack(c) >= 0`, in units of
`ACC_REWARD_PRECISION`, without rounding). The unit per update is what `rewardDebt`,
rounded down, can be short of. Hooks run several internal functions
on the state the previous one left, so the invariant is proved function by function: `Good` is
closed under `_updatePool` and under registering an amount, the two that compute
(`UpdatePoolKeeps`, `HandleKeeps`); a loop over pools
keeps what each round keeps (`LoopRuns`, `LoopKeeps`), and hooks, disqualifications and loops of the
Leverager are sequences of these. A claim is not: between its rounds, part of
what the user earned is in the variable `pending`, neither in the books nor vested. `Claiming`
is the set of the states it passes through, with `pending` counted in.

`ChefSpecRegisteredIsHeld` and `ChefSpecLockingRegistersAll` are about users who are never exempted
(`ExemptableUsers` excepts the others, as in the properties), and have the hypothesis `AlwaysEnforced`: eligibility
is enforced at deployment, as `initialize` sets it (ChefIncentivesController.sol:225), and never switched
off. `HeldInv` adds to the amounts being held that an ineligible user has none
registered (`Idle`). The hypothesis is needed, and finding it is a result of the proof: with
`setEligibilityEnabled` in both directions, TLC finds a user who earns on a
token it no longer has. Enforcement is suspended; the user mints, which registers
the amount without refreshing its status; it locks; enforcement
resumes; the burn of all it holds finds the user eligible for the first time and, instead of
registering the balance it was told, runs `_updateRegisteredBalance`, which skips balances
of zero (:688). `CICEligibility` checks the two properties in an instance of the hypothesis.

**Sums.**

The sum of a list is a recursive function on `0..n`. The library's induction theorems
take a predicate as a parameter, which the provers do not instantiate;
`SumsProofs` argues by a least counterexample instead, from the well-foundedness of `<`
on the natural numbers (`LeastNat`), that the table of partial sums exists, is unique,
and unfolds. All facts about sums rest on these.

**Deployment.** `DeploymentProofs` proves, for any set of networks, whatever tags, accounts,
chains and earlier deployments they have, with the stray file or without, and for any number of kills, of failures for want
of PRNT and of commands in any order:

- `DeploymentImplementsRollout`: `Spec => R!RolloutSpec`;
- `RecordedScriptsAreComplete`, `PoolOpensConfigured`, `SuppliesArePaidOnce`,
  `PoolOpensAsConfigured` and `DeploymentTypes`: the invariants `RecordedIsComplete`,
  `MarketsConfigured`, `SuppliesPaidOnce`, `PoolOpensAtItsPrice` and `TypeOK`;
- `RerunSendsNothingNew`: `RerunChangesNothing`, an action property.

TLC runs the deployment on four networks; a network is a record of tags, so that there are
far more. The argument separates what the scripts are from what a run does with them.

`DeployPlanProofs` is about data only. A call of a script is *quiet* if it is a read, a deployment, or a
method none of the properties looks at (`QuietCall`); most scripts make quiet calls only,
whichever branches the tags select. `Sound(s)` says where the others stand: a call that pays, opens the pool, passes the
admin role or lifts the pause belongs to a script that may make it (`AtHome`); what a script gives away it takes
back two calls later (`Returns`); the block behind a test ends within the body (`Bounded`); and each of
the scripts that the properties name has the calls in its own pattern (`Special`, with
`Guards`, `Supplies`, `Reserves`, `Opens`). There is one lemma for each of the 48 files and of the
14 maintenance scripts. `PlanIsOk` is the order: in the plan of any network each script occurs once, all are
sound, the last is not a once-only script, and the one that lifts the pause comes after the
one that configures the market. It follows from lemmas about the rounds of `AddFiles`
for any list of files (`FirstsKeeps` and those after it): a round neither loses nor repeats a file, and a file that
leads another goes on leading it.

A script that is not recorded runs at every deployment, and must find its own work done. `Calm` says how: its
blocks are not nested; each stands behind a test for a contract that was deployed just now (`fresh`) or for one that
has no deployment and is deployed by the block's first call (`missing`); and a call outside of the blocks is
one of the two that can be made again (`setBounties`, `setUsePool`). `PlanRepeats`: in the plan of any network a script is
run once or is calm.

`DeploymentProofs` then never looks into a script again. Its inductive invariants are, in the order they are added:

- `Shape` and `InTurn`: where a run can be; before the current script, every once-only
  script that applies is recorded. With them each step of the deployment
  is a step of `Rollout` or none of it (`RolloutStep`).
- `TraceInv`: what a guarded script (`Guarded`) tests on the chain is still untouched unless that script
  is recorded, was stopped, or is running past the call that touches it. Without it `RecordedIsComplete` is
  not inductive: a guarded script that found its trace would skip its calls and be recorded. `MadeInv`: what is behind the
  program counter of a once-only script has been made.
- `OpenedInv` and `LentInv`: the pause is lifted only where `configure_markets` is recorded; the helper is
  admin only during the two calls of a script that lends it the role, or after such a script was stopped.
- `PayerInv`, `MoneyInv`, `TypeInv`: the paying scripts pay from the deployer, since no call before has
  changed the sender; balances are natural numbers whose sum is at most what was minted.
- `BountyInv`, `SupplyInv`, `LpInv`: what each receiver has been paid, as a function of
  the next call of the script that pays it, of its record, and of whether it was stopped. `configure_cic` may be stopped anywhere, since its
  first call, `start`, reverts the second time.
- `SettledInv`: a script that runs every time and has had its turn is settled: what it deploys outside of
  its blocks is deployed, what it calls there was called, and the contracts its `missing` tests ask for exist. Nothing
  undoes that, since deployments and the calls made only grow. `OutsideInv`: when a deployment is run again after one that finished,
  nothing was deployed just now and the next call is in no block. Neither is inductive without
  the other or without `InTurn`, which has every once-only script recorded by then; together they make each step of
  the second run change nothing (`CallAgain`).

**Wiring.** `WireProofs` proves, for any networks, packet types, configuration, commands and bounds allowed by
`RequestsAssumption` and `BoundsAssumption`:

- `TypeCorrect`, `CleanRuns`, `NoChangesIsTrue`: `TypeOK`, `CleanNetworksAreWired` and `NoChangesMeansWired` hold
  in every behaviour;
- `WireAllImplementsWiring`: `Spec => W!WiringSpec`, by `InitSimulates` and `StepSimulates`, one case
  per action.

The invariant is `TypeOK /\ PhasesAgree /\ Accounted`. `PhasesAgree` says what the phase tells of the
other variables (nothing unread while writing, a network that has settled owes nothing unless it failed, the report
matches `failed`). `Accounted` is the heart: in a run, every setting asked for is unread, noted, holding, changed by others since the
start, or in the Safe when the run proposes; what is still noted at the end is on a network that failed. The report's
truth is not inductive by itself: it needs to know where each setting has gone since it was read.

Only model-checked:

- liveness (`Completes`, `Converges`), for which the prover lacks ENABLED;
- `NothingThrows`, which is false of an arbitrary network: that no script asks for what is not
  there depends on which tags go together, that is on the networks of the configuration, and a proof for those four would evaluate
  as many finite runs, which is what TLC does.

The properties of the four runs that expect a violation are false, and no theorem is about them.

## 5. Not modelled

Of the programs: what an address, an amount or a string of the configuration is; gas,
confirmations and nonces; verification on explorers; upgrades of deployed
contracts (`upgradeContracts.ts`, of which the branch for WSTETHOracle is labelled StargateBorrow and
so returns '0', and whose `console.assert` only prints); the scripts that only read
or drive a local node; `oftSend`, `defender`; two operators running the same command at once.

Of the contracts, besides the components marked so above: `start()` of CIC (the initial state is
after it), the burn ratio (it splits the penalty between two treasuries), the
`lastClaimTime` fields and the `endingTime` cache (written, never read by the accounting),
wiring setters that run once at deployment, `recoverERC20`, onward incentives
(`addPool` sets none), a minimum stake that moves with the LP price, a staking
token that is PRNT itself (balances of the two tokens would mix), width of
integers (256 bits; only the TWAP oracle and the packed reserve fields rely on
narrower ones).

## 6. Plan

1. (done) MFD with its fee forwarder; CIC with EDP; all their properties proved. Deployment and
   wiring, with their abstract specifications, liveness, and both refinements proved.
2. `BountyManager` over abstract targets: reserve, pause at exhaustion, try/catch,
   quote against execution, and which bounties can be blocked; `LockerList` and its
   index bijection; a removed token that is notified again.
3. An abstract specification of a staking pool (per user: locked, vesting,
   accrued) that MFD implements under a refinement mapping; one of an emission ledger
   (reserve, earned, vested) that CIC implements.
4. The lending pool's indices, scaled balances and collateral flags, replacing
   `InterestAccrues` and `MintOrBurn` by its operations; the TWAP window.
5. Proofs: the refinements of item 3.
