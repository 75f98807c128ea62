----------------------------- MODULE DeployChain -----------------------------
(***************************************************************************)
(* What the deployment scripts do to the chain.  The contracts are seen    *)
(* through the calls the scripts make: a call names the contract, the      *)
(* method and the argument that tells two calls apart, and it either       *)
(* reverts or takes effect.  A method that can be called only once, a      *)
(* method reserved to a role, and a transfer without the balance are what  *)
(* can make a call revert.                                                 *)
(***************************************************************************)
EXTENDS Naturals, Sequences, FiniteSetsExt

\* The amounts of the configuration, in units that keep them apart.
LpInitEth     == 1
LpInitPrnt    == 2
CicReserve    == 3
DqReserve     == 1
MigrationMint == 1
PrntRequired  == LpInitPrnt + CicReserve + DqReserve + MigrationMint
MintAmt       == 2 * PrntRequired

Call(by, c, f, x) == [op |-> "call", by |-> by, c |-> c, f |-> f, x |-> x]

(* Methods that revert the second time they are called (with the same      *)
(* argument), each by a flag or address the contract keeps.                *)
OnceOnly ==
  {<<"LendingPool", "initialize">>, <<"LendingPool", "setLeverager">>,
   <<"LendingPoolConfigurator", "batchInitReserve">>,
   <<"PoolHelper", "initializePool">>, <<"LiquidityZap", "initLiquidityZap">>,
   <<"ChefIncentivesController", "start">>, <<"MFD", "setMinters">>,
   <<"MFD", "setLPToken">>, <<"EligibilityDataProvider", "setLPToken">>}

(* Methods anyone may call: the token methods and the price update.        *)
Open == {"mint", "transfer", "approve", "deposit", "addLiquidity", "borrow",
         "update"}

(* The chain before anything is deployed.  `mintTo' receives the supply    *)
(* when the token is deployed.                                             *)
EmptyChain(hasToken, dao) ==
  [done      |-> {},
   owner     |-> "deployer",
   poolAdmin |-> "none",
   feeAdmin  |-> "deployer",
   rateOwner |-> "deployer",
   paused    |-> FALSE,
   base      |-> [deployer |-> 0, PoolHelper |-> 0],
   prnt      |-> [p \in {"deployer", "dao", "reserve", "PoolHelper",
                         "ChefIncentivesController", "BountyManager"} |->
                    IF hasToken /\ p = dao THEN MintAmt ELSE 0],
   pool      |-> <<0, 0>>,
   registered |-> 0]

Done(ch, c, f)    == \E d \in ch.done : d[1] = c /\ d[2] = f
Inited(ch)        == {d[3] : d \in {e \in ch.done : e[2] = "batchInitReserve"}}

(* The amount a PRNT transfer of the scripts moves, by its destination.    *)
PrntAmount(ch, x) ==
  CASE x = "PoolHelper"               -> LpInitPrnt
    [] x = "ChefIncentivesController" -> CicReserve
    [] x = "BountyManager"            -> DqReserve
    [] x = "deployer"                 -> PrntRequired
    [] x = "allReserve"               -> ch.prnt["reserve"]

Payee(x) == IF x = "allReserve" THEN "ChefIncentivesController" ELSE x

(* Who may make the call: the role the method's modifier asks for.         *)
MayCall(ch, who, k) ==
  CASE k.f \in Open -> TRUE
    [] k.f = "batchInitReserve" ->
         \* onlyPoolAdmin; listing adds a reward to MiddleFeeDistribution
         /\ who = ch.poolAdmin
         /\ ch.feeAdmin = "LendingPoolConfigurator"
    [] k.f = "setReserveInterestRateStrategyAddress" -> who = ch.poolAdmin
    [] k.f = "setPoolPause" ->
         who = "deployer" /\ Done(ch, "LendingPoolAddressesProvider", "setEmergencyAdmin")
    [] k.f = "configureReserves" ->
         \* the helper's owner, while the helper is the pool's admin
         /\ who = "deployer"
         /\ ch.poolAdmin = "ATokensAndRatesHelper"
         /\ k.x \in Inited(ch)
    [] k.c = "LendingRateOracle" -> who = ch.rateOwner
    [] k.f \in {"setOracleBorrowRates", "setOracleOwnership"} ->
         who = "deployer" /\ ch.rateOwner = "StableAndVariableTokensHelper"
    [] k.c = "LendingPool" -> who = "deployer"
    [] OTHER -> who = ch.owner

(* The call reverts: wrong caller, a method already used up, a balance     *)
(* too small, or the pool still paused.                                    *)
Reverts(ch, who, k) ==
  \/ ~MayCall(ch, who, k)
  \/ <<k.c, k.f>> \in OnceOnly /\ <<k.c, k.f, k.x>> \in ch.done
  \/ k.c = "PrimeToken" /\ k.f = "transfer" /\ ch.prnt[who] < PrntAmount(ch, k.x)
  \/ k.c = "Base" /\ k.f = "transfer" /\ ch.base["deployer"] < LpInitEth
  \/ k.f = "initializePool" /\ (ch.base["PoolHelper"] = 0 \/ ch.prnt["PoolHelper"] = 0)
  \/ k.f = "setLPToken" /\ ~Done(ch, "PoolHelper", "initializePool")
  \/ k.c = "LendingPool" /\ k.f \in {"deposit", "borrow"} /\ (ch.paused \/ k.x \notin Inited(ch))

(* A script that keeps failing pays the base asset at every run: MaxBase   *)
(* bounds the amounts that are told apart.                                 *)
MaxBase == 2 * LpInitEth
AddBase(b) == Min({b + LpInitEth, MaxBase})

(* The effect of a call that does not revert.                              *)
Apply(ch, who, k) ==
  LET d == [ch EXCEPT !.done = @ \cup {<<k.c, k.f, k.x>>}] IN
  CASE k.f = "setPoolAdmin" -> [d EXCEPT !.poolAdmin = k.x]
    [] k.f = "setAdmin"     -> [d EXCEPT !.feeAdmin = k.x]
    [] k.c = "LendingRateOracle" /\ k.f = "transferOwnership" ->
         [d EXCEPT !.rateOwner = k.x]
    [] k.f = "setOracleOwnership" -> [d EXCEPT !.rateOwner = k.x]
    [] k.f = "setPoolPause" -> [d EXCEPT !.paused = (k.x = "true")]
    [] k.c = "PrimeToken" /\ k.f = "transfer" ->
         LET n == PrntAmount(ch, k.x) IN
         [d EXCEPT !.prnt = [p \in DOMAIN @ |-> @[p]
              + (IF p = Payee(k.x) THEN n ELSE 0) - (IF p = who THEN n ELSE 0)]]
    [] k.c = "Base" /\ k.f = "deposit" ->
         [d EXCEPT !.base["deployer"] = AddBase(@)]
    [] k.c = "Base" /\ k.f = "transfer" ->
         [d EXCEPT !.base["deployer"] = @ - LpInitEth, !.base["PoolHelper"] = AddBase(@)]
    [] k.f = "initializePool" ->
         [d EXCEPT !.pool = <<ch.base["PoolHelper"], ch.prnt["PoolHelper"]>>,
                   !.base["PoolHelper"] = 0, !.prnt["PoolHelper"] = 0]
    [] k.f = "registerRewardDeposit" ->
         [d EXCEPT !.registered = @ + (IF k.x = "allReserve" THEN 0 ELSE CicReserve)]
    [] OTHER -> d
=============================================================================
