------------------------------ MODULE DeployPlan ------------------------------
(***************************************************************************)
(* The scripts of deploy/mocks and deploy/post-assets, the maintenance     *)
(* scripts of scripts/, and the order in which hardhat-deploy runs the     *)
(* files of deploy/.                                                       *)
(***************************************************************************)
EXTENDS DeployScripts

CONSTANTS Networks,        \* name -> network record
          StrayFile        \* TRUE: deploy/core/deploy.ts is in the directory

(***************************************************************************)
(* deploy/mocks                                                            *)
(***************************************************************************)
WethMock(net) == Step("weth", {}, <<>>, FALSE,
  If(Tag(net, "mocks"),
     <<Deploy("WETH")>> \o When("fresh", "", <<ExecArg("WETH", "mint", "supply")>>)
     \o <<Deploy("WETHAggregator")>>))

UniswapMock(net) == Step("uniswap", {}, <<>>, FALSE,
  If(Tag(net, "mocks"), DeployAll(<<"UniswapV2Factory", "UniswapV2Router02">>)))

\* An asset whose token is already recorded is left alone.
AssetsMock(net) == Step("assets", {}, <<"uniswap">>, FALSE,
  LET Asset(a) == When("missing", a,
        <<Deploy(a), Deploy(a \o "Aggregator"), Get({"UniswapV2Router02"}),
          Exec(a, "mint"), ExecArg("WETH", "mint", a),
          ExecArg("WETH", "approve", "router"), ExecArg(a, "approve", "router"),
          ExecArg("UniswapV2Router02", "addLiquidity", a)>>) IN
  If(Tag(net, "mocks"), Each(Tail(MockAssets), Asset)))

LayerzeroMock(net) == Step("layerzero", {}, <<>>, FALSE,
  If(Tag(net, "mocks"), <<Deploy("LZEndpointSrcMock")>>))

MarketsMock(net) == Step("mock_markets", {"mocks"}, <<"core", "post_assets">>, TRUE,
  LET Supply(a, r) == <<Exec(a, "mint"), ExecArg(a, "approve", "lendingPool"),
                        Signer("LendingPool", "deposit", r)>>
      Asset(a)     == <<Get({a})>> \o
        Supply(a, IF a \in ToSet(Tokens) THEN "core" ELSE a) IN
  <<Get({"LendingPoolAddressesProvider"})>> \o Supply("WETH", "core")
  \o Each(Tail(MockAssets), Asset))

SequencerMock(net) == Step("sequencer", {}, <<>>, FALSE,
  If(Tag(net, "mocks") /\ net.sequencerFeed, <<Deploy("MockArbitrumSequencerUptimeFeed")>>))

FundCic(net) == Step("fund_cic", {"fund_cic"}, <<>>, TRUE,
  <<Get({"ChefIncentivesController", "PrimeToken"}),
    ExecFrom("reserve", "PrimeToken", "transfer", "allReserve"),
    ExecFrom("owner", "ChefIncentivesController", "registerRewardDeposit", "allReserve")>>)

BypassChainlink(net) == Step("bypass_chainlink", {"bypass_chainlink"}, <<>>, FALSE,
  <<ExecFrom("owner", "PriceProvider", "setUsePool", "true")>>)

(***************************************************************************)
(* deploy/post-assets: plain functions, with no required tags and no       *)
(* dependency.  An asset is listed as the core markets are.                *)
(***************************************************************************)
DeployAsset(a, r) ==
  LET Provider(x) == ExecArg("LendingPoolAddressesProvider", "setPoolAdmin", x) IN
  <<Get({"LendingPoolAddressesProvider", "ATokensAndRatesHelper", "MiddleFeeDistribution",
         "AToken", "StableDebtToken", "VariableDebtToken", "ChefIncentivesController"}),
    Deploy("rateStrategy" \o a),
    Signer("LendingPoolConfigurator", "batchInitReserve", r),
    Provider("ATokensAndRatesHelper"),
    ExecArg("ATokensAndRatesHelper", "configureReserves", r),
    Provider("deployer"),
    ExecArg("AaveOracle", "setAssetSources", r)>>

Plain(id, tags, once, calls) ==
  [id |-> id, tags |-> tags, req |-> {}, deps |-> <<>>, once |-> once,
   atEnd |-> FALSE, kind |-> "plain", calls |-> calls]

\* On Arbitrum the token exists; on a mocks network it is the mock asset.
\* Elsewhere the function returns undefined and nothing is recorded.
Listed(net) == Tag(net, "post_assets") /\ net.chain \in {42161, 31337}
MockRefs(net, a) == If(Tag(net, "mocks") \/ net.chain = 31337, <<Get({a, a \o "Aggregator"})>>)

ArbiWsteth(net) == Plain("arbi_wsteth", {"arbi_wsteth", "post_assets"}, Listed(net),
  If(Listed(net),
     If(net.chain = 42161 /\ ~Tag(net, "mocks"), <<Deploy("WSTETHOracle")>>)
     \o MockRefs(net, "WSTETH") \o DeployAsset("WSTETH", "WSTETH")))

ArbiArb(net) == Plain("arbi_arb", {"arbi_arb", "post_assets"}, Listed(net),
  If(Listed(net), MockRefs(net, "ARB") \o DeployAsset("ARB", "ARB")))

PrntMarket(net) == Plain("prnt_market", {"prnt_market"}, TRUE,
  <<Get({PrntOracle(net), "PrimeToken"})>> \o DeployAsset("PRNT", "PRNT"))

LockerListScript(net) == Plain("locker_list", {"locker_list"}, TRUE, <<Deploy("LockerList")>>)

\* deploy/core/deploy.ts exports no function: the runner's call of it throws.
NotADeployScript(net) ==
  [Plain("deploy.ts", {}, FALSE, <<Get({"no such function"})>>) EXCEPT !.kind = "stray"]

\* The files sorted by path.
Files(net) ==
  <<DeployToken(net), DeployLending(net), ConfigureLending(net), DeployLp(net),
    ConfigureLp(net), DeployLendingOracle(net), ConfigureLendingOracle(net),
    DeployLockzap(net), ConfigureLockzap(net), SetChainlinkAdapters(net),
    DeployPriceProvider(net), ConfigurePriceProvider(net), DeployDistributors(net),
    ConfigureDistributors(net), ConfigureMfdProvider(net), DeployEdp(net),
    ConfigureEdp(net), DeployCic(net), ConfigureCic(net), ConfigureMinters(net),
    ConfigureMarkets(net), DeployAaveProviders(net), DisableMarketPause(net),
    DeployCompounder(net), ConfigureCompounder(net), DeployBountyManager(net),
    ConfigureBountyManager(net), ConfigureSetBounties(net), DeployAccessories(net),
    ConfigureAccessories(net), ConfigureLeverager(net), SetLpToken(net),
    DeployPrntOracle(net), ConfigurePrntOracle(net), ExportDeploy(net)>>
  \o If(StrayFile, <<NotADeployScript(net)>>)
  \o <<WethMock(net), UniswapMock(net), AssetsMock(net), LayerzeroMock(net),
       MarketsMock(net), SequencerMock(net), FundCic(net), BypassChainlink(net),
       ArbiWsteth(net), ArbiArb(net), PrntMarket(net), LockerListScript(net)>>

(* hardhat-deploy adds each file after the files its dependency tags name, *)
(* depth first and once, and keeps those marked runAtTheEnd for last.  The *)
(* order that gives is built in rounds: in each, every file gets the files *)
(* it names put right before it, and only the first mention of a file      *)
(* counts.  LongestChain bounds the rounds: the longest chain of the files *)
(* is deploy_lending_oracle, assets, uniswap, weth.                        *)
LongestChain     == 4
Select(s, P(_))  == Each(s, LAMBDA i : If(P(i), <<i>>))
Tagged(files, t) == Select([i \in DOMAIN files |-> i], LAMBDA i : t \in files[i].tags)

\* s with the first mention of each element only.
Firsts(s) ==
  LET kept[k \in 0..Len(s)] ==
        IF k = 0 THEN <<>>
        ELSE LET before == kept[k - 1] IN
             IF s[k] \in ToSet(before) THEN before ELSE Append(before, s[k])
  IN  kept[Len(s)]

AddFiles(files) ==
  LET needs == [i \in DOMAIN files |-> Each(files[i].deps, LAMBDA t : Tagged(files, t))]
      order[r \in 0..LongestChain] ==
        IF r = 0 THEN [i \in DOMAIN files |-> i]
        ELSE LET last == order[r - 1]
                 all  == Each(last, LAMBDA i : needs[i] \o <<i>>) IN Firsts(all)
  IN  order[LongestChain]

RunOrder(files) ==
  LET order  == AddFiles(files)
      sorted == Select(order, LAMBDA i : ~files[i].atEnd)
                \o Select(order, LAMBDA i : files[i].atEnd)
  IN  [j \in DOMAIN sorted |-> files[sorted[j]]]

(***************************************************************************)
(* scripts/: run one at a time, once the protocol is deployed.  They keep  *)
(* no record, and most do not wait for their transactions.                 *)
(***************************************************************************)
Job(id, calls) == [Plain(id, {}, FALSE, calls) EXCEPT !.kind = "job"]

\* The helper becomes the pool's admin for one call, then the deployer again.
SetReserveFactor ==
  LET Provider(x) == Signer("LendingPoolAddressesProvider", "setPoolAdmin", x) IN
  Job("setReserveFactor",
      <<Get({"LendingPoolAddressesProvider", "ATokensAndRatesHelper"}),
        Provider("ATokensAndRatesHelper"),
        Signer("ATokensAndRatesHelper", "configureReserves", "core"),
        Provider("deployer")>>)

SetRates == Job("setRates",
  <<Get({"LendingPoolAddressesProvider"})>>
  \o [i \in DOMAIN Tokens |->
        Signer("LendingPoolConfigurator", "setReserveInterestRateStrategyAddress", Tokens[i])])

SetAllocPoints == Job("setAllocPoints",
  <<Signer("ChefIncentivesController", "batchUpdateAllocPoint", "")>>)

\* Only a local node lets the script act for the owner.
SetRps(net) == Job("setRps",
  If(~Tag(net, "impersonate"), <<Get({"hardhat_impersonateAccount"})>>)
  \o <<ExecFromOwner("ChefIncentivesController", "setRewardsPerSecond")>>)

(* scripts/params: the values are those of paramData, which has the two    *)
(* production chains; elsewhere reading them throws.  The calls are made   *)
(* on a local node only, and printed for the owners otherwise: so they are *)
(* never made.                                                             *)
FromParams(net, calls) ==
  If(net.chain \notin {56, 42161}, <<Get({"paramData"})>>) \o calls
OnLocalNode(net, calls) == If(net.chain = 31337, calls)

ParamsSetRps(net) == Job("params/setRps", FromParams(net, OnLocalNode(net,
  <<ExecFromOwner("ChefIncentivesController", "setRewardsPerSecond")>>)))
ParamsSetAps(net) == Job("params/setAps", FromParams(net, OnLocalNode(net,
  <<ExecFromOwner("ChefIncentivesController", "batchUpdateAllocPoint")>>)))
ParamsSetRates(net) == Job("params/setRates",
  <<Get({"LendingPoolAddressesProvider"})>> \o FromParams(net, OnLocalNode(net,
  [i \in DOMAIN Tokens |-> ExecFrom("poolAdmin", "LendingPoolConfigurator",
     "setReserveInterestRateStrategyAddress", Tokens[i])])))

\* The deployer supplies what it has wrapped, and borrows every asset.
Populate(net) == Job("params/populate", FromParams(net,
  <<Signer("LendingPool", "deposit", "core"), Signer("LendingPool", "borrow", "core")>>))

SetOracle == Job("setOracle", <<Exec("PriceProvider", "setOracle"),
                                ExecArg("PriceProvider", "setUsePool", "false")>>)
SetPool   == Job("setPool", <<ExecFrom("owner", "PriceProvider", "setUsePool", "true")>>)
SetPrntPP == Job("setPrntPP", <<Get({"PriceProvider"}), Exec("PrimeToken", "setFeeRatio"),
                                Exec("PrimeToken", "setPriceProvider")>>)
SetTreasury == Job("setTreasury", <<Exec("PrimeToken", "setTreasury")>>)
Recover     == Job("recover", <<Exec("MFD", "recoverERC20")>>)
UpdatePrice == Job("updatePrice", <<Exec("PriceProvider", "update")>>)

Jobs(net) == <<SetReserveFactor, SetRates, SetAllocPoints, SetRps(net), ParamsSetRps(net),
               ParamsSetAps(net), ParamsSetRates(net), Populate(net), SetOracle, SetPool,
               SetPrntPP, SetTreasury, Recover, UpdatePrice>>

\* What each run of `hardhat deploy' executes on a network, in order.
Plan == [n \in DOMAIN Networks |-> RunOrder(Files(Networks[n]))]
=============================================================================
