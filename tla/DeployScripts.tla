---------------------------- MODULE DeployScripts ----------------------------
(***************************************************************************)
(* The files under deploy/, each as the sequence of calls its body makes   *)
(* on a given network.  A call is one of                                   *)
(*   Get(s)         the deployments of s are read; a missing one throws    *)
(*   Deploy(c)      c is deployed, unless a deployment of c is recorded    *)
(*   Exec(c,f)      f of c with the step's transaction options             *)
(*   ExecFrom(a,..) the same, after setting the options' sender to a       *)
(*   Signer(c,f)    f of c through the deployer's signer                   *)
(*   When(t,x,n)    the next n calls are made only if t holds              *)
(* A network is a record: its tags, its chain id, whether the pool is on   *)
(* Uniswap, whether dao and deployer are one account.                      *)
(***************************************************************************)
EXTENDS DeployChain, SequencesExt

Get(s)               == [op |-> "get", names |-> s]
Deploy(c)            == [op |-> "deploy", c |-> c]
Exec(c, f)           == Call("opts", c, f, "")
ExecArg(c, f, x)     == Call("opts", c, f, x)
ExecFrom(a, c, f, x) == Call(a, c, f, x)
ExecFromOwner(c, f)  == Call("owner", c, f, "")
Signer(c, f, x)      == Call("signer", c, f, x)
When(t, x, calls)    == <<[op |-> "when", test |-> t, x |-> x, n |-> Len(calls)]>> \o calls

Tag(net, t)    == t \in net.tags
If(b, calls)   == IF b THEN calls ELSE <<>>
DeployAll(s)   == [i \in DOMAIN s |-> Deploy(s[i])]
Each(s, F(_))  == FlattenSeq([i \in DOMAIN s |-> F(s[i])])

\* The assets of TOKENS_CONFIG and of mock-assets.json, two of each.
Tokens     == <<"WETH", "USDC">>
MockAssets == Tokens \o <<"WSTETH", "ARB">>
TokenRefs(net) ==
  If(Tag(net, "mocks"), <<Get(UNION {{a, a \o "Aggregator"} : a \in ToSet(Tokens)})>>)
Router(net) == If(Tag(net, "mocks"), <<Get({"UniswapV2Router02"})>>)

Step(id, req, deps, once, calls) ==
  [id |-> id, tags |-> {id}, req |-> req,
   deps |-> deps \o (IF id = "weth" THEN <<>> ELSE <<"weth">>),
   once |-> once, atEnd |-> FALSE, kind |-> "step", calls |-> calls]

(***************************************************************************)
(* deploy/core                                                             *)
(***************************************************************************)
DeployToken(net) == Step("deploy_token", {"token"}, <<"weth", "uniswap", "layerzero">>, FALSE,
  If(Tag(net, "mocks"), <<Get({"LZEndpointSrcMock"})>>)
  \o <<Deploy(IF Tag(net, "testing") THEN "MockPrimeToken" ELSE "PrimeToken")>>
  \o When("fresh", "", <<Exec("PrimeToken", "setFeeRatio")>>
       \o If(Tag(net, "testing") /\ Tag(net, "impersonate"),
             <<ExecFrom("dao", "PrimeToken", "transfer", "deployer")>>)))

DeployLending(net) == Step("deploy_lending", {"lending"}, <<"weth">>, FALSE,
  DeployAll(<<"LendingPoolAddressesProviderRegistry", "LendingPoolAddressesProvider",
    "ReserveLogic", "GenericLogic", "ValidationLogic", "LendingPool",
    "LendingPoolConfigurator", "StableAndVariableTokensHelper", "AToken",
    "StableDebtToken", "VariableDebtToken", "WETHGateway">>))

ConfigureLending(net) == Step("configure_lending", {"lending"}, <<>>, TRUE,
  LET Provider(f, x) == Signer("LendingPoolAddressesProvider", f, x) IN
  <<Get({"LendingPoolAddressesProviderRegistry", "LendingPoolAddressesProvider",
         "LendingPoolConfigurator", "LendingPool"}),
    Signer("LendingPoolAddressesProviderRegistry", "registerAddressesProvider", ""),
    Provider("setPoolAdmin", "deployer"),
    Provider("setEmergencyAdmin", "deployer"),
    Provider("setLiquidationFeeTo", "treasury"),
    Exec("LendingPool", "initialize"),
    Provider("setLendingPoolImpl", ""),
    Provider("setLendingPoolConfiguratorImpl", ""),
    Signer("LendingPoolConfigurator", "setPoolPause", "true"),
    Exec("WETHGateway", "authorizeLendingPool")>>)

DeployLp(net) == Step("deploy_lp", {"lp"}, <<"weth">>, FALSE,
  <<Get({"PrimeToken"})>>
  \o IF net.uniswap THEN Router(net) \o DeployAll(<<"LiquidityZap", "PoolHelper">>)
     ELSE <<Deploy("PoolHelper")>>)

\* Mutant: the branches of the two providers are both taken.
ConfigureLpBothProviders(net) == Step("configure_lp", {"lp"}, <<"weth">>, TRUE,
  LET pays == <<ExecArg("Base", "deposit", ""), Signer("Base", "transfer", "PoolHelper"),
                ExecArg("PrimeToken", "transfer", "PoolHelper")>> IN
  <<Get({"PoolHelper", "PrimeToken"})>>
  \o When("poolNotInitialized", "", pays \o pays \o <<Exec("PoolHelper", "initializePool")>>))

\* Mutant: the pool is opened before it is paid.
ConfigureLpOpensFirst(net) == Step("configure_lp", {"lp"}, <<"weth">>, TRUE,
  <<Get({"PoolHelper", "PrimeToken"})>>
  \o When("poolNotInitialized", "",
       <<Exec("PoolHelper", "initializePool"), ExecArg("Base", "deposit", ""),
         Signer("Base", "transfer", "PoolHelper"),
         ExecArg("PrimeToken", "transfer", "PoolHelper")>>))

\* The two providers differ in how the base asset is obtained and in the zap.
ConfigureLp(net) == Step("configure_lp", {"lp"}, <<"weth">>, TRUE,
  LET deposit == <<ExecArg("Base", "deposit", "")>>
      obtain  == IF net.uniswap /\ ~Tag(net, "mocks")
                 THEN When("lacksBase", "", deposit) ELSE deposit IN
  <<Get({"PoolHelper", "PrimeToken"})>>
  \o When("poolNotInitialized", "",
       obtain
       \o <<Signer("Base", "transfer", "PoolHelper"),
            ExecArg("PrimeToken", "transfer", "PoolHelper"),
            Exec("PoolHelper", "initializePool")>>
       \o If(net.uniswap, <<Exec("LiquidityZap", "initLiquidityZap"),
                            Exec("LiquidityZap", "setAcceptableRatio")>>)))

\* Mutant: the dependency on the mock assets is left out.
DeployLendingOracleNoAssets(net) == Step("deploy_lending_oracle", {"lending"}, <<>>, FALSE,
  <<Get({"LendingPoolAddressesProvider"})>> \o TokenRefs(net)
  \o DeployAll(<<"AaveOracle", "LendingRateOracle", "AaveProtocolDataProvider">>))

DeployLendingOracle(net) == Step("deploy_lending_oracle", {"lending"}, <<"assets">>, FALSE,
  <<Get({"LendingPoolAddressesProvider"})>> \o TokenRefs(net)
  \o DeployAll(<<"AaveOracle", "LendingRateOracle", "AaveProtocolDataProvider">>))

ConfigureLendingOracle(net) == Step("configure_lending_oracle", {"lending"}, <<>>, TRUE,
  <<Get({"AaveOracle", "LendingRateOracle"})>> \o TokenRefs(net)
  \o <<Exec("LendingPoolAddressesProvider", "setPriceOracle"),
       Exec("LendingPoolAddressesProvider", "setLendingRateOracle"),
       Get({"StableAndVariableTokensHelper"}),
       ExecArg("LendingRateOracle", "transferOwnership", "StableAndVariableTokensHelper"),
       Exec("StableAndVariableTokensHelper", "setOracleBorrowRates"),
       ExecArg("StableAndVariableTokensHelper", "setOracleOwnership", "deployer")>>)

DeployLockzap(net) == Step("deploy_lockzap", {"prime"}, <<>>, FALSE,
  <<Get({"PoolHelper", "AaveOracle", "LendingPoolAddressesProvider", "PrimeToken"})>>
  \o Router(net) \o <<Deploy("LockZap")>>)

ConfigureLockzap(net) == Step("configure_lockzap", {"prime"}, <<>>, TRUE,
  <<Get({"LockZap", "AaveOracle"})>> \o Router(net)
  \o <<ExecFromOwner("PoolHelper", "setLockZap"),
       ExecFromOwner("LockZap", "setUniRouter"),
       ExecFromOwner("LockZap", "setAaveOracle")>>)

SetChainlinkAdapters(net) == Step("set_chainlink_adapters", {"prime"}, <<>>, TRUE,
  LET Adapter(a) == If(Tag(net, "mocks") /\ a # "PRNT", <<Get({a, a \o "Aggregator"})>>)
                    \o <<Deploy("ChainlinkAdapter" \o a)>> IN
  If(Tag(net, "oracle_cl"), <<Get({"PrimeToken"})>>)
  \o Each(Tokens \o If(Tag(net, "oracle_cl"), <<"PRNT">>), Adapter)
  \o <<Exec("AaveOracle", "setAssetSources")>>)

DeployPriceProvider(net) == Step("deploy_price_provider", {"prime"}, <<>>, FALSE,
  <<Get({"PoolHelper", "ChainlinkAdapterWETH"}), Deploy("PriceProvider")>>)

ConfigurePriceProvider(net) == Step("configure_price_provider", {"prime"}, <<>>, TRUE,
  <<Get({"PriceProvider"}),
    ExecFromOwner("PrimeToken", "setPriceProvider"),
    ExecFromOwner("LockZap", "setPriceProvider")>>)

DeployDistributors(net) == Step("deploy_distributors", {"prime"}, <<>>, FALSE,
  <<Get({"PrimeToken", "LockZap", "PriceProvider", "AaveOracle", "AaveProtocolDataProvider"}),
    Deploy("MFD"), Deploy("MiddleFeeDistribution")>>)

ConfigureDistributors(net) == Step("configure_distributors", {"prime"}, <<>>, TRUE,
  <<Get({"MFD"}),
    ExecFromOwner("MiddleFeeDistribution", "setOperationExpenses"),
    Exec("LockZap", "setMfd"),
    Exec("MFD", "setLockTypeInfo")>>)

ConfigureMfdProvider(net) == Step("configure_mfd_provider", {"prime"}, <<>>, TRUE,
  <<Get({"MiddleFeeDistribution", "AaveProtocolDataProvider"}),
    ExecFromOwner("MiddleFeeDistribution", "setProtocolDataProvider")>>)

DeployEdp(net) == Step("deploy_edp", {"prime"}, <<>>, FALSE,
  <<Get({"PriceProvider", "LendingPoolAddressesProvider", "MiddleFeeDistribution"}),
    Deploy("EligibilityDataProvider")>>)

ConfigureEdp(net) == Step("configure_edp", {"prime"}, <<>>, TRUE,
  <<Exec("EligibilityDataProvider", "setRequiredDepositRatio")>>)

DeployCic(net) == Step("deploy_cic", {"prime"}, <<>>, FALSE,
  <<Get({"EligibilityDataProvider", "MiddleFeeDistribution", "LendingPoolAddressesProvider"}),
    Deploy("ChefIncentivesController")>>)

ConfigureCic(net) == Step("configure_cic", {"prime"}, <<>>, TRUE,
  <<Get({"ChefIncentivesController"}),
    Exec("ChefIncentivesController", "start"),
    ExecArg("ChefIncentivesController", "registerRewardDeposit", "supply"),
    Exec("ChefIncentivesController", "setEndingTimeUpdateCadence"),
    Exec("EligibilityDataProvider", "setChefIncentivesController"),
    ExecArg("PrimeToken", "transfer", "ChefIncentivesController")>>)

ConfigureMinters(net) == Step("configure_minters", {"prime"}, <<>>, TRUE,
  <<Get({"ChefIncentivesController", "MiddleFeeDistribution", "MFD"})>>
  \o When("mintersUnset", "", <<Exec("MFD", "setMinters"), Exec("MFD", "setAddresses")>>))

\* Mutant: the helper stays the pool's admin.
ConfigureMarketsKeepsHelper(net) == Step("configure_markets", {"lending"}, <<>>, TRUE,
  <<Deploy("ATokensAndRatesHelper")>> \o TokenRefs(net)
  \o When("adminIsDeployer", "",
       <<ExecArg("MiddleFeeDistribution", "setAdmin", "LendingPoolConfigurator"),
         Signer("LendingPoolConfigurator", "batchInitReserve", "core"),
         ExecArg("LendingPoolAddressesProvider", "setPoolAdmin", "ATokensAndRatesHelper"),
         ExecArg("ATokensAndRatesHelper", "configureReserves", "core")>>))

ConfigureMarkets(net) == Step("configure_markets", {"lending"}, <<>>, TRUE,
  LET Strategy(a) == <<Deploy("rateStrategy" \o a)>>
      Provider(f, x) == ExecArg("LendingPoolAddressesProvider", f, x) IN
  <<Get({"MiddleFeeDistribution", "LendingPoolAddressesProvider", "AToken",
         "StableDebtToken", "VariableDebtToken", "LendingPool", "ChefIncentivesController"}),
    Deploy("ATokensAndRatesHelper")>>
  \o Each(Tokens, Strategy) \o TokenRefs(net)
  \o When("adminIsDeployer", "",
       <<ExecArg("MiddleFeeDistribution", "setAdmin", "LendingPoolConfigurator"),
         Signer("LendingPoolConfigurator", "batchInitReserve", "core"),
         Get({"ATokensAndRatesHelper", "AaveProtocolDataProvider"}),
         Provider("setPoolAdmin", "ATokensAndRatesHelper"),
         ExecArg("ATokensAndRatesHelper", "configureReserves", "core"),
         Provider("setPoolAdmin", "deployer"),
         Deploy("LendingPoolCollateralManager"),
         Provider("setLendingPoolCollateralManager", ""),
         Provider("setAddress", "dataProvider")>>))

DeployAaveProviders(net) == Step("deploy_aave_providers", {"lending"}, <<>>, FALSE,
  <<Get({"ChefIncentivesController", "AaveOracle"})>>
  \o DeployAll(<<"WalletBalanceProvider", "UiPoolDataProvider", "UiPoolDataProviderV2V3">>))

DisableMarketPause(net) == Step("disable_market_pause", {"lending"}, <<>>, TRUE,
  <<Get({"LendingPoolAddressesProvider"}),
    Signer("LendingPoolConfigurator", "setPoolPause", "false")>>)

DeployCompounder(net) == Step("deploy_compounder", {"prime"}, <<>>, FALSE,
  <<Get({"LendingPoolAddressesProvider", "MFD", "LockZap"})>>
  \o Router(net) \o <<Deploy("Compounder")>>)

\* One route for every reserve the data provider lists at this point.
ConfigureCompounder(net) == Step("configure_compounder", {"prime"}, <<>>, TRUE,
  LET Route(a) == <<ExecArg("Compounder", "setRoutes", a)>> IN
  <<Get({"Compounder"})>> \o Router(net)
  \o <<Exec("MFD", "addRewardConverter"), Get({"AaveProtocolDataProvider"})>>
  \o Each(Tokens, Route))

DeployBountyManager(net) == Step("deploy_bounty_manager", {"prime"}, <<>>, FALSE,
  <<Get({"EligibilityDataProvider", "ChefIncentivesController", "PrimeToken",
         "PriceProvider", "Compounder", "MFD"}),
    Deploy("BountyManager")>>)

\* Mutant: the step is not marked runOnce.
ConfigureBountyManagerEveryRun(net) == Step("configure_bounty_manager", {"prime"}, <<>>, FALSE,
  <<Get({"BountyManager"}), ExecArg("PrimeToken", "transfer", "BountyManager")>>)

ConfigureBountyManager(net) == Step("configure_bounty_manager", {"prime"}, <<>>, TRUE,
  <<Get({"BountyManager"}),
    ExecArg("PrimeToken", "transfer", "BountyManager"),
    Exec("BountyManager", "setMinStakeAmount"),
    Exec("MFD", "setBountyManager"),
    Exec("ChefIncentivesController", "setBountyManager"),
    Exec("ChefIncentivesController", "setEligibilityExempt"),
    Exec("Compounder", "setBountyManager")>>)

ConfigureSetBounties(net) == Step("configure_set_bounties", {"prime"}, <<>>, FALSE,
  <<ExecFromOwner("BountyManager", "setBounties")>>)

DeployAccessories(net) == Step("deploy_accessories", {"prime"}, <<>>, FALSE,
  <<Get({"LockZap", "EligibilityDataProvider", "AaveOracle",
         "ChefIncentivesController", "LendingPoolAddressesProvider"})>>
  \o DeployAll(<<"Multicall3", "Leverager", "StargateBorrow">>))

ConfigureAccessories(net) == Step("configure_accessories", {"prime"}, <<>>, TRUE,
  <<Get({"Leverager"}),
    Exec("ChefIncentivesController", "setLeverager"),
    Exec("StargateBorrow", "setPoolIDs")>>)

ConfigureLeverager(net) == Step("configure_leverager", {"prime"}, <<>>, TRUE,
  <<Get({"Leverager", "ChefIncentivesController"}),
    Exec("Leverager", "setChefIncentivesController"),
    ExecFromOwner("ChefIncentivesController", "setLeverager")>>)

SetLpToken(net) == Step("set_lp_token", {"lp"}, <<>>, TRUE,
  <<Get({"PoolHelper", "Leverager", "MFD"})>>
  \o When("noStakingToken", "",
       <<Exec("MFD", "setLPToken"),
         Exec("EligibilityDataProvider", "setLPToken"),
         Get({"ValidationLogic", "ReserveLogic", "LendingPoolAddressesProvider"}),
         Signer("LendingPool", "setLeverager", "")>>))

DeployPrntOracle(net) == Step("deploy_prnt_oracle", {"prime"}, <<>>, FALSE,
  <<Get({"PoolHelper", "PrimeToken"})>>
  \o If(Tag(net, "oracle_v3"),
       DeployAll(<<"UniV3TwapOracle", "UniV2TwapOracle">>)
       \o When("fresh", "", <<Exec("UniV3TwapOracle", "setFallback"),
                              Exec("UniV2TwapOracle", "update")>>))
  \o If(Tag(net, "oracle_v2"), <<Deploy("UniV2TwapOracle")>>)
  \o If(Tag(net, "oracle_cl"), <<Get({"ChainlinkAdapterPRNT", "ChainlinkAdapterWETH"}),
                                 Deploy("PrimeChainlinkOracle")>>))

PrntOracle(net) == CASE Tag(net, "oracle_v3") -> "UniV3TwapOracle"
                     [] ~Tag(net, "oracle_v3") /\ Tag(net, "oracle_v2") -> "UniV2TwapOracle"
                     [] OTHER -> "PrimeChainlinkOracle"

\* Both calls are sent as the owner of LockZap, whoever owns PriceProvider.
ConfigurePrntOracle(net) == Step("configure_prnt_oracle", {"prime"}, <<>>, TRUE,
  <<Get({PrntOracle(net), "LockZap"}),
    ExecFrom("ownerOfLockZap", "PriceProvider", "setUsePool", "false"),
    ExecFrom("ownerOfLockZap", "PriceProvider", "setOracle", "")>>
  \o If(Tag(net, "oracle_v2"), <<Exec("UniV2TwapOracle", "update")>>))

\* Reads what was deployed and writes .deployData.json.
ExportDeploy(net) ==
  [id |-> "export", tags |-> {"export"}, req |-> {}, deps |-> <<>>, once |-> FALSE,
   atEnd |-> TRUE, kind |-> "plain",
   calls |-> <<Get({"PoolHelper", "LendingPoolAddressesProvider", "AaveProtocolDataProvider",
     "LendingPoolAddressesProviderRegistry", "WETHGateway", "PrimeToken",
     "WalletBalanceProvider", "UiPoolDataProviderV2V3", "MiddleFeeDistribution", "MFD",
     "ChefIncentivesController", "EligibilityDataProvider", "StableAndVariableTokensHelper",
     "ATokensAndRatesHelper", "AaveOracle", "LendingRateOracle", "Multicall3", "Leverager",
     "StargateBorrow", "PriceProvider", "LockerList", "LockZap", "BountyManager", "Compounder"}
     \cup (IF Tag(net, "oracle_v2") THEN {"UniV2TwapOracle"} ELSE {})
     \cup (IF Tag(net, "mocks") THEN ToSet(Tokens) ELSE {}))>>]
=============================================================================
