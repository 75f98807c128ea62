---------------------------- MODULE DeployNetworks ----------------------------
(***************************************************************************)
(* The networks of hardhat.config.ts, as the deployment sees one: its      *)
(* tags, its chain, whether the pool is on Uniswap, whether the named      *)
(* accounts are one address, whether a sequencer feed is configured, and   *)
(* the deployment files it starts with.                                    *)
(***************************************************************************)
EXTENDS Naturals

freshDeployTagSet ==
  {"mocks", "testing", "token", "lending", "lp", "prime", "oracle_v2", "post_assets",
   "unvalidated_chainlink"}
testnetDeployTagSet ==
  {"testing", "token", "lending", "lp", "prime", "oracle_v2", "unvalidated_chainlink"}
testSuiteTagSet   == freshDeployTagSet \cup {"impersonate"}
upgradeTagSet     == {"prime", "oracle_cl", "lp", "unvalidated_chainlink"}
prodUpgradeTagSet == upgradeTagSet \ {"unvalidated_chainlink"}

\* deployer, dao and reserve are the same address on these chains.
OneAccount(id) == id \in {1, 97}

Net(tags, id, uniswap, feed, recorded) ==
  [tags |-> tags, chain |-> id, uniswap |-> uniswap, oneAccount |-> OneAccount(id),
   sequencerFeed |-> feed, recorded |-> recorded]

\* What the tag set of an upgrade leaves out, because it is there already.
FirstTime == {"token", "lending"}

\* The network the tests run on: nothing is recorded.
hardhat == Net(testSuiteTagSet, 31337, TRUE, TRUE, {})

\* bsc_testnet keeps the PrimeToken of an earlier deployment.
bsc_testnet == Net(testnetDeployTagSet, 97, TRUE, FALSE, {"PrimeToken"})

\* The production chains have tag sets for upgrades; these are the first
\* deployments they follow, with the price taken from Chainlink, or from a
\* Uniswap V3 pool while there is no feed.
bsc      == Net(prodUpgradeTagSet \cup FirstTime, 56, TRUE, FALSE, {})
arbitrum == Net(prodUpgradeTagSet \cup FirstTime \cup {"oracle_v3", "post_assets", "sequencer"},
                42161, FALSE, TRUE, {})

\* A local node with the mocks, and without the faucet token of `testing'.
localhost == Net((testSuiteTagSet \ {"testing"}) \cup {"fund_cic", "bypass_chainlink"},
                 31337, TRUE, TRUE, {})
=============================================================================
