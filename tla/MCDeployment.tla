----------------------------- MODULE MCDeployment -----------------------------
(* Instances of the deployment: the networks it is checked on.             *)
EXTENDS DeploymentProperties, DeployNetworks

LiveNetworks == [n \in {"bsc_testnet", "bsc", "arbitrum", "localhost"} |->
  CASE n = "bsc_testnet" -> bsc_testnet
    [] n = "bsc"         -> bsc
    [] n = "arbitrum"    -> arbitrum
    [] n = "localhost"   -> localhost]

TestNetwork == [n \in {"hardhat"} |-> hardhat]
=============================================================================
