\* The example command of tasks/index.ts, with no call failing.
SPECIFICATION Spec
CONSTANTS
  Networks = {"bsc", "arbitrum", "avalanche", "bsc-testnet", "arbitrum-goerli"}
  PacketTypes = {0}
  StageNetworks <- Stages
  ProxyChain <- Proxies
  ProxyNames = {}
  GnosisNetworks = {"bsc", "arbitrum", "avalanche"}
  Requests <- Example
  MaxFailures = 0
  MaxDrift = 0
  MaxQueue = 1
INVARIANTS
  ExampleRuns
CHECK_DEADLOCK FALSE
