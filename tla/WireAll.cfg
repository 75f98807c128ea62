\* wireAll on two networks: one failed call, one setting changed by others.
\* The task ends when it has nothing to change.
SPECIFICATION Spec
CONSTANTS
  Networks = {"bsc", "arbitrum", "avalanche", "bsc-testnet", "arbitrum-goerli"}
  PacketTypes = {0}
  StageNetworks <- Stages
  ProxyChain <- Proxies
  ProxyNames = {}
  GnosisNetworks = {"bsc", "arbitrum", "avalanche"}
  Requests <- Commands
  MaxFailures = 1
  MaxDrift = 1
  MaxQueue = 2
INVARIANTS
  TypeOK
  CleanNetworksAreWired
  NoChangesMeansWired
PROPERTIES
  ImplementsWiring
  Converges
CHECK_DEADLOCK FALSE
