-------------------------------- MODULE MCWire --------------------------------
(* Instances of wireAll: networks of wireUpConfig.json.  On mainnet,       *)
(* avalanche is the proxy chain and has no proxyContractName; the testnet  *)
(* networks have no Safe.                                                  *)
EXTENDS WireProperties

Cmd(e, s, d, n) == [e |-> e, s |-> s, d |-> d, n |-> n]

Stages  == [mainnet |-> {"bsc", "arbitrum", "avalanche"}, testnet |-> {"bsc-testnet", "arbitrum-goerli"}]
Proxies == [mainnet |-> "avalanche", testnet |-> "fuji"]

Commands == {Cmd("mainnet", {"bsc", "arbitrum"}, {"bsc", "arbitrum"}, FALSE),
             Cmd("mainnet", {"bsc", "arbitrum"}, {"bsc"}, TRUE),
             Cmd("mainnet", {"bsc", "arbitrum"}, {"bsc", "avalanche"}, FALSE),
             Cmd("testnet", {"bsc-testnet"}, {"arbitrum-goerli"}, TRUE),
             Cmd("testnet", {"bsc"}, {"arbitrum"}, FALSE),
             Cmd("sandbox", {"bsc"}, {"arbitrum"}, FALSE)}

\* --e mainnet --s avalanche,bsc,arbitrum --d avalanche,bsc,arbitrum --n true
Example == {Cmd("mainnet", {"avalanche", "bsc", "arbitrum"},
                {"avalanche", "bsc", "arbitrum"}, TRUE)}
=============================================================================
