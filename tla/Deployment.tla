------------------------------ MODULE Deployment ------------------------------
(***************************************************************************)
(* `hardhat deploy' of the protocol: the runner executes the scripts of    *)
(* the plan one after another, skips those already recorded and those the  *)
(* network's tags leave out, records a script that asked to be run once    *)
(* when its body has returned, and stops at the first error.  A run can    *)
(* also be killed between any two calls.  What survives is the chain, the  *)
(* deployment files and the recorded migrations; the operator then runs    *)
(* the command again.  Afterwards the ownership goes to the multisig, and  *)
(* the maintenance scripts are run.                                        *)
(***************************************************************************)
EXTENDS DeployPlan

CONSTANTS MaxCrashes,      \* bound on the runs that are killed
          MaxAfter         \* bound on the commands run once a deployment is complete

ASSUME BoundsAssumption == MaxCrashes \in Nat /\ MaxAfter \in Nat

VARIABLES
  network,          \* the network's name
  chain,        \* the contracts' state (DeployChain)
  deployed,     \* contracts with a deployment file
  migrations,   \* ids in .migrations.json
  status,       \* "idle", "deploy" or "job"
  at,           \* index of the script being run, in the plan or in Jobs
  pc,           \* 0 before the script is entered, else its next call
  from,         \* sender in the step's transaction options
  fresh,        \* newlyDeployed of the step's last deployment
  cut,          \* scripts in which some run stopped part-way
  crashes,      \* runs killed so far
  after,        \* commands run since the deployment was complete
  exported      \* a run has reached its end and written .deployData.json

vars == <<network, chain, deployed, migrations, status, at, pc, from, fresh, cut, crashes, after, exported>>
run  == <<status, at, pc, from, fresh>>

Site == Networks[network]
JobsOf  == [n \in DOMAIN Networks |-> Jobs(Networks[n])]
Script  == IF status = "job" THEN JobsOf[network][at] ELSE Plan[network][at]
Account(a) == IF Site.oneAccount /\ a \in {"dao", "reserve"} THEN "deployer" ELSE a

Init ==
  /\ network \in DOMAIN Networks
  /\ deployed = Site.recorded
  /\ chain = EmptyChain("PrimeToken" \in Site.recorded, Account("dao"))
  /\ migrations = {} /\ cut = {} /\ crashes = 0 /\ after = 0 /\ exported = FALSE
  /\ status = "idle" /\ at = 0 /\ pc = 0 /\ from = "deployer" /\ fresh = FALSE

RunDeploy ==
  /\ status = "idle"
  /\ exported => after < MaxAfter
  /\ after' = IF exported THEN after + 1 ELSE after
  /\ status' = "deploy" /\ at' = 1 /\ pc' = 0
  /\ UNCHANGED <<network, chain, deployed, migrations, from, fresh, cut, crashes, exported>>

\* A maintenance script needs the deployment's files.
RunJob ==
  /\ status = "idle" /\ exported /\ after < MaxAfter
  /\ after' = after + 1
  /\ \E j \in DOMAIN JobsOf[network] : at' = j
  /\ status' = "job" /\ pc' = 0
  /\ UNCHANGED <<network, chain, deployed, migrations, from, fresh, cut, crashes, exported>>

Stop ==
  /\ status' = "idle" /\ at' = 0 /\ pc' = 0 /\ from' = "deployer" /\ fresh' = FALSE

\* The script after this one, or the end of the run.
NextScript ==
  IF status = "deploy" /\ at < Len(Plan[network])
  THEN /\ at' = at + 1 /\ pc' = 0 /\ from' = "deployer" /\ fresh' = FALSE
       /\ UNCHANGED <<status, exported>>
  ELSE /\ Stop
       /\ exported' = (exported \/ status = "deploy")

Skipped == Script.id \in migrations \/ ~(Script.req \subseteq Site.tags)

SkipScript ==
  /\ status # "idle" /\ pc = 0 /\ Skipped
  /\ NextScript
  /\ UNCHANGED <<network, chain, deployed, migrations, cut, crashes, after>>

(* The step looks up the wrapped base asset and its aggregator, which are  *)
(* deployments on a mocks network, and takes fresh transaction options.    *)
WethKnown ==
  \/ Script.kind # "step" \/ Script.id = "weth" \/ "mocks" \notin Site.tags
  \/ {"WETH", "WETHAggregator"} \subseteq deployed

EnterScript ==
  /\ status # "idle" /\ pc = 0 /\ ~Skipped /\ WethKnown
  /\ pc' = 1 /\ from' = "deployer" /\ fresh' = FALSE
  /\ UNCHANGED <<network, chain, deployed, migrations, status, at, cut, crashes, after, exported>>

InBody    == status # "idle" /\ pc \in DOMAIN Script.calls
NextCall  == Script.calls[pc]

\* executeFrom and executeFromOwner change the options the step shares.
Sender(k) ==
  CASE k.by = "opts"                         -> from
    [] k.by = "signer"                       -> "deployer"
    [] k.by \in {"owner", "ownerOfLockZap"}  -> chain.owner
    [] k.by = "poolAdmin"                    -> chain.poolAdmin
    [] OTHER                                 -> Account(k.by)
CanSign(a) == a = "deployer" \/ "impersonate" \in Site.tags
Known(c)   == c \in deployed \/ (c = "Base")

Throws(k) ==
  CASE k.op = "get"  -> ~(k.names \subseteq deployed)
    [] k.op = "call" -> \/ ~Known(k.c)
                        \/ ~CanSign(Sender(k))
                        \/ Reverts(chain, Sender(k), k)
    [] OTHER         -> FALSE

Test(k) ==
  CASE k.test = "fresh"              -> fresh
    [] k.test = "missing"            -> k.x \notin deployed
    [] k.test = "lacksBase"          -> chain.base["deployer"] < LpInitEth
    [] k.test = "poolNotInitialized" -> ~Done(chain, "PoolHelper", "initializePool")
    [] k.test = "mintersUnset"       -> ~Done(chain, "MFD", "setMinters")
    [] k.test = "adminIsDeployer"    -> chain.feeAdmin = "deployer"
    [] k.test = "noStakingToken"     -> ~Done(chain, "MFD", "setLPToken")

GetCall ==
  /\ InBody /\ NextCall.op = "get" /\ ~Throws(NextCall)
  /\ pc' = pc + 1
  /\ UNCHANGED <<network, chain, deployed, migrations, status, at, from, fresh, cut, crashes, after, exported>>

WhenCall ==
  /\ InBody /\ NextCall.op = "when"
  /\ pc' = pc + 1 + (IF Test(NextCall) THEN 0 ELSE NextCall.n)
  /\ UNCHANGED <<network, chain, deployed, migrations, status, at, from, fresh, cut, crashes, after, exported>>

\* Mutant: a recorded contract is deployed again.
DeployCallAgain ==
  /\ InBody /\ NextCall.op = "deploy"
  /\ LET c == NextCall.c IN
     /\ fresh' = TRUE
     /\ deployed' = deployed \cup {c}
     /\ chain' = IF c = "PrimeToken"
                 THEN [chain EXCEPT !.prnt[Account("dao")] = @ + MintAmt] ELSE chain
  /\ pc' = pc + 1
  /\ UNCHANGED <<network, migrations, status, at, from, cut, crashes, after, exported>>

\* The token's constructor mints the whole supply to dao.
DeployCall ==
  /\ InBody /\ NextCall.op = "deploy"
  /\ LET c == NextCall.c IN
     /\ fresh' = (c \notin deployed)
     /\ deployed' = deployed \cup {c}
     /\ chain' = IF c = "PrimeToken" /\ c \notin deployed
                 THEN [chain EXCEPT !.prnt[Account("dao")] = @ + MintAmt] ELSE chain
  /\ pc' = pc + 1
  /\ UNCHANGED <<network, migrations, status, at, from, cut, crashes, after, exported>>

MethodCall ==
  /\ InBody /\ NextCall.op = "call" /\ ~Throws(NextCall)
  /\ LET who == Sender(NextCall) IN
     /\ chain' = Apply(chain, who, NextCall)
     /\ from' = IF NextCall.by \in {"opts", "signer"} THEN from ELSE who
  /\ pc' = pc + 1
  /\ UNCHANGED <<network, deployed, migrations, status, at, fresh, cut, crashes, after, exported>>

FinishScript ==
  /\ status # "idle" /\ pc = Len(Script.calls) + 1
  /\ migrations' = IF Script.once THEN migrations \cup {Script.id} ELSE migrations
  /\ NextScript
  /\ UNCHANGED <<network, chain, deployed, cut, crashes, after>>

\* The script's promise is rejected and the whole run stops.
CutHere == cut' = IF pc > 1 THEN cut \cup {Script.id} ELSE cut

\* Mutant: the error is caught and the step returns true.
FailIsSwallowed ==
  /\ InBody /\ Throws(NextCall)
  /\ migrations' = IF Script.once THEN migrations \cup {Script.id} ELSE migrations
  /\ NextScript
  /\ UNCHANGED <<network, chain, deployed, cut, crashes, after>>

\* Mutant: the run goes on with the next script.
FailGoesOn ==
  /\ InBody /\ Throws(NextCall)
  /\ NextScript /\ CutHere
  /\ UNCHANGED <<network, chain, deployed, migrations, crashes, after>>

Fail ==
  /\ \/ InBody /\ Throws(NextCall)
     \/ status # "idle" /\ pc = 0 /\ ~Skipped /\ ~WethKnown
  /\ Stop /\ CutHere
  /\ UNCHANGED <<network, chain, deployed, migrations, crashes, after, exported>>

Crash ==
  /\ status # "idle" /\ crashes < MaxCrashes
  /\ crashes' = crashes + 1
  /\ Stop /\ CutHere
  /\ UNCHANGED <<network, chain, deployed, migrations, after, exported>>

(* The dao sends the deployer the PRNT the scripts spend.                  *)
FundDeployer ==
  /\ ~Site.oneAccount /\ chain.prnt["dao"] >= PrntRequired
  /\ chain' = [chain EXCEPT !.prnt["dao"] = @ - PrntRequired,
                            !.prnt["deployer"] = @ + PrntRequired]
  /\ UNCHANGED <<network, deployed, migrations, run, cut, crashes, after, exported>>

HandOver ==
  /\ status = "idle" /\ exported /\ chain.owner = "deployer"
  /\ chain' = [chain EXCEPT !.owner = "multisig"]
  /\ UNCHANGED <<network, deployed, migrations, run, cut, crashes, after, exported>>

RunStep == \/ SkipScript \/ EnterScript \/ GetCall \/ WhenCall \/ DeployCall
           \/ MethodCall \/ FinishScript \/ Fail

Next == RunDeploy \/ RunJob \/ RunStep \/ Crash \/ FundDeployer \/ HandOver

(* A run goes on, the operator starts another one, and the dao pays.       *)
Spec == Init /\ [][Next]_vars
             /\ WF_vars(RunStep) /\ WF_vars(RunDeploy) /\ WF_vars(FundDeployer)
=============================================================================
