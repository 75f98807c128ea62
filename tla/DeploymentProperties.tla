------------------------- MODULE DeploymentProperties -------------------------
(***************************************************************************)
(* What an operator relies on when a deployment is run, fails, is killed,  *)
(* is run again, and is maintained afterwards.                             *)
(***************************************************************************)
EXTENDS Deployment

PlanIds   == {Plan[network][i].id : i \in DOMAIN Plan[network]}
Applies(s) == s.once /\ s.req \subseteq Site.tags
Funded    == Site.oneAccount \/ chain.prnt["dao"] # MintAmt

\* The variables keep their types, and the run points at a script and a call.
TypeOK ==
  /\ network \in DOMAIN Networks
  /\ migrations \subseteq PlanIds /\ crashes \in 0..MaxCrashes /\ exported \in BOOLEAN
  /\ chain.poolAdmin \in {"none", "deployer", "ATokensAndRatesHelper"}
  /\ \A p \in DOMAIN chain.prnt : chain.prnt[p] \in 0..MintAmt
  /\ status \in {"idle", "deploy", "job"}
  /\ status # "idle" => pc \in 0..(Len(Script.calls) + 1)
  /\ status = "deploy" => at \in DOMAIN Plan[network]

(* The order of the scripts is right: when the deployer holds the PRNT the *)
(* scripts spend and nothing has stopped a run, no script asks for a       *)
(* deployment that is not there yet and no call reverts.                   *)
NothingThrows ==
  (cut = {} /\ crashes = 0 /\ Funded /\ status = "deploy" /\ chain.owner = "deployer") =>
     /\ InBody => ~Throws(NextCall)
     /\ pc = 0 /\ ~Skipped => WethKnown

(* Scripts that read a contract's state to see whether they were run, and  *)
(* then skip the calls behind the first of them that leaves that trace.    *)
Guarded == {"configure_lp", "configure_minters", "configure_markets", "set_lp_token"}

(* A recorded script is a finished one: every contract it deploys and      *)
(* every call it makes is on the chain, however many runs it took, unless  *)
(* the script guards its calls and was itself stopped part-way.            *)
Made(k) ==
  CASE k.op = "get"    -> TRUE
    [] k.op = "when"   -> TRUE
    [] k.op = "deploy" -> k.c \in deployed
    [] k.op = "call"   -> k.c = "Base" \/ <<k.c, k.f, k.x>> \in chain.done

RecordedIsComplete ==
  \A i \in DOMAIN Plan[network] : LET s == Plan[network][i] IN
    s.id \in migrations /\ s.id \notin Guarded \cap cut =>
      \A j \in DOMAIN s.calls : Made(s.calls[j])

(* The pool opens with the configured amounts of both tokens, unless       *)
(* configure_lp was stopped after it had paid one of them: the next run    *)
(* pays it again.                                                          *)
PoolOpensAtItsPrice ==
  "configure_lp" \in cut \/ chain.pool \in {<<0, 0>>, <<LpInitEth, LpInitPrnt>>}

(* The chef holds what was registered with it, once, and the bounty        *)
(* manager its reserve, once, unless the script that pays it was stopped.  *)
SuppliesPaidOnce ==
  /\ chain.registered \in {0, CicReserve}
  /\ "configure_cic" \in migrations =>
       chain.registered = CicReserve /\ chain.prnt["ChefIncentivesController"] = CicReserve
  /\ "configure_bounty_manager" \notin cut =>
       chain.prnt["BountyManager"] \in {0, DqReserve}

(* The pool is opened to users only with its reserves configured, and      *)
(* between runs the deployer is the pool's admin again: the helper that    *)
(* configures reserves holds the role only while a script that gave it     *)
(* away is running, or was stopped.                                        *)
LendsAdmin == {"configure_markets", "prnt_market", "arbi_wsteth", "arbi_arb", "setReserveFactor"}
MarketsConfigured ==
  /\ ("configure_markets" \notin cut /\ <<"LendingPoolConfigurator", "setPoolPause", "false">> \in chain.done)
       => <<"ATokensAndRatesHelper", "configureReserves", "core">> \in chain.done
  /\ (status = "idle" /\ cut \cap LendsAdmin = {}) => chain.poolAdmin # "ATokensAndRatesHelper"

(* Running the deployment again once it has finished sends the chain       *)
(* nothing new: what is not recorded as done finds itself done.            *)
RerunChangesNothing ==
  [][exported /\ status = "deploy" /\ RunStep => UNCHANGED <<chain, deployed, migrations>>]_vars

(***************************************************************************)
(* The deployment implements Rollout.                                      *)
(***************************************************************************)
OnceOrder == [n \in DOMAIN Networks |->
  LET once == {i \in DOMAIN Plan[n] : Plan[n][i].once /\ Plan[n][i].req \subseteq Networks[n].tags}
  IN  [i \in once |-> Plan[n][i].id]]

Attempt == IF status = "deploy" /\ pc > 0 /\ Script.once THEN {Script.id} ELSE {}

R == INSTANCE Rollout WITH order <- OnceOrder[network], recorded <- migrations,
                           attempt <- Attempt, published <- exported

\* The records say which steps were carried out, in the order of the files.
ImplementsRollout == R!RolloutSpec

(* Scripts that cannot be run again after a stop in the wrong place,       *)
(* because a call they already made now reverts.                           *)
NotRerunnable == {"assets", "configure_lending", "configure_lending_oracle", "configure_cic",
                  "configure_markets", "prnt_market", "arbi_wsteth", "arbi_arb"}

(* However often a run is killed or the deployer lacks PRNT, running the   *)
(* command again finishes the deployment, unless a script that cannot be   *)
(* run again was stopped part-way.                                         *)
Completes == <>(exported \/ cut \cap NotRerunnable # {})

(* The fixture of test/setup.ts, a deployment from nothing on the network  *)
(* of the tests, never fails while no run is killed.                       *)
FixtureDeploys == [][~Fail]_vars
=============================================================================
