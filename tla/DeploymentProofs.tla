-------------------------- MODULE DeploymentProofs ---------------------------
(***************************************************************************)
(* Theorems about the deployment, for every set of networks, whatever      *)
(* their tags, and any number of crashes, of failures and of runs again.   *)
(*                                                                         *)
(* Shape and InTurn say where a run can be: every script before the        *)
(* current one has had its turn. TraceInv and MadeInv say what a run       *)
(* leaves: what a guarded script tests is as it was until the script has   *)
(* run or was stopped (cut), and what is behind the program counter has    *)
(* been made. The middle part follows the money and the pool admin from    *)
(* one call to the next.                                                   *)
(*                                                                         *)
(* SettledInv and OutsideInv are about the scripts that run every time:    *)
(* once they have had their turn, their deployments and calls are there,   *)
(* so that they find their tests false when they run again.                *)
(***************************************************************************)
EXTENDS DeployPlanProofs

-----------------------------------------------------------------------------
(* Where a run can be, and the kinds of steps.                             *)

Shape ==
  /\ network \in DOMAIN Networks
  /\ status \in {"idle", "deploy", "job"}
  /\ status = "deploy" => at \in 1..Len(Plan[network])
  /\ status = "job" => at \in 1..14
  /\ status # "idle" => pc \in 0..(Len(Script.calls) + 1)
  /\ exported \in BOOLEAN

\* The scripts of a network, and the one being run.
LEMMA PlanFacts ==
  ASSUME network \in DOMAIN Networks
  PROVE  PlanOk(Plan[network]) /\ JobsOk(JobsOf[network])
<1>1. Plan[network] = RunOrder(Files(Networks[network]))
  BY DEF Plan
<1>2. JobsOf[network] = Jobs(Networks[network])
  BY DEF JobsOf
<1>3. PlanOk(RunOrder(Files(Networks[network])))
  BY PlanIsOk
<1>4. JobsOk(Jobs(Networks[network]))
  BY JobsAreOk
<1> QED  BY <1>1, <1>2, <1>3, <1>4

\* What is known of a script and of its calls.
Understood(s) ==
  /\ Sound(s) /\ Len(s.calls) \in Nat /\ DOMAIN s.calls = 1..Len(s.calls)
  /\ \A j \in 1..Len(s.calls) : AtHome(s.id, s.calls[j])
  /\ Bounded(s.calls) /\ Returns(s.calls)

\* A sound script has such calls.
LEMMA SoundCalls ==
  ASSUME NEW s, Sound(s)
  PROVE  Understood(s)
<1>1. IsList(s.calls) /\ (\A k \in ToSet(s.calls) : AtHome(s.id, k)) /\ Bounded(s.calls) /\
  Returns(s.calls)
  BY DEF Sound, Formed
<1>2. Len(s.calls) \in Nat /\ DOMAIN s.calls = 1..Len(s.calls)
      /\ \A j \in 1..Len(s.calls) : s.calls[j] \in ToSet(s.calls)
  BY <1>1, ListDomain
<1> QED  BY <1>1, <1>2 DEF Understood

\* The script that runs is one of these; a job never records anything.
LEMMA ScriptFacts ==
  ASSUME Shape, status # "idle"
  PROVE  Understood(Script) /\ (status = "job" => Script.once = FALSE)
<1>1. PlanOk(Plan[network]) /\ JobsOk(JobsOf[network])
  BY PlanFacts DEF Shape
<1>2. CASE status = "deploy"
  <2>1. Script = Plan[network][at] /\ at \in 1..Len(Plan[network])
    BY <1>2 DEF Script, Shape
  <2>2. Sound(Script)
    BY <1>1, <2>1 DEF PlanOk
  <2> QED  BY <1>2, <2>2, SoundCalls
<1>3. CASE status = "job"
  <2>1. Script = JobsOf[network][at] /\ at \in 1..14
    BY <1>3 DEF Script, Shape
  <2>2. Sound(Script) /\ Script.once = FALSE
    BY <1>1, <2>1 DEF JobsOk
  <2> QED  BY <2>2, SoundCalls
<1> QED  BY <1>2, <1>3 DEF Shape

\* A run begins, ends, or goes to its next script without having made a call
\* in this one: nothing changes but the place, and a script that was stopped
\* after a call is known.
Turn ==
  /\ UNCHANGED <<network, chain, deployed, migrations>>
  /\ cut \subseteq cut' /\ (status # "idle" /\ pc > 1 => Script.id \in cut')
  /\ status' = "idle" \/ pc' = 0

Finish ==
  /\ status # "idle" /\ pc = Len(Script.calls) + 1
  /\ migrations' = IF Script.once THEN migrations \cup {Script.id} ELSE migrations
  /\ UNCHANGED <<network, chain, deployed, cut>>
  /\ status' = "idle" \/ pc' = 0

Enter ==
  /\ status # "idle" /\ pc = 0 /\ ~Skipped
  /\ pc' = 1 /\ from' = "deployer"
  /\ UNCHANGED <<network, chain, deployed, migrations, status, at, cut>>

\* A call of the script, which stays the same one.
Stay == InBody /\ UNCHANGED <<network, migrations, status, at, cut>>

Pass == Stay /\ NextCall.op \in {"get", "when"} /\ UNCHANGED <<chain, deployed, from>>
        /\ pc' = IF NextCall.op = "when" /\ ~Test(NextCall) THEN pc + 1 + NextCall.n ELSE pc + 1

Build == Stay /\ NextCall.op = "deploy" /\ deployed' = deployed \cup {NextCall.c}
         /\ chain' = (IF NextCall.c = "PrimeToken" /\ NextCall.c \notin deployed
                      THEN [chain EXCEPT !.prnt[Account("dao")] = @ + MintAmt] ELSE chain)
         /\ UNCHANGED from /\ pc' = pc + 1

Send == Stay /\ NextCall.op = "call" /\ deployed' = deployed
        /\ ~Reverts(chain, Sender(NextCall), NextCall)
        /\ chain' = Apply(chain, Sender(NextCall), NextCall)
        /\ from' = (IF NextCall.by \in {"opts", "signer"} THEN from ELSE Sender(NextCall))
        /\ pc' = pc + 1

\* The two steps of people.
People ==
  /\ UNCHANGED <<network, deployed, migrations, status, at, pc, from, cut>>
  /\ FundDeployer \/ HandOver

\* Every step is of one of these kinds.
LEMMA StepKinds ==
  ASSUME Shape, Next
  PROVE  \/ Turn \/ Finish \/ Enter \/ Pass \/ Build \/ Send \/ People
<1>1. CASE RunDeploy
  BY <1>1 DEF RunDeploy, Turn
<1>2. CASE RunJob
  BY <1>2 DEF RunJob, Turn
<1>3. CASE SkipScript
  BY <1>3 DEF SkipScript, NextScript, Stop, Turn
<1>4. CASE EnterScript
  BY <1>4 DEF EnterScript, Enter
<1>5. CASE GetCall
  BY <1>5 DEF GetCall, Pass, Stay
<1>6. CASE WhenCall
  <2>1. NextCall.n \in Nat /\ pc \in Nat
    <3>1. Understood(Script) /\ pc \in 1..Len(Script.calls)
      BY <1>6, ScriptFacts DEF WhenCall, InBody, Understood
    <3> QED  BY <1>6, <3>1 DEF Understood, AtHome, WhenCall, NextCall
  <2>2. pc + 1 + 0 = pc + 1
    BY <2>1
  <2> QED  BY <1>6, <2>2 DEF WhenCall, Pass, Stay
<1>7. CASE DeployCall
  BY <1>7 DEF DeployCall, Build, Stay
<1>8. CASE MethodCall
  BY <1>8 DEF MethodCall, Send, Stay, Throws
<1>9. CASE FinishScript
  BY <1>9 DEF FinishScript, NextScript, Stop, Finish
<1>10. CASE Fail
  BY <1>10 DEF Fail, Stop, CutHere, Turn
<1>11. CASE Crash
  BY <1>11 DEF Crash, Stop, CutHere, Turn
<1>12. CASE FundDeployer
  BY <1>12 DEF FundDeployer, People, run
<1>13. CASE HandOver
  BY <1>13 DEF HandOver, People, run
<1> QED  BY <1>1, <1>2, <1>3, <1>4, <1>5, <1>6, <1>7, <1>8, <1>9, <1>10, <1>11, <1>12, <1>13
  DEF Next, RunStep

\* The script is the same as long as the run and its place are.
LEMMA SameScript ==
  ASSUME UNCHANGED <<network, status, at>>
  PROVE  Script' = Script
  BY DEF Script

-----------------------------------------------------------------------------
(* The shape of a run is kept.                                             *)

\* Nothing runs at first.
LEMMA ShapeInit == Init => Shape
  BY DEF Init, Shape

\* The next script of the run, or its end.
LEMMA ShapeNext ==
  ASSUME Shape, status # "idle", NextScript, network' = network
  PROVE  Shape'
<1> USE DEF Shape
<1>1. PlanOk(Plan[network])
  BY PlanFacts
<1>2. CASE status = "deploy" /\ at < Len(Plan[network])
  <2>1. status' = "deploy" /\ at' = at + 1 /\ pc' = 0 /\ exported' = exported
    BY <1>2 DEF NextScript
  <2>2. at + 1 \in 1..Len(Plan[network])
    BY <1>1, <1>2 DEF PlanOk
  <2>3. Sound(Plan[network][at + 1])
    BY <1>1, <2>2 DEF PlanOk
  <2>4. Script' = Plan[network][at + 1]
    BY <2>1 DEF Script
  <2>5. Len(Script'.calls) \in Nat
    BY <2>3, <2>4, SoundCalls DEF Understood
  <2>6. pc' \in 0..(Len(Script'.calls) + 1)
    BY <2>1, <2>5
  <2> QED  BY <2>1, <2>2, <2>6
<1>3. CASE ~(status = "deploy" /\ at < Len(Plan[network]))
  BY <1>3 DEF NextScript, Stop
<1> QED  BY <1>2, <1>3

\* Every step keeps the shape.
LEMMA ShapeStep ==
  ASSUME Shape, [Next]_vars
  PROVE  Shape'
<1>1. PlanOk(Plan[network]) /\ JobsOk(JobsOf[network])
  BY PlanFacts DEF Shape
<1>2. CASE UNCHANGED vars
  BY <1>2, SameScript DEF vars, Shape
<1>3. CASE RunDeploy
  <2>1. Script' = Plan[network][1] /\ 1 \in 1..Len(Plan[network])
    BY <1>1, <1>3 DEF RunDeploy, Script, PlanOk
  <2>2. Len(Script'.calls) \in Nat
    BY <1>1, <2>1, SoundCalls DEF Understood, PlanOk
  <2>3. pc' \in 0..(Len(Script'.calls) + 1)
    BY <1>3, <2>2 DEF RunDeploy
  <2> QED  BY <1>3, <2>1, <2>3 DEF RunDeploy, Shape
<1>4. CASE RunJob
  <2>1. at' \in 1..14 /\ Script' = JobsOf[network][at']
    BY <1>1, <1>4 DEF RunJob, Script, JobsOk
  <2>2. Len(Script'.calls) \in Nat
    BY <1>1, <2>1, SoundCalls DEF Understood, JobsOk
  <2>3. pc' \in 0..(Len(Script'.calls) + 1)
    BY <1>4, <2>2 DEF RunJob
  <2> QED  BY <1>4, <2>1, <2>3 DEF RunJob, Shape
<1>5. CASE SkipScript
  BY <1>5, ShapeNext DEF SkipScript
<1>6. CASE FinishScript
  BY <1>6, ShapeNext DEF FinishScript
<1>7. CASE Fail \/ Crash
  BY <1>7 DEF Fail, Crash, Stop, Shape
<1>8. CASE EnterScript
  <2>1. Script' = Script /\ Len(Script.calls) \in Nat
    BY <1>8, SameScript, ScriptFacts DEF EnterScript, Understood
  <2>2. pc' \in 0..(Len(Script'.calls) + 1)
    BY <1>8, <2>1 DEF EnterScript
  <2> QED  BY <1>8, <2>1, <2>2 DEF EnterScript, Shape
<1>9. CASE GetCall \/ WhenCall \/ DeployCall \/ MethodCall
  <2>1. InBody /\ UNCHANGED <<network, status, at, exported>>
    BY <1>9 DEF GetCall, WhenCall, DeployCall, MethodCall
  <2>2. Script' = Script /\ Understood(Script) /\ pc \in 1..Len(Script.calls)
    BY <2>1, SameScript, ScriptFacts DEF InBody, Understood
  <2>3. pc' \in 0..(Len(Script.calls) + 1)
    <3>1. CASE WhenCall
      <4>1. NextCall.op = "when" /\ NextCall.n \in Nat /\ pc + NextCall.n <= Len(Script.calls)
        BY <2>2, <3>1 DEF WhenCall, Understood, AtHome, NextCall, Bounded
      <4>2. pc' = pc + 1 + 0 \/ pc' = pc + 1 + NextCall.n
        BY <3>1 DEF WhenCall
      <4> QED  BY <2>2, <4>1, <4>2 DEF Understood
    <3>2. CASE GetCall \/ DeployCall \/ MethodCall
      <4>1. pc' = pc + 1
        BY <3>2 DEF GetCall, DeployCall, MethodCall
      <4> QED  BY <2>2, <4>1 DEF Understood
    <3> QED  BY <1>9, <3>1, <3>2
  <2> QED  BY <2>1, <2>2, <2>3 DEF Shape
<1>10. CASE FundDeployer \/ HandOver
  <2>1. UNCHANGED <<network, status, at, pc, exported>>
    BY <1>10 DEF FundDeployer, HandOver, run
  <2> QED  BY <2>1, SameScript DEF Shape
<1> QED  BY <1>2, <1>3, <1>4, <1>5, <1>6, <1>7, <1>8, <1>9, <1>10 DEF Next, RunStep

-----------------------------------------------------------------------------
(* The records follow the order of the files.                              *)

\* A script that is running is neither recorded nor left out, what comes
\* before it is recorded, and everything is once a run has reached its end.
InTurn ==
  /\ status # "idle" /\ pc # 0 => ~Skipped
  /\ status = "deploy" => \A i \in 1..(at - 1) :
       Applies(Plan[network][i]) => Plan[network][i].id \in migrations
  /\ exported => \A i \in 1..Len(Plan[network]) :
       Applies(Plan[network][i]) => Plan[network][i].id \in migrations

\* No script has had its turn at first.
LEMMA InTurnInit == Init => InTurn
  BY DEF Init, InTurn

\* The script that is left behind is recorded, if it has to be.
LEMMA InTurnNext ==
  ASSUME Shape, InTurn, status # "idle", NextScript, network' = network,
         migrations \subseteq migrations', status = "deploy" /\ Applies(Script) =>
           Script.id \in migrations'
  PROVE  InTurn'
<1>1. PlanOk(Plan[network])
  BY PlanFacts DEF Shape
<1>2. Site' = Site /\ \A s : Applies(s)' <=> Applies(s)
  BY DEF Site, Applies
<1>3. CASE status = "deploy" /\ at < Len(Plan[network])
  <2>1. status' = "deploy" /\ at' = at + 1 /\ pc' = 0 /\ exported' = exported
    BY <1>3 DEF NextScript
  <2>2. Script = Plan[network][at] /\ at \in 1..Len(Plan[network])
    BY <1>3 DEF Script, Shape
  <2>3. \A i \in 1..((at + 1) - 1) : Applies(Plan[network][i]) => Plan[network][i].id \in migrations'
    <3> TAKE i \in 1..((at + 1) - 1)
    <3>1. i = at \/ i \in 1..(at - 1)
      BY <1>1, <2>2 DEF PlanOk
    <3> QED  BY <1>3, <2>2, <3>1 DEF InTurn
  <2> QED  BY <1>2, <2>1, <2>3 DEF InTurn, Applies, Site
<1>4. CASE status = "deploy" /\ ~(at < Len(Plan[network]))
  <2>1. status' = "idle" /\ pc' = 0
    BY <1>4 DEF NextScript, Stop
  <2>2. Script = Plan[network][at] /\ at \in 1..Len(Plan[network]) /\ at = Len(Plan[network])
    BY <1>1, <1>4 DEF Script, Shape, PlanOk
  <2>3. \A i \in 1..Len(Plan[network]) : Applies(Plan[network][i]) =>
    Plan[network][i].id \in migrations'
    <3> TAKE i \in 1..Len(Plan[network])
    <3>1. i = at \/ i \in 1..(at - 1)
      BY <1>1, <2>2 DEF PlanOk
    <3> QED  BY <1>4, <2>2, <3>1 DEF InTurn
  <2> QED  BY <1>2, <2>1, <2>3 DEF InTurn, Applies, Site
<1>5. CASE status = "job"
  <2>1. status' = "idle" /\ pc' = 0 /\ exported' = exported
    BY <1>5 DEF NextScript, Stop, Shape
  <2> QED  BY <1>2, <2>1 DEF InTurn, Applies, Site
<1> QED  BY <1>3, <1>4, <1>5 DEF Shape

\* Nothing else disturbs it.
LEMMA InTurnStill ==
  ASSUME InTurn, UNCHANGED <<network, migrations, exported>>,
         \/ status' = "idle" /\ pc' = 0
         \/ status' = "deploy" /\ at' = 1 /\ pc' = 0
         \/ status' = "job" /\ pc' = 0
         \/ UNCHANGED <<status, at>> /\ (pc' = pc \/ ~Skipped)
  PROVE  InTurn'
<1> USE DEF InTurn, Applies, Site
<1>1. CASE status' = "idle" /\ pc' = 0
  BY <1>1
<1>2. CASE status' = "deploy" /\ at' = 1 /\ pc' = 0
  BY <1>2
<1>3. CASE status' = "job" /\ pc' = 0
  BY <1>3
<1>4. CASE UNCHANGED <<status, at>> /\ (pc' = pc \/ ~Skipped)
  <2>1. Script' = Script
    BY <1>4, SameScript
  <2>2. Skipped' = Skipped
    BY <2>1 DEF Skipped
  <2> QED  BY <1>4, <2>2
<1> QED  BY <1>1, <1>2, <1>3, <1>4

\* Every step keeps the turn.
LEMMA InTurnStep ==
  ASSUME Shape, InTurn, [Next]_vars
  PROVE  InTurn'
<1>1. CASE UNCHANGED vars
  BY <1>1, InTurnStill DEF vars
<1>2. CASE RunDeploy \/ RunJob
  BY <1>2, InTurnStill DEF RunDeploy, RunJob
<1>3. CASE SkipScript
  <2>1. status = "deploy" /\ Applies(Script) => Script.id \in migrations'
    BY <1>3 DEF SkipScript, Skipped, Applies
  <2> QED  BY <1>3, <2>1, InTurnNext DEF SkipScript
<1>4. CASE FinishScript
  <2>1. Applies(Script) => Script.id \in migrations'
    BY <1>4 DEF FinishScript, Applies
  <2>2. migrations \subseteq migrations'
    BY <1>4 DEF FinishScript
  <2> QED  BY <1>4, <2>1, <2>2, InTurnNext DEF FinishScript
<1>5. CASE Fail \/ Crash
  BY <1>5, InTurnStill DEF Fail, Crash, Stop
<1>6. CASE EnterScript
  BY <1>6, InTurnStill DEF EnterScript
<1>7. CASE GetCall \/ WhenCall \/ DeployCall \/ MethodCall
  <2>1. InBody /\ UNCHANGED <<network, migrations, exported, status, at>>
    BY <1>7 DEF GetCall, WhenCall, DeployCall, MethodCall
  <2>2. ~Skipped
    <3>1. status # "idle" /\ pc \in 1..Len(Script.calls) /\ Len(Script.calls) \in Nat
      BY <2>1, ScriptFacts DEF InBody, Understood
    <3> QED  BY <3>1 DEF InTurn
  <2> QED  BY <2>1, <2>2, InTurnStill
<1>8. CASE FundDeployer \/ HandOver
  BY <1>8, InTurnStill DEF FundDeployer, HandOver, run
<1> QED  BY <1>1, <1>2, <1>3, <1>4, <1>5, <1>6, <1>7, <1>8 DEF Next, RunStep

-----------------------------------------------------------------------------
(* The deployment implements Rollout.                                      *)



\* The steps of Rollout's order are the files that apply.
LEMMA OrderIs ==
  ASSUME network \in DOMAIN Networks
  PROVE  /\ DOMAIN OnceOrder[network] = {i \in 1..Len(Plan[network]) : Applies(Plan[network][i])}
         /\ DOMAIN OnceOrder[network] \subseteq Nat
         /\ \A i \in DOMAIN OnceOrder[network] : OnceOrder[network][i] = Plan[network][i].id
<1>1. PlanOk(Plan[network])
  BY PlanFacts
<1> DEFINE once == {i \in DOMAIN Plan[network] : Plan[network][i].once /\
                     Plan[network][i].req \subseteq Networks[network].tags}
<1>2. OnceOrder[network] = [i \in once |-> Plan[network][i].id]
  BY DEF OnceOrder
<1>3. once = {i \in 1..Len(Plan[network]) : Applies(Plan[network][i])}
  BY <1>1 DEF PlanOk, Applies, Site
<1>4. once \subseteq Nat
  BY <1>1 DEF PlanOk
<1> HIDE DEF once
<1> QED  BY <1>2, <1>3, <1>4

\* The first step begins an attempt, or none.
LEMMA RolloutFirst == Init => R!RolloutInit
<1> SUFFICES ASSUME Init PROVE R!RolloutInit
  OBVIOUS
<1>1. network \in DOMAIN Networks /\ migrations = {} /\ exported = FALSE /\ status = "idle"
  BY DEF Init
<1>2. DOMAIN OnceOrder[network] \subseteq Nat
  BY <1>1, OrderIs
<1> QED  BY <1>1, <1>2 DEF R!RolloutInit, Attempt

\* Nothing that Rollout sees.
LEMMA RolloutStill ==
  ASSUME UNCHANGED <<network, migrations, exported>>, Attempt' = Attempt
  PROVE  [R!RolloutNext]_(R!rolloutVars)
<1>1. OnceOrder[network]' = OnceOrder[network]
  OBVIOUS
<1>2. UNCHANGED R!rolloutVars
  BY <1>1 DEF R!rolloutVars
<1> QED  BY <1>2

\* The run reaches its end, or not, with no attempt being made.
LEMMA RolloutEnd ==
  ASSUME Shape, Shape', InTurn', UNCHANGED <<network, migrations>>, Attempt = {}, Attempt' = {},
         exported' = exported \/ exported' = TRUE
  PROVE  [R!RolloutNext]_(R!rolloutVars)
<1>1. CASE exported' = exported
  BY <1>1, RolloutStill
<1>2. CASE exported' = TRUE
  <2>1. \A i \in DOMAIN OnceOrder[network] : OnceOrder[network][i] \in migrations
    <3> TAKE i \in DOMAIN OnceOrder[network]
    <3>1. i \in 1..Len(Plan[network]) /\ Applies(Plan[network][i]) /\
      OnceOrder[network][i] = Plan[network][i].id
      BY OrderIs DEF Shape
    <3> QED  BY <1>2, <3>1 DEF InTurn, Applies, Site
  <2>2. OnceOrder[network]' = OnceOrder[network]
    OBVIOUS
  <2>3. R!Publish
    BY <1>2, <2>1, <2>2 DEF R!Publish
  <2> QED  BY <2>3 DEF R!RolloutNext
<1> QED  BY <1>1, <1>2

\* A step of the deployment is a step of the rollout, or no step of it.
LEMMA RolloutStep ==
  ASSUME Shape, Shape', InTurn, InTurn', [Next]_vars
  PROVE  [R!RolloutNext]_(R!rolloutVars)
<1>1. CASE UNCHANGED vars
  <2>1. Attempt' = Attempt
    BY <1>1, SameScript DEF vars, Attempt
  <2> QED  BY <1>1, <2>1, RolloutStill DEF vars
<1>2. CASE RunDeploy \/ RunJob
  <2>1. Attempt' = {} /\ Attempt = {}
    BY <1>2 DEF RunDeploy, RunJob, Attempt
  <2> QED  BY <1>2, <2>1, RolloutStill DEF RunDeploy, RunJob
<1>3. CASE SkipScript
  <2>1. Attempt = {} /\ Attempt' = {}
    BY <1>3 DEF SkipScript, NextScript, Stop, Attempt
  <2>2. exported' = exported \/ exported' = TRUE
    BY <1>3 DEF SkipScript, NextScript, Shape
  <2> QED  BY <1>3, <2>1, <2>2, RolloutEnd DEF SkipScript
<1>4. CASE FinishScript
  <2>0. status # "idle" /\ Understood(Script) /\ pc = Len(Script.calls) + 1 /\ pc \in Nat /\ pc > 0
    BY <1>4, ScriptFacts DEF FinishScript, Understood
  <2>1. Attempt' = {}
    BY <1>4 DEF FinishScript, NextScript, Stop, Attempt
  <2>2. CASE status = "deploy" /\ Script.once
    <3>1. Attempt = {Script.id}
      BY <2>0, <2>2 DEF Attempt
    <3>2. exported' = exported
      <4>1. Script = Plan[network][at] /\ at \in 1..Len(Plan[network])
        BY <2>2 DEF Script, Shape
      <4>2. ~Plan[network][Len(Plan[network])].once /\ Len(Plan[network]) \in Nat
        BY PlanFacts DEF PlanOk, Shape
      <4>3. at < Len(Plan[network])
        BY <2>2, <4>1, <4>2
      <4> QED  BY <1>4, <2>2, <4>3 DEF FinishScript, NextScript
    <3>3. migrations' = migrations \cup Attempt /\ network' = network
      BY <1>4, <2>2, <3>1 DEF FinishScript
    <3>4. R!Record
      BY <2>1, <3>1, <3>2, <3>3 DEF R!Record
    <3> QED  BY <3>4 DEF R!RolloutNext
  <2>3. CASE ~(status = "deploy" /\ Script.once)
    <3>1. Attempt = {} /\ ~Script.once
      BY <2>0, <2>3, ScriptFacts DEF Attempt, Shape
    <3>2. UNCHANGED <<network, migrations>>
      BY <1>4, <3>1 DEF FinishScript
    <3>3. exported' = exported \/ exported' = TRUE
      BY <1>4 DEF FinishScript, NextScript, Shape
    <3> QED  BY <2>1, <3>1, <3>2, <3>3, RolloutEnd
  <2> QED  BY <2>2, <2>3
<1>5. CASE Fail \/ Crash
  <2>1. Attempt' = {} /\ UNCHANGED <<network, migrations, exported>>
    BY <1>5 DEF Fail, Crash, Stop, Attempt
  <2>2. CASE Attempt = {}
    BY <2>1, <2>2, RolloutStill
  <2>3. CASE Attempt # {}
    <3>1. R!Abandon
      BY <2>1, <2>3 DEF R!Abandon
    <3> QED  BY <3>1 DEF R!RolloutNext
  <2> QED  BY <2>2, <2>3
<1>6. CASE EnterScript
  <2>1. Script' = Script /\ Attempt = {} /\ UNCHANGED <<network, migrations, exported>>
    BY <1>6, SameScript DEF EnterScript, Attempt
  <2>2. CASE status = "deploy" /\ Script.once
    <3>1. Attempt' = {Script.id}
      BY <1>6, <2>1, <2>2 DEF EnterScript, Attempt
    <3>2. Script = Plan[network][at] /\ at \in 1..Len(Plan[network])
      BY <2>2 DEF Script, Shape
    <3>3. Applies(Script) /\ Script.id \notin migrations
      BY <1>6, <2>2 DEF EnterScript, Skipped, Applies
    <3>4. at \in DOMAIN OnceOrder[network] /\ OnceOrder[network][at] = Script.id
      BY <3>2, <3>3, OrderIs DEF Shape
    <3>5. \A j \in DOMAIN OnceOrder[network] : j < at => OnceOrder[network][j] \in migrations
      <4> SUFFICES ASSUME NEW j \in DOMAIN OnceOrder[network], j < at
                   PROVE OnceOrder[network][j] \in migrations
        OBVIOUS
      <4>1. j \in 1..Len(Plan[network]) /\ Applies(Plan[network][j]) /\
        OnceOrder[network][j] = Plan[network][j].id
        BY OrderIs DEF Shape
      <4>2. j \in 1..(at - 1)
        BY <3>2, <4>1
      <4> QED  BY <2>2, <4>1, <4>2 DEF InTurn
    <3>6. OnceOrder[network]' = OnceOrder[network]
      BY <2>1
    <3>7. R!Begin(at)
      BY <2>1, <3>1, <3>3, <3>4, <3>5, <3>6 DEF R!Begin
    <3> QED  BY <3>4, <3>7 DEF R!RolloutNext
  <2>3. CASE ~(status = "deploy" /\ Script.once)
    <3>1. Attempt' = {}
      BY <1>6, <2>1, <2>3 DEF EnterScript, Attempt
    <3> QED  BY <2>1, <3>1, RolloutStill
  <2> QED  BY <2>2, <2>3
<1>7. CASE GetCall \/ WhenCall \/ DeployCall \/ MethodCall
  <2>1. InBody /\ UNCHANGED <<network, migrations, exported, status, at>>
    BY <1>7 DEF GetCall, WhenCall, DeployCall, MethodCall
  <2>2. Script' = Script /\ Understood(Script) /\ pc \in 1..Len(Script.calls)
    BY <2>1, SameScript, ScriptFacts DEF InBody, Understood
  <2>3. pc' \in Nat /\ pc' > 0
    <3>1. CASE WhenCall
      <4>1. NextCall.op = "when" /\ NextCall.n \in Nat
        BY <2>2, <3>1 DEF WhenCall, Understood, AtHome, NextCall
      <4>2. pc' = pc + 1 + 0 \/ pc' = pc + 1 + NextCall.n
        BY <3>1 DEF WhenCall
      <4> QED  BY <2>2, <4>1, <4>2 DEF Understood
    <3>2. CASE GetCall \/ DeployCall \/ MethodCall
      <4>1. pc' = pc + 1
        BY <3>2 DEF GetCall, DeployCall, MethodCall
      <4> QED  BY <2>2, <4>1 DEF Understood
    <3> QED  BY <1>7, <3>1, <3>2
  <2>4. Attempt' = Attempt
    BY <2>1, <2>2, <2>3 DEF Attempt
  <2> QED  BY <2>1, <2>4, RolloutStill
<1>8. CASE FundDeployer \/ HandOver
  <2>1. UNCHANGED <<network, migrations, exported, status, at, pc>>
    BY <1>8 DEF FundDeployer, HandOver, run
  <2>2. Attempt' = Attempt
    BY <2>1, SameScript DEF Attempt
  <2> QED  BY <2>1, <2>2, RolloutStill
<1> QED  BY <1>1, <1>2, <1>3, <1>4, <1>5, <1>6, <1>7, <1>8 DEF Next, RunStep

\* At every moment of every behaviour.
LEMMA InTurnAlways == Spec => [](Shape /\ InTurn)
<1>1. Init => Shape /\ InTurn
  BY ShapeInit, InTurnInit
<1>2. (Shape /\ InTurn) /\ [Next]_vars => (Shape /\ InTurn)'
  BY ShapeStep, InTurnStep
<1> QED  BY <1>1, <1>2, PTL DEF Spec

(* On any networks, whatever their tags, a deployment records the          *)
(* once-only scripts that apply one at a time and in the order of the      *)
(* plan, an attempt that fails or is killed leaves no record, and the      *)
(* exported data is written only when all are recorded.                    *)
THEOREM DeploymentImplementsRollout == Spec => ImplementsRollout
<1>1. Init => R!RolloutInit
  BY RolloutFirst
<1>2. (Shape /\ InTurn) /\ (Shape /\ InTurn)' /\ [Next]_vars => [R!RolloutNext]_(R!rolloutVars)
  BY RolloutStep
<1> QED  BY <1>1, <1>2, InTurnAlways, PTL DEF Spec, ImplementsRollout, R!RolloutSpec

-----------------------------------------------------------------------------
(* What a step does to the contracts.                                      *)

Accounts == {"deployer", "dao", "reserve", "PoolHelper", "ChefIncentivesController", "BountyManager"}

ChainShape(ch) ==
  /\ DOMAIN ch = {"done", "owner", "poolAdmin", "feeAdmin", "rateOwner", "paused", "base",
                  "prnt", "pool", "registered"}
  /\ DOMAIN ch.base = {"deployer", "PoolHelper"}
  /\ DOMAIN ch.prnt = Accounts

\* A call leaves its trace, and what it does else depends on its method.
LEMMA ApplyFacts ==
  ASSUME NEW ch, ChainShape(ch), NEW who, NEW k
  PROVE  LET c == Apply(ch, who, k) IN
         /\ ChainShape(c)
         /\ c.done = ch.done \cup {<<k.c, k.f, k.x>>}
         /\ c.poolAdmin = IF k.f = "setPoolAdmin" THEN k.x ELSE ch.poolAdmin
         /\ c.feeAdmin = IF k.f = "setAdmin" THEN k.x ELSE ch.feeAdmin
         /\ k.f # "registerRewardDeposit" => c.registered = ch.registered
         /\ k.f # "initializePool" => c.pool = ch.pool
         /\ k.f \notin {"transfer", "initializePool"} => c.prnt = ch.prnt
         /\ k.f \notin {"transfer", "initializePool"} => c.base["PoolHelper"] = ch.base["PoolHelper"]
<1> DEFINE d == [ch EXCEPT !.done = @ \cup {<<k.c, k.f, k.x>>}]
           c == Apply(ch, who, k)
<1>1. /\ ChainShape(d) /\ d.done = ch.done \cup {<<k.c, k.f, k.x>>}
      /\ d.poolAdmin = ch.poolAdmin /\ d.feeAdmin = ch.feeAdmin /\ d.registered = ch.registered
      /\ d.pool = ch.pool /\ d.prnt = ch.prnt /\ d.base = ch.base
  BY DEF ChainShape
<1> DEFINE paid == LET n == PrntAmount(ch, k.x) IN
             [d EXCEPT !.prnt = [p \in DOMAIN @ |-> @[p]
              + (IF p = Payee(k.x) THEN n ELSE 0) - (IF p = who THEN n ELSE 0)]]
<1>2. c = CASE k.f = "setPoolAdmin" -> [d EXCEPT !.poolAdmin = k.x]
    [] k.f = "setAdmin"     -> [d EXCEPT !.feeAdmin = k.x]
    [] k.c = "LendingRateOracle" /\ k.f = "transferOwnership" ->
         [d EXCEPT !.rateOwner = k.x]
    [] k.f = "setOracleOwnership" -> [d EXCEPT !.rateOwner = k.x]
    [] k.f = "setPoolPause" -> [d EXCEPT !.paused = (k.x = "true")]
    [] k.c = "PrimeToken" /\ k.f = "transfer" -> paid
    [] k.c = "Base" /\ k.f = "deposit" ->
         [d EXCEPT !.base["deployer"] = AddBase(@)]
    [] k.c = "Base" /\ k.f = "transfer" ->
         [d EXCEPT !.base["deployer"] = @ - LpInitEth, !.base["PoolHelper"] = AddBase(@)]
    [] k.f = "initializePool" ->
         [d EXCEPT !.pool = <<ch.base["PoolHelper"], ch.prnt["PoolHelper"]>>,
                   !.base["PoolHelper"] = 0, !.prnt["PoolHelper"] = 0]
    [] k.f = "registerRewardDeposit" ->
         [d EXCEPT !.registered = @ + (IF k.x = "allReserve" THEN 0 ELSE CicReserve)]
    [] OTHER -> d
  BY DEF Apply
<1> HIDE DEF d, c
<1> USE DEF ChainShape
<1>3. CASE k.f = "setPoolAdmin"
  <2>1. c = [d EXCEPT !.poolAdmin = k.x]
    BY <1>2, <1>3
  <2> QED  BY <1>1, <1>3, <2>1 DEF c
<1>4. CASE k.f = "setAdmin"
  <2>1. c = [d EXCEPT !.feeAdmin = k.x]
    BY <1>2, <1>4
  <2> QED  BY <1>1, <1>4, <2>1 DEF c
<1>5. CASE (k.c = "LendingRateOracle" /\ k.f = "transferOwnership") \/ k.f = "setOracleOwnership"
  <2>1. c = [d EXCEPT !.rateOwner = k.x]
    BY <1>2, <1>5
  <2> QED  BY <1>1, <1>5, <2>1 DEF c
<1>6. CASE k.f = "setPoolPause"
  <2>1. c = [d EXCEPT !.paused = (k.x = "true")]
    BY <1>2, <1>6
  <2> QED  BY <1>1, <1>6, <2>1 DEF c
<1>7. CASE k.f = "transfer"
  <2>1. CASE k.c = "PrimeToken"
    <3>1. c = paid
      BY <1>2, <1>7, <2>1
    <3> QED  BY <1>1, <1>7, <3>1 DEF c
  <2>2. CASE k.c = "Base"
    <3>1. c = [d EXCEPT !.base["deployer"] = @ - LpInitEth, !.base["PoolHelper"] = AddBase(@)]
      BY <1>2, <1>7, <2>2
    <3> QED  BY <1>1, <1>7, <3>1 DEF c
  <2>3. CASE k.c \notin {"PrimeToken", "Base"}
    <3>1. c = d
      BY <1>2, <1>7, <2>3
    <3> QED  BY <1>1, <1>7, <3>1 DEF c
  <2> QED  BY <2>1, <2>2, <2>3
<1>8. CASE k.f = "deposit"
  <2>1. CASE k.c = "Base"
    <3>1. c = [d EXCEPT !.base["deployer"] = AddBase(@)]
      BY <1>2, <1>8, <2>1
    <3> QED  BY <1>1, <1>8, <3>1 DEF c
  <2>2. CASE k.c # "Base"
    <3>1. c = d
      BY <1>2, <1>8, <2>2
    <3> QED  BY <1>1, <1>8, <3>1 DEF c
  <2> QED  BY <2>1, <2>2
<1>9. CASE k.f = "initializePool"
  <2>1. c = [d EXCEPT !.pool = <<ch.base["PoolHelper"], ch.prnt["PoolHelper"]>>,
                      !.base["PoolHelper"] = 0, !.prnt["PoolHelper"] = 0]
    BY <1>2, <1>9
  <2> QED  BY <1>1, <1>9, <2>1 DEF c
<1>10. CASE k.f = "registerRewardDeposit"
  <2>1. c = [d EXCEPT !.registered = @ + (IF k.x = "allReserve" THEN 0 ELSE CicReserve)]
    BY <1>2, <1>10
  <2> QED  BY <1>1, <1>10, <2>1 DEF c
<1>11. CASE /\ k.f \notin {"setPoolAdmin", "setAdmin", "setOracleOwnership", "setPoolPause", "transfer",
                           "deposit", "initializePool", "registerRewardDeposit"}
            /\ ~(k.c = "LendingRateOracle" /\ k.f = "transferOwnership")
  <2>1. c = d
    BY <1>2, <1>11
  <2> QED  BY <1>1, <1>11, <2>1 DEF c
<1> QED  BY <1>3, <1>4, <1>5, <1>6, <1>7, <1>8, <1>9, <1>10, <1>11

\* The fields that only a call changes.
Untouched == /\ ChainShape(chain') /\ chain'.done = chain.done
             /\ chain'.poolAdmin = chain.poolAdmin /\ chain'.feeAdmin = chain.feeAdmin
             /\ chain'.registered = chain.registered /\ chain'.pool = chain.pool
             /\ chain'.base = chain.base

\* A step that is no call leaves the fields below as they are.
LEMMA OnlyCalls ==
  ASSUME ChainShape(chain), Turn \/ Finish \/ Enter \/ Pass \/ Build \/ People
  PROVE  Untouched /\ deployed \subseteq deployed'
<1> USE DEF Untouched, ChainShape
<1>1. CASE Turn \/ Finish \/ Enter \/ Pass
  BY <1>1 DEF Turn, Finish, Enter, Pass
<1>2. CASE Build
  <2>1. chain' = chain \/ chain' = [chain EXCEPT !.prnt[Account("dao")] = @ + MintAmt]
    BY <1>2 DEF Build
  <2>2. deployed \subseteq deployed'
    BY <1>2 DEF Build
  <2> QED  BY <2>1, <2>2
<1>3. CASE People
  <2>1. \/ chain' = [chain EXCEPT !.prnt["dao"] = @ - PrntRequired,
             !.prnt["deployer"] = @ + PrntRequired]
        \/ chain' = [chain EXCEPT !.owner = "multisig"]
    BY <1>3 DEF People, FundDeployer, HandOver
  <2>2. deployed \subseteq deployed'
    BY <1>3 DEF People
  <2> QED  BY <2>1, <2>2
<1> QED  BY <1>1, <1>2, <1>3

\* A call leaves the shape, and adds its trace.
LEMMA CallKeeps ==
  ASSUME ChainShape(chain), Send
  PROVE  /\ ChainShape(chain') /\ deployed' = deployed
         /\ chain'.done = chain.done \cup {<<NextCall.c, NextCall.f, NextCall.x>>}
         /\ chain'.poolAdmin = IF NextCall.f = "setPoolAdmin" THEN NextCall.x ELSE chain.poolAdmin
         /\ chain'.feeAdmin = IF NextCall.f = "setAdmin" THEN NextCall.x ELSE chain.feeAdmin
         /\ NextCall.f # "registerRewardDeposit" => chain'.registered = chain.registered
         /\ NextCall.f # "initializePool" => chain'.pool = chain.pool
         /\ NextCall.f \notin {"transfer", "initializePool"} => chain'.prnt = chain.prnt
         /\ NextCall.f \notin {"transfer", "initializePool"} =>
              chain'.base["PoolHelper"] = chain.base["PoolHelper"]
<1>1. chain' = Apply(chain, Sender(NextCall), NextCall) /\ deployed' = deployed
  BY DEF Send
<1> DEFINE c == Apply(chain, Sender(NextCall), NextCall)  who == Sender(NextCall)  k == NextCall
<1>2. c = Apply(chain, who, k) /\ chain' = c
  BY <1>1
<1> HIDE DEF c, who, k
<1>3. /\ ChainShape(c)
      /\ c.done = chain.done \cup {<<k.c, k.f, k.x>>}
      /\ c.poolAdmin = IF k.f = "setPoolAdmin" THEN k.x ELSE chain.poolAdmin
      /\ c.feeAdmin = IF k.f = "setAdmin" THEN k.x ELSE chain.feeAdmin
      /\ k.f # "registerRewardDeposit" => c.registered = chain.registered
      /\ k.f # "initializePool" => c.pool = chain.pool
      /\ k.f \notin {"transfer", "initializePool"} => c.prnt = chain.prnt
      /\ k.f \notin {"transfer", "initializePool"} => c.base["PoolHelper"] = chain.base["PoolHelper"]
  BY <1>2, ApplyFacts
<1> QED  BY <1>1, <1>2, <1>3 DEF k

\* What the chain and the files know is never forgotten.
LEMMA Grows ==
  ASSUME Shape, ChainShape(chain), [Next]_vars
  PROVE  ChainShape(chain') /\ chain.done \subseteq chain'.done /\ deployed \subseteq deployed'
<1>1. CASE UNCHANGED vars
  BY <1>1 DEF vars
<1>2. CASE Turn \/ Finish \/ Enter \/ Pass \/ Build \/ People
  BY <1>2, OnlyCalls DEF Untouched
<1>3. CASE Send
  BY <1>3, CallKeeps
<1> QED  BY <1>1, <1>2, <1>3, StepKinds

\* The chain has its fields at first.
LEMMA ChainInit == Init => ChainShape(chain)
<1> SUFFICES ASSUME Init PROVE ChainShape(chain)
  OBVIOUS
<1>1. chain = EmptyChain("PrimeToken" \in Site.recorded, Account("dao"))
  BY DEF Init
<1> QED  BY <1>1 DEF ChainShape, EmptyChain, Accounts

-----------------------------------------------------------------------------
(* A recorded script is a finished one.                                    *)

\* The trace by which a guarded script sees that it was run.
Traced(g) ==
  \/ g = "configure_lp" /\ Done(chain, "PoolHelper", "initializePool")
  \/ g = "configure_minters" /\ Done(chain, "MFD", "setMinters")
  \/ g = "configure_markets" /\ chain.feeAdmin # "deployer"
  \/ g = "set_lp_token" /\ Done(chain, "MFD", "setLPToken")

\* The call of script s at position j is one that leaves a trace.
Telling(s, j) == s.calls[j].op = "call" /\ ~QuietCall(s.calls[j])

\* A guarded script that left its trace is recorded, was stopped, or is
\* running and past the call that did.
TraceInv ==
  \A g \in Guarded : Traced(g) =>
    \/ g \in cut \/ g \in migrations
    \/ status = "deploy" /\ pc # 0 /\ Script.id = g /\ \E j \in 1..(pc - 1) : Telling(Script, j)

\* The calls made so far.
MadeInv ==
  status = "deploy" /\ pc # 0 /\ Script.once /\ Script.id \notin Guarded \cap cut =>
    \A j \in 1..(pc - 1) : Made(Script.calls[j])

\* Nothing has left a trace at first.
LEMMA TraceInit == Init => TraceInv
<1> SUFFICES ASSUME Init, NEW g \in Guarded PROVE ~Traced(g)
  BY DEF TraceInv
<1>1. chain = EmptyChain("PrimeToken" \in Site.recorded, Account("dao"))
  BY DEF Init
<1>2. chain.done = {} /\ chain.feeAdmin = "deployer"
  BY <1>1 DEF EmptyChain
<1> QED  BY <1>2 DEF Traced, Done

\* Who leaves a trace.
LEMMA Traces ==
  ASSUME Shape, ChainShape(chain), Send, NEW g \in Guarded, Traced(g)', ~Traced(g)
  PROVE  /\ status = "deploy" /\ Script.id = g /\ Telling(Script, pc)
<1>1. Understood(Script) /\ (status = "job" => Script.once = FALSE)
  BY ScriptFacts DEF Send, Stay, InBody
<1>2. pc \in 1..Len(Script.calls) /\ NextCall = Script.calls[pc] /\ NextCall.op = "call" /\
  status # "idle"
  BY <1>1 DEF Send, Stay, InBody, Understood, NextCall
<1>3. Homely(Script.id, NextCall)
  BY <1>1, <1>2 DEF Understood, AtHome
<1>4. chain'.done = chain.done \cup {<<NextCall.c, NextCall.f, NextCall.x>>}
      /\ chain'.feeAdmin = IF NextCall.f = "setAdmin" THEN NextCall.x ELSE chain.feeAdmin
  BY CallKeeps
<1>5. \A c, f : Done(chain', c, f) => Done(chain, c, f) \/ NextCall.f = f
  <2> SUFFICES ASSUME NEW c, NEW f, Done(chain', c, f), ~Done(chain, c, f) PROVE NextCall.f = f
    OBVIOUS
  <2>1. PICK d \in chain'.done : d[1] = c /\ d[2] = f
    BY DEF Done
  <2>2. d = <<NextCall.c, NextCall.f, NextCall.x>>
    BY <1>4, <2>1 DEF Done
  <2> QED  BY <2>1, <2>2
<1>6. Script.id = g /\ NextCall.f \in Watched
  BY <1>3, <1>4, <1>5 DEF Traced, Homely, Watched
<1>7. Script.once
  BY <1>1, <1>6 DEF Understood, Sound, Special, Guarded
<1> QED  BY <1>1, <1>2, <1>6, <1>7 DEF Telling, QuietCall, Shape

\* Positions passed stay passed.
LEMMA Passed ==
  ASSUME NEW a \in Nat, NEW b \in Nat, a >= 1, b >= a + 1
  PROVE  a \in 1..(b - 1) /\ b # 0 /\ \A j \in 1..(a - 1) : j \in 1..(b - 1)
  OBVIOUS

\* What the steps that make no call leave.
LEMMA TraceStep ==
  ASSUME Shape, ChainShape(chain), TraceInv, [Next]_vars
  PROVE  TraceInv'
<1> SUFFICES ASSUME NEW g \in Guarded, Traced(g)'
             PROVE  \/ g \in cut' \/ g \in migrations'
                    \/ status' = "deploy" /\ pc' # 0 /\ Script'.id = g
                       /\ \E j \in 1..(pc' - 1) : Telling(Script', j)
  BY DEF TraceInv, Telling
<1> DEFINE Past == status = "deploy" /\ pc # 0 /\ Script.id = g /\
                     \E j \in 1..(pc - 1) : Telling(Script, j)
<1>1. CASE UNCHANGED vars
  <2>1. Traced(g)
    BY <1>1 DEF vars, Traced
  <2>2. Script' = Script
    BY <1>1, SameScript DEF vars
  <2> QED  BY <1>1, <2>1, <2>2 DEF TraceInv, vars
<1>2. Untouched => Traced(g)
  BY DEF Untouched, Traced, Done
<1>3. CASE Turn
  <2>1. Traced(g)
    BY <1>2, <1>3, OnlyCalls
  <2>2. Past => Script.id \in cut'
    <3> SUFFICES ASSUME Past PROVE Script.id \in cut'
      OBVIOUS
    <3>1. pc \in Nat /\ pc > 1
      BY DEF Shape
    <3> QED  BY <1>3, <3>1 DEF Turn
  <2> QED  BY <1>3, <2>1, <2>2 DEF TraceInv, Turn
<1>4. CASE Finish
  <2>1. Traced(g)
    BY <1>2, <1>4, OnlyCalls
  <2>2. Past => Script.once
    BY <1>4, ScriptFacts DEF Finish, Understood, Sound, Special, Guarded
  <2> QED  BY <1>4, <2>1, <2>2 DEF TraceInv, Finish
<1>5. CASE Enter
  <2>1. Traced(g)
    BY <1>2, <1>5, OnlyCalls
  <2> QED  BY <1>5, <2>1 DEF TraceInv, Enter
<1>6. CASE People
  <2>1. Traced(g)
    BY <1>2, <1>6, OnlyCalls
  <2>2. Script' = Script
    BY <1>6, SameScript DEF People
  <2> QED  BY <1>6, <2>1, <2>2 DEF TraceInv, People
<1>7. CASE Pass \/ Build \/ Send
  <2>1. Stay /\ Script' = Script /\ status' = status /\ cut' = cut /\ migrations' = migrations
    BY <1>7, SameScript DEF Pass, Build, Send, Stay
  <2>2. Understood(Script) /\ pc \in 1..Len(Script.calls) /\ NextCall = Script.calls[pc]
    BY <2>1, ScriptFacts DEF Stay, InBody, Understood, NextCall
  <2>0. pc \in Nat /\ pc >= 1
    <3>1. Len(Script.calls) \in Nat
      BY <2>2 DEF Understood
    <3> QED  BY <2>2, <3>1
  <2>3. pc' \in Nat /\ pc' >= pc + 1
    <3>1. NextCall.op = "when" => NextCall.n \in Nat
      BY <2>2 DEF Understood, AtHome
    <3> QED  BY <1>7, <2>0, <3>1 DEF Pass, Build, Send
  <2>4. Traced(g) \/ (status = "deploy" /\ Script.id = g /\ Telling(Script, pc))
    BY <1>2, <1>7, OnlyCalls, Traces
  <2>5. CASE Traced(g)
    <3>1. CASE Past
      <4>1. PICK j \in 1..(pc - 1) : Telling(Script, j)
        BY <3>1
      <4>2. j \in 1..(pc' - 1) /\ pc' # 0
        BY <2>0, <2>3, Passed
      <4> QED  BY <2>1, <3>1, <4>1, <4>2
    <3> QED  BY <2>1, <2>5, <3>1 DEF TraceInv
  <2>6. CASE status = "deploy" /\ Script.id = g /\ Telling(Script, pc)
    <3>1. pc \in 1..(pc' - 1) /\ pc' # 0
      BY <2>0, <2>3, Passed
    <3> QED  BY <2>1, <2>6, <3>1
  <2> QED  BY <2>4, <2>5, <2>6
<1> QED  BY <1>1, <1>3, <1>4, <1>5, <1>6, <1>7, StepKinds

\* What was made, by the files and the traces of a moment.
MadeIn(k, dep, done) ==
  CASE k.op = "get"    -> TRUE
    [] k.op = "when"   -> TRUE
    [] k.op = "deploy" -> k.c \in dep
    [] k.op = "call"   -> k.c = "Base" \/ <<k.c, k.f, k.x>> \in done

\* A call is made when the chain, or the list of deployments, shows it.
LEMMA MadeIs ==
  ASSUME NEW k
  PROVE  Made(k) <=> MadeIn(k, deployed, chain.done)
  BY DEF Made, MadeIn

\* What was made stays made.
LEMMA MadeStays ==
  ASSUME NEW k, NEW id, AtHome(id, k), NEW dep, NEW done, NEW dep2, NEW done2,
         MadeIn(k, dep, done), done \subseteq done2, dep \subseteq dep2
  PROVE  MadeIn(k, dep2, done2)
<1>0. k.op \in {"get", "when", "deploy", "call"}
  BY DEF AtHome
<1>1. CASE k.op = "get" \/ k.op = "when"
  BY <1>1 DEF MadeIn
<1>2. CASE k.op = "deploy"
  BY <1>2 DEF MadeIn
<1>3. CASE k.op = "call"
  BY <1>3 DEF MadeIn
<1> QED  BY <1>0, <1>1, <1>2, <1>3

\* The call a run makes is then made.
LEMMA MadeNow ==
  ASSUME Shape, ChainShape(chain), Pass \/ Build \/ Send
  PROVE  MadeIn(NextCall, deployed', chain'.done)
<1>1. CASE Pass
  BY <1>1 DEF Pass, MadeIn
<1>2. CASE Build
  BY <1>2 DEF Build, MadeIn
<1>3. CASE Send
  <2>1. chain'.done = chain.done \cup {<<NextCall.c, NextCall.f, NextCall.x>>}
    BY <1>3, CallKeeps
  <2> QED  BY <1>3, <2>1 DEF Send, MadeIn
<1> QED  BY <1>1, <1>2, <1>3

\* The test behind which a guarded script keeps its calls.
TestOf(g) ==
  CASE g = "configure_lp"      -> "poolNotInitialized"
    [] g = "configure_minters" -> "mintersUnset"
    [] g = "configure_markets" -> "adminIsDeployer"
    [] g = "set_lp_token"      -> "noStakingToken"

\* Without a trace of the block, its test is true and the block is entered.
LEMMA TestIs ==
  ASSUME NEW k, NEW g \in Guarded, k.test = TestOf(g), ~Traced(g)
  PROVE  Test(k)
<1>1. CASE g = "configure_lp"
  <2>1. k.test = "poolNotInitialized"
    BY <1>1 DEF TestOf
  <2> QED  BY <1>1, <2>1 DEF Test, Traced
<1>2. CASE g = "configure_minters"
  <2>1. k.test = "mintersUnset"
    BY <1>2 DEF TestOf
  <2> QED  BY <1>2, <2>1 DEF Test, Traced
<1>3. CASE g = "configure_markets"
  <2>1. k.test = "adminIsDeployer"
    BY <1>3 DEF TestOf
  <2> QED  BY <1>3, <2>1 DEF Test, Traced
<1>4. CASE g = "set_lp_token"
  <2>1. k.test = "noStakingToken"
    BY <1>4 DEF TestOf
  <2> QED  BY <1>4, <2>1 DEF Test, Traced
<1> QED  BY <1>1, <1>2, <1>3, <1>4 DEF Guarded

\* A guarded script keeps its calls behind its test, and is run once.
LEMMA GuardedGuards ==
  ASSUME NEW s, Sound(s), s.id \in Guarded
  PROVE  s.once /\ Guards(s.calls, TestOf(s.id))
<1>1. CASE s.id = "configure_lp"
  BY <1>1 DEF Sound, Special, TestOf
<1>2. CASE s.id = "configure_minters"
  BY <1>2 DEF Sound, Special, TestOf
<1>3. CASE s.id = "configure_markets"
  BY <1>3 DEF Sound, Special, TestOf
<1>4. CASE s.id = "set_lp_token"
  BY <1>4 DEF Sound, Special, TestOf
<1> QED  BY <1>1, <1>2, <1>3, <1>4 DEF Guarded

\* A once-only script that was not stopped passes no call that matters by.
LEMMA NothingSkipped ==
  ASSUME Shape, InTurn, TraceInv, Pass, NextCall.op = "when", status = "deploy",
         Script.once, Script.id \notin Guarded \cap cut
  PROVE  pc' = pc + 1 \/ (pc' = pc + 2 /\ pc + 1 \in 1..Len(Script.calls) /\
           MadeIn(Script.calls[pc + 1], deployed', chain'.done))
<1> DEFINE q == Script.calls  g == Script.id
<1>1. Understood(Script) /\ pc \in 1..Len(q) /\ NextCall = q[pc] /\ status # "idle"
  BY ScriptFacts DEF Pass, Stay, InBody, Understood, NextCall
<1>2. g \in Conditional /\ NextCall.n \in Nat
  BY <1>1 DEF Understood, AtHome
<1>3. g \in Guarded
  BY <1>1, <1>2 DEF Understood, Sound, Special
<1>4. g \notin cut /\ g \notin migrations
  <2>1. pc # 0
    BY <1>1 DEF Understood
  <2> QED  BY <1>1, <1>3, <2>1 DEF InTurn, Skipped
<1>5. Len(q) \in Nat /\ pc \in Nat
  BY <1>1 DEF Understood
<1>6. Guards(q, TestOf(g))
  BY <1>1, <1>3, GuardedGuards DEF Understood
<1> HIDE DEF q
<1>7. PICK m \in 1..Len(q) :
        /\ q[m].op = "when" /\ q[m].test = TestOf(g) /\ m + q[m].n = Len(q)
        /\ \A j \in 1..(m - 1) : QuietCall(q[j])
        /\ \A j \in (m + 1)..Len(q) : q[j].op = "when" =>
             q[j].n = 1 /\ j + 1 <= Len(q) /\ q[j + 1].op = "call" /\ q[j + 1].c = "Base"
  BY <1>6 DEF Guards
<1>8. CASE pc < m
  <2>1. pc \in 1..(m - 1)
    BY <1>1, <1>5, <1>8
  <2>2. QuietCall(q[pc])
    BY <1>7, <2>1
  <2> QED  BY <1>1, <2>2 DEF QuietCall
<1>9. CASE pc = m
  <2>1. \A j \in 1..(pc - 1) : ~Telling(Script, j)
    BY <1>7, <1>9 DEF Telling, q
  <2>2. ~Traced(g)
    BY <1>3, <1>4, <2>1 DEF TraceInv
  <2>3. Test(NextCall)
    BY <1>1, <1>3, <1>7, <1>9, <2>2, TestIs
  <2> QED  BY <2>3 DEF Pass
<1>10. CASE pc > m
  <2>1. pc \in (m + 1)..Len(q)
    BY <1>1, <1>5, <1>10
  <2>2. NextCall.n = 1 /\ pc + 1 <= Len(q) /\ q[pc + 1].op = "call" /\ q[pc + 1].c = "Base"
    BY <1>1, <1>7, <2>1
  <2>3. MadeIn(q[pc + 1], deployed', chain'.done)
    BY <2>2 DEF MadeIn
  <2>4. pc' = pc + 1 \/ pc' = pc + 1 + 1
    BY <2>2 DEF Pass
  <2> QED  BY <1>5, <2>2, <2>3, <2>4 DEF q
<1> QED  BY <1>1, <1>5, <1>8, <1>9, <1>10

\* Every step keeps MadeInv.
LEMMA MadeStep ==
  ASSUME Shape, ChainShape(chain), InTurn, TraceInv, MadeInv, [Next]_vars
  PROVE  MadeInv'
<1> SUFFICES ASSUME status' = "deploy", pc' # 0, Script'.once, Script'.id \notin Guarded \cap cut'
             PROVE  \A j \in 1..(pc' - 1) : MadeIn(Script'.calls[j], deployed', chain'.done)
  BY DEF MadeInv, Made, MadeIn
<1>1. chain.done \subseteq chain'.done /\ deployed \subseteq deployed'
  BY Grows
<1>2. CASE UNCHANGED vars
  <2>1. Script' = Script
    BY <1>2, SameScript DEF vars
  <2> QED  BY <1>2, <2>1 DEF vars, MadeInv, Made, MadeIn
<1>3. CASE Turn \/ Finish
  BY <1>3 DEF Turn, Finish
<1>4. CASE Enter
  BY <1>4 DEF Enter
<1>5. CASE People
  <2>1. Script' = Script /\ UNCHANGED <<status, pc, cut>>
    BY <1>5, SameScript DEF People
  <2>2. status # "idle" /\ Understood(Script)
    BY <2>1, ScriptFacts
  <2>3. \A j \in 1..(pc - 1) : MadeIn(Script.calls[j], deployed, chain.done)
    BY <2>1, MadeIs DEF MadeInv
  <2>4. pc \in 0..(Len(Script.calls) + 1) /\ Len(Script.calls) \in Nat
    BY <2>2 DEF Shape, Understood
  <2>5. \A j \in 1..(pc - 1) : j \in 1..Len(Script.calls)
    BY <2>4
  <2>6. \A j \in 1..Len(Script.calls) : AtHome(Script.id, Script.calls[j])
    BY <2>2 DEF Understood
  <2>7. \A j \in 1..(pc - 1) : MadeIn(Script.calls[j], deployed', chain'.done)
    BY <1>1, <2>3, <2>5, <2>6, MadeStays
  <2> QED  BY <2>1, <2>7
<1>6. CASE Pass \/ Build \/ Send
  <2>1. Stay /\ Script' = Script /\ status' = status /\ cut' = cut
    BY <1>6, SameScript DEF Pass, Build, Send, Stay
  <2>2. Understood(Script) /\ pc \in 1..Len(Script.calls) /\ NextCall = Script.calls[pc] /\
    status = "deploy"
    BY <2>1, ScriptFacts DEF Stay, InBody, Understood, NextCall
  <2>3. Len(Script.calls) \in Nat
    BY <2>2 DEF Understood
  <2>4. pc \in Nat /\ pc # 0
    BY <2>2, <2>3
  <2>5. \A j \in 1..(pc - 1) : MadeIn(Script.calls[j], deployed, chain.done)
    BY <2>1, <2>2, <2>4, MadeIs DEF MadeInv
  <2>6. \A j \in 1..(pc - 1) : j \in 1..Len(Script.calls)
    BY <2>2, <2>3
  <2>7. \A j \in 1..Len(Script.calls) : AtHome(Script.id, Script.calls[j])
    BY <2>2 DEF Understood
  <2>8. \A j \in 1..(pc - 1) : MadeIn(Script.calls[j], deployed', chain'.done)
    BY <1>1, <2>5, <2>6, <2>7, MadeStays
  <2>9. MadeIn(Script.calls[pc], deployed', chain'.done)
    BY <1>6, <2>2, MadeNow
  <2>10. pc' = pc + 1 \/ (pc' = pc + 2 /\ MadeIn(Script.calls[pc + 1], deployed', chain'.done))
    <3>1. CASE Pass /\ NextCall.op = "when"
      BY <2>1, <2>2, <3>1, NothingSkipped
    <3>2. CASE ~(Pass /\ NextCall.op = "when")
      BY <1>6, <3>2 DEF Pass, Build, Send
    <3> QED  BY <3>1, <3>2
  <2>11. ASSUME NEW j \in 1..(pc' - 1) PROVE MadeIn(Script.calls[j], deployed', chain'.done)
    <3>1. CASE pc' = pc + 1
      <4>1. j \in 1..(pc - 1) \/ j = pc
        BY <2>4, <3>1
      <4> QED  BY <2>8, <2>9, <4>1
    <3>2. CASE pc' = pc + 2 /\ MadeIn(Script.calls[pc + 1], deployed', chain'.done)
      <4>1. j \in 1..(pc - 1) \/ j = pc \/ j = pc + 1
        BY <2>4, <3>2
      <4> QED  BY <2>8, <2>9, <3>2, <4>1
    <3> QED  BY <2>10, <3>1, <3>2
  <2> QED  BY <2>1, <2>11
<1> QED  BY <1>2, <1>3, <1>4, <1>5, <1>6, StepKinds

\* The network is fixed.
LEMMA SameNetwork ==
  ASSUME [Next]_vars
  PROVE  network' = network
  BY DEF Next, RunDeploy, RunJob, RunStep, SkipScript, EnterScript, GetCall, WhenCall, DeployCall,
         MethodCall, FinishScript, Fail, Crash, FundDeployer, HandOver, vars

\* Every step keeps RecordedIsComplete: a script is recorded past its last call.
LEMMA CompleteStep ==
  ASSUME Shape, ChainShape(chain), MadeInv, RecordedIsComplete, [Next]_vars
  PROVE  RecordedIsComplete'
<1>1. network' = network /\ PlanOk(Plan[network])
  BY SameNetwork, PlanFacts DEF Shape
<1>2. chain.done \subseteq chain'.done /\ deployed \subseteq deployed'
  BY Grows
<1> DEFINE p == Plan[network]
<1>3. DOMAIN p = 1..Len(p) /\ \A i \in 1..Len(p) : Understood(p[i])
  BY <1>1, SoundCalls DEF PlanOk
<1>4. ASSUME NEW i \in 1..Len(p), p[i].id \in migrations', p[i].id \notin Guarded \cap cut',
             NEW j \in 1..Len(p[i].calls)
      PROVE  MadeIn(p[i].calls[j], deployed', chain'.done)
  <2> DEFINE s == p[i]
  <2>1. Understood(s)
    BY <1>3
  <2>2. AtHome(s.id, s.calls[j]) /\ j \in DOMAIN s.calls
    BY <2>1 DEF Understood
  <2>3. MadeIn(s.calls[j], deployed, chain.done) => MadeIn(s.calls[j], deployed', chain'.done)
    BY <1>2, <2>2, MadeStays
  <2>4. cut \subseteq cut'
    BY StepKinds DEF Turn, Finish, Enter, Pass, Build, Send, Stay, People, vars
  <2>5. CASE s.id \in migrations
    <3>1. i \in DOMAIN Plan[network] /\ s.id \notin Guarded \cap cut
      BY <1>3, <1>4, <2>4
    <3>2. Made(s.calls[j])
      BY <2>2, <2>5, <3>1 DEF RecordedIsComplete
    <3> QED  BY <2>3, <3>2, MadeIs
  <2>6. CASE s.id \notin migrations
    <3>1. Finish /\ Script.once /\ s.id = Script.id
      BY <1>4, <2>6, StepKinds DEF Turn, Finish, Enter, Pass, Build, Send, Stay, People, vars
    <3>2. status = "deploy" /\ Understood(Script)
      BY <3>1, ScriptFacts DEF Finish, Shape
    <3>3. Script = p[at] /\ at \in 1..Len(p)
      BY <1>3, <3>2 DEF Script, Shape
    <3>4. i = at /\ s = Script
      BY <1>1, <3>1, <3>3 DEF PlanOk
    <3>5. pc = Len(Script.calls) + 1 /\ Len(Script.calls) \in Nat /\ cut' = cut
      BY <3>1, <3>2 DEF Finish, Understood
    <3>6. pc # 0 /\ j \in 1..(pc - 1)
      BY <3>4, <3>5
    <3>7. Made(s.calls[j])
      BY <1>4, <3>1, <3>2, <3>4, <3>5, <3>6 DEF MadeInv
    <3> QED  BY <2>3, <3>7, MadeIs
  <2> QED  BY <2>5, <2>6
<1>5. \A i \in 1..Len(p) : DOMAIN p[i].calls = 1..Len(p[i].calls)
  BY <1>3 DEF Understood
<1> HIDE DEF p
<1>6. \A i \in DOMAIN p : p[i].id \in migrations' /\ p[i].id \notin Guarded \cap cut' =>
        \A j \in DOMAIN p[i].calls : MadeIn(p[i].calls[j], deployed', chain'.done)
  BY <1>3, <1>4, <1>5
<1> QED  BY <1>1, <1>6 DEF RecordedIsComplete, Made, MadeIn, p

\* What has been shown to be kept, together.
Kept == /\ Shape /\ InTurn /\ ChainShape(chain)
        /\ TraceInv /\ MadeInv /\ RecordedIsComplete

\* Kept holds throughout.
LEMMA KeptAlways == Spec => []Kept
<1>1. Init => Kept
  <2>1. Init => MadeInv /\ RecordedIsComplete
    BY DEF Init, MadeInv, RecordedIsComplete
  <2> QED  BY <2>1, ShapeInit, InTurnInit, ChainInit, TraceInit DEF Kept
<1>2. Kept /\ [Next]_vars => Kept'
  <2> SUFFICES ASSUME Kept, [Next]_vars PROVE Kept'
    OBVIOUS
  <2>1. Shape' /\ InTurn'
    BY ShapeStep, InTurnStep DEF Kept
  <2>2. ChainShape(chain')
    BY Grows DEF Kept
  <2>3. TraceInv' /\ MadeInv' /\ RecordedIsComplete'
    BY TraceStep, MadeStep, CompleteStep DEF Kept
  <2>4. ChainShape(chain)'
    BY <2>2
  <2> QED  BY <2>1, <2>3, <2>4 DEF Kept
<1> QED  BY <1>1, <1>2, PTL DEF Spec

(* However many runs a deployment takes, and wherever they fail or are     *)
(* killed, a script that is recorded has deployed every contract and made  *)
(* every call of its body, unless it guards its calls by a test on the     *)
(* chain and was itself stopped part-way.                                  *)
THEOREM RecordedScriptsAreComplete == Spec => []RecordedIsComplete
<1>1. Kept => RecordedIsComplete
  BY DEF Kept
<1> QED  BY <1>1, KeptAlways, PTL

-----------------------------------------------------------------------------
(* The pool is opened with its reserves configured, and its administration *)
(* comes back to the deployer.                                             *)

\* The trace of opening the pool.
Unpaused == <<"LendingPoolConfigurator", "setPoolPause", "false">>

\* A call that is being made, in its script.
LEMMA Sending ==
  ASSUME Shape, InTurn, Send
  PROVE  /\ Understood(Script) /\ pc \in 1..Len(Script.calls) /\ pc \in Nat /\ Len(Script.calls) \in Nat
         /\ NextCall = Script.calls[pc] /\ Homely(Script.id, NextCall)
         /\ status # "idle" /\ ~Skipped /\ (Script.once => status = "deploy")
<1>1. status # "idle" /\ pc \in DOMAIN Script.calls /\ NextCall.op = "call"
  BY DEF Send, Stay, InBody
<1>2. Understood(Script) /\ (status = "job" => Script.once = FALSE)
  BY <1>1, ScriptFacts
<1>3. pc \in 1..Len(Script.calls) /\ Len(Script.calls) \in Nat /\ NextCall = Script.calls[pc]
  BY <1>1, <1>2 DEF Understood, NextCall
<1>4. AtHome(Script.id, NextCall)
  BY <1>2, <1>3 DEF Understood
<1>5. pc \in Nat /\ pc # 0
  BY <1>3
<1> QED  BY <1>1, <1>2, <1>3, <1>4, <1>5 DEF AtHome, InTurn, Shape

\* The pool is opened after configure_markets is recorded.
OpenedInv ==
  Unpaused \in chain.done =>
    \E i \in 1..Len(Plan[network]) :
      Plan[network][i].id = "configure_markets" /\ "configure_markets" \in migrations

\* The market is paused at first.
LEMMA OpenedInit == Init => OpenedInv
<1> SUFFICES ASSUME Init PROVE Unpaused \notin chain.done
  BY DEF OpenedInv
<1>1. chain = EmptyChain("PrimeToken" \in Site.recorded, Account("dao"))
  BY DEF Init
<1> QED  BY <1>1 DEF EmptyChain

\* Records are kept.
LEMMA RecordsStay ==
  ASSUME Shape, [Next]_vars
  PROVE  migrations \subseteq migrations' /\ cut \subseteq cut'
  BY StepKinds DEF Turn, Finish, Enter, Pass, Build, Send, Stay, People, vars

\* Every step keeps OpenedInv.
LEMMA OpenedStep ==
  ASSUME Kept, OpenedInv, [Next]_vars
  PROVE  OpenedInv'
<1>1. network' = network /\ migrations \subseteq migrations'
  BY SameNetwork, RecordsStay DEF Kept
<1>2. CASE Unpaused \in chain.done
  BY <1>1, <1>2 DEF OpenedInv
<1>3. CASE Unpaused \notin chain.done /\ Unpaused \in chain'.done
  <2>1. Send
    <3>1. CASE UNCHANGED vars
      BY <1>3, <3>1 DEF vars
    <3>2. CASE Turn \/ Finish \/ Enter \/ Pass \/ Build \/ People
      BY <1>3, <3>2, OnlyCalls DEF Kept, Untouched
    <3> QED  BY <3>1, <3>2, StepKinds DEF Kept
  <2>2. chain'.done = chain.done \cup {<<NextCall.c, NextCall.f, NextCall.x>>}
    BY <2>1, CallKeeps DEF Kept
  <2>3. Unpaused = <<NextCall.c, NextCall.f, NextCall.x>>
    BY <1>3, <2>2
  <2>4. NextCall.f = "setPoolPause" /\ NextCall.x = "false"
    BY <2>3 DEF Unpaused
  <2>5. /\ Understood(Script) /\ Homely(Script.id, NextCall)
        /\ status # "idle" /\ ~Skipped /\ (Script.once => status = "deploy")
    BY <2>1, Sending DEF Kept
  <2>6. Script.id = "disable_market_pause"
    BY <2>4, <2>5 DEF Homely
  <2>7. Script.once /\ Script.req = {"lending"}
    BY <2>5, <2>6 DEF Understood, Sound, Special
  <2>8. status = "deploy" /\ "lending" \in Site.tags
    BY <2>5, <2>7 DEF Skipped
  <2>9. Script = Plan[network][at] /\ at \in 1..Len(Plan[network]) /\ PlanOk(Plan[network])
    BY <2>8, PlanFacts DEF Script, Shape, Kept
  <2>10. PICK j \in 1..(at - 1) : Plan[network][j].id = "configure_markets"
    BY <2>6, <2>9 DEF PlanOk
  <2>11. j \in 1..Len(Plan[network])
    BY <2>9 DEF PlanOk
  <2>12. Sound(Plan[network][j])
    BY <2>9, <2>11 DEF PlanOk
  <2>13. Applies(Plan[network][j])
    BY <2>8, <2>10, <2>12 DEF Sound, Special, Applies
  <2>14. "configure_markets" \in migrations
    BY <2>8, <2>10, <2>13 DEF Kept, InTurn
  <2> QED  BY <1>1, <2>10, <2>11, <2>14 DEF OpenedInv
<1> QED  BY <1>2, <1>3 DEF OpenedInv

\* The helper is the pool's admin between the call that lends the role and
\* the second one after it, or because a script was stopped there.
LentInv ==
  chain.poolAdmin = "ATokensAndRatesHelper" =>
    \/ cut \cap LendsAdmin # {}
    \/ /\ status # "idle"
       /\ \E j \in 1..Len(Script.calls) : Lends(Script.calls[j]) /\ pc \in {j + 1, j + 2}

\* Nobody is pool admin at first.
LEMMA LentInit == Init => LentInv
<1> SUFFICES ASSUME Init PROVE chain.poolAdmin = "none"
  BY DEF LentInv
<1>1. chain = EmptyChain("PrimeToken" \in Site.recorded, Account("dao"))
  BY DEF Init
<1> QED  BY <1>1 DEF EmptyChain

\* Every step keeps LentInv.
LEMMA LentStep ==
  ASSUME Kept, LentInv, [Next]_vars
  PROVE  LentInv'
<1> SUFFICES ASSUME chain'.poolAdmin = "ATokensAndRatesHelper", cut' \cap LendsAdmin = {}
             PROVE  /\ status' # "idle"
                    /\ \E j \in 1..Len(Script'.calls) : Lends(Script'.calls[j]) /\ pc' \in {j + 1,
                         j + 2}
  BY DEF LentInv, Lends
<1> USE DEF Kept
<1>1. cut \cap LendsAdmin = {}
  BY RecordsStay
<1> DEFINE Lent(j) == Lends(Script.calls[j]) /\ pc \in {j + 1, j + 2}
<1>2. CASE UNCHANGED vars
  <2>1. Script' = Script
    BY <1>2, SameScript DEF vars
  <2> QED  BY <1>1, <1>2, <2>1 DEF LentInv, vars
<1>3. CASE Turn \/ Finish \/ Enter \/ Pass \/ Build \/ People
  <2>1. chain.poolAdmin = "ATokensAndRatesHelper"
    BY <1>3, OnlyCalls DEF Untouched
  <2>2. status # "idle"
    BY <1>1, <2>1 DEF LentInv
  <2>3. PICK j \in 1..Len(Script.calls) : Lent(j)
    BY <1>1, <2>1 DEF LentInv
  <2>4. Understood(Script)
    BY <2>2, ScriptFacts
  <2>5. j \in Nat /\ j >= 1 /\ Len(Script.calls) \in Nat
    BY <2>4 DEF Understood
  <2>6. /\ j + 2 <= Len(Script.calls)
        /\ Script.calls[j + 1].op = "call" /\ Script.calls[j + 2].op = "call"
    BY <2>3, <2>4 DEF Understood, Returns
  <2>7. Script.id \in LendsAdmin
    <3>1. Homely(Script.id, Script.calls[j]) /\ Script.calls[j].f = "setPoolAdmin"
          /\ Script.calls[j].x = "ATokensAndRatesHelper"
      BY <2>3, <2>4 DEF Understood, AtHome, Lends
    <3> QED  BY <3>1 DEF Homely
  <2>8. pc > 1 /\ pc # 0 /\ pc # Len(Script.calls) + 1
    BY <2>3, <2>5, <2>6
  <2>9. CASE Turn
    BY <1>1, <2>2, <2>7, <2>8, <2>9 DEF Turn
  <2>10. CASE Finish \/ Enter
    BY <2>8, <2>10 DEF Finish, Enter
  <2>11. CASE Pass \/ Build
    BY <2>3, <2>6, <2>11 DEF Pass, Build, NextCall
  <2>12. CASE People
    <3>1. Script' = Script /\ status' = status /\ pc' = pc
      BY <2>12, SameScript DEF People
    <3> QED  BY <2>2, <2>3, <3>1
  <2> QED  BY <1>3, <2>9, <2>10, <2>11, <2>12
<1>4. CASE Send
  <2>1. /\ Understood(Script) /\ pc \in 1..Len(Script.calls) /\ pc \in Nat
        /\ NextCall = Script.calls[pc] /\ status # "idle"
    BY <1>4, Sending
  <2>2. chain'.poolAdmin = IF NextCall.f = "setPoolAdmin" THEN NextCall.x ELSE chain.poolAdmin
    BY <1>4, CallKeeps
  <2>3. Script' = Script /\ status' = status /\ pc' = pc + 1 /\ NextCall.op = "call"
    BY <1>4, SameScript DEF Send, Stay
  <2>4. CASE NextCall.f = "setPoolAdmin"
    <3>1. Lends(Script.calls[pc])
      BY <2>1, <2>2, <2>3, <2>4 DEF Lends
    <3> QED  BY <2>1, <2>3, <3>1
  <2>5. CASE NextCall.f # "setPoolAdmin"
    <3>1. chain.poolAdmin = "ATokensAndRatesHelper"
      BY <2>2, <2>5
    <3>2. PICK j \in 1..Len(Script.calls) : Lent(j)
      BY <1>1, <3>1 DEF LentInv
    <3>3. Script.calls[j + 2].f = "setPoolAdmin"
      BY <2>1, <3>2 DEF Understood, Returns
    <3>4. pc = j + 1
      BY <2>1, <2>5, <3>2, <3>3
    <3>5. pc' = j + 2
      BY <2>1, <2>3, <3>4 DEF Understood
    <3> QED  BY <2>1, <2>3, <3>2, <3>5
  <2> QED  BY <2>4, <2>5
<1> QED  BY <1>2, <1>3, <1>4, StepKinds

\* The two invariants, and what was to be shown.
LEMMA ConfiguredOf ==
  ASSUME Kept, OpenedInv, LentInv
  PROVE  MarketsConfigured
<1>1. ASSUME "configure_markets" \notin cut, Unpaused \in chain.done
      PROVE  <<"ATokensAndRatesHelper", "configureReserves", "core">> \in chain.done
  <2> DEFINE k == ExecArg("ATokensAndRatesHelper", "configureReserves", "core")
  <2>1. PICK i \in 1..Len(Plan[network]) :
          Plan[network][i].id = "configure_markets" /\ "configure_markets" \in migrations
    BY <1>1 DEF OpenedInv
  <2>2. PlanOk(Plan[network])
    BY PlanFacts DEF Kept, Shape
  <2>3. i \in DOMAIN Plan[network] /\ Understood(Plan[network][i])
    BY <2>2, SoundCalls DEF PlanOk
  <2>4. k \in ToSet(Plan[network][i].calls)
    BY <2>1, <2>3 DEF Understood, Sound, Special
  <2>5. PICK j \in DOMAIN Plan[network][i].calls : Plan[network][i].calls[j] = k
    BY <2>4 DEF ToSet
  <2>6. Made(k)
    BY <1>1, <2>1, <2>3, <2>5 DEF Kept, RecordedIsComplete
  <2> QED  BY <2>6 DEF Made, ExecArg, Call
<1>2. ASSUME status = "idle", cut \cap LendsAdmin = {}
      PROVE  chain.poolAdmin # "ATokensAndRatesHelper"
  BY <1>2 DEF LentInv
<1> QED  BY <1>1, <1>2 DEF MarketsConfigured, Unpaused

(* On every network, through failures, killed runs and maintenance: the    *)
(* pool is not opened to its users before the reserves are configured,     *)
(* and between runs the helper that configures them is not the pool's      *)
(* admin, unless a script that lends it the role was stopped.              *)
THEOREM PoolOpensConfigured == Spec => []MarketsConfigured
<1>1. Init => OpenedInv /\ LentInv
  BY OpenedInit, LentInit
<1>2. Kept /\ (OpenedInv /\ LentInv) /\ [Next]_vars => (OpenedInv /\ LentInv)'
  BY OpenedStep, LentStep
<1>3. Kept /\ (OpenedInv /\ LentInv) => MarketsConfigured
  BY ConfiguredOf
<1> QED  BY <1>1, <1>2, <1>3, KeptAlways, PTL DEF Spec

-----------------------------------------------------------------------------
(* What the calls move.                                                    *)

\* The sum of the balances.
Total(prnt) == prnt["deployer"] + prnt["dao"] + prnt["reserve"] + prnt["PoolHelper"]
               + prnt["ChefIncentivesController"] + prnt["BountyManager"]

Balances(prnt) == /\ \A p \in Accounts : prnt[p] \in Nat
                  /\ Total(prnt) <= MintAmt /\ prnt["reserve"] = 0

\* Who pays whom.
Payment(who, x) ==
  \/ who = "deployer" /\ x \in {"PoolHelper", "ChefIncentivesController", "BountyManager"}
  \/ who \in {"deployer", "dao"} /\ x = "deployer"
  \/ who \in {"deployer", "reserve"} /\ x = "allReserve"

\* What a transfer moves.
LEMMA TransferMoves ==
  ASSUME NEW ch, ChainShape(ch), Balances(ch.prnt), NEW who, NEW k, Payment(who, k.x),
         k.c = "PrimeToken", k.f = "transfer", ~(ch.prnt[who] < PrntAmount(ch, k.x))
  PROVE  LET after2 == Apply(ch, who, k).prnt IN
         /\ Balances(after2) /\ Total(after2) = Total(ch.prnt)
         /\ after2["PoolHelper"] = IF k.x = "PoolHelper" THEN ch.prnt["PoolHelper"] + LpInitPrnt
                                   ELSE ch.prnt["PoolHelper"]
         /\ after2["ChefIncentivesController"] =
              IF k.x = "ChefIncentivesController" THEN ch.prnt["ChefIncentivesController"] + CicReserve
              ELSE ch.prnt["ChefIncentivesController"]
         /\ after2["BountyManager"] = IF k.x = "BountyManager" THEN ch.prnt["BountyManager"] + DqReserve
                                      ELSE ch.prnt["BountyManager"]
<1> DEFINE d == [ch EXCEPT !.done = @ \cup {<<k.c, k.f, k.x>>}]  n == PrntAmount(ch,
                  k.x)  old == ch.prnt
           new == [p \in Accounts |-> old[p] + (IF p = Payee(k.x) THEN n ELSE 0) - (IF p = who THEN n ELSE 0)]
<1>1. Apply(ch, who, k).prnt = new
  <2>1. d.prnt = ch.prnt /\ DOMAIN d.prnt = Accounts /\ "prnt" \in DOMAIN d
    BY DEF ChainShape
  <2>2. Apply(ch, who, k) = [d EXCEPT !.prnt = [p \in DOMAIN @ |-> @[p]
              + (IF p = Payee(k.x) THEN n ELSE 0) - (IF p = who THEN n ELSE 0)]]
    BY DEF Apply
  <2> HIDE DEF d, n
  <2> QED  BY <2>1, <2>2
<1>2. \A p \in Accounts : old[p] \in Nat
  BY DEF Balances
<1>3. n = CASE k.x = "PoolHelper"               -> LpInitPrnt
    [] k.x = "ChefIncentivesController" -> CicReserve
    [] k.x = "BountyManager"            -> DqReserve
    [] k.x = "deployer"                 -> PrntRequired
    [] k.x = "allReserve"               -> 0
  BY DEF PrntAmount, Balances
<1>4. n \in Nat /\ old[who] >= n /\ who \in Accounts
  <2>1. n \in Nat
    BY <1>3 DEF Payment, LpInitPrnt, CicReserve, DqReserve, PrntRequired, MigrationMint
  <2>2. who \in Accounts
    BY DEF Payment, Accounts
  <2> QED  BY <1>2, <2>1, <2>2
<1>5. \A p \in Accounts : new[p] = old[p] + (IF p = Payee(k.x) THEN n ELSE 0) - (IF p = who THEN n ELSE 0)
  OBVIOUS
<1>6. Total(old) <= MintAmt /\ old["reserve"] = 0
  BY DEF Balances
<1>7. \A p \in Accounts : p \in {"deployer", "dao", "reserve", "PoolHelper", "ChefIncentivesController",
  "BountyManager"}
  BY DEF Accounts
<1> HIDE DEF old, n, new
<1> USE DEF Accounts
<1>8. CASE k.x = "allReserve"
  <2>1. n = 0
    BY <1>3, <1>8
  <2>2. \A p \in Accounts : new[p] = old[p]
    BY <1>2, <1>5, <2>1
  <2> QED  BY <1>1, <1>2, <1>6, <1>8, <2>2 DEF Balances, Total, old
<1>9. CASE k.x = "deployer"
  <2>1. /\ new["PoolHelper"] = old["PoolHelper"] /\ new["BountyManager"] = old["BountyManager"]
        /\ new["ChefIncentivesController"] = old["ChefIncentivesController"] /\
             new["reserve"] = old["reserve"]
    BY <1>2, <1>4, <1>5, <1>9 DEF Payment, Payee
  <2>2. \/ new["dao"] = old["dao"] - n /\ new["deployer"] = old["deployer"] + n /\ old["dao"] >= n
        \/ new["dao"] = old["dao"] /\ new["deployer"] = old["deployer"]
    BY <1>2, <1>4, <1>5, <1>9 DEF Payment, Payee
  <2> QED  BY <1>1, <1>2, <1>4, <1>6, <1>9, <2>1, <2>2 DEF Balances, Total, old
<1>10. CASE k.x \in {"PoolHelper", "ChefIncentivesController", "BountyManager"}
  <2>1. who = "deployer"
    BY <1>10 DEF Payment
  <2>2. /\ new["deployer"] = old["deployer"] - n /\ new["dao"] = old["dao"] /\
             new["reserve"] = old["reserve"]
        /\ old["deployer"] >= n
    BY <1>2, <1>4, <1>5, <1>10, <2>1 DEF Payee
  <2>3. \A p \in {"PoolHelper", "ChefIncentivesController", "BountyManager"} :
          new[p] = IF p = k.x THEN old[p] + n ELSE old[p]
    BY <1>2, <1>4, <1>5, <1>10, <2>1 DEF Payee
  <2>4. CASE k.x = "PoolHelper"
    <3>1. n = LpInitPrnt
      BY <1>3, <2>4
    <3> QED  BY <1>1, <1>2, <1>4, <1>6, <2>2, <2>3, <2>4, <3>1 DEF Balances, Total, old
  <2>5. CASE k.x = "ChefIncentivesController"
    <3>1. n = CicReserve
      BY <1>3, <2>5
    <3> QED  BY <1>1, <1>2, <1>4, <1>6, <2>2, <2>3, <2>5, <3>1 DEF Balances, Total, old
  <2>6. CASE k.x = "BountyManager"
    <3>1. n = DqReserve
      BY <1>3, <2>6
    <3> QED  BY <1>1, <1>2, <1>4, <1>6, <2>2, <2>3, <2>6, <3>1 DEF Balances, Total, old
  <2> QED  BY <1>10, <2>4, <2>5, <2>6
<1> QED  BY <1>8, <1>9, <1>10 DEF Payment

\* What opening the pool moves.
LEMMA PoolMoves ==
  ASSUME NEW ch, ChainShape(ch), NEW who, NEW k, NEW c, c = Apply(ch, who, k), k.f = "initializePool"
  PROVE  /\ c.prnt = [ch.prnt EXCEPT !["PoolHelper"] = 0] /\ c.base["PoolHelper"] = 0
         /\ c.pool = <<ch.base["PoolHelper"], ch.prnt["PoolHelper"]>>
<1> DEFINE d == [ch EXCEPT !.done = @ \cup {<<k.c, k.f, k.x>>}]
           e1 == [d EXCEPT !.pool = <<ch.base["PoolHelper"], ch.prnt["PoolHelper"]>>]
           e2 == [e1 EXCEPT !.base["PoolHelper"] = 0]
           e3 == [e2 EXCEPT !.prnt["PoolHelper"] = 0]
<1> USE DEF ChainShape
<1>1. c = e3
  BY DEF Apply
<1>2. ChainShape(d) /\ d.prnt = ch.prnt /\ d.base = ch.base
  OBVIOUS
<1> HIDE DEF d
<1>3. /\ ChainShape(e1) /\ e1.prnt = ch.prnt /\ e1.base = ch.base
      /\ e1.pool = <<ch.base["PoolHelper"], ch.prnt["PoolHelper"]>>
  BY <1>2
<1> HIDE DEF e1
<1>4. ChainShape(e2) /\ e2.prnt = ch.prnt /\ e2.base["PoolHelper"] = 0 /\ e2.pool = e1.pool
  BY <1>3
<1> HIDE DEF e2
<1>5. e3.prnt = [ch.prnt EXCEPT !["PoolHelper"] = 0] /\ e3.base["PoolHelper"] = 0 /\ e3.pool = e1.pool
  BY <1>4
<1> QED  BY <1>1, <1>3, <1>5

\* What the other calls move.
LEMMA OtherMoves ==
  ASSUME NEW ch, ChainShape(ch), NEW who, NEW k, NEW c, c = Apply(ch, who, k)
  PROVE  /\ k.f # "initializePool" /\ ~(k.c = "PrimeToken" /\ k.f = "transfer") => c.prnt = ch.prnt
         /\ k.f # "initializePool" /\ ~(k.c = "Base" /\ k.f = "transfer") =>
              c.base["PoolHelper"] = ch.base["PoolHelper"]
         /\ k.c = "Base" /\ k.f = "transfer" => c.base["PoolHelper"] = AddBase(ch.base["PoolHelper"])
         /\ k.f = "registerRewardDeposit" =>
              c.registered = ch.registered + (IF k.x = "allReserve" THEN 0 ELSE CicReserve)
<1> DEFINE d == [ch EXCEPT !.done = @ \cup {<<k.c, k.f, k.x>>}]
<1>1. /\ ChainShape(d) /\ d.registered = ch.registered
      /\ d.pool = ch.pool /\ d.prnt = ch.prnt /\ d.base = ch.base
  BY DEF ChainShape
<1>2. k.f = "transfer" /\ k.c \notin {"PrimeToken", "Base"} => c = d
  BY DEF Apply
<1>3. k.f = "transfer" /\ k.c = "Base" =>
        c = [d EXCEPT !.base["deployer"] = @ - LpInitEth, !.base["PoolHelper"] = AddBase(@)]
  BY DEF Apply
<1>5. k.f = "registerRewardDeposit" =>
        c = [d EXCEPT !.registered = @ + (IF k.x = "allReserve" THEN 0 ELSE CicReserve)]
  BY DEF Apply
<1>6. k.f = "transfer" /\ k.c = "PrimeToken" =>
        c = [d EXCEPT !.prnt = [p \in DOMAIN @ |-> @[p]
              + (IF p = Payee(k.x) THEN PrntAmount(ch, k.x) ELSE 0) - (IF p = who THEN PrntAmount(ch,
                k.x) ELSE 0)]]
  BY DEF Apply
<1>7. k.f \notin {"transfer", "initializePool"} => c.prnt = ch.prnt /\
  c.base["PoolHelper"] = ch.base["PoolHelper"]
  BY ApplyFacts
<1> HIDE DEF d
<1> USE DEF ChainShape
<1>8. CASE k.f = "transfer"
  <2>1. CASE k.c = "PrimeToken"
    BY <1>1, <1>6, <1>8, <2>1
  <2>2. CASE k.c = "Base"
    <3> DEFINE e1 == [d EXCEPT !.base["deployer"] = @ - LpInitEth]
               e2 == [e1 EXCEPT !.base["PoolHelper"] = AddBase(d.base["PoolHelper"])]
    <3>1. c = e2
      BY <1>3, <1>8, <2>2
    <3>2. ChainShape(e1) /\ e1.prnt = ch.prnt /\ e1.base["PoolHelper"] = ch.base["PoolHelper"]
      BY <1>1
    <3> HIDE DEF e1
    <3>3. e2.prnt = ch.prnt /\ e2.base["PoolHelper"] = AddBase(ch.base["PoolHelper"])
      BY <1>1, <3>2
    <3> HIDE DEF e2
    <3>4. c.prnt = ch.prnt /\ c.base["PoolHelper"] = AddBase(ch.base["PoolHelper"])
      BY <3>1, <3>3
    <3> QED  BY <1>8, <2>2, <3>4
  <2>3. CASE k.c \notin {"PrimeToken", "Base"}
    BY <1>1, <1>2, <1>8, <2>3
  <2> QED  BY <2>1, <2>2, <2>3
<1>9. CASE k.f = "initializePool"
  BY <1>9
<1>10. CASE k.f = "registerRewardDeposit"
  BY <1>1, <1>5, <1>7, <1>10
<1>11. CASE k.f \notin {"transfer", "initializePool", "registerRewardDeposit"}
  BY <1>7, <1>11
<1> QED  BY <1>8, <1>9, <1>10, <1>11

-----------------------------------------------------------------------------
(* The balances.                                                           *)

\* A script that pays from the shared options pays as the deployer.
PayerInv == status # "idle" /\ pc # 0 /\ Script.id \in Payers => from = "deployer"

\* Balances are natural numbers, and no more than was minted.
MoneyInv == /\ Balances(chain.prnt)
            /\ "PrimeToken" \notin deployed => \A p \in Accounts : chain.prnt[p] = 0

\* The named accounts.
LEMMA AccountIs ==
  /\ Account("dao") \in {"dao", "deployer"} /\ Account("reserve") \in {"reserve", "deployer"}
  BY DEF Account

\* The DAO alone holds PRNT at first, where a token is recorded.
LEMMA MoneyInit == Init => PayerInv /\ MoneyInv
<1> SUFFICES ASSUME Init PROVE MoneyInv
  BY DEF Init, PayerInv
<1>1. chain = EmptyChain("PrimeToken" \in deployed, Account("dao"))
  BY DEF Init
<1>2. \A p \in Accounts : chain.prnt[p] = IF "PrimeToken" \in deployed /\
  p = Account("dao") THEN MintAmt ELSE 0
  BY <1>1 DEF EmptyChain, Accounts
<1>3. MintAmt \in Nat
  BY DEF MintAmt, PrntRequired, LpInitPrnt, CicReserve, DqReserve, MigrationMint
<1> HIDE DEF MintAmt
<1>4. CASE "PrimeToken" \in deployed /\ Account("dao") = "dao"
  BY <1>2, <1>3, <1>4 DEF MoneyInv, Balances, Total, Accounts
<1>5. CASE "PrimeToken" \in deployed /\ Account("dao") = "deployer"
  BY <1>2, <1>3, <1>5 DEF MoneyInv, Balances, Total, Accounts
<1>6. CASE "PrimeToken" \notin deployed
  BY <1>2, <1>3, <1>6 DEF MoneyInv, Balances, Total, Accounts
<1> QED  BY <1>4, <1>5, <1>6, AccountIs

\* Every step keeps the sender of the payments.
LEMMA PayerStep ==
  ASSUME Kept, PayerInv, [Next]_vars
  PROVE  PayerInv'
<1> SUFFICES ASSUME status' # "idle", pc' # 0, Script'.id \in Payers
             PROVE  from' = "deployer"
  BY DEF PayerInv
<1> USE DEF Kept
<1>1. CASE UNCHANGED vars
  <2>1. Script' = Script
    BY <1>1, SameScript DEF vars
  <2> QED  BY <1>1, <2>1 DEF PayerInv, vars
<1>2. CASE Turn \/ Finish \/ Enter
  BY <1>2 DEF Turn, Finish, Enter
<1>3. CASE People
  <2>1. Script' = Script /\ UNCHANGED <<status, pc, from>>
    BY <1>3, SameScript DEF People
  <2> QED  BY <2>1 DEF PayerInv
<1>4. CASE Pass \/ Build \/ Send
  <2>1. Stay /\ Script' = Script
    BY <1>4, SameScript DEF Pass, Build, Send, Stay
  <2>2. status # "idle" /\ Understood(Script) /\ pc \in 1..Len(Script.calls) /\ NextCall = Script.calls[pc]
    BY <2>1, ScriptFacts DEF Stay, InBody, Understood, NextCall
  <2>3. pc # 0
    BY <2>2 DEF Understood
  <2>4. from = "deployer"
    BY <2>1, <2>2, <2>3 DEF PayerInv
  <2>5. CASE Pass \/ Build
    BY <2>4, <2>5 DEF Pass, Build
  <2>6. CASE Send
    <3>1. NextCall.by \in {"opts", "signer"}
      BY <2>1, <2>6, Sending DEF Homely
    <3> QED  BY <2>4, <2>6, <3>1 DEF Send
  <2> QED  BY <1>4, <2>5, <2>6
<1> QED  BY <1>1, <1>2, <1>3, <1>4, StepKinds

\* Who sends a transfer of PRNT, and to whom.
LEMMA WhoPays ==
  ASSUME Kept, PayerInv, Send, NextCall.c = "PrimeToken", NextCall.f = "transfer"
  PROVE  /\ Pays(Script.id, NextCall) /\ Payment(Sender(NextCall), NextCall.x)
         /\ ~(chain.prnt[Sender(NextCall)] < PrntAmount(chain, NextCall.x))
<1>1. /\ Homely(Script.id, NextCall) /\ status # "idle" /\ pc \in Nat /\ pc # 0
      /\ ~Reverts(chain, Sender(NextCall), NextCall)
  <2>1. /\ Homely(Script.id, NextCall) /\ status # "idle" /\ pc \in 1..Len(Script.calls) /\ pc \in Nat
    BY Sending DEF Kept
  <2>2. Len(Script.calls) \in Nat
    BY Sending DEF Kept
  <2> QED  BY <2>1, <2>2 DEF Send
<1>2. Pays(Script.id, NextCall)
  BY <1>1 DEF Homely
<1>3. Script.id \in Payers => from = "deployer"
  BY <1>1 DEF PayerInv
<1>4. CASE NextCall.by = "opts" /\ Script.id \in Payers
  <2>1. Sender(NextCall) = "deployer"
    BY <1>3, <1>4 DEF Sender
  <2>2. NextCall.x \in {"PoolHelper", "ChefIncentivesController", "BountyManager"}
    BY <1>2, <1>4 DEF Pays, Payers
  <2> QED  BY <1>1, <1>2, <2>1, <2>2 DEF Payment, Reverts
<1>5. CASE NextCall.by = "dao" /\ NextCall.x = "deployer"
  <2>1. Sender(NextCall) = Account("dao")
    BY <1>5 DEF Sender
  <2>2. Sender(NextCall) \in {"deployer", "dao"}
    BY <2>1, AccountIs
  <2> QED  BY <1>1, <1>2, <1>5, <2>2 DEF Payment, Reverts
<1>6. CASE NextCall.by = "reserve" /\ NextCall.x = "allReserve"
  <2>1. Sender(NextCall) = Account("reserve")
    BY <1>6 DEF Sender
  <2>2. Sender(NextCall) \in {"deployer", "reserve"}
    BY <2>1, AccountIs
  <2> QED  BY <1>1, <1>2, <1>6, <2>2 DEF Payment, Reverts
<1> QED  BY <1>2, <1>4, <1>5, <1>6 DEF Pays, Payers

\* A call that moves no PRNT.
LEMMA PrntStays ==
  ASSUME NEW ch, ChainShape(ch), NEW who, NEW k, NEW c, c = Apply(ch, who, k),
         k.f # "initializePool", ~(k.c = "PrimeToken" /\ k.f = "transfer")
  PROVE  c.prnt = ch.prnt
<1>1. /\ k.f # "initializePool" /\ ~(k.c = "PrimeToken" /\ k.f = "transfer") => c.prnt = ch.prnt
      /\ k.f # "initializePool" /\ ~(k.c = "Base" /\ k.f = "transfer") =>
           c.base["PoolHelper"] = ch.base["PoolHelper"]
      /\ k.c = "Base" /\ k.f = "transfer" => c.base["PoolHelper"] = AddBase(ch.base["PoolHelper"])
      /\ k.f = "registerRewardDeposit" =>
           c.registered = ch.registered + (IF k.x = "allReserve" THEN 0 ELSE CicReserve)
  BY OtherMoves
<1> QED  BY <1>1

\* Nothing is the sum of nothing else.
LEMMA NoneOfNothing ==
  ASSUME NEW a \in Nat, NEW b \in Nat, NEW c \in Nat, NEW d \in Nat, NEW e \in Nat, NEW f \in Nat,
         a + b + c + d + e + f = 0
  PROVE  a = 0 /\ b = 0 /\ c = 0 /\ d = 0 /\ e = 0 /\ f = 0
  OBVIOUS

\* Balances that add up to nothing are nothing.
LEMMA SumOfNone ==
  ASSUME NEW prnt, \A p \in Accounts : prnt[p] \in Nat, Total(prnt) = 0
  PROVE  \A p \in Accounts : prnt[p] = 0
<1>1. prnt["deployer"] \in Nat /\ prnt["dao"] \in Nat /\ prnt["reserve"] \in Nat
      /\ prnt["PoolHelper"] \in Nat /\ prnt["ChefIncentivesController"] \in Nat
      /\ prnt["BountyManager"] \in Nat
  BY DEF Accounts
<1> DEFINE a == prnt["deployer"]  b == prnt["dao"]  c == prnt["reserve"]  d == prnt["PoolHelper"]
           e == prnt["ChefIncentivesController"]  f == prnt["BountyManager"]
<1>2. a + b + c + d + e + f = 0
  BY DEF Total
<1> HIDE DEF a, b, c, d, e, f
<1>3. a \in Nat /\ b \in Nat /\ c \in Nat /\ d \in Nat /\ e \in Nat /\ f \in Nat
  BY <1>1 DEF a, b, c, d, e, f
<1>4. a = 0 /\ b = 0 /\ c = 0 /\ d = 0 /\ e = 0 /\ f = 0
  BY <1>2, <1>3, NoneOfNothing
<1> QED  BY <1>4 DEF Accounts, a, b, c, d, e, f

\* Every step keeps the sum of the balances.
LEMMA MoneyStep ==
  ASSUME Kept, PayerInv, MoneyInv, [Next]_vars
  PROVE  MoneyInv'
<1> USE DEF Kept
<1>0. \A p \in Accounts : chain.prnt[p] \in Nat
  BY DEF MoneyInv, Balances
<1>1. deployed \subseteq deployed'
  BY Grows
<1>2. CASE chain'.prnt = chain.prnt
  BY <1>1, <1>2 DEF MoneyInv
<1>3. CASE UNCHANGED vars \/ Turn \/ Finish \/ Enter \/ Pass
  <2>1. chain' = chain
    BY <1>3 DEF vars, Turn, Finish, Enter, Pass
  <2> QED  BY <1>2, <2>1
<1>4. CASE Build
  <2>1. CASE NextCall.c = "PrimeToken" /\ NextCall.c \notin deployed
    <3>1. chain' = [chain EXCEPT !.prnt[Account("dao")] = @ + MintAmt] /\ "PrimeToken" \in deployed'
      BY <1>4, <2>1 DEF Build
    <3>2. \A p \in Accounts : chain.prnt[p] = 0
      BY <2>1 DEF MoneyInv
    <3>3. MintAmt \in Nat
      BY DEF MintAmt, PrntRequired, LpInitPrnt, CicReserve, DqReserve, MigrationMint
    <3> HIDE DEF MintAmt
    <3>4. \A p \in Accounts : chain'.prnt[p] = IF p = Account("dao") THEN MintAmt ELSE 0
      <4> DEFINE a == Account("dao")
      <4>1. a \in Accounts
        BY AccountIs DEF Accounts
      <4> HIDE DEF a
      <4>2. chain' = [chain EXCEPT !.prnt[a] = @ + MintAmt]
        BY <3>1 DEF a
      <4>3. \A p \in Accounts : chain'.prnt[p] = IF p = a THEN chain.prnt[a] + MintAmt ELSE chain.prnt[p]
        BY <4>1, <4>2 DEF ChainShape
      <4>4. chain.prnt[a] = 0 /\ 0 + MintAmt = MintAmt
        BY <3>2, <3>3, <4>1
      <4> QED  BY <3>2, <4>3, <4>4 DEF a
    <3>5. CASE Account("dao") = "dao"
      BY <3>1, <3>3, <3>4, <3>5 DEF MoneyInv, Balances, Total, Accounts
    <3>6. CASE Account("dao") = "deployer"
      BY <3>1, <3>3, <3>4, <3>6 DEF MoneyInv, Balances, Total, Accounts
    <3> QED  BY <3>5, <3>6, AccountIs
  <2>2. CASE ~(NextCall.c = "PrimeToken" /\ NextCall.c \notin deployed)
    <3>1. chain' = chain
      BY <1>4, <2>2 DEF Build
    <3> QED  BY <1>2, <3>1
  <2> QED  BY <2>1, <2>2
<1>5. CASE People
  <2>1. CASE FundDeployer
    <3>1. /\ chain' = [chain EXCEPT !.prnt["dao"] = @ - PrntRequired,
               !.prnt["deployer"] = @ + PrntRequired]
          /\ chain.prnt["dao"] >= PrntRequired /\ deployed' = deployed
      BY <2>1 DEF FundDeployer
    <3>2. PrntRequired \in Nat /\ PrntRequired # 0
      BY DEF PrntRequired, LpInitPrnt, CicReserve, DqReserve, MigrationMint
    <3>3. MintAmt \in Nat
      BY DEF MintAmt, PrntRequired, LpInitPrnt, CicReserve, DqReserve, MigrationMint
    <3> HIDE DEF PrntRequired, MintAmt
    <3>4. /\ chain'.prnt["dao"] = chain.prnt["dao"] - PrntRequired
          /\ chain'.prnt["deployer"] = chain.prnt["deployer"] + PrntRequired
          /\ \A p \in Accounts \ {"dao", "deployer"} : chain'.prnt[p] = chain.prnt[p]
      BY <3>1 DEF ChainShape, Accounts
    <3>5. "PrimeToken" \in deployed'
      <4>1. chain.prnt["dao"] # 0
        BY <3>1, <3>2
      <4> QED  BY <3>1, <4>1 DEF MoneyInv, Accounts
    <3> QED  BY <1>0, <3>1, <3>2, <3>3, <3>4, <3>5 DEF MoneyInv, Balances, Total, Accounts
  <2>2. CASE HandOver
    <3>1. chain'.prnt = chain.prnt
      BY <2>2 DEF HandOver, ChainShape
    <3> QED  BY <1>2, <3>1
  <2> QED  BY <1>5, <2>1, <2>2 DEF People
<1>6. CASE Send
  <2> DEFINE c == Apply(chain, Sender(NextCall), NextCall)
  <2>1. chain' = c /\ deployed' = deployed
    BY <1>6 DEF Send
  <2>2. CASE NextCall.c = "PrimeToken" /\ NextCall.f = "transfer"
    <3>1. Balances(c.prnt) /\ Total(c.prnt) = Total(chain.prnt)
      <4>1. Payment(Sender(NextCall), NextCall.x) /\ ~(chain.prnt[Sender(NextCall)] < PrntAmount(chain,
        NextCall.x))
        BY <1>6, <2>2, WhoPays
      <4> QED  BY <2>2, <4>1, TransferMoves DEF MoneyInv
    <3>2. ASSUME "PrimeToken" \notin deployed PROVE \A p \in Accounts : c.prnt[p] = 0
      <4>1. Total(chain.prnt) = 0
        BY <3>2 DEF MoneyInv, Total, Accounts
      <4> HIDE DEF c
      <4>2. \A p \in Accounts : c.prnt[p] \in Nat
        BY <3>1 DEF Balances
      <4>3. Total(c.prnt) = 0
        BY <3>1, <4>1
      <4> QED  BY <4>2, <4>3, SumOfNone
    <3> QED  BY <2>1, <3>1, <3>2 DEF MoneyInv
  <2>3. CASE NextCall.f = "initializePool"
    <3>1. c.prnt = [chain.prnt EXCEPT !["PoolHelper"] = 0]
      BY <2>3, PoolMoves
    <3> HIDE DEF c
    <3>2. c.prnt["PoolHelper"] = 0 /\ \A p \in Accounts \ {"PoolHelper"} : c.prnt[p] = chain.prnt[p]
      BY <3>1 DEF ChainShape, Accounts
    <3>3. MintAmt \in Nat
      BY DEF MintAmt, PrntRequired, LpInitPrnt, CicReserve, DqReserve, MigrationMint
    <3> HIDE DEF MintAmt
    <3>4. Balances(c.prnt)
      BY <1>0, <3>2, <3>3 DEF MoneyInv, Balances, Total, Accounts
    <3>5. "PrimeToken" \notin deployed => \A p \in Accounts : c.prnt[p] = 0
      BY <3>2 DEF MoneyInv
    <3> QED  BY <2>1, <3>4, <3>5 DEF MoneyInv
  <2>4. CASE NextCall.f # "initializePool" /\ ~(NextCall.c = "PrimeToken" /\ NextCall.f = "transfer")
    <3> DEFINE k == NextCall  who == Sender(NextCall)
    <3>0. ChainShape(chain) /\ c = Apply(chain, who, k)
          /\ k.f # "initializePool" /\ ~(k.c = "PrimeToken" /\ k.f = "transfer")
      BY <2>4
    <3> HIDE DEF k, who, c
    <3>1. c.prnt = chain.prnt
      BY <3>0, PrntStays
    <3> QED  BY <1>2, <2>1, <3>0, <3>1 DEF c, k, who
  <2> QED  BY <2>2, <2>3, <2>4
<1> QED  BY <1>3, <1>4, <1>5, <1>6, StepKinds

\* The other types.
TypeInv == /\ migrations \subseteq PlanIds /\ crashes \in 0..MaxCrashes
           /\ chain.poolAdmin \in {"none", "deployer", "ATokensAndRatesHelper"}

\* The types of the first state.
LEMMA TypeInit == Init => TypeInv
<1> SUFFICES ASSUME Init PROVE TypeInv
  OBVIOUS
<1>1. chain = EmptyChain("PrimeToken" \in Site.recorded, Account("dao")) /\ migrations = {} /\
  crashes = 0
  BY DEF Init
<1>2. crashes \in 0..MaxCrashes
  BY <1>1, BoundsAssumption
<1> QED  BY <1>1, <1>2 DEF TypeInv, EmptyChain

\* Every step keeps the types.
LEMMA TypeStep ==
  ASSUME Kept, TypeInv, [Next]_vars
  PROVE  TypeInv'
<1> USE DEF Kept
<1>1. crashes' \in 0..MaxCrashes
  <2>1. crashes' = crashes \/ (crashes' = crashes + 1 /\ crashes < MaxCrashes)
    BY DEF Next, RunDeploy, RunJob, RunStep, SkipScript, EnterScript, GetCall, WhenCall, DeployCall,
           MethodCall, FinishScript, Fail, Crash, FundDeployer, HandOver, vars
  <2> QED  BY <2>1, BoundsAssumption DEF TypeInv
<1>2. PlanIds' = PlanIds
  BY SameNetwork DEF PlanIds
<1>3. migrations' \subseteq PlanIds
  <2>1. CASE Finish
    <3>1. Script.once => status = "deploy"
      BY <2>1, ScriptFacts DEF Finish, Shape
    <3>2. status = "deploy" => Script.id \in PlanIds
      <4>1. PlanOk(Plan[network])
        BY PlanFacts DEF Shape
      <4> QED  BY <4>1 DEF Script, Shape, PlanIds, PlanOk
    <3> QED  BY <2>1, <3>1, <3>2 DEF Finish, TypeInv
  <2>2. CASE ~Finish
    <3>1. migrations' = migrations
      BY <2>2, StepKinds DEF Turn, Enter, Pass, Build, Send, Stay, People, vars
    <3> QED  BY <3>1 DEF TypeInv
  <2> QED  BY <2>1, <2>2
<1>4. chain'.poolAdmin \in {"none", "deployer", "ATokensAndRatesHelper"}
  <2>1. CASE UNCHANGED vars
    BY <2>1 DEF vars, TypeInv
  <2>2. CASE Turn \/ Finish \/ Enter \/ Pass \/ Build \/ People
    BY <2>2, OnlyCalls DEF Untouched, TypeInv
  <2>3. CASE Send
    <3>1. chain'.poolAdmin = IF NextCall.f = "setPoolAdmin" THEN NextCall.x ELSE chain.poolAdmin
      BY <2>3, CallKeeps
    <3>2. Homely(Script.id, NextCall)
      BY <2>3, Sending
    <3> QED  BY <3>1, <3>2 DEF Homely, TypeInv
  <2> QED  BY <2>1, <2>2, <2>3, StepKinds
<1> QED  BY <1>1, <1>2, <1>3, <1>4 DEF TypeInv

\* What the three invariants say of the types.
LEMMA TypeOf ==
  ASSUME Kept, MoneyInv, TypeInv
  PROVE  TypeOK
<1>1. PlanOk(Plan[network])
  BY PlanFacts DEF Kept, Shape
<1>2. \A p \in Accounts : chain.prnt[p] \in 0..MintAmt
  <2>1. \A p \in Accounts : chain.prnt[p] \in Nat
    BY DEF MoneyInv, Balances
  <2>2. MintAmt \in Nat
    BY DEF MintAmt, PrntRequired, LpInitPrnt, CicReserve, DqReserve, MigrationMint
  <2> HIDE DEF MintAmt
  <2>3. /\ chain.prnt["deployer"] <= MintAmt /\ chain.prnt["dao"] <= MintAmt
        /\ chain.prnt["reserve"] <= MintAmt /\ chain.prnt["PoolHelper"] <= MintAmt
        /\ chain.prnt["ChefIncentivesController"] <= MintAmt /\ chain.prnt["BountyManager"] <= MintAmt
    BY <2>1, <2>2 DEF MoneyInv, Balances, Total, Accounts
  <2>4. \A p \in Accounts : chain.prnt[p] <= MintAmt
    BY <2>3 DEF Accounts
  <2> QED  BY <2>1, <2>2, <2>4
<1> QED  BY <1>1, <1>2 DEF TypeOK, TypeInv, Kept, Shape, ChainShape, PlanOk

\* The money, its payers and the types.
Funds == PayerInv /\ MoneyInv /\ TypeInv

\* Funds holds throughout.
LEMMA FundsAlways == Spec => [](Kept /\ Funds)
<1>1. Init => Funds
  BY MoneyInit, TypeInit DEF Funds
<1>2. Kept /\ Funds /\ [Next]_vars => Funds'
  BY PayerStep, MoneyStep, TypeStep DEF Funds
<1> QED  BY <1>1, <1>2, KeptAlways, PTL DEF Spec

(* The variables keep their types on every network: the run points at a    *)
(* script and a call of it, only scripts of the plan are recorded, and no  *)
(* account's balance is negative or more than was minted.                  *)
THEOREM DeploymentTypes == Spec => []TypeOK
<1>1. Kept /\ Funds => TypeOK
  BY TypeOf DEF Funds
<1> QED  BY <1>1, FundsAlways, PTL

-----------------------------------------------------------------------------
(* What each step does to the accounts that are paid.                      *)

\* The accounts stay as they are.
Quiet == /\ chain'.done = chain.done /\ chain'.registered = chain.registered /\ chain'.pool = chain.pool
         /\ chain'.base["PoolHelper"] = chain.base["PoolHelper"]
         /\ chain'.prnt["PoolHelper"] = chain.prnt["PoolHelper"]
         /\ chain'.prnt["ChefIncentivesController"] = chain.prnt["ChefIncentivesController"]
         /\ chain'.prnt["BountyManager"] = chain.prnt["BountyManager"]

\* A step that is no call pays nobody.
LEMMA OthersArePaidByCalls ==
  ASSUME Kept, UNCHANGED vars \/ Turn \/ Finish \/ Enter \/ Pass \/ Build \/ People
  PROVE  Quiet
<1> USE DEF Kept
<1>1. CASE UNCHANGED vars \/ Turn \/ Finish \/ Enter \/ Pass
  <2>1. chain' = chain
    BY <1>1 DEF vars, Turn, Finish, Enter, Pass
  <2> QED  BY <2>1 DEF Quiet
<1>2. CASE Build \/ People
  <2>1. Untouched
    BY <1>2, OnlyCalls
  <2>2. \A p \in {"PoolHelper", "ChefIncentivesController",
    "BountyManager"} : chain'.prnt[p] = chain.prnt[p]
    <3> DEFINE a == Account("dao")
    <3>1. a \in {"dao", "deployer"}
      BY AccountIs
    <3>2. \/ chain' = chain \/ chain' = [chain EXCEPT !.prnt[a] = @ + MintAmt]
          \/ chain' = [chain EXCEPT !.prnt["dao"] = @ - PrntRequired,
               !.prnt["deployer"] = @ + PrntRequired]
          \/ chain' = [chain EXCEPT !.owner = "multisig"]
      BY <1>2 DEF Build, People, FundDeployer, HandOver
    <3> HIDE DEF a
    <3>3. CASE chain' = chain
      BY <3>3
    <3>4. CASE chain' = [chain EXCEPT !.prnt[a] = @ + MintAmt]
      BY <3>1, <3>4 DEF ChainShape, Accounts
    <3>5. CASE chain' = [chain EXCEPT !.prnt["dao"] = @ - PrntRequired,
                 !.prnt["deployer"] = @ + PrntRequired]
      BY <3>5 DEF ChainShape, Accounts
    <3>6. CASE chain' = [chain EXCEPT !.owner = "multisig"]
      BY <3>6 DEF ChainShape
    <3> QED  BY <3>2, <3>3, <3>4, <3>5, <3>6
  <2> QED  BY <2>1, <2>2 DEF Quiet, Untouched
<1> QED  BY <1>1, <1>2

\* The call pays p in PRNT.
Paying(p) == NextCall.c = "PrimeToken" /\ NextCall.f = "transfer" /\ NextCall.x = p

\* What a call pays, and what it leaves on the chain.
LEMMA CallPays ==
  ASSUME Kept, Funds, Send
  PROVE  /\ chain'.done = chain.done \cup {<<NextCall.c, NextCall.f, NextCall.x>>}
         /\ chain'.prnt["ChefIncentivesController"] =
              IF Paying("ChefIncentivesController") THEN chain.prnt["ChefIncentivesController"] + CicReserve
              ELSE chain.prnt["ChefIncentivesController"]
         /\ chain'.prnt["BountyManager"] =
              IF Paying("BountyManager") THEN chain.prnt["BountyManager"] + DqReserve
              ELSE chain.prnt["BountyManager"]
         /\ NextCall.f # "initializePool" =>
              chain'.prnt["PoolHelper"] = (IF Paying("PoolHelper") THEN chain.prnt["PoolHelper"] + LpInitPrnt
                                           ELSE chain.prnt["PoolHelper"])
         /\ NextCall.f # "initializePool" =>
              chain'.base["PoolHelper"] = (IF NextCall.c = "Base" /\ NextCall.f = "transfer"
                                           THEN AddBase(chain.base["PoolHelper"]) ELSE chain.base["PoolHelper"])
         /\ NextCall.f # "initializePool" => chain'.pool = chain.pool
         /\ NextCall.f = "initializePool" =>
              /\ chain'.prnt["PoolHelper"] = 0 /\ chain'.base["PoolHelper"] = 0
              /\ chain'.pool = <<chain.base["PoolHelper"], chain.prnt["PoolHelper"]>>
         /\ chain'.registered =
              IF NextCall.f = "registerRewardDeposit"
              THEN chain.registered + (IF NextCall.x = "allReserve" THEN 0 ELSE CicReserve)
              ELSE chain.registered
<1> DEFINE c == Apply(chain, Sender(NextCall), NextCall)  who == Sender(NextCall)  k == NextCall
<1>1. c = Apply(chain, who, k) /\ chain' = c /\ ChainShape(chain)
  BY DEF Send, Kept
<1>2. CASE NextCall.c = "PrimeToken" /\ NextCall.f = "transfer"
  <2>1. Payment(who, k.x) /\ ~(chain.prnt[who] < PrntAmount(chain, k.x)) /\ Balances(chain.prnt)
        /\ k.c = "PrimeToken" /\ k.f = "transfer"
    BY <1>2, WhoPays DEF Funds, MoneyInv
  <2> HIDE DEF who, k
  <2>2. /\ c.prnt["PoolHelper"] = IF k.x = "PoolHelper" THEN chain.prnt["PoolHelper"] + LpInitPrnt
                                   ELSE chain.prnt["PoolHelper"]
        /\ c.prnt["ChefIncentivesController"] =
              IF k.x = "ChefIncentivesController" THEN chain.prnt["ChefIncentivesController"] + CicReserve
              ELSE chain.prnt["ChefIncentivesController"]
        /\ c.prnt["BountyManager"] = IF k.x = "BountyManager" THEN chain.prnt["BountyManager"] + DqReserve
                                      ELSE chain.prnt["BountyManager"]
    <3> DEFINE q == Apply(chain, who, k).prnt
    <3>1. /\ Balances(q) /\ Total(q) = Total(chain.prnt)
          /\ q["PoolHelper"] = IF k.x = "PoolHelper" THEN chain.prnt["PoolHelper"] + LpInitPrnt
                                   ELSE chain.prnt["PoolHelper"]
          /\ q["ChefIncentivesController"] =
              IF k.x = "ChefIncentivesController" THEN chain.prnt["ChefIncentivesController"] + CicReserve
              ELSE chain.prnt["ChefIncentivesController"]
          /\ q["BountyManager"] = IF k.x = "BountyManager" THEN chain.prnt["BountyManager"] + DqReserve
                                      ELSE chain.prnt["BountyManager"]
      BY <1>1, <2>1, TransferMoves
    <3> QED  BY <1>1, <3>1
  <2>3. c.base["PoolHelper"] = chain.base["PoolHelper"]
    <3>1. c = Apply(chain, who, k)
      BY <1>1
    <3> HIDE DEF c
    <3>2. /\ k.f # "initializePool" /\ ~(k.c = "PrimeToken" /\ k.f = "transfer") => c.prnt = chain.prnt
          /\ k.f # "initializePool" /\ ~(k.c = "Base" /\ k.f = "transfer") =>
               c.base["PoolHelper"] = chain.base["PoolHelper"]
          /\ k.c = "Base" /\ k.f = "transfer" =>
               c.base["PoolHelper"] = AddBase(chain.base["PoolHelper"])
          /\ k.f = "registerRewardDeposit" =>
               c.registered = chain.registered + (IF k.x = "allReserve" THEN 0 ELSE CicReserve)
      BY <1>1, <3>1, OtherMoves
    <3> QED  BY <2>1, <3>2
  <2>4. /\ chain'.done = chain.done \cup {<<k.c, k.f, k.x>>}
        /\ k.f # "registerRewardDeposit" => chain'.registered = chain.registered
        /\ k.f # "initializePool" => chain'.pool = chain.pool
    BY CallKeeps DEF Kept, k
  <2> HIDE DEF c
  <2> QED  BY <1>1, <2>1, <2>2, <2>3, <2>4 DEF Paying, k
<1>3. CASE k.f = "initializePool"
  <2>1. k.f = "initializePool"
    BY <1>3
  <2> HIDE DEF k, who, c
  <2>2. /\ c.prnt = [chain.prnt EXCEPT !["PoolHelper"] = 0] /\ c.base["PoolHelper"] = 0
        /\ c.pool = <<chain.base["PoolHelper"], chain.prnt["PoolHelper"]>>
    BY <1>1, <2>1, PoolMoves
  <2>3. /\ c.prnt["PoolHelper"] = 0 /\ c.prnt["BountyManager"] = chain.prnt["BountyManager"]
        /\ c.prnt["ChefIncentivesController"] = chain.prnt["ChefIncentivesController"]
    BY <1>1, <2>2 DEF ChainShape, Accounts
  <2>4. /\ chain'.done = chain.done \cup {<<k.c, k.f, k.x>>}
        /\ k.f # "registerRewardDeposit" => chain'.registered = chain.registered
    BY CallKeeps DEF Kept, k
  <2> QED  BY <1>1, <2>1, <2>2, <2>3, <2>4 DEF Paying, k
<1>4. CASE k.f # "initializePool" /\ ~(k.c = "PrimeToken" /\ k.f = "transfer")
  <2>1. k.f # "initializePool" /\ ~(k.c = "PrimeToken" /\ k.f = "transfer")
    BY <1>4
  <2>2. /\ chain'.done = chain.done \cup {<<k.c, k.f, k.x>>}
        /\ k.f # "registerRewardDeposit" => chain'.registered = chain.registered
        /\ k.f # "initializePool" => chain'.pool = chain.pool
    BY CallKeeps DEF Kept, k
  <2> HIDE DEF k, who, c
  <2>3. /\ k.f # "initializePool" /\ ~(k.c = "PrimeToken" /\ k.f = "transfer") => c.prnt = chain.prnt
        /\ k.f # "initializePool" /\ ~(k.c = "Base" /\ k.f = "transfer") =>
             c.base["PoolHelper"] = chain.base["PoolHelper"]
        /\ k.c = "Base" /\ k.f = "transfer" => c.base["PoolHelper"] = AddBase(chain.base["PoolHelper"])
        /\ k.f = "registerRewardDeposit" =>
             c.registered = chain.registered + (IF k.x = "allReserve" THEN 0 ELSE CicReserve)
    BY <1>1, OtherMoves
  <2> QED  BY <1>1, <2>1, <2>2, <2>3 DEF Paying, k
<1> QED  BY <1>2, <1>3, <1>4

-----------------------------------------------------------------------------
(* The supplies are paid once.                                             *)

\* A run of script id has got past its call n.
Past(id, n) == status # "idle" /\ pc # 0 /\ Script.id = id /\ pc > n

\* A payer is run once, by a deployment.
LEMMA PayerOnce ==
  ASSUME Shape, status # "idle", Script.id \in Payers
  PROVE  Understood(Script) /\ Script.once /\ status = "deploy"
  BY ScriptFacts DEF Understood, Sound, Special, Payers, Shape

\* A payer that is left behind part-way is known as stopped or recorded.
LEMMA PastLost ==
  ASSUME Kept, NEW id \in Payers, NEW n \in Nat, n >= 1, Turn \/ Finish, Past(id, n)
  PROVE  id \in cut' \/ id \in migrations'
<1>1. pc \in Nat /\ pc > 1 /\ status # "idle" /\ Script.id = id
  <2>1. status # "idle" /\ pc \in 0..(Len(Script.calls) + 1) /\ Understood(Script)
    BY ScriptFacts DEF Past, Kept, Shape
  <2>2. pc \in Nat
    BY <2>1 DEF Understood
  <2> QED  BY <2>1, <2>2 DEF Past
<1>2. CASE Turn
  BY <1>1, <1>2 DEF Turn
<1>3. CASE Finish
  <2>1. Script.once
    BY <1>1, PayerOnce DEF Kept
  <2> QED  BY <1>1, <1>3, <2>1 DEF Finish
<1> QED  BY <1>2, <1>3

\* After a step that ends a script, or begins one, no script is past a call.
LEMMA PastNone ==
  ASSUME NEW id, NEW n \in Nat, n >= 1, Turn \/ Finish \/ Enter
  PROVE  ~Past(id, n)'
<1>1. status' = "idle" \/ pc' = 0 \/ pc' = 1
  BY DEF Turn, Finish, Enter
<1> QED  BY <1>1 DEF Past

\* Where a call of a script takes the run.
LEMMA Going ==
  ASSUME Kept, Pass \/ Build \/ Send
  PROVE  /\ Understood(Script) /\ pc \in 1..Len(Script.calls) /\ pc \in Nat /\ Len(Script.calls) \in Nat
         /\ pc # 0 /\ NextCall = Script.calls[pc] /\ status # "idle" /\ ~Skipped
         /\ Script' = Script /\ status' = status /\ UNCHANGED <<network, migrations, cut>>
         /\ pc' \in Nat /\ pc' >= pc + 1 /\ (NextCall.op # "when" => pc' = pc + 1)
<1>1. Stay /\ Script' = Script /\ status' = status /\ UNCHANGED <<network, migrations, cut>>
  BY SameScript DEF Pass, Build, Send, Stay
<1>2. Understood(Script) /\ pc \in 1..Len(Script.calls) /\ NextCall = Script.calls[pc] /\ status # "idle"
  BY <1>1, ScriptFacts DEF Kept, Stay, InBody, Understood, NextCall
<1>3. Len(Script.calls) \in Nat
  BY <1>2 DEF Understood
<1>4. pc \in Nat /\ pc >= 1
  BY <1>2, <1>3
<1>5. ~Skipped
  BY <1>2, <1>4 DEF Kept, InTurn
<1>6. pc' \in Nat /\ pc' >= pc + 1 /\ (NextCall.op # "when" => pc' = pc + 1)
  <2>1. NextCall.op = "when" => NextCall.n \in Nat
    BY <1>2 DEF Understood, AtHome
  <2> QED  BY <1>4, <2>1 DEF Pass, Build, Send
<1> QED  BY <1>1, <1>2, <1>3, <1>4, <1>5, <1>6

\* The bounty manager holds nothing, or its reserve once it was paid.
BountyInv ==
  "configure_bounty_manager" \notin cut =>
    /\ chain.prnt["BountyManager"] \in {0, DqReserve}
    /\ "configure_bounty_manager" \notin migrations /\ ~Past("configure_bounty_manager", 2)
         => chain.prnt["BountyManager"] = 0

\* What is known of the chain at the start.
LEMMA NothingYet ==
  ASSUME Init
  PROVE  /\ chain.done = {} /\ chain.registered = 0 /\ chain.pool = <<0, 0>>
         /\ chain.base["PoolHelper"] = 0 /\ chain.prnt["PoolHelper"] = 0
         /\ chain.prnt["ChefIncentivesController"] = 0 /\ chain.prnt["BountyManager"] = 0
<1>1. chain = EmptyChain("PrimeToken" \in Site.recorded, Account("dao"))
  BY DEF Init
<1>2. Account("dao") \in {"dao", "deployer"}
  BY AccountIs
<1> QED  BY <1>1, <1>2 DEF EmptyChain

\* Every step keeps BountyInv.
LEMMA BountyStep ==
  ASSUME Kept, Funds, BountyInv, [Next]_vars
  PROVE  BountyInv'
<1> DEFINE id == "configure_bounty_manager"  held == chain.prnt["BountyManager"]
<1> SUFFICES ASSUME id \notin cut'
             PROVE  /\ held' \in {0, DqReserve}
                    /\ id \notin migrations' /\ ~Past(id, 2)' => held' = 0
  BY DEF BountyInv
<1>1. id \notin cut /\ migrations \subseteq migrations'
  BY RecordsStay DEF Kept
<1>2. held \in {0, DqReserve} /\ (id \notin migrations /\ ~Past(id, 2) => held = 0)
  BY <1>1 DEF BountyInv
<1>3. CASE UNCHANGED vars \/ People
  <2>1. held' = held
    BY <1>3, OthersArePaidByCalls DEF Quiet
  <2>2. Past(id, 2)' <=> Past(id, 2)
    BY <1>3, SameScript DEF vars, People, Past
  <2> QED  BY <1>1, <1>2, <2>1, <2>2
<1>4. CASE Turn \/ Finish
  <2>1. held' = held
    BY <1>4, OthersArePaidByCalls DEF Quiet
  <2>2. Past(id, 2) => id \in migrations'
    BY <1>4, PastLost DEF Payers
  <2> QED  BY <1>1, <1>2, <2>1, <2>2
<1>5. CASE Enter
  <2>1. held' = held /\ ~Past(id, 2)
    BY <1>5, OthersArePaidByCalls DEF Quiet, Enter, Past
  <2> QED  BY <1>1, <1>2, <2>1
<1>6. CASE Pass \/ Build \/ Send
  <2>1. Past(id, 2) => Past(id, 2)'
    BY <1>6, Going DEF Past
  <2>2. CASE held' = held
    BY <1>1, <1>2, <2>1, <2>2
  <2>3. CASE held' # held
    <3>1. Send
      BY <1>6, <2>3, OthersArePaidByCalls DEF Quiet
    <3>2. held' = (IF Paying("BountyManager") THEN held + DqReserve ELSE held)
      BY <3>1, CallPays
    <3>3. Paying("BountyManager") /\ held' = held + DqReserve
      BY <2>3, <3>2
    <3>4. Script.id = id
      <4>1. NextCall.c = "PrimeToken" /\ NextCall.f = "transfer" /\ NextCall.x = "BountyManager"
        BY <3>3 DEF Paying
      <4>2. Pays(Script.id, NextCall)
        BY <3>1, <4>1, WhoPays DEF Funds
      <4> QED  BY <4>1, <4>2 DEF Pays
    <3>5. pc = 2
      <4>1. Reserves(Script.calls) /\ pc \in 1..Len(Script.calls) /\ NextCall = Script.calls[pc]
        BY <1>6, <3>4, Going DEF Understood, Sound, Special
      <4>2. ~QuietCall(NextCall)
        BY <3>1, <3>3 DEF Paying, QuietCall, Watched, Send
      <4>3. pc \in {1, 2, 3, 4, 5, 6, 7}
        BY <4>1 DEF Reserves
      <4> QED  BY <4>1, <4>2, <4>3 DEF Reserves
    <3>6. id \notin migrations
      BY <1>6, <3>4, Going DEF Skipped
    <3>7. held = 0
      BY <1>2, <3>5, <3>6 DEF Past
    <3>8. held' = DqReserve
      BY <3>3, <3>7 DEF DqReserve
    <3>9. Past(id, 2)'
      BY <1>6, <3>4, <3>5, Going DEF Past
    <3> QED  BY <3>8, <3>9
  <2> QED  BY <2>2, <2>3
<1> QED  BY <1>3, <1>4, <1>5, <1>6, StepKinds DEF Kept

-----------------------------------------------------------------------------
(* The chef is started once; its supply is registered once and sent once.  *)

\* The trace of starting the chef.
Begun == <<"ChefIncentivesController", "start", "">>

\* What the chef holds, by what a run has got past.
SupplyInv ==
  /\ chain.registered \in {0, CicReserve}
  /\ Begun \notin chain.done =>
       /\ chain.registered = 0 /\ chain.prnt["ChefIncentivesController"] = 0
       /\ "configure_cic" \notin migrations /\ ~Past("configure_cic", 2)
  /\ Past("configure_cic", 2) =>
       /\ chain.registered = IF pc > 3 THEN CicReserve ELSE 0
       /\ chain.prnt["ChefIncentivesController"] = IF pc > 6 THEN CicReserve ELSE 0
  /\ "configure_cic" \in migrations =>
       chain.registered = CicReserve /\ chain.prnt["ChefIncentivesController"] = CicReserve

\* Nobody has been supplied at first.
LEMMA SuppliesInit == Init => BountyInv /\ SupplyInv
<1> SUFFICES ASSUME Init PROVE BountyInv /\ SupplyInv
  OBVIOUS
<1>1. migrations = {} /\ status = "idle"
  BY DEF Init
<1>2. \A id, n : ~Past(id, n)
  BY <1>1 DEF Past
<1> QED  BY <1>1, <1>2, NothingYet DEF BountyInv, SupplyInv

\* Every step keeps SupplyInv.
LEMMA SupplyStep ==
  ASSUME Kept, Funds, SupplyInv, [Next]_vars
  PROVE  SupplyInv'
<1> DEFINE id == "configure_cic"  held == chain.prnt["ChefIncentivesController"]  told == chain.registered
           begun == Begun \in chain.done
<1>1. migrations \subseteq migrations' /\ (begun => begun')
  BY RecordsStay, Grows DEF Kept
<1>2. /\ told \in {0, CicReserve}
      /\ ~begun => told = 0 /\ held = 0 /\ id \notin migrations /\ ~Past(id, 2)
      /\ Past(id, 2) => told = (IF pc > 3 THEN CicReserve ELSE 0) /\
           held = (IF pc > 6 THEN CicReserve ELSE 0)
      /\ id \in migrations => told = CicReserve /\ held = CicReserve
  BY DEF SupplyInv
<1> DEFINE Goal ==
      /\ told' \in {0, CicReserve}
      /\ ~begun' => told' = 0 /\ held' = 0 /\ id \notin migrations' /\ ~Past(id, 2)'
      /\ Past(id, 2)' => told' = (IF pc' > 3 THEN CicReserve ELSE 0) /\
           held' = (IF pc' > 6 THEN CicReserve ELSE 0)
      /\ id \in migrations' => told' = CicReserve /\ held' = CicReserve
<1> SUFFICES Goal
  BY DEF SupplyInv
<1>3. (UNCHANGED vars \/ Turn \/ Finish \/ Enter \/ Pass \/ Build \/ People)
        => told' = told /\ held' = held /\ (begun' <=> begun)
  BY OthersArePaidByCalls DEF Quiet
<1>4. CASE UNCHANGED vars \/ People
  <2>1. (Past(id, 2)' <=> Past(id, 2)) /\ pc' = pc /\ migrations' = migrations
    BY <1>4, SameScript DEF vars, People, Past
  <2> QED  BY <1>2, <1>3, <1>4, <2>1
<1>5. CASE Turn \/ Enter
  <2>1. ~Past(id, 2)' /\ migrations' = migrations
    BY <1>5, PastNone DEF Turn, Enter
  <2> QED  BY <1>2, <1>3, <1>5, <2>1
<1>6. CASE Finish
  <2>1. ~Past(id, 2)'
    BY <1>6, PastNone
  <2>2. CASE migrations' = migrations
    BY <1>2, <1>3, <1>6, <2>1, <2>2
  <2>3. CASE Script.id # id
    <3>1. id \in migrations' => id \in migrations
      BY <1>6, <2>3 DEF Finish
    <3> QED  BY <1>2, <1>3, <1>6, <2>1, <3>1
  <2>4. CASE Script.id = id
    <3>1. pc = Len(Script.calls) + 1 /\ status # "idle"
      BY <1>6 DEF Finish
    <3>2. Supplies(Script.calls)
      BY <2>4, <3>1, PayerOnce DEF Kept, Payers, Understood, Sound, Special
    <3>3. pc = 7
      BY <3>1, <3>2 DEF Supplies
    <3>4. Past(id, 2)
      BY <2>4, <3>1, <3>3 DEF Past
    <3> QED  BY <1>2, <1>3, <1>6, <2>1, <3>3, <3>4
  <2> QED  BY <1>6, <2>2, <2>3, <2>4 DEF Finish
<1>7. CASE Pass \/ Build \/ Send
  <2>0. /\ Understood(Script) /\ pc \in 1..Len(Script.calls) /\ pc \in Nat /\ pc # 0 /\
             NextCall = Script.calls[pc]
        /\ status # "idle" /\ ~Skipped /\ Script' = Script /\ status' = status
        /\ migrations' = migrations /\ pc' \in Nat /\ pc' >= pc + 1 /\ (NextCall.op # "when" =>
             pc' = pc + 1)
    BY <1>7, Going
  <2>1. CASE Script.id # id
    <3>1. ~Past(id, 2) /\ ~Past(id, 2)'
      BY <2>0, <2>1 DEF Past
    <3>2. told' = told /\ held' = held /\ (begun' <=> begun)
      <4>1. CASE Pass \/ Build
        BY <1>3, <4>1
      <4>2. CASE Send
        <5>1. Homely(Script.id, NextCall)
          BY <4>2, Sending DEF Kept
        <5>2. ~Paying("ChefIncentivesController")
          <6> SUFFICES ASSUME Paying("ChefIncentivesController") PROVE FALSE
            OBVIOUS
          <6>1. Pays(Script.id, NextCall)
            BY <4>2, WhoPays DEF Paying, Funds
          <6> QED  BY <2>1, <6>1 DEF Pays, Paying
        <5>3. held' = held
          BY <4>2, <5>2, CallPays
        <5>4. told' = IF NextCall.f = "registerRewardDeposit"
                      THEN told + (IF NextCall.x = "allReserve" THEN 0 ELSE CicReserve) ELSE told
          BY <4>2, CallPays
        <5>5. NextCall.f = "registerRewardDeposit" => NextCall.x = "allReserve"
          BY <2>1, <5>1 DEF Homely
        <5>6. told + 0 = told
          BY <1>2 DEF CicReserve
        <5>7. told' = told
          BY <5>4, <5>5, <5>6
        <5>8. NextCall.f # "start"
          BY <2>1, <5>1 DEF Homely
        <5>9. chain'.done = chain.done \cup {<<NextCall.c, NextCall.f, NextCall.x>>}
          BY <4>2, CallPays
        <5>10. begun' <=> begun
          BY <5>8, <5>9 DEF Begun
        <5> QED  BY <5>3, <5>7, <5>10
      <4> QED  BY <1>7, <4>1, <4>2
    <3> QED  BY <1>2, <2>0, <3>1, <3>2
  <2>2. CASE Script.id = id
    <3>1. Supplies(Script.calls)
      BY <2>0, <2>2 DEF Understood, Sound, Special
    <3>2. pc \in {1, 2, 3, 4, 5, 6}
      BY <2>0, <3>1 DEF Supplies
    <3>3. id \notin migrations
      BY <2>0, <2>2 DEF Skipped
    <3>4. \A m \in Nat : (Past(id, m) <=> pc > m) /\ (Past(id, m)' <=> pc' > m)
      BY <2>0, <2>2 DEF Past
    <3>5. pc' = pc + 1
      <4>1. Script.calls[2].op = "call" /\ Script.calls[3].op = "call" /\ Script.calls[6].op = "call"
        <5>1. \A by, c, f, x : Call(by, c, f, x).op = "call"
          BY DEF Call
        <5>2. /\ Script.calls[2] = Exec("ChefIncentivesController", "start")
              /\ Script.calls[3] = ExecArg("ChefIncentivesController", "registerRewardDeposit",
                   "supply")
              /\ Script.calls[6] = ExecArg("PrimeToken", "transfer", "ChefIncentivesController")
          BY <3>1 DEF Supplies
        <5> QED  BY <5>1, <5>2, Zenon DEF Exec, ExecArg
      <4>2. \A j \in {1, 4, 5} : Script.calls[j].op # "when"
        BY <3>1 DEF Supplies, QuietCall
      <4>3. NextCall.op # "when"
        BY <2>0, <3>2, <4>1, <4>2
      <4> QED  BY <2>0, <4>3
    <3>6. (NextCall.op = "call") => Send
      BY <1>7 DEF Pass, Build
    <3>7. CASE pc \in {1, 4, 5}
      <4>1. QuietCall(NextCall)
        BY <2>0, <3>1, <3>7 DEF Supplies
      <4>2. told' = told /\ held' = held /\ (begun' <=> begun)
        <5>1. CASE Pass \/ Build
          BY <1>3, <5>1
        <5>2. CASE Send
          <6>1. NextCall.f \notin {"transfer", "registerRewardDeposit", "start"}
            BY <4>1, <5>2 DEF QuietCall, Watched, Send
          <6>2. held' = held
            BY <5>2, <6>1, CallPays DEF Paying
          <6>3. told' = told
            BY <5>2, <6>1, CallPays
          <6>4. chain'.done = chain.done \cup {<<NextCall.c, NextCall.f, NextCall.x>>}
            BY <5>2, CallPays
          <6> QED  BY <6>1, <6>2, <6>3, <6>4 DEF Begun
        <5> QED  BY <1>7, <5>1, <5>2
      <4>3. CASE pc = 1
        BY <1>2, <2>0, <3>3, <3>4, <3>5, <4>2, <4>3
      <4>4. CASE pc \in {4, 5}
        <5>1. Past(id, 2) /\ pc > 3 /\ pc' > 3 /\ ~(pc > 6) /\ ~(pc' > 6)
          BY <3>4, <3>5, <4>4
        <5> QED  BY <1>2, <2>0, <3>3, <4>2, <5>1
      <4> QED  BY <3>7, <4>3, <4>4
    <3>8. CASE pc = 2
      <4>1. NextCall = Exec("ChefIncentivesController", "start")
        BY <2>0, <3>1, <3>8 DEF Supplies
      <4>2. NextCall.op = "call" /\ NextCall.f = "start" /\ NextCall.c = "ChefIncentivesController" /\
        NextCall.x = ""
        BY <4>1, ZenonT(20) DEF Exec, Call
      <4>3. Send
        BY <3>6, <4>2
      <4>4. Begun = <<NextCall.c, NextCall.f, NextCall.x>>
        BY <4>2, Zenon DEF Begun
      <4>5. ~begun
        BY <4>2, <4>3, <4>4 DEF Send, Reverts, OnceOnly
      <4>6. begun'
        <5>1. chain'.done = chain.done \cup {<<NextCall.c, NextCall.f, NextCall.x>>}
          BY <4>3, CallPays
        <5> QED  BY <4>4, <5>1
      <4>7. held' = held
        BY <4>2, <4>3, CallPays DEF Paying
      <4>8. told' = told
        BY <4>2, <4>3, CallPays
      <4>9. pc' = 3
        BY <3>5, <3>8
      <4> QED  BY <1>2, <2>0, <3>3, <4>5, <4>6, <4>7, <4>8, <4>9
    <3>9. CASE pc = 3
      <4>1. NextCall = ExecArg("ChefIncentivesController", "registerRewardDeposit", "supply")
        BY <2>0, <3>1, <3>9 DEF Supplies
      <4>2. NextCall.op = "call" /\ NextCall.f = "registerRewardDeposit" /\ NextCall.x = "supply"
        BY <4>1 DEF ExecArg, Call
      <4>3. Send
        BY <3>6, <4>2
      <4>4. told' = told + CicReserve
        BY <4>2, <4>3, CallPays
      <4>5. held' = held
        BY <4>2, <4>3, CallPays DEF Paying
      <4>6. Past(id, 2) /\ pc' = 4
        BY <3>4, <3>5, <3>9
      <4>7. told = 0 /\ held = 0 /\ begun
        BY <1>2, <3>9, <4>6
      <4>8. told' = CicReserve
        BY <4>4, <4>7 DEF CicReserve
      <4> QED  BY <1>1, <2>0, <3>3, <4>5, <4>6, <4>7, <4>8
    <3>10. CASE pc = 6
      <4>1. NextCall = ExecArg("PrimeToken", "transfer", "ChefIncentivesController")
        BY <2>0, <3>1, <3>10 DEF Supplies
      <4>2. NextCall.op = "call" /\ Paying("ChefIncentivesController")
        BY <4>1 DEF ExecArg, Call, Paying
      <4>3. Send
        BY <3>6, <4>2
      <4>4. held' = held + CicReserve
        BY <4>2, <4>3, CallPays
      <4>5. told' = told
        <5>1. NextCall.f # "registerRewardDeposit"
          BY <4>2 DEF Paying
        <5> QED  BY <4>3, <5>1, CallPays
      <4>6. Past(id, 2) /\ pc' = 7
        BY <3>4, <3>5, <3>10
      <4>7. told = CicReserve /\ held = 0 /\ begun
        BY <1>2, <3>10, <4>6
      <4>8. held' = CicReserve
        BY <4>4, <4>7 DEF CicReserve
      <4> QED  BY <1>1, <2>0, <3>3, <4>5, <4>6, <4>7, <4>8
    <3> QED  BY <3>2, <3>7, <3>8, <3>9, <3>10
  <2> QED  BY <2>1, <2>2
<1> QED  BY <1>4, <1>5, <1>6, <1>7, StepKinds DEF Kept

(* On every network, through failures, killed runs and maintenance: the    *)
(* chef's supply is registered once and, when its script is recorded, sent *)
(* once, even if the script was stopped and run again; the bounty manager  *)
(* gets its reserve once unless its script was stopped.                    *)
THEOREM SuppliesArePaidOnce == Spec => []SuppliesPaidOnce
<1>1. Init => BountyInv /\ SupplyInv
  BY SuppliesInit
<1>2. (Kept /\ Funds) /\ (BountyInv /\ SupplyInv) /\ [Next]_vars => (BountyInv /\ SupplyInv)'
  BY BountyStep, SupplyStep
<1>3. BountyInv /\ SupplyInv => SuppliesPaidOnce
  BY DEF BountyInv, SupplyInv, SuppliesPaidOnce
<1> QED  BY <1>1, <1>2, <1>3, FundsAlways, PTL DEF Spec

-----------------------------------------------------------------------------
(* The pool opens with what configure_lp has paid.                         *)

\* The calls that pay the pool and open it.
LEMMA OpensCalls ==
  ASSUME NEW q, NEW b, Opens(q, b)
  PROVE  /\ q[b].op = "call" /\ q[b].c = "Base" /\ q[b].f = "transfer"
         /\ q[b + 1].op = "call" /\ q[b + 1].c = "PrimeToken" /\ q[b + 1].f = "transfer" /\
              q[b + 1].x = "PoolHelper"
         /\ q[b + 2].op = "call" /\ q[b + 2].f = "initializePool"
<1>1. q[b] = Signer("Base", "transfer", "PoolHelper") /\ q[b + 1] = ExecArg("PrimeToken", "transfer",
  "PoolHelper")
  BY DEF Opens
<1>2. q[b + 2] = Exec("PoolHelper", "initializePool")
  BY DEF Opens
<1>3. \A by, c, f, x : /\ Call(by, c, f, x).op = "call" /\ Call(by, c, f, x).c = c
                       /\ Call(by, c, f, x).f = f /\ Call(by, c, f, x).x = x
  BY DEF Call
<1>4. q[b + 2].op = "call" /\ q[b + 2].f = "initializePool"
  <2>1. q[b + 2] = Call("opts", "PoolHelper", "initializePool", "")
    BY <1>2, Zenon DEF Exec
  <2>2. PICK x : q[b + 2] = Call("opts", "PoolHelper", "initializePool", x)
    BY <2>1, Zenon
  <2> QED  BY <1>3, <2>2
<1> QED  BY <1>1, <1>3, <1>4 DEF Signer, ExecArg

\* There is one such place.
LEMMA OpensOnce ==
  ASSUME NEW q, NEW a, NEW b, Opens(q, a), Opens(q, b), Len(q) \in Nat
  PROVE  a = b
<1>1. a \in Nat /\ b \in Nat /\ a \in 1..Len(q) /\ b \in 1..Len(q) /\ a + 2 \in 1..Len(q) /\
  b + 2 \in 1..Len(q)
  BY DEF Opens
<1>2. /\ q[a].op = "call" /\ q[a].f = "transfer" /\ q[a + 2].op = "call" /\
           q[a + 2].f = "initializePool"
      /\ q[b].f = "transfer" /\ q[b + 1].f = "transfer" /\ q[b + 2].f = "initializePool"
  BY OpensCalls
<1>3. a \in {b, b + 1, b + 2} /\ a + 2 \in {b, b + 1, b + 2}
  BY <1>1, <1>2 DEF Opens
<1> QED  BY <1>1, <1>3

\* A run of configure_lp, with the place of its payments.
LpAt(b) == status # "idle" /\ Script.id = "configure_lp" /\ Opens(Script.calls, b)

\* Unless configure_lp was stopped, the pool helper holds what the run that
\* is between the payments and the opening has paid, and nothing otherwise.
LpInv ==
  "configure_lp" \notin cut =>
    /\ chain.pool \in {<<0, 0>>, <<LpInitEth, LpInitPrnt>>}
    /\ \/ /\ chain.base["PoolHelper"] = 0 /\ chain.prnt["PoolHelper"] = 0
          /\ \A b : LpAt(b) => pc \notin {b + 1, b + 2}
       \/ /\ chain.base["PoolHelper"] = LpInitEth /\ chain.prnt["PoolHelper"] = 0
          /\ \E b : LpAt(b) /\ pc = b + 1
       \/ /\ chain.base["PoolHelper"] = LpInitEth /\ chain.prnt["PoolHelper"] = LpInitPrnt
          /\ \E b : LpAt(b) /\ pc = b + 2

\* The pool is empty at first.
LEMMA LpInit == Init => LpInv
<1> SUFFICES ASSUME Init PROVE LpInv
  OBVIOUS
<1>1. \A b : ~LpAt(b)
  BY DEF Init, LpAt
<1> QED  BY <1>1, NothingYet DEF LpInv

\* The base asset the first payment leaves.
LEMMA FirstDeposit == AddBase(0) = LpInitEth
<1> DEFINE S == {0 + LpInitEth, MaxBase}
<1>1. S = {1, 2}
  BY DEF LpInitEth, MaxBase
<1>2. Min(S) = CHOOSE x \in S : \A y \in S : x <= y
  BY DEF Min
<1>3. 1 \in {1, 2} /\ \A y \in {1, 2} : 1 <= y
  OBVIOUS
<1>4. \A x \in {1, 2} : (\A y \in {1, 2} : x <= y) => x = 1
  OBVIOUS
<1>5. (CHOOSE x \in {1, 2} : \A y \in {1, 2} : x <= y) = 1
  BY <1>3, <1>4
<1>6. Min(S) = 1
  BY <1>1, <1>2, <1>5
<1> HIDE DEF S
<1> QED  BY <1>6 DEF AddBase, S, LpInitEth

\* Every step keeps LpInv.
LEMMA LpStep ==
  ASSUME Kept, Funds, LpInv, [Next]_vars
  PROVE  LpInv'
<1> DEFINE lp == "configure_lp"  base == chain.base["PoolHelper"]  prnt == chain.prnt["PoolHelper"]
           prices == {<<0, 0>>, <<LpInitEth, LpInitPrnt>>}
           None == base = 0 /\ prnt = 0 /\ \A b : LpAt(b) => pc \notin {b + 1, b + 2}
           Half == base = LpInitEth /\ prnt = 0 /\ \E b : LpAt(b) /\ pc = b + 1
           Both == base = LpInitEth /\ prnt = LpInitPrnt /\ \E b : LpAt(b) /\ pc = b + 2
<1> SUFFICES ASSUME lp \notin cut' PROVE chain'.pool \in prices /\ (None' \/ Half' \/ Both')
  BY DEF LpInv
<1>1. lp \notin cut
  BY RecordsStay DEF Kept
<1>2. chain.pool \in prices /\ (None \/ Half \/ Both)
  BY <1>1 DEF LpInv
<1>3. (UNCHANGED vars \/ Turn \/ Finish \/ Enter \/ Pass \/ Build \/ People)
        => chain'.pool = chain.pool /\ base' = base /\ prnt' = prnt
  BY OthersArePaidByCalls DEF Quiet
<1>4. ASSUME NEW b, LpAt(b)
      PROVE  /\ Understood(Script) /\ Len(Script.calls) \in Nat /\ b \in Nat /\ b >= 1 /\
                  b + 2 <= Len(Script.calls)
             /\ pc \in Nat /\ pc <= Len(Script.calls) + 1
  <2>1. Understood(Script) /\ pc \in 0..(Len(Script.calls) + 1) /\ Opens(Script.calls, b)
    BY <1>4, ScriptFacts DEF LpAt, Kept, Shape
  <2>2. Len(Script.calls) \in Nat
    BY <2>1 DEF Understood
  <2> QED  BY <2>1, <2>2 DEF Opens
<1>5. CASE UNCHANGED vars \/ People
  <2>1. (\A b : LpAt(b)' <=> LpAt(b)) /\ pc' = pc
    <3>1. Script' = Script /\ status' = status /\ pc' = pc
      BY <1>5, SameScript DEF vars, People
    <3> QED  BY <3>1 DEF LpAt
  <2> QED  BY <1>2, <1>3, <1>5, <2>1
<1>6. CASE Turn \/ Finish \/ Enter
  <2>1. None
    <3> SUFFICES ASSUME NEW b, LpAt(b), pc = b + 1 \/ pc = b + 2 PROVE FALSE
      BY <1>2
    <3>1. pc > 1 /\ pc # 0 /\ pc # Len(Script.calls) + 1
      BY <1>4
    <3> QED  BY <1>6, <3>1 DEF Turn, Finish, Enter, LpAt
  <2>2. \A b : LpAt(b)' => pc' \notin {b + 1, b + 2}
    <3> SUFFICES ASSUME NEW b, LpAt(b)' PROVE pc' \notin {b + 1, b + 2}
      OBVIOUS
    <3>1. b \in Nat /\ b >= 1
      <4>1. Shape'
        BY ShapeStep DEF Kept
      <4>2. b \in 1..Len(Script'.calls) /\ b + 2 <= Len(Script'.calls)
        BY DEF LpAt, Opens
      <4> QED  BY <4>2
    <3>2. status' # "idle"
      BY DEF LpAt
    <3>3. pc' = 0 \/ pc' = 1
      BY <1>6, <3>2 DEF Turn, Finish, Enter
    <3> QED  BY <3>1, <3>3
  <2> QED  BY <1>2, <1>3, <1>6, <2>1, <2>2
<1>7. CASE Pass \/ Build \/ Send
  <2>0. /\ Understood(Script) /\ pc \in 1..Len(Script.calls) /\ pc \in Nat /\ Len(Script.calls) \in Nat
        /\ NextCall = Script.calls[pc] /\ status # "idle" /\ Script' = Script /\ status' = status
        /\ pc' \in Nat /\ pc' >= pc + 1 /\ (NextCall.op # "when" => pc' = pc + 1)
    BY <1>7, Going
  <2>1. \A b : LpAt(b)' <=> LpAt(b)
    BY <2>0 DEF LpAt
  <2>2. CASE Script.id # lp
    <3>1. \A b : ~LpAt(b) /\ ~LpAt(b)'
      BY <2>1, <2>2 DEF LpAt
    <3>2. None
      BY <1>2, <3>1
    <3>3. chain'.pool = chain.pool /\ base' = base /\ prnt' = prnt
      <4>1. CASE Pass \/ Build
        BY <1>3, <4>1
      <4>2. CASE Send
        <5>1. Homely(Script.id, NextCall)
          BY <4>2, Sending DEF Kept
        <5>2. NextCall.f # "initializePool" /\ ~(NextCall.c = "Base" /\ NextCall.f = "transfer")
          BY <2>2, <5>1 DEF Homely
        <5>3. ~Paying("PoolHelper")
          <6> SUFFICES ASSUME Paying("PoolHelper") PROVE FALSE
            OBVIOUS
          <6>1. Pays(Script.id, NextCall)
            BY <4>2, WhoPays DEF Paying, Funds
          <6> QED  BY <2>2, <6>1 DEF Pays, Paying
        <5> QED  BY <4>2, <5>2, <5>3, CallPays
      <4> QED  BY <1>7, <4>1, <4>2
    <3> QED  BY <1>2, <3>1, <3>2, <3>3
  <2>3. CASE Script.id = lp
    <3>1. PICK b : Opens(Script.calls, b)
      BY <2>0, <2>3 DEF Understood, Sound, Special
    <3>2. LpAt(b) /\ LpAt(b)'
      BY <2>0, <2>1, <2>3, <3>1 DEF LpAt
    <3>3. \A a : LpAt(a) => a = b
      BY <2>0, <3>1, OpensOnce DEF LpAt
    <3>4. b \in Nat /\ b >= 1 /\ b + 2 <= Len(Script.calls) /\ b \in 1..Len(Script.calls)
      BY <1>4, <3>1, <3>2 DEF Opens
    <3>5. (None <=> base = 0 /\ prnt = 0 /\ pc \notin {b + 1, b + 2})
          /\ (Half <=> base = LpInitEth /\ prnt = 0 /\ pc = b + 1)
          /\ (Both <=> base = LpInitEth /\ prnt = LpInitPrnt /\ pc = b + 2)
      BY <3>2, <3>3
    <3>6. (None' <=> base' = 0 /\ prnt' = 0 /\ pc' \notin {b + 1, b + 2})
          /\ (Half' <=> base' = LpInitEth /\ prnt' = 0 /\ pc' = b + 1)
          /\ (Both' <=> base' = LpInitEth /\ prnt' = LpInitPrnt /\ pc' = b + 2)
      BY <2>1, <3>2, <3>3
    <3>7. /\ Script.calls[b].op = "call" /\ Script.calls[b].c = "Base" /\ Script.calls[b].f = "transfer"
          /\ Script.calls[b + 1].op = "call" /\ Script.calls[b + 1].c = "PrimeToken"
          /\ Script.calls[b + 1].f = "transfer" /\ Script.calls[b + 1].x = "PoolHelper"
          /\ Script.calls[b + 2].op = "call" /\ Script.calls[b + 2].f = "initializePool"
      BY <3>1, OpensCalls
    <3> HIDE DEF None, Half, Both
    <3>8. CASE pc = b
      <4>1. NextCall.op = "call" /\ NextCall.c = "Base" /\ NextCall.f = "transfer"
        BY <2>0, <3>7, <3>8
      <4>2. Send
        BY <1>7, <4>1 DEF Pass, Build
      <4>3. base = 0 /\ prnt = 0
        BY <1>2, <3>4, <3>5, <3>8
      <4>4. base' = AddBase(base) /\ prnt' = prnt /\ chain'.pool = chain.pool
        BY <4>1, <4>2, CallPays DEF Paying
      <4>5. pc' = b + 1
        BY <2>0, <3>8, <4>1
      <4> QED  BY <1>2, <3>6, <4>3, <4>4, <4>5, FirstDeposit
    <3>9. CASE pc = b + 1
      <4>1. NextCall.op = "call" /\ NextCall.f = "transfer" /\ Paying("PoolHelper") /\
        NextCall.c # "Base"
        BY <2>0, <3>7, <3>9 DEF Paying
      <4>2. Send
        BY <1>7, <4>1 DEF Pass, Build
      <4>3. base = LpInitEth /\ prnt = 0
        BY <1>2, <3>4, <3>5, <3>9
      <4>4. base' = base /\ prnt' = prnt + LpInitPrnt /\ chain'.pool = chain.pool
        BY <4>1, <4>2, CallPays
      <4>5. pc' = b + 2
        BY <2>0, <3>4, <3>9, <4>1
      <4>6. prnt' = LpInitPrnt
        BY <4>3, <4>4 DEF LpInitPrnt
      <4> QED  BY <1>2, <3>6, <4>3, <4>4, <4>5, <4>6
    <3>10. CASE pc = b + 2
      <4>1. NextCall.op = "call" /\ NextCall.f = "initializePool"
        BY <2>0, <3>7, <3>10
      <4>2. Send
        BY <1>7, <4>1 DEF Pass, Build
      <4>3. base = LpInitEth /\ prnt = LpInitPrnt
        BY <1>2, <3>4, <3>5, <3>10
      <4>4. base' = 0 /\ prnt' = 0 /\ chain'.pool = <<base, prnt>>
        BY <4>1, <4>2, CallPays
      <4>5. pc' \notin {b + 1, b + 2}
        BY <2>0, <3>4, <3>10, <4>1
      <4> QED  BY <3>6, <4>3, <4>4, <4>5
    <3>11. CASE pc \notin {b, b + 1, b + 2}
      <4>1. NextCall.op = "call" => NextCall.f \notin {"initializePool", "transfer"}
        BY <2>0, <3>1, <3>11 DEF Opens
      <4>2. base = 0 /\ prnt = 0
        BY <1>2, <3>5, <3>11
      <4>3. base' = base /\ prnt' = prnt /\ chain'.pool = chain.pool
        <5>1. CASE Pass \/ Build
          BY <1>3, <5>1
        <5>2. CASE Send
          <6>1. NextCall.f \notin {"initializePool", "transfer"}
            BY <4>1, <5>2 DEF Send
          <6> QED  BY <5>2, <6>1, CallPays DEF Paying
        <5> QED  BY <1>7, <5>1, <5>2
      <4>4. pc' \notin {b + 1, b + 2}
        <5>1. CASE NextCall.op # "when"
          <6>1. pc' = pc + 1
            BY <2>0, <5>1
          <6> QED  BY <2>0, <3>4, <3>11, <6>1
        <5>2. CASE NextCall.op = "when"
          <6>1. /\ pc < b /\ NextCall.n \in Nat
                /\ pc + NextCall.n < b \/ pc + NextCall.n = Len(Script.calls)
            BY <2>0, <3>1, <5>2 DEF Opens, Understood, AtHome
          <6>2. pc' = pc + 1 \/ pc' = pc + 1 + NextCall.n
            BY <1>7, <5>2 DEF Pass, Build, Send
          <6> QED  BY <2>0, <3>4, <6>1, <6>2
        <5> QED  BY <5>1, <5>2
      <4> QED  BY <1>2, <3>6, <4>2, <4>3, <4>4
    <3> QED  BY <3>8, <3>9, <3>10, <3>11
  <2> QED  BY <2>2, <2>3
<1> QED  BY <1>5, <1>6, <1>7, StepKinds DEF Kept

(* On every network, through failures, killed runs and maintenance: unless *)
(* configure_lp was stopped between its payments, the pool is opened with  *)
(* the configured amounts of both tokens.                                  *)
THEOREM PoolOpensAsConfigured == Spec => []PoolOpensAtItsPrice
<1>1. Kept /\ Funds /\ LpInv /\ [Next]_vars => LpInv'
  BY LpStep
<1>2. LpInv => PoolOpensAtItsPrice
  BY DEF LpInv, PoolOpensAtItsPrice
<1> QED  BY <1>1, <1>2, LpInit, FundsAlways, PTL DEF Spec

-----------------------------------------------------------------------------
(* A deployment that has finished changes nothing when it is run again.    *)

\* The call at place j of a calm list finds its own work done.
Found(q, j, dep, done) ==
  /\ q[j].op = "deploy" /\ ~Covered(q, j) => q[j].c \in dep
  /\ q[j].op = "call" /\ ~Covered(q, j) => <<q[j].c, q[j].f, q[j].x>> \in done
  /\ q[j].op = "when" /\ q[j].test = "missing" => q[j].x \in dep

\* All the calls do, or those before place n but for a test just passed.
Settled(q, dep, done)      == \A j \in 1..Len(q) : Found(q, j, dep, done)
SettledTo(q, n, dep, done) ==
  \A j \in 1..(n - 1) : Found(q, j, dep, done) \/ (q[j].op = "when" /\ n = j + 1)

\* What was found stays there.
LEMMA FoundStays ==
  ASSUME NEW q, NEW j, NEW dep, NEW done, NEW dep2, NEW done2,
         dep \subseteq dep2, done \subseteq done2, Found(q, j, dep, done)
  PROVE  Found(q, j, dep2, done2)
  BY DEF Found

\* A calm list passed to its end is settled.
LEMMA SettledEnd ==
  ASSUME NEW q, NEW dep, NEW done, Calm(q), SettledTo(q, Len(q) + 1, dep, done)
  PROVE  Settled(q, dep, done)
<1>1. Len(q) \in Nat
  BY ListDomain DEF Calm
<1> SUFFICES ASSUME NEW j \in 1..Len(q) PROVE Found(q, j, dep, done)
  BY DEF Settled
<1>2. j \in 1..((Len(q) + 1) - 1)
  BY <1>1
<1>3. Found(q, j, dep, done) \/ (q[j].op = "when" /\ Len(q) + 1 = j + 1)
  BY <1>2 DEF SettledTo
<1>4. CASE q[j].op = "when" /\ Len(q) + 1 = j + 1
  <2>1. CalmTest(q, j)
    BY <1>4 DEF Calm
  <2>2. ~(j + 1 <= Len(q))
    BY <1>1, <1>4
  <2>3. q[j].test = "fresh"
    BY <2>1, <2>2 DEF CalmTest
  <2> QED  BY <1>4, <2>3 DEF Found
<1> QED  BY <1>3, <1>4

\* A step of the script passes its call.
LEMMA SettledGo ==
  ASSUME NEW q, NEW dep, NEW done, NEW dep2, NEW done2, Calm(q), NEW n \in 1..Len(q),
         SettledTo(q, n, dep, done), dep \subseteq dep2, done \subseteq done2, NEW m,
         \/ q[n].op = "get" /\ m = n + 1
         \/ q[n].op = "deploy" /\ q[n].c \in dep2 /\ m = n + 1
         \/ q[n].op = "call" /\ <<q[n].c, q[n].f, q[n].x>> \in done2 /\ m = n + 1
         \/ q[n].op = "when" /\ m = n + 1
         \/ q[n].op = "when" /\ m = n + 1 + q[n].n /\ (q[n].test = "missing" => q[n].x \in dep2)
  PROVE  SettledTo(q, m, dep2, done2)
<1>1. Len(q) \in Nat
  BY ListDomain DEF Calm
<1>2. q[n].op = "when" => q[n].n \in Nat /\ \A i \in 1..q[n].n : q[n + i].op # "when"
  BY DEF Calm
<1> SUFFICES ASSUME NEW j \in 1..(m - 1)
             PROVE  Found(q, j, dep2, done2) \/ (q[j].op = "when" /\ m = j + 1)
  BY DEF SettledTo
<1>3. m \in Nat /\ m >= n + 1 /\ (m # n + 1 => q[n].op = "when" /\ m = n + 1 + q[n].n)
  <2>1. CASE m = n + 1
    BY <1>1, <2>1
  <2>2. CASE q[n].op = "when" /\ m = n + 1 + q[n].n
    BY <1>1, <1>2, <2>2
  <2> QED  BY <2>1, <2>2
<1>4. CASE j < n
  <2>1. j \in 1..(n - 1) /\ j \in 1..Len(q)
    BY <1>1, <1>3, <1>4
  <2>2. CASE Found(q, j, dep, done)
    BY <2>2, FoundStays
  <2>3. CASE q[j].op = "when" /\ n = j + 1
    <3>1. CalmTest(q, j)
      BY <2>1, <2>3 DEF Calm
    <3>2. CASE q[j].test = "fresh"
      BY <2>3, <3>2 DEF Found
    <3>3. CASE q[n].op = "deploy" /\ q[n].c = q[j].x
      <4>1. q[j].x \in dep2
        BY <3>3
      <4> QED  BY <2>3, <4>1 DEF Found
    <3> QED  BY <2>3, <3>1, <3>2, <3>3 DEF CalmTest
  <2> QED  BY <2>1, <2>2, <2>3 DEF SettledTo
<1>5. CASE j = n
  <2>1. CASE q[n].op = "when" /\ m = n + 1
    BY <1>5, <2>1
  <2>2. CASE ~(q[n].op = "when" /\ m = n + 1)
    BY <1>5, <2>2 DEF Found
  <2> QED  BY <2>1, <2>2
<1>6. CASE j > n
  <2>1. q[n].op = "when" /\ m = n + 1 + q[n].n /\ q[n].n \in Nat
    BY <1>1, <1>2, <1>3, <1>6
  <2> DEFINE i == j - n
  <2>2. i \in 1..q[n].n /\ n + i = j /\ n \in 1..(j - 1) /\ j <= n + q[n].n
    BY <1>1, <1>3, <1>6, <2>1
  <2> HIDE DEF i
  <2>3. q[j].op # "when" /\ Covered(q, j)
    BY <1>2, <2>1, <2>2 DEF Covered
  <2> QED  BY <2>3 DEF Found
<1>7. n \in Nat /\ j \in Nat
  BY <1>1, <1>3
<1> QED  BY <1>4, <1>5, <1>6, <1>7

\* A script whose tests fail stays out of its blocks.
LEMMA OutsideGo ==
  ASSUME NEW q, Calm(q), NEW n \in 1..Len(q), ~Covered(q, n), NEW m,
         \/ q[n].op # "when" /\ m = n + 1
         \/ q[n].op = "when" /\ m = n + 1 + q[n].n
  PROVE  ~Covered(q, m)
<1>1. Len(q) \in Nat /\ n \in Nat
  BY ListDomain DEF Calm
<1>2. q[n].op = "when" => q[n].n \in Nat /\ \A i \in 1..q[n].n : q[n + i].op # "when"
  BY DEF Calm
<1>3. m \in Nat /\ m >= n + 1
  <2>1. CASE q[n].op # "when" /\ m = n + 1
    BY <1>1, <2>1
  <2>2. CASE q[n].op = "when" /\ m = n + 1 + q[n].n
    BY <1>1, <1>2, <2>2
  <2> QED  BY <2>1, <2>2
<1> SUFFICES ASSUME NEW w \in 1..(m - 1), q[w].op = "when", m <= w + q[w].n PROVE FALSE
  BY DEF Covered
<1>4. w \in Nat
  BY <1>3
<1>5. CASE w < n
  <2>1. w \in 1..(n - 1) /\ w \in 1..Len(q)
    BY <1>1, <1>4, <1>3, <1>5
  <2>2. q[w].n \in Nat
    BY <2>1 DEF Calm
  <2>3. n <= w + q[w].n
    BY <1>1, <1>3, <1>4, <2>2
  <2> QED  BY <2>1, <2>3 DEF Covered
<1>6. CASE w = n
  BY <1>1, <1>2, <1>6
<1>7. CASE w > n
  <2>1. q[n].op = "when" /\ m = n + 1 + q[n].n /\ q[n].n \in Nat
    BY <1>1, <1>2, <1>3, <1>4, <1>7
  <2> DEFINE i == w - n
  <2>2. i \in 1..q[n].n /\ n + i = w
    BY <1>1, <1>3, <1>4, <1>7, <2>1
  <2> HIDE DEF i
  <2> QED  BY <1>2, <2>1, <2>2
<1> QED  BY <1>1, <1>4, <1>5, <1>6, <1>7

\* The first call is in no block.
LEMMA FirstOutside ==
  ASSUME NEW q
  PROVE  ~Covered(q, 1) /\ \A dep, done : SettledTo(q, 1, dep, done)
<1>1. 1..(1 - 1) = {}
  OBVIOUS
<1> QED  BY <1>1 DEF Covered, SettledTo

\* A script that runs at every deployment of this network.
Recurs(s) == s.once # TRUE /\ s.req \subseteq Site.tags

\* Every script that has had its turn is settled, and only scripts that are
\* run once are recorded.
SettledInv ==
  /\ exported => \A i \in 1..Len(Plan[network]) :
       Recurs(Plan[network][i]) => Settled(Plan[network][i].calls, deployed, chain.done)
  /\ status = "deploy" => \A i \in 1..(at - 1) :
       Recurs(Plan[network][i]) => Settled(Plan[network][i].calls, deployed, chain.done)
  /\ status = "deploy" /\ pc # 0 /\ Script.once # TRUE =>
       SettledTo(Script.calls, pc, deployed, chain.done)
  /\ \A i \in 1..Len(Plan[network]) :
       Plan[network][i].id \in migrations => Plan[network][i].once = TRUE

\* A deployment run again has deployed nothing and is in no block.
OutsideInv ==
  /\ status = "idle" \/ (status = "deploy" /\ exported) => ~fresh
  /\ status = "deploy" /\ exported /\ pc # 0 => ~Covered(Script.calls, pc)

\* The script of a deployment.
LEMMA DeployScript ==
  ASSUME Shape, status = "deploy"
  PROVE  /\ Script = Plan[network][at] /\ at \in 1..Len(Plan[network])
         /\ Script.once # TRUE => Calm(Script.calls)
         /\ Len(Script.calls) \in Nat /\ DOMAIN Script.calls = 1..Len(Script.calls)
<1>1. PlanOk(Plan[network])
  BY PlanFacts DEF Shape
<1>2. Script = Plan[network][at] /\ at \in 1..Len(Plan[network]) /\ at \in DOMAIN Plan[network]
  BY <1>1 DEF Script, Shape, PlanOk
<1>3. Plan[network] = RunOrder(Files(Networks[network]))
  BY DEF Plan, Shape
<1>4. Repeats(Script)
  <2>1. \A i \in DOMAIN RunOrder(Files(Networks[network])) : Repeats(RunOrder(Files(Networks[network]))[i])
    BY PlanRepeats
  <2> QED  BY <1>2, <1>3, <2>1
<1>5. Understood(Script)
  BY ScriptFacts
<1> QED  BY <1>2, <1>4, <1>5 DEF Repeats, Understood

\* Once a deployment has finished, the scripts that are run once are recorded.
LEMMA NotOnceAgain ==
  ASSUME Shape, InTurn, exported, status = "deploy", pc # 0
  PROVE  Recurs(Script)
<1>1. Script = Plan[network][at] /\ at \in 1..Len(Plan[network])
  BY DeployScript
<1>2. Script.id \notin migrations /\ Script.req \subseteq Site.tags
  BY DEF InTurn, Skipped
<1>3. ~Applies(Script)
  BY <1>1, <1>2 DEF InTurn
<1> QED  BY <1>2, <1>3 DEF Applies, Recurs

\* Settled lists stay so.
LEMMA SettledStays ==
  ASSUME Shape, ChainShape(chain), [Next]_vars, NEW q
  PROVE  /\ Settled(q, deployed, chain.done) => Settled(q, deployed', chain'.done)
         /\ \A n : SettledTo(q, n, deployed, chain.done) => SettledTo(q, n, deployed', chain'.done)
<1>1. chain.done \subseteq chain'.done /\ deployed \subseteq deployed'
  BY Grows
<1>2. \A j : Found(q, j, deployed, chain.done) => Found(q, j, deployed', chain'.done)
  BY <1>1, FoundStays
<1> QED  BY <1>2 DEF Settled, SettledTo

\* The script that is left behind is settled.
LEMMA SettledNext ==
  ASSUME Shape, ChainShape(chain), SettledInv, [Next]_vars, status # "idle", NextScript,
         network' = network,
         status = "deploy" /\ Recurs(Script) => Settled(Script.calls, deployed', chain'.done),
         \A i \in 1..Len(Plan[network]) :
           Plan[network][i].id \in migrations' => Plan[network][i].once = TRUE
  PROVE  SettledInv'
<1>1. PlanOk(Plan[network])
  BY PlanFacts DEF Shape
<1> DEFINE p == Plan[network]
           Good(i) == Recurs(p[i]) => Settled(p[i].calls, deployed', chain'.done)
<1>2. Site' = Site /\ \A s : Recurs(s)' <=> Recurs(s)
  BY DEF Site, Recurs
<1>3. exported => \A i \in 1..Len(p) : Good(i)
  BY SettledStays DEF SettledInv
<1>4. status = "deploy" => \A i \in 1..(at - 1) : Good(i)
  BY SettledStays DEF SettledInv
<1>5. status = "deploy" => at \in 1..Len(p) /\ Good(at)
  BY DeployScript
<1>6. Len(p) \in Nat
  BY <1>1 DEF PlanOk
<1>7. status = "deploy" => \A i \in 1..at : Good(i)
  <2> SUFFICES ASSUME status = "deploy", NEW i \in 1..at PROVE Good(i)
    OBVIOUS
  <2>1. i = at \/ i \in 1..(at - 1)
    BY <1>5, <1>6
  <2> HIDE DEF Good
  <2> QED  BY <1>4, <1>5, <2>1
<1> HIDE DEF Good
<1>8. CASE status = "deploy" /\ at < Len(p)
  <2>1. status' = "deploy" /\ at' = at + 1 /\ pc' = 0 /\ exported' = exported
    BY <1>8 DEF NextScript
  <2>2. \A i \in 1..((at + 1) - 1) : Good(i)
    BY <1>5, <1>6, <1>7, <1>8
  <2> QED  BY <1>2, <1>3, <2>1, <2>2 DEF SettledInv, Recurs, Site, Good
<1>9. CASE status = "deploy" /\ ~(at < Len(p))
  <2>1. status' = "idle" /\ pc' = 0
    BY <1>9 DEF NextScript, Stop
  <2>2. at = Len(p)
    BY <1>5, <1>6, <1>9
  <2>3. \A i \in 1..Len(p) : Good(i)
    BY <1>7, <1>9, <2>2
  <2> QED  BY <1>2, <2>1, <2>3 DEF SettledInv, Recurs, Site, Good
<1>10. CASE status = "job"
  <2>1. status' = "idle" /\ pc' = 0 /\ exported' = exported
    BY <1>10 DEF NextScript, Stop, Shape
  <2> QED  BY <1>2, <1>3, <2>1 DEF SettledInv, Recurs, Site, Good
<1> QED  BY <1>8, <1>9, <1>10 DEF Shape

\* No other step leaves a script behind.
LEMMA SettledStill ==
  ASSUME Shape, ChainShape(chain), SettledInv, [Next]_vars,
         UNCHANGED <<network, migrations, exported>>,
         \/ status' = "idle"
         \/ status' = "deploy" /\ at' = 1 /\ pc' = 0
         \/ status' = "job"
         \/ /\ UNCHANGED <<status, at>>
            /\ status = "deploy" /\ pc' # 0 /\ Script.once # TRUE =>
                 SettledTo(Script.calls, pc', deployed', chain'.done)
  PROVE  SettledInv'
<1> DEFINE p == Plan[network]
           Good(i) == Recurs(p[i]) => Settled(p[i].calls, deployed', chain'.done)
<1>1. Site' = Site /\ \A s : Recurs(s)' <=> Recurs(s)
  BY DEF Site, Recurs
<1>2. exported => \A i \in 1..Len(p) : Good(i)
  BY SettledStays DEF SettledInv
<1>3. status = "deploy" => \A i \in 1..(at - 1) : Good(i)
  BY SettledStays DEF SettledInv
<1> HIDE DEF Good
<1>4. CASE status' = "idle" \/ status' = "job"
  BY <1>1, <1>2, <1>4 DEF SettledInv, Recurs, Site, Good
<1>5. CASE status' = "deploy" /\ at' = 1 /\ pc' = 0
  <2>1. 1..(1 - 1) = {}
    OBVIOUS
  <2> QED  BY <1>1, <1>2, <1>5, <2>1 DEF SettledInv, Recurs, Site, Good
<1>6. CASE /\ UNCHANGED <<status, at>>
           /\ status = "deploy" /\ pc' # 0 /\ Script.once # TRUE =>
                SettledTo(Script.calls, pc', deployed', chain'.done)
  <2>1. Script' = Script
    BY <1>6, SameScript
  <2> QED  BY <1>1, <1>2, <1>3, <1>6, <2>1 DEF SettledInv, Recurs, Site, Good
<1> QED  BY <1>4, <1>5, <1>6

\* A call of the script.
LEMMA SettledCall ==
  ASSUME Shape, ChainShape(chain), SettledInv, [Next]_vars,
         GetCall \/ WhenCall \/ DeployCall \/ MethodCall
  PROVE  SettledInv'
<1>1. InBody /\ UNCHANGED <<network, migrations, exported, status, at>>
  BY DEF GetCall, WhenCall, DeployCall, MethodCall
<1>2. ASSUME status = "deploy", Script.once # TRUE
      PROVE  SettledTo(Script.calls, pc', deployed', chain'.done)
  <2> DEFINE q == Script.calls
  <2>1. Calm(q) /\ pc \in 1..Len(q) /\ Len(q) \in Nat /\ NextCall = q[pc]
    BY <1>1, <1>2, DeployScript DEF InBody, NextCall
  <2>2. pc # 0
    BY <2>1
  <2>3. SettledTo(q, pc, deployed, chain.done)
    BY <1>2, <2>2 DEF SettledInv
  <2>4. chain.done \subseteq chain'.done /\ deployed \subseteq deployed'
    BY Grows
  <2>5. \/ q[pc].op = "get" /\ pc' = pc + 1
        \/ q[pc].op = "deploy" /\ q[pc].c \in deployed' /\ pc' = pc + 1
        \/ q[pc].op = "call" /\ <<q[pc].c, q[pc].f, q[pc].x>> \in chain'.done /\ pc' = pc + 1
        \/ q[pc].op = "when" /\ pc' = pc + 1
        \/ q[pc].op = "when" /\ pc' = pc + 1 + q[pc].n /\ (q[pc].test = "missing" =>
             q[pc].x \in deployed')
    <3> HIDE DEF q
    <3>1. CASE GetCall
      BY <2>1, <3>1 DEF GetCall
    <3>2. CASE DeployCall
      BY <2>1, <3>2 DEF DeployCall
    <3>3. CASE MethodCall
      <4>1. Send
        BY <3>3 DEF MethodCall, Send, Stay, Throws
      <4> QED  BY <2>1, <3>3, <4>1, CallKeeps DEF MethodCall
    <3>4. CASE WhenCall
      <4>1. q[pc].op = "when"
        BY <2>1, <3>4 DEF WhenCall
      <4>2. CASE Test(NextCall)
        <5>1. pc' = pc + 1 + 0
          BY <3>4, <4>2 DEF WhenCall
        <5> QED  BY <2>1, <4>1, <5>1
      <4>3. CASE ~Test(NextCall)
        <5>1. pc' = pc + 1 + q[pc].n
          BY <2>1, <3>4, <4>3 DEF WhenCall
        <5>2. q[pc].test = "missing" => q[pc].x \in deployed
          BY <2>1, <4>3 DEF Test
        <5> QED  BY <2>4, <4>1, <5>1, <5>2
      <4> QED  BY <4>2, <4>3
    <3> QED  BY <3>1, <3>2, <3>3, <3>4
  <2> HIDE DEF q
  <2>6. SettledTo(q, pc', deployed', chain'.done)
    BY <2>1, <2>3, <2>4, <2>5, SettledGo
  <2> QED  BY <2>6 DEF q
<1> QED  BY <1>1, <1>2, SettledStill

\* Every step keeps what has been settled.
LEMMA SettledStep ==
  ASSUME Shape, InTurn, ChainShape(chain), SettledInv, [Next]_vars
  PROVE  SettledInv'
<1>1. CASE UNCHANGED vars
  <2>1. SettledInv' = SettledInv
    BY <1>1, SameScript DEF SettledInv, vars, Recurs, Site
  <2> QED  BY <2>1
<1>2. CASE RunDeploy \/ RunJob
  BY <1>2, SettledStill DEF RunDeploy, RunJob
<1>3. CASE SkipScript
  <2>1. ~(status = "deploy" /\ Recurs(Script))
    <3>1. status = "deploy" => Script = Plan[network][at] /\ at \in 1..Len(Plan[network])
      BY DeployScript
    <3> QED  BY <1>3, <3>1 DEF SkipScript, Skipped, SettledInv, Recurs
  <2>2. status # "idle" /\ NextScript /\ network' = network /\ migrations' = migrations
    BY <1>3 DEF SkipScript
  <2>3. \A i \in 1..Len(Plan[network]) :
          Plan[network][i].id \in migrations' => Plan[network][i].once = TRUE
    BY <2>2 DEF SettledInv
  <2> QED  BY <2>1, <2>2, <2>3, SettledNext
<1>4. CASE FinishScript
  <2>1. /\ status # "idle" /\ NextScript /\ network' = network /\ pc = Len(Script.calls) + 1
        /\ migrations' = IF Script.once THEN migrations \cup {Script.id} ELSE migrations
        /\ chain' = chain /\ deployed' = deployed
    BY <1>4 DEF FinishScript
  <2>2. ASSUME status = "deploy", Recurs(Script) PROVE Settled(Script.calls, deployed', chain'.done)
    <3>1. Calm(Script.calls) /\ Len(Script.calls) \in Nat /\ Script.once # TRUE
      BY <2>2, DeployScript DEF Recurs
    <3>2. pc # 0
      BY <2>1, <3>1
    <3>3. SettledTo(Script.calls, Len(Script.calls) + 1, deployed, chain.done)
      BY <2>1, <2>2, <3>1, <3>2 DEF SettledInv
    <3> QED  BY <2>1, <3>1, <3>3, SettledEnd
  <2>3. ASSUME NEW i \in 1..Len(Plan[network]), Plan[network][i].id \in migrations'
        PROVE  Plan[network][i].once = TRUE
    <3>1. CASE Plan[network][i].id \in migrations
      BY <3>1 DEF SettledInv
    <3>2. CASE Script.once /\ Plan[network][i].id = Script.id
      <4>1. status = "deploy"
        BY <2>1, <3>2, ScriptFacts DEF Shape
      <4>2. Script = Plan[network][at] /\ at \in 1..Len(Plan[network])
        BY <4>1, DeployScript
      <4>3. PlanOk(Plan[network])
        BY PlanFacts DEF Shape
      <4>4. i = at
        BY <3>2, <4>2, <4>3 DEF PlanOk
      <4>5. Script.once \in BOOLEAN
        BY <4>2, <4>3 DEF PlanOk, Sound
      <4> QED  BY <3>2, <4>2, <4>4, <4>5
    <3> QED  BY <2>1, <2>3, <3>1, <3>2
  <2> QED  BY <2>1, <2>2, <2>3, SettledNext
<1>5. CASE Fail \/ Crash
  BY <1>5, SettledStill DEF Fail, Crash, Stop
<1>6. CASE EnterScript
  <2>1. UNCHANGED <<network, migrations, exported, status, at>> /\ pc' = 1
    BY <1>6 DEF EnterScript
  <2>2. SettledTo(Script.calls, pc', deployed', chain'.done)
    BY <2>1, FirstOutside
  <2> QED  BY <2>1, <2>2, SettledStill
<1>7. CASE GetCall \/ WhenCall \/ DeployCall \/ MethodCall
  BY <1>7, SettledCall
<1>8. CASE FundDeployer \/ HandOver
  <2>1. UNCHANGED <<network, migrations, exported, status, at, pc>>
    BY <1>8 DEF FundDeployer, HandOver, run
  <2>2. status = "deploy" /\ pc # 0 /\ Script.once # TRUE =>
          SettledTo(Script.calls, pc, deployed', chain'.done)
    BY SettledStays DEF SettledInv
  <2> QED  BY <2>1, <2>2, SettledStill
<1> QED  BY <1>1, <1>2, <1>3, <1>4, <1>5, <1>6, <1>7, <1>8 DEF Next, RunStep

\* A record is the function of its fields.
IsRecord(ch) == ch = [f \in DOMAIN ch |-> ch[f]]

\* A record with a field replaced is one.
LEMMA RecordExcept ==
  ASSUME NEW ch, NEW f, NEW e
  PROVE  IsRecord([ch EXCEPT ![f] = e])
  BY DEF IsRecord

\* A call leaves a record.
LEMMA RecordApply ==
  ASSUME NEW ch, NEW who, NEW k
  PROVE  IsRecord(Apply(ch, who, k))
<1> DEFINE d == [ch EXCEPT !.done = @ \cup {<<k.c, k.f, k.x>>}]
           paid == LET n == PrntAmount(ch, k.x) IN
             [d EXCEPT !.prnt = [p \in DOMAIN @ |-> @[p]
              + (IF p = Payee(k.x) THEN n ELSE 0) - (IF p = who THEN n ELSE 0)]]
           c == Apply(ch, who, k)
<1>1. IsRecord(d)
  BY RecordExcept
<1>2. c = CASE k.f = "setPoolAdmin" -> [d EXCEPT !.poolAdmin = k.x]
    [] k.f = "setAdmin"     -> [d EXCEPT !.feeAdmin = k.x]
    [] k.c = "LendingRateOracle" /\ k.f = "transferOwnership" ->
         [d EXCEPT !.rateOwner = k.x]
    [] k.f = "setOracleOwnership" -> [d EXCEPT !.rateOwner = k.x]
    [] k.f = "setPoolPause" -> [d EXCEPT !.paused = (k.x = "true")]
    [] k.c = "PrimeToken" /\ k.f = "transfer" -> paid
    [] k.c = "Base" /\ k.f = "deposit" ->
         [d EXCEPT !.base["deployer"] = AddBase(@)]
    [] k.c = "Base" /\ k.f = "transfer" ->
         [d EXCEPT !.base["deployer"] = @ - LpInitEth, !.base["PoolHelper"] = AddBase(@)]
    [] k.f = "initializePool" ->
         [d EXCEPT !.pool = <<ch.base["PoolHelper"], ch.prnt["PoolHelper"]>>,
                   !.base["PoolHelper"] = 0, !.prnt["PoolHelper"] = 0]
    [] k.f = "registerRewardDeposit" ->
         [d EXCEPT !.registered = @ + (IF k.x = "allReserve" THEN 0 ELSE CicReserve)]
    [] OTHER -> d
  BY DEF Apply
<1>3. IsRecord(paid)
  BY RecordExcept
<1>4. IsRecord([d EXCEPT !.base["deployer"] = @ - LpInitEth, !.base["PoolHelper"] = AddBase(@)])
  BY RecordExcept
<1>5. IsRecord([d EXCEPT !.pool = <<ch.base["PoolHelper"], ch.prnt["PoolHelper"]>>,
                   !.base["PoolHelper"] = 0, !.prnt["PoolHelper"] = 0])
  BY RecordExcept
<1>6. IsRecord([d EXCEPT !.registered = @ + (IF k.x = "allReserve" THEN 0 ELSE CicReserve)])
  BY RecordExcept
<1>7. IsRecord([d EXCEPT !.base["deployer"] = AddBase(@)])
  BY RecordExcept
<1>8. /\ IsRecord([d EXCEPT !.poolAdmin = k.x]) /\ IsRecord([d EXCEPT !.feeAdmin = k.x])
      /\ IsRecord([d EXCEPT !.rateOwner = k.x]) /\ IsRecord([d EXCEPT !.paused = (k.x = "true")])
  BY RecordExcept
<1> HIDE DEF d, paid, c
<1>9. IsRecord(c)
  BY <1>1, <1>2, <1>3, <1>4, <1>5, <1>6, <1>7, <1>8
<1> QED  BY <1>9 DEF c

\* A call that can be made again changes nothing the second time.
LEMMA ApplyAgain ==
  ASSUME NEW ch, IsRecord(ch), ChainShape(ch), NEW who, NEW k, Again(k),
         <<k.c, k.f, k.x>> \in ch.done
  PROVE  Apply(ch, who, k) = ch
<1> DEFINE d == [ch EXCEPT !.done = @ \cup {<<k.c, k.f, k.x>>}]
<1>1. k.f \in {"setBounties", "setUsePool"}
  BY DEF Again, Repeatable
<1>2. d = ch
  <2>1. ch.done \cup {<<k.c, k.f, k.x>>} = ch.done
    OBVIOUS
  <2>2. DOMAIN d = DOMAIN ch /\ \A f \in DOMAIN ch : d[f] = ch[f]
    BY <2>1 DEF ChainShape
  <2>3. IsRecord(d)
    BY RecordExcept
  <2> HIDE DEF d
  <2> QED  BY <2>2, <2>3 DEF IsRecord
<1>3. Apply(ch, who, k) = d
  BY <1>1 DEF Apply
<1> QED  BY <1>2, <1>3

\* The chain is a record.
LEMMA RecordStep ==
  ASSUME Shape, IsRecord(chain), [Next]_vars
  PROVE  IsRecord(chain')
<1>1. CASE UNCHANGED vars
  BY <1>1 DEF vars
<1>2. CASE Turn \/ Finish \/ Enter \/ Pass
  BY <1>2 DEF Turn, Finish, Enter, Pass
<1>3. CASE Build
  <2>1. chain' = chain \/ chain' = [chain EXCEPT !.prnt[Account("dao")] = @ + MintAmt]
    BY <1>3 DEF Build
  <2> QED  BY <2>1 DEF IsRecord
<1>4. CASE Send
  <2>1. chain' = Apply(chain, Sender(NextCall), NextCall)
    BY <1>4 DEF Send
  <2> QED  BY <2>1, RecordApply
<1>5. CASE People
  <2>1. \/ chain' = [chain EXCEPT !.prnt["dao"] = @ - PrntRequired,
             !.prnt["deployer"] = @ + PrntRequired]
        \/ chain' = [chain EXCEPT !.owner = "multisig"]
    BY <1>5 DEF People, FundDeployer, HandOver
  <2> QED  BY <2>1 DEF IsRecord
<1> QED  BY <1>1, <1>2, <1>3, <1>4, <1>5, StepKinds

\* In a deployment run again, a call of a script finds its work done.
LEMMA CallAgain ==
  ASSUME Shape, InTurn, ChainShape(chain), IsRecord(chain), SettledInv, OutsideInv,
         exported, status = "deploy", GetCall \/ WhenCall \/ DeployCall \/ MethodCall
  PROVE  /\ UNCHANGED <<chain, deployed, migrations>>
         /\ ~fresh' /\ ~Covered(Script.calls, pc')
<1> DEFINE q == Script.calls
<1>1. InBody /\ UNCHANGED <<migrations, exported, status, at>>
  BY DEF GetCall, WhenCall, DeployCall, MethodCall
<1>2. pc \in 1..Len(q) /\ Len(q) \in Nat /\ NextCall = q[pc]
  BY <1>1, DeployScript DEF InBody, NextCall
<1>3. pc # 0
  BY <1>2
<1>4. Recurs(Script)
  BY <1>3, NotOnceAgain
<1>5. Calm(q) /\ Script = Plan[network][at] /\ at \in 1..Len(Plan[network])
  BY <1>4, DeployScript DEF Recurs
<1>6. Found(q, pc, deployed, chain.done)
  BY <1>2, <1>4, <1>5 DEF SettledInv, Settled
<1>7. ~Covered(q, pc) /\ ~fresh
  BY <1>3 DEF OutsideInv
<1> HIDE DEF q
<1>8. CASE GetCall
  <2>1. q[pc].op # "when" /\ pc' = pc + 1
    BY <1>2, <1>8 DEF GetCall
  <2>2. ~Covered(q, pc')
    BY <1>2, <1>5, <1>7, <2>1, OutsideGo
  <2> QED  BY <1>7, <1>8, <2>2 DEF GetCall, q
<1>9. CASE WhenCall
  <2>1. q[pc].op = "when" /\ pc' = pc + 1 + (IF Test(NextCall) THEN 0 ELSE NextCall.n)
    BY <1>2, <1>9 DEF WhenCall
  <2>2. CalmTest(q, pc)
    BY <1>2, <1>5, <2>1 DEF Calm
  <2>3. ~Test(NextCall)
    BY <1>2, <1>6, <1>7, <2>1, <2>2 DEF Test, CalmTest, Found
  <2>4. pc' = pc + 1 + q[pc].n
    BY <1>2, <2>1, <2>3
  <2>5. ~Covered(q, pc')
    BY <1>2, <1>5, <1>7, <2>1, <2>4, OutsideGo
  <2> QED  BY <1>7, <1>9, <2>5 DEF WhenCall, q
<1>10. CASE DeployCall
  <2>1. q[pc].op = "deploy" /\ pc' = pc + 1
    BY <1>2, <1>10 DEF DeployCall
  <2>2. NextCall.c \in deployed
    BY <1>2, <1>6, <1>7, <2>1 DEF Found
  <2>3. deployed' = deployed /\ chain' = chain /\ fresh' = FALSE
    BY <1>10, <2>2 DEF DeployCall
  <2>4. ~Covered(q, pc')
    BY <1>2, <1>5, <1>7, <2>1, OutsideGo
  <2> QED  BY <1>1, <2>3, <2>4 DEF q
<1>11. CASE MethodCall
  <2>1. q[pc].op = "call" /\ pc' = pc + 1 /\ deployed' = deployed /\ fresh' = fresh
        /\ chain' = Apply(chain, Sender(NextCall), NextCall)
    BY <1>2, <1>11 DEF MethodCall
  <2>2. Again(NextCall) /\ <<NextCall.c, NextCall.f, NextCall.x>> \in chain.done
    BY <1>2, <1>5, <1>6, <1>7, <2>1 DEF Found, Calm
  <2>3. chain' = chain
    BY <2>1, <2>2, ApplyAgain
  <2>4. ~Covered(q, pc')
    BY <1>2, <1>5, <1>7, <2>1, OutsideGo
  <2> QED  BY <1>1, <1>7, <2>1, <2>3, <2>4 DEF q
<1> QED  BY <1>8, <1>9, <1>10, <1>11

\* Every step keeps OutsideInv.
LEMMA OutsideStep ==
  ASSUME Shape, InTurn, ChainShape(chain), IsRecord(chain), SettledInv, OutsideInv, [Next]_vars
  PROVE  OutsideInv'
<1>1. CASE UNCHANGED vars
  <2>1. OutsideInv' = OutsideInv
    BY <1>1, SameScript DEF OutsideInv, vars
  <2> QED  BY <2>1
<1>2. CASE RunDeploy \/ RunJob
  BY <1>2 DEF RunDeploy, RunJob, OutsideInv
<1>3. CASE SkipScript \/ FinishScript
  <2>1. fresh' = FALSE /\ pc' = 0
    BY <1>3 DEF SkipScript, FinishScript, NextScript, Stop
  <2> QED  BY <2>1 DEF OutsideInv
<1>4. CASE Fail \/ Crash
  <2>1. fresh' = FALSE /\ status' = "idle"
    BY <1>4 DEF Fail, Crash, Stop
  <2> QED  BY <2>1 DEF OutsideInv
<1>5. CASE EnterScript
  <2>1. fresh' = FALSE /\ pc' = 1 /\ ~Covered(Script'.calls, 1)
    BY <1>5, FirstOutside DEF EnterScript
  <2> QED  BY <2>1 DEF OutsideInv
<1>6. CASE GetCall \/ WhenCall \/ DeployCall \/ MethodCall
  <2>1. InBody /\ UNCHANGED <<network, exported, status, at>>
    BY <1>6 DEF GetCall, WhenCall, DeployCall, MethodCall
  <2>2. Script' = Script /\ status # "idle"
    BY <2>1, SameScript DEF InBody
  <2>3. exported /\ status = "deploy" => ~fresh' /\ ~Covered(Script.calls, pc')
    BY <1>6, CallAgain
  <2> QED  BY <2>1, <2>2, <2>3 DEF OutsideInv
<1>7. CASE FundDeployer \/ HandOver
  <2>1. UNCHANGED <<network, status, at, pc, exported, fresh>>
    BY <1>7 DEF FundDeployer, HandOver, run
  <2>2. Script' = Script
    BY <2>1, SameScript
  <2> QED  BY <2>1, <2>2 DEF OutsideInv
<1> QED  BY <1>1, <1>2, <1>3, <1>4, <1>5, <1>6, <1>7 DEF Next, RunStep

\* What a deployment run again relies on.
AgainInv == /\ Shape /\ InTurn /\ ChainShape(chain) /\ IsRecord(chain)
            /\ SettledInv /\ OutsideInv

\* It holds throughout.
LEMMA AgainAlways == Spec => []AgainInv
<1>1. Init => AgainInv
  <2> SUFFICES ASSUME Init PROVE AgainInv
    OBVIOUS
  <2>1. status = "idle" /\ exported = FALSE /\ fresh = FALSE /\ migrations = {}
    BY DEF Init
  <2>2. IsRecord(chain)
    <3>1. chain = EmptyChain("PrimeToken" \in Site.recorded, Account("dao"))
      BY DEF Init
    <3> QED  BY <3>1 DEF EmptyChain, IsRecord
  <2>3. SettledInv /\ OutsideInv
    BY <2>1 DEF SettledInv, OutsideInv
  <2> QED  BY <2>2, <2>3, ShapeInit, InTurnInit, ChainInit DEF AgainInv
<1>2. AgainInv /\ [Next]_vars => AgainInv'
  <2> SUFFICES ASSUME AgainInv, [Next]_vars PROVE AgainInv'
    OBVIOUS
  <2>1. Shape' /\ InTurn'
    BY ShapeStep, InTurnStep DEF AgainInv
  <2>2. ChainShape(chain)' /\ IsRecord(chain)'
    BY Grows, RecordStep DEF AgainInv
  <2>3. SettledInv' /\ OutsideInv'
    BY SettledStep, OutsideStep DEF AgainInv
  <2> QED  BY <2>1, <2>2, <2>3 DEF AgainInv
<1> QED  BY <1>1, <1>2, PTL DEF Spec

(* Whatever the networks, and however the deployment came to its end, a    *)
(* deployment that is run again after it has finished once deploys no      *)
(* contract, changes no contract's state and records no script.            *)
THEOREM RerunSendsNothingNew == Spec => RerunChangesNothing
<1>1. ASSUME AgainInv, exported, status = "deploy", RunStep
      PROVE  UNCHANGED <<chain, deployed, migrations>>
  <2> USE DEF AgainInv
  <2>1. CASE SkipScript \/ EnterScript \/ Fail
    BY <2>1 DEF SkipScript, EnterScript, Fail
  <2>2. CASE GetCall \/ WhenCall \/ DeployCall \/ MethodCall
    BY <1>1, <2>2, CallAgain
  <2>3. CASE FinishScript
    <3>1. Len(Script.calls) \in Nat /\ pc = Len(Script.calls) + 1
      BY <1>1, <2>3, DeployScript DEF FinishScript
    <3>2. pc # 0
      BY <3>1
    <3>3. Recurs(Script)
      BY <1>1, <3>2, NotOnceAgain
    <3>4. ~Script.once
      <4>1. PlanOk(Plan[network])
        BY <1>1, PlanFacts DEF Shape
      <4>2. Script.once \in BOOLEAN
        BY <1>1, <4>1, DeployScript DEF PlanOk, Sound
      <4> QED  BY <3>3, <4>2 DEF Recurs
    <3> QED  BY <2>3, <3>4 DEF FinishScript
  <2> QED  BY <1>1, <2>1, <2>2, <2>3 DEF RunStep
<1>2. AgainInv => (exported /\ status = "deploy" /\ RunStep => UNCHANGED <<chain, deployed,
  migrations>>)
  BY <1>1
<1> QED  BY <1>2, AgainAlways, PTL DEF RerunChangesNothing
==============================================================================
