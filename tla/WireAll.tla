------------------------------- MODULE WireAll -------------------------------
(***************************************************************************)
(* The task wireAll, which makes the token's contracts on several networks *)
(* trust one another.  For every local network it reads each setting it    *)
(* cares about and notes the ones that do not hold their configured value; *)
(* when every read has returned it either sends one transaction per noted  *)
(* setting or proposes them as one batch to the network's Safe.  Networks  *)
(* are read and written concurrently; what is noted is not read again.     *)
(* The operator repeats the command; others can change a setting, and the  *)
(* Safe's owners carry out its batches, at any time.                       *)
(***************************************************************************)
EXTENDS Naturals, Sequences

CONSTANTS
  Networks,        \* the networks of the wiring configuration
  PacketTypes,     \* indices of minDstGasConfig
  StageNetworks,   \* "mainnet" and "testnet" to the networks of that stage
  ProxyChain,      \* environment to the network with the proxy contract
  ProxyNames,      \* environments for which proxyContractName is configured
  GnosisNetworks,  \* the networks of GNOSIS_CONFIG
  Requests,        \* the task's arguments: [e, s, d, n]
  MaxFailures,     \* bound on failed calls and kills
  MaxDrift,        \* bound on settings changed by others
  MaxQueue         \* bound on the batches waiting in a Safe at a start

ASSUME RequestsAssumption ==
  /\ PacketTypes \subseteq Nat
  /\ DOMAIN StageNetworks = {"mainnet", "testnet"}
  /\ DOMAIN ProxyChain = {"mainnet", "testnet"}
  /\ \A q \in Requests : q.s \subseteq Networks /\ q.d \subseteq Networks /\ q.n \in BOOLEAN
ASSUME BoundsAssumption == MaxFailures \in Nat /\ MaxDrift \in Nat /\ MaxQueue \in Nat

VARIABLES
  request,         \* the command the operator repeats
  phase,           \* "idle", "reading" or "committing"
  result,          \* how the last run ended
  wired,           \* network -> settings that hold the configured value
  unread,          \* network -> settings not read yet in this run
  needs,           \* network -> settings noted and not written yet
  pending,         \* networks whose writes have not settled
  failed,          \* networks in errs
  proposals,       \* network -> batches waiting in its Safe, by nonce
  drifted,         \* network -> settings others changed since the run started
  failures, drifts \* counters of the two bounds

run  == <<phase, result, unread, needs, pending, failed>>
vars == <<request, run, wired, proposals, drifted, failures, drifts>>

(* What is set on local network l for the remote networks d: whether the   *)
(* adapter parameters are custom, and per remote its trusted path and the  *)
(* least gas of each packet type.                                          *)
Settings(l, d) ==
  {<<"adapter">>} \cup {<<"remote", r>> : r \in d \ {l}}
                  \cup {<<"gas", r, p>> : r \in d \ {l}, p \in PacketTypes}
AllSettings == UNION {Settings(l, Networks) : l \in Networks}

(* The order within a network: the adapter first; then the remotes, whose  *)
(* branches interleave, each from the trusted path to the last packet type.*)
Before(a, b) ==
  \/ a[1] = "adapter" /\ b[1] # "adapter"
  \/ a[1] = "remote" /\ b[1] = "gas" /\ a[2] = b[2]
  \/ a[1] = "gas" /\ b[1] = "gas" /\ a[2] = b[2] /\ a[3] < b[3]
First(S) == {a \in S : \A b \in S : ~Before(b, a)}

Valid(q) ==
  /\ q.e \in DOMAIN StageNetworks
  /\ q.s \cup q.d \subseteq StageNetworks[q.e]

\* What the command sets on l.
Asked(l) == IF l \in request.s THEN Settings(l, request.d) ELSE {}

(* The name of the contract on a network: reading it throws on the proxy   *)
(* chain of an environment that has no proxyContractName.                  *)
NameKnown(l) == request.e \in ProxyNames \/ ProxyChain[request.e] # l

Init ==
  /\ request \in Requests
  /\ phase = "idle" /\ result = "none"
  /\ \E S \in SUBSET {x \in Networks \X AllSettings : x[2] \in Asked(x[1])} :
       wired = [l \in Networks |-> {x[2] : x \in {y \in S : y[1] = l}}]
  /\ unread = [l \in Networks |-> {}] /\ needs = [l \in Networks |-> {}]
  /\ pending = {} /\ failed = {}
  /\ proposals = [l \in Networks |-> <<>>] /\ drifted = [l \in Networks |-> {}]
  /\ failures = 0 /\ drifts = 0

\* The arguments are checked before anything is read.
Refuse ==
  /\ phase = "idle" /\ ~Valid(request)
  /\ result' = "refused"
  /\ UNCHANGED <<request, phase, unread, needs, pending, failed, wired, proposals,
                 drifted, failures, drifts>>

Start ==
  /\ phase = "idle" /\ Valid(request) /\ result # "noChanges"
  /\ \A l \in Networks : Len(proposals[l]) < MaxQueue
  /\ phase' = "reading" /\ result' = "none"
  /\ unread' = [l \in Networks |-> Asked(l)]
  /\ needs' = [l \in Networks |-> {}] /\ pending' = {} /\ failed' = {}
  /\ drifted' = [l \in Networks |-> {}]
  /\ UNCHANGED <<request, wired, proposals, failures, drifts>>

\* A remote's settings are read with the remote's contract at hand.
Readable(l, a) == NameKnown(l) /\ (a[1] # "adapter" => NameKnown(a[2]))

\* Mutant: the list of differences is started again at every difference.
ReadKeepsLast(l, a) ==
  /\ phase = "reading" /\ a \in First(unread[l]) /\ Readable(l, a)
  /\ unread' = [unread EXCEPT ![l] = @ \ {a}]
  /\ needs' = IF a \in wired[l] THEN needs ELSE [needs EXCEPT ![l] = {a}]
  /\ UNCHANGED <<request, phase, result, pending, failed, wired, proposals,
                 drifted, failures, drifts>>

Read(l, a) ==
  /\ phase = "reading" /\ a \in First(unread[l]) /\ Readable(l, a)
  /\ unread' = [unread EXCEPT ![l] = @ \ {a}]
  /\ needs' = IF a \in wired[l] THEN needs ELSE [needs EXCEPT ![l] = @ \cup {a}]
  /\ UNCHANGED <<request, phase, result, pending, failed, wired, proposals,
                 drifted, failures, drifts>>

(* What is thrown while the differences are computed rejects the whole     *)
(* task, before any write.                                                 *)
Throw(l, a) ==
  /\ phase = "reading" /\ a \in First(unread[l]) /\ ~Readable(l, a)
  /\ phase' = "idle" /\ result' = "thrown"
  /\ UNCHANGED <<request, unread, needs, pending, failed, wired, proposals,
                 drifted, failures, drifts>>

\* A read that fails does the same.
Abort ==
  /\ phase = "reading" /\ failures < MaxFailures
  /\ phase' = "idle" /\ result' = "thrown" /\ failures' = failures + 1
  /\ UNCHANGED <<request, unread, needs, pending, failed, wired, proposals, drifted, drifts>>

\* Mutant: one network without differences is taken for all.
NoChangesSomewhere ==
  /\ phase = "reading"
  /\ \A l \in Networks : unread[l] = {}
  /\ \E l \in request.s : needs[l] = {}
  /\ phase' = "idle" /\ result' = "noChanges"
  /\ UNCHANGED <<request, unread, needs, pending, failed, wired, proposals,
                 drifted, failures, drifts>>

NoChanges ==
  /\ phase = "reading"
  /\ \A l \in Networks : unread[l] = {} /\ needs[l] = {}
  /\ phase' = "idle" /\ result' = "noChanges"
  /\ UNCHANGED <<request, unread, needs, pending, failed, wired, proposals,
                 drifted, failures, drifts>>

\* A Safe is sent a batch even when it is empty.
BeginWrites ==
  /\ phase = "reading"
  /\ \A l \in Networks : unread[l] = {}
  /\ \E l \in Networks : needs[l] # {}
  /\ phase' = "committing"
  /\ pending' = IF request.n THEN request.s ELSE {l \in request.s : needs[l] # {}}
  /\ UNCHANGED <<request, result, unread, needs, failed, wired, proposals,
                 drifted, failures, drifts>>

(* executeTransaction, waited for; the next one follows.                   *)
Write(l, a) ==
  /\ phase = "committing" /\ ~request.n /\ l \in pending
  /\ a \in First(needs[l])
  /\ wired' = [wired EXCEPT ![l] = @ \cup {a}]
  /\ needs' = [needs EXCEPT ![l] = @ \ {a}]
  /\ pending' = IF needs[l] = {a} THEN pending \ {l} ELSE pending
  /\ UNCHANGED <<request, phase, result, unread, failed, proposals,
                 drifted, failures, drifts>>

\* Mutant: the error is logged and not noted.
WriteFailsUnnoted(l, a) ==
  /\ phase = "committing" /\ ~request.n /\ l \in pending
  /\ a \in First(needs[l]) /\ failures < MaxFailures
  /\ pending' = pending \ {l} /\ failures' = failures + 1
  /\ UNCHANGED <<request, phase, result, wired, unread, needs, failed, proposals, drifted, drifts>>

\* Mutant: the message is noted, and not the network it is about.
WriteFailsNotesMessage(l, a) ==
  /\ phase = "committing" /\ ~request.n /\ l \in pending
  /\ a \in First(needs[l]) /\ failures < MaxFailures
  /\ failed' = failed \cup {"execution reverted"} /\ pending' = pending \ {l}
  /\ failures' = failures + 1
  /\ UNCHANGED <<request, phase, result, wired, unread, needs, proposals, drifted, drifts>>

(* The call throws: refused, reverted, or mined with the receipt lost.     *)
(* The network's other transactions are given up; other networks go on.    *)
WriteFails(l, a) ==
  /\ phase = "committing" /\ ~request.n /\ l \in pending
  /\ a \in First(needs[l]) /\ failures < MaxFailures
  /\ wired' \in {wired, [wired EXCEPT ![l] = @ \cup {a}]}
  /\ failed' = failed \cup {l} /\ pending' = pending \ {l}
  /\ failures' = failures + 1
  /\ UNCHANGED <<request, phase, result, unread, needs, proposals, drifted, drifts>>

\* Mutant: the batch is proposed before it is filled.
ProposeEmpty(l) ==
  /\ phase = "committing" /\ request.n /\ l \in pending /\ l \in GnosisNetworks
  /\ proposals' = [proposals EXCEPT ![l] = Append(@, {})]
  /\ needs' = [needs EXCEPT ![l] = {}]
  /\ pending' = pending \ {l}
  /\ UNCHANGED <<request, phase, result, unread, failed, wired, drifted, failures, drifts>>

Propose(l) ==
  /\ phase = "committing" /\ request.n /\ l \in pending /\ l \in GnosisNetworks
  /\ proposals' = [proposals EXCEPT ![l] = Append(@, needs[l])]
  /\ needs' = [needs EXCEPT ![l] = {}]
  /\ pending' = pending \ {l}
  /\ UNCHANGED <<request, phase, result, unread, failed, wired, drifted, failures, drifts>>

\* The network has no Safe, or the call to its service fails.
ProposeFails(l) ==
  /\ phase = "committing" /\ request.n /\ l \in pending
  /\ \/ l \notin GnosisNetworks /\ UNCHANGED failures
     \/ l \in GnosisNetworks /\ failures < MaxFailures /\ failures' = failures + 1
  /\ failed' = failed \cup {l} /\ pending' = pending \ {l}
  /\ UNCHANGED <<request, phase, result, unread, needs, wired, proposals, drifted, drifts>>

\* `success' is the message "Wired all networks successfully".
Report ==
  /\ phase = "committing" /\ pending = {}
  /\ phase' = "idle" /\ result' = IF failed = {} THEN "success" ELSE "errors"
  /\ UNCHANGED <<request, unread, needs, pending, failed, wired, proposals,
                 drifted, failures, drifts>>

\* The process is killed while it writes.
Kill ==
  /\ phase = "committing" /\ failures < MaxFailures
  /\ phase' = "idle" /\ result' = "killed" /\ failures' = failures + 1
  /\ UNCHANGED <<request, unread, needs, pending, failed, wired, proposals, drifted, drifts>>

(* The owners of the Safe carry out the oldest batch.                      *)
SafeExecutes(l) ==
  /\ proposals[l] # <<>>
  /\ wired' = [wired EXCEPT ![l] = @ \cup Head(proposals[l])]
  /\ proposals' = [proposals EXCEPT ![l] = Tail(@)]
  /\ UNCHANGED <<request, run, drifted, failures, drifts>>

(* Someone else changes a setting.                                         *)
Drift(l, a) ==
  /\ a \in wired[l] /\ drifts < MaxDrift
  /\ wired' = [wired EXCEPT ![l] = @ \ {a}]
  /\ drifted' = [drifted EXCEPT ![l] = @ \cup {a}]
  /\ drifts' = drifts + 1
  /\ UNCHANGED <<request, run, proposals, failures>>

TaskStep ==
  \/ \E l \in Networks : \E a \in unread[l] : Read(l, a) \/ Throw(l, a)
  \/ \E l \in pending : \E a \in needs[l] : Write(l, a) \/ WriteFails(l, a)
  \/ \E l \in pending : Propose(l) \/ ProposeFails(l)
  \/ NoChanges \/ BeginWrites \/ Report

Next ==
  \/ Refuse \/ Start \/ TaskStep \/ Abort \/ Kill
  \/ \E l \in Networks : SafeExecutes(l)
  \/ \E l \in Networks : \E a \in wired[l] : Drift(l, a)

(* Promises settle, the operator runs the task again until it has nothing  *)
(* to change, and the Safe's owners work through their queue.              *)
Fairness == /\ WF_vars(TaskStep) /\ WF_vars(Start)
            /\ \A l \in Networks : WF_vars(SafeExecutes(l))

Spec == Init /\ [][Next]_vars /\ Fairness
=============================================================================
