---------------------------- MODULE WireProperties ----------------------------
(***************************************************************************)
(* What the operator of wireAll relies on.                                 *)
(***************************************************************************)
EXTENDS WireAll

\* The settings in the batches waiting in the Safe of l.
Content(q) == UNION {q[i] : i \in DOMAIN q}
Entrusted(l) == Content(proposals[l])

\* The variables keep their types.
TypeOK ==
  /\ request \in Requests
  /\ phase \in {"idle", "reading", "committing"}
  /\ result \in {"none", "refused", "thrown", "noChanges", "success", "errors", "killed"}
  /\ wired \in [Networks -> SUBSET AllSettings]
  /\ unread \in [Networks -> SUBSET AllSettings] /\ needs \in [Networks -> SUBSET AllSettings]
  /\ pending \subseteq Networks /\ failed \subseteq Networks
  /\ proposals \in [Networks -> Seq(SUBSET AllSettings)]
  /\ drifted \in [Networks -> SUBSET AllSettings]
  /\ failures \in 0..MaxFailures /\ drifts \in 0..MaxDrift

(* When a run has ended, with or without errors on other networks, every   *)
(* setting of a network it reports no error for holds its value, or waits  *)
(* in that network's Safe when the run was one that proposes; only what    *)
(* others changed behind the run's back is excepted.                       *)
CleanNetworksAreWired ==
  phase = "idle" /\ result \in {"success", "errors"} =>
    \A l \in request.s \ failed :
      Asked(l) \subseteq wired[l] \cup drifted[l]
                         \cup (IF request.n THEN Entrusted(l) ELSE {})

(* "No changes needed" is true of every network of the command: all its    *)
(* settings hold their values, and none is merely waiting in a Safe.       *)
NoChangesMeansWired ==
  result = "noChanges" =>
    \A l \in request.s : Asked(l) \subseteq wired[l] \cup drifted[l]

(* The task implements Wiring.                                             *)
Holds   == {x \in Networks \X AllSettings : x[2] \in wired[x[1]]}
Owed    == {x \in Networks \X AllSettings : x[2] \in unread[x[1]] \cup needs[x[1]]}
Waiting == {x \in Networks \X AllSettings : x[2] \in Entrusted(x[1])}
Running == phase # "idle"
Done    == phase = "idle" /\ result \in {"success", "noChanges"}

W == INSTANCE Wiring WITH holds <- Holds, owed <- Owed, entrusted <- Waiting,
                          running <- Running, done <- Done

\* A run forgets no setting, and says it is done only when it owes none.
ImplementsWiring == W!WiringSpec

(* Failures and changes by others coming to an end, the repeated command   *)
(* finds nothing left to change: one that proposes when each of its        *)
(* networks has a Safe, and any command only when the contracts it names   *)
(* are configured.                                                         *)
CanConverge ==
  /\ Valid(request)
  /\ \A l \in request.s \cup request.d : NameKnown(l)
  /\ request.n => request.s \subseteq GnosisNetworks

Converges == CanConverge => <>(result = "noChanges")

(* The command given as the example in tasks/index.ts runs to a report     *)
(* when no call fails.                                                     *)
ExampleRuns == result # "thrown"
=============================================================================
