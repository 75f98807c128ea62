------------------------------ MODULE WireProofs ------------------------------
(***************************************************************************)
(* wireAll proved for any networks, packet types, commands and bounds: its *)
(* type invariant, what a run that ends may claim, and that it implements  *)
(* Wiring.                                                                 *)
(***************************************************************************)
EXTENDS WireProperties, TLAPS

(***************************************************************************)
(* The inductive invariant                                                 *)
(***************************************************************************)
Underway == phase # "idle" \/ result \notin {"none", "refused"}

\* Reading and writing leave each network's sets as the phase says.
PhasesAgree ==
  /\ Underway => Valid(request)
  /\ \A l \in Networks : unread[l] \cap needs[l] = {}
  /\ \A l \in Networks : unread[l] \cup needs[l] \subseteq Asked(l)
  /\ phase = "reading" => result = "none" /\ failed = {}
  /\ phase = "committing" =>
       /\ result = "none"
       /\ \A l \in Networks : unread[l] = {}
       /\ \A l \in Networks \ (pending \cup failed) : needs[l] = {}
  /\ phase = "idle" /\ result \in {"success", "errors", "noChanges"} =>
       /\ \A l \in Networks : unread[l] = {}
       /\ \A l \in Networks \ failed : needs[l] = {}
  /\ result = "noChanges" => phase = "idle" /\ \A l \in Networks : needs[l] = {}
  /\ result = "success" => failed = {}

\* Batches count as an account of a setting once a proposing run writes.
Batches(l) ==
  IF request.n /\ phase # "reading" /\ result # "noChanges" THEN Entrusted(l) ELSE {}

\* Nothing the command asks for is lost on the way.
Accounted ==
  Underway => \A l \in Networks :
    Asked(l) \subseteq unread[l] \cup needs[l] \cup wired[l] \cup drifted[l] \cup Batches(l)

Inv == TypeOK /\ PhasesAgree /\ Accounted

(***************************************************************************)
(* Settings and queues                                                     *)
(***************************************************************************)

\* What a command asks of a network is among all settings.
LEMMA AskedType ==
  ASSUME request \in Requests, NEW l \in Networks
  PROVE  Asked(l) \subseteq AllSettings
<1>1. request.s \subseteq Networks /\ request.d \subseteq Networks
  BY RequestsAssumption
<1>2. Settings(l, request.d) \subseteq Settings(l, Networks)
  BY <1>1 DEF Settings
<1>3. Settings(l, Networks) \subseteq AllSettings
  BY DEF AllSettings
<1>4. QED
  BY <1>2, <1>3 DEF Asked

\* Appending a batch adds its settings to those that wait.
LEMMA AppendBatch ==
  ASSUME NEW S, NEW q \in Seq(SUBSET S), NEW b \in SUBSET S
  PROVE  Content(Append(q, b)) = b \cup Content(q)
<1> USE DEF Content
<1>1. /\ Len(q) \in Nat /\ DOMAIN q = 1..Len(q)
      /\ DOMAIN Append(q, b) = 1..(Len(q) + 1)
      /\ Append(q, b)[Len(q) + 1] = b
      /\ \A i \in 1..Len(q) : Append(q, b)[i] = q[i]
  OBVIOUS
<1>2. ASSUME NEW x, x \in Content(Append(q, b))
      PROVE  x \in b \cup Content(q)
  <2>1. PICK i \in 1..(Len(q) + 1) : x \in Append(q, b)[i]
    BY <1>1, <1>2
  <2>2. CASE i = Len(q) + 1
    BY <2>1, <2>2, <1>1
  <2>3. CASE i # Len(q) + 1
    <3>1. i \in 1..Len(q)
      BY <2>3, <1>1
    <3>2. QED
      BY <3>1, <2>1, <1>1
  <2>4. QED
    BY <2>2, <2>3
<1>3. ASSUME NEW x, x \in b \cup Content(q)
      PROVE  x \in Content(Append(q, b))
  <2>1. CASE x \in b
    <3>1. Len(q) + 1 \in DOMAIN Append(q, b)
      BY <1>1
    <3>2. QED
      BY <3>1, <2>1, <1>1
  <2>2. CASE x \in Content(q)
    <3>1. PICK i \in 1..Len(q) : x \in q[i]
      BY <2>2, <1>1
    <3>2. i \in DOMAIN Append(q, b) /\ x \in Append(q, b)[i]
      BY <3>1, <1>1
    <3>3. QED
      BY <3>2
  <2>3. QED
    BY <1>3, <2>1, <2>2
<1>4. QED
  BY <1>2, <1>3

\* Taking the oldest batch leaves the settings of the others.
LEMMA TakeBatch ==
  ASSUME NEW S, NEW q \in Seq(SUBSET S), q # <<>>
  PROVE  /\ Tail(q) \in Seq(SUBSET S) /\ Head(q) \in SUBSET S
         /\ Head(q) \subseteq Content(q)
         /\ Content(Tail(q)) \subseteq Content(q)
         /\ Content(q) \subseteq Head(q) \cup Content(Tail(q))
<1> USE DEF Content
<1>1. /\ Len(q) \in Nat \ {0} /\ DOMAIN q = 1..Len(q)
      /\ Head(q) = q[1] /\ q[1] \in SUBSET S
      /\ Tail(q) \in Seq(SUBSET S)
      /\ DOMAIN Tail(q) = 1..(Len(q) - 1)
      /\ \A i \in 1..(Len(q) - 1) : Tail(q)[i] = q[i + 1]
  OBVIOUS
<1>2. 1 \in DOMAIN q
  BY <1>1
<1>3. ASSUME NEW x, x \in Content(Tail(q))
      PROVE  x \in Content(q)
  <2>1. PICK i \in 1..(Len(q) - 1) : x \in Tail(q)[i]
    BY <1>1, <1>3
  <2>2. i + 1 \in DOMAIN q /\ x \in q[i + 1]
    BY <2>1, <1>1
  <2>3. QED
    BY <2>2
<1>4. ASSUME NEW x, x \in Content(q)
      PROVE  x \in Head(q) \cup Content(Tail(q))
  <2>1. PICK i \in 1..Len(q) : x \in q[i]
    BY <1>1, <1>4
  <2>2. CASE i = 1
    BY <2>1, <2>2, <1>1
  <2>3. CASE i # 1
    <3>1. i - 1 \in 1..(Len(q) - 1) /\ (i - 1) + 1 = i
      BY <2>3, <1>1
    <3>2. i - 1 \in DOMAIN Tail(q) /\ x \in Tail(q)[i - 1]
      BY <3>1, <2>1, <1>1
    <3>3. QED
      BY <3>2
  <2>4. QED
    BY <2>2, <2>3
<1>5. QED
  BY <1>1, <1>2, <1>3, <1>4

(***************************************************************************)
(* Types                                                                   *)
(***************************************************************************)

\* The first settings of a set are in the set.
LEMMA FirstIn == ASSUME NEW S, NEW a \in First(S) PROVE a \in S
BY DEF First

\* What the steps do, with the networks and settings they are about.
LEMMA NextCases ==
  ASSUME TypeOK, [Next]_vars, NEW P,
         Refuse => P, Start => P, Abort => P, Kill => P,
         NoChanges => P, BeginWrites => P, Report => P, UNCHANGED vars => P,
         \A l \in Networks, a \in AllSettings :
           /\ Read(l, a) => P
           /\ Throw(l, a) => P
           /\ Write(l, a) => P
           /\ WriteFails(l, a) => P
           /\ Drift(l, a) => P,
         \A l \in Networks : /\ Propose(l) => P
                             /\ ProposeFails(l) => P
                             /\ SafeExecutes(l) => P
  PROVE  P
<1>1. pending \subseteq Networks
  BY DEF TypeOK
<1>2. \A l \in Networks :
        unread[l] \subseteq AllSettings /\ needs[l] \subseteq AllSettings /\ wired[l] \subseteq AllSettings
  BY DEF TypeOK
<1>3. CASE TaskStep
  <2>1. CASE \E l \in Networks : \E a \in unread[l] : Read(l, a) \/ Throw(l, a)
    BY <2>1, <1>2
  <2>2. CASE \E l \in pending : \E a \in needs[l] : Write(l, a) \/ WriteFails(l, a)
    BY <2>2, <1>1, <1>2
  <2>3. CASE \E l \in pending : Propose(l) \/ ProposeFails(l)
    BY <2>3, <1>1
  <2>4. QED
    BY <2>1, <2>2, <2>3, <1>3 DEF TaskStep
<1>4. CASE \E l \in Networks : \E a \in wired[l] : Drift(l, a)
  BY <1>4, <1>2
<1>5. CASE \E l \in Networks : SafeExecutes(l)
  BY <1>5
<1>6. QED
  BY <1>3, <1>4, <1>5 DEF Next

\* Every step keeps the types.
LEMMA TypeStep ==
  ASSUME TypeOK, [Next]_vars
  PROVE  TypeOK'
<1> USE DEF TypeOK
<1>0. MaxFailures \in Nat /\ MaxDrift \in Nat
  BY BoundsAssumption
<1>1. Refuse => TypeOK'
  BY DEF Refuse
<1>2. Start => TypeOK'
  <2>1. \A l \in Networks : Asked(l) \subseteq AllSettings
    BY AskedType
  <2>2. QED
    BY <2>1 DEF Start
<1>3. Abort => TypeOK'
  BY <1>0 DEF Abort
<1>4. Kill => TypeOK'
  BY <1>0 DEF Kill
<1>5. NoChanges => TypeOK'
  BY DEF NoChanges
<1>6. BeginWrites => TypeOK'
  <2>1. request.s \subseteq Networks
    BY RequestsAssumption
  <2>2. QED
    BY <2>1 DEF BeginWrites
<1>7. Report => TypeOK'
  BY DEF Report
<1>8. UNCHANGED vars => TypeOK'
  BY DEF vars, run
<1>9. ASSUME NEW l \in Networks, NEW a \in AllSettings
      PROVE  /\ Read(l, a) => TypeOK'
             /\ Throw(l, a) => TypeOK'
             /\ Write(l, a) => TypeOK'
             /\ WriteFails(l, a) => TypeOK'
             /\ Drift(l, a) => TypeOK'
  <2>1. Read(l, a) => TypeOK'
    BY DEF Read
  <2>2. Throw(l, a) => TypeOK'
    BY DEF Throw
  <2>3. Write(l, a) => TypeOK'
    BY DEF Write
  <2>4. WriteFails(l, a) => TypeOK'
    <3>1. SUFFICES ASSUME WriteFails(l, a) PROVE TypeOK'
      OBVIOUS
    <3>2. failures + 1 \in 0..MaxFailures
      BY <1>0, <3>1 DEF WriteFails
    <3>3. [wired EXCEPT ![l] = @ \cup {a}] \in [Networks -> SUBSET AllSettings]
      OBVIOUS
    <3>4. wired' \in [Networks -> SUBSET AllSettings]
      BY <3>1, <3>3 DEF WriteFails
    <3>5. QED
      BY <3>1, <3>2, <3>4 DEF WriteFails
  <2>5. Drift(l, a) => TypeOK'
    BY <1>0 DEF Drift, run
  <2>6. QED
    BY <2>1, <2>2, <2>3, <2>4, <2>5
<1>10. ASSUME NEW l \in Networks
       PROVE  /\ Propose(l) => TypeOK'
              /\ ProposeFails(l) => TypeOK'
              /\ SafeExecutes(l) => TypeOK'
  <2>1. Propose(l) => TypeOK'
    <3>1. Append(proposals[l], needs[l]) \in Seq(SUBSET AllSettings)
      OBVIOUS
    <3>2. QED
      BY <3>1 DEF Propose
  <2>2. ProposeFails(l) => TypeOK'
    BY <1>0 DEF ProposeFails
  <2>3. SafeExecutes(l) => TypeOK'
    <3>1. SUFFICES ASSUME SafeExecutes(l) PROVE TypeOK'
      OBVIOUS
    <3>2. /\ Tail(proposals[l]) \in Seq(SUBSET AllSettings)
          /\ Head(proposals[l]) \in SUBSET AllSettings
      BY <3>1, TakeBatch DEF SafeExecutes
    <3>3. QED
      BY <3>1, <3>2 DEF SafeExecutes, run
  <2>4. QED
    BY <2>1, <2>2, <2>3
<1>11. QED
  BY <1>1, <1>2, <1>3, <1>4, <1>5, <1>6, <1>7, <1>8, <1>9, <1>10, NextCases

(***************************************************************************)
(* The phases                                                              *)
(***************************************************************************)

\* Every step keeps the sets of each network as its phase says.
LEMMA PhasesStep ==
  ASSUME TypeOK, PhasesAgree, [Next]_vars
  PROVE  PhasesAgree'
<1>1. ASSUME request' = request
      PROVE  /\ Valid(request)' = Valid(request)
             /\ \A l \in Networks : Asked(l)' = Asked(l)
  BY <1>1 DEF Valid, Asked
<1>2. /\ unread \in [Networks -> SUBSET AllSettings]
      /\ needs \in [Networks -> SUBSET AllSettings]
      /\ proposals \in [Networks -> Seq(SUBSET AllSettings)]
  BY DEF TypeOK
<1> USE <1>1, <1>2 DEF PhasesAgree, Underway
<1>3. Refuse => PhasesAgree'
  BY DEF Refuse
<1>4. Start => PhasesAgree'
  BY DEF Start
<1>5. Abort => PhasesAgree'
  BY DEF Abort
<1>6. Kill => PhasesAgree'
  BY DEF Kill
<1>7. NoChanges => PhasesAgree'
  BY DEF NoChanges
<1>8. BeginWrites => PhasesAgree'
  <2>1. SUFFICES ASSUME BeginWrites PROVE PhasesAgree'
    OBVIOUS
  <2>2. \A l \in Networks \ pending' : needs[l] = {}
    BY <2>1 DEF BeginWrites, Asked
  <2>3. QED
    BY <2>1, <2>2 DEF BeginWrites
<1>9. Report => PhasesAgree'
  BY DEF Report
<1>10. UNCHANGED vars => PhasesAgree'
  BY DEF vars, run
<1>11. ASSUME NEW l \in Networks, NEW a \in AllSettings
       PROVE  /\ Read(l, a) => PhasesAgree'
              /\ Throw(l, a) => PhasesAgree'
              /\ Write(l, a) => PhasesAgree'
              /\ WriteFails(l, a) => PhasesAgree'
              /\ Drift(l, a) => PhasesAgree'
  <2>1. Read(l, a) => PhasesAgree'
    <3>1. SUFFICES ASSUME Read(l, a) PROVE PhasesAgree'
      OBVIOUS
    <3>2. a \in unread[l]
      BY <3>1, FirstIn DEF Read
    <3>3. \A k \in Networks : /\ unread'[k] \cap needs'[k] = {}
                              /\ unread'[k] \cup needs'[k] \subseteq Asked(k)
      BY <3>1, <3>2 DEF Read
    <3>4. QED
      BY <3>1, <3>3 DEF Read
  <2>2. Throw(l, a) => PhasesAgree'
    BY DEF Throw
  <2>3. Write(l, a) => PhasesAgree'
    <3>1. SUFFICES ASSUME Write(l, a) PROVE PhasesAgree'
      OBVIOUS
    <3>2. \A k \in Networks : needs'[k] \subseteq needs[k]
      BY <3>1 DEF Write
    <3>3. \A k \in Networks \ (pending' \cup failed') : needs'[k] = {}
      BY <3>1 DEF Write
    <3>4. QED
      BY <3>1, <3>2, <3>3 DEF Write
  <2>4. WriteFails(l, a) => PhasesAgree'
    BY DEF WriteFails
  <2>5. Drift(l, a) => PhasesAgree'
    BY DEF Drift, run
  <2>6. QED
    BY <2>1, <2>2, <2>3, <2>4, <2>5
<1>12. ASSUME NEW l \in Networks
       PROVE  /\ Propose(l) => PhasesAgree'
              /\ ProposeFails(l) => PhasesAgree'
              /\ SafeExecutes(l) => PhasesAgree'
  <2>1. Propose(l) => PhasesAgree'
    BY DEF Propose
  <2>2. ProposeFails(l) => PhasesAgree'
    BY DEF ProposeFails
  <2>3. SafeExecutes(l) => PhasesAgree'
    BY DEF SafeExecutes, run
  <2>4. QED
    BY <2>1, <2>2, <2>3
<1>13. QED
  BY <1>3, <1>4, <1>5, <1>6, <1>7, <1>8, <1>9, <1>10, <1>11, <1>12, NextCases

(***************************************************************************)
(* The account                                                             *)
(***************************************************************************)

\* A network's batches, and so what waits in its Safe, change with them only.
LEMMA EntrustedStill ==
  ASSUME NEW l, proposals'[l] = proposals[l]
  PROVE  Entrusted(l)' = Entrusted(l)
BY DEF Entrusted

\* A proposal entrusts what the network needs.
LEMMA ProposeEntrusts ==
  ASSUME TypeOK, NEW l \in Networks, Propose(l)
  PROVE  Entrusted(l)' = needs[l] \cup Entrusted(l)
<1>1. proposals[l] \in Seq(SUBSET AllSettings) /\ needs[l] \in SUBSET AllSettings
  BY DEF TypeOK
<1>2. Content(Append(proposals[l], needs[l])) = needs[l] \cup Content(proposals[l])
  BY <1>1, AppendBatch
<1>3. proposals'[l] = Append(proposals[l], needs[l])
  BY DEF Propose, TypeOK
<1>4. QED
  BY <1>2, <1>3 DEF Entrusted

\* What the Safe executes holds, and the rest still waits.
LEMMA SafeCarries ==
  ASSUME TypeOK, NEW l \in Networks, SafeExecutes(l)
  PROVE  /\ wired' = [wired EXCEPT ![l] = @ \cup Head(proposals[l])]
         /\ Head(proposals[l]) \subseteq AllSettings
         /\ Head(proposals[l]) \subseteq Entrusted(l)
         /\ Entrusted(l)' \subseteq Entrusted(l)
         /\ Entrusted(l) \subseteq Head(proposals[l]) \cup Entrusted(l)'
<1>1. proposals[l] \in Seq(SUBSET AllSettings) /\ proposals[l] # <<>>
  BY DEF TypeOK, SafeExecutes
<1>2. /\ Head(proposals[l]) \in SUBSET AllSettings
      /\ Head(proposals[l]) \subseteq Content(proposals[l])
      /\ Content(Tail(proposals[l])) \subseteq Content(proposals[l])
      /\ Content(proposals[l]) \subseteq Head(proposals[l]) \cup Content(Tail(proposals[l]))
  BY <1>1, TakeBatch
<1>3. proposals'[l] = Tail(proposals[l])
  BY DEF SafeExecutes, TypeOK
<1>4. QED
  BY <1>2, <1>3 DEF Entrusted, SafeExecutes

\* Every step keeps the account of what was asked for.
LEMMA AccountedStep ==
  ASSUME TypeOK, PhasesAgree, Accounted, [Next]_vars
  PROVE  Accounted'
<1>1. ASSUME request' = request
      PROVE  \A l \in Networks : Asked(l)' = Asked(l)
  BY <1>1 DEF Asked
<1>2. /\ unread \in [Networks -> SUBSET AllSettings]
      /\ needs \in [Networks -> SUBSET AllSettings]
      /\ wired \in [Networks -> SUBSET AllSettings]
      /\ drifted \in [Networks -> SUBSET AllSettings]
      /\ proposals \in [Networks -> Seq(SUBSET AllSettings)]
  BY DEF TypeOK
<1>3. ASSUME proposals' = proposals
      PROVE  \A l \in Networks : Entrusted(l)' = Entrusted(l)
  BY <1>3, EntrustedStill
<1> USE <1>1, <1>2 DEF Accounted, Underway, Batches
<1>4. Refuse => Accounted'
  BY <1>3 DEF Refuse, PhasesAgree
<1>5. Start => Accounted'
  BY DEF Start
<1>6. Abort => Accounted'
  BY <1>3 DEF Abort
<1>7. Kill => Accounted'
  BY <1>3 DEF Kill, PhasesAgree
<1>8. NoChanges => Accounted'
  BY <1>3 DEF NoChanges, PhasesAgree
<1>9. BeginWrites => Accounted'
  BY <1>3 DEF BeginWrites
<1>10. Report => Accounted'
  BY <1>3 DEF Report, PhasesAgree
<1>11. UNCHANGED vars => Accounted'
  BY <1>3 DEF vars, run
<1>12. ASSUME NEW l \in Networks, NEW a \in AllSettings
       PROVE  /\ Read(l, a) => Accounted'
              /\ Throw(l, a) => Accounted'
              /\ Write(l, a) => Accounted'
              /\ WriteFails(l, a) => Accounted'
              /\ Drift(l, a) => Accounted'
  <2>1. Read(l, a) => Accounted'
    <3>1. SUFFICES ASSUME Read(l, a) PROVE Accounted'
      OBVIOUS
    <3>2. \A k \in Networks :
            unread[k] \cup needs[k] \cup wired[k] \subseteq unread'[k] \cup needs'[k] \cup wired'[k]
      BY <3>1 DEF Read
    <3>3. QED
      BY <3>1, <3>2, <1>3 DEF Read
  <2>2. Throw(l, a) => Accounted'
    BY <1>3 DEF Throw
  <2>3. Write(l, a) => Accounted'
    <3>1. SUFFICES ASSUME Write(l, a) PROVE Accounted'
      OBVIOUS
    <3>2. \A k \in Networks : needs[k] \cup wired[k] \subseteq needs'[k] \cup wired'[k]
      BY <3>1 DEF Write
    <3>3. QED
      BY <3>1, <3>2, <1>3 DEF Write
  <2>4. WriteFails(l, a) => Accounted'
    <3>1. SUFFICES ASSUME WriteFails(l, a) PROVE Accounted'
      OBVIOUS
    <3>2. \A k \in Networks : wired[k] \subseteq wired'[k]
      BY <3>1 DEF WriteFails
    <3>3. QED
      BY <3>1, <3>2, <1>3 DEF WriteFails
  <2>5. Drift(l, a) => Accounted'
    <3>1. SUFFICES ASSUME Drift(l, a) PROVE Accounted'
      OBVIOUS
    <3>2. \A k \in Networks : wired[k] \cup drifted[k] \subseteq wired'[k] \cup drifted'[k]
      BY <3>1 DEF Drift
    <3>3. QED
      BY <3>1, <3>2, <1>3 DEF Drift, run
  <2>6. QED
    BY <2>1, <2>2, <2>3, <2>4, <2>5
<1>13. ASSUME NEW l \in Networks
       PROVE  /\ Propose(l) => Accounted'
              /\ ProposeFails(l) => Accounted'
              /\ SafeExecutes(l) => Accounted'
  <2>1. Propose(l) => Accounted'
    <3>1. SUFFICES ASSUME Propose(l) PROVE Accounted'
      OBVIOUS
    <3>2. Entrusted(l)' = needs[l] \cup Entrusted(l)
      BY <3>1, ProposeEntrusts
    <3>3. \A k \in Networks \ {l} : Entrusted(k)' = Entrusted(k) /\ needs'[k] = needs[k]
      BY <3>1, EntrustedStill DEF Propose
    <3>4. \A k \in Networks : needs[k] \cup Entrusted(k) \subseteq needs'[k] \cup Entrusted(k)'
      BY <3>2, <3>3
    <3>5. result # "noChanges"
      BY <3>1 DEF Propose, PhasesAgree
    <3>6. QED
      BY <3>1, <3>4, <3>5 DEF Propose
  <2>2. ProposeFails(l) => Accounted'
    BY <1>3 DEF ProposeFails
  <2>3. SafeExecutes(l) => Accounted'
    <3>1. SUFFICES ASSUME SafeExecutes(l) PROVE Accounted'
      OBVIOUS
    <3>2. /\ Entrusted(l) \subseteq Head(proposals[l]) \cup Entrusted(l)'
          /\ wired' = [wired EXCEPT ![l] = @ \cup Head(proposals[l])]
      BY <3>1, SafeCarries
    <3>3. \A k \in Networks \ {l} : Entrusted(k)' = Entrusted(k) /\ wired'[k] = wired[k]
      BY <3>1, EntrustedStill DEF SafeExecutes
    <3>4. wired'[l] = wired[l] \cup Head(proposals[l])
      BY <3>2
    <3>5. \A k \in Networks : /\ wired[k] \subseteq wired'[k]
                              /\ wired[k] \cup Entrusted(k) \subseteq wired'[k] \cup Entrusted(k)'
      BY <3>2, <3>3, <3>4
    <3>6. QED
      BY <3>1, <3>5 DEF SafeExecutes, run
  <2>4. QED
    BY <2>1, <2>2, <2>3
<1>14. QED
  BY <1>4, <1>5, <1>6, <1>7, <1>8, <1>9, <1>10, <1>11, <1>12, <1>13, NextCases

(***************************************************************************)
(* The invariant and the two properties it implies                         *)
(***************************************************************************)

\* The repeated command starts with what it asks for partly set and no more.
LEMMA InvInit ==
  ASSUME Init
  PROVE  Inv
<1>1. TypeOK
  <2>1. wired \in [Networks -> SUBSET AllSettings]
    <3>1. PICK V \in SUBSET {x \in Networks \X AllSettings : x[2] \in Asked(x[1])} :
            wired = [l \in Networks |-> {x[2] : x \in {y \in V : y[1] = l}}]
      BY DEF Init
    <3>2. \A x \in V : x[2] \in AllSettings
      OBVIOUS
    <3>3. \A l \in Networks : {x[2] : x \in {y \in V : y[1] = l}} \subseteq AllSettings
      BY <3>2
    <3>4. QED
      BY <3>1, <3>3
  <2>2. proposals \in [Networks -> Seq(SUBSET AllSettings)]
    BY DEF Init
  <2>3. failures \in 0..MaxFailures /\ drifts \in 0..MaxDrift
    BY BoundsAssumption DEF Init
  <2>4. QED
    BY <2>1, <2>2, <2>3 DEF Init, TypeOK
<1>2. PhasesAgree
  BY DEF Init, PhasesAgree, Underway
<1>3. Accounted
  BY DEF Init, Accounted, Underway
<1>4. QED
  BY <1>1, <1>2, <1>3 DEF Inv

\* Every step keeps the invariant.
LEMMA InvStep ==
  ASSUME Inv, [Next]_vars
  PROVE  Inv'
BY TypeStep, PhasesStep, AccountedStep DEF Inv

\* The invariant always holds.
LEMMA InvAlways == Spec => []Inv
<1>1. Init => Inv
  BY InvInit
<1>2. Inv /\ [Next]_vars => Inv'
  BY InvStep
<1>3. QED
  BY <1>1, <1>2, PTL DEF Spec

\* wireAll's variables keep their types, whatever fails and whoever interferes.
THEOREM TypeCorrect == Spec => []TypeOK
<1>1. Inv => TypeOK
  BY DEF Inv
<1>2. QED
  BY <1>1, InvAlways, PTL

(* What a run that ends has given no error for is set, or was proposed to  *)
(* the network's Safe by a run that proposes (wireAll's report).           *)
THEOREM CleanRuns == Spec => []CleanNetworksAreWired
<1>1. ASSUME Inv
      PROVE  CleanNetworksAreWired
  <2>1. SUFFICES ASSUME phase = "idle", result \in {"success", "errors"},
                        NEW l \in request.s \ failed
                 PROVE  Asked(l) \subseteq wired[l] \cup drifted[l]
                                   \cup (IF request.n THEN Entrusted(l) ELSE {})
    BY DEF CleanNetworksAreWired
  <2>2. l \in Networks
    BY <1>1, RequestsAssumption DEF Inv, TypeOK
  <2>3. unread[l] = {} /\ needs[l] = {}
    BY <1>1, <2>1, <2>2 DEF Inv, PhasesAgree
  <2>4. Asked(l) \subseteq unread[l] \cup needs[l] \cup wired[l] \cup drifted[l] \cup Batches(l)
    BY <1>1, <2>1, <2>2 DEF Inv, Accounted, Underway
  <2>5. QED
    BY <2>1, <2>3, <2>4 DEF Batches
<1>2. QED
  BY <1>1, InvAlways, PTL

(* A run that says "No changes needed" found every setting of the command  *)
(* at its value, whatever waits in a Safe.                                 *)
THEOREM NoChangesIsTrue == Spec => []NoChangesMeansWired
<1>1. ASSUME Inv
      PROVE  NoChangesMeansWired
  <2>1. SUFFICES ASSUME result = "noChanges", NEW l \in request.s
                 PROVE  Asked(l) \subseteq wired[l] \cup drifted[l]
    BY DEF NoChangesMeansWired
  <2>2. l \in Networks
    BY <1>1, RequestsAssumption DEF Inv, TypeOK
  <2>3. phase = "idle" /\ unread[l] = {} /\ needs[l] = {}
    BY <1>1, <2>1, <2>2 DEF Inv, PhasesAgree
  <2>4. Asked(l) \subseteq unread[l] \cup needs[l] \cup wired[l] \cup drifted[l] \cup Batches(l)
    BY <1>1, <2>1, <2>2 DEF Inv, Accounted, Underway
  <2>5. QED
    BY <2>1, <2>3, <2>4 DEF Batches
<1>2. QED
  BY <1>1, InvAlways, PTL

(***************************************************************************)
(* wireAll implements Wiring                                               *)
(***************************************************************************)

\* What leaves the mapped sets as they are.
LEMMA MappedStill ==
  /\ wired' = wired => Holds' = Holds
  /\ unread' = unread /\ needs' = needs => Owed' = Owed
  /\ proposals' = proposals => Waiting' = Waiting
  /\ phase' = phase => Running' = Running
  /\ phase' = phase /\ result' = result => Done' = Done
<1>1. proposals' = proposals => \A l : Entrusted(l)' = Entrusted(l)
  BY EntrustedStill
<1>2. QED
  BY <1>1 DEF Holds, Owed, Waiting, Running, Done

\* At the start nothing is owed or entrusted, and no run is on.
LEMMA InitSimulates ==
  ASSUME Init
  PROVE  W!WiringInit
<1>1. \A l \in Networks : Entrusted(l) = {}
  <2>1. Content(<<>>) = {}
    BY DEF Content
  <2>2. \A l \in Networks : proposals[l] = <<>>
    BY DEF Init
  <2>3. QED
    BY <2>1, <2>2 DEF Entrusted
<1>2. QED
  BY <1>1 DEF Init, W!WiringInit, Owed, Waiting, Running, Done

\* Every step is a step of Wiring or leaves its variables alone.
LEMMA StepSimulates ==
  ASSUME Inv, [Next]_vars
  PROVE  [W!WiringNext]_(W!wiringVars)
<1> DEFINE Simulated == [W!WiringNext]_(W!wiringVars)
           Still == UNCHANGED <<Holds, Owed, Waiting, Running, Done>>
<1>1. TypeOK /\ PhasesAgree
  BY DEF Inv
<1>2. /\ unread \in [Networks -> SUBSET AllSettings]
      /\ needs \in [Networks -> SUBSET AllSettings]
      /\ wired \in [Networks -> SUBSET AllSettings]
      /\ proposals \in [Networks -> Seq(SUBSET AllSettings)]
  BY <1>1 DEF TypeOK
<1>3. Still => Simulated
  BY DEF W!wiringVars
<1>4. W!Ask \/ W!Entrust \/ W!Carry \/ W!End => Simulated
  BY DEF W!WiringNext
<1>5. /\ \A x \in Owed : W!Settle(x) \/ W!Miss(x) => Simulated
      /\ \A x \in Holds : W!Lose(x) => Simulated
  BY DEF W!WiringNext
<1> HIDE DEF Simulated, Still
<1>6. Refuse => Simulated
  <2>1. Refuse => Still
    BY <1>1, MappedStill DEF Refuse, Still, PhasesAgree, Underway, Done
  <2>2. QED
    BY <2>1, <1>3
<1>7. Start => Simulated
  <2>1. Start => W!Ask
    BY MappedStill DEF Start, W!Ask, Running, Done
  <2>2. QED
    BY <2>1, <1>4
<1>8. Abort => Simulated
  <2>1. Abort => W!End
    BY MappedStill DEF Abort, W!End, Running, Done
  <2>2. QED
    BY <2>1, <1>4
<1>9. Kill => Simulated
  <2>1. Kill => W!End
    BY MappedStill DEF Kill, W!End, Running, Done
  <2>2. QED
    BY <2>1, <1>4
<1>10. NoChanges => Simulated
  <2>1. NoChanges => W!End
    BY MappedStill DEF NoChanges, W!End, Owed, Running
  <2>2. QED
    BY <2>1, <1>4
<1>11. BeginWrites => Simulated
  <2>1. BeginWrites => Still
    BY MappedStill DEF BeginWrites, Still, Running, Done
  <2>2. QED
    BY <2>1, <1>3
<1>12. Report => Simulated
  <2>1. SUFFICES ASSUME Report PROVE W!End
    BY <1>4
  <2>2. Done' => Owed = {}
    BY <2>1, <1>1 DEF Report, PhasesAgree, Done, Owed
  <2>3. QED
    BY <2>1, <2>2, MappedStill DEF Report, W!End, Running
<1>13. UNCHANGED vars => Simulated
  <2>1. UNCHANGED vars => Still
    BY MappedStill DEF vars, run, Still
  <2>2. QED
    BY <2>1, <1>3
<1>14. ASSUME NEW l \in Networks, NEW a \in AllSettings
       PROVE  /\ Read(l, a) => Simulated
              /\ Throw(l, a) => Simulated
              /\ Write(l, a) => Simulated
              /\ WriteFails(l, a) => Simulated
              /\ Drift(l, a) => Simulated
  <2> DEFINE x == <<l, a>>
  <2>0. x \in Networks \X AllSettings /\ x[1] = l /\ x[2] = a
    OBVIOUS
  <2>1. Read(l, a) => Simulated
    <3>1. SUFFICES ASSUME Read(l, a) PROVE Simulated
      OBVIOUS
    <3>2. a \in unread[l] /\ a \notin needs[l]
      BY <3>1, <1>1, FirstIn DEF Read, PhasesAgree
    <3>3. /\ Holds' = Holds /\ Waiting' = Waiting /\ Running /\ Running' = Running
          /\ Done' = Done
      BY <3>1, MappedStill DEF Read, Running
    <3>4. CASE a \in wired[l]
      <4>1. Owed' = Owed \ {x}
        BY <3>1, <3>2, <3>4, <1>2, <2>0 DEF Read, Owed
      <4>2. x \in Holds /\ x \in Owed
        BY <3>2, <3>4, <2>0 DEF Holds, Owed
      <4>3. W!Settle(x)
        BY <3>3, <4>1, <4>2 DEF W!Settle
      <4>4. QED
        BY <4>2, <4>3, <1>5
    <3>5. CASE a \notin wired[l]
      <4>1. Owed' = Owed
        BY <3>1, <3>2, <3>5, <1>2, <2>0 DEF Read, Owed
      <4>2. QED
        BY <3>3, <4>1, <1>3 DEF Still
    <3>6. QED
      BY <3>4, <3>5
  <2>2. Throw(l, a) => Simulated
    <3>1. Throw(l, a) => W!End
      BY MappedStill DEF Throw, W!End, Running, Done
    <3>2. QED
      BY <3>1, <1>4
  <2>3. Write(l, a) => Simulated
    <3>1. SUFFICES ASSUME Write(l, a) PROVE Simulated
      OBVIOUS
    <3>2. a \in needs[l] /\ unread[l] = {}
      BY <3>1, <1>1, FirstIn DEF Write, PhasesAgree
    <3>3. /\ Waiting' = Waiting /\ Running /\ Running' = Running
          /\ Done' = Done
      BY <3>1, MappedStill DEF Write, Running
    <3>4. Holds' = Holds \cup {x}
      BY <3>1, <1>2, <2>0 DEF Write, Holds
    <3>5. Owed' = Owed \ {x} /\ x \in Owed
      BY <3>1, <3>2, <1>2, <2>0 DEF Write, Owed
    <3>6. W!Settle(x)
      BY <3>3, <3>4, <3>5 DEF W!Settle
    <3>7. QED
      BY <3>5, <3>6, <1>5
  <2>4. WriteFails(l, a) => Simulated
    <3>1. SUFFICES ASSUME WriteFails(l, a) PROVE Simulated
      OBVIOUS
    <3>2. x \in Owed
      BY <3>1, <2>0, FirstIn DEF WriteFails, Owed
    <3>3. /\ Owed' = Owed /\ Waiting' = Waiting /\ Running /\ Running' = Running
          /\ Done' = Done
      BY <3>1, MappedStill DEF WriteFails, Running
    <3>4. CASE wired' = wired
      BY <3>3, <3>4, MappedStill, <1>3 DEF Still
    <3>5. CASE wired' = [wired EXCEPT ![l] = @ \cup {a}]
      <4>1. Holds' = Holds \cup {x}
        BY <3>5, <1>2, <2>0 DEF Holds
      <4>2. W!Miss(x)
        BY <3>3, <4>1 DEF W!Miss
      <4>3. QED
        BY <3>2, <4>2, <1>5
    <3>6. QED
      BY <3>1, <3>4, <3>5 DEF WriteFails
  <2>5. Drift(l, a) => Simulated
    <3>1. SUFFICES ASSUME Drift(l, a) PROVE Simulated
      OBVIOUS
    <3>2. /\ Owed' = Owed /\ Waiting' = Waiting /\ Running' = Running /\ Done' = Done
      BY <3>1, MappedStill DEF Drift, run
    <3>3. x \in Holds /\ Holds' = Holds \ {x}
      BY <3>1, <1>2, <2>0 DEF Drift, Holds
    <3>4. W!Lose(x)
      BY <3>2, <3>3 DEF W!Lose
    <3>5. QED
      BY <3>3, <3>4, <1>5
  <2>6. QED
    BY <2>1, <2>2, <2>3, <2>4, <2>5
<1>15. ASSUME NEW l \in Networks
       PROVE  /\ Propose(l) => Simulated
              /\ ProposeFails(l) => Simulated
              /\ SafeExecutes(l) => Simulated
  <2>1. Propose(l) => Simulated
    <3>1. SUFFICES ASSUME Propose(l) PROVE W!Entrust
      BY <1>4
    <3>2. Holds' = Holds /\ Running /\ Running' = Running /\ Done' = Done
      BY <3>1, MappedStill DEF Propose, Running
    <3>3. unread[l] = {}
      BY <3>1, <1>1 DEF Propose, PhasesAgree
    <3>4. /\ Entrusted(l)' = needs[l] \cup Entrusted(l)
          /\ \A k \in Networks \ {l} : Entrusted(k)' = Entrusted(k)
      BY <3>1, <1>1, ProposeEntrusts, EntrustedStill, <1>2 DEF Propose
    <3>5. Owed' = {y \in Owed : y[1] # l}
      BY <3>1, <3>3, <1>2 DEF Propose, Owed
    <3>6. Waiting' = Waiting \cup {y \in Owed : y[1] = l}
      BY <3>3, <3>4 DEF Waiting, Owed
    <3>7. QED
      BY <3>2, <3>5, <3>6 DEF W!Entrust
  <2>2. ProposeFails(l) => Simulated
    <3>1. ProposeFails(l) => Still
      BY MappedStill DEF ProposeFails, Still, Running, Done
    <3>2. QED
      BY <3>1, <1>3
  <2>3. SafeExecutes(l) => Simulated
    <3>1. SUFFICES ASSUME SafeExecutes(l) PROVE W!Carry
      BY <1>4
    <3>2. Owed' = Owed /\ Running' = Running /\ Done' = Done
      BY <3>1, MappedStill DEF SafeExecutes, run
    <3> DEFINE batch == Head(proposals[l])
    <3>3. /\ wired' = [wired EXCEPT ![l] = @ \cup batch]
          /\ batch \subseteq AllSettings
          /\ batch \subseteq Entrusted(l)
          /\ Entrusted(l)' \subseteq Entrusted(l)
          /\ Entrusted(l) \subseteq batch \cup Entrusted(l)'
      BY <3>1, <1>1, SafeCarries
    <3> HIDE DEF batch
    <3>4. \A k \in Networks \ {l} : Entrusted(k)' = Entrusted(k) /\ wired'[k] = wired[k]
      BY <3>1, <3>3, <1>2, EntrustedStill DEF SafeExecutes
    <3>5. wired'[l] = wired[l] \cup batch
      BY <3>3, <1>2
    <3>6. Holds \subseteq Holds' /\ Holds' \ Holds \subseteq Waiting
      BY <3>3, <3>4, <3>5 DEF Holds, Waiting
    <3>7. Waiting' \subseteq Waiting /\ Waiting \ Waiting' \subseteq Holds'
      BY <3>3, <3>4, <3>5 DEF Holds, Waiting
    <3>8. QED
      BY <3>2, <3>6, <3>7 DEF W!Carry
  <2>4. QED
    BY <2>1, <2>2, <2>3
<1>16. Simulated
  BY <1>1, <1>6, <1>7, <1>8, <1>9, <1>10, <1>11, <1>12, <1>13, <1>14, <1>15, NextCases
<1>17. QED
  BY <1>16 DEF Simulated

(* wireAll implements Wiring for any networks and commands: no step of it  *)
(* forgets a setting it was asked for, and it reports success or that      *)
(* nothing changes only when it owes none.                                 *)
THEOREM WireAllImplementsWiring == Spec => ImplementsWiring
<1>1. Init => W!WiringInit
  BY InitSimulates
<1>2. Inv /\ [Next]_vars => [W!WiringNext]_(W!wiringVars)
  BY StepSimulates
<1>3. QED
  BY <1>1, <1>2, InvAlways, PTL DEF Spec, ImplementsWiring, W!WiringSpec
=============================================================================
