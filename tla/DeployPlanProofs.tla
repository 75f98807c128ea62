-------------------------- MODULE DeployPlanProofs ---------------------------
(***************************************************************************)
(* What the scripts of the deployment are, for every network: the calls a  *)
(* script may make, and the order hardhat-deploy runs the scripts in.      *)
(*                                                                         *)
(* A script is Sound when each of its calls fits it, when its conditional  *)
(* blocks end with the script or return, and when the calls the            *)
(* properties are about (payments, pool admin, pause, the opening of the   *)
(* pool) stand where its special rule wants them. Every script is,         *)
(* whatever the tags of the network; most make quiet calls only, that no   *)
(* property is about. PlanOk says what of the order of the scripts         *)
(* matters.                                                                *)
(*                                                                         *)
(* A script that runs at every deployment is Calm: its blocks are not      *)
(* nested and stand behind tests that the script's own deployments         *)
(* settle, and a call outside of them can be made again. PlanRepeats says  *)
(* so of every such script in the plan.                                    *)
(***************************************************************************)
EXTENDS DeploymentProperties, SumsProofs

-----------------------------------------------------------------------------
(* Lists.                                                                  *)

\* The table of the partial concatenations of seqs.
IsFlatTable(f, seqs, S) ==
  /\ f \in [0..Len(seqs) -> Seq(S)]
  /\ f[0] = <<>>
  /\ \A i \in 1..Len(seqs) : f[i] = f[i - 1] \o seqs[i]

\* FlattenSeq has such a table, and is its last entry.
LEMMA FlatTable ==
  ASSUME NEW S, NEW seqs \in Seq(Seq(S))
  PROVE  \E f : IsFlatTable(f, seqs, S) /\ FlattenSeq(seqs) = f[Len(seqs)]
<1> DEFINE n == Len(seqs)
<1>1. n \in Nat /\ DOMAIN seqs = 1..n /\ \A i \in 1..n : seqs[i] \in Seq(S)
  OBVIOUS
<1>2. CASE n = 0
  <2>1. seqs = <<>>
    BY <1>2
  <2>2. FlattenSeq(seqs) = <<>>
    BY <1>2, <2>1 DEF FlattenSeq
  <2> DEFINE f == [i \in 0..n |-> <<>>]
  <2>3. IsFlatTable(f, seqs, S)
    BY <1>2 DEF IsFlatTable
  <2> QED  BY <1>2, <2>2, <2>3
<1>3. CASE n # 0
  <2> DEFINE Is(t) == t = [i \in 1..n |-> IF i = 1 THEN seqs[i] ELSE t[i - 1] \o seqs[i]]
             G == [p \in Seq(S) \X (1..n) |-> p[1] \o seqs[p[2]]]
             t == CHOOSE u : Is(u)
  <2>1. G \in [Seq(S) \X (1..n) -> Seq(S)] /\ <<>> \in Seq(S)
    BY <1>1
  <2>2. PICK g \in [0..n -> Seq(S)] : RunOf(g, <<>>, n, G)
    <3> HIDE DEF G
    <3> QED  BY <1>1, <2>1, LoopRuns
  <2>3. g[0] = <<>> /\ \A i \in 1..n : g[i] = g[i - 1] \o seqs[i]
    <3>1. \A i \in 1..n : g[i - 1] \in Seq(S) /\ g[i] = G[<<g[i - 1], i>>]
      <4> HIDE DEF G
      <4>1. \A i \in 1..n : i - 1 \in 0..n
        BY <1>1
      <4> QED  BY <2>2, <4>1 DEF RunOf
    <3>2. \A i \in 1..n : G[<<g[i - 1], i>>] = g[i - 1] \o seqs[i]
      BY <3>1
    <3> QED  BY <2>2, <3>1, <3>2 DEF RunOf
  <2> DEFINE u == [i \in 1..n |-> g[i]]
  <2>4. Is(u)
    <3>1. \A i \in 1..n : u[i] = IF i = 1 THEN seqs[i] ELSE u[i - 1] \o seqs[i]
      <4> TAKE i \in 1..n
      <4>1. CASE i = 1
        <5>0. i - 1 = 0 /\ 1 \in 1..n
          BY <4>1
        <5>1. g[i] = <<>> \o seqs[1] /\ seqs[1] \in Seq(S)
          BY <1>1, <2>3, <4>1, <5>0
        <5>2. <<>> \o seqs[1] = seqs[1]
          BY <5>1, ConcatEmptySeq
        <5> QED  BY <4>1, <5>1, <5>2
      <4>2. CASE i # 1
        <5>1. i - 1 \in 1..n
          BY <1>1, <4>2
        <5> QED  BY <2>3, <4>2, <5>1
      <4> QED  BY <4>1, <4>2
    <3>2. u = [i \in 1..n |-> u[i]]
      OBVIOUS
    <3> HIDE DEF u
    <3> QED  BY <3>1, <3>2
  <2>5. Is(t)
    <3> HIDE DEF Is, u
    <3> QED  BY <2>4
  <2>6. FlattenSeq(seqs) = t[n]
    BY <1>3 DEF FlattenSeq
  <2>7. \A i \in 1..n : t[i] = IF i = 1 THEN seqs[i] ELSE t[i - 1] \o seqs[i]
    <3> HIDE DEF t
    <3> QED  BY <2>5
  <2> HIDE DEF t, Is
  <2> DEFINE f == [i \in 0..n |-> IF i = 0 THEN <<>> ELSE t[i]]
  <2>8. f[0] = <<>> /\ f[n] = t[n]
    BY <1>1, <1>3
  <2>9. \A i \in 1..n : f[i] = IF i = 1 THEN seqs[i] ELSE f[i - 1] \o seqs[i]
    <3> TAKE i \in 1..n
    <3>1. CASE i = 1
      BY <1>1, <2>7, <3>1
    <3>2. CASE i # 1
      <4>1. i - 1 \in 1..n /\ i - 1 # 0 /\ i \in 0..n /\ i - 1 \in 0..n /\ i # 0
        BY <1>1, <3>2
      <4> QED  BY <2>7, <3>2, <4>1
    <3> QED  BY <3>1, <3>2
  <2> DOMAIN f = 0..n /\ f = [i \in 0..n |-> f[i]]
    OBVIOUS
  <2> HIDE DEF f
  <2>10. f[0] \in Seq(S) /\ \A i \in 1..n : f[i - 1] \in Seq(S) => f[i] \in Seq(S)
    <3>1. \A i \in 1..n : f[i - 1] \in Seq(S) => f[i] \in Seq(S)
      <4> SUFFICES ASSUME NEW i \in 1..n, f[i - 1] \in Seq(S) PROVE f[i] \in Seq(S)
        OBVIOUS
      <4>1. seqs[i] \in Seq(S)
        BY <1>1
      <4>2. f[i - 1] \o seqs[i] \in Seq(S)
        BY <4>1, ConcatProperties
      <4> QED  BY <2>9, <4>1, <4>2
    <3> QED  BY <2>1, <2>8, <3>1
  <2>11. \A i \in 0..n : f[i] \in Seq(S)
    <3> HIDE DEF n
    <3> QED  BY <1>1, <2>10, LoopKeeps
  <2>12. \A i \in 1..n : f[i] = f[i - 1] \o seqs[i]
    <3> TAKE i \in 1..n
    <3>1. CASE i = 1
      <4>0. i - 1 = 0 /\ 1 \in 1..n
        BY <3>1
      <4>1. f[i - 1] = <<>> /\ f[i] = seqs[1] /\ seqs[1] \in Seq(S)
        BY <1>1, <2>8, <2>9, <3>1, <4>0
      <4>2. <<>> \o seqs[1] = seqs[1]
        BY <4>1, ConcatEmptySeq
      <4> QED  BY <3>1, <4>1, <4>2
    <3>2. CASE i # 1
      BY <2>9, <3>2
    <3> QED  BY <3>1, <3>2
  <2>13. IsFlatTable(f, seqs, S)
    BY <2>8, <2>11, <2>12 DEF IsFlatTable
  <2> QED  BY <2>6, <2>8, <2>13
<1> QED  BY <1>2, <1>3

\* A concatenation of sequences over S is one.
LEMMA FlatIsSeq ==
  ASSUME NEW S, NEW seqs \in Seq(Seq(S))
  PROVE  FlattenSeq(seqs) \in Seq(S)
<1>1. PICK f : IsFlatTable(f, seqs, S) /\ FlattenSeq(seqs) = f[Len(seqs)]
  BY FlatTable
<1>2. Len(seqs) \in 0..Len(seqs)
  OBVIOUS
<1> QED  BY <1>1, <1>2 DEF IsFlatTable

\* The elements of a concatenation are those of its parts.
LEMMA ToSetConcat ==
  ASSUME NEW S, NEW p \in Seq(S), NEW q \in Seq(S)
  PROVE  ToSet(p \o q) = ToSet(p) \cup ToSet(q)
<1>1. /\ DOMAIN p = 1..Len(p) /\ DOMAIN q = 1..Len(q) /\ Len(p) \in Nat /\ Len(q) \in Nat
      /\ DOMAIN (p \o q) = 1..(Len(p) + Len(q))
  BY ConcatProperties, LenProperties
<1>2. \A i \in 1..Len(p) : (p \o q)[i] = p[i]
  BY ConcatProperties
<1>3. \A i \in 1..Len(q) : (p \o q)[Len(p) + i] = q[i]
  <2> SUFFICES ASSUME NEW i \in 1..Len(q) PROVE (p \o q)[Len(p) + i] = q[i]
    OBVIOUS
  <2>1. Len(p) + i \in 1..(Len(p) + Len(q)) /\ ~(Len(p) + i <= Len(p)) /\ (Len(p) + i) - Len(p) = i
    BY <1>1
  <2> QED  BY <2>1, ConcatProperties
<1>4. ASSUME NEW x \in ToSet(p \o q) PROVE x \in ToSet(p) \cup ToSet(q)
  <2>1. PICK i \in 1..(Len(p) + Len(q)) : x = (p \o q)[i]
    BY <1>1, <1>4 DEF ToSet
  <2>2. CASE i <= Len(p)
    <3>1. i \in 1..Len(p)
      BY <2>2
    <3> QED  BY <1>1, <1>2, <2>1, <3>1 DEF ToSet
  <2>3. CASE ~(i <= Len(p))
    <3>1. i - Len(p) \in 1..Len(q) /\ Len(p) + (i - Len(p)) = i
      BY <1>1, <2>3
    <3> QED  BY <1>1, <1>3, <2>1, <3>1 DEF ToSet
  <2> QED  BY <2>2, <2>3
<1>5. ASSUME NEW x \in ToSet(p) PROVE x \in ToSet(p \o q)
  <2>1. PICK i \in 1..Len(p) : x = p[i]
    BY <1>1, <1>5 DEF ToSet
  <2>2. i \in 1..(Len(p) + Len(q))
    BY <1>1
  <2> QED  BY <1>1, <1>2, <2>1, <2>2 DEF ToSet
<1>6. ASSUME NEW x \in ToSet(q) PROVE x \in ToSet(p \o q)
  <2>1. PICK i \in 1..Len(q) : x = q[i]
    BY <1>1, <1>6 DEF ToSet
  <2>2. Len(p) + i \in 1..(Len(p) + Len(q))
    BY <1>1
  <2> QED  BY <1>1, <1>3, <2>1, <2>2 DEF ToSet
<1> QED  BY <1>4, <1>5, <1>6

\* The elements of a sequence with one more.
LEMMA ToSetAppend ==
  ASSUME NEW S, NEW p \in Seq(S), NEW x \in S
  PROVE  ToSet(Append(p, x)) = ToSet(p) \cup {x}
<1>1. Append(p, x) = p \o <<x>> /\ <<x>> \in Seq(S)
  BY AppendIsConcat
<1>2. ToSet(<<x>>) = {x}
  BY DEF ToSet
<1>3. ToSet(p \o <<x>>) = ToSet(p) \cup ToSet(<<x>>)
  BY <1>1, ToSetConcat
<1> QED  BY <1>1, <1>2, <1>3

\* No element occurs twice.
Distinct(s) == \A i, j \in 1..Len(s) : s[i] = s[j] => i = j

\* Every b in s has an a before it.
Leads(s, a, b) == \A j \in 1..Len(s) : s[j] = b => \E i \in 1..(j - 1) : s[i] = a

\* A new element leaves a sequence without repetitions so.
LEMMA DistinctAppend ==
  ASSUME NEW S, NEW p \in Seq(S), NEW x \in S, Distinct(p), x \notin ToSet(p)
  PROVE  Distinct(Append(p, x))
<1>1. /\ DOMAIN p = 1..Len(p) /\ Len(p) \in Nat /\ Len(Append(p, x)) = Len(p) + 1
      /\ Append(p, x)[Len(p) + 1] = x
  BY AppendProperties, LenProperties
<1>2. \A i \in 1..Len(p) : Append(p, x)[i] = p[i] /\ p[i] # x
  BY <1>1, AppendProperties DEF ToSet
<1> SUFFICES ASSUME NEW i \in 1..(Len(p) + 1), NEW j \in 1..(Len(p) + 1),
                    Append(p, x)[i] = Append(p, x)[j]
             PROVE  i = j
  BY <1>1 DEF Distinct
<1> DEFINE r == Append(p, x)
<1>3. \A k \in 1..(Len(p) + 1) : k \in 1..Len(p) \/ k = Len(p) + 1
  BY <1>1
<1> HIDE DEF r
<1> QED  BY <1>1, <1>2, <1>3 DEF Distinct, r

\* A block that has b only when a came before keeps a in the lead.
LEMMA LeadsConcat ==
  ASSUME NEW S, NEW p \in Seq(S), NEW q \in Seq(S), NEW a, NEW b,
         Leads(p, a, b), b \in ToSet(q) => a \in ToSet(p)
  PROVE  Leads(p \o q, a, b)
<1>1. /\ DOMAIN p = 1..Len(p) /\ DOMAIN q = 1..Len(q) /\ Len(p) \in Nat /\ Len(q) \in Nat
      /\ Len(p \o q) = Len(p) + Len(q)
  BY ConcatProperties, LenProperties
<1>2. \A i \in 1..Len(p) : (p \o q)[i] = p[i]
  BY ConcatProperties
<1> SUFFICES ASSUME NEW j \in 1..(Len(p) + Len(q)), (p \o q)[j] = b
             PROVE  \E i \in 1..(j - 1) : (p \o q)[i] = a
  BY <1>1 DEF Leads
<1>3. CASE j <= Len(p)
  <2>1. j \in 1..Len(p)
    BY <1>3
  <2>2. PICK i \in 1..(j - 1) : p[i] = a
    BY <1>2, <2>1 DEF Leads
  <2>3. i \in 1..Len(p)
    BY <2>1
  <2> QED  BY <1>2, <2>2, <2>3
<1>4. CASE ~(j <= Len(p))
  <2>1. j - Len(p) \in 1..Len(q) /\ (p \o q)[j] = q[j - Len(p)]
    BY <1>1, <1>4, ConcatProperties
  <2>2. b \in ToSet(q)
    BY <1>1, <2>1 DEF ToSet
  <2>3. PICK i \in 1..Len(p) : p[i] = a
    BY <1>1, <2>2 DEF ToSet
  <2>4. i \in 1..(j - 1)
    BY <1>1, <1>4
  <2> QED  BY <1>2, <2>3, <2>4
<1> QED  BY <1>3, <1>4

\* A concatenation has the elements of all its parts.
LEMMA FlatToSet ==
  ASSUME NEW S, NEW seqs \in Seq(Seq(S))
  PROVE  ToSet(FlattenSeq(seqs)) = UNION {ToSet(seqs[k]) : k \in 1..Len(seqs)}
<1> DEFINE n == Len(seqs)
<1>1. PICK f : IsFlatTable(f, seqs, S) /\ FlattenSeq(seqs) = f[n]
  BY FlatTable
<1>2. n \in Nat /\ f[0] = <<>> /\ \A i \in 1..n : f[i - 1] \in Seq(S) /\ seqs[i] \in Seq(S) /\
  f[i] = f[i - 1] \o seqs[i]
  <2>1. \A i \in 1..n : i - 1 \in 0..n
    OBVIOUS
  <2> QED  BY <1>1, <2>1 DEF IsFlatTable
<1> DEFINE T == {k \in Nat : k <= n => ToSet(f[k]) = UNION {ToSet(seqs[i]) : i \in 1..k}}
<1>3. 0 \in T
  <2>1. ToSet(<<>>) = {}
    BY DEF ToSet
  <2> QED  BY <1>2, <2>1
<1>4. ASSUME NEW k \in Nat, k \in T PROVE k + 1 \in T
  <2> SUFFICES ASSUME k + 1 <= n PROVE ToSet(f[k + 1]) = UNION {ToSet(seqs[i]) : i \in 1..(k + 1)}
    OBVIOUS
  <2>1. k + 1 \in 1..n /\ (k + 1) - 1 = k /\ k <= n
    BY <1>2
  <2>a. f[k] \in Seq(S) /\ seqs[k + 1] \in Seq(S) /\ f[k + 1] = f[k] \o seqs[k + 1]
    BY <1>2, <2>1
  <2>2. ToSet(f[k + 1]) = ToSet(f[k]) \cup ToSet(seqs[k + 1])
    BY <2>a, ToSetConcat
  <2>3. ToSet(f[k]) = UNION {ToSet(seqs[i]) : i \in 1..k}
    BY <1>4, <2>1
  <2>4. 1..(k + 1) = (1..k) \cup {k + 1}
    OBVIOUS
  <2> QED  BY <2>2, <2>3, <2>4
<1>5. n \in T
  <2> HIDE DEF T
  <2> QED  BY <1>2, <1>3, <1>4, InductiveSet
<1> QED  BY <1>1, <1>2, <1>5

\* When the k-th part has b only for s[k] = b, and a for s[k] = a, the
\* concatenation keeps the lead of a that s gives it.
LEMMA FlatLeads ==
  ASSUME NEW S, NEW seqs \in Seq(Seq(S)), NEW s, NEW a, NEW b, Len(s) = Len(seqs),
         \A k \in 1..Len(seqs) : b \in ToSet(seqs[k]) => s[k] = b,
         \A k \in 1..Len(seqs) : s[k] = a => a \in ToSet(seqs[k]),
         Leads(s, a, b)
  PROVE  Leads(FlattenSeq(seqs), a, b)
<1> DEFINE n == Len(seqs)
<1>1. PICK f : IsFlatTable(f, seqs, S) /\ FlattenSeq(seqs) = f[n]
  BY FlatTable
<1>2. n \in Nat /\ f[0] = <<>> /\ \A i \in 1..n : f[i - 1] \in Seq(S) /\ seqs[i] \in Seq(S) /\
  f[i] = f[i - 1] \o seqs[i]
  <2>1. \A i \in 1..n : i - 1 \in 0..n
    OBVIOUS
  <2> QED  BY <1>1, <2>1 DEF IsFlatTable
<1> DEFINE T == {k \in Nat : k <= n =>
                   /\ Leads(f[k], a, b)
                   /\ \A i \in 1..k : s[i] = a => a \in ToSet(f[k])}
<1>3. 0 \in T
  <2>1. Len(<<>>) = 0
    OBVIOUS
  <2>2. Leads(<<>>, a, b)
    BY <2>1 DEF Leads
  <2> QED  BY <1>2, <2>2
<1>4. ASSUME NEW k \in Nat, k \in T PROVE k + 1 \in T
  <2> SUFFICES ASSUME k + 1 <= n
               PROVE  /\ Leads(f[k + 1], a, b)
                      /\ \A i \in 1..(k + 1) : s[i] = a => a \in ToSet(f[k + 1])
    OBVIOUS
  <2>1. k + 1 \in 1..n /\ (k + 1) - 1 = k /\ k <= n
    BY <1>2
  <2>2. f[k] \in Seq(S) /\ seqs[k + 1] \in Seq(S) /\ f[k + 1] = f[k] \o seqs[k + 1]
    BY <1>2, <2>1
  <2>3. ToSet(f[k + 1]) = ToSet(f[k]) \cup ToSet(seqs[k + 1])
    BY <2>2, ToSetConcat
  <2>4. Leads(f[k], a, b) /\ \A i \in 1..k : s[i] = a => a \in ToSet(f[k])
    BY <1>4, <2>1
  <2>5. b \in ToSet(seqs[k + 1]) => a \in ToSet(f[k])
    <3> SUFFICES ASSUME b \in ToSet(seqs[k + 1]) PROVE a \in ToSet(f[k])
      OBVIOUS
    <3>1. s[k + 1] = b
      BY <2>1
    <3>2. PICK i \in 1..((k + 1) - 1) : s[i] = a
      BY <2>1, <3>1 DEF Leads
    <3> QED  BY <2>1, <2>4, <3>2
  <2>6. Leads(f[k + 1], a, b)
    BY <2>2, <2>4, <2>5, LeadsConcat
  <2>7. \A i \in 1..(k + 1) : i \in 1..k \/ i = k + 1
    OBVIOUS
  <2> QED  BY <2>1, <2>3, <2>4, <2>6, <2>7
<1>5. n \in T
  <2> HIDE DEF T
  <2> QED  BY <1>2, <1>3, <1>4, InductiveSet
<1> QED  BY <1>1, <1>2, <1>5

\* A selection from a sequence without repetitions has none.
LEMMA FlatDistinct ==
  ASSUME NEW S, NEW seqs \in Seq(Seq(S)), NEW s \in Seq(S), Len(s) = Len(seqs), Distinct(s),
         \A k \in 1..Len(seqs) : seqs[k] \in {<<>>, <<s[k]>>}
  PROVE  Distinct(FlattenSeq(seqs))
<1> DEFINE n == Len(seqs)
<1>1. PICK f : IsFlatTable(f, seqs, S) /\ FlattenSeq(seqs) = f[n]
  BY FlatTable
<1>2. n \in Nat /\ f[0] = <<>> /\ \A i \in 1..n : f[i - 1] \in Seq(S) /\ seqs[i] \in Seq(S) /\
  f[i] = f[i - 1] \o seqs[i]
  <2>1. \A i \in 1..n : i - 1 \in 0..n
    OBVIOUS
  <2> QED  BY <1>1, <2>1 DEF IsFlatTable
<1> DEFINE T == {k \in Nat : k <= n => Distinct(f[k]) /\ ToSet(f[k]) \subseteq {s[i] : i \in 1..k}}
<1>3. 0 \in T
  <2>1. Distinct(<<>>) /\ ToSet(<<>>) = {}
    BY DEF Distinct, ToSet
  <2> QED  BY <1>2, <2>1
<1>4. ASSUME NEW k \in Nat, k \in T PROVE k + 1 \in T
  <2> SUFFICES ASSUME k + 1 <= n
               PROVE  Distinct(f[k + 1]) /\ ToSet(f[k + 1]) \subseteq {s[i] : i \in 1..(k + 1)}
    OBVIOUS
  <2>1. k + 1 \in 1..n /\ (k + 1) - 1 = k /\ k <= n
    BY <1>2
  <2>2. f[k] \in Seq(S) /\ f[k + 1] = f[k] \o seqs[k + 1] /\ s[k + 1] \in S
    <3>1. s[k + 1] \in S
      BY <2>1
    <3> QED  BY <1>2, <2>1, <3>1
  <2>3. Distinct(f[k]) /\ ToSet(f[k]) \subseteq {s[i] : i \in 1..k}
    BY <1>4, <2>1
  <2>4. CASE seqs[k + 1] = <<>>
    <3>1. f[k + 1] = f[k]
      BY <2>2, <2>4, ConcatEmptySeq
    <3> QED  BY <2>3, <3>1
  <2>5. CASE seqs[k + 1] = <<s[k + 1]>>
    <3>1. f[k + 1] = Append(f[k], s[k + 1])
      BY <2>2, <2>5, AppendIsConcat
    <3>2. s[k + 1] \notin ToSet(f[k])
      <4>1. \A i \in 1..k : i \in 1..n /\ i # k + 1
        BY <1>2, <2>1
      <4>2. \A i \in 1..k : s[i] # s[k + 1]
        BY <2>1, <4>1 DEF Distinct
      <4> QED  BY <2>3, <4>2
    <3>3. Distinct(f[k + 1])
      BY <2>2, <2>3, <3>1, <3>2, DistinctAppend
    <3>4. ToSet(f[k + 1]) = ToSet(f[k]) \cup {s[k + 1]}
      BY <2>2, <3>1, ToSetAppend
    <3> QED  BY <2>3, <3>3, <3>4
  <2> QED  BY <2>1, <2>4, <2>5
<1>5. n \in T
  <2> HIDE DEF T
  <2> QED  BY <1>2, <1>3, <1>4, InductiveSet
<1> QED  BY <1>1, <1>2, <1>5

\* Firsts keeps the elements, without repetitions and without changing who leads.
LEMMA FirstsKeeps ==
  ASSUME NEW S, NEW s \in Seq(S)
  PROVE  /\ Firsts(s) \in Seq(S) /\ Distinct(Firsts(s)) /\ ToSet(Firsts(s)) = ToSet(s)
         /\ \A a, b : Leads(s, a, b) => Leads(Firsts(s), a, b)
<1> DEFINE n == Len(s)
           Rest(before, x) == IF x \in ToSet(before) THEN before ELSE Append(before, x)
           Is(t) == t = [k \in 0..n |-> IF k = 0 THEN <<>> ELSE Rest(t[k - 1], s[k])]
           G == [p \in Seq(S) \X (1..n) |-> Rest(p[1], s[p[2]])]
           t == CHOOSE u : Is(u)
<1>1. n \in Nat /\ DOMAIN s = 1..n /\ \A i \in 1..n : s[i] \in S
  OBVIOUS
<1>2. \A q \in Seq(S) : \A x \in S : Rest(q, x) \in Seq(S)
  BY AppendProperties
<1>3. G \in [Seq(S) \X (1..n) -> Seq(S)] /\ <<>> \in Seq(S)
  BY <1>1, <1>2
<1>4. \A q \in Seq(S) : \A i \in 1..n : G[<<q, i>>] = Rest(q, s[i])
  OBVIOUS
<1> HIDE DEF Rest
<1>5. PICK g \in [0..n -> Seq(S)] : RunOf(g, <<>>, n, G)
  <2> HIDE DEF G
  <2> QED  BY <1>1, <1>3, LoopRuns
<1>6. Is(g)
  <2>1. \A k \in 1..n : k - 1 \in 0..n
    BY <1>1
  <2>2. \A k \in 1..n : g[k] = G[<<g[k - 1], k>>]
    BY <1>5 DEF RunOf
  <2>3. \A k \in 1..n : g[k] = Rest(g[k - 1], s[k])
    BY <1>4, <1>5, <2>1, <2>2
  <2>4. g[0] = <<>>
    BY <1>5 DEF RunOf
  <2>5. \A k \in 0..n : k = 0 \/ k \in 1..n
    BY <1>1
  <2>6. g = [k \in 0..n |-> g[k]]
    OBVIOUS
  <2>7. \A k \in 0..n : g[k] = IF k = 0 THEN <<>> ELSE Rest(g[k - 1], s[k])
    BY <2>3, <2>4, <2>5
  <2> QED  BY <2>6, <2>7
<1>7. Is(t)
  <2> HIDE DEF Is
  <2> QED  BY <1>6
<1>8. Firsts(s) = t[n]
  BY DEF Firsts, Rest
<1> HIDE DEF t
<1>9. t[0] = <<>> /\ \A k \in 1..n : t[k] = Rest(t[k - 1], s[k])
  <2>1. \A k \in 0..n : t[k] = IF k = 0 THEN <<>> ELSE Rest(t[k - 1], s[k])
    BY <1>7
  <2> HIDE DEF Is
  <2>2. \A k \in 1..n : k \in 0..n /\ k # 0
    BY <1>1
  <2>3. 0 \in 0..n
    BY <1>1
  <2> QED  BY <2>1, <2>2, <2>3
<1> HIDE DEF Is, G
<1> DEFINE T == {k \in Nat : k <= n => t[k] \in Seq(S) /\ Distinct(t[k]) /\
                  ToSet(t[k]) = {s[i] : i \in 1..k}}
<1>10. 0 \in T
  <2>1. Distinct(<<>>) /\ ToSet(<<>>) = {} /\ <<>> \in Seq(S)
    BY DEF Distinct, ToSet
  <2>2. {s[i] : i \in 1..0} = {}
    OBVIOUS
  <2> QED  BY <1>9, <2>1, <2>2
<1>11. ASSUME NEW k \in Nat, k \in T PROVE k + 1 \in T
  <2> SUFFICES ASSUME k + 1 <= n
               PROVE  /\ t[k + 1] \in Seq(S) /\ Distinct(t[k + 1])
                      /\ ToSet(t[k + 1]) = {s[i] : i \in 1..(k + 1)}
    OBVIOUS
  <2>1. k + 1 \in 1..n /\ (k + 1) - 1 = k /\ k <= n
    BY <1>1
  <2>2. t[k] \in Seq(S) /\ Distinct(t[k]) /\ ToSet(t[k]) = {s[i] : i \in 1..k}
    BY <1>11, <2>1
  <2>3. s[k + 1] \in S /\ t[k + 1] = Rest(t[k], s[k + 1])
    BY <1>1, <1>9, <2>1
  <2>4. {s[i] : i \in 1..(k + 1)} = {s[i] : i \in 1..k} \cup {s[k + 1]}
    <3>1. \A i \in 1..(k + 1) : i \in 1..k \/ i = k + 1
      OBVIOUS
    <3>2. \A i \in 1..k : i \in 1..(k + 1)
      OBVIOUS
    <3> QED  BY <3>1, <3>2
  <2>5. CASE s[k + 1] \in ToSet(t[k])
    BY <2>2, <2>3, <2>4, <2>5 DEF Rest
  <2>6. CASE s[k + 1] \notin ToSet(t[k])
    <3>1. t[k + 1] = Append(t[k], s[k + 1])
      BY <2>3, <2>6 DEF Rest
    <3>2. t[k + 1] \in Seq(S)
      BY <2>2, <2>3, <3>1, AppendProperties
    <3>3. Distinct(t[k + 1])
      <4> HIDE DEF T, n
      <4>1. Distinct(Append(t[k], s[k + 1]))
        BY <2>2, <2>3, <2>6, DistinctAppend
      <4> QED  BY <3>1, <4>1
    <3>4. ToSet(t[k + 1]) = ToSet(t[k]) \cup {s[k + 1]}
      BY <2>2, <2>3, <3>1, ToSetAppend
    <3> QED  BY <2>2, <2>4, <3>2, <3>3, <3>4
  <2> QED  BY <2>5, <2>6
<1>12. Nat \subseteq T
  <2> HIDE DEF T
  <2> QED  BY <1>10, <1>11, InductiveSet
<1>13. \A k \in 0..n : t[k] \in Seq(S) /\ Distinct(t[k]) /\ ToSet(t[k]) = {s[i] : i \in 1..k}
  <2>1. \A k \in 0..n : k \in T /\ k <= n
    <3> HIDE DEF T
    <3> QED  BY <1>1, <1>12
  <2> QED  BY <2>1
<1> HIDE DEF T
<1>14. ASSUME NEW a, NEW b, Leads(s, a, b) PROVE Leads(t[n], a, b)
  <2> DEFINE U == {k \in Nat : k <= n => Leads(t[k], a, b)}
  <2>1. 0 \in U
    <3>1. Leads(<<>>, a, b)
      BY DEF Leads
    <3> QED  BY <1>9, <3>1
  <2>2. ASSUME NEW k \in Nat, k \in U PROVE k + 1 \in U
    <3> SUFFICES ASSUME k + 1 <= n PROVE Leads(t[k + 1], a, b)
      OBVIOUS
    <3>1. k + 1 \in 1..n /\ (k + 1) - 1 = k /\ k <= n /\ k \in 0..n
      BY <1>1
    <3>2. t[k] \in Seq(S) /\ ToSet(t[k]) = {s[i] : i \in 1..k} /\ Leads(t[k], a, b)
      BY <1>13, <2>2, <3>1
    <3>3. s[k + 1] \in S /\ t[k + 1] = Rest(t[k], s[k + 1])
      BY <1>1, <1>9, <3>1
    <3>4. CASE s[k + 1] \in ToSet(t[k])
      BY <3>2, <3>3, <3>4 DEF Rest
    <3>5. CASE s[k + 1] \notin ToSet(t[k])
      <4>1. t[k + 1] = t[k] \o <<s[k + 1]>> /\ <<s[k + 1]>> \in Seq(S)
        BY <3>2, <3>3, <3>5, AppendIsConcat DEF Rest
      <4>2. b \in ToSet(<<s[k + 1]>>) => a \in ToSet(t[k])
        <5> SUFFICES ASSUME b \in ToSet(<<s[k + 1]>>) PROVE a \in ToSet(t[k])
          OBVIOUS
        <5>1. s[k + 1] = b
          BY DEF ToSet
        <5>2. PICK i \in 1..((k + 1) - 1) : s[i] = a
          BY <1>14, <3>1, <5>1 DEF Leads
        <5> QED  BY <3>1, <3>2, <5>2
      <4> QED  BY <3>2, <4>1, <4>2, LeadsConcat
    <3> QED  BY <3>4, <3>5
  <2>3. n \in U
    <3> HIDE DEF U
    <3> QED  BY <1>1, <2>1, <2>2, InductiveSet
  <2> QED  BY <1>1, <2>3
<1>15. n \in 0..n /\ {s[i] : i \in 1..n} = ToSet(s)
  BY <1>1 DEF ToSet
<1> QED  BY <1>8, <1>13, <1>14, <1>15

\* A function whose domain is 1..n is a sequence.
LEMMA SeqFromTo ==
  ASSUME NEW S, NEW f, NEW n \in Nat, DOMAIN f = 1..n, f = [i \in 1..n |-> f[i]],
         \A i \in 1..n : f[i] \in S
  PROVE  f \in Seq(S) /\ Len(f) = n
<1>1. f \in [1..n -> S]
  OBVIOUS
<1> QED  BY <1>1

\* The files as hardhat-deploy is given them: n of them, their dependencies
\* finite lists.
FileList(files, n) ==
  /\ n \in Nat /\ DOMAIN files = 1..n
  /\ \A i \in 1..n : \E m \in Nat : DOMAIN files[i].deps = 1..m

\* What a file needs.
NeedsOf(files) == [i \in DOMAIN files |-> Each(files[i].deps, LAMBDA t : Tagged(files, t))]

\* The files with a tag are files.
LEMMA TaggedFiles ==
  ASSUME NEW files, NEW n, FileList(files, n), NEW t
  PROVE  Tagged(files, t) \in Seq(1..n) /\ \A b \in ToSet(Tagged(files, t)) : t \in files[b].tags
<1> DEFINE D == 1..n
           P(i) == IF t \in files[i].tags THEN <<i>> ELSE <<>>
           seqs == [k \in DOMAIN [i \in DOMAIN files |-> i] |-> P([i \in DOMAIN files |-> i][k])]
<1>1. Tagged(files, t) = FlattenSeq(seqs)
  BY DEF Tagged, Select, Each, If
<1>2. DOMAIN seqs = 1..n /\ n \in Nat /\ \A k \in 1..n : seqs[k] = P(k)
  BY DEF FileList
<1>3. \A k \in 1..n : P(k) \in Seq(D)
  <2> SUFFICES ASSUME NEW k \in D PROVE P(k) \in Seq(D)
    OBVIOUS
  <2> HIDE DEF D
  <2>1. <<k>> \in Seq(D) /\ <<>> \in Seq(D)
    OBVIOUS
  <2> QED  BY <2>1
<1>4. seqs = [k \in 1..n |-> seqs[k]] /\ \A k \in 1..n : seqs[k] \in Seq(D)
  BY <1>2, <1>3
<1>5. ASSUME NEW k \in 1..n, NEW b \in ToSet(seqs[k]) PROVE t \in files[b].tags
  <2>1. CASE t \in files[k].tags
    <3>1. ToSet(seqs[k]) = {k}
      BY <1>2, <2>1 DEF ToSet
    <3> QED  BY <1>5, <2>1, <3>1
  <2>2. CASE t \notin files[k].tags
    <3>1. ToSet(seqs[k]) = {}
      BY <1>2, <2>2 DEF ToSet
    <3> QED  BY <1>5, <3>1
  <2> QED  BY <2>1, <2>2
<1> HIDE DEF seqs, D
<1>6. seqs \in Seq(Seq(D)) /\ Len(seqs) = n
  BY <1>2, <1>4, SeqFromTo
<1>7. FlattenSeq(seqs) \in Seq(D)
  BY <1>6, FlatIsSeq
<1>8. ToSet(FlattenSeq(seqs)) = UNION {ToSet(seqs[k]) : k \in 1..n}
  BY <1>6, FlatToSet
<1>9. \A b \in ToSet(FlattenSeq(seqs)) : t \in files[b].tags
  BY <1>5, <1>8
<1> QED  BY <1>1, <1>7, <1>9 DEF D

\* A file needs files whose tags it names.
LEMMA NeedsFiles ==
  ASSUME NEW files, NEW n, FileList(files, n), NEW i \in 1..n
  PROVE  /\ NeedsOf(files)[i] \in Seq(1..n)
         /\ \A b \in ToSet(NeedsOf(files)[i]) : \E k \in DOMAIN files[i].deps : files[i].deps[k] \in files[b].tags
<1> DEFINE D == 1..n
           deps == files[i].deps
           seqs == [k \in DOMAIN deps |-> Tagged(files, deps[k])]
<1>1. NeedsOf(files)[i] = FlattenSeq(seqs)
  BY DEF NeedsOf, Each, FileList
<1>2. PICK m \in Nat : DOMAIN deps = 1..m
  BY DEF FileList
<1>3. \A k \in 1..m : seqs[k] = Tagged(files, deps[k])
  BY <1>2
<1>4. \A k \in 1..m : Tagged(files, deps[k]) \in Seq(D) /\ \A b \in ToSet(Tagged(files,
  deps[k])) : deps[k] \in files[b].tags
  BY TaggedFiles
<1>5. seqs = [k \in 1..m |-> seqs[k]] /\ DOMAIN seqs = 1..m
  BY <1>2
<1> HIDE DEF seqs, D
<1>6. \A k \in 1..m : seqs[k] \in Seq(D)
  BY <1>3, <1>4
<1>7. seqs \in Seq(Seq(D)) /\ Len(seqs) = m
  BY <1>5, <1>6, SeqFromTo
<1>8. FlattenSeq(seqs) \in Seq(D)
  BY <1>7, FlatIsSeq
<1>9. ToSet(FlattenSeq(seqs)) = UNION {ToSet(seqs[k]) : k \in 1..m}
  BY <1>7, FlatToSet
<1>10. \A b \in ToSet(FlattenSeq(seqs)) : \E k \in 1..m : deps[k] \in files[b].tags
  BY <1>3, <1>4, <1>9
<1> QED  BY <1>1, <1>2, <1>8, <1>10 DEF D

\* One round: every element of s gets its needs put before it.
Round(needs, s) == Firsts(FlattenSeq([i \in DOMAIN s |-> needs[s[i]] \o <<s[i]>>]))

\* A round only adds files, keeps each once, and keeps a before a b that
\* nothing needs.
LEMMA RoundKeeps ==
  ASSUME NEW D, NEW needs, NEW s \in Seq(D), \A i \in D : needs[i] \in Seq(D)
  PROVE  /\ Round(needs, s) \in Seq(D) /\ Distinct(Round(needs, s))
         /\ ToSet(s) \subseteq ToSet(Round(needs, s))
         /\ \A a, b : Leads(s, a, b) /\ (\A i \in D : b \notin ToSet(needs[i])) => Leads(Round(needs,
              s), a, b)
<1> DEFINE m == Len(s)
           seqs == [i \in DOMAIN s |-> needs[s[i]] \o <<s[i]>>]
<1>1. m \in Nat /\ DOMAIN s = 1..m /\ \A i \in 1..m : s[i] \in D
  OBVIOUS
<1>2. seqs = [i \in 1..m |-> seqs[i]] /\ DOMAIN seqs = 1..m
  BY <1>1
<1>3. \A i \in 1..m : seqs[i] = needs[s[i]] \o <<s[i]>>
  BY <1>1
<1> HIDE DEF seqs
<1>4. ASSUME NEW i \in 1..m
      PROVE  seqs[i] \in Seq(D) /\ ToSet(seqs[i]) = ToSet(needs[s[i]]) \cup {s[i]}
  <2>1. s[i] \in D /\ needs[s[i]] \in Seq(D)
    BY <1>1
  <2>2. seqs[i] = Append(needs[s[i]], s[i])
    BY <1>3, <2>1, AppendIsConcat
  <2>3. Append(needs[s[i]], s[i]) \in Seq(D)
    BY <2>1, AppendProperties
  <2>4. ToSet(Append(needs[s[i]], s[i])) = ToSet(needs[s[i]]) \cup {s[i]}
    BY <2>1, ToSetAppend
  <2> QED  BY <2>2, <2>3, <2>4
<1>5. seqs \in Seq(Seq(D)) /\ Len(seqs) = m
  BY <1>1, <1>2, <1>4, SeqFromTo
<1> DEFINE q == FlattenSeq(seqs)
<1>6. q \in Seq(D)
  BY <1>5, FlatIsSeq
<1>7. ToSet(s) \subseteq ToSet(q)
  <2>1. ToSet(q) = UNION {ToSet(seqs[k]) : k \in 1..m}
    BY <1>5, FlatToSet
  <2>2. ToSet(s) = {s[i] : i \in 1..m}
    BY <1>1 DEF ToSet
  <2> QED  BY <1>4, <2>1, <2>2
<1>8. ASSUME NEW a, NEW b, Leads(s, a, b), \A i \in D : b \notin ToSet(needs[i]) PROVE Leads(q, a, b)
  <2>1. \A k \in 1..m : b \in ToSet(seqs[k]) => s[k] = b
    BY <1>1, <1>4, <1>8
  <2>2. \A k \in 1..m : s[k] = a => a \in ToSet(seqs[k])
    BY <1>4
  <2> QED  BY <1>5, <1>8, <2>1, <2>2, FlatLeads
<1>9. Round(needs, s) = Firsts(q)
  BY DEF Round, seqs
<1> HIDE DEF q
<1> QED  BY <1>6, <1>7, <1>8, <1>9, FirstsKeeps

\* AddFiles keeps every file once, and an earlier file before one nobody needs.
LEMMA AddFilesKeeps ==
  ASSUME NEW files, NEW n, FileList(files, n)
  PROVE  /\ AddFiles(files) \in Seq(1..n) /\ Distinct(AddFiles(files))
         /\ ToSet(AddFiles(files)) = 1..n
         /\ \A a, b \in 1..n :
              a < b /\
                (\A i \in 1..n : \A k \in DOMAIN files[i].deps : files[i].deps[k] \notin files[b].tags)
                => Leads(AddFiles(files), a, b)
<1> DEFINE D == 1..n
           needs == NeedsOf(files)
           ids == [i \in DOMAIN files |-> i]
           Is(t) == t = [r \in 0..LongestChain |-> IF r = 0 THEN ids ELSE Round(needs, t[r - 1])]
           G == [p \in Seq(D) \X (1..4) |-> Round(needs, p[1])]
           t == CHOOSE u : Is(u)
<1>1. n \in Nat /\ DOMAIN files = 1..n
  BY DEF FileList
<1>2. \A i \in D : needs[i] \in Seq(D)
  BY NeedsFiles
<1>3. AddFiles(files) = t[4]
  BY DEF AddFiles, NeedsOf, Each, Round, LongestChain
<1>4. ids \in Seq(D) /\ Distinct(ids) /\ ToSet(ids) = D /\ Len(ids) = n
  <2>1. ids = [i \in 1..n |-> ids[i]] /\ DOMAIN ids = 1..n /\ \A i \in 1..n : ids[i] = i
    BY <1>1
  <2>2. ids \in Seq(D) /\ Len(ids) = n
    <3> HIDE DEF ids
    <3> QED  BY <1>1, <2>1, SeqFromTo
  <2> HIDE DEF ids, needs, Is, G, t
  <2>3. Distinct(ids)
    BY <2>1, <2>2 DEF Distinct
  <2>4. ToSet(ids) = 1..n
    BY <2>1 DEF ToSet
  <2> QED  BY <2>2, <2>3, <2>4
<1> HIDE DEF needs, ids
<1>5. \A q \in Seq(D) : Round(needs, q) \in Seq(D)
  BY <1>2, RoundKeeps
<1>6. G \in [Seq(D) \X (1..4) -> Seq(D)] /\ \A q \in Seq(D) : \A r \in 1..4 : G[<<q, r>>] = Round(needs,
  q)
  BY <1>5
<1> HIDE DEF G, D
<1>7. PICK g \in [0..4 -> Seq(D)] : RunOf(g, ids, 4, G)
  BY <1>4, <1>6, LoopRuns
<1>8. Is(g)
  <2>1. \A r \in 1..4 : r - 1 \in 0..4
    OBVIOUS
  <2>2. \A r \in 1..4 : g[r] = Round(needs, g[r - 1])
    BY <1>6, <1>7, <2>1 DEF RunOf
  <2>3. g[0] = ids
    BY <1>7 DEF RunOf
  <2>4. \A r \in 0..4 : r = 0 \/ r \in 1..4
    OBVIOUS
  <2>5. \A r \in 0..4 : g[r] = IF r = 0 THEN ids ELSE Round(needs, g[r - 1])
    BY <2>2, <2>3, <2>4
  <2>6. g = [r \in 0..4 |-> g[r]]
    OBVIOUS
  <2> QED  BY <2>5, <2>6 DEF LongestChain
<1>9. Is(t)
  <2> HIDE DEF Is
  <2> QED  BY <1>8
<1> HIDE DEF t
<1>10. t[0] = ids /\ \A r \in 1..4 : t[r] = Round(needs, t[r - 1])
  <2>1. \A r \in 0..4 : t[r] = IF r = 0 THEN ids ELSE Round(needs, t[r - 1])
    BY <1>9 DEF LongestChain
  <2>2. \A r \in 1..4 : r \in 0..4 /\ r # 0
    OBVIOUS
  <2> HIDE DEF Is
  <2> QED  BY <2>1, <2>2
<1> HIDE DEF Is
<1> DEFINE K == {q \in Seq(D) : Distinct(q) /\ ToSet(q) = D}
<1>11. t[4] \in K
  <2>1. t[0] \in K
    BY <1>4, <1>10
  <2>2. \A r \in 1..4 : t[r - 1] \in K => t[r] \in K
    <3> SUFFICES ASSUME NEW r \in 1..4, NEW q, q = t[r - 1], q \in K PROVE Round(needs, q) \in K
      BY <1>10
    <3>1. q \in Seq(D) /\ Distinct(q) /\ ToSet(q) = D
      OBVIOUS
    <3>2. Round(needs, q) \in Seq(D) /\ Distinct(Round(needs, q)) /\
      ToSet(q) \subseteq ToSet(Round(needs, q))
      BY <1>2, <3>1, RoundKeeps
    <3>3. ToSet(Round(needs, q)) \subseteq D
      BY <3>2 DEF ToSet
    <3> QED  BY <3>1, <3>2, <3>3
  <2> HIDE DEF K
  <2>3. \A r \in 0..4 : t[r] \in K
    BY <2>1, <2>2, LoopKeeps
  <2> QED  BY <2>3
<1>12. ASSUME NEW a \in D, NEW b \in D, a < b,
              \A i \in D : \A k \in DOMAIN files[i].deps : files[i].deps[k] \notin files[b].tags
       PROVE  Leads(t[4], a, b)
  <2> DEFINE L == {q \in Seq(D) : Leads(q, a, b)}
  <2>1. \A i \in D : b \notin ToSet(needs[i])
    BY <1>12, NeedsFiles DEF needs, D
  <2>2. ids \in L
    <3>1. \A j \in 1..n : ids[j] = j
      BY <1>1 DEF ids
    <3>2. ASSUME NEW j \in 1..n, ids[j] = b PROVE \E i \in 1..(j - 1) : ids[i] = a
      <4>1. a \in 1..n /\ a \in 1..(j - 1)
        BY <1>1, <1>12, <3>1, <3>2 DEF D
      <4> QED  BY <3>1, <4>1
    <3>3. Leads(ids, a, b)
      BY <1>4, <3>2 DEF Leads
    <3> QED  BY <1>4, <3>3
  <2>3. \A r \in 1..4 : t[r - 1] \in L => t[r] \in L
    <3> SUFFICES ASSUME NEW r \in 1..4, NEW q, q = t[r - 1], q \in L PROVE Round(needs, q) \in L
      BY <1>10
    <3>1. q \in Seq(D) /\ Leads(q, a, b)
      OBVIOUS
    <3> QED  BY <1>2, <2>1, <3>1, RoundKeeps
  <2>4. t[0] \in L
    BY <1>10, <2>2
  <2> HIDE DEF L
  <2>5. \A r \in 0..4 : t[r] \in L
    BY <2>3, <2>4, LoopKeeps
  <2>6. t[4] \in L
    BY <2>5
  <2> QED  BY <2>6 DEF L
<1> QED  BY <1>3, <1>11, <1>12 DEF D

\* What RunOrder does: it puts the files in some order, each once, with those
\* for the end at the end, and an earlier file before one nobody needs.
InOrder(files, n, sorted) ==
  /\ sorted \in Seq(1..n) /\ Distinct(sorted) /\ ToSet(sorted) = 1..n
  /\ \A e \in 1..n : files[e].atEnd =>
       Len(sorted) \in 1..Len(sorted) /\ files[sorted[Len(sorted)]].atEnd
  /\ \A a, b \in 1..n :
       /\ a < b /\ ~files[a].atEnd /\ ~files[b].atEnd
       /\ \A i \in 1..n : \A k \in DOMAIN files[i].deps : files[i].deps[k] \notin files[b].tags
       => Leads(sorted, a, b)

\* The selection of the files that are, or are not, for the end.
LEMMA Selection ==
  ASSUME NEW n \in Nat, NEW order \in Seq(1..n), Distinct(order), ToSet(order) = 1..n,
         NEW Keep, NEW seqs, DOMAIN seqs = DOMAIN order, seqs = [k \in DOMAIN order |-> seqs[k]],
         \A k \in DOMAIN order : seqs[k] = IF order[k] \in Keep THEN <<order[k]>> ELSE <<>>
  PROVE  LET q == FlattenSeq(seqs) IN
         /\ q \in Seq(1..n) /\ Distinct(q) /\ ToSet(q) = {i \in 1..n : i \in Keep}
         /\ \A a, b : a \in Keep /\ a \in 1..n /\ Leads(order, a, b) => Leads(q, a, b)
<1> DEFINE D == 1..n
           m == Len(order)
           q == FlattenSeq(seqs)
<1>1. m \in Nat /\ DOMAIN order = 1..m /\ \A k \in 1..m : order[k] \in D
  OBVIOUS
<1>2. ToSet(order) = {order[k] : k \in 1..m}
  BY <1>1 DEF ToSet
<1>3. ASSUME NEW k \in 1..m
      PROVE  /\ seqs[k] \in Seq(D) /\ seqs[k] \in {<<>>, <<order[k]>>}
             /\ ToSet(seqs[k]) = IF order[k] \in Keep THEN {order[k]} ELSE {}
  <2>1. order[k] \in D /\ seqs[k] = IF order[k] \in Keep THEN <<order[k]>> ELSE <<>>
    BY <1>1
  <2>2. ToSet(<<>>) = {} /\ ToSet(<<order[k]>>) = {order[k]}
    BY DEF ToSet
  <2> HIDE DEF D
  <2>3. <<>> \in Seq(D) /\ <<order[k]>> \in Seq(D)
    BY <2>1
  <2> QED  BY <2>1, <2>2, <2>3
<1>4. seqs \in Seq(Seq(D)) /\ Len(seqs) = m
  <2>1. DOMAIN seqs = 1..m /\ seqs = [k \in 1..m |-> seqs[k]] /\ \A k \in 1..m : seqs[k] \in Seq(D)
    BY <1>1, <1>3
  <2> HIDE DEF D, m
  <2> QED  BY <1>1, <2>1, SeqFromTo
<1>5. q \in Seq(D)
  BY <1>4, FlatIsSeq
<1>6. Distinct(q)
  <2>1. \A k \in 1..Len(seqs) : seqs[k] \in {<<>>, <<order[k]>>}
    BY <1>3, <1>4
  <2>2. Len(order) = Len(seqs)
    BY <1>4
  <2> HIDE DEF D, m
  <2>3. order \in Seq(D)
    BY DEF D
  <2> QED  BY <1>4, <2>1, <2>2, <2>3, FlatDistinct
<1>7. ToSet(q) = {i \in 1..n : i \in Keep}
  <2>1. ToSet(q) = UNION {ToSet(seqs[k]) : k \in 1..m}
    BY <1>4, FlatToSet
  <2>2. ASSUME NEW i \in ToSet(q) PROVE i \in 1..n /\ i \in Keep
    <3>1. PICK k \in 1..m : i \in ToSet(seqs[k])
      BY <2>1, <2>2
    <3> QED  BY <1>1, <1>3, <3>1
  <2>3. ASSUME NEW i \in 1..n, i \in Keep PROVE i \in ToSet(q)
    <3>1. PICK k \in 1..m : order[k] = i
      BY <1>2
    <3> QED  BY <1>3, <2>1, <2>3, <3>1
  <2> HIDE DEF q
  <2> QED  BY <2>2, <2>3
<1>8. ASSUME NEW a, NEW b, a \in Keep, Leads(order, a, b) PROVE Leads(q, a, b)
  <2>1. \A k \in 1..m : b \in ToSet(seqs[k]) => order[k] = b
    BY <1>3
  <2>2. \A k \in 1..m : order[k] = a => a \in ToSet(seqs[k])
    BY <1>3, <1>8
  <2> QED  BY <1>4, <1>8, <2>1, <2>2, FlatLeads
<1> HIDE DEF q
<1> QED  BY <1>5, <1>6, <1>7, <1>8 DEF q

\* The order of the run.
LEMMA RunOrderSorts ==
  ASSUME NEW files, NEW n, FileList(files, n), \A i \in 1..n : files[i].atEnd \in BOOLEAN
  PROVE  \E sorted : /\ InOrder(files, n, sorted)
                     /\ RunOrder(files) = [j \in DOMAIN sorted |-> files[sorted[j]]]
<1> DEFINE order == AddFiles(files)
           Ends == {i \in 1..n : files[i].atEnd}
           Others == {i \in 1..n : ~files[i].atEnd}
           seqs1 == [k \in DOMAIN order |-> IF ~files[order[k]].atEnd THEN <<order[k]>> ELSE <<>>]
           seqs2 == [k \in DOMAIN order |-> IF files[order[k]].atEnd THEN <<order[k]>> ELSE <<>>]
           p == FlattenSeq(seqs1)
           q == FlattenSeq(seqs2)
           sorted == p \o q
<1>1. RunOrder(files) = [j \in DOMAIN sorted |-> files[sorted[j]]]
  BY DEF RunOrder, Select, Each, If
<1>2. n \in Nat /\ order \in Seq(1..n) /\ Distinct(order) /\ ToSet(order) = 1..n
  BY AddFilesKeeps DEF FileList
<1>3. \A a, b \in 1..n :
        a < b /\ (\A i \in 1..n : \A k \in DOMAIN files[i].deps : files[i].deps[k] \notin files[b].tags)
          => Leads(order, a, b)
  BY AddFilesKeeps
<1> HIDE DEF order
<1>4. \A k \in DOMAIN order : order[k] \in 1..n
  BY <1>2
<1>5. /\ p \in Seq(1..n) /\ Distinct(p) /\ ToSet(p) = {i \in 1..n : i \in Others}
      /\ \A a, b : a \in Others /\ a \in 1..n /\ Leads(order, a, b) => Leads(p, a, b)
  <2>1. \A k \in DOMAIN order : seqs1[k] = IF order[k] \in Others THEN <<order[k]>> ELSE <<>>
    BY <1>4
  <2>2. DOMAIN seqs1 = DOMAIN order /\ seqs1 = [k \in DOMAIN order |-> seqs1[k]]
    OBVIOUS
  <2> HIDE DEF seqs1, Others
  <2> QED  BY <1>2, <2>1, <2>2, Selection
<1>6. q \in Seq(1..n) /\ Distinct(q) /\ ToSet(q) = {i \in 1..n : i \in Ends}
  <2>1. \A k \in DOMAIN order : seqs2[k] = IF order[k] \in Ends THEN <<order[k]>> ELSE <<>>
    BY <1>4
  <2>2. DOMAIN seqs2 = DOMAIN order /\ seqs2 = [k \in DOMAIN order |-> seqs2[k]]
    OBVIOUS
  <2> HIDE DEF p, seqs1, Others, seqs2, Ends
  <2>3. /\ q \in Seq(1..n) /\ Distinct(q) /\ ToSet(q) = {i \in 1..n : i \in Ends}
        /\ \A a, b : a \in Ends /\ a \in 1..n /\ Leads(order, a, b) => Leads(q, a, b)
    BY <1>2, <2>1, <2>2, Selection
  <2> QED  BY <2>3
<1> HIDE DEF p, q
<1> DEFINE a1 == Len(p)  b1 == Len(q)
<1>7. /\ a1 \in Nat /\ b1 \in Nat /\ Len(sorted) = a1 + b1 /\ sorted \in Seq(1..n)
      /\ DOMAIN p = 1..a1 /\ DOMAIN q = 1..b1
  BY <1>5, <1>6, ConcatProperties
<1>8. \A i \in 1..(a1 + b1) : sorted[i] = IF i <= a1 THEN p[i] ELSE q[i - a1]
  BY <1>5, <1>6, ConcatProperties
<1>9. ToSet(sorted) = 1..n
  <2>1. ToSet(sorted) = ToSet(p) \cup ToSet(q)
    BY <1>5, <1>6, ToSetConcat
  <2>2. (1..n) = {i \in 1..n : i \in Others} \cup {i \in 1..n : i \in Ends}
    OBVIOUS
  <2> QED  BY <1>5, <1>6, <2>1, <2>2
<1>10. (\A i \in 1..a1 : p[i] \in Others) /\ (\A i \in 1..b1 : q[i] \in Ends)
  BY <1>5, <1>6, <1>7 DEF ToSet
<1>11. Distinct(sorted)
  <2> SUFFICES ASSUME NEW i \in 1..(a1 + b1), NEW j \in 1..(a1 + b1), sorted[i] = sorted[j]
               PROVE  i = j
    BY <1>7 DEF Distinct
  <2>1. \A x \in Others : x \notin Ends
    OBVIOUS
  <2> HIDE DEF sorted, Others, Ends
  <2>2. CASE i <= a1 /\ j <= a1
    <3>1. i \in 1..a1 /\ j \in 1..a1 /\ p[i] = p[j]
      BY <1>8, <2>2
    <3> QED  BY <1>5, <3>1 DEF Distinct
  <2>3. CASE i <= a1 /\ ~(j <= a1)
    <3>1. i \in 1..a1 /\ j - a1 \in 1..b1 /\ p[i] = q[j - a1]
      BY <1>7, <1>8, <2>3
    <3> QED  BY <1>10, <2>1, <3>1
  <2>4. CASE ~(i <= a1) /\ j <= a1
    <3>1. j \in 1..a1 /\ i - a1 \in 1..b1 /\ p[j] = q[i - a1]
      BY <1>7, <1>8, <2>4
    <3> QED  BY <1>10, <2>1, <3>1
  <2>5. CASE ~(i <= a1) /\ ~(j <= a1)
    <3>1. j - a1 \in 1..b1 /\ i - a1 \in 1..b1 /\ q[j - a1] = q[i - a1]
      BY <1>7, <1>8, <2>5
    <3>2. j - a1 = i - a1
      BY <1>6, <3>1 DEF Distinct
    <3> QED  BY <1>7, <3>2
  <2> QED  BY <2>2, <2>3, <2>4, <2>5
<1>12. ASSUME NEW e \in 1..n, files[e].atEnd
       PROVE  Len(sorted) \in 1..Len(sorted) /\ files[sorted[Len(sorted)]].atEnd
  <2>1. e \in ToSet(q)
    BY <1>6, <1>12
  <2>2. b1 >= 1
    BY <1>7, <2>1 DEF ToSet
  <2> HIDE DEF sorted, Others
  <2>3. a1 + b1 \in 1..(a1 + b1) /\ ~(a1 + b1 <= a1) /\ (a1 + b1) - a1 = b1 /\ b1 \in 1..b1
    BY <1>7, <2>2
  <2>4. sorted[a1 + b1] = q[b1]
    BY <1>8, <2>3
  <2>5. q[b1] \in Ends
    BY <1>10, <2>3
  <2> QED  BY <1>7, <2>3, <2>4, <2>5
<1>13. ASSUME NEW a \in 1..n, NEW b \in 1..n, a < b, ~files[a].atEnd, ~files[b].atEnd,
              \A i \in 1..n : \A k \in DOMAIN files[i].deps : files[i].deps[k] \notin files[b].tags
       PROVE  Leads(sorted, a, b)
  <2>1. Leads(p, a, b)
    BY <1>3, <1>5, <1>13
  <2>2. b \notin ToSet(q)
    BY <1>6, <1>13
  <2> QED  BY <1>5, <1>6, <2>1, <2>2, LeadsConcat
<1>14. InOrder(files, n, sorted)
  BY <1>7, <1>9, <1>11, <1>12, <1>13 DEF InOrder
<1> QED  BY <1>1, <1>14

-----------------------------------------------------------------------------
(* The calls of the scripts *)

\* q is a finite sequence.
IsList(q) == q \in Seq(ToSet(q))

\* Lists are closed under concatenation.
LEMMA ListConcat ==
  ASSUME NEW p, NEW q, IsList(p), IsList(q)
  PROVE  /\ IsList(p \o q) /\ ToSet(p \o q) = ToSet(p) \cup ToSet(q)
         /\ Len(p \o q) = Len(p) + Len(q)
         /\ \A i \in 1..Len(p) : (p \o q)[i] = p[i]
         /\ \A i \in 1..Len(q) : (p \o q)[Len(p) + i] = q[i]
<1> DEFINE S == ToSet(p) \cup ToSet(q)
<1>1. p \in Seq(S) /\ q \in Seq(S)
  BY SeqMonotonic DEF IsList
<1>2. ToSet(p \o q) = S
  <2> HIDE DEF S
  <2>1. ToSet(p \o q) = ToSet(p) \cup ToSet(q)
    BY <1>1, ToSetConcat
  <2> QED  BY <2>1 DEF S
<1> HIDE DEF S
<1>3. /\ p \o q \in Seq(S) /\ Len(p \o q) = Len(p) + Len(q) /\ Len(p) \in Nat /\ Len(q) \in Nat
      /\ \A i \in 1 .. Len(p) + Len(q) : (p \o q)[i] = IF i <= Len(p) THEN p[i] ELSE q[i - Len(p)]
  BY <1>1, ConcatProperties
<1>4. \A i \in 1..Len(p) : (p \o q)[i] = p[i]
  BY <1>3
<1>5. ASSUME NEW i \in 1..Len(q) PROVE (p \o q)[Len(p) + i] = q[i]
  <2>1. Len(p) + i \in 1..(Len(p) + Len(q)) /\ ~(Len(p) + i <= Len(p)) /\ (Len(p) + i) - Len(p) = i
    BY <1>3
  <2> QED  BY <1>3, <2>1
<1> QED  BY <1>2, <1>3, <1>4, <1>5 DEF IsList, S

\* The domain of a list.
LEMMA ListDomain ==
  ASSUME NEW q, IsList(q)
  PROVE  Len(q) \in Nat /\ DOMAIN q = 1..Len(q) /\ \A i \in 1..Len(q) : q[i] \in ToSet(q)
  BY LenProperties DEF IsList

\* The tuples the scripts are written with, by their length.
LEMMA Tuple1 ==
  ASSUME NEW a
  PROVE  IsList(<<a>>) /\ ToSet(<<a>>) = {a} /\ Len(<<a>>) = 1
<1> DEFINE q == <<a>>
<1>1. DOMAIN q = 1..1 /\ Len(q) = 1 /\ q[1] = a
  OBVIOUS
<1> HIDE DEF q
<1>2. ToSet(q) = {a}
  BY <1>1 DEF ToSet
<1>3. q \in Seq({a})
  BY DEF q
<1> QED  BY <1>1, <1>2, <1>3 DEF IsList, q

\* A pair.
LEMMA Tuple2 ==
  ASSUME NEW a, NEW b
  PROVE  IsList(<<a, b>>) /\ ToSet(<<a, b>>) = {a, b} /\ Len(<<a, b>>) = 2
<1> DEFINE q == <<a, b>>
<1>1. DOMAIN q = 1..2 /\ Len(q) = 2 /\ q[1] = a /\ q[2] = b
  OBVIOUS
<1> HIDE DEF q
<1>2. ToSet(q) = {a, b}
  BY <1>1 DEF ToSet
<1>3. q \in Seq({a, b})
  BY DEF q
<1> QED  BY <1>1, <1>2, <1>3 DEF IsList, q

\* Three elements.
LEMMA Tuple3 ==
  ASSUME NEW a, NEW b, NEW c
  PROVE  IsList(<<a, b, c>>) /\ ToSet(<<a, b, c>>) = {a, b, c} /\ Len(<<a, b, c>>) = 3
<1> DEFINE q == <<a, b, c>>
<1>1. DOMAIN q = 1..3 /\ Len(q) = 3 /\ q[1] = a /\ q[2] = b /\ q[3] = c
  OBVIOUS
<1> HIDE DEF q
<1>2. ToSet(q) = {a, b, c}
  BY <1>1 DEF ToSet
<1>3. q \in Seq({a, b, c})
  BY DEF q
<1> QED  BY <1>1, <1>2, <1>3 DEF IsList, q

\* Four elements.
LEMMA Tuple4 ==
  ASSUME NEW a, NEW b, NEW c, NEW d
  PROVE  IsList(<<a, b, c, d>>) /\ ToSet(<<a, b, c, d>>) = {a, b, c, d} /\ Len(<<a, b, c, d>>) = 4
<1> DEFINE q == <<a, b, c, d>>
<1>1. DOMAIN q = 1..4 /\ Len(q) = 4 /\ q[1] = a /\ q[2] = b /\ q[3] = c /\ q[4] = d
  OBVIOUS
<1> HIDE DEF q
<1>2. ToSet(q) = {a, b, c, d}
  BY <1>1 DEF ToSet
<1>3. q \in Seq({a, b, c, d})
  BY DEF q
<1> QED  BY <1>1, <1>2, <1>3 DEF IsList, q

\* Five elements.
LEMMA Tuple5 ==
  ASSUME NEW a, NEW b, NEW c, NEW d, NEW e
  PROVE  IsList(<<a, b, c, d, e>>) /\ ToSet(<<a, b, c, d, e>>) = {a, b, c, d, e} /\ Len(<<a, b, c, d,
           e>>) = 5
<1> DEFINE q == <<a, b, c, d, e>>
<1>1. DOMAIN q = 1..5 /\ Len(q) = 5 /\ q[1] = a /\ q[2] = b /\ q[3] = c /\ q[4] = d /\ q[5] = e
  OBVIOUS
<1> HIDE DEF q
<1>2. ToSet(q) = {a, b, c, d, e}
  BY <1>1 DEF ToSet
<1>3. q \in Seq({a, b, c, d, e})
  BY DEF q
<1> QED  BY <1>1, <1>2, <1>3 DEF IsList, q

\* Six elements.
LEMMA Tuple6 ==
  ASSUME NEW a, NEW b, NEW c, NEW d, NEW e, NEW f
  PROVE  IsList(<<a, b, c, d, e, f>>) /\ ToSet(<<a, b, c, d, e, f>>) = {a, b, c, d, e, f} /\ Len(<<a, b,
           c, d, e, f>>) = 6
<1> DEFINE q == <<a, b, c, d, e, f>>
<1>1. DOMAIN q = 1..6 /\ Len(q) = 6 /\ q[1] = a /\ q[2] = b /\ q[3] = c /\ q[4] = d /\ q[5] = e /\
  q[6] = f
  OBVIOUS
<1> HIDE DEF q
<1>2. ToSet(q) = {a, b, c, d, e, f}
  BY <1>1 DEF ToSet
<1>3. q \in Seq({a, b, c, d, e, f})
  BY DEF q
<1> QED  BY <1>1, <1>2, <1>3 DEF IsList, q

\* Seven elements.
LEMMA Tuple7 ==
  ASSUME NEW a, NEW b, NEW c, NEW d, NEW e, NEW f, NEW g
  PROVE  IsList(<<a, b, c, d, e, f, g>>) /\ ToSet(<<a, b, c, d, e, f, g>>) = {a, b, c, d, e, f, g} /\
           Len(<<a, b, c, d, e, f, g>>) = 7
<1> DEFINE q == <<a, b, c, d, e, f, g>>
<1>1. DOMAIN q = 1..7 /\ Len(q) = 7 /\ q[1] = a /\ q[2] = b /\ q[3] = c /\ q[4] = d /\ q[5] = e /\
  q[6] = f /\ q[7] = g
  OBVIOUS
<1> HIDE DEF q
<1>2. ToSet(q) = {a, b, c, d, e, f, g}
  BY <1>1 DEF ToSet
<1>3. q \in Seq({a, b, c, d, e, f, g})
  BY DEF q
<1> QED  BY <1>1, <1>2, <1>3 DEF IsList, q

\* Eight elements.
LEMMA Tuple8 ==
  ASSUME NEW a, NEW b, NEW c, NEW d, NEW e, NEW f, NEW g, NEW h
  PROVE  IsList(<<a, b, c, d, e, f, g, h>>) /\ ToSet(<<a, b, c, d, e, f, g, h>>) = {a, b, c, d, e, f, g,
           h} /\ Len(<<a, b, c, d, e, f, g, h>>) = 8
<1> DEFINE q == <<a, b, c, d, e, f, g, h>>
<1>1. DOMAIN q = 1..8 /\ Len(q) = 8 /\ q[1] = a /\ q[2] = b /\ q[3] = c /\ q[4] = d /\ q[5] = e /\
  q[6] = f /\ q[7] = g /\ q[8] = h
  OBVIOUS
<1> HIDE DEF q
<1>2. ToSet(q) = {a, b, c, d, e, f, g, h}
  BY <1>1 DEF ToSet
<1>3. q \in Seq({a, b, c, d, e, f, g, h})
  BY DEF q
<1> QED  BY <1>1, <1>2, <1>3 DEF IsList, q

\* Nine elements.
LEMMA Tuple9 ==
  ASSUME NEW a, NEW b, NEW c, NEW d, NEW e, NEW f, NEW g, NEW h, NEW i
  PROVE  IsList(<<a, b, c, d, e, f, g, h, i>>) /\ ToSet(<<a, b, c, d, e, f, g, h, i>>) = {a, b, c, d, e,
           f, g, h, i} /\ Len(<<a, b, c, d, e, f, g, h, i>>) = 9
<1> DEFINE q == <<a, b, c, d, e, f, g, h, i>>
<1>1. DOMAIN q = 1..9 /\ Len(q) = 9 /\ q[1] = a /\ q[2] = b /\ q[3] = c /\ q[4] = d /\ q[5] = e /\
  q[6] = f /\ q[7] = g /\ q[8] = h /\ q[9] = i
  OBVIOUS
<1> HIDE DEF q
<1>2. ToSet(q) = {a, b, c, d, e, f, g, h, i}
  BY <1>1 DEF ToSet
<1>3. q \in Seq({a, b, c, d, e, f, g, h, i})
  BY DEF q
<1> QED  BY <1>1, <1>2, <1>3 DEF IsList, q

\* Ten elements.
LEMMA Tuple10 ==
  ASSUME NEW a, NEW b, NEW c, NEW d, NEW e, NEW f, NEW g, NEW h, NEW i, NEW j
  PROVE  IsList(<<a, b, c, d, e, f, g, h, i, j>>) /\ ToSet(<<a, b, c, d, e, f, g, h, i, j>>) = {a, b, c,
           d, e, f, g, h, i, j} /\ Len(<<a, b, c, d, e, f, g, h, i, j>>) = 10
<1> DEFINE q == <<a, b, c, d, e, f, g, h, i, j>>
<1>1. DOMAIN q = 1..10 /\ Len(q) = 10 /\ q[1] = a /\ q[2] = b /\ q[3] = c /\ q[4] = d /\ q[5] = e /\
  q[6] = f /\ q[7] = g /\ q[8] = h /\ q[9] = i /\ q[10] = j
  OBVIOUS
<1> HIDE DEF q
<1>2. ToSet(q) = {a, b, c, d, e, f, g, h, i, j}
  BY <1>1 DEF ToSet
<1>3. q \in Seq({a, b, c, d, e, f, g, h, i, j})
  BY DEF q
<1> QED  BY <1>1, <1>2, <1>3 DEF IsList, q

\* A concatenation of finitely many lists.
LEMMA FlatList ==
  ASSUME NEW n \in Nat, NEW D, D = 1..n, NEW parts, parts = [i \in D |-> parts[i]],
           \A i \in D : IsList(parts[i])
  PROVE  /\ IsList(FlattenSeq(parts))
         /\ \A k \in ToSet(FlattenSeq(parts)) : \E i \in D : k \in ToSet(parts[i])
<1> DEFINE S == UNION {ToSet(parts[i]) : i \in D}
<1>1. \A i \in D : ToSet(parts[i]) \subseteq S
  OBVIOUS
<1>2. \A k \in S : \E i \in D : k \in ToSet(parts[i])
  OBVIOUS
<1> HIDE DEF S
<1>3. \A i \in D : parts[i] \in Seq(S)
  BY <1>1, SeqMonotonic DEF IsList
<1>4. parts \in Seq(Seq(S)) /\ Len(parts) = n
  BY <1>3, SeqFromTo
<1>5. FlattenSeq(parts) \in Seq(S) /\
  ToSet(FlattenSeq(parts)) = UNION {ToSet(parts[k]) : k \in 1..Len(parts)}
  BY <1>4, FlatIsSeq, FlatToSet
<1>6. \A k \in ToSet(FlattenSeq(parts)) : \E i \in D : k \in ToSet(parts[i])
  BY <1>4, <1>5
<1>7. IsList(FlattenSeq(parts))
  <2> DEFINE q == FlattenSeq(parts)
  <2> HIDE DEF q
  <2>1. q \in Seq(S) 
    BY <1>5 DEF q
  <2>2. q \in Seq(ToSet(q))
    <3>1. Len(q) \in Nat /\ DOMAIN q = 1..Len(q) /\ q = [i \in 1..Len(q) |-> q[i]]
      BY <2>1, LenProperties
    <3>2. \A i \in 1..Len(q) : q[i] \in ToSet(q)
      BY <3>1 DEF ToSet
    <3> QED  BY <3>1, <3>2, SeqFromTo
  <2> QED  BY <2>2 DEF IsList, q
<1> QED  BY <1>6, <1>7

\* The methods the properties are about.
Watched == {"setPoolAdmin", "setAdmin", "setPoolPause", "transfer", "initializePool",
            "registerRewardDeposit", "setMinters", "setLPToken", "start"}
QuietCall(k) ==
  \/ k.op \in {"get", "deploy"}
  \/ k.op = "call" /\ k.f \notin Watched /\ (k.f = "deposit" => k.c = "LendingPool")
AllQuiet(q) == IsList(q) /\ \A k \in ToSet(q) : QuietCall(k)

\* Lists of quiet calls are closed under concatenation.
LEMMA QuietConcat ==
  ASSUME NEW p, NEW q, AllQuiet(p), AllQuiet(q)
  PROVE  AllQuiet(p \o q)
  BY ListConcat DEF AllQuiet

\* No call at all.
LEMMA QuietNone == AllQuiet(<<>>)
<1>1. ToSet(<<>>) = {}
  BY DEF ToSet
<1> QED  BY <1>1 DEF AllQuiet, IsList

\* A list of deployments.
LEMMA DeployAllQuiet ==
  ASSUME NEW s, NEW n \in Nat, DOMAIN s = 1..n
  PROVE  AllQuiet(DeployAll(s))
<1> DEFINE q == DeployAll(s)
<1>1. DOMAIN q = 1..n /\ q = [i \in 1..n |-> q[i]] /\ \A i \in 1..n : q[i].op = "deploy"
  BY DEF DeployAll, Deploy
<1> HIDE DEF q
<1>2. IsList(q)
  <2>1. \A i \in 1..n : q[i] \in ToSet(q)
    BY <1>1 DEF ToSet
  <2> QED  BY <1>1, <2>1, SeqFromTo DEF IsList
<1>3. \A k \in ToSet(q) : QuietCall(k)
  BY <1>1 DEF ToSet, QuietCall
<1> QED  BY <1>2, <1>3 DEF AllQuiet, q

\* A concatenation of finitely many lists of quiet calls.
LEMMA QuietFlat ==
  ASSUME NEW n \in Nat, NEW D, D = 1..n, NEW parts, parts = [i \in D |-> parts[i]],
           \A i \in D : AllQuiet(parts[i])
  PROVE  AllQuiet(FlattenSeq(parts))
<1>1. /\ IsList(FlattenSeq(parts))
      /\ \A k \in ToSet(FlattenSeq(parts)) : \E i \in D : k \in ToSet(parts[i])
  BY FlatList DEF AllQuiet
<1> QED  BY <1>1 DEF AllQuiet

\* The calls the scripts are made of.
LEMMA QuietCalls ==
  /\ \A s : QuietCall(Get(s))
  /\ \A c : QuietCall(Deploy(c))
  /\ \A by, c, f, x : f \notin Watched /\ f # "deposit" => QuietCall(Call(by, c, f, x))
  /\ \A by, x : QuietCall(Call(by, "LendingPool", "deposit", x))
<1>1. \A s : QuietCall(Get(s))
  BY DEF QuietCall, Get
<1>2. \A c : QuietCall(Deploy(c))
  BY DEF QuietCall, Deploy
<1>3. \A by, c, f, x : f \notin Watched /\ f # "deposit" => QuietCall(Call(by, c, f, x))
  BY DEF QuietCall, Call
<1>4. \A by, x : QuietCall(Call(by, "LendingPool", "deposit", x))
  BY DEF QuietCall, Call, Watched
<1> QED  BY <1>1, <1>2, <1>3, <1>4

\* A tuple of quiet calls.
LEMMA Quiet1 ==
  ASSUME NEW a,
         QuietCall(a)
  PROVE  AllQuiet(<<a>>)
  BY Tuple1 DEF AllQuiet

\* Two quiet calls.
LEMMA Quiet2 ==
  ASSUME NEW a, NEW b,
         QuietCall(a), QuietCall(b)
  PROVE  AllQuiet(<<a, b>>)
  BY Tuple2 DEF AllQuiet

\* Three quiet calls.
LEMMA Quiet3 ==
  ASSUME NEW a, NEW b, NEW c,
         QuietCall(a), QuietCall(b), QuietCall(c)
  PROVE  AllQuiet(<<a, b, c>>)
  BY Tuple3 DEF AllQuiet

\* Four quiet calls.
LEMMA Quiet4 ==
  ASSUME NEW a, NEW b, NEW c, NEW d,
         QuietCall(a), QuietCall(b), QuietCall(c), QuietCall(d)
  PROVE  AllQuiet(<<a, b, c, d>>)
  BY Tuple4 DEF AllQuiet

\* Five quiet calls.
LEMMA Quiet5 ==
  ASSUME NEW a, NEW b, NEW c, NEW d, NEW e,
         QuietCall(a), QuietCall(b), QuietCall(c), QuietCall(d), QuietCall(e)
  PROVE  AllQuiet(<<a, b, c, d, e>>)
  BY Tuple5 DEF AllQuiet

\* Six quiet calls.
LEMMA Quiet6 ==
  ASSUME NEW a, NEW b, NEW c, NEW d, NEW e, NEW f,
         QuietCall(a), QuietCall(b), QuietCall(c), QuietCall(d), QuietCall(e), QuietCall(f)
  PROVE  AllQuiet(<<a, b, c, d, e, f>>)
  BY Tuple6 DEF AllQuiet

\* Seven quiet calls.
LEMMA Quiet7 ==
  ASSUME NEW a, NEW b, NEW c, NEW d, NEW e, NEW f, NEW g,
         QuietCall(a), QuietCall(b), QuietCall(c), QuietCall(d), QuietCall(e), QuietCall(f),
           QuietCall(g)
  PROVE  AllQuiet(<<a, b, c, d, e, f, g>>)
  BY Tuple7 DEF AllQuiet

\* Eight quiet calls.
LEMMA Quiet8 ==
  ASSUME NEW a, NEW b, NEW c, NEW d, NEW e, NEW f, NEW g, NEW h,
         QuietCall(a), QuietCall(b), QuietCall(c), QuietCall(d), QuietCall(e), QuietCall(f),
           QuietCall(g), QuietCall(h)
  PROVE  AllQuiet(<<a, b, c, d, e, f, g, h>>)
  BY Tuple8 DEF AllQuiet

\* Nine quiet calls.
LEMMA Quiet9 ==
  ASSUME NEW a, NEW b, NEW c, NEW d, NEW e, NEW f, NEW g, NEW h, NEW i,
         QuietCall(a), QuietCall(b), QuietCall(c), QuietCall(d), QuietCall(e), QuietCall(f),
           QuietCall(g), QuietCall(h), QuietCall(i)
  PROVE  AllQuiet(<<a, b, c, d, e, f, g, h, i>>)
  BY Tuple9 DEF AllQuiet

\* No deployment, or one quiet list.
LEMMA QuietIf ==
  ASSUME NEW b, NEW q, b => AllQuiet(q)
  PROVE  AllQuiet(If(b, q))
  BY QuietNone DEF If

\* The references to the tokens and to the router.
LEMMA QuietRefs ==
  ASSUME NEW net
  PROVE  AllQuiet(TokenRefs(net)) /\ AllQuiet(Router(net))
<1>1. ASSUME NEW s PROVE AllQuiet(<<Get(s)>>)
  BY QuietCalls, Quiet1
<1> QED  BY <1>1, QuietIf DEF TokenRefs, Router

\* The two tokens.
LEMMA TwoTokens == DOMAIN Tokens = 1..2 /\ Len(Tokens) = 2 /\ Tokens[1] = "WETH" /\ Tokens[2] = "USDC"
  BY DEF Tokens

\* DeployLending makes quiet calls only.
LEMMA DeployLendingCalls ==
  ASSUME NEW net
  PROVE  AllQuiet(DeployLending(net).calls)
<1>1. AllQuiet(DeployAll(<<"LendingPoolAddressesProviderRegistry", "LendingPoolAddressesProvider",
  "ReserveLogic", "GenericLogic", "ValidationLogic", "LendingPool", "LendingPoolConfigurator",
    "StableAndVariableTokensHelper", "AToken", "StableDebtToken", "VariableDebtToken", "WETHGateway">>))
  <2>1. DOMAIN <<"LendingPoolAddressesProviderRegistry", "LendingPoolAddressesProvider", "ReserveLogic",
    "GenericLogic", "ValidationLogic", "LendingPool", "LendingPoolConfigurator",
      "StableAndVariableTokensHelper", "AToken", "StableDebtToken", "VariableDebtToken",
        "WETHGateway">> = 1..12
    OBVIOUS
  <2> QED  BY <2>1, DeployAllQuiet
<1>2. DeployLending(net).calls = DeployAll(<<"LendingPoolAddressesProviderRegistry",
  "LendingPoolAddressesProvider", "ReserveLogic", "GenericLogic", "ValidationLogic", "LendingPool",
    "LendingPoolConfigurator", "StableAndVariableTokensHelper", "AToken", "StableDebtToken",
      "VariableDebtToken", "WETHGateway">>)
  BY DEF DeployLending, Step
<1> QED  BY <1>1, <1>2

\* DeployLendingOracle makes quiet calls only.
LEMMA DeployLendingOracleCalls ==
  ASSUME NEW net
  PROVE  AllQuiet(DeployLendingOracle(net).calls)
<1>1. AllQuiet(<<Get({"LendingPoolAddressesProvider"})>>)
  BY QuietCalls, Quiet1
<1>2. AllQuiet(TokenRefs(net))
  BY QuietRefs
<1>3. AllQuiet(DeployAll(<<"AaveOracle", "LendingRateOracle", "AaveProtocolDataProvider">>))
  <2>1. DOMAIN <<"AaveOracle", "LendingRateOracle", "AaveProtocolDataProvider">> = 1..3
    OBVIOUS
  <2> QED  BY <2>1, DeployAllQuiet
<1>4. DeployLendingOracle(net).calls = <<Get({"LendingPoolAddressesProvider"})>> \o TokenRefs(net) \o
  DeployAll(<<"AaveOracle", "LendingRateOracle", "AaveProtocolDataProvider">>)
  BY DEF DeployLendingOracle, Step
<1> QED  BY <1>1, <1>2, <1>3, <1>4, QuietConcat

\* ConfigureLendingOracle makes quiet calls only.
LEMMA ConfigureLendingOracleCalls ==
  ASSUME NEW net
  PROVE  AllQuiet(ConfigureLendingOracle(net).calls)
<1>1. AllQuiet(<<Get({"AaveOracle", "LendingRateOracle"})>>)
  BY QuietCalls, Quiet1
<1>2. AllQuiet(TokenRefs(net))
  BY QuietRefs
<1>3. AllQuiet(<<Exec("LendingPoolAddressesProvider", "setPriceOracle"),
  Exec("LendingPoolAddressesProvider", "setLendingRateOracle"), Get({"StableAndVariableTokensHelper"}),
    ExecArg("LendingRateOracle", "transferOwnership", "StableAndVariableTokensHelper"),
      Exec("StableAndVariableTokensHelper", "setOracleBorrowRates"),
        ExecArg("StableAndVariableTokensHelper", "setOracleOwnership", "deployer")>>)
  BY QuietCalls, Quiet6 DEF ExecArg, Exec, Watched
<1>4. ConfigureLendingOracle(net).calls = <<Get({"AaveOracle", "LendingRateOracle"})>> \o
  TokenRefs(net) \o <<Exec("LendingPoolAddressesProvider", "setPriceOracle"),
    Exec("LendingPoolAddressesProvider", "setLendingRateOracle"),
      Get({"StableAndVariableTokensHelper"}), ExecArg("LendingRateOracle", "transferOwnership",
        "StableAndVariableTokensHelper"), Exec("StableAndVariableTokensHelper", "setOracleBorrowRates"),
          ExecArg("StableAndVariableTokensHelper", "setOracleOwnership", "deployer")>>
  BY DEF ConfigureLendingOracle, Step
<1> QED  BY <1>1, <1>2, <1>3, <1>4, QuietConcat

\* DeployLockzap makes quiet calls only.
LEMMA DeployLockzapCalls ==
  ASSUME NEW net
  PROVE  AllQuiet(DeployLockzap(net).calls)
<1>1. AllQuiet(<<Get({"PoolHelper", "AaveOracle", "LendingPoolAddressesProvider", "PrimeToken"})>>)
  BY QuietCalls, Quiet1
<1>2. AllQuiet(Router(net))
  BY QuietRefs
<1>3. AllQuiet(<<Deploy("LockZap")>>)
  BY QuietCalls, Quiet1
<1>4. DeployLockzap(net).calls = <<Get({"PoolHelper", "AaveOracle", "LendingPoolAddressesProvider",
  "PrimeToken"})>> \o Router(net) \o <<Deploy("LockZap")>>
  BY DEF DeployLockzap, Step
<1> QED  BY <1>1, <1>2, <1>3, <1>4, QuietConcat

\* ConfigureLockzap makes quiet calls only.
LEMMA ConfigureLockzapCalls ==
  ASSUME NEW net
  PROVE  AllQuiet(ConfigureLockzap(net).calls)
<1>1. AllQuiet(<<Get({"LockZap", "AaveOracle"})>>)
  BY QuietCalls, Quiet1
<1>2. AllQuiet(Router(net))
  BY QuietRefs
<1>3. AllQuiet(<<ExecFromOwner("PoolHelper", "setLockZap"), ExecFromOwner("LockZap", "setUniRouter"),
  ExecFromOwner("LockZap", "setAaveOracle")>>)
  BY QuietCalls, Quiet3 DEF ExecFromOwner, Watched
<1>4. ConfigureLockzap(net).calls = <<Get({"LockZap", "AaveOracle"})>> \o Router(net) \o
  <<ExecFromOwner("PoolHelper", "setLockZap"), ExecFromOwner("LockZap", "setUniRouter"),
    ExecFromOwner("LockZap", "setAaveOracle")>>
  BY DEF ConfigureLockzap, Step
<1> QED  BY <1>1, <1>2, <1>3, <1>4, QuietConcat

\* DeployPriceProvider makes quiet calls only.
LEMMA DeployPriceProviderCalls ==
  ASSUME NEW net
  PROVE  AllQuiet(DeployPriceProvider(net).calls)
<1>1. AllQuiet(<<Get({"PoolHelper", "ChainlinkAdapterWETH"}), Deploy("PriceProvider")>>)
  BY QuietCalls, Quiet2
<1>2. DeployPriceProvider(net).calls = <<Get({"PoolHelper", "ChainlinkAdapterWETH"}),
  Deploy("PriceProvider")>>
  BY DEF DeployPriceProvider, Step
<1> QED  BY <1>1, <1>2

\* ConfigurePriceProvider makes quiet calls only.
LEMMA ConfigurePriceProviderCalls ==
  ASSUME NEW net
  PROVE  AllQuiet(ConfigurePriceProvider(net).calls)
<1>1. AllQuiet(<<Get({"PriceProvider"}), ExecFromOwner("PrimeToken", "setPriceProvider"),
  ExecFromOwner("LockZap", "setPriceProvider")>>)
  BY QuietCalls, Quiet3 DEF ExecFromOwner, Watched
<1>2. ConfigurePriceProvider(net).calls = <<Get({"PriceProvider"}), ExecFromOwner("PrimeToken",
  "setPriceProvider"), ExecFromOwner("LockZap", "setPriceProvider")>>
  BY DEF ConfigurePriceProvider, Step
<1> QED  BY <1>1, <1>2

\* DeployDistributors makes quiet calls only.
LEMMA DeployDistributorsCalls ==
  ASSUME NEW net
  PROVE  AllQuiet(DeployDistributors(net).calls)
<1>1. AllQuiet(<<Get({"PrimeToken", "LockZap", "PriceProvider", "AaveOracle",
  "AaveProtocolDataProvider"}), Deploy("MFD"), Deploy("MiddleFeeDistribution")>>)
  BY QuietCalls, Quiet3
<1>2. DeployDistributors(net).calls = <<Get({"PrimeToken", "LockZap", "PriceProvider", "AaveOracle",
  "AaveProtocolDataProvider"}), Deploy("MFD"), Deploy("MiddleFeeDistribution")>>
  BY DEF DeployDistributors, Step
<1> QED  BY <1>1, <1>2

\* ConfigureDistributors makes quiet calls only.
LEMMA ConfigureDistributorsCalls ==
  ASSUME NEW net
  PROVE  AllQuiet(ConfigureDistributors(net).calls)
<1>1. AllQuiet(<<Get({"MFD"}), ExecFromOwner("MiddleFeeDistribution", "setOperationExpenses"),
  Exec("LockZap", "setMfd"), Exec("MFD", "setLockTypeInfo")>>)
  BY QuietCalls, Quiet4 DEF ExecFromOwner, Exec, Watched
<1>2. ConfigureDistributors(net).calls = <<Get({"MFD"}), ExecFromOwner("MiddleFeeDistribution",
  "setOperationExpenses"), Exec("LockZap", "setMfd"), Exec("MFD", "setLockTypeInfo")>>
  BY DEF ConfigureDistributors, Step
<1> QED  BY <1>1, <1>2

\* ConfigureMfdProvider makes quiet calls only.
LEMMA ConfigureMfdProviderCalls ==
  ASSUME NEW net
  PROVE  AllQuiet(ConfigureMfdProvider(net).calls)
<1>1. AllQuiet(<<Get({"MiddleFeeDistribution", "AaveProtocolDataProvider"}),
  ExecFromOwner("MiddleFeeDistribution", "setProtocolDataProvider")>>)
  BY QuietCalls, Quiet2 DEF ExecFromOwner, Watched
<1>2. ConfigureMfdProvider(net).calls = <<Get({"MiddleFeeDistribution", "AaveProtocolDataProvider"}),
  ExecFromOwner("MiddleFeeDistribution", "setProtocolDataProvider")>>
  BY DEF ConfigureMfdProvider, Step
<1> QED  BY <1>1, <1>2

\* DeployEdp makes quiet calls only.
LEMMA DeployEdpCalls ==
  ASSUME NEW net
  PROVE  AllQuiet(DeployEdp(net).calls)
<1>1. AllQuiet(<<Get({"PriceProvider", "LendingPoolAddressesProvider", "MiddleFeeDistribution"}),
  Deploy("EligibilityDataProvider")>>)
  BY QuietCalls, Quiet2
<1>2. DeployEdp(net).calls = <<Get({"PriceProvider", "LendingPoolAddressesProvider",
  "MiddleFeeDistribution"}), Deploy("EligibilityDataProvider")>>
  BY DEF DeployEdp, Step
<1> QED  BY <1>1, <1>2

\* ConfigureEdp makes quiet calls only.
LEMMA ConfigureEdpCalls ==
  ASSUME NEW net
  PROVE  AllQuiet(ConfigureEdp(net).calls)
<1>1. AllQuiet(<<Exec("EligibilityDataProvider", "setRequiredDepositRatio")>>)
  BY QuietCalls, Quiet1 DEF Exec, Watched
<1>2. ConfigureEdp(net).calls = <<Exec("EligibilityDataProvider", "setRequiredDepositRatio")>>
  BY DEF ConfigureEdp, Step
<1> QED  BY <1>1, <1>2

\* DeployCic makes quiet calls only.
LEMMA DeployCicCalls ==
  ASSUME NEW net
  PROVE  AllQuiet(DeployCic(net).calls)
<1>1. AllQuiet(<<Get({"EligibilityDataProvider", "MiddleFeeDistribution",
  "LendingPoolAddressesProvider"}), Deploy("ChefIncentivesController")>>)
  BY QuietCalls, Quiet2
<1>2. DeployCic(net).calls = <<Get({"EligibilityDataProvider", "MiddleFeeDistribution",
  "LendingPoolAddressesProvider"}), Deploy("ChefIncentivesController")>>
  BY DEF DeployCic, Step
<1> QED  BY <1>1, <1>2

\* DeployAaveProviders makes quiet calls only.
LEMMA DeployAaveProvidersCalls ==
  ASSUME NEW net
  PROVE  AllQuiet(DeployAaveProviders(net).calls)
<1>1. AllQuiet(<<Get({"ChefIncentivesController", "AaveOracle"})>>)
  BY QuietCalls, Quiet1
<1>2. AllQuiet(DeployAll(<<"WalletBalanceProvider", "UiPoolDataProvider", "UiPoolDataProviderV2V3">>))
  <2>1. DOMAIN <<"WalletBalanceProvider", "UiPoolDataProvider", "UiPoolDataProviderV2V3">> = 1..3
    OBVIOUS
  <2> QED  BY <2>1, DeployAllQuiet
<1>3. DeployAaveProviders(net).calls = <<Get({"ChefIncentivesController", "AaveOracle"})>> \o
  DeployAll(<<"WalletBalanceProvider", "UiPoolDataProvider", "UiPoolDataProviderV2V3">>)
  BY DEF DeployAaveProviders, Step
<1> QED  BY <1>1, <1>2, <1>3, QuietConcat

\* DeployCompounder makes quiet calls only.
LEMMA DeployCompounderCalls ==
  ASSUME NEW net
  PROVE  AllQuiet(DeployCompounder(net).calls)
<1>1. AllQuiet(<<Get({"LendingPoolAddressesProvider", "MFD", "LockZap"})>>)
  BY QuietCalls, Quiet1
<1>2. AllQuiet(Router(net))
  BY QuietRefs
<1>3. AllQuiet(<<Deploy("Compounder")>>)
  BY QuietCalls, Quiet1
<1>4. DeployCompounder(net).calls = <<Get({"LendingPoolAddressesProvider", "MFD", "LockZap"})>> \o
  Router(net) \o <<Deploy("Compounder")>>
  BY DEF DeployCompounder, Step
<1> QED  BY <1>1, <1>2, <1>3, <1>4, QuietConcat

\* DeployBountyManager makes quiet calls only.
LEMMA DeployBountyManagerCalls ==
  ASSUME NEW net
  PROVE  AllQuiet(DeployBountyManager(net).calls)
<1>1. AllQuiet(<<Get({"EligibilityDataProvider", "ChefIncentivesController", "PrimeToken",
  "PriceProvider", "Compounder", "MFD"}), Deploy("BountyManager")>>)
  BY QuietCalls, Quiet2
<1>2. DeployBountyManager(net).calls = <<Get({"EligibilityDataProvider", "ChefIncentivesController",
  "PrimeToken", "PriceProvider", "Compounder", "MFD"}), Deploy("BountyManager")>>
  BY DEF DeployBountyManager, Step
<1> QED  BY <1>1, <1>2

\* ConfigureSetBounties makes quiet calls only.
LEMMA ConfigureSetBountiesCalls ==
  ASSUME NEW net
  PROVE  AllQuiet(ConfigureSetBounties(net).calls)
<1>1. AllQuiet(<<ExecFromOwner("BountyManager", "setBounties")>>)
  BY QuietCalls, Quiet1 DEF ExecFromOwner, Watched
<1>2. ConfigureSetBounties(net).calls = <<ExecFromOwner("BountyManager", "setBounties")>>
  BY DEF ConfigureSetBounties, Step
<1> QED  BY <1>1, <1>2

\* DeployAccessories makes quiet calls only.
LEMMA DeployAccessoriesCalls ==
  ASSUME NEW net
  PROVE  AllQuiet(DeployAccessories(net).calls)
<1>1. AllQuiet(<<Get({"LockZap", "EligibilityDataProvider", "AaveOracle", "ChefIncentivesController",
  "LendingPoolAddressesProvider"})>>)
  BY QuietCalls, Quiet1
<1>2. AllQuiet(DeployAll(<<"Multicall3", "Leverager", "StargateBorrow">>))
  <2>1. DOMAIN <<"Multicall3", "Leverager", "StargateBorrow">> = 1..3
    OBVIOUS
  <2> QED  BY <2>1, DeployAllQuiet
<1>3. DeployAccessories(net).calls = <<Get({"LockZap", "EligibilityDataProvider", "AaveOracle",
  "ChefIncentivesController", "LendingPoolAddressesProvider"})>> \o DeployAll(<<"Multicall3",
    "Leverager", "StargateBorrow">>)
  BY DEF DeployAccessories, Step
<1> QED  BY <1>1, <1>2, <1>3, QuietConcat

\* ConfigureAccessories makes quiet calls only.
LEMMA ConfigureAccessoriesCalls ==
  ASSUME NEW net
  PROVE  AllQuiet(ConfigureAccessories(net).calls)
<1>1. AllQuiet(<<Get({"Leverager"}), Exec("ChefIncentivesController", "setLeverager"),
  Exec("StargateBorrow", "setPoolIDs")>>)
  BY QuietCalls, Quiet3 DEF Exec, Watched
<1>2. ConfigureAccessories(net).calls = <<Get({"Leverager"}), Exec("ChefIncentivesController",
  "setLeverager"), Exec("StargateBorrow", "setPoolIDs")>>
  BY DEF ConfigureAccessories, Step
<1> QED  BY <1>1, <1>2

\* ConfigureLeverager makes quiet calls only.
LEMMA ConfigureLeveragerCalls ==
  ASSUME NEW net
  PROVE  AllQuiet(ConfigureLeverager(net).calls)
<1>1. AllQuiet(<<Get({"Leverager", "ChefIncentivesController"}), Exec("Leverager",
  "setChefIncentivesController"), ExecFromOwner("ChefIncentivesController", "setLeverager")>>)
  BY QuietCalls, Quiet3 DEF ExecFromOwner, Exec, Watched
<1>2. ConfigureLeverager(net).calls = <<Get({"Leverager", "ChefIncentivesController"}),
  Exec("Leverager", "setChefIncentivesController"), ExecFromOwner("ChefIncentivesController",
    "setLeverager")>>
  BY DEF ConfigureLeverager, Step
<1> QED  BY <1>1, <1>2

\* ConfigurePrntOracle makes quiet calls only.
LEMMA ConfigurePrntOracleCalls ==
  ASSUME NEW net
  PROVE  AllQuiet(ConfigurePrntOracle(net).calls)
<1>1. AllQuiet(<<Get({PrntOracle(net), "LockZap"}), ExecFrom("ownerOfLockZap", "PriceProvider",
  "setUsePool", "false"), ExecFrom("ownerOfLockZap", "PriceProvider", "setOracle", "")>>)
  BY QuietCalls, Quiet3 DEF ExecFrom, Watched
<1>2. AllQuiet(If(Tag(net, "oracle_v2"), <<Exec("UniV2TwapOracle", "update")>>))
  <2>1. AllQuiet(<<Exec("UniV2TwapOracle", "update")>>)
    BY QuietCalls, Quiet1 DEF Exec, Watched
  <2> QED  BY <2>1, QuietIf
<1>3. ConfigurePrntOracle(net).calls = <<Get({PrntOracle(net), "LockZap"}), ExecFrom("ownerOfLockZap",
  "PriceProvider", "setUsePool", "false"), ExecFrom("ownerOfLockZap", "PriceProvider", "setOracle",
    "")>> \o If(Tag(net, "oracle_v2"), <<Exec("UniV2TwapOracle", "update")>>)
  BY DEF ConfigurePrntOracle, Step
<1> QED  BY <1>1, <1>2, <1>3, QuietConcat

\* UniswapMock makes quiet calls only.
LEMMA UniswapMockCalls ==
  ASSUME NEW net
  PROVE  AllQuiet(UniswapMock(net).calls)
<1>1. AllQuiet(If(Tag(net, "mocks"), DeployAll(<<"UniswapV2Factory", "UniswapV2Router02">>)))
  <2>1. AllQuiet(DeployAll(<<"UniswapV2Factory", "UniswapV2Router02">>))
    <3>1. DOMAIN <<"UniswapV2Factory", "UniswapV2Router02">> = 1..2
      OBVIOUS
    <3> QED  BY <3>1, DeployAllQuiet
  <2> QED  BY <2>1, QuietIf
<1>2. UniswapMock(net).calls = If(Tag(net, "mocks"), DeployAll(<<"UniswapV2Factory",
  "UniswapV2Router02">>))
  BY DEF UniswapMock, Step
<1> QED  BY <1>1, <1>2

\* LayerzeroMock makes quiet calls only.
LEMMA LayerzeroMockCalls ==
  ASSUME NEW net
  PROVE  AllQuiet(LayerzeroMock(net).calls)
<1>1. AllQuiet(If(Tag(net, "mocks"), <<Deploy("LZEndpointSrcMock")>>))
  <2>1. AllQuiet(<<Deploy("LZEndpointSrcMock")>>)
    BY QuietCalls, Quiet1
  <2> QED  BY <2>1, QuietIf
<1>2. LayerzeroMock(net).calls = If(Tag(net, "mocks"), <<Deploy("LZEndpointSrcMock")>>)
  BY DEF LayerzeroMock, Step
<1> QED  BY <1>1, <1>2

\* SequencerMock makes quiet calls only.
LEMMA SequencerMockCalls ==
  ASSUME NEW net
  PROVE  AllQuiet(SequencerMock(net).calls)
<1>1. AllQuiet(If(Tag(net, "mocks") /\ net.sequencerFeed,
  <<Deploy("MockArbitrumSequencerUptimeFeed")>>))
  <2>1. AllQuiet(<<Deploy("MockArbitrumSequencerUptimeFeed")>>)
    BY QuietCalls, Quiet1
  <2> QED  BY <2>1, QuietIf
<1>2. SequencerMock(net).calls = If(Tag(net, "mocks") /\ net.sequencerFeed,
  <<Deploy("MockArbitrumSequencerUptimeFeed")>>)
  BY DEF SequencerMock, Step
<1> QED  BY <1>1, <1>2

\* BypassChainlink makes quiet calls only.
LEMMA BypassChainlinkCalls ==
  ASSUME NEW net
  PROVE  AllQuiet(BypassChainlink(net).calls)
<1>1. AllQuiet(<<ExecFrom("owner", "PriceProvider", "setUsePool", "true")>>)
  BY QuietCalls, Quiet1 DEF ExecFrom, Watched
<1>2. BypassChainlink(net).calls = <<ExecFrom("owner", "PriceProvider", "setUsePool", "true")>>
  BY DEF BypassChainlink, Step
<1> QED  BY <1>1, <1>2

\* LockerListScript makes quiet calls only.
LEMMA LockerListScriptCalls ==
  ASSUME NEW net
  PROVE  AllQuiet(LockerListScript(net).calls)
<1>1. AllQuiet(<<Deploy("LockerList")>>)
  BY QuietCalls, Quiet1
<1>2. LockerListScript(net).calls = <<Deploy("LockerList")>>
  BY DEF LockerListScript, Plain
<1> QED  BY <1>1, <1>2

\* DeployLp makes quiet calls only.
LEMMA DeployLpCalls ==
  ASSUME NEW net
  PROVE  AllQuiet(DeployLp(net).calls)
<1> DEFINE pair == DeployAll(<<"LiquidityZap", "PoolHelper">>)
           rest == IF net.uniswap THEN Router(net) \o pair ELSE <<Deploy("PoolHelper")>>
<1>1. AllQuiet(<<Get({"PrimeToken"})>>) /\ AllQuiet(<<Deploy("PoolHelper")>>)
  BY QuietCalls, Quiet1
<1>2. AllQuiet(pair)
  <2>1. DOMAIN <<"LiquidityZap", "PoolHelper">> = 1..2
    OBVIOUS
  <2> QED  BY <2>1, DeployAllQuiet
<1>3. DeployLp(net).calls = <<Get({"PrimeToken"})>> \o rest
  BY DEF DeployLp, Step
<1> HIDE DEF pair
<1>4. AllQuiet(rest)
  BY <1>1, <1>2, QuietRefs, QuietConcat
<1> QED  BY <1>1, <1>3, <1>4, QuietConcat

\* SetChainlinkAdapters makes quiet calls only.
LEMMA SetChainlinkAdaptersCalls ==
  ASSUME NEW net
  PROVE  AllQuiet(SetChainlinkAdapters(net).calls)
<1> DEFINE Refs(a) == If(Tag(net, "mocks") /\ a # "PRNT", <<Get({a, a \o "Aggregator"})>>)
           Adapter(a) == Refs(a) \o <<Deploy("ChainlinkAdapter" \o a)>>
           names == Tokens \o If(Tag(net, "oracle_cl"), <<"PRNT">>)
           parts == [i \in DOMAIN names |-> Adapter(names[i])]
           first == If(Tag(net, "oracle_cl"), <<Get({"PrimeToken"})>>)
<1>1. SetChainlinkAdapters(net).calls
        = first \o FlattenSeq(parts) \o <<Exec("AaveOracle", "setAssetSources")>>
  BY DEF SetChainlinkAdapters, Step, Each
<1>2. PICK n \in Nat : DOMAIN names = 1..n
  <2>1. IsList(Tokens) /\ IsList(<<"PRNT">>) /\ IsList(<<>>)
    BY Tuple2, Tuple1, QuietNone DEF Tokens, AllQuiet
  <2>2. IsList(names)
    BY <2>1, ListConcat DEF If
  <2> QED  BY <2>2, ListDomain
<1>3. ASSUME NEW a PROVE AllQuiet(Adapter(a))
  <2>1. AllQuiet(<<Get({a, a \o "Aggregator"})>>) /\ AllQuiet(<<Deploy("ChainlinkAdapter" \o a)>>)
    BY QuietCalls, Quiet1
  <2> QED  BY <2>1, QuietIf, QuietConcat
<1>4. AllQuiet(<<Exec("AaveOracle", "setAssetSources")>>)
  BY QuietCalls, Quiet1 DEF Exec, Watched
<1>5. AllQuiet(first)
  <2>1. AllQuiet(<<Get({"PrimeToken"})>>)
    BY QuietCalls, Quiet1
  <2> QED  BY <2>1, QuietIf
<1> HIDE DEF names, Adapter, first
<1>6. DOMAIN parts = 1..n /\ parts = [i \in 1..n |-> parts[i]] /\ \A i \in 1..n : AllQuiet(parts[i])
  BY <1>2, <1>3
<1> HIDE DEF parts
<1>7. AllQuiet(FlattenSeq(parts))
  BY <1>6, QuietFlat
<1> QED  BY <1>1, <1>4, <1>5, <1>7, QuietConcat

\* ConfigureCompounder makes quiet calls only.
LEMMA ConfigureCompounderCalls ==
  ASSUME NEW net
  PROVE  AllQuiet(ConfigureCompounder(net).calls)
<1> DEFINE parts == [i \in DOMAIN Tokens |-> <<ExecArg("Compounder", "setRoutes", Tokens[i])>>]
           adds == <<Exec("MFD", "addRewardConverter"), Get({"AaveProtocolDataProvider"})>>
<1>1. ConfigureCompounder(net).calls
        = <<Get({"Compounder"})>> \o Router(net) \o adds \o FlattenSeq(parts)
  BY DEF ConfigureCompounder, Step, Each
<1>2. AllQuiet(<<Get({"Compounder"})>>)
  BY QuietCalls, Quiet1
<1>3. AllQuiet(adds)
  BY QuietCalls, Quiet2 DEF Exec, Watched
<1>4. \A a : AllQuiet(<<ExecArg("Compounder", "setRoutes", a)>>)
  BY QuietCalls, Quiet1 DEF ExecArg, Watched
<1>5. parts = [i \in 1..2 |-> parts[i]] /\ \A i \in 1..2 : AllQuiet(parts[i])
  BY <1>4, TwoTokens
<1> HIDE DEF parts, adds
<1>6. AllQuiet(FlattenSeq(parts))
  BY <1>5, QuietFlat
<1> QED  BY <1>1, <1>2, <1>3, <1>6, QuietRefs, QuietConcat

\* The assets that only the mocks have.
LEMMA OtherAssets == \E n \in Nat : DOMAIN Tail(MockAssets) = 1..n
<1>1. IsList(Tokens) /\ IsList(<<"WSTETH", "ARB">>) /\ Len(Tokens) = 2 /\ Len(<<"WSTETH", "ARB">>) = 2
  BY Tuple2 DEF Tokens
<1> DEFINE more == <<"WSTETH", "ARB">>
<1>2. IsList(more) /\ IsList(Tokens) /\ Len(Tokens) = 2 /\ Len(more) = 2 /\ MockAssets = Tokens \o more
  BY <1>1 DEF MockAssets
<1> HIDE DEF more
<1>3. IsList(MockAssets) /\ Len(MockAssets) = Len(Tokens) + Len(more)
  BY <1>2, ListConcat
<1>4. MockAssets \in Seq(ToSet(MockAssets)) /\ MockAssets # <<>>
  BY <1>2, <1>3 DEF IsList
<1>5. Tail(MockAssets) \in Seq(ToSet(MockAssets))
  BY <1>4
<1> QED  BY <1>5, LenProperties

\* MarketsMock makes quiet calls only.
LEMMA MarketsMockCalls ==
  ASSUME NEW net
  PROVE  AllQuiet(MarketsMock(net).calls)
<1> DEFINE Supply(a, r) == <<Exec(a, "mint"), ExecArg(a, "approve", "lendingPool"),
                             Signer("LendingPool", "deposit", r)>>
           Asset(a) == <<Get({a})>> \o Supply(a, IF a \in ToSet(Tokens) THEN "core" ELSE a)
           names == Tail(MockAssets)
           parts == [i \in DOMAIN names |-> Asset(names[i])]
           first == <<Get({"LendingPoolAddressesProvider"})>>
<1>1. MarketsMock(net).calls = first \o Supply("WETH", "core") \o FlattenSeq(parts)
  BY DEF MarketsMock, Step, Each
<1>2. PICK n \in Nat : DOMAIN names = 1..n
  BY OtherAssets
<1>3. ASSUME NEW a, NEW r PROVE AllQuiet(Supply(a, r))
  BY QuietCalls, Quiet3 DEF Exec, ExecArg, Signer, Watched
<1>4. \A a : AllQuiet(<<Get({a})>>)
  BY QuietCalls, Quiet1
<1>5. AllQuiet(first)
  BY QuietCalls, Quiet1
<1> HIDE DEF Supply, names, first
<1>6. \A a : AllQuiet(Asset(a))
  BY <1>3, <1>4, QuietConcat
<1> HIDE DEF Asset
<1>7. DOMAIN parts = 1..n /\ parts = [i \in 1..n |-> parts[i]] /\ \A i \in 1..n : AllQuiet(parts[i])
  BY <1>2, <1>6
<1> HIDE DEF parts
<1>8. AllQuiet(FlattenSeq(parts))
  BY <1>7, QuietFlat
<1> QED  BY <1>1, <1>3, <1>5, <1>8, QuietConcat

\* ExportDeploy makes quiet calls only.
LEMMA ExportDeployCalls ==
  ASSUME NEW net
  PROVE  AllQuiet(ExportDeploy(net).calls)
<1>1. ASSUME NEW s PROVE AllQuiet(<<Get(s)>>)
  BY QuietCalls, Quiet1
<1> QED  BY <1>1 DEF ExportDeploy

\* NotADeployScript makes quiet calls only.
LEMMA NotADeployScriptCalls ==
  ASSUME NEW net
  PROVE  AllQuiet(NotADeployScript(net).calls)
<1>1. AllQuiet(<<Get({"no such function"})>>)
  BY QuietCalls, Quiet1
<1> QED  BY <1>1 DEF NotADeployScript, Plain

\* SetAllocPoints makes quiet calls only.
LEMMA SetAllocPointsCalls ==
  AllQuiet(SetAllocPoints.calls)
<1>1. AllQuiet(<<Signer("ChefIncentivesController", "batchUpdateAllocPoint", "")>>)
  BY QuietCalls, Quiet1 DEF Signer, Watched
<1>2. SetAllocPoints.calls = <<Signer("ChefIncentivesController", "batchUpdateAllocPoint", "")>>
  BY DEF SetAllocPoints, Job, Plain
<1> QED  BY <1>1, <1>2

\* SetRps makes quiet calls only.
LEMMA SetRpsCalls ==
  ASSUME NEW net
  PROVE  AllQuiet(SetRps(net).calls)
<1>1. AllQuiet(If(~Tag(net, "impersonate"), <<Get({"hardhat_impersonateAccount"})>>))
  <2>1. AllQuiet(<<Get({"hardhat_impersonateAccount"})>>)
    BY QuietCalls, Quiet1
  <2> QED  BY <2>1, QuietIf
<1>2. AllQuiet(<<ExecFromOwner("ChefIncentivesController", "setRewardsPerSecond")>>)
  BY QuietCalls, Quiet1 DEF ExecFromOwner, Watched
<1>3. SetRps(net).calls = If(~Tag(net, "impersonate"), <<Get({"hardhat_impersonateAccount"})>>) \o
  <<ExecFromOwner("ChefIncentivesController", "setRewardsPerSecond")>>
  BY DEF SetRps, Job, Plain
<1> QED  BY <1>1, <1>2, <1>3, QuietConcat

\* SetOracle makes quiet calls only.
LEMMA SetOracleCalls ==
  AllQuiet(SetOracle.calls)
<1>1. AllQuiet(<<Exec("PriceProvider", "setOracle"), ExecArg("PriceProvider", "setUsePool", "false")>>)
  BY QuietCalls, Quiet2 DEF ExecArg, Exec, Watched
<1>2. SetOracle.calls = <<Exec("PriceProvider", "setOracle"), ExecArg("PriceProvider", "setUsePool",
  "false")>>
  BY DEF SetOracle, Job, Plain
<1> QED  BY <1>1, <1>2

\* SetPool makes quiet calls only.
LEMMA SetPoolCalls ==
  AllQuiet(SetPool.calls)
<1>1. AllQuiet(<<ExecFrom("owner", "PriceProvider", "setUsePool", "true")>>)
  BY QuietCalls, Quiet1 DEF ExecFrom, Watched
<1>2. SetPool.calls = <<ExecFrom("owner", "PriceProvider", "setUsePool", "true")>>
  BY DEF SetPool, Job, Plain
<1> QED  BY <1>1, <1>2

\* SetPrntPP makes quiet calls only.
LEMMA SetPrntPPCalls ==
  AllQuiet(SetPrntPP.calls)
<1>1. AllQuiet(<<Get({"PriceProvider"}), Exec("PrimeToken", "setFeeRatio"), Exec("PrimeToken",
  "setPriceProvider")>>)
  BY QuietCalls, Quiet3 DEF Exec, Watched
<1>2. SetPrntPP.calls = <<Get({"PriceProvider"}), Exec("PrimeToken", "setFeeRatio"), Exec("PrimeToken",
  "setPriceProvider")>>
  BY DEF SetPrntPP, Job, Plain
<1> QED  BY <1>1, <1>2

\* SetTreasury makes quiet calls only.
LEMMA SetTreasuryCalls ==
  AllQuiet(SetTreasury.calls)
<1>1. AllQuiet(<<Exec("PrimeToken", "setTreasury")>>)
  BY QuietCalls, Quiet1 DEF Exec, Watched
<1>2. SetTreasury.calls = <<Exec("PrimeToken", "setTreasury")>>
  BY DEF SetTreasury, Job, Plain
<1> QED  BY <1>1, <1>2

\* Recover makes quiet calls only.
LEMMA RecoverCalls ==
  AllQuiet(Recover.calls)
<1>1. AllQuiet(<<Exec("MFD", "recoverERC20")>>)
  BY QuietCalls, Quiet1 DEF Exec, Watched
<1>2. Recover.calls = <<Exec("MFD", "recoverERC20")>>
  BY DEF Recover, Job, Plain
<1> QED  BY <1>1, <1>2

\* UpdatePrice makes quiet calls only.
LEMMA UpdatePriceCalls ==
  AllQuiet(UpdatePrice.calls)
<1>1. AllQuiet(<<Exec("PriceProvider", "update")>>)
  BY QuietCalls, Quiet1 DEF Exec, Watched
<1>2. UpdatePrice.calls = <<Exec("PriceProvider", "update")>>
  BY DEF UpdatePrice, Job, Plain
<1> QED  BY <1>1, <1>2

\* The parameters of the two production chains, then the calls of a local node.
LEMMA QuietParams ==
  ASSUME NEW net, NEW q, AllQuiet(q)
  PROVE  AllQuiet(FromParams(net, q)) /\ AllQuiet(OnLocalNode(net, q))
<1>1. AllQuiet(<<Get({"paramData"})>>)
  BY QuietCalls, Quiet1
<1> QED  BY <1>1, QuietIf, QuietConcat DEF FromParams, OnLocalNode

\* ParamsSetRps makes quiet calls only.
LEMMA ParamsSetRpsCalls ==
  ASSUME NEW net
  PROVE  AllQuiet(ParamsSetRps(net).calls)
<1>1. AllQuiet(<<ExecFromOwner("ChefIncentivesController", "setRewardsPerSecond")>>)
  BY QuietCalls, Quiet1 DEF ExecFromOwner, Watched
<1> QED  BY <1>1, QuietParams DEF ParamsSetRps, Job, Plain

\* ParamsSetAps makes quiet calls only.
LEMMA ParamsSetApsCalls ==
  ASSUME NEW net
  PROVE  AllQuiet(ParamsSetAps(net).calls)
<1>1. AllQuiet(<<ExecFromOwner("ChefIncentivesController", "batchUpdateAllocPoint")>>)
  BY QuietCalls, Quiet1 DEF ExecFromOwner, Watched
<1> QED  BY <1>1, QuietParams DEF ParamsSetAps, Job, Plain

\* One quiet call for each token.
LEMMA QuietPerToken ==
  ASSUME NEW q, q = [i \in DOMAIN Tokens |-> q[i]], \A i \in 1..2 : QuietCall(q[i])
  PROVE  AllQuiet(q)
<1>1. DOMAIN q = 1..2 /\ q = [i \in 1..2 |-> q[i]]
  BY TwoTokens
<1>2. \A i \in 1..2 : q[i] \in ToSet(q)
  BY <1>1 DEF ToSet
<1>3. q \in Seq(ToSet(q))
  BY <1>1, <1>2, SeqFromTo
<1> QED  BY <1>1, <1>3 DEF AllQuiet, IsList, ToSet

\* ParamsSetRates makes quiet calls only.
LEMMA ParamsSetRatesCalls ==
  ASSUME NEW net
  PROVE  AllQuiet(ParamsSetRates(net).calls)
<1> DEFINE q == [i \in DOMAIN Tokens |-> ExecFrom("poolAdmin", "LendingPoolConfigurator",
                   "setReserveInterestRateStrategyAddress", Tokens[i])]
<1>1. ParamsSetRates(net).calls
        = <<Get({"LendingPoolAddressesProvider"})>> \o FromParams(net, OnLocalNode(net, q))
  BY DEF ParamsSetRates, Job, Plain
<1>2. AllQuiet(<<Get({"LendingPoolAddressesProvider"})>>)
  BY QuietCalls, Quiet1
<1>3. \A i \in 1..2 : QuietCall(q[i])
  BY TwoTokens, QuietCalls DEF ExecFrom, Watched
<1>4. q = [i \in DOMAIN Tokens |-> q[i]]
  OBVIOUS
<1> HIDE DEF q
<1>5. AllQuiet(q)
  BY <1>3, <1>4, QuietPerToken
<1> QED  BY <1>1, <1>2, <1>5, QuietParams, QuietConcat

\* SetRates makes quiet calls only.
LEMMA SetRatesCalls == AllQuiet(SetRates.calls)
<1> DEFINE q == [i \in DOMAIN Tokens |->
                   Signer("LendingPoolConfigurator", "setReserveInterestRateStrategyAddress",
                     Tokens[i])]
<1>1. SetRates.calls = <<Get({"LendingPoolAddressesProvider"})>> \o q
  BY DEF SetRates, Job, Plain
<1>2. AllQuiet(<<Get({"LendingPoolAddressesProvider"})>>)
  BY QuietCalls, Quiet1
<1>3. \A i \in 1..2 : QuietCall(q[i])
  BY TwoTokens, QuietCalls DEF Signer, Watched
<1>4. q = [i \in DOMAIN Tokens |-> q[i]]
  OBVIOUS
<1> HIDE DEF q
<1>5. AllQuiet(q)
  BY <1>3, <1>4, QuietPerToken
<1> QED  BY <1>1, <1>2, <1>5, QuietConcat

\* Populate makes quiet calls only.
LEMMA PopulateCalls ==
  ASSUME NEW net
  PROVE  AllQuiet(Populate(net).calls)
<1>1. AllQuiet(<<Signer("LendingPool", "deposit", "core"), Signer("LendingPool", "borrow", "core")>>)
  BY QuietCalls, Quiet2 DEF Signer, Watched
<1> QED  BY <1>1, QuietParams DEF Populate, Job, Plain

-----------------------------------------------------------------------------
(* What the scripts may do.                                                *)

Payers      == {"configure_lp", "configure_cic", "configure_bounty_manager"}
Conditional == Guarded \cup {"deploy_token", "deploy_prnt_oracle", "weth", "assets"}

\* The transfers of PRNT that script id makes.
Pays(id, k) ==
  \/ id = "configure_lp" /\ k.x = "PoolHelper" /\ k.by = "opts"
  \/ id = "configure_cic" /\ k.x = "ChefIncentivesController" /\ k.by = "opts"
  \/ id = "configure_bounty_manager" /\ k.x = "BountyManager" /\ k.by = "opts"
  \/ id = "deploy_token" /\ k.x = "deployer" /\ k.by = "dao"
  \/ id = "fund_cic" /\ k.x = "allReserve" /\ k.by = "reserve"

\* Which script makes the watched calls.
Homely(id, k) ==
  /\ k.f = "setPoolAdmin" => /\ k.x \in {"deployer", "ATokensAndRatesHelper"}
                             /\ k.x # "deployer" => id \in LendsAdmin
  /\ k.f = "setAdmin" => id = "configure_markets"
  /\ k.f = "setPoolPause" /\ k.x = "false" => id = "disable_market_pause"
  /\ k.f = "initializePool" => id = "configure_lp"
  /\ k.f = "setMinters" => id = "configure_minters"
  /\ k.f = "setLPToken" => id = "set_lp_token"
  /\ k.f = "start" => id = "configure_cic"
  /\ k.f = "registerRewardDeposit" => k.x = "allReserve" \/ id = "configure_cic"
  /\ k.f \in {"transfer", "deposit"} /\ k.c = "Base" => id = "configure_lp"
  /\ k.f = "transfer" /\ k.c = "PrimeToken" => Pays(id, k)
  /\ id \in Payers => k.by \in {"opts", "signer"}

AtHome(id, k) ==
  /\ k.op \in {"get", "deploy", "when", "call"}
  /\ k.op = "when" => k.n \in Nat /\ id \in Conditional
  /\ k.op = "call" => Homely(id, k)

\* The block behind a test is there.
Bounded(q) == \A j \in 1..Len(q) : q[j].op = "when" => j + q[j].n <= Len(q)

\* The call that gives the pool's administration away.
Lends(k) == k.op = "call" /\ k.f = "setPoolAdmin" /\ k.x = "ATokensAndRatesHelper"

\* What is given away is taken back two calls later.
Returns(q) ==
  \A j \in 1..Len(q) : Lends(q[j]) =>
    /\ j + 2 <= Len(q)
    /\ q[j + 1].op = "call" /\ q[j + 1].f # "setPoolAdmin"
    /\ q[j + 2].op = "call" /\ q[j + 2].f = "setPoolAdmin" /\ q[j + 2].x = "deployer"

Formed(id, q) == IsList(q) /\ (\A k \in ToSet(q) : AtHome(id, k)) /\ Bounded(q) /\ Returns(q)

\* Well-formed lists are closed under concatenation.
LEMMA FormedConcat ==
  ASSUME NEW id, NEW p, NEW q, Formed(id, p), Formed(id, q)
  PROVE  Formed(id, p \o q)
<1> DEFINE a == Len(p)  b == Len(q)  r == p \o q
<1>1. IsList(p) /\ IsList(q) /\ Bounded(p) /\ Bounded(q) /\ Returns(p) /\ Returns(q)
  BY DEF Formed
<1>2. /\ IsList(r) /\ ToSet(r) = ToSet(p) \cup ToSet(q) /\ Len(r) = a + b
      /\ \A i \in 1..a : r[i] = p[i]
      /\ \A i \in 1..b : r[a + i] = q[i]
  BY <1>1, ListConcat
<1>3. a \in Nat /\ b \in Nat /\ (\A i \in 1..b : q[i] \in ToSet(q)) /\
  (\A i \in 1..a : p[i] \in ToSet(p))
  BY <1>1, ListDomain
<1>4. (\A k \in ToSet(p) : AtHome(id, k)) /\ (\A k \in ToSet(q) : AtHome(id, k))
  BY DEF Formed
<1> HIDE DEF a, b, r
<1>5. \A i \in 1..(a + b) : (i \in 1..a /\ r[i] = p[i]) \/ (i - a \in 1..b /\ r[i] = q[i - a])
  <2> TAKE i \in 1..(a + b)
  <2>1. CASE i <= a
    BY <1>2, <1>3, <2>1
  <2>2. CASE ~(i <= a)
    <3>1. i - a \in 1..b /\ a + (i - a) = i
      BY <1>3, <2>2
    <3> QED  BY <1>2, <3>1
  <2> QED  BY <2>1, <2>2
<1>6. Bounded(r)
  <2> SUFFICES ASSUME NEW j \in 1..(a + b), r[j].op = "when" PROVE j + r[j].n <= a + b
    BY <1>2 DEF Bounded
  <2>1. CASE j \in 1..a /\ r[j] = p[j]
    <3>1. j + p[j].n <= a /\ p[j].n \in Nat
      BY <1>1, <1>3, <1>4, <2>1 DEF Bounded, AtHome, a
    <3> QED  BY <1>3, <2>1, <3>1
  <2>2. CASE j - a \in 1..b /\ r[j] = q[j - a]
    <3>1. (j - a) + q[j - a].n <= b /\ q[j - a].n \in Nat
      BY <1>1, <1>3, <1>4, <2>2 DEF Bounded, AtHome, b
    <3> QED  BY <1>3, <2>2, <3>1
  <2> QED  BY <1>5, <2>1, <2>2
<1>7. Returns(r)
  <2> SUFFICES ASSUME NEW j \in 1..(a + b), Lends(r[j])
               PROVE  /\ j + 2 <= a + b
                      /\ r[j + 1].op = "call" /\ r[j + 1].f # "setPoolAdmin"
                      /\ r[j + 2].op = "call" /\ r[j + 2].f = "setPoolAdmin" /\ r[j + 2].x = "deployer"
    BY <1>2 DEF Returns
  <2>1. CASE j \in 1..a /\ r[j] = p[j]
    <3>1. /\ j + 2 <= a
          /\ p[j + 1].op = "call" /\ p[j + 1].f # "setPoolAdmin"
          /\ p[j + 2].op = "call" /\ p[j + 2].f = "setPoolAdmin" /\ p[j + 2].x = "deployer"
      BY <1>1, <2>1 DEF Returns, a
    <3>2. j + 1 \in 1..a /\ j + 2 \in 1..a /\ j + 2 <= a + b
      BY <1>3, <3>1
    <3>3. r[j + 1] = p[j + 1] /\ r[j + 2] = p[j + 2]
      BY <1>2, <3>2
    <3> QED  BY <3>1, <3>2, <3>3
  <2>2. CASE j - a \in 1..b /\ r[j] = q[j - a]
    <3> DEFINE i == j - a
    <3>0. i \in 1..b /\ Lends(q[i]) /\ a + i = j
      BY <1>3, <2>2
    <3> HIDE DEF i
    <3>1. /\ i + 2 <= b
          /\ q[i + 1].op = "call" /\ q[i + 1].f # "setPoolAdmin"
          /\ q[i + 2].op = "call" /\ q[i + 2].f = "setPoolAdmin" /\ q[i + 2].x = "deployer"
      BY <1>1, <3>0 DEF Returns, b
    <3>2. i + 1 \in 1..b /\ i + 2 \in 1..b /\ a + (i + 1) = j + 1 /\ a + (i + 2) = j + 2 /\
      j + 2 <= a + b
      BY <1>3, <3>0, <3>1
    <3>3. r[j + 1] = q[i + 1] /\ r[j + 2] = q[i + 2]
      BY <1>2, <3>2
    <3> QED  BY <3>1, <3>2, <3>3
  <2> QED  BY <1>5, <2>1, <2>2
<1> QED  BY <1>2, <1>4, <1>6, <1>7 DEF Formed, r

\* A call that is no test and gives nothing away.
Fits(id, k) == AtHome(id, k) /\ k.op # "when" /\ ~Lends(k)

\* A list of such calls.
LEMMA FormedStraight ==
  ASSUME NEW id, NEW q, IsList(q), \A k \in ToSet(q) : Fits(id, k)
  PROVE  Formed(id, q)
<1>1. \A j \in 1..Len(q) : q[j] \in ToSet(q)
  BY ListDomain
<1> QED  BY <1>1 DEF Formed, Bounded, Returns, Fits

\* Quiet calls fit everywhere, but the payers make none for others.
LEMMA QuietFits ==
  ASSUME NEW id, NEW k, QuietCall(k), id \in Payers /\ k.op = "call" => k.by \in {"opts", "signer"}
  PROVE  Fits(id, k)
<1>1. CASE k.op \in {"get", "deploy"}
  BY <1>1 DEF AtHome, Lends, Fits
<1>2. CASE k.op = "call" /\ k.f \notin Watched /\ (k.f = "deposit" => k.c = "LendingPool")
  <2>1. Homely(id, k)
    BY <1>2 DEF Homely, Watched
  <2> QED  BY <1>2, <2>1 DEF AtHome, Lends, Watched, Fits
<1> QED  BY <1>1, <1>2 DEF QuietCall

\* Quiet lists, in the scripts that pay nobody.
LEMMA QuietFormed ==
  ASSUME NEW id, NEW q, AllQuiet(q), id \notin Payers
  PROVE  Formed(id, q)
<1>1. IsList(q) /\ \A k \in ToSet(q) : QuietCall(k)
  BY DEF AllQuiet
<1>2. \A k : QuietCall(k) => Fits(id, k)
  BY QuietFits
<1> QED  BY <1>1, <1>2, FormedStraight

\* A well-formed list behind a test.
LEMMA FormedWhen ==
  ASSUME NEW id \in Conditional, NEW t, NEW x, NEW q, Formed(id, q)
  PROVE  /\ Formed(id, When(t, x, q)) /\ Len(When(t, x, q)) = Len(q) + 1
         /\ \A i \in 1..Len(q) : When(t, x, q)[i + 1] = q[i]
         /\ When(t, x, q)[1] = [op |-> "when", test |-> t, x |-> x, n |-> Len(q)]
<1> DEFINE w == [op |-> "when", test |-> t, x |-> x, n |-> Len(q)]
           p == <<w>>
           a == Len(q)
           r == When(t, x, q)
<1>1. IsList(q) /\ (\A k \in ToSet(q) : AtHome(id, k)) /\ Bounded(q) /\ Returns(q)
  BY DEF Formed
<1>2. a \in Nat /\ \A i \in 1..a : q[i] \in ToSet(q)
  BY <1>1, ListDomain
<1>3. r = p \o q
  BY DEF When
<1>4. IsList(p) /\ ToSet(p) = {w} /\ Len(p) = 1 /\ p[1] = w
  BY Tuple1
<1>5. w.op = "when" /\ w.n = a
  OBVIOUS
<1> HIDE DEF w, p, a, r
<1>6. /\ IsList(r) /\ ToSet(r) = {w} \cup ToSet(q) /\ Len(r) = 1 + Len(q)
      /\ r[1] = p[1]
      /\ \A i \in 1..Len(q) : r[1 + i] = q[i]
  <2>1. /\ IsList(p \o q) /\ ToSet(p \o q) = ToSet(p) \cup ToSet(q)
        /\ Len(p \o q) = Len(p) + Len(q)
        /\ \A i \in 1..Len(p) : (p \o q)[i] = p[i]
        /\ \A i \in 1..Len(q) : (p \o q)[Len(p) + i] = q[i]
    BY <1>1, <1>4, ListConcat
  <2>2. 1 \in 1..1
    OBVIOUS
  <2> QED  BY <1>3, <1>4, <2>1, <2>2
<1>7. Len(r) = a + 1 /\ r[1] = w /\ \A i \in 1..a : r[i + 1] = q[i]
  BY <1>2, <1>4, <1>6 DEF a
<1>8. \A j \in 1..(a + 1) : j = 1 \/ (j - 1 \in 1..a /\ r[j] = q[j - 1])
  <2> TAKE j \in 1..(a + 1)
  <2>1. CASE j # 1
    <3>1. j - 1 \in 1..a /\ (j - 1) + 1 = j
      BY <1>2, <2>1
    <3> QED  BY <1>7, <3>1
  <2> QED  BY <2>1
<1>9. \A k \in ToSet(r) : AtHome(id, k)
  <2>1. AtHome(id, w)
    BY <1>2, <1>5 DEF AtHome
  <2> QED  BY <1>1, <1>6, <2>1
<1>10. Bounded(r)
  <2> SUFFICES ASSUME NEW j \in 1..(a + 1), r[j].op = "when" PROVE j + r[j].n <= a + 1
    BY <1>7 DEF Bounded
  <2>1. CASE j = 1
    BY <1>2, <1>5, <1>7, <2>1
  <2>2. CASE j - 1 \in 1..a /\ r[j] = q[j - 1]
    <3>1. (j - 1) + q[j - 1].n <= a /\ q[j - 1].n \in Nat
      BY <1>1, <1>2, <2>2 DEF Bounded, AtHome, a
    <3> QED  BY <1>2, <2>2, <3>1
  <2> QED  BY <1>8, <2>1, <2>2
<1>11. Returns(r)
  <2> SUFFICES ASSUME NEW j \in 1..(a + 1), Lends(r[j])
               PROVE  /\ j + 2 <= a + 1
                      /\ r[j + 1].op = "call" /\ r[j + 1].f # "setPoolAdmin"
                      /\ r[j + 2].op = "call" /\ r[j + 2].f = "setPoolAdmin" /\ r[j + 2].x = "deployer"
    BY <1>7 DEF Returns
  <2>0. j # 1
    BY <1>5, <1>7 DEF Lends
  <2> DEFINE i == j - 1
  <2>1. i \in 1..a /\ Lends(q[i]) /\ i + 1 = j
    BY <1>2, <1>8, <2>0
  <2> HIDE DEF i
  <2>2. /\ i + 2 <= a
        /\ q[i + 1].op = "call" /\ q[i + 1].f # "setPoolAdmin"
        /\ q[i + 2].op = "call" /\ q[i + 2].f = "setPoolAdmin" /\ q[i + 2].x = "deployer"
    BY <1>1, <2>1 DEF Returns, a
  <2>3. i + 1 \in 1..a /\ i + 2 \in 1..a /\ (i + 1) + 1 = j + 1 /\ (i + 2) + 1 = j + 2 /\ j + 2 <= a + 1
    BY <1>2, <2>1, <2>2
  <2>4. r[j + 1] = q[i + 1] /\ r[j + 2] = q[i + 2]
    BY <1>7, <2>3
  <2> QED  BY <2>2, <2>3, <2>4
<1>12. Formed(id, r)
  BY <1>6, <1>9, <1>10, <1>11 DEF Formed
<1> QED  BY <1>7, <1>12 DEF a, r, w

\* The calls behind the test t at the end of q, and those before it.
Guards(q, t) ==
  \E m \in 1..Len(q) :
    /\ q[m].op = "when" /\ q[m].test = t /\ m + q[m].n = Len(q)
    /\ \A j \in 1..(m - 1) : QuietCall(q[j])
    /\ \A j \in (m + 1)..Len(q) : q[j].op = "when" =>
         q[j].n = 1 /\ j + 1 <= Len(q) /\ q[j + 1].op = "call" /\ q[j + 1].c = "Base"

\* The pool is paid twice and opened.
Opens(q, b) ==
  /\ b \in 1..Len(q) /\ b + 2 <= Len(q)
  /\ q[b] = Signer("Base", "transfer", "PoolHelper")
  /\ q[b + 1] = ExecArg("PrimeToken", "transfer", "PoolHelper")
  /\ q[b + 2] = Exec("PoolHelper", "initializePool")
  /\ \A j \in 1..Len(q) :
       /\ q[j].op = "call" /\ (q[j].f = "initializePool" \/ q[j].f = "transfer") => j \in {b, b + 1,
            b + 2}
       /\ q[j].op = "when" => /\ j < b
                              /\ \/ j + q[j].n < b
                                 \/ j + q[j].n = Len(q) /\ q[j].test = "poolNotInitialized"

\* The chef is started, its supply registered and, last, sent.
Supplies(q) ==
  /\ Len(q) = 6
  /\ q[2] = Exec("ChefIncentivesController", "start")
  /\ q[3] = ExecArg("ChefIncentivesController", "registerRewardDeposit", "supply")
  /\ q[6] = ExecArg("PrimeToken", "transfer", "ChefIncentivesController")
  /\ \A j \in {1, 4, 5} : QuietCall(q[j])

\* The bounty manager is paid once.
Reserves(q) ==
  /\ Len(q) = 7
  /\ q[2] = ExecArg("PrimeToken", "transfer", "BountyManager")
  /\ \A j \in {1, 3, 4, 5, 6, 7} : QuietCall(q[j])

Special(s) ==
  /\ s.id = "configure_lp" =>
       s.once /\ Guards(s.calls, "poolNotInitialized") /\ \E b : Opens(s.calls, b)
  /\ s.id = "configure_minters" => s.once /\ Guards(s.calls, "mintersUnset")
  /\ s.id = "configure_markets" =>
       /\ s.once /\ s.req = {"lending"} /\ Guards(s.calls, "adminIsDeployer")
       /\ ExecArg("ATokensAndRatesHelper", "configureReserves", "core") \in ToSet(s.calls)
  /\ s.id = "set_lp_token" => s.once /\ Guards(s.calls, "noStakingToken")
  /\ s.id = "configure_cic" => s.once /\ Supplies(s.calls)
  /\ s.id = "configure_bounty_manager" => s.once /\ Reserves(s.calls)
  /\ s.id = "disable_market_pause" => s.once /\ s.req = {"lending"}
  /\ s.id \in Conditional \ Guarded => ~s.once

\* What is known of every script.
Sound(s) == s.once \in BOOLEAN /\ Formed(s.id, s.calls) /\ Special(s)

\* The scripts the conditions above are about.
Marked == Conditional \cup Payers \cup {"disable_market_pause"}

\* The other scripts, when they make quiet calls.
LEMMA QuietSound ==
  ASSUME NEW s, AllQuiet(s.calls), s.id \notin Marked, s.once \in BOOLEAN
  PROVE  Sound(s)
<1>1. Formed(s.id, s.calls)
  BY QuietFormed DEF Marked
<1>2. Special(s)
  BY DEF Special, Marked, Conditional, Payers, Guarded
<1> QED  BY <1>1, <1>2 DEF Sound

\* Behind a test, only the base asset's call may be behind another one.
Inner(block) == \A j \in 1..Len(block) : block[j].op = "when" =>
  block[j].n = 1 /\ j + 1 <= Len(block) /\ block[j + 1].op = "call" /\ block[j + 1].c = "Base"

\* q consists of pre, a test and the calls behind it.
Behind(q, pre, t, x, block) == q = pre \o When(t, x, block)

\* Quiet calls before a test, and the calls behind it.
LEMMA GuardList ==
  ASSUME NEW id \in Guarded, NEW pre, NEW t, NEW block, NEW x, NEW q, Behind(q, pre, t, x, block),
         AllQuiet(pre), Formed(id, pre), Formed(id, block), Inner(block)
  PROVE  /\ Formed(id, q) /\ Guards(q, t) /\ ToSet(block) \subseteq ToSet(q)
         /\ Len(pre) \in Nat /\ Len(block) \in Nat /\ Len(q) = Len(pre) + 1 + Len(block)
         /\ \A i \in 1..Len(pre) : q[i] = pre[i]
         /\ q[Len(pre) + 1].op = "when" /\ q[Len(pre) + 1].test = t /\ q[Len(pre) + 1].n = Len(block)
         /\ \A i \in 1..Len(block) : q[Len(pre) + 1 + i] = block[i]
<1> DEFINE w == When(t, x, block)  a == Len(pre)  b == Len(block)
           e == [op |-> "when", test |-> t, x |-> x, n |-> Len(block)]
<1>0. id \in Conditional /\ q = pre \o w
  BY DEF Conditional, Behind
<1>1. /\ Formed(id, w) /\ Len(w) = b + 1
      /\ \A i \in 1..b : w[i + 1] = block[i]
      /\ w[1] = e
  BY <1>0, FormedWhen
<1>2. e.op = "when" /\ e.test = t /\ e.n = b
  OBVIOUS
<1> HIDE DEF w, e
<1>3. Formed(id, q)
  BY <1>0, <1>1, FormedConcat
<1>4. IsList(pre) /\ IsList(w) /\ IsList(block) /\ IsList(q)
  BY <1>1, <1>3 DEF Formed
<1>5. /\ Len(q) = a + (b + 1)
      /\ \A i \in 1..a : q[i] = pre[i]
      /\ \A i \in 1..(b + 1) : q[a + i] = w[i]
  <2>1. /\ Len(q) = Len(pre) + Len(w)
        /\ \A i \in 1..Len(pre) : q[i] = pre[i]
        /\ \A i \in 1..Len(w) : q[Len(pre) + i] = w[i]
    BY <1>0, <1>4, ListConcat
  <2> QED  BY <1>1, <2>1 DEF a
<1>6. a \in Nat /\ b \in Nat /\ \A i \in 1..a : pre[i] \in ToSet(pre)
  BY <1>4, ListDomain
<1> HIDE DEF a, b
<1>7. q[a + 1] = e
  <2>1. 1 \in 1..(b + 1)
    BY <1>6
  <2> QED  BY <1>1, <1>5, <2>1
<1>8. \A i \in 1..b : q[a + 1 + i] = block[i]
  <2> TAKE i \in 1..b
  <2>1. i + 1 \in 1..(b + 1) /\ a + 1 + i = a + (i + 1)
    BY <1>6
  <2> QED  BY <1>1, <1>5, <2>1
<1>9. ToSet(block) \subseteq ToSet(q)
  <2>1. \A k \in ToSet(block) : \E i \in 1..b : block[i] = k
    BY <1>4, ListDomain DEF ToSet, b
  <2>2. \A i \in 1..b : a + 1 + i \in 1..Len(q)
    BY <1>5, <1>6
  <2>3. \A i \in 1..Len(q) : q[i] \in ToSet(q)
    BY <1>4, ListDomain
  <2> QED  BY <1>8, <2>1, <2>2, <2>3
<1>10. Guards(q, t)
  <2> DEFINE m == a + 1
  <2>1. m \in 1..Len(q) /\ m + b = Len(q) /\ m - 1 = a
    BY <1>5, <1>6
  <2>2. \A j \in 1..a : QuietCall(q[j])
    BY <1>5, <1>6 DEF AllQuiet
  <2>3. ASSUME NEW j \in (m + 1)..Len(q), q[j].op = "when"
        PROVE  q[j].n = 1 /\ j + 1 <= Len(q) /\ q[j + 1].op = "call" /\ q[j + 1].c = "Base"
    <3> DEFINE i == j - m
    <3>1. i \in 1..b /\ a + 1 + i = j /\ a + 1 + (i + 1) = j + 1
      BY <1>5, <1>6, <2>3
    <3> HIDE DEF i
    <3>2. q[j] = block[i]
      BY <1>8, <3>1
    <3>3. block[i].n = 1 /\ i + 1 <= b /\ block[i + 1].op = "call" /\ block[i + 1].c = "Base"
      BY <2>3, <3>1, <3>2 DEF b, Inner
    <3>4. i + 1 \in 1..b
      BY <1>6, <3>1, <3>3
    <3>5. q[j + 1] = block[i + 1]
      BY <1>8, <3>1, <3>4
    <3> QED  BY <1>5, <1>6, <3>1, <3>2, <3>3, <3>5
  <2>4. q[m].op = "when" /\ q[m].test = t /\ m + q[m].n = Len(q)
    BY <1>2, <1>7, <2>1
  <2> HIDE DEF m
  <2> QED  BY <2>1, <2>2, <2>3, <2>4 DEF Guards
<1>11. Len(q) = a + 1 + b
  BY <1>5, <1>6
<1> QED  BY <1>2, <1>3, <1>5, <1>6, <1>7, <1>8, <1>9, <1>10, <1>11 DEF a, b
\* In particular.
LEMMA GuardFormed ==
  ASSUME NEW id \in Guarded, NEW pre, NEW t, NEW block, NEW x, NEW q, Behind(q, pre, t, x, block),
         AllQuiet(pre), Formed(id, pre), Formed(id, block),
         \A j \in 1..Len(block) : block[j].op # "when"
  PROVE  Formed(id, q) /\ Guards(q, t) /\ ToSet(block) \subseteq ToSet(q)
<1>1. Inner(block)
  BY DEF Inner
<1>2. /\ Formed(id, q) /\ Guards(q, t) /\ ToSet(block) \subseteq ToSet(q)
      /\ Len(pre) \in Nat /\ Len(block) \in Nat /\ Len(q) = Len(pre) + 1 + Len(block)
      /\ \A i \in 1..Len(pre) : q[i] = pre[i]
      /\ q[Len(pre) + 1].op = "when" /\ q[Len(pre) + 1].test = t /\ q[Len(pre) + 1].n = Len(block)
      /\ \A i \in 1..Len(block) : q[Len(pre) + 1 + i] = block[i]
  BY <1>1, GuardList, SMTT(30)
<1> QED  BY <1>2

\* What a call's fields are.
LEMMA CallFields ==
  ASSUME NEW by, NEW c, NEW f, NEW x
  PROVE  LET k == Call(by, c, f, x) IN
         k.op = "call" /\ k.by = by /\ k.c = c /\ k.f = f /\ k.x = x
  BY DEF Call

\* The fields of a call execute() sends as opts.
LEMMA ExecFields ==
  ASSUME NEW c, NEW f
  PROVE  Exec(c, f).op = "call" /\ Exec(c, f).by = "opts" /\ Exec(c, f).c = c /\ Exec(c, f).f = f
<1>1. \E x : Exec(c, f) = Call("opts", c, f, x)
  BY Zenon DEF Exec
<1> QED  BY <1>1, CallFields

\* The fields of a call with an argument.
LEMMA ArgFields ==
  ASSUME NEW c, NEW f, NEW x
  PROVE  LET k == ExecArg(c, f, x) IN
         k.op = "call" /\ k.by = "opts" /\ k.c = c /\ k.f = f /\ k.x = x
  BY CallFields DEF ExecArg

\* The fields of a call of a named sender.
LEMMA FromFields ==
  ASSUME NEW by, NEW c, NEW f, NEW x
  PROVE  LET k == ExecFrom(by, c, f, x) IN
         k.op = "call" /\ k.by = by /\ k.c = c /\ k.f = f /\ k.x = x
  BY CallFields DEF ExecFrom

\* The fields of a call through a signer.
LEMMA SignerFields ==
  ASSUME NEW c, NEW f, NEW x
  PROVE  LET k == Signer(c, f, x) IN
         k.op = "call" /\ k.by = "signer" /\ k.c = c /\ k.f = f /\ k.x = x
  BY CallFields DEF Signer

\* Well-formed lists: none, one call, and a choice.
LEMMA FormedNone ==
  ASSUME NEW id
  PROVE  Formed(id, <<>>)
<1>1. IsList(<<>>) /\ ToSet(<<>>) = {}
  BY QuietNone DEF AllQuiet, ToSet
<1> QED  BY <1>1, FormedStraight

\* A list that a condition leaves out.
LEMMA FormedIf ==
  ASSUME NEW id, NEW b, NEW q, b => Formed(id, q)
  PROVE  Formed(id, If(b, q))
  BY FormedNone DEF If

\* A list of one call.
LEMMA Formed1 ==
  ASSUME NEW id, NEW k, Fits(id, k)
  PROVE  Formed(id, <<k>>)
  BY Tuple1, FormedStraight

\* A call that no condition is about.
LEMMA PlainFits ==
  ASSUME NEW id, NEW k, k.op = "call", k.f \notin Watched, k.f # "deposit",
         id \in Payers => k.by \in {"opts", "signer"}
  PROVE  Fits(id, k)
<1>1. QuietCall(k)
  BY DEF QuietCall
<1> QED  BY <1>1, QuietFits

\* DeployToken is sound.
LEMMA DeployTokenSound ==
  ASSUME NEW net
  PROVE  Sound(DeployToken(net))
<1> DEFINE id == "deploy_token"
           refs == If(Tag(net, "mocks"), <<Get({"LZEndpointSrcMock"})>>)
           token == <<Deploy(IF Tag(net, "testing") THEN "MockPrimeToken" ELSE "PrimeToken")>>
           pays == ExecFrom("dao", "PrimeToken", "transfer", "deployer")
           fee == Exec("PrimeToken", "setFeeRatio")
           block == <<fee>> \o If(Tag(net, "testing") /\ Tag(net, "impersonate"), <<pays>>)
           s == DeployToken(net)
<1>1. s.id = id /\ s.once = FALSE /\ s.calls = refs \o token \o When("fresh", "", block)
  BY DEF DeployToken, Step
<1>2. AllQuiet(refs) /\ AllQuiet(token)
  <2>1. AllQuiet(token) /\ AllQuiet(<<Get({"LZEndpointSrcMock"})>>)
    BY QuietCalls, Quiet1
  <2> QED  BY <2>1, QuietIf
<1>3. id \notin Payers /\ id \in Conditional
  BY DEF Payers, Conditional
<1>4. Formed(id, <<fee>>)
  <2>1. Fits(id, fee)
    BY <1>3, ExecFields, PlainFits DEF Watched
  <2> QED  BY <2>1, Formed1
<1>5. Formed(id, <<pays>>)
  <2>1. pays.op = "call" /\ pays.by = "dao" /\ pays.c = "PrimeToken" /\ pays.f = "transfer" /\
    pays.x = "deployer"
    BY FromFields
  <2> HIDE DEF pays
  <2>2. Homely(id, pays)
    BY <2>1 DEF Homely, Pays, Payers
  <2>3. Fits(id, pays)
    BY <2>1, <2>2 DEF Fits, AtHome, Lends
  <2> QED  BY <2>3, Formed1
<1> HIDE DEF refs, token, fee, pays
<1>6. Formed(id, block)
  BY <1>4, <1>5, FormedIf, FormedConcat
<1> HIDE DEF block, id
<1>7. Formed(id, When("fresh", "", block))
  BY <1>3, <1>6, FormedWhen
<1>8. Formed(id, refs) /\ Formed(id, token)
  BY <1>2, <1>3, QuietFormed
<1> HIDE DEF s
<1>9. Formed(s.id, s.calls)
  BY <1>1, <1>7, <1>8, FormedConcat
<1>10. Special(s)
  BY <1>1 DEF Special, id
<1> QED  BY <1>1, <1>9, <1>10 DEF Sound, s

\* ConfigureLending is sound.
LEMMA ConfigureLendingSound ==
  ASSUME NEW net
  PROVE  Sound(ConfigureLending(net))
<1> DEFINE id == "configure_lending"
           Provider(f, x) == Signer("LendingPoolAddressesProvider", f, x)
           e1 == Get({"LendingPoolAddressesProviderRegistry", "LendingPoolAddressesProvider",
                      "LendingPoolConfigurator", "LendingPool"})
           e2 == Signer("LendingPoolAddressesProviderRegistry", "registerAddressesProvider", "")
           e3 == Provider("setPoolAdmin", "deployer")
           e4 == Provider("setEmergencyAdmin", "deployer")
           e5 == Provider("setLiquidationFeeTo", "treasury")
           e6 == Exec("LendingPool", "initialize")
           e7 == Provider("setLendingPoolImpl", "")
           e8 == Provider("setLendingPoolConfiguratorImpl", "")
           e9 == Signer("LendingPoolConfigurator", "setPoolPause", "true")
           e10 == Exec("WETHGateway", "authorizeLendingPool")
           s == ConfigureLending(net)
<1>1. s.id = id /\ s.once = TRUE /\ s.calls = <<e1, e2, e3, e4, e5, e6, e7, e8, e9, e10>>
  BY DEF ConfigureLending, Step
<1>2. id \notin Payers /\ id \notin Marked
  BY DEF Payers, Conditional, Guarded, Marked
<1>3. \A k \in {e1, e2, e4, e5, e6, e7, e8, e10} : QuietCall(k)
  BY QuietCalls DEF Signer, Exec, Watched
<1>4. Homely(id, e3) /\ e3.op = "call" /\ e3.x = "deployer"
  <2>1. e3.op = "call" /\ e3.f = "setPoolAdmin" /\ e3.x = "deployer"
    BY SignerFields
  <2> HIDE DEF e3
  <2> QED  BY <2>1 DEF Homely, Payers
<1>5. Homely(id, e9) /\ e9.op = "call" /\ e9.x = "true"
  <2>1. e9.op = "call" /\ e9.f = "setPoolPause" /\ e9.x = "true"
    BY SignerFields
  <2> HIDE DEF e9
  <2> QED  BY <2>1 DEF Homely, Payers
<1> HIDE DEF id, e1, e2, e3, e4, e5, e6, e7, e8, e9, e10
<1>6. Fits(id, e3) /\ Fits(id, e9)
  BY <1>4, <1>5 DEF Fits, AtHome, Lends
<1>7. \A k \in {e1, e2, e3, e4, e5, e6, e7, e8, e9, e10} : Fits(id, k)
  BY <1>2, <1>3, <1>6, QuietFits
<1> HIDE DEF s
<1>8. Formed(id, s.calls)
  BY <1>1, <1>7, Tuple10, FormedStraight
<1>9. Special(s)
  BY <1>1, <1>2 DEF Special, Marked, Payers, Conditional, Guarded
<1> QED  BY <1>1, <1>8, <1>9 DEF Sound, s

\* DisableMarketPause is sound.
LEMMA DisableMarketPauseSound ==
  ASSUME NEW net
  PROVE  Sound(DisableMarketPause(net))
<1> DEFINE id == "disable_market_pause"
           e1 == Get({"LendingPoolAddressesProvider"})
           e2 == Signer("LendingPoolConfigurator", "setPoolPause", "false")
           s == DisableMarketPause(net)
<1>1. s.id = id /\ s.once = TRUE /\ s.req = {"lending"} /\ s.calls = <<e1, e2>>
  BY DEF DisableMarketPause, Step
<1>2. QuietCall(e1)
  BY QuietCalls
<1>3. Homely(id, e2) /\ e2.op = "call" /\ e2.x = "false"
  <2>1. e2.op = "call" /\ e2.f = "setPoolPause" /\ e2.x = "false"
    BY SignerFields
  <2> HIDE DEF e2
  <2> QED  BY <2>1 DEF Homely, Payers
<1>4. id \notin Payers
  BY DEF Payers
<1> HIDE DEF id, e1, e2
<1>5. Fits(id, e1) /\ Fits(id, e2)
  BY <1>2, <1>3, <1>4, QuietFits DEF Fits, AtHome, Lends
<1> HIDE DEF s
<1>6. Formed(id, s.calls)
  BY <1>1, <1>5, Tuple2, FormedStraight
<1>7. Special(s)
  BY <1>1 DEF Special, id, Conditional, Guarded
<1> QED  BY <1>1, <1>6, <1>7 DEF Sound, s

\* ConfigureCic is sound.
LEMMA ConfigureCicSound ==
  ASSUME NEW net
  PROVE  Sound(ConfigureCic(net))
<1> DEFINE id == "configure_cic"
           e1 == Get({"ChefIncentivesController"})
           e2 == Exec("ChefIncentivesController", "start")
           e3 == ExecArg("ChefIncentivesController", "registerRewardDeposit", "supply")
           e4 == Exec("ChefIncentivesController", "setEndingTimeUpdateCadence")
           e5 == Exec("EligibilityDataProvider", "setChefIncentivesController")
           e6 == ExecArg("PrimeToken", "transfer", "ChefIncentivesController")
           s == ConfigureCic(net)
<1>1. s.id = id /\ s.once = TRUE /\ s.calls = <<e1, e2, e3, e4, e5, e6>>
  BY DEF ConfigureCic, Step
<1>2. QuietCall(e1) /\ QuietCall(e4) /\ QuietCall(e5) /\ e1.op = "get" /\ e4.by = "opts" /\
  e5.by = "opts"
  <2>1. QuietCall(e1) /\ QuietCall(e4) /\ QuietCall(e5)
    BY QuietCalls DEF Exec, Watched
  <2>2. e4.by = "opts" /\ e5.by = "opts"
    BY ExecFields
  <2>3. e1.op = "get"
    BY DEF Get
  <2> QED  BY <2>1, <2>2, <2>3
<1>3. Homely(id, e2) /\ e2.op = "call" /\ e2.f = "start"
  <2>1. e2.op = "call" /\ e2.by = "opts" /\ e2.f = "start"
    BY ExecFields
  <2> HIDE DEF e2
  <2> QED  BY <2>1 DEF Homely
<1>4. Homely(id, e3) /\ e3.op = "call" /\ e3.f = "registerRewardDeposit"
  <2>1. e3.op = "call" /\ e3.by = "opts" /\ e3.f = "registerRewardDeposit"
    BY ArgFields
  <2> HIDE DEF e3
  <2> QED  BY <2>1 DEF Homely
<1>5. Homely(id, e6) /\ e6.op = "call" /\ e6.f = "transfer"
  <2>1. e6.op = "call" /\ e6.by = "opts" /\ e6.f = "transfer" /\ e6.c = "PrimeToken" /\
    e6.x = "ChefIncentivesController"
    BY ArgFields
  <2> HIDE DEF e6
  <2> QED  BY <2>1 DEF Homely, Pays
<1> DEFINE q == <<e1, e2, e3, e4, e5, e6>>
<1>6. Supplies(q)
  <2> DEFINE f2 == e2  f3 == e3  f6 == e6
  <2>1. f2 = Exec("ChefIncentivesController", "start")
        /\ f3 = ExecArg("ChefIncentivesController", "registerRewardDeposit", "supply")
        /\ f6 = ExecArg("PrimeToken", "transfer", "ChefIncentivesController")
    OBVIOUS
  <2> HIDE DEF e1, e2, e3, e4, e5, e6
  <2>2. Len(q) = 6 /\ q[1] = e1 /\ q[2] = f2 /\ q[3] = f3 /\ q[4] = e4 /\ q[5] = e5 /\ q[6] = f6
    OBVIOUS
  <2> HIDE DEF q, f2, f3, f6
  <2> QED  BY <1>2, <2>1, <2>2 DEF Supplies
<1> HIDE DEF e1, e2, e3, e4, e5, e6
<1>7. Fits(id, e1) /\ Fits(id, e4) /\ Fits(id, e5)
  BY <1>2, QuietFits
<1>8. Fits(id, e2) /\ Fits(id, e3) /\ Fits(id, e6)
  BY <1>3, <1>4, <1>5 DEF Fits, AtHome, Lends
<1> HIDE DEF id, q, s
<1>9. Formed(id, q)
  BY <1>7, <1>8, Tuple6, FormedStraight DEF q
<1>10. Special(s)
  BY <1>1, <1>6 DEF Special, id, Conditional, Guarded, q
<1> QED  BY <1>1, <1>9, <1>10 DEF Sound, s, q

\* ConfigureBountyManager is sound.
LEMMA ConfigureBountyManagerSound ==
  ASSUME NEW net
  PROVE  Sound(ConfigureBountyManager(net))
<1> DEFINE id == "configure_bounty_manager"
           e1 == Get({"BountyManager"})
           e2 == ExecArg("PrimeToken", "transfer", "BountyManager")
           e3 == Exec("BountyManager", "setMinStakeAmount")
           e4 == Exec("MFD", "setBountyManager")
           e5 == Exec("ChefIncentivesController", "setBountyManager")
           e6 == Exec("ChefIncentivesController", "setEligibilityExempt")
           e7 == Exec("Compounder", "setBountyManager")
           s == ConfigureBountyManager(net)
<1>1. s.id = id /\ s.once = TRUE /\ s.calls = <<e1, e2, e3, e4, e5, e6, e7>>
  BY DEF ConfigureBountyManager, Step
<1>2. \A k \in {e1, e3, e4, e5, e6, e7} : QuietCall(k) /\ (k.op = "call" => k.by = "opts")
  <2>1. QuietCall(e1) /\ QuietCall(e3) /\ QuietCall(e4) /\ QuietCall(e5) /\ QuietCall(e6) /\
    QuietCall(e7)
    BY QuietCalls DEF Exec, Watched
  <2>2. e3.by = "opts" /\ e4.by = "opts" /\ e5.by = "opts" /\ e6.by = "opts" /\ e7.by = "opts"
    BY ExecFields
  <2>3. e1.op = "get"
    BY DEF Get
  <2> HIDE DEF e1, e3, e4, e5, e6, e7
  <2> QED  BY <2>1, <2>2, <2>3
<1>3. Homely(id, e2) /\ e2.op = "call" /\ e2.f = "transfer"
  <2>1. e2.op = "call" /\ e2.by = "opts" /\ e2.f = "transfer" /\ e2.c = "PrimeToken" /\
    e2.x = "BountyManager"
    BY ArgFields
  <2> HIDE DEF e2
  <2> QED  BY <2>1 DEF Homely, Pays
<1> DEFINE q == <<e1, e2, e3, e4, e5, e6, e7>>
<1>6. Reserves(q)
  <2> DEFINE f2 == e2
  <2>1. f2 = ExecArg("PrimeToken", "transfer", "BountyManager")
    OBVIOUS
  <2> HIDE DEF e1, e2, e3, e4, e5, e6, e7
  <2>2. Len(q) = 7 /\ q[1] = e1 /\ q[2] = f2 /\ q[3] = e3 /\ q[4] = e4 /\ q[5] = e5 /\ q[6] = e6 /\
    q[7] = e7
    OBVIOUS
  <2> HIDE DEF q, f2
  <2> QED  BY <1>2, <2>1, <2>2 DEF Reserves
<1> HIDE DEF e1, e2, e3, e4, e5, e6, e7
<1>7. \A k \in {e1, e3, e4, e5, e6, e7} : Fits(id, k)
  BY <1>2, QuietFits
<1>8. Fits(id, e2)
  BY <1>3 DEF Fits, AtHome, Lends
<1> HIDE DEF id, q, s
<1>9. Formed(id, q)
  BY <1>7, <1>8, Tuple7, FormedStraight DEF q
<1>10. Special(s)
  BY <1>1, <1>6 DEF Special, id, Conditional, Guarded, q
<1> QED  BY <1>1, <1>9, <1>10 DEF Sound, s, q

\* ConfigureMinters is sound.
LEMMA ConfigureMintersSound ==
  ASSUME NEW net
  PROVE  Sound(ConfigureMinters(net))
<1> DEFINE id == "configure_minters"
           pre == <<Get({"ChefIncentivesController", "MiddleFeeDistribution", "MFD"})>>
           e1 == Exec("MFD", "setMinters")
           e2 == Exec("MFD", "setAddresses")
           block == <<e1, e2>>
           s == ConfigureMinters(net)
<1>1. s.id = id /\ s.once = TRUE /\ s.calls = pre \o When("mintersUnset", "", block)
  BY DEF ConfigureMinters, Step
<1>2. AllQuiet(pre)
  BY QuietCalls, Quiet1
<1>3. id \in Guarded /\ id \notin Payers
  BY DEF Guarded, Payers
<1>4. Fits(id, e1)
  <2>1. e1.op = "call" /\ e1.f = "setMinters"
    BY ExecFields
  <2> HIDE DEF e1
  <2>2. Homely(id, e1)
    BY <2>1 DEF Homely, Payers
  <2> QED  BY <2>1, <2>2 DEF Fits, AtHome, Lends
<1>5. Fits(id, e2)
  <2>1. e2.op = "call" /\ e2.f = "setAddresses"
    BY ExecFields
  <2> QED  BY <1>3, <2>1, PlainFits DEF Watched
<1> HIDE DEF id, pre, e1, e2
<1>6. IsList(block) /\ ToSet(block) = {e1, e2}
  BY Tuple2
<1> HIDE DEF block, s
<1>7. Formed(id, block)
  BY <1>4, <1>5, <1>6, FormedStraight
<1>8. \A j \in 1..Len(block) : block[j].op # "when"
  BY <1>4, <1>5, <1>6, ListDomain DEF Fits
<1>9. Formed(id, pre)
  BY <1>2, <1>3, QuietFormed
<1>10. Formed(id, s.calls) /\ Guards(s.calls, "mintersUnset")
  <2>1. PICK x : Behind(s.calls, pre, "mintersUnset", x, block)
    BY <1>1, Zenon DEF Behind
  <2> QED  BY <2>1, <1>2, <1>3, <1>7, <1>8, <1>9, GuardFormed
<1>11. Special(s)
  BY <1>1, <1>10 DEF Special, id, Conditional, Guarded
<1> QED  BY <1>1, <1>10, <1>11 DEF Sound, s

\* SetLpToken is sound.
LEMMA SetLpTokenSound ==
  ASSUME NEW net
  PROVE  Sound(SetLpToken(net))
<1> DEFINE id == "set_lp_token"
           pre == <<Get({"PoolHelper", "Leverager", "MFD"})>>
           e1 == Exec("MFD", "setLPToken")
           e2 == Exec("EligibilityDataProvider", "setLPToken")
           e3 == Get({"ValidationLogic", "ReserveLogic", "LendingPoolAddressesProvider"})
           e4 == Signer("LendingPool", "setLeverager", "")
           block == <<e1, e2, e3, e4>>
           s == SetLpToken(net)
<1>1. s.id = id /\ s.once = TRUE /\ s.calls = pre \o When("noStakingToken", "", block)
  BY DEF SetLpToken, Step
<1>2. AllQuiet(pre)
  BY QuietCalls, Quiet1
<1>3. id \in Guarded /\ id \notin Payers
  BY DEF Guarded, Payers
<1>4. ASSUME NEW k, k.op = "call", k.f = "setLPToken" PROVE Fits(id, k)
  <2>2. Homely(id, k)
    BY <1>4 DEF Homely, Payers
  <2> QED  BY <1>4, <2>2 DEF Fits, AtHome, Lends
<1>5. Fits(id, e1) /\ Fits(id, e2)
  <2>1. e1.op = "call" /\ e1.f = "setLPToken" /\ e2.op = "call" /\ e2.f = "setLPToken"
    BY ExecFields
  <2> HIDE DEF e1, e2, id
  <2> QED  BY <1>4, <2>1
<1>6. Fits(id, e3) /\ Fits(id, e4)
  <2>1. QuietCall(e3) /\ QuietCall(e4)
    BY QuietCalls DEF Signer, Watched
  <2> HIDE DEF e3, e4, id
  <2> QED  BY <1>3, <2>1, QuietFits
<1> HIDE DEF id, pre, e1, e2, e3, e4
<1>7. IsList(block) /\ ToSet(block) = {e1, e2, e3, e4}
  BY Tuple4
<1> HIDE DEF block, s
<1>8. \A k \in ToSet(block) : Fits(id, k)
  BY <1>5, <1>6, <1>7
<1>9. Formed(id, block) /\ \A j \in 1..Len(block) : block[j].op # "when"
  BY <1>7, <1>8, FormedStraight, ListDomain DEF Fits
<1>10. Formed(id, pre)
  BY <1>2, <1>3, QuietFormed
<1>11. Formed(id, s.calls) /\ Guards(s.calls, "noStakingToken")
  <2>1. PICK x : Behind(s.calls, pre, "noStakingToken", x, block)
    BY <1>1, Zenon DEF Behind
  <2> QED  BY <2>1, <1>2, <1>3, <1>9, <1>10, GuardFormed
<1>12. Special(s)
  BY <1>1, <1>11 DEF Special, id, Conditional, Guarded
<1> QED  BY <1>1, <1>11, <1>12 DEF Sound, s

\* The helper's turn as the pool's administrator.
LEMMA LoanFormed ==
  ASSUME NEW id \in LendsAdmin, NEW a, NEW b, NEW c,
         a.op = "call", a.f = "setPoolAdmin", a.x = "ATokensAndRatesHelper",
         b.op = "call", b.f \notin Watched, b.f # "deposit",
         c.op = "call", c.f = "setPoolAdmin", c.x = "deployer"
  PROVE  Formed(id, <<a, b, c>>)
<1> DEFINE q == <<a, b, c>>
<1>1. IsList(q) /\ ToSet(q) = {a, b, c} /\ Len(q) = 3
  BY Tuple3
<1>2. q[1] = a /\ q[2] = b /\ q[3] = c
  OBVIOUS
<1>3. id \notin Payers
  BY DEF Payers, LendsAdmin
<1>4. AtHome(id, a) /\ AtHome(id, c)
  <2>1. Homely(id, a) /\ Homely(id, c)
    BY <1>3 DEF Homely
  <2> QED  BY <2>1 DEF AtHome
<1>5. Fits(id, b)
  BY <1>3, PlainFits
<1> HIDE DEF q
<1>6. Bounded(q) /\ Returns(q)
  <2>1. \A j \in 1..Len(q) : j = 1 \/ j = 2 \/ j = 3
    BY <1>1
  <2>2. Bounded(q)
    BY <1>1, <1>2, <2>1 DEF Bounded
  <2>3. \A j \in 1..Len(q) : Lends(q[j]) => j = 1
    BY <1>2, <2>1, <1>5 DEF Lends, Watched
  <2>4. 1 + 2 <= Len(q) /\ q[1 + 1] = b /\ q[1 + 2] = c
    BY <1>1, <1>2
  <2> QED  BY <2>2, <2>3, <2>4 DEF Returns, Watched
<1> QED  BY <1>1, <1>4, <1>5, <1>6 DEF Formed, q, Fits

\* An asset is listed.
LEMMA DeployAssetFormed ==
  ASSUME NEW id \in LendsAdmin, NEW a, NEW r
  PROVE  Formed(id, DeployAsset(a, r))
<1> DEFINE e1 == Get({"LendingPoolAddressesProvider", "ATokensAndRatesHelper", "MiddleFeeDistribution",
                      "AToken", "StableDebtToken", "VariableDebtToken", "ChefIncentivesController"})
           e2 == Deploy("rateStrategy" \o a)
           e3 == Signer("LendingPoolConfigurator", "batchInitReserve", r)
           e4 == ExecArg("LendingPoolAddressesProvider", "setPoolAdmin", "ATokensAndRatesHelper")
           e5 == ExecArg("ATokensAndRatesHelper", "configureReserves", r)
           e6 == ExecArg("LendingPoolAddressesProvider", "setPoolAdmin", "deployer")
           e7 == ExecArg("AaveOracle", "setAssetSources", r)
           p == <<e1, e2, e3>>
           m == <<e4, e5, e6>>
           l == <<e7>>
<1>1. DeployAsset(a, r) = <<e1, e2, e3, e4, e5, e6, e7>>
  BY DEF DeployAsset
<1>2. AllQuiet(p) /\ AllQuiet(l)
  BY QuietCalls, Quiet3, Quiet1 DEF Signer, ExecArg, Watched
<1>3. Formed(id, m)
  <2>1. /\ e4.op = "call" /\ e4.f = "setPoolAdmin" /\ e4.x = "ATokensAndRatesHelper"
        /\ e5.op = "call" /\ e5.f = "configureReserves"
        /\ e6.op = "call" /\ e6.f = "setPoolAdmin" /\ e6.x = "deployer"
    BY ArgFields
  <2>2. e5.f \notin Watched /\ e5.f # "deposit"
    BY <2>1 DEF Watched
  <2> HIDE DEF e4, e5, e6
  <2> QED  BY <2>1, <2>2, LoanFormed
<1> HIDE DEF e1, e2, e3, e4, e5, e6, e7
<1>4. <<e1, e2, e3, e4, e5, e6, e7>> = p \o m \o l
  <2> DEFINE S == {e1, e2, e3, e4, e5, e6, e7}
             q == <<e1, e2, e3, e4, e5, e6, e7>>
             t == p \o m \o l
  <2>1. p \in Seq(S) /\ m \in Seq(S) /\ l \in Seq(S) /\ q \in Seq(S)
    OBVIOUS
  <2>2. t \in Seq(S)
    BY <2>1
  <2>3. Len(t) = 7 /\ Len(q) = 7
    OBVIOUS
  <2>4. \A i \in 1..7 : t[i] = q[i]
    <3>1. t[1] = e1 /\ t[2] = e2 /\ t[3] = e3 /\ t[4] = e4 /\ t[5] = e5 /\ t[6] = e6 /\ t[7] = e7
      OBVIOUS
    <3>2. q[1] = e1 /\ q[2] = e2 /\ q[3] = e3 /\ q[4] = e4 /\ q[5] = e5 /\ q[6] = e6 /\ q[7] = e7
      OBVIOUS
    <3> HIDE DEF q, t
    <3> QED  BY <3>1, <3>2
  <2> HIDE DEF q, t, S
  <2> t = q
    BY <2>1, <2>2, <2>3, <2>4, SeqEqual
  <2> QED  BY DEF t, q
<1>5. id \notin Payers
  BY DEF Payers, LendsAdmin
<1> HIDE DEF p, m, l
<1>6. Formed(id, p) /\ Formed(id, l)
  BY <1>2, <1>5, QuietFormed
<1> QED  BY <1>1, <1>3, <1>4, <1>6, FormedConcat

\* FundCic is sound.
LEMMA FundCicSound ==
  ASSUME NEW net
  PROVE  Sound(FundCic(net))
<1> DEFINE id == "fund_cic"
           e1 == Get({"ChefIncentivesController", "PrimeToken"})
           e2 == ExecFrom("reserve", "PrimeToken", "transfer", "allReserve")
           e3 == ExecFrom("owner", "ChefIncentivesController", "registerRewardDeposit", "allReserve")
           s == FundCic(net)
<1>1. s.id = id /\ s.once = TRUE /\ s.calls = <<e1, e2, e3>>
  BY DEF FundCic, Step
<1>2. QuietCall(e1)
  BY QuietCalls
<1>3. Homely(id, e2) /\ e2.op = "call" /\ e2.f = "transfer"
  <2>1. e2.op = "call" /\ e2.by = "reserve" /\ e2.f = "transfer" /\ e2.c = "PrimeToken" /\
    e2.x = "allReserve"
    BY FromFields
  <2> HIDE DEF e2
  <2> QED  BY <2>1 DEF Homely, Pays, Payers
<1>4. Homely(id, e3) /\ e3.op = "call" /\ e3.f = "registerRewardDeposit"
  <2>1. e3.op = "call" /\ e3.f = "registerRewardDeposit" /\ e3.x = "allReserve"
    BY FromFields
  <2> HIDE DEF e3
  <2> QED  BY <2>1 DEF Homely, Payers
<1>5. id \notin Payers /\ id \notin Marked
  BY DEF Payers, Marked, Conditional, Guarded
<1> HIDE DEF id, e1, e2, e3
<1>6. Fits(id, e1) /\ Fits(id, e2) /\ Fits(id, e3)
  BY <1>2, <1>3, <1>4, <1>5, QuietFits DEF Fits, AtHome, Lends
<1> HIDE DEF s
<1>7. Formed(id, s.calls)
  BY <1>1, <1>6, Tuple3, FormedStraight
<1>8. Special(s)
  BY <1>1, <1>5 DEF Special, Marked, Payers, Conditional, Guarded
<1> QED  BY <1>1, <1>7, <1>8 DEF Sound, s

\* A script without a mark.
LEMMA UnmarkedSound ==
  ASSUME NEW s, Formed(s.id, s.calls), s.id \notin Marked, s.once \in BOOLEAN
  PROVE  Sound(s)
  BY DEF Sound, Special, Marked, Payers, Conditional, Guarded

\* ArbiWsteth is sound.
LEMMA ArbiWstethSound ==
  ASSUME NEW net
  PROVE  Sound(ArbiWsteth(net))
<1> DEFINE id == "arbi_wsteth"
           first == If(net.chain = 42161 /\ ~Tag(net, "mocks"), <<Deploy("WSTETHOracle")>>)
           refs == MockRefs(net, "WSTETH")
           asset == DeployAsset("WSTETH", "WSTETH")
           s == ArbiWsteth(net)
<1>1. s.id = id /\ s.once = Listed(net) /\ s.calls = If(Listed(net), first \o refs \o asset)
  BY DEF ArbiWsteth, Plain
<1>2. id \in LendsAdmin /\ id \notin Payers /\ id \notin Marked
  BY DEF LendsAdmin, Payers, Marked, Conditional, Guarded
<1>3. AllQuiet(first) /\ AllQuiet(refs)
  <2>1. AllQuiet(<<Deploy("WSTETHOracle")>>) /\ AllQuiet(<<Get({"WSTETH", "WSTETH" \o "Aggregator"})>>)
    BY QuietCalls, Quiet1
  <2> QED  BY <2>1, QuietIf DEF MockRefs
<1> HIDE DEF id, first, refs
<1>4. Formed(id, first) /\ Formed(id, refs) /\ Formed(id, asset)
  BY <1>2, <1>3, QuietFormed, DeployAssetFormed
<1> HIDE DEF asset, s
<1>5. Formed(id, s.calls)
  BY <1>1, <1>4, FormedConcat, FormedIf
<1>6. s.once \in BOOLEAN
  BY <1>1 DEF Listed, Tag
<1> QED  BY <1>1, <1>2, <1>5, <1>6, UnmarkedSound DEF s

\* ArbiArb is sound.
LEMMA ArbiArbSound ==
  ASSUME NEW net
  PROVE  Sound(ArbiArb(net))
<1> DEFINE id == "arbi_arb"
           refs == MockRefs(net, "ARB")
           asset == DeployAsset("ARB", "ARB")
           s == ArbiArb(net)
<1>1. s.id = id /\ s.once = Listed(net) /\ s.calls = If(Listed(net), refs \o asset)
  BY DEF ArbiArb, Plain
<1>2. id \in LendsAdmin /\ id \notin Payers /\ id \notin Marked
  BY DEF LendsAdmin, Payers, Marked, Conditional, Guarded
<1>3. AllQuiet(refs)
  <2>1. AllQuiet(<<Get({"ARB", "ARB" \o "Aggregator"})>>)
    BY QuietCalls, Quiet1
  <2> QED  BY <2>1, QuietIf DEF MockRefs
<1> HIDE DEF id, refs
<1>4. Formed(id, refs) /\ Formed(id, asset)
  BY <1>2, <1>3, QuietFormed, DeployAssetFormed
<1> HIDE DEF asset, s
<1>5. Formed(id, s.calls)
  BY <1>1, <1>4, FormedConcat, FormedIf
<1>6. s.once \in BOOLEAN
  BY <1>1 DEF Listed, Tag
<1> QED  BY <1>1, <1>2, <1>5, <1>6, UnmarkedSound DEF s

\* PrntMarket is sound.
LEMMA PrntMarketSound ==
  ASSUME NEW net
  PROVE  Sound(PrntMarket(net))
<1> DEFINE id == "prnt_market"
           refs == <<Get({PrntOracle(net), "PrimeToken"})>>
           asset == DeployAsset("PRNT", "PRNT")
           s == PrntMarket(net)
<1>1. s.id = id /\ s.once = TRUE /\ s.calls = refs \o asset
  BY DEF PrntMarket, Plain
<1>2. id \in LendsAdmin /\ id \notin Payers /\ id \notin Marked
  BY DEF LendsAdmin, Payers, Marked, Conditional, Guarded
<1>3. AllQuiet(refs)
  BY QuietCalls, Quiet1
<1> HIDE DEF id, refs
<1>4. Formed(id, refs) /\ Formed(id, asset)
  BY <1>2, <1>3, QuietFormed, DeployAssetFormed
<1> HIDE DEF asset, s
<1>5. Formed(id, s.calls)
  BY <1>1, <1>4, FormedConcat
<1> QED  BY <1>1, <1>2, <1>5, UnmarkedSound DEF s

\* SetReserveFactor is sound.
LEMMA SetReserveFactorSound == Sound(SetReserveFactor) /\ SetReserveFactor.once = FALSE
<1> DEFINE id == "setReserveFactor"
           refs == Get({"LendingPoolAddressesProvider", "ATokensAndRatesHelper"})
           e4 == Signer("LendingPoolAddressesProvider", "setPoolAdmin", "ATokensAndRatesHelper")
           e5 == Signer("ATokensAndRatesHelper", "configureReserves", "core")
           e6 == Signer("LendingPoolAddressesProvider", "setPoolAdmin", "deployer")
           q == <<refs, e4, e5, e6>>
           p == <<refs>>
           m == <<e4, e5, e6>>
           s == SetReserveFactor
<1>1. s.id = id /\ s.once = FALSE /\ s.calls = q
  BY DEF SetReserveFactor, Job, Plain
<1>2. id \in LendsAdmin /\ id \notin Payers /\ id \notin Marked
  BY DEF LendsAdmin, Payers, Marked, Conditional, Guarded
<1>3. AllQuiet(p)
  BY QuietCalls, Quiet1
<1>4. Formed(id, m)
  <2>1. /\ e4.op = "call" /\ e4.f = "setPoolAdmin" /\ e4.x = "ATokensAndRatesHelper"
        /\ e5.op = "call" /\ e5.f = "configureReserves"
        /\ e6.op = "call" /\ e6.f = "setPoolAdmin" /\ e6.x = "deployer"
    BY SignerFields
  <2>2. e5.f \notin Watched /\ e5.f # "deposit"
    BY <2>1 DEF Watched
  <2> HIDE DEF e4, e5, e6, id
  <2> QED  BY <1>2, <2>1, <2>2, LoanFormed
<1> HIDE DEF refs, e4, e5, e6, id
<1>5. q = p \o m
  <2> DEFINE S == {refs, e4, e5, e6}
             t == p \o m
  <2>1. p \in Seq(S) /\ m \in Seq(S) /\ q \in Seq(S)
    OBVIOUS
  <2>2. t \in Seq(S)
    BY <2>1
  <2>3. Len(t) = 4 /\ Len(q) = 4
    OBVIOUS
  <2>4. \A i \in 1..4 : t[i] = q[i]
    <3>1. t[1] = refs /\ t[2] = e4 /\ t[3] = e5 /\ t[4] = e6
      OBVIOUS
    <3>2. q[1] = refs /\ q[2] = e4 /\ q[3] = e5 /\ q[4] = e6
      OBVIOUS
    <3> HIDE DEF q, t
    <3> QED  BY <3>1, <3>2
  <2> HIDE DEF q, t, S
  <2> t = q
    BY <2>1, <2>2, <2>3, <2>4, SeqEqual
  <2> QED  BY DEF t
<1> HIDE DEF p, m, q, s
<1>6. Formed(id, p)
  BY <1>2, <1>3, QuietFormed
<1>7. Formed(id, s.calls)
  BY <1>1, <1>4, <1>5, <1>6, FormedConcat
<1> QED  BY <1>1, <1>2, <1>7, UnmarkedSound DEF s

\* A list of quiet calls behind a test.
LEMMA QuietBehind ==
  ASSUME NEW id \in Conditional, id \notin Payers, NEW pre, NEW t, NEW x, NEW q, NEW block,
         AllQuiet(pre), AllQuiet(block), Behind(q, pre, t, x, block)
  PROVE  Formed(id, q)
<1>1. Formed(id, pre) /\ Formed(id, block)
  BY QuietFormed
<1>2. Formed(id, When(t, x, block))
  BY <1>1, FormedWhen
<1> QED  BY <1>1, <1>2, FormedConcat DEF Behind

\* WethMock is sound.
LEMMA WethMockSound ==
  ASSUME NEW net
  PROVE  Sound(WethMock(net))
<1> DEFINE id == "weth"
           pre == <<Deploy("WETH")>>
           block == <<ExecArg("WETH", "mint", "supply")>>
           last == <<Deploy("WETHAggregator")>>
           s == WethMock(net)
<1>1. s.id = id /\ s.once = FALSE
      /\ s.calls = If(Tag(net, "mocks"), pre \o When("fresh", "", block) \o last)
  BY DEF WethMock, Step
<1>2. AllQuiet(pre) /\ AllQuiet(block) /\ AllQuiet(last)
  BY QuietCalls, Quiet1 DEF ExecArg, Watched
<1>3. id \in Conditional /\ id \notin Payers
  BY DEF Payers, Conditional
<1> HIDE DEF id, pre, block, last, s
<1>4. Formed(id, pre \o When("fresh", "", block))
  BY <1>2, <1>3, QuietBehind DEF Behind
<1>5. Formed(id, last)
  BY <1>2, <1>3, QuietFormed
<1>6. Formed(id, s.calls)
  BY <1>1, <1>4, <1>5, FormedConcat, FormedIf
<1>7. Special(s)
  BY <1>1 DEF Special, id
<1> QED  BY <1>1, <1>6, <1>7 DEF Sound, s

\* DeployPrntOracle is sound.
LEMMA DeployPrntOracleSound ==
  ASSUME NEW net
  PROVE  Sound(DeployPrntOracle(net))
<1> DEFINE id == "deploy_prnt_oracle"
           first == <<Get({"PoolHelper", "PrimeToken"})>>
           pre == DeployAll(<<"UniV3TwapOracle", "UniV2TwapOracle">>)
           block == <<Exec("UniV3TwapOracle", "setFallback"), Exec("UniV2TwapOracle", "update")>>
           two == <<Deploy("UniV2TwapOracle")>>
           cl == <<Get({"ChainlinkAdapterPRNT", "ChainlinkAdapterWETH"}),
                   Deploy("PrimeChainlinkOracle")>>
           s == DeployPrntOracle(net)
<1>1. s.id = id /\ s.once = FALSE
      /\ s.calls = first \o If(Tag(net, "oracle_v3"), pre \o When("fresh", "", block))
                   \o If(Tag(net, "oracle_v2"), two) \o If(Tag(net, "oracle_cl"), cl)
  BY DEF DeployPrntOracle, Step
<1>2. AllQuiet(first) /\ AllQuiet(block) /\ AllQuiet(two) /\ AllQuiet(cl)
  BY QuietCalls, Quiet1, Quiet2 DEF Exec, Watched
<1>3. AllQuiet(pre)
  <2>1. DOMAIN <<"UniV3TwapOracle", "UniV2TwapOracle">> = 1..2
    OBVIOUS
  <2> QED  BY <2>1, DeployAllQuiet
<1>4. id \in Conditional /\ id \notin Payers
  BY DEF Payers, Conditional
<1> HIDE DEF id, first, pre, block, two, cl, s
<1>5. Formed(id, pre \o When("fresh", "", block))
  BY <1>2, <1>3, <1>4, QuietBehind DEF Behind
<1>6. Formed(id, first) /\ Formed(id, two) /\ Formed(id, cl)
  BY <1>2, <1>4, QuietFormed
<1>7. Formed(id, s.calls)
  BY <1>1, <1>5, <1>6, FormedConcat, FormedIf
<1>8. Special(s)
  BY <1>1 DEF Special, id
<1> QED  BY <1>1, <1>7, <1>8 DEF Sound, s

\* A concatenation of finitely many well-formed lists.
LEMMA FormedFlat ==
  ASSUME NEW id, NEW n \in Nat, NEW D, D = 1..n, NEW parts, parts = [i \in D |-> parts[i]],
         \A i \in D : Formed(id, parts[i])
  PROVE  Formed(id, FlattenSeq(parts))
<1> DEFINE S == UNION {ToSet(parts[i]) : i \in D}
<1>1. \A i \in D : ToSet(parts[i]) \subseteq S
  OBVIOUS
<1> HIDE DEF S
<1>2. \A i \in D : parts[i] \in Seq(S)
  BY <1>1, SeqMonotonic DEF IsList, Formed
<1>3. parts \in Seq(Seq(S)) /\ Len(parts) = n
  BY <1>2, SeqFromTo
<1>4. PICK f : IsFlatTable(f, parts, S) /\ FlattenSeq(parts) = f[Len(parts)]
  BY <1>3, FlatTable
<1> DEFINE Good == {q \in Seq(S) : Formed(id, q)}
<1>5. f[0] \in Good
  <2>1. 0 \in 0..n
    OBVIOUS
  <2> QED  BY <1>3, <1>4, <2>1, FormedNone DEF IsFlatTable
<1>6. \A i \in 1..n : f[i - 1] \in Good => f[i] \in Good
  <2> SUFFICES ASSUME NEW i \in 1..n, f[i - 1] \in Good PROVE f[i] \in Good
    OBVIOUS
  <2>1. f[i] = f[i - 1] \o parts[i] /\ f[i] \in Seq(S)
    <3>1. i \in 0..n
      OBVIOUS
    <3> QED  BY <1>3, <1>4, <3>1 DEF IsFlatTable
  <2>2. Formed(id, f[i - 1] \o parts[i])
    BY FormedConcat
  <2> QED  BY <2>1, <2>2
<1> HIDE DEF Good
<1>7. \A i \in 0..n : f[i] \in Good
  BY <1>5, <1>6, LoopKeeps
<1>8. n \in 0..n
  OBVIOUS
<1> QED  BY <1>3, <1>4, <1>7, <1>8 DEF Good

\* AssetsMock is sound.
LEMMA AssetsMockSound ==
  ASSUME NEW net
  PROVE  Sound(AssetsMock(net))
<1> DEFINE id == "assets"
           Block(a) == <<Deploy(a), Deploy(a \o "Aggregator"), Get({"UniswapV2Router02"}),
                         Exec(a, "mint"), ExecArg("WETH", "mint", a),
                         ExecArg("WETH", "approve", "router"), ExecArg(a, "approve", "router"),
                         ExecArg("UniswapV2Router02", "addLiquidity", a)>>
           names == Tail(MockAssets)
           parts == [i \in DOMAIN names |-> When("missing", names[i], Block(names[i]))]
           s == AssetsMock(net)
<1>1. s.id = id /\ s.once = FALSE /\ s.calls = If(Tag(net, "mocks"), FlattenSeq(parts))
  BY DEF AssetsMock, Step, Each
<1>2. PICK n \in Nat : DOMAIN names = 1..n
  BY OtherAssets
<1>3. ASSUME NEW a PROVE AllQuiet(Block(a))
  BY QuietCalls, Quiet8 DEF Exec, ExecArg, Watched
<1>4. id \in Conditional /\ id \notin Payers
  BY DEF Payers, Conditional
<1> HIDE DEF id, Block, names, s
<1>5. ASSUME NEW a PROVE Formed(id, When("missing", a, Block(a)))
  <2>1. Formed(id, Block(a))
    BY <1>3, <1>4, QuietFormed
  <2> QED  BY <1>4, <2>1, FormedWhen
<1>6. DOMAIN parts = 1..n /\ parts = [i \in 1..n |-> parts[i]] /\ \A i \in 1..n : Formed(id, parts[i])
  BY <1>2, <1>5
<1> HIDE DEF parts
<1>7. Formed(id, FlattenSeq(parts))
  BY <1>6, FormedFlat
<1>8. Formed(id, s.calls)
  BY <1>1, <1>7, FormedIf
<1>9. Special(s)
  BY <1>1 DEF Special, id
<1> QED  BY <1>1, <1>8, <1>9 DEF Sound, s

\* ConfigureMarkets is sound.
LEMMA ConfigureMarketsSound ==
  ASSUME NEW net
  PROVE  Sound(ConfigureMarkets(net))
<1> DEFINE id == "configure_markets"
           Provider(f, x) == ExecArg("LendingPoolAddressesProvider", f, x)
           first == <<Get({"MiddleFeeDistribution", "LendingPoolAddressesProvider", "AToken",
                           "StableDebtToken", "VariableDebtToken", "LendingPool",
                             "ChefIncentivesController"}),
                      Deploy("ATokensAndRatesHelper")>>
           parts == [i \in DOMAIN Tokens |-> <<Deploy("rateStrategy" \o Tokens[i])>>]
           rates == FlattenSeq(parts)
           pre == first \o rates \o TokenRefs(net)
           e1 == ExecArg("MiddleFeeDistribution", "setAdmin", "LendingPoolConfigurator")
           e2 == Signer("LendingPoolConfigurator", "batchInitReserve", "core")
           e3 == Get({"ATokensAndRatesHelper", "AaveProtocolDataProvider"})
           e4 == Provider("setPoolAdmin", "ATokensAndRatesHelper")
           e5 == ExecArg("ATokensAndRatesHelper", "configureReserves", "core")
           e6 == Provider("setPoolAdmin", "deployer")
           e7 == Deploy("LendingPoolCollateralManager")
           e8 == Provider("setLendingPoolCollateralManager", "")
           e9 == Provider("setAddress", "dataProvider")
           block == <<e1, e2, e3, e4, e5, e6, e7, e8, e9>>
           s == ConfigureMarkets(net)
<1>1. s.id = id /\ s.once = TRUE /\ s.req = {"lending"}
      /\ s.calls = first \o rates \o TokenRefs(net) \o When("adminIsDeployer", "", block)
  BY DEF ConfigureMarkets, Step, Each
<1>2. AllQuiet(pre)
  <2>1. AllQuiet(first)
    BY QuietCalls, Quiet2
  <2>2. parts = [i \in 1..2 |-> parts[i]] /\ \A i \in 1..2 : AllQuiet(parts[i])
    BY TwoTokens, QuietCalls, Quiet1
  <2> HIDE DEF first, parts
  <2>3. AllQuiet(rates)
    BY <2>2, QuietFlat
  <2> HIDE DEF rates
  <2> QED  BY <2>1, <2>3, QuietRefs, QuietConcat
<1>3. id \in Guarded /\ id \in LendsAdmin /\ id \notin Payers
  BY DEF Guarded, Payers, LendsAdmin
<1>4. Formed(id, <<e4, e5, e6>>)
  <2>1. /\ e4.op = "call" /\ e4.f = "setPoolAdmin" /\ e4.x = "ATokensAndRatesHelper"
        /\ e5.op = "call" /\ e5.f = "configureReserves"
        /\ e6.op = "call" /\ e6.f = "setPoolAdmin" /\ e6.x = "deployer"
    BY ArgFields
  <2>2. e5.f \notin Watched /\ e5.f # "deposit"
    BY <2>1 DEF Watched
  <2> HIDE DEF e4, e5, e6, id
  <2> QED  BY <1>3, <2>1, <2>2, LoanFormed
<1>5. QuietCall(e2) /\ QuietCall(e3) /\ QuietCall(e7) /\ QuietCall(e8) /\ QuietCall(e9)
  BY QuietCalls DEF Signer, ExecArg, Watched
<1>6. Fits(id, e1)
  <2>1. e1.op = "call" /\ e1.f = "setAdmin" /\ e1.c = "MiddleFeeDistribution"
    BY ArgFields
  <2> HIDE DEF e1
  <2>2. Homely(id, e1)
    BY <2>1 DEF Homely, Payers
  <2> QED  BY <2>1, <2>2 DEF Fits, AtHome, Lends
<1> DEFINE p == <<e1, e2, e3>>  m == <<e4, e5, e6>>  l == <<e7, e8, e9>>  f5 == e5
<1>7. f5 = ExecArg("ATokensAndRatesHelper", "configureReserves", "core")
  OBVIOUS
<1>8. f5 = e5
  OBVIOUS
<1>9. Len(block) = 9 /\ IsList(block) /\ ToSet(block) = {e1, e2, e3, e4, e5, e6, e7, e8, e9}
  <2> HIDE DEF e1, e2, e3, e4, e5, e6, e7, e8, e9
  <2> QED  BY Tuple9
<1> HIDE DEF id, pre, e1, e2, e3, e4, e5, e6, e7, e8, e9, first, rates, f5
<1>10. block = p \o m \o l
  <2> DEFINE S == {e1, e2, e3, e4, e5, e6, e7, e8, e9}
             t == p \o m \o l
  <2>1. p \in Seq(S) /\ m \in Seq(S) /\ l \in Seq(S) /\ block \in Seq(S)
    OBVIOUS
  <2>2. t \in Seq(S)
    BY <2>1
  <2>3. Len(t) = 9 /\ Len(block) = 9
    OBVIOUS
  <2>4. \A i \in 1..9 : t[i] = block[i]
    <3>1. /\ t[1] = e1 /\ t[2] = e2 /\ t[3] = e3 /\ t[4] = e4 /\ t[5] = e5 /\ t[6] = e6
          /\ t[7] = e7 /\ t[8] = e8 /\ t[9] = e9
      OBVIOUS
    <3>2. /\ block[1] = e1 /\ block[2] = e2 /\ block[3] = e3 /\ block[4] = e4 /\ block[5] = e5
          /\ block[6] = e6 /\ block[7] = e7 /\ block[8] = e8 /\ block[9] = e9
      OBVIOUS
    <3> HIDE DEF block, t
    <3> QED  BY <3>1, <3>2
  <2> HIDE DEF block, t, S, p, m, l
  <2> block = t
    BY <2>1, <2>2, <2>3, <2>4, SeqEqual
  <2> QED  BY DEF t
<1>11. Formed(id, block)
  <2>1. Fits(id, e2) /\ Fits(id, e3) /\ Fits(id, e7) /\ Fits(id, e8) /\ Fits(id, e9)
    BY <1>3, <1>5, QuietFits
  <2>2. Formed(id, p) /\ Formed(id, l)
    BY <1>6, <2>1, Tuple3, FormedStraight
  <2> HIDE DEF p, m, l, block
  <2>3. Formed(id, m)
    BY <1>4 DEF m
  <2> QED  BY <1>10, <2>2, <2>3, FormedConcat
<1>12. \A j \in 1..Len(block) : block[j].op # "when"
  <2>2. e4.op = "call" /\ e6.op = "call" /\ e5.op = "call"
    BY ArgFields DEF e4, e5, e6
  <2>3. \A k \in {e1, e2, e3, e4, e5, e6, e7, e8, e9} : k.op # "when"
    BY <1>5, <1>6, <2>2 DEF QuietCall, Fits
  <2> HIDE DEF block
  <2> QED  BY <1>9, <2>3, ListDomain
<1> HIDE DEF block, s
<1>13. Formed(id, pre)
  BY <1>2, <1>3, QuietFormed
<1>14. Formed(id, s.calls) /\ Guards(s.calls, "adminIsDeployer") /\
  ToSet(block) \subseteq ToSet(s.calls)
  <2>1. PICK x : Behind(s.calls, pre, "adminIsDeployer", x, block)
    <3>1. \A x : first \o rates \o TokenRefs(net) \o x = pre \o x
      BY Zenon DEF pre
    <3> QED  BY <1>1, <3>1, Zenon DEF Behind
  <2> QED  BY <2>1, <1>2, <1>3, <1>11, <1>12, <1>13, GuardFormed
<1>15. f5 \in ToSet(s.calls)
  BY <1>8, <1>9, <1>14
<1>16. Special(s)
  BY <1>1, <1>7, <1>14, <1>15 DEF Special, id, Conditional, Guarded
<1> QED  BY <1>1, <1>14, <1>16 DEF Sound, s

\* The calls that open the pool.
Opening(block, obtain, x1, x2, x3, zap) == block = obtain \o <<x1, x2, x3>> \o zap

\* The calls of the block, by their place.
LEMMA OpeningCalls ==
  ASSUME NEW obtain, NEW zap, IsList(obtain), IsList(zap), NEW x1, NEW x2, NEW x3,
         NEW block, Opening(block, obtain, x1, x2, x3, zap)
  PROVE  LET b == Len(obtain)  c == Len(zap) IN
         /\ IsList(block) /\ Len(block) = b + 3 + c /\ b \in Nat /\ c \in Nat
         /\ block[b + 1] = x1 /\ block[b + 2] = x2 /\ block[b + 3] = x3
         /\ \A i \in 1..b : block[i] = obtain[i]
         /\ \A i \in 1..c : block[b + 3 + i] = zap[i]
<1> DEFINE three == <<x1, x2, x3>>  p == obtain \o three  b == Len(obtain)  c == Len(zap)
<1>2. block = p \o zap
  BY DEF Opening
<1> HIDE DEF three, p, b, c
<1>1. IsList(three) /\ Len(three) = 3 /\ three[1] = x1 /\ three[2] = x2 /\ three[3] = x3
  BY Tuple3 DEF three
<1>21. IsList(obtain) /\ IsList(three)
  BY <1>1
<1> USE DEF b, c
<1>3. /\ IsList(p) /\ Len(p) = b + 3
      /\ \A i \in 1..b : p[i] = obtain[i]
      /\ \A i \in 1..3 : p[b + i] = three[i]
  <2>1. /\ IsList(obtain \o three) /\ ToSet(obtain \o three) = ToSet(obtain) \cup ToSet(three)
        /\ Len(obtain \o three) = Len(obtain) + Len(three)
        /\ \A i \in 1..Len(obtain) : (obtain \o three)[i] = obtain[i]
        /\ \A i \in 1..Len(three) : (obtain \o three)[Len(obtain) + i] = three[i]
    <3> HIDE DEF b, c
    <3> QED  BY <1>21, ListConcat
  <2> QED  BY <1>1, <2>1 DEF p
<1>4. /\ IsList(block) /\ Len(block) = (b + 3) + c
      /\ \A i \in 1..(b + 3) : block[i] = p[i]
      /\ \A i \in 1..c : block[(b + 3) + i] = zap[i]
  <2>1. /\ IsList(p \o zap)
        /\ Len(p \o zap) = Len(p) + Len(zap)
        /\ \A i \in 1..Len(p) : (p \o zap)[i] = p[i]
        /\ \A i \in 1..Len(zap) : (p \o zap)[Len(p) + i] = zap[i]
    BY <1>3, ListConcat
  <2> QED  BY <1>2, <1>3, <2>1
<1>5. b \in Nat /\ c \in Nat
  BY ListDomain
<1> HIDE DEF b, c
<1>6. b + 1 \in 1..(b + 3) /\ b + 2 \in 1..(b + 3) /\ b + 3 \in 1..(b + 3) /\ 1 \in 1..3 /\
  2 \in 1..3 /\ 3 \in 1..3
      /\ \A i \in 1..b : i \in 1..(b + 3)
  BY <1>5
<1>7. block[b + 1] = x1 /\ block[b + 2] = x2 /\ block[b + 3] = x3
  BY <1>1, <1>3, <1>4, <1>6
<1>8. \A i \in 1..b : block[i] = obtain[i]
  BY <1>3, <1>4, <1>6
<1>9. \A i \in 1..c : block[b + 3 + i] = zap[i]
  BY <1>4, <1>5
<1> QED  BY <1>4, <1>5, <1>7, <1>8, <1>9 DEF b, c

\* A test and the one call it guards.
LEMMA OneBehind ==
  ASSUME NEW id \in Conditional, NEW t, NEW x, NEW d, Formed(id, <<d>>), NEW q, q = When(t, x, <<d>>)
  PROVE  /\ Formed(id, q) /\ Len(q) = 2 /\ q[2] = d
         /\ q[1].op = "when" /\ q[1].n = 1 /\ q[1].test = t
<1> DEFINE p == <<d>>  e == [op |-> "when", test |-> t, x |-> x, n |-> Len(p)]
<1>1. Len(p) = 1 /\ p[1] = d
  OBVIOUS
<1>2. e.op = "when" /\ e.test = t /\ e.n = 1
  BY <1>1
<1> HIDE DEF p
<1>3. Formed(id, p) /\ q = When(t, x, p)
  BY DEF p
<1>4. /\ Formed(id, When(t, x, p)) /\ Len(When(t, x, p)) = Len(p) + 1
      /\ \A i \in 1..Len(p) : When(t, x, p)[i + 1] = p[i]
      /\ When(t, x, p)[1] = [op |-> "when", test |-> t, x |-> x, n |-> Len(p)]
  BY <1>3, FormedWhen
<1>5. 1 \in 1..1 /\ 1 + 1 = 2
  OBVIOUS
<1> QED  BY <1>1, <1>2, <1>3, <1>4, <1>5

\* ConfigureLp is sound.
LEMMA ConfigureLpSound ==
  ASSUME NEW net
  PROVE  Sound(ConfigureLp(net))
<1> DEFINE id == "configure_lp"
           pre == <<Get({"PoolHelper", "PrimeToken"})>>
           d == ExecArg("Base", "deposit", "")
           lacks == When("lacksBase", "", <<d>>)
           w == lacks[1]
           obtain == IF net.uniswap /\ ~Tag(net, "mocks") THEN lacks ELSE <<d>>
           x1 == Signer("Base", "transfer", "PoolHelper")
           x2 == ExecArg("PrimeToken", "transfer", "PoolHelper")
           x3 == Exec("PoolHelper", "initializePool")
           z1 == Exec("LiquidityZap", "initLiquidityZap")
           z2 == Exec("LiquidityZap", "setAcceptableRatio")
           zap == If(net.uniswap, <<z1, z2>>)
           block == obtain \o <<x1, x2, x3>> \o zap
           s == ConfigureLp(net)
<1>1. s.id = id /\ s.once = TRUE /\ s.calls = pre \o When("poolNotInitialized", "", block)
  BY DEF ConfigureLp, Step
<1>2. AllQuiet(pre)
  BY QuietCalls, Quiet1
<1>3. id \in Guarded /\ id \in Conditional
  BY DEF Guarded, Conditional
<1>4. Formed(id, pre) /\ pre[1].op = "get"
  <2> DEFINE g == Get({"PoolHelper", "PrimeToken"})
  <2>1. g.op = "get" /\ QuietCall(g)
    BY QuietCalls DEF Get
  <2> HIDE DEF g
  <2>2. Fits(id, g)
    BY <2>1, QuietFits
  <2> QED  BY <2>1, <2>2, Formed1 DEF g
<1>5. Fits(id, d) /\ d.op = "call" /\ d.f = "deposit" /\ d.c = "Base"
  <2>0. PICK x : d = ExecArg("Base", "deposit", x)
    BY Zenon
  <2> HIDE DEF d, lacks, w, obtain, block
  <2>1. d.op = "call" /\ d.by = "opts" /\ d.f = "deposit" /\ d.c = "Base"
    BY <2>0, ArgFields
  <2>2. Homely(id, d)
    BY <2>1 DEF Homely
  <2> QED  BY <2>1, <2>2 DEF Fits, AtHome, Lends
<1>6. Fits(id, x1) /\ x1.op = "call" /\ x1.f = "transfer"
  <2>1. x1.op = "call" /\ x1.by = "signer" /\ x1.f = "transfer" /\ x1.c = "Base"
    BY SignerFields
  <2> HIDE DEF x1
  <2>2. Homely(id, x1)
    BY <2>1 DEF Homely
  <2> QED  BY <2>1, <2>2 DEF Fits, AtHome, Lends
<1>7. Fits(id, x2) /\ x2.op = "call" /\ x2.f = "transfer"
  <2>1. x2.op = "call" /\ x2.by = "opts" /\ x2.f = "transfer" /\ x2.c = "PrimeToken" /\
    x2.x = "PoolHelper"
    BY ArgFields
  <2> HIDE DEF x2
  <2>2. Homely(id, x2)
    BY <2>1 DEF Homely, Pays
  <2> QED  BY <2>1, <2>2 DEF Fits, AtHome, Lends
<1>8. Fits(id, x3) /\ x3.op = "call" /\ x3.f = "initializePool"
  <2>1. x3.op = "call" /\ x3.by = "opts" /\ x3.f = "initializePool" /\ x3.c = "PoolHelper"
    BY ExecFields
  <2> HIDE DEF x3
  <2>2. Homely(id, x3)
    BY <2>1 DEF Homely
  <2> QED  BY <2>1, <2>2 DEF Fits, AtHome, Lends
<1>9. Fits(id, z1) /\ Fits(id, z2) /\ z1.op = "call" /\ z2.op = "call" /\ z1.f \notin {"transfer",
  "initializePool"}
      /\ z2.f \notin {"transfer", "initializePool"}
  <2>1. z1.op = "call" /\ z2.op = "call" /\ z1.by = "opts" /\ z2.by = "opts"
        /\ z1.f = "initLiquidityZap" /\ z2.f = "setAcceptableRatio"
    BY ExecFields
  <2> HIDE DEF z1, z2, id
  <2>2. Fits(id, z1) /\ Fits(id, z2)
    BY <2>1, PlainFits DEF Watched
  <2> QED  BY <2>1, <2>2

<1> DEFINE f1 == x1  f2 == x2  f3 == x3
<1>11. /\ f1 = Signer("Base", "transfer", "PoolHelper")
       /\ f2 = ExecArg("PrimeToken", "transfer", "PoolHelper")
       /\ f3 = Exec("PoolHelper", "initializePool")
       /\ f1 = x1 /\ f2 = x2 /\ f3 = x3
  OBVIOUS
<1>10. PICK x : lacks = When("lacksBase", x, <<d>>)
  BY Zenon
<1> HIDE DEF id, pre, d, lacks, x1, x2, x3, z1, z2, f1, f2, f3
<1>12. Formed(id, <<d>>)
  BY <1>5, Formed1
<1>131. /\ Formed(id, lacks) /\ Len(lacks) = 2 /\ lacks[2] = d
        /\ lacks[1].op = "when" /\ lacks[1].n = 1 /\ lacks[1].test = "lacksBase"
  BY <1>3, <1>10, <1>12, OneBehind
<1>13. /\ Formed(id, lacks) /\ Len(lacks) = 2 /\ lacks[2] = d
       /\ w.op = "when" /\ w.n = 1 /\ w.test = "lacksBase"
  BY <1>131
<1> HIDE DEF w
\* What comes before the two payments.
<1>14. /\ Formed(id, obtain) /\ Len(obtain) \in 1..2
       /\ obtain[Len(obtain)] = d /\ (Len(obtain) = 2 => obtain[1] = w)
  <2>1. Len(<<d>>) = 1 /\ <<d>>[1] = d
    OBVIOUS
  <2>2. lacks[1] = w
    BY DEF w
  <2>3. CASE obtain = <<d>>
    <3> HIDE DEF obtain
    <3> QED  BY <1>12, <2>1, <2>3
  <2>4. CASE obtain = lacks
    <3>1. 2 \in 1..2
      OBVIOUS
    <3>2. Formed(id, lacks) /\ Len(lacks) \in 1..2 /\ lacks[Len(lacks)] = d
          /\ (Len(lacks) = 2 => lacks[1] = w)
      BY <1>13, <2>2, <3>1
    <3> HIDE DEF obtain
    <3> QED  BY <2>4, <3>2
  <2> QED  BY <2>3, <2>4
\* What comes zap.
<1>15. /\ Formed(id, zap) /\ Len(zap) \in {0, 2}
       /\ \A i \in 1..Len(zap) : zap[i] \in {z1, z2}
  <2>1. Formed(id, <<z1, z2>>) /\ Len(<<z1, z2>>) = 2 /\ <<z1, z2>>[1] = z1 /\ <<z1, z2>>[2] = z2
    BY <1>9, Tuple2, FormedStraight
  <2>2. Formed(id, <<>>) /\ Len(<<>>) = 0
    BY FormedNone
  <2>3. CASE zap = <<z1, z2>>
    <3> HIDE DEF zap
    <3> QED  BY <2>1, <2>3
  <2>4. CASE zap = <<>>
    <3> HIDE DEF zap
    <3> QED  BY <2>2, <2>4
  <2> QED  BY <2>3, <2>4 DEF If
<1> DEFINE b == Len(obtain)  c == Len(zap)  q == s.calls
<1>16. IsList(obtain) /\ IsList(zap)
  BY <1>14, <1>15 DEF Formed
<1>17. Opening(block, obtain, x1, x2, x3, zap)
  BY DEF Opening
<1> HIDE DEF obtain, zap, block, s, q, b, c
<1>18. /\ IsList(block) /\ Len(block) = b + 3 + c /\ b \in Nat /\ c \in Nat
       /\ block[b + 1] = x1 /\ block[b + 2] = x2 /\ block[b + 3] = x3
       /\ \A i \in 1..b : block[i] = obtain[i]
       /\ \A i \in 1..c : block[b + 3 + i] = zap[i]
  BY <1>16, <1>17, OpeningCalls DEF b, c
<1>19. Formed(id, block)
  <2> DEFINE three == <<x1, x2, x3>>
  <2>1. Formed(id, three)
    BY <1>6, <1>7, <1>8, Tuple3, FormedStraight
  <2> HIDE DEF three
  <2> QED  BY <1>14, <1>15, <1>17, <2>1, FormedConcat DEF three, Opening
<1>20. b \in 1..2 /\ c \in {0, 2} /\ block[b] = d /\ (b = 2 => block[1] = w)
  <2>1. b \in 1..b /\ (b = 2 => 1 \in 1..b)
    BY <1>14 DEF b
  <2> QED  BY <1>14, <1>15, <1>18, <2>1 DEF b, c
\* Where each call is.
<1>21. \A i \in 1..Len(block) : \/ i = b /\ block[i] = d
                                \/ i = 1 /\ b = 2 /\ block[i] = w
                                \/ i = b + 1 /\ block[i] = x1
                                \/ i = b + 2 /\ block[i] = x2
                                \/ i = b + 3 /\ block[i] = x3
                                \/ i > b + 3 /\ block[i] \in {z1, z2}
  <2> TAKE i \in 1..Len(block)
  <2>1. CASE i <= b
    BY <1>20, <2>1
  <2>2. CASE i \in (b + 1)..(b + 3)
    BY <1>18, <1>20, <2>2
  <2>3. CASE i > b + 3
    <3> DEFINE k == i - (b + 3)
    <3>1. k \in 1..c /\ b + 3 + k = i
      BY <1>18, <1>20, <2>3
    <3> HIDE DEF k
    <3> QED  BY <1>15, <1>18, <2>3, <3>1 DEF c
  <2> QED  BY <1>18, <1>20, <2>1, <2>2, <2>3
<1>22. Inner(block)
  <2> SUFFICES ASSUME NEW i \in 1..Len(block), block[i].op = "when"
               PROVE  block[i].n = 1 /\ i + 1 <= Len(block) /\ block[i + 1].op = "call" /\
                        block[i + 1].c = "Base"
    BY DEF Inner
  <2>1. i = 1 /\ b = 2 /\ block[i] = w
    BY <1>5, <1>6, <1>7, <1>8, <1>9, <1>21
  <2>2. i + 1 = b /\ i + 1 <= Len(block)
    BY <1>18, <1>20, <2>1
  <2> QED  BY <1>5, <1>13, <1>20, <2>1, <2>2
<1>23. PICK y : Behind(q, pre, "poolNotInitialized", y, block)
  BY <1>1, Zenon DEF Behind, q
<1>24. /\ Formed(id, q) /\ Guards(q, "poolNotInitialized") /\ ToSet(block) \subseteq ToSet(q)
       /\ Len(pre) \in Nat /\ Len(block) \in Nat /\ Len(q) = Len(pre) + 1 + Len(block)
       /\ \A i \in 1..Len(pre) : q[i] = pre[i]
       /\ q[Len(pre) + 1].op = "when" /\ q[Len(pre) + 1].test = "poolNotInitialized" /\
            q[Len(pre) + 1].n = Len(block)
       /\ \A i \in 1..Len(block) : q[Len(pre) + 1 + i] = block[i]
  BY <1>2, <1>3, <1>4, <1>19, <1>22, <1>23, GuardList
<1>25. Len(pre) = 1
  BY DEF pre
<1>26. \A j \in 1..Len(q) : \/ j = 1 /\ q[j].op = "get"
                            \/ j = 2 /\ q[j].op = "when" /\ q[j].test = "poolNotInitialized" /\
                                 q[j].n = Len(block)
                            \/ j - 2 \in 1..Len(block) /\ q[j] = block[j - 2]
  <2> TAKE j \in 1..Len(q)
  <2>1. CASE j = 1
    <3>1. 1 \in 1..1
      OBVIOUS
    <3> QED  BY <1>4, <1>24, <1>25, <2>1, <3>1
  <2>2. CASE j = 2
    BY <1>24, <1>25, <2>2
  <2>3. CASE j > 2
    <3>1. j - 2 \in 1..Len(block) /\ Len(pre) + 1 + (j - 2) = j
      BY <1>24, <1>25, <2>3
    <3> QED  BY <1>24, <3>1
  <2> QED  BY <2>1, <2>2, <2>3
<1>27. Opens(q, b + 3)
  <2>1. b + 3 \in 1..Len(q) /\ (b + 3) + 2 <= Len(q) /\ Len(q) = b + 5 + c
    BY <1>18, <1>20, <1>24, <1>25
  <2>2. q[b + 3] = f1 /\ q[(b + 3) + 1] = f2 /\ q[(b + 3) + 2] = f3
    <3>1. b + 1 \in 1..Len(block) /\ b + 2 \in 1..Len(block) /\ b + 3 \in 1..Len(block)
      BY <1>18, <1>20
    <3>2. Len(pre) + 1 + (b + 1) = b + 3 /\ Len(pre) + 1 + (b + 2) = (b + 3) + 1 /\
      Len(pre) + 1 + (b + 3) = (b + 3) + 2
      BY <1>20, <1>25
    <3>3. q[Len(pre) + 1 + (b + 1)] = block[b + 1] /\ q[Len(pre) + 1 + (b + 2)] = block[b + 2]
          /\ q[Len(pre) + 1 + (b + 3)] = block[b + 3]
      BY <1>24, <3>1
    <3> QED  BY <1>11, <1>18, <3>2, <3>3
  <2>3. ASSUME NEW j \in 1..Len(q)
        PROVE  /\ q[j].op = "call" /\ (q[j].f = "initializePool" \/ q[j].f = "transfer") =>
                    j \in {b + 3, (b + 3) + 1, (b + 3) + 2}
               /\ q[j].op = "when" => j < b + 3 /\ (j + q[j].n < b + 3
                    \/ (j + q[j].n = Len(q) /\ q[j].test = "poolNotInitialized"))
    <3>1. CASE j = 1 /\ q[j].op = "get"
      BY <3>1
    <3>2. CASE j = 2 /\ q[j].op = "when" /\ q[j].test = "poolNotInitialized" /\ q[j].n = Len(block)
      BY <1>20, <1>24, <1>25, <3>2
    <3> DEFINE Goal == /\ (q[j].op = "call" /\ (q[j].f = "initializePool" \/ q[j].f = "transfer")) =>
                            j \in {b + 3, (b + 3) + 1, (b + 3) + 2}
                       /\ q[j].op = "when" => (j < b + 3 /\ (j + q[j].n < b + 3
                            \/ (j + q[j].n = Len(q) /\ q[j].test = "poolNotInitialized")))
    <3>3. CASE j - 2 \in 1..Len(block) /\ q[j] = block[j - 2]
      <4> DEFINE i == j - 2
      <4>0. i \in 1..Len(block) /\ q[j] = block[i] /\ j = i + 2
        BY <3>3
      <4> HIDE DEF i, Goal
      <4>1. i = b /\ block[i] = d => Goal
        BY <1>5, <1>20, <4>0 DEF Goal
      <4>2. i = 1 /\ b = 2 /\ block[i] = w => Goal
        BY <1>13, <4>0 DEF Goal
      <4>3. ASSUME (i = b + 1 /\ block[i] = x1) \/ (i = b + 2 /\ block[i] = x2) \/ (i = b + 3 /\
                     block[i] = x3)
            PROVE  Goal
        <5>1. j \in {b + 3, (b + 3) + 1, (b + 3) + 2}
          BY <1>20, <4>0, <4>3
        <5>2. q[j].op # "when"
          BY <1>6, <1>7, <1>8, <4>0, <4>3
        <5> QED  BY <5>1, <5>2 DEF Goal
      <4>4. i > b + 3 /\ block[i] \in {z1, z2} => Goal
        BY <1>9, <4>0 DEF Goal
      <4>5. \/ i = b /\ block[i] = d
            \/ i = 1 /\ b = 2 /\ block[i] = w
            \/ i = b + 1 /\ block[i] = x1
            \/ i = b + 2 /\ block[i] = x2
            \/ i = b + 3 /\ block[i] = x3
            \/ i > b + 3 /\ block[i] \in {z1, z2}
        BY <1>21, <4>0
      <4>6. Goal
        BY <4>1, <4>2, <4>3, <4>4, <4>5
      <4> QED  BY <4>6 DEF Goal
    <3> QED  BY <1>26, <3>1, <3>2, <3>3
  <2>4. q[b + 3] = Signer("Base", "transfer", "PoolHelper")
        /\ q[(b + 3) + 1] = ExecArg("PrimeToken", "transfer", "PoolHelper")
        /\ q[(b + 3) + 2] = Exec("PoolHelper", "initializePool")
    BY <1>11, <2>2
  <2> QED  BY <2>1, <2>3, <2>4 DEF Opens
<1>28. Special(s)
  BY <1>1, <1>24, <1>27 DEF Special, id, Conditional, Guarded, q
<1> QED  BY <1>1, <1>24, <1>28 DEF Sound, s, q

-----------------------------------------------------------------------------
(* The files of the plan.                                                  *)

\* The place of a file among all of them.
Place(id) ==
  CASE id = "deploy_token" -> 1 [] id = "deploy_lending" -> 2
    [] id = "configure_lending" -> 3 [] id = "deploy_lp" -> 4
    [] id = "configure_lp" -> 5 [] id = "deploy_lending_oracle" -> 6
    [] id = "configure_lending_oracle" -> 7 [] id = "deploy_lockzap" -> 8
    [] id = "configure_lockzap" -> 9 [] id = "set_chainlink_adapters" -> 10
    [] id = "deploy_price_provider" -> 11 [] id = "configure_price_provider" -> 12
    [] id = "deploy_distributors" -> 13 [] id = "configure_distributors" -> 14
    [] id = "configure_mfd_provider" -> 15 [] id = "deploy_edp" -> 16
    [] id = "configure_edp" -> 17 [] id = "deploy_cic" -> 18
    [] id = "configure_cic" -> 19 [] id = "configure_minters" -> 20
    [] id = "configure_markets" -> 21 [] id = "deploy_aave_providers" -> 22
    [] id = "disable_market_pause" -> 23 [] id = "deploy_compounder" -> 24
    [] id = "configure_compounder" -> 25 [] id = "deploy_bounty_manager" -> 26
    [] id = "configure_bounty_manager" -> 27 [] id = "configure_set_bounties" -> 28
    [] id = "deploy_accessories" -> 29 [] id = "configure_accessories" -> 30
    [] id = "configure_leverager" -> 31 [] id = "set_lp_token" -> 32
    [] id = "deploy_prnt_oracle" -> 33 [] id = "configure_prnt_oracle" -> 34
    [] id = "export" -> 35 [] id = "deploy.ts" -> 36
    [] id = "weth" -> 37 [] id = "uniswap" -> 38
    [] id = "assets" -> 39 [] id = "layerzero" -> 40
    [] id = "mock_markets" -> 41 [] id = "sequencer" -> 42
    [] id = "fund_cic" -> 43 [] id = "bypass_chainlink" -> 44
    [] id = "arbi_wsteth" -> 45 [] id = "arbi_arb" -> 46
    [] id = "prnt_market" -> 47 [] id = "locker_list" -> 48

\* The tags that files name as their dependencies.
DepTags == {"weth", "uniswap", "layerzero", "assets", "core", "post_assets"}

\* What is known of the file at a place.
FileOk(s, k) ==
  /\ Sound(s) /\ s.atEnd \in BOOLEAN /\ (s.atEnd => ~s.once)
  /\ s.deps \in Seq(DepTags)
  /\ Place(s.id) = k

\* The lists of dependencies that occur.
LEMMA DepLists ==
  /\ <<>> \in Seq(DepTags) /\ <<"weth">> \in Seq(DepTags) /\ <<"uniswap">> \in Seq(DepTags)
  /\ <<"assets">> \in Seq(DepTags) /\ <<"core", "post_assets">> \in Seq(DepTags)
  /\ <<"weth", "uniswap", "layerzero">> \in Seq(DepTags)
<1>1. /\ "weth" \in DepTags /\ "uniswap" \in DepTags /\ "layerzero" \in DepTags
      /\ "assets" \in DepTags /\ "core" \in DepTags /\ "post_assets" \in DepTags
  BY DEF DepTags
<1> QED  BY <1>1

\* s is a step, or a plain function.
IsStep(s, id, deps) == \E req, once, calls : s = Step(id, req, deps, once, calls)
IsPlain(s, id)      == \E tags, once, calls : s = Plain(id, tags, once, calls)

\* A step at its place.
LEMMA StepFile ==
  ASSUME NEW s, NEW id, NEW deps \in Seq(DepTags), IsStep(s, id, deps), Sound(s)
  PROVE  FileOk(s, Place(id)) /\ s.tags = {id}
<1>1. s.id = id /\ s.atEnd = FALSE /\ s.tags = {id}
      /\ s.deps = deps \o (IF id = "weth" THEN <<>> ELSE <<"weth">>)
  BY DEF Step, IsStep
<1>2. s.deps \in Seq(DepTags)
  <2> DEFINE e == IF id = "weth" THEN <<>> ELSE <<"weth">>
  <2>1. e \in Seq(DepTags)
    BY DepLists
  <2> QED  BY <1>1, <2>1
<1> QED  BY <1>1, <1>2 DEF FileOk

\* A plain function at its place.
LEMMA PlainFile ==
  ASSUME NEW s, NEW id, IsPlain(s, id), Sound(s)
  PROVE  FileOk(s, Place(id))
<1>1. s.id = id /\ s.atEnd = FALSE /\ s.deps = <<>>
  BY DEF Plain, IsPlain
<1> QED  BY <1>1, DepLists DEF FileOk

\* The file of deploy_token.
LEMMA DeployTokenFile ==
  ASSUME NEW net
  PROVE  FileOk(DeployToken(net), 1)
<1>1. Sound(DeployToken(net))
  BY DeployTokenSound
<1>2. IsStep(DeployToken(net), "deploy_token", <<"weth", "uniswap", "layerzero">>)
  BY Zenon DEF DeployToken, IsStep
<1>3. Place("deploy_token") = 1
  BY DEF Place
<1>4. <<"weth", "uniswap", "layerzero">> \in Seq(DepTags)
  BY DepLists
<1> QED  BY <1>1, <1>2, <1>3, <1>4, StepFile

\* The file of deploy_lending.
LEMMA DeployLendingFile ==
  ASSUME NEW net
  PROVE  FileOk(DeployLending(net), 2)
<1>1. Sound(DeployLending(net))
  <2>1. DeployLending(net).id = "deploy_lending" /\ DeployLending(net).once \in BOOLEAN
    BY DEF DeployLending, Step
  <2>2. "deploy_lending" \notin Marked
    BY DEF Marked, Conditional, Guarded, Payers
  <2> QED  BY <2>1, <2>2, DeployLendingCalls, QuietSound
<1>2. IsStep(DeployLending(net), "deploy_lending", <<"weth">>)
  BY Zenon DEF DeployLending, IsStep
<1>3. Place("deploy_lending") = 2
  BY DEF Place
<1>4. <<"weth">> \in Seq(DepTags)
  BY DepLists
<1> QED  BY <1>1, <1>2, <1>3, <1>4, StepFile

\* The file of configure_lending.
LEMMA ConfigureLendingFile ==
  ASSUME NEW net
  PROVE  FileOk(ConfigureLending(net), 3)
<1>1. Sound(ConfigureLending(net))
  BY ConfigureLendingSound
<1>2. IsStep(ConfigureLending(net), "configure_lending", <<>>)
  BY Zenon DEF ConfigureLending, IsStep
<1>3. Place("configure_lending") = 3
  BY DEF Place
<1>4. <<>> \in Seq(DepTags)
  BY DepLists
<1> QED  BY <1>1, <1>2, <1>3, <1>4, StepFile

\* The file of deploy_lp.
LEMMA DeployLpFile ==
  ASSUME NEW net
  PROVE  FileOk(DeployLp(net), 4)
<1>1. Sound(DeployLp(net))
  <2>1. DeployLp(net).id = "deploy_lp" /\ DeployLp(net).once \in BOOLEAN
    BY DEF DeployLp, Step
  <2>2. "deploy_lp" \notin Marked
    BY DEF Marked, Conditional, Guarded, Payers
  <2> QED  BY <2>1, <2>2, DeployLpCalls, QuietSound
<1>2. IsStep(DeployLp(net), "deploy_lp", <<"weth">>)
  BY Zenon DEF DeployLp, IsStep
<1>3. Place("deploy_lp") = 4
  BY DEF Place
<1>4. <<"weth">> \in Seq(DepTags)
  BY DepLists
<1> QED  BY <1>1, <1>2, <1>3, <1>4, StepFile

\* The file of configure_lp.
LEMMA ConfigureLpFile ==
  ASSUME NEW net
  PROVE  FileOk(ConfigureLp(net), 5)
<1>1. Sound(ConfigureLp(net))
  BY ConfigureLpSound
<1>2. IsStep(ConfigureLp(net), "configure_lp", <<"weth">>)
  BY Zenon DEF ConfigureLp, IsStep
<1>3. Place("configure_lp") = 5
  BY DEF Place
<1>4. <<"weth">> \in Seq(DepTags)
  BY DepLists
<1> QED  BY <1>1, <1>2, <1>3, <1>4, StepFile

\* The file of deploy_lending_oracle.
LEMMA DeployLendingOracleFile ==
  ASSUME NEW net
  PROVE  FileOk(DeployLendingOracle(net), 6)
<1>1. Sound(DeployLendingOracle(net))
  <2>1. DeployLendingOracle(net).id = "deploy_lending_oracle" /\
    DeployLendingOracle(net).once \in BOOLEAN
    BY DEF DeployLendingOracle, Step
  <2>2. "deploy_lending_oracle" \notin Marked
    BY DEF Marked, Conditional, Guarded, Payers
  <2> QED  BY <2>1, <2>2, DeployLendingOracleCalls, QuietSound
<1>2. IsStep(DeployLendingOracle(net), "deploy_lending_oracle", <<"assets">>)
  BY Zenon DEF DeployLendingOracle, IsStep
<1>3. Place("deploy_lending_oracle") = 6
  BY DEF Place
<1>4. <<"assets">> \in Seq(DepTags)
  BY DepLists
<1> QED  BY <1>1, <1>2, <1>3, <1>4, StepFile

\* The file of configure_lending_oracle.
LEMMA ConfigureLendingOracleFile ==
  ASSUME NEW net
  PROVE  FileOk(ConfigureLendingOracle(net), 7)
<1>1. Sound(ConfigureLendingOracle(net))
  <2>1. ConfigureLendingOracle(net).id = "configure_lending_oracle" /\
    ConfigureLendingOracle(net).once \in BOOLEAN
    BY DEF ConfigureLendingOracle, Step
  <2>2. "configure_lending_oracle" \notin Marked
    BY DEF Marked, Conditional, Guarded, Payers
  <2> QED  BY <2>1, <2>2, ConfigureLendingOracleCalls, QuietSound
<1>2. IsStep(ConfigureLendingOracle(net), "configure_lending_oracle", <<>>)
  BY Zenon DEF ConfigureLendingOracle, IsStep
<1>3. Place("configure_lending_oracle") = 7
  BY DEF Place
<1>4. <<>> \in Seq(DepTags)
  BY DepLists
<1> QED  BY <1>1, <1>2, <1>3, <1>4, StepFile

\* The file of deploy_lockzap.
LEMMA DeployLockzapFile ==
  ASSUME NEW net
  PROVE  FileOk(DeployLockzap(net), 8)
<1>1. Sound(DeployLockzap(net))
  <2>1. DeployLockzap(net).id = "deploy_lockzap" /\ DeployLockzap(net).once \in BOOLEAN
    BY DEF DeployLockzap, Step
  <2>2. "deploy_lockzap" \notin Marked
    BY DEF Marked, Conditional, Guarded, Payers
  <2> QED  BY <2>1, <2>2, DeployLockzapCalls, QuietSound
<1>2. IsStep(DeployLockzap(net), "deploy_lockzap", <<>>)
  BY Zenon DEF DeployLockzap, IsStep
<1>3. Place("deploy_lockzap") = 8
  BY DEF Place
<1>4. <<>> \in Seq(DepTags)
  BY DepLists
<1> QED  BY <1>1, <1>2, <1>3, <1>4, StepFile

\* The file of configure_lockzap.
LEMMA ConfigureLockzapFile ==
  ASSUME NEW net
  PROVE  FileOk(ConfigureLockzap(net), 9)
<1>1. Sound(ConfigureLockzap(net))
  <2>1. ConfigureLockzap(net).id = "configure_lockzap" /\ ConfigureLockzap(net).once \in BOOLEAN
    BY DEF ConfigureLockzap, Step
  <2>2. "configure_lockzap" \notin Marked
    BY DEF Marked, Conditional, Guarded, Payers
  <2> QED  BY <2>1, <2>2, ConfigureLockzapCalls, QuietSound
<1>2. IsStep(ConfigureLockzap(net), "configure_lockzap", <<>>)
  BY Zenon DEF ConfigureLockzap, IsStep
<1>3. Place("configure_lockzap") = 9
  BY DEF Place
<1>4. <<>> \in Seq(DepTags)
  BY DepLists
<1> QED  BY <1>1, <1>2, <1>3, <1>4, StepFile

\* The file of set_chainlink_adapters.
LEMMA SetChainlinkAdaptersFile ==
  ASSUME NEW net
  PROVE  FileOk(SetChainlinkAdapters(net), 10)
<1>1. Sound(SetChainlinkAdapters(net))
  <2>1. SetChainlinkAdapters(net).id = "set_chainlink_adapters" /\
    SetChainlinkAdapters(net).once \in BOOLEAN
    BY DEF SetChainlinkAdapters, Step
  <2>2. "set_chainlink_adapters" \notin Marked
    BY DEF Marked, Conditional, Guarded, Payers
  <2> QED  BY <2>1, <2>2, SetChainlinkAdaptersCalls, QuietSound
<1>2. IsStep(SetChainlinkAdapters(net), "set_chainlink_adapters", <<>>)
  BY Zenon DEF SetChainlinkAdapters, IsStep
<1>3. Place("set_chainlink_adapters") = 10
  BY DEF Place
<1>4. <<>> \in Seq(DepTags)
  BY DepLists
<1> QED  BY <1>1, <1>2, <1>3, <1>4, StepFile

\* The file of deploy_price_provider.
LEMMA DeployPriceProviderFile ==
  ASSUME NEW net
  PROVE  FileOk(DeployPriceProvider(net), 11)
<1>1. Sound(DeployPriceProvider(net))
  <2>1. DeployPriceProvider(net).id = "deploy_price_provider" /\
    DeployPriceProvider(net).once \in BOOLEAN
    BY DEF DeployPriceProvider, Step
  <2>2. "deploy_price_provider" \notin Marked
    BY DEF Marked, Conditional, Guarded, Payers
  <2> QED  BY <2>1, <2>2, DeployPriceProviderCalls, QuietSound
<1>2. IsStep(DeployPriceProvider(net), "deploy_price_provider", <<>>)
  BY Zenon DEF DeployPriceProvider, IsStep
<1>3. Place("deploy_price_provider") = 11
  BY DEF Place
<1>4. <<>> \in Seq(DepTags)
  BY DepLists
<1> QED  BY <1>1, <1>2, <1>3, <1>4, StepFile

\* The file of configure_price_provider.
LEMMA ConfigurePriceProviderFile ==
  ASSUME NEW net
  PROVE  FileOk(ConfigurePriceProvider(net), 12)
<1>1. Sound(ConfigurePriceProvider(net))
  <2>1. ConfigurePriceProvider(net).id = "configure_price_provider" /\
    ConfigurePriceProvider(net).once \in BOOLEAN
    BY DEF ConfigurePriceProvider, Step
  <2>2. "configure_price_provider" \notin Marked
    BY DEF Marked, Conditional, Guarded, Payers
  <2> QED  BY <2>1, <2>2, ConfigurePriceProviderCalls, QuietSound
<1>2. IsStep(ConfigurePriceProvider(net), "configure_price_provider", <<>>)
  BY Zenon DEF ConfigurePriceProvider, IsStep
<1>3. Place("configure_price_provider") = 12
  BY DEF Place
<1>4. <<>> \in Seq(DepTags)
  BY DepLists
<1> QED  BY <1>1, <1>2, <1>3, <1>4, StepFile

\* The file of deploy_distributors.
LEMMA DeployDistributorsFile ==
  ASSUME NEW net
  PROVE  FileOk(DeployDistributors(net), 13)
<1>1. Sound(DeployDistributors(net))
  <2>1. DeployDistributors(net).id = "deploy_distributors" /\ DeployDistributors(net).once \in BOOLEAN
    BY DEF DeployDistributors, Step
  <2>2. "deploy_distributors" \notin Marked
    BY DEF Marked, Conditional, Guarded, Payers
  <2> QED  BY <2>1, <2>2, DeployDistributorsCalls, QuietSound
<1>2. IsStep(DeployDistributors(net), "deploy_distributors", <<>>)
  BY Zenon DEF DeployDistributors, IsStep
<1>3. Place("deploy_distributors") = 13
  BY DEF Place
<1>4. <<>> \in Seq(DepTags)
  BY DepLists
<1> QED  BY <1>1, <1>2, <1>3, <1>4, StepFile

\* The file of configure_distributors.
LEMMA ConfigureDistributorsFile ==
  ASSUME NEW net
  PROVE  FileOk(ConfigureDistributors(net), 14)
<1>1. Sound(ConfigureDistributors(net))
  <2>1. ConfigureDistributors(net).id = "configure_distributors" /\
    ConfigureDistributors(net).once \in BOOLEAN
    BY DEF ConfigureDistributors, Step
  <2>2. "configure_distributors" \notin Marked
    BY DEF Marked, Conditional, Guarded, Payers
  <2> QED  BY <2>1, <2>2, ConfigureDistributorsCalls, QuietSound
<1>2. IsStep(ConfigureDistributors(net), "configure_distributors", <<>>)
  BY Zenon DEF ConfigureDistributors, IsStep
<1>3. Place("configure_distributors") = 14
  BY DEF Place
<1>4. <<>> \in Seq(DepTags)
  BY DepLists
<1> QED  BY <1>1, <1>2, <1>3, <1>4, StepFile

\* The file of configure_mfd_provider.
LEMMA ConfigureMfdProviderFile ==
  ASSUME NEW net
  PROVE  FileOk(ConfigureMfdProvider(net), 15)
<1>1. Sound(ConfigureMfdProvider(net))
  <2>1. ConfigureMfdProvider(net).id = "configure_mfd_provider" /\
    ConfigureMfdProvider(net).once \in BOOLEAN
    BY DEF ConfigureMfdProvider, Step
  <2>2. "configure_mfd_provider" \notin Marked
    BY DEF Marked, Conditional, Guarded, Payers
  <2> QED  BY <2>1, <2>2, ConfigureMfdProviderCalls, QuietSound
<1>2. IsStep(ConfigureMfdProvider(net), "configure_mfd_provider", <<>>)
  BY Zenon DEF ConfigureMfdProvider, IsStep
<1>3. Place("configure_mfd_provider") = 15
  BY DEF Place
<1>4. <<>> \in Seq(DepTags)
  BY DepLists
<1> QED  BY <1>1, <1>2, <1>3, <1>4, StepFile

\* The file of deploy_edp.
LEMMA DeployEdpFile ==
  ASSUME NEW net
  PROVE  FileOk(DeployEdp(net), 16)
<1>1. Sound(DeployEdp(net))
  <2>1. DeployEdp(net).id = "deploy_edp" /\ DeployEdp(net).once \in BOOLEAN
    BY DEF DeployEdp, Step
  <2>2. "deploy_edp" \notin Marked
    BY DEF Marked, Conditional, Guarded, Payers
  <2> QED  BY <2>1, <2>2, DeployEdpCalls, QuietSound
<1>2. IsStep(DeployEdp(net), "deploy_edp", <<>>)
  BY Zenon DEF DeployEdp, IsStep
<1>3. Place("deploy_edp") = 16
  BY DEF Place
<1>4. <<>> \in Seq(DepTags)
  BY DepLists
<1> QED  BY <1>1, <1>2, <1>3, <1>4, StepFile

\* The file of configure_edp.
LEMMA ConfigureEdpFile ==
  ASSUME NEW net
  PROVE  FileOk(ConfigureEdp(net), 17)
<1>1. Sound(ConfigureEdp(net))
  <2>1. ConfigureEdp(net).id = "configure_edp" /\ ConfigureEdp(net).once \in BOOLEAN
    BY DEF ConfigureEdp, Step
  <2>2. "configure_edp" \notin Marked
    BY DEF Marked, Conditional, Guarded, Payers
  <2> QED  BY <2>1, <2>2, ConfigureEdpCalls, QuietSound
<1>2. IsStep(ConfigureEdp(net), "configure_edp", <<>>)
  BY Zenon DEF ConfigureEdp, IsStep
<1>3. Place("configure_edp") = 17
  BY DEF Place
<1>4. <<>> \in Seq(DepTags)
  BY DepLists
<1> QED  BY <1>1, <1>2, <1>3, <1>4, StepFile

\* The file of deploy_cic.
LEMMA DeployCicFile ==
  ASSUME NEW net
  PROVE  FileOk(DeployCic(net), 18)
<1>1. Sound(DeployCic(net))
  <2>1. DeployCic(net).id = "deploy_cic" /\ DeployCic(net).once \in BOOLEAN
    BY DEF DeployCic, Step
  <2>2. "deploy_cic" \notin Marked
    BY DEF Marked, Conditional, Guarded, Payers
  <2> QED  BY <2>1, <2>2, DeployCicCalls, QuietSound
<1>2. IsStep(DeployCic(net), "deploy_cic", <<>>)
  BY Zenon DEF DeployCic, IsStep
<1>3. Place("deploy_cic") = 18
  BY DEF Place
<1>4. <<>> \in Seq(DepTags)
  BY DepLists
<1> QED  BY <1>1, <1>2, <1>3, <1>4, StepFile

\* The file of configure_cic.
LEMMA ConfigureCicFile ==
  ASSUME NEW net
  PROVE  FileOk(ConfigureCic(net), 19)
<1>1. Sound(ConfigureCic(net))
  BY ConfigureCicSound
<1>2. IsStep(ConfigureCic(net), "configure_cic", <<>>)
  BY Zenon DEF ConfigureCic, IsStep
<1>3. Place("configure_cic") = 19
  BY DEF Place
<1>4. <<>> \in Seq(DepTags)
  BY DepLists
<1> QED  BY <1>1, <1>2, <1>3, <1>4, StepFile

\* The file of configure_minters.
LEMMA ConfigureMintersFile ==
  ASSUME NEW net
  PROVE  FileOk(ConfigureMinters(net), 20)
<1>1. Sound(ConfigureMinters(net))
  BY ConfigureMintersSound
<1>2. IsStep(ConfigureMinters(net), "configure_minters", <<>>)
  BY Zenon DEF ConfigureMinters, IsStep
<1>3. Place("configure_minters") = 20
  BY DEF Place
<1>4. <<>> \in Seq(DepTags)
  BY DepLists
<1> QED  BY <1>1, <1>2, <1>3, <1>4, StepFile

\* The file of configure_markets.
LEMMA ConfigureMarketsFile ==
  ASSUME NEW net
  PROVE  FileOk(ConfigureMarkets(net), 21)
<1>1. Sound(ConfigureMarkets(net))
  BY ConfigureMarketsSound
<1>2. IsStep(ConfigureMarkets(net), "configure_markets", <<>>)
  BY Zenon DEF ConfigureMarkets, IsStep
<1>3. Place("configure_markets") = 21
  BY DEF Place
<1>4. <<>> \in Seq(DepTags)
  BY DepLists
<1> QED  BY <1>1, <1>2, <1>3, <1>4, StepFile

\* The file of deploy_aave_providers.
LEMMA DeployAaveProvidersFile ==
  ASSUME NEW net
  PROVE  FileOk(DeployAaveProviders(net), 22)
<1>1. Sound(DeployAaveProviders(net))
  <2>1. DeployAaveProviders(net).id = "deploy_aave_providers" /\
    DeployAaveProviders(net).once \in BOOLEAN
    BY DEF DeployAaveProviders, Step
  <2>2. "deploy_aave_providers" \notin Marked
    BY DEF Marked, Conditional, Guarded, Payers
  <2> QED  BY <2>1, <2>2, DeployAaveProvidersCalls, QuietSound
<1>2. IsStep(DeployAaveProviders(net), "deploy_aave_providers", <<>>)
  BY Zenon DEF DeployAaveProviders, IsStep
<1>3. Place("deploy_aave_providers") = 22
  BY DEF Place
<1>4. <<>> \in Seq(DepTags)
  BY DepLists
<1> QED  BY <1>1, <1>2, <1>3, <1>4, StepFile

\* The file of disable_market_pause.
LEMMA DisableMarketPauseFile ==
  ASSUME NEW net
  PROVE  FileOk(DisableMarketPause(net), 23) /\ DisableMarketPause(net).tags = {"disable_market_pause"}
<1>1. Sound(DisableMarketPause(net))
  BY DisableMarketPauseSound
<1>2. IsStep(DisableMarketPause(net), "disable_market_pause", <<>>)
  BY Zenon DEF DisableMarketPause, IsStep
<1>3. Place("disable_market_pause") = 23
  BY DEF Place
<1>4. <<>> \in Seq(DepTags)
  BY DepLists
<1> QED  BY <1>1, <1>2, <1>3, <1>4, StepFile

\* The file of deploy_compounder.
LEMMA DeployCompounderFile ==
  ASSUME NEW net
  PROVE  FileOk(DeployCompounder(net), 24)
<1>1. Sound(DeployCompounder(net))
  <2>1. DeployCompounder(net).id = "deploy_compounder" /\ DeployCompounder(net).once \in BOOLEAN
    BY DEF DeployCompounder, Step
  <2>2. "deploy_compounder" \notin Marked
    BY DEF Marked, Conditional, Guarded, Payers
  <2> QED  BY <2>1, <2>2, DeployCompounderCalls, QuietSound
<1>2. IsStep(DeployCompounder(net), "deploy_compounder", <<>>)
  BY Zenon DEF DeployCompounder, IsStep
<1>3. Place("deploy_compounder") = 24
  BY DEF Place
<1>4. <<>> \in Seq(DepTags)
  BY DepLists
<1> QED  BY <1>1, <1>2, <1>3, <1>4, StepFile

\* The file of configure_compounder.
LEMMA ConfigureCompounderFile ==
  ASSUME NEW net
  PROVE  FileOk(ConfigureCompounder(net), 25)
<1>1. Sound(ConfigureCompounder(net))
  <2>1. ConfigureCompounder(net).id = "configure_compounder" /\
    ConfigureCompounder(net).once \in BOOLEAN
    BY DEF ConfigureCompounder, Step
  <2>2. "configure_compounder" \notin Marked
    BY DEF Marked, Conditional, Guarded, Payers
  <2> QED  BY <2>1, <2>2, ConfigureCompounderCalls, QuietSound
<1>2. IsStep(ConfigureCompounder(net), "configure_compounder", <<>>)
  BY Zenon DEF ConfigureCompounder, IsStep
<1>3. Place("configure_compounder") = 25
  BY DEF Place
<1>4. <<>> \in Seq(DepTags)
  BY DepLists
<1> QED  BY <1>1, <1>2, <1>3, <1>4, StepFile

\* The file of deploy_bounty_manager.
LEMMA DeployBountyManagerFile ==
  ASSUME NEW net
  PROVE  FileOk(DeployBountyManager(net), 26)
<1>1. Sound(DeployBountyManager(net))
  <2>1. DeployBountyManager(net).id = "deploy_bounty_manager" /\
    DeployBountyManager(net).once \in BOOLEAN
    BY DEF DeployBountyManager, Step
  <2>2. "deploy_bounty_manager" \notin Marked
    BY DEF Marked, Conditional, Guarded, Payers
  <2> QED  BY <2>1, <2>2, DeployBountyManagerCalls, QuietSound
<1>2. IsStep(DeployBountyManager(net), "deploy_bounty_manager", <<>>)
  BY Zenon DEF DeployBountyManager, IsStep
<1>3. Place("deploy_bounty_manager") = 26
  BY DEF Place
<1>4. <<>> \in Seq(DepTags)
  BY DepLists
<1> QED  BY <1>1, <1>2, <1>3, <1>4, StepFile

\* The file of configure_bounty_manager.
LEMMA ConfigureBountyManagerFile ==
  ASSUME NEW net
  PROVE  FileOk(ConfigureBountyManager(net), 27)
<1>1. Sound(ConfigureBountyManager(net))
  BY ConfigureBountyManagerSound
<1>2. IsStep(ConfigureBountyManager(net), "configure_bounty_manager", <<>>)
  BY Zenon DEF ConfigureBountyManager, IsStep
<1>3. Place("configure_bounty_manager") = 27
  BY DEF Place
<1>4. <<>> \in Seq(DepTags)
  BY DepLists
<1> QED  BY <1>1, <1>2, <1>3, <1>4, StepFile

\* The file of configure_set_bounties.
LEMMA ConfigureSetBountiesFile ==
  ASSUME NEW net
  PROVE  FileOk(ConfigureSetBounties(net), 28)
<1>1. Sound(ConfigureSetBounties(net))
  <2>1. ConfigureSetBounties(net).id = "configure_set_bounties" /\
    ConfigureSetBounties(net).once \in BOOLEAN
    BY DEF ConfigureSetBounties, Step
  <2>2. "configure_set_bounties" \notin Marked
    BY DEF Marked, Conditional, Guarded, Payers
  <2> QED  BY <2>1, <2>2, ConfigureSetBountiesCalls, QuietSound
<1>2. IsStep(ConfigureSetBounties(net), "configure_set_bounties", <<>>)
  BY Zenon DEF ConfigureSetBounties, IsStep
<1>3. Place("configure_set_bounties") = 28
  BY DEF Place
<1>4. <<>> \in Seq(DepTags)
  BY DepLists
<1> QED  BY <1>1, <1>2, <1>3, <1>4, StepFile

\* The file of deploy_accessories.
LEMMA DeployAccessoriesFile ==
  ASSUME NEW net
  PROVE  FileOk(DeployAccessories(net), 29)
<1>1. Sound(DeployAccessories(net))
  <2>1. DeployAccessories(net).id = "deploy_accessories" /\ DeployAccessories(net).once \in BOOLEAN
    BY DEF DeployAccessories, Step
  <2>2. "deploy_accessories" \notin Marked
    BY DEF Marked, Conditional, Guarded, Payers
  <2> QED  BY <2>1, <2>2, DeployAccessoriesCalls, QuietSound
<1>2. IsStep(DeployAccessories(net), "deploy_accessories", <<>>)
  BY Zenon DEF DeployAccessories, IsStep
<1>3. Place("deploy_accessories") = 29
  BY DEF Place
<1>4. <<>> \in Seq(DepTags)
  BY DepLists
<1> QED  BY <1>1, <1>2, <1>3, <1>4, StepFile

\* The file of configure_accessories.
LEMMA ConfigureAccessoriesFile ==
  ASSUME NEW net
  PROVE  FileOk(ConfigureAccessories(net), 30)
<1>1. Sound(ConfigureAccessories(net))
  <2>1. ConfigureAccessories(net).id = "configure_accessories" /\
    ConfigureAccessories(net).once \in BOOLEAN
    BY DEF ConfigureAccessories, Step
  <2>2. "configure_accessories" \notin Marked
    BY DEF Marked, Conditional, Guarded, Payers
  <2> QED  BY <2>1, <2>2, ConfigureAccessoriesCalls, QuietSound
<1>2. IsStep(ConfigureAccessories(net), "configure_accessories", <<>>)
  BY Zenon DEF ConfigureAccessories, IsStep
<1>3. Place("configure_accessories") = 30
  BY DEF Place
<1>4. <<>> \in Seq(DepTags)
  BY DepLists
<1> QED  BY <1>1, <1>2, <1>3, <1>4, StepFile

\* The file of configure_leverager.
LEMMA ConfigureLeveragerFile ==
  ASSUME NEW net
  PROVE  FileOk(ConfigureLeverager(net), 31)
<1>1. Sound(ConfigureLeverager(net))
  <2>1. ConfigureLeverager(net).id = "configure_leverager" /\ ConfigureLeverager(net).once \in BOOLEAN
    BY DEF ConfigureLeverager, Step
  <2>2. "configure_leverager" \notin Marked
    BY DEF Marked, Conditional, Guarded, Payers
  <2> QED  BY <2>1, <2>2, ConfigureLeveragerCalls, QuietSound
<1>2. IsStep(ConfigureLeverager(net), "configure_leverager", <<>>)
  BY Zenon DEF ConfigureLeverager, IsStep
<1>3. Place("configure_leverager") = 31
  BY DEF Place
<1>4. <<>> \in Seq(DepTags)
  BY DepLists
<1> QED  BY <1>1, <1>2, <1>3, <1>4, StepFile

\* The file of set_lp_token.
LEMMA SetLpTokenFile ==
  ASSUME NEW net
  PROVE  FileOk(SetLpToken(net), 32)
<1>1. Sound(SetLpToken(net))
  BY SetLpTokenSound
<1>2. IsStep(SetLpToken(net), "set_lp_token", <<>>)
  BY Zenon DEF SetLpToken, IsStep
<1>3. Place("set_lp_token") = 32
  BY DEF Place
<1>4. <<>> \in Seq(DepTags)
  BY DepLists
<1> QED  BY <1>1, <1>2, <1>3, <1>4, StepFile

\* The file of deploy_prnt_oracle.
LEMMA DeployPrntOracleFile ==
  ASSUME NEW net
  PROVE  FileOk(DeployPrntOracle(net), 33)
<1>1. Sound(DeployPrntOracle(net))
  BY DeployPrntOracleSound
<1>2. IsStep(DeployPrntOracle(net), "deploy_prnt_oracle", <<>>)
  BY Zenon DEF DeployPrntOracle, IsStep
<1>3. Place("deploy_prnt_oracle") = 33
  BY DEF Place
<1>4. <<>> \in Seq(DepTags)
  BY DepLists
<1> QED  BY <1>1, <1>2, <1>3, <1>4, StepFile

\* The file of configure_prnt_oracle.
LEMMA ConfigurePrntOracleFile ==
  ASSUME NEW net
  PROVE  FileOk(ConfigurePrntOracle(net), 34)
<1>1. Sound(ConfigurePrntOracle(net))
  <2>1. ConfigurePrntOracle(net).id = "configure_prnt_oracle" /\
    ConfigurePrntOracle(net).once \in BOOLEAN
    BY DEF ConfigurePrntOracle, Step
  <2>2. "configure_prnt_oracle" \notin Marked
    BY DEF Marked, Conditional, Guarded, Payers
  <2> QED  BY <2>1, <2>2, ConfigurePrntOracleCalls, QuietSound
<1>2. IsStep(ConfigurePrntOracle(net), "configure_prnt_oracle", <<>>)
  BY Zenon DEF ConfigurePrntOracle, IsStep
<1>3. Place("configure_prnt_oracle") = 34
  BY DEF Place
<1>4. <<>> \in Seq(DepTags)
  BY DepLists
<1> QED  BY <1>1, <1>2, <1>3, <1>4, StepFile

\* The file of weth.
LEMMA WethMockFile ==
  ASSUME NEW net
  PROVE  FileOk(WethMock(net), 37)
<1>1. Sound(WethMock(net))
  BY WethMockSound
<1>2. IsStep(WethMock(net), "weth", <<>>)
  BY Zenon DEF WethMock, IsStep
<1>3. Place("weth") = 37
  BY DEF Place
<1>4. <<>> \in Seq(DepTags)
  BY DepLists
<1> QED  BY <1>1, <1>2, <1>3, <1>4, StepFile

\* The file of uniswap.
LEMMA UniswapMockFile ==
  ASSUME NEW net
  PROVE  FileOk(UniswapMock(net), 38)
<1>1. Sound(UniswapMock(net))
  <2>1. UniswapMock(net).id = "uniswap" /\ UniswapMock(net).once \in BOOLEAN
    BY DEF UniswapMock, Step
  <2>2. "uniswap" \notin Marked
    BY DEF Marked, Conditional, Guarded, Payers
  <2> QED  BY <2>1, <2>2, UniswapMockCalls, QuietSound
<1>2. IsStep(UniswapMock(net), "uniswap", <<>>)
  BY Zenon DEF UniswapMock, IsStep
<1>3. Place("uniswap") = 38
  BY DEF Place
<1>4. <<>> \in Seq(DepTags)
  BY DepLists
<1> QED  BY <1>1, <1>2, <1>3, <1>4, StepFile

\* The file of assets.
LEMMA AssetsMockFile ==
  ASSUME NEW net
  PROVE  FileOk(AssetsMock(net), 39)
<1>1. Sound(AssetsMock(net))
  BY AssetsMockSound
<1>2. IsStep(AssetsMock(net), "assets", <<"uniswap">>)
  BY Zenon DEF AssetsMock, IsStep
<1>3. Place("assets") = 39
  BY DEF Place
<1>4. <<"uniswap">> \in Seq(DepTags)
  BY DepLists
<1> QED  BY <1>1, <1>2, <1>3, <1>4, StepFile

\* The file of layerzero.
LEMMA LayerzeroMockFile ==
  ASSUME NEW net
  PROVE  FileOk(LayerzeroMock(net), 40)
<1>1. Sound(LayerzeroMock(net))
  <2>1. LayerzeroMock(net).id = "layerzero" /\ LayerzeroMock(net).once \in BOOLEAN
    BY DEF LayerzeroMock, Step
  <2>2. "layerzero" \notin Marked
    BY DEF Marked, Conditional, Guarded, Payers
  <2> QED  BY <2>1, <2>2, LayerzeroMockCalls, QuietSound
<1>2. IsStep(LayerzeroMock(net), "layerzero", <<>>)
  BY Zenon DEF LayerzeroMock, IsStep
<1>3. Place("layerzero") = 40
  BY DEF Place
<1>4. <<>> \in Seq(DepTags)
  BY DepLists
<1> QED  BY <1>1, <1>2, <1>3, <1>4, StepFile

\* The file of mock_markets.
LEMMA MarketsMockFile ==
  ASSUME NEW net
  PROVE  FileOk(MarketsMock(net), 41)
<1>1. Sound(MarketsMock(net))
  <2>1. MarketsMock(net).id = "mock_markets" /\ MarketsMock(net).once \in BOOLEAN
    BY DEF MarketsMock, Step
  <2>2. "mock_markets" \notin Marked
    BY DEF Marked, Conditional, Guarded, Payers
  <2> QED  BY <2>1, <2>2, MarketsMockCalls, QuietSound
<1>2. IsStep(MarketsMock(net), "mock_markets", <<"core", "post_assets">>)
  BY Zenon DEF MarketsMock, IsStep
<1>3. Place("mock_markets") = 41
  BY DEF Place
<1>4. <<"core", "post_assets">> \in Seq(DepTags)
  BY DepLists
<1> QED  BY <1>1, <1>2, <1>3, <1>4, StepFile

\* The file of sequencer.
LEMMA SequencerMockFile ==
  ASSUME NEW net
  PROVE  FileOk(SequencerMock(net), 42)
<1>1. Sound(SequencerMock(net))
  <2>1. SequencerMock(net).id = "sequencer" /\ SequencerMock(net).once \in BOOLEAN
    BY DEF SequencerMock, Step
  <2>2. "sequencer" \notin Marked
    BY DEF Marked, Conditional, Guarded, Payers
  <2> QED  BY <2>1, <2>2, SequencerMockCalls, QuietSound
<1>2. IsStep(SequencerMock(net), "sequencer", <<>>)
  BY Zenon DEF SequencerMock, IsStep
<1>3. Place("sequencer") = 42
  BY DEF Place
<1>4. <<>> \in Seq(DepTags)
  BY DepLists
<1> QED  BY <1>1, <1>2, <1>3, <1>4, StepFile

\* The file of fund_cic.
LEMMA FundCicFile ==
  ASSUME NEW net
  PROVE  FileOk(FundCic(net), 43)
<1>1. Sound(FundCic(net))
  BY FundCicSound
<1>2. IsStep(FundCic(net), "fund_cic", <<>>)
  BY Zenon DEF FundCic, IsStep
<1>3. Place("fund_cic") = 43
  BY DEF Place
<1>4. <<>> \in Seq(DepTags)
  BY DepLists
<1> QED  BY <1>1, <1>2, <1>3, <1>4, StepFile

\* The file of bypass_chainlink.
LEMMA BypassChainlinkFile ==
  ASSUME NEW net
  PROVE  FileOk(BypassChainlink(net), 44)
<1>1. Sound(BypassChainlink(net))
  <2>1. BypassChainlink(net).id = "bypass_chainlink" /\ BypassChainlink(net).once \in BOOLEAN
    BY DEF BypassChainlink, Step
  <2>2. "bypass_chainlink" \notin Marked
    BY DEF Marked, Conditional, Guarded, Payers
  <2> QED  BY <2>1, <2>2, BypassChainlinkCalls, QuietSound
<1>2. IsStep(BypassChainlink(net), "bypass_chainlink", <<>>)
  BY Zenon DEF BypassChainlink, IsStep
<1>3. Place("bypass_chainlink") = 44
  BY DEF Place
<1>4. <<>> \in Seq(DepTags)
  BY DepLists
<1> QED  BY <1>1, <1>2, <1>3, <1>4, StepFile

\* The file of arbi_wsteth.
LEMMA ArbiWstethFile ==
  ASSUME NEW net
  PROVE  FileOk(ArbiWsteth(net), 45)
<1>1. Sound(ArbiWsteth(net))
  BY ArbiWstethSound
<1>2. ArbiWsteth(net).id = "arbi_wsteth" /\ ArbiWsteth(net).atEnd = FALSE /\ ArbiWsteth(net).deps = <<>>
  BY DEF ArbiWsteth, Plain
<1>3. Place("arbi_wsteth") = 45
  BY DEF Place
<1> QED  BY <1>1, <1>2, <1>3, DepLists DEF FileOk

\* The file of arbi_arb.
LEMMA ArbiArbFile ==
  ASSUME NEW net
  PROVE  FileOk(ArbiArb(net), 46)
<1>1. Sound(ArbiArb(net))
  BY ArbiArbSound
<1>2. IsPlain(ArbiArb(net), "arbi_arb")
  BY Zenon DEF ArbiArb, IsPlain
<1>3. Place("arbi_arb") = 46
  BY DEF Place
<1> QED  BY <1>1, <1>2, <1>3, PlainFile

\* The file of prnt_market.
LEMMA PrntMarketFile ==
  ASSUME NEW net
  PROVE  FileOk(PrntMarket(net), 47)
<1>1. Sound(PrntMarket(net))
  BY PrntMarketSound
<1>2. IsPlain(PrntMarket(net), "prnt_market")
  BY Zenon DEF PrntMarket, IsPlain
<1>3. Place("prnt_market") = 47
  BY DEF Place
<1> QED  BY <1>1, <1>2, <1>3, PlainFile

\* The file of locker_list.
LEMMA LockerListScriptFile ==
  ASSUME NEW net
  PROVE  FileOk(LockerListScript(net), 48)
<1>1. Sound(LockerListScript(net))
  <2>1. LockerListScript(net).id = "locker_list" /\ LockerListScript(net).once \in BOOLEAN
    BY DEF LockerListScript, Plain
  <2>2. "locker_list" \notin Marked
    BY DEF Marked, Conditional, Guarded, Payers
  <2> QED  BY <2>1, <2>2, LockerListScriptCalls, QuietSound
<1>2. IsPlain(LockerListScript(net), "locker_list")
  BY Zenon DEF LockerListScript, IsPlain
<1>3. Place("locker_list") = 48
  BY DEF Place
<1> QED  BY <1>1, <1>2, <1>3, PlainFile

\* The file of export, the one kept for the end.
LEMMA ExportDeployFile ==
  ASSUME NEW net
  PROVE  FileOk(ExportDeploy(net), 35) /\ ExportDeploy(net).atEnd
<1>1. ExportDeploy(net).id = "export" /\ ExportDeploy(net).once = FALSE
      /\ ExportDeploy(net).atEnd = TRUE /\ ExportDeploy(net).deps = <<>>
  BY DEF ExportDeploy
<1>2. "export" \notin Marked
  BY DEF Marked, Conditional, Guarded, Payers
<1>3. Sound(ExportDeploy(net))
  BY <1>1, <1>2, ExportDeployCalls, QuietSound
<1>4. Place("export") = 35
  BY DEF Place
<1> QED  BY <1>1, <1>3, <1>4, DepLists DEF FileOk

\* The file that exports nothing.
LEMMA NotADeployScriptFile ==
  ASSUME NEW net
  PROVE  FileOk(NotADeployScript(net), 36)
<1>1. NotADeployScript(net).id = "deploy.ts" /\ NotADeployScript(net).once = FALSE
      /\ NotADeployScript(net).atEnd = FALSE /\ NotADeployScript(net).deps = <<>>
  BY DEF NotADeployScript, Plain
<1>2. "deploy.ts" \notin Marked
  BY DEF Marked, Conditional, Guarded, Payers
<1>3. Sound(NotADeployScript(net))
  BY <1>1, <1>2, NotADeployScriptCalls, QuietSound
<1>4. Place("deploy.ts") = 36
  BY DEF Place
<1> QED  BY <1>1, <1>3, <1>4, DepLists DEF FileOk

\* The files of deploy/core, and those of deploy/mocks and deploy/post-assets.
CoreFiles(net) ==
  <<DeployToken(net), DeployLending(net), ConfigureLending(net), DeployLp(net),
    ConfigureLp(net), DeployLendingOracle(net), ConfigureLendingOracle(net),
    DeployLockzap(net), ConfigureLockzap(net), SetChainlinkAdapters(net),
    DeployPriceProvider(net), ConfigurePriceProvider(net), DeployDistributors(net),
    ConfigureDistributors(net), ConfigureMfdProvider(net), DeployEdp(net),
    ConfigureEdp(net), DeployCic(net), ConfigureCic(net), ConfigureMinters(net),
    ConfigureMarkets(net), DeployAaveProviders(net), DisableMarketPause(net),
    DeployCompounder(net), ConfigureCompounder(net), DeployBountyManager(net),
    ConfigureBountyManager(net), ConfigureSetBounties(net), DeployAccessories(net),
    ConfigureAccessories(net), ConfigureLeverager(net), SetLpToken(net),
    DeployPrntOracle(net), ConfigurePrntOracle(net), ExportDeploy(net)>>
OtherFiles(net) ==
  <<WethMock(net), UniswapMock(net), AssetsMock(net), LayerzeroMock(net), MarketsMock(net),
    SequencerMock(net), FundCic(net), BypassChainlink(net), ArbiWsteth(net), ArbiArb(net),
    PrntMarket(net), LockerListScript(net)>>

\* Each is at its place.
LEMMA CoreFilesAt ==
  ASSUME NEW net
  PROVE  /\ IsList(CoreFiles(net)) /\ Len(CoreFiles(net)) = 35
         /\ \A k \in 1..35 : FileOk(CoreFiles(net)[k], 0 + k)
<1> DEFINE q == CoreFiles(net)
<1>1. Len(q) = 35 /\ DOMAIN q = 1..35 /\ q = [k \in 1..35 |-> q[k]]
  BY DEF CoreFiles
<1>2. /\ q[1] = DeployToken(net) /\ q[2] = DeployLending(net) /\
         q[3] = ConfigureLending(net) /\ q[4] = DeployLp(net) /\ q[5] = ConfigureLp(net) /\
         q[6] = DeployLendingOracle(net) /\ q[7] = ConfigureLendingOracle(net) /\
         q[8] = DeployLockzap(net) /\ q[9] = ConfigureLockzap(net) /\
         q[10] = SetChainlinkAdapters(net) /\ q[11] = DeployPriceProvider(net) /\
         q[12] = ConfigurePriceProvider(net) /\ q[13] = DeployDistributors(net) /\
         q[14] = ConfigureDistributors(net) /\ q[15] = ConfigureMfdProvider(net) /\
         q[16] = DeployEdp(net) /\ q[17] = ConfigureEdp(net) /\ q[18] = DeployCic(net) /\
         q[19] = ConfigureCic(net) /\ q[20] = ConfigureMinters(net) /\
         q[21] = ConfigureMarkets(net) /\ q[22] = DeployAaveProviders(net) /\
         q[23] = DisableMarketPause(net) /\ q[24] = DeployCompounder(net) /\
         q[25] = ConfigureCompounder(net) /\ q[26] = DeployBountyManager(net) /\
         q[27] = ConfigureBountyManager(net) /\ q[28] = ConfigureSetBounties(net) /\
         q[29] = DeployAccessories(net) /\ q[30] = ConfigureAccessories(net) /\
         q[31] = ConfigureLeverager(net) /\ q[32] = SetLpToken(net) /\
         q[33] = DeployPrntOracle(net) /\ q[34] = ConfigurePrntOracle(net) /\
         q[35] = ExportDeploy(net)
  BY DEF CoreFiles
<1> HIDE DEF q
<1>3. IsList(q)
  <2>1. \A k \in 1..35 : q[k] \in ToSet(q)
    BY <1>1 DEF ToSet
  <2> QED  BY <1>1, <2>1, SeqFromTo DEF IsList
<1>4. ASSUME NEW k \in 1..35 PROVE FileOk(q[k], 0 + k)
  <2>1. CASE k = 1
    <3>1. FileOk(DeployToken(net), 1)
      BY DeployTokenFile
    <3> QED  BY <1>2, <2>1, <3>1
  <2>2. CASE k = 2
    <3>1. FileOk(DeployLending(net), 2)
      BY DeployLendingFile
    <3> QED  BY <1>2, <2>2, <3>1
  <2>3. CASE k = 3
    <3>1. FileOk(ConfigureLending(net), 3)
      BY ConfigureLendingFile
    <3> QED  BY <1>2, <2>3, <3>1
  <2>4. CASE k = 4
    <3>1. FileOk(DeployLp(net), 4)
      BY DeployLpFile
    <3> QED  BY <1>2, <2>4, <3>1
  <2>5. CASE k = 5
    <3>1. FileOk(ConfigureLp(net), 5)
      BY ConfigureLpFile
    <3> QED  BY <1>2, <2>5, <3>1
  <2>6. CASE k = 6
    <3>1. FileOk(DeployLendingOracle(net), 6)
      BY DeployLendingOracleFile
    <3> QED  BY <1>2, <2>6, <3>1
  <2>7. CASE k = 7
    <3>1. FileOk(ConfigureLendingOracle(net), 7)
      BY ConfigureLendingOracleFile
    <3> QED  BY <1>2, <2>7, <3>1
  <2>8. CASE k = 8
    <3>1. FileOk(DeployLockzap(net), 8)
      BY DeployLockzapFile
    <3> QED  BY <1>2, <2>8, <3>1
  <2>9. CASE k = 9
    <3>1. FileOk(ConfigureLockzap(net), 9)
      BY ConfigureLockzapFile
    <3> QED  BY <1>2, <2>9, <3>1
  <2>10. CASE k = 10
    <3>1. FileOk(SetChainlinkAdapters(net), 10)
      BY SetChainlinkAdaptersFile
    <3> QED  BY <1>2, <2>10, <3>1
  <2>11. CASE k = 11
    <3>1. FileOk(DeployPriceProvider(net), 11)
      BY DeployPriceProviderFile
    <3> QED  BY <1>2, <2>11, <3>1
  <2>12. CASE k = 12
    <3>1. FileOk(ConfigurePriceProvider(net), 12)
      BY ConfigurePriceProviderFile
    <3> QED  BY <1>2, <2>12, <3>1
  <2>13. CASE k = 13
    <3>1. FileOk(DeployDistributors(net), 13)
      BY DeployDistributorsFile
    <3> QED  BY <1>2, <2>13, <3>1
  <2>14. CASE k = 14
    <3>1. FileOk(ConfigureDistributors(net), 14)
      BY ConfigureDistributorsFile
    <3> QED  BY <1>2, <2>14, <3>1
  <2>15. CASE k = 15
    <3>1. FileOk(ConfigureMfdProvider(net), 15)
      BY ConfigureMfdProviderFile
    <3> QED  BY <1>2, <2>15, <3>1
  <2>16. CASE k = 16
    <3>1. FileOk(DeployEdp(net), 16)
      BY DeployEdpFile
    <3> QED  BY <1>2, <2>16, <3>1
  <2>17. CASE k = 17
    <3>1. FileOk(ConfigureEdp(net), 17)
      BY ConfigureEdpFile
    <3> QED  BY <1>2, <2>17, <3>1
  <2>18. CASE k = 18
    <3>1. FileOk(DeployCic(net), 18)
      BY DeployCicFile
    <3> QED  BY <1>2, <2>18, <3>1
  <2>19. CASE k = 19
    <3>1. FileOk(ConfigureCic(net), 19)
      BY ConfigureCicFile
    <3> QED  BY <1>2, <2>19, <3>1
  <2>20. CASE k = 20
    <3>1. FileOk(ConfigureMinters(net), 20)
      BY ConfigureMintersFile
    <3> QED  BY <1>2, <2>20, <3>1
  <2>21. CASE k = 21
    <3>1. FileOk(ConfigureMarkets(net), 21)
      BY ConfigureMarketsFile
    <3> QED  BY <1>2, <2>21, <3>1
  <2>22. CASE k = 22
    <3>1. FileOk(DeployAaveProviders(net), 22)
      BY DeployAaveProvidersFile
    <3> QED  BY <1>2, <2>22, <3>1
  <2>23. CASE k = 23
    <3>1. FileOk(DisableMarketPause(net), 23)
      BY DisableMarketPauseFile
    <3> QED  BY <1>2, <2>23, <3>1
  <2>24. CASE k = 24
    <3>1. FileOk(DeployCompounder(net), 24)
      BY DeployCompounderFile
    <3> QED  BY <1>2, <2>24, <3>1
  <2>25. CASE k = 25
    <3>1. FileOk(ConfigureCompounder(net), 25)
      BY ConfigureCompounderFile
    <3> QED  BY <1>2, <2>25, <3>1
  <2>26. CASE k = 26
    <3>1. FileOk(DeployBountyManager(net), 26)
      BY DeployBountyManagerFile
    <3> QED  BY <1>2, <2>26, <3>1
  <2>27. CASE k = 27
    <3>1. FileOk(ConfigureBountyManager(net), 27)
      BY ConfigureBountyManagerFile
    <3> QED  BY <1>2, <2>27, <3>1
  <2>28. CASE k = 28
    <3>1. FileOk(ConfigureSetBounties(net), 28)
      BY ConfigureSetBountiesFile
    <3> QED  BY <1>2, <2>28, <3>1
  <2>29. CASE k = 29
    <3>1. FileOk(DeployAccessories(net), 29)
      BY DeployAccessoriesFile
    <3> QED  BY <1>2, <2>29, <3>1
  <2>30. CASE k = 30
    <3>1. FileOk(ConfigureAccessories(net), 30)
      BY ConfigureAccessoriesFile
    <3> QED  BY <1>2, <2>30, <3>1
  <2>31. CASE k = 31
    <3>1. FileOk(ConfigureLeverager(net), 31)
      BY ConfigureLeveragerFile
    <3> QED  BY <1>2, <2>31, <3>1
  <2>32. CASE k = 32
    <3>1. FileOk(SetLpToken(net), 32)
      BY SetLpTokenFile
    <3> QED  BY <1>2, <2>32, <3>1
  <2>33. CASE k = 33
    <3>1. FileOk(DeployPrntOracle(net), 33)
      BY DeployPrntOracleFile
    <3> QED  BY <1>2, <2>33, <3>1
  <2>34. CASE k = 34
    <3>1. FileOk(ConfigurePrntOracle(net), 34)
      BY ConfigurePrntOracleFile
    <3> QED  BY <1>2, <2>34, <3>1
  <2>35. CASE k = 35
    <3>1. FileOk(ExportDeploy(net), 35)
      BY ExportDeployFile
    <3> QED  BY <1>2, <2>35, <3>1
  <2>36. k = 1 \/ k = 2 \/ k = 3 \/ k = 4 \/ k = 5 \/ k = 6 \/ k = 7 \/ k = 8 \/ k = 9 \/
      k = 10 \/ k = 11 \/ k = 12 \/ k = 13 \/ k = 14 \/ k = 15 \/ k = 16 \/ k = 17 \/
      k = 18 \/ k = 19 \/ k = 20 \/ k = 21 \/ k = 22 \/ k = 23 \/ k = 24 \/ k = 25 \/
      k = 26 \/ k = 27 \/ k = 28 \/ k = 29 \/ k = 30 \/ k = 31 \/ k = 32 \/ k = 33 \/
      k = 34 \/ k = 35
    OBVIOUS
  <2> QED  BY <2>1, <2>2, <2>3, <2>4, <2>5, <2>6, <2>7, <2>8, <2>9, <2>10, <2>11, <2>12, <2>13,
          <2>14, <2>15, <2>16, <2>17, <2>18, <2>19, <2>20, <2>21, <2>22, <2>23, <2>24,
          <2>25, <2>26, <2>27, <2>28, <2>29, <2>30, <2>31, <2>32, <2>33, <2>34, <2>35,
          <2>36
<1> QED  BY <1>1, <1>3, <1>4 DEF q

\* Each is at its place.
LEMMA OtherFilesAt ==
  ASSUME NEW net
  PROVE  /\ IsList(OtherFiles(net)) /\ Len(OtherFiles(net)) = 12
         /\ \A k \in 1..12 : FileOk(OtherFiles(net)[k], 36 + k)
<1> DEFINE q == OtherFiles(net)
<1>1. Len(q) = 12 /\ DOMAIN q = 1..12 /\ q = [k \in 1..12 |-> q[k]]
  BY DEF OtherFiles
<1>2. /\ q[1] = WethMock(net) /\ q[2] = UniswapMock(net) /\ q[3] = AssetsMock(net) /\
         q[4] = LayerzeroMock(net) /\ q[5] = MarketsMock(net) /\
         q[6] = SequencerMock(net) /\ q[7] = FundCic(net) /\ q[8] = BypassChainlink(net) /\
         q[9] = ArbiWsteth(net) /\ q[10] = ArbiArb(net) /\ q[11] = PrntMarket(net) /\
         q[12] = LockerListScript(net)
  BY DEF OtherFiles
<1> HIDE DEF q
<1>3. IsList(q)
  <2>1. \A k \in 1..12 : q[k] \in ToSet(q)
    BY <1>1 DEF ToSet
  <2> QED  BY <1>1, <2>1, SeqFromTo DEF IsList
<1>4. ASSUME NEW k \in 1..12 PROVE FileOk(q[k], 36 + k)
  <2>1. CASE k = 1
    <3>1. FileOk(WethMock(net), 37)
      BY WethMockFile
    <3> QED  BY <1>2, <2>1, <3>1
  <2>2. CASE k = 2
    <3>1. FileOk(UniswapMock(net), 38)
      BY UniswapMockFile
    <3> QED  BY <1>2, <2>2, <3>1
  <2>3. CASE k = 3
    <3>1. FileOk(AssetsMock(net), 39)
      BY AssetsMockFile
    <3> QED  BY <1>2, <2>3, <3>1
  <2>4. CASE k = 4
    <3>1. FileOk(LayerzeroMock(net), 40)
      BY LayerzeroMockFile
    <3> QED  BY <1>2, <2>4, <3>1
  <2>5. CASE k = 5
    <3>1. FileOk(MarketsMock(net), 41)
      BY MarketsMockFile
    <3> QED  BY <1>2, <2>5, <3>1
  <2>6. CASE k = 6
    <3>1. FileOk(SequencerMock(net), 42)
      BY SequencerMockFile
    <3> QED  BY <1>2, <2>6, <3>1
  <2>7. CASE k = 7
    <3>1. FileOk(FundCic(net), 43)
      BY FundCicFile
    <3> QED  BY <1>2, <2>7, <3>1
  <2>8. CASE k = 8
    <3>1. FileOk(BypassChainlink(net), 44)
      BY BypassChainlinkFile
    <3> QED  BY <1>2, <2>8, <3>1
  <2>9. CASE k = 9
    <3>1. FileOk(ArbiWsteth(net), 45)
      BY ArbiWstethFile
    <3> QED  BY <1>2, <2>9, <3>1
  <2>10. CASE k = 10
    <3>1. FileOk(ArbiArb(net), 46)
      BY ArbiArbFile
    <3> QED  BY <1>2, <2>10, <3>1
  <2>11. CASE k = 11
    <3>1. FileOk(PrntMarket(net), 47)
      BY PrntMarketFile
    <3> QED  BY <1>2, <2>11, <3>1
  <2>12. CASE k = 12
    <3>1. FileOk(LockerListScript(net), 48)
      BY LockerListScriptFile
    <3> QED  BY <1>2, <2>12, <3>1
  <2>13. k = 1 \/ k = 2 \/ k = 3 \/ k = 4 \/ k = 5 \/ k = 6 \/ k = 7 \/ k = 8 \/ k = 9 \/
      k = 10 \/ k = 11 \/ k = 12
    OBVIOUS
  <2> QED  BY <2>1, <2>2, <2>3, <2>4, <2>5, <2>6, <2>7, <2>8, <2>9, <2>10, <2>11, <2>12, <2>13
<1> QED  BY <1>1, <1>3, <1>4 DEF q

\* Where the files of a network are.
FilesAre(f, net, n) ==
  /\ n \in 47..48 /\ DOMAIN f = 1..n
  /\ \A i \in 1..n : FileOk(f[i], IF n = 48 \/ i <= 35 THEN i ELSE i + 1)
  /\ f[21] = ConfigureMarkets(net) /\ f[23] = DisableMarketPause(net) /\ f[35] = ExportDeploy(net)

\* hardhat-deploy finds each script at its place, with or without the stray file.
LEMMA FilesAt ==
  ASSUME NEW net
  PROVE  \E n : FilesAre(Files(net), net, n)
<1> DEFINE core == CoreFiles(net)
           stray == <<NotADeployScript(net)>>
           mid == If(StrayFile, stray)
           other == OtherFiles(net)
           p == core \o mid
           f == p \o other
           m == Len(mid)
<1>1. Files(net) = f
  BY DEF Files, CoreFiles, OtherFiles
<1>2. core[21] = ConfigureMarkets(net) /\ core[23] = DisableMarketPause(net) /\
  core[35] = ExportDeploy(net)
  BY DEF CoreFiles
<1> HIDE DEF core, other
<1>3. /\ IsList(core) /\ Len(core) = 35 /\ \A k \in 1..35 : FileOk(core[k], k)
  BY CoreFilesAt DEF core
<1>4. /\ IsList(other) /\ Len(other) = 12 /\ \A k \in 1..12 : FileOk(other[k], 36 + k)
  BY OtherFilesAt DEF other
<1>5. IsList(mid) /\ m \in 0..1 /\ \A k \in 1..m : FileOk(mid[k], 36)
  <2>1. IsList(stray) /\ Len(stray) = 1 /\ stray[1] = NotADeployScript(net)
    BY Tuple1
  <2>2. FileOk(NotADeployScript(net), 36)
    BY NotADeployScriptFile
  <2>3. IsList(<<>>) /\ Len(<<>>) = 0
    BY DEF IsList
  <2>4. IsList(stray) /\ Len(stray) \in 0..1 /\ \A k \in 1..Len(stray) : FileOk(stray[k], 36)
    <3> HIDE DEF stray
    <3> QED  BY <2>1, <2>2
  <2>5. IsList(<<>>) /\ Len(<<>>) \in 0..1 /\ \A k \in 1..Len(<<>>) : FileOk(<<>>[k], 36)
    BY <2>3
  <2>6. mid = stray \/ mid = <<>>
    BY DEF If
  <2> HIDE DEF stray, mid
  <2> QED  BY <2>4, <2>5, <2>6
<1> HIDE DEF mid, p, f, m, stray
<1>6. /\ IsList(p) /\ Len(p) = 35 + m
      /\ \A i \in 1..35 : p[i] = core[i]
      /\ \A i \in 1..m : p[35 + i] = mid[i]
  <2>0. IsList(core) /\ IsList(mid)
    BY <1>3, <1>5
  <2>1. /\ IsList(core \o mid) /\ ToSet(core \o mid) = ToSet(core) \cup ToSet(mid)
        /\ Len(core \o mid) = Len(core) + Len(mid)
        /\ \A i \in 1..Len(core) : (core \o mid)[i] = core[i]
        /\ \A i \in 1..Len(mid) : (core \o mid)[Len(core) + i] = mid[i]
    BY <2>0, ListConcat
  <2> QED  BY <1>3, <2>1 DEF p, m
<1>7. /\ IsList(f) /\ Len(f) = (35 + m) + 12
      /\ \A i \in 1..(35 + m) : f[i] = p[i]
      /\ \A i \in 1..12 : f[(35 + m) + i] = other[i]
  <2>0. IsList(p) /\ IsList(other)
    BY <1>4, <1>6
  <2>1. /\ IsList(p \o other) /\ ToSet(p \o other) = ToSet(p) \cup ToSet(other)
        /\ Len(p \o other) = Len(p) + Len(other)
        /\ \A i \in 1..Len(p) : (p \o other)[i] = p[i]
        /\ \A i \in 1..Len(other) : (p \o other)[Len(p) + i] = other[i]
    BY <2>0, ListConcat
  <2> QED  BY <1>4, <1>6, <2>1 DEF f
<1> DEFINE n == 47 + m
<1>8. n \in 47..48 /\ DOMAIN f = 1..n
  <2>1. DOMAIN f = 1..Len(f)
    BY <1>7, ListDomain
  <2> QED  BY <1>5, <1>7, <2>1
<1>9. \A i \in 1..35 : f[i] = core[i]
  <2>1. \A i \in 1..35 : i \in 1..(35 + m)
    BY <1>5
  <2> QED  BY <1>6, <1>7, <2>1
<1>10. ASSUME NEW i \in 1..n PROVE FileOk(f[i], IF n = 48 \/ i <= 35 THEN i ELSE i + 1)
  <2>1. CASE i <= 35
    BY <1>3, <1>9, <2>1
  <2>2. CASE i > 35 /\ i <= 35 + m
    <3>1. i = 36 /\ m = 1 /\ 1 \in 1..m /\ i \in 1..(35 + m) /\ n = 48
      BY <1>5, <2>2
    <3>2. f[i] = p[36] /\ p[36] = mid[1]
      BY <1>6, <1>7, <3>1
    <3> QED  BY <1>5, <3>1, <3>2
  <2>3. CASE i > 35 + m
    <3> DEFINE k == i - (35 + m)
    <3>1. k \in 1..12 /\ (35 + m) + k = i
      BY <1>5, <2>3
    <3>2. 36 + k = IF n = 48 \/ i <= 35 THEN i ELSE i + 1
      BY <1>5, <2>3
    <3> HIDE DEF k
    <3> QED  BY <1>4, <1>7, <3>1, <3>2
  <2> QED  BY <1>5, <2>1, <2>2, <2>3
<1>11. 21 \in 1..35 /\ 23 \in 1..35 /\ 35 \in 1..35
  OBVIOUS
<1>12. FilesAre(f, net, n)
  BY <1>2, <1>8, <1>9, <1>10, <1>11 DEF FilesAre
<1> QED  BY <1>1, <1>12

\* What the invariants need of a plan, and of the maintenance scripts.
PlanOk(q) ==
  /\ Len(q) \in Nat \ {0} /\ DOMAIN q = 1..Len(q)
  /\ \A i \in 1..Len(q) : Sound(q[i])
  /\ \A i, j \in 1..Len(q) : q[i].id = q[j].id => i = j
  /\ ~q[Len(q)].once
  /\ \A i \in 1..Len(q) : q[i].id = "disable_market_pause" =>
       \E j \in 1..(i - 1) : q[j].id = "configure_markets"

\* The order hardhat-deploy runs the scripts in is such a plan, whatever the network.
THEOREM PlanIsOk ==
  ASSUME NEW net
  PROVE  PlanOk(RunOrder(Files(net)))
<1> DEFINE f == Files(net)  q == RunOrder(f)
<1>1. PICK n : FilesAre(f, net, n)
  BY FilesAt
<1> HIDE DEF f
<1> DEFINE At(i) == IF n = 48 \/ i <= 35 THEN i ELSE i + 1
<1>2. n \in Nat /\ n \in 47..48 /\ DOMAIN f = 1..n /\ \A i \in 1..n : FileOk(f[i], At(i))
  BY <1>1 DEF FilesAre
<1>3. FileList(f, n)
  <2>1. \A i \in 1..n : \E m \in Nat : DOMAIN f[i].deps = 1..m
    <3> TAKE i \in 1..n
    <3>1. f[i].deps \in Seq(DepTags)
      BY <1>2 DEF FileOk
    <3> HIDE DEF f
    <3>2. Len(f[i].deps) \in Nat /\ DOMAIN f[i].deps = 1..Len(f[i].deps)
      BY <3>1, LenProperties
    <3> QED  BY <3>2
  <2> QED  BY <1>2, <2>1 DEF FileList
<1>4. \A i \in 1..n : f[i].atEnd \in BOOLEAN
  BY <1>2 DEF FileOk
<1>5. PICK sorted : InOrder(f, n, sorted) /\ RunOrder(f) = [j \in DOMAIN sorted |-> f[sorted[j]]]
  BY <1>3, <1>4, RunOrderSorts
<1> DEFINE l == Len(sorted)
<1>6. /\ sorted \in Seq(1..n) /\ Distinct(sorted) /\ ToSet(sorted) = 1..n
      /\ \A e \in 1..n : f[e].atEnd => l \in 1..l /\ f[sorted[l]].atEnd
      /\ \A a, b \in 1..n :
           /\ a < b /\ ~f[a].atEnd /\ ~f[b].atEnd
           /\ \A i \in 1..n : \A k \in DOMAIN f[i].deps : f[i].deps[k] \notin f[b].tags
           => Leads(sorted, a, b)
  BY <1>5 DEF InOrder
<1>7. DOMAIN sorted = 1..l /\ l \in Nat /\ \A j \in 1..l : sorted[j] \in 1..n
  BY <1>6, LenProperties, ElementOfSeq
<1>8. 21 \in 1..n /\ 23 \in 1..n /\ 35 \in 1..n
  BY <1>2
<1>9. l \in 1..l /\ f[sorted[l]].atEnd
  <2>1. f[35].atEnd
    BY <1>1, ExportDeployFile DEF FilesAre
  <2> QED  BY <1>6, <1>8, <2>1
<1>10. DOMAIN q = 1..l /\ Len(q) = l /\ \A j \in 1..l : q[j] = f[sorted[j]]
  BY <1>5, <1>7
<1> HIDE DEF q, l
<1>11. ~q[l].once
  BY <1>2, <1>7, <1>9, <1>10 DEF FileOk
<1>12. \A i \in 1..l : Sound(q[i])
  BY <1>2, <1>7, <1>10 DEF FileOk
<1>13. \A i, j \in 1..l : sorted[i] = sorted[j] => i = j
  BY <1>6, <1>7 DEF Distinct
<1>14. \A i, j \in 1..n : At(i) = At(j) => i = j
  BY <1>2
<1>15. \A i, j \in 1..l : q[i].id = q[j].id => i = j
  <2> SUFFICES ASSUME NEW i \in 1..l, NEW j \in 1..l, q[i].id = q[j].id PROVE i = j
    OBVIOUS
  <2>1. Place(q[i].id) = At(sorted[i]) /\ Place(q[j].id) = At(sorted[j])
    BY <1>2, <1>7, <1>10 DEF FileOk
  <2> HIDE DEF At
  <2>2. sorted[i] = sorted[j]
    BY <1>7, <1>14, <2>1
  <2> QED  BY <1>13, <2>2
<1>16. Leads(sorted, 21, 23)
  <2>1. f[23].tags = {"disable_market_pause"}
    BY <1>1, DisableMarketPauseFile DEF FilesAre
  <2>2. ASSUME NEW i \in 1..n, NEW k \in DOMAIN f[i].deps
        PROVE  f[i].deps[k] \notin f[23].tags
    <3>1. f[i].deps \in Seq(DepTags)
      BY <1>2 DEF FileOk
    <3>2. f[i].deps[k] \in DepTags
      BY <3>1
    <3>3. "disable_market_pause" \notin DepTags
      BY DEF DepTags
    <3> QED  BY <2>1, <3>2, <3>3
  <2>3. ~f[21].atEnd /\ ~f[23].atEnd
    <3>1. ConfigureMarkets(net).atEnd = FALSE
      BY DEF ConfigureMarkets, Step
    <3>2. DisableMarketPause(net).atEnd = FALSE
      BY DEF DisableMarketPause, Step
    <3> QED  BY <1>1, <3>1, <3>2 DEF FilesAre
  <2> QED  BY <1>6, <1>8, <2>2, <2>3
<1>17. ASSUME NEW i \in 1..l, q[i].id = "disable_market_pause"
       PROVE  \E j \in 1..(i - 1) : q[j].id = "configure_markets"
  <2>1. Place("disable_market_pause") = 23 /\ Place("configure_markets") = 21
    BY DEF Place
  <2>2. Place(q[i].id) = At(sorted[i]) /\ At(23) = 23
    BY <1>2, <1>7, <1>10 DEF FileOk
  <2>3. sorted[i] = 23
    BY <1>7, <1>8, <1>14, <1>17, <2>1, <2>2
  <2>4. PICK j \in 1..l : j < i /\ sorted[j] = 21
    BY <1>7, <1>16, <2>3 DEF Leads
  <2>5. q[j].id = "configure_markets"
    <3>1. ConfigureMarkets(net).id = "configure_markets"
      BY DEF ConfigureMarkets, Step
    <3> QED  BY <1>1, <1>10, <2>4, <3>1 DEF FilesAre
  <2>6. j \in 1..(i - 1)
    BY <1>7, <2>4
  <2> QED  BY <2>5, <2>6
<1> QED  BY <1>7, <1>9, <1>10, <1>11, <1>12, <1>15, <1>17 DEF PlanOk, q, f

\* What the invariants need of the maintenance scripts.
JobsOk(q) == DOMAIN q = 1..14 /\ \A i \in 1..14 : Sound(q[i]) /\ q[i].once = FALSE

\* The maintenance scripts have it on every network.
LEMMA JobsAreOk ==
  ASSUME NEW net
  PROVE  JobsOk(Jobs(net))
<1> DEFINE q == Jobs(net)
<1>1. DOMAIN q = 1..14
  BY DEF Jobs
<1>2. /\ q[1] = SetReserveFactor /\ q[2] = SetRates /\ q[3] = SetAllocPoints /\
         q[4] = SetRps(net) /\ q[5] = ParamsSetRps(net) /\ q[6] = ParamsSetAps(net) /\
         q[7] = ParamsSetRates(net) /\ q[8] = Populate(net) /\ q[9] = SetOracle /\
         q[10] = SetPool /\ q[11] = SetPrntPP /\ q[12] = SetTreasury /\ q[13] = Recover /\
         q[14] = UpdatePrice
  BY DEF Jobs
<1>3. ASSUME NEW s, AllQuiet(s.calls), s.once = FALSE, s.id \notin Marked
      PROVE  Sound(s) /\ s.once = FALSE
  BY <1>3, QuietSound
<1> HIDE DEF q
<1>4. ASSUME NEW k \in 1..14 PROVE Sound(q[k]) /\ q[k].once = FALSE
  <2>1. CASE k = 1
    BY <1>2, <2>1, SetReserveFactorSound
  <2>2. CASE k = 2
    <3>1. SetRates.id = "setRates" /\ SetRates.once = FALSE
      BY DEF SetRates, Job, Plain
    <3>2. "setRates" \notin Marked
      BY DEF Marked, Conditional, Guarded, Payers
    <3>3. AllQuiet(SetRates.calls)
      BY SetRatesCalls
    <3>4. Sound(SetRates)
      BY <3>1, <3>2, <3>3, <1>3
    <3> QED  BY <1>2, <2>2, <3>1, <3>4
  <2>3. CASE k = 3
    <3>1. SetAllocPoints.id = "setAllocPoints" /\ SetAllocPoints.once = FALSE
      BY DEF SetAllocPoints, Job, Plain
    <3>2. "setAllocPoints" \notin Marked
      BY DEF Marked, Conditional, Guarded, Payers
    <3>3. AllQuiet(SetAllocPoints.calls)
      BY SetAllocPointsCalls
    <3>4. Sound(SetAllocPoints)
      BY <3>1, <3>2, <3>3, <1>3
    <3> QED  BY <1>2, <2>3, <3>1, <3>4
  <2>4. CASE k = 4
    <3>1. SetRps(net).id = "setRps" /\ SetRps(net).once = FALSE
      BY DEF SetRps, Job, Plain
    <3>2. "setRps" \notin Marked
      BY DEF Marked, Conditional, Guarded, Payers
    <3>3. AllQuiet(SetRps(net).calls)
      BY SetRpsCalls
    <3>4. Sound(SetRps(net))
      BY <3>1, <3>2, <3>3, <1>3
    <3> QED  BY <1>2, <2>4, <3>1, <3>4
  <2>5. CASE k = 5
    <3>1. ParamsSetRps(net).id = "params/setRps" /\ ParamsSetRps(net).once = FALSE
      BY DEF ParamsSetRps, Job, Plain
    <3>2. "params/setRps" \notin Marked
      BY DEF Marked, Conditional, Guarded, Payers
    <3>3. AllQuiet(ParamsSetRps(net).calls)
      BY ParamsSetRpsCalls
    <3>4. Sound(ParamsSetRps(net))
      BY <3>1, <3>2, <3>3, <1>3
    <3> QED  BY <1>2, <2>5, <3>1, <3>4
  <2>6. CASE k = 6
    <3>1. ParamsSetAps(net).id = "params/setAps" /\ ParamsSetAps(net).once = FALSE
      BY DEF ParamsSetAps, Job, Plain
    <3>2. "params/setAps" \notin Marked
      BY DEF Marked, Conditional, Guarded, Payers
    <3>3. AllQuiet(ParamsSetAps(net).calls)
      BY ParamsSetApsCalls
    <3>4. Sound(ParamsSetAps(net))
      BY <3>1, <3>2, <3>3, <1>3
    <3> QED  BY <1>2, <2>6, <3>1, <3>4
  <2>7. CASE k = 7
    <3>1. ParamsSetRates(net).id = "params/setRates" /\ ParamsSetRates(net).once = FALSE
      BY DEF ParamsSetRates, Job, Plain
    <3>2. "params/setRates" \notin Marked
      BY DEF Marked, Conditional, Guarded, Payers
    <3>3. AllQuiet(ParamsSetRates(net).calls)
      BY ParamsSetRatesCalls
    <3>4. Sound(ParamsSetRates(net))
      BY <3>1, <3>2, <3>3, <1>3
    <3> QED  BY <1>2, <2>7, <3>1, <3>4
  <2>8. CASE k = 8
    <3>1. Populate(net).id = "params/populate" /\ Populate(net).once = FALSE
      BY DEF Populate, Job, Plain
    <3>2. "params/populate" \notin Marked
      BY DEF Marked, Conditional, Guarded, Payers
    <3>3. AllQuiet(Populate(net).calls)
      BY PopulateCalls
    <3>4. Sound(Populate(net))
      BY <3>1, <3>2, <3>3, <1>3
    <3> QED  BY <1>2, <2>8, <3>1, <3>4
  <2>9. CASE k = 9
    <3>1. SetOracle.id = "setOracle" /\ SetOracle.once = FALSE
      BY DEF SetOracle, Job, Plain
    <3>2. "setOracle" \notin Marked
      BY DEF Marked, Conditional, Guarded, Payers
    <3>3. AllQuiet(SetOracle.calls)
      BY SetOracleCalls
    <3>4. Sound(SetOracle)
      BY <3>1, <3>2, <3>3, <1>3
    <3> QED  BY <1>2, <2>9, <3>1, <3>4
  <2>10. CASE k = 10
    <3>1. SetPool.id = "setPool" /\ SetPool.once = FALSE
      BY DEF SetPool, Job, Plain
    <3>2. "setPool" \notin Marked
      BY DEF Marked, Conditional, Guarded, Payers
    <3>3. AllQuiet(SetPool.calls)
      BY SetPoolCalls
    <3>4. Sound(SetPool)
      BY <3>1, <3>2, <3>3, <1>3
    <3> QED  BY <1>2, <2>10, <3>1, <3>4
  <2>11. CASE k = 11
    <3>1. SetPrntPP.id = "setPrntPP" /\ SetPrntPP.once = FALSE
      BY DEF SetPrntPP, Job, Plain
    <3>2. "setPrntPP" \notin Marked
      BY DEF Marked, Conditional, Guarded, Payers
    <3>3. AllQuiet(SetPrntPP.calls)
      BY SetPrntPPCalls
    <3>4. Sound(SetPrntPP)
      BY <3>1, <3>2, <3>3, <1>3
    <3> QED  BY <1>2, <2>11, <3>1, <3>4
  <2>12. CASE k = 12
    <3>1. SetTreasury.id = "setTreasury" /\ SetTreasury.once = FALSE
      BY DEF SetTreasury, Job, Plain
    <3>2. "setTreasury" \notin Marked
      BY DEF Marked, Conditional, Guarded, Payers
    <3>3. AllQuiet(SetTreasury.calls)
      BY SetTreasuryCalls
    <3>4. Sound(SetTreasury)
      BY <3>1, <3>2, <3>3, <1>3
    <3> QED  BY <1>2, <2>12, <3>1, <3>4
  <2>13. CASE k = 13
    <3>1. Recover.id = "recover" /\ Recover.once = FALSE
      BY DEF Recover, Job, Plain
    <3>2. "recover" \notin Marked
      BY DEF Marked, Conditional, Guarded, Payers
    <3>3. AllQuiet(Recover.calls)
      BY RecoverCalls
    <3>4. Sound(Recover)
      BY <3>1, <3>2, <3>3, <1>3
    <3> QED  BY <1>2, <2>13, <3>1, <3>4
  <2>14. CASE k = 14
    <3>1. UpdatePrice.id = "updatePrice" /\ UpdatePrice.once = FALSE
      BY DEF UpdatePrice, Job, Plain
    <3>2. "updatePrice" \notin Marked
      BY DEF Marked, Conditional, Guarded, Payers
    <3>3. AllQuiet(UpdatePrice.calls)
      BY UpdatePriceCalls
    <3>4. Sound(UpdatePrice)
      BY <3>1, <3>2, <3>3, <1>3
    <3> QED  BY <1>2, <2>14, <3>1, <3>4
  <2>15. k = 1 \/ k = 2 \/ k = 3 \/ k = 4 \/ k = 5 \/ k = 6 \/ k = 7 \/ k = 8 \/ k = 9 \/
        k = 10 \/ k = 11 \/ k = 12 \/ k = 13 \/ k = 14
    OBVIOUS
  <2> QED  BY <2>1, <2>2, <2>3, <2>4, <2>5, <2>6, <2>7, <2>8, <2>9, <2>10, <2>11, <2>12, <2>13,
          <2>14, <2>15
<1> QED  BY <1>1, <1>4 DEF JobsOk, q

-----------------------------------------------------------------------------
(* Scripts that run every time.                                            *)

\* The call at place j is in a block behind a test.
Covered(q, j) == \E w \in 1..(j - 1) : q[w].op = "when" /\ j <= w + q[w].n

\* The methods that may be called again: the call changes nothing but the
\* list of the calls made.
Repeatable == {"setBounties", "setUsePool"}
Again(k)   == k.f \in Repeatable

\* What a test of a script that runs every time looks at: whether the
\* contract was deployed just now, or whether it has a deployment, which
\* the block then makes first.
CalmTest(q, j) ==
  \/ q[j].test = "fresh"
  \/ q[j].test = "missing" /\ j + 1 <= Len(q) /\ q[j + 1].op = "deploy" /\ q[j + 1].c = q[j].x
     /\ q[j].n > 0

\* A list of calls that finds its own work done: blocks are not nested, and
\* calls outside of them can be repeated.
Calm(q) ==
  /\ IsList(q) /\ Bounded(q)
  /\ \A j \in 1..Len(q) : q[j].op \in {"get", "deploy", "when", "call"}
  /\ \A j \in 1..Len(q) : q[j].op = "when" =>
       q[j].n \in Nat /\ CalmTest(q, j) /\ \A i \in 1..q[j].n : q[j + i].op # "when"
  /\ \A j \in 1..Len(q) : q[j].op = "call" => Covered(q, j) \/ Again(q[j])

\* A list without blocks.
Straight(q) == IsList(q) /\ \A k \in ToSet(q) : k.op \in {"get", "deploy"}

\* A list of reads and deployments is calm.
LEMMA StraightIsCalm ==
  ASSUME NEW q, Straight(q)
  PROVE  Calm(q)
<1>1. \A j \in 1..Len(q) : q[j].op \in {"get", "deploy"}
  BY ListDomain DEF Straight
<1> QED  BY <1>1 DEF Calm, Bounded, Straight

\* The calls of a concatenation.
LEMMA CalmConcat ==
  ASSUME NEW p, NEW q, Calm(p), Calm(q)
  PROVE  Calm(p \o q)
<1> DEFINE a == Len(p)  b == Len(q)  r == p \o q
<1>1. IsList(p) /\ IsList(q) /\ Bounded(p) /\ Bounded(q)
  BY DEF Calm
<1>2. /\ IsList(r) /\ Len(r) = a + b
      /\ \A i \in 1..a : r[i] = p[i]
      /\ \A i \in 1..b : r[a + i] = q[i]
  <2>1. /\ IsList(p \o q) /\ ToSet(p \o q) = ToSet(p) \cup ToSet(q)
        /\ Len(p \o q) = Len(p) + Len(q)
        /\ \A i \in 1..Len(p) : (p \o q)[i] = p[i]
        /\ \A i \in 1..Len(q) : (p \o q)[Len(p) + i] = q[i]
    BY <1>1, ListConcat
  <2> QED  BY <2>1
<1>3. a \in Nat /\ b \in Nat
  BY <1>1, ListDomain
<1> HIDE DEF r
<1>4. \A j \in 1..a : p[j].op = "when" => p[j].n \in Nat /\ j + p[j].n <= a
  BY <1>1 DEF Calm, Bounded
<1>5. \A j \in 1..b : q[j].op = "when" => q[j].n \in Nat /\ j + q[j].n <= b
  BY <1>1 DEF Calm, Bounded
<1>6. /\ \A j \in 1..a : p[j].op \in {"get", "deploy", "when", "call"}
      /\ \A j \in 1..b : q[j].op \in {"get", "deploy", "when", "call"}
  BY DEF Calm
<1>7. /\ \A j \in 1..a : p[j].op = "when" => CalmTest(p, j) /\ \A i \in 1..p[j].n : p[j + i].op # "when"
      /\ \A j \in 1..b : q[j].op = "when" => CalmTest(q, j) /\ \A i \in 1..q[j].n : q[j + i].op # "when"
  BY DEF Calm
<1>8. /\ \A j \in 1..a : p[j].op = "call" => Covered(p, j) \/ Again(p[j])
      /\ \A j \in 1..b : q[j].op = "call" => Covered(q, j) \/ Again(q[j])
  BY DEF Calm
<1> HIDE DEF a, b
<1>9. \A j \in 1..(a + b) : j \in 1..a \/ (j - a \in 1..b /\ a + (j - a) = j)
  BY <1>3
<1>10. Bounded(r)
  <2> SUFFICES ASSUME NEW j \in 1..(a + b), r[j].op = "when" PROVE j + r[j].n <= a + b
    BY <1>2 DEF Bounded
  <2>1. CASE j \in 1..a
    <3>1. r[j] = p[j]
      BY <1>2, <2>1
    <3>2. p[j].n \in Nat /\ j + p[j].n <= a
      BY <1>4, <2>1, <3>1
    <3> QED  BY <1>3, <3>1, <3>2
  <2>2. CASE j - a \in 1..b /\ a + (j - a) = j
    <3> DEFINE i == j - a
    <3>1. r[j] = q[i] /\ i \in 1..b
      BY <1>2, <2>2
    <3>2. q[i].n \in Nat /\ i + q[i].n <= b
      <4> HIDE DEF i
      <4> QED  BY <1>5, <3>1
    <3> QED  BY <1>3, <3>1, <3>2
  <2> QED  BY <1>9, <2>1, <2>2
<1>11. \A j \in 1..(a + b) : r[j].op \in {"get", "deploy", "when", "call"}
  BY <1>2, <1>6, <1>9
<1>12. ASSUME NEW j \in 1..(a + b), r[j].op = "when"
       PROVE  r[j].n \in Nat /\ CalmTest(r, j) /\ \A i \in 1..r[j].n : r[j + i].op # "when"
  <2>1. CASE j \in 1..a
    <3>1. r[j] = p[j]
      BY <1>2, <2>1
    <3>2. p[j].n \in Nat /\ j + p[j].n <= a /\ CalmTest(p, j) /\
      \A i \in 1..p[j].n : p[j + i].op # "when"
      BY <1>4, <1>7, <1>12, <2>1, <3>1
    <3>3. \A i \in 1..p[j].n : j + i \in 1..a /\ r[j + i] = p[j + i]
      <4>1. \A i \in 1..p[j].n : j + i \in 1..a
        BY <1>3, <2>1, <3>2
      <4> QED  BY <1>2, <4>1
    <3>4. CalmTest(r, j)
      <4>1. CASE p[j].test = "fresh"
        BY <3>1, <4>1 DEF CalmTest
      <4>2. CASE /\ p[j].test = "missing" /\ j + 1 <= Len(p) /\ p[j + 1].op = "deploy" /\
                      p[j + 1].c = p[j].x
                 /\ p[j].n > 0
        <5>1. j + 1 \in 1..a /\ j + 1 <= a + b
          BY <1>3, <2>1, <4>2 DEF a
        <5>2. r[j + 1] = p[j + 1]
          BY <1>2, <5>1
        <5> QED  BY <1>2, <3>1, <4>2, <5>1, <5>2 DEF CalmTest
      <4> QED  BY <3>2, <4>1, <4>2 DEF CalmTest
    <3> QED  BY <3>1, <3>2, <3>3, <3>4
  <2>2. CASE j - a \in 1..b /\ a + (j - a) = j
    <3> DEFINE m == j - a
    <3>1. r[j] = q[m] /\ m \in 1..b /\ a + m = j
      BY <1>2, <2>2
    <3> HIDE DEF m
    <3>2. q[m].n \in Nat /\ m + q[m].n <= b /\ CalmTest(q, m) /\
      \A i \in 1..q[m].n : q[m + i].op # "when"
      BY <1>5, <1>7, <1>12, <3>1
    <3>3. \A i \in 1..q[m].n : m + i \in 1..b /\ r[j + i] = q[m + i]
      <4>1. \A i \in 1..q[m].n : m + i \in 1..b /\ a + (m + i) = j + i
        BY <1>3, <3>1, <3>2
      <4> QED  BY <1>2, <4>1
    <3>4. CalmTest(r, j)
      <4>1. CASE q[m].test = "fresh"
        BY <3>1, <4>1 DEF CalmTest
      <4>2. CASE /\ q[m].test = "missing" /\ m + 1 <= Len(q) /\ q[m + 1].op = "deploy" /\
                      q[m + 1].c = q[m].x
                 /\ q[m].n > 0
        <5>1. m + 1 \in 1..b /\ a + (m + 1) = j + 1 /\ j + 1 <= a + b
          BY <1>3, <3>1, <4>2 DEF b
        <5>2. r[j + 1] = q[m + 1]
          BY <1>2, <5>1
        <5> QED  BY <1>2, <3>1, <4>2, <5>1, <5>2 DEF CalmTest
      <4> QED  BY <3>2, <4>1, <4>2 DEF CalmTest
    <3> QED  BY <3>1, <3>2, <3>3, <3>4
  <2> QED  BY <1>9, <2>1, <2>2
<1>13. ASSUME NEW j \in 1..(a + b), r[j].op = "call" PROVE Covered(r, j) \/ Again(r[j])
  <2>1. CASE j \in 1..a
    <3>1. r[j] = p[j]
      BY <1>2, <2>1
    <3>2. CASE Covered(p, j)
      <4>1. PICK w \in 1..(j - 1) : p[w].op = "when" /\ j <= w + p[w].n
        BY <3>2 DEF Covered
      <4>2. w \in 1..a
        BY <1>3, <2>1
      <4> QED  BY <1>2, <4>1, <4>2 DEF Covered
    <3> QED  BY <1>8, <1>13, <2>1, <3>1, <3>2
  <2>2. CASE j - a \in 1..b /\ a + (j - a) = j
    <3> DEFINE m == j - a
    <3>1. r[j] = q[m] /\ m \in 1..b /\ a + m = j
      BY <1>2, <2>2
    <3> HIDE DEF m
    <3>2. CASE Covered(q, m)
      <4>1. PICK w \in 1..(m - 1) : q[w].op = "when" /\ m <= w + q[w].n
        BY <3>2 DEF Covered
      <4>2. w \in 1..b /\ a + w \in 1..(j - 1)
        BY <1>3, <3>1
      <4>3. r[a + w] = q[w] /\ q[w].n \in Nat
        BY <1>2, <1>5, <4>1, <4>2
      <4>4. j <= (a + w) + r[a + w].n
        BY <1>3, <3>1, <4>1, <4>3
      <4> QED  BY <4>1, <4>2, <4>3, <4>4 DEF Covered
    <3> QED  BY <1>8, <1>13, <3>1, <3>2
  <2> QED  BY <1>9, <2>1, <2>2
<1>14. Len(r) = a + b
  BY <1>2
<1> QED  BY <1>2, <1>10, <1>11, <1>12, <1>13, <1>14 DEF Calm, r

\* A block behind a test that a script which runs every time may ask.
LEMMA CalmWhen ==
  ASSUME NEW t, NEW x, NEW block, IsList(block),
         \A k \in ToSet(block) : k.op \in {"get", "deploy", "call"},
         \/ t = "fresh"
         \/ t = "missing" /\ Len(block) > 0 /\ block[1].op = "deploy" /\ block[1].c = x
  PROVE  Calm(When(t, x, block))
<1> DEFINE w == [op |-> "when", test |-> t, x |-> x, n |-> Len(block)]
           p == <<w>>
           a == Len(block)
           r == When(t, x, block)
<1>1. a \in Nat /\ \A i \in 1..a : block[i] \in ToSet(block)
  BY ListDomain
<1>2. r = p \o block
  BY DEF When
<1>3. IsList(p) /\ ToSet(p) = {w} /\ Len(p) = 1 /\ p[1] = w
  BY Tuple1
<1>4. w.op = "when" /\ w.n = a /\ w.test = t /\ w.x = x
  OBVIOUS
<1> HIDE DEF w, p, a, r
<1>5. /\ IsList(r) /\ Len(r) = 1 + a
      /\ r[1] = w
      /\ \A i \in 1..a : r[1 + i] = block[i]
  <2>1. /\ IsList(p \o block) /\ ToSet(p \o block) = ToSet(p) \cup ToSet(block)
        /\ Len(p \o block) = Len(p) + Len(block)
        /\ \A i \in 1..Len(p) : (p \o block)[i] = p[i]
        /\ \A i \in 1..Len(block) : (p \o block)[Len(p) + i] = block[i]
    <3>1. IsList(p)
      BY <1>3
    <3> QED  BY <3>1, ListConcat
  <2>2. 1 \in 1..1
    OBVIOUS
  <2> QED  BY <1>2, <1>3, <2>1, <2>2 DEF a
<1>6. \A i \in 1..a : block[i].op \in {"get", "deploy", "call"}
  BY <1>1
<1>7. \A j \in 1..(1 + a) : j = 1 \/ (j - 1 \in 1..a /\ 1 + (j - 1) = j)
  BY <1>1
<1>8. ASSUME NEW j \in 1..(1 + a), j # 1
      PROVE  r[j].op \in {"get", "deploy", "call"}
  <2>1. j - 1 \in 1..a /\ 1 + (j - 1) = j
    BY <1>7, <1>8
  <2>2. r[1 + (j - 1)] = block[j - 1] /\ block[j - 1].op \in {"get", "deploy", "call"}
    BY <1>5, <1>6, <2>1
  <2> QED  BY <2>1, <2>2
<1>9. Bounded(r)
  <2> SUFFICES ASSUME NEW j \in 1..(1 + a), r[j].op = "when" PROVE j + r[j].n <= 1 + a
    BY <1>5 DEF Bounded
  <2>1. j = 1
    BY <1>8
  <2> QED  BY <1>1, <1>4, <1>5, <2>1
<1>10. \A j \in 1..(1 + a) : r[j].op \in {"get", "deploy", "when", "call"}
  BY <1>4, <1>5, <1>8
<1>11. CalmTest(r, 1)
  <2>1. CASE t = "fresh"
    BY <1>4, <1>5, <2>1 DEF CalmTest
  <2>2. CASE t = "missing" /\ Len(block) > 0 /\ block[1].op = "deploy" /\ block[1].c = x
    <3>1. 1 \in 1..a /\ 1 + 1 <= 1 + a /\ a > 0
      BY <1>1, <2>2 DEF a
    <3>2. r[1 + 1] = block[1]
      BY <1>5, <3>1
    <3> QED  BY <1>4, <1>5, <2>2, <3>1, <3>2 DEF CalmTest
  <2> QED  BY <2>1, <2>2
<1>12. ASSUME NEW j \in 1..(1 + a), r[j].op = "when"
       PROVE  r[j].n \in Nat /\ CalmTest(r, j) /\ \A i \in 1..r[j].n : r[j + i].op # "when"
  <2>1. j = 1
    BY <1>8, <1>12
  <2>2. \A i \in 1..a : r[1 + i].op # "when"
    BY <1>5, <1>6
  <2> QED  BY <1>1, <1>4, <1>5, <1>11, <2>1, <2>2
<1>13. ASSUME NEW j \in 1..(1 + a), r[j].op = "call" PROVE Covered(r, j)
  <2>1. j # 1
    BY <1>4, <1>5, <1>13
  <2>2. 1 \in 1..(j - 1) /\ j <= 1 + a
    BY <1>1, <2>1
  <2> QED  BY <1>4, <1>5, <2>2 DEF Covered
<1>14. Len(r) = 1 + a
  BY <1>5
<1> QED  BY <1>5, <1>9, <1>10, <1>12, <1>13, <1>14 DEF Calm, r

\* No call, and a list that a condition leaves out.
LEMMA CalmNone == Calm(<<>>)
<1>1. IsList(<<>>) /\ ToSet(<<>>) = {}
  BY QuietNone DEF AllQuiet, ToSet
<1> QED  BY <1>1, StraightIsCalm DEF Straight

\* A list that a condition leaves out.
LEMMA CalmIf ==
  ASSUME NEW b, NEW q, b => Calm(q)
  PROVE  Calm(If(b, q))
  BY CalmNone DEF If

\* A concatenation of finitely many calm lists.
LEMMA CalmFlat ==
  ASSUME NEW n \in Nat, NEW D, D = 1..n, NEW parts, parts = [i \in D |-> parts[i]],
         \A i \in D : Calm(parts[i])
  PROVE  Calm(FlattenSeq(parts))
<1> DEFINE S == UNION {ToSet(parts[i]) : i \in D}
<1>1. \A i \in D : ToSet(parts[i]) \subseteq S
  OBVIOUS
<1> HIDE DEF S
<1>2. \A i \in D : parts[i] \in Seq(S)
  BY <1>1, SeqMonotonic DEF IsList, Calm
<1>3. parts \in Seq(Seq(S)) /\ Len(parts) = n
  BY <1>2, SeqFromTo
<1>4. PICK f : IsFlatTable(f, parts, S) /\ FlattenSeq(parts) = f[Len(parts)]
  BY <1>3, FlatTable
<1> DEFINE Good == {q \in Seq(S) : Calm(q)}
<1>5. f[0] \in Good
  <2>1. 0 \in 0..n
    OBVIOUS
  <2> QED  BY <1>3, <1>4, <2>1, CalmNone DEF IsFlatTable
<1>6. \A i \in 1..n : f[i - 1] \in Good => f[i] \in Good
  <2> SUFFICES ASSUME NEW i \in 1..n, f[i - 1] \in Good PROVE f[i] \in Good
    OBVIOUS
  <2>1. f[i] = f[i - 1] \o parts[i] /\ f[i] \in Seq(S)
    <3>1. i \in 0..n
      OBVIOUS
    <3> QED  BY <1>3, <1>4, <3>1 DEF IsFlatTable
  <2>2. Calm(f[i - 1] \o parts[i])
    BY CalmConcat
  <2> QED  BY <2>1, <2>2
<1> HIDE DEF Good
<1>7. \A i \in 0..n : f[i] \in Good
  BY <1>5, <1>6, LoopKeeps
<1>8. n \in 0..n
  OBVIOUS
<1> QED  BY <1>3, <1>4, <1>7, <1>8 DEF Good

\* Reads and deployments, in the forms the scripts write them.
LEMMA Straight1 ==
  ASSUME NEW k, k.op \in {"get", "deploy"}
  PROVE  Straight(<<k>>) /\ Calm(<<k>>)
<1>1. IsList(<<k>>) /\ ToSet(<<k>>) = {k}
  BY Tuple1
<1> QED  BY <1>1, StraightIsCalm DEF Straight

\* Two.
LEMMA Straight2 ==
  ASSUME NEW k, NEW l, k.op \in {"get", "deploy"}, l.op \in {"get", "deploy"}
  PROVE  Calm(<<k, l>>)
<1>1. IsList(<<k, l>>) /\ ToSet(<<k, l>>) = {k, l}
  BY Tuple2
<1>2. Straight(<<k, l>>)
  BY <1>1 DEF Straight
<1> QED  BY <1>2, StraightIsCalm

\* Three.
LEMMA Straight3 ==
  ASSUME NEW k, NEW l, NEW m, k.op \in {"get", "deploy"}, l.op \in {"get", "deploy"},
         m.op \in {"get", "deploy"}
  PROVE  Calm(<<k, l, m>>)
<1>1. IsList(<<k, l, m>>) /\ ToSet(<<k, l, m>>) = {k, l, m}
  BY Tuple3
<1>2. Straight(<<k, l, m>>)
  BY <1>1 DEF Straight
<1> QED  BY <1>2, StraightIsCalm

\* What they do.
LEMMA StraightCalls == (\A s : Get(s).op = "get") /\ (\A c : Deploy(c).op = "deploy" /\ Deploy(c).c = c)
  BY DEF Get, Deploy

\* A list of deployments.
LEMMA CalmDeployAll ==
  ASSUME NEW s, NEW n \in Nat, DOMAIN s = 1..n
  PROVE  Calm(DeployAll(s))
<1> DEFINE q == DeployAll(s)
<1>1. DOMAIN q = 1..n /\ q = [i \in 1..n |-> q[i]] /\ \A i \in 1..n : q[i].op = "deploy"
  BY DEF DeployAll, Deploy
<1> HIDE DEF q
<1>2. IsList(q)
  <2>1. \A i \in 1..n : q[i] \in ToSet(q)
    BY <1>1 DEF ToSet
  <2> QED  BY <1>1, <2>1, SeqFromTo DEF IsList
<1>3. \A k \in ToSet(q) : k.op \in {"get", "deploy"}
  BY <1>1 DEF ToSet
<1>4. Straight(q)
  BY <1>2, <1>3 DEF Straight
<1> QED  BY <1>4, StraightIsCalm DEF q

\* The references to the tokens and to the router.
LEMMA CalmRefs ==
  ASSUME NEW net
  PROVE  Calm(TokenRefs(net)) /\ Calm(Router(net)) /\ \A s : Calm(<<Get(s)>>) /\
           \A c : Calm(<<Deploy(c)>>)
<1>1. ASSUME NEW s PROVE Calm(<<Get(s)>>)
  BY StraightCalls, Straight1
<1>2. ASSUME NEW c PROVE Calm(<<Deploy(c)>>)
  BY StraightCalls, Straight1
<1> QED  BY <1>1, <1>2, CalmIf DEF TokenRefs, Router

\* A script that is run once, or one that finds its own work done.
Repeats(s) == s.once = TRUE \/ Calm(s.calls)

\* DeployLending finds its own work done.
LEMMA DeployLendingRepeats ==
  ASSUME NEW net
  PROVE  Repeats(DeployLending(net))
<1> DEFINE all == DeployAll(<<"LendingPoolAddressesProviderRegistry", "LendingPoolAddressesProvider",
             "ReserveLogic", "GenericLogic", "ValidationLogic", "LendingPool",
             "LendingPoolConfigurator", "StableAndVariableTokensHelper", "AToken",
             "StableDebtToken", "VariableDebtToken", "WETHGateway">>)
           s == DeployLending(net)
<1>1. s.calls = all
  BY DEF DeployLending, Step
<1>2. Calm(all)
  <2>1. Calm(all)
    <3>1. DOMAIN <<"LendingPoolAddressesProviderRegistry", "LendingPoolAddressesProvider",
             "ReserveLogic", "GenericLogic", "ValidationLogic", "LendingPool",
             "LendingPoolConfigurator", "StableAndVariableTokensHelper", "AToken",
             "StableDebtToken", "VariableDebtToken", "WETHGateway">> = 1..12
      OBVIOUS
    <3> QED  BY <3>1, CalmDeployAll
  <2> QED  BY <2>1
<1> HIDE DEF all, s
<1>3. Calm(s.calls)
  BY <1>1, <1>2, CalmConcat, CalmIf
<1> QED  BY <1>3 DEF Repeats, s

\* DeployLendingOracle finds its own work done.
LEMMA DeployLendingOracleRepeats ==
  ASSUME NEW net
  PROVE  Repeats(DeployLendingOracle(net))
<1> DEFINE get == <<Get({"LendingPoolAddressesProvider"})>>
           all == DeployAll(<<"AaveOracle", "LendingRateOracle", "AaveProtocolDataProvider">>)
           s == DeployLendingOracle(net)
<1>1. s.calls = get \o TokenRefs(net) \o all
  BY DEF DeployLendingOracle, Step
<1>2. Calm(get) /\ Calm(TokenRefs(net)) /\ Calm(all)
  <2>1. Calm(get)
    BY CalmRefs
  <2>2. Calm(TokenRefs(net))
    BY CalmRefs
  <2>3. Calm(all)
    <3>1. DOMAIN <<"AaveOracle", "LendingRateOracle", "AaveProtocolDataProvider">> = 1..3
      OBVIOUS
    <3> QED  BY <3>1, CalmDeployAll
  <2> QED  BY <2>1, <2>2, <2>3
<1> HIDE DEF get, all, s
<1>3. Calm(s.calls)
  BY <1>1, <1>2, CalmConcat, CalmIf
<1> QED  BY <1>3 DEF Repeats, s

\* DeployLockzap finds its own work done.
LEMMA DeployLockzapRepeats ==
  ASSUME NEW net
  PROVE  Repeats(DeployLockzap(net))
<1> DEFINE get == <<Get({"PoolHelper", "AaveOracle", "LendingPoolAddressesProvider", "PrimeToken"})>>
           dep == <<Deploy("LockZap")>>
           s == DeployLockzap(net)
<1>1. s.calls = get \o Router(net) \o dep
  BY DEF DeployLockzap, Step
<1>2. Calm(get) /\ Calm(Router(net)) /\ Calm(dep)
  <2>1. Calm(get)
    BY CalmRefs
  <2>2. Calm(Router(net))
    BY CalmRefs
  <2>3. Calm(dep)
    BY CalmRefs
  <2> QED  BY <2>1, <2>2, <2>3
<1> HIDE DEF get, dep, s
<1>3. Calm(s.calls)
  BY <1>1, <1>2, CalmConcat, CalmIf
<1> QED  BY <1>3 DEF Repeats, s

\* DeployPriceProvider finds its own work done.
LEMMA DeployPriceProviderRepeats ==
  ASSUME NEW net
  PROVE  Repeats(DeployPriceProvider(net))
<1> DEFINE two == <<Get({"PoolHelper", "ChainlinkAdapterWETH"}), Deploy("PriceProvider")>>
           s == DeployPriceProvider(net)
<1>1. s.calls = two
  BY DEF DeployPriceProvider, Step
<1>2. Calm(two)
  <2>1. Calm(two)
    BY StraightCalls, Straight2
  <2> QED  BY <2>1
<1> HIDE DEF two, s
<1>3. Calm(s.calls)
  BY <1>1, <1>2, CalmConcat, CalmIf
<1> QED  BY <1>3 DEF Repeats, s

\* DeployDistributors finds its own work done.
LEMMA DeployDistributorsRepeats ==
  ASSUME NEW net
  PROVE  Repeats(DeployDistributors(net))
<1> DEFINE three == <<Get({"PrimeToken", "LockZap", "PriceProvider", "AaveOracle",
                        "AaveProtocolDataProvider"}),
                    Deploy("MFD"), Deploy("MiddleFeeDistribution")>>
           s == DeployDistributors(net)
<1>1. s.calls = three
  BY DEF DeployDistributors, Step
<1>2. Calm(three)
  <2>1. Calm(three)
    BY StraightCalls, Straight3
  <2> QED  BY <2>1
<1> HIDE DEF three, s
<1>3. Calm(s.calls)
  BY <1>1, <1>2, CalmConcat, CalmIf
<1> QED  BY <1>3 DEF Repeats, s

\* DeployEdp finds its own work done.
LEMMA DeployEdpRepeats ==
  ASSUME NEW net
  PROVE  Repeats(DeployEdp(net))
<1> DEFINE two == <<Get({"PriceProvider", "LendingPoolAddressesProvider", "MiddleFeeDistribution"}),
                  Deploy("EligibilityDataProvider")>>
           s == DeployEdp(net)
<1>1. s.calls = two
  BY DEF DeployEdp, Step
<1>2. Calm(two)
  <2>1. Calm(two)
    BY StraightCalls, Straight2
  <2> QED  BY <2>1
<1> HIDE DEF two, s
<1>3. Calm(s.calls)
  BY <1>1, <1>2, CalmConcat, CalmIf
<1> QED  BY <1>3 DEF Repeats, s

\* DeployCic finds its own work done.
LEMMA DeployCicRepeats ==
  ASSUME NEW net
  PROVE  Repeats(DeployCic(net))
<1> DEFINE two == <<Get({"EligibilityDataProvider", "MiddleFeeDistribution",
                      "LendingPoolAddressesProvider"}),
                  Deploy("ChefIncentivesController")>>
           s == DeployCic(net)
<1>1. s.calls = two
  BY DEF DeployCic, Step
<1>2. Calm(two)
  <2>1. Calm(two)
    BY StraightCalls, Straight2
  <2> QED  BY <2>1
<1> HIDE DEF two, s
<1>3. Calm(s.calls)
  BY <1>1, <1>2, CalmConcat, CalmIf
<1> QED  BY <1>3 DEF Repeats, s

\* DeployAaveProviders finds its own work done.
LEMMA DeployAaveProvidersRepeats ==
  ASSUME NEW net
  PROVE  Repeats(DeployAaveProviders(net))
<1> DEFINE get == <<Get({"ChefIncentivesController", "AaveOracle"})>>
           all == DeployAll(<<"WalletBalanceProvider", "UiPoolDataProvider", "UiPoolDataProviderV2V3">>)
           s == DeployAaveProviders(net)
<1>1. s.calls = get \o all
  BY DEF DeployAaveProviders, Step
<1>2. Calm(get) /\ Calm(all)
  <2>1. Calm(get)
    BY CalmRefs
  <2>2. Calm(all)
    <3>1. DOMAIN <<"WalletBalanceProvider", "UiPoolDataProvider", "UiPoolDataProviderV2V3">> = 1..3
      OBVIOUS
    <3> QED  BY <3>1, CalmDeployAll
  <2> QED  BY <2>1, <2>2
<1> HIDE DEF get, all, s
<1>3. Calm(s.calls)
  BY <1>1, <1>2, CalmConcat, CalmIf
<1> QED  BY <1>3 DEF Repeats, s

\* DeployCompounder finds its own work done.
LEMMA DeployCompounderRepeats ==
  ASSUME NEW net
  PROVE  Repeats(DeployCompounder(net))
<1> DEFINE get == <<Get({"LendingPoolAddressesProvider", "MFD", "LockZap"})>>
           dep == <<Deploy("Compounder")>>
           s == DeployCompounder(net)
<1>1. s.calls = get \o Router(net) \o dep
  BY DEF DeployCompounder, Step
<1>2. Calm(get) /\ Calm(Router(net)) /\ Calm(dep)
  <2>1. Calm(get)
    BY CalmRefs
  <2>2. Calm(Router(net))
    BY CalmRefs
  <2>3. Calm(dep)
    BY CalmRefs
  <2> QED  BY <2>1, <2>2, <2>3
<1> HIDE DEF get, dep, s
<1>3. Calm(s.calls)
  BY <1>1, <1>2, CalmConcat, CalmIf
<1> QED  BY <1>3 DEF Repeats, s

\* DeployBountyManager finds its own work done.
LEMMA DeployBountyManagerRepeats ==
  ASSUME NEW net
  PROVE  Repeats(DeployBountyManager(net))
<1> DEFINE two == <<Get({"EligibilityDataProvider", "ChefIncentivesController", "PrimeToken",
                      "PriceProvider", "Compounder", "MFD"}),
                  Deploy("BountyManager")>>
           s == DeployBountyManager(net)
<1>1. s.calls = two
  BY DEF DeployBountyManager, Step
<1>2. Calm(two)
  <2>1. Calm(two)
    BY StraightCalls, Straight2
  <2> QED  BY <2>1
<1> HIDE DEF two, s
<1>3. Calm(s.calls)
  BY <1>1, <1>2, CalmConcat, CalmIf
<1> QED  BY <1>3 DEF Repeats, s

\* DeployAccessories finds its own work done.
LEMMA DeployAccessoriesRepeats ==
  ASSUME NEW net
  PROVE  Repeats(DeployAccessories(net))
<1> DEFINE get == <<Get({"LockZap", "EligibilityDataProvider", "AaveOracle",
                      "ChefIncentivesController", "LendingPoolAddressesProvider"})>>
           all == DeployAll(<<"Multicall3", "Leverager", "StargateBorrow">>)
           s == DeployAccessories(net)
<1>1. s.calls = get \o all
  BY DEF DeployAccessories, Step
<1>2. Calm(get) /\ Calm(all)
  <2>1. Calm(get)
    BY CalmRefs
  <2>2. Calm(all)
    <3>1. DOMAIN <<"Multicall3", "Leverager", "StargateBorrow">> = 1..3
      OBVIOUS
    <3> QED  BY <3>1, CalmDeployAll
  <2> QED  BY <2>1, <2>2
<1> HIDE DEF get, all, s
<1>3. Calm(s.calls)
  BY <1>1, <1>2, CalmConcat, CalmIf
<1> QED  BY <1>3 DEF Repeats, s

\* UniswapMock finds its own work done.
LEMMA UniswapMockRepeats ==
  ASSUME NEW net
  PROVE  Repeats(UniswapMock(net))
<1> DEFINE all == DeployAll(<<"UniswapV2Factory", "UniswapV2Router02">>)
           s == UniswapMock(net)
<1>1. s.calls = If(Tag(net, "mocks"), all)
  BY DEF UniswapMock, Step
<1>2. Calm(all)
  <2>1. Calm(all)
    <3>1. DOMAIN <<"UniswapV2Factory", "UniswapV2Router02">> = 1..2
      OBVIOUS
    <3> QED  BY <3>1, CalmDeployAll
  <2> QED  BY <2>1
<1> HIDE DEF all, s
<1>3. Calm(s.calls)
  BY <1>1, <1>2, CalmConcat, CalmIf
<1> QED  BY <1>3 DEF Repeats, s

\* LayerzeroMock finds its own work done.
LEMMA LayerzeroMockRepeats ==
  ASSUME NEW net
  PROVE  Repeats(LayerzeroMock(net))
<1> DEFINE dep == <<Deploy("LZEndpointSrcMock")>>
           s == LayerzeroMock(net)
<1>1. s.calls = If(Tag(net, "mocks"), dep)
  BY DEF LayerzeroMock, Step
<1>2. Calm(dep)
  <2>1. Calm(dep)
    BY CalmRefs
  <2> QED  BY <2>1
<1> HIDE DEF dep, s
<1>3. Calm(s.calls)
  BY <1>1, <1>2, CalmConcat, CalmIf
<1> QED  BY <1>3 DEF Repeats, s

\* SequencerMock finds its own work done.
LEMMA SequencerMockRepeats ==
  ASSUME NEW net
  PROVE  Repeats(SequencerMock(net))
<1> DEFINE dep == <<Deploy("MockArbitrumSequencerUptimeFeed")>>
           s == SequencerMock(net)
<1>1. s.calls = If(Tag(net, "mocks") /\ net.sequencerFeed, dep)
  BY DEF SequencerMock, Step
<1>2. Calm(dep)
  <2>1. Calm(dep)
    BY CalmRefs
  <2> QED  BY <2>1
<1> HIDE DEF dep, s
<1>3. Calm(s.calls)
  BY <1>1, <1>2, CalmConcat, CalmIf
<1> QED  BY <1>3 DEF Repeats, s

\* DeployLp finds its own work done.
LEMMA DeployLpRepeats ==
  ASSUME NEW net
  PROVE  Repeats(DeployLp(net))
<1> DEFINE get == <<Get({"PrimeToken"})>>
           all == DeployAll(<<"LiquidityZap", "PoolHelper">>)
           dep == <<Deploy("PoolHelper")>>
           s == DeployLp(net)
<1>1. s.calls = get \o (IF net.uniswap THEN Router(net) \o all ELSE dep)
  BY DEF DeployLp, Step
<1>2. Calm(get) /\ Calm(dep) /\ Calm(Router(net))
  BY CalmRefs
<1>3. Calm(all)
  <2>1. DOMAIN <<"LiquidityZap", "PoolHelper">> = 1..2
    OBVIOUS
  <2> QED  BY <2>1, CalmDeployAll
<1> HIDE DEF get, all, dep, s
<1>4. Calm(s.calls)
  BY <1>1, <1>2, <1>3, CalmConcat
<1> QED  BY <1>4 DEF Repeats, s

\* A call that can be repeated.
LEMMA CalmAgain ==
  ASSUME NEW k, k.op = "call", Again(k)
  PROVE  Calm(<<k>>)
<1>1. IsList(<<k>>) /\ ToSet(<<k>>) = {k} /\ Len(<<k>>) = 1 /\ <<k>>[1] = k
  BY Tuple1
<1> DEFINE q == <<k>>
<1> HIDE DEF q
<1>2. IsList(q) /\ Len(q) = 1 /\ q[1] = k
  BY <1>1 DEF q
<1>3. \A j \in 1..Len(q) : q[j].op = "call" /\ Again(q[j])
  BY <1>2
<1> QED  BY <1>2, <1>3 DEF Calm, Bounded, q

\* ConfigureSetBounties can be repeated.
LEMMA ConfigureSetBountiesRepeats ==
  ASSUME NEW net
  PROVE  Repeats(ConfigureSetBounties(net))
<1> DEFINE k == ExecFromOwner("BountyManager", "setBounties")
<1>1. ConfigureSetBounties(net).calls = <<k>>
  BY DEF ConfigureSetBounties, Step
<1>2. k.op = "call" /\ k.f = "setBounties"
  <2>1. \E x : k = Call("owner", "BountyManager", "setBounties", x)
    BY Zenon DEF ExecFromOwner
  <2> QED  BY <2>1, CallFields
<1> HIDE DEF k
<1>3. Again(k)
  BY <1>2 DEF Again, Repeatable
<1> QED  BY <1>1, <1>2, <1>3, CalmAgain DEF Repeats

\* BypassChainlink can be repeated.
LEMMA BypassChainlinkRepeats ==
  ASSUME NEW net
  PROVE  Repeats(BypassChainlink(net))
<1> DEFINE k == ExecFrom("owner", "PriceProvider", "setUsePool", "true")
<1>1. BypassChainlink(net).calls = <<k>>
  BY DEF BypassChainlink, Step
<1>2. k.op = "call" /\ k.f = "setUsePool"
  BY FromFields
<1> HIDE DEF k
<1>3. Again(k)
  BY <1>2 DEF Again, Repeatable
<1> QED  BY <1>1, <1>2, <1>3, CalmAgain DEF Repeats

\* ExportDeploy only reads.
LEMMA ExportDeployRepeats ==
  ASSUME NEW net
  PROVE  Repeats(ExportDeploy(net))
<1>1. \E g : ExportDeploy(net).calls = <<Get(g)>>
  BY Zenon DEF ExportDeploy
<1> QED  BY <1>1, CalmRefs DEF Repeats

\* NotADeployScript only throws.
LEMMA NotADeployScriptRepeats ==
  ASSUME NEW net
  PROVE  Repeats(NotADeployScript(net))
<1>1. NotADeployScript(net).calls = <<Get({"no such function"})>>
  BY DEF NotADeployScript, Plain
<1> QED  BY <1>1, CalmRefs DEF Repeats

\* DeployToken finds its own work done.
LEMMA DeployTokenRepeats ==
  ASSUME NEW net
  PROVE  Repeats(DeployToken(net))
<1> DEFINE refs == If(Tag(net, "mocks"), <<Get({"LZEndpointSrcMock"})>>)
           token == <<Deploy(IF Tag(net, "testing") THEN "MockPrimeToken" ELSE "PrimeToken")>>
           pays == ExecFrom("dao", "PrimeToken", "transfer", "deployer")
           fee == Exec("PrimeToken", "setFeeRatio")
           more == If(Tag(net, "testing") /\ Tag(net, "impersonate"), <<pays>>)
           block == <<fee>> \o more
           s == DeployToken(net)
<1>1. s.calls = refs \o token \o When("fresh", "", block)
  BY DEF DeployToken, Step
<1>2. Calm(refs) /\ Calm(token)
  BY CalmRefs, CalmIf
<1>3. pays.op = "call" /\ fee.op = "call"
  BY FromFields, ExecFields
<1> HIDE DEF refs, token, fee, pays, s
<1>4. IsList(more) /\ \A k \in ToSet(more) : k.op = "call"
  <2>1. IsList(<<pays>>) /\ ToSet(<<pays>>) = {pays}
    BY Tuple1
  <2>2. IsList(<<>>) /\ ToSet(<<>>) = {}
    BY QuietNone DEF AllQuiet, ToSet
  <2> QED  BY <1>3, <2>1, <2>2 DEF If
<1>5. IsList(<<fee>>) /\ ToSet(<<fee>>) = {fee}
  BY Tuple1
<1> HIDE DEF more
<1>6. IsList(block) /\ ToSet(block) = {fee} \cup ToSet(more)
  <2>1. IsList(<<fee>> \o more) /\ ToSet(<<fee>> \o more) = ToSet(<<fee>>) \cup ToSet(more)
    BY <1>4, <1>5, ListConcat
  <2> QED  BY <1>5, <2>1
<1>7. \A k \in ToSet(block) : k.op \in {"get", "deploy", "call"}
  BY <1>3, <1>4, <1>6
<1> HIDE DEF block
<1>8. \A x : Calm(When("fresh", x, block))
  BY <1>6, <1>7, CalmWhen
<1>9. Calm(s.calls)
  <2>1. PICK x : s.calls = refs \o token \o When("fresh", x, block)
    BY <1>1
  <2> QED  BY <1>2, <1>8, <2>1, CalmConcat
<1> QED  BY <1>9 DEF Repeats, s

\* WethMock finds its own work done.
LEMMA WethMockRepeats ==
  ASSUME NEW net
  PROVE  Repeats(WethMock(net))
<1> DEFINE pre == <<Deploy("WETH")>>
           mint == ExecArg("WETH", "mint", "supply")
           last == <<Deploy("WETHAggregator")>>
           s == WethMock(net)
<1>1. s.calls = If(Tag(net, "mocks"), pre \o When("fresh", "", <<mint>>) \o last)
  BY DEF WethMock, Step
<1>2. Calm(pre) /\ Calm(last)
  BY CalmRefs
<1>3. mint.op = "call"
  BY ArgFields
<1> HIDE DEF pre, mint, last, s
<1>4. IsList(<<mint>>) /\ ToSet(<<mint>>) = {mint}
  BY Tuple1
<1>5. \A x : Calm(When("fresh", x, <<mint>>))
  BY <1>3, <1>4, CalmWhen
<1>6. Calm(s.calls)
  <2>1. PICK x : s.calls = If(Tag(net, "mocks"), pre \o When("fresh", x, <<mint>>) \o last)
    BY <1>1
  <2>2. Calm(pre \o When("fresh", x, <<mint>>) \o last)
    BY <1>2, <1>5, CalmConcat
  <2> QED  BY <2>1, <2>2, CalmIf
<1> QED  BY <1>6 DEF Repeats, s

\* AssetsMock leaves a recorded asset alone.
LEMMA AssetsMockRepeats ==
  ASSUME NEW net
  PROVE  Repeats(AssetsMock(net))
<1> DEFINE Block(a) == <<Deploy(a), Deploy(a \o "Aggregator"), Get({"UniswapV2Router02"}),
                         Exec(a, "mint"), ExecArg("WETH", "mint", a),
                         ExecArg("WETH", "approve", "router"), ExecArg(a, "approve", "router"),
                         ExecArg("UniswapV2Router02", "addLiquidity", a)>>
           names == Tail(MockAssets)
           parts == [i \in DOMAIN names |-> When("missing", names[i], Block(names[i]))]
           s == AssetsMock(net)
<1>1. s.calls = If(Tag(net, "mocks"), FlattenSeq(parts))
  BY DEF AssetsMock, Step, Each
<1>2. PICK n \in Nat : DOMAIN names = 1..n
  BY OtherAssets
<1>3. ASSUME NEW a PROVE Calm(When("missing", a, Block(a)))
  <2>1. IsList(Block(a)) /\ Len(Block(a)) = 8
        /\ ToSet(Block(a)) = {Deploy(a), Deploy(a \o "Aggregator"), Get({"UniswapV2Router02"}),
                         Exec(a, "mint"), ExecArg("WETH", "mint", a),
                         ExecArg("WETH", "approve", "router"), ExecArg(a, "approve", "router"),
                         ExecArg("UniswapV2Router02", "addLiquidity", a)}
    BY Tuple8
  <2>2. Block(a)[1] = Deploy(a)
    OBVIOUS
  <2>3. \A k \in ToSet(Block(a)) : k.op \in {"get", "deploy", "call"}
    BY <2>1, StraightCalls, ExecFields, ArgFields
  <2> HIDE DEF Block
  <2>4. Len(Block(a)) > 0 /\ Block(a)[1].op = "deploy" /\ Block(a)[1].c = a
    BY <2>1, <2>2, StraightCalls
  <2> QED  BY <2>1, <2>3, <2>4, CalmWhen
<1> HIDE DEF Block, names, s
<1>4. DOMAIN parts = 1..n /\ parts = [i \in 1..n |-> parts[i]] /\ \A i \in 1..n : Calm(parts[i])
  BY <1>2, <1>3
<1> HIDE DEF parts
<1>5. Calm(FlattenSeq(parts))
  BY <1>4, CalmFlat
<1>6. Calm(s.calls)
  BY <1>1, <1>5, CalmIf
<1> QED  BY <1>6 DEF Repeats, s

\* DeployPrntOracle finds its own work done.
LEMMA DeployPrntOracleRepeats ==
  ASSUME NEW net
  PROVE  Repeats(DeployPrntOracle(net))
<1> DEFINE first == <<Get({"PoolHelper", "PrimeToken"})>>
           pre == DeployAll(<<"UniV3TwapOracle", "UniV2TwapOracle">>)
           back == Exec("UniV3TwapOracle", "setFallback")
           update == Exec("UniV2TwapOracle", "update")
           two == <<Deploy("UniV2TwapOracle")>>
           cl == <<Get({"ChainlinkAdapterPRNT", "ChainlinkAdapterWETH"}),
                   Deploy("PrimeChainlinkOracle")>>
           s == DeployPrntOracle(net)
<1>1. s.calls = first \o If(Tag(net, "oracle_v3"), pre \o When("fresh", "", <<back, update>>))
                   \o If(Tag(net, "oracle_v2"), two) \o If(Tag(net, "oracle_cl"), cl)
  BY DEF DeployPrntOracle, Step
<1>2. Calm(first) /\ Calm(two) /\ Calm(cl)
  <2>1. Calm(first) /\ Calm(two)
    BY CalmRefs
  <2>2. Calm(cl)
    BY StraightCalls, Straight2
  <2> QED  BY <2>1, <2>2
<1>3. Calm(pre)
  <2>1. DOMAIN <<"UniV3TwapOracle", "UniV2TwapOracle">> = 1..2
    OBVIOUS
  <2> QED  BY <2>1, CalmDeployAll
<1>4. back.op = "call" /\ update.op = "call"
  BY ExecFields
<1> HIDE DEF first, pre, back, update, two, cl, s
<1>5. IsList(<<back, update>>) /\ ToSet(<<back, update>>) = {back, update}
  BY Tuple2
<1>6. \A x : Calm(When("fresh", x, <<back, update>>))
  BY <1>4, <1>5, CalmWhen
<1>7. Calm(s.calls)
  <2>1. PICK x : s.calls = first \o If(Tag(net, "oracle_v3"), pre \o When("fresh", x, <<back, update>>))
                   \o If(Tag(net, "oracle_v2"), two) \o If(Tag(net, "oracle_cl"), cl)
    BY <1>1
  <2>2. Calm(pre \o When("fresh", x, <<back, update>>))
    BY <1>3, <1>6, CalmConcat
  <2> QED  BY <1>2, <2>1, <2>2, CalmConcat, CalmIf
<1> QED  BY <1>7 DEF Repeats, s

\* ArbiWsteth is run once where the asset is listed, and does nothing elsewhere.
LEMMA ArbiWstethRepeats ==
  ASSUME NEW net
  PROVE  Repeats(ArbiWsteth(net))
<1>1. CASE Listed(net)
  <2>1. ArbiWsteth(net).once = Listed(net)
    BY DEF ArbiWsteth, Plain
  <2> QED  BY <1>1, <2>1 DEF Repeats
<1>2. CASE ~Listed(net)
  <2>1. ArbiWsteth(net).calls = <<>>
    BY <1>2 DEF ArbiWsteth, Plain, If
  <2> QED  BY <2>1, CalmNone DEF Repeats
<1> QED  BY <1>1, <1>2

\* ArbiArb is run once where the asset is listed, and does nothing elsewhere.
LEMMA ArbiArbRepeats ==
  ASSUME NEW net
  PROVE  Repeats(ArbiArb(net))
<1>1. CASE Listed(net)
  <2>1. ArbiArb(net).once = Listed(net)
    BY DEF ArbiArb, Plain
  <2> QED  BY <1>1, <2>1 DEF Repeats
<1>2. CASE ~Listed(net)
  <2>1. ArbiArb(net).calls = <<>>
    BY <1>2 DEF ArbiArb, Plain, If
  <2> QED  BY <2>1, CalmNone DEF Repeats
<1> QED  BY <1>1, <1>2

\* The scripts that are run once.
LEMMA OnceRepeats ==
  ASSUME NEW net
  PROVE  /\ Repeats(ConfigureLending(net))
         /\ Repeats(ConfigureLp(net))
         /\ Repeats(ConfigureLendingOracle(net))
         /\ Repeats(ConfigureLockzap(net))
         /\ Repeats(SetChainlinkAdapters(net))
         /\ Repeats(ConfigurePriceProvider(net))
         /\ Repeats(ConfigureDistributors(net))
         /\ Repeats(ConfigureMfdProvider(net))
         /\ Repeats(ConfigureEdp(net))
         /\ Repeats(ConfigureCic(net))
         /\ Repeats(ConfigureMinters(net))
         /\ Repeats(ConfigureMarkets(net))
         /\ Repeats(DisableMarketPause(net))
         /\ Repeats(ConfigureCompounder(net))
         /\ Repeats(ConfigureBountyManager(net))
         /\ Repeats(ConfigureAccessories(net))
         /\ Repeats(ConfigureLeverager(net))
         /\ Repeats(SetLpToken(net))
         /\ Repeats(ConfigurePrntOracle(net))
         /\ Repeats(MarketsMock(net))
         /\ Repeats(FundCic(net))
         /\ Repeats(PrntMarket(net))
         /\ Repeats(LockerListScript(net))
<1>1. ConfigureLending(net).once = TRUE
  BY DEF ConfigureLending, Step
<1>2. ConfigureLp(net).once = TRUE
  BY DEF ConfigureLp, Step
<1>3. ConfigureLendingOracle(net).once = TRUE
  BY DEF ConfigureLendingOracle, Step
<1>4. ConfigureLockzap(net).once = TRUE
  BY DEF ConfigureLockzap, Step
<1>5. SetChainlinkAdapters(net).once = TRUE
  BY DEF SetChainlinkAdapters, Step
<1>6. ConfigurePriceProvider(net).once = TRUE
  BY DEF ConfigurePriceProvider, Step
<1>7. ConfigureDistributors(net).once = TRUE
  BY DEF ConfigureDistributors, Step
<1>8. ConfigureMfdProvider(net).once = TRUE
  BY DEF ConfigureMfdProvider, Step
<1>9. ConfigureEdp(net).once = TRUE
  BY DEF ConfigureEdp, Step
<1>10. ConfigureCic(net).once = TRUE
  BY DEF ConfigureCic, Step
<1>11. ConfigureMinters(net).once = TRUE
  BY DEF ConfigureMinters, Step
<1>12. ConfigureMarkets(net).once = TRUE
  BY DEF ConfigureMarkets, Step
<1>13. DisableMarketPause(net).once = TRUE
  BY DEF DisableMarketPause, Step
<1>14. ConfigureCompounder(net).once = TRUE
  BY DEF ConfigureCompounder, Step
<1>15. ConfigureBountyManager(net).once = TRUE
  BY DEF ConfigureBountyManager, Step
<1>16. ConfigureAccessories(net).once = TRUE
  BY DEF ConfigureAccessories, Step
<1>17. ConfigureLeverager(net).once = TRUE
  BY DEF ConfigureLeverager, Step
<1>18. SetLpToken(net).once = TRUE
  BY DEF SetLpToken, Step
<1>19. ConfigurePrntOracle(net).once = TRUE
  BY DEF ConfigurePrntOracle, Step
<1>20. MarketsMock(net).once = TRUE
  BY DEF MarketsMock, Step
<1>21. FundCic(net).once = TRUE
  BY DEF FundCic, Step
<1>22. PrntMarket(net).once = TRUE
  BY DEF PrntMarket, Plain
<1>23. LockerListScript(net).once = TRUE
  BY DEF LockerListScript, Plain
<1> QED  BY <1>1, <1>2, <1>3, <1>4, <1>5, <1>6, <1>7, <1>8, <1>9, <1>10, <1>11, <1>12, <1>13, <1>14,
  <1>15, <1>16, <1>17, <1>18, <1>19, <1>20, <1>21, <1>22, <1>23 DEF Repeats

\* All the elements of a list of scripts repeat.
AllRepeat(q) == IsList(q) /\ \A s \in ToSet(q) : Repeats(s)

\* The scripts of deploy/core.
LEMMA CoreFilesRepeat ==
  ASSUME NEW net
  PROVE  AllRepeat(CoreFiles(net))
<1> DEFINE q == CoreFiles(net)
<1>1. IsList(q) /\ Len(q) = 35
  BY CoreFilesAt
<1>2. /\ q[1] = DeployToken(net)
      /\ q[2] = DeployLending(net)
      /\ q[3] = ConfigureLending(net)
      /\ q[4] = DeployLp(net)
      /\ q[5] = ConfigureLp(net)
      /\ q[6] = DeployLendingOracle(net)
      /\ q[7] = ConfigureLendingOracle(net)
      /\ q[8] = DeployLockzap(net)
      /\ q[9] = ConfigureLockzap(net)
      /\ q[10] = SetChainlinkAdapters(net)
      /\ q[11] = DeployPriceProvider(net)
      /\ q[12] = ConfigurePriceProvider(net)
      /\ q[13] = DeployDistributors(net)
      /\ q[14] = ConfigureDistributors(net)
      /\ q[15] = ConfigureMfdProvider(net)
      /\ q[16] = DeployEdp(net)
      /\ q[17] = ConfigureEdp(net)
      /\ q[18] = DeployCic(net)
      /\ q[19] = ConfigureCic(net)
      /\ q[20] = ConfigureMinters(net)
      /\ q[21] = ConfigureMarkets(net)
      /\ q[22] = DeployAaveProviders(net)
      /\ q[23] = DisableMarketPause(net)
      /\ q[24] = DeployCompounder(net)
      /\ q[25] = ConfigureCompounder(net)
      /\ q[26] = DeployBountyManager(net)
      /\ q[27] = ConfigureBountyManager(net)
      /\ q[28] = ConfigureSetBounties(net)
      /\ q[29] = DeployAccessories(net)
      /\ q[30] = ConfigureAccessories(net)
      /\ q[31] = ConfigureLeverager(net)
      /\ q[32] = SetLpToken(net)
      /\ q[33] = DeployPrntOracle(net)
      /\ q[34] = ConfigurePrntOracle(net)
      /\ q[35] = ExportDeploy(net)
  BY DEF CoreFiles
<1> HIDE DEF q
<1>3. /\ Repeats(DeployToken(net))
      /\ Repeats(DeployLending(net))
      /\ Repeats(ConfigureLending(net))
      /\ Repeats(DeployLp(net))
      /\ Repeats(ConfigureLp(net))
      /\ Repeats(DeployLendingOracle(net))
      /\ Repeats(ConfigureLendingOracle(net))
      /\ Repeats(DeployLockzap(net))
      /\ Repeats(ConfigureLockzap(net))
      /\ Repeats(SetChainlinkAdapters(net))
      /\ Repeats(DeployPriceProvider(net))
      /\ Repeats(ConfigurePriceProvider(net))
      /\ Repeats(DeployDistributors(net))
      /\ Repeats(ConfigureDistributors(net))
      /\ Repeats(ConfigureMfdProvider(net))
      /\ Repeats(DeployEdp(net))
      /\ Repeats(ConfigureEdp(net))
      /\ Repeats(DeployCic(net))
      /\ Repeats(ConfigureCic(net))
      /\ Repeats(ConfigureMinters(net))
      /\ Repeats(ConfigureMarkets(net))
      /\ Repeats(DeployAaveProviders(net))
      /\ Repeats(DisableMarketPause(net))
      /\ Repeats(DeployCompounder(net))
      /\ Repeats(ConfigureCompounder(net))
      /\ Repeats(DeployBountyManager(net))
      /\ Repeats(ConfigureBountyManager(net))
      /\ Repeats(ConfigureSetBounties(net))
      /\ Repeats(DeployAccessories(net))
      /\ Repeats(ConfigureAccessories(net))
      /\ Repeats(ConfigureLeverager(net))
      /\ Repeats(SetLpToken(net))
      /\ Repeats(DeployPrntOracle(net))
      /\ Repeats(ConfigurePrntOracle(net))
      /\ Repeats(ExportDeploy(net))
  BY OnceRepeats, DeployTokenRepeats, DeployLendingRepeats, DeployLpRepeats, DeployLendingOracleRepeats,
       DeployLockzapRepeats, DeployPriceProviderRepeats, DeployDistributorsRepeats, DeployEdpRepeats,
         DeployCicRepeats, DeployAaveProvidersRepeats, DeployCompounderRepeats,
           DeployBountyManagerRepeats, ConfigureSetBountiesRepeats, DeployAccessoriesRepeats,
             DeployPrntOracleRepeats, ExportDeployRepeats
<1>4. \A k \in 1..35 : Repeats(q[k])
  <2> TAKE k \in 1..35
  <2>1. k = 1 \/ k = 2 \/ k = 3 \/ k = 4 \/ k = 5 \/ k = 6 \/ k = 7 \/ k = 8 \/ k = 9 \/ k = 10 \/
    k = 11 \/ k = 12 \/ k = 13 \/ k = 14 \/ k = 15 \/ k = 16 \/ k = 17 \/ k = 18 \/ k = 19 \/ k = 20 \/
      k = 21 \/ k = 22 \/ k = 23 \/ k = 24 \/ k = 25 \/ k = 26 \/ k = 27 \/ k = 28 \/ k = 29 \/
        k = 30 \/ k = 31 \/ k = 32 \/ k = 33 \/ k = 34 \/ k = 35
    OBVIOUS
  <2>2. /\ Repeats(q[1])
        /\ Repeats(q[2])
        /\ Repeats(q[3])
        /\ Repeats(q[4])
        /\ Repeats(q[5])
        /\ Repeats(q[6])
        /\ Repeats(q[7])
        /\ Repeats(q[8])
        /\ Repeats(q[9])
        /\ Repeats(q[10])
        /\ Repeats(q[11])
        /\ Repeats(q[12])
        /\ Repeats(q[13])
        /\ Repeats(q[14])
        /\ Repeats(q[15])
        /\ Repeats(q[16])
        /\ Repeats(q[17])
        /\ Repeats(q[18])
        /\ Repeats(q[19])
        /\ Repeats(q[20])
        /\ Repeats(q[21])
        /\ Repeats(q[22])
        /\ Repeats(q[23])
        /\ Repeats(q[24])
        /\ Repeats(q[25])
        /\ Repeats(q[26])
        /\ Repeats(q[27])
        /\ Repeats(q[28])
        /\ Repeats(q[29])
        /\ Repeats(q[30])
        /\ Repeats(q[31])
        /\ Repeats(q[32])
        /\ Repeats(q[33])
        /\ Repeats(q[34])
        /\ Repeats(q[35])
    BY <1>2, <1>3
  <2> QED  BY <2>1, <2>2
<1> QED  BY <1>1, <1>4, ListDomain DEF AllRepeat, ToSet, q

\* The mock scripts and those of deploy/post-assets.
LEMMA OtherFilesRepeat ==
  ASSUME NEW net
  PROVE  AllRepeat(OtherFiles(net))
<1> DEFINE q == OtherFiles(net)
<1>1. IsList(q) /\ Len(q) = 12
  BY OtherFilesAt
<1>2. /\ q[1] = WethMock(net)
      /\ q[2] = UniswapMock(net)
      /\ q[3] = AssetsMock(net)
      /\ q[4] = LayerzeroMock(net)
      /\ q[5] = MarketsMock(net)
      /\ q[6] = SequencerMock(net)
      /\ q[7] = FundCic(net)
      /\ q[8] = BypassChainlink(net)
      /\ q[9] = ArbiWsteth(net)
      /\ q[10] = ArbiArb(net)
      /\ q[11] = PrntMarket(net)
      /\ q[12] = LockerListScript(net)
  BY DEF OtherFiles
<1> HIDE DEF q
<1>3. /\ Repeats(WethMock(net))
      /\ Repeats(UniswapMock(net))
      /\ Repeats(AssetsMock(net))
      /\ Repeats(LayerzeroMock(net))
      /\ Repeats(MarketsMock(net))
      /\ Repeats(SequencerMock(net))
      /\ Repeats(FundCic(net))
      /\ Repeats(BypassChainlink(net))
      /\ Repeats(ArbiWsteth(net))
      /\ Repeats(ArbiArb(net))
      /\ Repeats(PrntMarket(net))
      /\ Repeats(LockerListScript(net))
  BY OnceRepeats, WethMockRepeats, UniswapMockRepeats, AssetsMockRepeats, LayerzeroMockRepeats,
       SequencerMockRepeats, BypassChainlinkRepeats, ArbiWstethRepeats, ArbiArbRepeats
<1>4. \A k \in 1..12 : Repeats(q[k])
  <2> TAKE k \in 1..12
  <2>1. k = 1 \/ k = 2 \/ k = 3 \/ k = 4 \/ k = 5 \/ k = 6 \/ k = 7 \/ k = 8 \/ k = 9 \/ k = 10 \/
    k = 11 \/ k = 12
    OBVIOUS
  <2>2. /\ Repeats(q[1])
        /\ Repeats(q[2])
        /\ Repeats(q[3])
        /\ Repeats(q[4])
        /\ Repeats(q[5])
        /\ Repeats(q[6])
        /\ Repeats(q[7])
        /\ Repeats(q[8])
        /\ Repeats(q[9])
        /\ Repeats(q[10])
        /\ Repeats(q[11])
        /\ Repeats(q[12])
    BY <1>2, <1>3
  <2> QED  BY <2>1, <2>2
<1> QED  BY <1>1, <1>4, ListDomain DEF AllRepeat, ToSet, q

\* Every file of the directory.
LEMMA FilesRepeat ==
  ASSUME NEW net
  PROVE  AllRepeat(Files(net))
<1> DEFINE core == CoreFiles(net)
           stray == <<NotADeployScript(net)>>
           mid == If(StrayFile, stray)
           other == OtherFiles(net)
<1>1. Files(net) = core \o mid \o other
  BY DEF Files, CoreFiles, OtherFiles
<1>2. AllRepeat(core) /\ AllRepeat(other)
  BY CoreFilesRepeat, OtherFilesRepeat
<1> HIDE DEF core, other
<1>3. AllRepeat(mid)
  <2>1. AllRepeat(stray)
    BY Tuple1, NotADeployScriptRepeats DEF AllRepeat
  <2>2. AllRepeat(<<>>)
    BY QuietNone DEF AllRepeat, AllQuiet, ToSet
  <2> QED  BY <2>1, <2>2 DEF If
<1> HIDE DEF mid
<1>4. ASSUME NEW p, NEW q, AllRepeat(p), AllRepeat(q) PROVE AllRepeat(p \o q)
  BY <1>4, ListConcat DEF AllRepeat
<1> QED  BY <1>1, <1>2, <1>3, <1>4

\* Whatever the network, a script of the plan is run once or finds its own
\* work done.
THEOREM PlanRepeats ==
  ASSUME NEW net
  PROVE  \A i \in DOMAIN RunOrder(Files(net)) : Repeats(RunOrder(Files(net))[i])
<1> DEFINE f == Files(net)  q == RunOrder(f)
<1>1. PICK n : FilesAre(f, net, n)
  BY FilesAt
<1>2. AllRepeat(f)
  BY FilesRepeat
<1> HIDE DEF f
<1> DEFINE At(i) == IF n = 48 \/ i <= 35 THEN i ELSE i + 1
<1>3. n \in Nat /\ n \in 47..48 /\ DOMAIN f = 1..n /\ \A i \in 1..n : FileOk(f[i], At(i))
  BY <1>1 DEF FilesAre
<1>4. FileList(f, n)
  <2>1. \A i \in 1..n : \E m \in Nat : DOMAIN f[i].deps = 1..m
    <3> TAKE i \in 1..n
    <3>1. f[i].deps \in Seq(DepTags)
      BY <1>3 DEF FileOk
    <3> HIDE DEF f
    <3>2. Len(f[i].deps) \in Nat /\ DOMAIN f[i].deps = 1..Len(f[i].deps)
      BY <3>1, LenProperties
    <3> QED  BY <3>2
  <2> QED  BY <1>3, <2>1 DEF FileList
<1>5. \A i \in 1..n : f[i].atEnd \in BOOLEAN
  BY <1>3 DEF FileOk
<1>6. PICK sorted : InOrder(f, n, sorted) /\ RunOrder(f) = [j \in DOMAIN sorted |-> f[sorted[j]]]
  BY <1>4, <1>5, RunOrderSorts
<1>7. sorted \in Seq(1..n)
  BY <1>6 DEF InOrder
<1>8. DOMAIN sorted = 1..Len(sorted) /\ \A j \in 1..Len(sorted) : sorted[j] \in 1..n
  BY <1>7, LenProperties, ElementOfSeq
<1>9. DOMAIN q = DOMAIN sorted /\ \A j \in DOMAIN q : q[j] = f[sorted[j]] /\ sorted[j] \in 1..n
  BY <1>6, <1>8
<1>10. \A i \in 1..n : Repeats(f[i])
  BY <1>2, <1>3 DEF AllRepeat, ToSet
<1> HIDE DEF q
<1>11. \A j \in DOMAIN q : Repeats(q[j])
  BY <1>9, <1>10
<1> QED  BY <1>11 DEF q, f
==============================================================================
