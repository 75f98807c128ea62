----------------------------- MODULE SumsProofs ------------------------------
(***************************************************************************)
(* Facts about the sums of module Sums, for every length: how a sum unfolds, *)
(* when two sums are equal, and what a change of one summand does; and about *)
(* loops of any number of rounds, which the operators of the modules are.    *)
(* Induction over the length is by a least counterexample (LeastNat).        *)
(***************************************************************************)
EXTENDS Sums, WellFoundedInduction, SequenceTheorems, TLAPS

\* Every non-empty set of natural numbers has a least element.
LEMMA LeastNat ==
  ASSUME NEW T,
         T \subseteq Nat,
         T # {}
  PROVE  \E m \in T : \A k \in T : m <= k
<1>1. PICK m \in T : \A k \in T : <<k, m>> \notin OpToRel(<, Nat)
  BY WFMin, NatLessThanWellFounded, Zenon
<1>2. \A k \in T : ~(k < m)
  BY <1>1, Zenon DEF OpToRel
<1>3. \A k \in T : m <= k
  BY <1>2, SMT
<1> QED  BY <1>3

\* `g` is the table of the partial sums of f up to n.
IsSumTable(g, f, n) == g = [i \in 0..n |-> IF i = 0 THEN 0 ELSE g[i - 1] + f[i]]

\* The recursive definition of SumTo has such a table.
LEMMA SumTableExists ==
  ASSUME NEW f, NEW n,
         n \in Nat
  PROVE  \E g : IsSumTable(g, f, n)
<1> DEFINE Bad == {k \in Nat : ~\E g : IsSumTable(g, f, k)}
<1> SUFFICES ASSUME Bad # {} PROVE FALSE
  OBVIOUS
<1>1. PICK m \in Bad : \A k \in Bad : m <= k
  <2>1. Bad \subseteq Nat  OBVIOUS
  <2> QED  BY <2>1, LeastNat
<1>2. m # 0
  <2>1. IsSumTable([i \in 0..0 |-> 0], f, 0)
    BY DEF IsSumTable
  <2> QED  BY <2>1
<1>3. m - 1 \in Nat /\ m - 1 \notin Bad
  BY <1>1, <1>2
<1>4. PICK g : IsSumTable(g, f, m - 1)
  BY <1>3
<1> DEFINE h == [i \in 0..m |-> IF i = m THEN g[m - 1] + f[m] ELSE g[i]]
<1>5. IsSumTable(h, f, m)
  <2>1. \A i \in 0..(m - 1) : g[i] = IF i = 0 THEN 0 ELSE g[i - 1] + f[i]
    BY <1>3, <1>4 DEF IsSumTable
  <2>2. \A i \in 0..m : h[i] = IF i = 0 THEN 0 ELSE h[i - 1] + f[i]
    BY <1>2, <1>3, <2>1
  <2>3. h = [i \in 0..m |-> h[i]]
    OBVIOUS
  <2> HIDE DEF h
  <2> QED  BY <2>2, <2>3 DEF IsSumTable
<1> QED  BY <1>1, <1>5

\* Partial sums are unique: two tables agree where both are defined.
LEMMA SumTableUnique ==
  ASSUME NEW f, NEW n, NEW m, NEW g, NEW h,
         n \in Nat,
         m \in Nat,
         n <= m,
         IsSumTable(g, f, n),
         IsSumTable(h, f, m)
  PROVE  \A i \in 0..n : g[i] = h[i]
<1> DEFINE Bad == {i \in 0..n : g[i] # h[i]}
<1> SUFFICES ASSUME Bad # {} PROVE FALSE
  OBVIOUS
<1>1. PICK i \in Bad : \A k \in Bad : i <= k
  <2>1. Bad \subseteq Nat  OBVIOUS
  <2> QED  BY <2>1, LeastNat
<1>2. g[i] = IF i = 0 THEN 0 ELSE g[i - 1] + f[i]
  BY DEF IsSumTable
<1>3. h[i] = IF i = 0 THEN 0 ELSE h[i - 1] + f[i]
  BY DEF IsSumTable
<1>4. CASE i = 0
  BY <1>2, <1>3, <1>4
<1>5. CASE i # 0
  <2>1. i - 1 \in 0..n /\ i - 1 \notin Bad
    BY <1>1, <1>5
  <2> QED  BY <1>2, <1>3, <1>5, <2>1
<1> QED  BY <1>4, <1>5

\* SumTo(f, n) is the last entry of any table up to n.
LEMMA SumToIsTable ==
  ASSUME NEW f, NEW n, NEW g,
         n \in Nat,
         IsSumTable(g, f, n)
  PROVE  SumTo(f, n) = g[n]
<1> DEFINE c == CHOOSE t : IsSumTable(t, f, n)
<1>1. IsSumTable(c, f, n)
  BY SumTableExists
<1>2. SumTo(f, n) = c[n]
  BY DEF SumTo, IsSumTable
<1> HIDE DEF c
<1>3. n \in 0..n /\ n <= n
  OBVIOUS
<1> QED  BY <1>1, <1>2, <1>3, SumTableUnique

\* How a sum unfolds.
LEMMA SumToZero ==
  ASSUME NEW f
  PROVE  SumTo(f, 0) = 0
<1>1. PICK g : IsSumTable(g, f, 0)
  BY SumTableExists
<1>2. g[0] = 0
  BY <1>1 DEF IsSumTable
<1> QED  BY <1>1, <1>2, SumToIsTable

\* A sum unfolds at its end.
LEMMA SumToSucc ==
  ASSUME NEW f, NEW n,
         n \in Nat
  PROVE  SumTo(f, n + 1) = SumTo(f, n) + f[n + 1]
<1>1. PICK g : IsSumTable(g, f, n + 1)
  BY SumTableExists
<1>2. PICK h : IsSumTable(h, f, n)
  BY SumTableExists
<1>3. SumTo(f, n + 1) = g[n + 1] /\ SumTo(f, n) = h[n]
  BY <1>1, <1>2, SumToIsTable
<1>4. h[n] = g[n]
  <2>1. n + 1 \in Nat /\ n <= n + 1 /\ n \in 0..n
    OBVIOUS
  <2> QED  BY <1>1, <1>2, <2>1, SumTableUnique
<1>5. g[n + 1] = g[n] + f[n + 1]
  BY <1>1 DEF IsSumTable
<1> QED  BY <1>3, <1>4, <1>5

-----------------------------------------------------------------------------
\* What the lemmas below ask of the summands up to n.
IntsTo(f, n) == \A i \in 1..n : f[i] \in Int
NatsTo(f, n) == \A i \in 1..n : f[i] \in Nat
SameTo(f, g, n) == \A i \in 1..n : f[i] = g[i]
SameButAt(f, g, n, j) == \A i \in 1..n : i # j => g[i] = f[i]
DifferenceTo(h, f, g, n) == \A i \in 1..n : h[i] = f[i] - g[i]
PlusScaledTo(h, f, c, g, n) == \A i \in 1..n : h[i] = f[i] + c * g[i]

\* g, up to m, continues f from k on.
Continues(g, m, f, k) == \A i \in 1..m : g[i] = f[k + i]

\* Induction for a set of numbers.
LEMMA InductiveSet ==
  ASSUME NEW T,
         0 \in T,
         \A n \in Nat : n \in T => n + 1 \in T
  PROVE  Nat \subseteq T
<1> DEFINE Bad == Nat \ T
<1> SUFFICES ASSUME Bad # {} PROVE FALSE
  OBVIOUS
<1>1. PICK m \in Bad : \A k \in Bad : m <= k
  <2>1. Bad \subseteq Nat  OBVIOUS
  <2> QED  BY <2>1, LeastNat
<1>2. m - 1 \in Nat /\ m - 1 \notin Bad
  BY <1>1
<1> QED  BY <1>2

\* A sum of integers is an integer, a sum of naturals a natural.
LEMMA SumToInt ==
  ASSUME NEW f, NEW n,
         n \in Nat,
         IntsTo(f, n)
  PROVE  SumTo(f, n) \in Int
<1> USE DEF IntsTo
<1> DEFINE Good == {k \in Nat : k <= n => SumTo(f, k) \in Int}
<1>1. 0 \in Good
  BY SumToZero
<1>2. \A k \in Nat : k \in Good => k + 1 \in Good
  BY SumToSucc
<1>3. Nat \subseteq Good
  <2> HIDE DEF Good
  <2> QED  BY <1>1, <1>2, InductiveSet
<1> QED  BY <1>3

\* The sum of natural numbers is a natural number.
LEMMA SumToNat ==
  ASSUME NEW f, NEW n,
         n \in Nat,
         NatsTo(f, n)
  PROVE  SumTo(f, n) \in Nat
<1> USE DEF NatsTo
<1> DEFINE Good == {k \in Nat : k <= n => SumTo(f, k) \in Nat}
<1>1. 0 \in Good
  BY SumToZero
<1>2. \A k \in Nat : k \in Good => k + 1 \in Good
  <2> SUFFICES ASSUME NEW k \in Nat, k \in Good, k + 1 <= n
               PROVE  SumTo(f, k + 1) \in Nat
    OBVIOUS
  <2>1. SumTo(f, k + 1) = SumTo(f, k) + f[k + 1]
    BY SumToSucc
  <2>2. f[k + 1] \in Nat /\ SumTo(f, k) \in Nat
    OBVIOUS
  <2> QED  BY <2>1, <2>2
<1>3. Nat \subseteq Good
  <2> HIDE DEF Good
  <2> QED  BY <1>1, <1>2, InductiveSet
<1> QED  BY <1>3

\* A sum depends on its summands only.
LEMMA SumToEqual ==
  ASSUME NEW f, NEW g, NEW n,
         n \in Nat,
         SameTo(f, g, n)
  PROVE  SumTo(f, n) = SumTo(g, n)
<1> USE DEF SameTo
<1> DEFINE Good == {k \in Nat : k <= n => SumTo(f, k) = SumTo(g, k)}
<1>1. 0 \in Good
  BY SumToZero
<1>2. \A k \in Nat : k \in Good => k + 1 \in Good
  <2> SUFFICES ASSUME NEW k \in Nat, k \in Good, k + 1 <= n
               PROVE  SumTo(f, k + 1) = SumTo(g, k + 1)
    OBVIOUS
  <2>1. /\ SumTo(f, k + 1) = SumTo(f, k) + f[k + 1]
        /\ SumTo(g, k + 1) = SumTo(g, k) + g[k + 1]
    BY SumToSucc
  <2> QED  BY <2>1
<1>3. Nat \subseteq Good
  <2> HIDE DEF Good
  <2> QED  BY <1>1, <1>2, InductiveSet
<1> QED  BY <1>3

\* Partial sums of naturals do not decrease.
LEMMA SumToMonotone ==
  ASSUME NEW f, NEW n, NEW j,
         n \in Nat,
         NatsTo(f, n),
         j \in 0..n
  PROVE  SumTo(f, j) <= SumTo(f, n)
<1> USE DEF NatsTo
<1> DEFINE Good == {k \in Nat : j + k <= n => SumTo(f, j) <= SumTo(f, j + k)}
<1>1. 0 \in Good
  <2>1. SumTo(f, j) \in Nat
    BY SumToNat
  <2> QED  BY <2>1
<1>2. \A k \in Nat : k \in Good => k + 1 \in Good
  <2> SUFFICES ASSUME NEW k \in Nat, k \in Good, j + (k + 1) <= n
               PROVE  SumTo(f, j) <= SumTo(f, j + (k + 1))
    OBVIOUS
  <2>1. SumTo(f, j + k) \in Nat /\ SumTo(f, j) \in Nat
    BY SumToNat
  <2>2. SumTo(f, (j + k) + 1) = SumTo(f, j + k) + f[(j + k) + 1]
    BY SumToSucc
  <2>3. (j + k) + 1 = j + (k + 1) /\ f[(j + k) + 1] \in Nat
    OBVIOUS
  <2> QED  BY <2>1, <2>2, <2>3
<1>3. Nat \subseteq Good
  <2> HIDE DEF Good
  <2> QED  BY <1>1, <1>2, InductiveSet
<1> QED
  <2>1. n - j \in Good
    BY <1>3
  <2> QED  BY <2>1

\* The sum of a list is the sum of a prefix and of the rest.
LEMMA SumToSplit ==
  ASSUME NEW f, NEW g, NEW k, NEW m,
         k \in Nat,
         m \in Nat,
         IntsTo(f, k + m),
         Continues(g, m, f, k)
  PROVE  SumTo(f, k + m) = SumTo(f, k) + SumTo(g, m)
<1> USE DEF IntsTo, Continues
<1> DEFINE Good == {j \in Nat : j <= m => SumTo(f, k + j) = SumTo(f, k) + SumTo(g, j)}
<1>1. 0 \in Good
  <2>1. SumTo(f, k) \in Int
    BY SumToInt
  <2> QED  BY <2>1, SumToZero
<1>2. \A j \in Nat : j \in Good => j + 1 \in Good
  <2> SUFFICES ASSUME NEW j \in Nat, j \in Good, j + 1 <= m
               PROVE  SumTo(f, k + (j + 1)) = SumTo(f, k) + SumTo(g, j + 1)
    OBVIOUS
  <2>1. SumTo(f, k) \in Int /\ SumTo(f, k + j) \in Int /\ SumTo(g, j) \in Int
    BY SumToInt
  <2>2. SumTo(f, (k + j) + 1) = SumTo(f, k + j) + f[(k + j) + 1]
    BY SumToSucc
  <2>3. SumTo(g, j + 1) = SumTo(g, j) + g[j + 1]
    BY SumToSucc
  <2>4. (k + j) + 1 = k + (j + 1) /\ g[j + 1] = f[k + (j + 1)] /\ g[j + 1] \in Int
    OBVIOUS
  <2> QED  BY <2>1, <2>2, <2>3, <2>4
<1>3. Nat \subseteq Good
  <2> HIDE DEF Good
  <2> QED  BY <1>1, <1>2, InductiveSet
<1> QED  BY <1>3

\* Changing one summand changes the sum by as much.
LEMMA SumToUpdate ==
  ASSUME NEW f, NEW g, NEW n, NEW j,
         n \in Nat,
         j \in 1..n,
         IntsTo(f, n),
         IntsTo(g, n),
         SameButAt(f, g, n, j)
  PROVE  SumTo(g, n) = SumTo(f, n) - f[j] + g[j]
<1> USE DEF IntsTo, SameButAt
<1> DEFINE Good == {k \in Nat : k <= n =>
                      SumTo(g, k) = IF k < j THEN SumTo(f, k)
                                    ELSE SumTo(f, k) - f[j] + g[j]}
<1>1. 0 \in Good
  BY SumToZero
<1>2. \A k \in Nat : k \in Good => k + 1 \in Good
  <2> SUFFICES ASSUME NEW k \in Nat, k \in Good, k + 1 <= n
               PROVE  SumTo(g, k + 1) = IF k + 1 < j THEN SumTo(f, k + 1)
                                        ELSE SumTo(f, k + 1) - f[j] + g[j]
    OBVIOUS
  <2>1. SumTo(f, k) \in Int /\ SumTo(g, k) \in Int
    BY SumToInt
  <2>2. SumTo(f, k + 1) = SumTo(f, k) + f[k + 1]
    BY SumToSucc
  <2>3. SumTo(g, k + 1) = SumTo(g, k) + g[k + 1]
    BY SumToSucc
  <2>4. k + 1 \in 1..n
    OBVIOUS
  <2>5. CASE k + 1 = j
    BY <2>1, <2>2, <2>3, <2>4, <2>5
  <2>6. CASE k + 1 # j
    BY <2>1, <2>2, <2>3, <2>4, <2>6
  <2> QED  BY <2>5, <2>6
<1>3. Nat \subseteq Good
  <2> HIDE DEF Good
  <2> QED  BY <1>1, <1>2, InductiveSet
<1> QED  BY <1>3

\* The sum of differences is the difference of the sums.
LEMMA SumToMinus ==
  ASSUME NEW f, NEW g, NEW h, NEW n,
         n \in Nat,
         IntsTo(f, n),
         IntsTo(g, n),
         DifferenceTo(h, f, g, n)
  PROVE  SumTo(h, n) = SumTo(f, n) - SumTo(g, n)
<1> USE DEF IntsTo, DifferenceTo
<1> DEFINE Good == {k \in Nat : k <= n => SumTo(h, k) = SumTo(f, k) - SumTo(g, k)}
<1>1. 0 \in Good
  BY SumToZero
<1>2. \A k \in Nat : k \in Good => k + 1 \in Good
  <2> SUFFICES ASSUME NEW k \in Nat, k \in Good, k + 1 <= n
               PROVE  SumTo(h, k + 1) = SumTo(f, k + 1) - SumTo(g, k + 1)
    OBVIOUS
  <2>1. SumTo(f, k) \in Int /\ SumTo(g, k) \in Int
    BY SumToInt
  <2>2. /\ SumTo(f, k + 1) = SumTo(f, k) + f[k + 1]
        /\ SumTo(g, k + 1) = SumTo(g, k) + g[k + 1]
        /\ SumTo(h, k + 1) = SumTo(h, k) + h[k + 1]
    BY SumToSucc
  <2>3. f[k + 1] \in Int /\ g[k + 1] \in Int /\ h[k + 1] = f[k + 1] - g[k + 1]
    OBVIOUS
  <2> QED  BY <2>1, <2>2, <2>3
<1>3. Nat \subseteq Good
  <2> HIDE DEF Good
  <2> QED  BY <1>1, <1>2, InductiveSet
<1> QED  BY <1>3

\* The sum of f + c * g.
LEMMA SumToPlusScaled ==
  ASSUME NEW f, NEW g, NEW h, NEW n \in Nat, NEW c \in Int,
         IntsTo(f, n), IntsTo(g, n), PlusScaledTo(h, f, c, g, n)
  PROVE  SumTo(h, n) = SumTo(f, n) + c * SumTo(g, n)
<1> DEFINE Good == {k \in Nat : k <= n => SumTo(h, k) = SumTo(f, k) + c * SumTo(g, k)}
<1>1. 0 \in Good
  BY SumToZero
<1>2. \A k \in Nat : k \in Good => k + 1 \in Good
  <2> SUFFICES ASSUME NEW k \in Nat, k \in Good, k + 1 <= n
               PROVE  SumTo(h, k + 1) = SumTo(f, k + 1) + c * SumTo(g, k + 1)
    OBVIOUS
  <2>1. SumTo(f, k) \in Int /\ SumTo(g, k) \in Int
    BY SumToInt DEF IntsTo
  <2>2. /\ SumTo(f, k + 1) = SumTo(f, k) + f[k + 1]
        /\ SumTo(g, k + 1) = SumTo(g, k) + g[k + 1]
        /\ SumTo(h, k + 1) = SumTo(h, k) + h[k + 1]
    BY SumToSucc
  <2>3. f[k + 1] \in Int /\ g[k + 1] \in Int /\ h[k + 1] = f[k + 1] + c * g[k + 1]
    BY DEF IntsTo, PlusScaledTo
  <2>4. c * (SumTo(g, k) + g[k + 1]) = c * SumTo(g, k) + c * g[k + 1]
    BY <2>1, <2>3
  <2>5. c * SumTo(g, k) \in Int /\ c * g[k + 1] \in Int
    BY <2>1, <2>3
  <2> QED  BY <2>1, <2>2, <2>3, <2>4, <2>5
<1>3. Nat \subseteq Good
  <2> HIDE DEF Good
  <2> QED  BY <1>1, <1>2, InductiveSet
<1> QED  BY <1>3

\* Summands that are at most others sum to at most as much, a factor included.
LEMMA SumToAtMost ==
  ASSUME NEW f, NEW g, NEW n \in Nat, NEW c \in Int,
         IntsTo(f, n), IntsTo(g, n), \A i \in 1..n : f[i] * c <= g[i]
  PROVE  SumTo(f, n) * c <= SumTo(g, n)
<1> DEFINE Good == {k \in Nat : k <= n => SumTo(f, k) * c <= SumTo(g, k)}
<1>1. 0 \in Good
  BY SumToZero
<1>2. \A k \in Nat : k \in Good => k + 1 \in Good
  <2> SUFFICES ASSUME NEW k \in Nat, k \in Good, k + 1 <= n
               PROVE  SumTo(f, k + 1) * c <= SumTo(g, k + 1)
    OBVIOUS
  <2>1. SumTo(f, k) \in Int /\ SumTo(g, k) \in Int
    BY SumToInt DEF IntsTo
  <2>2. /\ SumTo(f, k + 1) = SumTo(f, k) + f[k + 1]
        /\ SumTo(g, k + 1) = SumTo(g, k) + g[k + 1]
    BY SumToSucc
  <2>3. f[k + 1] \in Int /\ g[k + 1] \in Int /\ f[k + 1] * c <= g[k + 1]
    BY DEF IntsTo
  <2>4. (SumTo(f, k) + f[k + 1]) * c = SumTo(f, k) * c + f[k + 1] * c
    BY <2>1, <2>3
  <2>5. SumTo(f, k) * c \in Int /\ f[k + 1] * c \in Int
    BY <2>1, <2>3
  <2> QED  BY <2>1, <2>2, <2>3, <2>4, <2>5
<1>3. Nat \subseteq Good
  <2> HIDE DEF Good
  <2> QED  BY <1>1, <1>2, InductiveSet
<1> QED  BY <1>3

\* Where the partial sums of a list first reach r.
LEMMA SumToCrosses ==
  ASSUME NEW f, NEW n, NEW r,
         n \in Nat,
         NatsTo(f, n),
         r \in Nat,
         0 < r,
         r <= SumTo(f, n)
  PROVE  \E k \in 1..n : SumTo(f, k - 1) < r /\ r <= SumTo(f, k)
<1> USE DEF NatsTo
<1> DEFINE Reached == {k \in 0..n : r <= SumTo(f, k)}
<1>1. PICK k \in Reached : \A j \in Reached : k <= j
  <2>1. Reached \subseteq Nat /\ n \in Reached
    OBVIOUS
  <2> QED  BY <2>1, LeastNat
<1>2. k # 0
  BY SumToZero
<1>3. k - 1 \in 0..n /\ k - 1 \notin Reached
  BY <1>1, <1>2
<1>4. SumTo(f, k - 1) \in Nat
  BY <1>3, SumToNat
<1> QED  BY <1>2, <1>3, <1>4

-----------------------------------------------------------------------------
(* Sums of what the entries of a list are worth. *)

\* The worth, by v, of each entry of s.
Values(v, s) == [i \in 1..Len(s) |-> v[s[i]]]

\* The values of a list, as summands.
LEMMA ValuesAreSummands ==
  ASSUME NEW S, NEW v \in [S -> Int], NEW s \in Seq(S)
  PROVE  /\ Len(s) \in Nat
         /\ IntsTo(Values(v, s), Len(s))
         /\ \A i \in 1..Len(s) : Values(v, s)[i] = v[s[i]] /\ s[i] \in S
         /\ Sum(Values(v, s)) = SumTo(Values(v, s), Len(s))
         /\ Sum(Values(v, s)) \in Int
<1>1. Len(s) \in Nat /\ \A i \in 1..Len(s) : s[i] \in S
  BY ElementOfSeq, LenProperties
<1>2. \A i \in 1..Len(s) : Values(v, s)[i] = v[s[i]]
  BY DEF Values
<1>3. IntsTo(Values(v, s), Len(s))
  BY <1>1, <1>2 DEF IntsTo
<1>4. Sum(Values(v, s)) = SumTo(Values(v, s), Len(s))
  BY <1>1 DEF Sum, Values
<1> QED  BY <1>1, <1>2, <1>3, <1>4, SumToInt

\* The values of a concatenation.
LEMMA ValuesOfConcat ==
  ASSUME NEW S, NEW v \in [S -> Int], NEW s \in Seq(S), NEW t \in Seq(S)
  PROVE  Sum(Values(v, s \o t)) = Sum(Values(v, s)) + Sum(Values(v, t))
<1> DEFINE c == s \o t
           k == Len(s)
           m == Len(t)
<1>1. /\ c \in Seq(S) /\ k \in Nat /\ m \in Nat /\ Len(c) = k + m
      /\ \A i \in 1..k : c[i] = s[i]
      /\ \A i \in 1..m : c[k + i] = t[i]
  BY ConcatProperties, LenProperties
<1> HIDE DEF c
<1>2. /\ \A i \in 1..(k + m) : Values(v, c)[i] = v[c[i]]
      /\ \A i \in 1..k : Values(v, s)[i] = v[s[i]]
      /\ \A i \in 1..m : Values(v, t)[i] = v[t[i]]
      /\ IntsTo(Values(v, c), k + m)
      /\ Sum(Values(v, c)) = SumTo(Values(v, c), k + m)
      /\ Sum(Values(v, s)) = SumTo(Values(v, s), k)
      /\ Sum(Values(v, t)) = SumTo(Values(v, t), m)
  <2>0. ASSUME NEW x \in Seq(S)
        PROVE  /\ \A i \in 1..Len(x) : Values(v, x)[i] = v[x[i]]
               /\ IntsTo(Values(v, x), Len(x))
               /\ Sum(Values(v, x)) = SumTo(Values(v, x), Len(x))
    BY ValuesAreSummands
  <2>1. /\ \A i \in 1..Len(c) : Values(v, c)[i] = v[c[i]]
        /\ IntsTo(Values(v, c), Len(c))
        /\ Sum(Values(v, c)) = SumTo(Values(v, c), Len(c))
    BY <1>1, <2>0
  <2>2. /\ \A i \in 1..k : Values(v, s)[i] = v[s[i]]
        /\ Sum(Values(v, s)) = SumTo(Values(v, s), k)
    BY <2>0
  <2>3. /\ \A i \in 1..m : Values(v, t)[i] = v[t[i]]
        /\ Sum(Values(v, t)) = SumTo(Values(v, t), m)
    BY <2>0
  <2> HIDE DEF k, m
  <2> QED  BY <1>1, <2>1, <2>2, <2>3
<1> HIDE DEF k, m
<1>3. Continues(Values(v, t), m, Values(v, c), k)
  <2> SUFFICES ASSUME NEW i \in 1..m PROVE Values(v, t)[i] = Values(v, c)[k + i]
    BY DEF Continues
  <2>1. k + i \in 1..(k + m)
    BY <1>1
  <2>2. Values(v, c)[k + i] = v[c[k + i]] /\ Values(v, t)[i] = v[t[i]]
    BY <1>2, <2>1
  <2> QED  BY <1>1, <2>2
<1>4. SameTo(Values(v, c), Values(v, s), k)
  <2> SUFFICES ASSUME NEW i \in 1..k PROVE Values(v, c)[i] = Values(v, s)[i]
    BY DEF SameTo
  <2>1. i \in 1..(k + m)
    BY <1>1
  <2>2. Values(v, c)[i] = v[c[i]] /\ Values(v, s)[i] = v[s[i]]
    BY <1>2, <2>1
  <2> QED  BY <1>1, <2>2
<1>5. SumTo(Values(v, c), k + m) = SumTo(Values(v, c), k) + SumTo(Values(v, t), m)
  <2> DEFINE f == Values(v, c)
             g == Values(v, t)
  <2>1. IntsTo(f, k + m) /\ Continues(g, m, f, k)
    BY <1>2, <1>3
  <2> HIDE DEF f, g
  <2>2. SumTo(f, k + m) = SumTo(f, k) + SumTo(g, m)
    BY <1>1, <2>1, SumToSplit
  <2> QED  BY <2>2 DEF f, g
<1>6. SumTo(Values(v, c), k) = SumTo(Values(v, s), k)
  BY <1>1, <1>4, SumToEqual
<1> QED  BY <1>2, <1>5, <1>6 DEF c, k, m

\* The values of a list are those of a prefix and of the rest.
LEMMA ValuesOfSplit ==
  ASSUME NEW S, NEW v \in [S -> Int], NEW s \in Seq(S), NEW k \in 0..Len(s)
  PROVE  /\ SubSeq(s, 1, k) \in Seq(S)
         /\ SubSeq(s, k + 1, Len(s)) \in Seq(S)
         /\ Sum(Values(v, s)) = Sum(Values(v, SubSeq(s, 1, k)))
                                  + Sum(Values(v, SubSeq(s, k + 1, Len(s))))
<1>1. Len(s) \in Nat /\ \A i \in 1..Len(s) : s[i] \in S
  BY ElementOfSeq, LenProperties
<1>2. SubSeq(s, 1, k) \in Seq(S) /\ SubSeq(s, k + 1, Len(s)) \in Seq(S)
  BY <1>1, SubSeqProperties
<1>3. s = SubSeq(s, 1, k) \o SubSeq(s, k + 1, Len(s))
  <2>1. 1 \in 1..Len(s)+1 /\ k \in (1 - 1)..Len(s) /\ Len(s) \in k..Len(s)
    BY <1>1
  <2>2. SubSeq(s, 1, k) \o SubSeq(s, k + 1, Len(s)) = SubSeq(s, 1, Len(s))
    BY <2>1, ConcatAdjacentSubSeq
  <2> QED  BY <2>2, SubSeqFull
<1> QED  BY <1>2, <1>3, ValuesOfConcat

\* The value of one entry.
LEMMA ValuesOfOne ==
  ASSUME NEW S, NEW v \in [S -> Int], NEW x \in S
  PROVE  Sum(Values(v, <<x>>)) = v[x]
<1> DEFINE f == Values(v, <<x>>)
<1>1. Len(f) = 1 /\ f[1] = v[x] /\ v[x] \in Int
  BY DEF Values
<1> HIDE DEF f
<1>2. SumTo(f, 0 + 1) = SumTo(f, 0) + f[0 + 1]
  BY SumToSucc
<1>3. Sum(f) = v[x]
  BY <1>1, <1>2, SumToZero DEF Sum
<1> QED  BY <1>3 DEF f

\* Replacing one entry.
LEMMA ValuesOfExcept ==
  ASSUME NEW S, NEW v \in [S -> Int], NEW s \in Seq(S), NEW j \in 1..Len(s), NEW x \in S
  PROVE  /\ [s EXCEPT ![j] = x] \in Seq(S)
         /\ Sum(Values(v, [s EXCEPT ![j] = x])) = Sum(Values(v, s)) - v[s[j]] + v[x]
<1> DEFINE t == [s EXCEPT ![j] = x]
<1>1. /\ t \in Seq(S) /\ Len(t) = Len(s) /\ t[j] = x
      /\ \A i \in 1..Len(s) : i # j => t[i] = s[i]
  BY ExceptSeq
<1> HIDE DEF t
<1>2. /\ Len(s) \in Nat /\ IntsTo(Values(v, s), Len(s))
      /\ \A i \in 1..Len(s) : Values(v, s)[i] = v[s[i]]
      /\ Sum(Values(v, s)) = SumTo(Values(v, s), Len(s))
  BY ValuesAreSummands
<1>3. /\ IntsTo(Values(v, t), Len(s))
      /\ \A i \in 1..Len(s) : Values(v, t)[i] = v[t[i]]
      /\ Sum(Values(v, t)) = SumTo(Values(v, t), Len(s))
  <2>1. t \in Seq(S)
    BY <1>1
  <2>2. /\ IntsTo(Values(v, t), Len(t))
        /\ \A i \in 1..Len(t) : Values(v, t)[i] = v[t[i]]
        /\ Sum(Values(v, t)) = SumTo(Values(v, t), Len(t))
    BY <2>1, ValuesAreSummands
  <2> QED  BY <1>1, <2>2
<1>4. SameButAt(Values(v, s), Values(v, t), Len(s), j)
  <2>1. ASSUME NEW i \in 1..Len(s), i # j PROVE Values(v, t)[i] = Values(v, s)[i]
    <3>1. t[i] = s[i]
      BY <1>1, <2>1
    <3> QED  BY <1>2, <1>3, <3>1
  <2> QED  BY <2>1 DEF SameButAt
<1>5. SumTo(Values(v, t), Len(s))
        = SumTo(Values(v, s), Len(s)) - Values(v, s)[j] + Values(v, t)[j]
  BY <1>2, <1>3, <1>4, SumToUpdate
<1>6. Values(v, s)[j] = v[s[j]] /\ Values(v, t)[j] = v[x]
  BY <1>1, <1>2, <1>3
<1> QED  BY <1>1, <1>2, <1>3, <1>5, <1>6 DEF t

\* A list of entries worth nothing is worth nothing.
LEMMA ValuesOfZeros ==
  ASSUME NEW S, NEW v \in [S -> Int], NEW s \in Seq(S), \A i \in 1..Len(s) : v[s[i]] = 0
  PROVE  Sum(Values(v, s)) = 0
<1> DEFINE f == Values(v, s)
           n == Len(s)
           Good == {k \in Nat : k <= n => SumTo(f, k) = 0}
<1>1. n \in Nat /\ Sum(f) = SumTo(f, n) /\ \A i \in 1..n : f[i] = 0
  BY ValuesAreSummands
<1> HIDE DEF f, n
<1>2. 0 \in Good
  BY SumToZero
<1>3. \A k \in Nat : k \in Good => k + 1 \in Good
  <2> SUFFICES ASSUME NEW k \in Nat, k \in Good, k + 1 <= n PROVE SumTo(f, k + 1) = 0
    OBVIOUS
  <2>1. SumTo(f, k) = 0 /\ f[k + 1] = 0
    BY <1>1
  <2>2. SumTo(f, k + 1) = SumTo(f, k) + f[k + 1]
    BY SumToSucc
  <2> QED  BY <2>1, <2>2
<1>4. Nat \subseteq Good
  <2> HIDE DEF Good
  <2> QED  BY <1>2, <1>3, InductiveSet
<1> QED  BY <1>1, <1>4 DEF f

\* The worth of a list of natural values is a natural number.
LEMMA ValuesNat ==
  ASSUME NEW S, NEW v \in [S -> Nat], NEW s \in Seq(S)
  PROVE  Sum(Values(v, s)) \in Nat
<1>1. v \in [S -> Int]
  OBVIOUS
<1>2. /\ Len(s) \in Nat /\ Sum(Values(v, s)) = SumTo(Values(v, s), Len(s))
      /\ \A i \in 1..Len(s) : Values(v, s)[i] = v[s[i]] /\ s[i] \in S
  BY <1>1, ValuesAreSummands
<1>3. NatsTo(Values(v, s), Len(s))
  BY <1>2 DEF NatsTo
<1> QED  BY <1>2, <1>3, SumToNat

-----------------------------------------------------------------------------
(* Loops *)

\* f is the run of a loop of n rounds from c, the i-th of which is G[<<state, i>>].
RunOf(f, c, n, G) == f[0] = c /\ \A i \in 1..n : f[i] = G[<<f[i - 1], i>>]

\* A loop of n rounds over the states S runs to its end.
LEMMA LoopRuns ==
  ASSUME NEW S, NEW c, NEW n, NEW G, c \in S, n \in Nat, G \in [S \X (1..n) -> S]
  PROVE  \E f \in [0..n -> S] : RunOf(f, c, n, G)
<1> DEFINE Run(f, k) == f[0] = c /\ \A i \in 1..k : f[i] = G[<<f[i - 1], i>>]
           T == {k \in Nat : k <= n => \E f \in [0..k -> S] : Run(f, k)}
<1>1. 0 \in T
  <2>1. [i \in 0..0 |-> c] \in [0..0 -> S] /\ Run([i \in 0..0 |-> c], 0)
    OBVIOUS
  <2> QED  BY <2>1
<1>2. ASSUME NEW k \in Nat, k \in T PROVE k + 1 \in T
  <2> SUFFICES ASSUME k + 1 <= n PROVE \E f \in [0..(k + 1) -> S] : Run(f, k + 1)
    OBVIOUS
  <2>1. PICK f \in [0..k -> S] : Run(f, k)
    BY <1>2
  <2> DEFINE g == [i \in 0..(k + 1) |-> IF i = k + 1 THEN G[<<f[k], k + 1>>] ELSE f[i]]
  <2>2. f[k] \in S /\ k + 1 \in 1..n
    OBVIOUS
  <2>3. g \in [0..(k + 1) -> S]
    <3>1. G[<<f[k], k + 1>>] \in S
      BY <2>2
    <3> QED  BY <3>1
  <2>4. g[0] = c
    BY <2>1
  <2>5. ASSUME NEW i \in 1..(k + 1) PROVE g[i] = G[<<g[i - 1], i>>]
    <3>1. CASE i = k + 1
      <4>1. i - 1 = k /\ k \in 0..(k + 1) /\ k # k + 1 /\ i \in 0..(k + 1)
        BY <3>1
      <4>2. g[k] = f[k] /\ g[i] = G[<<f[k], k + 1>>]
        BY <3>1, <4>1
      <4> QED  BY <3>1, <4>1, <4>2
    <3>2. CASE i # k + 1
      <4>1. i \in 1..k /\ i - 1 \in 0..k
        BY <3>2
      <4>2. g[i] = f[i] /\ g[i - 1] = f[i - 1]
        BY <4>1
      <4> QED  BY <2>1, <4>1, <4>2
    <3> QED  BY <3>1, <3>2
  <2> HIDE DEF g
  <2> QED  BY <2>3, <2>4, <2>5
<1>3. n \in T
  <2> HIDE DEF T
  <2> QED  BY <1>1, <1>2, InductiveSet
<1> QED  BY <1>3 DEF RunOf

\* What holds before the first round and is kept by every round holds throughout.
LEMMA LoopKeeps ==
  ASSUME NEW S, NEW n \in Nat, NEW f, f[0] \in S,
         \A i \in 1..n : f[i - 1] \in S => f[i] \in S
  PROVE  \A i \in 0..n : f[i] \in S
<1> DEFINE T == {k \in Nat : k <= n => f[k] \in S}
<1>1. 0 \in T
  OBVIOUS
<1>2. ASSUME NEW k \in Nat, k \in T PROVE k + 1 \in T
  <2> SUFFICES ASSUME k + 1 <= n PROVE f[k + 1] \in S
    OBVIOUS
  <2>1. k + 1 \in 1..n /\ (k + 1) - 1 = k
    OBVIOUS
  <2>2. f[(k + 1) - 1] \in S => f[k + 1] \in S
    BY <2>1
  <2> QED  BY <1>2, <2>1, <2>2
<1> HIDE DEF T
<1>3. Nat \subseteq T
  BY <1>1, <1>2, InductiveSet
<1> QED  BY <1>3 DEF T

==============================================================================
