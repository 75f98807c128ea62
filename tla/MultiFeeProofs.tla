--------------------------- MODULE MultiFeeProofs ----------------------------
(***************************************************************************)
(* Theorems about MultiFeeDistribution, for every number of users, every     *)
(* set of tokens, every amount and every setting of the constants.           *)
(*                                                                         *)
(* The inductive invariant Inv is the type invariant and, for each user,     *)
(* UserOK: the vesting entries are not empty, unlock within vestDuration and *)
(* sum to Balances.earned, and total is the sum of its parts.  The bound on  *)
(* the unlock times is what makes the invariant inductive: it bounds the     *)
(* penalty of an entry by 90%, so that withdraw()'s division by what remains *)
(* of it is defined, and what it takes from an entry is less than the entry. *)
(*                                                                         *)
(* The module begins with facts about the operators the contract is built    *)
(* from: sums over its lists, the arithmetic of penalties, and the loop of   *)
(* withdraw().                                                               *)
(***************************************************************************)
EXTENDS MultiFeeProperties, SumsProofs, SequenceTheorems, FiniteSetTheorems

\* Lists whose entries have an amount.
HasAmount(S) == \A x \in S : x.amount \in Nat

\* Locks and vesting entries have an amount.
LEMMA EntriesHaveAmount == HasAmount(Lock) /\ HasAmount(Earning)
  BY DEF HasAmount, Lock, Earning

-----------------------------------------------------------------------------
(* Sums over lists *)

\* The amounts of a list, as summands.
LEMMA AmountsAreSummands ==
  ASSUME NEW S, NEW s, HasAmount(S), s \in Seq(S)
  PROVE  /\ Len(s) \in Nat
         /\ Len(Amounts(s)) = Len(s)
         /\ Sum(Amounts(s)) = SumTo(Amounts(s), Len(s))
         /\ NatsTo(Amounts(s), Len(s))
         /\ IntsTo(Amounts(s), Len(s))
         /\ \A i \in 1..Len(s) : Amounts(s)[i] = s[i].amount
<1>1. Len(s) \in Nat /\ \A i \in 1..Len(s) : s[i].amount \in Nat
  BY ElementOfSeq, LenProperties DEF HasAmount
<1>2. Amounts(s) = [i \in 1..Len(s) |-> s[i].amount]
  BY DEF Amounts
<1> QED  BY <1>1, <1>2 DEF Sum, NatsTo, IntsTo

\* The amounts of a list add up to a natural number.
LEMMA SumAmountsNat ==
  ASSUME NEW S, NEW s, HasAmount(S), s \in Seq(S)
  PROVE  Sum(Amounts(s)) \in Nat
BY AmountsAreSummands, SumToNat

\* The amounts of a list up to k, and those of its prefix of length k.
LEMMA SumAmountsPrefix ==
  ASSUME NEW S, NEW s, NEW k, HasAmount(S), s \in Seq(S), k \in 0..Len(s)
  PROVE  Sum(Amounts(SubSeq(s, 1, k))) = SumTo(Amounts(s), k)
<1> DEFINE t == SubSeq(s, 1, k)
<1>1. t \in Seq(S) /\ Len(t) = k /\ \A i \in 1..k : t[i] = s[i]
  <2>1. \A i \in 1..k : s[i] \in S
    BY ElementOfSeq
  <2> QED  BY <2>1, SubSeqProperties
<1> HIDE DEF t
<1>2. SameTo(Amounts(t), Amounts(s), k)
  BY <1>1, AmountsAreSummands DEF SameTo
<1>3. Sum(Amounts(t)) = SumTo(Amounts(t), k)
  BY <1>1, AmountsAreSummands
<1> QED  BY <1>2, <1>3, SumToEqual DEF t

\* The amounts of a list are those of a prefix and of the rest.
LEMMA SumAmountsSplit ==
  ASSUME NEW S, NEW s, NEW k, HasAmount(S), s \in Seq(S), k \in 0..Len(s)
  PROVE  /\ SubSeq(s, k + 1, Len(s)) \in Seq(S)
         /\ Sum(Amounts(s)) = SumTo(Amounts(s), k) + Sum(Amounts(SubSeq(s, k + 1, Len(s))))
<1> DEFINE t == SubSeq(s, k + 1, Len(s))
           m == Len(t)
<1>1. t \in Seq(S) /\ m \in Nat /\ k + m = Len(s) /\ \A i \in 1..m : t[i] = s[k + i]
  <2> DEFINE n == Len(s)
             l == k + 1
  <2>1. n \in Nat /\ k \in Nat /\ k <= n /\ l \in Int /\ n \in Int /\ l = k + 1
    BY LenProperties
  <2>2. \A i \in l..n : s[i] \in S
    BY <2>1, ElementOfSeq
  <2> HIDE DEF l, n
  <2>3. /\ SubSeq(s, l, n) \in Seq(S)
        /\ Len(SubSeq(s, l, n)) = IF l <= n THEN n - l + 1 ELSE 0
        /\ \A i \in 1..n - l + 1 : SubSeq(s, l, n)[i] = s[l + i - 1]
    BY <2>1, <2>2, SubSeqProperties
  <2>4. t = SubSeq(s, l, n)
    BY DEF l, n
  <2> HIDE DEF t
  <2>5. t \in Seq(S)
    BY <2>3, <2>4
  <2>6. m = n - k
    BY <2>1, <2>3, <2>4
  <2> HIDE DEF m
  <2>7. ASSUME NEW i \in 1..m PROVE t[i] = s[k + i]
    <3>1. i \in 1..n - l + 1 /\ l + i - 1 = k + i
      BY <2>1, <2>6
    <3> QED  BY <2>3, <2>4, <3>1
  <2>8. m \in Nat /\ k + m = n
    BY <2>1, <2>6
  <2> QED  BY <2>5, <2>7, <2>8 DEF n
<1> HIDE DEF t
<1>2. Continues(Amounts(t), m, Amounts(s), k)
  <2>1. \A i \in 1..m : k + i \in 1..Len(s)
    BY <1>1
  <2> QED  BY <1>1, <2>1, AmountsAreSummands DEF Continues
<1>3. IntsTo(Amounts(s), k + m)
  BY <1>1, AmountsAreSummands
<1>4. SumTo(Amounts(s), k + m) = SumTo(Amounts(s), k) + SumTo(Amounts(t), m)
  BY <1>1, <1>2, <1>3, SumToSplit
<1>5. Sum(Amounts(t)) = SumTo(Amounts(t), m) /\ Sum(Amounts(s)) = SumTo(Amounts(s), k + m)
  BY <1>1, AmountsAreSummands
<1> QED  BY <1>1, <1>4, <1>5 DEF t

\* The amounts of a concatenation.
LEMMA SumAmountsConcat ==
  ASSUME NEW S, NEW s, NEW t, HasAmount(S), s \in Seq(S), t \in Seq(S)
  PROVE  Sum(Amounts(s \o t)) = Sum(Amounts(s)) + Sum(Amounts(t))
<1> DEFINE c == s \o t
           k == Len(s)
           m == Len(t)
<1>1. /\ c \in Seq(S) /\ k \in Nat /\ m \in Nat /\ Len(c) = k + m
      /\ \A i \in 1..k : c[i] = s[i]
      /\ \A i \in 1..m : c[k + i] = t[i]
  BY ConcatProperties, LenProperties
<1> HIDE DEF c
<1>2. Continues(Amounts(t), m, Amounts(c), k) /\ SameTo(Amounts(c), Amounts(s), k)
  <2>1. /\ \A i \in 1..m : k + i \in 1..Len(c)
        /\ \A i \in 1..k : i \in 1..Len(c)
    BY <1>1
  <2>2. /\ \A i \in 1..Len(c) : Amounts(c)[i] = c[i].amount
        /\ \A i \in 1..k : Amounts(s)[i] = s[i].amount
        /\ \A i \in 1..m : Amounts(t)[i] = t[i].amount
    BY <1>1, AmountsAreSummands
  <2>3. \A i \in 1..m : Amounts(t)[i] = Amounts(c)[k + i]
    BY <1>1, <2>1, <2>2
  <2>4. \A i \in 1..k : Amounts(c)[i] = Amounts(s)[i]
    BY <1>1, <2>1, <2>2
  <2> QED  BY <2>3, <2>4 DEF Continues, SameTo
<1>3. IntsTo(Amounts(c), k + m)
  BY <1>1, AmountsAreSummands
<1>4. SumTo(Amounts(c), k + m) = SumTo(Amounts(c), k) + SumTo(Amounts(t), m)
  BY <1>1, <1>2, <1>3, SumToSplit
<1>5. SumTo(Amounts(c), k) = SumTo(Amounts(s), k)
  BY <1>1, <1>2, SumToEqual
<1>6. /\ Sum(Amounts(c)) = SumTo(Amounts(c), k + m)
      /\ Sum(Amounts(s)) = SumTo(Amounts(s), k)
      /\ Sum(Amounts(t)) = SumTo(Amounts(t), m)
  BY <1>1, AmountsAreSummands
<1> QED  BY <1>4, <1>5, <1>6 DEF c

\* One entry.
LEMMA SumAmountsSingle ==
  ASSUME NEW x, x.amount \in Nat
  PROVE  Sum(Amounts(<<x>>)) = x.amount
<1> DEFINE f == Amounts(<<x>>)
<1>1. Len(f) = 1 /\ f[1] = x.amount
  BY DEF Amounts
<1> HIDE DEF f
<1>2. SumTo(f, 0 + 1) = SumTo(f, 0) + f[0 + 1]
  BY SumToSucc
<1>3. Sum(f) = x.amount
  BY <1>1, <1>2, SumToZero DEF Sum
<1> QED  BY <1>3 DEF f

\* Raising the amount of one entry raises the sum.
LEMMA SumAmountsRaised ==
  ASSUME NEW S, NEW s, NEW t, NEW j, NEW a,
         HasAmount(S), s \in Seq(S), t \in Seq(S), Len(t) = Len(s),
         j \in 1..Len(s), a \in Int, t[j].amount = s[j].amount + a,
         \A i \in 1..Len(s) : i # j => t[i] = s[i]
  PROVE  Sum(Amounts(t)) = Sum(Amounts(s)) + a
<1>1. SameButAt(Amounts(s), Amounts(t), Len(s), j)
  BY AmountsAreSummands DEF SameButAt
<1>2. /\ Len(s) \in Nat
      /\ IntsTo(Amounts(s), Len(s)) /\ IntsTo(Amounts(t), Len(s))
      /\ Sum(Amounts(s)) = SumTo(Amounts(s), Len(s))
      /\ Sum(Amounts(t)) = SumTo(Amounts(t), Len(s))
  BY AmountsAreSummands
<1>3. Amounts(s)[j] \in Int /\ Amounts(t)[j] = Amounts(s)[j] + a
  BY <1>2, AmountsAreSummands DEF IntsTo
<1>4. Sum(Amounts(t)) = Sum(Amounts(s)) - Amounts(s)[j] + Amounts(t)[j]
  BY <1>1, <1>2, SumToUpdate
<1>5. Sum(Amounts(s)) \in Int
  BY <1>2, SumToInt
<1> QED  BY <1>3, <1>4, <1>5

-----------------------------------------------------------------------------
(* Lists: counting, cutting, raising and inserting *)

\* How many indices of a list satisfy a condition.
LEMMA CountInRange ==
  ASSUME NEW n, NEW T, n \in Nat, T \subseteq 1..n
  PROVE  Cardinality(T) \in 0..n
<1>1. IsFiniteSet(1..n) /\ Cardinality(1..n) = n
  BY FS_Interval
<1>2. IsFiniteSet(T) /\ Cardinality(T) <= n
  BY <1>1, FS_Subset
<1> QED  BY <1>2, FS_CardinalityType

\* Indices that come with all smaller ones are a prefix, as long as they are many.
LEMMA CountPrefix ==
  ASSUME NEW n \in Nat, NEW T, T \subseteq 1..n, \A i \in T : \A j \in 1..i : j \in T
  PROVE  Cardinality(T) \in 0..n /\ T = 1..Cardinality(T)
<1> DEFINE Outside == {k \in 1..(n + 1) : k \notin T}
<1>1. PICK m \in Outside : \A k \in Outside : m <= k
  <2>1. Outside \subseteq Nat /\ n + 1 \in Outside
    OBVIOUS
  <2> HIDE DEF Outside
  <2> QED  BY <2>1, LeastNat
<1>2. m \in 1..(n + 1) /\ m \notin T
  OBVIOUS
<1>3. T = 1..(m - 1)
  <2>1. ASSUME NEW i \in T PROVE i \in 1..(m - 1)
    <3>1. i \in 1..n /\ (m \in 1..i => m \in T)
      OBVIOUS
    <3> QED  BY <1>2, <3>1
  <2>2. ASSUME NEW i \in 1..(m - 1) PROVE i \in T
    <3>1. i \in 1..(n + 1) /\ ~(m <= i)
      BY <1>2
    <3> QED  BY <1>1, <3>1
  <2> QED  BY <2>1, <2>2
<1>4. Cardinality(T) = m - 1
  <2>1. m - 1 \in Nat /\ 1 \in Nat
    BY <1>2
  <2>2. Cardinality(1..(m - 1)) = m - 1
    BY <2>1, FS_Interval
  <2> QED  BY <1>3, <2>2
<1> QED  BY <1>2, <1>3, <1>4

\* Lists that are ordered by unlock time, and entries that have one.
Sorted(s) ==
  \A i, j \in 1..Len(s) : i <= j => s[i].unlockTime <= s[j].unlockTime

HasTime(S) == \A x \in S : x.unlockTime \in Nat

\* Locks and vesting entries have an unlock time.
LEMMA EntriesHaveTime == HasTime(Lock) /\ HasTime(Earning)
  BY DEF HasTime, Lock, Earning

\* A concatenation is sorted when both parts are and the first ends before the second.
LEMMA SortedConcat ==
  ASSUME NEW S, NEW s \in Seq(S), NEW t \in Seq(S), HasTime(S), Sorted(s), Sorted(t),
         \A i \in 1..Len(s), j \in 1..Len(t) : s[i].unlockTime <= t[j].unlockTime
  PROVE  Sorted(s \o t)
<1> DEFINE c == s \o t
           k == Len(s)
           m == Len(t)
<1>1. /\ c \in Seq(S) /\ k \in Nat /\ m \in Nat /\ Len(c) = k + m
      /\ \A i \in 1..(k + m) : c[i] = IF i <= k THEN s[i] ELSE t[i - k]
  BY ConcatProperties, LenProperties
<1> HIDE DEF c
<1> SUFFICES ASSUME NEW i \in 1..(k + m), NEW j \in 1..(k + m), i <= j
             PROVE  c[i].unlockTime <= c[j].unlockTime
  BY <1>1 DEF Sorted, c
<1>2. CASE j <= k
  <2>1. i \in 1..k /\ j \in 1..k /\ c[i] = s[i] /\ c[j] = s[j]
    BY <1>1, <1>2
  <2> QED  BY <2>1 DEF Sorted
<1>3. CASE ~(j <= k) /\ i <= k
  <2>1. i \in 1..k /\ j - k \in 1..m /\ c[i] = s[i] /\ c[j] = t[j - k]
    BY <1>1, <1>3
  <2> QED  BY <2>1
<1>4. CASE ~(i <= k)
  <2>1. /\ i - k \in 1..m /\ j - k \in 1..m /\ i - k <= j - k
        /\ c[i] = t[i - k] /\ c[j] = t[j - k]
    BY <1>1, <1>4
  <2> QED  BY <2>1 DEF Sorted
<1> QED  BY <1>1, <1>2, <1>3, <1>4

\* The two parts of a list cut after position k.
LEMMA CutTypes ==
  ASSUME NEW S, NEW s, NEW k, s \in Seq(S), k \in 0..Len(s)
  PROVE  /\ SubSeq(s, 1, k) \in Seq(S)
         /\ Len(SubSeq(s, 1, k)) = k
         /\ \A i \in 1..k : SubSeq(s, 1, k)[i] = s[i]
         /\ SubSeq(s, k + 1, Len(s)) \in Seq(S)
         /\ Len(SubSeq(s, k + 1, Len(s))) = Len(s) - k
         /\ \A i \in 1..(Len(s) - k) : SubSeq(s, k + 1, Len(s))[i] = s[k + i]
<1>1. Len(s) \in Nat /\ \A i \in 1..Len(s) : s[i] \in S
  BY ElementOfSeq, LenProperties
<1>2. /\ SubSeq(s, 1, k) \in Seq(S)
      /\ Len(SubSeq(s, 1, k)) = k
      /\ \A i \in 1..k : SubSeq(s, 1, k)[i] = s[i]
  BY <1>1, SubSeqProperties
<1>3. /\ SubSeq(s, k + 1, Len(s)) \in Seq(S)
      /\ Len(SubSeq(s, k + 1, Len(s))) = Len(s) - k
      /\ \A i \in 1..(Len(s) - k) : SubSeq(s, k + 1, Len(s))[i] = s[k + i]
  BY <1>1, SubSeqProperties
<1> QED  BY <1>2, <1>3

\* Both parts of a sorted list are sorted, and the first ends before the second.
LEMMA SortedCut ==
  ASSUME NEW S, NEW s \in Seq(S), NEW k \in 0..Len(s), HasTime(S), Sorted(s)
  PROVE  /\ Sorted(SubSeq(s, 1, k))
         /\ Sorted(SubSeq(s, k + 1, Len(s)))
         /\ \A i \in 1..k, j \in 1..(Len(s) - k) :
              SubSeq(s, 1, k)[i].unlockTime
                <= SubSeq(s, k + 1, Len(s))[j].unlockTime
<1> DEFINE n == Len(s)
           a == SubSeq(s, 1, k)
           b == SubSeq(s, k + 1, n)
<1>1. /\ n \in Nat /\ Len(a) = k /\ Len(b) = n - k
      /\ \A i \in 1..k : a[i] = s[i]
      /\ \A i \in 1..(n - k) : b[i] = s[k + i]
  BY CutTypes, LenProperties
<1>2. \A i, j \in 1..n : i <= j => s[i].unlockTime <= s[j].unlockTime
  BY DEF Sorted
<1> HIDE DEF a, b, n
<1>3. k \in 0..n
  BY DEF n
<1>4. Sorted(a)
  <2> SUFFICES ASSUME NEW i \in 1..k, NEW j \in 1..k, i <= j
               PROVE  a[i].unlockTime <= a[j].unlockTime
    BY <1>1 DEF Sorted
  <2>1. i \in 1..n /\ j \in 1..n
    BY <1>1, <1>3
  <2> QED  BY <1>1, <1>2, <2>1
<1>5. Sorted(b)
  <2> SUFFICES ASSUME NEW i \in 1..(n - k), NEW j \in 1..(n - k), i <= j
               PROVE  b[i].unlockTime <= b[j].unlockTime
    BY <1>1 DEF Sorted
  <2>1. k + i \in 1..n /\ k + j \in 1..n /\ k + i <= k + j
    BY <1>1, <1>3
  <2> QED  BY <1>1, <1>2, <2>1
<1>6. ASSUME NEW i \in 1..k, NEW j \in 1..(n - k)
      PROVE  a[i].unlockTime <= b[j].unlockTime
  <2>1. i \in 1..n /\ k + j \in 1..n /\ i <= k + j
    BY <1>1, <1>3
  <2> QED  BY <1>1, <1>2, <2>1
<1> QED  BY <1>4, <1>5, <1>6 DEF a, b, n

\* Writing the amount of a vesting entry leaves a vesting entry, that unlocks when it did.
LEMMA AmountWritten ==
  ASSUME NEW e \in Earning, NEW x \in Nat
  PROVE  /\ [e EXCEPT !.amount = x] \in Earning
         /\ [e EXCEPT !.amount = x].amount = x
         /\ [e EXCEPT !.amount = x].unlockTime = e.unlockTime
BY DEF Earning

\* Removing an entry removes its amount.
LEMMA RemovedEntry ==
  ASSUME NEW es, NEW j, es \in Seq(Earning), j \in 1..Len(es)
  PROVE  /\ RemoveEntry(es, j) \in Seq(Earning)
         /\ Sum(Amounts(RemoveEntry(es, j))) = Sum(Amounts(es)) - es[j].amount
         /\ \A i \in 1..Len(RemoveEntry(es, j)) :
              \E h \in 1..Len(es) : RemoveEntry(es, j)[i] = es[h]
<1> DEFINE before == SubSeq(es, 1, j - 1)
           after == SubSeq(es, j + 1, Len(es))
<1>1. Len(es) \in Nat /\ j - 1 \in 0..Len(es) /\ j \in 0..Len(es) /\ (j - 1) + 1 = j
      /\ j - 1 \in Nat
  BY LenProperties
<1>2. /\ before \in Seq(Earning) /\ Len(before) = j - 1
      /\ \A i \in 1..(j - 1) : before[i] = es[i]
  BY <1>1, CutTypes
<1>3. /\ after \in Seq(Earning) /\ Len(after) = Len(es) - j
      /\ \A i \in 1..(Len(es) - j) : after[i] = es[j + i]
  BY <1>1, CutTypes
<1>4. Sum(Amounts(before)) = SumTo(Amounts(es), j - 1)
  BY <1>1, SumAmountsPrefix, EntriesHaveAmount
<1>5. Sum(Amounts(es)) = SumTo(Amounts(es), j) + Sum(Amounts(after))
  BY <1>1, SumAmountsSplit, EntriesHaveAmount
<1>6. SumTo(Amounts(es), j) = SumTo(Amounts(es), j - 1) + es[j].amount
  <2>1. SumTo(Amounts(es), (j - 1) + 1) = SumTo(Amounts(es), j - 1) + Amounts(es)[(j - 1) + 1]
    BY <1>1, SumToSucc
  <2>2. Amounts(es)[j] = es[j].amount
    BY AmountsAreSummands, EntriesHaveAmount
  <2> QED  BY <1>1, <2>1, <2>2
<1>7. RemoveEntry(es, j) = before \o after
  BY DEF RemoveEntry
<1> HIDE DEF before, after
<1>8. Sum(Amounts(before \o after)) = Sum(Amounts(before)) + Sum(Amounts(after))
  BY <1>2, <1>3, SumAmountsConcat, EntriesHaveAmount
<1>9. /\ before \o after \in Seq(Earning)
      /\ Len(before \o after) = (j - 1) + (Len(es) - j)
      /\ \A i \in 1..((j - 1) + (Len(es) - j)) :
           (before \o after)[i] = IF i <= j - 1 THEN before[i] ELSE after[i - (j - 1)]
  <2>1. /\ before \o after \in Seq(Earning)
        /\ Len(before \o after) = Len(before) + Len(after)
        /\ \A i \in 1..Len(before) + Len(after) :
             (before \o after)[i] = IF i <= Len(before) THEN before[i]
                                    ELSE after[i - Len(before)]
    BY <1>2, <1>3, ConcatProperties
  <2> QED  BY <1>2, <1>3, <2>1
<1>10. Sum(Amounts(before)) \in Nat /\ Sum(Amounts(after)) \in Nat /\ es[j].amount \in Nat
  <2>1. es[j] \in Earning
    BY ElementOfSeq
  <2> QED  BY <1>2, <1>3, <2>1, SumAmountsNat, EntriesHaveAmount DEF Earning
<1>11. ASSUME NEW i \in 1..Len(before \o after)
       PROVE  \E h \in 1..Len(es) : (before \o after)[i] = es[h]
  <2>1. CASE i <= j - 1
    <3>1. (before \o after)[i] = es[i] /\ i \in 1..Len(es)
      BY <1>1, <1>2, <1>9, <2>1
    <3> QED  BY <3>1
  <2>2. CASE ~(i <= j - 1)
    <3>1. i - (j - 1) \in 1..(Len(es) - j) /\ j + (i - (j - 1)) \in 1..Len(es)
      BY <1>1, <1>9, <2>2
    <3>2. (before \o after)[i] = es[j + (i - (j - 1))]
      BY <1>3, <1>9, <2>2, <3>1
    <3> QED  BY <3>1, <3>2
  <2> QED  BY <2>1, <2>2
<1>12. Sum(Amounts(before \o after)) = Sum(Amounts(es)) - es[j].amount
  BY <1>4, <1>5, <1>6, <1>8, <1>10
<1> QED  BY <1>7, <1>9, <1>11, <1>12

\* The weighted amounts of a lock list add up to a natural number.
LEMMA SumWeightedNat ==
  ASSUME NEW s, s \in Seq(Lock)
  PROVE  Sum(Weighted(s)) \in Nat
<1>1. Len(s) \in Nat /\ \A i \in 1..Len(s) : s[i] \in Lock
  BY ElementOfSeq, LenProperties
<1>2. \A i \in 1..Len(s) : s[i].amount \in Nat /\ s[i].multiplier \in Nat
  BY <1>1 DEF Lock
<1>3. \A i \in 1..Len(s) : s[i].amount * s[i].multiplier \in Nat
  BY <1>2
<1>4. Len(Weighted(s)) = Len(s) /\ NatsTo(Weighted(s), Len(s))
  BY <1>1, <1>3 DEF Weighted, NatsTo
<1> QED  BY <1>1, <1>4, SumToNat DEF Sum

-----------------------------------------------------------------------------
(* Integer division *)

\* The quotient q of a and b is the only integer with bq <= a < bq + b.
LEMMA DivBounds ==
  ASSUME NEW a, NEW b, a \in Int, b \in Nat, b # 0
  PROVE  /\ a \div b \in Int
         /\ b * (a \div b) <= a
         /\ a < b * (a \div b) + b
OBVIOUS

\* ... and any integer with these bounds is the quotient.
LEMMA DivIs ==
  ASSUME NEW a, NEW b, NEW q, a \in Int, b \in Nat, b # 0, q \in Int,
         b * q <= a, a < b * q + b
  PROVE  a \div b = q
OBVIOUS

\* The quotient of natural numbers is a natural number.
LEMMA DivNat ==
  ASSUME NEW a, NEW b, a \in Nat, b \in Nat, b # 0
  PROVE  a \div b \in Nat
OBVIOUS

\* A share p/w of x is at most x.
LEMMA ShareIsPart ==
  ASSUME NEW x, NEW p, NEW w, x \in Nat, p \in Nat, w \in Nat, w # 0, p <= w
  PROVE  (x * p) \div w \in 0..x
<1>1. x * p \in Nat /\ x * p <= x * w
  OBVIOUS
<1>2. (x * p) \div w \in Nat /\ w * ((x * p) \div w) <= x * p
  BY <1>1, DivBounds, DivNat
<1> DEFINE q == (x * p) \div w
<1>3. ~(q > x)
  <2> HIDE DEF q
  <2> SUFFICES ASSUME q \in Nat, q > x, w * q <= x * w PROVE FALSE
    BY <1>1, <1>2 DEF q
  <2>1. q >= x + 1
    OBVIOUS
  <2>2. w * q >= w * (x + 1)
    BY <2>1
  <2> QED  BY <2>2
<1> QED  BY <1>2, <1>3

\* What withdraw() takes from an entry so that x remains after a penalty of p/w:
\* rounding never loses a unit, and never takes the whole entry `a` when x is
\* less than what the whole entry would leave.
LEMMA GrossUp ==
  ASSUME NEW x, NEW p, NEW w, x \in Nat, p \in Nat, w \in Nat, p < w
  PROVE  LET r == (x * w) \div (w - p)
         IN  /\ r \in Nat
             /\ (r * p) \div w = r - x
             /\ \A a \in Nat : x + (a * p) \div w < a => r < a
<1> DEFINE d == w - p
           r == (x * w) \div d
<1>1. d \in Nat /\ d # 0 /\ d <= w /\ p = w - d /\ x * w \in Nat
  OBVIOUS
<1>2. r \in Nat /\ d * r <= x * w /\ x * w < d * r + d
  BY <1>1, DivBounds, DivNat
<1> HIDE DEF d, r
<1>3. r * p = w * r - d * r
  BY <1>1, <1>2
<1>4. w * (r - x) = w * r - x * w
  BY <1>2
<1>5. (r * p) \div w = r - x
  <2>1. r * p \in Int /\ r - x \in Int /\ w # 0
    BY <1>1, <1>2
  <2>2. w * (r - x) <= r * p /\ r * p < w * (r - x) + w
    BY <1>1, <1>2, <1>3, <1>4
  <2> QED  BY <2>1, <2>2, DivIs
<1>6. ASSUME NEW a \in Nat, x + (a * p) \div w < a PROVE r < a
  <2> SUFFICES ASSUME r >= a PROVE FALSE
    BY <1>2
  <2>1. d * r >= d * a
    BY <1>1, <1>2
  <2>2. a * p = w * a - d * a
    BY <1>1
  <2>3. w * (a - x) = w * a - x * w
    OBVIOUS
  <2>4. w * (a - x) <= a * p
    BY <1>1, <1>2, <2>1, <2>2, <2>3
  <2> DEFINE q == (a * p) \div w
  <2>5. q \in Nat /\ a * p < w * q + w
    <3>1. a * p \in Nat /\ w # 0
      BY <1>1
    <3> QED  BY <3>1, DivBounds, DivNat
  <2> HIDE DEF q
  <2>6. w * (a - x) < w * (q + 1)
    <3>1. a * p \in Int /\ w * (a - x) \in Int
      OBVIOUS
    <3> QED  BY <2>4, <2>5, <3>1
  <2>7. a - x < q + 1
    <3> SUFFICES ASSUME a - x >= q + 1 PROVE FALSE
      BY <2>5
    <3>1. w * (a - x) >= w * (q + 1)
      BY <2>5
    <3> QED  BY <2>5, <2>6, <3>1
  <2> QED  BY <1>6, <2>5, <2>7 DEF q
<1> QED  BY <1>2, <1>5, <1>6 DEF r, d

-----------------------------------------------------------------------------
(* Lock lists *)

\* Inserting a lock keeps a lock list one.
LEMMA InsertLockType ==
  ASSUME NEW locks, NEW lock, locks \in Seq(Lock), lock \in Lock
  PROVE  InsertLock(locks, lock) \in Seq(Lock)
<1> DEFINE earlier == {i \in 1..Len(locks) : locks[i].unlockTime < lock.unlockTime}
           p == Cardinality(earlier)
<1>1. Len(locks) \in Nat /\ earlier \subseteq 1..Len(locks)
  BY LenProperties
<1> HIDE DEF earlier
<1>2. p \in 0..Len(locks)
  BY <1>1, CountInRange
<1> HIDE DEF p
<1>3. SubSeq(locks, 1, p) \in Seq(Lock) /\ SubSeq(locks, p + 1, Len(locks)) \in Seq(Lock)
  BY <1>2, CutTypes
<1>4. <<lock>> \in Seq(Lock)
  OBVIOUS
<1>5. SubSeq(locks, 1, p) \o <<lock>> \in Seq(Lock)
  BY <1>3, <1>4, ConcatProperties
<1>6. SubSeq(locks, 1, p) \o <<lock>> \o SubSeq(locks, p + 1, Len(locks)) \in Seq(Lock)
  BY <1>3, <1>5, ConcatProperties
<1> QED  BY <1>6 DEF InsertLock, p, earlier

\* Adding an amount to a lock list, merged or inserted, keeps it a lock list.
LEMMA AddLockType ==
  ASSUME NEW locks, NEW amount, NEW type, locks \in Seq(Lock), amount \in Nat,
         type \in LockType, now \in Nat
  PROVE  AddLock(locks, amount, type) \in Seq(Lock)
<1> DEFINE days == type.period \div DAY
           n == Len(locks)
           merged == [locks EXCEPT ![n].amount = @ + amount]
           new == [amount |-> amount, unlockTime |-> now + days * DAY,
                   multiplier |-> type.multiplier]
<1>1. /\ type.period \in Nat /\ type.multiplier \in Nat
      /\ DAY \in Nat /\ DAY # 0 /\ n \in Nat
  BY ConstantsAssumption, LenProperties DEF LockType
<1>2. new \in Lock
  <2>1. days \in Nat
    BY <1>1, DivNat
  <2> HIDE DEF days
  <2>2. now + days * DAY \in Nat
    BY <1>1, <2>1
  <2> QED  BY <1>1, <2>2 DEF Lock
<1>3. InsertLock(locks, new) \in Seq(Lock)
  <2> HIDE DEF new
  <2> QED  BY <1>2, InsertLockType
<1>4. locks # <<>> => merged \in Seq(Lock)
  <2> SUFFICES ASSUME locks # <<>> PROVE merged \in Seq(Lock)
    OBVIOUS
  <2>1. n \in 1..Len(locks)
    <3>1. \A s \in Seq(Lock) : s # <<>> => Len(s) \in Nat \ {0}
      BY EmptySeq, Zenon
    <3>2. Len(locks) \in Nat \ {0}
      BY <3>1, Zenon
    <3> QED  BY <3>2
  <2> HIDE DEF n
  <2> DEFINE last == locks[n]
             raised == [last EXCEPT !.amount = last.amount + amount]
  <2>2. last \in Lock
    BY <2>1, ElementOfSeq
  <2>3. raised \in Lock
    <3> HIDE DEF last
    <3>1. last.amount + amount \in Nat
      BY <2>2 DEF Lock
    <3> DEFINE more == last.amount + amount
    <3> HIDE DEF more
    <3>2. more \in Nat
      BY <3>1 DEF more
    <3>3. [last EXCEPT !.amount = more] \in Lock
      BY <2>2, <3>2 DEF Lock
    <3> QED  BY <3>3 DEF more
  <2>4. [locks EXCEPT ![n] = raised] \in Seq(Lock)
    <3> HIDE DEF raised
    <3> QED  BY <2>1, <2>3, ExceptSeq
  <2> QED  BY <2>4
<1>5. \/ AddLock(locks, amount, type) = InsertLock(locks, new)
      \/ locks # <<>> /\ AddLock(locks, amount, type) = merged
  BY DEF AddLock
<1> QED  BY <1>3, <1>4, <1>5

-----------------------------------------------------------------------------
(* Penalties *)

\* The penalty constants, as the provers need them.
LEMMA PenaltyConstants ==
  QUART \in Nat /\ HALF \in Nat /\ WHOLE \in Nat /\ QUART + HALF < WHOLE
BY DEF QUART, HALF, WHOLE

\* An entry that unlocks within vestDuration bears a penalty of at most 90%.
LEMMA PenaltyFactorRange ==
  ASSUME NEW e, now \in Nat, e.unlockTime \in Nat,
         e.unlockTime <= now + vestDuration
  PROVE  PenaltyFactor(e) \in 0..(QUART + HALF)
<1>1. vestDuration \in Nat /\ vestDuration # 0
  BY ConstantsAssumption
<1> DEFINE x == e.unlockTime - now
<1>2. CASE e.unlockTime > now
  <2>1. x \in Nat /\ x <= vestDuration
    BY <1>1, <1>2
  <2> HIDE DEF x
  <2>2. (HALF * x) \div vestDuration \in 0..HALF
    BY <1>1, <2>1, ShareIsPart, PenaltyConstants
  <2>3. HALF * x = x * HALF
    BY <2>1, PenaltyConstants
  <2>4. PenaltyFactor(e) = (x * HALF) \div vestDuration + QUART
    BY <1>2 DEF PenaltyFactor, x
  <2> QED  BY <2>2, <2>3, <2>4, PenaltyConstants
<1>3. CASE ~(e.unlockTime > now)
  <2>1. PenaltyFactor(e) = 0
    BY <1>3 DEF PenaltyFactor
  <2> QED  BY <2>1, PenaltyConstants
<1> QED  BY <1>2, <1>3

\* The penalty of an amount is a part of it.
LEMMA PenaltyIsPart ==
  ASSUME NEW amount, NEW factor, amount \in Nat, factor \in 0..(QUART + HALF)
  PROVE  PenaltyOf(amount, factor) \in 0..amount
<1>1. factor \in Nat /\ factor <= WHOLE /\ WHOLE # 0
  BY PenaltyConstants
<1> QED  BY <1>1, ShareIsPart, PenaltyConstants DEF PenaltyOf

-----------------------------------------------------------------------------
(* withdraw(): the loop over the vesting entries *)

\* Entries are never empty and unlock within vestDuration.
Vesting(es) ==
  \A i \in 1..Len(es) : es[i].amount > 0 /\ es[i].unlockTime <= now + vestDuration

\* A new entry at the end.
LEMMA AppendedEntry ==
  ASSUME NEW es, NEW e, es \in Seq(Earning), e \in Earning
  PROVE  /\ Append(es, e) \in Seq(Earning)
         /\ Sum(Amounts(Append(es, e))) = Sum(Amounts(es)) + e.amount
         /\ Len(Append(es, e)) = Len(es) + 1 /\ Len(es) \in Nat
         /\ \A i \in 1..Len(es) : Append(es, e)[i] = es[i]
         /\ Append(es, e)[Len(es) + 1] = e
<1>1. <<e>> \in Seq(Earning) /\ e.amount \in Nat
  BY DEF Earning
<1>2. Append(es, e) = es \o <<e>>
  BY AppendIsConcat
<1>3. Sum(Amounts(es \o <<e>>)) = Sum(Amounts(es)) + Sum(Amounts(<<e>>))
  BY <1>1, SumAmountsConcat, EntriesHaveAmount
<1>4. Sum(Amounts(<<e>>)) = e.amount
  BY <1>1, SumAmountsSingle
<1> QED  BY <1>2, <1>3, <1>4, AppendProperties, LenProperties

\* Vesting an amount with penalty: in the last entry, or in a new one.
LEMMA VestedEntries ==
  ASSUME NEW es, NEW a, now \in Nat, es \in Seq(Earning), Vesting(es), a \in Nat, a # 0
  PROVE  /\ Len(es) > 0 =>
              /\ [es EXCEPT ![Len(es)].amount = @ + a] \in Seq(Earning)
              /\ Sum(Amounts([es EXCEPT ![Len(es)].amount = @ + a])) = Sum(Amounts(es)) + a
              /\ Vesting([es EXCEPT ![Len(es)].amount = @ + a])
         /\ LET e == [amount |-> a, unlockTime |-> now + vestDuration]
            IN  /\ Append(es, e) \in Seq(Earning)
                /\ Sum(Amounts(Append(es, e))) = Sum(Amounts(es)) + a
                /\ Vesting(Append(es, e))
<1> DEFINE e == [amount |-> a, unlockTime |-> now + vestDuration]
<1>1. ASSUME Len(es) > 0
      PROVE  /\ [es EXCEPT ![Len(es)].amount = @ + a] \in Seq(Earning)
             /\ Sum(Amounts([es EXCEPT ![Len(es)].amount = @ + a])) = Sum(Amounts(es)) + a
             /\ Vesting([es EXCEPT ![Len(es)].amount = @ + a])
  <2> DEFINE n == Len(es)
             t == [es EXCEPT ![n].amount = @ + a]
  <2>1. n \in 1..Len(es)
    BY <1>1, LenProperties
  <2>2. es[n] \in Earning
    BY <2>1, ElementOfSeq
  <2> HIDE DEF n
  <2> DEFINE last == [es[n] EXCEPT !.amount = @ + a]
  <2>3. /\ [es EXCEPT ![n] = last] \in Seq(Earning)
        /\ Len([es EXCEPT ![n] = last]) = Len(es)
        /\ Sum(Amounts([es EXCEPT ![n] = last])) = Sum(Amounts(es)) + a
        /\ \A i \in 1..Len(es) : [es EXCEPT ![n] = last][i] = IF i = n THEN last ELSE es[i]
        /\ last.amount = es[n].amount + a /\ last.unlockTime = es[n].unlockTime
    <3> DEFINE x == es[n].amount + a
               t1 == [es EXCEPT ![n] = last]
    <3>1. es[n].amount \in Nat
      BY <2>2 DEF Earning
    <3>2. x \in Nat
      BY <3>1
    <3>3. last = [es[n] EXCEPT !.amount = x]
      OBVIOUS
    <3> HIDE DEF x
    <3>4. last \in Earning /\ last.amount = x /\ last.unlockTime = es[n].unlockTime
      <4> DEFINE w == [es[n] EXCEPT !.amount = x]
      <4>1. w \in Earning /\ w.amount = x /\ w.unlockTime = es[n].unlockTime
        BY <2>2, <3>2, AmountWritten
      <4> HIDE DEF w
      <4>2. last = w
        BY <3>3 DEF w
      <4> HIDE DEF last
      <4> QED  BY <4>1, <4>2
    <3> HIDE DEF last
    <3>5. /\ t1 \in Seq(Earning) /\ Len(t1) = Len(es)
          /\ \A i \in 1..Len(es) : t1[i] = IF i = n THEN last ELSE es[i]
      BY <2>1, <3>4, ExceptSeq
    <3> HIDE DEF t1
    <3>6. t1[n].amount = es[n].amount + a /\ \A i \in 1..Len(es) : i # n => t1[i] = es[i]
      BY <2>1, <3>4, <3>5 DEF x
    <3>7. Sum(Amounts(t1)) = Sum(Amounts(es)) + a
      <4>1. HasAmount(Earning) /\ a \in Int
        BY EntriesHaveAmount
      <4> QED  BY <2>1, <3>5, <3>6, <4>1, SumAmountsRaised
    <3> QED  BY <3>4, <3>5, <3>7 DEF t1, x
  <2>4. t = [es EXCEPT ![n] = last] /\ last.amount > 0
    BY <2>2, <2>3 DEF Earning
  <2> HIDE DEF t, last
  <2>5. Vesting(t)
    <3> SUFFICES ASSUME NEW i \in 1..Len(es)
                 PROVE  t[i].amount > 0 /\ t[i].unlockTime <= now + vestDuration
      BY <2>3, <2>4 DEF Vesting
    <3>1. es[i].amount > 0 /\ es[i].unlockTime <= now + vestDuration
      BY DEF Vesting
    <3>2. CASE i = n
      BY <2>3, <2>4, <3>1, <3>2
    <3>3. CASE i # n
      BY <2>3, <2>4, <3>1, <3>3
    <3> QED  BY <3>2, <3>3
  <2> QED  BY <2>3, <2>4, <2>5 DEF t, n
<1>2. e \in Earning /\ e.amount = a /\ e.unlockTime = now + vestDuration
  BY ConstantsAssumption DEF Earning
<1> HIDE DEF e
<1>3. /\ Append(es, e) \in Seq(Earning)
      /\ Sum(Amounts(Append(es, e))) = Sum(Amounts(es)) + a
      /\ Len(Append(es, e)) = Len(es) + 1 /\ Len(es) \in Nat
      /\ \A i \in 1..Len(es) : Append(es, e)[i] = es[i]
      /\ Append(es, e)[Len(es) + 1] = e
  BY <1>2, AppendedEntry
<1>4. Vesting(Append(es, e))
  <2> SUFFICES ASSUME NEW i \in 1..(Len(es) + 1)
               PROVE  /\ Append(es, e)[i].amount > 0
                      /\ Append(es, e)[i].unlockTime <= now + vestDuration
    BY <1>3 DEF Vesting
  <2>1. CASE i \in 1..Len(es)
    <3>1. es[i].amount > 0 /\ es[i].unlockTime <= now + vestDuration
      BY <2>1 DEF Vesting
    <3> QED  BY <1>3, <2>1, <3>1
  <2>2. CASE i = Len(es) + 1
    <3>1. now + vestDuration \in Nat
      BY ConstantsAssumption
    <3> QED  BY <1>2, <1>3, <2>2, <3>1
  <2> QED  BY <1>3, <2>1, <2>2
<1> QED  BY <1>1, <1>3, <1>4 DEF e

\* The net amount of an entry is what its penalty leaves.
LEMMA EntryParts ==
  ASSUME NEW es, now \in Nat, es \in Seq(Earning), Vesting(es)
  PROVE  /\ NatsTo(Amounts(es), Len(es)) /\ NatsTo(Penalties(es), Len(es))
         /\ NatsTo(Nets(es), Len(es))
         /\ DifferenceTo(Nets(es), Amounts(es), Penalties(es), Len(es))
         /\ Sum(Nets(es)) = SumTo(Nets(es), Len(es))
         /\ \A i \in 1..Len(es) :
              /\ es[i].amount \in Nat
              /\ PenaltyFactor(es[i]) \in 0..(QUART + HALF)
              /\ Amounts(es)[i] = es[i].amount
              /\ Penalties(es)[i] = PenaltyOf(es[i].amount, PenaltyFactor(es[i]))
              /\ Nets(es)[i] = es[i].amount - PenaltyOf(es[i].amount, PenaltyFactor(es[i]))
<1>1. Len(es) \in Nat /\ \A i \in 1..Len(es) : es[i] \in Earning
  BY ElementOfSeq, LenProperties
<1>2. \A i \in 1..Len(es) :
        /\ es[i].amount \in Nat /\ es[i].unlockTime \in Nat
        /\ es[i].unlockTime <= now + vestDuration
  BY <1>1 DEF Earning, Vesting
<1>3. \A i \in 1..Len(es) : PenaltyFactor(es[i]) \in 0..(QUART + HALF)
  BY <1>2, PenaltyFactorRange
<1>4. \A i \in 1..Len(es) :
        PenaltyOf(es[i].amount, PenaltyFactor(es[i])) \in 0..es[i].amount
  BY <1>2, <1>3, PenaltyIsPart
<1>5. \A i \in 1..Len(es) :
        /\ Amounts(es)[i] = es[i].amount
        /\ Penalties(es)[i] = PenaltyOf(es[i].amount, PenaltyFactor(es[i]))
        /\ Nets(es)[i] = es[i].amount - PenaltyOf(es[i].amount, PenaltyFactor(es[i]))
  BY DEF Amounts, Penalties, Nets, Penalty, Net
<1>6. Sum(Nets(es)) = SumTo(Nets(es), Len(es))
  BY <1>1 DEF Sum, Nets
<1>7. /\ NatsTo(Amounts(es), Len(es)) /\ NatsTo(Penalties(es), Len(es))
      /\ NatsTo(Nets(es), Len(es))
  <2>1. \A i \in 1..Len(es) : Amounts(es)[i] \in Nat
    BY <1>2, <1>5
  <2>2. \A i \in 1..Len(es) : Penalties(es)[i] \in Nat
    BY <1>4, <1>5
  <2>3. \A i \in 1..Len(es) : Nets(es)[i] \in Nat
    <3> SUFFICES ASSUME NEW i \in 1..Len(es) PROVE Nets(es)[i] \in Nat
      OBVIOUS
    <3> DEFINE p == PenaltyOf(es[i].amount, PenaltyFactor(es[i]))
    <3>1. p \in 0..es[i].amount /\ es[i].amount \in Nat
      BY <1>2, <1>4
    <3>2. Nets(es)[i] = es[i].amount - p
      BY <1>5
    <3> HIDE DEF p
    <3> QED  BY <3>1, <3>2
  <2> QED  BY <2>1, <2>2, <2>3 DEF NatsTo
<1>8. DifferenceTo(Nets(es), Amounts(es), Penalties(es), Len(es))
  BY <1>5 DEF DifferenceTo
<1> QED  BY <1>2, <1>3, <1>5, <1>6, <1>7, <1>8

\* The entry at which the loop stops, and the sums of the entries before it.
LEMMA LastEntry ==
  ASSUME NEW es, NEW r, now \in Nat, es \in Seq(Earning), Vesting(es),
         r \in Nat, 0 < r, r <= Sum(Nets(es))
  PROVE  \E k \in 1..Len(es) :
           /\ k = CHOOSE i \in 1..Len(es) :
                    SumTo(Nets(es), i - 1) < r /\ r <= SumTo(Nets(es), i)
           /\ SumTo(Nets(es), k - 1) < r /\ r <= SumTo(Nets(es), k)
           /\ SumTo(Amounts(es), k - 1) \in Nat
           /\ SumTo(Penalties(es), k - 1) \in Nat
           /\ SumTo(Nets(es), k - 1) = SumTo(Amounts(es), k - 1) - SumTo(Penalties(es), k - 1)
           /\ SumTo(Amounts(es), k) = SumTo(Amounts(es), k - 1) + Amounts(es)[k]
           /\ SumTo(Nets(es), k) = SumTo(Nets(es), k - 1) + Nets(es)[k]
<1> DEFINE A == Amounts(es)
           P == Penalties(es)
           N == Nets(es)
           n == Len(es)
           stops(i) == SumTo(N, i - 1) < r /\ r <= SumTo(N, i)
           k == CHOOSE i \in 1..n : stops(i)
<1>1. n \in Nat /\ NatsTo(A, n) /\ NatsTo(P, n) /\ NatsTo(N, n) /\ DifferenceTo(N, A, P, n)
  BY EntryParts, LenProperties
<1>2. k \in 1..n /\ stops(k)
  <2>1. r <= SumTo(N, n)
    BY EntryParts
  <2>2. \E i \in 1..n : stops(i)
    <3> HIDE DEF N, n
    <3> QED  BY <1>1, <2>1, SumToCrosses
  <2> HIDE DEF stops
  <2> QED  BY <2>2
<1> HIDE DEF A, P, N, n, k
<1>3. k - 1 \in Nat /\ (k - 1) + 1 = k
  BY <1>1, <1>2
<1>4. /\ NatsTo(A, k - 1) /\ NatsTo(P, k - 1) /\ DifferenceTo(N, A, P, k - 1)
      /\ IntsTo(A, k - 1) /\ IntsTo(P, k - 1)
  BY <1>1, <1>2 DEF NatsTo, IntsTo, DifferenceTo
<1>5. /\ SumTo(A, k - 1) \in Nat /\ SumTo(P, k - 1) \in Nat
      /\ SumTo(N, k - 1) = SumTo(A, k - 1) - SumTo(P, k - 1)
  BY <1>3, <1>4, SumToNat, SumToMinus
<1>6. SumTo(A, k) = SumTo(A, k - 1) + A[k] /\ SumTo(N, k) = SumTo(N, k - 1) + N[k]
  <2>1. /\ SumTo(A, (k - 1) + 1) = SumTo(A, k - 1) + A[(k - 1) + 1]
        /\ SumTo(N, (k - 1) + 1) = SumTo(N, k - 1) + N[(k - 1) + 1]
    BY <1>3, SumToSucc
  <2> QED  BY <1>3, <2>1
<1> QED  BY <1>2, <1>5, <1>6 DEF A, P, N, n, k

\* The amount and the penalty withdraw() takes from the last entry: all of it, or
\* the grossed-up amount, which leaves something of the entry.
LEMMA LastTaken ==
  ASSUME NEW a, NEW f, NEW short, NEW net,
         a \in Nat, f \in 0..(QUART + HALF), short \in Nat,
         net = a - PenaltyOf(a, f), short < net
  PROVE  /\ (short * WHOLE) \div (WHOLE - f) \in Nat
         /\ (short * WHOLE) \div (WHOLE - f) < a
         /\ PenaltyOf((short * WHOLE) \div (WHOLE - f), f)
              = (short * WHOLE) \div (WHOLE - f) - short
<1>1. f \in Nat /\ WHOLE \in Nat /\ f < WHOLE
  BY PenaltyConstants
<1>2. /\ (short * WHOLE) \div (WHOLE - f) \in Nat
      /\ (((short * WHOLE) \div (WHOLE - f)) * f) \div WHOLE
           = (short * WHOLE) \div (WHOLE - f) - short
      /\ \A x \in Nat : short + (x * f) \div WHOLE < x
                          => (short * WHOLE) \div (WHOLE - f) < x
  BY <1>1, GrossUp
<1>3. PenaltyOf(a, f) \in Nat
  BY PenaltyIsPart
<1>4. short + PenaltyOf(a, f) < a
  BY <1>3
<1> QED  BY <1>2, <1>4 DEF PenaltyOf

\* The loop of withdraw(): what is taken is what was asked for and its penalty,
\* the entries that are left are worth that much less, and none is empty.
LEMMA DrainEffect ==
  ASSUME NEW es, NEW r, now \in Nat, es \in Seq(Earning), Vesting(es),
         r \in Nat, 0 < r, r <= Sum(Nets(es))
  PROVE  /\ Drain(es, r).taken \in Nat
         /\ Drain(es, r).penalty \in Nat
         /\ Drain(es, r).taken = r + Drain(es, r).penalty
         /\ Drain(es, r).earnings \in Seq(Earning)
         /\ Vesting(Drain(es, r).earnings)
         /\ Sum(Amounts(Drain(es, r).earnings)) = Sum(Amounts(es)) - Drain(es, r).taken
<1>1. PICK k \in 1..Len(es) :
        /\ k = CHOOSE i \in 1..Len(es) :
                 SumTo(Nets(es), i - 1) < r /\ r <= SumTo(Nets(es), i)
        /\ SumTo(Nets(es), k - 1) < r /\ r <= SumTo(Nets(es), k)
        /\ SumTo(Amounts(es), k - 1) \in Nat
        /\ SumTo(Penalties(es), k - 1) \in Nat
        /\ SumTo(Nets(es), k - 1) = SumTo(Amounts(es), k - 1) - SumTo(Penalties(es), k - 1)
        /\ SumTo(Amounts(es), k) = SumTo(Amounts(es), k - 1) + Amounts(es)[k]
        /\ SumTo(Nets(es), k) = SumTo(Nets(es), k - 1) + Nets(es)[k]
  BY LastEntry
<1> DEFINE factor == PenaltyFactor(es[k])
           a == es[k].amount
           before == SumTo(Amounts(es), k - 1)
           paid == SumTo(Penalties(es), k - 1)
           short == r - SumTo(Nets(es), k - 1)
           whole == SumTo(Nets(es), k) = r
           partial == (short * WHOLE) \div (WHOLE - factor)
           required == IF whole THEN a ELSE partial
           rest == SubSeq(es, k + 1, Len(es))
           left == [es[k] EXCEPT !.amount = @ - required]
<1>2. Drain(es, r) = [taken    |-> before + required,
                      penalty  |-> paid + PenaltyOf(required, factor),
                      earnings |-> IF whole THEN rest ELSE <<left>> \o rest]
  BY <1>1 DEF Drain
<1>3. /\ Len(es) \in Nat /\ k \in 0..Len(es) /\ es[k] \in Earning /\ a > 0
      /\ es[k].unlockTime <= now + vestDuration
  BY ElementOfSeq, LenProperties DEF Vesting
<1>4. /\ a \in Nat /\ factor \in 0..(QUART + HALF)
      /\ Amounts(es)[k] = a /\ Nets(es)[k] = a - PenaltyOf(a, factor)
  BY EntryParts
<1>5. /\ before \in Nat /\ paid \in Nat /\ PenaltyOf(a, factor) \in 0..a
      /\ short \in Nat /\ short <= a - PenaltyOf(a, factor)
      /\ whole <=> short = a - PenaltyOf(a, factor)
      /\ r = before - paid + short
  <2> DEFINE netBefore == SumTo(Nets(es), k - 1)
             netUpTo == SumTo(Nets(es), k)
             p == PenaltyOf(a, factor)
  <2>1. p \in 0..a
    BY <1>4, PenaltyIsPart
  <2>2. netBefore = before - paid /\ netUpTo = netBefore + (a - p)
    BY <1>1, <1>4
  <2>3. before \in Nat /\ paid \in Nat /\ netBefore < r /\ r <= netUpTo /\ short = r - netBefore
    BY <1>1
  <2>4. whole <=> netUpTo = r
    OBVIOUS
  <2> HIDE DEF netBefore, netUpTo, p, a, before, paid, short, whole
  <2>5. short \in Nat /\ short <= a - p /\ r = before - paid + short
    BY <1>4, <2>1, <2>2, <2>3
  <2>6. netUpTo = r <=> short = a - p
    BY <1>4, <2>1, <2>2, <2>3
  <2> QED  BY <2>1, <2>3, <2>4, <2>5, <2>6 DEF p
<1>6. /\ rest \in Seq(Earning)
      /\ Sum(Amounts(es)) = before + a + Sum(Amounts(rest))
      /\ Sum(Amounts(rest)) \in Nat
  BY <1>1, <1>3, <1>4, SumAmountsSplit, SumAmountsNat, EntriesHaveAmount
<1>7. Vesting(rest)
  <2>1. /\ Len(rest) = Len(es) - k
        /\ \A i \in 1..Len(rest) : rest[i] = es[k + i] /\ k + i \in 1..Len(es)
    BY <1>3, ElementOfSeq, SubSeqProperties
  <2> QED  BY <2>1 DEF Vesting
<1> HIDE DEF factor, a, before, paid, short, rest, partial
<1>8. CASE whole
  <2>1. required = a
    BY <1>8
  <2>2. /\ Drain(es, r).taken = before + a
        /\ Drain(es, r).penalty = paid + PenaltyOf(a, factor)
        /\ Drain(es, r).earnings = rest
    BY <1>2, <1>8, <2>1
  <2>3. before + a = r + (paid + PenaltyOf(a, factor)) /\ before + a \in Nat
    <3> DEFINE p == PenaltyOf(a, factor)
    <3>1. p \in 0..a /\ short = a - p
      BY <1>5, <1>8
    <3> HIDE DEF p
    <3>2. before + a = r + (paid + p) /\ before + a \in Nat
      BY <1>4, <1>5, <3>1
    <3> QED  BY <3>2 DEF p
  <2>4. paid + PenaltyOf(a, factor) \in Nat
    BY <1>5
  <2>5. Sum(Amounts(rest)) = Sum(Amounts(es)) - (before + a)
    BY <1>4, <1>5, <1>6
  <2> QED  BY <1>6, <1>7, <2>2, <2>3, <2>4, <2>5
<1>9. CASE ~whole
  <2>1. partial \in Nat /\ partial < a /\ PenaltyOf(partial, factor) = partial - short
    <3>1. short < a - PenaltyOf(a, factor)
      BY <1>4, <1>5, <1>9
    <3> QED  BY <1>4, <1>5, <3>1, LastTaken DEF partial
  <2>2. required = partial
    BY <1>9
  <2>3. /\ Drain(es, r).taken = before + partial
        /\ Drain(es, r).penalty = paid + PenaltyOf(partial, factor)
        /\ Drain(es, r).earnings = <<left>> \o rest
    BY <1>2, <1>9, <2>2
  <2>4. /\ left \in Earning /\ left.amount = a - partial
        /\ left.unlockTime = es[k].unlockTime
    <3> DEFINE x == a - partial
    <3>1. x \in Nat
      BY <1>4, <2>1
    <3>2. left = [es[k] EXCEPT !.amount = x]
      BY <2>2 DEF a
    <3> HIDE DEF x, left
    <3>3. left \in Earning /\ left.amount = x /\ left.unlockTime = es[k].unlockTime
      BY <1>3, <3>1, <3>2, AmountWritten, Zenon
    <3> QED  BY <3>3 DEF x
  <2> HIDE DEF left
  <2>5. <<left>> \in Seq(Earning) /\ Len(<<left>>) = 1 /\ <<left>>[1] = left
    BY <2>4
  <2>6. /\ <<left>> \o rest \in Seq(Earning)
        /\ Sum(Amounts(<<left>> \o rest)) = (a - partial) + Sum(Amounts(rest))
    <3>1. Sum(Amounts(<<left>>)) = a - partial
      <4>1. left.amount \in Nat
        BY <1>4, <2>1, <2>4
      <4> QED  BY <2>4, <4>1, SumAmountsSingle
    <3>2. Sum(Amounts(<<left>> \o rest)) = Sum(Amounts(<<left>>)) + Sum(Amounts(rest))
      BY <1>6, <2>5, SumAmountsConcat, EntriesHaveAmount
    <3>3. <<left>> \o rest \in Seq(Earning)
      BY <1>6, <2>5, ConcatProperties
    <3> QED  BY <3>1, <3>2, <3>3
  <2>7. Vesting(<<left>> \o rest)
    <3>1. left.amount > 0 /\ left.unlockTime <= now + vestDuration
      BY <1>3, <1>4, <2>1, <2>4
    <3>2. /\ Len(rest) \in Nat
          /\ Len(<<left>> \o rest) = 1 + Len(rest)
          /\ \A i \in 1..(1 + Len(rest)) :
               (<<left>> \o rest)[i] = IF i <= 1 THEN left ELSE rest[i - 1]
      BY <1>6, <2>5, ConcatProperties, LenProperties
    <3>3. \A i \in 1..(1 + Len(rest)) : i = 1 \/ (i - 1 \in 1..Len(rest) /\ ~(i <= 1))
      BY <3>2
    <3> QED  BY <1>7, <3>1, <3>2, <3>3 DEF Vesting
  <2>8. paid + PenaltyOf(partial, factor) \in Nat
    BY <1>4, <1>5, <2>1, PenaltyIsPart
  <2>9. before + partial = r + (paid + PenaltyOf(partial, factor)) /\ before + partial \in Nat
    BY <1>5, <2>1
  <2>10. (a - partial) + Sum(Amounts(rest)) = Sum(Amounts(es)) - (before + partial)
    BY <1>4, <1>5, <1>6, <2>1
  <2> QED  BY <2>3, <2>6, <2>7, <2>8, <2>9, <2>10
<1> QED  BY <1>8, <1>9

-----------------------------------------------------------------------------
(* The inductive invariant *)

\* The parts of the type invariant.
TypeBalances ==
  /\ bal \in [Users -> Balances]
  /\ userLocks \in [Users -> Seq(Lock)]
  /\ userEarnings \in [Users -> Seq(Earning)]

TypeSupplies ==
  /\ lockedSupply \in Nat
  /\ lockedSupplyWithMultiplier \in Nat
  /\ stakeHeld \in Nat

TypeSettings ==
  /\ paused \in BOOLEAN
  /\ lockTypes \in Seq(LockType)
  /\ defaultLockIndex \in [Users -> Nat]
  /\ autoRelockDisabled \in [Users -> BOOLEAN]
  /\ rewardsLookback \in 1..rewardsDuration

TypeRewards ==
  /\ rewardData \in [Tokens -> Reward]
  /\ userRewardPerTokenPaid \in [Users -> [Tokens -> Nat]]
  /\ rewards \in [Users -> [Tokens -> Nat]]
  /\ held \in [Tokens -> Nat]
  /\ middleFee \in [Tokens -> Nat]
  /\ feesLeft \in [Tokens -> Nat]

\* The type invariant is the conjunction of its parts.
LEMMA TypeOKParts ==
  TypeOK <=> /\ now \in Nat
             /\ TypeBalances /\ TypeSupplies /\ TypeSettings /\ TypeRewards
             /\ rewardTokens \in Seq(Tokens)
BY DEF TypeOK, TypeBalances, TypeSupplies, TypeSettings, TypeRewards

\* What holds of a user with balances b and vesting entries es.
UserOK(b, es) ==
  /\ Vesting(es)
  /\ b.earned = Sum(Amounts(es))
  /\ b.total = b.unlocked + b.locked + b.earned

UsersOK == \A u \in Users : UserOK(bal[u], userEarnings[u])

Inv == TypeOK /\ UsersOK

-----------------------------------------------------------------------------
(* Rewards *)

\* Every listed token is a token.
LEMMA ListedTokens ==
  ASSUME rewardTokens \in Seq(Tokens)
  PROVE  Listed \subseteq Tokens
BY ElementOfSeq DEF Listed

\* The reward per token, and what a user has earned, are natural numbers.
LEMMA RewardPerTokenNat ==
  ASSUME NEW t, NEW u, TypeOK, u \in Users, t \in Listed, CanUpdateReward(u)
  PROVE  /\ rewardPerToken(t) \in Nat
         /\ Earned(u, t) \in Nat
         /\ lastTimeRewardApplicable(t) \in Nat
<1>1. t \in Tokens /\ rewardData[t] \in Reward /\ now \in Nat
  BY ListedTokens DEF TypeOK
<1>2. /\ rewardData[t].periodFinish \in Nat /\ rewardData[t].lastUpdateTime \in Nat
      /\ rewardData[t].rewardPerSecond \in Nat /\ rewardData[t].rewardPerTokenStored \in Nat
  BY <1>1 DEF Reward
<1>3. lastTimeRewardApplicable(t) \in Nat
  BY <1>1, <1>2 DEF lastTimeRewardApplicable
<1>4. RPT_PRECISION \in Nat /\ RPT_PRECISION # 0 /\ lockedSupplyWithMultiplier \in Nat
  BY ConstantsAssumption DEF TypeOK
<1>5. rewardPerToken(t) \in Nat
  <2> DEFINE newReward == (lastTimeRewardApplicable(t) - rewardData[t].lastUpdateTime)
                            * rewardData[t].rewardPerSecond
  <2>1. CASE lockedSupplyWithMultiplier > 0
    <3>1. lastTimeRewardApplicable(t) - rewardData[t].lastUpdateTime \in Nat
      BY <1>2, <1>3, <2>1 DEF CanUpdateReward
    <3>2. newReward * RPT_PRECISION \in Nat
      BY <1>2, <1>4, <3>1
    <3>3. (newReward * RPT_PRECISION) \div lockedSupplyWithMultiplier \in Nat
      BY <1>4, <2>1, <3>2, DivNat
    <3>4. rewardPerToken(t) = rewardData[t].rewardPerTokenStored
            + (newReward * RPT_PRECISION) \div lockedSupplyWithMultiplier
      BY <2>1 DEF rewardPerToken
    <3> HIDE DEF newReward
    <3> QED  BY <1>2, <3>3, <3>4
  <2>2. CASE ~(lockedSupplyWithMultiplier > 0)
    BY <1>2, <2>2 DEF rewardPerToken
  <2> QED  BY <2>1, <2>2
<1>6. Earned(u, t) \in Nat
  <2> DEFINE owed == bal[u].lockedWithMultiplier
                       * (rewardPerToken(t) - userRewardPerTokenPaid[u][t])
  <2>1. /\ bal[u].lockedWithMultiplier \in Nat /\ rewards[u][t] \in Nat
        /\ userRewardPerTokenPaid[u][t] \in Nat
    BY <1>1 DEF TypeOK, Balances
  <2>2. rewardPerToken(t) - userRewardPerTokenPaid[u][t] \in Nat
    BY <1>5, <2>1 DEF CanUpdateReward
  <2>3. owed \in Nat
    BY <2>1, <2>2
  <2> HIDE DEF owed
  <2>4. owed \div RPT_PRECISION \in Nat
    BY <1>4, <2>3, DivNat
  <2> QED  BY <2>1, <2>4 DEF Earned, owed
<1> QED  BY <1>3, <1>5, <1>6

\* What forwardReward sends on is not negative.
LEMMA ForwardedNat ==
  ASSUME NEW t, t \in Tokens, middleFee \in [Tokens -> Nat]
  PROVE  Forwarded(t) \in Nat
<1>1. /\ operationExpenseRatio \in Nat /\ RATIO_DIVISOR \in Nat /\ RATIO_DIVISOR # 0
      /\ operationExpenseRatio <= RATIO_DIVISOR
  BY ConstantsAssumption DEF RATIO_DIVISOR
<1>2. middleFee[t] \in Nat
  OBVIOUS
<1>3. (middleFee[t] * operationExpenseRatio) \div RATIO_DIVISOR \in 0..middleFee[t]
  BY <1>1, <1>2, ShareIsPart
<1> QED  BY <1>2, <1>3 DEF Forwarded

\* Streaming a reward keeps a token's reward data well typed.
LEMMA NotifyType ==
  ASSUME NEW r, NEW reward, r \in Reward, reward \in Nat, now \in Nat
  PROVE  Notify(r, reward) \in Reward
<1> DEFINE remaining == IF now >= r.periodFinish THEN 0 ELSE r.periodFinish - now
           leftover == (remaining * r.rewardPerSecond) \div PRECISION
           rate == ((reward + leftover) * PRECISION) \div rewardsDuration
<1>1. /\ PRECISION \in Nat /\ PRECISION # 0
      /\ rewardsDuration \in Nat /\ rewardsDuration # 0
  BY ConstantsAssumption
<1>2. /\ r.periodFinish \in Nat /\ r.rewardPerSecond \in Nat /\ r.balance \in Nat
      /\ r.rewardPerTokenStored \in Nat
  BY DEF Reward
<1>3. remaining * r.rewardPerSecond \in Nat
  <2>1. remaining \in Nat
    BY <1>2
  <2> QED  BY <1>2, <2>1
<1>4. leftover \in Nat
  BY <1>1, <1>3, DivNat
<1>5. (reward + leftover) * PRECISION \in Nat
  <2> DEFINE x == reward + leftover
  <2>1. x \in Nat
    BY <1>4
  <2> HIDE DEF x
  <2>2. x * PRECISION \in Nat
    BY <1>1, <2>1
  <2> QED  BY <2>2 DEF x
<1>6. rate \in Nat
  BY <1>1, <1>5, DivNat
<1> DEFINE finish == now + rewardsDuration
           balance == r.balance + reward
<1>7. Notify(r, reward) = [r EXCEPT !.rewardPerSecond = rate, !.lastUpdateTime = now,
                                    !.periodFinish = finish, !.balance = balance]
  BY DEF Notify
<1>8. finish \in Nat /\ balance \in Nat
  BY <1>1, <1>2
<1> HIDE DEF rate, finish, balance
<1> QED  BY <1>6, <1>7, <1>8 DEF Reward

\* _updateReward keeps a token's reward data well typed.
LEMMA UpdatedType ==
  ASSUME NEW t, NEW u, TypeOK, u \in Users, t \in Tokens, CanUpdateReward(u)
  PROVE  Updated(t) \in Reward
<1>1. rewardData[t] \in Reward
  BY DEF TypeOK
<1>2. CASE t \in Listed
  <2>1. rewardPerToken(t) \in Nat /\ lastTimeRewardApplicable(t) \in Nat
    BY <1>2, RewardPerTokenNat
  <2> QED  BY <1>1, <1>2, <2>1 DEF Updated, Reward
<1>3. CASE t \notin Listed
  BY <1>1, <1>3 DEF Updated
<1> QED  BY <1>2, <1>3

\* forwardReward and _notifyUnseenReward keep a token's reward data well typed.
LEMMA NoticedType ==
  ASSUME NEW t, NEW u, NEW present, TypeOK, u \in Users, t \in Tokens, CanUpdateReward(u),
         present \in Nat
  PROVE  Noticed(t, present) \in Reward
<1> DEFINE r == Updated(t)
<1>1. r \in Reward /\ r.balance \in Nat
  BY UpdatedType DEF Reward
<1>2. Forwarded(t) \in Nat /\ now \in Nat
  BY ForwardedNat DEF TypeOK
<1>3. Notify(r, Forwarded(t)) \in Reward
  BY <1>1, <1>2, NotifyType
<1>4. present - r.balance > 0 => Notify(r, present - r.balance) \in Reward
  <2>1. present - r.balance > 0 => present - r.balance \in Nat
    BY <1>1
  <2> HIDE DEF r
  <2> QED  BY <1>1, <1>2, <2>1, NotifyType
<1>5. Noticed(t, present) \in {r, Notify(r, Forwarded(t))}
        \/ (present - r.balance > 0 /\ Noticed(t, present) = Notify(r, present - r.balance))
  BY DEF Noticed
<1> HIDE DEF r
<1> QED  BY <1>1, <1>3, <1>4, <1>5

\* The reward part of a transaction keeps the reward state well typed.
LEMMA SettleType ==
  ASSUME NEW u, NEW fwd, NEW pay, NEW prntOut, TypeOK, u \in Users,
         prntOut \in Nat, Settle(u, fwd, pay, prntOut)
  PROVE  TypeRewards'
<1> DEFINE present == [t \in Tokens |-> held[t] + (IF t \in fwd THEN Forwarded(t) ELSE 0)
                                                - (IF t = Prnt THEN prntOut ELSE 0)]
           data    == [t \in Tokens |-> IF t \in fwd THEN Noticed(t, present[t])
                                        ELSE Updated(t)]
           due     == [t \in Tokens |-> IF t \in Listed THEN Earned(u, t)
                                        ELSE rewards[u][t]]
           payout  == [t \in Tokens |-> IF t \in pay THEN due[t] \div PRECISION ELSE 0]
<1>1. CanUpdateReward(u) /\ held[Prnt] >= prntOut
  BY DEF Settle
<1>2. /\ \A t \in Tokens : data[t].balance >= payout[t] /\ present[t] >= payout[t]
      /\ rewardData' = [t \in Tokens |-> [data[t] EXCEPT !.balance = @ - payout[t]]]
      /\ rewards' = [rewards EXCEPT ![u] =
                       [t \in Tokens |-> IF payout[t] > 0 THEN 0 ELSE due[t]]]
      /\ userRewardPerTokenPaid' = [userRewardPerTokenPaid EXCEPT ![u] =
           [t \in Tokens |-> IF t \in Listed THEN rewardPerToken(t) ELSE @[t]]]
      /\ held' = [t \in Tokens |-> present[t] - payout[t]]
      /\ middleFee' = [t \in Tokens |-> IF t \in fwd THEN 0 ELSE middleFee[t]]
      /\ feesLeft' = feesLeft
  BY DEF Settle
<1>3. \A t \in Tokens : present[t] \in Nat
  <2> SUFFICES ASSUME NEW t \in Tokens PROVE present[t] \in Nat
    OBVIOUS
  <2>1. held[t] \in Nat /\ Forwarded(t) \in Nat
    BY ForwardedNat DEF TypeOK
  <2> QED  BY <1>1, <2>1
<1> HIDE DEF present
<1>4. \A t \in Tokens : data[t] \in Reward
  <2> SUFFICES ASSUME NEW t \in Tokens PROVE data[t] \in Reward
    OBVIOUS
  <2>1. Noticed(t, present[t]) \in Reward
    BY <1>1, <1>3, NoticedType
  <2>2. Updated(t) \in Reward
    BY <1>1, UpdatedType
  <2> QED  BY <2>1, <2>2
<1>5. \A t \in Tokens : due[t] \in Nat
  BY <1>1, RewardPerTokenNat DEF TypeOK
<1> HIDE DEF data, due
<1>6. \A t \in Tokens : payout[t] \in Nat
  <2>1. PRECISION \in Nat /\ PRECISION # 0
    BY ConstantsAssumption
  <2> QED  BY <1>5, <2>1, DivNat
<1> HIDE DEF payout
<1>7. rewardData' \in [Tokens -> Reward]
  <2>1. \A t \in Tokens : data[t].balance - payout[t] \in Nat
    BY <1>2, <1>4, <1>6 DEF Reward
  <2>2. \A t \in Tokens : [data[t] EXCEPT !.balance = @ - payout[t]] \in Reward
    BY <1>4, <2>1 DEF Reward
  <2> QED  BY <1>2, <2>2
<1>8. rewards' \in [Users -> [Tokens -> Nat]]
  BY <1>2, <1>5 DEF TypeOK
<1>9. userRewardPerTokenPaid' \in [Users -> [Tokens -> Nat]]
  <2>1. userRewardPerTokenPaid \in [Users -> [Tokens -> Nat]]
    BY DEF TypeOK
  <2>2. \A t \in Tokens : t \in Listed => rewardPerToken(t) \in Nat
    BY <1>1, RewardPerTokenNat
  <2>3. [t \in Tokens |-> IF t \in Listed THEN rewardPerToken(t)
                           ELSE userRewardPerTokenPaid[u][t]] \in [Tokens -> Nat]
    BY <2>1, <2>2
  <2> QED  BY <1>2, <2>1, <2>3
<1>10. held' \in [Tokens -> Nat]
  <2>1. \A t \in Tokens : present[t] - payout[t] \in Nat
    BY <1>2, <1>3, <1>6
  <2> QED  BY <1>2, <2>1
<1>11. middleFee' \in [Tokens -> Nat] /\ feesLeft' \in [Tokens -> Nat]
  BY <1>2 DEF TypeOK
<1> QED  BY <1>7, <1>8, <1>9, <1>10, <1>11 DEF TypeRewards

-----------------------------------------------------------------------------
(* One user's step *)

\* A step that leaves user u with balances b and entries es, and the other users
\* as they are, preserves what holds of every user.
LEMMA UserStep ==
  ASSUME NEW u, NEW b, NEW es, Inv, u \in Users, b \in Balances, es \in Seq(Earning),
         bal' = [bal EXCEPT ![u] = b],
         userEarnings' = [userEarnings EXCEPT ![u] = es],
         userLocks' \in [Users -> Seq(Lock)],
         now' = now, UserOK(b, es)
  PROVE  TypeBalances' /\ UsersOK'
<1>1. bal \in [Users -> Balances] /\ userEarnings \in [Users -> Seq(Earning)]
  BY DEF Inv, TypeOK
<1>2. TypeBalances'
  BY <1>1 DEF TypeBalances
<1>3. \A v \in Users : bal'[v] = (IF v = u THEN b ELSE bal[v])
                       /\ userEarnings'[v] = (IF v = u THEN es ELSE userEarnings[v])
  BY <1>1
<1>4. \A v \in Users : UserOK(bal'[v], userEarnings'[v])
  <2> SUFFICES ASSUME NEW v \in Users PROVE UserOK(bal'[v], userEarnings'[v])
    OBVIOUS
  <2>1. CASE v = u
    BY <1>3, <2>1
  <2>2. CASE v # u
    <3>1. UserOK(bal[v], userEarnings[v])
      BY DEF Inv, UsersOK
    <3>2. bal'[v] = bal[v] /\ userEarnings'[v] = userEarnings[v]
      BY <1>3, <2>2
    <3> QED  BY <3>1, <3>2 DEF UserOK, Vesting
  <2> QED  BY <2>1, <2>2
<1>5. UsersOK'
  BY <1>4 DEF UsersOK, UserOK, Vesting
<1> QED  BY <1>2, <1>5

\* A step that changes no balances preserves what holds of every user.
LEMMA NoUserStep ==
  ASSUME Inv, UNCHANGED balanceVars, now' \in Nat, now' >= now
  PROVE  TypeBalances' /\ UsersOK'
<1>1. /\ bal' = bal /\ userLocks' = userLocks /\ userEarnings' = userEarnings
      /\ now \in Nat
  BY DEF balanceVars, Inv, TypeOK
<1>2. TypeBalances'
  BY <1>1 DEF TypeBalances, Inv, TypeOK
<1>3. \A v \in Users : \A i \in 1..Len(userEarnings[v]) :
        userEarnings[v][i].unlockTime \in Nat
  <2>1. \A v \in Users : userEarnings[v] \in Seq(Earning)
    BY DEF Inv, TypeOK
  <2>2. \A v \in Users : \A i \in 1..Len(userEarnings[v]) : userEarnings[v][i] \in Earning
    BY <2>1, ElementOfSeq
  <2> QED  BY <2>2 DEF Earning
<1>4. vestDuration \in Nat
  BY ConstantsAssumption
<1>5. UsersOK'
  <2> SUFFICES ASSUME NEW v \in Users PROVE UserOK(bal[v], userEarnings[v])'
    BY DEF UsersOK
  <2>1. UserOK(bal[v], userEarnings[v])
    BY DEF Inv, UsersOK
  <2>2. Vesting(userEarnings[v])'
    BY <1>1, <1>3, <1>4, <2>1 DEF UserOK, Vesting
  <2> QED  BY <1>1, <2>1, <2>2 DEF UserOK
<1> QED  BY <1>2, <1>5

\* The invariant after a step is that of its parts.
LEMMA InvNext ==
  ASSUME now' \in Nat, TypeBalances', UsersOK', TypeSupplies', TypeSettings', TypeRewards',
         rewardTokens' \in Seq(Tokens)
  PROVE  Inv'
BY DEF Inv, TypeOK, TypeBalances, TypeSupplies, TypeSettings, TypeRewards

\* Parts that a step does not touch.
LEMMA PartsUnchanged ==
  ASSUME Inv
  PROVE  /\ now \in Nat
         /\ UNCHANGED supplyVars => TypeSupplies'
         /\ UNCHANGED configVars => TypeSettings'
         /\ UNCHANGED <<rewardVars, tokenVars>> => TypeRewards'
         /\ UNCHANGED rewardTokens => rewardTokens' \in Seq(Tokens)
BY DEF Inv, TypeOK, TypeSupplies, TypeSettings, TypeRewards, supplyVars, configVars,
       rewardVars, tokenVars

\* What the invariant says of one user.
LEMMA UserParts ==
  ASSUME NEW u, Inv, u \in Users
  PROVE  /\ now \in Nat /\ TypeOK
         /\ bal \in [Users -> Balances] /\ userLocks \in [Users -> Seq(Lock)]
         /\ userEarnings \in [Users -> Seq(Earning)]
         /\ bal[u] \in Balances /\ userLocks[u] \in Seq(Lock)
         /\ userEarnings[u] \in Seq(Earning)
         /\ UserOK(bal[u], userEarnings[u])
BY DEF Inv, TypeOK, UsersOK

-----------------------------------------------------------------------------
(* Locks *)

\* stake() adds to total what it adds to locked.
LEMMA StakeStep ==
  ASSUME NEW u, NEW amount, NEW typeIndex, Inv, u \in Users, amount \in StakeAmounts,
         typeIndex \in 0..Len(lockTypes), Stake(u, amount, typeIndex)
  PROVE  Inv'
<1> DEFINE type == lockTypes[typeIndex + 1]
           weighted == amount * type.multiplier
           b == [bal[u] EXCEPT !.total = @ + amount, !.locked = @ + amount,
                               !.lockedWithMultiplier = @ + weighted]
           locks == AddLock(userLocks[u], amount, type)
<1>1. /\ bal \in [Users -> Balances] /\ userLocks \in [Users -> Seq(Lock)]
      /\ userEarnings \in [Users -> Seq(Earning)] /\ bal[u] \in Balances
      /\ userLocks[u] \in Seq(Lock) /\ UserOK(bal[u], userEarnings[u]) /\ now \in Nat
      /\ userEarnings[u] \in Seq(Earning) /\ TypeOK
  BY UserParts
<1>2. /\ bal' = [bal EXCEPT ![u] = b]
      /\ userLocks' = [userLocks EXCEPT ![u] = locks]
      /\ lockedSupplyWithMultiplier' = lockedSupplyWithMultiplier + weighted
      /\ lockedSupply' = lockedSupply + amount
      /\ stakeHeld' = stakeHeld + amount
      /\ now' = now /\ userEarnings' = userEarnings /\ UNCHANGED configVars
      /\ rewardTokens' = rewardTokens
      /\ typeIndex < Len(lockTypes)
      /\ Settle(u, {}, {}, 0)
  BY <1>1 DEF Stake, UpdateReward
<1>3. amount \in Nat
  BY ConstantsAssumption
<1>4. type \in LockType
  <2>1. lockTypes \in Seq(LockType) /\ Len(lockTypes) \in Nat
    BY <1>1, LenProperties DEF TypeOK
  <2>2. typeIndex + 1 \in 1..Len(lockTypes)
    BY <1>2, <2>1
  <2> QED  BY <2>1, <2>2, ElementOfSeq
<1> HIDE DEF type
<1>5. locks \in Seq(Lock)
  BY <1>1, <1>3, <1>4, AddLockType
<1>6. weighted \in Nat
  BY <1>3, <1>4 DEF LockType
<1> HIDE DEF weighted, locks
<1>7. b \in Balances /\ UserOK(b, userEarnings[u])
  <2>1. /\ bal[u].total \in Nat /\ bal[u].locked \in Nat /\ bal[u].unlocked \in Nat
        /\ bal[u].earned \in Nat /\ bal[u].lockedWithMultiplier \in Nat
    BY <1>1 DEF Balances
  <2>2. b \in Balances
    <3>1. /\ bal[u].total + amount \in Nat /\ bal[u].locked + amount \in Nat
          /\ bal[u].lockedWithMultiplier + weighted \in Nat
      <4>1. \A x, y \in Nat : x + y \in Nat
        OBVIOUS
      <4> QED  BY <1>3, <1>6, <2>1, <4>1, Zenon
    <3> QED  BY <1>1, <3>1 DEF Balances
  <2>3. /\ b.total = bal[u].total + amount /\ b.locked = bal[u].locked + amount
        /\ b.unlocked = bal[u].unlocked /\ b.earned = bal[u].earned
    BY <1>1 DEF Balances
  <2> HIDE DEF b
  <2>4. /\ Vesting(userEarnings[u]) /\ bal[u].earned = Sum(Amounts(userEarnings[u]))
        /\ bal[u].total = bal[u].unlocked + bal[u].locked + bal[u].earned
    BY <1>1 DEF UserOK
  <2>5. b.total = b.unlocked + b.locked + b.earned
    <3> DEFINE x == bal[u].unlocked
               y == bal[u].locked
               z == bal[u].earned
               t == bal[u].total
    <3>1. /\ x \in Nat /\ y \in Nat /\ z \in Nat /\ t = x + y + z
          /\ b.total = t + amount /\ b.unlocked = x /\ b.locked = y + amount /\ b.earned = z
      BY <2>1, <2>3, <2>4
    <3> HIDE DEF x, y, z, t
    <3>2. t + amount = x + (y + amount) + z
      BY <1>3, <3>1
    <3> QED  BY <3>1, <3>2
  <2> QED  BY <2>2, <2>3, <2>4, <2>5 DEF UserOK
<1> HIDE DEF b
<1>8. userLocks' \in [Users -> Seq(Lock)]
  BY <1>1, <1>2, <1>5
<1>9. TypeBalances' /\ UsersOK'
  <2>1. userEarnings' = [userEarnings EXCEPT ![u] = userEarnings[u]]
    BY <1>1, <1>2
  <2> QED  BY <1>1, <1>2, <1>7, <1>8, <2>1, UserStep
<1>10. TypeSupplies'
  BY <1>1, <1>2, <1>3, <1>6 DEF TypeSupplies, TypeOK
<1>11. TypeRewards'
  BY <1>1, <1>2, SettleType
<1>12. TypeSettings' /\ rewardTokens' \in Seq(Tokens) /\ now' \in Nat
  BY <1>2, PartsUnchanged
<1> QED  BY <1>9, <1>10, <1>11, <1>12, InvNext

\* Expired locks leave locked and total alike, or are locked again.
LEMMA WithdrawExpiredLocksForStep ==
  ASSUME NEW caller, NEW u, NEW isRelockAction, NEW limit, Inv, u \in Users,
         WithdrawExpiredLocksFor(caller, u, isRelockAction, limit)
  PROVE  Inv'
<1> DEFINE locks == userLocks[u]
           counted == {i \in 1..Len(locks) :
                         i <= limit /\ \A j \in 1..i : Expired(locks[j])}
           k == CleanCount(locks, limit)
           gone == SubSeq(locks, 1, k)
           kept == SubSeq(locks, k + 1, Len(locks))
           amount == Sum(Amounts(gone))
           weighted == Sum(Weighted(gone))
           type == lockTypes[defaultLockIndex[u] + 1]
           again == amount * type.multiplier
           relocked == [bal[u] EXCEPT !.lockedWithMultiplier = @ - weighted + again]
           withdrawn == [bal[u] EXCEPT !.total = @ - amount, !.locked = @ - amount,
                                       !.lockedWithMultiplier = @ - weighted]
<1>1. /\ bal \in [Users -> Balances] /\ userLocks \in [Users -> Seq(Lock)]
      /\ userEarnings \in [Users -> Seq(Earning)] /\ bal[u] \in Balances
      /\ locks \in Seq(Lock) /\ UserOK(bal[u], userEarnings[u]) /\ now \in Nat
      /\ userEarnings[u] \in Seq(Earning) /\ TypeOK
  BY UserParts
<1>2. /\ Settle(u, {}, {}, 0)
      /\ bal[u].locked >= amount /\ bal[u].total >= amount
      /\ bal[u].lockedWithMultiplier >= weighted
      /\ lockedSupply >= amount /\ lockedSupplyWithMultiplier >= weighted
      /\ UNCHANGED <<now, userEarnings, configVars, rewardTokens>>
  BY DEF WithdrawExpiredLocksFor, UpdateReward
<1>3. \/ /\ defaultLockIndex[u] < Len(lockTypes)
         /\ userLocks' = [userLocks EXCEPT ![u] = AddLock(kept, amount, type)]
         /\ bal' = [bal EXCEPT ![u].lockedWithMultiplier = @ - weighted + again]
         /\ lockedSupplyWithMultiplier' = lockedSupplyWithMultiplier - weighted + again
         /\ lockedSupply' = lockedSupply /\ stakeHeld' = stakeHeld
      \/ /\ stakeHeld >= amount
         /\ userLocks' = [userLocks EXCEPT ![u] = kept]
         /\ bal' = [bal EXCEPT ![u].total = @ - amount, ![u].locked = @ - amount,
                               ![u].lockedWithMultiplier = @ - weighted]
         /\ lockedSupply' = lockedSupply - amount
         /\ lockedSupplyWithMultiplier' = lockedSupplyWithMultiplier - weighted
         /\ stakeHeld' = stakeHeld - amount
  BY DEF WithdrawExpiredLocksFor
<1> HIDE DEF locks
<1>4. k \in 0..Len(locks)
  <2>1. Len(locks) \in Nat /\ counted \subseteq 1..Len(locks)
    BY <1>1, LenProperties
  <2>2. k = Cardinality(counted)
    BY DEF CleanCount
  <2> HIDE DEF counted, k
  <2> QED  BY <2>1, <2>2, CountInRange
<1> HIDE DEF k
<1>5. gone \in Seq(Lock) /\ kept \in Seq(Lock)
  BY <1>1, <1>4, CutTypes
<1> HIDE DEF gone, kept
<1>6. amount \in Nat /\ weighted \in Nat
  BY <1>5, SumAmountsNat, SumWeightedNat, EntriesHaveAmount
<1> HIDE DEF amount, weighted
<1>7. /\ bal[u].total \in Nat /\ bal[u].locked \in Nat /\ bal[u].unlocked \in Nat
      /\ bal[u].earned \in Nat /\ bal[u].lockedWithMultiplier \in Nat
      /\ Vesting(userEarnings[u]) /\ bal[u].earned = Sum(Amounts(userEarnings[u]))
      /\ bal[u].total = bal[u].unlocked + bal[u].locked + bal[u].earned
  BY <1>1 DEF Balances, UserOK
<1>8. /\ lockedSupply \in Nat /\ lockedSupplyWithMultiplier \in Nat /\ stakeHeld \in Nat
      /\ lockTypes \in Seq(LockType) /\ defaultLockIndex[u] \in Nat
      /\ userEarnings' = [userEarnings EXCEPT ![u] = userEarnings[u]] /\ now' = now
  BY <1>1, <1>2 DEF TypeOK
<1>9. TypeBalances' /\ UsersOK' /\ TypeSupplies'
  <2>1. ASSUME defaultLockIndex[u] < Len(lockTypes),
               userLocks' = [userLocks EXCEPT ![u] = AddLock(kept, amount, type)],
               bal' = [bal EXCEPT ![u].lockedWithMultiplier = @ - weighted + again],
               lockedSupplyWithMultiplier' = lockedSupplyWithMultiplier - weighted + again,
               lockedSupply' = lockedSupply, stakeHeld' = stakeHeld
        PROVE  TypeBalances' /\ UsersOK' /\ TypeSupplies'
    <3>1. type \in LockType
      <4>1. defaultLockIndex[u] + 1 \in 1..Len(lockTypes)
        BY <1>8, <2>1, LenProperties
      <4> QED  BY <1>8, <4>1, ElementOfSeq
    <3> HIDE DEF type
    <3>2. AddLock(kept, amount, type) \in Seq(Lock)
      BY <1>1, <1>5, <1>6, <3>1, AddLockType
    <3>3. again \in Nat
      BY <1>6, <3>1 DEF LockType
    <3> HIDE DEF again
    <3>4. bal' = [bal EXCEPT ![u] = relocked]
      BY <1>1, <2>1
    <3>5. relocked \in Balances /\ UserOK(relocked, userEarnings[u])
      <4>1. bal[u].lockedWithMultiplier - weighted + again \in Nat
        BY <1>2, <1>6, <1>7, <3>3
      <4>2. relocked \in Balances
        BY <1>1, <4>1 DEF Balances
      <4>3. /\ relocked.total = bal[u].total /\ relocked.locked = bal[u].locked
            /\ relocked.unlocked = bal[u].unlocked /\ relocked.earned = bal[u].earned
        BY <1>1 DEF Balances
      <4> HIDE DEF relocked
      <4> QED  BY <1>7, <4>2, <4>3 DEF UserOK
    <3> HIDE DEF relocked
    <3>6. userLocks' \in [Users -> Seq(Lock)]
      BY <1>1, <2>1, <3>2
    <3>7. TypeBalances' /\ UsersOK'
      BY <1>1, <1>8, <3>4, <3>5, <3>6, UserStep
    <3>8. TypeSupplies'
      BY <1>2, <1>6, <1>8, <2>1, <3>3 DEF TypeSupplies
    <3> QED  BY <3>7, <3>8
  <2>2. ASSUME stakeHeld >= amount,
               userLocks' = [userLocks EXCEPT ![u] = kept],
               bal' = [bal EXCEPT ![u].total = @ - amount, ![u].locked = @ - amount,
                                  ![u].lockedWithMultiplier = @ - weighted],
               lockedSupply' = lockedSupply - amount,
               lockedSupplyWithMultiplier' = lockedSupplyWithMultiplier - weighted,
               stakeHeld' = stakeHeld - amount
        PROVE  TypeBalances' /\ UsersOK' /\ TypeSupplies'
    <3>1. bal' = [bal EXCEPT ![u] = withdrawn]
      BY <1>1, <2>2
    <3>2. withdrawn \in Balances /\ UserOK(withdrawn, userEarnings[u])
      <4>1. /\ bal[u].lockedWithMultiplier - weighted \in Nat
            /\ bal[u].total - amount \in Nat /\ bal[u].locked - amount \in Nat
        BY <1>2, <1>6, <1>7
      <4>2. withdrawn \in Balances
        BY <1>1, <4>1 DEF Balances
      <4>3. /\ withdrawn.total = bal[u].total - amount
            /\ withdrawn.locked = bal[u].locked - amount
            /\ withdrawn.unlocked = bal[u].unlocked /\ withdrawn.earned = bal[u].earned
        BY <1>1 DEF Balances
      <4> HIDE DEF withdrawn
      <4>4. withdrawn.total = withdrawn.unlocked + withdrawn.locked + withdrawn.earned
        BY <1>6, <1>7, <4>3
      <4> QED  BY <1>7, <4>2, <4>3, <4>4 DEF UserOK
    <3> HIDE DEF withdrawn
    <3>3. userLocks' \in [Users -> Seq(Lock)]
      BY <1>1, <1>5, <2>2
    <3>4. TypeBalances' /\ UsersOK'
      BY <1>1, <1>8, <3>1, <3>2, <3>3, UserStep
    <3>5. TypeSupplies'
      BY <1>2, <1>6, <1>8, <2>2 DEF TypeSupplies
    <3> QED  BY <3>4, <3>5
  <2> QED  BY <1>3, <2>1, <2>2
<1>10. TypeRewards'
  BY <1>1, <1>2, SettleType
<1>11. TypeSettings' /\ rewardTokens' \in Seq(Tokens) /\ now' \in Nat
  BY <1>2, PartsUnchanged
<1> QED  BY <1>9, <1>10, <1>11, InvNext

-----------------------------------------------------------------------------
(* Vesting *)

\* Balances b with another total and other unlocked and earned parts.
WithVesting(b, total, unlocked, earned) ==
  [b EXCEPT !.total = total, !.unlocked = unlocked, !.earned = earned]

\* Such balances are right when total moves as unlocked and earned do together.
LEMMA WithVestingOK ==
  ASSUME NEW b, NEW es, NEW t, NEW total, NEW unlocked, NEW earned,
         b \in Balances, UserOK(b, es), total \in Nat, unlocked \in Nat, earned \in Nat,
         b.total - total = (b.unlocked + b.earned) - (unlocked + earned),
         Vesting(t), earned = Sum(Amounts(t))
  PROVE  /\ WithVesting(b, total, unlocked, earned) \in Balances
         /\ UserOK(WithVesting(b, total, unlocked, earned), t)
<1> DEFINE c == WithVesting(b, total, unlocked, earned)
<1>1. /\ c \in Balances
      /\ c.total = total /\ c.unlocked = unlocked /\ c.earned = earned
      /\ c.locked = b.locked
  BY DEF Balances, WithVesting
<1>2. /\ b.total \in Nat /\ b.unlocked \in Nat /\ b.earned \in Nat /\ b.locked \in Nat
      /\ b.total = b.unlocked + b.locked + b.earned
  BY DEF Balances, UserOK
<1> HIDE DEF c
<1>3. c.total = c.unlocked + c.locked + c.earned
  BY <1>1, <1>2
<1>4. UserOK(c, t)
  BY <1>1, <1>3 DEF UserOK
<1> QED  BY <1>1, <1>4 DEF c

\* What the transactions on vesting entries have in common: they change one
\* user's balances and entries, and pay PRNT out.
LEMMA VestingStep ==
  ASSUME NEW u, NEW b, NEW es, NEW fwd, NEW pay, NEW prntOut, Inv, u \in Users,
         prntOut \in Nat, Settle(u, fwd, pay, prntOut),
         b \in Balances, es \in Seq(Earning), UserOK(b, es),
         bal' = [bal EXCEPT ![u] = b],
         userEarnings' = [userEarnings EXCEPT ![u] = es],
         UNCHANGED <<now, userLocks, supplyVars, configVars, rewardTokens>>
  PROVE  Inv'
<1>1. TypeOK /\ now' = now /\ userLocks' \in [Users -> Seq(Lock)]
  BY UserParts
<1>2. TypeBalances' /\ UsersOK'
  BY <1>1, UserStep
<1>3. TypeRewards'
  BY <1>1, SettleType
<1>4. TypeSupplies' /\ TypeSettings' /\ rewardTokens' \in Seq(Tokens) /\ now' \in Nat
  BY <1>1, PartsUnchanged
<1> QED  BY <1>2, <1>3, <1>4, InvNext

\* withdraw(): by DrainEffect, what leaves total is what leaves unlocked and the
\* entries, whatever the roundings.
LEMMA WithdrawStep ==
  ASSUME NEW u, NEW amount, Inv, u \in Users, amount \in WithdrawAmounts,
         Withdraw(u, amount)
  PROVE  Inv'
<1>1. /\ bal \in [Users -> Balances] /\ userEarnings \in [Users -> Seq(Earning)]
      /\ bal[u] \in Balances /\ userEarnings[u] \in Seq(Earning)
      /\ UserOK(bal[u], userEarnings[u]) /\ now \in Nat
  BY UserParts
<1>2. amount \in Nat
  BY ConstantsAssumption
<1>3. /\ bal[u].total \in Nat /\ bal[u].unlocked \in Nat /\ bal[u].earned \in Nat
      /\ Vesting(userEarnings[u]) /\ bal[u].earned = Sum(Amounts(userEarnings[u]))
  BY <1>1 DEF Balances, UserOK
<1>4. UNCHANGED <<now, userLocks, supplyVars, configVars, rewardTokens>>
  BY DEF Withdraw
<1>5. CASE amount <= bal[u].unlocked
  <2> DEFINE total == bal[u].total - amount
             unlocked == bal[u].unlocked - amount
             b == WithVesting(bal[u], total, unlocked, bal[u].earned)
  <2>1. /\ bal[u].total >= amount
        /\ bal' = [bal EXCEPT ![u].unlocked = @ - amount, ![u].total = @ - amount]
        /\ userEarnings' = userEarnings
        /\ Settle(u, {}, {}, amount)
    BY <1>5 DEF Withdraw
  <2>2. /\ total \in Nat /\ unlocked \in Nat
        /\ bal[u].total - total
             = (bal[u].unlocked + bal[u].earned) - (unlocked + bal[u].earned)
    BY <1>2, <1>3, <1>5, <2>1
  <2>3. bal' = [bal EXCEPT ![u] = b]
    BY <1>1, <2>1 DEF WithVesting, Balances
  <2>4. userEarnings' = [userEarnings EXCEPT ![u] = userEarnings[u]]
    BY <1>1, <2>1
  <2> HIDE DEF total, unlocked
  <2>5. b \in Balances /\ UserOK(b, userEarnings[u])
    BY <1>1, <1>3, <2>2, WithVestingOK
  <2> HIDE DEF b
  <2> QED  BY <1>1, <1>2, <1>4, <2>1, <2>3, <2>4, <2>5, VestingStep
<1>6. CASE ~(amount <= bal[u].unlocked)
  <2> DEFINE es == userEarnings[u]
             remaining == amount - bal[u].unlocked
             taken == Drain(es, remaining).taken
             penalty == Drain(es, remaining).penalty
             left == Drain(es, remaining).earnings
             earned == bal[u].earned - taken
             total == bal[u].total - amount - penalty
             b == WithVesting(bal[u], total, 0, earned)
             out == amount + penalty
  <2>1. /\ Sum(Nets(es)) >= remaining
        /\ bal[u].earned >= taken
        /\ bal[u].total >= amount + penalty
        /\ bal' = [bal EXCEPT ![u].unlocked = 0, ![u].earned = @ - taken,
                              ![u].total = @ - amount - penalty]
        /\ userEarnings' = [userEarnings EXCEPT ![u] = left]
        /\ Settle(u, {}, {}, out)
    BY <1>6 DEF Withdraw
  <2>2. bal' = [bal EXCEPT ![u] = b]
    BY <1>1, <2>1 DEF WithVesting, Balances
  <2>3. remaining \in Nat /\ 0 < remaining /\ remaining = amount - bal[u].unlocked
    BY <1>2, <1>3, <1>6
  <2>4. es \in Seq(Earning) /\ Vesting(es) /\ es = userEarnings[u]
    BY <1>1, <1>3
  <2> HIDE DEF es, remaining
  <2>5. /\ taken \in Nat /\ penalty \in Nat /\ taken = remaining + penalty
        /\ left \in Seq(Earning) /\ Vesting(left)
        /\ Sum(Amounts(left)) = Sum(Amounts(es)) - taken
    <3>1. remaining <= Sum(Nets(es))
      <4>1. Sum(Nets(es)) \in Nat
        <5>1. NatsTo(Nets(es), Len(es)) /\ Sum(Nets(es)) = SumTo(Nets(es), Len(es))
              /\ Len(es) \in Nat
          BY <1>1, <2>4, EntryParts, LenProperties
        <5> QED  BY <5>1, SumToNat
      <4> QED  BY <2>1, <2>3, <4>1
    <3> QED  BY <1>1, <2>3, <2>4, <3>1, DrainEffect
  <2> HIDE DEF taken, penalty, left
  <2>6. /\ earned \in Nat /\ total \in Nat /\ out \in Nat
        /\ bal[u].total - total = (bal[u].unlocked + bal[u].earned) - (0 + earned)
        /\ earned = Sum(Amounts(left))
    <3>1. earned \in Nat /\ total \in Nat /\ out \in Nat
      <4>1. earned \in Nat
        BY <1>3, <2>1, <2>5
      <4>2. out \in Nat
        BY <1>2, <2>5
      <4>3. bal[u].total - amount - penalty \in Nat
        BY <1>2, <1>3, <2>1, <2>5
      <4> QED  BY <4>1, <4>2, <4>3
    <3>2. bal[u].total - total = (bal[u].unlocked + bal[u].earned) - (0 + earned)
      <4> DEFINE T == bal[u].total
                 U == bal[u].unlocked
                 E == bal[u].earned
      <4>1. T \in Nat /\ U \in Nat /\ E \in Nat /\ remaining = amount - U
        BY <1>3, <2>3
      <4> HIDE DEF T, U, E
      <4>2. T - (T - amount - penalty) = (U + E) - (0 + (E - taken))
        BY <1>2, <2>5, <4>1
      <4> QED  BY <4>2 DEF T, U, E
    <3>3. earned = Sum(Amounts(left))
      BY <1>3, <2>4, <2>5
    <3> QED  BY <3>1, <3>2, <3>3
  <2> HIDE DEF earned, total
  <2>7. b \in Balances /\ UserOK(b, left)
    BY <1>1, <2>5, <2>6, WithVestingOK
  <2> HIDE DEF b, out
  <2> QED  BY <1>1, <1>4, <2>1, <2>2, <2>5, <2>6, <2>7, VestingStep
<1> QED  BY <1>5, <1>6

\* individualEarlyExit(): the removed entry's amount leaves earned and total.
LEMMA IndividualEarlyExitStep ==
  ASSUME NEW u, NEW unlockTime, NEW claimRewards, Inv, u \in Users,
         IndividualEarlyExit(u, unlockTime, claimRewards)
  PROVE  Inv'
<1> DEFINE es == userEarnings[u]
           first(j) == /\ es[j].unlockTime = unlockTime
                       /\ \A h \in 1..(j - 1) : es[h].unlockTime # unlockTime
           i == CHOOSE j \in 1..Len(es) : first(j)
           a == es[i].amount
           left == RemoveEntry(es, i)
           total == bal[u].total - a
           earned == bal[u].earned - a
           b == WithVesting(bal[u], total, bal[u].unlocked, earned)
           claimed == ClaimSet(claimRewards)
<1>1. /\ bal \in [Users -> Balances] /\ bal[u] \in Balances /\ es \in Seq(Earning)
      /\ UserOK(bal[u], es)
  BY UserParts
<1>2. /\ bal[u].total \in Nat /\ bal[u].unlocked \in Nat /\ bal[u].earned \in Nat
      /\ Vesting(es) /\ bal[u].earned = Sum(Amounts(es))
  BY <1>1 DEF Balances, UserOK
<1>3. /\ \E j \in 1..Len(es) : es[j].unlockTime = unlockTime
      /\ bal[u].total >= a /\ bal[u].earned >= a
      /\ bal' = [bal EXCEPT ![u].total = @ - a, ![u].earned = @ - a]
      /\ userEarnings' = [userEarnings EXCEPT ![u] = left]
      /\ Settle(u, claimed, claimed, a)
      /\ UNCHANGED <<now, userLocks, supplyVars, configVars, rewardTokens>>
  BY DEF IndividualEarlyExit
<1> HIDE DEF i, left
<1>4. bal' = [bal EXCEPT ![u] = b]
  <2> HIDE DEF a
  <2> QED  BY <1>1, <1>3 DEF WithVesting, Balances
<1>5. i \in 1..Len(es)
  <2> DEFINE T == {j \in 1..Len(es) : es[j].unlockTime = unlockTime}
  <2>1. T \subseteq Nat /\ T # {} /\ Len(es) \in Nat
    <3>1. T # {}
      BY <1>3
    <3>2. Len(es) \in Nat
      BY <1>1, LenProperties
    <3> QED  BY <3>1, <3>2
  <2>2. PICK m \in T : \A k \in T : m <= k
    <3> HIDE DEF T
    <3> QED  BY <2>1, LeastNat
  <2>3. m \in 1..Len(es) /\ es[m].unlockTime = unlockTime
    OBVIOUS
  <2>4. \A h \in 1..(m - 1) : h \in 1..Len(es) /\ ~(m <= h)
    BY <2>1, <2>3
  <2>5. first(m)
    BY <2>2, <2>3, <2>4
  <2> HIDE DEF first, es
  <2> QED  BY <2>3, <2>5 DEF i
<1> HIDE DEF es
<1>6. /\ left \in Seq(Earning) /\ Sum(Amounts(left)) = Sum(Amounts(es)) - a
      /\ \A j \in 1..Len(left) : \E h \in 1..Len(es) : left[j] = es[h]
  BY <1>1, <1>5, RemovedEntry DEF left
<1>7. Vesting(left)
  BY <1>2, <1>6 DEF Vesting
<1>8. a \in Nat
  <2>1. es[i] \in Earning
    BY <1>1, <1>5, ElementOfSeq
  <2> QED  BY <2>1 DEF Earning
<1> HIDE DEF a
<1>9. /\ total \in Nat /\ earned \in Nat
      /\ bal[u].total - total
           = (bal[u].unlocked + bal[u].earned) - (bal[u].unlocked + earned)
      /\ earned = Sum(Amounts(left))
  <2> DEFINE before == bal[u].total
             unlocked == bal[u].unlocked
             vesting == bal[u].earned
  <2>1. /\ before \in Nat /\ unlocked \in Nat /\ vesting \in Nat
        /\ before >= a /\ vesting >= a /\ Sum(Amounts(left)) = vesting - a
    BY <1>2, <1>3, <1>6
  <2>2. total = before - a /\ earned = vesting - a
    OBVIOUS
  <2> HIDE DEF before, unlocked, vesting, total, earned
  <2>3. /\ total \in Nat /\ earned \in Nat
        /\ before - total = (unlocked + vesting) - (unlocked + earned)
        /\ earned = Sum(Amounts(left))
    BY <1>8, <2>1, <2>2
  <2> QED  BY <2>3 DEF before, unlocked, vesting
<1> HIDE DEF total, earned
<1>10. b \in Balances /\ UserOK(b, left)
  BY <1>1, <1>2, <1>7, <1>9, WithVestingOK
<1> HIDE DEF b, claimed
<1> QED  BY <1>3, <1>4, <1>6, <1>8, <1>10, VestingStep

\* exit(): everything but the locks leaves.
LEMMA ExitStep ==
  ASSUME NEW u, NEW claimRewards, Inv, u \in Users, Exit(u, claimRewards)
  PROVE  Inv'
<1> DEFINE leaving == bal[u].unlocked + bal[u].earned
           total == bal[u].total - leaving
           b == WithVesting(bal[u], total, 0, 0)
           claimed == ClaimSet(claimRewards)
<1>1. /\ bal \in [Users -> Balances] /\ bal[u] \in Balances
      /\ UserOK(bal[u], userEarnings[u])
  BY UserParts
<1>2. bal[u].total \in Nat /\ bal[u].unlocked \in Nat /\ bal[u].earned \in Nat
  BY <1>1 DEF Balances
<1>3. /\ bal[u].total >= leaving
      /\ bal' = [bal EXCEPT ![u].total = @ - leaving,
                            ![u].unlocked = 0, ![u].earned = 0]
      /\ userEarnings' = [userEarnings EXCEPT ![u] = <<>>]
      /\ Settle(u, claimed, claimed, leaving)
      /\ UNCHANGED <<now, userLocks, supplyVars, configVars, rewardTokens>>
  BY DEF Exit
<1>4. bal' = [bal EXCEPT ![u] = b]
  BY <1>1, <1>3 DEF WithVesting, Balances
<1>5. /\ leaving \in Nat /\ total \in Nat
      /\ bal[u].total - total = (bal[u].unlocked + bal[u].earned) - (0 + 0)
  BY <1>2, <1>3
<1>6. <<>> \in Seq(Earning) /\ Vesting(<<>>) /\ Sum(Amounts(<<>>)) = 0
  <2>1. Len(<<>>) = 0 /\ Len(Amounts(<<>>)) = 0
    BY DEF Amounts
  <2> QED  BY <2>1, SumToZero DEF Sum, Vesting
<1> HIDE DEF leaving, total
<1>7. b \in Balances /\ UserOK(b, <<>>)
  <2>1. 0 \in Nat /\ 0 = Sum(Amounts(<<>>))
    BY <1>6
  <2> QED  BY <1>1, <1>5, <1>6, <2>1, WithVestingOK
<1> HIDE DEF b, claimed
<1> QED  BY <1>3, <1>4, <1>5, <1>6, <1>7, VestingStep

\* zapVestingToLp(): the entries after the last matured one leave.
LEMMA ZapVestingToLpStep ==
  ASSUME NEW u, Inv, u \in Users, ZapVestingToLp(u)
  PROVE  Inv'
<1> DEFINE es == userEarnings[u]
           matured == {i \in 1..Len(es) : \E j \in i..Len(es) : es[j].unlockTime <= now}
           kept == Cardinality(matured)
           left == SubSeq(es, 1, kept)
           rest == SubSeq(es, kept + 1, Len(es))
           zapped == Sum(Amounts(rest))
           total == bal[u].total - zapped
           earned == bal[u].earned - zapped
           b == WithVesting(bal[u], total, bal[u].unlocked, earned)
<1>1. /\ bal \in [Users -> Balances] /\ bal[u] \in Balances /\ es \in Seq(Earning)
      /\ UserOK(bal[u], es)
  BY UserParts
<1>2. /\ bal[u].total \in Nat /\ bal[u].unlocked \in Nat /\ bal[u].earned \in Nat
      /\ Vesting(es) /\ bal[u].earned = Sum(Amounts(es))
  BY <1>1 DEF Balances, UserOK
<1>3. /\ bal[u].total >= zapped /\ bal[u].earned >= zapped
      /\ bal' = [bal EXCEPT ![u].earned = @ - zapped, ![u].total = @ - zapped]
      /\ userEarnings' = [userEarnings EXCEPT ![u] = left]
      /\ Settle(u, {}, {}, zapped)
      /\ UNCHANGED <<now, userLocks, supplyVars, configVars, rewardTokens>>
  BY DEF ZapVestingToLp
<1>4. bal' = [bal EXCEPT ![u] = b]
  BY <1>1, <1>3 DEF WithVesting, Balances
<1> HIDE DEF es
<1>5. kept \in 0..Len(es)
  <2>1. Len(es) \in Nat /\ matured \subseteq 1..Len(es)
    BY <1>1, LenProperties
  <2> HIDE DEF matured
  <2> QED  BY <2>1, CountInRange
<1> HIDE DEF kept
<1>6. /\ left \in Seq(Earning) /\ Len(left) = kept
      /\ \A i \in 1..kept : left[i] = es[i]
      /\ rest \in Seq(Earning)
  BY <1>1, <1>5, CutTypes
<1>7. Sum(Amounts(es)) = Sum(Amounts(left)) + zapped
  <2>1. Sum(Amounts(left)) = SumTo(Amounts(es), kept)
    BY <1>1, <1>5, SumAmountsPrefix, EntriesHaveAmount
  <2>2. Sum(Amounts(es)) = SumTo(Amounts(es), kept) + zapped
    BY <1>1, <1>5, SumAmountsSplit, EntriesHaveAmount
  <2> QED  BY <2>1, <2>2
<1>8. zapped \in Nat /\ Sum(Amounts(left)) \in Nat
  BY <1>6, SumAmountsNat, EntriesHaveAmount
<1>9. Vesting(left)
  <2>1. Len(es) \in Nat
    BY <1>1, LenProperties
  <2>2. \A i \in 1..kept : i \in 1..Len(es)
    BY <1>5, <2>1
  <2> HIDE DEF left
  <2> QED  BY <1>2, <1>6, <2>2 DEF Vesting
<1> HIDE DEF zapped, left, rest
<1>10. /\ total \in Nat /\ earned \in Nat
      /\ bal[u].total - total
           = (bal[u].unlocked + bal[u].earned) - (bal[u].unlocked + earned)
      /\ earned = Sum(Amounts(left))
  BY <1>2, <1>3, <1>7, <1>8
<1> HIDE DEF total, earned
<1>11. b \in Balances /\ UserOK(b, left)
  BY <1>1, <1>2, <1>9, <1>10, WithVestingOK
<1> HIDE DEF b
<1> QED  BY <1>3, <1>4, <1>6, <1>8, <1>11, VestingStep

\* vestTokens(): an amount is added to unlocked, or to the vesting entries.
LEMMA VestTokensStep ==
  ASSUME NEW u, NEW amount, NEW withPenalty, Inv, u \in Users, amount \in VestAmounts,
         withPenalty \in BOOLEAN, VestTokens(u, amount, withPenalty)
  PROVE  Inv'
<1> DEFINE es == userEarnings[u]
           n == Len(es)
           merged == [es EXCEPT ![n].amount = @ + amount]
           e == [amount |-> amount, unlockTime |-> now + vestDuration]
           total == bal[u].total + amount
           unlocked == bal[u].unlocked + amount
           earned == bal[u].earned + amount
           penalised == WithVesting(bal[u], total, bal[u].unlocked, earned)
           free == WithVesting(bal[u], total, unlocked, bal[u].earned)
<1>1. /\ bal \in [Users -> Balances] /\ userEarnings \in [Users -> Seq(Earning)]
      /\ userLocks \in [Users -> Seq(Lock)] /\ bal[u] \in Balances
      /\ es \in Seq(Earning) /\ UserOK(bal[u], es) /\ now \in Nat /\ TypeOK
  BY UserParts
<1>2. /\ bal[u].total \in Nat /\ bal[u].unlocked \in Nat /\ bal[u].earned \in Nat
      /\ Vesting(es) /\ bal[u].earned = Sum(Amounts(es))
  BY <1>1 DEF Balances, UserOK
<1>3. amount \in Nat /\ amount # 0
  BY ConstantsAssumption
<1>4. /\ held' = [held EXCEPT ![Prnt] = @ + amount]
      /\ UNCHANGED <<now, userLocks, supplyVars, configVars, rewardTokens,
                     rewardVars, middleFee, feesLeft>>
  BY DEF VestTokens
<1>5. \/ /\ bal' = [bal EXCEPT ![u].total = @ + amount, ![u].earned = @ + amount]
         /\ \/ n > 0 /\ userEarnings' = [userEarnings EXCEPT ![u] = merged]
            \/ userEarnings' = [userEarnings EXCEPT ![u] = Append(es, e)]
      \/ /\ bal' = [bal EXCEPT ![u].total = @ + amount, ![u].unlocked = @ + amount]
         /\ userEarnings' = userEarnings
  <2> DEFINE sameDay == /\ n > 0
                        /\ es[n].unlockTime \div DAY
                             = (now \div DAY) + (vestDuration \div DAY)
  <2>1. CASE withPenalty
    <3>1. bal' = [bal EXCEPT ![u].total = @ + amount, ![u].earned = @ + amount]
      BY <2>1 DEF VestTokens
    <3>2. userEarnings' = [userEarnings EXCEPT ![u] =
                             IF sameDay THEN merged ELSE Append(es, e)]
      BY <2>1 DEF VestTokens
    <3>3. sameDay => n > 0
      OBVIOUS
    <3> HIDE DEF sameDay, merged, e, n, es
    <3>4. CASE sameDay
      BY <3>1, <3>2, <3>3, <3>4
    <3>5. CASE ~sameDay
      BY <3>1, <3>2, <3>5
    <3> QED  BY <3>4, <3>5
  <2>2. CASE ~withPenalty
    BY <2>2 DEF VestTokens
  <2> QED  BY <2>1, <2>2
<1>6. /\ n > 0 => /\ merged \in Seq(Earning) /\ Vesting(merged)
                  /\ Sum(Amounts(merged)) = Sum(Amounts(es)) + amount
      /\ Append(es, e) \in Seq(Earning) /\ Vesting(Append(es, e))
      /\ Sum(Amounts(Append(es, e))) = Sum(Amounts(es)) + amount
  BY <1>1, <1>2, <1>3, VestedEntries
<1>7. /\ total \in Nat /\ unlocked \in Nat /\ earned \in Nat
      /\ bal[u].total - total
           = (bal[u].unlocked + bal[u].earned) - (bal[u].unlocked + earned)
      /\ bal[u].total - total
           = (bal[u].unlocked + bal[u].earned) - (unlocked + bal[u].earned)
      /\ earned = Sum(Amounts(es)) + amount
  BY <1>2, <1>3
<1> HIDE DEF merged, e, n
<1>8. \/ \E t \in Seq(Earning) :
            /\ bal' = [bal EXCEPT ![u] = penalised]
            /\ userEarnings' = [userEarnings EXCEPT ![u] = t]
            /\ Vesting(t) /\ earned = Sum(Amounts(t))
      \/ /\ bal' = [bal EXCEPT ![u] = free]
         /\ userEarnings' = [userEarnings EXCEPT ![u] = es]
  <2>1. bal' = [bal EXCEPT ![u].total = @ + amount, ![u].earned = @ + amount]
          => bal' = [bal EXCEPT ![u] = penalised]
    BY <1>1 DEF WithVesting, Balances
  <2>2. bal' = [bal EXCEPT ![u].total = @ + amount, ![u].unlocked = @ + amount]
          => bal' = [bal EXCEPT ![u] = free]
    BY <1>1 DEF WithVesting, Balances
  <2>3. userEarnings = [userEarnings EXCEPT ![u] = es]
    BY <1>1
  <2> HIDE DEF penalised, free, earned
  <2> QED  BY <1>5, <1>6, <1>7, <2>1, <2>2, <2>3
<1> HIDE DEF total, unlocked, earned, es
<1>9. TypeBalances' /\ UsersOK'
  <2>1. userLocks' \in [Users -> Seq(Lock)] /\ now' = now
    BY <1>1, <1>4
  <2>2. ASSUME NEW t \in Seq(Earning),
               bal' = [bal EXCEPT ![u] = penalised],
               userEarnings' = [userEarnings EXCEPT ![u] = t],
               Vesting(t), earned = Sum(Amounts(t))
        PROVE  TypeBalances' /\ UsersOK'
    <3>1. penalised \in Balances /\ UserOK(penalised, t)
      BY <1>1, <1>2, <1>7, <2>2, WithVestingOK
    <3> HIDE DEF penalised
    <3> QED  BY <2>1, <2>2, <3>1, UserStep
  <2>3. ASSUME bal' = [bal EXCEPT ![u] = free],
               userEarnings' = [userEarnings EXCEPT ![u] = es]
        PROVE  TypeBalances' /\ UsersOK'
    <3>1. free \in Balances /\ UserOK(free, es)
      BY <1>1, <1>2, <1>7, WithVestingOK
    <3> HIDE DEF free
    <3> QED  BY <1>1, <2>1, <2>3, <3>1, UserStep
  <2> QED  BY <1>8, <2>2, <2>3
<1>10. TypeRewards'
  <2>1. held \in [Tokens -> Nat] /\ Prnt \in Tokens
    BY <1>1, ConstantsAssumption DEF TypeOK
  <2>2. held' \in [Tokens -> Nat]
    BY <1>3, <1>4, <2>1
  <2> QED  BY <1>1, <1>4, <2>2 DEF TypeRewards, TypeOK, rewardVars
<1>11. TypeSupplies' /\ TypeSettings' /\ rewardTokens' \in Seq(Tokens) /\ now' \in Nat
  BY <1>4, PartsUnchanged
<1> QED  BY <1>9, <1>10, <1>11, InvNext

-----------------------------------------------------------------------------
(* Rewards, settings and time *)

\* A claim touches no balance.
LEMMA ClaimStep ==
  ASSUME NEW u, NEW fwd, NEW pay, Inv, u \in Users, Settle(u, fwd, pay, 0),
         UNCHANGED <<now, balanceVars, supplyVars, configVars, rewardTokens>>
  PROVE  Inv'
<1>1. TypeOK /\ now \in Nat
  BY UserParts
<1>2. TypeBalances' /\ UsersOK'
  BY <1>1, NoUserStep
<1>3. TypeRewards'
  BY <1>1, SettleType
<1>4. TypeSupplies' /\ TypeSettings' /\ rewardTokens' \in Seq(Tokens) /\ now' \in Nat
  BY <1>1, PartsUnchanged
<1> QED  BY <1>2, <1>3, <1>4, InvNext

\* addReward() appends a token and starts its reward data.
LEMMA AddRewardStep ==
  ASSUME NEW t, Inv, t \in Tokens, AddReward(t)
  PROVE  Inv'
<1>1. TypeOK /\ now \in Nat
  BY DEF Inv, TypeOK
<1>2. /\ rewardTokens' = Append(rewardTokens, t)
      /\ rewardData' = [rewardData EXCEPT ![t].lastUpdateTime = now,
                                          ![t].periodFinish = now]
      /\ UNCHANGED <<now, balanceVars, supplyVars, configVars,
                     userRewardPerTokenPaid, rewards, tokenVars>>
  BY DEF AddReward
<1>3. rewardTokens' \in Seq(Tokens)
  BY <1>1, <1>2, AppendProperties DEF TypeOK
<1>4. TypeRewards'
  <2>1. rewardData \in [Tokens -> Reward]
    BY <1>1 DEF TypeOK
  <2>2. rewardData' \in [Tokens -> Reward]
    BY <1>1, <1>2, <2>1 DEF Reward
  <2> QED  BY <1>1, <1>2, <2>2 DEF TypeRewards, TypeOK, tokenVars
<1>5. TypeBalances' /\ UsersOK' /\ now' \in Nat
  BY <1>1, <1>2, NoUserStep
<1>6. TypeSupplies' /\ TypeSettings'
  BY <1>2, PartsUnchanged
<1> QED  BY <1>3, <1>4, <1>5, <1>6, InvNext

\* removeReward() takes a token off the list and clears its reward data.
LEMMA RemoveRewardStep ==
  ASSUME NEW t, Inv, t \in Tokens, RemoveReward(t)
  PROVE  Inv'
<1> DEFINE n == Len(rewardTokens)
           first(j) == rewardTokens[j] = t /\ \A h \in 1..(j - 1) : rewardTokens[h] # t
           i == CHOOSE j \in 1..n : first(j)
           moved == [rewardTokens EXCEPT ![i] = rewardTokens[n]]
<1>1. TypeOK /\ now \in Nat /\ rewardTokens \in Seq(Tokens) /\ n \in Nat
  BY LenProperties DEF Inv, TypeOK
<1>2. /\ t \in Listed
      /\ rewardTokens' = SubSeq(moved, 1, n - 1)
      /\ rewardData' = [rewardData EXCEPT ![t] = NoReward]
      /\ UNCHANGED <<now, balanceVars, supplyVars, configVars,
                     userRewardPerTokenPaid, rewards, tokenVars>>
  BY DEF RemoveReward
<1>3. i \in 1..n
  <2> DEFINE T == {j \in 1..n : rewardTokens[j] = t}
  <2>1. T \subseteq Nat /\ T # {}
    BY <1>2 DEF Listed
  <2>2. PICK m \in T : \A k \in T : m <= k
    <3> HIDE DEF T
    <3> QED  BY <2>1, LeastNat
  <2>3. m \in 1..n /\ rewardTokens[m] = t
    OBVIOUS
  <2>4. \A h \in 1..(m - 1) : h \in 1..n /\ ~(m <= h)
    BY <1>1, <2>3
  <2>5. first(m)
    BY <2>2, <2>3, <2>4
  <2> HIDE DEF first, n
  <2> QED  BY <2>3, <2>5
<1> HIDE DEF i
<1>4. moved \in Seq(Tokens) /\ Len(moved) = n
  <2>1. n \in 1..Len(rewardTokens)
    BY <1>1, <1>3
  <2>2. rewardTokens[n] \in Tokens
    BY <1>1, <2>1, ElementOfSeq
  <2> QED  BY <1>1, <1>3, <2>2, ExceptSeq
<1> HIDE DEF moved
<1>5. rewardTokens' \in Seq(Tokens)
  <2>1. n - 1 \in 0..Len(moved)
    BY <1>1, <1>3, <1>4
  <2> QED  BY <1>2, <1>4, <2>1, CutTypes
<1>6. TypeRewards'
  <2>1. rewardData \in [Tokens -> Reward] /\ NoReward \in Reward
    BY <1>1 DEF TypeOK, NoReward, Reward
  <2>2. rewardData' \in [Tokens -> Reward]
    BY <1>2, <2>1
  <2> QED  BY <1>1, <1>2, <2>2 DEF TypeRewards, TypeOK, tokenVars
<1>7. TypeBalances' /\ UsersOK' /\ now' \in Nat
  BY <1>1, <1>2, NoUserStep
<1>8. TypeSupplies' /\ TypeSettings'
  BY <1>2, PartsUnchanged
<1> QED  BY <1>5, <1>6, <1>7, <1>8, InvNext

\* Fees only add to what the forwarder or the contract holds.
LEMMA FeesArriveStep ==
  ASSUME NEW t, NEW amount, Inv, t \in Tokens, amount \in FeeAmounts,
         FeesArrive(t, amount)
  PROVE  Inv'
<1>1. TypeOK /\ now \in Nat /\ amount \in Nat
  BY ConstantsAssumption DEF Inv, TypeOK
<1>2. /\ feesLeft[t] > 0
      /\ feesLeft' = [feesLeft EXCEPT ![t] = @ - 1]
      /\ UNCHANGED <<now, balanceVars, supplyVars, configVars, rewardTokens, rewardVars>>
      /\ \/ middleFee' = [middleFee EXCEPT ![t] = @ + amount] /\ held' = held
         \/ held' = [held EXCEPT ![t] = @ + amount] /\ middleFee' = middleFee
  BY DEF FeesArrive
<1>3. TypeRewards'
  <2>1. /\ feesLeft \in [Tokens -> Nat] /\ middleFee \in [Tokens -> Nat]
        /\ held \in [Tokens -> Nat]
    BY <1>1 DEF TypeOK
  <2>2. /\ feesLeft' \in [Tokens -> Nat] /\ middleFee' \in [Tokens -> Nat]
        /\ held' \in [Tokens -> Nat]
    BY <1>1, <1>2, <2>1
  <2> QED  BY <1>1, <1>2, <2>2 DEF TypeRewards, TypeOK, rewardVars
<1>4. TypeBalances' /\ UsersOK' /\ now' \in Nat
  BY <1>1, <1>2, NoUserStep
<1>5. TypeSupplies' /\ TypeSettings' /\ rewardTokens' \in Seq(Tokens)
  BY <1>2, PartsUnchanged
<1> QED  BY <1>3, <1>4, <1>5, InvNext

\* A step that only changes settings, to values of their types.
LEMMA SettingsStep ==
  ASSUME Inv, TypeSettings', unchangedButConfig
  PROVE  Inv'
<1>1. TypeBalances' /\ UsersOK' /\ now' \in Nat
  <2>1. now \in Nat /\ now' = now /\ UNCHANGED balanceVars
    BY DEF Inv, TypeOK, unchangedButConfig
  <2> QED  BY <2>1, NoUserStep
<1>2. TypeSupplies' /\ TypeRewards' /\ rewardTokens' \in Seq(Tokens)
  BY PartsUnchanged DEF unchangedButConfig
<1> QED  BY <1>1, <1>2, InvNext

\* Time passes.
LEMMA TickStep ==
  ASSUME Inv, Tick
  PROVE  Inv'
<1>1. now \in Nat /\ now' = now + 1
  BY DEF Inv, TypeOK, Tick
<1>2. UNCHANGED <<balanceVars, supplyVars, configVars, rewardTokens, rewardVars, tokenVars>>
  BY DEF Tick
<1>3. TypeBalances' /\ UsersOK'
  BY <1>1, <1>2, NoUserStep
<1>4. /\ TypeSupplies' /\ TypeSettings' /\ TypeRewards'
      /\ rewardTokens' \in Seq(Tokens) /\ now' \in Nat
  BY <1>1, <1>2, PartsUnchanged
<1> QED  BY <1>3, <1>4, InvNext

-----------------------------------------------------------------------------
(* The invariant, and what follows from it *)

\* The state after deployment satisfies the invariant.
LEMMA InitInv == Init => Inv
<1> SUFFICES ASSUME Init PROVE Inv
  OBVIOUS
<1> DEFINE none == [total |-> 0, unlocked |-> 0, locked |-> 0,
                    lockedWithMultiplier |-> 0, earned |-> 0]
<1>1. /\ StartTime \in Nat /\ InitLockTypeInfo \in Seq(LockType) /\ Prnt \in Tokens
      /\ Lookbacks \subseteq 1..rewardsDuration /\ FeeBudgets \subseteq [Tokens -> Nat]
  BY ConstantsAssumption
<1>2. none \in Balances /\ NoReward \in Reward
      /\ [NoReward EXCEPT !.lastUpdateTime = StartTime] \in Reward
  BY <1>1 DEF Balances, NoReward, Reward
<1>3. now \in Nat /\ rewardTokens \in Seq(Tokens)
  BY <1>1 DEF Init
<1>4. TypeBalances
  BY <1>2 DEF Init, TypeBalances
<1>5. TypeSupplies
  BY DEF Init, TypeSupplies
<1>6. TypeSettings
  BY <1>1 DEF Init, TypeSettings
<1>7. TypeRewards
  BY <1>1, <1>2 DEF Init, TypeRewards
<1>8. UsersOK
  <2>1. <<>> \in Seq(Earning) /\ Vesting(<<>>) /\ Sum(Amounts(<<>>)) = 0
    <3>1. Len(<<>>) = 0 /\ Len(Amounts(<<>>)) = 0
      BY DEF Amounts
    <3> QED  BY <3>1, SumToZero DEF Sum, Vesting
  <2>2. \A u \in Users : bal[u] = none /\ userEarnings[u] = <<>>
    BY DEF Init
  <2>3. UserOK(none, <<>>)
    BY <2>1 DEF UserOK
  <2> QED  BY <2>2, <2>3 DEF UsersOK
<1> QED  BY <1>3, <1>4, <1>5, <1>6, <1>7, <1>8, TypeOKParts DEF Inv

\* Inv is inductive: every action preserves it.
LEMMA NextInv == Inv /\ [Next]_vars => Inv'
<1> SUFFICES ASSUME Inv, [Next]_vars PROVE Inv'
  OBVIOUS
<1>1. CASE Tick
  BY <1>1, TickStep
<1>2. CASE \E u \in Users, a \in StakeAmounts, i \in 0..Len(lockTypes) : Stake(u, a, i)
  BY <1>2, StakeStep
<1>3. CASE \E u \in Users, l \in Limits, r \in BOOLEAN :
             \E c \in {u, LockZap, Stranger} : WithdrawExpiredLocks(c, u, l, r)
  BY <1>3, WithdrawExpiredLocksForStep DEF WithdrawExpiredLocks
<1>4. CASE \E u \in Users : Relock(u)
  BY <1>4, WithdrawExpiredLocksForStep DEF Relock
<1>5. CASE \E u \in Users : ClaimBounty(u)
  BY <1>5, WithdrawExpiredLocksForStep DEF ClaimBounty
<1>6. CASE \E u \in Users, a \in VestAmounts, p \in BOOLEAN : VestTokens(u, a, p)
  BY <1>6, VestTokensStep
<1>7. CASE \E u \in Users, a \in WithdrawAmounts : Withdraw(u, a)
  BY <1>7, WithdrawStep
<1>8. CASE \E u \in Users, c \in BOOLEAN : \E i \in 1..Len(userEarnings[u]) :
             IndividualEarlyExit(u, userEarnings[u][i].unlockTime, c)
  BY <1>8, IndividualEarlyExitStep
<1>9. CASE \E u \in Users, c \in BOOLEAN : Exit(u, c)
  BY <1>9, ExitStep
<1>10. CASE \E u \in Users : ZapVestingToLp(u)
  BY <1>10, ZapVestingToLpStep
<1>11. CASE \E u \in Users, ts \in SUBSET Tokens : GetReward(u, ts)
  BY <1>11, ClaimStep DEF GetReward
<1>12. CASE \E u \in Users : ClaimFromConverter(u)
  BY <1>12, ClaimStep DEF ClaimFromConverter
<1>13. CASE \E t \in Tokens : AddReward(t)
  BY <1>13, AddRewardStep
<1>14. CASE \E t \in Tokens : RemoveReward(t)
  BY <1>14, RemoveRewardStep
<1>15. CASE \E t \in Tokens, a \in FeeAmounts : FeesArrive(t, a)
  BY <1>15, FeesArriveStep
<1> DEFINE SettingsChange ==
  \/ \E u \in ConfigUsers, s \in BOOLEAN : SetRelock(u, s)
  \/ \E u \in ConfigUsers, i \in 0..(Len(lockTypes) - 1) :
       SetDefaultRelockTypeIndex(u, i)
  \/ \E info \in LockTypeInfos : SetLockTypeInfo(info)
  \/ \E l \in Lookbacks : SetLookback(l)
  \/ \E s \in PauseStatuses : SetPaused(s)
<1>16. CASE SettingsChange
  <2>1. /\ paused \in BOOLEAN /\ lockTypes \in Seq(LockType)
        /\ defaultLockIndex \in [Users -> Nat]
        /\ autoRelockDisabled \in [Users -> BOOLEAN]
        /\ rewardsLookback \in 1..rewardsDuration
    BY DEF Inv, TypeOK
  <2>2. /\ PauseStatuses \subseteq BOOLEAN /\ LockTypeInfos \subseteq Seq(LockType)
        /\ Lookbacks \subseteq 1..rewardsDuration
    BY ConstantsAssumption
  <2>3. ASSUME NEW u \in ConfigUsers, NEW s \in BOOLEAN, SetRelock(u, s) PROVE Inv'
    <3>1. TypeSettings'
      BY <2>1, <2>3 DEF SetRelock, TypeSettings
    <3> QED  BY <2>3, <3>1, SettingsStep DEF SetRelock
  <2>4. ASSUME NEW u \in ConfigUsers, NEW i \in 0..(Len(lockTypes) - 1),
               SetDefaultRelockTypeIndex(u, i)
        PROVE  Inv'
    <3>1. i \in Nat
      BY <2>4
    <3>2. defaultLockIndex' \in [Users -> Nat]
      BY <2>1, <2>4, <3>1 DEF SetDefaultRelockTypeIndex
    <3>3. TypeSettings'
      BY <2>1, <2>4, <3>2 DEF SetDefaultRelockTypeIndex, TypeSettings
    <3> QED  BY <2>4, <3>3, SettingsStep DEF SetDefaultRelockTypeIndex
  <2>5. ASSUME NEW info \in LockTypeInfos, SetLockTypeInfo(info) PROVE Inv'
    <3>1. TypeSettings'
      BY <2>1, <2>2, <2>5 DEF SetLockTypeInfo, TypeSettings
    <3> QED  BY <2>5, <3>1, SettingsStep DEF SetLockTypeInfo
  <2>6. ASSUME NEW l \in Lookbacks, SetLookback(l) PROVE Inv'
    <3>1. TypeSettings'
      BY <2>1, <2>2, <2>6 DEF SetLookback, TypeSettings
    <3> QED  BY <2>6, <3>1, SettingsStep DEF SetLookback
  <2>7. ASSUME NEW s \in PauseStatuses, SetPaused(s) PROVE Inv'
    <3>1. TypeSettings'
      BY <2>1, <2>2, <2>7 DEF SetPaused, TypeSettings
    <3> QED  BY <2>7, <3>1, SettingsStep DEF SetPaused
  <2> QED  BY <1>16, <2>3, <2>4, <2>5, <2>6, <2>7
<1>17. CASE UNCHANGED vars
  <2>1. /\ now' = now /\ UNCHANGED balanceVars /\ UNCHANGED supplyVars
        /\ UNCHANGED configVars /\ UNCHANGED rewardTokens
        /\ UNCHANGED <<rewardVars, tokenVars>>
    BY <1>17 DEF vars
  <2>2. now \in Nat
    BY DEF Inv, TypeOK
  <2>3. TypeBalances' /\ UsersOK'
    BY <2>1, <2>2, NoUserStep
  <2>4. /\ TypeSupplies' /\ TypeSettings' /\ TypeRewards'
        /\ rewardTokens' \in Seq(Tokens) /\ now' \in Nat
    BY <2>1, <2>2, PartsUnchanged
  <2> QED  BY <2>3, <2>4, InvNext
<1> QED  BY <1>1, <1>2, <1>3, <1>4, <1>5, <1>6, <1>7, <1>8, <1>9, <1>10, <1>11, <1>12,
            <1>13, <1>14, <1>15, <1>16, <1>17 DEF Next

\* Inv holds of every reachable state.
THEOREM SpecInv == Spec => []Inv
BY InitInv, NextInv, PTL DEF Spec

\* Every variable keeps its type, whatever the users, the owner and the keepers
\* do: no balance, supply, reward or holding is ever driven below zero.
THEOREM SpecTypeOK == Spec => []TypeOK
<1>1. Inv => TypeOK
  BY DEF Inv
<1> QED  BY <1>1, SpecInv, PTL

\* Balances.total is unlocked + locked + earned, although withdraw() computes
\* what leaves total and what leaves earned by different divisions.
THEOREM SpecTotalIsSumOfParts == Spec => []TotalIsSumOfParts
<1>1. Inv => TotalIsSumOfParts
  BY DEF Inv, UsersOK, UserOK, TotalIsSumOfParts
<1> QED  BY <1>1, SpecInv, PTL

\* Balances.earned is the sum of the vesting entries, none of which is empty:
\* the loops over userEarnings advance and end where earned says they do.
THEOREM SpecEarningsMatchBalances == Spec => []EarningsMatchBalances
<1>1. Inv => EarningsMatchBalances
  BY DEF Inv, UsersOK, UserOK, Vesting, EarningsMatchBalances
<1> QED  BY <1>1, SpecInv, PTL

==============================================================================
