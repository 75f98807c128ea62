------------------------- MODULE MultiFeeStakeProofs -------------------------
(***************************************************************************)
(* Theorems about what users keep in MultiFeeDistribution, for every number  *)
(* of users, every table of lock types and every order of their              *)
(* transactions: first their locks, then the vesting of their PRNT.          *)
(*                                                                         *)
(* A transaction changes the locks of one user, and it is a stake or the     *)
(* withdrawal of expired locks, possibly with a relock.  LocksMoved says     *)
(* what the two have in common; every theorem about locks follows from it.   *)
(* Those about vesting are about the order of the entries, what the contract *)
(* holds for them, and what a withdrawal costs.                              *)
(***************************************************************************)
EXTENDS MultiFeeProofs

-----------------------------------------------------------------------------
(* What locks are worth *)

LockAmount == [l \in Lock |-> l.amount]
LockWeight == [l \in Lock |-> l.amount * l.multiplier]
UnexpiredAt(time) == [l \in Lock |-> IF l.unlockTime <= time THEN 0 ELSE l.amount]
ExpiredAt(time)   == [l \in Lock |-> IF l.unlockTime <= time THEN l.amount ELSE 0]

\* A lock is worth a natural number.
LEMMA WorthTypes ==
  /\ LockAmount \in [Lock -> Nat]
  /\ LockWeight \in [Lock -> Nat]
  /\ \A time : UnexpiredAt(time) \in [Lock -> Nat]
  /\ \A time : ExpiredAt(time) \in [Lock -> Nat]
<1>1. \A l \in Lock : l.amount \in Nat /\ l.multiplier \in Nat
  BY DEF Lock
<1>2. \A l \in Lock : l.amount * l.multiplier \in Nat
  BY <1>1
<1>3. LockAmount \in [Lock -> Nat]
  BY <1>1 DEF LockAmount
<1>4. LockWeight \in [Lock -> Nat]
  BY <1>2 DEF LockWeight
<1>5. \A time : UnexpiredAt(time) \in [Lock -> Nat]
  BY <1>1 DEF UnexpiredAt
<1>6. \A time : ExpiredAt(time) \in [Lock -> Nat]
  BY <1>1 DEF ExpiredAt
<1> QED  BY <1>3, <1>4, <1>5, <1>6

\* The sums of the specification are sums of these worths.
LEMMA SumsAreValues ==
  ASSUME NEW s \in Seq(Lock)
  PROVE  /\ Amounts(s) = Values(LockAmount, s)
         /\ Weighted(s) = Values(LockWeight, s)
         /\ \A time : [i \in 1..Len(s) |-> IF s[i].unlockTime <= time THEN 0 ELSE s[i].amount]
                        = Values(UnexpiredAt(time), s)
         /\ \A time : [i \in 1..Len(s) |-> IF s[i].unlockTime <= time THEN s[i].amount ELSE 0]
                        = Values(ExpiredAt(time), s)
<1>1. \A i \in 1..Len(s) : s[i] \in Lock
  BY ElementOfSeq
<1>2. Amounts(s) = Values(LockAmount, s)
  BY <1>1 DEF Amounts, Values, LockAmount
<1>3. Weighted(s) = Values(LockWeight, s)
  BY <1>1 DEF Weighted, Values, LockWeight
<1>4. ASSUME NEW time
      PROVE  [i \in 1..Len(s) |-> IF s[i].unlockTime <= time THEN 0 ELSE s[i].amount]
               = Values(UnexpiredAt(time), s)
  BY <1>1 DEF Values, UnexpiredAt
<1>5. ASSUME NEW time
      PROVE  [i \in 1..Len(s) |-> IF s[i].unlockTime <= time THEN s[i].amount ELSE 0]
               = Values(ExpiredAt(time), s)
  BY <1>1 DEF Values, ExpiredAt
<1> QED  BY <1>2, <1>3, <1>4, <1>5

-----------------------------------------------------------------------------
(* _insertLock and the list part of _stake *)

\* An inserted lock adds its worth, and a sorted list stays sorted.
LEMMA InsertLockEffect ==
  ASSUME NEW locks \in Seq(Lock), NEW x \in Lock
  PROVE  /\ InsertLock(locks, x) \in Seq(Lock)
         /\ \A v \in [Lock -> Int] :
              Sum(Values(v, InsertLock(locks, x))) = Sum(Values(v, locks)) + v[x]
         /\ Sorted(locks) => Sorted(InsertLock(locks, x))
<1> DEFINE n == Len(locks)
           earlier == {i \in 1..n : locks[i].unlockTime < x.unlockTime}
           p == Cardinality(earlier)
           a == SubSeq(locks, 1, p)
           b == SubSeq(locks, p + 1, n)
<1>1. n \in Nat /\ earlier \subseteq 1..n /\ n = Len(locks)
  BY LenProperties
<1>2. InsertLock(locks, x) = a \o <<x>> \o b
  BY DEF InsertLock
<1>3. p \in 0..n
  <2> HIDE DEF earlier, n
  <2> QED  BY <1>1, CountInRange
<1>4. /\ a \in Seq(Lock) /\ b \in Seq(Lock) /\ <<x>> \in Seq(Lock)
      /\ Len(a) = p /\ Len(b) = n - p
      /\ \A i \in 1..p : a[i] = locks[i]
      /\ \A i \in 1..(n - p) : b[i] = locks[p + i]
  <2>1. <<x>> \in Seq(Lock)
    OBVIOUS
  <2>2. \A q \in 0..Len(locks) :
          /\ SubSeq(locks, 1, q) \in Seq(Lock) /\ Len(SubSeq(locks, 1, q)) = q
          /\ \A i \in 1..q : SubSeq(locks, 1, q)[i] = locks[i]
          /\ SubSeq(locks, q + 1, Len(locks)) \in Seq(Lock)
          /\ Len(SubSeq(locks, q + 1, Len(locks))) = Len(locks) - q
          /\ \A i \in 1..(Len(locks) - q) :
               SubSeq(locks, q + 1, Len(locks))[i] = locks[q + i]
    BY CutTypes
  <2> HIDE DEF p
  <2> QED  BY <1>3, <2>1, <2>2
<1>5. ASSUME NEW v \in [Lock -> Int]
      PROVE  Sum(Values(v, a \o <<x>> \o b)) = Sum(Values(v, locks)) + v[x]
  <2>1. a \o <<x>> \in Seq(Lock)
    BY <1>4, ConcatProperties
  <2> HIDE DEF a, b, p
  <2>2. Sum(Values(v, (a \o <<x>>) \o b)) = Sum(Values(v, a \o <<x>>)) + Sum(Values(v, b))
    BY <1>4, <2>1, ValuesOfConcat
  <2>3. Sum(Values(v, a \o <<x>>)) = Sum(Values(v, a)) + Sum(Values(v, <<x>>))
    BY <1>4, ValuesOfConcat
  <2>4. Sum(Values(v, <<x>>)) = v[x]
    BY ValuesOfOne
  <2>5. Sum(Values(v, locks)) = Sum(Values(v, a)) + Sum(Values(v, b))
    BY <1>3, ValuesOfSplit DEF a, b
  <2>6. Sum(Values(v, a)) \in Int /\ Sum(Values(v, b)) \in Int /\ v[x] \in Int
    BY <1>4, ValuesAreSummands
  <2> QED  BY <2>2, <2>3, <2>4, <2>5, <2>6
<1>6. ASSUME Sorted(locks) PROVE Sorted(a \o <<x>> \o b)
  <2>0. x.unlockTime \in Nat /\ HasTime(Lock)
        /\ \A i \in 1..n : locks[i].unlockTime \in Nat
    BY EntriesHaveTime, ElementOfSeq DEF HasTime
  <2>1. earlier = 1..p
    <3>1. \A i \in earlier : \A j \in 1..i : j \in earlier
      <4> SUFFICES ASSUME NEW i \in earlier, NEW j \in 1..i PROVE j \in earlier
        OBVIOUS
      <4>1. i \in 1..n /\ locks[i].unlockTime < x.unlockTime
        OBVIOUS
      <4>2. j \in 1..n /\ j <= i
        BY <1>1, <4>1
      <4>3. locks[j].unlockTime <= locks[i].unlockTime
        BY <1>6, <4>1, <4>2 DEF Sorted
      <4> QED  BY <2>0, <4>1, <4>2, <4>3
    <3> HIDE DEF earlier, n
    <3> QED  BY <1>1, <3>1, CountPrefix
  <2>2. \A i \in 1..p : locks[i].unlockTime <= x.unlockTime
    <3>1. \A i \in earlier : locks[i].unlockTime <= x.unlockTime /\ i \in 1..n
      BY <2>0
    <3> QED  BY <2>1, <3>1
  <2>3. \A i \in 1..(n - p) : p + i \in 1..n /\ x.unlockTime <= locks[p + i].unlockTime
    <3> SUFFICES ASSUME NEW i \in 1..(n - p)
                 PROVE  p + i \in 1..n /\ x.unlockTime <= locks[p + i].unlockTime
      OBVIOUS
    <3> HIDE DEF p
    <3>1. p + i \in 1..n /\ p + i \notin 1..p
      BY <1>1, <1>3
    <3>2. p + i \notin earlier
      BY <2>1, <3>1
    <3> QED  BY <2>0, <3>1, <3>2
  <2>4. Sorted(a) /\ Sorted(b)
        /\ \A i \in 1..p, j \in 1..(n - p) : a[i].unlockTime <= b[j].unlockTime
    BY <1>3, <1>6, <2>0, SortedCut
  <2> HIDE DEF a, b, p, n
  <2>5. Sorted(<<x>>) /\ Len(<<x>>) = 1 /\ <<x>>[1] = x
    BY <2>0 DEF Sorted
  <2>6. Sorted(a \o <<x>>)
    <3>1. \A i \in 1..Len(a), j \in 1..Len(<<x>>) : a[i].unlockTime <= <<x>>[j].unlockTime
      BY <1>4, <2>2, <2>5
    <3> QED  BY <1>4, <2>0, <2>4, <2>5, <3>1, SortedConcat
  <2>7. /\ a \o <<x>> \in Seq(Lock) /\ Len(a \o <<x>>) = p + 1
        /\ \A i \in 1..(p + 1) : (a \o <<x>>)[i] = IF i <= p THEN a[i] ELSE x
    <3>1. /\ a \o <<x>> \in Seq(Lock) /\ Len(a \o <<x>>) = Len(a) + Len(<<x>>)
          /\ \A i \in 1..(Len(a) + Len(<<x>>)) :
               (a \o <<x>>)[i] = IF i <= Len(a) THEN a[i] ELSE <<x>>[i - Len(a)]
      BY <1>4, ConcatProperties
    <3>2. \A i \in 1..(p + 1) : ~(i <= p) => i - p = 1
      BY <1>1, <1>3
    <3> QED  BY <1>4, <2>5, <3>1, <3>2
  <2>8. \A i \in 1..Len(a \o <<x>>), j \in 1..Len(b) :
          (a \o <<x>>)[i].unlockTime <= b[j].unlockTime
    <3> SUFFICES ASSUME NEW i \in 1..(p + 1), NEW j \in 1..(n - p)
                 PROVE  (a \o <<x>>)[i].unlockTime <= b[j].unlockTime
      BY <1>4, <2>7
    <3>1. CASE i <= p
      <4>1. i \in 1..p
        BY <1>1, <1>3, <3>1
      <4> QED  BY <2>4, <2>7, <3>1, <4>1
    <3>2. CASE ~(i <= p)
      <4>1. (a \o <<x>>)[i] = x
        BY <2>7, <3>2
      <4>2. b[j] = locks[p + j] /\ x.unlockTime <= locks[p + j].unlockTime
        BY <1>4, <2>3
      <4> QED  BY <4>1, <4>2
    <3> QED  BY <3>1, <3>2
  <2> QED  BY <1>4, <2>0, <2>4, <2>6, <2>7, <2>8, SortedConcat
<1> QED  BY <1>2, <1>5, <1>6, InsertLockType

\* _stake() merges an amount into the last lock, which unlocks on the same day
\* with the same multiplier, or inserts a new lock.
LEMMA AddLockCases ==
  ASSUME NEW locks \in Seq(Lock), NEW amount \in Nat, NEW type \in LockType, now \in Nat
  PROVE  \E x \in Lock :
           /\ x.multiplier = type.multiplier
           /\ type.period >= DAY => x.unlockTime > now
           /\ \/ /\ Len(locks) \in 1..Len(locks)
                 /\ AddLock(locks, amount, type) = [locks EXCEPT ![Len(locks)] = x]
                 /\ x.amount = locks[Len(locks)].amount + amount
                 /\ x.unlockTime = locks[Len(locks)].unlockTime
                 /\ x.multiplier = locks[Len(locks)].multiplier
              \/ /\ AddLock(locks, amount, type) = InsertLock(locks, x)
                 /\ x.amount = amount
<1> DEFINE days == type.period \div DAY
           n == Len(locks)
           last == locks[n]
           merges == IF locks = <<>> THEN FALSE
                     ELSE /\ last.unlockTime \div DAY = (now \div DAY) + days
                          /\ last.multiplier = type.multiplier
           more == [last EXCEPT !.amount = last.amount + amount]
           new == [amount |-> amount, unlockTime |-> now + days * DAY,
                   multiplier |-> type.multiplier]
<1>1. /\ DAY \in Nat /\ DAY # 0 /\ n \in Nat
      /\ type.period \in Nat /\ type.multiplier \in Nat
  BY ConstantsAssumption, LenProperties DEF LockType
<1>2. days \in Nat /\ (type.period >= DAY => days >= 1)
  <2>1. days \in Nat /\ DAY * days <= type.period /\ type.period < DAY * days + DAY
    BY <1>1, DivBounds, DivNat
  <2> HIDE DEF days
  <2>2. ~(days >= 1) => days = 0
    BY <2>1
  <2> QED  BY <1>1, <2>1, <2>2
<1>3. AddLock(locks, amount, type) = IF merges THEN [locks EXCEPT ![n].amount = @ + amount]
                                     ELSE InsertLock(locks, new)
  BY DEF AddLock
<1>4. CASE merges
  <2>1. n \in 1..n /\ last.multiplier = type.multiplier
        /\ last.unlockTime \div DAY = (now \div DAY) + days
    BY <1>1, <1>4, EmptySeq
  <2>2. last \in Lock
    BY <2>1, ElementOfSeq
  <2>3. /\ more \in Lock /\ more.amount = last.amount + amount
        /\ more.unlockTime = last.unlockTime /\ more.multiplier = last.multiplier
        /\ last.unlockTime \in Nat
    BY <2>2 DEF Lock
  <2>4. AddLock(locks, amount, type) = [locks EXCEPT ![n] = more]
    BY <1>3, <1>4
  <2>5. type.period >= DAY => last.unlockTime > now
    <3> HIDE DEF last, days
    <3> DEFINE a == last.unlockTime \div DAY
               b == now \div DAY
    <3>1. /\ a \in Int /\ b \in Int /\ DAY * a <= last.unlockTime
          /\ now < DAY * b + DAY /\ a = b + days
      BY <1>1, <2>1, <2>3, DivBounds
    <3> HIDE DEF a, b
    <3>2. days >= 1 => DAY * a >= DAY * (b + 1)
      BY <1>1, <1>2, <3>1
    <3>3. DAY * (b + 1) = DAY * b + DAY
      BY <1>1, <3>1
    <3> DEFINE A == DAY * a
               B == DAY * b
               C == DAY * (b + 1)
               unlock == last.unlockTime
    <3>4. /\ A \in Int /\ B \in Int /\ C = B + DAY
          /\ A <= unlock /\ now < B + DAY /\ unlock \in Int
          /\ days >= 1 => A >= C
      BY <1>1, <2>3, <3>1, <3>2, <3>3
    <3> HIDE DEF A, B, C, unlock
    <3>5. days >= 1 => unlock > now
      BY <1>1, <3>4
    <3> QED  BY <1>2, <3>5 DEF unlock
  <2> HIDE DEF more, last
  <2> QED  BY <2>1, <2>3, <2>4, <2>5 DEF last
<1>5. CASE ~merges
  <2>1. AddLock(locks, amount, type) = InsertLock(locks, new)
    BY <1>3, <1>5
  <2> HIDE DEF days
  <2>2. days * DAY \in Nat /\ (days >= 1 => days * DAY >= 1)
    BY <1>1, <1>2
  <2>3. /\ new \in Lock /\ new.amount = amount /\ new.multiplier = type.multiplier
        /\ new.unlockTime = now + days * DAY
    BY <1>1, <2>2 DEF Lock
  <2> HIDE DEF new
  <2> QED  BY <1>2, <2>1, <2>2, <2>3
<1> QED  BY <1>4, <1>5

\* What the list part of _stake() does: the amount is added, with the weight of
\* its type; the order and the locks that have not expired are kept; and a lock of
\* a day or more adds nothing that has expired already.
LockAdded(locks, amount, type, t) ==
  /\ t \in Seq(Lock)
  /\ Sum(Amounts(t)) = Sum(Amounts(locks)) + amount
  /\ Sum(Weighted(t)) = Sum(Weighted(locks)) + amount * type.multiplier
  /\ Sorted(locks) => Sorted(t)
  /\ Sum(Values(UnexpiredAt(now), t)) >= Sum(Values(UnexpiredAt(now), locks))
  /\ type.period >= DAY =>
       Sum(Values(ExpiredAt(now), t)) = Sum(Values(ExpiredAt(now), locks))

\* Adding a lock has this effect.
LEMMA AddLockEffect ==
  ASSUME NEW locks \in Seq(Lock), NEW amount \in Nat, NEW type \in LockType, now \in Nat
  PROVE  LockAdded(locks, amount, type, AddLock(locks, amount, type))
<1> SUFFICES ASSUME NEW t, t = AddLock(locks, amount, type)
             PROVE  LockAdded(locks, amount, type, t)
  OBVIOUS
<1> DEFINE n == Len(locks)
           weight == amount * type.multiplier
<1>1. PICK x \in Lock :
        /\ x.multiplier = type.multiplier
        /\ type.period >= DAY => x.unlockTime > now
        /\ \/ /\ n \in 1..n
              /\ t = [locks EXCEPT ![n] = x]
              /\ x.amount = locks[n].amount + amount
              /\ x.unlockTime = locks[n].unlockTime
              /\ x.multiplier = locks[n].multiplier
           \/ /\ t = InsertLock(locks, x)
              /\ x.amount = amount
  BY AddLockCases
<1>2. type.multiplier \in Nat
  BY DEF LockType
<1>3. /\ x.amount \in Nat /\ x.unlockTime \in Nat
      /\ LockAmount[x] = x.amount /\ LockWeight[x] = x.amount * x.multiplier
      /\ UnexpiredAt(now)[x] = IF x.unlockTime <= now THEN 0 ELSE x.amount
      /\ ExpiredAt(now)[x] = IF x.unlockTime <= now THEN x.amount ELSE 0
  BY DEF Lock, LockAmount, LockWeight, UnexpiredAt, ExpiredAt
<1>4. /\ LockAmount \in [Lock -> Int] /\ LockWeight \in [Lock -> Int]
      /\ UnexpiredAt(now) \in [Lock -> Int] /\ ExpiredAt(now) \in [Lock -> Int]
  <2>1. \A S : \A f \in [S -> Nat] : f \in [S -> Int]
    OBVIOUS
  <2> QED  BY <2>1, WorthTypes
<1>5. /\ Sum(Values(LockAmount, locks)) \in Int /\ Sum(Values(LockWeight, locks)) \in Int
      /\ Sum(Values(UnexpiredAt(now), locks)) \in Int
      /\ Sum(Values(ExpiredAt(now), locks)) \in Int
  BY <1>4, ValuesAreSummands, Zenon
<1>6. type.period >= DAY => ~(x.unlockTime <= now)
  BY <1>1, <1>3
<1>7. /\ t \in Seq(Lock)
      /\ Sum(Values(LockAmount, t)) = Sum(Values(LockAmount, locks)) + amount
      /\ Sum(Values(LockWeight, t)) = Sum(Values(LockWeight, locks)) + weight
      /\ Sorted(locks) => Sorted(t)
      /\ Sum(Values(UnexpiredAt(now), t)) >= Sum(Values(UnexpiredAt(now), locks))
      /\ type.period >= DAY =>
           Sum(Values(ExpiredAt(now), t)) = Sum(Values(ExpiredAt(now), locks))
  <2>1. CASE /\ n \in 1..n
             /\ t = [locks EXCEPT ![n] = x]
             /\ x.amount = locks[n].amount + amount
             /\ x.unlockTime = locks[n].unlockTime
             /\ x.multiplier = locks[n].multiplier
    <3> DEFINE y == locks[n]
    <3>1. y \in Lock
      BY <2>1, ElementOfSeq
    <3>2. /\ t \in Seq(Lock) /\ Len(t) = n
          /\ \A i \in 1..n : t[i] = IF i = n THEN x ELSE locks[i]
      BY <2>1, ExceptSeq
    <3>3. /\ y.amount \in Nat
          /\ LockAmount[y] = y.amount /\ LockWeight[y] = y.amount * y.multiplier
          /\ UnexpiredAt(now)[y] = IF y.unlockTime <= now THEN 0 ELSE y.amount
          /\ ExpiredAt(now)[y] = IF y.unlockTime <= now THEN y.amount ELSE 0
      BY <3>1 DEF Lock, LockAmount, LockWeight, UnexpiredAt, ExpiredAt
    <3>4. \A v \in [Lock -> Int] :
            Sum(Values(v, t)) = Sum(Values(v, locks)) - v[y] + v[x]
      <4>1. \A v \in [Lock -> Int], j \in 1..Len(locks) :
              Sum(Values(v, [locks EXCEPT ![j] = x]))
                = Sum(Values(v, locks)) - v[locks[j]] + v[x]
        BY ValuesOfExcept
      <4>2. n \in 1..Len(locks)
        BY <2>1
      <4> HIDE DEF n
      <4> QED  BY <2>1, <4>1, <4>2, Zenon
    <3>5. Sorted(locks) => Sorted(t)
      <4>1. \A i \in 1..n : t[i].unlockTime = locks[i].unlockTime
        BY <2>1, <3>2
      <4> QED  BY <3>2, <4>1 DEF Sorted
    <3>6. x.amount = y.amount + amount /\ x.unlockTime = y.unlockTime
          /\ x.multiplier = type.multiplier /\ y.multiplier = type.multiplier
      BY <1>1, <2>1
    <3> HIDE DEF y
    <3>7. LockWeight[x] = LockWeight[y] + weight /\ LockWeight[y] \in Int /\ weight \in Int
      <4>1. \A p, q, r \in Nat : (p + q) * r = p * r + q * r /\ p * r \in Int
        OBVIOUS
      <4> QED  BY <1>2, <1>3, <3>3, <3>6, <4>1
    <3> HIDE DEF weight
    <3>8. /\ Sum(Values(LockAmount, t))
               = Sum(Values(LockAmount, locks)) - LockAmount[y] + LockAmount[x]
          /\ Sum(Values(LockWeight, t))
               = Sum(Values(LockWeight, locks)) - LockWeight[y] + LockWeight[x]
          /\ Sum(Values(UnexpiredAt(now), t))
               = Sum(Values(UnexpiredAt(now), locks)) - UnexpiredAt(now)[y]
                   + UnexpiredAt(now)[x]
          /\ Sum(Values(ExpiredAt(now), t))
               = Sum(Values(ExpiredAt(now), locks)) - ExpiredAt(now)[y] + ExpiredAt(now)[x]
      BY <1>4, <3>4, Zenon
    <3>9. Sum(Values(LockAmount, t)) = Sum(Values(LockAmount, locks)) + amount
      BY <1>3, <1>5, <3>3, <3>6, <3>8
    <3>10. Sum(Values(LockWeight, t)) = Sum(Values(LockWeight, locks)) + weight
      BY <1>5, <3>7, <3>8
    <3>11. Sum(Values(UnexpiredAt(now), t)) >= Sum(Values(UnexpiredAt(now), locks))
      <4>1. UnexpiredAt(now)[x] >= UnexpiredAt(now)[y]
            /\ UnexpiredAt(now)[x] \in Int /\ UnexpiredAt(now)[y] \in Int
        BY <1>3, <3>3, <3>6
      <4> QED  BY <1>5, <3>8, <4>1
    <3>12. type.period >= DAY =>
             Sum(Values(ExpiredAt(now), t)) = Sum(Values(ExpiredAt(now), locks))
      <4>1. type.period >= DAY => ExpiredAt(now)[x] = 0 /\ ExpiredAt(now)[y] = 0
        BY <1>3, <1>6, <3>3, <3>6
      <4> QED  BY <1>5, <3>8, <4>1
    <3> QED  BY <3>2, <3>5, <3>9, <3>10, <3>11, <3>12
  <2>2. CASE t = InsertLock(locks, x) /\ x.amount = amount
    <3>1. /\ t \in Seq(Lock)
          /\ \A v \in [Lock -> Int] : Sum(Values(v, t)) = Sum(Values(v, locks)) + v[x]
          /\ Sorted(locks) => Sorted(t)
      BY <2>2, InsertLockEffect
    <3>2. LockWeight[x] = weight
      BY <1>1, <1>3, <2>2
    <3> HIDE DEF weight
    <3>3. /\ Sum(Values(LockAmount, t)) = Sum(Values(LockAmount, locks)) + LockAmount[x]
          /\ Sum(Values(LockWeight, t)) = Sum(Values(LockWeight, locks)) + LockWeight[x]
          /\ Sum(Values(UnexpiredAt(now), t))
               = Sum(Values(UnexpiredAt(now), locks)) + UnexpiredAt(now)[x]
          /\ Sum(Values(ExpiredAt(now), t))
               = Sum(Values(ExpiredAt(now), locks)) + ExpiredAt(now)[x]
      BY <1>4, <3>1, Zenon
    <3>4. Sum(Values(LockAmount, t)) = Sum(Values(LockAmount, locks)) + amount
      BY <1>3, <2>2, <3>3
    <3>5. Sum(Values(UnexpiredAt(now), t)) >= Sum(Values(UnexpiredAt(now), locks))
      BY <1>3, <1>5, <3>3
    <3>6. type.period >= DAY =>
            Sum(Values(ExpiredAt(now), t)) = Sum(Values(ExpiredAt(now), locks))
      BY <1>3, <1>5, <1>6, <3>3
    <3> QED  BY <3>1, <3>2, <3>3, <3>4, <3>5, <3>6
  <2> QED  BY <1>1, <2>1, <2>2
<1> QED  BY <1>7, SumsAreValues DEF LockAdded

-----------------------------------------------------------------------------
(* _cleanWithdrawableLocks *)

\* What _cleanWithdrawableLocks does: only expired locks leave, with their amounts
\* and weights, the rest stays in order, and without a limit no expired lock stays.
LocksCleaned(locks, limit, gone, kept) ==
  /\ gone \in Seq(Lock) /\ kept \in Seq(Lock)
  /\ Sum(Amounts(gone)) \in Nat /\ Sum(Weighted(gone)) \in Nat
  /\ Sum(Amounts(locks)) = Sum(Amounts(gone)) + Sum(Amounts(kept))
  /\ Sum(Weighted(locks)) = Sum(Weighted(gone)) + Sum(Weighted(kept))
  /\ Sorted(locks) => Sorted(kept)
  /\ Sum(Values(UnexpiredAt(now), kept)) = Sum(Values(UnexpiredAt(now), locks))
  /\ Sorted(locks) /\ limit >= Len(locks)
       => Sum(Values(ExpiredAt(now), kept)) = 0

\* Cleaning the locks has this effect.
LEMMA CleanEffect ==
  ASSUME NEW locks \in Seq(Lock), NEW limit \in Nat, now \in Nat
  PROVE  LocksCleaned(locks, limit, SubSeq(locks, 1, CleanCount(locks, limit)),
                      SubSeq(locks, CleanCount(locks, limit) + 1, Len(locks)))
<1> SUFFICES ASSUME NEW gone, gone = SubSeq(locks, 1, CleanCount(locks, limit)),
                    NEW kept,
                    kept = SubSeq(locks, CleanCount(locks, limit) + 1, Len(locks))
             PROVE  LocksCleaned(locks, limit, gone, kept)
  OBVIOUS
<1> DEFINE n == Len(locks)
           T == {i \in 1..n : i <= limit /\ \A j \in 1..i : Expired(locks[j])}
           k == CleanCount(locks, limit)
<1>1. n \in Nat /\ T \subseteq 1..n /\ k = Cardinality(T)
  BY LenProperties DEF CleanCount
<1>2. \A i \in T : \A j \in 1..i : j \in T
  <2> SUFFICES ASSUME NEW i \in T, NEW j \in 1..i PROVE j \in T
    OBVIOUS
  <2>1. i \in 1..n /\ i <= limit /\ \A h \in 1..i : Expired(locks[h])
    OBVIOUS
  <2>2. j \in 1..n /\ j <= limit /\ \A h \in 1..j : h \in 1..i
    BY <1>1, <2>1
  <2> QED  BY <2>1, <2>2
<1>3. k \in 0..n /\ T = 1..k
  <2> HIDE DEF T, n, k
  <2> QED  BY <1>1, <1>2, CountPrefix
<1>4. \A i \in 1..k : Expired(locks[i])
  <2>1. \A i \in T : i \in 1..i /\ Expired(locks[i])
    BY <1>1
  <2> QED  BY <1>3, <2>1
<1>5. /\ gone \in Seq(Lock) /\ kept \in Seq(Lock) /\ Len(gone) = k /\ Len(kept) = n - k
      /\ \A i \in 1..k : gone[i] = locks[i]
      /\ \A i \in 1..(n - k) : kept[i] = locks[k + i]
  <2>1. \A q \in 0..Len(locks) :
          /\ SubSeq(locks, 1, q) \in Seq(Lock) /\ Len(SubSeq(locks, 1, q)) = q
          /\ \A i \in 1..q : SubSeq(locks, 1, q)[i] = locks[i]
          /\ SubSeq(locks, q + 1, Len(locks)) \in Seq(Lock)
          /\ Len(SubSeq(locks, q + 1, Len(locks))) = Len(locks) - q
          /\ \A i \in 1..(Len(locks) - q) :
               SubSeq(locks, q + 1, Len(locks))[i] = locks[q + i]
    BY CutTypes
  <2>2. gone = SubSeq(locks, 1, k) /\ kept = SubSeq(locks, k + 1, Len(locks))
    OBVIOUS
  <2> HIDE DEF k
  <2> QED  BY <1>3, <2>1, <2>2
<1>6. \A v \in [Lock -> Int] :
        Sum(Values(v, locks)) = Sum(Values(v, gone)) + Sum(Values(v, kept))
  <2>1. \A v \in [Lock -> Int], q \in 0..Len(locks) :
          Sum(Values(v, locks)) = Sum(Values(v, SubSeq(locks, 1, q)))
                                    + Sum(Values(v, SubSeq(locks, q + 1, Len(locks))))
    BY ValuesOfSplit
  <2>2. gone = SubSeq(locks, 1, k) /\ kept = SubSeq(locks, k + 1, Len(locks))
    OBVIOUS
  <2> HIDE DEF k
  <2> QED  BY <1>3, <2>1, <2>2
<1>7. /\ LockAmount \in [Lock -> Int] /\ LockWeight \in [Lock -> Int]
      /\ UnexpiredAt(now) \in [Lock -> Int] /\ ExpiredAt(now) \in [Lock -> Int]
  <2>1. \A S : \A f \in [S -> Nat] : f \in [S -> Int]
    OBVIOUS
  <2> QED  BY <2>1, WorthTypes
<1> HIDE DEF k, n
<1>8. Sum(Values(UnexpiredAt(now), gone)) = 0
  <2>1. \A i \in 1..Len(gone) : UnexpiredAt(now)[gone[i]] = 0
    <3>1. \A i \in 1..Len(gone) : gone[i] \in Lock /\ Expired(gone[i])
      <4>1. \A i \in 1..Len(gone) : gone[i] \in Lock
        BY <1>5, ElementOfSeq
      <4> QED  BY <1>4, <1>5, <4>1
    <3> QED  BY <3>1 DEF UnexpiredAt, Expired
  <2> QED  BY <1>5, <1>7, <2>1, ValuesOfZeros
<1>9. Sum(Values(UnexpiredAt(now), kept)) = Sum(Values(UnexpiredAt(now), locks))
  <2>1. Sum(Values(UnexpiredAt(now), locks))
          = Sum(Values(UnexpiredAt(now), gone)) + Sum(Values(UnexpiredAt(now), kept))
    BY <1>6, <1>7, Zenon
  <2>2. Sum(Values(UnexpiredAt(now), kept)) \in Int
    BY <1>5, <1>7, ValuesAreSummands
  <2> QED  BY <1>8, <2>1, <2>2
<1>10. ASSUME Sorted(locks) PROVE Sorted(kept)
  <2>1. \A q \in 0..Len(locks) : Sorted(SubSeq(locks, q + 1, Len(locks)))
    BY <1>10, EntriesHaveTime, SortedCut
  <2> QED  BY <1>3, <2>1 DEF k, n
<1>11. ASSUME Sorted(locks), limit >= n
       PROVE  Sum(Values(ExpiredAt(now), kept)) = 0
  <2>1. ASSUME NEW i \in 1..(n - k) PROVE ~Expired(kept[i])
    <3>1. k + i \in 1..n /\ k + i \notin 1..k /\ k + i <= limit
      BY <1>1, <1>3, <1>11
    <3>2. k + i \notin T
      BY <1>3, <3>1
    <3>3. PICK j \in 1..(k + i) : ~Expired(locks[j])
      BY <3>1, <3>2
    <3>4. j \in 1..n /\ j <= k + i
      BY <1>1, <3>1
    <3>5. locks[j].unlockTime <= locks[k + i].unlockTime
      BY <1>11, <3>1, <3>4 DEF Sorted, n
    <3>6. locks[j].unlockTime \in Nat /\ locks[k + i].unlockTime \in Nat
      BY <3>1, <3>4, EntriesHaveTime, ElementOfSeq DEF HasTime, n
    <3>7. ~Expired(locks[k + i])
      BY <3>3, <3>5, <3>6 DEF Expired
    <3> QED  BY <1>5, <3>7
  <2>2. \A i \in 1..Len(kept) : ExpiredAt(now)[kept[i]] = 0
    <3>1. \A i \in 1..Len(kept) : kept[i] \in Lock /\ ~Expired(kept[i])
      <4>1. \A i \in 1..Len(kept) : kept[i] \in Lock
        BY <1>5, ElementOfSeq
      <4> QED  BY <1>5, <2>1, <4>1
    <3> QED  BY <3>1 DEF ExpiredAt, Expired
  <2> QED  BY <1>5, <1>7, <2>2, ValuesOfZeros
<1>12. /\ Sum(Amounts(locks)) = Sum(Amounts(gone)) + Sum(Amounts(kept))
       /\ Sum(Weighted(locks)) = Sum(Weighted(gone)) + Sum(Weighted(kept))
  <2>1. \A s \in Seq(Lock) : Amounts(s) = Values(LockAmount, s)
                             /\ Weighted(s) = Values(LockWeight, s)
    BY SumsAreValues
  <2> QED  BY <1>5, <1>6, <1>7, <2>1, Zenon
<1>13. Sum(Amounts(gone)) \in Nat /\ Sum(Weighted(gone)) \in Nat
  BY <1>5, SumAmountsNat, SumWeightedNat, EntriesHaveAmount
<1> QED  BY <1>5, <1>9, <1>10, <1>11, <1>12, <1>13 DEF n, LocksCleaned

-----------------------------------------------------------------------------
(* The transactions on locks *)

\* The locks of u become t, `a` more in amount and w more in weight: the balances
\* and the supplies follow, the order is kept and nothing unexpired is lost.
LocksMoved(u, t, a, w) ==
  /\ userLocks' = [userLocks EXCEPT ![u] = t]
  /\ t \in Seq(Lock) /\ a \in Int /\ w \in Int
  /\ Sum(Amounts(t)) = Sum(Amounts(userLocks[u])) + a
  /\ Sum(Weighted(t)) = Sum(Weighted(userLocks[u])) + w
  /\ Sorted(userLocks[u]) => Sorted(t)
  /\ Sum(Values(UnexpiredAt(now), t)) >= Sum(Values(UnexpiredAt(now), userLocks[u]))
  /\ bal'[u].locked = bal[u].locked + a
  /\ bal'[u].lockedWithMultiplier = bal[u].lockedWithMultiplier + w
  /\ \A v \in Users \ {u} :
       /\ bal'[v].locked = bal[v].locked
       /\ bal'[v].lockedWithMultiplier = bal[v].lockedWithMultiplier
  /\ lockedSupply' = lockedSupply + a
  /\ lockedSupplyWithMultiplier' = lockedSupplyWithMultiplier + w
  /\ stakeHeld' = stakeHeld + a
  /\ now' = now

\* No lock, no locked balance and no supply changes.
LocksKept ==
  /\ userLocks' = userLocks
  /\ UNCHANGED supplyVars
  /\ \A v \in Users :
       /\ bal'[v].locked = bal[v].locked
       /\ bal'[v].lockedWithMultiplier = bal[v].lockedWithMultiplier

\* A lock type of the table.
LEMMA LockTypeAt ==
  ASSUME TypeOK, NEW i \in Nat, i < Len(lockTypes)
  PROVE  /\ i + 1 \in 1..Len(lockTypes)
         /\ lockTypes[i + 1] \in LockType
         /\ lockTypes[i + 1].multiplier \in Nat
<1>1. lockTypes \in Seq(LockType) /\ Len(lockTypes) \in Nat
  BY LenProperties DEF TypeOK
<1>2. i + 1 \in 1..Len(lockTypes)
  BY <1>1
<1>3. lockTypes[i + 1] \in LockType
  BY <1>1, <1>2, ElementOfSeq
<1> QED  BY <1>2, <1>3 DEF LockType

\* stake() adds an amount, weighted by its type.
LEMMA StakeMoves ==
  ASSUME Inv, NEW u \in Users, NEW amount \in StakeAmounts,
         NEW typeIndex \in 0..Len(lockTypes), Stake(u, amount, typeIndex)
  PROVE  \E t, a, w : LocksMoved(u, t, a, w)
<1> DEFINE type == lockTypes[typeIndex + 1]
           weighted == amount * type.multiplier
           t == AddLock(userLocks[u], amount, type)
<1>1. /\ bal \in [Users -> Balances] /\ bal[u] \in Balances
      /\ userLocks[u] \in Seq(Lock) /\ now \in Nat /\ TypeOK
  BY UserParts
<1>2. /\ userLocks' = [userLocks EXCEPT ![u] = t]
      /\ bal' = [bal EXCEPT ![u].total = @ + amount,
                            ![u].locked = @ + amount,
                            ![u].lockedWithMultiplier = @ + weighted]
      /\ lockedSupplyWithMultiplier' = lockedSupplyWithMultiplier + weighted
      /\ lockedSupply' = lockedSupply + amount
      /\ stakeHeld' = stakeHeld + amount
      /\ now' = now
      /\ typeIndex < Len(lockTypes)
  BY DEF Stake
<1>3. amount \in Nat /\ typeIndex \in Nat
  <2>1. Len(lockTypes) \in Nat
    BY <1>1, LenProperties DEF TypeOK
  <2> QED  BY <2>1, ConstantsAssumption
<1>4. type \in LockType /\ type.multiplier \in Nat
  BY <1>1, <1>2, <1>3, LockTypeAt
<1> HIDE DEF type
<1>5. /\ t \in Seq(Lock)
      /\ Sum(Amounts(t)) = Sum(Amounts(userLocks[u])) + amount
      /\ Sum(Weighted(t)) = Sum(Weighted(userLocks[u])) + amount * type.multiplier
      /\ Sorted(userLocks[u]) => Sorted(t)
      /\ Sum(Values(UnexpiredAt(now), t)) >= Sum(Values(UnexpiredAt(now), userLocks[u]))
  <2>1. LockAdded(userLocks[u], amount, type, t)
    BY <1>1, <1>3, <1>4, AddLockEffect
  <2> HIDE DEF t
  <2> QED  BY <2>1 DEF LockAdded
<1>6. weighted \in Int /\ amount \in Int
  BY <1>3, <1>4
<1>7. Sum(Weighted(t)) = Sum(Weighted(userLocks[u])) + weighted
  BY <1>5
<1> HIDE DEF weighted, t
<1>8. /\ bal'[u].locked = bal[u].locked + amount
      /\ bal'[u].lockedWithMultiplier = bal[u].lockedWithMultiplier + weighted
      /\ \A v \in Users \ {u} :
           /\ bal'[v].locked = bal[v].locked
           /\ bal'[v].lockedWithMultiplier = bal[v].lockedWithMultiplier
  BY <1>1, <1>2 DEF Balances
<1> QED  BY <1>2, <1>5, <1>6, <1>7, <1>8 DEF LocksMoved

\* Every lock type lasts a day or more.
DaysOrMore == \A i \in 1..Len(lockTypes) : lockTypes[i].period >= DAY

\* A withdrawal of expired locks takes them off, and a relock adds their amount as
\* one lock; without a limit, and when a lock lasts a day or more, none expired is left.
LEMMA WithdrawMoves ==
  ASSUME Inv, NEW caller, NEW u \in Users, NEW isRelockAction, NEW limit \in Nat,
         WithdrawExpiredLocksFor(caller, u, isRelockAction, limit)
  PROVE  \E t, a, w :
           /\ LocksMoved(u, t, a, w)
           /\ Sorted(userLocks[u]) /\ limit >= Len(userLocks[u]) /\ DaysOrMore
                => Sum(Values(ExpiredAt(now), t)) = 0
<1> DEFINE locks == userLocks[u]
           gone == SubSeq(locks, 1, CleanCount(locks, limit))
           kept == SubSeq(locks, CleanCount(locks, limit) + 1, Len(locks))
           amount == Sum(Amounts(gone))
           weighted == Sum(Weighted(gone))
           type == lockTypes[defaultLockIndex[u] + 1]
           again == amount * type.multiplier
<1>1. /\ bal \in [Users -> Balances] /\ bal[u] \in Balances
      /\ locks \in Seq(Lock) /\ now \in Nat /\ TypeOK
  BY UserParts
<1>2. \/ /\ defaultLockIndex[u] < Len(lockTypes)
         /\ userLocks' = [userLocks EXCEPT ![u] = AddLock(kept, amount, type)]
         /\ bal' = [bal EXCEPT ![u].lockedWithMultiplier = @ - weighted + again]
         /\ lockedSupplyWithMultiplier' = lockedSupplyWithMultiplier - weighted + again
         /\ lockedSupply' = lockedSupply /\ stakeHeld' = stakeHeld
      \/ /\ userLocks' = [userLocks EXCEPT ![u] = kept]
         /\ bal' = [bal EXCEPT ![u].total = @ - amount, ![u].locked = @ - amount,
                               ![u].lockedWithMultiplier = @ - weighted]
         /\ lockedSupply' = lockedSupply - amount
         /\ lockedSupplyWithMultiplier' = lockedSupplyWithMultiplier - weighted
         /\ stakeHeld' = stakeHeld - amount
  BY DEF WithdrawExpiredLocksFor
<1>3. now' = now
  BY DEF WithdrawExpiredLocksFor
<1>4. LocksCleaned(locks, limit, gone, kept)
  <2> HIDE DEF locks
  <2> QED  BY <1>1, CleanEffect
<1> HIDE DEF gone, kept
<1>5. /\ gone \in Seq(Lock) /\ kept \in Seq(Lock) /\ amount \in Nat /\ weighted \in Nat
      /\ Sum(Amounts(locks)) = amount + Sum(Amounts(kept))
      /\ Sum(Weighted(locks)) = weighted + Sum(Weighted(kept))
      /\ Sorted(locks) => Sorted(kept)
      /\ Sum(Values(UnexpiredAt(now), kept)) = Sum(Values(UnexpiredAt(now), locks))
      /\ Sorted(locks) /\ limit >= Len(locks)
           => Sum(Values(ExpiredAt(now), kept)) = 0
  BY <1>4 DEF LocksCleaned
<1> HIDE DEF amount, weighted
<1>6. /\ bal[u].locked \in Nat /\ bal[u].lockedWithMultiplier \in Nat
      /\ lockedSupply \in Nat /\ lockedSupplyWithMultiplier \in Nat /\ stakeHeld \in Nat
      /\ Sum(Amounts(kept)) \in Nat /\ Sum(Weighted(kept)) \in Nat
      /\ Sum(Values(UnexpiredAt(now), kept)) \in Int
  <2>1. Sum(Amounts(kept)) \in Nat /\ Sum(Weighted(kept)) \in Nat
    BY <1>5, SumAmountsNat, SumWeightedNat, EntriesHaveAmount
  <2>2. Sum(Values(UnexpiredAt(now), kept)) \in Int
    <3>1. UnexpiredAt(now) \in [Lock -> Int]
      BY WorthTypes DEF UnexpiredAt
    <3> QED  BY <1>5, <3>1, ValuesAreSummands
  <2> QED  BY <1>1, <2>1, <2>2 DEF Balances, TypeOK
<1>7. ASSUME defaultLockIndex[u] < Len(lockTypes),
             userLocks' = [userLocks EXCEPT ![u] = AddLock(kept, amount, type)],
             bal' = [bal EXCEPT ![u].lockedWithMultiplier = @ - weighted + again],
             lockedSupplyWithMultiplier' = lockedSupplyWithMultiplier - weighted + again,
             lockedSupply' = lockedSupply, stakeHeld' = stakeHeld
      PROVE  LET t == AddLock(kept, amount, type)
                 w == again - weighted
             IN  /\ LocksMoved(u, t, 0, w)
                 /\ Sorted(locks) /\ limit >= Len(locks) /\ DaysOrMore
                      => Sum(Values(ExpiredAt(now), t)) = 0
  <2> DEFINE t == AddLock(kept, amount, type)
             w == again - weighted
  <2>1. /\ defaultLockIndex[u] \in Nat
        /\ defaultLockIndex[u] + 1 \in 1..Len(lockTypes)
        /\ type \in LockType /\ type.multiplier \in Nat
    <3>1. defaultLockIndex[u] \in Nat
      BY <1>1 DEF TypeOK
    <3> QED  BY <1>1, <1>7, <3>1, LockTypeAt
  <2>2. DaysOrMore => type.period >= DAY
    BY <2>1 DEF DaysOrMore
  <2> HIDE DEF type
  <2>3. LockAdded(kept, amount, type, t)
    BY <1>1, <1>5, <2>1, AddLockEffect
  <2>4. again \in Nat
    BY <1>5, <2>1
  <2>5. /\ t \in Seq(Lock)
        /\ Sum(Amounts(t)) = Sum(Amounts(kept)) + amount
        /\ Sum(Weighted(t)) = Sum(Weighted(kept)) + again
        /\ Sorted(kept) => Sorted(t)
        /\ Sum(Values(UnexpiredAt(now), t)) >= Sum(Values(UnexpiredAt(now), kept))
        /\ type.period >= DAY =>
             Sum(Values(ExpiredAt(now), t)) = Sum(Values(ExpiredAt(now), kept))
    BY <2>3 DEF LockAdded
  <2> HIDE DEF t, again, locks
  <2>6. /\ w \in Int
        /\ Sum(Amounts(t)) = Sum(Amounts(locks)) + 0
        /\ Sum(Weighted(t)) = Sum(Weighted(locks)) + w
    BY <1>5, <1>6, <2>4, <2>5
  <2>0. \A p \in Int : p + 0 = p /\ p - weighted + again = p + w
    BY <1>5, <2>4
  <2>7. /\ bal'[u].locked = bal[u].locked + 0
        /\ bal'[u].lockedWithMultiplier = bal[u].lockedWithMultiplier + w
        /\ \A v \in Users \ {u} :
             /\ bal'[v].locked = bal[v].locked
             /\ bal'[v].lockedWithMultiplier = bal[v].lockedWithMultiplier
    <3>1. bal'[u].lockedWithMultiplier = bal[u].lockedWithMultiplier - weighted + again
          /\ bal'[u].locked = bal[u].locked
      BY <1>1, <1>7 DEF Balances
    <3>2. \A v \in Users \ {u} : bal'[v] = bal[v]
      BY <1>1, <1>7
    <3> HIDE DEF w
    <3> QED  BY <1>6, <2>0, <3>1, <3>2
  <2>8. /\ lockedSupply' = lockedSupply + 0 /\ stakeHeld' = stakeHeld + 0
        /\ lockedSupplyWithMultiplier' = lockedSupplyWithMultiplier + w
    <3> HIDE DEF w
    <3> QED  BY <1>6, <1>7, <2>0
  <2>9. userLocks' = [userLocks EXCEPT ![u] = t]
    BY <1>7 DEF t
  <2>10. /\ Sorted(locks) => Sorted(t)
         /\ Sum(Values(UnexpiredAt(now), t)) >= Sum(Values(UnexpiredAt(now), locks))
         /\ Sorted(locks) /\ limit >= Len(locks) /\ DaysOrMore
              => Sum(Values(ExpiredAt(now), t)) = 0
    BY <1>5, <2>2, <2>5
  <2> HIDE DEF w
  <2>11. LocksMoved(u, t, 0, w)
    BY <1>3, <2>5, <2>6, <2>7, <2>8, <2>9, <2>10 DEF LocksMoved, locks
  <2> QED  BY <2>10, <2>11 DEF t, w
<1>8. ASSUME userLocks' = [userLocks EXCEPT ![u] = kept],
             bal' = [bal EXCEPT ![u].total = @ - amount, ![u].locked = @ - amount,
                                ![u].lockedWithMultiplier = @ - weighted],
             lockedSupply' = lockedSupply - amount,
             lockedSupplyWithMultiplier' = lockedSupplyWithMultiplier - weighted,
             stakeHeld' = stakeHeld - amount
      PROVE  LocksMoved(u, kept, -amount, -weighted)
  <2> HIDE DEF locks
  <2> DEFINE a == -amount
             w == -weighted
  <2>1. /\ a \in Int /\ w \in Int
        /\ Sum(Amounts(kept)) = Sum(Amounts(locks)) + a
        /\ Sum(Weighted(kept)) = Sum(Weighted(locks)) + w
        /\ Sum(Values(UnexpiredAt(now), kept)) >= Sum(Values(UnexpiredAt(now), locks))
    <3>1. a \in Int /\ w \in Int
      BY <1>5
    <3>2. \A p \in Int : (amount + p) + a = p /\ (weighted + p) + w = p
      BY <1>5
    <3> HIDE DEF a, w
    <3>3. Sum(Amounts(kept)) = Sum(Amounts(locks)) + a
      BY <1>5, <1>6, <3>2
    <3>4. Sum(Weighted(kept)) = Sum(Weighted(locks)) + w
      BY <1>5, <1>6, <3>2
    <3>5. Sum(Values(UnexpiredAt(now), kept)) >= Sum(Values(UnexpiredAt(now), locks))
      BY <1>5, <1>6
    <3> QED  BY <3>1, <3>3, <3>4, <3>5
  <2>2. /\ bal'[u].locked = bal[u].locked + a
        /\ bal'[u].lockedWithMultiplier = bal[u].lockedWithMultiplier + w
        /\ \A v \in Users \ {u} :
             /\ bal'[v].locked = bal[v].locked
             /\ bal'[v].lockedWithMultiplier = bal[v].lockedWithMultiplier
    <3>1. bal'[u].lockedWithMultiplier = bal[u].lockedWithMultiplier - weighted
          /\ bal'[u].locked = bal[u].locked - amount
      BY <1>1, <1>8 DEF Balances
    <3>2. \A v \in Users \ {u} : bal'[v] = bal[v]
      BY <1>1, <1>8
    <3> QED  BY <1>5, <1>6, <3>1, <3>2
  <2>3. /\ lockedSupply' = lockedSupply + a /\ stakeHeld' = stakeHeld + a
        /\ lockedSupplyWithMultiplier' = lockedSupplyWithMultiplier + w
    BY <1>5, <1>6, <1>8
  <2> HIDE DEF a, w
  <2>4. LocksMoved(u, kept, a, w)
    BY <1>3, <1>5, <1>8, <2>1, <2>2, <2>3 DEF LocksMoved, locks
  <2> QED  BY <2>4 DEF a, w
<1> HIDE DEF again, type
<1> QED  BY <1>2, <1>5, <1>7, <1>8

\* A step that does not move locks: it leaves the locked parts of balances alone.
LEMMA KeptSteps ==
  ASSUME Inv, NEW u \in Users
  PROVE  /\ \A a, p : VestTokens(u, a, p) => LocksKept
         /\ \A a : Withdraw(u, a) => LocksKept
         /\ \A t, c : IndividualEarlyExit(u, t, c) => LocksKept
         /\ \A c : Exit(u, c) => LocksKept
         /\ ZapVestingToLp(u) => LocksKept
<1>1. bal \in [Users -> Balances]
  BY UserParts
<1>2. ASSUME NEW a, NEW p, VestTokens(u, a, p) PROVE LocksKept
  <2>1. /\ userLocks' = userLocks /\ UNCHANGED supplyVars
        /\ \/ bal' = [bal EXCEPT ![u].total = @ + a, ![u].earned = @ + a]
           \/ bal' = [bal EXCEPT ![u].total = @ + a, ![u].unlocked = @ + a]
    BY <1>2 DEF VestTokens
  <2> QED  BY <1>1, <2>1 DEF LocksKept, Balances
<1>3. ASSUME NEW a, Withdraw(u, a) PROVE LocksKept
  <2>1. userLocks' = userLocks /\ UNCHANGED supplyVars
    BY <1>3 DEF Withdraw
  <2>2. \/ bal' = [bal EXCEPT ![u].unlocked = @ - a, ![u].total = @ - a]
        \/ \E taken, penalty :
             bal' = [bal EXCEPT ![u].unlocked = 0, ![u].earned = @ - taken,
                                ![u].total = @ - a - penalty]
    BY <1>3 DEF Withdraw
  <2>3. CASE bal' = [bal EXCEPT ![u].unlocked = @ - a, ![u].total = @ - a]
    BY <1>1, <2>1, <2>3 DEF LocksKept, Balances
  <2>4. ASSUME NEW taken, NEW penalty,
               bal' = [bal EXCEPT ![u].unlocked = 0, ![u].earned = @ - taken,
                                  ![u].total = @ - a - penalty]
        PROVE  LocksKept
    BY <1>1, <2>1, <2>4 DEF LocksKept, Balances
  <2> QED  BY <2>2, <2>3, <2>4
<1>4. ASSUME NEW t, NEW c, IndividualEarlyExit(u, t, c) PROVE LocksKept
  <2>1. userLocks' = userLocks /\ UNCHANGED supplyVars
    BY <1>4 DEF IndividualEarlyExit
  <2>2. \E x : bal' = [bal EXCEPT ![u].total = @ - x, ![u].earned = @ - x]
    BY <1>4 DEF IndividualEarlyExit
  <2> QED  BY <1>1, <2>1, <2>2 DEF LocksKept, Balances
<1>5. ASSUME NEW c, Exit(u, c) PROVE LocksKept
  <2>1. userLocks' = userLocks /\ UNCHANGED supplyVars
    BY <1>5 DEF Exit
  <2>2. \E x : bal' = [bal EXCEPT ![u].total = @ - x, ![u].unlocked = 0, ![u].earned = 0]
    BY <1>5 DEF Exit
  <2> QED  BY <1>1, <2>1, <2>2 DEF LocksKept, Balances
<1>6. ASSUME ZapVestingToLp(u) PROVE LocksKept
  <2>1. userLocks' = userLocks /\ UNCHANGED supplyVars
    BY <1>6 DEF ZapVestingToLp
  <2>2. \E x : bal' = [bal EXCEPT ![u].earned = @ - x, ![u].total = @ - x]
    BY <1>6 DEF ZapVestingToLp
  <2> QED  BY <1>1, <2>1, <2>2 DEF LocksKept, Balances
<1> QED  BY <1>2, <1>3, <1>4, <1>5, <1>6

\* The limits that the callers of the withdrawal of expired locks pass are natural numbers.
LEMMA LimitsAreNat ==
  ASSUME Inv, NEW u \in Users
  PROVE  /\ Len(userLocks[u]) \in Nat
         /\ \A l \in Limits : (IF l = 0 THEN Len(userLocks[u]) ELSE l) \in Nat
<1>1. userLocks[u] \in Seq(Lock)
  BY UserParts
<1>2. Len(userLocks[u]) \in Nat
  BY <1>1, LenProperties
<1> QED  BY <1>2, ConstantsAssumption

\* A step moves the locks of one user, or no locks.
LEMMA LockSteps ==
  ASSUME Inv, [Next]_vars
  PROVE  (\E u \in Users : \E t, a, w : LocksMoved(u, t, a, w)) \/ LocksKept
<1>1. CASE \E u \in Users, a \in StakeAmounts, i \in 0..Len(lockTypes) : Stake(u, a, i)
  BY <1>1, StakeMoves
<1>2. CASE \E u \in Users, l \in Limits, r \in BOOLEAN :
             \E c \in {u, LockZap, Stranger} : WithdrawExpiredLocks(c, u, l, r)
  <2>1. PICK u \in Users, l \in Limits, r \in BOOLEAN :
          \E c \in {u, LockZap, Stranger} : WithdrawExpiredLocks(c, u, l, r)
    BY <1>2
  <2>2. PICK c \in {u, LockZap, Stranger} : WithdrawExpiredLocks(c, u, l, r)
    BY <2>1
  <2>3. WithdrawExpiredLocksFor(c, u, r, IF l = 0 THEN Len(userLocks[u]) ELSE l)
    BY <2>2 DEF WithdrawExpiredLocks
  <2> DEFINE limit == IF l = 0 THEN Len(userLocks[u]) ELSE l
  <2>4. limit \in Nat
    BY LimitsAreNat
  <2> HIDE DEF limit
  <2>5. WithdrawExpiredLocksFor(c, u, r, limit)
    BY <2>3 DEF limit
  <2> QED  BY <2>4, <2>5, WithdrawMoves
<1>3. CASE \E u \in Users : Relock(u)
  <2>1. PICK u \in Users : WithdrawExpiredLocksFor(u, u, TRUE, Len(userLocks[u]))
    BY <1>3 DEF Relock
  <2> QED  BY <2>1, LimitsAreNat, WithdrawMoves
<1>4. CASE \E u \in Users : ClaimBounty(u)
  <2>1. PICK u \in Users : WithdrawExpiredLocksFor(Stranger, u, FALSE, Len(userLocks[u]))
    BY <1>4 DEF ClaimBounty
  <2> QED  BY <2>1, LimitsAreNat, WithdrawMoves
<1>5. CASE \/ \E u \in Users, a \in VestAmounts, p \in BOOLEAN : VestTokens(u, a, p)
           \/ \E u \in Users, a \in WithdrawAmounts : Withdraw(u, a)
           \/ \E u \in Users, c \in BOOLEAN :
                \E i \in 1..Len(userEarnings[u]) :
                  IndividualEarlyExit(u, userEarnings[u][i].unlockTime, c)
           \/ \E u \in Users, c \in BOOLEAN : Exit(u, c)
           \/ \E u \in Users : ZapVestingToLp(u)
  BY <1>5, KeptSteps
<1>6. CASE UNCHANGED <<balanceVars, supplyVars>>
  BY <1>6 DEF LocksKept, balanceVars
<1>7. CASE \/ Tick
           \/ \E u \in Users, ts \in SUBSET Tokens : GetReward(u, ts)
           \/ \E u \in Users : ClaimFromConverter(u)
           \/ \E t \in Tokens : AddReward(t)
           \/ \E t \in Tokens : RemoveReward(t)
           \/ \E t \in Tokens, a \in FeeAmounts : FeesArrive(t, a)
           \/ \E u \in ConfigUsers, s \in BOOLEAN : SetRelock(u, s)
           \/ \E u \in ConfigUsers, i \in 0..(Len(lockTypes) - 1) :
                SetDefaultRelockTypeIndex(u, i)
           \/ \E info \in LockTypeInfos : SetLockTypeInfo(info)
           \/ \E l \in Lookbacks : SetLookback(l)
           \/ \E s \in PauseStatuses : SetPaused(s)
           \/ UNCHANGED vars
  <2>1. UNCHANGED <<balanceVars, supplyVars>>
    BY <1>7 DEF Tick, GetReward, ClaimFromConverter, AddReward, RemoveReward, FeesArrive,
                SetRelock, SetDefaultRelockTypeIndex, SetLockTypeInfo, SetLookback,
                SetPaused, unchangedButConfig, vars
  <2> QED  BY <1>6, <2>1
<1> QED  BY <1>1, <1>2, <1>3, <1>4, <1>5, <1>7 DEF Next

-----------------------------------------------------------------------------
(* The invariant on locks *)

\* The sum over all users.
LEMMA SumOverUsers ==
  ASSUME NEW f, f = [u \in Users |-> f[u]]
  PROVE  Sum(f) = SumTo(f, NumUsers)
<1>1. NumUsers \in Nat
  BY ConstantsAssumption
<1>2. Len([u \in 1..NumUsers |-> f[u]]) = NumUsers
  BY <1>1
<1> QED  BY <1>2 DEF Sum, Users

\* A sum over users changes by what the summand of one of them does.
LEMMA SumOverUsersMoves ==
  ASSUME NEW f \in [Users -> Int], NEW g \in [Users -> Int], NEW u \in Users, NEW a \in Int,
         g[u] = f[u] + a, \A v \in Users \ {u} : g[v] = f[v]
  PROVE  Sum(g) = Sum(f) + a /\ Sum(f) \in Int
<1>1. Sum(f) = SumTo(f, NumUsers) /\ Sum(g) = SumTo(g, NumUsers)
  BY SumOverUsers
<1>2. /\ NumUsers \in Nat /\ u \in 1..NumUsers
      /\ IntsTo(f, NumUsers) /\ IntsTo(g, NumUsers) /\ SameButAt(f, g, NumUsers, u)
  BY ConstantsAssumption DEF Users, IntsTo, SameButAt
<1>3. SumTo(g, NumUsers) = SumTo(f, NumUsers) - f[u] + g[u]
  BY <1>2, SumToUpdate
<1>4. SumTo(f, NumUsers) \in Int /\ f[u] \in Int
  BY <1>2, SumToInt
<1> QED  BY <1>1, <1>3, <1>4

\* The sum of zeros over all users.
LEMMA SumOverUsersZero ==
  ASSUME NEW f, f = [u \in Users |-> 0]
  PROVE  Sum(f) = 0
<1> DEFINE T == {n \in Nat : n <= NumUsers => SumTo(f, n) = 0}
<1>1. 0 \in T
  BY SumToZero
<1>2. ASSUME NEW n \in Nat, n \in T PROVE n + 1 \in T
  <2>1. SumTo(f, n + 1) = SumTo(f, n) + f[n + 1]
    BY SumToSucc
  <2>2. n + 1 <= NumUsers => f[n + 1] = 0 /\ SumTo(f, n) = 0
    BY <1>2, ConstantsAssumption DEF Users
  <2> QED  BY <2>1, <2>2
<1>3. NumUsers \in T
  <2> HIDE DEF T
  <2> QED  BY <1>1, <1>2, InductiveSet, ConstantsAssumption
<1>4. f = [u \in Users |-> f[u]] /\ NumUsers \in Nat
  BY ConstantsAssumption
<1> QED  BY <1>3, <1>4, SumOverUsers

\* The invariant: the locks add up to the balances, the balances to the supplies,
\* and the lists are in order.
LockInv == Inv /\ LocksMatchBalances /\ SuppliesMatch /\ LocksSorted

\* LocksSorted, list by list.
LEMMA LocksSortedParts == LocksSorted <=> \A u \in Users : Sorted(userLocks[u])
BY DEF LocksSorted, Sorted

\* Moving the locks of one user keeps the sums and the order.
LEMMA MovedKeepsInv ==
  ASSUME LockInv, Inv', NEW u \in Users, NEW t, NEW a, NEW w, LocksMoved(u, t, a, w)
  PROVE  LocksMatchBalances' /\ SuppliesMatch' /\ LocksSorted'
<1>1. /\ bal \in [Users -> Balances] /\ bal' \in [Users -> Balances]
      /\ userLocks \in [Users -> Seq(Lock)]
  BY DEF LockInv, Inv, TypeOK
<1>2. /\ userLocks' = [userLocks EXCEPT ![u] = t] /\ a \in Int /\ w \in Int
      /\ Sum(Amounts(t)) = Sum(Amounts(userLocks[u])) + a
      /\ Sum(Weighted(t)) = Sum(Weighted(userLocks[u])) + w
      /\ Sorted(userLocks[u]) => Sorted(t)
      /\ bal'[u].locked = bal[u].locked + a
      /\ bal'[u].lockedWithMultiplier = bal[u].lockedWithMultiplier + w
      /\ \A v \in Users \ {u} :
           /\ bal'[v].locked = bal[v].locked
           /\ bal'[v].lockedWithMultiplier = bal[v].lockedWithMultiplier
      /\ lockedSupply' = lockedSupply + a
      /\ lockedSupplyWithMultiplier' = lockedSupplyWithMultiplier + w
      /\ stakeHeld' = stakeHeld + a
  BY DEF LocksMoved
<1>3. userLocks'[u] = t /\ \A v \in Users \ {u} : userLocks'[v] = userLocks[v]
  BY <1>1, <1>2
<1>4. LocksMatchBalances'
  <2>1. /\ bal'[u].locked = Sum(Amounts(t))
        /\ bal'[u].lockedWithMultiplier = Sum(Weighted(t))
    BY <1>2 DEF LockInv, LocksMatchBalances
  <2>2. \A v \in Users \ {u} :
          /\ bal'[v].locked = Sum(Amounts(userLocks[v]))
          /\ bal'[v].lockedWithMultiplier = Sum(Weighted(userLocks[v]))
    BY <1>2 DEF LockInv, LocksMatchBalances
  <2>3. \A v \in Users :
          /\ bal'[v].locked = Sum(Amounts(userLocks'[v]))
          /\ bal'[v].lockedWithMultiplier = Sum(Weighted(userLocks'[v]))
    BY <1>3, <2>1, <2>2
  <2> QED  BY <2>3 DEF LocksMatchBalances, Amounts, Weighted
<1>5. SuppliesMatch'
  <2> DEFINE f == [v \in Users |-> bal[v].locked]
             f1 == [v \in Users |-> bal'[v].locked]
             g == [v \in Users |-> bal[v].lockedWithMultiplier]
             g1 == [v \in Users |-> bal'[v].lockedWithMultiplier]
  <2>1. /\ f \in [Users -> Int] /\ f1 \in [Users -> Int]
        /\ g \in [Users -> Int] /\ g1 \in [Users -> Int]
    BY <1>1 DEF Balances
  <2>2. /\ f1[u] = f[u] + a /\ \A v \in Users \ {u} : f1[v] = f[v]
        /\ g1[u] = g[u] + w /\ \A v \in Users \ {u} : g1[v] = g[v]
    BY <1>2
  <2>3. lockedSupply = Sum(f) /\ lockedSupplyWithMultiplier = Sum(g)
        /\ stakeHeld = lockedSupply
    BY DEF LockInv, SuppliesMatch
  <2> HIDE DEF f, f1, g, g1
  <2>4. Sum(f1) = Sum(f) + a /\ Sum(g1) = Sum(g) + w
    BY <1>2, <2>1, <2>2, SumOverUsersMoves
  <2>5. /\ lockedSupply' = Sum(f1) /\ lockedSupplyWithMultiplier' = Sum(g1)
        /\ stakeHeld' = lockedSupply'
    BY <1>2, <2>3, <2>4
  <2> QED  BY <2>5 DEF SuppliesMatch, f1, g1
<1>6. LocksSorted'
  <2>1. \A v \in Users : Sorted(userLocks[v])
    BY LocksSortedParts DEF LockInv
  <2>2. \A v \in Users : Sorted(userLocks'[v])
    BY <1>2, <1>3, <2>1
  <2> QED  BY <2>2 DEF LocksSorted, Sorted
<1> QED  BY <1>4, <1>5, <1>6

\* So does moving none.
LEMMA KeptKeepsInv ==
  ASSUME LockInv, LocksKept
  PROVE  LocksMatchBalances' /\ SuppliesMatch' /\ LocksSorted'
<1>1. LocksMatchBalances'
  BY DEF LockInv, LocksKept, LocksMatchBalances, Amounts, Weighted
<1>2. SuppliesMatch'
  <2>1. /\ [v \in Users |-> bal'[v].locked] = [v \in Users |-> bal[v].locked]
        /\ [v \in Users |-> bal'[v].lockedWithMultiplier]
             = [v \in Users |-> bal[v].lockedWithMultiplier]
    BY DEF LocksKept
  <2> QED  BY <2>1 DEF LockInv, LocksKept, SuppliesMatch, supplyVars
<1>3. LocksSorted'
  BY DEF LockInv, LocksKept, LocksSorted
<1> QED  BY <1>1, <1>2, <1>3

\* With no locks there is nothing to add up.
LEMMA InitLockInv == Init => LockInv
<1> SUFFICES ASSUME Init PROVE LockInv
  OBVIOUS
<1>1. \A u \in Users : userLocks[u] = <<>> /\ bal[u].locked = 0
                       /\ bal[u].lockedWithMultiplier = 0
  BY DEF Init
<1>2. Sum(Amounts(<<>>)) = 0 /\ Sum(Weighted(<<>>)) = 0 /\ Sorted(<<>>)
  <2>1. Len(<<>>) = 0 /\ Len(Amounts(<<>>)) = 0 /\ Len(Weighted(<<>>)) = 0
    BY DEF Amounts, Weighted
  <2>2. Sorted(<<>>)
    BY <2>1 DEF Sorted
  <2> QED  BY <2>1, <2>2, SumToZero DEF Sum
<1>3. LocksMatchBalances
  BY <1>1, <1>2 DEF LocksMatchBalances
<1>4. SuppliesMatch
  <2>1. /\ [u \in Users |-> bal[u].locked] = [u \in Users |-> 0]
        /\ [u \in Users |-> bal[u].lockedWithMultiplier] = [u \in Users |-> 0]
    BY <1>1
  <2>2. lockedSupply = 0 /\ lockedSupplyWithMultiplier = 0 /\ stakeHeld = 0
    BY DEF Init
  <2> QED  BY <2>1, <2>2, SumOverUsersZero DEF SuppliesMatch
<1>5. LocksSorted
  BY <1>1, <1>2, LocksSortedParts
<1> QED  BY <1>3, <1>4, <1>5, InitInv DEF LockInv

\* LockInv is inductive.
LEMMA NextLockInv == LockInv /\ [Next]_vars => LockInv'
<1> SUFFICES ASSUME LockInv, [Next]_vars PROVE LockInv'
  OBVIOUS
<1>1. Inv /\ Inv'
  BY NextInv DEF LockInv
<1>2. LocksMatchBalances' /\ SuppliesMatch' /\ LocksSorted'
  BY <1>1, LockSteps, MovedKeepsInv, KeptKeepsInv
<1> QED  BY <1>1, <1>2 DEF LockInv

\* LockInv holds of every reachable state.
THEOREM SpecLockInv == Spec => []LockInv
BY InitLockInv, NextLockInv, PTL DEF Spec

\* Balances.locked and lockedWithMultiplier are the sums over the user's lock list,
\* whatever merges, insertions, partial cleanings and relocks happened.
THEOREM SpecLocksMatchBalances == Spec => []LocksMatchBalances
<1>1. LockInv => LocksMatchBalances
  BY DEF LockInv
<1> QED  BY <1>1, SpecLockInv, PTL

\* The supplies that rewards are divided by are the sums of the users' balances,
\* and the contract holds exactly the staking tokens it has locked.
THEOREM SpecSuppliesMatch == Spec => []SuppliesMatch
<1>1. LockInv => SuppliesMatch
  BY DEF LockInv
<1> QED  BY <1>1, SpecLockInv, PTL

\* Lock lists stay ordered by unlock time whatever lock types the owner installs,
\* so that the loop over expired locks may stop at the first unexpired one.
THEOREM SpecLocksSorted == Spec => []LocksSorted
<1>1. LockInv => LocksSorted
  BY DEF LockInv
<1> QED  BY <1>1, SpecLockInv, PTL

-----------------------------------------------------------------------------
(* What a step may never do to locks *)

\* At any instant no step reduces a user's unexpired locks.
LEMMA LockedUntilExpiryStep ==
  ASSUME LockInv, [Next]_vars, now' = now
  PROVE  \A u \in Users : Unexpired(u)' >= Unexpired(u)
<1>1. Inv /\ Inv'
  BY NextInv DEF LockInv
<1>2. \A s \in Seq(Lock) :
        [i \in 1..Len(s) |-> IF s[i].unlockTime <= now THEN 0 ELSE s[i].amount]
          = Values(UnexpiredAt(now), s)
        /\ Sum(Values(UnexpiredAt(now), s)) \in Nat
  BY SumsAreValues, WorthTypes, ValuesNat
<1>3. \A u \in Users : userLocks[u] \in Seq(Lock) /\ userLocks'[u] \in Seq(Lock)
  BY <1>1 DEF Inv, TypeOK
<1>4. \A u \in Users : Unexpired(u) = Sum(Values(UnexpiredAt(now), userLocks[u]))
  BY <1>2, <1>3 DEF Unexpired, Expired
<1>5. \A u \in Users : Unexpired(u)' = Sum(Values(UnexpiredAt(now), userLocks'[u]))
  <2>1. \A u \in Users :
          Unexpired(u)' = Sum([i \in 1..Len(userLocks'[u]) |->
                                 IF userLocks'[u][i].unlockTime <= now THEN 0
                                 ELSE userLocks'[u][i].amount])
    BY DEF Unexpired, Expired
  <2> QED  BY <1>2, <1>3, <2>1
<1>6. CASE LocksKept
  BY <1>2, <1>3, <1>4, <1>5, <1>6 DEF LocksKept
<1>7. ASSUME NEW u \in Users, NEW t, NEW a, NEW w, LocksMoved(u, t, a, w)
      PROVE  \A v \in Users : Unexpired(v)' >= Unexpired(v)
  <2>1. /\ userLocks' = [userLocks EXCEPT ![u] = t]
        /\ Sum(Values(UnexpiredAt(now), t)) >= Sum(Values(UnexpiredAt(now), userLocks[u]))
    BY <1>7 DEF LocksMoved
  <2>2. userLocks \in [Users -> Seq(Lock)]
    BY <1>1 DEF Inv, TypeOK
  <2>3. \A v \in Users :
          \/ v = u /\ userLocks'[v] = t
          \/ userLocks'[v] = userLocks[v]
    BY <2>1, <2>2
  <2>4. \A v \in Users : Sum(Values(UnexpiredAt(now), userLocks'[v]))
                           >= Sum(Values(UnexpiredAt(now), userLocks[v]))
    BY <1>2, <1>3, <2>1, <2>3
  <2> QED  BY <1>4, <1>5, <2>4
<1> QED  BY <1>1, <1>6, <1>7, LockSteps

\* What is locked stays locked until it expires: no transaction of anybody, a
\* relock into another lock type included, takes from a user's unexpired locks.
THEOREM SpecLockedUntilExpiry == Spec => LockedUntilExpiry
<1>1. LockInv /\ [Next]_vars
        => [now' = now => \A u \in Users : Unexpired(u)' >= Unexpired(u)]_vars
  BY LockedUntilExpiryStep
<1> QED  BY <1>1, SpecLockInv, PTL DEF Spec, LockedUntilExpiry

\* After a bounty on u, no expired lock of u is left.
LEMMA BountyStep ==
  ASSUME LockInv, NEW u \in Users, ClaimBounty(u), DaysOrMore
  PROVE  unlockable(u)' = 0
<1>1. Inv /\ userLocks \in [Users -> Seq(Lock)] /\ userLocks[u] \in Seq(Lock)
      /\ Len(userLocks[u]) \in Nat
  BY LimitsAreNat DEF LockInv, Inv, TypeOK
<1>2. Sorted(userLocks[u])
  BY LocksSortedParts DEF LockInv
<1>3. Len(userLocks[u]) >= Len(userLocks[u])
  BY <1>1
<1>4. WithdrawExpiredLocksFor(Stranger, u, FALSE, Len(userLocks[u]))
  BY DEF ClaimBounty
<1>5. PICK t, a, w : LocksMoved(u, t, a, w) /\ Sum(Values(ExpiredAt(now), t)) = 0
  BY <1>1, <1>2, <1>3, <1>4, WithdrawMoves
<1>6. userLocks'[u] = t /\ t \in Seq(Lock) /\ now' = now
  BY <1>1, <1>5 DEF LocksMoved
<1>7. unlockable(u)' = Sum([i \in 1..Len(t) |-> IF t[i].unlockTime <= now THEN t[i].amount
                                               ELSE 0])
  BY <1>6 DEF unlockable, Expired
<1> QED  BY <1>5, <1>6, <1>7, SumsAreValues

\* A bounty on a user's expired locks is paid once: its execution leaves none, be
\* they withdrawn or relocked, when every lock type lasts a day or more.
THEOREM SpecBountyPaidOnce == Spec => BountyPaidOnce
<1> DEFINE Once == \A u \in Users :
                     /\ unlockable(u)' > 0
                     /\ \A i \in 1..Len(lockTypes) : lockTypes[i].period >= DAY
                     => ~ClaimBounty(u)
<1>1. LockInv => Once
  BY BountyStep DEF DaysOrMore
<1>2. LockInv /\ [Next]_vars => [Once]_vars
  BY <1>1
<1> HIDE DEF Once
<1>3. Spec => [][Once]_vars
  BY <1>2, SpecLockInv, PTL DEF Spec
<1> QED  BY <1>3 DEF BountyPaidOnce, Once

-----------------------------------------------------------------------------
(* The order of the entries *)

\* What withdraw() leaves of an ordered list is ordered: the last entry it takes
\* from keeps its unlock time.
LEMMA DrainSorted ==
  ASSUME NEW es \in Seq(Earning), NEW r \in Nat, now \in Nat, Vesting(es),
         0 < r, r <= Sum(Nets(es)), Sorted(es)
  PROVE  Sorted(Drain(es, r).earnings)
<1>1. PICK k \in 1..Len(es) :
        k = CHOOSE i \in 1..Len(es) :
              SumTo(Nets(es), i - 1) < r /\ r <= SumTo(Nets(es), i)
  BY LastEntry
<1> DEFINE whole == SumTo(Nets(es), k) = r
           required == IF whole THEN es[k].amount
                       ELSE ((r - SumTo(Nets(es), k - 1)) * WHOLE)
                              \div (WHOLE - PenaltyFactor(es[k]))
           rest == SubSeq(es, k + 1, Len(es))
           left == [es[k] EXCEPT !.amount = @ - required]
<1>2. Drain(es, r).earnings = IF whole THEN rest ELSE <<left>> \o rest
  BY <1>1 DEF Drain
<1>3. es[k] \in Earning /\ Len(es) \in Nat /\ k \in 0..Len(es)
  BY ElementOfSeq, LenProperties
<1>4. /\ rest \in Seq(Earning) /\ Len(rest) = Len(es) - k
      /\ \A i \in 1..(Len(es) - k) : rest[i] = es[k + i]
      /\ Sorted(rest)
  BY <1>3, CutTypes, SortedCut, EntriesHaveTime
<1>5. /\ Drain(es, r).earnings \in Seq(Earning)
      /\ Drain(es, r).earnings = IF whole THEN rest ELSE <<left>> \o rest
  BY <1>2, DrainEffect
<1>6. left.unlockTime = es[k].unlockTime
  BY <1>3 DEF Earning
<1> HIDE DEF left, rest, whole, required
<1>7. CASE ~whole
  <2>1. \A i \in 1..Len(rest) : left.unlockTime <= rest[i].unlockTime
    <3> SUFFICES ASSUME NEW i \in 1..(Len(es) - k)
                 PROVE  left.unlockTime <= rest[i].unlockTime
      BY <1>4
    <3>1. k + i \in 1..Len(es) /\ k <= k + i
      BY <1>3
    <3>2. es[k].unlockTime <= es[k + i].unlockTime
      BY <3>1 DEF Sorted
    <3> QED  BY <1>4, <1>6, <3>2
  <2>2. \A i \in 1..Len(rest) : rest[i].unlockTime \in Nat
    BY <1>4, ElementOfSeq, EntriesHaveTime DEF HasTime
  <2>3. left.unlockTime \in Nat
    BY <1>3, <1>6 DEF Earning
  <2> DEFINE c == <<left>> \o rest
  <2>4. /\ Len(c) = 1 + Len(rest)
        /\ c[1] = left /\ \A i \in 1..Len(rest) : c[i + 1] = rest[i]
    <3>1. Len(rest) \in Nat
      BY <1>4, LenProperties
    <3> DEFINE S == Earning \cup {left}
               one == <<left>>
    <3>2. one \in Seq(S) /\ Len(one) = 1 /\ one[1] = left
      OBVIOUS
    <3>3. rest \in Seq(S)
      BY <1>4, SeqMonotonic
    <3> HIDE DEF one, S, c
    <3>4. /\ Len(one \o rest) = 1 + Len(rest)
          /\ \A i \in 1..(1 + Len(rest)) :
               (one \o rest)[i] = IF i <= 1 THEN one[i] ELSE rest[i - 1]
      <4>1. /\ Len(one \o rest) = Len(one) + Len(rest)
            /\ \A i \in 1..(Len(one) + Len(rest)) :
                 (one \o rest)[i] = IF i <= Len(one) THEN one[i] ELSE rest[i - Len(one)]
        BY <3>2, <3>3, ConcatProperties, Zenon
      <4> QED  BY <3>2, <4>1
    <3>5. /\ 1 \in 1..(1 + Len(rest))
          /\ \A i \in 1..Len(rest) :
               i + 1 \in 1..(1 + Len(rest)) /\ ~(i + 1 <= 1) /\ (i + 1) - 1 = i
      BY <3>1
    <3>6. c = one \o rest
      BY DEF one, c
    <3> QED  BY <3>2, <3>4, <3>5, <3>6
  <2> HIDE DEF c
  <2>5. Sorted(c)
    <3> SUFFICES ASSUME NEW i \in 1..(1 + Len(rest)), NEW j \in 1..(1 + Len(rest)), i <= j
                 PROVE  c[i].unlockTime <= c[j].unlockTime
      BY <2>4 DEF Sorted
    <3>0. Len(rest) \in Nat
      BY <1>4, LenProperties
    <3>1. CASE i = 1 /\ j = 1
      BY <2>3, <2>4, <3>1
    <3>2. CASE i = 1 /\ j # 1
      <4>1. j - 1 \in 1..Len(rest) /\ (j - 1) + 1 = j
        BY <3>0, <3>2
      <4>2. c[j] = rest[j - 1] /\ c[i] = left
        BY <2>4, <3>2, <4>1
      <4> QED  BY <2>1, <4>1, <4>2
    <3>3. CASE i # 1
      <4>1. /\ j - 1 \in 1..Len(rest) /\ (j - 1) + 1 = j
            /\ i - 1 \in 1..Len(rest) /\ (i - 1) + 1 = i /\ i - 1 <= j - 1
        BY <3>0, <3>3
      <4>2. c[j] = rest[j - 1] /\ c[i] = rest[i - 1]
        BY <2>4, <4>1
      <4> QED  BY <1>4, <4>1, <4>2 DEF Sorted
    <3> QED  BY <3>1, <3>2, <3>3
  <2> QED  BY <1>5, <1>7, <2>5 DEF c
<1> QED  BY <1>4, <1>5, <1>7

\* Removing an entry keeps the others in order.
LEMMA RemoveSorted ==
  ASSUME NEW es \in Seq(Earning), NEW j \in 1..Len(es), Sorted(es)
  PROVE  Sorted(RemoveEntry(es, j))
<1> DEFINE before == SubSeq(es, 1, j - 1)
           after == SubSeq(es, j + 1, Len(es))
<1>1. Len(es) \in Nat /\ j - 1 \in 0..Len(es) /\ j \in 0..Len(es)
  BY LenProperties
<1>2. /\ before \in Seq(Earning) /\ Len(before) = j - 1 /\ Sorted(before)
      /\ \A i \in 1..(j - 1) : before[i] = es[i]
  BY <1>1, CutTypes, SortedCut, EntriesHaveTime
<1>3. /\ after \in Seq(Earning) /\ Len(after) = Len(es) - j /\ Sorted(after)
      /\ \A i \in 1..(Len(es) - j) : after[i] = es[j + i]
  BY <1>1, CutTypes, SortedCut, EntriesHaveTime
<1>4. RemoveEntry(es, j) = before \o after
  BY DEF RemoveEntry
<1> HIDE DEF before, after
<1>5. \A i \in 1..Len(before), h \in 1..Len(after) :
        before[i].unlockTime <= after[h].unlockTime
  <2> SUFFICES ASSUME NEW i \in 1..(j - 1), NEW h \in 1..(Len(es) - j)
               PROVE  before[i].unlockTime <= after[h].unlockTime
    BY <1>2, <1>3
  <2>1. i \in 1..Len(es) /\ j + h \in 1..Len(es) /\ i <= j + h
    BY <1>1
  <2>2. es[i].unlockTime <= es[j + h].unlockTime
    BY <2>1 DEF Sorted
  <2> QED  BY <1>2, <1>3, <2>2
<1>6. Sorted(before \o after)
  BY <1>2, <1>3, <1>5, EntriesHaveTime, SortedConcat
<1> QED  BY <1>4, <1>6

\* vestTokens() merges into the last entry or appends one that unlocks last.
LEMMA VestedSorted ==
  ASSUME NEW es \in Seq(Earning), NEW a \in Nat, now \in Nat, Vesting(es), Sorted(es)
  PROVE  /\ Len(es) > 0 => Sorted([es EXCEPT ![Len(es)].amount = @ + a])
         /\ Sorted(Append(es, [amount |-> a, unlockTime |-> now + vestDuration]))
<1>1. Len(es) \in Nat /\ \A i \in 1..Len(es) : es[i] \in Earning
  BY ElementOfSeq, LenProperties
<1>2. ASSUME Len(es) > 0
      PROVE  Sorted([es EXCEPT ![Len(es)].amount = @ + a])
  <2> DEFINE n == Len(es)
             t == [es EXCEPT ![n].amount = @ + a]
  <2>1. /\ Len(t) = Len(es)
        /\ \A i \in 1..Len(es) : t[i].unlockTime = es[i].unlockTime
    BY <1>1, <1>2 DEF Earning
  <2> HIDE DEF t
  <2> QED  BY <2>1 DEF Sorted, t
<1> DEFINE e == [amount |-> a, unlockTime |-> now + vestDuration]
           t == Append(es, e)
<1>3. /\ Len(t) = Len(es) + 1
      /\ \A i \in 1..Len(es) : t[i] = es[i]
      /\ t[Len(es) + 1].unlockTime = now + vestDuration
  BY <1>1
<1> HIDE DEF t
<1>4. Sorted(t)
  <2> SUFFICES ASSUME NEW i \in 1..(Len(es) + 1), NEW j \in 1..(Len(es) + 1), i <= j
               PROVE  t[i].unlockTime <= t[j].unlockTime
    BY <1>3 DEF Sorted
  <2>1. CASE j \in 1..Len(es)
    <3>1. i \in 1..Len(es)
      BY <1>1, <2>1
    <3> QED  BY <1>3, <2>1, <3>1 DEF Sorted
  <2>2. CASE j = Len(es) + 1 /\ i \in 1..Len(es)
    BY <1>3, <2>2 DEF Vesting
  <2>3. CASE j = Len(es) + 1 /\ i = Len(es) + 1
    BY <1>3, <2>3, ConstantsAssumption
  <2> QED  BY <1>1, <2>1, <2>2, <2>3
<1> QED  BY <1>2, <1>4 DEF t

-----------------------------------------------------------------------------
(* What a transaction does to PRNT *)

\* What a user is owed, and what the contract holds besides the lockers' reward.
owed(u) == bal[u].unlocked + bal[u].earned
Reserve == held[Prnt] - rewardData[Prnt].balance

\* The reserve is an integer.
LEMMA ReserveInt == (TypeOK => Reserve \in Int) /\ (TypeOK' => Reserve' \in Int)
<1>1. Prnt \in Tokens
  BY ConstantsAssumption
<1>2. ASSUME TypeOK PROVE Reserve \in Int
  <2>1. held[Prnt] \in Nat /\ rewardData[Prnt] \in Reward
    BY <1>1, <1>2 DEF TypeOK
  <2> QED  BY <2>1 DEF Reserve, Reward
<1>3. ASSUME TypeOK' PROVE Reserve' \in Int
  <2>1. held'[Prnt] \in Nat /\ rewardData'[Prnt] \in Reward
    BY <1>1, <1>3 DEF TypeOK
  <2> QED  BY <2>1 DEF Reserve, Reward
<1> QED  BY <1>2, <1>3

\* Forwarding and paying rewards leaves the reserve alone: only what is paid out
\* of vesting leaves it.
LEMMA SettleReserve ==
  ASSUME TypeOK, NEW u \in Users, NEW fwd, NEW pay, NEW out \in Nat,
         Settle(u, fwd, pay, out)
  PROVE  Reserve' = Reserve - out
<1> DEFINE forwarded == IF Prnt \in fwd THEN Forwarded(Prnt) ELSE 0
           present == held[Prnt] + forwarded - out
           data == IF Prnt \in fwd THEN Noticed(Prnt, present) ELSE Updated(Prnt)
           due == IF Prnt \in Listed THEN Earned(u, Prnt) ELSE rewards[u][Prnt]
           payout == IF Prnt \in pay THEN due \div PRECISION ELSE 0
<1>0. Prnt \in Tokens /\ held[Prnt] \in Nat /\ rewardData[Prnt] \in Reward
      /\ rewardData[Prnt].balance \in Nat /\ CanUpdateReward(u)
      /\ PRECISION \in Nat /\ PRECISION # 0
  BY ConstantsAssumption DEF TypeOK, Reward, Settle
<1>1. /\ held'[Prnt] = present - payout
      /\ rewardData'[Prnt] = [data EXCEPT !.balance = @ - payout]
      /\ held[Prnt] >= out
  BY <1>0 DEF Settle
<1>2. forwarded \in Nat
  BY <1>0, ForwardedNat DEF TypeOK
<1>3. present \in Nat
  BY <1>0, <1>1, <1>2
<1>4. due \in Nat
  BY <1>0, RewardPerTokenNat DEF TypeOK
<1> HIDE DEF present, due
<1>5. payout \in Nat
  BY <1>0, <1>4, DivNat
<1>6. data \in Reward /\ data.balance = rewardData[Prnt].balance + forwarded
  <2>1. Updated(Prnt) \in Reward /\ Updated(Prnt).balance = rewardData[Prnt].balance
    <3>1. Updated(Prnt) \in Reward
      BY <1>0, UpdatedType
    <3>2. Updated(Prnt).balance = rewardData[Prnt].balance
      BY <1>0 DEF Updated, Reward
    <3> QED  BY <3>1, <3>2
  <2>2. Noticed(Prnt, present) \in Reward
    BY <1>0, <1>3, NoticedType
  <2>3. CASE Prnt \in fwd
    <3>1. Noticed(Prnt, present) =
            IF Forwarded(Prnt) > 0 THEN Notify(Updated(Prnt), Forwarded(Prnt))
            ELSE Updated(Prnt)
      BY DEF Noticed
    <3>2. Notify(Updated(Prnt), Forwarded(Prnt)).balance
            = Updated(Prnt).balance + Forwarded(Prnt)
      BY <2>1 DEF Notify, Reward
    <3>3. forwarded = Forwarded(Prnt) /\ data = Noticed(Prnt, present)
      BY <2>3
    <3>4. ~(Forwarded(Prnt) > 0) => forwarded = 0
      BY <1>2, <3>3
    <3> HIDE DEF forwarded, data
    <3> QED  BY <1>0, <1>2, <2>1, <2>2, <3>1, <3>2, <3>3, <3>4
  <2>4. CASE Prnt \notin fwd
    BY <1>0, <2>1, <2>4
  <2> QED  BY <2>3, <2>4
<1> HIDE DEF data, payout, forwarded
<1>7. rewardData'[Prnt].balance = rewardData[Prnt].balance + forwarded - payout
  <2>1. [data EXCEPT !.balance = @ - payout].balance = data.balance - payout
    BY <1>6 DEF Reward
  <2>2. data.balance - payout = rewardData[Prnt].balance + forwarded - payout
    BY <1>0, <1>2, <1>5, <1>6
  <2> QED  BY <1>1, <2>1, <2>2
<1> QED  BY <1>0, <1>1, <1>2, <1>5, <1>7 DEF Reserve, present

\* Steps on vesting: user u's entries become t, ordered if they were, and the
\* contract's PRNT reserve moves with what u is owed.
VestingMoved(u, t, d) ==
  /\ userEarnings' = [userEarnings EXCEPT ![u] = t]
  /\ Sorted(userEarnings[u]) => Sorted(t)
  /\ d \in Int
  /\ owed(u)' = owed(u) + d
  /\ \A v \in Users \ {u} : owed(v)' = owed(v)
  /\ Reserve' = Reserve + d

\* No entry and nobody's balance changes, nor does the reserve, unless PRNT's
\* reward is removed: then what was notified of it becomes reserve.
VestingKept ==
  /\ userEarnings' = userEarnings
  /\ \A v \in Users : owed(v)' = owed(v)
  /\ \/ Reserve' = Reserve
     \/ /\ Prnt \in RemovableRewards
        /\ Reserve' >= Reserve

\* The step of VestTokens.
LEMMA VestTokensMoves ==
  ASSUME Inv, NEW u \in Users, NEW amount \in VestAmounts, NEW withPenalty \in BOOLEAN,
         VestTokens(u, amount, withPenalty)
  PROVE  \E t, d : VestingMoved(u, t, d)
<1> DEFINE es == userEarnings[u]
           n == Len(es)
           merged == [es EXCEPT ![n].amount = @ + amount]
           longer == Append(es, [amount |-> amount, unlockTime |-> now + vestDuration])
<1>1. /\ bal \in [Users -> Balances] /\ userEarnings \in [Users -> Seq(Earning)]
      /\ bal[u] \in Balances /\ es \in Seq(Earning) /\ now \in Nat /\ Vesting(es)
      /\ held \in [Tokens -> Nat] /\ rewardData[Prnt].balance \in Nat /\ Prnt \in Tokens
  BY UserParts, ConstantsAssumption DEF UserOK, TypeOK, Reward
<1>2. amount \in Nat
  BY ConstantsAssumption
<1>3. Reserve' = Reserve + amount
  <2>1. held' = [held EXCEPT ![Prnt] = @ + amount] /\ rewardData' = rewardData
    BY DEF VestTokens, rewardVars
  <2> QED  BY <1>1, <1>2, <2>1 DEF Reserve
<1>4. /\ owed(u)' = owed(u) + amount
      /\ \A v \in Users \ {u} : owed(v)' = owed(v)
  <2>1. \/ bal' = [bal EXCEPT ![u].total = @ + amount, ![u].earned = @ + amount]
        \/ bal' = [bal EXCEPT ![u].total = @ + amount, ![u].unlocked = @ + amount]
    BY DEF VestTokens
  <2>2. \/ /\ bal'[u].earned = bal[u].earned + amount
           /\ bal'[u].unlocked = bal[u].unlocked
        \/ /\ bal'[u].unlocked = bal[u].unlocked + amount
           /\ bal'[u].earned = bal[u].earned
    BY <1>1, <2>1 DEF Balances
  <2>3. \A v \in Users \ {u} : bal'[v] = bal[v]
    BY <1>1, <2>1
  <2>4. bal[u].earned \in Nat /\ bal[u].unlocked \in Nat
    BY <1>1 DEF Balances
  <2>5. bal'[u].unlocked + bal'[u].earned = (bal[u].unlocked + bal[u].earned) + amount
    BY <1>2, <2>2, <2>4
  <2> QED  BY <2>3, <2>5 DEF owed
<1>5. Sorted(es) => (n > 0 => Sorted(merged)) /\ Sorted(longer)
  BY <1>1, <1>2, VestedSorted
<1>6. \E t : userEarnings' = [userEarnings EXCEPT ![u] = t] /\ (Sorted(es) => Sorted(t))
  <2> DEFINE sameDay == /\ n > 0
                        /\ es[n].unlockTime \div DAY
                             = (now \div DAY) + (vestDuration \div DAY)
  <2>1. CASE withPenalty
    <3>1. userEarnings' = [userEarnings EXCEPT ![u] =
                             IF sameDay THEN merged ELSE longer]
      BY <2>1 DEF VestTokens
    <3>2. sameDay => n > 0
      OBVIOUS
    <3> HIDE DEF sameDay, merged, longer, n, es
    <3>3. CASE sameDay
      BY <1>5, <3>1, <3>2, <3>3
    <3>4. CASE ~sameDay
      BY <1>5, <3>1, <3>4
    <3> QED  BY <3>3, <3>4
  <2>2. CASE ~withPenalty
    <3>1. userEarnings' = [userEarnings EXCEPT ![u] = es]
      BY <1>1, <2>2 DEF VestTokens
    <3> QED  BY <3>1
  <2> QED  BY <2>1, <2>2
<1>7. PICK t : userEarnings' = [userEarnings EXCEPT ![u] = t] /\ (Sorted(es) => Sorted(t))
  BY <1>6
<1>8. VestingMoved(u, t, amount)
  BY <1>2, <1>3, <1>4, <1>7 DEF VestingMoved
<1> QED  BY <1>8

\* What the transactions that take vested PRNT out have in common.
LEMMA LeavingMoves ==
  ASSUME Inv, NEW u \in Users, NEW fwd, NEW pay, NEW out \in Nat, Settle(u, fwd, pay, out),
         NEW t, userEarnings' = [userEarnings EXCEPT ![u] = t],
         Sorted(userEarnings[u]) => Sorted(t),
         NEW unlocked \in Nat, NEW earned \in Nat, NEW total,
         bal' = [bal EXCEPT ![u].total = total, ![u].unlocked = unlocked,
                            ![u].earned = earned],
         owed(u) = unlocked + earned + out
  PROVE  VestingMoved(u, t, -out)
<1>1. bal \in [Users -> Balances] /\ TypeOK
  BY UserParts
<1>2. /\ bal'[u].unlocked = unlocked /\ bal'[u].earned = earned
      /\ \A v \in Users \ {u} : bal'[v] = bal[v]
  BY <1>1 DEF Balances
<1>3. owed(u)' = owed(u) + (-out)
  <2>1. owed(u)' = unlocked + earned
    BY <1>2 DEF owed
  <2> QED  BY <2>1
<1>4. \A v \in Users \ {u} : owed(v)' = owed(v)
  BY <1>2 DEF owed
<1>5. Reserve' = Reserve + (-out)
  <2>1. Reserve' = Reserve - out
    BY <1>1, SettleReserve
  <2>2. Reserve \in Int
    BY <1>1, ReserveInt
  <2> QED  BY <2>1, <2>2
<1>6. -out \in Int
  OBVIOUS
<1> QED  BY <1>3, <1>4, <1>5, <1>6 DEF VestingMoved

\* The step of withdraw(), from unlocked balances or from the oldest entries.
LEMMA WithdrawVestingMoves ==
  ASSUME Inv, NEW u \in Users, NEW amount \in WithdrawAmounts, Withdraw(u, amount)
  PROVE  \E t, d : VestingMoved(u, t, d)
<1>1. /\ bal \in [Users -> Balances] /\ userEarnings \in [Users -> Seq(Earning)]
      /\ bal[u] \in Balances /\ userEarnings[u] \in Seq(Earning)
      /\ UserOK(bal[u], userEarnings[u]) /\ now \in Nat
  BY UserParts
<1>2. amount \in Nat
  BY ConstantsAssumption
<1>3. /\ bal[u].total \in Nat /\ bal[u].unlocked \in Nat /\ bal[u].earned \in Nat
      /\ Vesting(userEarnings[u]) /\ bal[u].earned = Sum(Amounts(userEarnings[u]))
  BY <1>1 DEF Balances, UserOK
<1>4. CASE amount <= bal[u].unlocked
  <2> DEFINE total == bal[u].total - amount
             unlocked == bal[u].unlocked - amount
             earned == bal[u].earned
  <2>1. /\ bal' = [bal EXCEPT ![u].unlocked = @ - amount, ![u].total = @ - amount]
        /\ userEarnings' = userEarnings
        /\ Settle(u, {}, {}, amount)
    BY <1>4 DEF Withdraw
  <2>2. bal' = [bal EXCEPT ![u].total = total, ![u].unlocked = unlocked,
                           ![u].earned = earned]
    BY <1>1, <2>1 DEF Balances
  <2>3. userEarnings' = [userEarnings EXCEPT ![u] = userEarnings[u]]
    BY <1>1, <2>1
  <2>4. unlocked \in Nat /\ earned \in Nat /\ owed(u) = unlocked + earned + amount
    BY <1>2, <1>3, <1>4 DEF owed
  <2> HIDE DEF total, unlocked, earned
  <2> QED  BY <1>2, <2>1, <2>2, <2>3, <2>4, LeavingMoves
<1>5. CASE ~(amount <= bal[u].unlocked)
  <2> DEFINE es == userEarnings[u]
             remaining == amount - bal[u].unlocked
             taken == Drain(es, remaining).taken
             penalty == Drain(es, remaining).penalty
             left == Drain(es, remaining).earnings
             earned == bal[u].earned - taken
             total == bal[u].total - amount - penalty
             out == amount + penalty
  <2>1. /\ Sum(Nets(es)) >= remaining
        /\ bal[u].earned >= taken
        /\ bal' = [bal EXCEPT ![u].unlocked = 0, ![u].earned = @ - taken,
                              ![u].total = @ - amount - penalty]
        /\ userEarnings' = [userEarnings EXCEPT ![u] = left]
        /\ Settle(u, {}, {}, out)
    BY <1>5 DEF Withdraw
  <2>2. bal' = [bal EXCEPT ![u].total = total, ![u].unlocked = 0, ![u].earned = earned]
    BY <1>1, <2>1 DEF Balances
  <2>3. remaining \in Nat /\ 0 < remaining /\ amount = bal[u].unlocked + remaining
    BY <1>2, <1>3, <1>5
  <2>4. es \in Seq(Earning) /\ Vesting(es) /\ es = userEarnings[u]
    BY <1>1, <1>3
  <2> HIDE DEF es, remaining
  <2>5. remaining <= Sum(Nets(es))
    <3>1. NatsTo(Nets(es), Len(es)) /\ Sum(Nets(es)) = SumTo(Nets(es), Len(es))
          /\ Len(es) \in Nat
      BY <1>1, <2>4, EntryParts, LenProperties
    <3>2. Sum(Nets(es)) \in Nat
      BY <3>1, SumToNat
    <3> QED  BY <2>1, <2>3, <3>2
  <2>6. /\ taken \in Nat /\ penalty \in Nat /\ taken = remaining + penalty
        /\ Sorted(es) => Sorted(left)
    BY <1>1, <2>3, <2>4, <2>5, DrainEffect, DrainSorted
  <2> HIDE DEF taken, penalty, left
  <2>7. /\ earned \in Nat /\ out \in Nat
        /\ owed(u) = 0 + earned + out
    <3>1. owed(u) = bal[u].unlocked + bal[u].earned
      BY DEF owed
    <3> QED  BY <1>2, <1>3, <2>1, <2>3, <2>6, <3>1
  <2> HIDE DEF earned, total, out
  <2>8. Sorted(userEarnings[u]) => Sorted(left)
    BY <2>4, <2>6
  <2>9. 0 \in Nat
    OBVIOUS
  <2> QED  BY <2>1, <2>2, <2>7, <2>8, <2>9, LeavingMoves
<1> QED  BY <1>4, <1>5

\* The step of individualEarlyExit().
LEMMA IndividualEarlyExitMoves ==
  ASSUME Inv, NEW u \in Users, NEW unlockTime, NEW claimRewards,
         IndividualEarlyExit(u, unlockTime, claimRewards)
  PROVE  \E t, d : VestingMoved(u, t, d)
<1> DEFINE es == userEarnings[u]
           first(j) == /\ es[j].unlockTime = unlockTime
                       /\ \A h \in 1..(j - 1) : es[h].unlockTime # unlockTime
           i == CHOOSE j \in 1..Len(es) : first(j)
           a == es[i].amount
           left == RemoveEntry(es, i)
           total == bal[u].total - a
           unlocked == bal[u].unlocked
           earned == bal[u].earned - a
           claimed == ClaimSet(claimRewards)
<1>1. /\ bal \in [Users -> Balances] /\ bal[u] \in Balances /\ es \in Seq(Earning)
      /\ bal[u].total \in Nat /\ bal[u].unlocked \in Nat /\ bal[u].earned \in Nat
  BY UserParts DEF Balances
<1>2. /\ \E j \in 1..Len(es) : es[j].unlockTime = unlockTime
      /\ bal[u].earned >= a
      /\ bal' = [bal EXCEPT ![u].total = @ - a, ![u].earned = @ - a]
      /\ userEarnings' = [userEarnings EXCEPT ![u] = left]
      /\ Settle(u, claimed, claimed, a)
  BY DEF IndividualEarlyExit
<1> HIDE DEF i, left
<1>3. bal' = [bal EXCEPT ![u].total = total, ![u].unlocked = unlocked,
                         ![u].earned = earned]
  <2> HIDE DEF a
  <2> QED  BY <1>1, <1>2 DEF Balances
<1>4. i \in 1..Len(es)
  <2> DEFINE T == {j \in 1..Len(es) : es[j].unlockTime = unlockTime}
  <2>1. T \subseteq Nat /\ T # {} /\ Len(es) \in Nat
    <3>1. T # {}
      BY <1>2
    <3>2. Len(es) \in Nat
      BY <1>1, LenProperties
    <3> QED  BY <3>1, <3>2
  <2>2. PICK m \in T : \A k \in T : m <= k
    <3> HIDE DEF T
    <3> QED  BY <2>1, LeastNat
  <2>3. m \in 1..Len(es) /\ es[m].unlockTime = unlockTime
    OBVIOUS
  <2>4. \A h \in 1..(m - 1) : h \in 1..Len(es) /\ ~(m <= h)
    BY <2>1, <2>3
  <2>5. first(m)
    BY <2>2, <2>3, <2>4
  <2> HIDE DEF first, es
  <2> QED  BY <2>3, <2>5 DEF i
<1>5. a \in Nat
  <2>1. es[i] \in Earning
    BY <1>1, <1>4, ElementOfSeq
  <2> QED  BY <2>1 DEF Earning
<1>6. Sorted(userEarnings[u]) => Sorted(left)
  <2> HIDE DEF es
  <2>1. Sorted(es) => Sorted(left)
    BY <1>1, <1>4, RemoveSorted DEF left
  <2> QED  BY <2>1 DEF es
<1> HIDE DEF es, a
<1>7. unlocked \in Nat /\ earned \in Nat /\ owed(u) = unlocked + earned + a
  BY <1>1, <1>2, <1>5 DEF owed
<1> HIDE DEF total, unlocked, earned, claimed
<1> QED  BY <1>2, <1>3, <1>5, <1>6, <1>7, LeavingMoves

\* The step of exit().
LEMMA ExitMoves ==
  ASSUME Inv, NEW u \in Users, NEW claimRewards, Exit(u, claimRewards)
  PROVE  \E t, d : VestingMoved(u, t, d)
<1> DEFINE leaving == bal[u].unlocked + bal[u].earned
           total == bal[u].total - leaving
           claimed == ClaimSet(claimRewards)
<1>1. /\ bal \in [Users -> Balances] /\ bal[u] \in Balances
      /\ bal[u].unlocked \in Nat /\ bal[u].earned \in Nat
  BY UserParts DEF Balances
<1>2. /\ bal' = [bal EXCEPT ![u].total = @ - leaving,
                            ![u].unlocked = 0, ![u].earned = 0]
      /\ userEarnings' = [userEarnings EXCEPT ![u] = <<>>]
      /\ Settle(u, claimed, claimed, leaving)
  BY DEF Exit
<1>3. bal' = [bal EXCEPT ![u].total = total, ![u].unlocked = 0, ![u].earned = 0]
  <2> HIDE DEF leaving
  <2> QED  BY <1>1, <1>2 DEF Balances
<1>4. leaving \in Nat /\ owed(u) = 0 + 0 + leaving /\ 0 \in Nat
  BY <1>1 DEF owed
<1>5. Sorted(<<>>)
  BY DEF Sorted
<1> HIDE DEF total, claimed, leaving
<1> QED  BY <1>2, <1>3, <1>4, <1>5, LeavingMoves

\* The step of zapVestingToLp().
LEMMA ZapVestingMoves ==
  ASSUME Inv, NEW u \in Users, ZapVestingToLp(u)
  PROVE  \E t, d : VestingMoved(u, t, d)
<1> DEFINE es == userEarnings[u]
           matured == {i \in 1..Len(es) : \E j \in i..Len(es) : es[j].unlockTime <= now}
           kept == Cardinality(matured)
           left == SubSeq(es, 1, kept)
           rest == SubSeq(es, kept + 1, Len(es))
           zapped == Sum(Amounts(rest))
           total == bal[u].total - zapped
           unlocked == bal[u].unlocked
           earned == bal[u].earned - zapped
<1>1. /\ bal \in [Users -> Balances] /\ bal[u] \in Balances /\ es \in Seq(Earning)
      /\ bal[u].unlocked \in Nat /\ bal[u].earned \in Nat
  BY UserParts DEF Balances
<1>2. /\ bal[u].earned >= zapped
      /\ bal' = [bal EXCEPT ![u].earned = @ - zapped, ![u].total = @ - zapped]
      /\ userEarnings' = [userEarnings EXCEPT ![u] = left]
      /\ Settle(u, {}, {}, zapped)
  BY DEF ZapVestingToLp
<1>3. bal' = [bal EXCEPT ![u].total = total, ![u].unlocked = unlocked,
                         ![u].earned = earned]
  <2> HIDE DEF zapped
  <2> QED  BY <1>1, <1>2 DEF Balances
<1>4. kept \in 0..Len(es)
  <2>1. Len(es) \in Nat /\ matured \subseteq 1..Len(es)
    BY <1>1, LenProperties
  <2> HIDE DEF matured, es
  <2> QED  BY <2>1, CountInRange
<1> HIDE DEF kept
<1>5. zapped \in Nat
  <2> HIDE DEF es
  <2>1. rest \in Seq(Earning)
    BY <1>1, <1>4, CutTypes
  <2> HIDE DEF rest
  <2> QED  BY <2>1, SumAmountsNat, EntriesHaveAmount
<1>6. Sorted(userEarnings[u]) => Sorted(left)
  <2> HIDE DEF es
  <2>1. Sorted(es) => Sorted(left)
    BY <1>1, <1>4, SortedCut, EntriesHaveTime
  <2> QED  BY <2>1 DEF es
<1> HIDE DEF es, zapped, left
<1>7. unlocked \in Nat /\ earned \in Nat /\ owed(u) = unlocked + earned + zapped
  BY <1>1, <1>2, <1>5 DEF owed
<1> HIDE DEF total, unlocked, earned
<1> QED  BY <1>2, <1>3, <1>5, <1>6, <1>7, LeavingMoves

\* Stakes, withdrawals of expired locks and claims leave vesting alone.
LEMMA VestingKeptSteps ==
  ASSUME Inv, NEW u \in Users
  PROVE  /\ \A a, i : Stake(u, a, i) => VestingKept
         /\ \A c, r, l : WithdrawExpiredLocksFor(c, u, r, l) => VestingKept
         /\ \A ts : GetReward(u, ts) => VestingKept
         /\ ClaimFromConverter(u) => VestingKept
<1>1. bal \in [Users -> Balances] /\ TypeOK /\ Reserve \in Int
  BY UserParts, ReserveInt
<1>2. ASSUME NEW fwd, NEW pay, Settle(u, fwd, pay, 0) PROVE Reserve' = Reserve
  <2>1. 0 \in Nat
    OBVIOUS
  <2>2. Reserve' = Reserve - 0
    BY <1>1, <1>2, <2>1, SettleReserve
  <2> QED  BY <1>1, <2>2
<1>3. ASSUME NEW a, NEW i, Stake(u, a, i) PROVE VestingKept
  <2>1. userEarnings' = userEarnings /\ Settle(u, {}, {}, 0)
    BY <1>3 DEF Stake, UpdateReward
  <2>2. \E w : bal' = [bal EXCEPT ![u].total = @ + a, ![u].locked = @ + a,
                                  ![u].lockedWithMultiplier = @ + w]
    BY <1>3 DEF Stake
  <2>3. \A v \in Users : owed(v)' = owed(v)
    BY <1>1, <2>2 DEF owed, Balances
  <2> QED  BY <1>2, <2>1, <2>3 DEF VestingKept
<1>4. ASSUME NEW c, NEW r, NEW l, WithdrawExpiredLocksFor(c, u, r, l) PROVE VestingKept
  <2>1. userEarnings' = userEarnings /\ Settle(u, {}, {}, 0)
    BY <1>4 DEF WithdrawExpiredLocksFor, UpdateReward
  <2>2. \/ \E w, x : bal' = [bal EXCEPT ![u].lockedWithMultiplier = @ - w + x]
        \/ \E a, w : bal' = [bal EXCEPT ![u].total = @ - a, ![u].locked = @ - a,
                                        ![u].lockedWithMultiplier = @ - w]
    BY <1>4 DEF WithdrawExpiredLocksFor
  <2>3. \A v \in Users : owed(v)' = owed(v)
    <3>1. ASSUME NEW w, NEW x, bal' = [bal EXCEPT ![u].lockedWithMultiplier = @ - w + x]
          PROVE  \A v \in Users : owed(v)' = owed(v)
      BY <1>1, <3>1 DEF owed, Balances
    <3>2. ASSUME NEW a, NEW w, bal' = [bal EXCEPT ![u].total = @ - a, ![u].locked = @ - a,
                                                  ![u].lockedWithMultiplier = @ - w]
          PROVE  \A v \in Users : owed(v)' = owed(v)
      BY <1>1, <3>2 DEF owed, Balances
    <3> QED  BY <2>2, <3>1, <3>2
  <2> QED  BY <1>2, <2>1, <2>3 DEF VestingKept
<1>5. ASSUME NEW ts, GetReward(u, ts) PROVE VestingKept
  <2>1. UNCHANGED balanceVars /\ Settle(u, ts, ts, 0)
    BY <1>5 DEF GetReward
  <2> QED  BY <1>2, <2>1 DEF VestingKept, owed, balanceVars
<1>6. ASSUME ClaimFromConverter(u) PROVE VestingKept
  <2>1. UNCHANGED balanceVars /\ Settle(u, Listed, Listed \ {Prnt}, 0)
    BY <1>6 DEF ClaimFromConverter
  <2> QED  BY <1>2, <2>1 DEF VestingKept, owed, balanceVars
<1> QED  BY <1>3, <1>4, <1>5, <1>6

\* So do the admin, who may set PRNT's reward data to zero, and arriving fees.
LEMMA RewardAdminKeepsVesting ==
  ASSUME Inv, NEW t \in Tokens
  PROVE  /\ AddReward(t) => VestingKept
         /\ RemoveReward(t) => VestingKept
         /\ \A a : FeesArrive(t, a) => VestingKept
<1>1. /\ rewardData \in [Tokens -> Reward] /\ Prnt \in Tokens
      /\ rewardData[Prnt].balance \in Nat /\ held \in [Tokens -> Nat]
  BY ConstantsAssumption DEF Inv, TypeOK, Reward
<1>2. UNCHANGED balanceVars => /\ userEarnings' = userEarnings
                               /\ \A v \in Users : owed(v)' = owed(v)
  BY DEF balanceVars, owed
<1>3. ASSUME AddReward(t) PROVE VestingKept
  <2>1. /\ UNCHANGED balanceVars /\ held' = held
        /\ rewardData' = [rewardData EXCEPT ![t].lastUpdateTime = now,
                                            ![t].periodFinish = now]
    BY <1>3 DEF AddReward, tokenVars
  <2>2. rewardData'[Prnt].balance = rewardData[Prnt].balance
    BY <1>1, <2>1 DEF Reward
  <2> QED  BY <1>2, <2>1, <2>2 DEF VestingKept, Reserve
<1>4. ASSUME RemoveReward(t) PROVE VestingKept
  <2>1. /\ UNCHANGED balanceVars /\ held' = held /\ t \in RemovableRewards
        /\ rewardData' = [rewardData EXCEPT ![t] = NoReward]
    BY <1>4 DEF RemoveReward, tokenVars
  <2>2. \/ t # Prnt /\ rewardData'[Prnt] = rewardData[Prnt]
        \/ t = Prnt /\ rewardData'[Prnt].balance = 0
    BY <1>1, <2>1 DEF NoReward
  <2>3. held[Prnt] \in Nat
    BY <1>1
  <2> QED  BY <1>1, <1>2, <2>1, <2>2, <2>3 DEF VestingKept, Reserve
<1>5. ASSUME NEW a, FeesArrive(t, a) PROVE VestingKept
  <2>1. /\ UNCHANGED <<balanceVars, rewardVars>>
        /\ held' = held \/ (t # Prnt /\ held' = [held EXCEPT ![t] = @ + a])
    BY <1>5 DEF FeesArrive
  <2>2. held'[Prnt] = held[Prnt] /\ rewardData' = rewardData
    BY <1>1, <2>1 DEF rewardVars
  <2> QED  BY <1>2, <2>1, <2>2 DEF VestingKept, Reserve
<1> QED  BY <1>3, <1>4, <1>5

\* A step moves the vesting of one user, or none.
LEMMA VestingSteps ==
  ASSUME Inv, [Next]_vars
  PROVE  (\E u \in Users : \E t, d : VestingMoved(u, t, d)) \/ VestingKept
<1>1. CASE \/ \E u \in Users, a \in VestAmounts, p \in BOOLEAN : VestTokens(u, a, p)
           \/ \E u \in Users, a \in WithdrawAmounts : Withdraw(u, a)
           \/ \E u \in Users, c \in BOOLEAN :
                \E i \in 1..Len(userEarnings[u]) :
                  IndividualEarlyExit(u, userEarnings[u][i].unlockTime, c)
           \/ \E u \in Users, c \in BOOLEAN : Exit(u, c)
           \/ \E u \in Users : ZapVestingToLp(u)
  BY <1>1, VestTokensMoves, WithdrawVestingMoves, IndividualEarlyExitMoves, ExitMoves,
     ZapVestingMoves
<1>2. CASE \/ \E u \in Users, a \in StakeAmounts, i \in 0..Len(lockTypes) : Stake(u, a, i)
           \/ \E u \in Users, l \in Limits, r \in BOOLEAN :
                \E c \in {u, LockZap, Stranger} : WithdrawExpiredLocks(c, u, l, r)
           \/ \E u \in Users : Relock(u)
           \/ \E u \in Users : ClaimBounty(u)
           \/ \E u \in Users, ts \in SUBSET Tokens : GetReward(u, ts)
           \/ \E u \in Users : ClaimFromConverter(u)
  BY <1>2, VestingKeptSteps DEF WithdrawExpiredLocks, Relock, ClaimBounty
<1>3. CASE \/ \E t \in Tokens : AddReward(t)
           \/ \E t \in Tokens : RemoveReward(t)
           \/ \E t \in Tokens, a \in FeeAmounts : FeesArrive(t, a)
  BY <1>3, RewardAdminKeepsVesting
<1>4. CASE \/ Tick
           \/ \E u \in ConfigUsers, s \in BOOLEAN : SetRelock(u, s)
           \/ \E u \in ConfigUsers, i \in 0..(Len(lockTypes) - 1) :
                SetDefaultRelockTypeIndex(u, i)
           \/ \E info \in LockTypeInfos : SetLockTypeInfo(info)
           \/ \E l \in Lookbacks : SetLookback(l)
           \/ \E s \in PauseStatuses : SetPaused(s)
           \/ UNCHANGED vars
  <2>1. UNCHANGED <<balanceVars, rewardVars, tokenVars>>
    BY <1>4 DEF Tick, SetRelock, SetDefaultRelockTypeIndex, SetLockTypeInfo, SetLookback,
                SetPaused, unchangedButConfig, vars
  <2> QED  BY <2>1 DEF VestingKept, owed, Reserve, balanceVars, rewardVars, tokenVars
<1> QED  BY <1>1, <1>2, <1>3, <1>4 DEF Next

-----------------------------------------------------------------------------
(* The invariant on vesting *)

\* Entries are in order, and the PRNT the contract holds beyond the lockers'
\* reward covers what it owes to users: exactly, unless PRNT may be delisted.
VestingInv ==
  /\ Inv
  /\ EarningsSorted
  /\ Reserve >= AllVested
  /\ Prnt \notin RemovableRewards => Reserve = AllVested

\* VestingInv holds initially.
LEMMA InitVestingInv == Init => VestingInv
<1> SUFFICES ASSUME Init PROVE VestingInv
  OBVIOUS
<1>1. Inv
  BY InitInv
<1>2. EarningsSorted
  BY DEF Init, EarningsSorted
<1>3. AllVested = 0
  <2>1. [v \in Users |-> bal[v].unlocked + bal[v].earned] = [v \in Users |-> 0]
    BY DEF Init
  <2> QED  BY <2>1, SumOverUsersZero DEF AllVested
<1>4. Reserve = 0
  <2>1. held[Prnt] = 0 /\ rewardData[Prnt].balance = 0
    BY ConstantsAssumption DEF Init, NoReward
  <2> QED  BY <2>1 DEF Reserve
<1> QED  BY <1>1, <1>2, <1>3, <1>4 DEF VestingInv

\* What all users are owed.
LEMMA AllVestedInt ==
  ASSUME Inv
  PROVE  AllVested \in Int
<1> DEFINE f == [v \in Users |-> owed(v)]
<1>1. f \in [Users -> Int]
  BY DEF Inv, TypeOK, Balances, owed
<1>2. AllVested = Sum(f)
  BY DEF AllVested, owed
<1>3. Sum(f) = SumTo(f, NumUsers)
  BY SumOverUsers
<1>4. IntsTo(f, NumUsers) /\ NumUsers \in Nat
  BY <1>1, ConstantsAssumption DEF IntsTo, Users
<1> HIDE DEF f
<1> QED  BY <1>2, <1>3, <1>4, SumToInt

\* It moves with what one of them is owed.
LEMMA AllVestedMoves ==
  ASSUME Inv, Inv'
  PROVE  /\ \A u \in Users, d \in Int :
              /\ owed(u)' = owed(u) + d
              /\ \A v \in Users \ {u} : owed(v)' = owed(v)
              => AllVested' = AllVested + d
         /\ (\A v \in Users : owed(v)' = owed(v)) => AllVested' = AllVested
<1> DEFINE f == [v \in Users |-> owed(v)]
           g == [v \in Users |-> owed(v)']
<1>1. f \in [Users -> Int] /\ g \in [Users -> Int]
  <2>1. \A v \in Users : bal[v] \in Balances /\ bal'[v] \in Balances
    BY DEF Inv, TypeOK
  <2>2. \A v \in Users : owed(v) \in Int /\ owed(v)' \in Int
    BY <2>1 DEF owed, Balances
  <2> QED  BY <2>2
<1>2. AllVested = Sum(f) /\ AllVested' = Sum(g)
  BY DEF AllVested, owed
<1>3. ASSUME NEW u \in Users, NEW d \in Int, owed(u)' = owed(u) + d,
             \A v \in Users \ {u} : owed(v)' = owed(v)
      PROVE  AllVested' = AllVested + d
  <2>1. g[u] = f[u] + d /\ \A v \in Users \ {u} : g[v] = f[v]
    BY <1>3
  <2> HIDE DEF f, g
  <2> QED  BY <1>1, <1>2, <2>1, SumOverUsersMoves
<1>4. ASSUME \A v \in Users : owed(v)' = owed(v) PROVE AllVested' = AllVested
  <2>1. f = g
    BY <1>4
  <2> HIDE DEF f, g
  <2> QED  BY <1>2, <2>1
<1> QED  BY <1>3, <1>4

\* VestingInv is inductive.
LEMMA NextVestingInv == VestingInv /\ [Next]_vars => VestingInv'
<1> SUFFICES ASSUME VestingInv, [Next]_vars PROVE VestingInv'
  OBVIOUS
<1>1. Inv /\ Inv'
  BY NextInv DEF VestingInv
<1>2. /\ \A u \in Users : Sorted(userEarnings[u])
      /\ Reserve >= AllVested
      /\ Prnt \notin RemovableRewards => Reserve = AllVested
      /\ Reserve \in Int /\ AllVested \in Int
  <2>1. \A u \in Users : Sorted(userEarnings[u])
    BY DEF VestingInv, EarningsSorted, Sorted
  <2>2. Reserve \in Int
    BY <1>1, ReserveInt DEF Inv
  <2> QED  BY <1>1, <2>1, <2>2, AllVestedInt DEF VestingInv
<1>3. ASSUME NEW u \in Users, NEW t, NEW d, VestingMoved(u, t, d)
      PROVE  /\ \A v \in Users : Sorted(userEarnings'[v])
             /\ Reserve' >= AllVested'
             /\ Prnt \notin RemovableRewards => Reserve' = AllVested'
  <2>1. /\ userEarnings' = [userEarnings EXCEPT ![u] = t]
        /\ Sorted(userEarnings[u]) => Sorted(t)
        /\ d \in Int /\ owed(u)' = owed(u) + d
        /\ \A v \in Users \ {u} : owed(v)' = owed(v)
        /\ Reserve' = Reserve + d
    BY <1>3 DEF VestingMoved
  <2>2. \A v \in Users : Sorted(userEarnings'[v])
    <3>1. userEarnings \in [Users -> Seq(Earning)]
      BY <1>1 DEF Inv, TypeOK
    <3>2. \A v \in Users : userEarnings'[v] = IF v = u THEN t ELSE userEarnings[v]
      BY <2>1, <3>1
    <3> QED  BY <1>2, <2>1, <3>2
  <2>3. AllVested' = AllVested + d
    BY <1>1, <2>1, AllVestedMoves
  <2> QED  BY <1>2, <2>1, <2>2, <2>3
<1>4. ASSUME VestingKept
      PROVE  /\ \A v \in Users : Sorted(userEarnings'[v])
             /\ Reserve' >= AllVested'
             /\ Prnt \notin RemovableRewards => Reserve' = AllVested'
  <2>1. AllVested' = AllVested
    BY <1>1, <1>4, AllVestedMoves DEF VestingKept
  <2>2. \A v \in Users : Sorted(userEarnings'[v])
    BY <1>2, <1>4 DEF VestingKept
  <2>3. \/ Reserve' = Reserve
        \/ Prnt \in RemovableRewards /\ Reserve' >= Reserve
    BY <1>4 DEF VestingKept
  <2>4. Reserve' \in Int
    BY <1>1, ReserveInt DEF Inv
  <2> QED  BY <1>2, <2>1, <2>2, <2>3, <2>4
<1>5. /\ \A v \in Users : Sorted(userEarnings'[v])
      /\ Reserve' >= AllVested'
      /\ Prnt \notin RemovableRewards => Reserve' = AllVested'
  BY <1>1, <1>3, <1>4, VestingSteps
<1>6. EarningsSorted'
  BY <1>5 DEF EarningsSorted, Sorted
<1> QED  BY <1>1, <1>5, <1>6 DEF VestingInv

\* VestingInv holds of every reachable state.
THEOREM SpecVestingInv == Spec => []VestingInv
BY InitVestingInv, NextVestingInv, PTL DEF Spec

\* Vesting entries stay ordered by unlock time, through merges by day, partial
\* withdrawals and early exits: zapVestingToLp may stop at the first matured one.
THEOREM SpecEarningsSorted == Spec => []EarningsSorted
<1>1. VestingInv => EarningsSorted
  BY DEF VestingInv
<1> QED  BY <1>1, SpecVestingInv, PTL

\* What every user is owed of PRNT and what is notified to the lockers is held
\* by the contract, whatever is withdrawn, penalised, forwarded, claimed or delisted.
PrntCovered == held[Prnt] >= AllVested + rewardData[Prnt].balance

\* Every transaction leaves the contract enough PRNT for what vests and what it
\* has notified as rewards, removals of PRNT's own reward included.
THEOREM SpecPrntCovered == Spec => []PrntCovered
<1>1. VestingInv => PrntCovered
  <2> SUFFICES ASSUME VestingInv PROVE PrntCovered
    OBVIOUS
  <2>1. /\ held[Prnt] \in Int /\ rewardData[Prnt].balance \in Int
        /\ Reserve >= AllVested
    BY ConstantsAssumption DEF VestingInv, Inv, TypeOK, Reward
  <2>2. AllVested \in Int
    BY AllVestedInt DEF VestingInv
  <2> QED  BY <2>1, <2>2 DEF PrntCovered, Reserve
<1> QED  BY <1>1, SpecVestingInv, PTL

\* When PRNT's reward is never removed, it is exactly what the contract holds: no
\* PRNT is lost or left behind, although withdraw() rounds penalties twice.
THEOREM SpecPrntAccountedFor ==
  ASSUME Prnt \notin RemovableRewards
  PROVE  Spec => []PrntAccountedFor
<1>1. VestingInv => PrntAccountedFor
  <2> SUFFICES ASSUME VestingInv PROVE PrntAccountedFor
    OBVIOUS
  <2>1. /\ held[Prnt] \in Int /\ rewardData[Prnt].balance \in Int
        /\ Reserve = AllVested
    BY ConstantsAssumption DEF VestingInv, Inv, TypeOK, Reward
  <2>2. AllVested \in Int
    BY AllVestedInt DEF VestingInv
  <2> QED  BY <2>1, <2>2 DEF PrntAccountedFor, Reserve
<1> QED  BY <1>1, SpecVestingInv, PTL

-----------------------------------------------------------------------------
(* What a withdrawal costs *)

\* The net amounts of entries as values.
NetAt == [e \in Earning |-> Net(e)]

\* They are integers, and a list's net amounts are those of its entries.
LEMMA NetsAreValues ==
  ASSUME now \in Nat
  PROVE  /\ NetAt \in [Earning -> Int]
         /\ \A s \in Seq(Earning) : Nets(s) = Values(NetAt, s)
<1>1. ASSUME NEW e \in Earning PROVE Net(e) \in Int
  <2> DEFINE f == PenaltyFactor(e)
  <2>1. e.unlockTime \in Nat /\ e.amount \in Nat /\ vestDuration \in Nat /\ vestDuration # 0
    BY ConstantsAssumption DEF Earning
  <2>2. f \in Int
    <3> DEFINE x == (e.unlockTime - now) * HALF
    <3>1. x \in Int
      BY <2>1, PenaltyConstants
    <3> HIDE DEF x
    <3>2. x \div vestDuration \in Int
      BY <2>1, <3>1, DivBounds
    <3>3. PenaltyFactor(e) = IF e.unlockTime > now THEN x \div vestDuration + QUART ELSE 0
      BY DEF PenaltyFactor, x
    <3> QED  BY <3>2, <3>3, PenaltyConstants
  <2> HIDE DEF f
  <2> DEFINE y == e.amount * f
  <2>3. y \in Int
    BY <2>1, <2>2
  <2>4. Net(e) = e.amount - y \div WHOLE
    BY DEF Net, Penalty, PenaltyOf, f
  <2> HIDE DEF y
  <2>5. WHOLE \in Nat /\ WHOLE # 0
    BY PenaltyConstants
  <2>6. y \div WHOLE \in Int
    BY <2>3, <2>5, DivBounds
  <2> QED  BY <2>1, <2>4, <2>6
<1>2. NetAt \in [Earning -> Int]
  BY <1>1 DEF NetAt
<1>3. ASSUME NEW s \in Seq(Earning) PROVE Nets(s) = Values(NetAt, s)
  <2>1. \A i \in 1..Len(s) : s[i] \in Earning
    BY ElementOfSeq
  <2> QED  BY <2>1 DEF Nets, Values, NetAt
<1> QED  BY <1>2, <1>3

\* A quotient of a sum exceeds the sum of the quotients by at most one.
LEMMA DivOfSum ==
  ASSUME NEW x \in Nat, NEW y \in Nat, NEW w \in Nat, w # 0
  PROVE  /\ (x + y) \div w >= x \div w + y \div w
         /\ (x + y) \div w <= x \div w + y \div w + 1
<1> DEFINE p == x \div w
           q == y \div w
           r == (x + y) \div w
<1>1. /\ p \in Int /\ w * p <= x /\ x < w * p + w
      /\ q \in Int /\ w * q <= y /\ y < w * q + w
  BY DivBounds
<1>2. x + y \in Int
  OBVIOUS
<1>3. r \in Int /\ w * r <= x + y /\ x + y < w * r + w
  BY <1>2, DivBounds
<1> HIDE DEF p, q, r
<1>4. w * r < w * (p + q + 2) /\ w * (p + q) < w * (r + 1)
  BY <1>1, <1>3
<1>5. r < p + q + 2 /\ p + q < r + 1
  <2>1. \A m, n \in Int : w * m < w * n => m < n
    <3> SUFFICES ASSUME NEW m \in Int, NEW n \in Int, ~(m < n) PROVE ~(w * m < w * n)
      OBVIOUS
    <3>1. m - n \in Nat
      OBVIOUS
    <3>2. w * (m - n) \in Nat /\ w * m = w * n + w * (m - n)
      BY <3>1
    <3> QED  BY <3>2
  <2>2. p + q + 2 \in Int /\ p + q \in Int /\ r + 1 \in Int
    BY <1>1, <1>3
  <2> QED  BY <1>3, <1>4, <2>1, <2>2
<1> QED  BY <1>1, <1>3, <1>5 DEF p, q, r

\* What withdraw() leaves of the entries is worth what they were worth less what
\* was asked for, but for one unit of rounding.
LEMMA DrainCosts ==
  ASSUME NEW es \in Seq(Earning), NEW r \in Nat, now \in Nat, Vesting(es),
         0 < r, r <= Sum(Nets(es))
  PROVE  /\ Sum(Nets(Drain(es, r).earnings)) \in Int
         /\ Sum(Nets(es)) \in Int
         /\ Sum(Nets(Drain(es, r).earnings)) >= Sum(Nets(es)) - r
         /\ Sum(Nets(Drain(es, r).earnings)) <= Sum(Nets(es)) - r + 1
<1>1. PICK k \in 1..Len(es) :
        /\ k = CHOOSE i \in 1..Len(es) :
                 SumTo(Nets(es), i - 1) < r /\ r <= SumTo(Nets(es), i)
        /\ SumTo(Nets(es), k - 1) < r /\ r <= SumTo(Nets(es), k)
        /\ SumTo(Amounts(es), k - 1) \in Nat
        /\ SumTo(Penalties(es), k - 1) \in Nat
        /\ SumTo(Nets(es), k - 1) = SumTo(Amounts(es), k - 1) - SumTo(Penalties(es), k - 1)
        /\ SumTo(Nets(es), k) = SumTo(Nets(es), k - 1) + Nets(es)[k]
  BY LastEntry
<1> DEFINE factor == PenaltyFactor(es[k])
           a == es[k].amount
           before == SumTo(Nets(es), k - 1)
           upTo == SumTo(Nets(es), k)
           whole == upTo = r
           short == r - before
           partial == (short * WHOLE) \div (WHOLE - factor)
           required == IF whole THEN a ELSE partial
           rest == SubSeq(es, k + 1, Len(es))
           left == [es[k] EXCEPT !.amount = @ - required]
<1>2. Drain(es, r).earnings = IF whole THEN rest ELSE <<left>> \o rest
  BY <1>1 DEF Drain
<1>3. Len(es) \in Nat /\ k \in 0..Len(es) /\ es[k] \in Earning
  BY ElementOfSeq, LenProperties
<1>4. /\ a \in Nat /\ factor \in 0..(QUART + HALF)
      /\ Nets(es)[k] = a - PenaltyOf(a, factor)
  BY EntryParts
<1>5. NetAt \in [Earning -> Int] /\ \A s \in Seq(Earning) : Nets(s) = Values(NetAt, s)
  BY NetsAreValues
<1>6. /\ rest \in Seq(Earning)
      /\ Sum(Nets(es)) = upTo + Sum(Nets(rest))
      /\ Sum(Nets(rest)) \in Int
  <2> DEFINE first == SubSeq(es, 1, k)
  <2>1. /\ first \in Seq(Earning) /\ rest \in Seq(Earning)
        /\ Sum(Values(NetAt, es)) = Sum(Values(NetAt, first)) + Sum(Values(NetAt, rest))
    BY <1>3, <1>5, ValuesOfSplit
  <2>2. Sum(Nets(first)) = upTo
    <3>1. Len(first) = k /\ \A i \in 1..k : first[i] = es[i]
      BY <1>3, CutTypes
    <3>2. Sum(Nets(first)) = SumTo(Nets(first), k)
      <4>1. Nets(first) = [i \in 1..k |-> Net(first[i])]
        BY <3>1 DEF Nets
      <4>2. Len([i \in 1..k |-> Net(first[i])]) = k
        BY <1>3
      <4> HIDE DEF first
      <4> QED  BY <4>1, <4>2 DEF Sum
    <3>3. SameTo(Nets(first), Nets(es), k)
      <4>1. \A i \in 1..k : i \in 1..Len(es)
        BY <1>3
      <4> QED  BY <3>1, <4>1 DEF SameTo, Nets
    <3>4. k \in Nat
      BY <1>3
    <3> HIDE DEF first
    <3> QED  BY <3>2, <3>3, <3>4, SumToEqual
  <2>3. Sum(Nets(rest)) \in Int
    <3> HIDE DEF rest
    <3> QED  BY <1>5, <2>1, ValuesAreSummands
  <2> HIDE DEF first, rest
  <2> QED  BY <1>5, <2>1, <2>2, <2>3
<1>7. /\ before \in Int /\ upTo = before + (a - PenaltyOf(a, factor))
      /\ PenaltyOf(a, factor) \in 0..a /\ short \in Nat /\ upTo \in Int
      /\ short <= a - PenaltyOf(a, factor)
      /\ ~whole => short < a - PenaltyOf(a, factor)
  <2>0. PenaltyOf(a, factor) \in 0..a
    BY <1>4, PenaltyIsPart
  <2> DEFINE p == PenaltyOf(a, factor)
  <2>1. /\ before \in Int /\ upTo = before + (a - p) /\ before < r /\ r <= upTo
        /\ short = r - before /\ (whole <=> upTo = r)
    BY <1>1, <1>4
  <2> HIDE DEF before, upTo, p, a, short, whole
  <2>2. /\ before \in Int /\ upTo = before + (a - p) /\ short \in Nat /\ upTo \in Int
        /\ short <= a - p
        /\ ~whole => short < a - p
    BY <1>4, <2>0, <2>1 DEF p
  <2> QED  BY <2>0, <2>2 DEF p
<1> HIDE DEF rest, factor, before, upTo, short, partial
<1>8. CASE whole
  <2>1. Drain(es, r).earnings = rest /\ upTo = r
    BY <1>2, <1>8
  <2> QED  BY <1>6, <2>1
<1>9. CASE ~whole
  <2>1. /\ partial \in Nat /\ partial < a
        /\ PenaltyOf(partial, factor) = partial - short
    BY <1>4, <1>7, <1>9, LastTaken DEF partial
  <2>2. /\ left \in Earning /\ left.amount = a - partial
        /\ left.unlockTime = es[k].unlockTime
    <3> DEFINE x == a - partial
    <3>1. x \in Nat
      BY <1>4, <2>1
    <3>2. left = [es[k] EXCEPT !.amount = x]
      BY <1>9 DEF a
    <3> HIDE DEF x, left
    <3>3. left \in Earning /\ left.amount = x /\ left.unlockTime = es[k].unlockTime
      BY <1>3, <3>1, <3>2, AmountWritten, Zenon
    <3> QED  BY <3>3 DEF x
  <2>3. NetAt[left] = (a - partial) - PenaltyOf(a - partial, factor)
    <3>1. PenaltyFactor(left) = factor
      BY <2>2 DEF PenaltyFactor, factor
    <3>2. NetAt[left] = Net(left)
      BY <2>2 DEF NetAt
    <3> HIDE DEF left
    <3> QED  BY <2>2, <3>1, <3>2 DEF Net, Penalty
  <2>4. Drain(es, r).earnings = <<left>> \o rest
    BY <1>2, <1>9
  <2> HIDE DEF left
  <2>5. Sum(Nets(<<left>> \o rest)) = NetAt[left] + Sum(Nets(rest))
    <3>1. <<left>> \in Seq(Earning)
      BY <2>2
    <3>2. /\ <<left>> \o rest \in Seq(Earning)
          /\ Sum(Values(NetAt, <<left>> \o rest))
               = Sum(Values(NetAt, <<left>>)) + Sum(Values(NetAt, rest))
      BY <1>5, <1>6, <3>1, ConcatProperties, ValuesOfConcat
    <3>3. Sum(Values(NetAt, <<left>>)) = NetAt[left]
      BY <1>5, <2>2, ValuesOfOne
    <3> QED  BY <1>5, <1>6, <3>2, <3>3
  <2>6. /\ PenaltyOf(a, factor)
             >= PenaltyOf(partial, factor) + PenaltyOf(a - partial, factor)
        /\ PenaltyOf(a, factor)
             <= PenaltyOf(partial, factor) + PenaltyOf(a - partial, factor) + 1
        /\ PenaltyOf(a - partial, factor) \in Int
    <3> DEFINE x == partial * factor
               y == (a - partial) * factor
    <3>1. x \in Nat /\ y \in Nat /\ x + y = a * factor
      <4>1. factor \in Nat /\ a - partial \in Nat
        BY <1>4, <2>1, PenaltyConstants
      <4>2. y \in Nat /\ x \in Nat
        BY <2>1, <4>1
      <4>3. x + y = (partial + (a - partial)) * factor
        BY <2>1, <4>1
      <4>4. partial + (a - partial) = a
        BY <1>4, <2>1
      <4> QED  BY <4>2, <4>3, <4>4
    <3>2. /\ PenaltyOf(a, factor) = (x + y) \div WHOLE
          /\ PenaltyOf(partial, factor) = x \div WHOLE
          /\ PenaltyOf(a - partial, factor) = y \div WHOLE
      BY <3>1 DEF PenaltyOf
    <3> HIDE DEF x, y
    <3>3. WHOLE \in Nat /\ WHOLE # 0
      BY PenaltyConstants
    <3>4. y \div WHOLE \in Int
      BY <3>1, <3>3, DivNat
    <3> QED  BY <3>1, <3>2, <3>3, <3>4, DivOfSum
  <2> DEFINE P == PenaltyOf(a, factor)
             Q == PenaltyOf(a - partial, factor)
             N == Sum(Nets(rest))
  <2>7. /\ P \in Int /\ Q \in Int /\ N \in Int
        /\ P >= (partial - short) + Q /\ P <= (partial - short) + Q + 1
        /\ Sum(Nets(es)) = before + (a - P) + N
        /\ Sum(Nets(Drain(es, r).earnings)) = ((a - partial) - Q) + N
        /\ r = before + short
    <3>1. P \in Int /\ N \in Int /\ Q \in Int
      BY <1>6, <1>7, <2>6
    <3>2. r = before + short
      BY <1>7 DEF short
    <3> QED  BY <1>6, <1>7, <2>1, <2>3, <2>4, <2>5, <2>6, <3>1, <3>2
  <2> HIDE DEF P, Q, N, a
  <2> QED  BY <1>4, <1>7, <2>1, <2>7
<1> QED  BY <1>8, <1>9

\* withdraw(amount) costs the withdrawable balance the amount, or one unit less.
LEMMA WithdrawCosts ==
  ASSUME Inv, NEW u \in Users, NEW amount \in WithdrawAmounts, Withdraw(u, amount)
  PROVE  /\ withdrawableAmount(u)' <= withdrawableAmount(u) - amount + 1
         /\ withdrawableAmount(u)' >= withdrawableAmount(u) - amount
<1>1. /\ bal \in [Users -> Balances] /\ userEarnings \in [Users -> Seq(Earning)]
      /\ bal[u] \in Balances /\ userEarnings[u] \in Seq(Earning)
      /\ UserOK(bal[u], userEarnings[u]) /\ now \in Nat
  BY UserParts
<1>2. /\ amount \in Nat /\ bal[u].unlocked \in Nat
      /\ Vesting(userEarnings[u]) /\ now' = now
  BY <1>1, ConstantsAssumption DEF Balances, UserOK, Withdraw
<1>3. withdrawableAmount(u)' = bal'[u].unlocked + Sum(Nets(userEarnings'[u]))
  BY <1>2 DEF withdrawableAmount, Nets, Net, Penalty, PenaltyOf, PenaltyFactor
<1>4. withdrawableAmount(u) = bal[u].unlocked + Sum(Nets(userEarnings[u]))
  BY DEF withdrawableAmount
<1>5. Sum(Nets(userEarnings[u])) \in Nat
  <2>1. /\ NatsTo(Nets(userEarnings[u]), Len(userEarnings[u]))
        /\ Sum(Nets(userEarnings[u])) = SumTo(Nets(userEarnings[u]), Len(userEarnings[u]))
        /\ Len(userEarnings[u]) \in Nat
    BY <1>1, <1>2, EntryParts, LenProperties
  <2> QED  BY <2>1, SumToNat
<1>6. CASE amount <= bal[u].unlocked
  <2>1. /\ bal' = [bal EXCEPT ![u].unlocked = @ - amount, ![u].total = @ - amount]
        /\ userEarnings' = userEarnings
    BY <1>6 DEF Withdraw
  <2>2. bal'[u].unlocked = bal[u].unlocked - amount
    BY <1>1, <2>1 DEF Balances
  <2> QED  BY <1>2, <1>3, <1>4, <1>5, <2>1, <2>2
<1>7. CASE ~(amount <= bal[u].unlocked)
  <2> DEFINE es == userEarnings[u]
             remaining == amount - bal[u].unlocked
             left == Drain(es, remaining).earnings
  <2>1. /\ Sum(Nets(es)) >= remaining
        /\ userEarnings' = [userEarnings EXCEPT ![u] = left]
    BY <1>7 DEF Withdraw
  <2>2. bal'[u].unlocked = 0
    <3>1. \E taken, penalty :
            bal' = [bal EXCEPT ![u].unlocked = 0, ![u].earned = @ - taken,
                               ![u].total = @ - amount - penalty]
      BY <1>7 DEF Withdraw
    <3> QED  BY <1>1, <3>1 DEF Balances
  <2>3. remaining \in Nat /\ 0 < remaining /\ amount = bal[u].unlocked + remaining
    BY <1>2, <1>7
  <2>4. es \in Seq(Earning) /\ Vesting(es) /\ Sum(Nets(es)) \in Nat
    BY <1>1, <1>2, <1>5
  <2>5. userEarnings'[u] = left
    BY <1>1, <2>1
  <2>6. withdrawableAmount(u) = bal[u].unlocked + Sum(Nets(es))
    BY <1>4
  <2> HIDE DEF es, remaining
  <2>7. remaining <= Sum(Nets(es))
    BY <2>1, <2>3, <2>4
  <2>8. /\ Sum(Nets(left)) \in Int
        /\ Sum(Nets(left)) >= Sum(Nets(es)) - remaining
        /\ Sum(Nets(left)) <= Sum(Nets(es)) - remaining + 1
    BY <1>1, <2>3, <2>4, <2>7, DrainCosts
  <2> HIDE DEF left
  <2>9. withdrawableAmount(u)' = 0 + Sum(Nets(left))
    BY <1>3, <2>2, <2>5
  <2> QED  BY <1>2, <2>3, <2>4, <2>6, <2>8, <2>9
<1> QED  BY <1>6, <1>7

\* withdraw(amount) costs the user's withdrawable balance that amount, less at most
\* one unit of rounding, however the loop splits the last entry: splitting a
\* withdrawal into several evades no penalty.
THEOREM SpecWithdrawCostsItsAmount == Spec => WithdrawCostsItsAmount
<1> DEFINE Costs == \A u \in Users, a \in WithdrawAmounts :
                      Withdraw(u, a) =>
                        /\ withdrawableAmount(u)' <= withdrawableAmount(u) - a + 1
                        /\ withdrawableAmount(u)' >= withdrawableAmount(u) - a
<1>1. VestingInv => Costs
  BY WithdrawCosts DEF VestingInv
<1>2. VestingInv /\ [Next]_vars => [Costs]_vars
  BY <1>1
<1> HIDE DEF Costs
<1>3. Spec => [][Costs]_vars
  BY <1>2, SpecVestingInv, PTL DEF Spec
<1> QED  BY <1>3 DEF WithdrawCostsItsAmount, Costs

==============================================================================
