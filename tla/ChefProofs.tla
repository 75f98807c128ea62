----------------------------- MODULE ChefProofs -----------------------------
(***************************************************************************)
(* Theorems about ChefIncentivesController, for every number of users and    *)
(* pools, every rate, schedule and precision, and every order of hooks,      *)
(* claims and settings.                                                      *)
(*                                                                         *)
(* The internal functions are operators on the state `chef` of a             *)
(* transaction.  The proofs follow them: the set Good of states whose books  *)
(* balance is closed under _updatePool and under registering an amount, the  *)
(* only two that compute; every other function is a loop or a sequence of    *)
(* these.                                                                    *)
(***************************************************************************)
EXTENDS ChefProperties, SumsProofs, TLAPS

-----------------------------------------------------------------------------
(* Arithmetic *)

\* What rounding down leaves.
LEMMA Quotient ==
  ASSUME NEW a \in Int, NEW b \in Nat \ {0}
  PROVE  /\ a \div b \in Int
         /\ (a \div b) * b <= a
         /\ a < (a \div b) * b + b
OBVIOUS

\* A quotient of a natural number is natural.
LEMMA QuotientNat ==
  ASSUME NEW a \in Nat, NEW b \in Nat \ {0}
  PROVE  a \div b \in Nat
OBVIOUS

\* Rounding down respects the order, and multiples.
LEMMA QuotientAtLeast ==
  ASSUME NEW a \in Int, NEW b \in Nat \ {0}, NEW q \in Int, q * b <= a
  PROVE  q <= a \div b
<1> DEFINE r == a \div b
<1>1. r \in Int /\ a < r * b + b
  BY Quotient
<1> HIDE DEF r
<1>2. CASE q > r
  <2>1. q >= r + 1
    BY <1>1, <1>2
  <2>2. q * b >= (r + 1) * b
    BY <1>1, <2>1
  <2>3. (r + 1) * b = r * b + b
    BY <1>1
  <2> QED  BY <1>1, <2>2, <2>3
<1> QED  BY <1>1, <1>2 DEF r

\* A part p/w of x is at most x.
LEMMA PartOf ==
  ASSUME NEW x \in Nat, NEW p \in Nat, NEW w \in Nat, 1 <= p, p <= w
  PROVE  (x * p) \div w \in Nat /\ (x * p) \div w <= x
<1> DEFINE q == (x * p) \div w
<1>1. x * p \in Nat /\ x * p <= x * w /\ w \in Nat \ {0}
  OBVIOUS
<1>2. q \in Nat /\ q * w <= x * p
  BY <1>1, Quotient, QuotientNat
<1> HIDE DEF q
<1>3. ~(q > x)
  <2> SUFFICES ASSUME q >= x + 1 PROVE FALSE
    BY <1>2
  <2>1. q * w >= (x + 1) * w
    BY <1>1, <1>2
  <2>2. (x + 1) * w = x * w + w
    BY <1>1
  <2> QED  BY <1>1, <1>2, <2>1, <2>2
<1> QED  BY <1>2, <1>3 DEF q

-----------------------------------------------------------------------------
(* Sums over users and over pools *)

\* A function on 1..n is summed up to n.
LEMMA SumIs ==
  ASSUME NEW n \in Nat, NEW f, f = [i \in 1..n |-> f[i]]
  PROVE  Sum(f) = SumTo(f, n)
<1>1. Len([i \in 1..n |-> f[i]]) = n
  OBVIOUS
<1> QED  BY <1>1 DEF Sum

\* The sum of integers is one.
LEMMA SumInt ==
  ASSUME NEW n \in Nat, NEW f \in [1..n -> Int]
  PROVE  Sum(f) = SumTo(f, n) /\ Sum(f) \in Int /\ IntsTo(f, n)
<1>1. IntsTo(f, n)
  BY DEF IntsTo
<1>2. Sum(f) = SumTo(f, n)
  BY SumIs
<1> QED  BY <1>1, <1>2, SumToInt

\* A sum changes by what one of its summands does.
LEMMA SumMoves ==
  ASSUME NEW n \in Nat, NEW f \in [1..n -> Int], NEW g \in [1..n -> Int], NEW j \in 1..n,
         \A i \in 1..n : i # j => g[i] = f[i]
  PROVE  Sum(g) = Sum(f) - f[j] + g[j]
<1>1. IntsTo(f, n) /\ IntsTo(g, n) /\ SameButAt(f, g, n, j)
  BY DEF IntsTo, SameButAt
<1>2. SumTo(g, n) = SumTo(f, n) - f[j] + g[j]
  BY <1>1, SumToUpdate
<1> QED  BY <1>2, SumInt

\* A sum grows when every summand does.
LEMMA SumGrows ==
  ASSUME NEW n \in Nat, NEW f \in [1..n -> Int], NEW g \in [1..n -> Int],
         \A i \in 1..n : f[i] <= g[i]
  PROVE  Sum(f) <= Sum(g)
<1>1. IntsTo(f, n) /\ IntsTo(g, n) /\ \A i \in 1..n : f[i] * 1 <= g[i]
  BY DEF IntsTo
<1>2. SumTo(f, n) * 1 <= SumTo(g, n)
  BY <1>1, SumToAtMost
<1> QED  BY <1>2, SumInt

\* ... and when every summand times k does.
LEMMA SumGrowsScaled ==
  ASSUME NEW n \in Nat, NEW f \in [1..n -> Int], NEW g \in [1..n -> Int], NEW k \in Int,
         \A i \in 1..n : f[i] * k <= g[i]
  PROVE  Sum(f) * k <= Sum(g)
<1>1. IntsTo(f, n) /\ IntsTo(g, n)
  BY DEF IntsTo
<1>2. SumTo(f, n) * k <= SumTo(g, n)
  BY <1>1, SumToAtMost
<1> QED  BY <1>2, SumInt

\* A sum grows by k times another when every summand does.
LEMMA SumPlusScaled ==
  ASSUME NEW n, NEW f, NEW g, NEW h, NEW k,
         n \in Nat, f \in [1..n -> Int], g \in [1..n -> Int], h \in [1..n -> Int], k \in Int,
         PlusScaledTo(h, f, k, g, n)
  PROVE  Sum(h) = Sum(f) + k * Sum(g)
<1>1. n \in Nat /\ k \in Int /\ IntsTo(f, n) /\ IntsTo(g, n)
  BY DEF IntsTo
<1>2. SumTo(h, n) = SumTo(f, n) + k * SumTo(g, n)
  BY <1>1, SumToPlusScaled
<1> QED  BY <1>2, SumInt

\* A sum of natural numbers is one, and no less than any of them.
LEMMA SumNat ==
  ASSUME NEW n \in Nat, NEW f \in [1..n -> Nat], NEW j \in 1..n
  PROVE  Sum(f) \in Nat /\ f[j] <= Sum(f)
<1> DEFINE g == [i \in 1..n |-> IF i = j THEN 0 ELSE f[i]]
<1>1. f \in [1..n -> Int] /\ g \in [1..n -> Int] /\ g[j] = 0 /\ f[j] \in Nat
      /\ \A i \in 1..n : i # j => g[i] = f[i]
  OBVIOUS
<1>2. NatsTo(f, n) /\ NatsTo(g, n)
  BY DEF NatsTo
<1> HIDE DEF g
<1>3. Sum(f) \in Nat /\ Sum(g) \in Nat
  BY <1>1, <1>2, SumToNat, SumInt
<1>4. Sum(g) = Sum(f) - f[j] + g[j]
  BY <1>1, SumMoves
<1> QED  BY <1>1, <1>3, <1>4

\* The sum of zeros.
LEMMA SumZero ==
  ASSUME NEW n \in Nat, NEW f, f = [i \in 1..n |-> 0]
  PROVE  Sum(f) = 0
<1>1. f \in [1..n -> Int] /\ \A i \in 1..n : f[i] = 0 /\ f[i] = f[i] + 1 * f[i]
  OBVIOUS
<1>2. Sum(f) = Sum(f) + 1 * Sum(f)
  <2>1. PlusScaledTo(f, f, 1, f, n)
    BY <1>1 DEF PlusScaledTo
  <2>2. f \in [1..n -> Int] /\ 1 \in Int
    BY <1>1
  <2> QED  BY <2>1, <2>2, SumPlusScaled
<1> QED  BY <1>1, <1>2, SumInt

-----------------------------------------------------------------------------
(* The books of a transaction's state *)

Amount(c, u, p) == c.userInfo[u][p].amount
Debt(c, u, p)   == c.userInfo[u][p].rewardDebt
Share(c, p)     == c.poolInfo[p].accRewardPerShare

\* What u has earned in p and was not credited, times ACC_REWARD_PRECISION: Pending
\* without its rounding.
Credit(c, u, p) == Amount(c, u, p) * Share(c, p) - Debt(c, u, p) * ACC_REWARD_PRECISION

\* What u was credited, vested or not.
SetAside(c, u) == vested[u] + c.userBaseClaimable[u]

\* All u has earned: rounded down, as it can be claimed, and times
\* ACC_REWARD_PRECISION without any rounding.
Earned(c, u) ==
  SetAside(c, u) + Sum([i \in 1..Len(registeredTokens) |-> Pending(c, u, registeredTokens[i])])
EarnedExactly(c, u) ==
  SetAside(c, u) * ACC_REWARD_PRECISION
    + Sum([i \in 1..Len(registeredTokens) |-> Credit(c, u, registeredTokens[i])])

\* The parts of what a sound state satisfies.
TotalsOf(c) ==
  /\ \A p \in Pools : c.poolInfo[p].totalSupply = Sum([u \in Users |-> Amount(c, u, p)])
  /\ c.totalAllocPoint = Sum([i \in 1..Len(registeredTokens) |->
                                c.poolInfo[registeredTokens[i]].allocPoint])

Solvent(c) ==
  /\ c.accountedRewards <= c.depositedRewards
  /\ \A u \in Users, p \in Pools : Credit(c, u, p) >= 0
  /\ \A p \in Pools : c.poolInfo[p].lastRewardTime <= now

Registered == Range(registeredTokens)

OnlyRegistered(c) ==
  /\ \A p \in Registered : c.poolInfo[p].lastRewardTime >= 1 /\ c.poolInfo[p].allocPoint >= 1
  /\ \A u \in Users, p \in Pools \ Registered : Amount(c, u, p) = 0 /\ Debt(c, u, p) = 0

\* What was taken from the reserve, and one unit for each update of a balance,
\* beyond what all users have earned, times ACC_REWARD_PRECISION.
Slack(c) ==
  (c.accountedRewards + c.updates) * ACC_REWARD_PRECISION
    - Sum([u \in Users |-> EarnedExactly(c, u)])

Backed(c) == Slack(c) >= 0

OnSchedule(c) ==
  /\ c.emissionScheduleIndex <= Len(emissionSchedule)
  /\ \A i \in 1..c.emissionScheduleIndex : emissionSchedule[i].startTimeOffset <= now - startTime

\* A user found eligible is no longer disqualified.
Requalified(c) == \A u \in Users : c.lastEligibleStatus[u] => c.disqualifiedTime[u] = 0

\* The sound states.
Good == {c \in Chef : /\ TotalsOf(c) /\ Solvent(c) /\ OnlyRegistered(c)
                      /\ Backed(c) /\ OnSchedule(c) /\ Requalified(c)}

\* What they are sound for: the variables a transaction reads.
Environment ==
  /\ now \in Nat /\ now >= 1
  /\ startTime \in Nat /\ startTime <= now
  /\ registeredTokens \in Seq(Pools)
  /\ \A i, j \in 1..Len(registeredTokens) : registeredTokens[i] = registeredTokens[j] => i = j
  /\ emissionSchedule \in Seq(EmissionPoint)
  /\ persistRewardsPerSecond \in BOOLEAN
  /\ vested \in [Users -> Nat]

\* The constants the arithmetic is about.
LEMMA Constants ==
  ACC_REWARD_PRECISION \in Nat \ {0} /\ NumUsers \in Nat /\ Users = 1..NumUsers
    /\ MaxBalance \in Nat
BY ControllerAssumption DEF Users

\* The parts of a state, typed.
LEMMA ChefTypes ==
  ASSUME NEW c \in Chef
  PROVE  /\ c.poolInfo \in [Pools -> PoolInfo]
         /\ c.userInfo \in [Users -> [Pools -> UserInfo]]
         /\ c.userBaseClaimable \in [Users -> Nat]
         /\ c.totalAllocPoint \in Nat /\ c.rewardsPerSecond \in Nat /\ c.lastRPS \in Nat
         /\ c.emissionScheduleIndex \in Nat /\ c.depositedRewards \in Nat
         /\ c.accountedRewards \in Nat /\ c.lastAllPoolUpdate \in Nat
         /\ c.lastEligibleStatus \in [Users -> BOOLEAN]
         /\ c.disqualifiedTime \in [Users -> Nat]
         /\ c.paid \in [Pools -> Nat] /\ c.updates \in Nat
BY DEF Chef

\* ... of a pool ...
LEMMA PoolTypes ==
  ASSUME NEW c \in Chef, NEW p \in Pools
  PROVE  /\ c.poolInfo[p] \in PoolInfo
         /\ c.poolInfo[p].totalSupply \in Nat /\ c.poolInfo[p].allocPoint \in Nat
         /\ c.poolInfo[p].lastRewardTime \in Nat /\ Share(c, p) \in Nat
<1>1. c.poolInfo[p] \in PoolInfo
  BY ChefTypes
<1> QED  BY <1>1 DEF PoolInfo, Share

\* ... and of a user in a pool.
LEMMA UserTypes ==
  ASSUME NEW c \in Chef, NEW u \in Users, NEW p \in Pools
  PROVE  /\ c.userInfo[u][p] \in UserInfo
         /\ Amount(c, u, p) \in Nat /\ Debt(c, u, p) \in Nat
         /\ c.userBaseClaimable[u] \in Nat
         /\ Credit(c, u, p) \in Int
<1>1. c.userInfo[u][p] \in UserInfo /\ c.userBaseClaimable[u] \in Nat
  BY ChefTypes
<1>2. Amount(c, u, p) \in Nat /\ Debt(c, u, p) \in Nat
  BY <1>1 DEF UserInfo, Amount, Debt
<1>3. Share(c, p) \in Nat /\ ACC_REWARD_PRECISION \in Nat
  BY PoolTypes, Constants
<1>4. Credit(c, u, p) \in Int
  BY <1>2, <1>3 DEF Credit
<1> QED  BY <1>1, <1>2, <1>4

\* d differs from c in the fields of reward accounting alone.
SameButAccounts(c, d) ==
  /\ d.totalAllocPoint = c.totalAllocPoint
  /\ d.rewardsPerSecond = c.rewardsPerSecond
  /\ d.lastRPS = c.lastRPS
  /\ d.emissionScheduleIndex = c.emissionScheduleIndex
  /\ d.depositedRewards = c.depositedRewards
  /\ d.lastAllPoolUpdate = c.lastAllPoolUpdate
  /\ d.lastEligibleStatus = c.lastEligibleStatus
  /\ d.disqualifiedTime = c.disqualifiedTime

\* c with other accounts.
WithAccounts(c, pools, users, base, accounted, paid, updates) ==
  [c EXCEPT !.poolInfo = pools, !.userInfo = users, !.userBaseClaimable = base,
            !.accountedRewards = accounted, !.paid = paid, !.updates = updates]

\* The fields of a state whose accounts are replaced.
LEMMA ChefOf ==
  ASSUME NEW c, NEW pools, NEW users, NEW base, NEW accounted, NEW paid, NEW updates, NEW d,
         c \in Chef, pools \in [Pools -> PoolInfo], users \in [Users -> [Pools -> UserInfo]],
         base \in [Users -> Nat], accounted \in Nat, paid \in [Pools -> Nat], updates \in Nat,
         d = WithAccounts(c, pools, users, base, accounted, paid, updates)
  PROVE  /\ d \in Chef /\ SameButAccounts(c, d)
         /\ d.poolInfo = pools /\ d.userInfo = users /\ d.userBaseClaimable = base
         /\ d.accountedRewards = accounted /\ d.paid = paid /\ d.updates = updates
<1>1. d \in Chef
  BY DEF Chef, WithAccounts
<1>2. SameButAccounts(c, d)
  BY DEF Chef, SameButAccounts, WithAccounts
<1>3. /\ d.poolInfo = pools /\ d.userInfo = users /\ d.userBaseClaimable = base
      /\ d.accountedRewards = accounted /\ d.paid = paid /\ d.updates = updates
  BY DEF Chef, WithAccounts
<1> QED  BY <1>1, <1>2, <1>3

\* Pending is Credit, rounded down.
LEMMA PendingRounds ==
  ASSUME NEW c \in Chef, NEW u \in Users, NEW p \in Pools
  PROVE  /\ Pending(c, u, p) \in Int
         /\ Pending(c, u, p) * ACC_REWARD_PRECISION <= Credit(c, u, p)
         /\ Credit(c, u, p) < Pending(c, u, p) * ACC_REWARD_PRECISION + ACC_REWARD_PRECISION
         /\ Credit(c, u, p) >= 0 <=> Pending(c, u, p) >= 0
<1> DEFINE A == ACC_REWARD_PRECISION
           x == Amount(c, u, p) * Share(c, p)
           q == x \div A
           b == Debt(c, u, p)
<1>1. x \in Nat /\ A \in Nat \ {0} /\ b \in Nat
  <2>1. Amount(c, u, p) \in Nat /\ Share(c, p) \in Nat /\ b \in Nat /\ A \in Nat \ {0}
    BY UserTypes, PoolTypes, Constants
  <2> QED  BY <2>1
<1>2. Pending(c, u, p) = q - b /\ Credit(c, u, p) = x - b * A
  BY DEF Pending, Credit, Amount, Share, Debt
<1> HIDE DEF x, b, A
<1>3. q \in Int /\ q * A <= x /\ x < q * A + A
  BY <1>1, Quotient
<1>4. x - b * A >= 0 => b <= q
  BY <1>1, QuotientAtLeast
<1> HIDE DEF q
<1>5. b <= q => b * A <= q * A
  BY <1>1, <1>3
<1>6. (q - b) * A = q * A - b * A /\ q * A \in Int /\ b * A \in Int
  BY <1>1, <1>3
<1> QED  BY <1>1, <1>2, <1>3, <1>4, <1>5, <1>6 DEF A

\* A pool earns a user more when its share grows.
LEMMA PendingGrows ==
  ASSUME NEW c \in Chef, NEW d \in Chef, NEW u \in Users, NEW p \in Pools,
         Credit(c, u, p) <= Credit(d, u, p)
  PROVE  Pending(c, u, p) <= Pending(d, u, p)
<1> DEFINE A == ACC_REWARD_PRECISION
           x == Pending(c, u, p)
           y == Pending(d, u, p)
<1>1. x \in Int /\ y \in Int /\ A \in Nat \ {0}
  BY PendingRounds, Constants
<1>2. x * A < y * A + A
  BY PendingRounds, UserTypes, <1>1
<1> HIDE DEF x, y, A
<1>3. ~(x > y)
  <2> SUFFICES ASSUME x >= y + 1 PROVE FALSE
    BY <1>1
  <2>1. x * A >= (y + 1) * A
    BY <1>1
  <2>2. (y + 1) * A = y * A + A
    BY <1>1
  <2> QED  BY <1>1, <1>2, <2>1, <2>2
<1> QED  BY <1>1, <1>3 DEF x, y

\* A registered pool has one place in the list.
LEMMA PlaceOf ==
  ASSUME Environment, NEW p \in Registered
  PROVE  /\ p \in Pools
         /\ Len(registeredTokens) \in Nat
         /\ \A i \in 1..Len(registeredTokens) : registeredTokens[i] \in Registered
                                                 /\ registeredTokens[i] \in Pools
         /\ \E j \in 1..Len(registeredTokens) :
              /\ registeredTokens[j] = p
              /\ \A i \in 1..Len(registeredTokens) : i # j => registeredTokens[i] # p
<1>1. Len(registeredTokens) \in Nat
      /\ \A i \in 1..Len(registeredTokens) : registeredTokens[i] \in Pools
  BY ElementOfSeq, LenProperties DEF Environment
<1>2. PICK j \in 1..Len(registeredTokens) : registeredTokens[j] = p
  BY DEF Registered, Range
<1>3. \A i \in 1..Len(registeredTokens) : i # j => registeredTokens[i] # p
  BY <1>2 DEF Environment
<1> QED  BY <1>1, <1>2, <1>3 DEF Registered, Range

\* What a user has earned, in numbers.
LEMMA EarnedTypes ==
  ASSUME Environment, NEW c \in Chef, NEW u \in Users
  PROVE  /\ Len(registeredTokens) \in Nat
         /\ [i \in 1..Len(registeredTokens) |-> Pending(c, u, registeredTokens[i])]
              \in [1..Len(registeredTokens) -> Int]
         /\ [i \in 1..Len(registeredTokens) |-> Credit(c, u, registeredTokens[i])]
              \in [1..Len(registeredTokens) -> Int]
         /\ SetAside(c, u) \in Nat
         /\ Earned(c, u) \in Int
         /\ EarnedExactly(c, u) \in Int
<1> DEFINE n == Len(registeredTokens)
           f == [i \in 1..n |-> Pending(c, u, registeredTokens[i])]
           g == [i \in 1..n |-> Credit(c, u, registeredTokens[i])]
<1>1. n \in Nat /\ \A i \in 1..n : registeredTokens[i] \in Pools
  BY ElementOfSeq, LenProperties DEF Environment
<1>2. f \in [1..n -> Int] /\ g \in [1..n -> Int]
  BY <1>1, UserTypes, PendingRounds
<1>3. SetAside(c, u) \in Nat
  BY UserTypes, ChefTypes DEF SetAside, Environment
<1> HIDE DEF n, f, g
<1>4. Sum(f) \in Int /\ Sum(g) \in Int
  BY <1>1, <1>2, SumInt
<1>5. SetAside(c, u) * ACC_REWARD_PRECISION \in Int
  BY <1>3, Constants
<1>6. Earned(c, u) = SetAside(c, u) + Sum(f)
      /\ EarnedExactly(c, u) = SetAside(c, u) * ACC_REWARD_PRECISION + Sum(g)
  BY DEF Earned, EarnedExactly, f, g, n
<1>7. Earned(c, u) \in Int
  BY <1>3, <1>4, <1>6
<1>8. EarnedExactly(c, u) \in Int
  BY <1>4, <1>5, <1>6
<1> QED  BY <1>1, <1>2, <1>3, <1>7, <1>8 DEF f, g, n

\* If nothing but one pool changes for a user, so does what it has earned.
LEMMA EarnedMoves ==
  ASSUME Environment, NEW c \in Chef, NEW d \in Chef, NEW u \in Users, NEW p \in Registered,
         \A s \in Registered : s # p => /\ Pending(d, u, s) = Pending(c, u, s)
                                        /\ Credit(d, u, s) = Credit(c, u, s)
  PROVE  /\ Earned(d, u) = Earned(c, u) + SetAside(d, u) - SetAside(c, u)
                             + Pending(d, u, p) - Pending(c, u, p)
         /\ EarnedExactly(d, u) = EarnedExactly(c, u)
                             + SetAside(d, u) * ACC_REWARD_PRECISION
                             - SetAside(c, u) * ACC_REWARD_PRECISION
                             + Credit(d, u, p) - Credit(c, u, p)
<1> DEFINE n == Len(registeredTokens)
           f(x) == [i \in 1..n |-> Pending(x, u, registeredTokens[i])]
           g(x) == [i \in 1..n |-> Credit(x, u, registeredTokens[i])]
<1>1. /\ p \in Pools /\ n \in Nat
      /\ \A i \in 1..n : registeredTokens[i] \in Registered
  BY PlaceOf
<1>2. PICK j \in 1..n : /\ registeredTokens[j] = p
                        /\ \A i \in 1..n : i # j => registeredTokens[i] # p
  BY PlaceOf
<1>3. /\ f(c) \in [1..n -> Int] /\ f(d) \in [1..n -> Int]
      /\ g(c) \in [1..n -> Int] /\ g(d) \in [1..n -> Int]
  BY EarnedTypes
<1>4. /\ \A i \in 1..n : i # j => f(d)[i] = f(c)[i]
      /\ \A i \in 1..n : i # j => g(d)[i] = g(c)[i]
      /\ f(d)[j] = Pending(d, u, p) /\ f(c)[j] = Pending(c, u, p)
      /\ g(d)[j] = Credit(d, u, p) /\ g(c)[j] = Credit(c, u, p)
  BY <1>1, <1>2
<1>5. /\ Earned(c, u) = SetAside(c, u) + Sum(f(c))
      /\ Earned(d, u) = SetAside(d, u) + Sum(f(d))
      /\ EarnedExactly(c, u) = SetAside(c, u) * ACC_REWARD_PRECISION + Sum(g(c))
      /\ EarnedExactly(d, u) = SetAside(d, u) * ACC_REWARD_PRECISION + Sum(g(d))
  BY DEF Earned, EarnedExactly
<1> HIDE DEF n, f, g
<1>6. Sum(f(d)) = Sum(f(c)) - f(c)[j] + f(d)[j]
  BY <1>1, <1>2, <1>3, <1>4, SumMoves
<1>7. Sum(g(d)) = Sum(g(c)) - g(c)[j] + g(d)[j]
  BY <1>1, <1>2, <1>3, <1>4, SumMoves
<1>8. Sum(f(c)) \in Int /\ Sum(g(c)) \in Int
  BY <1>1, <1>3, SumInt
<1>9. /\ SetAside(c, u) \in Nat /\ SetAside(d, u) \in Nat
      /\ SetAside(c, u) * ACC_REWARD_PRECISION \in Int
      /\ SetAside(d, u) * ACC_REWARD_PRECISION \in Int
  BY EarnedTypes, Constants
<1>10. /\ Pending(c, u, p) \in Int /\ Pending(d, u, p) \in Int
       /\ Credit(c, u, p) \in Int /\ Credit(d, u, p) \in Int
  BY <1>1, UserTypes, PendingRounds
<1> QED  BY <1>4, <1>5, <1>6, <1>7, <1>8, <1>9, <1>10

\* ... and if nothing changes, nothing does.
LEMMA EarnedStays ==
  ASSUME Environment, NEW c \in Chef, NEW d \in Chef, NEW u \in Users,
         SetAside(d, u) = SetAside(c, u),
         \A s \in Registered : /\ Pending(d, u, s) = Pending(c, u, s)
                               /\ Credit(d, u, s) = Credit(c, u, s)
  PROVE  Earned(d, u) = Earned(c, u) /\ EarnedExactly(d, u) = EarnedExactly(c, u)
<1>1. \A i \in 1..Len(registeredTokens) : registeredTokens[i] \in Registered
  BY DEF Registered, Range
<1>2. /\ [i \in 1..Len(registeredTokens) |-> Pending(d, u, registeredTokens[i])]
           = [i \in 1..Len(registeredTokens) |-> Pending(c, u, registeredTokens[i])]
      /\ [i \in 1..Len(registeredTokens) |-> Credit(d, u, registeredTokens[i])]
           = [i \in 1..Len(registeredTokens) |-> Credit(c, u, registeredTokens[i])]
  BY <1>1
<1> QED  BY <1>2 DEF Earned, EarnedExactly

-----------------------------------------------------------------------------
(* _updatePool *)

\* The points of a registered pool are a part of the total.
LEMMA PointsArePart ==
  ASSUME Environment, NEW c \in Good, NEW p \in Registered
  PROVE  /\ c.poolInfo[p].allocPoint \in Nat /\ c.totalAllocPoint \in Nat \ {0}
         /\ 1 <= c.poolInfo[p].allocPoint
         /\ c.poolInfo[p].allocPoint <= c.totalAllocPoint
<1> DEFINE n == Len(registeredTokens)
           f == [i \in 1..n |-> c.poolInfo[registeredTokens[i]].allocPoint]
<1>1. c \in Chef /\ c.totalAllocPoint = Sum(f) /\ 1 <= c.poolInfo[p].allocPoint
  BY DEF Good, TotalsOf, OnlyRegistered
<1>2. /\ p \in Pools /\ n \in Nat /\ \A i \in 1..n : registeredTokens[i] \in Pools
      /\ \E j \in 1..n : registeredTokens[j] = p
  BY PlaceOf
<1>3. f \in [1..n -> Nat]
  BY <1>1, <1>2, PoolTypes
<1>4. PICK j \in 1..n : f[j] = c.poolInfo[p].allocPoint
  BY <1>2
<1>5. c.totalAllocPoint \in Nat /\ c.poolInfo[p].allocPoint \in Nat
  BY <1>1, <1>2, ChefTypes, PoolTypes
<1> HIDE DEF f, n
<1>6. f[j] <= Sum(f)
  BY <1>2, <1>3, SumNat
<1> QED  BY <1>1, <1>4, <1>5, <1>6

\* endRewardTime() is a time.
LEMMA EndRewardTimeNat ==
  ASSUME Environment, NEW c \in Good, c.rewardsPerSecond # 0
  PROVE  endRewardTime(c) \in Nat
<1> DEFINE r == c.rewardsPerSecond
           n == Len(registeredTokens)
           alreadyPaid(p) ==
             LET pool == c.poolInfo[p]
             IN  IF pool.lastRewardTime > c.lastAllPoolUpdate
                 THEN ((pool.lastRewardTime - c.lastAllPoolUpdate) * pool.allocPoint * r)
                        \div c.totalAllocPoint
                 ELSE 0
           f == [i \in 1..n |-> alreadyPaid(registeredTokens[i])]
           a == availableRewards(c)
<1>1. /\ c \in Chef /\ r \in Nat \ {0} /\ c.lastAllPoolUpdate \in Nat
      /\ c.accountedRewards <= c.depositedRewards
  BY ChefTypes DEF Good, Solvent
<1>2. a \in Nat
  BY <1>1, ChefTypes DEF availableRewards
<1>3. ASSUME NEW p \in Registered PROVE alreadyPaid(p) \in Nat
  <2>1. /\ p \in Pools /\ c.poolInfo[p].lastRewardTime \in Nat
        /\ c.poolInfo[p].allocPoint \in Nat /\ c.totalAllocPoint \in Nat \ {0}
    BY <1>1, PlaceOf, PointsArePart, PoolTypes
  <2>2. CASE c.poolInfo[p].lastRewardTime > c.lastAllPoolUpdate
    <3> DEFINE x == (c.poolInfo[p].lastRewardTime - c.lastAllPoolUpdate)
                      * c.poolInfo[p].allocPoint
    <3>1. c.poolInfo[p].lastRewardTime - c.lastAllPoolUpdate \in Nat
      BY <1>1, <2>1, <2>2
    <3>2. x \in Nat
      BY <2>1, <3>1
    <3> HIDE DEF x
    <3>3. x * r \in Nat
      BY <1>1, <3>2
    <3>4. (x * r) \div c.totalAllocPoint \in Nat
      BY <2>1, <3>3, QuotientNat
    <3> QED  BY <2>2, <3>4 DEF x
  <2> QED  BY <2>1, <2>2, <1>1
<1>4. n \in Nat /\ \A i \in 1..n : registeredTokens[i] \in Registered
  BY ElementOfSeq, LenProperties DEF Environment, Registered, Range
<1>5. f \in [1..n -> Nat]
  BY <1>3, <1>4
<1>6. endRewardTime(c) = (a + Sum(f)) \div r + c.lastAllPoolUpdate
  BY DEF endRewardTime
<1> HIDE DEF f, n, a, r
<1>7. Sum(f) \in Nat
  <2>1. NatsTo(f, n)
    BY <1>5 DEF NatsTo
  <2>2. f = [i \in 1..n |-> f[i]]
    BY <1>5
  <2> QED  BY <1>4, <2>1, <2>2, SumToNat, SumIs
<1>8. (a + Sum(f)) \div r \in Nat
  <2>1. a + Sum(f) \in Nat
    BY <1>2, <1>7
  <2> QED  BY <1>1, <2>1, QuotientNat
<1> QED  BY <1>1, <1>6, <1>8

\* Rewards are paid up to a time that has come.
LEMMA RewardedUntilNow ==
  ASSUME Environment, NEW c \in Good
  PROVE  rewardedUntil(c) \in Nat /\ rewardedUntil(c) <= now
BY EndRewardTimeNat DEF rewardedUntil, Environment

\* A pool's reward is within what is available, and natural.
LEMMA NewRewardsAvailable ==
  ASSUME Environment, NEW c \in Good, NEW p \in Registered
  PROVE  LET reward == newRewards(c, c.poolInfo[p])
         IN  reward \in Nat /\ reward <= c.depositedRewards - c.accountedRewards
<1> DEFINE pool == c.poolInfo[p]
           a == availableRewards(c)
           w == (now - pool.lastRewardTime) * c.rewardsPerSecond
           raw == IF a < w THEN a ELSE w
<1>1. /\ c \in Chef /\ p \in Pools /\ c.accountedRewards <= c.depositedRewards
      /\ pool.lastRewardTime <= now
  BY PlaceOf DEF Good, Solvent
<1>2. a \in Nat /\ a = c.depositedRewards - c.accountedRewards
  BY <1>1, ChefTypes DEF availableRewards
<1>3. w \in Nat
  <2>1. now - pool.lastRewardTime \in Nat /\ c.rewardsPerSecond \in Nat
    BY <1>1, ChefTypes, PoolTypes DEF Environment
  <2> QED  BY <2>1
<1>4. raw \in Nat /\ raw <= a
  BY <1>2, <1>3
<1>5. newRewards(c, pool) = IF pool.totalSupply = 0 THEN 0
                            ELSE (raw * pool.allocPoint) \div c.totalAllocPoint
  BY DEF newRewards
<1>6. (raw * pool.allocPoint) \div c.totalAllocPoint \in Nat
      /\ (raw * pool.allocPoint) \div c.totalAllocPoint <= raw
  <2>1. /\ pool.allocPoint \in Nat /\ c.totalAllocPoint \in Nat
        /\ 1 <= pool.allocPoint /\ pool.allocPoint <= c.totalAllocPoint
    BY PointsArePart
  <2> HIDE DEF pool, raw
  <2> QED  BY <1>4, <2>1, PartOf
<1> HIDE DEF raw, w, a
<1> QED  BY <1>2, <1>4, <1>5, <1>6

\* What _updatePool writes when pool p is paid `reward`, `perShare` for each
\* unit registered, up to the time `until`.
PaidPool(c, p, reward, perShare, until) ==
  [c EXCEPT !.accountedRewards = @ + reward,
            !.paid[p] = @ + reward,
            !.poolInfo[p].accRewardPerShare = @ + perShare,
            !.poolInfo[p].lastRewardTime = until]

\* _updatePool pays a pool a reward that is available, rounded down for each unit.
LEMMA UpdatePoolPays ==
  ASSUME Environment, NEW c \in Good, NEW p \in Registered
  PROVE  \/ UpdatePool(c, p) = c
         \/ \E reward, perShare, until \in Nat :
              /\ UpdatePool(c, p) = PaidPool(c, p, reward, perShare, until)
              /\ reward <= c.depositedRewards - c.accountedRewards
              /\ perShare * c.poolInfo[p].totalSupply <= reward * ACC_REWARD_PRECISION
              /\ c.poolInfo[p].lastRewardTime < until
              /\ until <= now
<1> DEFINE pool == c.poolInfo[p]
           until == rewardedUntil(c)
           reward == newRewards(c, pool)
           perShare == IF pool.totalSupply = 0 THEN 0
                       ELSE (reward * ACC_REWARD_PRECISION) \div pool.totalSupply
<1>1. until \in Nat /\ until <= now
  BY RewardedUntilNow
<1>2. reward \in Nat /\ reward <= c.depositedRewards - c.accountedRewards
  BY NewRewardsAvailable
<1>3. pool.lastRewardTime \in Nat /\ pool.totalSupply \in Nat
  BY PlaceOf, PoolTypes DEF Good
<1>4. perShare \in Nat /\ perShare * pool.totalSupply <= reward * ACC_REWARD_PRECISION
  <2>1. reward * ACC_REWARD_PRECISION \in Nat
    BY <1>2, Constants
  <2> HIDE DEF reward, pool
  <2>2. CASE pool.totalSupply = 0
    BY <2>1, <2>2
  <2>3. CASE pool.totalSupply # 0
    <3>1. perShare = (reward * ACC_REWARD_PRECISION) \div pool.totalSupply
      BY <2>3
    <3>2. pool.totalSupply \in Nat \ {0}
      BY <1>3, <2>3
    <3> QED  BY <2>1, <3>1, <3>2, Quotient, QuotientNat
  <2> QED  BY <2>2, <2>3
<1>5. UpdatePool(c, p) = IF until <= pool.lastRewardTime THEN c
                         ELSE PaidPool(c, p, reward, perShare, until)
  BY DEF UpdatePool, PaidPool
<1>6. CASE until <= pool.lastRewardTime
  BY <1>5, <1>6
<1>7. CASE ~(until <= pool.lastRewardTime)
  <2>1. pool.lastRewardTime < until
    BY <1>1, <1>3, <1>7
  <2> HIDE DEF until, reward, perShare
  <2> QED  BY <1>1, <1>2, <1>4, <1>5, <1>7, <2>1
<1> QED  BY <1>6, <1>7

\* The fields of a state whose pool p was paid.
LEMMA PaidPoolFields ==
  ASSUME NEW c, NEW p, NEW reward, NEW perShare, NEW until, NEW d,
         c \in Chef, p \in Pools, reward \in Nat, perShare \in Nat, until \in Nat,
         d = PaidPool(c, p, reward, perShare, until)
  PROVE  /\ d \in Chef /\ SameButAccounts(c, d)
         /\ d.userInfo = c.userInfo /\ d.userBaseClaimable = c.userBaseClaimable
         /\ d.updates = c.updates
         /\ d.accountedRewards = c.accountedRewards + reward
         /\ \A s \in Pools \ {p} : d.poolInfo[s] = c.poolInfo[s]
         /\ d.poolInfo[p].totalSupply = c.poolInfo[p].totalSupply
         /\ d.poolInfo[p].allocPoint = c.poolInfo[p].allocPoint
         /\ d.poolInfo[p].lastRewardTime = until
         /\ Share(d, p) = Share(c, p) + perShare
<1> DEFINE q == c.poolInfo[p]
           r == [totalSupply |-> q.totalSupply, allocPoint |-> q.allocPoint,
                 lastRewardTime |-> until, accRewardPerShare |-> q.accRewardPerShare + perShare]
           pools == [c.poolInfo EXCEPT ![p] = r]
           paid == [c.paid EXCEPT ![p] = @ + reward]
           accounted == c.accountedRewards + reward

<1>1. /\ q \in PoolInfo /\ c.poolInfo \in [Pools -> PoolInfo] /\ c.paid \in [Pools -> Nat]
      /\ c.userInfo \in [Users -> [Pools -> UserInfo]] /\ c.userBaseClaimable \in [Users -> Nat]
      /\ c.accountedRewards \in Nat /\ c.updates \in Nat
  BY ChefTypes
<1>2. r \in PoolInfo
  BY <1>1 DEF PoolInfo
<1>3. pools \in [Pools -> PoolInfo] /\ pools[p] = r
      /\ \A s \in Pools \ {p} : pools[s] = c.poolInfo[s]
  BY <1>1, <1>2
<1>4. paid \in [Pools -> Nat]
  BY <1>1
<1>5. d = WithAccounts(c, pools, c.userInfo, c.userBaseClaimable,
                       accounted, paid, c.updates)
  <2> DEFINE pools1 == [c.poolInfo EXCEPT ![p] = [q EXCEPT !.accRewardPerShare = @ + perShare]]
             pools2 == [pools1 EXCEPT ![p] = [pools1[p] EXCEPT !.lastRewardTime = until]]
  <2>1. pools2 = pools
    <3> DEFINE q1 == [q EXCEPT !.accRewardPerShare = @ + perShare]
    <3>0. q1 = [totalSupply |-> q.totalSupply, allocPoint |-> q.allocPoint,
                lastRewardTime |-> q.lastRewardTime,
                accRewardPerShare |-> q.accRewardPerShare + perShare]
      BY <1>1 DEF PoolInfo
    <3>1. [q1 EXCEPT !.lastRewardTime = until] = r
      <4> HIDE DEF q1
      <4> QED  BY <3>0
    <3>2. pools1[p] = [q EXCEPT !.accRewardPerShare = @ + perShare]
      BY <1>1
    <3>3. pools2[p] = r
      BY <1>1, <3>1, <3>2
    <3> QED  BY <1>1, <3>1, <3>2
  <2>2. d = [[[[c EXCEPT !.accountedRewards = c.accountedRewards + reward]
                  EXCEPT !.paid = paid] EXCEPT !.poolInfo = pools1] EXCEPT !.poolInfo = pools2]
    BY DEF PaidPool, Chef
  <2> HIDE DEF pools, paid, pools1, pools2
  <2> QED  BY <2>1, <2>2 DEF Chef, WithAccounts
<1>6. accounted \in Nat
  BY <1>1
<1>7. /\ d \in Chef /\ SameButAccounts(c, d)
      /\ d.poolInfo = pools /\ d.userInfo = c.userInfo /\ d.updates = c.updates
      /\ d.userBaseClaimable = c.userBaseClaimable
      /\ d.accountedRewards = accounted
  <2> HIDE DEF accounted, pools, paid, r, q
  <2> QED  BY <1>1, <1>3, <1>4, <1>5, <1>6, ChefOf
<1> HIDE DEF pools, paid
<1> QED  BY <1>3, <1>7 DEF Share

\* The slack is a number.
LEMMA SlackInt ==
  ASSUME NEW c, Environment, c \in Chef
  PROVE  /\ Slack(c) \in Int
         /\ [u \in Users |-> EarnedExactly(c, u)] \in [1..NumUsers -> Int]
         /\ Sum([u \in Users |-> EarnedExactly(c, u)]) \in Int
<1> DEFINE f == [u \in Users |-> EarnedExactly(c, u)]
           t == (c.accountedRewards + c.updates) * ACC_REWARD_PRECISION
<1>1. NumUsers \in Nat /\ f \in [1..NumUsers -> Int]
  BY Constants, EarnedTypes
<1>2. t \in Int
  <2>1. c.accountedRewards + c.updates \in Nat
    BY ChefTypes
  <2> QED  BY <2>1, Constants
<1>3. Slack(c) = t - Sum(f)
  BY DEF Slack
<1> HIDE DEF f, t
<1>4. Sum(f) \in Int
  BY <1>1, SumInt
<1> QED  BY <1>1, <1>2, <1>3, <1>4 DEF f

\* d is a sound state in which nobody has earned less than in c, and for which as
\* much is left in hand.
Grown(c) == {d \in Good : /\ \A u \in Users : Earned(c, u) <= Earned(d, u)
                          /\ Slack(c) <= Slack(d)}

\* Growing is a preorder.
LEMMA GrownTransitive ==
  ASSUME NEW c, NEW d, NEW e, Environment, c \in Good, d \in Grown(c), e \in Grown(d)
  PROVE  e \in Grown(c)
<1>1. c \in Chef /\ d \in Chef /\ e \in Chef /\ e \in Good
  BY DEF Grown, Good
<1>2. ASSUME NEW u \in Users PROVE Earned(c, u) <= Earned(e, u)
  <2>1. Earned(c, u) <= Earned(d, u) /\ Earned(d, u) <= Earned(e, u)
    BY DEF Grown
  <2>2. Earned(c, u) \in Int /\ Earned(d, u) \in Int /\ Earned(e, u) \in Int
    BY <1>1, EarnedTypes
  <2> QED  BY <2>1, <2>2
<1>3. Slack(c) <= Slack(e)
  <2>1. Slack(c) <= Slack(d) /\ Slack(d) <= Slack(e)
    BY DEF Grown
  <2>2. Slack(c) \in Int /\ Slack(d) \in Int /\ Slack(e) \in Int
    BY <1>1, SlackInt
  <2> QED  BY <2>1, <2>2
<1> QED  BY <1>1, <1>2, <1>3 DEF Grown

\* Every sound state is one in which nobody has earned less.
LEMMA GrownReflexive ==
  ASSUME NEW c, Environment, c \in Good
  PROVE  c \in Grown(c)
<1>1. c \in Chef
  BY DEF Good
<1>2. \A u \in Users : Earned(c, u) \in Int
  BY <1>1, EarnedTypes
<1>3. \A u \in Users : Earned(c, u) <= Earned(c, u)
  BY <1>2
<1>4. Slack(c) \in Int
  BY <1>1, SlackInt
<1>5. Slack(c) <= Slack(c)
  BY <1>4
<1> QED  BY <1>3, <1>5 DEF Grown

\* Paying a pool keeps the state sound: what its users earn together is within
\* what is taken from the reserve.
LEMMA PaidPoolKeeps ==
  ASSUME NEW c, NEW p, NEW reward, NEW perShare, NEW until, NEW d,
         Environment, c \in Good, p \in Registered,
         reward \in Nat, perShare \in Nat, until \in Nat,
         reward <= c.depositedRewards - c.accountedRewards,
         perShare * c.poolInfo[p].totalSupply <= reward * ACC_REWARD_PRECISION,
         c.poolInfo[p].lastRewardTime < until, until <= now,
         d = PaidPool(c, p, reward, perShare, until)
  PROVE  d \in Grown(c)
<1> DEFINE A == ACC_REWARD_PRECISION
<1>1. p \in Pools /\ c \in Chef /\ A \in Nat \ {0} /\ NumUsers \in Nat /\ Users = 1..NumUsers
  BY PlaceOf, Constants DEF Good
<1>2. /\ d \in Chef /\ SameButAccounts(c, d)
      /\ d.userInfo = c.userInfo /\ d.userBaseClaimable = c.userBaseClaimable
      /\ d.updates = c.updates
      /\ d.accountedRewards = c.accountedRewards + reward
      /\ \A s \in Pools \ {p} : d.poolInfo[s] = c.poolInfo[s]
      /\ d.poolInfo[p].totalSupply = c.poolInfo[p].totalSupply
      /\ d.poolInfo[p].allocPoint = c.poolInfo[p].allocPoint
      /\ d.poolInfo[p].lastRewardTime = until
      /\ Share(d, p) = Share(c, p) + perShare
  BY <1>1, PaidPoolFields
<1>3. /\ TotalsOf(c) /\ Solvent(c) /\ OnlyRegistered(c) /\ Backed(c) /\ OnSchedule(c)
  BY DEF Good
<1>4. \A u \in Users, s \in Pools : Amount(d, u, s) = Amount(c, u, s) /\ Debt(d, u, s) = Debt(c, u, s)
  BY <1>2 DEF Amount, Debt
<1>5. \A s \in Pools : /\ d.poolInfo[s].totalSupply = c.poolInfo[s].totalSupply
                       /\ d.poolInfo[s].allocPoint = c.poolInfo[s].allocPoint
  BY <1>2
<1>6. \A u \in Users, s \in Pools \ {p} : /\ Credit(d, u, s) = Credit(c, u, s)
                                          /\ Pending(d, u, s) = Pending(c, u, s)
  BY <1>2 DEF Credit, Pending, Amount, Debt, Share
<1>7. ASSUME NEW u \in Users
      PROVE  /\ Credit(d, u, p) = Credit(c, u, p) + perShare * Amount(c, u, p)
             /\ Credit(c, u, p) \in Int /\ Credit(d, u, p) \in Int
             /\ Credit(c, u, p) <= Credit(d, u, p)
             /\ Amount(c, u, p) \in Nat
  <2> DEFINE a == Amount(c, u, p)
             s == Share(c, p)
             b == Debt(c, u, p) * A
  <2>1. a \in Nat /\ s \in Nat /\ b \in Int
    <3>1. a \in Nat /\ s \in Nat /\ Debt(c, u, p) \in Nat
      BY <1>1, UserTypes, PoolTypes
    <3> QED  BY <1>1, <3>1
  <2>2. Credit(c, u, p) = a * s - b /\ Credit(d, u, p) = a * (s + perShare) - b
    BY <1>1, <1>2, <1>4 DEF Credit
  <2> HIDE DEF a, s, b
  <2>3. a * (s + perShare) = a * s + perShare * a /\ a * s \in Int /\ perShare * a \in Nat
    BY <2>1
  <2> QED  BY <2>1, <2>2, <2>3 DEF a
<1>8. TotalsOf(d)
  <2>1. ASSUME NEW s \in Pools
        PROVE  [u \in Users |-> Amount(d, u, s)] = [u \in Users |-> Amount(c, u, s)]
    BY <1>4
  <2>2. [i \in 1..Len(registeredTokens) |-> d.poolInfo[registeredTokens[i]].allocPoint]
          = [i \in 1..Len(registeredTokens) |-> c.poolInfo[registeredTokens[i]].allocPoint]
    BY <1>5, PlaceOf
  <2>3. d.totalAllocPoint = c.totalAllocPoint
    BY <1>2 DEF SameButAccounts
  <2> QED  BY <1>3, <1>5, <2>1, <2>2, <2>3 DEF TotalsOf
<1>9. Solvent(d)
  <2>1. d.accountedRewards <= d.depositedRewards
    <3>1. d.depositedRewards = c.depositedRewards
      BY <1>2 DEF SameButAccounts
    <3>2. c.accountedRewards \in Nat /\ c.depositedRewards \in Nat
      BY <1>1, ChefTypes
    <3> QED  BY <1>2, <3>1, <3>2
  <2>2. ASSUME NEW u \in Users, NEW s \in Pools PROVE Credit(d, u, s) >= 0
    <3>1. Credit(c, u, s) >= 0
      BY <1>3 DEF Solvent
    <3>2. CASE s = p
      BY <1>7, <3>1, <3>2
    <3> QED  BY <1>6, <3>1, <3>2
  <2>3. \A s \in Pools : d.poolInfo[s].lastRewardTime <= now
    BY <1>2, <1>3 DEF Solvent
  <2> QED  BY <2>1, <2>2, <2>3 DEF Solvent
<1>10. OnlyRegistered(d)
  <2>1. ASSUME NEW s \in Registered
        PROVE  d.poolInfo[s].lastRewardTime >= 1 /\ d.poolInfo[s].allocPoint >= 1
    <3>1. s \in Pools /\ c.poolInfo[s].lastRewardTime >= 1 /\ c.poolInfo[s].allocPoint >= 1
      BY <1>3, PlaceOf DEF OnlyRegistered
    <3>2. CASE s = p
      BY <1>1, <1>2, <3>1, <3>2, PoolTypes
    <3> QED  BY <1>2, <3>1, <3>2
  <2>2. \A u \in Users, s \in Pools \ Registered : Amount(d, u, s) = 0 /\ Debt(d, u, s) = 0
    BY <1>3, <1>4 DEF OnlyRegistered
  <2> QED  BY <2>1, <2>2 DEF OnlyRegistered
<1>11. \A u \in Users : SetAside(d, u) = SetAside(c, u) /\ SetAside(c, u) * A \in Int
                        /\ SetAside(c, u) \in Nat
  BY <1>1, <1>2, EarnedTypes DEF SetAside
<1>12. ASSUME NEW u \in Users
       PROVE  /\ EarnedExactly(d, u) = EarnedExactly(c, u) + perShare * Amount(c, u, p)
              /\ Earned(c, u) <= Earned(d, u)
  <2>1. /\ Earned(d, u) = Earned(c, u) + SetAside(d, u) - SetAside(c, u)
                             + Pending(d, u, p) - Pending(c, u, p)
        /\ EarnedExactly(d, u) = EarnedExactly(c, u)
                             + SetAside(d, u) * A - SetAside(c, u) * A
                             + Credit(d, u, p) - Credit(c, u, p)
    BY <1>1, <1>2, <1>6, PlaceOf, EarnedMoves
  <2>2. Pending(c, u, p) <= Pending(d, u, p)
    BY <1>1, <1>2, <1>7, PendingGrows
  <2>3. /\ Pending(c, u, p) \in Int /\ Pending(d, u, p) \in Int
        /\ Earned(c, u) \in Int /\ EarnedExactly(c, u) \in Int
    BY <1>1, <1>2, PendingRounds, EarnedTypes
  <2>4. perShare * Amount(c, u, p) \in Int
    BY <1>7
  <2>5. Earned(c, u) <= Earned(d, u)
    BY <1>11, <2>1, <2>2, <2>3
  <2> DEFINE g == perShare * Amount(c, u, p)
             x == SetAside(c, u) * A
  <2>6. /\ EarnedExactly(d, u) = EarnedExactly(c, u) + x - x + Credit(d, u, p) - Credit(c, u, p)
        /\ Credit(d, u, p) = Credit(c, u, p) + g /\ x \in Int /\ g \in Int
    BY <1>7, <1>11, <2>1, <2>4
  <2> HIDE DEF g, x
  <2>7. EarnedExactly(d, u) = EarnedExactly(c, u) + g
    BY <1>7, <2>3, <2>6
  <2> QED  BY <2>5, <2>7 DEF g
<1>13. Backed(d) /\ Slack(c) <= Slack(d)
  <2> DEFINE f == [u \in Users |-> EarnedExactly(c, u)]
             g == [u \in Users |-> Amount(c, u, p)]
             h == [u \in Users |-> EarnedExactly(d, u)]
  <2>1. f \in [1..NumUsers -> Int] /\ g \in [1..NumUsers -> Int] /\ h \in [1..NumUsers -> Int]
    BY <1>1, <1>2, <1>7, EarnedTypes
  <2>2. perShare \in Int /\ NumUsers \in Nat /\ PlusScaledTo(h, f, perShare, g, NumUsers)
    BY <1>1, <1>12 DEF PlusScaledTo
  <2>3. Slack(c) = (c.accountedRewards + c.updates) * A - Sum(f)
        /\ Sum(g) = c.poolInfo[p].totalSupply /\ Slack(c) >= 0
    BY <1>1, <1>3 DEF Backed, Slack, TotalsOf
  <2> DEFINE v == (c.accountedRewards + reward + c.updates) * A
  <2>4. Slack(d) = v - Sum(h)
    BY <1>2 DEF Slack
  <2> HIDE DEF f, g, h
  <2>5. Sum(h) = Sum(f) + perShare * Sum(g)
    BY <2>1, <2>2, SumPlusScaled
  <2> DEFINE k == perShare * Sum(g)
             m == reward * A
             t == (c.accountedRewards + c.updates) * A
  <2>6. c.accountedRewards \in Nat /\ c.updates \in Nat
    BY <1>1, ChefTypes
  <2>7. v = t + m
    BY <1>1, <2>6
  <2>8. k <= m
    BY <2>3
  <2>9. Sum(f) \in Int /\ Sum(g) \in Int
    BY <1>1, <2>1, SumInt
  <2>10. k \in Int /\ m \in Int /\ t \in Int
    BY <1>1, <2>6, <2>9
  <2>11. Sum(h) = Sum(f) + k
    BY <2>5
  <2>12. Slack(c) = t - Sum(f) /\ Slack(c) >= 0
    BY <2>3
  <2> HIDE DEF k, m, t, v
  <2> QED  BY <2>4, <2>7, <2>8, <2>9, <2>10, <2>11, <2>12 DEF Backed
<1>14. OnSchedule(d) /\ Requalified(d)
  <2>1. Requalified(c)
    BY DEF Good
  <2> QED  BY <1>2, <1>3, <2>1 DEF OnSchedule, SameButAccounts, Requalified
<1> QED  BY <1>2, <1>8, <1>9, <1>10, <1>12, <1>13, <1>14 DEF Grown, Good

\* d is c but for what paying pools changes.
Paid(c) == {d \in Grown(c) : /\ SameButAccounts(c, d)
                             /\ d.userInfo = c.userInfo
                             /\ d.userBaseClaimable = c.userBaseClaimable
                             /\ d.updates = c.updates}

\* _updatePool keeps the state sound.
LEMMA UpdatePoolKeeps ==
  ASSUME NEW c, NEW p, Environment, c \in Good, p \in Registered
  PROVE  UpdatePool(c, p) \in Paid(c)
<1>1. CASE UpdatePool(c, p) = c
  BY <1>1, GrownReflexive DEF Paid, SameButAccounts
<1>2. CASE UpdatePool(c, p) # c
  <2>1. PICK reward, perShare, until \in Nat :
              /\ UpdatePool(c, p) = PaidPool(c, p, reward, perShare, until)
              /\ reward <= c.depositedRewards - c.accountedRewards
              /\ perShare * c.poolInfo[p].totalSupply <= reward * ACC_REWARD_PRECISION
              /\ c.poolInfo[p].lastRewardTime < until
              /\ until <= now
    BY <1>2, UpdatePoolPays
  <2> DEFINE d == UpdatePool(c, p)
  <2>2. d \in Grown(c)
    BY <2>1, PaidPoolKeeps
  <2>3. c \in Chef /\ p \in Pools /\ d = PaidPool(c, p, reward, perShare, until)
    BY <2>1, PlaceOf DEF Good
  <2> HIDE DEF d
  <2>4. SameButAccounts(c, d) /\ d.userInfo = c.userInfo
        /\ d.userBaseClaimable = c.userBaseClaimable /\ d.updates = c.updates
    BY <2>3, PaidPoolFields
  <2> QED  BY <2>2, <2>4 DEF Paid, d
<1> QED  BY <1>1, <1>2

\* Paying pools in turn.
LEMMA PaidTransitive ==
  ASSUME NEW c, NEW d, NEW e, Environment, c \in Good, d \in Paid(c), e \in Paid(d)
  PROVE  e \in Paid(c)
<1>1. e \in Grown(c)
  BY GrownTransitive DEF Paid
<1> QED  BY <1>1 DEF Paid, SameButAccounts

-----------------------------------------------------------------------------
(* Registering an amount *)

\* c with b registered for u in p, x of what was pending set aside, and k updates
\* counted.
Rebook(c, u, p, b, x, k) ==
  WithAccounts(c,
    [c.poolInfo EXCEPT ![p] = [c.poolInfo[p] EXCEPT !.totalSupply = @ - Amount(c, u, p) + b]],
    [c.userInfo EXCEPT ![u] = [c.userInfo[u] EXCEPT ![p] =
       [amount |-> b, rewardDebt |-> (b * Share(c, p)) \div ACC_REWARD_PRECISION]]],
    [c.userBaseClaimable EXCEPT ![u] = @ + x],
    c.accountedRewards, c.paid, c.updates + k)

\* What is left of a registered amount is within the total.
LEMMA AmountIsPart ==
  ASSUME NEW c, NEW u, NEW p, c \in Good, u \in Users, p \in Pools
  PROVE  Amount(c, u, p) \in Nat /\ Amount(c, u, p) <= c.poolInfo[p].totalSupply
<1> DEFINE f == [v \in Users |-> Amount(c, v, p)]
<1>1. c \in Chef /\ c.poolInfo[p].totalSupply = Sum(f)
  BY DEF Good, TotalsOf
<1>2. NumUsers \in Nat /\ f \in [1..NumUsers -> Nat] /\ u \in 1..NumUsers
  BY <1>1, UserTypes, Constants
<1>3. f[u] = Amount(c, u, p)
  OBVIOUS
<1> HIDE DEF f
<1>4. f[u] <= Sum(f)
  BY <1>2, SumNat
<1> QED  BY <1>1, <1>2, <1>3, <1>4

\* The fields of the state after registering an amount.
LEMMA RebookFields ==
  ASSUME NEW c, NEW u, NEW p, NEW b, NEW x, NEW k, NEW d,
         c \in Good, u \in Users, p \in Pools, b \in Nat, x \in Nat, k \in Nat,
         d = Rebook(c, u, p, b, x, k)
  PROVE  /\ d \in Chef /\ SameButAccounts(c, d)
         /\ d.accountedRewards = c.accountedRewards /\ d.updates = c.updates + k
         /\ d.userBaseClaimable[u] = c.userBaseClaimable[u] + x
         /\ \A v \in Users \ {u} : d.userBaseClaimable[v] = c.userBaseClaimable[v]
         /\ \A s \in Pools \ {p} : d.poolInfo[s] = c.poolInfo[s]
         /\ d.poolInfo[p].totalSupply = c.poolInfo[p].totalSupply - Amount(c, u, p) + b
         /\ d.poolInfo[p].allocPoint = c.poolInfo[p].allocPoint
         /\ d.poolInfo[p].lastRewardTime = c.poolInfo[p].lastRewardTime
         /\ Share(d, p) = Share(c, p)
         /\ Amount(d, u, p) = b
         /\ Debt(d, u, p) = (b * Share(c, p)) \div ACC_REWARD_PRECISION
         /\ \A v \in Users, s \in Pools :
              v # u \/ s # p => Amount(d, v, s) = Amount(c, v, s) /\ Debt(d, v, s) = Debt(c, v, s)
<1> DEFINE q == c.poolInfo[p]
           r == [q EXCEPT !.totalSupply = @ - Amount(c, u, p) + b]
           debt == (b * Share(c, p)) \div ACC_REWARD_PRECISION
           i == [amount |-> b, rewardDebt |-> debt]
           pools == [c.poolInfo EXCEPT ![p] = r]
           mine == [c.userInfo[u] EXCEPT ![p] = i]
           users == [c.userInfo EXCEPT ![u] = mine]
           base == [c.userBaseClaimable EXCEPT ![u] = @ + x]
<1>1. /\ q \in PoolInfo /\ c.poolInfo \in [Pools -> PoolInfo] /\ c.paid \in [Pools -> Nat]
      /\ c.userInfo \in [Users -> [Pools -> UserInfo]] /\ c.userBaseClaimable \in [Users -> Nat]
      /\ c.accountedRewards \in Nat /\ c.updates \in Nat /\ c \in Chef
  BY ChefTypes DEF Good
<1>2. /\ r \in PoolInfo /\ r.totalSupply = q.totalSupply - Amount(c, u, p) + b
      /\ r.allocPoint = q.allocPoint /\ r.lastRewardTime = q.lastRewardTime
      /\ r.accRewardPerShare = q.accRewardPerShare
  <2>1. Amount(c, u, p) \in Nat /\ Amount(c, u, p) <= q.totalSupply /\ q.totalSupply \in Nat
    BY <1>1, AmountIsPart, PoolTypes
  <2>2. q.totalSupply - Amount(c, u, p) + b \in Nat
    BY <2>1
  <2> HIDE DEF q
  <2> QED  BY <1>1, <2>2 DEF PoolInfo
<1>3. debt \in Nat
  <2>1. b * Share(c, p) \in Nat
    BY <1>1, PoolTypes
  <2> QED  BY <2>1, QuotientNat, Constants
<1> HIDE DEF debt, r
<1>4. i \in UserInfo /\ i.amount = b /\ i.rewardDebt = debt
  BY <1>3 DEF UserInfo
<1> HIDE DEF i
<1>5. mine \in [Pools -> UserInfo] /\ mine[p] = i /\ \A s \in Pools \ {p} : mine[s] = c.userInfo[u][s]
  BY <1>1, <1>4
<1>6. pools \in [Pools -> PoolInfo] /\ pools[p] = r
      /\ \A s \in Pools \ {p} : pools[s] = c.poolInfo[s]
  BY <1>1, <1>2
<1> HIDE DEF mine
<1>7. users \in [Users -> [Pools -> UserInfo]] /\ users[u] = mine
      /\ \A v \in Users \ {u} : users[v] = c.userInfo[v]
  BY <1>1, <1>5
<1>8. base \in [Users -> Nat] /\ base[u] = c.userBaseClaimable[u] + x
      /\ \A v \in Users \ {u} : base[v] = c.userBaseClaimable[v]
  BY <1>1
<1>9. c.updates + k \in Nat
  BY <1>1
<1>10. d = WithAccounts(c, pools, users, base, c.accountedRewards, c.paid, c.updates + k)
  BY DEF Rebook, pools, users, base, mine, i, r, debt
<1> HIDE DEF pools, users, base
<1>11. /\ d \in Chef /\ SameButAccounts(c, d)
       /\ d.poolInfo = pools /\ d.userInfo = users /\ d.userBaseClaimable = base
       /\ d.accountedRewards = c.accountedRewards /\ d.updates = c.updates + k
  BY <1>1, <1>6, <1>7, <1>8, <1>9, <1>10, ChefOf
<1>12. Share(d, p) = Share(c, p)
  BY <1>2, <1>6, <1>11 DEF Share
<1>13. Amount(d, u, p) = b /\ Debt(d, u, p) = debt
  BY <1>4, <1>5, <1>7, <1>11 DEF Amount, Debt
<1>14. ASSUME NEW v \in Users, NEW s \in Pools, v # u \/ s # p
       PROVE  Amount(d, v, s) = Amount(c, v, s) /\ Debt(d, v, s) = Debt(c, v, s)
  BY <1>5, <1>7, <1>11, <1>14 DEF Amount, Debt
<1> QED  BY <1>2, <1>6, <1>8, <1>11, <1>12, <1>13, <1>14 DEF debt

\* What registering an amount does to the account of the user.  An update of a
\* balance (k = 1) rounds once; claiming leaves the amount, and rounds nothing.
LEMMA RebookedAccount ==
  ASSUME NEW c, NEW u, NEW p, NEW b, NEW x, NEW k, NEW d,
         Environment, c \in Good, u \in Users, p \in Registered,
         b \in Nat, x \in Nat, k \in {0, 1}, k = 0 => b = Amount(c, u, p),
         d = Rebook(c, u, p, b, x, k)
  PROVE  /\ Pending(d, u, p) = 0
         /\ Credit(d, u, p) \in Nat
         /\ Credit(d, u, p) <= Credit(c, u, p) - Pending(c, u, p) * ACC_REWARD_PRECISION
                                 + k * ACC_REWARD_PRECISION
<1> DEFINE A == ACC_REWARD_PRECISION
           S == Share(c, p)
           y == b * S
           q == y \div A
           a == Amount(c, u, p)
           w == Debt(c, u, p)
           z == a * S
           r == z \div A
<1>1. c \in Chef /\ p \in Pools /\ A \in Nat \ {0}
  BY PlaceOf, Constants DEF Good
<1>2. S \in Nat /\ a \in Nat /\ w \in Nat
  BY <1>1, PoolTypes, UserTypes
<1>3. d \in Chef /\ Share(d, p) = S /\ Amount(d, u, p) = b /\ Debt(d, u, p) = q
  BY <1>1, RebookFields
<1> HIDE DEF S, a
<1>4. y \in Nat /\ z \in Nat /\ (k = 0 => y = z)
  <2>1. k = 0 => b = a
    BY DEF a
  <2> QED  BY <1>2, <2>1
<1>5. /\ Pending(d, u, p) = q - q /\ Credit(d, u, p) = y - q * A
      /\ Pending(c, u, p) = r - w /\ Credit(c, u, p) = z - w * A
  BY <1>3 DEF Pending, Credit, Amount, Debt, Share, a, S
<1> HIDE DEF y, z, w
<1>6. q \in Nat /\ q * A <= y /\ y < q * A + A /\ r \in Nat /\ r * A <= z /\ (k = 0 => q = r)
  BY <1>1, <1>4, Quotient, QuotientNat
<1> HIDE DEF q, r
<1>7. (r - w) * A = r * A - w * A /\ r * A \in Int /\ w * A \in Int /\ q * A \in Int
  BY <1>1, <1>2, <1>6
<1>8. y - q * A \in Nat /\ y - q * A < A
  BY <1>1, <1>4, <1>6, <1>7
<1>9. Credit(c, u, p) - Pending(c, u, p) * A = z - r * A
  BY <1>1, <1>4, <1>5, <1>7
<1>10. CASE k = 0
  <2>1. Credit(d, u, p) = z - r * A
    BY <1>4, <1>5, <1>6, <1>10
  <2>2. k * A = 0 /\ z - r * A \in Int
    BY <1>1, <1>4, <1>7, <1>10
  <2>3. Credit(d, u, p) <= (z - r * A) + k * A
    BY <2>1, <2>2
  <2> QED  BY <1>5, <1>6, <1>8, <1>9, <2>3
<1>11. CASE k = 1
  <2>1. k * A = A /\ z - r * A >= 0 /\ z - r * A \in Int
    BY <1>1, <1>4, <1>6, <1>7, <1>11
  <2>2. Credit(d, u, p) <= (z - r * A) + k * A
    BY <1>1, <1>5, <1>8, <2>1
  <2> QED  BY <1>5, <1>6, <1>8, <1>9, <2>2
<1> QED  BY <1>10, <1>11

\* d is c with the same users eligible, and no amount changed but u's in p.
Touched(c, d, u, p) ==
  /\ SameButAccounts(c, d)
  /\ \A v \in Users, s \in Pools : v # u \/ s # p => Amount(d, v, s) = Amount(c, v, s)

\* Registering an amount keeps the state sound, and what is not set aside of the
\* user's pending rewards stays in hand.
LEMMA RebookKeeps ==
  ASSUME NEW c, NEW u, NEW p, NEW b, NEW x, NEW k, NEW d,
         Environment, c \in Good, u \in Users, p \in Registered,
         b \in Nat, x \in Nat, k \in {0, 1}, k = 0 => b = Amount(c, u, p),
         x <= Pending(c, u, p),
         d = Rebook(c, u, p, b, x, k)
  PROVE  /\ d \in Good /\ Touched(c, d, u, p) /\ Amount(d, u, p) = b
         /\ d.userBaseClaimable[u] = c.userBaseClaimable[u] + x
         /\ \A v \in Users \ {u} : Earned(d, v) = Earned(c, v)
         /\ Earned(d, u) = Earned(c, u) + x - Pending(c, u, p)
         /\ Slack(c) + (Pending(c, u, p) - x) * ACC_REWARD_PRECISION <= Slack(d)
<1> DEFINE A == ACC_REWARD_PRECISION
           P == Pending(c, u, p)
<1>1. c \in Chef /\ p \in Pools /\ A \in Nat \ {0} /\ NumUsers \in Nat /\ Users = 1..NumUsers
      /\ k \in Nat
  BY PlaceOf, Constants DEF Good
<1>2. /\ d \in Chef /\ SameButAccounts(c, d)
      /\ d.accountedRewards = c.accountedRewards /\ d.updates = c.updates + k
      /\ d.userBaseClaimable[u] = c.userBaseClaimable[u] + x
      /\ \A v \in Users \ {u} : d.userBaseClaimable[v] = c.userBaseClaimable[v]
      /\ \A s \in Pools \ {p} : d.poolInfo[s] = c.poolInfo[s]
      /\ d.poolInfo[p].totalSupply = c.poolInfo[p].totalSupply - Amount(c, u, p) + b
      /\ d.poolInfo[p].allocPoint = c.poolInfo[p].allocPoint
      /\ d.poolInfo[p].lastRewardTime = c.poolInfo[p].lastRewardTime
      /\ Share(d, p) = Share(c, p)
      /\ Amount(d, u, p) = b
      /\ Debt(d, u, p) = (b * Share(c, p)) \div ACC_REWARD_PRECISION
      /\ \A v \in Users, s \in Pools :
              v # u \/ s # p => Amount(d, v, s) = Amount(c, v, s) /\ Debt(d, v, s) = Debt(c, v, s)
  BY <1>1, RebookFields
<1>3. /\ TotalsOf(c) /\ Solvent(c) /\ OnlyRegistered(c) /\ Backed(c) /\ OnSchedule(c)
      /\ Requalified(c)
  BY DEF Good
<1>4. /\ Pending(d, u, p) = 0
      /\ Credit(d, u, p) \in Nat
      /\ Credit(d, u, p) <= Credit(c, u, p) - P * A + k * A
  BY RebookedAccount
<1>5. ASSUME NEW v \in Users, NEW s \in Pools, v # u \/ s # p
      PROVE  Credit(d, v, s) = Credit(c, v, s) /\ Pending(d, v, s) = Pending(c, v, s)
  <2>1. Amount(d, v, s) = Amount(c, v, s) /\ Debt(d, v, s) = Debt(c, v, s)
    BY <1>2, <1>5
  <2>2. Share(d, s) = Share(c, s)
    BY <1>2 DEF Share
  <2> QED  BY <2>1, <2>2 DEF Credit, Pending, Amount, Debt, Share
<1>6. TotalsOf(d)
  <2>1. ASSUME NEW s \in Pools
        PROVE  d.poolInfo[s].totalSupply = Sum([v \in Users |-> Amount(d, v, s)])
    <3> DEFINE f == [v \in Users |-> Amount(c, v, s)]
               g == [v \in Users |-> Amount(d, v, s)]
    <3>1. c.poolInfo[s].totalSupply = Sum(f)
      BY <1>3 DEF TotalsOf
    <3>2. CASE s # p
      <4>1. f = g
        BY <1>2, <3>2
      <4> QED  BY <1>2, <3>1, <3>2, <4>1
    <3>3. CASE s = p
      <4>0. ASSUME NEW v \in Users PROVE Amount(c, v, s) \in Int /\ Amount(d, v, s) \in Int
        <5>1. c \in Chef /\ d \in Chef
          BY <1>1, <1>2
        <5>2. Amount(c, v, s) \in Nat /\ Amount(d, v, s) \in Nat
          BY <5>1, UserTypes
        <5> QED  BY <5>2
      <4>1. /\ f \in [1..NumUsers -> Int] /\ g \in [1..NumUsers -> Int] /\ u \in 1..NumUsers
            /\ \A v \in 1..NumUsers : v # u => g[v] = f[v]
        BY <1>1, <1>2, <4>0
      <4>2. f[u] = Amount(c, u, p) /\ g[u] = b
        BY <1>2, <3>3
      <4> HIDE DEF f, g
      <4>3. Sum(g) = Sum(f) - f[u] + g[u]
        BY <1>1, <4>1, SumMoves
      <4> QED  BY <1>2, <3>1, <3>3, <4>2, <4>3 DEF g
    <3> QED  BY <3>2, <3>3
  <2>2. [i \in 1..Len(registeredTokens) |-> d.poolInfo[registeredTokens[i]].allocPoint]
          = [i \in 1..Len(registeredTokens) |-> c.poolInfo[registeredTokens[i]].allocPoint]
    BY <1>2, PlaceOf
  <2>3. d.totalAllocPoint = c.totalAllocPoint
    BY <1>2 DEF SameButAccounts
  <2> QED  BY <1>3, <2>1, <2>2, <2>3 DEF TotalsOf
<1>7. Solvent(d)
  <2>1. d.accountedRewards <= d.depositedRewards
    BY <1>2, <1>3 DEF SameButAccounts, Solvent
  <2>2. ASSUME NEW v \in Users, NEW s \in Pools PROVE Credit(d, v, s) >= 0
    <3>1. Credit(c, v, s) >= 0
      BY <1>3 DEF Solvent
    <3>2. CASE v = u /\ s = p
      BY <1>4, <3>2
    <3> QED  BY <1>5, <3>1, <3>2
  <2>3. \A s \in Pools : d.poolInfo[s].lastRewardTime <= now
    BY <1>2, <1>3 DEF Solvent
  <2> QED  BY <2>1, <2>2, <2>3 DEF Solvent
<1>8. OnlyRegistered(d)
  <2>1. ASSUME NEW s \in Registered
        PROVE  d.poolInfo[s].lastRewardTime >= 1 /\ d.poolInfo[s].allocPoint >= 1
    <3>1. s \in Pools /\ c.poolInfo[s].lastRewardTime >= 1 /\ c.poolInfo[s].allocPoint >= 1
      BY <1>3, PlaceOf DEF OnlyRegistered
    <3> QED  BY <1>2, <3>1
  <2>2. \A v \in Users, s \in Pools \ Registered : Amount(d, v, s) = 0 /\ Debt(d, v, s) = 0
    BY <1>2, <1>3 DEF OnlyRegistered
  <2> QED  BY <2>1, <2>2 DEF OnlyRegistered
<1>9. OnSchedule(d) /\ Requalified(d)
  BY <1>2, <1>3 DEF OnSchedule, SameButAccounts, Requalified
<1>10. ASSUME NEW v \in Users, v # u
       PROVE  Earned(d, v) = Earned(c, v) /\ EarnedExactly(d, v) = EarnedExactly(c, v)
  <2>1. SetAside(d, v) = SetAside(c, v)
    BY <1>2, <1>10 DEF SetAside
  <2>2. \A s \in Registered : /\ Pending(d, v, s) = Pending(c, v, s)
                              /\ Credit(d, v, s) = Credit(c, v, s)
    BY <1>5, <1>10, PlaceOf
  <2> QED  BY <1>1, <1>2, <2>1, <2>2, EarnedStays
<1>11. /\ Earned(d, u) = Earned(c, u) + x - P
       /\ EarnedExactly(d, u) = EarnedExactly(c, u) + x * A + Credit(d, u, p) - Credit(c, u, p)
  <2>1. /\ Earned(d, u) = Earned(c, u) + SetAside(d, u) - SetAside(c, u)
                             + Pending(d, u, p) - Pending(c, u, p)
        /\ EarnedExactly(d, u) = EarnedExactly(c, u)
                             + SetAside(d, u) * A - SetAside(c, u) * A
                             + Credit(d, u, p) - Credit(c, u, p)
    BY <1>1, <1>2, <1>5, PlaceOf, EarnedMoves
  <2>2. SetAside(d, u) = SetAside(c, u) + x /\ SetAside(c, u) \in Nat
    <3>1. SetAside(c, u) = vested[u] + c.userBaseClaimable[u] /\ vested[u] \in Nat
          /\ c.userBaseClaimable[u] \in Nat /\ SetAside(c, u) \in Nat
      BY <1>1, EarnedTypes, UserTypes DEF SetAside, Environment
    <3>2. SetAside(d, u) = vested[u] + (c.userBaseClaimable[u] + x)
      BY <1>2 DEF SetAside
    <3> QED  BY <3>1, <3>2
  <2>3. /\ P \in Int /\ Earned(c, u) \in Int /\ EarnedExactly(c, u) \in Int
        /\ Credit(d, u, p) \in Int /\ Credit(c, u, p) \in Int
    BY <1>1, <1>2, PendingRounds, EarnedTypes, UserTypes
  <2>4. SetAside(d, u) * A = SetAside(c, u) * A + x * A /\ SetAside(c, u) * A \in Int
        /\ x * A \in Int
    BY <1>1, <2>2
  <2>5. Earned(d, u) = Earned(c, u) + x - P
    <3>1. P = Pending(c, u, p)
      OBVIOUS
    <3> HIDE DEF P
    <3> QED  BY <1>4, <2>1, <2>2, <2>3, <3>1
  <2> DEFINE s0 == SetAside(c, u) * A
             s1 == SetAside(d, u) * A
             s2 == x * A
  <2>6. /\ s1 = s0 + s2 /\ s0 \in Int /\ s2 \in Int
        /\ EarnedExactly(d, u) = EarnedExactly(c, u) + s1 - s0 + Credit(d, u, p) - Credit(c, u, p)
    BY <2>1, <2>4
  <2> HIDE DEF s0, s1, s2
  <2>7. EarnedExactly(d, u) = EarnedExactly(c, u) + s2 + Credit(d, u, p) - Credit(c, u, p)
    BY <2>3, <2>6
  <2> QED  BY <2>5, <2>7 DEF s2
<1>12. Slack(c) + (P - x) * A <= Slack(d)
  <2> DEFINE f == [v \in Users |-> EarnedExactly(c, v)]
             h == [v \in Users |-> EarnedExactly(d, v)]
             t == (c.accountedRewards + c.updates) * A
             v0 == (c.accountedRewards + (c.updates + k)) * A
  <2>1. /\ f \in [1..NumUsers -> Int] /\ h \in [1..NumUsers -> Int] /\ u \in 1..NumUsers
        /\ \A v \in 1..NumUsers : v # u => h[v] = f[v]
    BY <1>1, <1>2, <1>10, EarnedTypes
  <2>2. f[u] = EarnedExactly(c, u) /\ h[u] = EarnedExactly(d, u)
    OBVIOUS
  <2>3. Slack(c) = t - Sum(f)
    BY DEF Slack
  <2>4. Slack(d) = v0 - Sum(h)
    BY <1>2 DEF Slack
  <2> HIDE DEF f, h
  <2>5. Sum(h) = Sum(f) - f[u] + h[u]
    BY <1>1, <2>1, SumMoves
  <2>6. Sum(f) \in Int
    BY <1>1, <2>1, SumInt
  <2>7. v0 = t + k * A /\ t \in Int /\ k * A \in Int
    <3>1. c.accountedRewards \in Nat /\ c.updates \in Nat
      BY <1>1, ChefTypes
    <3> QED  BY <1>1, <3>1
  <2>8. /\ P \in Int /\ EarnedExactly(c, u) \in Int /\ EarnedExactly(d, u) \in Int
        /\ Credit(d, u, p) \in Int /\ Credit(c, u, p) \in Int
    BY <1>1, <1>2, PendingRounds, EarnedTypes, UserTypes
  <2>9. (P - x) * A = P * A - x * A /\ P * A \in Int /\ x * A \in Int
    <3> HIDE DEF P
    <3> QED  BY <1>1, <2>8
  <2> DEFINE k1 == k * A
             p1 == P * A
             x1 == x * A
             px == (P - x) * A
  <2>10. /\ px = p1 - x1 /\ p1 \in Int /\ x1 \in Int /\ k1 \in Int /\ v0 = t + k1
         /\ Credit(d, u, p) <= Credit(c, u, p) - p1 + k1
         /\ EarnedExactly(d, u) = EarnedExactly(c, u) + x1 + Credit(d, u, p) - Credit(c, u, p)
    BY <1>4, <1>11, <2>7, <2>9
  <2>11. t \in Int
    BY <2>7
  <2> HIDE DEF k1, p1, x1, px, t, v0
  <2> QED
    <3>1. Slack(c) + px <= Slack(d)
      BY <2>2, <2>3, <2>4, <2>5, <2>6, <2>8, <2>10, <2>11
    <3> QED  BY <3>1 DEF px
<1>13. Backed(d)
  <2>1. P - x >= 0 /\ P - x \in Int
    BY <1>1, PendingRounds
  <2>2. (P - x) * A >= 0 /\ (P - x) * A \in Int
    <3> DEFINE y == P - x
    <3>1. y >= 0 /\ y \in Int
      BY <2>1
    <3> HIDE DEF y
    <3>2. y * A >= 0 /\ y * A \in Int
      BY <1>1, <3>1
    <3> QED  BY <3>2 DEF y
  <2> DEFINE z == (P - x) * A
  <2>3. z >= 0 /\ z \in Int /\ Slack(c) + z <= Slack(d) /\ Slack(c) >= 0
    BY <1>3, <1>12, <2>2 DEF Backed
  <2>4. Slack(c) \in Int /\ Slack(d) \in Int
    BY <1>1, <1>2, SlackInt
  <2> HIDE DEF z
  <2> QED  BY <2>3, <2>4 DEF Backed
<1>14. Touched(c, d, u, p)
  BY <1>2 DEF Touched
<1>15. d \in Good
  BY <1>2, <1>6, <1>7, <1>8, <1>9, <1>13 DEF Good
<1> QED  BY <1>2, <1>10, <1>11, <1>12, <1>14, <1>15

\* _handleActionAfterForToken updates the pool, and registers the balance there.
LEMMA HandleRebooks ==
  ASSUME NEW c, NEW u, NEW p, NEW b,
         Environment, c \in Good, u \in Users, p \in Registered, b \in Nat
  PROVE  LET d == UpdatePool(c, p)
         IN  HandleActionAfterForToken(c, u, p, b) = Rebook(d, u, p, b, Pending(d, u, p), 1)
<1> DEFINE d == UpdatePool(c, p)
           x == Pending(d, u, p)
           i == [amount |-> b, rewardDebt |-> (b * Share(d, p)) \div ACC_REWARD_PRECISION]
           pools == [d.poolInfo EXCEPT ![p] = [d.poolInfo[p] EXCEPT
                        !.totalSupply = @ - Amount(d, u, p) + b]]
           mine == [d.userInfo[u] EXCEPT ![p] = i]
           users == [d.userInfo EXCEPT ![u] = mine]
           base == [d.userBaseClaimable EXCEPT ![u] = @ + x]
<1>1. d \in Chef
  BY UpdatePoolKeeps DEF Paid, Grown, Good
<1>2. HandleActionAfterForToken(c, u, p, b)
        = [d EXCEPT !.userBaseClaimable = base, !.poolInfo = pools, !.userInfo = users,
                    !.updates = d.updates + 1]
  BY DEF HandleActionAfterForToken, Amount, Share, Chef
<1>3. Rebook(d, u, p, b, x, 1)
        = WithAccounts(d, pools, users, base, d.accountedRewards, d.paid, d.updates + 1)
  BY DEF Rebook
<1> HIDE DEF pools, users, base, x, d
<1>4. WithAccounts(d, pools, users, base, d.accountedRewards, d.paid, d.updates + 1)
        = [d EXCEPT !.userBaseClaimable = base, !.poolInfo = pools, !.userInfo = users,
                    !.updates = d.updates + 1]
  BY <1>1 DEF WithAccounts, Chef
<1> QED  BY <1>2, <1>3, <1>4 DEF d, x

\* ... and keeps the state sound: nobody has earned less, and no other amount changes.
LEMMA HandleKeeps ==
  ASSUME NEW c, NEW u, NEW p, NEW b,
         Environment, c \in Good, u \in Users, p \in Registered, b \in Nat
  PROVE  LET d == HandleActionAfterForToken(c, u, p, b)
         IN  d \in Grown(c) /\ Touched(c, d, u, p) /\ Amount(d, u, p) = b
<1> DEFINE e == UpdatePool(c, p)
           x == Pending(e, u, p)
           d == Rebook(e, u, p, b, x, 1)
<1>1. e \in Paid(c) /\ e \in Grown(c) /\ e \in Good /\ e \in Chef /\ p \in Pools
  BY UpdatePoolKeeps, PlaceOf DEF Paid, Grown, Good
<1>2. x \in Nat
  <2>1. Credit(e, u, p) >= 0
    BY <1>1 DEF Good, Solvent
  <2> HIDE DEF e
  <2> QED  BY <1>1, <2>1, PendingRounds
<1>3. d = HandleActionAfterForToken(c, u, p, b)
  BY HandleRebooks
<1>4. x <= Pending(e, u, p)
  BY <1>2
<1> HIDE DEF e
<1>5. x = Pending(e, u, p)
  OBVIOUS
<1> HIDE DEF x
<1>6. d = Rebook(e, u, p, b, x, 1)
  OBVIOUS
<1> HIDE DEF d
<1>7. /\ d \in Good /\ Touched(e, d, u, p) /\ Amount(d, u, p) = b
      /\ \A v \in Users \ {u} : Earned(d, v) = Earned(e, v)
      /\ Earned(d, u) = Earned(e, u) + x - Pending(e, u, p)
      /\ Slack(e) + (Pending(e, u, p) - x) * ACC_REWARD_PRECISION <= Slack(d)
  BY <1>1, <1>2, <1>4, <1>6, RebookKeeps
<1>8. \A v \in Users : Earned(e, v) \in Int
  BY <1>1, EarnedTypes
<1>9. \A v \in Users : Earned(e, v) <= Earned(d, v)
  <2>1. Earned(d, u) = Earned(e, u)
    BY <1>2, <1>5, <1>7, <1>8
  <2> QED  BY <1>7, <1>8, <2>1
<1>10. Slack(e) <= Slack(d)
  <2>1. (Pending(e, u, p) - x) * ACC_REWARD_PRECISION = 0
    <3>1. Pending(e, u, p) - x = 0
      BY <1>2, <1>5
    <3>2. 0 * ACC_REWARD_PRECISION = 0
      BY Constants
    <3> QED  BY <3>1, <3>2
  <2>2. Slack(e) \in Int
    BY <1>1, SlackInt
  <2> QED  BY <1>7, <2>1, <2>2
<1>11. d \in Grown(c)
  <2>1. d \in Grown(e)
    BY <1>7, <1>9, <1>10 DEF Grown
  <2> QED  BY <1>1, <2>1, GrownTransitive
<1>12. Touched(c, d, u, p)
  BY <1>1, <1>7 DEF Paid, Touched, SameButAccounts, Amount
<1> QED  BY <1>3, <1>7, <1>11, <1>12

-----------------------------------------------------------------------------
(* Fields that are not part of the books *)

\* d has the books of c: more may have been deposited, and other fields differ.
SameBooks(c, d) ==
  /\ d.poolInfo = c.poolInfo /\ d.userInfo = c.userInfo
  /\ d.userBaseClaimable = c.userBaseClaimable
  /\ d.totalAllocPoint = c.totalAllocPoint
  /\ d.accountedRewards = c.accountedRewards
  /\ c.depositedRewards <= d.depositedRewards
  /\ d.updates = c.updates

\* Such a state is as sound, if the schedule and the eligibilities are.
LEMMA SameBooksKeep ==
  ASSUME NEW c, NEW d, Environment, c \in Good, d \in Chef,
         SameBooks(c, d), OnSchedule(d), Requalified(d)
  PROVE  d \in Grown(c) /\ \A u \in Users, p \in Pools : Amount(d, u, p) = Amount(c, u, p)
<1>1. c \in Chef /\ TotalsOf(c) /\ Solvent(c) /\ OnlyRegistered(c) /\ Backed(c)
  BY DEF Good
<1>2. \A u \in Users, p \in Pools : /\ Amount(d, u, p) = Amount(c, u, p)
                                    /\ Debt(d, u, p) = Debt(c, u, p)
                                    /\ Credit(d, u, p) = Credit(c, u, p)
                                    /\ Pending(d, u, p) = Pending(c, u, p)
  BY DEF SameBooks, Amount, Debt, Credit, Share, Pending
<1>3. TotalsOf(d)
  <2>1. ASSUME NEW p \in Pools
        PROVE  [u \in Users |-> Amount(d, u, p)] = [u \in Users |-> Amount(c, u, p)]
    BY <1>2
  <2> QED  BY <1>1, <2>1 DEF TotalsOf, SameBooks
<1>4. Solvent(d)
  <2>1. d.accountedRewards <= d.depositedRewards
    <3>1. c.accountedRewards \in Nat /\ c.depositedRewards \in Nat /\ d.depositedRewards \in Nat
      BY <1>1, ChefTypes
    <3>2. c.accountedRewards <= c.depositedRewards /\ c.depositedRewards <= d.depositedRewards
          /\ d.accountedRewards = c.accountedRewards
      BY <1>1 DEF Solvent, SameBooks
    <3> QED  BY <3>1, <3>2
  <2> QED  BY <1>1, <1>2, <2>1 DEF Solvent, SameBooks
<1>5. OnlyRegistered(d)
  BY <1>1, <1>2 DEF OnlyRegistered, SameBooks
<1>6. ASSUME NEW u \in Users
      PROVE  Earned(d, u) = Earned(c, u) /\ EarnedExactly(d, u) = EarnedExactly(c, u)
  <2>1. SetAside(d, u) = SetAside(c, u)
    BY DEF SetAside, SameBooks
  <2> QED  BY <1>1, <1>2, <2>1, PlaceOf, EarnedStays
<1>7. Slack(d) = Slack(c)
  <2>1. [u \in Users |-> EarnedExactly(d, u)] = [u \in Users |-> EarnedExactly(c, u)]
    BY <1>6
  <2> QED  BY <2>1 DEF Slack, SameBooks
<1>8. d \in Good
  BY <1>1, <1>3, <1>4, <1>5, <1>7 DEF Good, Backed
<1>9. \A u \in Users : Earned(c, u) \in Int
  BY <1>1, EarnedTypes
<1>10. Slack(c) \in Int
  BY <1>1, SlackInt
<1> QED  BY <1>2, <1>6, <1>7, <1>8, <1>9, <1>10 DEF Grown

\* d is c but for pools that were paid, the rate and the clocks.
Emitted(c) == {d \in Grown(c) : /\ d.userInfo = c.userInfo
                                /\ d.userBaseClaimable = c.userBaseClaimable
                                /\ d.updates = c.updates
                                /\ d.lastEligibleStatus = c.lastEligibleStatus
                                /\ d.disqualifiedTime = c.disqualifiedTime
                                /\ d.emissionScheduleIndex >= c.emissionScheduleIndex}

\* _massUpdatePools runs to its end, and keeps the state sound.
LEMMA MassUpdateKeeps ==
  ASSUME NEW c, Environment, c \in Good
  PROVE  LET d == MassUpdatePools(c)
         IN  /\ d \in Emitted(c) /\ d.emissionScheduleIndex = c.emissionScheduleIndex
             /\ d.rewardsPerSecond = c.rewardsPerSecond
<1> DEFINE n == Len(registeredTokens)
           S == Paid(c)
           G == [w \in S \X (1..n) |-> UpdatePool(w[1], registeredTokens[w[2]])]
           e == ForEachPool(c, UpdatePool)
           d == MassUpdatePools(c)
<1>1. n \in Nat /\ \A i \in 1..n : registeredTokens[i] \in Registered
  BY ElementOfSeq, LenProperties DEF Environment, Registered, Range
<1>2. c \in S
  BY GrownReflexive DEF Paid, SameButAccounts
<1>3. ASSUME NEW x \in S, NEW i \in 1..n PROVE UpdatePool(x, registeredTokens[i]) \in S
  <2>1. x \in Good /\ x \in Paid(c)
    BY DEF Paid, Grown
  <2>2. UpdatePool(x, registeredTokens[i]) \in Paid(x)
    BY <1>1, <2>1, UpdatePoolKeeps
  <2> QED  BY <2>1, <2>2, PaidTransitive
<1>4. G \in [S \X (1..n) -> S]
  <2> HIDE DEF S, n
  <2>1. ASSUME NEW w \in S \X (1..n) PROVE UpdatePool(w[1], registeredTokens[w[2]]) \in S
    <3>1. w[1] \in S /\ w[2] \in 1..n
      OBVIOUS
    <3> QED  BY <1>3, <3>1
  <2> QED  BY <2>1
<1> HIDE DEF S
<1>5. PICK f \in [0..n -> S] : f[0] = c /\ \A i \in 1..n : f[i] = G[<<f[i - 1], i>>]
  <2> HIDE DEF n, G
  <2>1. \E f \in [0..n -> S] : RunOf(f, c, n, G)
    BY <1>1, <1>2, <1>4, LoopRuns
  <2> QED  BY <2>1 DEF RunOf
<1>6. f = [i \in 0..n |-> IF i = 0 THEN c ELSE UpdatePool(f[i - 1], registeredTokens[i])]
  <2>1. ASSUME NEW i \in 0..n
        PROVE  f[i] = IF i = 0 THEN c ELSE UpdatePool(f[i - 1], registeredTokens[i])
    <3>1. CASE i = 0
      BY <1>5, <3>1
    <3>2. CASE i # 0
      <4>1. i \in 1..n /\ i - 1 \in 0..n
        BY <1>1, <3>2
      <4>2. f[i - 1] \in S
        BY <4>1
      <4>3. <<f[i - 1], i>> \in S \X (1..n) /\ f[i] = G[<<f[i - 1], i>>]
        BY <1>5, <4>1, <4>2
      <4>4. G[<<f[i - 1], i>>] = UpdatePool(<<f[i - 1], i>>[1], registeredTokens[<<f[i - 1], i>>[2]])
        BY <4>3
      <4> QED  BY <3>2, <4>3, <4>4
    <3> QED  BY <3>1, <3>2
  <2> QED  BY <2>1
<1> DEFINE g == CHOOSE f0 : f0 = [i \in 0..n |-> IF i = 0 THEN c
                                   ELSE UpdatePool(f0[i - 1], registeredTokens[i])]
<1>7. g = [i \in 0..n |-> IF i = 0 THEN c ELSE UpdatePool(g[i - 1], registeredTokens[i])]
  BY <1>6
<1>8. e = g[n]
  BY DEF ForEachPool
<1> HIDE DEF g, n
<1>9. \A i \in 0..n : g[i] \in S
  <2>1. g[0] \in S
    BY <1>1, <1>2, <1>7
  <2>2. ASSUME NEW i \in 1..n, g[i - 1] \in S PROVE g[i] \in S
    <3>1. g[i] = UpdatePool(g[i - 1], registeredTokens[i])
      BY <1>1, <1>7
    <3> QED  BY <1>3, <2>2, <3>1
  <2> QED  BY <1>1, <2>1, <2>2, LoopKeeps
<1>10. e \in Paid(c)
  BY <1>1, <1>8, <1>9 DEF S
<1>11. d = [e EXCEPT !.lastAllPoolUpdate = now]
  BY DEF MassUpdatePools
<1> HIDE DEF e, d
<1>12. e \in Good /\ e \in Chef /\ e \in Grown(c)
  BY <1>10 DEF Paid, Grown, Good
<1>13. d \in Chef /\ SameBooks(e, d) /\ OnSchedule(d) /\ Requalified(d)
  <2>1. now \in Nat /\ OnSchedule(e) /\ Requalified(e) /\ e.depositedRewards \in Nat
    BY <1>12, ChefTypes DEF Environment, Good
  <2>2. d \in Chef
    BY <1>11, <1>12, <2>1 DEF Chef
  <2>3. SameBooks(e, d)
    BY <1>11, <1>12, <2>1 DEF Chef, SameBooks
  <2>4. OnSchedule(d)
    BY <1>11, <1>12, <2>1 DEF Chef, OnSchedule
  <2>5. Requalified(d)
    BY <1>11, <1>12, <2>1 DEF Chef, Requalified
  <2> QED  BY <2>2, <2>3, <2>4, <2>5
<1>14. d \in Grown(c)
  BY <1>12, <1>13, SameBooksKeep, GrownTransitive
<1>15. d.emissionScheduleIndex = e.emissionScheduleIndex /\ d.rewardsPerSecond = e.rewardsPerSecond
       /\ d.lastEligibleStatus = e.lastEligibleStatus /\ d.disqualifiedTime = e.disqualifiedTime
  BY <1>11, <1>12 DEF Chef
<1>16. c.emissionScheduleIndex \in Nat
  BY ChefTypes DEF Good
<1> QED  BY <1>10, <1>13, <1>14, <1>15, <1>16 DEF Emitted, Paid, SameBooks, SameButAccounts, d

-----------------------------------------------------------------------------
(* _updateRegisteredBalance and stopEmissionsFor *)

\* d is c after some amounts of u were set to b[p].
Registering(c, u, b) ==
  {d \in Grown(c) : /\ SameButAccounts(c, d)
                    /\ \A v \in Users \ {u}, p \in Pools : Amount(d, v, p) = Amount(c, v, p)
                    /\ \A p \in Pools : Amount(d, u, p) \in {Amount(c, u, p), b[p]}}

\* One more, which leaves the amounts of other pools alone.
LEMMA RegisteringKeeps ==
  ASSUME NEW c, NEW u, NEW b, NEW d, NEW p, Environment, c \in Good, u \in Users,
         b \in [Pools -> Nat], d \in Registering(c, u, b), p \in Registered
  PROVE  LET e == HandleActionAfterForToken(d, u, p, b[p])
         IN  /\ e \in Registering(c, u, b) /\ Amount(e, u, p) = b[p]
             /\ \A s \in Pools \ {p} : Amount(e, u, s) = Amount(d, u, s)
<1> DEFINE e == HandleActionAfterForToken(d, u, p, b[p])
<1>1. p \in Pools /\ b[p] \in Nat /\ d \in Good /\ d \in Grown(c)
  BY PlaceOf DEF Registering, Grown
<1>2. e \in Grown(d) /\ Touched(d, e, u, p) /\ Amount(e, u, p) = b[p]
  BY <1>1, HandleKeeps
<1> HIDE DEF e
<1>3. e \in Grown(c)
  BY <1>1, <1>2, GrownTransitive
<1>4. /\ \A v \in Users \ {u}, s \in Pools : Amount(e, v, s) = Amount(d, v, s)
      /\ \A s \in Pools \ {p} : Amount(e, u, s) = Amount(d, u, s)
      /\ SameButAccounts(c, e)
  BY <1>2 DEF Touched, Registering, SameButAccounts
<1>5. \A s \in Pools : Amount(e, u, s) \in {Amount(c, u, s), b[s]}
  BY <1>2, <1>4 DEF Registering
<1> QED  BY <1>2, <1>3, <1>4, <1>5 DEF Registering, e

\* _updateRegisteredBalance sets the amounts of registered tokens to the balances
\* that are not zero, and no others.
LEMMA UpdateRegisteredKeeps ==
  ASSUME NEW c, NEW u, NEW b, Environment, c \in Good, u \in Users, b \in [Pools -> Nat]
  PROVE  LET d == UpdateRegisteredBalance(c, u, b)
         IN  /\ d \in Registering(c, u, b)
             /\ \A p \in Registered : b[p] # 0 => Amount(d, u, p) = b[p]
<1> DEFINE n == Len(registeredTokens)
           S == Registering(c, u, b)
           Round(x, p) == IF b[p] # 0 /\ b[p] # x.userInfo[u][p].amount
                          THEN HandleActionAfterForToken(x, u, p, b[p])
                          ELSE x
           G == [w \in S \X (1..n) |-> Round(w[1], registeredTokens[w[2]])]
           e == UpdateRegisteredBalance(c, u, b)
<1>1. /\ n \in Nat
      /\ \A i \in 1..n : registeredTokens[i] \in Registered /\ registeredTokens[i] \in Pools
  BY ElementOfSeq, LenProperties DEF Environment, Registered, Range
<1>2. c \in S
  BY GrownReflexive DEF Registering, SameButAccounts
<1>3. ASSUME NEW x \in S, NEW p \in Registered
      PROVE  /\ Round(x, p) \in S
             /\ b[p] # 0 => Amount(Round(x, p), u, p) = b[p]
             /\ \A s \in Pools \ {p} : Amount(Round(x, p), u, s) = Amount(x, u, s)
  <2>1. CASE b[p] # 0 /\ b[p] # x.userInfo[u][p].amount
    <3>1. Round(x, p) = HandleActionAfterForToken(x, u, p, b[p])
      BY <2>1
    <3>2. x \in Registering(c, u, b)
      OBVIOUS
    <3> HIDE DEF Round, S, G, e
    <3>3. /\ HandleActionAfterForToken(x, u, p, b[p]) \in Registering(c, u, b)
          /\ Amount(HandleActionAfterForToken(x, u, p, b[p]), u, p) = b[p]
          /\ \A s \in Pools \ {p} :
               Amount(HandleActionAfterForToken(x, u, p, b[p]), u, s) = Amount(x, u, s)
      BY <3>2, RegisteringKeeps
    <3> QED  BY <3>1, <3>3 DEF S
  <2>2. CASE ~(b[p] # 0 /\ b[p] # x.userInfo[u][p].amount)
    <3>1. Round(x, p) = x
      BY <2>2
    <3>2. b[p] # 0 => Amount(x, u, p) = b[p]
      BY <2>2 DEF Amount
    <3> HIDE DEF Round
    <3> QED  BY <3>1, <3>2
  <2> QED  BY <2>1, <2>2
<1> HIDE DEF Round
<1>4. G \in [S \X (1..n) -> S]
  <2> HIDE DEF S, n
  <2>1. ASSUME NEW w \in S \X (1..n) PROVE Round(w[1], registeredTokens[w[2]]) \in S
    <3>1. w[1] \in S /\ w[2] \in 1..n
      OBVIOUS
    <3> QED  BY <1>1, <1>3, <3>1
  <2> QED  BY <2>1
<1> HIDE DEF S
<1>5. PICK f \in [0..n -> S] : f[0] = c /\ \A i \in 1..n : f[i] = G[<<f[i - 1], i>>]
  <2> HIDE DEF n, G
  <2>1. \E f \in [0..n -> S] : RunOf(f, c, n, G)
    BY <1>1, <1>2, <1>4, LoopRuns
  <2> QED  BY <2>1 DEF RunOf
<1>6. f = [i \in 0..n |-> IF i = 0 THEN c ELSE Round(f[i - 1], registeredTokens[i])]
  <2>1. ASSUME NEW i \in 0..n
        PROVE  f[i] = IF i = 0 THEN c ELSE Round(f[i - 1], registeredTokens[i])
    <3>1. CASE i = 0
      BY <1>5, <3>1
    <3>2. CASE i # 0
      <4>1. i \in 1..n /\ i - 1 \in 0..n
        BY <1>1, <3>2
      <4>2. f[i - 1] \in S
        BY <4>1
      <4>3. <<f[i - 1], i>> \in S \X (1..n) /\ f[i] = G[<<f[i - 1], i>>]
        BY <1>5, <4>1, <4>2
      <4>4. G[<<f[i - 1], i>>] = Round(<<f[i - 1], i>>[1], registeredTokens[<<f[i - 1], i>>[2]])
        BY <4>3
      <4> QED  BY <3>2, <4>3, <4>4
    <3> QED  BY <3>1, <3>2
  <2> QED  BY <2>1
<1> DEFINE g == CHOOSE f0 : f0 = [i \in 0..n |-> IF i = 0 THEN c
                                   ELSE Round(f0[i - 1], registeredTokens[i])]
<1>7. g = [i \in 0..n |-> IF i = 0 THEN c ELSE Round(g[i - 1], registeredTokens[i])]
  BY <1>6
<1>8. e = g[n]
  BY DEF UpdateRegisteredBalance, ForEachPool, Round
<1> HIDE DEF g, n
<1>9. \A i \in 1..n : g[i] = Round(g[i - 1], registeredTokens[i])
  BY <1>1, <1>7
<1>10. \A i \in 0..n : g[i] \in S
  <2>1. g[0] \in S
    BY <1>1, <1>2, <1>7
  <2>2. ASSUME NEW i \in 1..n, g[i - 1] \in S PROVE g[i] \in S
    BY <1>1, <1>3, <1>9, <2>2
  <2> QED  BY <1>1, <2>1, <2>2, LoopKeeps
<1> DEFINE Done(i) == \A j \in 1..i : b[registeredTokens[j]] # 0 =>
                        Amount(g[i], u, registeredTokens[j]) = b[registeredTokens[j]]
           T == {i \in Nat : i <= n => Done(i)}
<1>11. n \in T
  <2>1. 0 \in T
    OBVIOUS
  <2>2. ASSUME NEW i \in Nat, i \in T PROVE i + 1 \in T
    <3> SUFFICES ASSUME i + 1 <= n PROVE Done(i + 1)
      OBVIOUS
    <3> DEFINE p == registeredTokens[i + 1]
    <3>1. i + 1 \in 1..n /\ i \in 0..n /\ (i + 1) - 1 = i /\ Done(i)
      BY <1>1, <2>2
    <3>2. g[i + 1] = Round(g[i], p) /\ g[i] \in S /\ p \in Registered
      <4>1. g[i + 1] = Round(g[(i + 1) - 1], p)
        BY <1>9, <3>1
      <4> QED  BY <1>1, <1>10, <3>1, <4>1
    <3>3. /\ b[p] # 0 => Amount(g[i + 1], u, p) = b[p]
          /\ \A s \in Pools \ {p} : Amount(g[i + 1], u, s) = Amount(g[i], u, s)
      BY <1>3, <3>2
    <3> SUFFICES ASSUME NEW j \in 1..(i + 1), b[registeredTokens[j]] # 0
                 PROVE  Amount(g[i + 1], u, registeredTokens[j]) = b[registeredTokens[j]]
      OBVIOUS
    <3>4. CASE registeredTokens[j] = p
      BY <3>3, <3>4
    <3>5. CASE registeredTokens[j] # p
      <4>0. j # i + 1
        BY <3>5
      <4>1. j \in 1..i /\ j \in 1..n
        BY <1>1, <3>1, <4>0
      <4>2. Amount(g[i], u, registeredTokens[j]) = b[registeredTokens[j]]
        BY <3>1, <4>1
      <4>3. registeredTokens[j] \in Pools \ {p}
        BY <1>1, <3>5, <4>1
      <4> QED  BY <3>3, <4>2, <4>3
    <3> QED  BY <3>4, <3>5
  <2> HIDE DEF T
  <2> QED  BY <1>1, <2>1, <2>2, InductiveSet
<1>12. e \in S
  BY <1>1, <1>8, <1>10
<1>13. \A p \in Registered : b[p] # 0 => Amount(e, u, p) = b[p]
  <2>1. Done(n)
    BY <1>1, <1>11
  <2>2. \A p \in Registered : \E j \in 1..n : registeredTokens[j] = p
    BY DEF Registered, Range, n
  <2> HIDE DEF e
  <2> QED  BY <1>8, <2>1, <2>2
<1> HIDE DEF e
<1> QED  BY <1>12, <1>13 DEF S, e

\* d is c after u's eligibility was looked at, and maybe some of its amounts changed.
Looked(c, d, u) ==
  /\ d \in Grown(c)
  /\ d.emissionScheduleIndex = c.emissionScheduleIndex
  /\ \A v \in Users \ {u} : /\ d.lastEligibleStatus[v] = c.lastEligibleStatus[v]
                            /\ \A p \in Pools : Amount(d, v, p) = Amount(c, v, p)

\* stopEmissionsFor a user that is not eligible removes all its amounts.
LEMMA StopEmissionsKeeps ==
  ASSUME NEW c, NEW u, Environment, c \in Good, u \in Users, ~c.lastEligibleStatus[u]
  PROVE  LET d == StopEmissionsFor(c, u)
         IN  /\ Looked(c, d, u)
             /\ d.lastEligibleStatus = c.lastEligibleStatus
             /\ \A p \in Pools : Amount(d, u, p) = 0
<1> DEFINE n == Len(registeredTokens)
           b == [p \in Pools |-> 0]
           S == Registering(c, u, b)
           Round(x, p) == IF x.userInfo[u][p].amount # 0
                          THEN HandleActionAfterForToken(x, u, p, 0)
                          ELSE x
           G == [w \in S \X (1..n) |-> Round(w[1], registeredTokens[w[2]])]
           e == ForEachPool(c, LAMBDA x, p : IF x.userInfo[u][p].amount # 0
                                             THEN HandleActionAfterForToken(x, u, p, 0)
                                             ELSE x)
           d == StopEmissionsFor(c, u)
<1>1. /\ n \in Nat
      /\ \A i \in 1..n : registeredTokens[i] \in Registered /\ registeredTokens[i] \in Pools
  BY ElementOfSeq, LenProperties DEF Environment, Registered, Range
<1>2. c \in S
  BY GrownReflexive DEF Registering, SameButAccounts
<1>3. ASSUME NEW x \in S, NEW p \in Registered
      PROVE  /\ Round(x, p) \in S
             /\ Amount(Round(x, p), u, p) = 0
             /\ \A s \in Pools \ {p} : Amount(Round(x, p), u, s) = Amount(x, u, s)
  <2>1. CASE x.userInfo[u][p].amount # 0
    <3>1. b[p] = 0 /\ b \in [Pools -> Nat]
      BY PlaceOf
    <3>2. Round(x, p) = HandleActionAfterForToken(x, u, p, b[p])
      BY <2>1, <3>1
    <3>3. x \in Registering(c, u, b)
      OBVIOUS
    <3> HIDE DEF Round, S, G, e, d, b
    <3>4. /\ HandleActionAfterForToken(x, u, p, b[p]) \in Registering(c, u, b)
          /\ Amount(HandleActionAfterForToken(x, u, p, b[p]), u, p) = b[p]
          /\ \A s \in Pools \ {p} :
               Amount(HandleActionAfterForToken(x, u, p, b[p]), u, s) = Amount(x, u, s)
      BY <3>1, <3>3, RegisteringKeeps
    <3> QED  BY <3>1, <3>2, <3>4 DEF S
  <2>2. CASE ~(x.userInfo[u][p].amount # 0)
    <3>1. Round(x, p) = x
      BY <2>2
    <3>2. Amount(x, u, p) = 0
      BY <2>2 DEF Amount
    <3> HIDE DEF Round
    <3> QED  BY <3>1, <3>2
  <2> QED  BY <2>1, <2>2
<1> HIDE DEF Round
<1>4. G \in [S \X (1..n) -> S]
  <2> HIDE DEF S, n
  <2>1. ASSUME NEW w \in S \X (1..n) PROVE Round(w[1], registeredTokens[w[2]]) \in S
    <3>1. w[1] \in S /\ w[2] \in 1..n
      OBVIOUS
    <3> QED  BY <1>1, <1>3, <3>1
  <2> QED  BY <2>1
<1> HIDE DEF S, b
<1>5. PICK f \in [0..n -> S] : f[0] = c /\ \A i \in 1..n : f[i] = G[<<f[i - 1], i>>]
  <2> HIDE DEF n, G
  <2>1. \E f \in [0..n -> S] : RunOf(f, c, n, G)
    BY <1>1, <1>2, <1>4, LoopRuns
  <2> QED  BY <2>1 DEF RunOf
<1>6. f = [i \in 0..n |-> IF i = 0 THEN c ELSE Round(f[i - 1], registeredTokens[i])]
  <2>1. ASSUME NEW i \in 0..n
        PROVE  f[i] = IF i = 0 THEN c ELSE Round(f[i - 1], registeredTokens[i])
    <3>1. CASE i = 0
      BY <1>5, <3>1
    <3>2. CASE i # 0
      <4>1. i \in 1..n /\ i - 1 \in 0..n
        BY <1>1, <3>2
      <4>2. f[i - 1] \in S
        BY <4>1
      <4>3. <<f[i - 1], i>> \in S \X (1..n) /\ f[i] = G[<<f[i - 1], i>>]
        BY <1>5, <4>1, <4>2
      <4>4. G[<<f[i - 1], i>>] = Round(<<f[i - 1], i>>[1], registeredTokens[<<f[i - 1], i>>[2]])
        BY <4>3
      <4> QED  BY <3>2, <4>3, <4>4
    <3> QED  BY <3>1, <3>2
  <2> QED  BY <2>1
<1> DEFINE g == CHOOSE f0 : f0 = [i \in 0..n |-> IF i = 0 THEN c
                                   ELSE Round(f0[i - 1], registeredTokens[i])]
<1>7. g = [i \in 0..n |-> IF i = 0 THEN c ELSE Round(g[i - 1], registeredTokens[i])]
  BY <1>6
<1>8. e = g[n]
  BY DEF ForEachPool, Round
<1> HIDE DEF g, n
<1>9. \A i \in 1..n : g[i] = Round(g[i - 1], registeredTokens[i])
  BY <1>1, <1>7
<1>10. \A i \in 0..n : g[i] \in S
  <2>1. g[0] \in S
    BY <1>1, <1>2, <1>7
  <2>2. ASSUME NEW i \in 1..n, g[i - 1] \in S PROVE g[i] \in S
    BY <1>1, <1>3, <1>9, <2>2
  <2> QED  BY <1>1, <2>1, <2>2, LoopKeeps
<1> DEFINE Done(i) == \A j \in 1..i : Amount(g[i], u, registeredTokens[j]) = 0
           T == {i \in Nat : i <= n => Done(i)}
<1>11. n \in T
  <2>1. 0 \in T
    OBVIOUS
  <2>2. ASSUME NEW i \in Nat, i \in T PROVE i + 1 \in T
    <3> SUFFICES ASSUME i + 1 <= n PROVE Done(i + 1)
      OBVIOUS
    <3> DEFINE p == registeredTokens[i + 1]
    <3>1. i + 1 \in 1..n /\ i \in 0..n /\ (i + 1) - 1 = i /\ Done(i)
      BY <1>1, <2>2
    <3>2. g[i + 1] = Round(g[i], p) /\ g[i] \in S /\ p \in Registered
      <4>1. g[i + 1] = Round(g[(i + 1) - 1], p)
        BY <1>9, <3>1
      <4> QED  BY <1>1, <1>10, <3>1, <4>1
    <3>3. /\ Amount(g[i + 1], u, p) = 0
          /\ \A s \in Pools \ {p} : Amount(g[i + 1], u, s) = Amount(g[i], u, s)
      BY <1>3, <3>2
    <3> SUFFICES ASSUME NEW j \in 1..(i + 1)
                 PROVE  Amount(g[i + 1], u, registeredTokens[j]) = 0
      OBVIOUS
    <3>4. CASE registeredTokens[j] = p
      BY <3>3, <3>4
    <3>5. CASE registeredTokens[j] # p
      <4>0. j # i + 1
        BY <3>5
      <4>1. j \in 1..i /\ j \in 1..n
        BY <1>1, <3>1, <4>0
      <4>2. Amount(g[i], u, registeredTokens[j]) = 0
        BY <3>1, <4>1
      <4>3. registeredTokens[j] \in Pools \ {p}
        BY <1>1, <3>5, <4>1
      <4> QED  BY <3>3, <4>2, <4>3
    <3> QED  BY <3>4, <3>5
  <2> HIDE DEF T
  <2> QED  BY <1>1, <2>1, <2>2, InductiveSet
<1>12. e \in Registering(c, u, b)
  <2>1. n \in 0..n
    BY <1>1
  <2>2. g[n] \in S
    BY <1>10, <2>1
  <2> HIDE DEF e
  <2> QED  BY <1>8, <2>2 DEF S
<1>13. \A p \in Pools : Amount(e, u, p) = 0
  <2>1. Done(n)
    BY <1>1, <1>11
  <2>2. \A p \in Registered : \E j \in 1..n : registeredTokens[j] = p
    BY DEF Registered, Range, n
  <2>3. \A p \in Pools \ Registered : Amount(c, u, p) = 0
    BY DEF Good, OnlyRegistered
  <2>4. \A p \in Pools : Amount(e, u, p) \in {Amount(c, u, p), 0}
    BY <1>12 DEF Registering, b
  <2> HIDE DEF e
  <2> QED  BY <1>8, <2>1, <2>2, <2>3, <2>4
<1>14. d = [e EXCEPT !.disqualifiedTime[u] = now]
  BY DEF StopEmissionsFor, setDqTime
<1> HIDE DEF e, d
<1>15. /\ e \in Grown(c) /\ e \in Good /\ e \in Chef /\ SameButAccounts(c, e)
       /\ \A v \in Users \ {u}, p \in Pools : Amount(e, v, p) = Amount(c, v, p)
  BY <1>12 DEF Registering, Grown, Good
<1> DEFINE times == [e.disqualifiedTime EXCEPT ![u] = now]
<1>16. d = [e EXCEPT !.disqualifiedTime = times]
  BY <1>14, <1>15 DEF Chef
<1>17. times \in [Users -> Nat] /\ \A v \in Users \ {u} : times[v] = e.disqualifiedTime[v]
  BY <1>15, ChefTypes DEF Environment
<1> HIDE DEF times
<1>18. d \in Chef /\ SameBooks(e, d) /\ OnSchedule(d) /\ Requalified(d)
       /\ d.lastEligibleStatus = e.lastEligibleStatus
       /\ d.emissionScheduleIndex = e.emissionScheduleIndex
  <2>1. OnSchedule(e) /\ Requalified(e) /\ e.depositedRewards \in Nat
    BY <1>15, ChefTypes DEF Good
  <2>2. d \in Chef
    BY <1>15, <1>16, <1>17 DEF Chef
  <2>3. SameBooks(e, d)
    BY <1>15, <1>16, <2>1 DEF Chef, SameBooks
  <2>4. OnSchedule(d) /\ d.emissionScheduleIndex = e.emissionScheduleIndex
    BY <1>15, <1>16, <2>1 DEF Chef, OnSchedule
  <2>5. d.lastEligibleStatus = e.lastEligibleStatus /\ d.disqualifiedTime = times
    BY <1>15, <1>16 DEF Chef
  <2>6. ~e.lastEligibleStatus[u]
    BY <1>15 DEF SameButAccounts
  <2>7. Requalified(d)
    BY <1>17, <2>1, <2>5, <2>6 DEF Requalified
  <2> QED  BY <2>2, <2>3, <2>4, <2>5, <2>7
<1>19. d \in Grown(e) /\ \A v \in Users, p \in Pools : Amount(d, v, p) = Amount(e, v, p)
  BY <1>15, <1>18, SameBooksKeep
<1>20. d \in Grown(c)
  BY <1>15, <1>19, GrownTransitive
<1> QED  BY <1>13, <1>15, <1>18, <1>19, <1>20 DEF Looked, SameButAccounts, d

-----------------------------------------------------------------------------
(* Eligibility and the hooks *)

\* refresh stores what was found, and changes no amount.
LEMMA RefreshKeeps ==
  ASSUME NEW c, NEW u, NEW eligible, Environment, c \in Good, u \in Users, eligible \in BOOLEAN
  PROVE  LET d == Refresh(c, u, eligible)
         IN  /\ Looked(c, d, u) /\ d.lastEligibleStatus[u] = eligible
             /\ d.disqualifiedTime[u] = IF eligible THEN 0 ELSE c.disqualifiedTime[u]
             /\ d.userInfo = c.userInfo
             /\ \A p \in Pools : Amount(d, u, p) = Amount(c, u, p)
<1> DEFINE d == Refresh(c, u, eligible)
           found == [c.lastEligibleStatus EXCEPT ![u] = eligible]
           times == [c.disqualifiedTime EXCEPT ![u] = IF eligible THEN 0 ELSE @]
<1>1. c \in Chef /\ OnSchedule(c) /\ Requalified(c) /\ c.depositedRewards \in Nat
  BY ChefTypes DEF Good
<1>2. /\ found \in [Users -> BOOLEAN] /\ found[u] = eligible
      /\ \A v \in Users \ {u} : found[v] = c.lastEligibleStatus[v]
  BY <1>1, ChefTypes
<1>3. /\ times \in [Users -> Nat] /\ times[u] = IF eligible THEN 0 ELSE c.disqualifiedTime[u]
      /\ \A v \in Users \ {u} : times[v] = c.disqualifiedTime[v]
  BY <1>1, ChefTypes
<1>4. d = [[c EXCEPT !.lastEligibleStatus = found] EXCEPT !.disqualifiedTime = times]
  BY DEF Refresh, Chef
<1> HIDE DEF d, found, times
<1>5. d \in Chef
  BY <1>1, <1>2, <1>3, <1>4 DEF Chef
<1>6. SameBooks(c, d)
  BY <1>1, <1>4 DEF Chef, SameBooks
<1>7. d.lastEligibleStatus = found /\ d.disqualifiedTime = times
      /\ d.emissionScheduleIndex = c.emissionScheduleIndex
  BY <1>1, <1>4 DEF Chef
<1>8. OnSchedule(d)
  BY <1>1, <1>7 DEF OnSchedule
<1>9. Requalified(d)
  BY <1>1, <1>2, <1>3, <1>7 DEF Requalified
<1>10. d \in Grown(c) /\ \A v \in Users, p \in Pools : Amount(d, v, p) = Amount(c, v, p)
  BY <1>5, <1>6, <1>8, <1>9, SameBooksKeep
<1> QED  BY <1>2, <1>3, <1>6, <1>7, <1>10 DEF Looked, SameBooks, d

\* One look after another.
LEMMA LookedTransitive ==
  ASSUME NEW c, NEW d, NEW e, NEW u, Environment, c \in Good, Looked(c, d, u), Looked(d, e, u)
  PROVE  Looked(c, e, u)
<1>1. e \in Grown(c)
  BY GrownTransitive DEF Looked
<1> QED  BY <1>1 DEF Looked

\* What IneligibleIsRemoved asks of a user found ineligible.
Removed(c, d, u) ==
  \A p \in Pools : /\ Amount(d, u, p) <= Amount(c, u, p)
                   /\ c.lastEligibleStatus[u] => Amount(d, u, p) = 0

\* _processEligibility, after a refresh, removes the amounts of a user that was
\* eligible and no longer is.
LEMMA ProcessKeeps ==
  ASSUME NEW c, NEW u, NEW eligible, Environment, c \in Good, u \in Users, eligible \in BOOLEAN
  PROVE  LET d == ProcessEligibility(Refresh(c, u, eligible), u, eligible)
         IN  /\ Looked(c, d, u) /\ d.lastEligibleStatus[u] = eligible
             /\ ~eligible => Removed(c, d, u)
             /\ eligible => \A p \in Pools : Amount(d, u, p) = Amount(c, u, p)
<1> DEFINE r == Refresh(c, u, eligible)
           d == ProcessEligibility(r, u, eligible)
<1>1. /\ Looked(c, r, u) /\ r.lastEligibleStatus[u] = eligible
      /\ r.disqualifiedTime[u] = IF eligible THEN 0 ELSE c.disqualifiedTime[u]
      /\ r.userInfo = c.userInfo
      /\ \A p \in Pools : Amount(r, u, p) = Amount(c, u, p)
  BY RefreshKeeps
<1>2. \A p \in Pools : Amount(c, u, p) \in Nat
  BY UserTypes DEF Good
<1>3. CASE ~eligible /\ hasEligibleDeposits(r, u) /\ r.disqualifiedTime[u] = 0
  <2>1. d = StopEmissionsFor(r, u)
    BY <1>3 DEF ProcessEligibility
  <2>2. r \in Good /\ ~r.lastEligibleStatus[u]
    BY <1>1, <1>3 DEF Looked, Grown
  <2> HIDE DEF r, d
  <2>3. /\ Looked(r, d, u) /\ d.lastEligibleStatus = r.lastEligibleStatus
        /\ \A p \in Pools : Amount(d, u, p) = 0
    BY <2>1, <2>2, StopEmissionsKeeps
  <2>4. Looked(c, d, u)
    BY <1>1, <2>3, LookedTransitive
  <2>5. Removed(c, d, u)
    BY <1>2, <2>3 DEF Removed
  <2> QED  BY <1>1, <1>3, <2>3, <2>4, <2>5 DEF d, r
<1>4. CASE ~(~eligible /\ hasEligibleDeposits(r, u) /\ r.disqualifiedTime[u] = 0)
  <2>1. d = r
    BY <1>4 DEF ProcessEligibility
  <2>2. ASSUME ~eligible, c.lastEligibleStatus[u], NEW p \in Pools PROVE Amount(c, u, p) = 0
    <3>1. c.disqualifiedTime[u] = 0
      BY <2>2 DEF Good, Requalified
    <3>2. ~hasEligibleDeposits(r, u)
      BY <1>1, <1>4, <2>2, <3>1
    <3>3. CASE p \in Registered
      BY <1>1, <3>2, <3>3 DEF hasEligibleDeposits, Registered, Range, Amount
    <3>4. CASE p \notin Registered
      BY <3>4 DEF Good, OnlyRegistered
    <3> QED  BY <3>3, <3>4
  <2> HIDE DEF r, d
  <2>3. ~eligible => Removed(c, d, u)
    BY <1>1, <1>2, <2>1, <2>2 DEF Removed
  <2> QED  BY <1>1, <2>1, <2>3 DEF d, r
<1> QED  BY <1>3, <1>4

\* handleActionAfter: what the hook of p does to u's amounts.
LEMMA HookKeeps ==
  ASSUME NEW c, NEW u, NEW p, NEW balance, NEW eligible, NEW b,
         Environment, c \in Good, u \in Users, p \in Registered, balance \in Nat,
         eligible \in BOOLEAN, b \in [Pools -> Nat]
  PROVE  LET d == HandleActionAfter(c, u, p, balance, eligible, b)
         IN  /\ Looked(c, d, u)
             /\ eligibilityEnabled =>
                  /\ d.lastEligibleStatus[u] = eligible
                  /\ ~eligible => Removed(c, d, u)
                  /\ eligible /\ c.lastEligibleStatus[u] =>
                       /\ Amount(d, u, p) = balance
                       /\ \A s \in Pools \ {p} : Amount(d, u, s) = Amount(c, u, s)
                  /\ eligible /\ ~c.lastEligibleStatus[u] =>
                       \A s \in Pools : Amount(d, u, s) \in {Amount(c, u, s), b[s]}
<1> DEFINE r == Refresh(c, u, eligible)
           d == HandleActionAfter(c, u, p, balance, eligible, b)
<1>1. /\ Looked(c, r, u) /\ r.lastEligibleStatus[u] = eligible
      /\ \A s \in Pools : Amount(r, u, s) = Amount(c, u, s)
      /\ r \in Good
  BY RefreshKeeps DEF Looked, Grown
<1>2. CASE ~eligibilityEnabled
  <2>1. d = HandleActionAfterForToken(c, u, p, balance)
    BY <1>2 DEF HandleActionAfter
  <2> HIDE DEF d
  <2>2. d \in Grown(c) /\ Touched(c, d, u, p)
    BY <2>1, HandleKeeps
  <2>3. Looked(c, d, u)
    BY <2>2 DEF Looked, Touched, SameButAccounts
  <2> QED  BY <1>2, <2>3 DEF d
<1>3. CASE eligibilityEnabled /\ ~eligible
  <2>1. d = ProcessEligibility(r, u, eligible)
    BY <1>3 DEF HandleActionAfter
  <2> HIDE DEF d
  <2>2. /\ Looked(c, d, u) /\ d.lastEligibleStatus[u] = eligible
        /\ Removed(c, d, u)
    BY <1>3, <2>1, ProcessKeeps
  <2> QED  BY <1>3, <2>2 DEF d
<1>4. CASE eligibilityEnabled /\ eligible /\ c.lastEligibleStatus[u]
  <2>1. d = HandleActionAfterForToken(r, u, p, balance)
    BY <1>4 DEF HandleActionAfter
  <2> HIDE DEF d, r
  <2>2. d \in Grown(r) /\ Touched(r, d, u, p) /\ Amount(d, u, p) = balance
    BY <1>1, <2>1, HandleKeeps
  <2>3. Looked(r, d, u) /\ d.lastEligibleStatus = r.lastEligibleStatus
    BY <2>2 DEF Looked, Touched, SameButAccounts
  <2>4. Looked(c, d, u)
    BY <1>1, <2>3, LookedTransitive
  <2>5. \A s \in Pools \ {p} : Amount(d, u, s) = Amount(c, u, s)
    BY <1>1, <2>2 DEF Touched
  <2> QED  BY <1>1, <1>4, <2>2, <2>3, <2>4, <2>5 DEF d
<1>5. CASE eligibilityEnabled /\ eligible /\ ~c.lastEligibleStatus[u]
  <2>1. d = UpdateRegisteredBalance(r, u, b)
    BY <1>5 DEF HandleActionAfter
  <2> HIDE DEF d, r
  <2>2. d \in Registering(r, u, b)
    BY <1>1, <2>1, UpdateRegisteredKeeps
  <2>3. Looked(r, d, u) /\ d.lastEligibleStatus = r.lastEligibleStatus
        /\ \A s \in Pools : Amount(d, u, s) \in {Amount(r, u, s), b[s]}
    BY <2>2 DEF Looked, Registering, SameButAccounts
  <2>4. Looked(c, d, u)
    BY <1>1, <2>3, LookedTransitive
  <2> QED  BY <1>1, <1>5, <2>3, <2>4 DEF d
<1> QED  BY <1>2, <1>3, <1>4, <1>5

\* afterLockUpdate: what a change of u's locks does to its amounts.
LEMMA AfterLockUpdateKeeps ==
  ASSUME NEW c, NEW u, NEW eligible, NEW b,
         Environment, c \in Good, u \in Users, eligible \in BOOLEAN, b \in [Pools -> Nat]
  PROVE  LET d == AfterLockUpdate(c, u, eligible, b)
         IN  /\ Looked(c, d, u)
             /\ ~eligibilityEnabled => d = c
             /\ eligibilityEnabled =>
                  /\ d.lastEligibleStatus[u] = eligible
                  /\ ~eligible => Removed(c, d, u)
                  /\ eligible =>
                       /\ \A p \in Pools : Amount(d, u, p) \in {Amount(c, u, p), b[p]}
                       /\ \A p \in Registered : b[p] # 0 => Amount(d, u, p) = b[p]
<1> DEFINE r == Refresh(c, u, eligible)
           d == AfterLockUpdate(c, u, eligible, b)
<1>1. /\ Looked(c, r, u) /\ r.lastEligibleStatus[u] = eligible
      /\ \A s \in Pools : Amount(r, u, s) = Amount(c, u, s)
      /\ r \in Good
  BY RefreshKeeps DEF Looked, Grown
<1>2. CASE ~eligibilityEnabled
  <2>1. d = c
    BY <1>2 DEF AfterLockUpdate
  <2>2. Looked(c, c, u)
    BY GrownReflexive DEF Looked
  <2> HIDE DEF d
  <2> QED  BY <1>2, <2>1, <2>2 DEF d
<1>3. CASE eligibilityEnabled /\ ~eligible
  <2>1. d = ProcessEligibility(r, u, eligible)
    BY <1>3 DEF AfterLockUpdate
  <2> HIDE DEF d
  <2>2. /\ Looked(c, d, u) /\ d.lastEligibleStatus[u] = eligible
        /\ Removed(c, d, u)
    BY <1>3, <2>1, ProcessKeeps
  <2> QED  BY <1>3, <2>2 DEF d
<1>4. CASE eligibilityEnabled /\ eligible
  <2>1. d = UpdateRegisteredBalance(r, u, b)
    BY <1>4 DEF AfterLockUpdate
  <2> HIDE DEF d, r
  <2>2. d \in Registering(r, u, b) /\ \A p \in Registered : b[p] # 0 => Amount(d, u, p) = b[p]
    BY <1>1, <2>1, UpdateRegisteredKeeps
  <2>3. Looked(r, d, u) /\ d.lastEligibleStatus = r.lastEligibleStatus
        /\ \A s \in Pools : Amount(d, u, s) \in {Amount(r, u, s), b[s]}
    BY <2>2 DEF Looked, Registering, SameButAccounts
  <2>4. Looked(c, d, u)
    BY <1>1, <2>3, LookedTransitive
  <2> QED  BY <1>1, <1>4, <2>2, <2>3, <2>4 DEF d
<1> QED  BY <1>2, <1>3, <1>4

-----------------------------------------------------------------------------
(* _updateEmissions *)

\* A bounded set of positions that is not empty has a last one.
LEMMA LastOf ==
  ASSUME NEW n \in Nat, NEW R, R \subseteq 1..n, R # {}
  PROVE  \E i \in R : \A j \in R : j <= i
<1> DEFINE T == {k \in Nat : k <= n /\ R \cap (1..k) # {} =>
                               \E i \in R \cap (1..k) : \A j \in R \cap (1..k) : j <= i}
<1>1. 0 \in T
  OBVIOUS
<1>2. ASSUME NEW k \in Nat, k \in T PROVE k + 1 \in T
  <2> SUFFICES ASSUME k + 1 <= n, R \cap (1..(k + 1)) # {}
               PROVE  \E i \in R \cap (1..(k + 1)) : \A j \in R \cap (1..(k + 1)) : j <= i
    OBVIOUS
  <2>1. CASE k + 1 \in R
    BY <2>1
  <2>2. CASE k + 1 \notin R
    <3>1. R \cap (1..(k + 1)) = R \cap (1..k)
      BY <2>2
    <3> QED  BY <1>2, <3>1
  <2> QED  BY <2>1, <2>2
<1> HIDE DEF T
<1>3. n \in T
  BY <1>1, <1>2, InductiveSet
<1>4. R \cap (1..n) = R
  OBVIOUS
<1> QED  BY <1>3, <1>4 DEF T

\* A state with the books and eligibilities of an emitted one is emitted.
LEMMA EmittedKeeps ==
  ASSUME NEW c, NEW d, NEW e, Environment, c \in Good, d \in Emitted(c), e \in Chef,
         SameBooks(d, e), OnSchedule(e),
         e.lastEligibleStatus = d.lastEligibleStatus, e.disqualifiedTime = d.disqualifiedTime,
         e.emissionScheduleIndex = d.emissionScheduleIndex
  PROVE  e \in Emitted(c)
<1>1. d \in Good /\ d \in Grown(c)
  BY DEF Emitted, Grown
<1>2. Requalified(e)
  BY <1>1 DEF Good, Requalified
<1>3. e \in Grown(d)
  BY <1>1, <1>2, SameBooksKeep
<1>4. e \in Grown(c)
  BY <1>1, <1>3, GrownTransitive
<1> QED  BY <1>4 DEF Emitted, SameBooks

\* setScheduledRewardsPerSecond applies no point before its time.
LEMMA SetScheduledKeeps ==
  ASSUME NEW c, Environment, c \in Good
  PROVE  SetScheduledRewardsPerSecond(c) \in Emitted(c)
<1> DEFINE k == c.emissionScheduleIndex
           n == Len(emissionSchedule)
           reached == {i \in (k + 1)..n : \A j \in (k + 1)..i :
                         emissionSchedule[j].startTimeOffset <= now - startTime}
           last == CHOOSE i \in reached : \A j \in reached : j <= i
           s == [c EXCEPT !.emissionScheduleIndex = last]
           m == MassUpdatePools(s)
           d == [m EXCEPT !.rewardsPerSecond = emissionSchedule[last].rewardsPerSecond]
<1>1. c \in Chef /\ k \in Nat /\ n \in Nat /\ OnSchedule(c) /\ Requalified(c)
      /\ c.depositedRewards \in Nat
  BY ChefTypes, LenProperties DEF Good, Environment
<1>2. CASE persistRewardsPerSecond \/ reached = {}
  <2>1. SetScheduledRewardsPerSecond(c) = c
    BY <1>2 DEF SetScheduledRewardsPerSecond
  <2>2. c \in Emitted(c)
    BY <1>1, GrownReflexive DEF Emitted
  <2> QED  BY <2>1, <2>2
<1>3. CASE ~(persistRewardsPerSecond \/ reached = {})
  <2>1. last \in reached
    <3>1. reached \subseteq 1..n /\ reached # {}
      BY <1>1, <1>3
    <3> HIDE DEF reached, n
    <3>2. \E i \in reached : \A j \in reached : j <= i
      BY <1>1, <3>1, LastOf
    <3> QED  BY <3>2
  <2>2. SetScheduledRewardsPerSecond(c) = d
    BY <1>3 DEF SetScheduledRewardsPerSecond
  <2> HIDE DEF last, d, m
  <2>3. last \in Nat /\ last \in 1..n /\ last >= k
    BY <1>1, <2>1
  <2>4. s \in Chef /\ SameBooks(c, s) /\ s.emissionScheduleIndex = last
        /\ s.lastEligibleStatus = c.lastEligibleStatus
        /\ s.disqualifiedTime = c.disqualifiedTime
    <3>1. s \in Chef
      BY <1>1, <2>3 DEF Chef
    <3>2. SameBooks(c, s)
      BY <1>1 DEF Chef, SameBooks
    <3>3. s.emissionScheduleIndex = last /\ s.lastEligibleStatus = c.lastEligibleStatus
          /\ s.disqualifiedTime = c.disqualifiedTime
      BY <1>1 DEF Chef
    <3> QED  BY <3>1, <3>2, <3>3
  <2> HIDE DEF s
  <2>5. OnSchedule(s)
    <3>1. ASSUME NEW i \in 1..last PROVE emissionSchedule[i].startTimeOffset <= now - startTime
      <4>1. CASE i <= k
        BY <1>1, <2>3, <4>1 DEF OnSchedule
      <4>2. CASE ~(i <= k)
        <5>1. i \in (k + 1)..last
          BY <1>1, <2>3, <4>2
        <5> QED  BY <2>1, <5>1
      <4> QED  BY <4>1, <4>2
    <3> QED  BY <2>3, <2>4, <3>1 DEF OnSchedule
  <2>6. Requalified(s)
    BY <1>1, <2>4 DEF Requalified
  <2>7. s \in Grown(c) /\ s \in Good
    BY <2>4, <2>5, <2>6, SameBooksKeep DEF Grown
  <2>8. m \in Emitted(s) /\ m.emissionScheduleIndex = s.emissionScheduleIndex
    BY <2>7, MassUpdateKeeps DEF m
  <2>9. m \in Emitted(c)
    <3>1. m \in Grown(c)
      BY <2>7, <2>8, GrownTransitive DEF Emitted
    <3> QED  BY <1>1, <2>3, <2>4, <2>8, <3>1 DEF Emitted, SameBooks
  <2>10. m \in Chef /\ m \in Good
    BY <2>8 DEF Emitted, Grown, Good
  <2>11. emissionSchedule[last].rewardsPerSecond \in Nat
    <3>1. emissionSchedule[last] \in EmissionPoint
      BY <2>3, ElementOfSeq DEF Environment
    <3> QED  BY <3>1 DEF EmissionPoint
  <2>12. /\ d \in Chef
         /\ d.lastEligibleStatus = m.lastEligibleStatus /\ d.disqualifiedTime = m.disqualifiedTime
         /\ d.emissionScheduleIndex = m.emissionScheduleIndex
    <3>1. d \in Chef
      BY <2>10, <2>11 DEF Chef, d
    <3> QED  BY <2>10, <3>1 DEF Chef, d
  <2>13. SameBooks(m, d)
    <3>1. m.depositedRewards \in Nat
      BY <2>10, ChefTypes
    <3> QED  BY <2>10, <3>1 DEF Chef, SameBooks, d
  <2>14. OnSchedule(d)
    BY <2>10, <2>12 DEF OnSchedule, Good
  <2> QED  BY <2>2, <2>9, <2>12, <2>13, <2>14, EmittedKeeps
<1> QED  BY <1>2, <1>3

\* _updateEmissions keeps the state sound.
LEMMA UpdateEmissionsKeeps ==
  ASSUME NEW c, Environment, c \in Good
  PROVE  UpdateEmissions(c) \in Emitted(c)
<1> DEFINE m == MassUpdatePools(c)
           s == [m EXCEPT !.lastRPS = c.rewardsPerSecond]
           d == [s EXCEPT !.rewardsPerSecond = 0]
<1>1. CASE c.rewardsPerSecond # 0 /\ now > endRewardTime(c)
  <2>1. UpdateEmissions(c) = d
    BY <1>1 DEF UpdateEmissions
  <2>2. m \in Emitted(c)
    BY MassUpdateKeeps
  <2>3. m \in Chef /\ m \in Good /\ c.rewardsPerSecond \in Nat /\ m.depositedRewards \in Nat
    BY <2>2, ChefTypes DEF Emitted, Grown, Good
  <2> HIDE DEF m
  <2>4. s \in Chef
    BY <2>3 DEF Chef
  <2>5. SameBooks(m, s)
    BY <2>3 DEF Chef, SameBooks
  <2>6. s.lastEligibleStatus = m.lastEligibleStatus /\ s.disqualifiedTime = m.disqualifiedTime
        /\ s.emissionScheduleIndex = m.emissionScheduleIndex
    BY <2>3 DEF Chef
  <2> HIDE DEF s
  <2>7. d \in Chef
    BY <2>4 DEF Chef
  <2>8. SameBooks(m, d)
    BY <2>4, <2>5 DEF Chef, SameBooks
  <2>9. d.lastEligibleStatus = m.lastEligibleStatus /\ d.disqualifiedTime = m.disqualifiedTime
        /\ d.emissionScheduleIndex = m.emissionScheduleIndex
    BY <2>4, <2>6 DEF Chef
  <2> HIDE DEF d
  <2>10. OnSchedule(d)
    BY <2>3, <2>9 DEF OnSchedule, Good
  <2> QED  BY <2>1, <2>2, <2>7, <2>8, <2>9, <2>10, EmittedKeeps
<1>2. CASE ~(c.rewardsPerSecond # 0 /\ now > endRewardTime(c))
  BY <1>2, SetScheduledKeeps DEF UpdateEmissions
<1> QED  BY <1>1, <1>2

-----------------------------------------------------------------------------
(* claim *)

\* A step of claim's loop updates the pool and brings the user's debt up to date.
LEMMA ClaimRebooks ==
  ASSUME NEW s, NEW u, NEW p,
         Environment, s.chef \in Good, u \in Users, p \in Registered
  PROVE  LET d == UpdatePool(s.chef, p)
         IN  ClaimPool(s, u, p) = [chef    |-> Rebook(d, u, p, Amount(d, u, p), 0, 0),
                                   pending |-> s.pending + Pending(d, u, p)]
<1> DEFINE d == UpdatePool(s.chef, p)
           debt == (Amount(d, u, p) * Share(d, p)) \div ACC_REWARD_PRECISION
           i == [amount |-> Amount(d, u, p), rewardDebt |-> debt]
           pools == [d.poolInfo EXCEPT ![p] = [d.poolInfo[p] EXCEPT
                        !.totalSupply = @ - Amount(d, u, p) + Amount(d, u, p)]]
           mine == [d.userInfo[u] EXCEPT ![p] = i]
           users == [d.userInfo EXCEPT ![u] = mine]
           base == [d.userBaseClaimable EXCEPT ![u] = @ + 0]
           claimed == [d EXCEPT !.userInfo = [d.userInfo EXCEPT ![u] =
                         [d.userInfo[u] EXCEPT ![p] = [d.userInfo[u][p] EXCEPT !.rewardDebt = debt]]]]
<1>1. d \in Chef /\ p \in Pools
  BY UpdatePoolKeeps, PlaceOf DEF Paid, Grown, Good
<1>2. ClaimPool(s, u, p) = [chef |-> claimed, pending |-> s.pending + Pending(d, u, p)]
  BY DEF ClaimPool, Amount, Share, Chef
<1>3. Rebook(d, u, p, Amount(d, u, p), 0, 0)
        = WithAccounts(d, pools, users, base, d.accountedRewards, d.paid, d.updates + 0)
  BY DEF Rebook
<1>4. pools = d.poolInfo
  <2> DEFINE q == d.poolInfo[p]
             a == Amount(d, u, p)
  <2>1. d.poolInfo \in [Pools -> PoolInfo] /\ q \in PoolInfo /\ q.totalSupply \in Nat /\ a \in Nat
    BY <1>1, ChefTypes, PoolTypes, UserTypes
  <2> HIDE DEF d, a
  <2>2. q.totalSupply - a + a = q.totalSupply
    BY <2>1
  <2> DEFINE t == q.totalSupply - a + a
  <2>3. [q EXCEPT !.totalSupply = t] = q
    <3> HIDE DEF t
    <3> QED  BY <2>1, <2>2 DEF PoolInfo, t
  <2>4. pools = [d.poolInfo EXCEPT ![p] = [q EXCEPT !.totalSupply = t]]
    BY DEF a
  <2>5. [d.poolInfo EXCEPT ![p] = q] = d.poolInfo
    BY <2>1
  <2> HIDE DEF pools, q, t
  <2> QED  BY <2>3, <2>4, <2>5
<1>5. base = d.userBaseClaimable
  <2>1. d.userBaseClaimable \in [Users -> Nat]
    BY <1>1, ChefTypes
  <2> HIDE DEF d
  <2> QED  BY <2>1
<1>6. [d.userInfo[u][p] EXCEPT !.rewardDebt = debt] = i
  <2>1. d.userInfo[u][p] \in UserInfo
    BY <1>1, UserTypes
  <2> HIDE DEF debt, d
  <2> QED  BY <2>1 DEF UserInfo, Amount
<1>7. d.updates + 0 = d.updates
  BY <1>1, ChefTypes
<1>8. claimed = [d EXCEPT !.userInfo = users]
  BY <1>6
<1> HIDE DEF pools, users, base, claimed, d
<1>9. WithAccounts(d, d.poolInfo, users, d.userBaseClaimable, d.accountedRewards, d.paid, d.updates)
        = [d EXCEPT !.userInfo = users]
  BY <1>1 DEF WithAccounts, Chef
<1> QED  BY <1>2, <1>3, <1>4, <1>5, <1>7, <1>8, <1>9 DEF d

\* What is set aside for u may be more or less than in c.
LEMMA BaseMoves ==
  ASSUME NEW c, NEW d, NEW u, Environment, c \in Good, d \in Chef, u \in Users,
         SameButAccounts(c, d), d.poolInfo = c.poolInfo, d.userInfo = c.userInfo,
         d.accountedRewards = c.accountedRewards, d.updates = c.updates,
         \A v \in Users \ {u} : d.userBaseClaimable[v] = c.userBaseClaimable[v]
  PROVE  /\ \A v \in Users, p \in Pools : Amount(d, v, p) = Amount(c, v, p)
         /\ \A v \in Users \ {u} : Earned(d, v) = Earned(c, v)
         /\ Earned(d, u) = Earned(c, u) - c.userBaseClaimable[u] + d.userBaseClaimable[u]
         /\ Slack(d) + d.userBaseClaimable[u] * ACC_REWARD_PRECISION
              = Slack(c) + c.userBaseClaimable[u] * ACC_REWARD_PRECISION
         /\ Slack(d) >= 0 => d \in Good
<1> DEFINE A == ACC_REWARD_PRECISION
           x == c.userBaseClaimable[u]
           y == d.userBaseClaimable[u]
<1>1. /\ c \in Chef /\ A \in Nat \ {0} /\ NumUsers \in Nat /\ Users = 1..NumUsers
      /\ x \in Nat /\ y \in Nat /\ vested[u] \in Nat
  BY Constants, ChefTypes DEF Good, Environment
<1>2. \A v \in Users, p \in Pools : /\ Amount(d, v, p) = Amount(c, v, p)
                                    /\ Debt(d, v, p) = Debt(c, v, p)
                                    /\ Credit(d, v, p) = Credit(c, v, p)
                                    /\ Pending(d, v, p) = Pending(c, v, p)
  BY DEF Amount, Debt, Credit, Share, Pending
<1>3. ASSUME NEW v \in Users \ {u}
      PROVE  Earned(d, v) = Earned(c, v) /\ EarnedExactly(d, v) = EarnedExactly(c, v)
  <2>1. SetAside(d, v) = SetAside(c, v)
    BY DEF SetAside
  <2> QED  BY <1>1, <1>2, <2>1, PlaceOf, EarnedStays
<1> DEFINE f == [i \in 1..Len(registeredTokens) |-> Pending(c, u, registeredTokens[i])]
           g == [i \in 1..Len(registeredTokens) |-> Credit(c, u, registeredTokens[i])]
<1>4. /\ Earned(c, u) = vested[u] + x + Sum(f) /\ Earned(d, u) = vested[u] + y + Sum(f)
      /\ EarnedExactly(c, u) = (vested[u] + x) * A + Sum(g)
      /\ EarnedExactly(d, u) = (vested[u] + y) * A + Sum(g)
  <2>1. /\ f = [i \in 1..Len(registeredTokens) |-> Pending(d, u, registeredTokens[i])]
        /\ g = [i \in 1..Len(registeredTokens) |-> Credit(d, u, registeredTokens[i])]
    BY <1>2, PlaceOf DEF Registered, Range
  <2> HIDE DEF f, g
  <2>2. /\ Earned(c, u) = vested[u] + x + Sum(f)
        /\ EarnedExactly(c, u) = (vested[u] + x) * A + Sum(g)
    BY DEF Earned, EarnedExactly, SetAside, f, g
  <2> QED  BY <2>1, <2>2 DEF Earned, EarnedExactly, SetAside
<1>5. Sum(f) \in Int /\ Sum(g) \in Int
  <2>1. /\ Len(registeredTokens) \in Nat /\ f \in [1..Len(registeredTokens) -> Int]
        /\ g \in [1..Len(registeredTokens) -> Int]
    BY <1>1, EarnedTypes
  <2> HIDE DEF f, g
  <2> QED  BY <2>1, SumInt
<1> HIDE DEF f, g, x, y
<1>6. Earned(d, u) = Earned(c, u) - x + y
  BY <1>1, <1>4, <1>5
<1>7. /\ (vested[u] + x) * A = vested[u] * A + x * A /\ (vested[u] + y) * A = vested[u] * A + y * A
      /\ vested[u] * A \in Int /\ x * A \in Int /\ y * A \in Int
  <2> DEFINE z == vested[u]
  <2>1. z \in Nat /\ x \in Nat /\ y \in Nat /\ A \in Nat
    BY <1>1
  <2> HIDE DEF z, A
  <2>2. (z + x) * A = z * A + x * A /\ (z + y) * A = z * A + y * A
    BY <2>1
  <2>3. z * A \in Int /\ x * A \in Int /\ y * A \in Int
    BY <2>1
  <2> QED  BY <2>2, <2>3 DEF z
<1> DEFINE w0 == vested[u] * A
           x0 == x * A
           y0 == y * A
<1>8. /\ EarnedExactly(c, u) = w0 + x0 + Sum(g) /\ EarnedExactly(d, u) = w0 + y0 + Sum(g)
      /\ w0 \in Int /\ x0 \in Int /\ y0 \in Int
  BY <1>4, <1>7
<1> HIDE DEF w0, x0, y0
<1>9. Slack(d) + y0 = Slack(c) + x0
  <2> DEFINE h == [v \in Users |-> EarnedExactly(c, v)]
             k == [v \in Users |-> EarnedExactly(d, v)]
             t == (c.accountedRewards + c.updates) * A
  <2>1. /\ h \in [1..NumUsers -> Int] /\ k \in [1..NumUsers -> Int] /\ u \in 1..NumUsers
        /\ \A v \in 1..NumUsers : v # u => k[v] = h[v]
    BY <1>1, <1>3, EarnedTypes
  <2>2. h[u] = EarnedExactly(c, u) /\ k[u] = EarnedExactly(d, u)
    OBVIOUS
  <2>3. Slack(c) = t - Sum(h) /\ Slack(d) = t - Sum(k)
    BY DEF Slack
  <2> HIDE DEF h, k
  <2>4. Sum(k) = Sum(h) - h[u] + k[u]
    BY <1>1, <2>1, SumMoves
  <2>5. Sum(h) \in Int
    BY <1>1, <2>1, SumInt
  <2>6. t \in Int
    <3>1. c.accountedRewards \in Nat /\ c.updates \in Nat
      BY <1>1, ChefTypes
    <3> QED  BY <1>1, <3>1
  <2> HIDE DEF t
  <2> QED  BY <1>5, <1>8, <2>2, <2>3, <2>4, <2>5, <2>6
<1>10. ASSUME Slack(d) >= 0 PROVE d \in Good
  <2>1. /\ TotalsOf(c) /\ Solvent(c) /\ OnlyRegistered(c) /\ OnSchedule(c) /\ Requalified(c)
    BY DEF Good
  <2>2. TotalsOf(d)
    <3>1. ASSUME NEW p \in Pools
          PROVE  [v \in Users |-> Amount(d, v, p)] = [v \in Users |-> Amount(c, v, p)]
      BY <1>2
    <3> QED  BY <2>1, <3>1 DEF TotalsOf, SameButAccounts
  <2>3. Solvent(d)
    BY <1>2, <2>1 DEF Solvent, SameButAccounts
  <2>4. OnlyRegistered(d)
    BY <1>2, <2>1 DEF OnlyRegistered
  <2>5. OnSchedule(d) /\ Requalified(d)
    BY <2>1 DEF OnSchedule, Requalified, SameButAccounts
  <2> QED  BY <1>10, <2>2, <2>3, <2>4, <2>5 DEF Good, Backed
<1> QED  BY <1>2, <1>3, <1>6, <1>9, <1>10 DEF x0, y0, x, y

\* The rounds of a claim of u's from c: what is pending was taken out of the books.
Claiming(c, u) ==
  {s \in [chef : Good, pending : Nat] :
     /\ SameButAccounts(c, s.chef)
     /\ s.chef.userBaseClaimable[u] = 0
     /\ \A v \in Users, p \in Pools : Amount(s.chef, v, p) = Amount(c, v, p)
     /\ \A v \in Users \ {u} : Earned(c, v) <= Earned(s.chef, v)
     /\ Earned(c, u) <= Earned(s.chef, u) + s.pending
     /\ Slack(c) + s.pending * ACC_REWARD_PRECISION <= Slack(s.chef)}

\* A claim starts from what is set aside.
LEMMA ClaimStarts ==
  ASSUME NEW c, NEW u, Environment, c \in Good, u \in Users
  PROVE  [chef    |-> [c EXCEPT !.userBaseClaimable[u] = 0],
          pending |-> c.userBaseClaimable[u]] \in Claiming(c, u)
<1> DEFINE base == [c.userBaseClaimable EXCEPT ![u] = 0]
           d == [c EXCEPT !.userBaseClaimable[u] = 0]
           x == c.userBaseClaimable[u]
           A == ACC_REWARD_PRECISION
           s == [chef |-> d, pending |-> x]
<1>1. c \in Chef /\ x \in Nat /\ A \in Nat \ {0} /\ Slack(c) >= 0
  BY ChefTypes, Constants DEF Good, Backed
<1>2. /\ base \in [Users -> Nat] /\ base[u] = 0
      /\ \A v \in Users \ {u} : base[v] = c.userBaseClaimable[v]
  BY <1>1, ChefTypes
<1>3. d = [c EXCEPT !.userBaseClaimable = base]
  BY DEF Chef
<1> HIDE DEF d, base
<1>4. /\ d \in Chef /\ SameButAccounts(c, d) /\ d.poolInfo = c.poolInfo
      /\ d.userInfo = c.userInfo /\ d.userBaseClaimable = base
      /\ d.accountedRewards = c.accountedRewards /\ d.updates = c.updates
  BY <1>1, <1>2, <1>3 DEF Chef, SameButAccounts
<1>5. /\ \A v \in Users, p \in Pools : Amount(d, v, p) = Amount(c, v, p)
      /\ \A v \in Users \ {u} : Earned(d, v) = Earned(c, v)
      /\ Earned(d, u) = Earned(c, u) - x + d.userBaseClaimable[u]
      /\ Slack(d) + d.userBaseClaimable[u] * A = Slack(c) + x * A
      /\ Slack(d) >= 0 => d \in Good
  BY <1>1, <1>2, <1>4, BaseMoves
<1>6. \A v \in Users : Earned(c, v) \in Int /\ Earned(d, v) \in Int
  BY <1>1, <1>4, EarnedTypes
<1>7. Slack(c) \in Int /\ Slack(d) \in Int
  BY <1>1, <1>4, SlackInt
<1> HIDE DEF x
<1>8. 0 * A = 0 /\ x * A \in Nat
  BY <1>1
<1>9. Slack(d) = Slack(c) + x * A
  BY <1>2, <1>4, <1>5, <1>7, <1>8
<1>10. Slack(d) >= 0
  <2> DEFINE z == x * A
  <2>1. z \in Nat /\ Slack(d) = Slack(c) + z
    BY <1>8, <1>9
  <2> HIDE DEF z
  <2> QED  BY <1>1, <1>7, <2>1
<1>11. d \in Good
  BY <1>5, <1>10
<1>12. Earned(c, u) <= Earned(d, u) + x
  BY <1>1, <1>2, <1>4, <1>5, <1>6
<1>13. \A v \in Users \ {u} : Earned(c, v) <= Earned(d, v)
  BY <1>5, <1>6
<1>14. Slack(c) + x * A <= Slack(d)
  BY <1>7, <1>9
<1>15. s \in Claiming(c, u)
  <2>1. s.chef = d /\ s.pending = x /\ s \in [chef : Good, pending : Nat]
    BY <1>1, <1>11
  <2> HIDE DEF s
  <2> QED  BY <1>2, <1>4, <1>5, <1>12, <1>13, <1>14, <2>1 DEF Claiming
<1> QED  BY <1>15 DEF d, x

\* One round.
LEMMA ClaimRound ==
  ASSUME NEW c, NEW u, NEW s, NEW p,
         Environment, c \in Good, u \in Users, s \in Claiming(c, u), p \in Registered
  PROVE  ClaimPool(s, u, p) \in Claiming(c, u)
<1> DEFINE A == ACC_REWARD_PRECISION
           a == s.chef
           d == UpdatePool(a, p)
           x == Pending(d, u, p)
           b == Amount(d, u, p)
           e == Rebook(d, u, p, b, 0, 0)
           t == [chef |-> e, pending |-> s.pending + x]
<1>1. a \in Good /\ s.pending \in Nat /\ p \in Pools /\ A \in Nat \ {0} /\ c \in Chef
  BY PlaceOf, Constants DEF Claiming, Good
<1>2. ClaimPool(s, u, p) = t
  BY <1>1, ClaimRebooks
<1>3. d \in Paid(a)
  BY <1>1, UpdatePoolKeeps
<1> HIDE DEF d
<1>4. d \in Good /\ d \in Chef /\ d \in Grown(a)
  BY <1>3 DEF Paid, Grown, Good
<1>5. x \in Nat /\ 0 <= Pending(d, u, p)
  <2>1. Credit(d, u, p) >= 0
    BY <1>1, <1>4 DEF Good, Solvent
  <2> QED  BY <1>1, <1>4, <2>1, PendingRounds
<1>6. b \in Nat
  BY <1>1, <1>4, UserTypes
<1>7. b = Amount(d, u, p) /\ x = Pending(d, u, p) /\ e = Rebook(d, u, p, b, 0, 0)
  OBVIOUS
<1> HIDE DEF b, x, e
<1>8. /\ e \in Good /\ Touched(d, e, u, p) /\ Amount(e, u, p) = b
      /\ e.userBaseClaimable[u] = d.userBaseClaimable[u] + 0
      /\ \A v \in Users \ {u} : Earned(e, v) = Earned(d, v)
      /\ Earned(e, u) = Earned(d, u) + 0 - Pending(d, u, p)
      /\ Slack(d) + (Pending(d, u, p) - 0) * A <= Slack(e)
  BY <1>4, <1>5, <1>6, <1>7, RebookKeeps
<1>9. \A v \in Users : /\ Earned(c, v) \in Int /\ Earned(a, v) \in Int
                       /\ Earned(d, v) \in Int /\ Earned(e, v) \in Int
  <2>1. a \in Chef /\ e \in Chef
    BY <1>1, <1>8 DEF Good
  <2> QED  BY <1>1, <1>4, <2>1, EarnedTypes
<1>10. Slack(c) \in Int /\ Slack(a) \in Int /\ Slack(d) \in Int /\ Slack(e) \in Int
  <2>1. a \in Chef /\ e \in Chef
    BY <1>1, <1>8 DEF Good
  <2> QED  BY <1>1, <1>4, <2>1, SlackInt
<1>11. /\ \A v \in Users : Earned(a, v) <= Earned(d, v)
       /\ Slack(a) <= Slack(d)
  BY <1>4 DEF Grown
<1>12. /\ SameButAccounts(c, a)
       /\ a.userBaseClaimable[u] = 0
       /\ \A v \in Users, r \in Pools : Amount(a, v, r) = Amount(c, v, r)
       /\ \A v \in Users \ {u} : Earned(c, v) <= Earned(a, v)
       /\ Earned(c, u) <= Earned(a, u) + s.pending
       /\ Slack(c) + s.pending * A <= Slack(a)
  BY DEF Claiming
<1> HIDE DEF a
<1>13. SameButAccounts(c, e)
  BY <1>3, <1>8, <1>12 DEF Paid, Touched, SameButAccounts
<1>14. e.userBaseClaimable[u] = 0
  BY <1>3, <1>8, <1>12 DEF Paid
<1>15. \A v \in Users, r \in Pools : Amount(e, v, r) = Amount(c, v, r)
  <2>1. \A v \in Users, r \in Pools : Amount(d, v, r) = Amount(c, v, r)
    BY <1>3, <1>12 DEF Paid, Amount
  <2>2. \A v \in Users, r \in Pools : Amount(e, v, r) = Amount(d, v, r)
    BY <1>7, <1>8 DEF Touched
  <2> QED  BY <2>1, <2>2
<1>16. \A v \in Users \ {u} : Earned(c, v) <= Earned(e, v)
  BY <1>8, <1>9, <1>11, <1>12
<1>17. Earned(c, u) <= Earned(e, u) + (s.pending + x)
  BY <1>1, <1>5, <1>7, <1>8, <1>9, <1>11, <1>12
<1>18. Slack(c) + (s.pending + x) * A <= Slack(e)
  <2> DEFINE k == s.pending
             y == k * A
             z == x * A
  <2>1. k \in Nat
    BY <1>1
  <2>2. x - 0 = x
    BY <1>5
  <2>3. Slack(d) + z <= Slack(e) /\ Slack(c) + y <= Slack(a)
    BY <1>7, <1>8, <1>12, <2>2
  <2> HIDE DEF k
  <2>4. (k + x) * A = y + z /\ y \in Int /\ z \in Int
    BY <1>1, <1>5, <2>1
  <2> HIDE DEF y, z
  <2>5. Slack(c) + (y + z) <= Slack(e)
    BY <1>10, <1>11, <2>3, <2>4
  <2> QED  BY <2>4, <2>5 DEF k
<1>19. t \in Claiming(c, u)
  <2>1. t.chef = e /\ t.pending = s.pending + x /\ t \in [chef : Good, pending : Nat]
    BY <1>1, <1>5, <1>8
  <2> HIDE DEF t
  <2> QED  BY <1>13, <1>14, <1>15, <1>16, <1>17, <1>18, <2>1 DEF Claiming
<1> QED  BY <1>2, <1>19

\* claim's loop over registered tokens.
LEMMA ClaimPoolsKeep ==
  ASSUME NEW c, NEW u, NEW s, NEW tokens,
         Environment, c \in Good, u \in Users, s \in Claiming(c, u),
         tokens \in Seq(Pools), Range(tokens) \subseteq Registered
  PROVE  ClaimPools(s, u, tokens) \in Claiming(c, u)
<1> DEFINE n == Len(tokens)
           S == Claiming(c, u)
           G == [w \in S \X (1..n) |-> ClaimPool(w[1], u, tokens[w[2]])]
<1>1. n \in Nat /\ \A i \in 1..n : tokens[i] \in Registered
  BY LenProperties DEF Range
<1>2. \A x \in S, p \in Registered : ClaimPool(x, u, p) \in S
  BY ClaimRound
<1>3. G \in [S \X (1..n) -> S]
  <2> HIDE DEF S, n
  <2>1. ASSUME NEW w \in S \X (1..n) PROVE ClaimPool(w[1], u, tokens[w[2]]) \in S
    <3>1. w[1] \in S /\ w[2] \in 1..n
      OBVIOUS
    <3> QED  BY <1>1, <1>2, <3>1
  <2> QED  BY <2>1
<1> HIDE DEF S
<1>4. s \in S
  BY DEF S
<1>5. PICK f \in [0..n -> S] : f[0] = s /\ \A i \in 1..n : f[i] = G[<<f[i - 1], i>>]
  <2> HIDE DEF n, G
  <2>1. \E f \in [0..n -> S] : RunOf(f, s, n, G)
    BY <1>1, <1>3, <1>4, LoopRuns
  <2> QED  BY <2>1 DEF RunOf
<1>6. f = [i \in 0..n |-> IF i = 0 THEN s ELSE ClaimPool(f[i - 1], u, tokens[i])]
  <2>1. ASSUME NEW i \in 0..n
        PROVE  f[i] = IF i = 0 THEN s ELSE ClaimPool(f[i - 1], u, tokens[i])
    <3>1. CASE i = 0
      BY <1>5, <3>1
    <3>2. CASE i # 0
      <4>1. i \in 1..n /\ i - 1 \in 0..n
        BY <1>1, <3>2
      <4>2. f[i - 1] \in S
        BY <4>1
      <4>3. <<f[i - 1], i>> \in S \X (1..n) /\ f[i] = G[<<f[i - 1], i>>]
        BY <1>5, <4>1, <4>2
      <4>4. G[<<f[i - 1], i>>] = ClaimPool(<<f[i - 1], i>>[1], u, tokens[<<f[i - 1], i>>[2]])
        BY <4>3
      <4> QED  BY <3>2, <4>3, <4>4
    <3> QED  BY <3>1, <3>2
  <2> QED  BY <2>1
<1> DEFINE g == CHOOSE f0 : f0 = [i \in 0..n |-> IF i = 0 THEN s
                                   ELSE ClaimPool(f0[i - 1], u, tokens[i])]
<1>7. g = [i \in 0..n |-> IF i = 0 THEN s ELSE ClaimPool(g[i - 1], u, tokens[i])]
  BY <1>6
<1>8. ClaimPools(s, u, tokens) = g[n]
  BY DEF ClaimPools
<1> HIDE DEF g, n
<1>9. \A i \in 0..n : g[i] \in S
  <2>1. g[0] \in S
    BY <1>1, <1>4, <1>7
  <2>2. ASSUME NEW i \in 1..n, g[i - 1] \in S PROVE g[i] \in S
    <3>1. g[i] = ClaimPool(g[i - 1], u, tokens[i])
      BY <1>1, <1>7
    <3> QED  BY <1>1, <1>2, <2>2, <3>1
  <2> QED  BY <1>1, <2>1, <2>2, LoopKeeps
<1> QED  BY <1>1, <1>8, <1>9 DEF S

-----------------------------------------------------------------------------
(* The invariant, and the steps that keep it *)

\* The inductive invariant.
ChefInv == TypeOK /\ Environment /\ chef \in Good

\* What a step must do to keep it, and what every user has earned.
Sound == /\ (chef \in Good)'
         /\ \A u \in Users : EarnedTotal(u) <= EarnedTotal(u)'

\* What a user has earned, by its two names.
LEMMA EarnedTotalIs ==
  \A u \in Users : EarnedTotal(u) = Earned(chef, u)
BY DEF EarnedTotal, Earned, SetAside

\* A transaction that computed c, and maybe vested what it had set aside, leaves a
\* sound state: time passes and the schedule grows.
LEMMA Carried ==
  ASSUME NEW c, Environment, c \in Good, chef' \in Chef,
         SameButAccounts(c, chef'),
         chef'.poolInfo = c.poolInfo, chef'.userInfo = c.userInfo,
         chef'.accountedRewards = c.accountedRewards, chef'.updates = c.updates,
         \A u \in Users : vested'[u] + chef'.userBaseClaimable[u] = SetAside(c, u),
         now' \in Nat, now <= now', startTime' = startTime,
         registeredTokens' = registeredTokens,
         Len(emissionSchedule') \in Nat, Len(emissionSchedule) <= Len(emissionSchedule'),
         \A i \in 1..Len(emissionSchedule) : emissionSchedule'[i] = emissionSchedule[i]
  PROVE  (chef \in Good)' /\ \A u \in Users : EarnedTotal(u)' = Earned(c, u)
<1>1. c \in Chef /\ TotalsOf(c) /\ Solvent(c) /\ OnlyRegistered(c) /\ Backed(c) /\ OnSchedule(c)
      /\ Requalified(c)
  BY DEF Good
<1>2. \A u \in Users, p \in Pools : /\ Amount(chef', u, p) = Amount(c, u, p)
                                    /\ Debt(chef', u, p) = Debt(c, u, p)
                                    /\ Credit(chef', u, p) = Credit(c, u, p)
                                    /\ Pending(chef', u, p) = Pending(c, u, p)
  BY DEF Amount, Debt, Credit, Share, Pending
<1>3. TotalsOf(chef)'
  <2>1. ASSUME NEW p \in Pools
        PROVE  [u \in Users |-> Amount(chef', u, p)] = [u \in Users |-> Amount(c, u, p)]
    BY <1>2
  <2> QED  BY <1>1, <2>1 DEF TotalsOf, SameButAccounts
<1>4. Solvent(chef)'
  <2>1. \A p \in Pools : chef'.poolInfo[p].lastRewardTime <= now'
    <3> SUFFICES ASSUME NEW p \in Pools PROVE c.poolInfo[p].lastRewardTime <= now'
      OBVIOUS
    <3>1. c.poolInfo[p].lastRewardTime <= now /\ c.poolInfo[p].lastRewardTime \in Nat
          /\ now \in Nat
      BY <1>1, PoolTypes DEF Solvent, Environment
    <3> QED  BY <3>1
  <2> QED  BY <1>1, <1>2, <2>1 DEF Solvent, SameButAccounts
<1>5. OnlyRegistered(chef)'
  BY <1>1, <1>2 DEF OnlyRegistered, Registered
<1>6. ASSUME NEW u \in Users
      PROVE  EarnedTotal(u)' = Earned(c, u) /\ EarnedExactly(chef, u)' = EarnedExactly(c, u)
  <2>1. \A i \in 1..Len(registeredTokens) : registeredTokens[i] \in Pools
    BY ElementOfSeq DEF Environment
  <2>2. /\ [i \in 1..Len(registeredTokens) |-> Pending(chef', u, registeredTokens[i])]
             = [i \in 1..Len(registeredTokens) |-> Pending(c, u, registeredTokens[i])]
        /\ [i \in 1..Len(registeredTokens) |-> Credit(chef', u, registeredTokens[i])]
             = [i \in 1..Len(registeredTokens) |-> Credit(c, u, registeredTokens[i])]
    BY <1>2, <2>1
  <2>3. vested'[u] + chef'.userBaseClaimable[u] = SetAside(c, u)
    OBVIOUS
  <2>4. EarnedTotal(u)' = Earned(c, u)
    BY <2>2, <2>3 DEF EarnedTotal, Earned
  <2>5. EarnedExactly(chef, u)' = EarnedExactly(c, u)
    BY <2>2, <2>3 DEF EarnedExactly, SetAside
  <2> QED  BY <2>4, <2>5
<1>7. Backed(chef)'
  <2>1. [u \in Users |-> EarnedExactly(chef, u)'] = [u \in Users |-> EarnedExactly(c, u)]
    BY <1>6
  <2> QED  BY <1>1, <2>1 DEF Backed, Slack
<1>8. OnSchedule(chef)'
  <2>1. /\ chef'.emissionScheduleIndex = c.emissionScheduleIndex
        /\ c.emissionScheduleIndex \in Nat /\ Len(emissionSchedule) \in Nat
        /\ c.emissionScheduleIndex <= Len(emissionSchedule)
    BY <1>1, ChefTypes, LenProperties DEF SameButAccounts, OnSchedule, Environment
  <2>2. chef'.emissionScheduleIndex <= Len(emissionSchedule')
    BY <2>1
  <2>3. ASSUME NEW i \in 1..chef'.emissionScheduleIndex
        PROVE  emissionSchedule'[i].startTimeOffset <= now' - startTime'
    <3>1. i \in 1..Len(emissionSchedule)
      BY <2>1
    <3>2. emissionSchedule[i] \in EmissionPoint
      BY <3>1, ElementOfSeq DEF Environment
    <3>3. emissionSchedule[i].startTimeOffset <= now - startTime
          /\ emissionSchedule[i].startTimeOffset \in Nat
      BY <1>1, <2>1, <3>2 DEF OnSchedule, EmissionPoint
    <3>4. now \in Nat /\ startTime \in Nat /\ emissionSchedule'[i] = emissionSchedule[i]
      BY <3>1 DEF Environment
    <3> QED  BY <3>3, <3>4
  <2> QED  BY <2>2, <2>3 DEF OnSchedule
<1>9. Requalified(chef)'
  BY <1>1 DEF Requalified, SameButAccounts
<1> QED  BY <1>3, <1>4, <1>5, <1>6, <1>7, <1>8, <1>9 DEF Good

\* A transaction that vests nothing keeps the state sound if what it computes has.
LEMMA GrownIsSound ==
  ASSUME ChefInv, chef' \in Grown(chef),
         UNCHANGED <<now, startTime, registeredTokens, emissionSchedule, vested>>
  PROVE  Sound
<1>1. Environment /\ chef' \in Good /\ chef \in Chef /\ chef' \in Chef
  BY DEF ChefInv, Grown, Good
<1>2. SameButAccounts(chef', chef')
  BY DEF SameButAccounts
<1>3. \A u \in Users : vested'[u] + chef'.userBaseClaimable[u] = SetAside(chef', u)
  BY DEF SetAside
<1>4. now' \in Nat /\ now <= now' /\ Len(emissionSchedule') \in Nat
      /\ Len(emissionSchedule) <= Len(emissionSchedule')
  BY <1>1, LenProperties DEF Environment
<1>5. (chef \in Good)' /\ \A u \in Users : EarnedTotal(u)' = Earned(chef', u)
  BY <1>1, <1>2, <1>3, <1>4, Carried
<1> QED  BY <1>5, EarnedTotalIs DEF Sound, Grown

\* d removes what IneligibleIsRemoved asks for from every user.
AllRemoved(c, d) == \A u \in Users : ~d.lastEligibleStatus[u] => Removed(c, d, u)

\* Looking at one user removes what it should if it removes it from that one.
LEMMA LookedRemoves ==
  ASSUME NEW c, NEW d, NEW u, c \in Chef, u \in Users, Looked(c, d, u),
         ~d.lastEligibleStatus[u] => Removed(c, d, u)
  PROVE  AllRemoved(c, d)
<1> SUFFICES ASSUME NEW v \in Users \ {u}, ~d.lastEligibleStatus[v] PROVE Removed(c, d, v)
  BY DEF AllRemoved
<1>1. ASSUME NEW p \in Pools PROVE Amount(d, v, p) = Amount(c, v, p) /\ Amount(c, v, p) \in Nat
  BY UserTypes DEF Looked
<1>2. ~c.lastEligibleStatus[v]
  BY DEF Looked
<1> QED  BY <1>1, <1>2 DEF Removed

\* ... and in turn.
LEMMA RemovedTransitive ==
  ASSUME NEW c, NEW d, NEW e, c \in Chef, d \in Chef, e \in Chef,
         AllRemoved(c, d), AllRemoved(d, e)
  PROVE  AllRemoved(c, e)
<1> SUFFICES ASSUME NEW u \in Users, ~e.lastEligibleStatus[u], NEW p \in Pools
             PROVE  /\ Amount(e, u, p) <= Amount(c, u, p)
                    /\ c.lastEligibleStatus[u] => Amount(e, u, p) = 0
  BY DEF AllRemoved, Removed
<1>1. Amount(c, u, p) \in Nat /\ Amount(d, u, p) \in Nat /\ Amount(e, u, p) \in Nat
  BY UserTypes
<1>2. Amount(e, u, p) <= Amount(d, u, p) /\ (d.lastEligibleStatus[u] => Amount(e, u, p) = 0)
  BY DEF AllRemoved, Removed
<1>3. ~d.lastEligibleStatus[u] =>
        /\ Amount(d, u, p) <= Amount(c, u, p)
        /\ c.lastEligibleStatus[u] => Amount(d, u, p) = 0
  BY DEF AllRemoved, Removed
<1> QED  BY <1>1, <1>2, <1>3

\* Nothing changed, nothing to remove.
LEMMA SameIsRemoved ==
  ASSUME NEW c, NEW d, c \in Chef, d.lastEligibleStatus = c.lastEligibleStatus,
         \A u \in Users, p \in Pools : Amount(d, u, p) = Amount(c, u, p)
  PROVE  AllRemoved(c, d)
<1>1. \A u \in Users, p \in Pools : Amount(c, u, p) \in Nat
  BY UserTypes
<1> QED  BY <1>1 DEF AllRemoved, Removed

\* Eligibility is a truth value.
LEMMA EligibleIsBoolean ==
  \A scaled, lockedLP : eligibleWith(scaled, lockedLP) \in BOOLEAN
BY DEF eligibleWith, isEligibleForRewards

\* What balanceOf returns is a number.
LEMMA BalancesTypes ==
  ASSUME NEW scaled, TypeOK, scaled \in [Pools -> Nat]
  PROVE  balancesOf(scaled) \in [Pools -> Nat]
<1>1. \A p \in Pools : scaled[p] * normalizedIncome[p] \in Nat
  <2> SUFFICES ASSUME NEW p \in Pools PROVE scaled[p] * normalizedIncome[p] \in Nat
    OBVIOUS
  <2>1. scaled[p] \in Nat /\ normalizedIncome[p] \in Nat
    BY DEF TypeOK
  <2> QED  BY <2>1
<1> QED  BY <1>1 DEF balancesOf

\* The amounts of u are held, where its balances are b.
Held(c, u, b) == \A p \in Pools : Amount(c, u, p) <= b[p]

\* A user that was found ineligible has none.
Idle(c, u) == ~c.lastEligibleStatus[u] => \A p \in Pools : Amount(c, u, p) = 0

\* The hook of p, called after u's balances became `scaled`.
LEMMA TokenHookKeeps ==
  ASSUME NEW c, NEW u, NEW p, NEW scaled, NEW exempt, TypeOK, Environment, c \in Good,
         u \in Users, p \in Registered, scaled \in [Pools -> Nat]
  PROVE  LET d == HookUnlessExempt(c, u, p, scaled, exempt)
             b == balancesOf(scaled)
         IN  /\ Looked(c, d, u)
             /\ eligibilityEnabled => AllRemoved(c, d)
             /\ (/\ eligibilityEnabled /\ ~exempt /\ Idle(c, u)
                 /\ \A s \in Pools : normalizedIncome[s] >= 1
                 /\ \A s \in Pools \ {p} : Amount(c, u, s) <= b[s])
                  => Held(d, u, b)
<1> DEFINE d == HookUnlessExempt(c, u, p, scaled, exempt)
           b == balancesOf(scaled)
           eligible == eligibleWith(scaled, locked[u])
<1>1. b \in [Pools -> Nat] /\ eligible \in BOOLEAN /\ p \in Pools /\ scaled[p] \in Nat
      /\ c \in Chef
  BY BalancesTypes, EligibleIsBoolean, PlaceOf DEF Good
<1>2. CASE exempt
  <2>1. d = c
    BY <1>2 DEF HookUnlessExempt
  <2>2. Looked(c, c, u)
    BY GrownReflexive DEF Looked
  <2>3. AllRemoved(c, c)
    BY <1>1, SameIsRemoved
  <2> HIDE DEF d
  <2> QED  BY <1>2, <2>1, <2>2, <2>3 DEF d
<1>3. CASE ~exempt
  <2>1. d = HandleActionAfter(c, u, p, scaled[p], eligible, b)
    BY <1>3 DEF HookUnlessExempt
  <2> HIDE DEF d, b, eligible
  <2>2. /\ Looked(c, d, u)
        /\ eligibilityEnabled =>
             /\ d.lastEligibleStatus[u] = eligible
             /\ ~eligible => Removed(c, d, u)
             /\ eligible /\ c.lastEligibleStatus[u] =>
                  /\ Amount(d, u, p) = scaled[p]
                  /\ \A s \in Pools \ {p} : Amount(d, u, s) = Amount(c, u, s)
             /\ eligible /\ ~c.lastEligibleStatus[u] =>
                  \A s \in Pools : Amount(d, u, s) \in {Amount(c, u, s), b[s]}
    BY <1>1, <2>1, HookKeeps
  <2>3. eligibilityEnabled => AllRemoved(c, d)
    BY <1>1, <2>2, LookedRemoves
  <2>4. ASSUME eligibilityEnabled, Idle(c, u), \A s \in Pools : normalizedIncome[s] >= 1,
               \A s \in Pools \ {p} : Amount(c, u, s) <= b[s],
               NEW s \in Pools
        PROVE  Amount(d, u, s) <= b[s]
    <3>1. b[s] \in Nat /\ Amount(c, u, s) \in Nat
      BY <1>1, UserTypes
    <3>2. CASE ~eligible
      <4>1. Removed(c, d, u)
        BY <2>2, <2>4, <3>2
      <4>2. d \in Chef
        BY <2>2 DEF Looked, Grown, Good
      <4>3. Amount(d, u, s) \in Nat
        BY <4>2, UserTypes
      <4>4. Amount(d, u, s) = 0
        <5>1. c.lastEligibleStatus[u] => Amount(d, u, s) = 0
          BY <4>1 DEF Removed
        <5>2. ~c.lastEligibleStatus[u] => Amount(c, u, s) = 0
          BY <2>4 DEF Idle
        <5>3. Amount(d, u, s) <= Amount(c, u, s)
          BY <4>1 DEF Removed
        <5> QED  BY <3>1, <4>3, <5>1, <5>2, <5>3
      <4> QED  BY <3>1, <4>4
    <3>3. CASE eligible /\ c.lastEligibleStatus[u]
      <4>1. scaled[p] <= b[p]
        <5>1. normalizedIncome[p] >= 1 /\ normalizedIncome[p] \in Nat
          BY <1>1, <2>4 DEF TypeOK
        <5> DEFINE x == scaled[p]
                   k == normalizedIncome[p]
        <5>2. x \in Nat /\ k \in Nat /\ k >= 1
          BY <1>1, <5>1
        <5>3. b[p] = x * k
          BY <1>1 DEF b, balancesOf
        <5> HIDE DEF x, k
        <5>4. x <= x * k
          BY <5>2
        <5> QED  BY <5>3, <5>4 DEF x
      <4> QED  BY <2>2, <2>4, <3>3, <4>1
    <3>4. CASE eligible /\ ~c.lastEligibleStatus[u]
      <4>1. Amount(c, u, s) = 0 /\ Amount(d, u, s) \in {Amount(c, u, s), b[s]}
        BY <2>2, <2>4, <3>4 DEF Idle
      <4> QED  BY <3>1, <4>1
    <3> QED  BY <3>2, <3>3, <3>4
  <2> QED  BY <2>2, <2>3, <2>4 DEF Held, d, b
<1> QED  BY <1>2, <1>3

\* While eligibility is enforced from deployment on, the invariant that makes every
\* registered amount one the user holds.
HeldInv ==
  /\ eligibilityEnabled
  /\ \A p \in Pools : normalizedIncome[p] >= 1
  /\ \A u \in Users : Idle(chef, u)
  /\ \A u \in Users \ ExemptableUsers :
       ~eligibilityExempt[u] /\ Held(chef, u, balancesOf(tokenBalance[u]))

\* ... which a step keeps, but for interest.
HeldThen == \A u \in Users \ ExemptableUsers : Held(chef', u, balancesOf(tokenBalance'[u]))

\* What the transactions of tokens, of locks and of bounties do.
Acted == /\ chef' \in Grown(chef)
         /\ eligibilityEnabled => AllRemoved(chef, chef')
         /\ HeldInv => HeldThen

\* Removing what is asked for leaves no amounts to the ineligible.
LEMMA IdleKept ==
  ASSUME NEW c, NEW d, NEW u, c \in Chef, d \in Chef, u \in Users, Idle(c, u), AllRemoved(c, d)
  PROVE  Idle(d, u)
<1> SUFFICES ASSUME ~d.lastEligibleStatus[u], NEW p \in Pools PROVE Amount(d, u, p) = 0
  BY DEF Idle
<1>1. Amount(c, u, p) \in Nat /\ Amount(d, u, p) \in Nat
  BY UserTypes
<1>2. Amount(d, u, p) <= Amount(c, u, p) /\ (c.lastEligibleStatus[u] => Amount(d, u, p) = 0)
  BY DEF AllRemoved, Removed
<1>3. ~c.lastEligibleStatus[u] => Amount(c, u, p) = 0
  BY DEF Idle
<1> QED  BY <1>1, <1>2, <1>3

\* A mint or burn.
LEMMA MintOrBurnActs ==
  ASSUME ChefInv, NEW u \in Users, NEW p \in Pools, NEW balance \in 0..MaxBalance,
         MintOrBurn(u, p, balance)
  PROVE  Acted
<1> DEFINE scaled == [tokenBalance[u] EXCEPT ![p] = balance]
           b == balancesOf(scaled)
           exempt == eligibilityExempt[u]
<1>1. TypeOK /\ Environment /\ chef \in Good /\ chef \in Chef /\ tokenBalance \in [Users -> [Pools -> Nat]]
  BY DEF ChefInv, TypeOK, Good
<1>2. p \in Registered /\ balance \in Nat /\ scaled \in [Pools -> Nat]
  <2>0. p \in Registered
    BY DEF MintOrBurn, Registered
  <2>1. balance \in Nat
    BY Constants
  <2>2. tokenBalance[u] \in [Pools -> Nat]
    BY <1>1
  <2> QED  BY <2>0, <2>1, <2>2
<1>3. tokenBalance'[u] = scaled /\ \A v \in Users \ {u} : tokenBalance'[v] = tokenBalance[v]
  BY <1>1 DEF MintOrBurn
<1>4. chef' = HookUnlessExempt(chef, u, p, scaled, exempt)
  BY <1>3 DEF MintOrBurn, Hook
<1> HIDE DEF exempt, b, scaled
<1>5. /\ Looked(chef, chef', u)
      /\ eligibilityEnabled => AllRemoved(chef, chef')
      /\ (/\ eligibilityEnabled /\ ~exempt /\ Idle(chef, u)
          /\ \A s \in Pools : normalizedIncome[s] >= 1
          /\ \A s \in Pools \ {p} : Amount(chef, u, s) <= b[s])
           => Held(chef', u, b)
  BY <1>1, <1>2, <1>4, TokenHookKeeps DEF b
<1>6. ASSUME HeldInv, NEW v \in Users \ ExemptableUsers
      PROVE  Held(chef', v, balancesOf(tokenBalance'[v]))
  <2>1. CASE v = u
    <3>1. ~exempt /\ Idle(chef, u) /\ eligibilityEnabled
          /\ \A s \in Pools : normalizedIncome[s] >= 1
      BY <1>6, <2>1 DEF HeldInv, exempt
    <3>2. \A s \in Pools \ {p} : Amount(chef, u, s) <= b[s]
      <4>1. \A s \in Pools : Amount(chef, u, s) <= balancesOf(tokenBalance[u])[s]
        BY <1>6, <2>1 DEF HeldInv, Held
      <4>2. \A s \in Pools \ {p} : b[s] = balancesOf(tokenBalance[u])[s]
        BY <1>1 DEF b, scaled, balancesOf
      <4> QED  BY <4>1, <4>2
    <3>3. Held(chef', u, b)
      BY <1>5, <3>1, <3>2
    <3> QED  BY <1>3, <2>1, <3>3 DEF b
  <2>2. CASE v # u
    <3>1. \A s \in Pools : Amount(chef', v, s) = Amount(chef, v, s)
      BY <1>5, <2>2 DEF Looked
    <3>2. Held(chef, v, balancesOf(tokenBalance[v]))
      BY <1>6 DEF HeldInv
    <3> QED  BY <1>3, <2>2, <3>1, <3>2 DEF Held
  <2> QED  BY <2>1, <2>2
<1> QED  BY <1>5, <1>6 DEF Acted, HeldThen, Looked

\* A transfer.
LEMMA TransferActs ==
  ASSUME ChefInv, NEW u \in Users, NEW v \in Users, NEW p \in Pools, NEW amount \in 1..MaxBalance,
         Transfer(u, v, p, amount)
  PROVE  Acted
<1> DEFINE mine == [tokenBalance[u] EXCEPT ![p] = @ - amount]
           yours == [tokenBalance[v] EXCEPT ![p] = @ + amount]
           mid == HookUnlessExempt(chef, u, p, mine, eligibilityExempt[u])
           b == balancesOf(mine)
           k == balancesOf(yours)
<1>1. TypeOK /\ Environment /\ chef \in Good /\ chef \in Chef /\ tokenBalance \in [Users -> [Pools -> Nat]]
      /\ u # v
  BY DEF ChefInv, TypeOK, Good, Transfer
<1>2. p \in Registered /\ mine \in [Pools -> Nat] /\ yours \in [Pools -> Nat]
  <2>0. p \in Registered /\ tokenBalance[u][p] >= amount
    BY DEF Transfer, Registered
  <2>1. amount \in Nat
    BY Constants
  <2>2. tokenBalance[u] \in [Pools -> Nat] /\ tokenBalance[v] \in [Pools -> Nat]
    BY <1>1
  <2>3. tokenBalance[u][p] - amount \in Nat /\ tokenBalance[v][p] + amount \in Nat
    BY <2>0, <2>1, <2>2
  <2> QED  BY <2>0, <2>1, <2>2, <2>3
<1>3. /\ tokenBalance'[u] = mine /\ tokenBalance'[v] = yours
      /\ \A w \in Users \ {u, v} : tokenBalance'[w] = tokenBalance[w]
  BY <1>1 DEF Transfer
<1>4. chef' = HookUnlessExempt(mid, v, p, yours, eligibilityExempt[v])
  BY <1>3 DEF Transfer, Hook
<1> HIDE DEF mine, yours, b, k
<1>5. mid = HookUnlessExempt(chef, u, p, mine, eligibilityExempt[u])
  OBVIOUS
<1> HIDE DEF mid
<1>6. /\ Looked(chef, mid, u)
      /\ eligibilityEnabled => AllRemoved(chef, mid)
      /\ (/\ eligibilityEnabled /\ ~eligibilityExempt[u] /\ Idle(chef, u)
          /\ \A s \in Pools : normalizedIncome[s] >= 1
          /\ \A s \in Pools \ {p} : Amount(chef, u, s) <= b[s])
           => Held(mid, u, b)
  BY <1>1, <1>2, <1>5, TokenHookKeeps DEF b
<1>7. mid \in Good /\ mid \in Chef /\ mid \in Grown(chef)
  BY <1>6 DEF Looked, Grown, Good
<1>8. /\ Looked(mid, chef', v)
      /\ eligibilityEnabled => AllRemoved(mid, chef')
      /\ (/\ eligibilityEnabled /\ ~eligibilityExempt[v] /\ Idle(mid, v)
          /\ \A s \in Pools : normalizedIncome[s] >= 1
          /\ \A s \in Pools \ {p} : Amount(mid, v, s) <= k[s])
           => Held(chef', v, k)
  BY <1>1, <1>2, <1>4, <1>7, TokenHookKeeps DEF k
<1>9. chef' \in Grown(chef) /\ chef' \in Chef
  <2>1. chef' \in Grown(mid) /\ chef' \in Chef
    BY <1>8 DEF Looked, Grown, Good
  <2> QED  BY <1>1, <1>7, <2>1, GrownTransitive
<1>10. eligibilityEnabled => AllRemoved(chef, chef')
  BY <1>1, <1>6, <1>7, <1>8, <1>9, RemovedTransitive
<1>11. ASSUME HeldInv, NEW w \in Users \ ExemptableUsers
       PROVE  Held(chef', w, balancesOf(tokenBalance'[w]))
  <2>0. /\ eligibilityEnabled /\ \A s \in Pools : normalizedIncome[s] >= 1
        /\ ~eligibilityExempt[w] /\ Idle(chef, w)
        /\ Held(chef, w, balancesOf(tokenBalance[w]))
    BY <1>11 DEF HeldInv
  <2>1. CASE w = u
    <3>1. \A s \in Pools \ {p} : Amount(chef, u, s) <= b[s]
      BY <1>1, <2>0, <2>1 DEF b, mine, balancesOf, Held
    <3>2. Held(mid, u, b)
      BY <1>6, <2>0, <2>1, <3>1
    <3>3. \A s \in Pools : Amount(chef', u, s) = Amount(mid, u, s)
      BY <1>1, <1>8 DEF Looked
    <3>4. balancesOf(tokenBalance'[w]) = b
      BY <1>3, <2>1 DEF b
    <3> QED  BY <2>1, <3>2, <3>3, <3>4 DEF Held
  <2>2. CASE w = v
    <3>1. \A s \in Pools : Amount(mid, v, s) = Amount(chef, v, s)
      BY <1>1, <1>6 DEF Looked
    <3>2. mid.lastEligibleStatus[v] = chef.lastEligibleStatus[v]
      BY <1>1, <1>6 DEF Looked
    <3>3. Idle(mid, v)
      BY <2>0, <2>2, <3>1, <3>2 DEF Idle
    <3>4. \A s \in Pools \ {p} : Amount(mid, v, s) <= k[s]
      BY <1>1, <2>0, <2>2, <3>1 DEF k, yours, balancesOf, Held
    <3>5. Held(chef', v, k)
      BY <1>8, <2>0, <2>2, <3>3, <3>4
    <3>6. balancesOf(tokenBalance'[w]) = k
      BY <1>3, <2>2 DEF k
    <3> QED  BY <2>2, <3>5, <3>6
  <2>3. CASE w \notin {u, v}
    <3>1. \A s \in Pools : Amount(chef', w, s) = Amount(chef, w, s)
      BY <1>6, <1>8, <2>3 DEF Looked
    <3>2. balancesOf(tokenBalance'[w]) = balancesOf(tokenBalance[w])
      BY <1>3, <2>3
    <3> QED  BY <2>0, <3>1, <3>2 DEF Held
  <2> QED  BY <2>1, <2>2, <2>3
<1> QED  BY <1>9, <1>10, <1>11 DEF Acted, HeldThen

\* A balance that grew is worth more.
LEMMA BalanceGrows ==
  ASSUME TypeOK, NEW f, NEW g, f \in [Pools -> Nat], g \in [Pools -> Nat],
         NEW p, p \in Pools, f[p] <= g[p]
  PROVE  balancesOf(f)[p] <= balancesOf(g)[p]
<1> DEFINE x == f[p]
           y == g[p]
           k == normalizedIncome[p]
<1>1. x \in Nat /\ y \in Nat /\ k \in Nat /\ x <= y
  BY DEF TypeOK
<1>2. balancesOf(f)[p] = x * k /\ balancesOf(g)[p] = y * k
  BY DEF balancesOf
<1> HIDE DEF x, y, k
<1>3. x * k <= y * k
  BY <1>1
<1> QED  BY <1>2, <1>3

\* Leverager.loop: the hooks of its last round.
LEMMA LoopActs ==
  ASSUME ChefInv, NEW u \in Users, NEW asset \in Pools, NEW debt \in Pools,
         NEW before \in 0..MaxBalance, NEW borrowed \in 1..MaxBalance,
         NEW deposited \in 1..MaxBalance,
         Loop(u, asset, debt, before, borrowed, deposited)
  PROVE  Acted
<1> DEFINE own == tokenBalance[u]
           penultimate == [own EXCEPT ![asset] = before, ![debt] = borrowed]
           final == [penultimate EXCEPT ![asset] = deposited]
           mid == HookUnlessExempt(chef, u, debt, penultimate, FALSE)
           b == balancesOf(penultimate)
           k == balancesOf(final)
<1>1. TypeOK /\ Environment /\ chef \in Good /\ chef \in Chef /\ tokenBalance \in [Users -> [Pools -> Nat]]
      /\ own \in [Pools -> Nat]
  BY DEF ChefInv, TypeOK, Good
<1>2. before \in Nat /\ borrowed \in Nat /\ deposited \in Nat
  BY Constants
<1>3. /\ asset \in Registered /\ debt \in Registered /\ asset # debt
      /\ own[asset] <= before /\ own[debt] < borrowed
  BY DEF Loop, Registered
<1>4. /\ tokenBalance'[u] = final
      /\ \A w \in Users \ {u} : tokenBalance'[w] = tokenBalance[w]
      /\ chef' = HookUnlessExempt(mid, u, asset, final, FALSE)
  BY <1>1 DEF Loop
<1>5. /\ penultimate \in [Pools -> Nat]
      /\ penultimate[asset] = before /\ penultimate[debt] = borrowed
      /\ \A s \in Pools \ {asset, debt} : penultimate[s] = own[s]
  BY <1>1, <1>2, <1>3
<1> HIDE DEF penultimate
<1>6. final \in [Pools -> Nat] /\ \A s \in Pools \ {asset} : final[s] = penultimate[s]
  BY <1>2, <1>5
<1> HIDE DEF own, final, b, k
<1>7. mid = HookUnlessExempt(chef, u, debt, penultimate, FALSE)
  OBVIOUS
<1> HIDE DEF mid
<1>8. /\ Looked(chef, mid, u)
      /\ eligibilityEnabled => AllRemoved(chef, mid)
      /\ (/\ eligibilityEnabled /\ ~FALSE /\ Idle(chef, u)
          /\ \A s \in Pools : normalizedIncome[s] >= 1
          /\ \A s \in Pools \ {debt} : Amount(chef, u, s) <= b[s])
           => Held(mid, u, b)
  BY <1>1, <1>3, <1>5, <1>7, TokenHookKeeps DEF b
<1>9. mid \in Good /\ mid \in Chef /\ mid \in Grown(chef)
  BY <1>8 DEF Looked, Grown, Good
<1>10. /\ Looked(mid, chef', u)
       /\ eligibilityEnabled => AllRemoved(mid, chef')
       /\ (/\ eligibilityEnabled /\ ~FALSE /\ Idle(mid, u)
           /\ \A s \in Pools : normalizedIncome[s] >= 1
           /\ \A s \in Pools \ {asset} : Amount(mid, u, s) <= k[s])
            => Held(chef', u, k)
  BY <1>1, <1>3, <1>4, <1>6, <1>9, TokenHookKeeps DEF k
<1>11. chef' \in Grown(chef) /\ chef' \in Chef
  <2>1. chef' \in Grown(mid) /\ chef' \in Chef
    BY <1>10 DEF Looked, Grown, Good
  <2> QED  BY <1>1, <1>9, <2>1, GrownTransitive
<1>12. eligibilityEnabled => AllRemoved(chef, chef')
  BY <1>1, <1>8, <1>9, <1>10, <1>11, RemovedTransitive
<1>13. ASSUME HeldInv, NEW w \in Users \ ExemptableUsers
       PROVE  Held(chef', w, balancesOf(tokenBalance'[w]))
  <2>0. /\ eligibilityEnabled /\ \A s \in Pools : normalizedIncome[s] >= 1
        /\ Idle(chef, w)
        /\ Held(chef, w, balancesOf(tokenBalance[w]))
    BY <1>13 DEF HeldInv
  <2>1. CASE w = u
    <3>1. ASSUME NEW s \in Pools \ {debt} PROVE Amount(chef, u, s) <= b[s]
      <4>1. Amount(chef, u, s) <= balancesOf(own)[s] /\ Amount(chef, u, s) \in Nat
        BY <1>1, <2>0, <2>1, UserTypes DEF Held, own
      <4>2. own[s] <= penultimate[s]
        <5>1. own[s] \in Nat
          BY <1>1
        <5>2. CASE s = asset
          BY <1>3, <1>5, <5>2
        <5>3. CASE s # asset
          BY <1>5, <5>1, <5>3
        <5> QED  BY <5>2, <5>3
      <4>3. balancesOf(own)[s] <= b[s]
        BY <1>1, <1>5, <4>2, BalanceGrows DEF b
      <4>4. balancesOf(own)[s] \in Nat /\ b[s] \in Nat
        <5>1. balancesOf(own) \in [Pools -> Nat] /\ b \in [Pools -> Nat]
          BY <1>1, <1>5, BalancesTypes DEF b
        <5> QED  BY <5>1
      <4> QED  BY <4>1, <4>3, <4>4
    <3>2. Held(mid, u, b)
      BY <1>8, <2>0, <2>1, <3>1
    <3>3. Idle(mid, u)
      BY <1>1, <1>8, <1>9, <2>0, <2>1, IdleKept
    <3>4. \A s \in Pools \ {asset} : Amount(mid, u, s) <= k[s]
      <4>1. \A s \in Pools \ {asset} : k[s] = b[s]
        BY <1>6 DEF k, b, balancesOf
      <4> QED  BY <3>2, <4>1 DEF Held
    <3>5. Held(chef', u, k)
      BY <1>10, <2>0, <3>3, <3>4
    <3>6. balancesOf(tokenBalance'[w]) = k
      BY <1>4, <2>1 DEF k
    <3> QED  BY <2>1, <3>5, <3>6
  <2>2. CASE w # u
    <3>1. \A s \in Pools : Amount(chef', w, s) = Amount(chef, w, s)
      BY <1>8, <1>10, <2>2 DEF Looked
    <3>2. balancesOf(tokenBalance'[w]) = balancesOf(tokenBalance[w])
      BY <1>4, <2>2
    <3> QED  BY <2>0, <3>1, <3>2 DEF Held
  <2> QED  BY <2>1, <2>2
<1> QED  BY <1>11, <1>12, <1>13 DEF Acted, HeldThen

\* A change of u's locks.
LEMMA LockUpdateActs ==
  ASSUME ChefInv, NEW u \in Users, NEW amount \in LockAmounts, LockUpdate(u, amount)
  PROVE  /\ Acted
         /\ HeldInv /\ chef'.lastEligibleStatus[u] /\ u \notin ExemptableUsers =>
              \A p \in Registered : Amount(chef', u, p) = balancesOf(tokenBalance[u])[p]
<1> DEFINE eligible == eligibleWith(tokenBalance[u], amount)
           b == balancesOf(tokenBalance[u])
<1>1. TypeOK /\ Environment /\ chef \in Good /\ chef \in Chef /\ tokenBalance[u] \in [Pools -> Nat]
  BY DEF ChefInv, TypeOK, Good
<1>2. eligible \in BOOLEAN /\ b \in [Pools -> Nat]
  BY <1>1, EligibleIsBoolean, BalancesTypes
<1>3. tokenBalance' = tokenBalance /\ chef' = AfterLockUpdate(chef, u, eligible, b)
  BY DEF LockUpdate
<1> HIDE DEF eligible, b
<1>4. /\ Looked(chef, chef', u)
      /\ ~eligibilityEnabled => chef' = chef
      /\ eligibilityEnabled =>
           /\ chef'.lastEligibleStatus[u] = eligible
           /\ ~eligible => Removed(chef, chef', u)
           /\ eligible =>
                /\ \A p \in Pools : Amount(chef', u, p) \in {Amount(chef, u, p), b[p]}
                /\ \A p \in Registered : b[p] # 0 => Amount(chef', u, p) = b[p]
  BY <1>1, <1>2, <1>3, AfterLockUpdateKeeps
<1>5. eligibilityEnabled => AllRemoved(chef, chef')
  BY <1>1, <1>4, LookedRemoves
<1>6. chef' \in Grown(chef) /\ chef' \in Chef
  BY <1>4 DEF Looked, Grown, Good
<1>7. ASSUME HeldInv, NEW v \in Users \ ExemptableUsers
      PROVE  Held(chef', v, balancesOf(tokenBalance'[v]))
  <2>0. eligibilityEnabled /\ Held(chef, v, balancesOf(tokenBalance[v]))
    BY <1>7 DEF HeldInv
  <2>1. CASE v = u
    <3> SUFFICES ASSUME NEW p \in Pools PROVE Amount(chef', u, p) <= b[p]
      BY <1>3, <2>1 DEF Held, b
    <3>1. Amount(chef, u, p) <= b[p] /\ Amount(chef, u, p) \in Nat /\ Amount(chef', u, p) \in Nat
          /\ b[p] \in Nat
      BY <1>1, <1>2, <1>6, <2>0, <2>1, UserTypes DEF Held, b
    <3>2. CASE eligible
      BY <1>4, <2>0, <3>1, <3>2
    <3>3. CASE ~eligible
      <4>1. Amount(chef', u, p) <= Amount(chef, u, p)
        BY <1>4, <2>0, <3>3 DEF Removed
      <4> QED  BY <3>1, <4>1
    <3> QED  BY <3>2, <3>3
  <2>2. CASE v # u
    <3>1. \A s \in Pools : Amount(chef', v, s) = Amount(chef, v, s)
      BY <1>4, <2>2 DEF Looked
    <3> QED  BY <1>3, <2>0, <3>1 DEF Held
  <2> QED  BY <2>1, <2>2
<1>8. ASSUME HeldInv, chef'.lastEligibleStatus[u], u \notin ExemptableUsers, NEW p \in Registered
      PROVE  Amount(chef', u, p) = b[p]
  <2>1. eligibilityEnabled /\ Held(chef, u, b) /\ eligible /\ p \in Pools
    BY <1>4, <1>8, PlaceOf, <1>1 DEF HeldInv, b
  <2>2. CASE b[p] # 0
    BY <1>4, <2>1, <2>2
  <2>3. CASE b[p] = 0
    <3>1. Amount(chef, u, p) <= 0 /\ Amount(chef, u, p) \in Nat
      BY <1>1, <2>1, <2>3, UserTypes DEF Held
    <3>2. Amount(chef', u, p) \in {Amount(chef, u, p), b[p]}
      BY <1>4, <2>1
    <3> QED  BY <2>3, <3>1, <3>2
  <2> QED  BY <2>2, <2>3
<1> QED  BY <1>5, <1>6, <1>7, <1>8 DEF Acted, HeldThen, b

\* A bounty.
LEMMA ClaimBountyActs ==
  ASSUME ChefInv, NEW u \in Users, ClaimBounty(u)
  PROVE  Acted
<1> DEFINE eligible == eligibleNow(u)
<1>1. TypeOK /\ Environment /\ chef \in Good /\ chef \in Chef
  BY DEF ChefInv, Good
<1>2. eligible \in BOOLEAN
  BY EligibleIsBoolean DEF eligibleNow
<1>3. tokenBalance' = tokenBalance
      /\ chef' = ProcessEligibility(Refresh(chef, u, eligible), u, eligible)
  BY DEF ClaimBounty, marketVars
<1> HIDE DEF eligible
<1>4. /\ Looked(chef, chef', u) /\ chef'.lastEligibleStatus[u] = eligible
      /\ ~eligible => Removed(chef, chef', u)
      /\ eligible => \A p \in Pools : Amount(chef', u, p) = Amount(chef, u, p)
  BY <1>1, <1>2, <1>3, ProcessKeeps
<1>5. AllRemoved(chef, chef')
  BY <1>1, <1>4, LookedRemoves
<1>6. chef' \in Grown(chef) /\ chef' \in Chef
  BY <1>4 DEF Looked, Grown, Good
<1>7. ASSUME HeldInv, NEW v \in Users \ ExemptableUsers
      PROVE  Held(chef', v, balancesOf(tokenBalance'[v]))
  <2> SUFFICES ASSUME NEW p \in Pools
               PROVE  Amount(chef', v, p) <= balancesOf(tokenBalance[v])[p]
    BY <1>3 DEF Held
  <2>1. Amount(chef, v, p) <= balancesOf(tokenBalance[v])[p]
    BY <1>7 DEF HeldInv, Held
  <2>2. Amount(chef', v, p) <= Amount(chef, v, p)
    <3>1. Amount(chef, v, p) \in Nat
      BY <1>1, UserTypes
    <3>2. CASE v = u
      BY <1>4, <3>1, <3>2 DEF Removed
    <3>3. CASE v # u
      BY <1>4, <3>1, <3>3 DEF Looked
    <3> QED  BY <3>2, <3>3
  <2>3. /\ Amount(chef, v, p) \in Nat /\ Amount(chef', v, p) \in Nat
        /\ balancesOf(tokenBalance[v])[p] \in Nat
    <3>1. tokenBalance[v] \in [Pools -> Nat]
      BY <1>1 DEF TypeOK
    <3>2. balancesOf(tokenBalance[v]) \in [Pools -> Nat]
      BY <1>1, <3>1, BalancesTypes
    <3> QED  BY <1>1, <1>6, <3>2, UserTypes
  <2> QED  BY <2>1, <2>2, <2>3
<1> QED  BY <1>5, <1>6, <1>7 DEF Acted, HeldThen

\* Amounts that do not grow stay held, if balances do not change.
LEMMA StillHeld ==
  ASSUME ChefInv, HeldInv, chef' \in Chef, tokenBalance' = tokenBalance,
         \A v \in Users, p \in Pools : Amount(chef', v, p) <= Amount(chef, v, p)
  PROVE  HeldThen
<1> SUFFICES ASSUME NEW v \in Users \ ExemptableUsers, NEW p \in Pools
             PROVE  Amount(chef', v, p) <= balancesOf(tokenBalance[v])[p]
  BY DEF HeldThen, Held
<1>1. TypeOK /\ chef \in Chef /\ tokenBalance[v] \in [Pools -> Nat]
  BY DEF ChefInv, TypeOK, Good
<1>2. balancesOf(tokenBalance[v]) \in [Pools -> Nat]
  BY <1>1, BalancesTypes
<1>3. /\ Amount(chef, v, p) \in Nat /\ Amount(chef', v, p) \in Nat
      /\ balancesOf(tokenBalance[v])[p] \in Nat
  BY <1>1, <1>2, UserTypes
<1>4. Amount(chef, v, p) <= balancesOf(tokenBalance[v])[p]
  BY DEF HeldInv, Held
<1> QED  BY <1>3, <1>4

\* A claim vests what is set aside and pending, and takes nothing from anyone.
LEMMA ClaimActs ==
  ASSUME ChefInv, NEW u \in Users, NEW tokens \in TokenLists, Claim(u, tokens)
  PROVE  /\ Sound
         /\ chef' \in Chef /\ reserve' \in Nat /\ vested' \in [Users -> Nat]
         /\ eligibilityEnabled => AllRemoved(chef, chef')
         /\ HeldInv => HeldThen
<1> DEFINE eligible == eligibleNow(u)
           processed == IF eligibilityEnabled
                        THEN ProcessEligibility(Refresh(chef, u, eligible), u, eligible)
                        ELSE chef
           updated == UpdateEmissions(processed)
           start == [chef    |-> [updated EXCEPT !.userBaseClaimable[u] = 0],
                     pending |-> updated.userBaseClaimable[u]]
           claimed == ClaimPools(start, u, tokens)
           m == claimed.chef
           P == claimed.pending
           A == ACC_REWARD_PRECISION
<1>1. /\ TypeOK /\ Environment /\ chef \in Good /\ chef \in Chef
      /\ eligible \in BOOLEAN /\ tokens \in Seq(Pools) /\ A \in Nat \ {0}
  BY EligibleIsBoolean, ControllerAssumption DEF ChefInv, Good, eligibleNow
<1>2. /\ Range(tokens) \subseteq Registered
      /\ P <= reserve /\ reserve' = reserve - P
      /\ chef' = m
      /\ vested' = [vested EXCEPT ![u] = @ + P]
      /\ UNCHANGED <<now, registeredTokens, settingVars, marketVars>>
  BY DEF Claim, Registered
<1> HIDE DEF eligible
<1>3. /\ processed \in Grown(chef)
      /\ eligibilityEnabled =>
           /\ AllRemoved(chef, processed)
           /\ \A v \in Users, p \in Pools : Amount(processed, v, p) <= Amount(chef, v, p)
  <2>0. \A v \in Users, p \in Pools : Amount(chef, v, p) \in Nat
    BY <1>1, UserTypes
  <2>1. CASE eligibilityEnabled
    <3>1. processed = ProcessEligibility(Refresh(chef, u, eligible), u, eligible)
      BY <2>1
    <3> HIDE DEF processed
    <3>2. /\ Looked(chef, processed, u) /\ processed.lastEligibleStatus[u] = eligible
          /\ ~eligible => Removed(chef, processed, u)
          /\ eligible => \A p \in Pools : Amount(processed, u, p) = Amount(chef, u, p)
      BY <1>1, <3>1, ProcessKeeps
    <3>3. AllRemoved(chef, processed)
      BY <1>1, <3>2, LookedRemoves
    <3>4. \A p \in Pools : Amount(processed, u, p) <= Amount(chef, u, p)
      BY <1>1, <2>0, <3>2 DEF Removed
    <3>5. \A v \in Users \ {u}, p \in Pools : Amount(processed, v, p) <= Amount(chef, v, p)
      BY <2>0, <3>2 DEF Looked
    <3> QED  BY <3>2, <3>3, <3>4, <3>5 DEF Looked
  <2>2. CASE ~eligibilityEnabled
    BY <1>1, <2>2, GrownReflexive
  <2> QED  BY <2>1, <2>2
<1> HIDE DEF processed
<1>4. processed \in Good /\ updated \in Emitted(processed)
  BY <1>1, <1>3, UpdateEmissionsKeeps DEF Grown
<1> HIDE DEF updated
<1>5. updated \in Grown(processed) /\ updated \in Good /\ updated \in Chef
  BY <1>4 DEF Emitted, Grown, Good
<1>6. start \in Claiming(updated, u)
  BY <1>1, <1>5, ClaimStarts
<1> HIDE DEF start
<1>7. claimed \in Claiming(updated, u)
  BY <1>1, <1>2, <1>5, <1>6, ClaimPoolsKeep
<1> HIDE DEF claimed
<1>8. /\ m \in Good /\ m \in Chef /\ P \in Nat
      /\ SameButAccounts(updated, m) /\ m.userBaseClaimable[u] = 0
      /\ \A v \in Users, p \in Pools : Amount(m, v, p) = Amount(updated, v, p)
      /\ \A v \in Users \ {u} : Earned(updated, v) <= Earned(m, v)
      /\ Earned(updated, u) <= Earned(m, u) + P
      /\ Slack(updated) + P * A <= Slack(m)
  BY <1>7 DEF Claiming, Good
<1> HIDE DEF m, P
<1> DEFINE base == [m.userBaseClaimable EXCEPT ![u] = P]
           c == [m EXCEPT !.userBaseClaimable = base]
<1>9. /\ base \in [Users -> Nat] /\ base[u] = P
      /\ \A v \in Users \ {u} : base[v] = m.userBaseClaimable[v]
  BY <1>8, ChefTypes
<1> HIDE DEF base
<1>10. /\ c \in Chef /\ SameButAccounts(m, c) /\ SameButAccounts(c, m)
       /\ c.poolInfo = m.poolInfo /\ c.userInfo = m.userInfo
       /\ c.userBaseClaimable = base
       /\ c.accountedRewards = m.accountedRewards /\ c.updates = m.updates
  BY <1>8, <1>9 DEF Chef, SameButAccounts
<1> HIDE DEF c
<1>11. /\ \A v \in Users \ {u} : Earned(c, v) = Earned(m, v)
       /\ Earned(c, u) = Earned(m, u) - m.userBaseClaimable[u] + c.userBaseClaimable[u]
       /\ Slack(c) + c.userBaseClaimable[u] * A = Slack(m) + m.userBaseClaimable[u] * A
       /\ Slack(c) >= 0 => c \in Good
  <2>1. \A v \in Users \ {u} : c.userBaseClaimable[v] = m.userBaseClaimable[v]
    BY <1>9, <1>10
  <2>2. /\ Environment /\ m \in Good /\ c \in Chef /\ SameButAccounts(m, c)
        /\ c.poolInfo = m.poolInfo /\ c.userInfo = m.userInfo
        /\ c.accountedRewards = m.accountedRewards /\ c.updates = m.updates
    BY <1>1, <1>8, <1>10
  <2> QED  BY <2>1, <2>2, BaseMoves
<1>12. /\ Slack(c) \in Int /\ Slack(m) \in Int /\ Slack(updated) \in Int /\ Slack(updated) >= 0
  BY <1>1, <1>5, <1>8, <1>10, SlackInt DEF Good, Backed
<1>13. c \in Good
  <2> DEFINE z == P * A
  <2>1. z \in Nat /\ 0 * A = 0
    BY <1>1, <1>8
  <2>2. Slack(c) + z = Slack(m) + 0 /\ Slack(updated) + z <= Slack(m)
    BY <1>8, <1>9, <1>10, <1>11, <2>1
  <2> HIDE DEF z
  <2>3. Slack(c) >= 0
    BY <1>12, <2>1, <2>2
  <2> QED  BY <1>11, <2>3
<1>14. \A v \in Users : /\ Earned(chef, v) \in Int /\ Earned(processed, v) \in Int
                        /\ Earned(updated, v) \in Int /\ Earned(m, v) \in Int
                        /\ Earned(c, v) \in Int
  BY <1>1, <1>4, <1>5, <1>8, <1>10, EarnedTypes DEF Good
<1>15. \A v \in Users : Earned(updated, v) <= Earned(c, v)
  BY <1>8, <1>9, <1>10, <1>11, <1>14
<1>16. \A v \in Users : Earned(chef, v) <= Earned(c, v)
  BY <1>3, <1>5, <1>14, <1>15 DEF Grown
<1>17. vested' \in [Users -> Nat] /\ reserve' \in Nat
  BY <1>1, <1>2, <1>8 DEF TypeOK
<1>18. ASSUME NEW v \in Users
       PROVE  vested'[v] + chef'.userBaseClaimable[v] = SetAside(c, v)
  <2>1. vested[v] \in Nat /\ m.userBaseClaimable[v] \in Nat
    BY <1>1, <1>8, ChefTypes DEF TypeOK
  <2>2. CASE v = u
    BY <1>1, <1>2, <1>8, <1>9, <1>10, <2>1, <2>2 DEF SetAside, TypeOK
  <2>3. CASE v # u
    BY <1>1, <1>2, <1>8, <1>9, <1>10, <2>1, <2>3 DEF SetAside, TypeOK
  <2> QED  BY <2>2, <2>3
<1>19. (chef \in Good)' /\ \A v \in Users : EarnedTotal(v)' = Earned(c, v)
  <2>1. /\ now' \in Nat /\ now <= now' /\ Len(emissionSchedule') \in Nat
        /\ Len(emissionSchedule) <= Len(emissionSchedule')
    BY <1>1, <1>2, LenProperties DEF Environment, settingVars
  <2>2. /\ startTime' = startTime /\ registeredTokens' = registeredTokens
        /\ \A i \in 1..Len(emissionSchedule) : emissionSchedule'[i] = emissionSchedule[i]
    BY <1>2 DEF settingVars
  <2> QED  BY <1>1, <1>2, <1>8, <1>10, <1>13, <1>18, <2>1, <2>2, Carried
<1>20. Sound
  BY <1>16, <1>19, EarnedTotalIs DEF Sound
<1>21. \A v \in Users, p \in Pools : Amount(m, v, p) = Amount(processed, v, p)
  BY <1>4, <1>8 DEF Emitted, Amount
<1>22. eligibilityEnabled => AllRemoved(chef, chef')
  <2>1. m.lastEligibleStatus = processed.lastEligibleStatus
    BY <1>4, <1>8 DEF Emitted, SameButAccounts
  <2>2. processed \in Chef
    BY <1>4 DEF Good
  <2>3. AllRemoved(processed, m)
    BY <1>21, <2>1, <2>2, SameIsRemoved
  <2> QED  BY <1>1, <1>2, <1>3, <1>8, <2>2, <2>3, RemovedTransitive
<1>23. ASSUME HeldInv PROVE HeldThen
  <2>0. \A v \in Users, p \in Pools : Amount(chef', v, p) <= Amount(chef, v, p)
    BY <1>2, <1>3, <1>21, <1>23 DEF HeldInv
  <2>1. tokenBalance' = tokenBalance
    BY <1>2 DEF marketVars
  <2> QED  BY <1>2, <1>8, <1>23, <2>0, <2>1, StillHeld
<1> QED  BY <1>2, <1>8, <1>17, <1>20, <1>22, <1>23

-----------------------------------------------------------------------------
(* Administration *)

\* A sum with one more summand.
LEMMA SumAppends ==
  ASSUME NEW n, NEW f, NEW g, n \in Nat, f \in [1..n -> Int], g \in [1..(n + 1) -> Int],
         \A i \in 1..n : g[i] = f[i]
  PROVE  Sum(g) = Sum(f) + g[n + 1]
<1>1. IntsTo(f, n) /\ SameTo(f, g, n)
  BY DEF IntsTo, SameTo
<1>2. SumTo(f, n) = SumTo(g, n)
  BY <1>1, SumToEqual
<1>3. SumTo(g, n + 1) = SumTo(g, n) + g[n + 1]
  BY SumToSucc
<1> QED  BY <1>2, <1>3, SumInt

\* What u has earned once tokens are registered and rewards vested.
EarnedThen(d, u) ==
  vested'[u] + d.userBaseClaimable[u]
    + Sum([i \in 1..Len(registeredTokens') |-> Pending(d, u, registeredTokens'[i])])
ExactlyThen(d, u) ==
  (vested'[u] + d.userBaseClaimable[u]) * ACC_REWARD_PRECISION
    + Sum([i \in 1..Len(registeredTokens') |-> Credit(d, u, registeredTokens'[i])])

\* A new pool has earned nobody anything.
LEMMA NewPoolPaysNobody ==
  ASSUME NEW c, NEW d, NEW p, NEW u, Environment, c \in Chef, d \in Chef, u \in Users, p \in Pools,
         registeredTokens' = Append(registeredTokens, p), vested' = vested,
         d.userBaseClaimable = c.userBaseClaimable,
         Pending(d, u, p) = 0, Credit(d, u, p) = 0,
         \A s \in Registered : /\ Pending(d, u, s) = Pending(c, u, s)
                               /\ Credit(d, u, s) = Credit(c, u, s)
  PROVE  EarnedThen(d, u) = Earned(c, u) /\ ExactlyThen(d, u) = EarnedExactly(c, u)
<1> DEFINE n == Len(registeredTokens)
           f == [i \in 1..n |-> Pending(c, u, registeredTokens[i])]
           h == [i \in 1..n |-> Credit(c, u, registeredTokens[i])]
           g == [i \in 1..(n + 1) |-> Pending(d, u, registeredTokens'[i])]
           k == [i \in 1..(n + 1) |-> Credit(d, u, registeredTokens'[i])]
<1>1. /\ n \in Nat /\ Len(registeredTokens') = n + 1 /\ registeredTokens'[n + 1] = p
      /\ \A i \in 1..n : /\ registeredTokens'[i] = registeredTokens[i]
                         /\ registeredTokens[i] \in Registered /\ registeredTokens[i] \in Pools
  <2>1. registeredTokens \in Seq(Pools)
    BY DEF Environment
  <2>2. \A i \in 1..n : registeredTokens[i] \in Pools
    BY <2>1, ElementOfSeq
  <2> QED  BY <2>1, <2>2, AppendProperties, LenProperties DEF Registered, Range
<1>2. f \in [1..n -> Int] /\ h \in [1..n -> Int]
  BY EarnedTypes
<1>3. \A i \in 1..(n + 1) : registeredTokens'[i] \in Pools
  BY <1>1
<1>4. g \in [1..(n + 1) -> Int] /\ k \in [1..(n + 1) -> Int]
  BY <1>3, UserTypes, PendingRounds
<1>5. (\A i \in 1..n : g[i] = f[i] /\ k[i] = h[i]) /\ g[n + 1] = 0 /\ k[n + 1] = 0
  BY <1>1
<1>6. SetAside(c, u) = vested'[u] + d.userBaseClaimable[u] /\ SetAside(c, u) \in Nat
      /\ SetAside(c, u) * ACC_REWARD_PRECISION \in Int
  <2>1. SetAside(c, u) = vested'[u] + d.userBaseClaimable[u]
    BY DEF SetAside
  <2>2. SetAside(c, u) \in Nat /\ ACC_REWARD_PRECISION \in Nat
    BY EarnedTypes, Constants
  <2> QED  BY <2>1, <2>2
<1>7. Earned(c, u) = SetAside(c, u) + Sum(f)
      /\ EarnedExactly(c, u) = SetAside(c, u) * ACC_REWARD_PRECISION + Sum(h)
  BY DEF Earned, EarnedExactly
<1>8. /\ [i \in 1..Len(registeredTokens') |-> Pending(d, u, registeredTokens'[i])] = g
      /\ [i \in 1..Len(registeredTokens') |-> Credit(d, u, registeredTokens'[i])] = k
  BY <1>1
<1> HIDE DEF n, f, g, h, k
<1>9. Sum(g) = Sum(f) + 0
  <2>1. n \in Nat /\ f \in [1..n -> Int] /\ g \in [1..(n + 1) -> Int]
        /\ \A i \in 1..n : g[i] = f[i]
    BY <1>1, <1>2, <1>4, <1>5
  <2>2. Sum(g) = Sum(f) + g[n + 1]
    BY <2>1, SumAppends
  <2> QED  BY <1>5, <2>2
<1>10. Sum(k) = Sum(h) + 0
  <2>1. n \in Nat /\ h \in [1..n -> Int] /\ k \in [1..(n + 1) -> Int]
        /\ \A i \in 1..n : k[i] = h[i]
    BY <1>1, <1>2, <1>4, <1>5
  <2>2. Sum(k) = Sum(h) + k[n + 1]
    BY <2>1, SumAppends
  <2> QED  BY <1>5, <2>2
<1>11. Sum(f) \in Int /\ Sum(h) \in Int
  BY <1>1, <1>2, SumInt
<1>12. EarnedThen(d, u) = SetAside(c, u) + Sum(g)
       /\ ExactlyThen(d, u) = SetAside(c, u) * ACC_REWARD_PRECISION + Sum(k)
  BY <1>6, <1>8 DEF EarnedThen, ExactlyThen
<1>13. EarnedThen(d, u) = Earned(c, u)
  BY <1>6, <1>7, <1>9, <1>11, <1>12
<1> DEFINE x == SetAside(c, u) * ACC_REWARD_PRECISION
<1> HIDE DEF x
<1>14. x \in Int /\ EarnedExactly(c, u) = x + Sum(h) /\ ExactlyThen(d, u) = x + Sum(k)
  BY <1>6, <1>7, <1>12 DEF x
<1> QED  BY <1>10, <1>11, <1>13, <1>14

\* addPool: the pool was not registered, and joins with its points.
LEMMA AddPoolActs ==
  ASSUME ChefInv, NEW p \in Pools, NEW allocPoint \in AllocPoints, AddPool(p, allocPoint)
  PROVE  /\ Sound
         /\ chef' \in Chef /\ registeredTokens' \in Seq(Pools)
         /\ \A i, j \in 1..Len(registeredTokens') :
              registeredTokens'[i] = registeredTokens'[j] => i = j
         /\ AllRemoved(chef, chef')
         /\ HeldInv => HeldThen
<1> DEFINE c == UpdateEmissions(chef)
           q == [c.poolInfo[p] EXCEPT !.allocPoint = allocPoint, !.lastRewardTime = now]
           pools == [c.poolInfo EXCEPT ![p] = q]
           total == c.totalAllocPoint + allocPoint
           n == Len(registeredTokens)
<1>1. /\ TypeOK /\ Environment /\ chef \in Good /\ chef \in Chef
      /\ allocPoint \in Nat \ {0}
  BY ControllerAssumption DEF ChefInv, Good
<1>2. c \in Emitted(chef)
  BY <1>1, UpdateEmissionsKeeps
<1>3. /\ c.poolInfo[p].lastRewardTime = 0
      /\ registeredTokens' = Append(registeredTokens, p)
      /\ UNCHANGED <<now, settingVars, payoutVars, marketVars>>
      /\ chef' = [c EXCEPT !.totalAllocPoint = total, !.poolInfo = pools]
  BY <1>1, <1>2 DEF AddPool, Chef, Emitted, Grown, Good
<1> HIDE DEF c
<1>4. /\ c \in Chef /\ c \in Good /\ c \in Grown(chef)
      /\ TotalsOf(c) /\ Solvent(c) /\ OnlyRegistered(c) /\ Backed(c) /\ OnSchedule(c)
      /\ Requalified(c)
  BY <1>2 DEF Emitted, Grown, Good
<1>5. p \notin Registered
  BY <1>3, <1>4 DEF OnlyRegistered
<1>6. /\ n \in Nat /\ Len(registeredTokens') = n + 1 /\ registeredTokens'[n + 1] = p
      /\ \A i \in 1..n : /\ registeredTokens'[i] = registeredTokens[i]
                         /\ registeredTokens[i] \in Registered /\ registeredTokens[i] \in Pools
      /\ registeredTokens' \in Seq(Pools)
  <2>1. registeredTokens \in Seq(Pools)
    BY <1>1 DEF Environment
  <2>2. \A i \in 1..n : registeredTokens[i] \in Pools
    BY <2>1, ElementOfSeq
  <2> QED  BY <1>3, <2>1, <2>2, AppendProperties, LenProperties DEF Registered, Range
<1>7. Registered' = Registered \cup {p}
  BY <1>6 DEF Registered, Range
<1>8. /\ q \in PoolInfo /\ q.totalSupply = c.poolInfo[p].totalSupply
      /\ q.accRewardPerShare = c.poolInfo[p].accRewardPerShare
      /\ q.allocPoint = allocPoint /\ q.lastRewardTime = now
  <2> DEFINE old == c.poolInfo[p]
  <2>1. old \in PoolInfo /\ now \in Nat /\ allocPoint \in Nat
    BY <1>1, <1>4, PoolTypes DEF Environment
  <2>2. q = [old EXCEPT !.allocPoint = allocPoint, !.lastRewardTime = now]
    OBVIOUS
  <2> HIDE DEF q, old
  <2>3. /\ q \in PoolInfo /\ q.totalSupply = old.totalSupply
        /\ q.accRewardPerShare = old.accRewardPerShare
        /\ q.allocPoint = allocPoint /\ q.lastRewardTime = now
    BY <2>1, <2>2 DEF PoolInfo
  <2> QED  BY <2>3 DEF old
<1> HIDE DEF q
<1>9. /\ pools \in [Pools -> PoolInfo] /\ pools[p] = q
      /\ \A s \in Pools : s # p => pools[s] = c.poolInfo[s]
      /\ \A s \in Pools : /\ pools[s].totalSupply = c.poolInfo[s].totalSupply
                          /\ pools[s].accRewardPerShare = c.poolInfo[s].accRewardPerShare
  BY <1>4, <1>8, ChefTypes
<1>10. total \in Nat
  BY <1>1, <1>4, ChefTypes
<1> DEFINE d == chef'
<1>11. /\ d \in Chef /\ d.poolInfo = pools /\ d.totalAllocPoint = total
       /\ d.userInfo = c.userInfo /\ d.userBaseClaimable = c.userBaseClaimable
       /\ d.accountedRewards = c.accountedRewards /\ d.updates = c.updates
       /\ d.depositedRewards = c.depositedRewards
       /\ d.emissionScheduleIndex = c.emissionScheduleIndex
       /\ d.lastEligibleStatus = c.lastEligibleStatus
       /\ d.disqualifiedTime = c.disqualifiedTime
  <2> HIDE DEF pools, total
  <2> QED  BY <1>3, <1>4, <1>9, <1>10 DEF Chef
<1> HIDE DEF pools, total
<1>12. \A u \in Users, s \in Pools : /\ Amount(d, u, s) = Amount(c, u, s)
                                     /\ Debt(d, u, s) = Debt(c, u, s)
                                     /\ Credit(d, u, s) = Credit(c, u, s)
                                     /\ Pending(d, u, s) = Pending(c, u, s)
  BY <1>9, <1>11 DEF Amount, Debt, Credit, Share, Pending
<1>13. ASSUME NEW u \in Users PROVE Credit(d, u, p) = 0 /\ Pending(d, u, p) = 0
  <2>1. Amount(d, u, p) = 0 /\ Debt(d, u, p) = 0
    BY <1>4, <1>5, <1>12 DEF OnlyRegistered
  <2>2. Share(d, p) \in Nat /\ ACC_REWARD_PRECISION \in Nat \ {0}
    BY <1>11, PoolTypes, Constants
  <2>3. Credit(d, u, p) = 0
    BY <2>1, <2>2 DEF Credit
  <2>4. Pending(d, u, p) * ACC_REWARD_PRECISION <= 0 /\ Pending(d, u, p) >= 0
        /\ Pending(d, u, p) \in Int
    BY <1>11, <2>3, PendingRounds
  <2> DEFINE x == Pending(d, u, p)
  <2> HIDE DEF x, d
  <2>5. x = 0
    <3>1. x >= 1 => x * ACC_REWARD_PRECISION >= ACC_REWARD_PRECISION
      BY <2>2, <2>4 DEF x
    <3> QED  BY <2>2, <2>4, <3>1 DEF x
  <2> QED  BY <2>3, <2>5 DEF x, d
<1>14. ASSUME NEW u \in Users
       PROVE  EarnedTotal(u)' = Earned(c, u) /\ EarnedExactly(chef, u)' = EarnedExactly(c, u)
  <2>1. vested' = vested
    BY <1>3 DEF payoutVars
  <2>2. \A s \in Registered : Pending(d, u, s) = Pending(c, u, s) /\ Credit(d, u, s) = Credit(c, u, s)
    BY <1>1, <1>12, PlaceOf
  <2>3. EarnedThen(d, u) = Earned(c, u) /\ ExactlyThen(d, u) = EarnedExactly(c, u)
    <3>1. d \in Chef /\ c \in Chef /\ d.userBaseClaimable = c.userBaseClaimable
          /\ Pending(d, u, p) = 0 /\ Credit(d, u, p) = 0
      BY <1>4, <1>11, <1>13
    <3>2. Environment /\ registeredTokens' = Append(registeredTokens, p)
      BY <1>1, <1>3
    <3> HIDE DEF d
    <3> QED  BY <2>1, <2>2, <3>1, <3>2, NewPoolPaysNobody
  <2> QED  BY <2>3 DEF EarnedThen, ExactlyThen, EarnedTotal, EarnedExactly, SetAside
<1>15. TotalsOf(chef)'
  <2>1. ASSUME NEW s \in Pools
        PROVE  d.poolInfo[s].totalSupply = Sum([u \in Users |-> Amount(d, u, s)])
    <3>1. [u \in Users |-> Amount(d, u, s)] = [u \in Users |-> Amount(c, u, s)]
      BY <1>12
    <3> QED  BY <1>4, <1>9, <1>11, <3>1 DEF TotalsOf
  <2> DEFINE f == [i \in 1..n |-> c.poolInfo[registeredTokens[i]].allocPoint]
             g == [i \in 1..(n + 1) |-> d.poolInfo[registeredTokens'[i]].allocPoint]
  <2>2. f \in [1..n -> Int]
    <3>1. \A i \in 1..n : c.poolInfo[registeredTokens[i]].allocPoint \in Nat
      BY <1>4, <1>6, PoolTypes
    <3> QED  BY <3>1
  <2>3. g \in [1..(n + 1) -> Int]
    <3>1. \A i \in 1..(n + 1) : registeredTokens'[i] \in Pools
      BY <1>6
    <3>2. \A i \in 1..(n + 1) : d.poolInfo[registeredTokens'[i]].allocPoint \in Nat
      BY <1>11, <3>1, PoolTypes
    <3> QED  BY <3>2
  <2>4. \A i \in 1..n : g[i] = f[i]
    BY <1>5, <1>6, <1>9, <1>11
  <2>5. g[n + 1] = allocPoint
    BY <1>6, <1>8, <1>9, <1>11
  <2>6. c.totalAllocPoint = Sum(f)
    BY <1>4 DEF TotalsOf
  <2>7. [i \in 1..Len(registeredTokens') |-> d.poolInfo[registeredTokens'[i]].allocPoint] = g
    BY <1>6
  <2> HIDE DEF f, g
  <2>8. Sum(g) = Sum(f) + allocPoint
    BY <1>6, <2>2, <2>3, <2>4, <2>5, SumAppends
  <2> QED  BY <1>11, <2>1, <2>6, <2>7, <2>8 DEF TotalsOf, total
<1>16. Solvent(chef)'
  <2>1. now' = now /\ now \in Nat
    BY <1>1, <1>3 DEF Environment
  <2>2. \A s \in Pools : d.poolInfo[s].lastRewardTime <= now
    BY <1>4, <1>8, <1>9, <1>11, <2>1 DEF Solvent
  <2> QED  BY <1>4, <1>11, <1>12, <2>1, <2>2 DEF Solvent
<1>17. OnlyRegistered(chef)'
  <2>1. \A s \in Registered : d.poolInfo[s] = c.poolInfo[s]
    BY <1>1, <1>5, <1>9, <1>11, PlaceOf
  <2>2. d.poolInfo[p].lastRewardTime >= 1 /\ d.poolInfo[p].allocPoint >= 1
    BY <1>1, <1>8, <1>9, <1>11 DEF Environment
  <2>3. \A s \in Registered' : d.poolInfo[s].lastRewardTime >= 1 /\ d.poolInfo[s].allocPoint >= 1
    BY <1>4, <1>7, <2>1, <2>2 DEF OnlyRegistered
  <2>4. \A u \in Users, s \in Pools \ Registered' : Amount(d, u, s) = 0 /\ Debt(d, u, s) = 0
    BY <1>4, <1>7, <1>12 DEF OnlyRegistered
  <2> QED  BY <2>3, <2>4 DEF OnlyRegistered
<1>18. Backed(chef)'
  <2>1. [u \in Users |-> EarnedExactly(chef, u)'] = [u \in Users |-> EarnedExactly(c, u)]
    BY <1>14
  <2> QED  BY <1>4, <1>11, <2>1 DEF Backed, Slack
<1>19. OnSchedule(chef)' /\ Requalified(chef)'
  BY <1>3, <1>4, <1>11 DEF OnSchedule, Requalified, settingVars
<1>20. (chef \in Good)'
  BY <1>11, <1>15, <1>16, <1>17, <1>18, <1>19 DEF Good
<1>21. Sound
  BY <1>4, <1>14, <1>20, EarnedTotalIs DEF Sound, Grown
<1>22. \A i, j \in 1..Len(registeredTokens') :
         registeredTokens'[i] = registeredTokens'[j] => i = j
  <2> SUFFICES ASSUME NEW i \in 1..(n + 1), NEW j \in 1..(n + 1),
                      registeredTokens'[i] = registeredTokens'[j]
               PROVE  i = j
    BY <1>6
  <2>1. (i \in 1..n \/ i = n + 1) /\ (j \in 1..n \/ j = n + 1)
    BY <1>6
  <2>2. CASE i \in 1..n /\ j \in 1..n
    BY <1>1, <1>6, <2>2 DEF Environment
  <2>3. CASE i = n + 1 \/ j = n + 1
    BY <1>5, <1>6, <2>1, <2>3
  <2> QED  BY <2>1, <2>2, <2>3
<1>23. \A u \in Users, s \in Pools : Amount(d, u, s) = Amount(chef, u, s)
  BY <1>2, <1>12 DEF Emitted, Amount
<1>24. AllRemoved(chef, chef')
  BY <1>1, <1>2, <1>11, <1>23, SameIsRemoved DEF Emitted
<1>25. HeldInv => HeldThen
  <2>1. tokenBalance' = tokenBalance
    BY <1>3 DEF marketVars
  <2>2. \A u \in Users, s \in Pools : Amount(chef', u, s) <= Amount(chef, u, s)
    BY <1>1, <1>23, UserTypes
  <2> QED  BY <1>11, <2>1, <2>2, StillHeld
<1> QED  BY <1>6, <1>11, <1>21, <1>22, <1>24, <1>25

\* An operation of the owner's that leaves the users' accounts alone.
LEMMA QuietActs ==
  ASSUME ChefInv, chef' \in Grown(chef), chef'.userInfo = chef.userInfo,
         chef'.lastEligibleStatus = chef.lastEligibleStatus, tokenBalance' = tokenBalance
  PROVE  Acted
<1>1. chef \in Chef /\ chef' \in Chef
  BY DEF ChefInv, Grown, Good
<1>2. \A u \in Users, p \in Pools : /\ Amount(chef', u, p) = Amount(chef, u, p)
                                    /\ Amount(chef, u, p) \in Nat
  BY <1>1, UserTypes DEF Amount
<1>3. AllRemoved(chef, chef')
  BY <1>1, <1>2, SameIsRemoved
<1>4. \A u \in Users, p \in Pools : Amount(chef', u, p) <= Amount(chef, u, p)
  BY <1>2
<1>5. HeldInv => HeldThen
  BY <1>1, <1>4, StillHeld
<1> QED  BY <1>3, <1>5 DEF Acted

\* A rate that is set changes nothing in the books.
LEMMA RateSet ==
  ASSUME NEW c, NEW d, NEW rate, c \in Chef, rate \in Nat,
         d = [c EXCEPT !.rewardsPerSecond = rate]
  PROVE  /\ d \in Chef /\ SameBooks(c, d)
         /\ d.lastEligibleStatus = c.lastEligibleStatus
         /\ d.disqualifiedTime = c.disqualifiedTime
         /\ d.emissionScheduleIndex = c.emissionScheduleIndex
<1>1. d \in Chef
  BY DEF Chef
<1>2. /\ d.poolInfo = c.poolInfo /\ d.userInfo = c.userInfo
      /\ d.userBaseClaimable = c.userBaseClaimable
      /\ d.totalAllocPoint = c.totalAllocPoint
      /\ d.accountedRewards = c.accountedRewards
      /\ d.depositedRewards = c.depositedRewards
      /\ d.updates = c.updates
      /\ d.lastEligibleStatus = c.lastEligibleStatus
      /\ d.disqualifiedTime = c.disqualifiedTime
      /\ d.emissionScheduleIndex = c.emissionScheduleIndex
  BY DEF Chef
<1>3. c.depositedRewards \in Nat
  BY ChefTypes
<1>4. c.depositedRewards <= d.depositedRewards
  BY <1>2, <1>3
<1> QED  BY <1>1, <1>2, <1>4 DEF SameBooks

\* setRewardsPerSecond.
LEMMA SetRewardsPerSecondActs ==
  ASSUME ChefInv, NEW rate \in Rates, NEW persist, SetRewardsPerSecond(rate, persist)
  PROVE  Acted
<1> DEFINE m == MassUpdatePools(chef)
<1>1. Environment /\ chef \in Good /\ rate \in Nat
  BY ControllerAssumption DEF ChefInv
<1>2. m \in Emitted(chef) /\ m.emissionScheduleIndex = chef.emissionScheduleIndex
  BY <1>1, MassUpdateKeeps
<1>3. chef' = [m EXCEPT !.rewardsPerSecond = rate] /\ tokenBalance' = tokenBalance
  BY DEF SetRewardsPerSecond, unchangedButChef, marketVars
<1> HIDE DEF m
<1>4. m \in Chef /\ OnSchedule(m) /\ m.depositedRewards \in Nat
  BY <1>2, ChefTypes DEF Emitted, Grown, Good
<1>5. /\ chef' \in Chef /\ SameBooks(m, chef')
      /\ chef'.lastEligibleStatus = m.lastEligibleStatus
      /\ chef'.disqualifiedTime = m.disqualifiedTime
      /\ chef'.emissionScheduleIndex = m.emissionScheduleIndex
  BY <1>1, <1>3, <1>4, RateSet
<1>6. OnSchedule(chef')
  BY <1>4, <1>5 DEF OnSchedule
<1>7. chef' \in Emitted(chef)
  BY <1>1, <1>2, <1>5, <1>6, EmittedKeeps
<1> QED  BY <1>3, <1>7, QuietActs DEF Emitted

\* registerRewardDeposit.
LEMMA RegisterRewardDepositActs ==
  ASSUME ChefInv, NEW amount \in DepositAmounts, RegisterRewardDeposit(amount)
  PROVE  Acted
<1> DEFINE c == [chef EXCEPT !.depositedRewards = @ + amount]
           m == MassUpdatePools(c)
<1>1. Environment /\ chef \in Good /\ chef \in Chef /\ amount \in Nat
  BY ControllerAssumption DEF ChefInv, Good
<1>2. /\ chef' = IF m.rewardsPerSecond = 0 /\ m.lastRPS > 0
                 THEN [m EXCEPT !.rewardsPerSecond = m.lastRPS]
                 ELSE m
      /\ tokenBalance' = tokenBalance
  BY DEF RegisterRewardDeposit, unchangedButChef, marketVars
<1>3. c \in Grown(chef) /\ c \in Good /\ c.userInfo = chef.userInfo
      /\ c.lastEligibleStatus = chef.lastEligibleStatus
  <2>1. OnSchedule(chef) /\ Requalified(chef) /\ chef.depositedRewards \in Nat
    BY <1>1, ChefTypes DEF Good
  <2>2. /\ c \in Chef /\ SameBooks(chef, c)
        /\ c.lastEligibleStatus = chef.lastEligibleStatus
        /\ c.disqualifiedTime = chef.disqualifiedTime
        /\ c.emissionScheduleIndex = chef.emissionScheduleIndex
    <3> DEFINE x == chef.depositedRewards + amount
               base == chef
    <3>1. x \in Nat /\ chef.depositedRewards <= x
      BY <1>1, <2>1
    <3>2. base \in Chef /\ c = [base EXCEPT !.depositedRewards = x]
      BY <1>1
    <3> HIDE DEF x, c, base
    <3>3. c \in Chef
      BY <3>1, <3>2 DEF Chef
    <3>4. /\ c.poolInfo = base.poolInfo /\ c.userInfo = base.userInfo
          /\ c.userBaseClaimable = base.userBaseClaimable
          /\ c.totalAllocPoint = base.totalAllocPoint
          /\ c.accountedRewards = base.accountedRewards
          /\ c.depositedRewards = x
          /\ c.updates = base.updates
          /\ c.lastEligibleStatus = base.lastEligibleStatus
          /\ c.disqualifiedTime = base.disqualifiedTime
          /\ c.emissionScheduleIndex = base.emissionScheduleIndex
      BY <3>2 DEF Chef
    <3> QED  BY <3>1, <3>3, <3>4 DEF SameBooks, base
  <2> HIDE DEF c
  <2>3. OnSchedule(c) /\ Requalified(c)
    BY <2>1, <2>2 DEF OnSchedule, Requalified
  <2>4. c \in Grown(chef)
    BY <1>1, <2>2, <2>3, SameBooksKeep
  <2> QED  BY <2>2, <2>4 DEF SameBooks, Grown
<1> HIDE DEF c
<1>4. m \in Emitted(c)
  BY <1>1, <1>3, MassUpdateKeeps
<1> HIDE DEF m
<1>5. m \in Chef /\ OnSchedule(m) /\ m.depositedRewards \in Nat /\ m.lastRPS \in Nat
  BY <1>4, ChefTypes DEF Emitted, Grown, Good
<1>6. chef' \in Emitted(c)
  <2>1. CASE chef' = m
    BY <1>4, <2>1
  <2>2. CASE chef' = [m EXCEPT !.rewardsPerSecond = m.lastRPS]
    <3>1. /\ chef' \in Chef /\ SameBooks(m, chef')
          /\ chef'.lastEligibleStatus = m.lastEligibleStatus
          /\ chef'.disqualifiedTime = m.disqualifiedTime
          /\ chef'.emissionScheduleIndex = m.emissionScheduleIndex
      BY <1>5, <2>2, RateSet
    <3>2. OnSchedule(chef')
      BY <1>5, <3>1 DEF OnSchedule
    <3> QED  BY <1>1, <1>3, <1>4, <3>1, <3>2, EmittedKeeps
  <2> QED  BY <1>2, <2>1, <2>2
<1>7. chef' \in Grown(chef)
  BY <1>1, <1>3, <1>6, GrownTransitive DEF Emitted
<1> QED  BY <1>2, <1>3, <1>6, <1>7, QuietActs DEF Emitted

\* d is c with other points for p.
Repointed(c, p, allocPoint) ==
  [c EXCEPT !.totalAllocPoint = @ - c.poolInfo[p].allocPoint + allocPoint,
            !.poolInfo[p].allocPoint = allocPoint]

\* Other points for a registered pool.
LEMMA RepointKeeps ==
  ASSUME NEW c, NEW p, NEW allocPoint,
         Environment, c \in Good, p \in Registered, allocPoint \in Nat \ {0}
  PROVE  LET d == Repointed(c, p, allocPoint)
         IN  /\ d \in Grown(c) /\ d.userInfo = c.userInfo
             /\ d.lastEligibleStatus = c.lastEligibleStatus
<1> DEFINE q == [c.poolInfo[p] EXCEPT !.allocPoint = allocPoint]
           pools == [c.poolInfo EXCEPT ![p] = q]
           total == c.totalAllocPoint - c.poolInfo[p].allocPoint + allocPoint
           d == Repointed(c, p, allocPoint)
           n == Len(registeredTokens)
<1>1. /\ c \in Chef /\ TotalsOf(c) /\ Solvent(c) /\ OnlyRegistered(c) /\ Backed(c) /\ OnSchedule(c)
      /\ Requalified(c) /\ p \in Pools
  BY PlaceOf DEF Good
<1>2. /\ n \in Nat
      /\ \A i \in 1..n : registeredTokens[i] \in Registered /\ registeredTokens[i] \in Pools
  BY PlaceOf
<1>3. PICK j \in 1..n : /\ registeredTokens[j] = p
                        /\ \A i \in 1..n : i # j => registeredTokens[i] # p
  BY PlaceOf
<1>4. /\ q \in PoolInfo /\ q.totalSupply = c.poolInfo[p].totalSupply
      /\ q.accRewardPerShare = c.poolInfo[p].accRewardPerShare
      /\ q.allocPoint = allocPoint /\ q.lastRewardTime = c.poolInfo[p].lastRewardTime
  BY <1>1, PoolTypes DEF PoolInfo
<1> HIDE DEF q
<1>5. /\ pools \in [Pools -> PoolInfo] /\ pools[p] = q
      /\ \A s \in Pools : s # p => pools[s] = c.poolInfo[s]
      /\ \A s \in Pools : /\ pools[s].totalSupply = c.poolInfo[s].totalSupply
                          /\ pools[s].accRewardPerShare = c.poolInfo[s].accRewardPerShare
                          /\ pools[s].lastRewardTime = c.poolInfo[s].lastRewardTime
  BY <1>1, <1>4, ChefTypes
<1>6. d = [c EXCEPT !.totalAllocPoint = total, !.poolInfo = pools]
  BY <1>1 DEF Repointed, Chef, q
<1> HIDE DEF pools, d
<1> DEFINE f == [i \in 1..n |-> c.poolInfo[registeredTokens[i]].allocPoint]
           g == [i \in 1..n |-> pools[registeredTokens[i]].allocPoint]
<1>7. f \in [1..n -> Nat] /\ g \in [1..n -> Nat]
  <2>1. \A i \in 1..n : /\ c.poolInfo[registeredTokens[i]] \in PoolInfo
                        /\ pools[registeredTokens[i]] \in PoolInfo
    BY <1>1, <1>2, <1>5, ChefTypes
  <2>2. \A i \in 1..n : /\ c.poolInfo[registeredTokens[i]].allocPoint \in Nat
                        /\ pools[registeredTokens[i]].allocPoint \in Nat
    BY <2>1 DEF PoolInfo
  <2> QED  BY <2>2
<1>8. /\ f[j] = c.poolInfo[p].allocPoint /\ g[j] = allocPoint
      /\ \A i \in 1..n : i # j => g[i] = f[i]
  BY <1>2, <1>3, <1>4, <1>5
<1>9. c.totalAllocPoint = Sum(f)
  BY <1>1 DEF TotalsOf
<1> HIDE DEF f, g
<1>10. Sum(g) = Sum(f) - f[j] + g[j] /\ Sum(g) \in Nat
  <2>1. f \in [1..n -> Int] /\ g \in [1..n -> Int]
    BY <1>7
  <2> QED  BY <1>2, <1>3, <1>7, <1>8, <2>1, SumMoves, SumNat
<1>11. total = Sum(g) /\ total \in Nat
  BY <1>8, <1>9, <1>10
<1> HIDE DEF total
<1>12. /\ d \in Chef /\ d.poolInfo = pools /\ d.totalAllocPoint = total
       /\ d.userInfo = c.userInfo /\ d.userBaseClaimable = c.userBaseClaimable
       /\ d.accountedRewards = c.accountedRewards /\ d.updates = c.updates
       /\ d.depositedRewards = c.depositedRewards
       /\ d.emissionScheduleIndex = c.emissionScheduleIndex
       /\ d.lastEligibleStatus = c.lastEligibleStatus
       /\ d.disqualifiedTime = c.disqualifiedTime
  BY <1>1, <1>5, <1>6, <1>11 DEF Chef
<1>13. \A u \in Users, s \in Pools : /\ Amount(d, u, s) = Amount(c, u, s)
                                     /\ Debt(d, u, s) = Debt(c, u, s)
                                     /\ Credit(d, u, s) = Credit(c, u, s)
                                     /\ Pending(d, u, s) = Pending(c, u, s)
  BY <1>5, <1>12 DEF Amount, Debt, Credit, Share, Pending
<1>14. ASSUME NEW u \in Users
       PROVE  Earned(d, u) = Earned(c, u) /\ EarnedExactly(d, u) = EarnedExactly(c, u)
  <2>1. SetAside(d, u) = SetAside(c, u)
    BY <1>12 DEF SetAside
  <2> QED  BY <1>1, <1>12, <1>13, <2>1, PlaceOf, EarnedStays
<1>15. TotalsOf(d)
  <2>1. ASSUME NEW s \in Pools
        PROVE  d.poolInfo[s].totalSupply = Sum([u \in Users |-> Amount(d, u, s)])
    <3>1. [u \in Users |-> Amount(d, u, s)] = [u \in Users |-> Amount(c, u, s)]
      BY <1>13
    <3> QED  BY <1>1, <1>5, <1>12, <3>1 DEF TotalsOf
  <2> QED  BY <1>11, <1>12, <2>1 DEF TotalsOf, g
<1>16. Solvent(d)
  BY <1>1, <1>5, <1>12, <1>13 DEF Solvent
<1>17. OnlyRegistered(d)
  <2>1. ASSUME NEW s \in Registered
        PROVE  d.poolInfo[s].lastRewardTime >= 1 /\ d.poolInfo[s].allocPoint >= 1
    <3>1. s \in Pools
      BY PlaceOf
    <3>2. d.poolInfo[s].lastRewardTime >= 1
      BY <1>1, <1>5, <1>12, <3>1 DEF OnlyRegistered
    <3>3. d.poolInfo[s].allocPoint >= 1
      BY <1>1, <1>4, <1>5, <1>12, <3>1 DEF OnlyRegistered
    <3> QED  BY <3>2, <3>3
  <2> QED  BY <1>1, <1>13, <2>1 DEF OnlyRegistered
<1>18. Slack(d) = Slack(c)
  <2>1. [u \in Users |-> EarnedExactly(d, u)] = [u \in Users |-> EarnedExactly(c, u)]
    BY <1>14
  <2> QED  BY <1>12, <2>1 DEF Slack
<1>19. OnSchedule(d) /\ Requalified(d)
  BY <1>1, <1>12 DEF OnSchedule, Requalified
<1>20. d \in Good
  BY <1>1, <1>12, <1>15, <1>16, <1>17, <1>18, <1>19 DEF Good, Backed
<1>21. (\A u \in Users : Earned(c, u) \in Int) /\ Slack(c) \in Int
  BY <1>1, EarnedTypes, SlackInt
<1>22. d \in Grown(c)
  BY <1>14, <1>18, <1>20, <1>21 DEF Grown
<1> QED  BY <1>12, <1>22 DEF d

\* batchUpdateAllocPoint.
LEMMA BatchUpdateActs ==
  ASSUME ChefInv, NEW tokens \in TokenLists, NEW allocPoints \in [1..Len(tokens) -> AllocPoints],
         BatchUpdateAllocPoint(tokens, allocPoints)
  PROVE  Acted
<1> DEFINE m == MassUpdatePools(chef)
           n == Len(tokens)
           S == {d \in Grown(chef) : /\ d.userInfo = chef.userInfo
                                     /\ d.lastEligibleStatus = chef.lastEligibleStatus}
           Round(x, i) == Repointed(x, tokens[i], allocPoints[i])
           G == [w \in S \X (1..n) |-> Round(w[1], w[2])]
<1>1. Environment /\ chef \in Good /\ tokens \in Seq(Pools) /\ AllocPoints \subseteq Nat \ {0}
  BY ControllerAssumption DEF ChefInv
<1>2. n \in Nat /\ \A i \in 1..n : tokens[i] \in Registered /\ allocPoints[i] \in Nat \ {0}
  <2>1. Range(tokens) \subseteq Registered
    BY DEF BatchUpdateAllocPoint, Registered
  <2> QED  BY <1>1, <2>1, LenProperties DEF Range
<1>3. \A x \in S, i \in 1..n : Round(x, i) \in S
  <2> SUFFICES ASSUME NEW x \in S, NEW i \in 1..n PROVE Round(x, i) \in S
    OBVIOUS
  <2>1. x \in Good /\ x \in Grown(chef) /\ x.userInfo = chef.userInfo
        /\ x.lastEligibleStatus = chef.lastEligibleStatus
    BY DEF Grown
  <2>2. tokens[i] \in Registered /\ allocPoints[i] \in Nat \ {0}
    BY <1>2
  <2>3. /\ Round(x, i) \in Grown(x) /\ Round(x, i).userInfo = x.userInfo
        /\ Round(x, i).lastEligibleStatus = x.lastEligibleStatus
    BY <1>1, <2>1, <2>2, RepointKeeps
  <2>4. Round(x, i) \in Grown(chef)
    BY <1>1, <2>1, <2>3, GrownTransitive
  <2> QED  BY <2>1, <2>3, <2>4
<1>4. m \in S
  BY <1>1, MassUpdateKeeps DEF Emitted
<1> HIDE DEF S, Round, m
<1>5. G \in [S \X (1..n) -> S]
  BY <1>3
<1>6. PICK f \in [0..n -> S] : f[0] = m /\ \A i \in 1..n : f[i] = G[<<f[i - 1], i>>]
  <2> HIDE DEF n, G
  <2>1. \E f \in [0..n -> S] : RunOf(f, m, n, G)
    BY <1>2, <1>4, <1>5, LoopRuns
  <2> QED  BY <2>1 DEF RunOf
<1>7. f = [i \in 0..n |-> IF i = 0 THEN m ELSE Round(f[i - 1], i)]
  <2>1. ASSUME NEW i \in 0..n
        PROVE  f[i] = IF i = 0 THEN m ELSE Round(f[i - 1], i)
    <3>1. CASE i = 0
      BY <1>6, <3>1
    <3>2. CASE i # 0
      <4>1. i \in 1..n /\ i - 1 \in 0..n
        BY <1>2, <3>2
      <4>2. f[i - 1] \in S
        BY <4>1
      <4>3. <<f[i - 1], i>> \in S \X (1..n) /\ f[i] = G[<<f[i - 1], i>>]
        BY <1>6, <4>1, <4>2
      <4>4. G[<<f[i - 1], i>>] = Round(<<f[i - 1], i>>[1], <<f[i - 1], i>>[2])
        BY <4>3
      <4> QED  BY <3>2, <4>3, <4>4
    <3> QED  BY <3>1, <3>2
  <2> QED  BY <2>1
<1> DEFINE g == CHOOSE f0 : f0 = [i \in 0..n |-> IF i = 0 THEN m ELSE Round(f0[i - 1], i)]
<1>8. g = [i \in 0..n |-> IF i = 0 THEN m ELSE Round(g[i - 1], i)]
  BY <1>7
<1>9. chef' = g[n] /\ tokenBalance' = tokenBalance
  BY DEF BatchUpdateAllocPoint, unchangedButChef, marketVars, Round, Repointed, m
<1> HIDE DEF g, n
<1>10. \A i \in 0..n : g[i] \in S
  <2>1. g[0] \in S
    BY <1>2, <1>4, <1>8
  <2>2. ASSUME NEW i \in 1..n, g[i - 1] \in S PROVE g[i] \in S
    <3>1. g[i] = Round(g[i - 1], i)
      BY <1>2, <1>8
    <3> QED  BY <1>3, <2>2, <3>1
  <2> QED  BY <1>2, <2>1, <2>2, LoopKeeps
<1>11. chef' \in S
  BY <1>2, <1>9, <1>10
<1> QED  BY <1>9, <1>11, QuietActs DEF S

-----------------------------------------------------------------------------
(* Every step *)

\* What every step does.
Stepped == /\ TypeOK' /\ Environment' /\ Sound
           /\ eligibilityEnabled => AllRemoved(chef, chef')
           /\ HeldInv => HeldThen

\* A transaction that vests nothing and registers no pool.
LEMMA ActedSteps ==
  ASSUME ChefInv, Acted, TypeOK',
         UNCHANGED <<now, startTime, registeredTokens, emissionSchedule,
                     persistRewardsPerSecond, vested>>
  PROVE  Stepped
<1>1. Sound
  BY GrownIsSound DEF Acted
<1>2. Environment'
  BY DEF ChefInv, Environment
<1> QED  BY <1>1, <1>2 DEF Stepped, Acted

\* A step that writes no account.
LEMMA ChefUnchangedSteps ==
  ASSUME ChefInv, chef' = chef, tokenBalance' = tokenBalance, TypeOK', Environment',
         now <= now', startTime' = startTime, registeredTokens' = registeredTokens,
         vested' = vested, Len(emissionSchedule) <= Len(emissionSchedule'),
         \A i \in 1..Len(emissionSchedule) : emissionSchedule'[i] = emissionSchedule[i]
  PROVE  Stepped
<1>1. Environment /\ chef \in Good /\ chef \in Chef
  BY DEF ChefInv, Good
<1>2. SameButAccounts(chef, chef')
  BY DEF SameButAccounts
<1>3. now' \in Nat /\ Len(emissionSchedule') \in Nat
  BY LenProperties DEF Environment
<1>4. \A u \in Users : vested'[u] + chef'.userBaseClaimable[u] = SetAside(chef, u)
  BY DEF SetAside
<1>5. (chef \in Good)' /\ \A u \in Users : EarnedTotal(u)' = Earned(chef, u)
  BY <1>1, <1>2, <1>3, <1>4, Carried
<1>6. \A u \in Users : Earned(chef, u) \in Int
  BY <1>1, EarnedTypes
<1>7. Sound
  BY <1>5, <1>6, EarnedTotalIs DEF Sound
<1>8. \A u \in Users, p \in Pools : /\ Amount(chef', u, p) = Amount(chef, u, p)
                                    /\ Amount(chef, u, p) \in Nat
  BY <1>1, UserTypes
<1>9. AllRemoved(chef, chef')
  BY <1>1, <1>8, SameIsRemoved
<1>10. \A u \in Users, p \in Pools : Amount(chef', u, p) <= Amount(chef, u, p)
  BY <1>8
<1>11. HeldInv => HeldThen
  BY <1>1, <1>10, StillHeld
<1> QED  BY <1>7, <1>9, <1>11 DEF Stepped

\* The transactions of the tokens, of the locks and of the bounty manager.
LEMMA TokenSteps ==
  ASSUME ChefInv,
         \/ \E u \in Users, p \in Pools, b \in 0..MaxBalance : MintOrBurn(u, p, b)
         \/ \E u, v \in Users, p \in Pools, a \in 1..MaxBalance : Transfer(u, v, p, a)
         \/ \E u \in Users, p, d \in Pools, b \in 0..MaxBalance, e, f \in 1..MaxBalance :
              Loop(u, p, d, b, e, f)
         \/ \E u \in Users, a \in LockAmounts : LockUpdate(u, a)
         \/ \E u \in Users : ClaimBounty(u)
  PROVE  Stepped
<1>1. TypeOK /\ MaxBalance \in Nat /\ LockAmounts \subseteq Nat
  BY ControllerAssumption DEF ChefInv
<1>2. ASSUME NEW u \in Users, NEW p \in Pools, NEW b \in 0..MaxBalance, MintOrBurn(u, p, b)
      PROVE  Stepped
  <2>1. Acted
    BY <1>2, MintOrBurnActs
  <2>2. chef' \in Chef
    BY <2>1 DEF Acted, Grown, Good
  <2>3. tokenBalance' \in [Users -> [Pools -> Nat]]
    BY <1>1, <1>2 DEF MintOrBurn, TypeOK
  <2>4. TypeOK'
    BY <1>1, <1>2, <2>2, <2>3 DEF MintOrBurn, TypeOK, settingVars, payoutVars
  <2> QED  BY <1>2, <2>1, <2>4, ActedSteps DEF MintOrBurn, settingVars, payoutVars
<1>3. ASSUME NEW u \in Users, NEW v \in Users, NEW p \in Pools, NEW a \in 1..MaxBalance,
             Transfer(u, v, p, a)
      PROVE  Stepped
  <2>1. Acted
    BY <1>3, TransferActs
  <2>2. chef' \in Chef
    BY <2>1 DEF Acted, Grown, Good
  <2>3. tokenBalance' \in [Users -> [Pools -> Nat]]
    <3>1. tokenBalance[u] \in [Pools -> Nat] /\ tokenBalance[v] \in [Pools -> Nat]
          /\ tokenBalance \in [Users -> [Pools -> Nat]]
      BY <1>1 DEF TypeOK
    <3>2. tokenBalance[u][p] - a \in Nat /\ tokenBalance[v][p] + a \in Nat /\ u # v
      BY <1>1, <1>3, <3>1 DEF Transfer
    <3>3. tokenBalance' = [tokenBalance EXCEPT ![u][p] = @ - a, ![v][p] = @ + a]
      BY <1>3 DEF Transfer
    <3> QED  BY <3>1, <3>2, <3>3
  <2>4. TypeOK'
    BY <1>1, <1>3, <2>2, <2>3 DEF Transfer, TypeOK, settingVars, payoutVars
  <2> QED  BY <1>3, <2>1, <2>4, ActedSteps DEF Transfer, settingVars, payoutVars
<1>4. ASSUME NEW u \in Users, NEW p \in Pools, NEW d \in Pools, NEW b \in 0..MaxBalance,
             NEW e \in 1..MaxBalance, NEW f \in 1..MaxBalance, Loop(u, p, d, b, e, f)
      PROVE  Stepped
  <2>1. Acted
    BY <1>4, LoopActs
  <2>2. chef' \in Chef
    BY <2>1 DEF Acted, Grown, Good
  <2>3. tokenBalance' \in [Users -> [Pools -> Nat]]
    <3> DEFINE final == [[tokenBalance[u] EXCEPT ![p] = b, ![d] = e] EXCEPT ![p] = f]
    <3>0. b \in Nat /\ e \in Nat /\ f \in Nat
      BY <1>1
    <3>1. tokenBalance[u] \in [Pools -> Nat] /\ tokenBalance \in [Users -> [Pools -> Nat]]
          /\ b \in Nat /\ e \in Nat /\ f \in Nat
      <4>1. tokenBalance \in [Users -> [Pools -> Nat]]
        BY <1>1 DEF TypeOK
      <4> QED  BY <3>0, <4>1
    <3>2. final \in [Pools -> Nat]
      BY <3>1
    <3>3. tokenBalance' = [tokenBalance EXCEPT ![u] = final]
      BY <1>4 DEF Loop
    <3> HIDE DEF final
    <3> QED  BY <3>1, <3>2, <3>3
  <2>4. /\ eligibilityExempt' = [eligibilityExempt EXCEPT ![u] = FALSE]
        /\ UNCHANGED <<now, registeredTokens, paused, startTime,
                       persistRewardsPerSecond, emissionSchedule, eligibilityEnabled,
                       payoutVars, normalizedIncome, locked>>
    BY <1>4 DEF Loop
  <2>5. eligibilityExempt' \in [Users -> BOOLEAN]
    BY <1>1, <2>4 DEF TypeOK
  <2>6. TypeOK'
    BY <1>1, <2>2, <2>3, <2>4, <2>5 DEF TypeOK, payoutVars
  <2> QED  BY <2>1, <2>4, <2>6, ActedSteps DEF payoutVars
<1>5. ASSUME NEW u \in Users, NEW a \in LockAmounts, LockUpdate(u, a)
      PROVE  Stepped
  <2>1. Acted
    BY <1>5, LockUpdateActs
  <2>2. chef' \in Chef
    BY <2>1 DEF Acted, Grown, Good
  <2>3. locked' \in [Users -> Nat]
    BY <1>1, <1>5 DEF LockUpdate, TypeOK
  <2>4. TypeOK'
    BY <1>1, <1>5, <2>2, <2>3 DEF LockUpdate, TypeOK, settingVars, payoutVars
  <2> QED  BY <1>5, <2>1, <2>4, ActedSteps DEF LockUpdate, settingVars, payoutVars
<1>6. ASSUME NEW u \in Users, ClaimBounty(u)
      PROVE  Stepped
  <2>1. Acted
    BY <1>6, ClaimBountyActs
  <2>2. chef' \in Chef
    BY <2>1 DEF Acted, Grown, Good
  <2>3. TypeOK'
    BY <1>1, <1>6, <2>2 DEF ClaimBounty, TypeOK, settingVars, payoutVars, marketVars
  <2> QED  BY <1>6, <2>1, <2>3, ActedSteps DEF ClaimBounty, settingVars, payoutVars
<1> QED  BY <1>2, <1>3, <1>4, <1>5, <1>6

\* Claims.
LEMMA ClaimSteps ==
  ASSUME ChefInv, NEW u \in Users, NEW tokens \in TokenLists, Claim(u, tokens)
  PROVE  Stepped
<1>1. /\ Sound /\ chef' \in Chef /\ reserve' \in Nat /\ vested' \in [Users -> Nat]
      /\ eligibilityEnabled => AllRemoved(chef, chef')
      /\ HeldInv => HeldThen
  BY ClaimActs
<1>2. UNCHANGED <<now, registeredTokens, settingVars, funded, marketVars>>
  BY DEF Claim
<1>3. TypeOK'
  BY <1>1, <1>2 DEF ChefInv, TypeOK, settingVars, marketVars
<1>4. Environment'
  BY <1>1, <1>2 DEF ChefInv, Environment, settingVars
<1> QED  BY <1>1, <1>3, <1>4 DEF Stepped

\* What the owner does to pools and rates.
LEMMA AdministrationSteps ==
  ASSUME ChefInv,
         \/ \E p \in Pools, a \in AllocPoints : AddPool(p, a)
         \/ \E ts \in TokenLists : \E a \in [1..Len(ts) -> AllocPoints] :
              BatchUpdateAllocPoint(ts, a)
         \/ \E r \in Rates, s \in BOOLEAN : SetRewardsPerSecond(r, s)
         \/ \E a \in DepositAmounts : RegisterRewardDeposit(a)
  PROVE  Stepped
<1>1. TypeOK
  BY DEF ChefInv
<1>2. ASSUME NEW p \in Pools, NEW a \in AllocPoints, AddPool(p, a) PROVE Stepped
  <2>1. /\ Sound /\ chef' \in Chef /\ registeredTokens' \in Seq(Pools)
        /\ \A i, j \in 1..Len(registeredTokens') :
             registeredTokens'[i] = registeredTokens'[j] => i = j
        /\ AllRemoved(chef, chef')
        /\ HeldInv => HeldThen
    BY <1>2, AddPoolActs
  <2>2. UNCHANGED <<now, settingVars, payoutVars, marketVars>>
    BY <1>2 DEF AddPool
  <2>3. TypeOK'
    BY <1>1, <2>1, <2>2 DEF TypeOK, settingVars, payoutVars, marketVars
  <2>4. Environment'
    BY <2>1, <2>2 DEF ChefInv, Environment, settingVars, payoutVars
  <2> QED  BY <2>1, <2>3, <2>4 DEF Stepped
<1>3. ASSUME Acted, UNCHANGED <<now, startTime, registeredTokens, emissionSchedule, paused,
                                eligibilityEnabled, eligibilityExempt, payoutVars, marketVars>>,
             persistRewardsPerSecond' \in BOOLEAN
      PROVE  Stepped
  <2>1. chef' \in Chef
    BY <1>3 DEF Acted, Grown, Good
  <2>2. TypeOK'
    BY <1>1, <1>3, <2>1 DEF TypeOK, payoutVars, marketVars
  <2>3. Environment'
    BY <1>3 DEF ChefInv, Environment, payoutVars
  <2>4. UNCHANGED <<now, startTime, registeredTokens, emissionSchedule, vested>>
    BY <1>3 DEF payoutVars
  <2>5. Sound
    BY <1>3, <2>4, GrownIsSound DEF Acted
  <2> QED  BY <1>3, <2>2, <2>3, <2>5 DEF Stepped, Acted
<1>4. ASSUME NEW ts \in TokenLists, NEW a \in [1..Len(ts) -> AllocPoints],
             BatchUpdateAllocPoint(ts, a)
      PROVE  Stepped
  <2>1. UNCHANGED <<settingVars, now, registeredTokens, payoutVars, marketVars>>
    BY <1>4 DEF BatchUpdateAllocPoint, unchangedButChef
  <2> QED  BY <1>1, <1>3, <1>4, <2>1, BatchUpdateActs DEF settingVars, TypeOK
<1>5. ASSUME NEW r \in Rates, NEW s \in BOOLEAN, SetRewardsPerSecond(r, s) PROVE Stepped
  <2>1. Acted
    BY <1>5, SetRewardsPerSecondActs
  <2> QED  BY <1>3, <1>5, <2>1 DEF SetRewardsPerSecond, unchangedButChef
<1>6. ASSUME NEW a \in DepositAmounts, RegisterRewardDeposit(a) PROVE Stepped
  <2>1. Acted
    BY <1>6, RegisterRewardDepositActs
  <2>2. UNCHANGED <<settingVars, now, registeredTokens, payoutVars, marketVars>>
    BY <1>6 DEF RegisterRewardDeposit, unchangedButChef
  <2> QED  BY <1>1, <1>3, <2>1, <2>2 DEF settingVars, TypeOK
<1> QED  BY <1>2, <1>4, <1>5, <1>6

\* Time, interest, prices, transfers to the controller and settings.
LEMMA SettingSteps ==
  ASSUME ChefInv,
         \/ Tick
         \/ \E p \in Pools : InterestAccrues(p)
         \/ EligibilityChanges
         \/ \E a \in FundAmounts : FundReserve(a)
         \/ \E points \in Schedules : SetEmissionSchedule(points)
         \/ \E s \in EligibilitySwitches : SetEligibilityEnabled(s)
         \/ \E u \in ExemptableUsers, s \in BOOLEAN : SetEligibilityExempt(u, s)
         \/ \E s \in PauseStatuses : SetPaused(s)
  PROVE  Stepped
<1>1. TypeOK /\ Environment /\ emissionSchedule \in Seq(EmissionPoint) /\ now \in Nat
      /\ Len(emissionSchedule) \in Nat
  BY LenProperties DEF ChefInv, Environment
<1>2. ASSUME TypeOK', Environment', UNCHANGED <<chef, tokenBalance, startTime, registeredTokens,
                                                vested, emissionSchedule>>,
             now <= now'
      PROVE  Stepped
  BY <1>1, <1>2, ChefUnchangedSteps
<1>3. CASE Tick
  <2>1. now' = now + 1 /\ UNCHANGED <<chef, registeredTokens, settingVars, payoutVars, marketVars>>
    BY <1>3 DEF Tick
  <2>2. TypeOK'
    BY <1>1, <2>1 DEF TypeOK, settingVars, payoutVars, marketVars
  <2>3. Environment'
    BY <1>1, <2>1 DEF Environment, settingVars, payoutVars
  <2> QED  BY <1>1, <1>2, <2>1, <2>2, <2>3 DEF settingVars, payoutVars, marketVars
<1>4. ASSUME NEW p \in Pools, InterestAccrues(p) PROVE Stepped
  <2>1. /\ normalizedIncome' = [normalizedIncome EXCEPT ![p] = @ + 1]
        /\ UNCHANGED <<now, chef, registeredTokens, settingVars, payoutVars, tokenBalance, locked>>
    BY <1>4 DEF InterestAccrues
  <2>2. TypeOK'
    BY <1>1, <2>1 DEF TypeOK, settingVars, payoutVars
  <2>3. Environment'
    BY <1>1, <2>1 DEF Environment, settingVars, payoutVars
  <2> QED  BY <1>1, <1>2, <2>1, <2>2, <2>3 DEF settingVars, payoutVars
<1>5. CASE EligibilityChanges
  <2>1. UNCHANGED <<now, chef, registeredTokens, settingVars, payoutVars, marketVars>>
    BY <1>5 DEF EligibilityChanges
  <2>2. TypeOK'
    BY <1>1, <2>1 DEF TypeOK, settingVars, payoutVars, marketVars
  <2>3. Environment'
    BY <1>1, <2>1 DEF Environment, settingVars, payoutVars
  <2> QED  BY <1>1, <1>2, <2>1, <2>2, <2>3 DEF settingVars, payoutVars, marketVars
<1>6. ASSUME NEW a \in FundAmounts, FundReserve(a) PROVE Stepped
  <2>1. a \in Nat
    BY ControllerAssumption
  <2>2. /\ reserve' = reserve + a /\ funded' = funded + a
        /\ UNCHANGED <<now, chef, registeredTokens, settingVars, vested, marketVars>>
    BY <1>6 DEF FundReserve
  <2>3. TypeOK'
    BY <1>1, <2>1, <2>2 DEF TypeOK, settingVars, marketVars
  <2>4. Environment'
    BY <1>1, <2>2 DEF Environment, settingVars
  <2> QED  BY <1>1, <1>2, <2>2, <2>3, <2>4 DEF settingVars, marketVars
<1>7. ASSUME NEW points \in Schedules, SetEmissionSchedule(points) PROVE Stepped
  <2>1. points \in Seq(EmissionPoint)
    BY ControllerAssumption
  <2>2. /\ emissionSchedule' = emissionSchedule \o points
        /\ UNCHANGED <<now, chef, registeredTokens, paused, startTime, persistRewardsPerSecond,
                       eligibilityEnabled, eligibilityExempt, payoutVars, marketVars>>
    BY <1>7 DEF SetEmissionSchedule, unchangedButSettings
  <2>3. /\ emissionSchedule' \in Seq(EmissionPoint)
        /\ Len(emissionSchedule) <= Len(emissionSchedule')
        /\ \A i \in 1..Len(emissionSchedule) : emissionSchedule'[i] = emissionSchedule[i]
    BY <1>1, <2>1, <2>2, ConcatProperties, LenProperties
  <2>4. TypeOK'
    BY <1>1, <2>2, <2>3 DEF TypeOK, payoutVars, marketVars
  <2>5. Environment'
    BY <1>1, <2>2, <2>3 DEF Environment, payoutVars
  <2>6. /\ chef' = chef /\ tokenBalance' = tokenBalance /\ now <= now'
        /\ startTime' = startTime /\ registeredTokens' = registeredTokens /\ vested' = vested
    BY <1>1, <2>2 DEF payoutVars, marketVars
  <2> QED  BY <2>3, <2>4, <2>5, <2>6, ChefUnchangedSteps
<1>8. ASSUME UNCHANGED <<now, chef, registeredTokens, startTime, persistRewardsPerSecond,
                         emissionSchedule, payoutVars, marketVars>>,
             paused' \in BOOLEAN, eligibilityEnabled' \in BOOLEAN,
             eligibilityExempt' \in [Users -> BOOLEAN]
      PROVE  Stepped
  <2>1. TypeOK'
    BY <1>1, <1>8 DEF TypeOK, payoutVars, marketVars
  <2>2. Environment'
    BY <1>1, <1>8 DEF Environment, payoutVars
  <2> QED  BY <1>1, <1>2, <1>8, <2>1, <2>2 DEF payoutVars, marketVars
<1>9. ASSUME NEW s \in EligibilitySwitches, SetEligibilityEnabled(s) PROVE Stepped
  <2>1. s \in BOOLEAN
    BY ControllerAssumption
  <2> QED  BY <1>1, <1>8, <1>9, <2>1 DEF SetEligibilityEnabled, unchangedButSettings, TypeOK
<1>10. ASSUME NEW u \in ExemptableUsers, NEW s \in BOOLEAN, SetEligibilityExempt(u, s) PROVE Stepped
  BY <1>1, <1>8, <1>10 DEF SetEligibilityExempt, unchangedButSettings, TypeOK
<1>11. ASSUME NEW s \in PauseStatuses, SetPaused(s) PROVE Stepped
  <2>1. s \in BOOLEAN
    BY ControllerAssumption
  <2> QED  BY <1>1, <1>8, <1>11, <2>1 DEF SetPaused, unchangedButSettings, TypeOK
<1> QED  BY <1>3, <1>4, <1>5, <1>6, <1>7, <1>9, <1>10, <1>11

\* Every step of the specification.
LEMMA NextSteps ==
  ASSUME ChefInv, [Next]_vars
  PROVE  Stepped
<1>1. CASE Next
  BY <1>1, TokenSteps, ClaimSteps, AdministrationSteps, SettingSteps DEF Next
<1>2. CASE UNCHANGED vars
  <2>1. UNCHANGED <<now, chef, registeredTokens, settingVars, payoutVars, marketVars>>
    BY <1>2 DEF vars
  <2>2. TypeOK /\ Environment /\ now \in Nat /\ Len(emissionSchedule) \in Nat
    BY LenProperties DEF ChefInv, Environment
  <2>3. TypeOK'
    BY <2>1, <2>2 DEF TypeOK, settingVars, payoutVars, marketVars
  <2>4. Environment'
    BY <2>1, <2>2 DEF Environment, settingVars, payoutVars
  <2> QED  BY <2>1, <2>2, <2>3, <2>4, ChefUnchangedSteps DEF settingVars, payoutVars, marketVars
<1> QED  BY <1>1, <1>2

\* At deployment the books are empty.
LEMMA InitIsSound ==
  ASSUME Init
  PROVE  ChefInv
<1> DEFINE n == Len(registeredTokens)
           A == ACC_REWARD_PRECISION
<1>1. /\ InitialPools \in Seq(Pools) /\ AllocPoints \subseteq Nat \ {0} /\ InitialRate \in Nat
      /\ InitialDeposit \in Nat /\ InitialLocked \in Nat /\ StartTime \in Nat \ {0}
      /\ InitialEligibilityEnabled \in BOOLEAN /\ A \in Nat \ {0} /\ NumUsers \in Nat
      /\ Users = 1..NumUsers
      /\ \A i, j \in 1..Len(InitialPools) : i # j => InitialPools[i] # InitialPools[j]
  BY ControllerAssumption DEF Users
<1>0. /\ now = StartTime /\ paused = FALSE /\ registeredTokens = InitialPools
      /\ startTime = StartTime /\ persistRewardsPerSecond = TRUE /\ emissionSchedule = <<>>
      /\ eligibilityEnabled = InitialEligibilityEnabled
      /\ eligibilityExempt = [u \in Users |-> FALSE]
      /\ reserve = InitialDeposit /\ funded = InitialDeposit
      /\ vested = [u \in Users |-> 0]
      /\ tokenBalance = [u \in Users |-> [p \in Pools |-> 0]]
      /\ normalizedIncome = [p \in Pools |-> 1]
      /\ locked = [u \in Users |-> InitialLocked]
  BY DEF Init
<1>2. /\ n \in Nat /\ registeredTokens = InitialPools
      /\ \A i \in 1..n : registeredTokens[i] \in Pools /\ registeredTokens[i] \in Registered
  <2>1. \A i \in 1..n : registeredTokens[i] \in Pools
    BY <1>0, <1>1, ElementOfSeq
  <2>2. n \in Nat
    BY <1>0, <1>1, LenProperties
  <2>3. Registered = {registeredTokens[i] : i \in 1..n}
    <3>1. DOMAIN registeredTokens = 1..n
      BY <1>0, <1>1, LenProperties
    <3> QED  BY <3>1 DEF Registered, Range
  <2> QED  BY <1>0, <2>1, <2>2, <2>3
<1>3. Registered \subseteq Pools /\ Registered = Range(InitialPools)
  BY <1>2 DEF Registered, Range
<1> DEFINE pools(alloc) == [p \in Pools |->
                              IF p \in Range(InitialPools)
                              THEN [NoPool EXCEPT !.allocPoint = alloc[p],
                                                  !.lastRewardTime = StartTime]
                              ELSE NoPool]
           Points(alloc) == [i \in 1..Len(InitialPools) |-> alloc[InitialPools[i]]]
<1>4. PICK alloc \in [Range(InitialPools) -> AllocPoints] :
        /\ chef.poolInfo = pools(alloc) /\ chef.totalAllocPoint = Sum(Points(alloc))
        /\ chef = [poolInfo |-> chef.poolInfo,
                   userInfo |-> [u \in Users |->
                                  [p \in Pools |-> [amount |-> 0, rewardDebt |-> 0]]],
                   userBaseClaimable |-> [u \in Users |-> 0],
                   totalAllocPoint |-> chef.totalAllocPoint,
                   rewardsPerSecond |-> InitialRate, lastRPS |-> 0,
                   emissionScheduleIndex |-> 0, depositedRewards |-> InitialDeposit,
                   accountedRewards |-> 0, lastAllPoolUpdate |-> StartTime,
                   lastEligibleStatus |-> [u \in Users |-> FALSE],
                   disqualifiedTime |-> [u \in Users |-> 0],
                   paid |-> [p \in Pools |-> 0], updates |-> 0]
  <2>1. PICK alloc \in [Range(InitialPools) -> AllocPoints] :
          chef = [poolInfo |-> pools(alloc),
                  userInfo |-> [u \in Users |->
                                 [p \in Pools |-> [amount |-> 0, rewardDebt |-> 0]]],
                  userBaseClaimable |-> [u \in Users |-> 0],
                  totalAllocPoint |-> Sum(Points(alloc)),
                  rewardsPerSecond |-> InitialRate, lastRPS |-> 0,
                  emissionScheduleIndex |-> 0, depositedRewards |-> InitialDeposit,
                  accountedRewards |-> 0, lastAllPoolUpdate |-> StartTime,
                  lastEligibleStatus |-> [u \in Users |-> FALSE],
                  disqualifiedTime |-> [u \in Users |-> 0],
                  paid |-> [p \in Pools |-> 0], updates |-> 0]
    BY DEF Init
  <2> HIDE DEF pools, Points
  <2>2. chef.poolInfo = pools(alloc) /\ chef.totalAllocPoint = Sum(Points(alloc))
    BY <2>1
  <2> QED  BY <2>1, <2>2
<1>5. /\ chef.poolInfo \in [Pools -> PoolInfo]
      /\ \A p \in Pools : chef.poolInfo[p].totalSupply = 0 /\ chef.poolInfo[p].accRewardPerShare = 0
                          /\ chef.poolInfo[p].lastRewardTime <= StartTime
      /\ \A p \in Registered : /\ chef.poolInfo[p].lastRewardTime >= 1
                               /\ chef.poolInfo[p].allocPoint = alloc[p] /\ alloc[p] \in Nat \ {0}
  <2>1. ASSUME NEW p \in Registered
        PROVE  /\ alloc[p] \in Nat \ {0} /\ p \in Pools
               /\ chef.poolInfo[p] = [totalSupply |-> 0, allocPoint |-> alloc[p],
                                      lastRewardTime |-> StartTime, accRewardPerShare |-> 0]
    BY <1>1, <1>3, <1>4 DEF NoPool
  <2>2. ASSUME NEW p \in Pools \ Registered
        PROVE  chef.poolInfo[p] = [totalSupply |-> 0, allocPoint |-> 0,
                                   lastRewardTime |-> 0, accRewardPerShare |-> 0]
    BY <1>3, <1>4 DEF NoPool
  <2>3. ASSUME NEW p \in Pools
        PROVE  /\ chef.poolInfo[p] \in PoolInfo
               /\ chef.poolInfo[p].totalSupply = 0 /\ chef.poolInfo[p].accRewardPerShare = 0
               /\ chef.poolInfo[p].lastRewardTime <= StartTime
    <3> DEFINE q == chef.poolInfo[p]
               x == alloc[p]
    <3>1. CASE p \in Registered
      <4>1. /\ x \in Nat
            /\ q = [totalSupply |-> 0, allocPoint |-> x, lastRewardTime |-> StartTime,
                    accRewardPerShare |-> 0]
        BY <2>1, <3>1
      <4>2. StartTime \in Nat
        BY <1>1
      <4> HIDE DEF q, x
      <4>3. q \in PoolInfo /\ q.totalSupply = 0 /\ q.accRewardPerShare = 0
            /\ q.lastRewardTime = StartTime
        BY <4>1, <4>2 DEF PoolInfo
      <4> QED  BY <4>2, <4>3 DEF q
    <3>2. CASE p \notin Registered
      <4>1. q = [totalSupply |-> 0, allocPoint |-> 0, lastRewardTime |-> 0,
                 accRewardPerShare |-> 0]
        BY <2>2, <3>2
      <4>2. StartTime \in Nat
        BY <1>1
      <4> HIDE DEF q
      <4>3. q \in PoolInfo /\ q.totalSupply = 0 /\ q.accRewardPerShare = 0
            /\ q.lastRewardTime = 0
        BY <4>1 DEF PoolInfo
      <4> QED  BY <4>2, <4>3 DEF q
    <3> QED  BY <3>1, <3>2
  <2>4. chef.poolInfo \in [Pools -> PoolInfo]
    <3>1. chef.poolInfo = [p \in Pools |-> chef.poolInfo[p]]
      BY <1>4
    <3> HIDE DEF pools
    <3> QED  BY <2>3, <3>1
  <2>5. ASSUME NEW p \in Registered
        PROVE  /\ chef.poolInfo[p].lastRewardTime >= 1
               /\ chef.poolInfo[p].allocPoint = alloc[p] /\ alloc[p] \in Nat \ {0}
    <3> DEFINE q == chef.poolInfo[p]
               x == alloc[p]
    <3>1. /\ x \in Nat \ {0}
          /\ q = [totalSupply |-> 0, allocPoint |-> x, lastRewardTime |-> StartTime,
                  accRewardPerShare |-> 0]
      BY <2>1
    <3>2. StartTime \in Nat \ {0}
      BY <1>1
    <3> HIDE DEF q, x
    <3>3. q.lastRewardTime = StartTime /\ q.allocPoint = x
      BY <3>1
    <3>4. q.lastRewardTime >= 1
      BY <3>2, <3>3
    <3> QED  BY <3>1, <3>3, <3>4 DEF q, x
  <2> QED  BY <2>3, <2>4, <2>5
<1>6. chef.totalAllocPoint = Sum([i \in 1..n |-> chef.poolInfo[registeredTokens[i]].allocPoint])
      /\ chef.totalAllocPoint \in Nat
  <2> DEFINE f == [i \in 1..n |-> chef.poolInfo[registeredTokens[i]].allocPoint]
  <2>1. f = Points(alloc) /\ f \in [1..n -> Nat]
    BY <1>2, <1>5
  <2> HIDE DEF f, Points
  <2>2. Sum(f) \in Nat
    <3>1. CASE n = 0
      <4>1. f = [i \in 1..n |-> 0]
        BY <2>1, <3>1
      <4>2. Sum(f) = 0
        BY <1>2, <4>1, SumZero
      <4> QED  BY <4>2
    <3>2. CASE n # 0
      <4>1. 1 \in 1..n
        BY <1>2, <3>2
      <4> QED  BY <1>2, <2>1, <4>1, SumNat
    <3> QED  BY <3>1, <3>2
  <2>3. chef.totalAllocPoint = Sum(f)
    BY <1>4, <2>1
  <2> QED  BY <2>2, <2>3 DEF f
<1> DEFINE bp == chef.poolInfo
           ba == chef.totalAllocPoint
<1> HIDE DEF pools, Points, bp, ba
<1>7. /\ chef \in Chef
      /\ chef.userInfo = [u \in Users |-> [p \in Pools |-> [amount |-> 0, rewardDebt |-> 0]]]
      /\ chef.userBaseClaimable = [u \in Users |-> 0]
      /\ chef.emissionScheduleIndex = 0 /\ chef.depositedRewards = InitialDeposit
      /\ chef.accountedRewards = 0 /\ chef.updates = 0
      /\ chef.lastEligibleStatus = [u \in Users |-> FALSE]
  <2>1. bp \in [Pools -> PoolInfo] /\ ba \in Nat
    BY <1>5, <1>6 DEF bp, ba
  <2>2. chef = [poolInfo |-> bp,
                userInfo |-> [u \in Users |-> [p \in Pools |-> [amount |-> 0, rewardDebt |-> 0]]],
                userBaseClaimable |-> [u \in Users |-> 0], totalAllocPoint |-> ba,
                rewardsPerSecond |-> InitialRate, lastRPS |-> 0,
                emissionScheduleIndex |-> 0, depositedRewards |-> InitialDeposit,
                accountedRewards |-> 0, lastAllPoolUpdate |-> StartTime,
                lastEligibleStatus |-> [u \in Users |-> FALSE],
                disqualifiedTime |-> [u \in Users |-> 0],
                paid |-> [p \in Pools |-> 0], updates |-> 0]
    BY <1>4 DEF bp, ba
  <2>3. [amount |-> 0, rewardDebt |-> 0] \in UserInfo
    BY DEF UserInfo
  <2>4. /\ [u \in Users |-> [p \in Pools |-> [amount |-> 0, rewardDebt |-> 0]]]
             \in [Users -> [Pools -> UserInfo]]
        /\ [u \in Users |-> 0] \in [Users -> Nat]
        /\ [u \in Users |-> FALSE] \in [Users -> BOOLEAN]
        /\ [p \in Pools |-> 0] \in [Pools -> Nat]
    BY <2>3
  <2> QED  BY <1>1, <2>1, <2>2, <2>4 DEF Chef
<1>8. TypeOK
  <2>1. emissionSchedule \in Seq(EmissionPoint)
    BY <1>0
  <2>2. reserve \in Nat /\ funded \in Nat /\ now \in Nat /\ startTime \in Nat
    BY <1>0, <1>1
  <2>3. /\ vested \in [Users -> Nat] /\ tokenBalance \in [Users -> [Pools -> Nat]]
        /\ normalizedIncome \in [Pools -> Nat] /\ eligibilityExempt \in [Users -> BOOLEAN]
    BY <1>0
  <2>4. locked \in [Users -> Nat]
    BY <1>0, <1>1
  <2> QED  BY <1>0, <1>1, <1>7, <2>1, <2>2, <2>3, <2>4 DEF TypeOK
<1>9. /\ \A u \in Users, p \in Pools : Amount(chef, u, p) = 0 /\ Debt(chef, u, p) = 0
      /\ \A p \in Pools : Share(chef, p) = 0
  BY <1>5, <1>7 DEF Amount, Debt, Share
<1>10. \A u \in Users, p \in Pools : Credit(chef, u, p) = 0
  BY <1>1, <1>9 DEF Credit
<1>11. TotalsOf(chef)
  <2>1. ASSUME NEW p \in Pools
        PROVE  chef.poolInfo[p].totalSupply = Sum([u \in Users |-> Amount(chef, u, p)])
    <3> DEFINE f == [u \in 1..NumUsers |-> Amount(chef, u, p)]
    <3>1. f = [u \in 1..NumUsers |-> 0]
      BY <1>1, <1>9
    <3> HIDE DEF f
    <3>2. Sum(f) = 0
      BY <1>1, <3>1, SumZero
    <3> QED  BY <1>1, <1>5, <3>2 DEF f
  <2> QED  BY <1>6, <2>1 DEF TotalsOf
<1>12. Solvent(chef)
  <2>1. chef.accountedRewards <= chef.depositedRewards
    BY <1>1, <1>7
  <2>2. \A p \in Pools : chef.poolInfo[p].lastRewardTime <= now
    BY <1>0, <1>5
  <2> QED  BY <1>10, <2>1, <2>2 DEF Solvent
<1>13. OnlyRegistered(chef)
  <2>1. \A p \in Registered : chef.poolInfo[p].lastRewardTime >= 1 /\ chef.poolInfo[p].allocPoint >= 1
    BY <1>5
  <2> QED  BY <1>9, <2>1 DEF OnlyRegistered
<1>14. Environment
  <2>1. vested \in [Users -> Nat] /\ emissionSchedule \in Seq(EmissionPoint)
        /\ persistRewardsPerSecond \in BOOLEAN
    BY <1>0
  <2>2. now \in Nat /\ now >= 1 /\ startTime \in Nat /\ startTime <= now
    BY <1>0, <1>1
  <2>3. registeredTokens \in Seq(Pools)
        /\ \A i, j \in 1..Len(registeredTokens) : registeredTokens[i] = registeredTokens[j] => i = j
    BY <1>0, <1>1
  <2> QED  BY <2>1, <2>2, <2>3 DEF Environment
<1>15. ASSUME NEW u \in Users PROVE EarnedExactly(chef, u) = 0
  <2> DEFINE f == [i \in 1..n |-> Credit(chef, u, registeredTokens[i])]
  <2>1. f = [i \in 1..n |-> 0]
    BY <1>2, <1>10
  <2>2. SetAside(chef, u) = 0
    BY <1>0, <1>7 DEF SetAside
  <2>3. EarnedExactly(chef, u) = SetAside(chef, u) * A + Sum(f)
    BY DEF EarnedExactly
  <2> HIDE DEF f, n
  <2>4. Sum(f) = 0
    BY <1>2, <2>1, SumZero
  <2> QED  BY <1>1, <2>2, <2>3, <2>4
<1>16. Backed(chef)
  <2> DEFINE f == [u \in 1..NumUsers |-> EarnedExactly(chef, u)]
  <2>1. f = [u \in 1..NumUsers |-> 0]
    BY <1>1, <1>15
  <2>2. Slack(chef) = (0 + 0) * A - Sum(f)
    BY <1>1, <1>7 DEF Slack
  <2> HIDE DEF f
  <2>3. Sum(f) = 0
    BY <1>1, <2>1, SumZero
  <2> QED  BY <1>1, <2>2, <2>3 DEF Backed
<1>17. OnSchedule(chef) /\ Requalified(chef)
  <2>1. Len(emissionSchedule) = 0
    BY <1>0
  <2> QED  BY <1>7, <2>1 DEF OnSchedule, Requalified
<1> QED  BY <1>7, <1>8, <1>11, <1>12, <1>13, <1>14, <1>16, <1>17 DEF ChefInv, Good

-----------------------------------------------------------------------------
(* What the invariant shows *)

\* No user's pending rewards are negative, what was accounted was deposited, and
\* no pool is ahead of the clock.
LEMMA InvNeverReverts ==
  ASSUME ChefInv
  PROVE  HooksNeverRevert
<1>1. chef \in Chef /\ Solvent(chef)
  BY DEF ChefInv, Good
<1> QED  BY <1>1, PendingRounds DEF Solvent, HooksNeverRevert

\* What users can claim, times ACC_REWARD_PRECISION, is within what they earned
\* exactly.
LEMMA EarnedRounds ==
  ASSUME NEW c, NEW u, Environment, c \in Chef, u \in Users
  PROVE  Earned(c, u) * ACC_REWARD_PRECISION <= EarnedExactly(c, u)
<1> DEFINE n == Len(registeredTokens)
           f == [i \in 1..n |-> Pending(c, u, registeredTokens[i])]
           g == [i \in 1..n |-> Credit(c, u, registeredTokens[i])]
           A == ACC_REWARD_PRECISION
           x == SetAside(c, u)
<1>1. /\ n \in Nat /\ f \in [1..n -> Int] /\ g \in [1..n -> Int] /\ x \in Int /\ A \in Int
  BY EarnedTypes, Constants
<1>2. \A i \in 1..n : registeredTokens[i] \in Pools
  BY ElementOfSeq DEF Environment
<1>3. \A i \in 1..n : f[i] * A <= g[i]
  BY <1>2, PendingRounds
<1>4. Earned(c, u) = x + Sum(f) /\ EarnedExactly(c, u) = x * A + Sum(g)
  BY DEF Earned, EarnedExactly
<1> HIDE DEF n, f, g, A, x
<1>5. Sum(f) * A <= Sum(g) /\ Sum(f) \in Int /\ Sum(g) \in Int
  BY <1>1, <1>3, SumGrowsScaled, SumInt
<1> DEFINE y == Sum(f)
           z == Sum(g)
<1> HIDE DEF y, z
<1>6. (x + y) * A = x * A + y * A /\ x * A \in Int /\ y * A \in Int
  BY <1>1, <1>5 DEF y
<1>7. (x + y) * A <= x * A + z
  BY <1>1, <1>5, <1>6 DEF y, z
<1> QED  BY <1>4, <1>7 DEF y, z, A

\* The users together are owed no more than was taken from the reserve, and a unit
\* per update.
LEMMA InvOwedIsAccounted ==
  ASSUME ChefInv
  PROVE  OwedIsAccounted
<1> DEFINE A == ACC_REWARD_PRECISION
           f == [u \in Users |-> Earned(chef, u)]
           g == [u \in Users |-> EarnedExactly(chef, u)]
           t == chef.accountedRewards + chef.updates
<1>1. Environment /\ chef \in Chef /\ Slack(chef) >= 0
  BY DEF ChefInv, Good, Backed
<1>2. NumUsers \in Nat /\ Users = 1..NumUsers /\ A \in Nat \ {0} /\ t \in Nat
  BY <1>1, Constants, ChefTypes
<1>3. f \in [1..NumUsers -> Int] /\ g \in [1..NumUsers -> Int]
  BY <1>1, <1>2, EarnedTypes
<1>4. \A u \in 1..NumUsers : f[u] * A <= g[u]
  BY <1>1, <1>2, EarnedRounds
<1>5. Slack(chef) = t * A - Sum(g)
  BY DEF Slack
<1>6. f = [u \in Users |-> EarnedTotal(u)]
  BY EarnedTotalIs
<1> HIDE DEF f, g, A, t
<1>7. Sum(f) * A <= Sum(g) /\ Sum(f) \in Int /\ Sum(g) \in Int
  <2>1. A \in Int
    BY <1>2
  <2>2. Sum(f) \in Int /\ Sum(g) \in Int
    BY <1>2, <1>3, SumInt
  <2>3. Sum(f) * A <= Sum(g)
    BY <1>2, <1>3, <1>4, <2>1, SumGrowsScaled
  <2> QED  BY <2>2, <2>3
<1> DEFINE x == Sum(f)
<1> HIDE DEF x
<1>8. x * A <= t * A
  <2>1. x * A \in Int /\ t * A \in Int
    BY <1>2, <1>7 DEF x
  <2> QED  BY <1>1, <1>5, <1>7, <2>1 DEF x
<1>9. x <= t
  <2> SUFFICES ASSUME x >= t + 1 PROVE FALSE
    BY <1>2, <1>7 DEF x
  <2>1. x * A >= (t + 1) * A
    BY <1>2, <1>7 DEF x
  <2>2. (t + 1) * A = t * A + A /\ t * A \in Int /\ x * A \in Int
    BY <1>2, <1>7 DEF x
  <2> QED  BY <1>2, <1>8, <2>1, <2>2
<1> QED  BY <1>6, <1>9 DEF OwedIsAccounted, x, t

\* The parts of the invariant that are properties as they stand.
LEMMA InvParts ==
  ASSUME ChefInv
  PROVE  TypeOK /\ TotalsMatch /\ NoRateBeforeItsTime
BY DEF ChefInv, Good, TotalsOf, TotalsMatch, OnSchedule, NoRateBeforeItsTime, Amount

-----------------------------------------------------------------------------
(* Theorems *)

\* Every reachable state is sound.
THEOREM ChefSpecInv == Spec => []ChefInv
<1>1. Init => ChefInv
  BY InitIsSound
<1>2. ChefInv /\ [Next]_vars => ChefInv'
  BY NextSteps DEF Stepped, Sound, ChefInv
<1> QED  BY <1>1, <1>2, PTL DEF Spec

\* No checked subtraction of the reward accounting goes below zero, and every
\* variable has its type.
THEOREM ChefSpecTypeOK == Spec => []TypeOK
<1>1. ChefInv => TypeOK
  BY InvParts
<1> QED  BY <1>1, ChefSpecInv, PTL

\* totalSupply and totalAllocPoint are the sums of their parts, whatever hooks,
\* claims, disqualifications and settings were run.
THEOREM ChefSpecTotalsMatch == Spec => []TotalsMatch
<1>1. ChefInv => TotalsMatch
  BY InvParts
<1> QED  BY <1>1, ChefSpecInv, PTL

\* No scheduled rate is applied before its time.
THEOREM ChefSpecNoRateBeforeItsTime == Spec => []NoRateBeforeItsTime
<1>1. ChefInv => NoRateBeforeItsTime
  BY InvParts
<1> QED  BY <1>1, ChefSpecInv, PTL

\* The arithmetic of rewards never makes a hook of a deposit, a repayment, a
\* liquidation or an unlock revert.
THEOREM ChefSpecHooksNeverRevert == Spec => []HooksNeverRevert
<1>1. ChefInv => HooksNeverRevert
  BY InvNeverReverts
<1> QED  BY <1>1, ChefSpecInv, PTL

\* Users together never earn more than was taken out of the reserve, up to one
\* unit of rounding per balance update.
THEOREM ChefSpecOwedIsAccounted == Spec => []OwedIsAccounted
<1>1. ChefInv => OwedIsAccounted
  BY InvOwedIsAccounted
<1> QED  BY <1>1, ChefSpecInv, PTL

\* Nothing a user has earned is ever taken away.
THEOREM ChefSpecEarnedIsKept == Spec => EarnedIsKept
<1> DEFINE Kept == \A u \in Users : EarnedTotal(u)' >= EarnedTotal(u)
<1>1. ChefInv /\ [Next]_vars => [Kept]_vars
  <2> SUFFICES ASSUME ChefInv, [Next]_vars PROVE Kept
    OBVIOUS
  <2>1. \A u \in Users : EarnedTotal(u) <= EarnedTotal(u)'
    BY NextSteps DEF Stepped, Sound
  <2> QED  BY <2>1
<1> HIDE DEF Kept
<1>2. Spec => [][Kept]_vars
  BY <1>1, ChefSpecInv, PTL DEF Spec
<1> QED  BY <1>2 DEF EarnedIsKept, Kept

\* While eligibility is enforced, a transaction that finds a user ineligible
\* removes its amounts, and none that leaves it ineligible raises one.
THEOREM ChefSpecIneligibleIsRemoved == Spec => IneligibleIsRemoved
<1> DEFINE Gone == eligibilityEnabled =>
                     \A u \in Users : ~chef'.lastEligibleStatus[u] =>
                       \A p \in Pools :
                         /\ chef'.userInfo[u][p].amount <= chef.userInfo[u][p].amount
                         /\ chef.lastEligibleStatus[u] => chef'.userInfo[u][p].amount = 0
<1>1. ChefInv /\ [Next]_vars => [Gone]_vars
  <2> SUFFICES ASSUME ChefInv, [Next]_vars PROVE Gone
    OBVIOUS
  <2> QED  BY NextSteps DEF Stepped, AllRemoved, Removed, Amount
<1> HIDE DEF Gone
<1>2. Spec => [][Gone]_vars
  BY <1>1, ChefSpecInv, PTL DEF Spec
<1> QED  BY <1>2 DEF IneligibleIsRemoved, Gone

-----------------------------------------------------------------------------
(* Eligibility enforced from deployment on *)

\* Eligibility is enforced from deployment on, as initialize has it, and the owner
\* never suspends it.  While it is suspended, tokens are registered without marking
\* the user eligible.  When it is enforced again, the hook of the next burn takes
\* the user for one that was just found eligible, and leaves it to
\* _updateRegisteredBalance, which passes over a balance of zero: the amount stays.
AlwaysEnforced == InitialEligibilityEnabled /\ EligibilitySwitches \subseteq {TRUE}

\* What a step may do to the settings and to interest.
Enforcing ==
  /\ eligibilityEnabled'
  /\ \A u \in Users \ ExemptableUsers : ~eligibilityExempt'[u]
  /\ \A p \in Pools : normalizedIncome'[p] >= normalizedIncome[p]

\* Every step goes on enforcing.
LEMMA StepEnforces ==
  ASSUME AlwaysEnforced, ChefInv, HeldInv, [Next]_vars
  PROVE  Enforcing
<1>1. /\ eligibilityEnabled /\ normalizedIncome \in [Pools -> Nat]
      /\ eligibilityExempt \in [Users -> BOOLEAN]
      /\ \A u \in Users \ ExemptableUsers : ~eligibilityExempt[u]
  BY DEF HeldInv, ChefInv, TypeOK
<1>2. ASSUME eligibilityEnabled' = eligibilityEnabled, eligibilityExempt' = eligibilityExempt,
             normalizedIncome' = normalizedIncome
      PROVE  Enforcing
  BY <1>1, <1>2 DEF Enforcing
<1>3. ASSUME NEW u \in Users, NEW p \in Pools, NEW b \in 0..MaxBalance, MintOrBurn(u, p, b)
      PROVE  Enforcing
  BY <1>2, <1>3 DEF MintOrBurn, settingVars
<1>4. ASSUME NEW u \in Users, NEW v \in Users, NEW p \in Pools, NEW a \in 1..MaxBalance,
             Transfer(u, v, p, a)
      PROVE  Enforcing
  BY <1>2, <1>4 DEF Transfer, settingVars
<1>5. ASSUME NEW u \in Users, NEW p \in Pools, NEW d \in Pools, NEW b \in 0..MaxBalance,
             NEW e \in 1..MaxBalance, NEW f \in 1..MaxBalance, Loop(u, p, d, b, e, f)
      PROVE  Enforcing
  <2>1. /\ eligibilityExempt' = [eligibilityExempt EXCEPT ![u] = FALSE]
        /\ UNCHANGED <<eligibilityEnabled, normalizedIncome>>
    BY <1>5 DEF Loop
  <2> QED  BY <1>1, <2>1 DEF Enforcing
<1>6. ASSUME NEW u \in Users, NEW a \in LockAmounts, LockUpdate(u, a) PROVE Enforcing
  BY <1>2, <1>6 DEF LockUpdate, settingVars
<1>7. ASSUME NEW u \in Users, ClaimBounty(u) PROVE Enforcing
  BY <1>2, <1>7 DEF ClaimBounty, settingVars, marketVars
<1>8. ASSUME NEW u \in Users, NEW ts \in TokenLists, Claim(u, ts) PROVE Enforcing
  <2>1. UNCHANGED <<settingVars, marketVars>>
    BY <1>8 DEF Claim
  <2> QED  BY <1>2, <2>1 DEF settingVars, marketVars
<1>9. ASSUME NEW p \in Pools, InterestAccrues(p) PROVE Enforcing
  <2>1. /\ normalizedIncome' = [normalizedIncome EXCEPT ![p] = @ + 1]
        /\ UNCHANGED settingVars
    BY <1>9 DEF InterestAccrues
  <2>2. \A s \in Pools : normalizedIncome'[s] >= normalizedIncome[s]
    BY <1>1, <2>1
  <2> QED  BY <1>1, <2>1, <2>2 DEF Enforcing, settingVars
<1>10. ASSUME NEW p \in Pools, NEW a \in AllocPoints, AddPool(p, a) PROVE Enforcing
  <2>1. UNCHANGED <<settingVars, marketVars>>
    BY <1>10 DEF AddPool
  <2> QED  BY <1>2, <2>1 DEF settingVars, marketVars
<1>11. ASSUME NEW ts \in TokenLists, NEW a \in [1..Len(ts) -> AllocPoints],
              BatchUpdateAllocPoint(ts, a)
       PROVE  Enforcing
  <2>1. UNCHANGED <<settingVars, marketVars>>
    BY <1>11 DEF BatchUpdateAllocPoint, unchangedButChef
  <2> QED  BY <1>2, <2>1 DEF settingVars, marketVars
<1>12. ASSUME NEW r \in Rates, NEW s \in BOOLEAN, SetRewardsPerSecond(r, s) PROVE Enforcing
  BY <1>2, <1>12 DEF SetRewardsPerSecond, unchangedButChef, marketVars
<1>13. ASSUME NEW a \in DepositAmounts, RegisterRewardDeposit(a) PROVE Enforcing
  <2>1. UNCHANGED <<settingVars, marketVars>>
    BY <1>13 DEF RegisterRewardDeposit, unchangedButChef
  <2> QED  BY <1>2, <2>1 DEF settingVars, marketVars
<1>14. CASE Tick \/ EligibilityChanges \/ UNCHANGED vars
         \/ (\E a \in FundAmounts : FundReserve(a))
  <2>1. UNCHANGED <<settingVars, marketVars>>
    BY <1>14 DEF Tick, EligibilityChanges, FundReserve, vars
  <2> QED  BY <1>2, <2>1 DEF settingVars, marketVars
<1>15. ASSUME NEW points \in Schedules, SetEmissionSchedule(points) PROVE Enforcing
  <2>1. UNCHANGED <<eligibilityEnabled, eligibilityExempt, marketVars>>
    BY <1>15 DEF SetEmissionSchedule, unchangedButSettings
  <2> QED  BY <1>2, <2>1 DEF marketVars
<1>16. ASSUME NEW s \in EligibilitySwitches, SetEligibilityEnabled(s) PROVE Enforcing
  <2>1. eligibilityEnabled' = eligibilityEnabled
    BY <1>1, <1>16 DEF SetEligibilityEnabled, AlwaysEnforced
  <2> QED  BY <1>2, <1>16, <2>1 DEF SetEligibilityEnabled, unchangedButSettings, marketVars
<1>17. ASSUME NEW u \in ExemptableUsers, NEW s \in BOOLEAN, SetEligibilityExempt(u, s)
       PROVE  Enforcing
  <2>1. /\ eligibilityExempt' = [eligibilityExempt EXCEPT ![u] = s]
        /\ UNCHANGED <<eligibilityEnabled, marketVars>>
    BY <1>17 DEF SetEligibilityExempt, unchangedButSettings
  <2>2. \A v \in Users \ ExemptableUsers : eligibilityExempt'[v] = eligibilityExempt[v]
    BY <1>1, <2>1
  <2> QED  BY <1>1, <2>1, <2>2 DEF Enforcing, marketVars
<1>18. ASSUME NEW s \in PauseStatuses, SetPaused(s) PROVE Enforcing
  BY <1>2, <1>18 DEF SetPaused, unchangedButSettings, marketVars
<1> QED  BY <1>3, <1>4, <1>5, <1>6, <1>7, <1>8, <1>9, <1>10, <1>11, <1>12, <1>13, <1>14, <1>15,
            <1>16, <1>17, <1>18 DEF Next

\* Every step keeps amounts within balances.
LEMMA StepHolds ==
  ASSUME AlwaysEnforced, ChefInv, HeldInv, [Next]_vars
  PROVE  HeldInv'
<1>1. Stepped /\ Enforcing /\ TypeOK /\ chef \in Chef
  BY NextSteps, StepEnforces DEF ChefInv, Good
<1>2. TypeOK' /\ chef' \in Chef /\ AllRemoved(chef, chef') /\ HeldThen
  BY <1>1 DEF Stepped, Sound, Good, HeldInv
<1>3. \A p \in Pools : /\ normalizedIncome'[p] >= normalizedIncome[p]
                       /\ normalizedIncome[p] \in Nat /\ normalizedIncome'[p] \in Nat
                       /\ normalizedIncome[p] >= 1
  BY <1>1, <1>2 DEF Enforcing, TypeOK, HeldInv
<1>4. \A u \in Users : Idle(chef', u)
  BY <1>1, <1>2, IdleKept DEF HeldInv
<1>5. ASSUME NEW u \in Users \ ExemptableUsers, NEW p \in Pools
      PROVE  Amount(chef', u, p) <= tokenBalance'[u][p] * normalizedIncome'[p]
  <2> DEFINE a == Amount(chef', u, p)
             x == tokenBalance'[u][p]
             i == normalizedIncome[p]
             j == normalizedIncome'[p]
  <2>1. a \in Nat /\ x \in Nat /\ i \in Nat /\ j \in Nat /\ i <= j
    BY <1>2, <1>3, UserTypes DEF TypeOK
  <2>2. a <= x * i
    BY <1>2 DEF HeldThen, Held, balancesOf
  <2> HIDE DEF a, x, i, j
  <2>3. x * i <= x * j /\ x * i \in Int /\ x * j \in Int
    BY <2>1
  <2>4. a <= x * j
    BY <2>1, <2>2, <2>3
  <2> QED  BY <2>4 DEF a, x, j
<1>6. \A u \in Users \ ExemptableUsers : Held(chef, u, balancesOf(tokenBalance[u]))'
  BY <1>5 DEF Held, balancesOf
<1>7. (\A p \in Pools : normalizedIncome[p] >= 1)'
  BY <1>3
<1> QED  BY <1>1, <1>4, <1>6, <1>7 DEF HeldInv, Enforcing

\* At deployment nothing is registered.
LEMMA InitHolds ==
  ASSUME AlwaysEnforced, Init
  PROVE  HeldInv
<1>0. /\ eligibilityEnabled = InitialEligibilityEnabled
      /\ eligibilityExempt = [u \in Users |-> FALSE]
      /\ tokenBalance = [u \in Users |-> [p \in Pools |-> 0]]
      /\ normalizedIncome = [p \in Pools |-> 1]
  BY DEF Init
<1>1. \A u \in Users, p \in Pools : Amount(chef, u, p) = 0
  <2> DEFINE accounts == [u \in Users |-> [p \in Pools |-> [amount |-> 0, rewardDebt |-> 0]]]
           pools(alloc) == [p \in Pools |->
                              IF p \in Range(InitialPools)
                              THEN [NoPool EXCEPT !.allocPoint = alloc[p],
                                                  !.lastRewardTime = StartTime]
                              ELSE NoPool]
           Points(alloc) == [i \in 1..Len(InitialPools) |-> alloc[InitialPools[i]]]
  <2>1. PICK alloc \in [Range(InitialPools) -> AllocPoints] :
          chef = [poolInfo |-> pools(alloc), userInfo |-> accounts,
                  userBaseClaimable |-> [u \in Users |-> 0],
                  totalAllocPoint |-> Sum(Points(alloc)),
                  rewardsPerSecond |-> InitialRate, lastRPS |-> 0,
                  emissionScheduleIndex |-> 0, depositedRewards |-> InitialDeposit,
                  accountedRewards |-> 0, lastAllPoolUpdate |-> StartTime,
                  lastEligibleStatus |-> [u \in Users |-> FALSE],
                  disqualifiedTime |-> [u \in Users |-> 0],
                  paid |-> [p \in Pools |-> 0], updates |-> 0]
    BY DEF Init
  <2> HIDE DEF pools, Points, accounts
  <2>2. chef.userInfo = accounts
    BY <2>1
  <2> QED  BY <2>2 DEF Amount, accounts
<1>2. eligibilityEnabled
  BY <1>0 DEF AlwaysEnforced
<1>3. \A p \in Pools : normalizedIncome[p] >= 1
  BY <1>0
<1>4. ASSUME NEW u \in Users, NEW p \in Pools PROVE balancesOf(tokenBalance[u])[p] = 0
  <2>1. tokenBalance[u][p] = 0 /\ normalizedIncome[p] = 1
    BY <1>0
  <2> QED  BY <2>1 DEF balancesOf
<1>5. \A u \in Users : Idle(chef, u) /\ Held(chef, u, balancesOf(tokenBalance[u]))
  BY <1>1, <1>4 DEF Idle, Held
<1>6. \A u \in Users : ~eligibilityExempt[u]
  BY <1>0
<1> QED  BY <1>2, <1>3, <1>5, <1>6 DEF HeldInv

\* Where eligibility is always enforced, amounts stay within balances.
THEOREM ChefSpecHeldInv == ASSUME AlwaysEnforced PROVE Spec => [](ChefInv /\ HeldInv)
<1>1. Init => ChefInv /\ HeldInv
  BY InitIsSound, InitHolds
<1>2. ChefInv /\ HeldInv /\ [Next]_vars => (ChefInv /\ HeldInv)'
  <2> SUFFICES ASSUME ChefInv, HeldInv, [Next]_vars PROVE (ChefInv /\ HeldInv)'
    OBVIOUS
  <2>1. ChefInv'
    BY NextSteps DEF Stepped, Sound, ChefInv
  <2>2. HeldInv'
    BY StepHolds
  <2> QED  BY <2>1, <2>2
<1> QED  BY <1>1, <1>2, PTL DEF Spec

\* Nobody earns on more than it holds, whatever was transferred, looped,
\* disqualified and registered again.
THEOREM ChefSpecRegisteredIsHeld ==
  ASSUME AlwaysEnforced PROVE Spec => []RegisteredIsHeld
<1>1. HeldInv => RegisteredIsHeld
  BY DEF HeldInv, Held, RegisteredIsHeld, Amount
<1> QED  BY <1>1, ChefSpecHeldInv, PTL

\* A change of the locks that leaves the user eligible registers all it holds.
THEOREM ChefSpecLockingRegistersAll ==
  ASSUME AlwaysEnforced PROVE Spec => LockingRegistersAll
<1> DEFINE All == \A u \in Users \ ExemptableUsers, a \in LockAmounts :
                    LockUpdate(u, a) /\ chef'.lastEligibleStatus[u] =>
                      \A p \in Range(registeredTokens) :
                        chef'.userInfo[u][p].amount = balancesOf(tokenBalance[u])[p]
<1>1. ChefInv /\ HeldInv => All
  BY LockUpdateActs DEF Registered, Amount
<1> HIDE DEF All
<1>2. Spec => [][All]_vars
  BY <1>1, ChefSpecHeldInv, PTL DEF Spec
<1> QED  BY <1>2 DEF LockingRegistersAll, All

=============================================================================
