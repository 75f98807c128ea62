------------------------ MODULE MultiFeeRewardProofs ------------------------
(***************************************************************************)
(* Theorems about the reward streams of MultiFeeDistribution: updating a     *)
(* user's rewards never reverts, every claim is covered by what was          *)
(* notified, and nobody's accrued reward is touched by others.               *)
(*                                                                         *)
(* They hold as long as no token that was taken off the list is put on it    *)
(* again (NoRelisting): removeReward clears a token's data and leaves what   *)
(* users have been paid per token, which a second stream starts below.       *)
(***************************************************************************)
EXTENDS MultiFeeStakeProofs

\* What the owner may remove, it may not add.
NoRelisting == RemovableRewards \cap AddableRewards = {}

\* What a user with `weight` is owed, times RPT_PRECISION and with no rounding,
\* when rewardPerTokenStored is x, it was paid up to `paid` and `kept` is stored.
Accrued(kept, weight, paid, x) == kept * RPT_PRECISION + weight * (x - paid)

\* What all users are owed of token t as of its last update, and as of now.
DebtsStored(t) ==
  Sum([u \in Users |-> Accrued(rewards[u][t], bal[u].lockedWithMultiplier,
                               userRewardPerTokenPaid[u][t],
                               rewardData[t].rewardPerTokenStored)])
DebtsNow(t) ==
  Sum([u \in Users |-> Accrued(rewards[u][t], bal[u].lockedWithMultiplier,
                               userRewardPerTokenPaid[u][t], rewardPerToken(t))])

\* What remains to be streamed of r after `time`, times PRECISION.
StreamAfter(r, time) == (r.periodFinish - time) * r.rewardPerSecond

\* Debts, and what is to be streamed after `time`, are covered by the balance of r.
Covered(r, debts, time) ==
  debts + StreamAfter(r, time) * RPT_PRECISION <= (r.balance * PRECISION) * RPT_PRECISION

\* A listed token: its stream is never updated past its end while anybody is
\* locked, nobody was paid more per token than was stored, and the balance, which
\* the contract holds, covers the debts and the rest of the stream.
Streamed(t) ==
  LET r == rewardData[t]
  IN  /\ r.lastUpdateTime <= now
      /\ r.lastUpdateTime <= r.periodFinish \/ r.rewardPerSecond = 0
      /\ lockedSupplyWithMultiplier > 0 => r.lastUpdateTime <= r.periodFinish
      /\ r.lastUpdateTime = 0 => r.periodFinish = 0
      /\ r.periodFinish = 0 => r.rewardPerSecond = 0
      /\ \A u \in Users : userRewardPerTokenPaid[u][t] <= r.rewardPerTokenStored
      /\ t # Prnt => held[t] >= r.balance
      /\ Covered(r, DebtsStored(t), r.lastUpdateTime)

\* A token that was never listed.
Fresh(t) ==
  /\ rewardData[t] = NoReward
  /\ \A u \in Users : userRewardPerTokenPaid[u][t] = 0 /\ rewards[u][t] = 0

\* The invariant of the reward list.  PRNT may be listed twice (AddReward), but
\* not where it may be removed.
ListInv ==
  /\ Listed \subseteq AddableRewards \cup {Prnt}
  /\ Prnt \notin RemovableRewards => Prnt \in Listed
  /\ Prnt \in RemovableRewards =>
       \A i, j \in 1..Len(rewardTokens) :
         rewardTokens[i] = Prnt /\ rewardTokens[j] = Prnt => i = j

StreamInv ==
  /\ now >= 1
  /\ \A t \in Listed : Streamed(t)
  /\ \A t \in AddableRewards \ Listed : Fresh(t)

RewardInv == LockInv /\ ListInv /\ StreamInv

-----------------------------------------------------------------------------
(* A stream brought up to date *)

\* The types of what a stream is computed from.
LEMMA StreamTypes ==
  ASSUME TypeOK, NEW t \in Listed
  PROVE  /\ t \in Tokens /\ now \in Nat /\ lockedSupplyWithMultiplier \in Nat
         /\ rewardData[t] \in Reward
         /\ rewardData[t].periodFinish \in Nat /\ rewardData[t].lastUpdateTime \in Nat
         /\ rewardData[t].rewardPerSecond \in Nat /\ rewardData[t].balance \in Nat
         /\ rewardData[t].rewardPerTokenStored \in Nat
         /\ RPT_PRECISION \in Nat /\ RPT_PRECISION # 0
         /\ PRECISION \in Nat /\ PRECISION # 0
         /\ rewardsDuration \in Nat /\ rewardsDuration # 0
         /\ held[t] \in Nat
         /\ \A u \in Users : /\ rewards[u][t] \in Nat
                             /\ bal[u].lockedWithMultiplier \in Nat
                             /\ userRewardPerTokenPaid[u][t] \in Nat
<1>1. t \in Tokens /\ rewardData[t] \in Reward
  BY ListedTokens DEF TypeOK
<1>2. /\ rewardData[t].periodFinish \in Nat /\ rewardData[t].lastUpdateTime \in Nat
      /\ rewardData[t].rewardPerSecond \in Nat /\ rewardData[t].balance \in Nat
      /\ rewardData[t].rewardPerTokenStored \in Nat
  BY <1>1 DEF Reward
<1>3. \A u \in Users : /\ rewards[u][t] \in Nat
                       /\ bal[u].lockedWithMultiplier \in Nat
                       /\ userRewardPerTokenPaid[u][t] \in Nat
  BY <1>1 DEF TypeOK, Balances
<1>4. held[t] \in Nat /\ now \in Nat /\ lockedSupplyWithMultiplier \in Nat
  BY <1>1 DEF TypeOK
<1>5. /\ RPT_PRECISION \in Nat /\ RPT_PRECISION # 0
      /\ PRECISION \in Nat /\ PRECISION # 0
      /\ rewardsDuration \in Nat /\ rewardsDuration # 0
  BY ConstantsAssumption
<1> QED  BY <1>1, <1>2, <1>3, <1>4, <1>5

\* What _updateReward brings a listed token's data to.
UpToDate(t) ==
  LET x == rewardPerToken(t)
      until == lastTimeRewardApplicable(t)
  IN  /\ x \in Nat /\ until \in Nat
      /\ until <= now /\ until <= rewardData[t].periodFinish
      /\ until = 0 => rewardData[t].periodFinish = 0
      /\ lockedSupplyWithMultiplier > 0 => rewardData[t].lastUpdateTime <= until
      /\ x >= rewardData[t].rewardPerTokenStored
      /\ \A u \in Users : userRewardPerTokenPaid[u][t] <= x
      /\ DebtsNow(t) \in Int
      /\ Covered(rewardData[t], DebtsNow(t), until)

\* What the users are owed at x, from what they are owed at y.
LEMMA DebtsGrow ==
  ASSUME TypeOK, SuppliesMatch, NEW t \in Listed, rewardPerToken(t) \in Int
  PROVE  /\ DebtsStored(t) \in Int
         /\ DebtsNow(t) = DebtsStored(t) + (rewardPerToken(t) - rewardData[t].rewardPerTokenStored)
                                             * lockedSupplyWithMultiplier
<1> DEFINE c == rewardPerToken(t) - rewardData[t].rewardPerTokenStored
           g == [u \in Users |-> bal[u].lockedWithMultiplier]
           f == [u \in Users |-> Accrued(rewards[u][t], bal[u].lockedWithMultiplier,
                                         userRewardPerTokenPaid[u][t],
                                         rewardData[t].rewardPerTokenStored)]
           h == [u \in Users |-> Accrued(rewards[u][t], bal[u].lockedWithMultiplier,
                                         userRewardPerTokenPaid[u][t], rewardPerToken(t))]
<1>1. NumUsers \in Nat /\ Users = 1..NumUsers
  BY ConstantsAssumption DEF Users
<1>2. c \in Int
  BY StreamTypes
<1>3. ASSUME NEW u \in Users
      PROVE  /\ f[u] \in Int /\ g[u] \in Int /\ h[u] = f[u] + c * g[u]
  <2> DEFINE k == rewards[u][t]
             w == bal[u].lockedWithMultiplier
             p == userRewardPerTokenPaid[u][t]
             y == rewardData[t].rewardPerTokenStored
             x == rewardPerToken(t)
  <2>1. /\ k \in Nat /\ w \in Nat /\ p \in Nat /\ y \in Nat /\ RPT_PRECISION \in Nat /\ x \in Int
    BY StreamTypes
  <2> HIDE DEF k, w, p, x, y
  <2>2. k * RPT_PRECISION \in Int /\ w * (y - p) \in Int
    BY <2>1
  <2>3. w * (x - p) = w * (y - p) + (x - y) * w
    BY <2>1
  <2>4. (x - y) * w \in Int
    BY <2>1
  <2>5. k * RPT_PRECISION + w * (x - p) = (k * RPT_PRECISION + w * (y - p)) + (x - y) * w
    BY <2>2, <2>3, <2>4
  <2>6. /\ f[u] = k * RPT_PRECISION + w * (y - p)
        /\ h[u] = k * RPT_PRECISION + w * (x - p)
        /\ g[u] = w /\ c = x - y
    BY DEF Accrued, k, w, p, x, y
  <2> HIDE DEF f, g, h, c
  <2> QED  BY <2>1, <2>2, <2>5, <2>6
<1>4. /\ Sum(f) = SumTo(f, NumUsers) /\ Sum(g) = SumTo(g, NumUsers)
      /\ Sum(h) = SumTo(h, NumUsers)
  BY SumOverUsers
<1>5. DebtsStored(t) = Sum(f) /\ DebtsNow(t) = Sum(h) /\ lockedSupplyWithMultiplier = Sum(g)
  BY DEF DebtsStored, DebtsNow, SuppliesMatch
<1> HIDE DEF f, g, h
<1>6. SumTo(h, NumUsers) = SumTo(f, NumUsers) + c * SumTo(g, NumUsers)
  <2>1. IntsTo(f, NumUsers) /\ IntsTo(g, NumUsers)
    BY <1>1, <1>3 DEF IntsTo
  <2>2. PlusScaledTo(h, f, c, g, NumUsers)
    BY <1>1, <1>3 DEF PlusScaledTo
  <2> HIDE DEF c
  <2> QED  BY <1>1, <1>2, <2>1, <2>2, SumToPlusScaled
<1>7. SumTo(f, NumUsers) \in Int
  BY <1>1, <1>3, SumToInt DEF IntsTo
<1> QED  BY <1>4, <1>5, <1>6, <1>7

\* Updating keeps the debts covered: what they grow by has been streamed.
LEMMA StreamedUpToDate ==
  ASSUME TypeOK, SuppliesMatch, now >= 1, NEW t \in Listed, Streamed(t)
  PROVE  UpToDate(t)
<1> DEFINE r == rewardData[t]
           until == lastTimeRewardApplicable(t)
           S == lockedSupplyWithMultiplier
           x == rewardPerToken(t)
           y == r.rewardPerTokenStored
           streamed == (until - r.lastUpdateTime) * r.rewardPerSecond
           grown == (streamed * RPT_PRECISION) \div S
<1>1. /\ now \in Nat /\ S \in Nat /\ RPT_PRECISION \in Nat
      /\ r.periodFinish \in Nat /\ r.lastUpdateTime \in Nat /\ r.rewardPerSecond \in Nat
      /\ y \in Nat
      /\ \A u \in Users : userRewardPerTokenPaid[u][t] \in Nat
  BY StreamTypes
<1>2. /\ r.lastUpdateTime <= now
      /\ r.lastUpdateTime <= r.periodFinish \/ r.rewardPerSecond = 0
      /\ S > 0 => r.lastUpdateTime <= r.periodFinish
      /\ r.lastUpdateTime = 0 => r.periodFinish = 0
      /\ \A u \in Users : userRewardPerTokenPaid[u][t] <= y
      /\ Covered(r, DebtsStored(t), r.lastUpdateTime)
  BY DEF Streamed
<1>3. /\ until \in Nat /\ until <= now /\ until <= r.periodFinish
      /\ until = 0 => r.periodFinish = 0
      /\ r.lastUpdateTime <= until \/ r.rewardPerSecond = 0
      /\ S > 0 => r.lastUpdateTime <= until
  BY <1>1, <1>2 DEF lastTimeRewardApplicable
<1> HIDE DEF until
<1>4. streamed \in Nat
  <2>1. CASE r.lastUpdateTime <= until
    <3>1. until - r.lastUpdateTime \in Nat
      BY <1>1, <1>3, <2>1
    <3> QED  BY <1>1, <3>1
  <2>2. CASE r.rewardPerSecond = 0
    BY <1>1, <1>3, <2>2
  <2> QED  BY <1>3, <2>1, <2>2
<1>5. streamed * RPT_PRECISION \in Nat
  <2> HIDE DEF streamed
  <2> QED  BY <1>1, <1>4
<1>6. /\ x \in Nat /\ x >= y
      /\ (x - y) * S <= streamed * RPT_PRECISION
  <2>1. CASE S > 0
    <3>1. x = y + grown
      BY <2>1 DEF rewardPerToken, until
    <3> HIDE DEF streamed, x, y, S
    <3>2. grown \in Nat /\ S * grown <= streamed * RPT_PRECISION
      <4> DEFINE a == streamed * RPT_PRECISION
      <4>1. a \in Nat /\ S \in Nat /\ S # 0
        BY <1>1, <1>5, <2>1
      <4> HIDE DEF a
      <4>2. a \div S \in Nat /\ S * (a \div S) <= a
        BY <4>1, DivNat, DivBounds
      <4> QED  BY <4>2 DEF a
    <3> HIDE DEF grown
    <3>3. x - y = grown /\ x \in Nat /\ x >= y
      BY <1>1, <3>1, <3>2
    <3>4. grown * S = S * grown
      BY <1>1, <3>2
    <3> QED  BY <3>2, <3>3, <3>4
  <2>2. CASE ~(S > 0)
    <3>1. x = y
      BY <2>2 DEF rewardPerToken
    <3> HIDE DEF streamed, x, y, S
    <3> QED  BY <1>1, <1>5, <3>1
  <2> QED  BY <2>1, <2>2
<1>7. /\ DebtsStored(t) \in Int
      /\ DebtsNow(t) = DebtsStored(t) + (x - y) * S
  BY <1>6, DebtsGrow
<1>8. (x - y) * S \in Int
  <2> HIDE DEF x, y, S
  <2> QED  BY <1>1, <1>6
<1>9. Covered(r, DebtsNow(t), until)
  <2> DEFINE all == StreamAfter(r, r.lastUpdateTime)
             left == StreamAfter(r, until)
             b == (r.balance * PRECISION) * RPT_PRECISION
             rate == r.rewardPerSecond
             finish == r.periodFinish
             last == r.lastUpdateTime
  <2>1. /\ all \in Int /\ left \in Int /\ left = all - streamed
    <3>1. /\ all = (finish - last) * rate /\ left = (finish - until) * rate
          /\ streamed = (until - last) * rate
      BY DEF StreamAfter
    <3>2. finish \in Nat /\ last \in Nat /\ rate \in Nat /\ until \in Nat
      BY <1>1, <1>3
    <3> HIDE DEF all, left, streamed, finish, last, rate
    <3> QED  BY <3>1, <3>2
  <2>2. b \in Int
    <3>1. r.balance \in Nat /\ PRECISION \in Nat
      BY StreamTypes
    <3>2. r.balance * PRECISION \in Nat
      BY <3>1
    <3> DEFINE p == r.balance * PRECISION
    <3> HIDE DEF p
    <3>3. p * RPT_PRECISION \in Int
      BY <1>1, <3>2 DEF p
    <3> QED  BY <3>3 DEF p
  <2>3. DebtsStored(t) + all * RPT_PRECISION <= b
    BY <1>2 DEF Covered
  <2> HIDE DEF all, left, streamed, b, x, y, S
  <2>4. left * RPT_PRECISION = all * RPT_PRECISION - streamed * RPT_PRECISION
    BY <1>1, <1>4, <2>1
  <2> DEFINE grew == (x - y) * S
             A == all * RPT_PRECISION
             L == left * RPT_PRECISION
             W == streamed * RPT_PRECISION
  <2>5. A \in Int /\ L \in Int /\ W \in Int /\ grew \in Int
    BY <1>1, <1>5, <1>8, <2>1
  <2>6. L = A - W /\ grew <= W /\ DebtsStored(t) + A <= b /\ DebtsNow(t) = DebtsStored(t) + grew
    BY <1>6, <1>7, <2>3, <2>4
  <2> HIDE DEF A, L, W, grew
  <2>7. DebtsNow(t) + L <= b
    BY <1>7, <2>2, <2>5, <2>6
  <2> QED  BY <2>7 DEF Covered, L, left, b
<1>10. \A u \in Users : userRewardPerTokenPaid[u][t] <= x
  <2> HIDE DEF x, y
  <2> QED  BY <1>1, <1>2, <1>6
<1>11. DebtsNow(t) \in Int
  <2> HIDE DEF x, y, S
  <2> QED  BY <1>7, <1>8
<1> QED  BY <1>3, <1>6, <1>9, <1>10, <1>11 DEF UpToDate, until

\* The two checked subtractions of _updateReward do not revert.
LEMMA UpToDateUpdates ==
  ASSUME \A t \in Listed : UpToDate(t), NEW u \in Users
  PROVE  CanUpdateReward(u)
<1> SUFFICES ASSUME NEW t \in Listed
             PROVE  /\ lockedSupplyWithMultiplier > 0
                         => lastTimeRewardApplicable(t) >= rewardData[t].lastUpdateTime
                    /\ rewardPerToken(t) >= userRewardPerTokenPaid[u][t]
  BY DEF CanUpdateReward
<1>1. UpToDate(t)
  OBVIOUS
<1> QED  BY <1>1 DEF UpToDate

\* What a user has earned is what it is owed, rounded down.
LEMMA EarnedIsOwed ==
  ASSUME TypeOK, NEW t \in Listed, UpToDate(t), NEW u \in Users
  PROVE  /\ Earned(u, t) \in Nat
         /\ Accrued(rewards[u][t], bal[u].lockedWithMultiplier,
                    userRewardPerTokenPaid[u][t], rewardPerToken(t)) \in Int
         /\ Earned(u, t) * RPT_PRECISION
              <= Accrued(rewards[u][t], bal[u].lockedWithMultiplier,
                         userRewardPerTokenPaid[u][t], rewardPerToken(t))
<1> DEFINE k == rewards[u][t]
           w == bal[u].lockedWithMultiplier
           p == userRewardPerTokenPaid[u][t]
           x == rewardPerToken(t)
           grown == w * (x - p)
           part == grown \div RPT_PRECISION
<1>1. /\ k \in Nat /\ w \in Nat /\ p \in Nat /\ RPT_PRECISION \in Nat /\ RPT_PRECISION # 0
  BY StreamTypes
<1>2. x \in Nat /\ p <= x
  BY DEF UpToDate
<1>3. Earned(u, t) = k + part
  BY DEF Earned
<1>4. Accrued(k, w, p, x) = k * RPT_PRECISION + grown
  BY DEF Accrued
<1> HIDE DEF k, w, p, x
<1>5. grown \in Nat
  <2>1. x - p \in Nat
    BY <1>1, <1>2
  <2> QED  BY <1>1, <2>1
<1> HIDE DEF grown
<1>6. part \in Nat /\ RPT_PRECISION * part <= grown
  BY <1>1, <1>5, DivNat, DivBounds
<1> HIDE DEF part
<1>7. (k + part) * RPT_PRECISION = k * RPT_PRECISION + RPT_PRECISION * part
  BY <1>1, <1>6
<1>8. k * RPT_PRECISION \in Nat /\ RPT_PRECISION * part \in Nat
  BY <1>1, <1>6
<1>9. /\ k + part \in Nat
      /\ k * RPT_PRECISION + grown \in Int
      /\ (k + part) * RPT_PRECISION <= k * RPT_PRECISION + grown
  BY <1>1, <1>5, <1>6, <1>7, <1>8
<1> QED  BY <1>3, <1>4, <1>9 DEF k, w, p, x

\* A token's claims are covered when its stream, brought up to date, is.
LEMMA UpToDateIsBacked ==
  ASSUME TypeOK, NEW t \in Listed, UpToDate(t)
  PROVE  Sum([u \in Users |-> Earned(u, t)])
           + (IF rewardData[t].periodFinish > now
              THEN (rewardData[t].periodFinish - now) * rewardData[t].rewardPerSecond ELSE 0)
         <= rewardData[t].balance * PRECISION
<1> DEFINE e == [u \in Users |-> Earned(u, t)]
           a == [u \in Users |-> Accrued(rewards[u][t], bal[u].lockedWithMultiplier,
                                         userRewardPerTokenPaid[u][t], rewardPerToken(t))]
           r == rewardData[t]
           running == IF r.periodFinish > now
                      THEN (r.periodFinish - now) * r.rewardPerSecond ELSE 0
           b == r.balance * PRECISION
<1>1. NumUsers \in Nat /\ Users = 1..NumUsers
  BY ConstantsAssumption DEF Users
<1>2. \A u \in Users : e[u] \in Int /\ a[u] \in Int /\ e[u] * RPT_PRECISION <= a[u]
  BY EarnedIsOwed
<1>3. Sum(e) = SumTo(e, NumUsers) /\ Sum(a) = SumTo(a, NumUsers) /\ DebtsNow(t) = Sum(a)
  <2>1. DebtsNow(t) = Sum(a)
    BY DEF DebtsNow
  <2> QED  BY <2>1, SumOverUsers
<1>4. running = StreamAfter(r, lastTimeRewardApplicable(t))
  BY StreamTypes DEF StreamAfter, lastTimeRewardApplicable
<1>5. DebtsNow(t) + running * RPT_PRECISION <= b * RPT_PRECISION
  BY <1>4 DEF UpToDate, Covered
<1>6. running \in Int /\ b \in Int /\ RPT_PRECISION \in Nat /\ RPT_PRECISION # 0
  <2>1. /\ now \in Nat /\ r.periodFinish \in Nat /\ r.rewardPerSecond \in Nat
        /\ r.balance \in Nat /\ PRECISION \in Nat /\ RPT_PRECISION \in Nat /\ RPT_PRECISION # 0
    BY StreamTypes
  <2> DEFINE rest == r.periodFinish - now
             rate == r.rewardPerSecond
  <2>2. rest \in Int /\ rate \in Int
    BY <2>1
  <2>3. running = IF r.periodFinish > now THEN rest * rate ELSE 0
    OBVIOUS
  <2> HIDE DEF rest, rate, running
  <2>4. rest * rate \in Int
    BY <2>2
  <2> QED  BY <2>1, <2>3, <2>4
<1> HIDE DEF e, a, running, b
<1>7. IntsTo(e, NumUsers) /\ IntsTo(a, NumUsers)
  BY <1>1, <1>2 DEF IntsTo
<1>8. SumTo(e, NumUsers) * RPT_PRECISION <= SumTo(a, NumUsers)
  <2>1. \A i \in 1..NumUsers : e[i] * RPT_PRECISION <= a[i]
    BY <1>1, <1>2
  <2> QED  BY <1>1, <1>6, <1>7, <2>1, SumToAtMost
<1>9. SumTo(e, NumUsers) \in Int /\ SumTo(a, NumUsers) \in Int
  BY <1>1, <1>7, SumToInt
<1> DEFINE s == SumTo(e, NumUsers)
<1> HIDE DEF s
<1>10. s \in Int /\ s * RPT_PRECISION + running * RPT_PRECISION <= b * RPT_PRECISION
  <2> DEFINE sr == s * RPT_PRECISION
             rr == running * RPT_PRECISION
             br == b * RPT_PRECISION
  <2>1. s \in Int /\ sr \in Int /\ rr \in Int /\ br \in Int
    BY <1>6, <1>9 DEF s
  <2>2. sr <= SumTo(a, NumUsers) /\ SumTo(a, NumUsers) + rr <= br
    BY <1>3, <1>5, <1>8 DEF s
  <2> HIDE DEF sr, rr, br
  <2>3. sr + rr <= br
    BY <1>9, <2>1, <2>2
  <2> QED  BY <2>1, <2>3 DEF sr, rr, br
<1>11. s + running <= b
  <2> DEFINE d == s + running
  <2>1. d \in Int /\ d * RPT_PRECISION = s * RPT_PRECISION + running * RPT_PRECISION
    BY <1>6, <1>10
  <2> HIDE DEF d
  <2>2. d * RPT_PRECISION <= b * RPT_PRECISION
    BY <1>10, <2>1
  <2>3. d <= b
    BY <1>6, <2>1, <2>2
  <2> QED  BY <2>3 DEF d
<1> QED  BY <1>3, <1>11 DEF e, running, b, s

-----------------------------------------------------------------------------
(* What a transaction does to a stream *)

\* d is updated until now, or until the end of its stream.
Current(d) ==
  /\ d.lastUpdateTime = IF now < d.periodFinish THEN now ELSE d.periodFinish
  /\ d.periodFinish = 0 => d.rewardPerSecond = 0

\* d is the data of t updated, and `reward` more of it notified.
Renewed(t, d, reward) ==
  /\ d \in Reward
  /\ reward \in Nat
  /\ Current(d)
  /\ d.rewardPerTokenStored = rewardPerToken(t)
  /\ d.balance = rewardData[t].balance + reward
  /\ StreamAfter(d, d.lastUpdateTime)
       <= StreamAfter(rewardData[t], lastTimeRewardApplicable(t)) + reward * PRECISION

\* A new period streams at most the new reward and what was left of the old one.
LEMMA NotifyEffect ==
  ASSUME TypeOK, NEW r \in Reward, Current(r), NEW reward \in Nat
  PROVE  /\ Notify(r, reward) \in Reward
         /\ Current(Notify(r, reward))
         /\ Notify(r, reward).rewardPerTokenStored = r.rewardPerTokenStored
         /\ Notify(r, reward).balance = r.balance + reward
         /\ StreamAfter(Notify(r, reward), Notify(r, reward).lastUpdateTime)
              <= StreamAfter(r, r.lastUpdateTime) + reward * PRECISION
<1> DEFINE n == Notify(r, reward)
           remaining == IF now >= r.periodFinish THEN 0 ELSE r.periodFinish - now
           old == remaining * r.rewardPerSecond
           leftover == old \div PRECISION
           total == reward + leftover
           scaled == total * PRECISION
           rate == scaled \div rewardsDuration
<1>1. /\ PRECISION \in Nat /\ PRECISION # 0 /\ rewardsDuration \in Nat /\ rewardsDuration # 0
      /\ now \in Nat /\ r.periodFinish \in Nat /\ r.rewardPerSecond \in Nat
      /\ r.lastUpdateTime \in Nat
  BY ConstantsAssumption DEF TypeOK, Reward
<1>2. n \in Reward
  BY <1>1, NotifyType
<1>3. /\ n.rewardPerSecond = rate /\ n.lastUpdateTime = now
      /\ n.periodFinish = now + rewardsDuration
      /\ n.rewardPerTokenStored = r.rewardPerTokenStored
      /\ n.balance = r.balance + reward
  BY DEF Notify, Reward
<1>4. old = StreamAfter(r, r.lastUpdateTime)
  <2>1. remaining = r.periodFinish - r.lastUpdateTime
    BY <1>1 DEF Current
  <2> QED  BY <2>1 DEF StreamAfter
<1>5. remaining \in Nat
  BY <1>1
<1> HIDE DEF n, remaining
<1>6. old \in Nat
  BY <1>1, <1>5
<1> HIDE DEF old
<1>7. leftover \in Nat /\ PRECISION * leftover <= old
  BY <1>1, <1>6, DivNat, DivBounds
<1> HIDE DEF leftover
<1>8. scaled \in Nat /\ scaled = reward * PRECISION + PRECISION * leftover
  BY <1>1, <1>7
<1> HIDE DEF scaled
<1>9. rate \in Nat /\ rewardsDuration * rate <= scaled
  BY <1>1, <1>8, DivNat, DivBounds
<1> HIDE DEF rate
<1>10. StreamAfter(n, n.lastUpdateTime) <= old + reward * PRECISION
  <2>1. n.periodFinish - n.lastUpdateTime = rewardsDuration
    BY <1>1, <1>3
  <2>2. StreamAfter(n, n.lastUpdateTime) = rewardsDuration * rate
    BY <1>3, <2>1 DEF StreamAfter
  <2>3. rewardsDuration * rate \in Nat /\ reward * PRECISION \in Nat
        /\ PRECISION * leftover \in Nat
    BY <1>1, <1>7, <1>9
  <2> QED  BY <1>6, <1>7, <1>8, <1>9, <2>2, <2>3
<1>11. Current(n)
  BY <1>1, <1>3 DEF Current
<1> QED  BY <1>2, <1>3, <1>4, <1>10, <1>11 DEF n

\* _updateReward, forwardReward and _notifyUnseenReward renew a listed token's
\* data, and notify no more than the contract holds.
LEMMA NoticedEffect ==
  ASSUME TypeOK, NEW t \in Listed, Streamed(t), UpToDate(t), NEW u \in Users, CanUpdateReward(u),
         NEW present, t # Prnt => present \in Nat /\ present >= rewardData[t].balance,
         NEW d, d = Updated(t) \/ d = Noticed(t, present)
  PROVE  \E reward : Renewed(t, d, reward) /\ (t # Prnt => present >= d.balance)
<1> DEFINE r == Updated(t)
           until == lastTimeRewardApplicable(t)
<1>1. t \in Tokens /\ rewardData[t] \in Reward /\ PRECISION \in Nat
  BY StreamTypes
<1>2. r = [rewardData[t] EXCEPT !.rewardPerTokenStored = rewardPerToken(t),
                                !.lastUpdateTime = until]
  BY DEF Updated
<1>3. r \in Reward
  BY <1>1, UpdatedType
<1>4. /\ r.rewardPerTokenStored = rewardPerToken(t) /\ r.lastUpdateTime = until
      /\ r.balance = rewardData[t].balance /\ r.balance \in Nat
      /\ r.periodFinish = rewardData[t].periodFinish
      /\ r.rewardPerSecond = rewardData[t].rewardPerSecond
      /\ r.periodFinish \in Nat /\ r.rewardPerSecond \in Nat /\ until \in Nat
  BY <1>1, <1>2 DEF Reward, UpToDate
<1>5. Current(r)
  BY <1>4 DEF Current, lastTimeRewardApplicable, Streamed
<1>6. /\ StreamAfter(r, r.lastUpdateTime) = StreamAfter(rewardData[t], until)
      /\ StreamAfter(r, r.lastUpdateTime) \in Int
  <2>1. StreamAfter(r, until) = (r.periodFinish - until) * r.rewardPerSecond
    BY DEF StreamAfter
  <2> DEFINE a == r.periodFinish - until
             b == r.rewardPerSecond
  <2>2. a \in Int /\ b \in Int
    BY <1>4
  <2> HIDE DEF a, b
  <2>3. a * b \in Int
    BY <2>2
  <2> QED  BY <1>4, <2>1, <2>3 DEF StreamAfter, a, b
<1> HIDE DEF r, until
<1>7. Renewed(t, r, 0)
  <2>1. r.balance = rewardData[t].balance + 0
    BY <1>4
  <2>2. StreamAfter(r, r.lastUpdateTime) <= StreamAfter(rewardData[t], until) + 0 * PRECISION
    BY <1>1, <1>6
  <2> QED  BY <1>3, <1>4, <1>5, <2>1, <2>2 DEF Renewed, until
<1>8. ASSUME NEW reward \in Nat PROVE Renewed(t, Notify(r, reward), reward)
  <2>1. /\ Notify(r, reward) \in Reward
        /\ Current(Notify(r, reward))
        /\ Notify(r, reward).rewardPerTokenStored = r.rewardPerTokenStored
        /\ Notify(r, reward).balance = r.balance + reward
        /\ StreamAfter(Notify(r, reward), Notify(r, reward).lastUpdateTime)
             <= StreamAfter(r, r.lastUpdateTime) + reward * PRECISION
    BY <1>3, <1>5, NotifyEffect
  <2> QED  BY <1>4, <1>6, <2>1 DEF Renewed, until
<1>9. CASE d = r
  BY <1>4, <1>7, <1>9
<1>10. CASE t = Prnt /\ d = Notify(r, Forwarded(t))
  <2>1. Forwarded(t) \in Nat
    BY <1>1, ForwardedNat DEF TypeOK
  <2> QED  BY <1>8, <1>10, <2>1
<1>11. CASE t # Prnt /\ present - r.balance > 0 /\ d = Notify(r, present - r.balance)
  <2>1. present - r.balance \in Nat
    BY <1>4, <1>11
  <2>2. Renewed(t, d, present - r.balance)
    BY <1>8, <1>11, <2>1
  <2>3. d.balance = r.balance + (present - r.balance)
    BY <1>4, <2>2 DEF Renewed
  <2>4. present >= d.balance
    BY <1>4, <1>11, <2>3
  <2> QED  BY <2>2, <2>4
<1>12. \/ d = r
       \/ t = Prnt /\ d = Notify(r, Forwarded(t))
       \/ t # Prnt /\ present - r.balance > 0 /\ d = Notify(r, present - r.balance)
  BY DEF Noticed, r
<1> QED  BY <1>9, <1>10, <1>11, <1>12

\* What a transaction of user u does to a listed token: its data is renewed, u's
\* earnings are stored or, if it is among the tokens to pay, paid out.
SettledToken(u, pay, t) ==
  \E d, reward, payout :
    /\ Renewed(t, d, reward)
    /\ payout \in Nat
    /\ payout * PRECISION <= Earned(u, t)
    /\ payout > 0 => t \in pay
    /\ rewardData'[t] = [d EXCEPT !.balance = @ - payout]
    /\ rewards'[u][t] = (IF payout > 0 THEN 0 ELSE Earned(u, t))
    /\ userRewardPerTokenPaid'[u][t] = rewardPerToken(t)
    /\ \A v \in Users \ {u} :
         /\ rewards'[v][t] = rewards[v][t]
         /\ userRewardPerTokenPaid'[v][t] = userRewardPerTokenPaid[v][t]
    /\ t # Prnt => held'[t] >= d.balance - payout

\* Settle does this to every listed token.
LEMMA SettleListed ==
  ASSUME TypeOK, NEW t \in Listed, Streamed(t), UpToDate(t), NEW u \in Users,
         NEW fwd, NEW pay, NEW out, Settle(u, fwd, pay, out)
  PROVE  SettledToken(u, pay, t)
<1> DEFINE present == held[t] + (IF t \in fwd THEN Forwarded(t) ELSE 0)
                              - (IF t = Prnt THEN out ELSE 0)
           data == IF t \in fwd THEN Noticed(t, present) ELSE Updated(t)
           due == IF t \in Listed THEN Earned(u, t) ELSE rewards[u][t]
           payout == IF t \in pay THEN due \div PRECISION ELSE 0
<1>1. /\ t \in Tokens /\ PRECISION \in Nat /\ PRECISION # 0 /\ held[t] \in Nat
      /\ rewardData[t].balance \in Nat
  BY StreamTypes
<1>2. /\ rewards \in [Users -> [Tokens -> Nat]]
      /\ userRewardPerTokenPaid \in [Users -> [Tokens -> Nat]]
  BY DEF TypeOK
<1>3. /\ CanUpdateReward(u)
      /\ rewardData'[t] = [data EXCEPT !.balance = @ - payout]
      /\ held'[t] = present - payout
  BY <1>1 DEF Settle
<1>4. /\ rewards' = [rewards EXCEPT ![u] = rewards'[u]]
      /\ rewards'[u][t] = IF payout > 0 THEN 0 ELSE due
      /\ userRewardPerTokenPaid' = [userRewardPerTokenPaid EXCEPT ![u] =
           [s \in Tokens |-> IF s \in Listed THEN rewardPerToken(s) ELSE @[s]]]
  BY <1>1, <1>2 DEF Settle
<1>5. /\ userRewardPerTokenPaid'[u][t] = rewardPerToken(t)
      /\ \A v \in Users \ {u} :
           /\ rewards'[v][t] = rewards[v][t]
           /\ userRewardPerTokenPaid'[v][t] = userRewardPerTokenPaid[v][t]
  BY <1>1, <1>2, <1>4
<1>6. due = Earned(u, t) /\ due \in Nat
  BY EarnedIsOwed
<1> HIDE DEF due
<1>7. /\ payout \in Nat /\ payout * PRECISION <= due /\ (payout > 0 => t \in pay)
  <2>1. CASE t \in pay
    <3>1. due \div PRECISION \in Nat /\ PRECISION * (due \div PRECISION) <= due
      BY <1>1, <1>6, DivNat, DivBounds
    <3> DEFINE q == due \div PRECISION
    <3> HIDE DEF q
    <3>2. q \in Nat /\ PRECISION * q <= due
      BY <3>1 DEF q
    <3>3. q * PRECISION <= due
      BY <1>1, <3>2
    <3> QED  BY <2>1, <3>2, <3>3 DEF q
  <2>2. CASE t \notin pay
    BY <1>1, <1>6, <2>2
  <2> QED  BY <2>1, <2>2
<1>8. t # Prnt => present \in Nat /\ present >= rewardData[t].balance
  <2>1. Forwarded(t) \in Nat
    BY <1>1, ForwardedNat DEF TypeOK
  <2>2. t # Prnt => held[t] >= rewardData[t].balance
    BY DEF Streamed
  <2> QED  BY <1>1, <2>1, <2>2
<1> HIDE DEF present, payout
<1>9. PICK reward : Renewed(t, data, reward) /\ (t # Prnt => present >= data.balance)
  <2>1. data = Updated(t) \/ data = Noticed(t, present)
    OBVIOUS
  <2> HIDE DEF data
  <2> QED  BY <1>3, <1>8, <2>1, NoticedEffect
<1>10. t # Prnt => held'[t] >= data.balance - payout
  <2>1. data.balance \in Nat
    BY <1>9 DEF Renewed, Reward
  <2> HIDE DEF data
  <2> QED  BY <1>3, <1>7, <1>8, <1>9, <2>1
<1> HIDE DEF data
<1> QED  BY <1>3, <1>4, <1>5, <1>6, <1>7, <1>9, <1>10 DEF SettledToken

\* It leaves a token that was never listed alone.
LEMMA SettleFresh ==
  ASSUME TypeOK, NEW t \in Tokens, t \notin Listed, t # Prnt, Fresh(t), NEW u \in Users,
         NEW fwd, NEW pay, NEW out, Settle(u, fwd, pay, out)
  PROVE  Fresh(t)'
<1> DEFINE payout == IF t \in pay THEN rewards[u][t] \div PRECISION ELSE 0
<1>1. /\ rewards \in [Users -> [Tokens -> Nat]]
      /\ userRewardPerTokenPaid \in [Users -> [Tokens -> Nat]]
      /\ PRECISION \in Nat /\ PRECISION # 0
  BY ConstantsAssumption DEF TypeOK
<1>2. /\ rewardData[t] = NoReward
      /\ \A v \in Users : userRewardPerTokenPaid[v][t] = 0 /\ rewards[v][t] = 0
  BY DEF Fresh
<1>3. t \notin fwd
  <2>1. \A s \in fwd \ {Prnt} : rewardData[s].periodFinish # 0
    BY Zenon DEF Settle
  <2>2. rewardData[t].periodFinish = 0
    BY <1>2 DEF NoReward
  <2> QED  BY <2>1, <2>2
<1>4. payout = 0
  BY <1>1, <1>2
<1>5. /\ rewardData'[t] = [Updated(t) EXCEPT !.balance = @ - payout]
      /\ rewards' = [rewards EXCEPT ![u] = rewards'[u]]
      /\ rewards'[u][t] = IF payout > 0 THEN 0 ELSE rewards[u][t]
      /\ userRewardPerTokenPaid' = [userRewardPerTokenPaid EXCEPT ![u] =
           [s \in Tokens |-> IF s \in Listed THEN rewardPerToken(s) ELSE @[s]]]
  BY <1>1, <1>3 DEF Settle
<1>6. rewardData'[t] = NoReward
  BY <1>2, <1>4, <1>5 DEF Updated, NoReward
<1>7. \A v \in Users : userRewardPerTokenPaid'[v][t] = 0 /\ rewards'[v][t] = 0
  BY <1>1, <1>2, <1>4, <1>5
<1> QED  BY <1>6, <1>7 DEF Fresh, NoReward

\* A settled token's debts fall by what is paid out at least.
LEMMA SettledDebts ==
  ASSUME TypeOK, TypeOK', NEW t \in Listed, UpToDate(t), NEW u \in Users, NEW payout \in Nat,
         rewardData'[t].rewardPerTokenStored = rewardPerToken(t),
         payout * PRECISION <= Earned(u, t),
         rewards'[u][t] = (IF payout > 0 THEN 0 ELSE Earned(u, t)),
         userRewardPerTokenPaid'[u][t] = rewardPerToken(t),
         \A v \in Users \ {u} :
           /\ rewards'[v][t] = rewards[v][t]
           /\ userRewardPerTokenPaid'[v][t] = userRewardPerTokenPaid[v][t]
           /\ bal'[v].lockedWithMultiplier = bal[v].lockedWithMultiplier
  PROVE  /\ DebtsStored(t)' \in Int
         /\ DebtsStored(t)' <= DebtsNow(t) - (payout * PRECISION) * RPT_PRECISION
<1> DEFINE x == rewardPerToken(t)
           f == [v \in Users |-> Accrued(rewards[v][t], bal[v].lockedWithMultiplier,
                                         userRewardPerTokenPaid[v][t], x)]
           g == [v \in Users |-> Accrued(rewards'[v][t], bal'[v].lockedWithMultiplier,
                                         userRewardPerTokenPaid'[v][t], x)]
           a == g[u] - f[u]
           paid == (payout * PRECISION) * RPT_PRECISION
<1>1. /\ t \in Tokens /\ RPT_PRECISION \in Nat /\ PRECISION \in Nat /\ x \in Nat
  BY StreamTypes DEF UpToDate
<1>2. \A v \in Users : f[v] \in Int
  BY EarnedIsOwed
<1>3. \A v \in Users \ {u} : g[v] = f[v]
  OBVIOUS
<1>4. /\ Earned(u, t) \in Nat /\ Earned(u, t) * RPT_PRECISION <= f[u]
  BY EarnedIsOwed
<1>5. g[u] = rewards'[u][t] * RPT_PRECISION
  <2> DEFINE w == bal'[u].lockedWithMultiplier
             k == rewards'[u][t]
  <2>1. w \in Nat /\ k \in Nat
    BY <1>1 DEF TypeOK, Balances
  <2>2. g[u] = k * RPT_PRECISION + w * (x - x)
    BY DEF Accrued
  <2> HIDE DEF w, k, x, g
  <2>3. w * (x - x) = 0 /\ k * RPT_PRECISION \in Int
    BY <1>1, <2>1
  <2> QED  BY <2>2, <2>3 DEF k
<1>6. DebtsNow(t) = Sum(f) /\ DebtsStored(t)' = Sum(g)
  BY DEF DebtsNow, DebtsStored
<1>7. \A v \in Users : g[v] \in Int
  <2>1. rewards'[u][t] \in Nat
    BY <1>1 DEF TypeOK
  <2>2. rewards'[u][t] * RPT_PRECISION \in Int
    BY <1>1, <2>1
  <2> HIDE DEF f, g
  <2> QED  BY <1>2, <1>3, <1>5, <2>2
<1>8. paid \in Nat /\ paid <= Earned(u, t) * RPT_PRECISION
  <2> DEFINE p == payout * PRECISION
             e == Earned(u, t)
  <2>1. p \in Nat /\ e \in Nat /\ p <= e
    BY <1>1, <1>4
  <2> HIDE DEF p, e
  <2>2. p * RPT_PRECISION \in Nat /\ p * RPT_PRECISION <= e * RPT_PRECISION
    BY <1>1, <2>1
  <2> QED  BY <2>2 DEF p, e
<1>9. g[u] <= f[u] - paid
  <2>1. CASE payout > 0
    <3>1. g[u] = 0
      BY <1>1, <1>5, <2>1
    <3> DEFINE er == Earned(u, t) * RPT_PRECISION
    <3>2. er \in Int /\ er <= f[u] /\ paid <= er
      BY <1>1, <1>4, <1>8
    <3> HIDE DEF f, g, paid, er
    <3> QED  BY <1>2, <1>8, <3>1, <3>2
  <2>2. CASE ~(payout > 0)
    <3>1. payout = 0
      BY <2>2
    <3>2. paid = 0
      BY <1>1, <3>1
    <3>3. g[u] <= f[u]
      BY <1>4, <1>5, <2>2
    <3> HIDE DEF f, g, paid
    <3> QED  BY <1>2, <1>7, <3>2, <3>3
  <2> QED  BY <2>1, <2>2
<1>10. f \in [Users -> Int] /\ g \in [Users -> Int]
  BY <1>2, <1>7
<1> HIDE DEF f, g, paid
<1>11. a \in Int /\ g[u] = f[u] + a
  BY <1>2, <1>7
<1>12. a <= 0 - paid
  BY <1>2, <1>7, <1>8, <1>9
<1> HIDE DEF a
<1>13. Sum(g) = Sum(f) + a /\ Sum(f) \in Int
  BY <1>3, <1>10, <1>11, SumOverUsersMoves
<1> QED  BY <1>6, <1>8, <1>11, <1>12, <1>13 DEF paid

\* A settled token is still streamed within its means.
LEMMA SettledStays ==
  ASSUME TypeOK, TypeOK', now >= 1, now' = now, NEW t \in Listed, Streamed(t), UpToDate(t),
         NEW u \in Users, NEW pay, SettledToken(u, pay, t),
         \A v \in Users \ {u} : bal'[v].lockedWithMultiplier = bal[v].lockedWithMultiplier
  PROVE  Streamed(t)'
<1>1. PICK d, reward, payout :
        /\ Renewed(t, d, reward)
        /\ payout \in Nat
        /\ payout * PRECISION <= Earned(u, t)
        /\ rewardData'[t] = [d EXCEPT !.balance = @ - payout]
        /\ rewards'[u][t] = (IF payout > 0 THEN 0 ELSE Earned(u, t))
        /\ userRewardPerTokenPaid'[u][t] = rewardPerToken(t)
        /\ \A v \in Users \ {u} :
             /\ rewards'[v][t] = rewards[v][t]
             /\ userRewardPerTokenPaid'[v][t] = userRewardPerTokenPaid[v][t]
        /\ t # Prnt => held'[t] >= d.balance - payout
  BY DEF SettledToken
<1>2. /\ d \in Reward /\ reward \in Nat /\ Current(d)
      /\ d.rewardPerTokenStored = rewardPerToken(t)
      /\ d.balance = rewardData[t].balance + reward
      /\ StreamAfter(d, d.lastUpdateTime)
           <= StreamAfter(rewardData[t], lastTimeRewardApplicable(t)) + reward * PRECISION
  BY <1>1 DEF Renewed
<1>3. /\ now \in Nat /\ PRECISION \in Nat /\ RPT_PRECISION \in Nat
      /\ rewardData[t].balance \in Nat
      /\ rewardData[t].periodFinish \in Nat /\ rewardData[t].rewardPerSecond \in Nat
      /\ d.periodFinish \in Nat /\ d.lastUpdateTime \in Nat /\ d.rewardPerSecond \in Nat
  BY <1>2, StreamTypes DEF Reward
<1>4. /\ rewardData'[t].periodFinish = d.periodFinish
      /\ rewardData'[t].lastUpdateTime = d.lastUpdateTime
      /\ rewardData'[t].rewardPerSecond = d.rewardPerSecond
      /\ rewardData'[t].rewardPerTokenStored = rewardPerToken(t)
      /\ rewardData'[t].balance = rewardData[t].balance + reward - payout
  <2>1. /\ [d EXCEPT !.balance = @ - payout].balance = d.balance - payout
        /\ [d EXCEPT !.balance = @ - payout].periodFinish = d.periodFinish
        /\ [d EXCEPT !.balance = @ - payout].lastUpdateTime = d.lastUpdateTime
        /\ [d EXCEPT !.balance = @ - payout].rewardPerSecond = d.rewardPerSecond
        /\ [d EXCEPT !.balance = @ - payout].rewardPerTokenStored = d.rewardPerTokenStored
    BY <1>2 DEF Reward
  <2>2. d.balance - payout = rewardData[t].balance + reward - payout
    BY <1>1, <1>2, <1>3
  <2> QED  BY <1>1, <1>2, <2>1, <2>2
<1>5. /\ d.lastUpdateTime <= now /\ d.lastUpdateTime <= d.periodFinish
      /\ d.lastUpdateTime = 0 => d.periodFinish = 0
      /\ d.periodFinish = 0 => d.rewardPerSecond = 0
  BY <1>2, <1>3 DEF Current
<1>6. \A v \in Users : userRewardPerTokenPaid'[v][t] <= rewardPerToken(t)
  <2>1. rewardPerToken(t) \in Nat /\ \A v \in Users : userRewardPerTokenPaid[v][t] <= rewardPerToken(t)
    BY DEF UpToDate
  <2> QED  BY <1>1, <2>1
<1>7. t # Prnt => held'[t] >= rewardData'[t].balance
  BY <1>1, <1>2, <1>4
<1>8. /\ DebtsStored(t)' \in Int
      /\ DebtsStored(t)' <= DebtsNow(t) - (payout * PRECISION) * RPT_PRECISION
  BY <1>1, <1>4, SettledDebts
<1>9. DebtsNow(t) \in Int
      /\ DebtsNow(t) + StreamAfter(rewardData[t], lastTimeRewardApplicable(t)) * RPT_PRECISION
           <= (rewardData[t].balance * PRECISION) * RPT_PRECISION
  BY DEF UpToDate, Covered
<1>10. DebtsStored(t)' + StreamAfter(d, d.lastUpdateTime) * RPT_PRECISION
         <= ((rewardData[t].balance + reward - payout) * PRECISION) * RPT_PRECISION
  <2> DEFINE sd == StreamAfter(d, d.lastUpdateTime)
             sr == StreamAfter(rewardData[t], lastTimeRewardApplicable(t))
             b == rewardData[t].balance
             R == RPT_PRECISION
             P == PRECISION
             D1 == DebtsStored(t)'
             D0 == DebtsNow(t)
  <2>1. lastTimeRewardApplicable(t) \in Nat
    BY DEF UpToDate
  <2>2. sd \in Int /\ sr \in Int
    <3> DEFINE l == lastTimeRewardApplicable(t)
    <3> HIDE DEF l
    <3>1. /\ sd = (d.periodFinish - d.lastUpdateTime) * d.rewardPerSecond
          /\ sr = (rewardData[t].periodFinish - l) * rewardData[t].rewardPerSecond
      BY DEF StreamAfter, l
    <3>2. \A i, j \in Int, k \in Int : (i - j) * k \in Int
      OBVIOUS
    <3>3. l \in Int
      BY <2>1 DEF l
    <3> HIDE DEF sd, sr
    <3> QED  BY <1>3, <3>1, <3>2, <3>3
  <2>3. /\ D1 \in Int /\ D0 \in Int /\ b \in Nat /\ R \in Nat /\ P \in Nat
        /\ reward \in Nat /\ payout \in Nat
        /\ D1 <= D0 - (payout * P) * R
        /\ D0 + sr * R <= (b * P) * R
        /\ sd <= sr + reward * P
    BY <1>1, <1>2, <1>3, <1>8, <1>9
  <2> HIDE DEF sd, sr, b, R, P, D1, D0
  <2> DEFINE rp == reward * P
             bp == b * P
             pp == payout * P
  <2>4. rp \in Int /\ bp \in Int /\ pp \in Int
    BY <2>3
  <2>5. (b + reward - payout) * P = bp + rp - pp
    BY <2>3
  <2>6. sd <= sr + rp /\ D1 <= D0 - pp * R /\ D0 + sr * R <= bp * R
    BY <2>3
  <2> HIDE DEF rp, bp, pp
  <2> DEFINE q1 == rp * R
             q2 == bp * R
             q3 == pp * R
             q4 == sd * R
             q5 == sr * R
  <2>7. q1 \in Int /\ q2 \in Int /\ q3 \in Int /\ q4 \in Int /\ q5 \in Int
    BY <2>2, <2>3, <2>4
  <2>8. (bp + rp - pp) * R = q2 + q1 - q3
    BY <2>3, <2>4
  <2>9. q4 <= q5 + q1
    <3> DEFINE s == sr + rp
    <3>1. s \in Int /\ sd <= s /\ s * R = q5 + q1
      BY <2>2, <2>3, <2>4, <2>6
    <3> HIDE DEF s, q1, q5
    <3>2. sd * R <= s * R
      BY <2>2, <2>3, <3>1
    <3> QED  BY <3>1, <3>2
  <2>10. D1 <= D0 - q3 /\ D0 + q5 <= q2
    BY <2>6
  <2> HIDE DEF q1, q2, q3, q4, q5
  <2>11. D1 + q4 <= q2 + q1 - q3
    BY <2>3, <2>7, <2>9, <2>10
  <2>12. D1 + q4 <= ((b + reward - payout) * P) * R
    BY <2>5, <2>8, <2>11
  <2> QED  BY <2>12 DEF q4, D1, sd, b, P, R
<1>11. Covered(rewardData'[t], DebtsStored(t)', rewardData'[t].lastUpdateTime)
  BY <1>4, <1>10 DEF Covered, StreamAfter
<1>12. Covered(rewardData[t], DebtsStored(t), rewardData[t].lastUpdateTime)'
  BY <1>11 DEF Covered, StreamAfter
<1> QED  BY <1>4, <1>5, <1>6, <1>7, <1>12 DEF Streamed

\* A token whose stream has been updated this instant: what it has stored per
\* token is what there is per token.
LEMMA NothingStreamed ==
  TypeOK => \A t \in Listed :
              rewardData[t].lastUpdateTime = lastTimeRewardApplicable(t)
                \/ rewardData[t].rewardPerSecond = 0
              => rewardPerToken(t) = rewardData[t].rewardPerTokenStored
<1> SUFFICES ASSUME TypeOK, NEW t \in Listed,
                    rewardData[t].lastUpdateTime = lastTimeRewardApplicable(t)
                      \/ rewardData[t].rewardPerSecond = 0
             PROVE  rewardPerToken(t) = rewardData[t].rewardPerTokenStored
  OBVIOUS
<1> DEFINE S == lockedSupplyWithMultiplier
           gap == lastTimeRewardApplicable(t) - rewardData[t].lastUpdateTime
           rate == rewardData[t].rewardPerSecond
           y == rewardData[t].rewardPerTokenStored
<1>1. S \in Nat /\ y \in Nat /\ RPT_PRECISION \in Nat /\ gap \in Int /\ rate \in Nat
      /\ (gap = 0 \/ rate = 0)
  BY StreamTypes DEF lastTimeRewardApplicable
<1>2. rewardPerToken(t) = IF S > 0 THEN y + ((gap * rate) * RPT_PRECISION) \div S ELSE y
  BY DEF rewardPerToken
<1> HIDE DEF S, gap, rate, y
<1>3. gap * rate = 0
  BY <1>1
<1>4. (gap * rate) * RPT_PRECISION = 0
  BY <1>1, <1>3
<1>5. S > 0 => 0 \div S = 0
  BY <1>1
<1>6. rewardPerToken(t) = IF S > 0 THEN y + 0 \div S ELSE y
  BY <1>2, <1>4, Zenon
<1>7. rewardPerToken(t) = y
  BY <1>1, <1>5, <1>6
<1> QED  BY <1>7 DEF y

\* The same after a step.
LEMMA NothingStreamedNext ==
  TypeOK' => \A t \in Listed' :
               rewardData'[t].lastUpdateTime = lastTimeRewardApplicable(t)'
                 \/ rewardData'[t].rewardPerSecond = 0
               => rewardPerToken(t)' = rewardData'[t].rewardPerTokenStored
<1>1. (TypeOK => \A t \in Listed :
                   rewardData[t].lastUpdateTime = lastTimeRewardApplicable(t)
                     \/ rewardData[t].rewardPerSecond = 0
                   => rewardPerToken(t) = rewardData[t].rewardPerTokenStored)'
  BY NothingStreamed, PTL
<1> QED  BY <1>1

\* What users have earned of a token a transaction of u settled: the others what
\* they had, and u too, unless it was paid.
LEMMA SettledEarned ==
  ASSUME TypeOK, TypeOK', now' = now, NEW t \in Listed, t \in Listed', UpToDate(t),
         NEW u \in Users, NEW pay, SettledToken(u, pay, t),
         \A v \in Users \ {u} : bal'[v].lockedWithMultiplier = bal[v].lockedWithMultiplier
  PROVE  /\ \A v \in Users \ {u} : Earned(v, t)' = Earned(v, t)
         /\ Earned(u, t)' = Earned(u, t) \/ (t \in pay /\ Earned(u, t)' = 0)
<1>1. PICK d, reward, payout :
        /\ Renewed(t, d, reward)
        /\ payout > 0 => t \in pay
        /\ rewardData'[t] = [d EXCEPT !.balance = @ - payout]
        /\ rewards'[u][t] = (IF payout > 0 THEN 0 ELSE Earned(u, t))
        /\ userRewardPerTokenPaid'[u][t] = rewardPerToken(t)
        /\ \A v \in Users \ {u} :
             /\ rewards'[v][t] = rewards[v][t]
             /\ userRewardPerTokenPaid'[v][t] = userRewardPerTokenPaid[v][t]
  BY DEF SettledToken
<1>2. /\ d \in Reward /\ Current(d) /\ d.rewardPerTokenStored = rewardPerToken(t)
  BY <1>1 DEF Renewed
<1>3. /\ rewardData'[t].periodFinish = d.periodFinish
      /\ rewardData'[t].lastUpdateTime = d.lastUpdateTime
      /\ rewardData'[t].rewardPerTokenStored = rewardPerToken(t)
  BY <1>1, <1>2 DEF Reward
<1>4. rewardPerToken(t)' = rewardPerToken(t)
  <2>1. rewardData'[t].lastUpdateTime = lastTimeRewardApplicable(t)'
    BY <1>2, <1>3 DEF Current, lastTimeRewardApplicable
  <2> QED  BY <1>3, <2>1, NothingStreamedNext
<1>5. \A v \in Users \ {u} : Earned(v, t)' = Earned(v, t)
  BY <1>1, <1>4 DEF Earned
<1>6. Earned(u, t)' = rewards'[u][t]
  <2> DEFINE w == bal'[u].lockedWithMultiplier
             x == rewardPerToken(t)
             k == rewards'[u][t]
  <2>1. t \in Tokens /\ x \in Nat /\ RPT_PRECISION \in Nat /\ RPT_PRECISION # 0
    BY StreamTypes DEF UpToDate
  <2>2. w \in Nat /\ k \in Nat
    BY <2>1 DEF TypeOK, Balances
  <2>3. Earned(u, t)' = k + (w * (x - x)) \div RPT_PRECISION
    BY <1>1, <1>4 DEF Earned
  <2> HIDE DEF w, x, k
  <2>4. w * (x - x) = 0 /\ 0 \div RPT_PRECISION = 0
    BY <2>1, <2>2
  <2> QED  BY <2>2, <2>3, <2>4 DEF k
<1> QED  BY <1>1, <1>5, <1>6

-----------------------------------------------------------------------------
(* The steps *)

\* A transaction of u settles rewards and moves nobody else's weight.
SettledBy(u) ==
  /\ \E fwd, pay, out : Settle(u, fwd, pay, out) /\ (pay = {} \/ Claims(u))
  /\ \A v \in Users \ {u} : bal'[v].lockedWithMultiplier = bal[v].lockedWithMultiplier
  /\ UNCHANGED <<now, rewardTokens>>

\* No stream and no weight changes; the contract loses no reward token but PRNT.
RewardsKept ==
  /\ UNCHANGED <<rewardTokens, rewardVars, lockedSupplyWithMultiplier>>
  /\ \A v \in Users : bal'[v].lockedWithMultiplier = bal[v].lockedWithMultiplier
  /\ \A t \in Tokens \ {Prnt} : held'[t] >= held[t]
  /\ now' >= now

\* The transactions that settle rewards.
LEMMA SettlingSteps ==
  ASSUME Inv, NEW u \in Users
  PROVE  /\ \A a \in StakeAmounts, i \in 0..Len(lockTypes) : Stake(u, a, i) => SettledBy(u)
         /\ \A c, r, l : l \in Nat /\ WithdrawExpiredLocksFor(c, u, r, l) => SettledBy(u)
         /\ \A a : Withdraw(u, a) => SettledBy(u)
         /\ \A c \in BOOLEAN : \A i \in 1..Len(userEarnings[u]) :
              IndividualEarlyExit(u, userEarnings[u][i].unlockTime, c) => SettledBy(u)
         /\ \A c \in BOOLEAN : Exit(u, c) => SettledBy(u)
         /\ ZapVestingToLp(u) => SettledBy(u)
         /\ \A ts \in SUBSET Tokens : GetReward(u, ts) => SettledBy(u)
         /\ ClaimFromConverter(u) => SettledBy(u)
<1>1. ASSUME NEW a \in StakeAmounts, NEW i \in 0..Len(lockTypes), Stake(u, a, i)
      PROVE  SettledBy(u)
  <2>1. Settle(u, {}, {}, 0) /\ UNCHANGED <<now, rewardTokens>>
    BY <1>1 DEF Stake, UpdateReward
  <2>2. \A v \in Users \ {u} : bal'[v].lockedWithMultiplier = bal[v].lockedWithMultiplier
    BY <1>1, StakeMoves DEF LocksMoved
  <2> QED  BY <2>1, <2>2 DEF SettledBy
<1>2. ASSUME NEW c, NEW r, NEW l \in Nat, WithdrawExpiredLocksFor(c, u, r, l)
      PROVE  SettledBy(u)
  <2>1. Settle(u, {}, {}, 0) /\ UNCHANGED <<now, rewardTokens>>
    BY <1>2 DEF WithdrawExpiredLocksFor, UpdateReward
  <2>2. \A v \in Users \ {u} : bal'[v].lockedWithMultiplier = bal[v].lockedWithMultiplier
    BY <1>2, WithdrawMoves DEF LocksMoved
  <2> QED  BY <2>1, <2>2 DEF SettledBy
<1>3. ASSUME LocksKept
      PROVE  \A v \in Users \ {u} : bal'[v].lockedWithMultiplier = bal[v].lockedWithMultiplier
  BY <1>3 DEF LocksKept
<1>4. ASSUME NEW a, Withdraw(u, a) PROVE SettledBy(u)
  <2>1. (\E out : Settle(u, {}, {}, out)) /\ UNCHANGED <<now, rewardTokens>>
    BY <1>4 DEF Withdraw
  <2> QED  BY <1>3, <1>4, <2>1, KeptSteps DEF SettledBy
<1>5. ASSUME NEW c \in BOOLEAN, NEW i \in 1..Len(userEarnings[u]),
             IndividualEarlyExit(u, userEarnings[u][i].unlockTime, c)
      PROVE  SettledBy(u)
  <2>1. (\E out : Settle(u, ClaimSet(c), ClaimSet(c), out)) /\ UNCHANGED <<now, rewardTokens>>
    BY <1>5 DEF IndividualEarlyExit
  <2>2. ClaimSet(c) = {} \/ Claims(u)
    BY <1>5 DEF ClaimSet, Claims
  <2> QED  BY <1>3, <1>5, <2>1, <2>2, KeptSteps DEF SettledBy
<1>6. ASSUME NEW c \in BOOLEAN, Exit(u, c) PROVE SettledBy(u)
  <2>1. (\E out : Settle(u, ClaimSet(c), ClaimSet(c), out)) /\ UNCHANGED <<now, rewardTokens>>
    BY <1>6 DEF Exit
  <2>2. ClaimSet(c) = {} \/ Claims(u)
    BY <1>6 DEF ClaimSet, Claims
  <2> QED  BY <1>3, <1>6, <2>1, <2>2, KeptSteps DEF SettledBy
<1>7. ASSUME ZapVestingToLp(u) PROVE SettledBy(u)
  <2>1. (\E out : Settle(u, {}, {}, out)) /\ UNCHANGED <<now, rewardTokens>>
    BY <1>7 DEF ZapVestingToLp
  <2> QED  BY <1>3, <1>7, <2>1, KeptSteps DEF SettledBy
<1>8. ASSUME NEW ts \in SUBSET Tokens, GetReward(u, ts) PROVE SettledBy(u)
  <2>1. Claims(u)
    BY <1>8 DEF Claims
  <2> QED  BY <1>8, <2>1 DEF GetReward, SettledBy, balanceVars
<1>9. ASSUME ClaimFromConverter(u) PROVE SettledBy(u)
  <2>1. Claims(u)
    BY <1>9 DEF Claims
  <2> QED  BY <1>9, <2>1 DEF ClaimFromConverter, SettledBy, balanceVars
<1> QED  BY <1>1, <1>2, <1>4, <1>5, <1>6, <1>7, <1>8, <1>9

\* The steps that touch no stream.
LEMMA KeepingSteps ==
  ASSUME Inv
  PROVE  /\ Tick => RewardsKept
         /\ \A u \in Users, a \in VestAmounts, p \in BOOLEAN : VestTokens(u, a, p) => RewardsKept
         /\ \A t \in Tokens, a \in FeeAmounts : FeesArrive(t, a) => RewardsKept
         /\ unchangedButConfig => RewardsKept
         /\ UNCHANGED vars => RewardsKept
<1>1. now \in Nat /\ held \in [Tokens -> Nat]
  BY DEF Inv, TypeOK
<1>2. ASSUME UNCHANGED <<balanceVars, lockedSupplyWithMultiplier, rewardTokens, rewardVars>>,
             \A t \in Tokens \ {Prnt} : held'[t] >= held[t], now' >= now
      PROVE  RewardsKept
  BY <1>2 DEF RewardsKept, balanceVars
<1>3. ASSUME held' = held PROVE \A t \in Tokens \ {Prnt} : held'[t] >= held[t]
  BY <1>1, <1>3
<1>4. ASSUME Tick PROVE RewardsKept
  <2>1. /\ UNCHANGED <<balanceVars, supplyVars, rewardTokens, rewardVars, tokenVars>>
        /\ now' = now + 1
    BY <1>4 DEF Tick
  <2> QED  BY <1>1, <1>2, <1>3, <2>1 DEF supplyVars, tokenVars
<1>5. ASSUME NEW u \in Users, NEW a \in VestAmounts, NEW p \in BOOLEAN, VestTokens(u, a, p)
      PROVE  RewardsKept
  <2>1. /\ UNCHANGED <<now, supplyVars, rewardTokens, rewardVars>>
        /\ held' = [held EXCEPT ![Prnt] = @ + a]
    BY <1>5 DEF VestTokens
  <2>2. \A v \in Users : bal'[v].lockedWithMultiplier = bal[v].lockedWithMultiplier
    BY <1>5, KeptSteps DEF LocksKept
  <2> QED  BY <1>1, <2>1, <2>2 DEF RewardsKept, supplyVars
<1>6. ASSUME NEW t \in Tokens, NEW a \in FeeAmounts, FeesArrive(t, a) PROVE RewardsKept
  <2>1. /\ UNCHANGED <<now, balanceVars, supplyVars, rewardTokens, rewardVars>>
        /\ held' = held \/ held' = [held EXCEPT ![t] = @ + a]
    BY <1>6 DEF FeesArrive
  <2>2. \A s \in Tokens \ {Prnt} : held'[s] >= held[s]
    BY <1>1, <2>1, ConstantsAssumption
  <2> QED  BY <1>1, <1>2, <2>1, <2>2 DEF supplyVars
<1>7. ASSUME unchangedButConfig \/ UNCHANGED vars PROVE RewardsKept
  <2>1. UNCHANGED <<now, balanceVars, supplyVars, rewardTokens, rewardVars, tokenVars>>
    BY <1>7 DEF unchangedButConfig, vars
  <2> QED  BY <1>1, <1>2, <1>3, <2>1 DEF supplyVars, tokenVars
<1> QED  BY <1>4, <1>5, <1>6, <1>7

\* Every step settles one user's rewards, touches no stream, or changes the list.
LEMMA RewardSteps ==
  ASSUME Inv, [Next]_vars
  PROVE  \/ \E u \in Users : SettledBy(u)
         \/ RewardsKept
         \/ \E t \in Tokens : AddReward(t) \/ RemoveReward(t)
<1>1. CASE \/ \E u \in Users, a \in StakeAmounts, i \in 0..Len(lockTypes) : Stake(u, a, i)
           \/ \E u \in Users, a \in WithdrawAmounts : Withdraw(u, a)
           \/ \E u \in Users, c \in BOOLEAN :
                \E i \in 1..Len(userEarnings[u]) :
                  IndividualEarlyExit(u, userEarnings[u][i].unlockTime, c)
           \/ \E u \in Users, c \in BOOLEAN : Exit(u, c)
           \/ \E u \in Users : ZapVestingToLp(u)
           \/ \E u \in Users, ts \in SUBSET Tokens : GetReward(u, ts)
           \/ \E u \in Users : ClaimFromConverter(u)
  BY <1>1, SettlingSteps
<1>2. CASE \/ \E u \in Users, l \in Limits, r \in BOOLEAN :
                \E c \in {u, LockZap, Stranger} : WithdrawExpiredLocks(c, u, l, r)
           \/ \E u \in Users : Relock(u)
           \/ \E u \in Users : ClaimBounty(u)
  <2>1. \E u \in Users : \E c, r, l : l \in Nat /\ WithdrawExpiredLocksFor(c, u, r, l)
    <3>1. CASE \E u \in Users, l \in Limits, r \in BOOLEAN :
                 \E c \in {u, LockZap, Stranger} : WithdrawExpiredLocks(c, u, l, r)
      <4>1. PICK u \in Users, l \in Limits, r \in BOOLEAN :
              \E c \in {u, LockZap, Stranger} : WithdrawExpiredLocks(c, u, l, r)
        BY <3>1
      <4>2. PICK c \in {u, LockZap, Stranger} : WithdrawExpiredLocks(c, u, l, r)
        BY <4>1
      <4> DEFINE limit == IF l = 0 THEN Len(userLocks[u]) ELSE l
      <4>3. limit \in Nat
        BY LimitsAreNat
      <4>4. WithdrawExpiredLocksFor(c, u, r, limit)
        BY <4>2 DEF WithdrawExpiredLocks
      <4> HIDE DEF limit
      <4> QED  BY <4>3, <4>4
    <3>2. CASE \E u \in Users : Relock(u) \/ ClaimBounty(u)
      BY <3>2, LimitsAreNat DEF Relock, ClaimBounty
    <3> QED  BY <1>2, <3>1, <3>2
  <2> QED  BY <2>1, SettlingSteps
<1>3. CASE \/ Tick
           \/ \E u \in Users, a \in VestAmounts, p \in BOOLEAN : VestTokens(u, a, p)
           \/ \E t \in Tokens, a \in FeeAmounts : FeesArrive(t, a)
           \/ UNCHANGED vars
  BY <1>3, KeepingSteps
<1>4. CASE \/ \E u \in ConfigUsers, s \in BOOLEAN : SetRelock(u, s)
           \/ \E u \in ConfigUsers, i \in 0..(Len(lockTypes) - 1) :
                SetDefaultRelockTypeIndex(u, i)
           \/ \E info \in LockTypeInfos : SetLockTypeInfo(info)
           \/ \E l \in Lookbacks : SetLookback(l)
           \/ \E s \in PauseStatuses : SetPaused(s)
  <2>1. unchangedButConfig
    BY <1>4 DEF SetRelock, SetDefaultRelockTypeIndex, SetLockTypeInfo, SetLookback, SetPaused
  <2> QED  BY <2>1, KeepingSteps
<1>5. CASE \E t \in Tokens : AddReward(t) \/ RemoveReward(t)
  BY <1>5
<1> QED  BY <1>1, <1>2, <1>3, <1>4, <1>5 DEF Next

-----------------------------------------------------------------------------
(* The invariant is inductive *)

\* What the invariant says of every listed token, brought up to date.
LEMMA InvUpToDate ==
  ASSUME RewardInv
  PROVE  /\ TypeOK /\ now >= 1
         /\ \A t \in Listed : Streamed(t) /\ UpToDate(t) /\ t \in Tokens
BY StreamedUpToDate, ListedTokens DEF RewardInv, LockInv, Inv, StreamInv, TypeOK

\* A token that was never listed is not PRNT.
LEMMA FreshIsNotPrnt ==
  ASSUME NoRelisting, ListInv
  PROVE  Prnt \notin AddableRewards \ Listed
BY DEF NoRelisting, ListInv

\* A transaction that settles rewards keeps the invariant.
LEMMA SettledKeeps ==
  ASSUME NoRelisting, RewardInv, TypeOK', NEW u \in Users, SettledBy(u)
  PROVE  ListInv' /\ StreamInv'
<1>1. PICK fwd, pay, out : Settle(u, fwd, pay, out)
  BY DEF SettledBy
<1>2. /\ \A v \in Users \ {u} : bal'[v].lockedWithMultiplier = bal[v].lockedWithMultiplier
      /\ now' = now /\ rewardTokens' = rewardTokens /\ Listed' = Listed
  BY DEF SettledBy, Listed
<1>3. ASSUME NEW t \in Listed PROVE Streamed(t)'
  <2>1. SettledToken(u, pay, t)
    BY <1>1, InvUpToDate, SettleListed
  <2> QED  BY <1>2, <2>1, InvUpToDate, SettledStays
<1>4. ASSUME NEW t \in AddableRewards \ Listed PROVE Fresh(t)'
  <2>1. t \in Tokens /\ t # Prnt /\ Fresh(t)
    BY FreshIsNotPrnt, ConstantsAssumption DEF RewardInv, StreamInv
  <2> QED  BY <1>1, <2>1, InvUpToDate, SettleFresh
<1>5. StreamInv'
  BY <1>2, <1>3, <1>4, InvUpToDate DEF StreamInv
<1>6. ListInv'
  BY <1>2 DEF RewardInv, ListInv
<1> QED  BY <1>5, <1>6

\* A listed token whose data, debts and holding a step leaves alone, or adds to.
LEMMA StreamedStays ==
  ASSUME TypeOK, NEW t \in Listed, Streamed(t), now' \in Nat, now' >= now,
         rewardData'[t] = rewardData[t], rewards' = rewards,
         userRewardPerTokenPaid' = userRewardPerTokenPaid,
         \A v \in Users : bal'[v].lockedWithMultiplier = bal[v].lockedWithMultiplier,
         lockedSupplyWithMultiplier' = lockedSupplyWithMultiplier,
         t # Prnt => held'[t] \in Nat /\ held'[t] >= held[t]
  PROVE  Streamed(t)'
<1>1. /\ now \in Nat /\ rewardData[t].lastUpdateTime \in Nat
      /\ rewardData[t].balance \in Nat /\ held[t] \in Nat
  BY StreamTypes
<1>2. DebtsStored(t)' = DebtsStored(t)
  BY DEF DebtsStored
<1>3. Covered(rewardData[t], DebtsStored(t), rewardData[t].lastUpdateTime)'
  BY <1>2 DEF Streamed, Covered, StreamAfter
<1>4. t # Prnt => held'[t] >= rewardData[t].balance
  BY <1>1 DEF Streamed
<1>5. rewardData[t].lastUpdateTime <= now'
  BY <1>1 DEF Streamed
<1> QED  BY <1>3, <1>4, <1>5 DEF Streamed

\* A step that touches no stream keeps the invariant.
LEMMA KeptKeeps ==
  ASSUME RewardInv, TypeOK', RewardsKept
  PROVE  ListInv' /\ StreamInv'
<1>1. /\ rewardTokens' = rewardTokens /\ Listed' = Listed /\ rewardData' = rewardData
      /\ rewards' = rewards /\ userRewardPerTokenPaid' = userRewardPerTokenPaid
      /\ lockedSupplyWithMultiplier' = lockedSupplyWithMultiplier
      /\ \A v \in Users : bal'[v].lockedWithMultiplier = bal[v].lockedWithMultiplier
      /\ \A t \in Tokens \ {Prnt} : held'[t] >= held[t]
      /\ now' >= now
  BY DEF RewardsKept, Listed, rewardVars
<1>2. now \in Nat /\ now' \in Nat /\ held' \in [Tokens -> Nat] /\ now >= 1
  BY InvUpToDate DEF TypeOK
<1>3. ASSUME NEW t \in Listed PROVE Streamed(t)'
  BY <1>1, <1>2, InvUpToDate, StreamedStays
<1>4. \A t \in AddableRewards \ Listed : Fresh(t)'
  BY <1>1 DEF RewardInv, StreamInv, Fresh
<1>5. StreamInv'
  BY <1>1, <1>2, <1>3, <1>4 DEF StreamInv
<1>6. ListInv'
  BY <1>1 DEF RewardInv, ListInv
<1> QED  BY <1>5, <1>6

\* The first stream of a token owes nothing yet.
LEMMA AddedIsStreamed ==
  ASSUME NoRelisting, RewardInv, NEW t \in Tokens, AddReward(t)
  PROVE  Streamed(t)'
<1>1. /\ t \in AddableRewards /\ rewardData[t].lastUpdateTime = 0
      /\ rewardData' = [rewardData EXCEPT ![t].lastUpdateTime = now, ![t].periodFinish = now]
      /\ now' = now /\ bal' = bal /\ rewards' = rewards
      /\ userRewardPerTokenPaid' = userRewardPerTokenPaid /\ held' = held
      /\ lockedSupplyWithMultiplier' = lockedSupplyWithMultiplier
  BY DEF AddReward, balanceVars, supplyVars, tokenVars
<1>2. /\ TypeOK /\ now \in Nat /\ now >= 1 /\ rewardData \in [Tokens -> Reward]
      /\ rewardData[t] \in Reward
      /\ PRECISION \in Nat /\ RPT_PRECISION \in Nat /\ held[t] \in Nat
  BY InvUpToDate, ConstantsAssumption DEF TypeOK
<1> DEFINE r == rewardData[t]
           n == [r EXCEPT !.lastUpdateTime = now, !.periodFinish = now]
<1>3. rewardData'[t] = n
  BY <1>1, <1>2 DEF Reward
<1>4. /\ n.lastUpdateTime = now /\ n.periodFinish = now
      /\ n.rewardPerSecond = r.rewardPerSecond /\ n.balance = r.balance
      /\ n.rewardPerTokenStored = r.rewardPerTokenStored
      /\ r.rewardPerSecond \in Nat /\ r.balance \in Nat /\ r.rewardPerTokenStored \in Nat
  BY <1>2 DEF Reward
<1> HIDE DEF n
<1>5. DebtsStored(t)' = DebtsStored(t)
  <2>1. rewardData'[t].rewardPerTokenStored = rewardData[t].rewardPerTokenStored
    BY <1>3, <1>4
  <2>2. /\ bal' = bal /\ rewards' = rewards
        /\ userRewardPerTokenPaid' = userRewardPerTokenPaid
    BY <1>1
  <2>3. [u \in Users |-> Accrued(rewards'[u][t], bal'[u].lockedWithMultiplier,
                                 userRewardPerTokenPaid'[u][t],
                                 rewardData'[t].rewardPerTokenStored)]
          = [u \in Users |-> Accrued(rewards[u][t], bal[u].lockedWithMultiplier,
                                     userRewardPerTokenPaid[u][t],
                                     rewardData[t].rewardPerTokenStored)]
    BY <2>1, <2>2
  <2> QED  BY <2>3 DEF DebtsStored, Accrued
<1>6. /\ \A v \in Users : userRewardPerTokenPaid[v][t] <= r.rewardPerTokenStored
      /\ t # Prnt => held[t] >= r.balance
      /\ DebtsStored(t) \in Int
      /\ DebtsStored(t) <= (r.balance * PRECISION) * RPT_PRECISION
  <2>1. CASE t \in Listed
    <3>1. Streamed(t) /\ r.periodFinish = 0 /\ r.rewardPerSecond = 0
      BY <1>1, <2>1, InvUpToDate DEF Streamed
    <3>2. DebtsStored(t) \in Int
      <4>1. rewardPerToken(t) \in Int
        BY <2>1, InvUpToDate DEF UpToDate
      <4> QED  BY <1>2, <2>1, <4>1, DebtsGrow DEF RewardInv, LockInv
    <3>3. DebtsStored(t) + ((0 - 0) * 0) * RPT_PRECISION <= (r.balance * PRECISION) * RPT_PRECISION
      BY <1>1, <3>1 DEF Streamed, Covered, StreamAfter
    <3>4. DebtsStored(t) <= (r.balance * PRECISION) * RPT_PRECISION
      <4> DEFINE b == (r.balance * PRECISION) * RPT_PRECISION
      <4> HIDE DEF b
      <4>1. DebtsStored(t) + ((0 - 0) * 0) * RPT_PRECISION <= b
        BY <3>3 DEF b
      <4>2. DebtsStored(t) <= b
        BY <1>2, <3>2, <4>1
      <4> QED  BY <4>2 DEF b
    <3> QED  BY <3>1, <3>2, <3>4 DEF Streamed
  <2>2. CASE t \notin Listed
    <3>1. /\ r = NoReward
          /\ \A v \in Users : userRewardPerTokenPaid[v][t] = 0 /\ rewards[v][t] = 0
      BY <1>1, <2>2 DEF RewardInv, StreamInv, Fresh
    <3>2. r.rewardPerTokenStored = 0 /\ r.balance = 0
      BY <3>1 DEF NoReward
    <3>3. DebtsStored(t) = 0
      <4> DEFINE f == [v \in Users |-> Accrued(rewards[v][t], bal[v].lockedWithMultiplier,
                                               userRewardPerTokenPaid[v][t],
                                               r.rewardPerTokenStored)]
      <4>1. \A v \in Users : bal[v].lockedWithMultiplier \in Nat
        BY <1>2 DEF TypeOK, Balances
      <4>2. \A v \in Users : f[v] = 0
        BY <1>2, <3>1, <3>2, <4>1 DEF Accrued
      <4>3. f = [v \in Users |-> 0]
        BY <4>2
      <4> HIDE DEF f
      <4>4. Sum(f) = 0
        BY <4>3, SumOverUsersZero
      <4> QED  BY <4>4 DEF DebtsStored, f
    <3> QED  BY <1>2, <3>1, <3>2, <3>3
  <2> QED  BY <2>1, <2>2
<1>7. DebtsStored(t)' + ((now - now) * r.rewardPerSecond) * RPT_PRECISION
        <= (r.balance * PRECISION) * RPT_PRECISION
  <2> DEFINE b == (r.balance * PRECISION) * RPT_PRECISION
             k == r.rewardPerSecond
  <2>1. DebtsStored(t)' \in Int /\ DebtsStored(t)' <= b /\ k \in Nat
    BY <1>4, <1>5, <1>6
  <2> HIDE DEF b, k
  <2>2. ((now - now) * k) * RPT_PRECISION = 0
    BY <1>2, <2>1
  <2>3. DebtsStored(t)' + ((now - now) * k) * RPT_PRECISION <= b
    BY <2>1, <2>2
  <2> QED  BY <2>3 DEF b, k
<1> HIDE DEF r
<1>8. Covered(rewardData[t], DebtsStored(t), rewardData[t].lastUpdateTime)'
  BY <1>3, <1>4, <1>7 DEF Covered, StreamAfter
<1>9. /\ rewardData'[t].lastUpdateTime = now /\ rewardData'[t].periodFinish = now
      /\ \A v \in Users : userRewardPerTokenPaid[v][t] <= rewardData'[t].rewardPerTokenStored
      /\ t # Prnt => held[t] >= rewardData'[t].balance
  BY <1>3, <1>4, <1>6
<1>10. now <= now /\ now # 0
  BY <1>2
<1> QED  BY <1>1, <1>8, <1>9, <1>10 DEF Streamed

\* addReward() keeps the invariant.
LEMMA AddRewardKeeps ==
  ASSUME NoRelisting, RewardInv, TypeOK', NEW t \in Tokens, AddReward(t)
  PROVE  ListInv' /\ StreamInv'
<1> DEFINE n == Len(rewardTokens)
<1>1. /\ t \in AddableRewards
      /\ rewardTokens' = Append(rewardTokens, t)
      /\ rewardData' = [rewardData EXCEPT ![t].lastUpdateTime = now, ![t].periodFinish = now]
      /\ now' = now /\ bal' = bal /\ rewards' = rewards
      /\ userRewardPerTokenPaid' = userRewardPerTokenPaid /\ held' = held
      /\ lockedSupplyWithMultiplier' = lockedSupplyWithMultiplier
  BY DEF AddReward, balanceVars, supplyVars, tokenVars
<1>2. /\ TypeOK /\ now \in Nat /\ now >= 1 /\ rewardData \in [Tokens -> Reward]
      /\ rewardTokens \in Seq(Tokens) /\ held \in [Tokens -> Nat]
  BY InvUpToDate DEF TypeOK
<1>3. /\ n \in Nat /\ Len(rewardTokens') = n + 1
      /\ \A i \in 1..n : rewardTokens'[i] = rewardTokens[i]
      /\ rewardTokens'[n + 1] = t
  BY <1>1, <1>2, AppendProperties, LenProperties
<1> HIDE DEF n
<1>4. Listed' = Listed \cup {t}
  <2>1. /\ \A s \in Listed : s \in Listed'
        /\ t \in Listed'
        /\ \A s \in Listed' : s \in Listed \cup {t}
    BY <1>3 DEF Listed, n
  <2> QED  BY <2>1
<1>5. ASSUME NEW s \in Listed', s # t PROVE Streamed(s)'
  <2>1. s \in Listed /\ Streamed(s) /\ s \in Tokens
    BY <1>4, <1>5, InvUpToDate
  <2>2. rewardData'[s] = rewardData[s] /\ (s # Prnt => held'[s] \in Nat /\ held'[s] >= held[s])
    BY <1>1, <1>2, <1>5, <2>1
  <2> QED  BY <1>1, <1>2, <2>1, <2>2, StreamedStays
<1>6. Streamed(t)'
  BY AddedIsStreamed
<1>7. ASSUME NEW s \in AddableRewards \ Listed' PROVE Fresh(s)'
  <2>1. s \in Tokens /\ s # t /\ Fresh(s)
    BY <1>4, ConstantsAssumption DEF RewardInv, StreamInv
  <2>2. rewardData'[s] = rewardData[s]
    BY <1>1, <1>2, <2>1
  <2> QED  BY <1>1, <2>1, <2>2 DEF Fresh
<1>8. StreamInv'
  BY <1>1, <1>2, <1>5, <1>6, <1>7 DEF StreamInv
<1>9. ListInv'
  <2>1. Listed' \subseteq AddableRewards \cup {Prnt}
    BY <1>1, <1>4 DEF RewardInv, ListInv
  <2>2. Prnt \notin RemovableRewards => Prnt \in Listed'
    BY <1>4 DEF RewardInv, ListInv
  <2>3. ASSUME Prnt \in RemovableRewards,
               NEW i \in 1..Len(rewardTokens'), NEW j \in 1..Len(rewardTokens'),
               rewardTokens'[i] = Prnt, rewardTokens'[j] = Prnt
        PROVE  i = j
    <3>1. t # Prnt
      BY <1>1, <2>3 DEF NoRelisting
    <3>2. i \in 1..n /\ j \in 1..n
      BY <1>3, <2>3, <3>1
    <3>3. rewardTokens[i] = Prnt /\ rewardTokens[j] = Prnt
      BY <1>3, <2>3, <3>2
    <3> QED  BY <2>3, <3>2, <3>3 DEF RewardInv, ListInv, n
  <2> QED  BY <2>1, <2>2, <2>3 DEF ListInv
<1> QED  BY <1>8, <1>9

\* removeReward() keeps the invariant: where nothing is listed again, only PRNT
\* can be removed from the list after it was on it.
LEMMA RemoveRewardKeeps ==
  ASSUME NoRelisting, RewardInv, TypeOK', NEW t \in Tokens, RemoveReward(t)
  PROVE  /\ ListInv' /\ StreamInv'
         /\ t = Prnt /\ t \notin Listed'
<1> DEFINE n == Len(rewardTokens)
           first(j) == rewardTokens[j] = t /\ \A h \in 1..(j - 1) : rewardTokens[h] # t
           i == CHOOSE j \in 1..n : first(j)
           moved == [rewardTokens EXCEPT ![i] = rewardTokens[n]]
<1>1. /\ t \in RemovableRewards /\ t \in Listed
      /\ rewardTokens' = SubSeq(moved, 1, n - 1)
      /\ rewardData' = [rewardData EXCEPT ![t] = NoReward]
      /\ now' = now /\ bal' = bal /\ rewards' = rewards
      /\ userRewardPerTokenPaid' = userRewardPerTokenPaid /\ held' = held
      /\ lockedSupplyWithMultiplier' = lockedSupplyWithMultiplier
  BY DEF RemoveReward, balanceVars, supplyVars, tokenVars
<1>2. /\ TypeOK /\ now \in Nat /\ now >= 1 /\ rewardData \in [Tokens -> Reward]
      /\ rewardTokens \in Seq(Tokens) /\ held \in [Tokens -> Nat] /\ n \in Nat
  BY InvUpToDate, LenProperties DEF TypeOK
<1>3. t = Prnt /\ Prnt \in RemovableRewards
  BY <1>1 DEF NoRelisting, RewardInv, ListInv
<1>4. PICK m \in 1..n : rewardTokens[m] = t /\ \A j \in 1..n : rewardTokens[j] = t => j = m
  <2>1. PICK m \in 1..n : rewardTokens[m] = t
    BY <1>1 DEF Listed
  <2> QED  BY <1>3, <2>1 DEF RewardInv, ListInv
<1>5. i = m
  <2>1. \A h \in 1..(m - 1) : h \in 1..n /\ h # m
    BY <1>2, <1>4
  <2>2. first(m)
    BY <1>4, <2>1
  <2>3. i \in 1..n /\ first(i)
    BY <1>4, <2>2
  <2> HIDE DEF i
  <2> QED  BY <1>4, <2>3
<1> HIDE DEF i, first
<1>6. /\ moved \in Seq(Tokens) /\ Len(moved) = n
      /\ moved[m] = rewardTokens[n] /\ \A j \in 1..n : j # m => moved[j] = rewardTokens[j]
  <2>1. n \in 1..Len(rewardTokens)
    BY <1>2, <1>4
  <2>2. rewardTokens[n] \in Tokens
    BY <1>2, <2>1, ElementOfSeq
  <2>3. m \in 1..Len(rewardTokens)
    BY <1>4
  <2> QED  BY <1>2, <1>5, <2>2, <2>3, ExceptSeq
<1> HIDE DEF moved
<1>7. /\ Len(rewardTokens') = n - 1
      /\ \A j \in 1..(n - 1) : rewardTokens'[j] = moved[j]
  <2>1. n - 1 \in 0..Len(moved) /\ n - 1 \in Nat
    BY <1>2, <1>4, <1>6
  <2>2. /\ Len(SubSeq(moved, 1, n - 1)) = n - 1
        /\ \A j \in 1..(n - 1) : SubSeq(moved, 1, n - 1)[j] = moved[j]
    BY <1>6, <2>1, CutTypes
  <2> QED  BY <1>1, <2>2
<1> HIDE DEF n
<1>8. Listed' = Listed \ {Prnt}
  <2>1. ASSUME NEW s \in Listed' PROVE s \in Listed /\ s # Prnt
    <3>1. PICK j \in 1..(n - 1) : s = moved[j]
      BY <1>7 DEF Listed
    <3>2. CASE j = m
      <4>1. s = rewardTokens[n] /\ n \in 1..n /\ n # m
        BY <1>2, <1>4, <1>6, <3>1, <3>2
      <4> QED  BY <1>3, <1>4, <4>1 DEF Listed, n
    <3>3. CASE j # m
      <4>1. j \in 1..n /\ s = rewardTokens[j]
        BY <1>2, <1>6, <3>1, <3>3
      <4> QED  BY <1>3, <1>4, <3>3, <4>1 DEF Listed, n
    <3> QED  BY <3>2, <3>3
  <2>2. ASSUME NEW s \in Listed, s # Prnt PROVE s \in Listed'
    <3>1. PICK j \in 1..n : s = rewardTokens[j]
      BY DEF Listed, n
    <3>2. j # m
      BY <1>3, <1>4, <2>2, <3>1
    <3>3. CASE j = n
      <4>1. m \in 1..(n - 1) /\ rewardTokens'[m] = s
        BY <1>2, <1>4, <1>6, <1>7, <3>1, <3>2, <3>3
      <4> QED  BY <1>7, <4>1 DEF Listed
    <3>4. CASE j # n
      <4>1. j \in 1..(n - 1) /\ rewardTokens'[j] = s
        BY <1>2, <1>6, <1>7, <3>1, <3>2, <3>4
      <4> QED  BY <1>7, <4>1 DEF Listed
    <3> QED  BY <3>3, <3>4
  <2> QED  BY <2>1, <2>2
<1>9. ASSUME NEW s \in Listed' PROVE Streamed(s)'
  <2>1. s \in Listed /\ Streamed(s) /\ s \in Tokens /\ s # t
    BY <1>3, <1>8, InvUpToDate
  <2>2. rewardData'[s] = rewardData[s] /\ (s # Prnt => held'[s] \in Nat /\ held'[s] >= held[s])
    BY <1>1, <1>2, <2>1
  <2> QED  BY <1>1, <1>2, <2>1, <2>2, StreamedStays
<1>10. ASSUME NEW s \in AddableRewards \ Listed' PROVE Fresh(s)'
  <2>1. s # Prnt
    BY <1>3 DEF NoRelisting
  <2>2. s \in Tokens /\ s # t /\ Fresh(s)
    BY <1>3, <1>8, <2>1, ConstantsAssumption DEF RewardInv, StreamInv
  <2>3. rewardData'[s] = rewardData[s]
    BY <1>1, <1>2, <2>2
  <2> QED  BY <1>1, <2>2, <2>3 DEF Fresh
<1>11. StreamInv'
  BY <1>1, <1>2, <1>9, <1>10 DEF StreamInv
<1>12. ListInv'
  <2>1. Prnt \notin Listed'
    BY <1>8
  <2>2. \A j \in 1..Len(rewardTokens') : rewardTokens'[j] # Prnt
    BY <2>1 DEF Listed
  <2> QED  BY <1>3, <1>8, <2>2 DEF RewardInv, ListInv
<1> QED  BY <1>3, <1>8, <1>11, <1>12

\* Initially only PRNT is listed, and streams nothing.
LEMMA InitRewardInv == Init => RewardInv
<1> SUFFICES ASSUME Init PROVE RewardInv
  OBVIOUS
<1>1. LockInv
  BY InitLockInv
<1>2. /\ now = StartTime /\ rewardTokens = <<Prnt>> /\ lockedSupplyWithMultiplier = 0
      /\ \A u \in Users : bal[u].lockedWithMultiplier = 0
      /\ rewardData = [t \in Tokens |->
           IF t = Prnt THEN [NoReward EXCEPT !.lastUpdateTime = StartTime] ELSE NoReward]
      /\ \A u \in Users : \A t \in Tokens : userRewardPerTokenPaid[u][t] = 0 /\ rewards[u][t] = 0
  BY DEF Init
<1>3. /\ StartTime \in Nat /\ StartTime >= 1 /\ Prnt \in Tokens /\ AddableRewards \subseteq Tokens
      /\ RPT_PRECISION \in Nat /\ PRECISION \in Nat
  BY ConstantsAssumption
<1>4. Listed = {Prnt}
  BY <1>2 DEF Listed
<1> DEFINE r == rewardData[Prnt]
<1>5. /\ r.lastUpdateTime = StartTime /\ r.periodFinish = 0 /\ r.rewardPerSecond = 0
      /\ r.rewardPerTokenStored = 0 /\ r.balance = 0
  BY <1>2, <1>3 DEF NoReward
<1>6. DebtsStored(Prnt) = 0
  <2> DEFINE f == [u \in Users |-> Accrued(rewards[u][Prnt], bal[u].lockedWithMultiplier,
                                           userRewardPerTokenPaid[u][Prnt],
                                           rewardData[Prnt].rewardPerTokenStored)]
  <2>1. \A u \in Users : f[u] = 0
    BY <1>2, <1>3, <1>5 DEF Accrued
  <2>2. f = [u \in Users |-> 0]
    BY <2>1
  <2> HIDE DEF f
  <2>3. Sum(f) = 0
    BY <2>2, SumOverUsersZero
  <2> QED  BY <2>3 DEF DebtsStored, f
<1>7. Covered(r, DebtsStored(Prnt), r.lastUpdateTime)
  BY <1>3, <1>5, <1>6 DEF Covered, StreamAfter
<1>8. Streamed(Prnt)
  BY <1>2, <1>3, <1>5, <1>7 DEF Streamed
<1>9. \A t \in AddableRewards \ Listed : Fresh(t)
  BY <1>2, <1>3, <1>4 DEF Fresh
<1>10. ListInv
  BY <1>2, <1>4 DEF ListInv
<1> QED  BY <1>1, <1>2, <1>3, <1>4, <1>8, <1>9, <1>10 DEF RewardInv, StreamInv

\* RewardInv is inductive.
LEMMA NextRewardInv == NoRelisting /\ RewardInv /\ [Next]_vars => RewardInv'
<1> SUFFICES ASSUME NoRelisting, RewardInv, [Next]_vars PROVE RewardInv'
  OBVIOUS
<1>1. LockInv /\ Inv /\ LockInv' /\ TypeOK'
  <2>1. LockInv /\ LockInv'
    BY NextLockInv DEF RewardInv
  <2> QED  BY <2>1 DEF LockInv, Inv
<1>2. ListInv' /\ StreamInv'
  BY <1>1, RewardSteps, SettledKeeps, KeptKeeps, AddRewardKeeps, RemoveRewardKeeps
<1> QED  BY <1>1, <1>2 DEF RewardInv

-----------------------------------------------------------------------------
(* What follows from it *)

\* RewardInv holds of every reachable state, if nothing is listed again.
THEOREM SpecRewardInv ==
  ASSUME NoRelisting
  PROVE  Spec => []RewardInv
<1>1. RewardInv /\ [Next]_vars => RewardInv'
  BY NextRewardInv
<1> QED  BY <1>1, InitRewardInv, PTL DEF Spec

\* No user is locked out by reward arithmetic: as long as no removed token is listed
\* again, the checked subtractions of _updateReward, which every stake, withdrawal
\* and claim runs, never revert.
THEOREM SpecRewardUpdateNeverReverts ==
  ASSUME NoRelisting
  PROVE  Spec => []RewardUpdateNeverReverts
<1>1. RewardInv => RewardUpdateNeverReverts
  BY InvUpToDate, UpToDateUpdates DEF RewardUpdateNeverReverts
<1> QED  BY <1>1, SpecRewardInv, PTL

\* Claims are covered: as long as no removed token is listed again, what all users
\* have accrued of a token and what is still to be streamed never exceed its
\* notified balance, which the contract holds.
THEOREM SpecRewardsBacked ==
  ASSUME NoRelisting
  PROVE  Spec => []RewardsBacked
<1>1. RewardInv => RewardsBacked
  <2> SUFFICES ASSUME RewardInv, NEW t \in Listed
               PROVE  /\ Sum([u \in Users |-> Earned(u, t)])
                           + (IF rewardData[t].periodFinish > now
                              THEN (rewardData[t].periodFinish - now)
                                     * rewardData[t].rewardPerSecond ELSE 0)
                         <= rewardData[t].balance * PRECISION
                      /\ t # Prnt => held[t] >= rewardData[t].balance
    BY DEF RewardsBacked
  <2>1. TypeOK /\ Streamed(t) /\ UpToDate(t)
    BY InvUpToDate
  <2>2. t # Prnt => held[t] >= rewardData[t].balance
    BY <2>1 DEF Streamed
  <2> QED  BY <2>1, <2>2, UpToDateIsBacked
<1> QED  BY <1>1, SpecRewardInv, PTL

\* At any instant a step changes what a user has accrued only by the user's claim.
LEMMA AccruedStep ==
  ASSUME NoRelisting, RewardInv, [Next]_vars, now' = now, NEW u \in Users, NEW t \in Listed
  PROVE  \/ Earned(u, t)' = Earned(u, t)
         \/ t \notin Listed'
         \/ Claims(u) /\ Earned(u, t)' = 0
<1>1. /\ TypeOK /\ TypeOK' /\ Inv /\ now >= 1 /\ now \in Nat
      /\ Streamed(t) /\ UpToDate(t) /\ t \in Tokens
  <2>1. LockInv /\ LockInv'
    BY NextLockInv DEF RewardInv
  <2> QED  BY <2>1, InvUpToDate DEF LockInv, Inv, TypeOK
<1>2. ASSUME NEW v \in Users, SettledBy(v)
      PROVE  Earned(u, t)' = Earned(u, t) \/ (Claims(u) /\ Earned(u, t)' = 0)
  <2>1. PICK fwd, pay, out : Settle(v, fwd, pay, out) /\ (pay = {} \/ Claims(v))
    BY <1>2 DEF SettledBy
  <2>2. /\ \A w \in Users \ {v} : bal'[w].lockedWithMultiplier = bal[w].lockedWithMultiplier
        /\ t \in Listed'
    BY <1>2 DEF SettledBy, Listed
  <2>3. SettledToken(v, pay, t)
    BY <1>1, <2>1, SettleListed
  <2>4. /\ \A w \in Users \ {v} : Earned(w, t)' = Earned(w, t)
        /\ Earned(v, t)' = Earned(v, t) \/ (t \in pay /\ Earned(v, t)' = 0)
    BY <1>1, <2>2, <2>3, SettledEarned
  <2>5. CASE u = v
    BY <2>1, <2>4, <2>5
  <2>6. CASE u # v
    BY <2>4, <2>6
  <2> QED  BY <2>5, <2>6
<1>3. ASSUME RewardsKept PROVE Earned(u, t)' = Earned(u, t)
  <2>1. /\ rewardData' = rewardData /\ rewards' = rewards
        /\ userRewardPerTokenPaid' = userRewardPerTokenPaid
        /\ lockedSupplyWithMultiplier' = lockedSupplyWithMultiplier
        /\ bal'[u].lockedWithMultiplier = bal[u].lockedWithMultiplier
    BY <1>3 DEF RewardsKept, rewardVars
  <2>2. rewardPerToken(t)' = rewardPerToken(t)
    BY <2>1 DEF rewardPerToken, lastTimeRewardApplicable
  <2> QED  BY <2>1, <2>2 DEF Earned
<1>4. ASSUME NEW s \in Tokens, AddReward(s) PROVE Earned(u, t)' = Earned(u, t)
  <2>1. /\ rewardData[s].lastUpdateTime = 0
        /\ rewardData' = [rewardData EXCEPT ![s].lastUpdateTime = now, ![s].periodFinish = now]
        /\ bal' = bal /\ rewards' = rewards /\ userRewardPerTokenPaid' = userRewardPerTokenPaid
        /\ lockedSupplyWithMultiplier' = lockedSupplyWithMultiplier
        /\ rewardTokens' = Append(rewardTokens, s)
    BY <1>4 DEF AddReward, balanceVars, supplyVars
  <2>2. rewardData \in [Tokens -> Reward]
    BY <1>1 DEF TypeOK
  <2>3. rewardPerToken(t)' = rewardPerToken(t)
    <3>1. CASE t # s
      <4>1. rewardData'[t] = rewardData[t]
        BY <1>1, <2>1, <2>2, <3>1
      <4>2. lockedSupplyWithMultiplier' = lockedSupplyWithMultiplier
        BY <2>1
      <4>3. lastTimeRewardApplicable(t)' = lastTimeRewardApplicable(t)
        BY <4>1 DEF lastTimeRewardApplicable
      <4> QED  BY <4>1, <4>2, <4>3 DEF rewardPerToken
    <3>2. CASE t = s
      <4>1. /\ rewardData'[t].lastUpdateTime = now /\ rewardData'[t].periodFinish = now
            /\ rewardData'[t].rewardPerTokenStored = rewardData[t].rewardPerTokenStored
        BY <1>1, <2>1, <2>2, <3>2 DEF Reward
      <4>2. rewardData[t].rewardPerSecond = 0
        BY <1>1, <2>1, <3>2 DEF Streamed
      <4>3. rewardPerToken(t) = rewardData[t].rewardPerTokenStored
        BY <1>1, <4>2, NothingStreamed
      <4>4. t \in Listed'
        <5>1. rewardTokens \in Seq(Tokens)
          BY <1>1 DEF TypeOK
        <5>2. Len(rewardTokens') = Len(rewardTokens) + 1 /\ Len(rewardTokens) \in Nat
              /\ rewardTokens'[Len(rewardTokens) + 1] = s
          BY <2>1, <5>1, AppendProperties, LenProperties
        <5> QED  BY <3>2, <5>2 DEF Listed
      <4>5. lastTimeRewardApplicable(t)' = now
        BY <1>1, <4>1 DEF lastTimeRewardApplicable
      <4>6. rewardPerToken(t)' = rewardData'[t].rewardPerTokenStored
        BY <1>1, <4>1, <4>4, <4>5, NothingStreamedNext
      <4> QED  BY <4>1, <4>3, <4>6
    <3> QED  BY <3>1, <3>2
  <2> QED  BY <2>1, <2>3 DEF Earned
<1>5. ASSUME NEW s \in Tokens, RemoveReward(s)
      PROVE  Earned(u, t)' = Earned(u, t) \/ t \notin Listed'
  <2>1. /\ rewardData' = [rewardData EXCEPT ![s] = NoReward]
        /\ bal' = bal /\ rewards' = rewards /\ userRewardPerTokenPaid' = userRewardPerTokenPaid
        /\ lockedSupplyWithMultiplier' = lockedSupplyWithMultiplier
    BY <1>5 DEF RemoveReward, balanceVars, supplyVars
  <2>2. rewardData \in [Tokens -> Reward]
    BY <1>1 DEF TypeOK
  <2>3. CASE t # s
    <3>1. rewardData'[t] = rewardData[t]
      BY <1>1, <2>1, <2>2, <2>3
    <3>2. rewardPerToken(t)' = rewardPerToken(t)
      BY <2>1, <3>1 DEF rewardPerToken, lastTimeRewardApplicable
    <3> QED  BY <2>1, <3>2 DEF Earned
  <2>4. CASE t = s
    BY <1>1, <1>5, <2>4, RemoveRewardKeeps
  <2> QED  BY <2>3, <2>4
<1> QED  BY <1>1, <1>2, <1>3, <1>4, <1>5, RewardSteps

\* What a user has accrued changes only with time or by the user's own claim: as
\* long as no removed token is listed again, stakes, withdrawals, relocks and claims
\* of others at the same instant, and the new rewards they notify, neither dilute
\* nor add to it.
THEOREM SpecAccruedIsPreserved ==
  ASSUME NoRelisting
  PROVE  Spec => AccruedIsPreserved
<1> DEFINE Preserved == now' = now =>
                          \A u \in Users, t \in Listed :
                            \/ Earned(u, t)' = Earned(u, t)
                            \/ t \notin Listed'
                            \/ Claims(u) /\ Earned(u, t)' = 0
<1>1. RewardInv /\ [Next]_vars => [Preserved]_vars
  BY AccruedStep
<1> HIDE DEF Preserved
<1>2. Spec => [][Preserved]_vars
  BY <1>1, SpecRewardInv, PTL DEF Spec
<1> QED  BY <1>2 DEF AccruedIsPreserved, Preserved
=============================================================================
