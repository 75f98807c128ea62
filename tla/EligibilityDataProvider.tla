---------------------- MODULE EligibilityDataProvider ----------------------
(***************************************************************************)
(* EligibilityDataProvider.sol: who may earn PRNT emissions.  A user is     *)
(* eligible while the value of its locked LP tokens reaches a share of the  *)
(* value of its collateral.                                                 *)
(*                                                                         *)
(* Its per-user storage (lastEligibleStatus, disqualifiedTime) only changes *)
(* inside transactions of the incentives controller, so the operators here  *)
(* take and return that part of the controller's transaction state.         *)
(***************************************************************************)
EXTENDS Integers, Sequences

CONSTANTS
  RequiredDepositRatios,        \* ratios the owner may set, in bips; the
  PriceToleranceRatios,         \* ones at deployment are the first of each
  LpPrices                      \* LP token prices the provider may report

EDP_RATIO_DIVISOR == 10000
MIN_PRICE_TOLERANCE_RATIO == 8000

ASSUME EligibilityAssumption ==
  /\ RequiredDepositRatios \in Seq(0..EDP_RATIO_DIVISOR)
  /\ PriceToleranceRatios \in Seq(MIN_PRICE_TOLERANCE_RATIO..EDP_RATIO_DIVISOR)
  /\ LpPrices \in Seq(Nat)
  /\ Len(RequiredDepositRatios) > 0
  /\ Len(PriceToleranceRatios) > 0
  /\ Len(LpPrices) > 0

VARIABLES requiredDepositRatio, priceToleranceRatio, lpPrice

eligibilityVars == <<requiredDepositRatio, priceToleranceRatio, lpPrice>>

EligibilityInit ==
  /\ requiredDepositRatio = RequiredDepositRatios[1]
  /\ priceToleranceRatio = PriceToleranceRatios[1]
  /\ lpPrice = LpPrices[1]

-----------------------------------------------------------------------------

lockedUsdValue(lockedLP) == lockedLP * lpPrice

requiredUsdValue(collateral) ==
  (collateral * requiredDepositRatio) \div EDP_RATIO_DIVISOR

\* Eligibility of a user with `lockedLP` locked and collateral worth `collateral`.
isEligibleForRewards(lockedLP, collateral) ==
  LET required == (requiredUsdValue(collateral) * priceToleranceRatio)
                    \div EDP_RATIO_DIVISOR
  IN  required # 0 /\ lockedUsdValue(lockedLP) >= required

\* refresh(u) on the transaction state s.
Refresh(s, u, eligible) ==
  [s EXCEPT !.lastEligibleStatus[u] = eligible,
            !.disqualifiedTime[u] = IF eligible THEN 0 ELSE @]

setDqTime(s, u, time) == [s EXCEPT !.disqualifiedTime[u] = time]

-----------------------------------------------------------------------------
(* Owner settings, and the price the provider reports *)

setRequiredDepositRatio(ratio) ==
  /\ requiredDepositRatio' = ratio
  /\ UNCHANGED <<priceToleranceRatio, lpPrice>>

setPriceToleranceRatio(ratio) ==
  /\ ratio >= MIN_PRICE_TOLERANCE_RATIO
  /\ priceToleranceRatio' = ratio
  /\ UNCHANGED <<requiredDepositRatio, lpPrice>>

\* External: the LP token's price moves.
PriceMoves(price) ==
  /\ lpPrice' = price
  /\ UNCHANGED <<requiredDepositRatio, priceToleranceRatio>>
=============================================================================
