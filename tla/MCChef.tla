------------------------------- MODULE MCChef -------------------------------
(* Constants of the model-checking runs of ChefIncentivesController.         *)
EXTENDS ChefProperties

\* A deposit token and a debt token.
BothPools == <<"r", "d">>
OnePool   == <<"r">>
Deposits  == <<"r">>

SingleLists == {<<"r">>, <<"d">>}
AllLists    == {<<"r">>, <<"r", "d">>, <<"d", "r">>}
FullList    == {<<"r", "d">>}

\* As much as the collateral is worth has to be locked, or half of it; all of
\* that, or less by the lowest tolerance.
FullRatio  == <<10000>>
Ratios     == <<10000, 5000>>
FullTolerance == <<10000>>
Tolerances == <<10000, 8000>>
OnePrice   == <<1>>
Prices     == <<1, 2>>

NoSchedules  == {}
TwoSchedules == {<<[startTimeOffset |-> 2, rewardsPerSecond |-> 1]>>,
                 <<[startTimeOffset |-> 1, rewardsPerSecond |-> 0]>>}
=============================================================================
