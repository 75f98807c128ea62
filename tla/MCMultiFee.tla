----------------------------- MODULE MCMultiFee -----------------------------
(* Constants of the model-checking runs of MultiFeeDistribution.            *)
EXTENDS MultiFeeProperties

\* Two lock types, of one day (multiplier 1) and of two days (multiplier 2) ...
DayLocks == <<[period |-> 2, multiplier |-> 1], [period |-> 4, multiplier |-> 2]>>
\* ... and a table the owner may install instead, with one type.
LongLocks == <<[period |-> 4, multiplier |-> 1]>>

\* One lock type only, for the reward streams.
DoubleLock == <<[period |-> 1, multiplier |-> 2]>>

\* Fees arrive never; twice for PRNT; twice for the others; once for each.
NoFees  == {[t \in Tokens |-> 0]}
TwoFees == {[t \in Tokens |-> IF t = Prnt THEN 2 ELSE 0],
            [t \in Tokens |-> IF t = Prnt THEN 0 ELSE 2]}

OneTable  == {DayLocks}
TwoTables == {DayLocks, LongLocks}
=============================================================================
