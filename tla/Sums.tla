-------------------------------- MODULE Sums --------------------------------
(***************************************************************************)
(* Sums of finite functions whose domain is 1..n: the amounts of a list of *)
(* locks or of vesting entries, and per-user balances (users are numbered).*)
(* The contracts keep such sums incrementally (Balances.locked,            *)
(* Balances.earned, lockedSupply ...); the models recompute them here.     *)
(* The sum is a recursive function, so that it can be proved about.        *)
(***************************************************************************)
EXTENDS Integers, Sequences

\* f[1] + ... + f[n]
SumTo(f, n) ==
  LET sum[i \in 0..n] == IF i = 0 THEN 0 ELSE sum[i - 1] + f[i]
  IN  sum[n]

\* The sum of a whole sequence.
Sum(s) == SumTo(s, Len(s))

=============================================================================
