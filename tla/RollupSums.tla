----------------------------- MODULE RollupSums -----------------------------
(***************************************************************************)
(* Sums over the rollups, in the order of their ids, as a recursive        *)
(* function, so that SumProofs can reason about them.                      *)
(***************************************************************************)
EXTENDS Naturals

\* f[1] + ... + f[n]
SumTo(f, n) ==
    LET sum[i \in 0..n] == IF i = 0 THEN 0 ELSE sum[i - 1] + f[i]
    IN  sum[n]
=============================================================================
