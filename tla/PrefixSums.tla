----------------------------- MODULE PrefixSums -----------------------------
(***************************************************************************)
(* Sums over the first n entries of a function on 1..n.  The ledgers of    *)
(* the risk engine are running totals over an append-only vector of        *)
(* reservations; PrefixSum is the reference they are compared with.        *)
(***************************************************************************)
EXTENDS Integers

\* f[1] + ... + f[n]; zero when n = 0.
PrefixSum(f, n) ==
  LET S[k \in 0 .. n] == IF k = 0 THEN 0 ELSE S[k - 1] + f[k] IN S[n]
=============================================================================
