-------------------------------- MODULE Sums --------------------------------
(***************************************************************************)
(* The sum of the values of a function, as the size of a set of pairs, so  *)
(* that the laws of sums are laws of finite cardinality.                   *)
(***************************************************************************)
EXTENDS Integers, FiniteSets

\* x stands for f[x] pairs.
Pairs(f) == UNION {{x} \X (1..f[x]) : x \in DOMAIN f}
Total(f) == Cardinality(Pairs(f))
=============================================================================
