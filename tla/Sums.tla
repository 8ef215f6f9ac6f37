-------------------------------- MODULE Sums --------------------------------
(* Sums over finite sets, which the properties about money are stated with. *)
EXTENDS Integers, FiniteSetsExt

\* The sum of f[x] for the x in S.
SumOf(f, S) == MapThenSumSet(LAMBDA x : f[x], S)

=============================================================================
