------------------------------- MODULE Totals -------------------------------
(* Sums over a finite set, as the board and the baseline take them.          *)
EXTENDS Integers, FiniteSetsExt

\* The values of a function added up.
Total(v) == MapThenSumSet(LAMBDA x : v[x], DOMAIN v)
=============================================================================
