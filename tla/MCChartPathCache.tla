------------------------- MODULE MCChartPathCache -------------------------
(* Constants for model checking ChartPathCache.                             *)
EXTENDS ChartPathCache, TLC

\* Goroutines and credentials are interchangeable.
Symmetric == Permutations(Callers) \cup Permutations(Credentials)

=============================================================================
