----------------------------- MODULE MCConnPool -----------------------------
(* Small instances of ConnPool for TLC.                                     *)
EXTENDS ConnPool, TLC

Symmetric == Permutations(Threads) \cup Permutations(Conns)

\* The database never stops: used where a failure would explain the outcome.
WellInit == Init /\ up = TRUE
WellNext == Next /\ up' = TRUE
WellSpec == WellInit /\ [][WellNext]_vars
=============================================================================
