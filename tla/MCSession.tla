------------------------------ MODULE MCSession ------------------------------
EXTENDS Session, TLC

Symmetry == Permutations(Brokers) \cup Permutations(Calls)

(* A dead broker's socket file is there, and nobody else's.                *)
StaleInit == SessionInit /\ posix /\ path = "stale" /\ runtime = "stale"

StaleSpec == StaleInit /\ [][SessionNext]_sessionVars
=============================================================================
