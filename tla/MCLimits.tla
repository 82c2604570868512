------------------------------ MODULE MCLimits ------------------------------
EXTENDS Limits, TLC

\* The login bucket fills slowest, the others in one tick.
RateOf == [l \in Limiter |-> IF l = "login" THEN 1 ELSE 2]
BurstOf == [l \in Limiter |-> 2]

Symmetry == Permutations(Request)
=============================================================================
