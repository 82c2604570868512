----------------------------- MODULE MCLifecycle -----------------------------
EXTENDS Lifecycle, TLC
Symmetry == Permutations(Upload) \cup Permutations(Worker) \cup Permutations(Op)
=============================================================================
