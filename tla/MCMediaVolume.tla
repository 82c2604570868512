---------------------------- MODULE MCMediaVolume ----------------------------
EXTENDS MediaVolume, TLC
Symmetry == Permutations(Upload) \cup Permutations(Worker) \cup Permutations(Content)
=============================================================================
