------------------------------ MODULE MCWorker ------------------------------
EXTENDS Worker, TLC

Symmetry == Permutations(Conns)
=============================================================================
