----------------------------- MODULE MCSendQueue -----------------------------
EXTENDS SendQueue, TLC

Symmetry == Permutations(Workers)
=============================================================================
