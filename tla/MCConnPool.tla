----------------------------- MODULE MCConnPool -----------------------------
(* Instances of ConnPool: the closing threads are interchangeable.         *)
EXTENDS ConnPool
Symmetry == Permutations(Closers)
=============================================================================
