---------------------------- MODULE MCClosureGC ----------------------------
\* The garbage collector on small instances: threads and objects are
\* interchangeable.
EXTENDS ClosureGC, TLC

Symmetry == Permutations(App) \cup Permutations(Obj)
=============================================================================
