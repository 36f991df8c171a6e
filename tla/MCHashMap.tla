---------------------------- MODULE MCHashMap ----------------------------
(* The hash map and its refinement on small instances. *)
EXTENDS HashMapRefinement, TLC

\* Both keys share a bucket.
OneBucket == [k \in Key |-> 1]

Symmetry == Permutations(App) \cup Permutations(Key) \cup Permutations(Val)
=============================================================================
