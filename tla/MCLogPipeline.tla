--------------------------- MODULE MCLogPipeline ---------------------------
(* Instances of LogPipeline and of its refinement for TLC. *)
EXTENDS LogPipelineRefinement, TLC

\* Application threads start in the same state and buffers are only names.
Symmetry == Permutations(Thread) \cup Permutations(Buffer)
=============================================================================
