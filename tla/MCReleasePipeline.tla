-------------------------- MODULE MCReleasePipeline --------------------------
(* Values for the model checker. *)
EXTENDS ReleasePipeline, TLC

CONSTANTS c1, c2, branch

Merged == {c1, c2}

CommitSymmetry == Permutations(Merged)

=============================================================================
