------------------------- MODULE MCCommandPipeline -------------------------
(* Instances of the pipeline for TLC: symmetry of the worker processes, and   *)
(* what the wall clock may show: three readings, of which the second sorts    *)
(* before the first, or always the same one.                                  *)
EXTENDS PipelineRefinement, TLC

Clock == {[second |-> 0, digits |-> <<>>], [second |-> 0, digits |-> <<5>>],
          [second |-> 1, digits |-> <<>>]}
StoppedClock == {[second |-> 0, digits |-> <<>>]}

Symmetry == Permutations(Worker)
=============================================================================
