------------------------- MODULE MCRequestPipeline -------------------------
(* Model-checking instance of RequestPipeline. *)
EXTENDS RequestPipeline, TLC

CONSTANTS a1, a2

Apps1 == {a1}
Apps2 == {a1, a2}

Symmetry == Permutations(Apps2)
=============================================================================
