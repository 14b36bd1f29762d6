------------------------------ MODULE MCRecorder ------------------------------
(* Recorder on small instances; see the cfg files. *)
EXTENDS RecorderInv, TLC

\* Containers and workers are interchangeable.
Symmetry == Permutations(Ctxs) \cup Permutations(Workers)
=============================================================================
