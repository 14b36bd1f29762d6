------------------------------ MODULE MCV4l2 ------------------------------
(* V4l2Capture on small instances; see the cfg files. *)
EXTENDS V4l2Capture, TLC

\* Buffers are interchangeable.
Symmetry == Permutations(Buffers)
=============================================================================
