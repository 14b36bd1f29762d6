----------------------------- MODULE MCLibcamera -----------------------------
(* LibcameraCapture on small instances; see the cfg files. *)
EXTENDS LibcameraCapture, TLC

\* Requests are interchangeable.
Symmetry == Permutations(Requests)
=============================================================================
