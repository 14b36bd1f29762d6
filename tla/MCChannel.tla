------------------------------- MODULE MCChannel -------------------------------
(* DataChannel on small instances; see the cfg files. *)
EXTENDS DataChannel
=============================================================================
