-------------------------------- MODULE MCIpc --------------------------------
(* IpcServer on small instances; see the cfg files. *)
EXTENDS IpcServer, TLC

\* Clients are interchangeable.
Symmetry == Permutations(Clients)
=============================================================================
