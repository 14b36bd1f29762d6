-------------------------------- MODULE MCWs --------------------------------
(* WsSignaling on small instances; see the cfg files. *)
EXTENDS WsSignaling
=============================================================================
