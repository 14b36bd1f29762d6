-------------------------------- MODULE MCPeer --------------------------------
(* RtcPeer on small instances; see the cfg files. *)
EXTENDS RtcPeer
=============================================================================
