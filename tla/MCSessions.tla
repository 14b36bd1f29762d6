------------------------------ MODULE MCSessions ------------------------------
(* PeerSessions on small instances; see the cfg files. *)
EXTENDS PeerSessions
=============================================================================
