------------------------------- MODULE MCCodec -------------------------------
(* FrameCodec on small instances; see the cfg files. *)
EXTENDS FrameCodec
=============================================================================
