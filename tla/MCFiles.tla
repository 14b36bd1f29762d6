------------------------------- MODULE MCFiles -------------------------------
(* RecordStore on a small calendar; see the cfg files. *)
EXTENDS RecordStore
=============================================================================
