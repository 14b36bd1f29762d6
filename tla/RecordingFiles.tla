---------------------------- MODULE RecordingFiles ----------------------------
(***************************************************************************)
(* What a recording is to its user: video files written one at a time, each *)
(* closed before the next is opened, none closed while it is recorded into, *)
(* and every file starting with a keyframe.  Recorder implements it in      *)
(* background mode.                                                         *)
(***************************************************************************)
CONSTANT Ctxs       \* the files

VARIABLES recording, open, first
vars == <<recording, open, first>>

Init == recording = FALSE /\ open = {} /\ first = "none"

\* A new file, only when no other is open.
Open(c) == /\ ~recording /\ open = {}
           /\ open' = {c}
           /\ UNCHANGED <<recording, first>>

\* Packets are accepted from here on.
Record == /\ ~recording /\ open # {}
          /\ recording' = TRUE
          /\ UNCHANGED <<open, first>>

\* The first video packet of the file.
KeyPacket == /\ recording /\ open # {} /\ first = "none"
             /\ first' = "key"
             /\ UNCHANGED <<recording, open>>

\* The container cannot be written and is given up; the recording stays on.
Fail == /\ recording /\ open # {}
        /\ open' = {} /\ first' = "none"
        /\ UNCHANGED recording

Pause == /\ recording
         /\ recording' = FALSE
         /\ UNCHANGED <<open, first>>

Close == /\ ~recording /\ open # {}
         /\ open' = {} /\ first' = "none"
         /\ UNCHANGED recording

Next == (\E c \in Ctxs : Open(c)) \/ Record \/ KeyPacket \/ Fail \/ Pause \/ Close

Spec == Init /\ [][Next]_vars
=============================================================================
