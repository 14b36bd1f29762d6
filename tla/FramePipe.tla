------------------------------- MODULE FramePipe -------------------------------
(***************************************************************************)
(* What an IFrameProcessor promises (src/src/codecs/frame_processor.h): a   *)
(* callback is triggered at most once, after its frame was offered, and in  *)
(* the order in which the frames were offered.                              *)
(***************************************************************************)
EXTENDS Naturals

CONSTANT MaxFrames

VARIABLES
  offered, \* frames offered so far
  latest   \* the last callback that was triggered, or 0

Init == offered = 0 /\ latest = 0

EmplaceBuffer == /\ offered < MaxFrames
                 /\ offered' = offered + 1
                 /\ UNCHANGED latest

Triggered(f) == /\ f > latest /\ f <= offered
                /\ latest' = f
                /\ UNCHANGED offered

Next == EmplaceBuffer \/ \E f \in 1..MaxFrames : Triggered(f)

Spec == Init /\ [][Next]_<<offered, latest>>
=============================================================================
