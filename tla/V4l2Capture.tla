------------------------------ MODULE V4l2Capture ------------------------------
(***************************************************************************)
(* V4L2Capturer (src/src/capturer/v4l2_capturer.cpp) and the capture        *)
(* commands of Conductor::TryHandleCaptureCommand, each of which runs       *)
(* ResumeCapture or StopCapture on a detached thread of its own.            *)
(*                                                                          *)
(* Threads.  Command 0 is V4L2Capturer::Create; commands 1, 2, ... are      *)
(* numbered in the order in which they were received.  The capture worker   *)
(* loops over CaptureImage.  The device can stall, be unplugged and come    *)
(* back under another file descriptor.                                      *)
(***************************************************************************)
EXTENDS Naturals, FiniteSets

CONSTANTS
  Buffers,     \* the MMAP buffers
  NoBuffer,
  MaxFailures, \* kMaxCaptureFailures
  Passive,     \* the values of --start-passive that are considered
  H264,        \* hardware H.264: delivery begins with a keyframe
  MaxCommands  \* bound: number of commands

ASSUME V4l2Assumption ==
  /\ NoBuffer \notin Buffers /\ IsFiniteSet(Buffers) /\ Buffers # {}
  /\ Passive \subseteq BOOLEAN /\ H264 \in BOOLEAN
  /\ MaxFailures \in Nat \ {0} /\ MaxCommands \in Nat

Commands == 0..MaxCommands
NoCommand == MaxCommands + 1

VARIABLES
  issued, kind, pc, \* commands received, what they are, and where they are
  overlap,          \* history: one was received before the last had returned
  mutex,            \* the command holding capture_mutex_
  device,           \* "good", "stuck" (no frames) or "absent"
  fd,               \* fd_: "closed", "open", or "gone" (the device left it)
  driver,           \* the buffers queued in the driver
  capturing,        \* capturing_
  worker, abort,    \* the capture thread, and its abort_
  held,             \* the buffer it has dequeued
  failures,         \* capture_failure_count_
  firstKey,         \* has_first_keyframe_
  exited,           \* why the process has exited, or "no"
  missed,           \* history: failures of this streaming session in a row
  first             \* history: the session's first frame to be delivered

cmdVars  == <<issued, kind, pc, overlap, mutex>>
devVars  == <<device, fd, driver>>
workVars == <<worker, abort, held>>
runVars  == <<capturing, failures, firstKey, exited, missed, first>>
vars == <<cmdVars, devVars, workVars, runVars>>

Running == exited = "no"
At(c, label) == Running /\ pc[c] = label
Step(c, label) == /\ pc' = [pc EXCEPT ![c] = label]
                  /\ UNCHANGED <<issued, kind, overlap>>

\* A command returns: its lock_guard releases the mutex.
Return(c) == Step(c, "done") /\ mutex' = NoCommand
-----------------------------------------------------------------------------
(***************************************************************************)
(* Conductor::TryHandleCaptureCommand.                                      *)
(***************************************************************************)
Returned(c) == pc[c] = "done"

Receive(k) ==
  /\ Running /\ issued < MaxCommands /\ Returned(0)
  /\ overlap' = (overlap \/ ~Returned(issued))
  /\ issued' = issued + 1
  /\ kind' = [kind EXCEPT ![issued + 1] = k]
  /\ pc' = [pc EXCEPT ![issued + 1] = "lock"]
  /\ UNCHANGED <<mutex, devVars, workVars, runVars>>
-----------------------------------------------------------------------------
(***************************************************************************)
(* StartCapture, StopCapture and ResumeCapture.                             *)
(***************************************************************************)

\* Initialize, in the loops of Create and of ResumeCapture: tried until a
\* device is there.
Opened == /\ device # "absent"
          /\ fd' = "open"
          /\ UNCHANGED <<device, driver>>

CreateInitialize ==
  /\ At(0, "initialize")
  /\ Opened
  /\ Step(0, "lock")
  /\ UNCHANGED <<mutex, workVars, runVars>>

\* mutant: the mutex is not taken
MutTake(c) == UNCHANGED mutex

Take(c) == mutex = NoCommand /\ mutex' = c

\* The mutex, and the guard on capturing_.
Lock(c) ==
  /\ At(c, "lock")
  /\ Take(c)
  /\ IF kind[c] = "pause"
     THEN Step(c, IF capturing THEN "abort" ELSE "unlock")
     ELSE Step(c, IF capturing THEN "unlock"
                  ELSE IF kind[c] = "start" THEN "allocate"
                  ELSE IF fd = "closed" THEN "open" ELSE "queue")
  /\ UNCHANGED <<devVars, workVars, runVars>>

\* mutant: an early return keeps the mutex
MutUnlock(c) ==
  At(c, "unlock") /\ Step(c, "done") /\ UNCHANGED <<mutex, devVars, workVars, runVars>>

Unlock(c) ==
  /\ At(c, "unlock")
  /\ Return(c)
  /\ UNCHANGED <<devVars, workVars, runVars>>

ResumeInitialize(c) ==
  /\ At(c, "open")
  /\ Opened
  /\ Step(c, "allocate")
  /\ UNCHANGED <<mutex, workVars, runVars>>

Exit(why) == /\ exited' = why
             /\ UNCHANGED <<capturing, failures, firstKey, missed, first>>

\* AllocateBuffer: REQBUFS fails only on a device that has gone.
Allocate(c) ==
  /\ At(c, "allocate")
  /\ IF fd = "open" THEN Step(c, "queue") /\ UNCHANGED runVars
                    ELSE Exit("gone") /\ UNCHANGED <<issued, kind, pc, overlap>>
  /\ UNCHANGED <<mutex, devVars, workVars>>

\* mutant: capturing_ is not set
MutNowCapturing == capturing

NowCapturing == TRUE

\* StartStreaming: every buffer is queued (a buffer the driver has is refused),
\* STREAMON, and a new worker.
StartStreaming(c) ==
  /\ At(c, "queue")
  /\ IF fd = "open" /\ driver = {}
     THEN /\ driver' = Buffers
          /\ worker' = "loop" /\ abort' = FALSE /\ held' = NoBuffer
          /\ capturing' = NowCapturing
          /\ missed' = 0 /\ first' = "none"
          /\ Return(c)
          /\ UNCHANGED <<failures, firstKey, exited>>
     ELSE /\ Exit(IF fd = "open" THEN "queued" ELSE "gone")
          /\ UNCHANGED <<cmdVars, driver, workVars>>
  /\ UNCHANGED <<device, fd>>

\* worker_.reset(): abort_, and the join.
StopAbort(c) ==
  /\ At(c, "abort")
  /\ abort' = TRUE
  /\ Step(c, "join")
  /\ UNCHANGED <<mutex, devVars, worker, held, runVars>>

StopJoin(c) ==
  /\ At(c, "join") /\ worker = "dead"
  /\ worker' = "none"
  /\ Step(c, "off")
  /\ UNCHANGED <<mutex, devVars, abort, held, runVars>>

\* mutant: the state of the session is kept
MutReset == UNCHANGED <<failures, firstKey>>

Reset == failures' = 0 /\ firstKey' = FALSE

\* STREAMOFF gives back every buffer; the state of the session is reset.
StopOff(c) ==
  /\ At(c, "off")
  /\ driver' = {}
  /\ Reset
  /\ capturing' = FALSE
  /\ Return(c)
  /\ UNCHANGED <<device, fd, workVars, exited, missed, first>>

Command(c) == \/ Lock(c) \/ Unlock(c) \/ ResumeInitialize(c) \/ Allocate(c)
              \/ StartStreaming(c) \/ StopAbort(c) \/ StopJoin(c) \/ StopOff(c)
-----------------------------------------------------------------------------
(***************************************************************************)
(* The capture worker: CaptureImage.                                        *)
(***************************************************************************)
WorkerLoop ==
  /\ Running /\ worker = "loop"
  /\ worker' = IF abort THEN "dead" ELSE "select"
  /\ UNCHANGED <<cmdVars, devVars, abort, held, runVars>>

Good == missed' = 0 /\ failures' = 0

\* A frame: a hardware H.264 stream is held back until its first keyframe.
Dequeue(key) ==
  /\ Running /\ worker = "select" /\ device = "good" /\ fd = "open"
  /\ \E b \in driver : held' = b /\ driver' = driver \ {b}
  /\ Good
  /\ firstKey' = (firstKey \/ key)
  /\ worker' = IF H264 /\ ~firstKey' THEN "requeue" ELSE "emit"
  /\ first' = IF worker' = "emit" /\ first = "none"
              THEN (IF key THEN "key" ELSE "delta") ELSE first
  /\ UNCHANGED <<cmdVars, device, fd, abort, capturing, exited>>

\* A corrupt or short frame.
DequeueBad ==
  /\ Running /\ worker = "select" /\ device = "good" /\ fd = "open"
  /\ \E b \in driver : held' = b /\ driver' = driver \ {b}
  /\ Good
  /\ worker' = "requeue"
  /\ UNCHANGED <<cmdVars, device, fd, abort, capturing, firstKey, exited,
                 first>>

Stuck(n) == n >= MaxFailures

\* A timeout or an error, and HandleCaptureFailure.
CaptureFails ==
  /\ Running /\ worker = "select" /\ (device # "good" \/ fd # "open")
  /\ failures' = failures + 1
  /\ missed' = missed + 1
  /\ exited' = IF fd # "open" THEN "gone"
               ELSE IF Stuck(failures') THEN "stuck" ELSE "no"
  /\ worker' = "loop"
  /\ UNCHANGED <<cmdVars, devVars, abort, held, capturing, firstKey, first>>

\* stream_subject_.Next: the subscribers have had the frame.
Emit ==
  /\ Running /\ worker = "emit"
  /\ worker' = "requeue"
  /\ UNCHANGED <<cmdVars, devVars, abort, held, runVars>>

\* QueueBuffer, refused by a device that has gone.
Requeue ==
  /\ Running /\ worker = "requeue"
  /\ driver' = IF fd = "open" THEN driver \cup {held} ELSE driver
  /\ held' = NoBuffer
  /\ worker' = "loop"
  /\ UNCHANGED <<cmdVars, device, fd, abort, runVars>>

Worker == \/ WorkerLoop \/ (\E key \in BOOLEAN : Dequeue(key)) \/ DequeueBad
          \/ CaptureFails \/ Emit \/ Requeue
-----------------------------------------------------------------------------
(***************************************************************************)
(* The device.                                                              *)
(***************************************************************************)
DeviceChanges ==
  /\ Running
  /\ device' \in {"good", "stuck", "absent"} \ {device}
  /\ fd' = IF device' = "absent" /\ fd = "open" THEN "gone" ELSE fd
  /\ UNCHANGED <<cmdVars, driver, workVars, runVars>>

\* Create returns at once for a passive camera.
Create(passive) == IF passive THEN "done" ELSE "initialize"

Init ==
  /\ issued = 0 /\ overlap = FALSE
  /\ \E passive \in Passive :
       /\ kind = [c \in Commands |-> IF c = 0 /\ ~passive THEN "start" ELSE "none"]
       /\ pc = [c \in Commands |-> IF c > 0 THEN "idle" ELSE Create(passive)]
  /\ mutex = NoCommand
  /\ device = "good" /\ fd = "closed" /\ driver = {}
  /\ worker = "none" /\ abort = FALSE /\ held = NoBuffer
  /\ capturing = FALSE /\ failures = 0 /\ firstKey = FALSE
  /\ exited = "no" /\ missed = 0 /\ first = "none"

Next == \/ \E k \in {"pause", "resume"} : Receive(k)
        \/ CreateInitialize
        \/ \E c \in Commands : Command(c)
        \/ Worker \/ DeviceChanges

Spec == Init /\ [][Next]_vars

\* Threads run; a device that is gone comes back, and is opened in the end by a
\* command that keeps trying.
FairSpec ==
  /\ Spec
  /\ \A c \in Commands : WF_vars(Command(c)) /\ SF_vars(Lock(c))
  /\ \A c \in Commands : SF_vars(ResumeInitialize(c))
  /\ SF_vars(CreateInitialize) /\ WF_vars(device = "absent" /\ DeviceChanges)
  /\ WF_vars(Worker)
-----------------------------------------------------------------------------
\* Every variable keeps its type, and the failures stay within the limit.
TypeOK ==
  /\ issued \in 0..MaxCommands
  /\ kind \in [Commands -> {"none", "start", "pause", "resume"}]
  /\ pc \in [Commands -> {"idle", "initialize", "lock", "unlock", "open",
                          "allocate", "queue", "abort", "join", "off", "done"}]
  /\ mutex \in Commands \cup {NoCommand} /\ overlap \in BOOLEAN
  /\ device \in {"good", "stuck", "absent"} /\ fd \in {"closed", "open", "gone"}
  /\ driver \subseteq Buffers
  /\ worker \in {"none", "loop", "select", "emit", "requeue", "dead"}
  /\ held \in Buffers \cup {NoBuffer}
  /\ abort \in BOOLEAN /\ capturing \in BOOLEAN /\ firstKey \in BOOLEAN
  /\ failures \in 0..MaxFailures /\ missed \in Nat
  /\ exited \in {"no", "gone", "queued", "stuck"}
  /\ first \in {"none", "key", "delta"}

\* "StopCapture joins it before touching fd_, so fd_ access stays
\* single-threaded" (v4l2_capturer.h:104): no command uses the descriptor while
\* the worker runs, and no two commands do.
SingleThreadedFd ==
  /\ \A c \in Commands : pc[c] \in {"open", "allocate", "queue", "off"}
                         => worker \in {"none", "dead"}
  /\ \A c, d \in Commands :
       {pc[c], pc[d]} \subseteq {"open", "allocate", "queue", "off"} => c = d

\* The process never gives up over its own commands: no sequence of pauses and
\* resumes queues a buffer twice.
NoSelfExit == exited # "queued"

\* Racing commands and the capture thread keep out of each other's way
\* (v4l2_capturer.h:104).
ThreadInv == TypeOK /\ SingleThreadedFd /\ NoSelfExit

\* No buffer leaks: on a device that is there each is in the driver's hands or
\* in the worker's, and none is in the driver's while the capture is paused.
BuffersKept ==
  /\ worker # "none" /\ fd = "open" => Buffers \ driver = {held} \ {NoBuffer}
  /\ ~capturing => driver = {}

\* The process exits over a stuck camera only when the current session has had
\* that many failures in a row, whatever sessions came before
\* (v4l2_capturer.cpp:474, :694).
StuckIsReal == exited = "stuck" => missed >= MaxFailures

\* The first frame of every session of a hardware H.264 camera is a keyframe.
FirstIsKey == H264 => first # "delta"

\* A session of streaming owes nothing to the one before: it has all the buffers,
\* no failures, and starts with a keyframe (v4l2_capturer.cpp:681-698).
SessionInv == BuffersKept /\ StuckIsReal /\ FirstIsKey

\* When all commands have returned the camera is as the last one wanted it
\* ("concurrent commands are safe", conductor.cpp:672), if each was received
\* after the one before had returned.
LastCommandWins ==
  Running /\ ~overlap /\ issued > 0 /\ (\A c \in Commands : pc[c] \in {"idle", "done"})
  => capturing = (kind[issued] = "resume")

\* Every command returns, unless the process exits to be restarted: none waits
\* for the mutex or for the capture thread forever.
CommandsReturn == []<>(Running => \A c \in Commands : pc[c] \in {"idle", "done"})
=============================================================================
