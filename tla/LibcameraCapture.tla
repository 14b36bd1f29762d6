--------------------------- MODULE LibcameraCapture ---------------------------
(***************************************************************************)
(* LibcameraCapturer (src/src/capturer/libcamera_capturer.cpp) under the    *)
(* capture commands of Conductor::TryHandleCaptureCommand, each of which    *)
(* runs on a detached thread of its own.  Nothing serializes them: running_ *)
(* and stopping_ are atomics that are read and written between the calls to *)
(* libcamera, and a step ends at each of these.  Command 0 is Create.       *)
(***************************************************************************)
EXTENDS Naturals

CONSTANTS
  Requests,    \* the camera's requests
  MaxCommands  \* bound: number of commands

ASSUME LibcameraAssumption == Requests # {} /\ MaxCommands \in Nat

Commands == 0..MaxCommands

VARIABLES
  issued, kind, pc, \* commands received, what they are, and where they are
  overlap,          \* history: one was received before the last had returned
  camera,           \* libcamera's state: "configured", "running", "stopping"
  allocated,        \* requests_ is not empty
  queued,           \* the requests libcamera has
  toQueue,          \* of each command: the requests its loop has still to queue
  running,          \* running_
  stopping,         \* stopping_
  exited            \* why the process has exited, or "no"

cmdVars == <<issued, kind, pc, overlap>>
camVars == <<camera, allocated, queued, toQueue>>
vars == <<cmdVars, camVars, running, stopping, exited>>

Running == exited = "no"
At(c, label) == Running /\ pc[c] = label

\* Command c goes from one label to the next.
Go(c, from, to) == /\ At(c, from)
                   /\ pc' = [pc EXCEPT ![c] = to]
                   /\ UNCHANGED <<issued, kind, overlap, exited>>

Exit(why) == exited' = why /\ UNCHANGED <<cmdVars, camVars>>
-----------------------------------------------------------------------------
Receive(k) ==
  /\ Running /\ issued < MaxCommands /\ pc[0] = "done"
  /\ overlap' = (overlap \/ pc[issued] # "done")
  /\ issued' = issued + 1
  /\ kind' = [kind EXCEPT ![issued + 1] = k]
  /\ pc' = [pc EXCEPT ![issued + 1] = "check"]
  /\ UNCHANGED <<camVars, running, stopping, exited>>

\* The guard on running_ that StopCapture and ResumeCapture begin with.
Check(c) ==
  /\ Go(c, "check", IF kind[c] = "pause" THEN IF running THEN "stopping" ELSE "done"
                    ELSE IF running THEN "done"
                    ELSE IF allocated THEN "start" ELSE "configure")
  /\ UNCHANGED <<camVars, running, stopping>>
-----------------------------------------------------------------------------
(***************************************************************************)
(* StartCapture and ResumeCapture.                                          *)
(***************************************************************************)

AllocateBuffer == allocated' = TRUE

\* camera_->configure(), refused by a running camera, and AllocateBuffer, which exits
\* if there are not as many buffers as asked for.
Configure(c) ==
  /\ \/ /\ camera = "configured"
        /\ Go(c, "configure", "start")
        /\ AllocateBuffer
        /\ UNCHANGED <<camera, queued, toQueue>>
     \/ /\ camera = "configured" /\ At(c, "configure")
        /\ Exit("allocate")
     \/ /\ camera # "configured" /\ At(c, "configure")
        /\ Exit("configure")
  /\ UNCHANGED <<running, stopping>>

\* camera_->start(), refused unless the camera is configured and not running.
CameraStart(c) ==
  /\ \/ /\ camera = "configured"
        /\ Go(c, "start", "queue")
        /\ camera' = "running"
        /\ toQueue' = [toQueue EXCEPT ![c] = Requests]
        /\ UNCHANGED <<allocated, queued>>
     \/ /\ camera # "configured" /\ At(c, "start")
        /\ Exit("start")
  /\ UNCHANGED <<running, stopping>>

\* camera_->queueRequest(): refused if the camera is not running any more; then
\* stopping it once more does nothing.
QueueRequest(c, r) ==
  /\ At(c, "queue") /\ r \in toQueue[c]
  /\ queued' = IF camera = "running" THEN queued \cup {r} ELSE queued
  /\ toQueue' = [toQueue EXCEPT ![c] = @ \ {r}]
  /\ UNCHANGED <<cmdVars, camera, allocated, running, stopping, exited>>

RequestsQueued(c) ==
  /\ Go(c, "queue", "started") /\ toQueue[c] = {}
  /\ UNCHANGED <<camVars, running, stopping>>

SetRunning(c) ==
  /\ Go(c, "started", "done")
  /\ running' = TRUE
  /\ UNCHANGED <<camVars, stopping>>
-----------------------------------------------------------------------------
(***************************************************************************)
(* StopCapture, and RequestComplete on libcamera's thread.                  *)
(***************************************************************************)

SetStopping(c) ==
  /\ Go(c, "stopping", "stop")
  /\ stopping' = TRUE
  /\ UNCHANGED <<camVars, running>>

\* camera_->stop(): nothing to do for a camera that is not running.
CameraStop(c) ==
  /\ \/ /\ camera = "running"
        /\ Go(c, "stop", "cancel")
        /\ camera' = "stopping"
     \/ /\ camera # "running"
        /\ Go(c, "stop", "stopped")
        /\ UNCHANGED camera
  /\ UNCHANGED <<allocated, queued, toQueue, running, stopping>>

\* mutant: a cancelled request is queued again
MutWithout(r) == queued

Without(r) == queued \ {r}

\* Each request is cancelled before stop() returns: RequestComplete ignores it
\* while stopping_ is set, and exits otherwise.
Cancelled(c, r) ==
  /\ At(c, "cancel") /\ r \in queued
  /\ \/ /\ stopping
        /\ queued' = Without(r)
        /\ UNCHANGED <<cmdVars, camera, allocated, toQueue, exited>>
     \/ /\ ~stopping
        /\ Exit("cancelled")
  /\ UNCHANGED <<running, stopping>>

CameraStopped(c) ==
  /\ Go(c, "cancel", "stopped") /\ queued = {}
  /\ camera' = "configured"
  /\ UNCHANGED <<allocated, queued, toQueue, running, stopping>>

ClearStopping(c) ==
  /\ Go(c, "stopped", "idle")
  /\ stopping' = FALSE
  /\ UNCHANGED <<camVars, running>>

\* mutant: running_ stays set
MutClearRunning(c) == Go(c, "idle", "done") /\ UNCHANGED <<camVars, running, stopping>>

ClearRunning(c) ==
  /\ Go(c, "idle", "done")
  /\ running' = FALSE
  /\ UNCHANGED <<camVars, stopping>>

Command(c) == \/ Check(c) \/ Configure(c) \/ CameraStart(c)
              \/ (\E r \in Requests : QueueRequest(c, r)) \/ RequestsQueued(c)
              \/ SetRunning(c) \/ SetStopping(c) \/ CameraStop(c)
              \/ (\E r \in Requests : Cancelled(c, r))
              \/ CameraStopped(c) \/ ClearStopping(c) \/ ClearRunning(c)

\* The camera is unplugged: CameraDisconnected exits.
Disconnected ==
  /\ Running
  /\ Exit("disconnected")
  /\ UNCHANGED <<running, stopping>>
-----------------------------------------------------------------------------
\* LibcameraCapturer::Create configures and starts, whatever --start-passive says.
Init ==
  /\ issued = 0 /\ overlap = FALSE
  /\ kind = [c \in Commands |-> IF c = 0 THEN "start" ELSE "none"]
  /\ pc = [c \in Commands |-> IF c = 0 THEN "configure" ELSE "received"]
  /\ camera = "configured" /\ allocated = FALSE /\ queued = {}
  /\ toQueue = [c \in Commands |-> {}]
  /\ running = FALSE /\ stopping = FALSE /\ exited = "no"

Next == \/ \E k \in {"pause", "resume"} : Receive(k)
        \/ \E c \in Commands : Command(c)
        \/ Disconnected

Spec == Init /\ [][Next]_vars

FairSpec == Spec /\ \A c \in Commands : WF_vars(Command(c))
-----------------------------------------------------------------------------
\* Every variable keeps its type, and only requests that exist are queued.
TypeOK ==
  /\ issued \in Commands
  /\ kind \in [Commands -> {"none", "start", "pause", "resume"}]
  /\ pc \in [Commands -> {"received", "check", "configure", "start", "queue",
                          "started", "stopping", "stop", "cancel", "stopped",
                          "idle", "done"}]
  /\ camera \in {"configured", "running", "stopping"}
  /\ queued \subseteq (IF allocated THEN Requests ELSE {})
  /\ toQueue \in [Commands -> SUBSET Requests]
  /\ allocated \in BOOLEAN /\ running \in BOOLEAN
  /\ stopping \in BOOLEAN /\ overlap \in BOOLEAN
  /\ exited \in {"no", "configure", "allocate", "start", "cancelled", "disconnected"}

\* "The capturer serializes start/stop/resume internally, so concurrent commands
\* are safe" (conductor.cpp:673): the process exits only for an unplugged camera, or
\* when Create gets no buffers.
NoSelfExit == exited \in {"no", "allocate", "disconnected"}

\* The same for commands that do not overlap: no sequence of them makes libcamera
\* refuse a call, or a request come back cancelled when nothing stops the camera.
NoSelfExitAlone == overlap \/ NoSelfExit

Settled == Running /\ \A c \in Commands : pc[c] \in {"received", "done"}

\* Between commands that do not overlap the flags tell the truth: the camera
\* runs, with every request queued, exactly when running_ is set, which is as the
\* last command wanted it, and stopping_ is down.
FlagsAgree ==
  Settled /\ ~overlap
  => /\ running = (camera = "running")
     /\ queued = (IF running THEN Requests ELSE {})
     /\ ~stopping
     /\ issued > 0 => running = (kind[issued] = "resume")

\* One command after the other is safe, and the flags say what it did.
CommandInv == TypeOK /\ NoSelfExitAlone /\ FlagsAgree

\* Every command returns, unless the process exits: stop() has its requests
\* back, however many commands race.
CommandsReturn ==
  []<>(Running => \A c \in Commands : pc[c] \in {"received", "done"})
=============================================================================
