----------------------------- MODULE LibcameraProofs -----------------------------
(***************************************************************************)
(* Proofs about LibcameraCapture, for any number of commands and requests:  *)
(* one command after the other never makes the process exit, and leaves the *)
(* flags and the camera in agreement.                                       *)
(***************************************************************************)
EXTENDS LibcameraCapture, TLAPS

Labels == {"received", "check", "configure", "start", "queue", "started",
           "stopping", "stop", "cancel", "stopped", "idle", "done"}
Resuming == {"configure", "start", "queue", "started"}
Pausing == {"stopping", "stop", "cancel", "stopped", "idle"}

\* The commands: the later ones have not begun, Create is over when one is
\* received, and each is in the function it was received for.
Received ==
  /\ \A c \in Commands : pc[c] = "received" <=> c > issued
  /\ issued > 0 => pc[0] = "done"
  /\ \A c \in Commands : c > 0 /\ c <= issued => kind[c] \in {"pause", "resume"}
  /\ \A c \in Commands : pc[c] \in Resuming => kind[c] # "pause"
  /\ \A c \in Commands : pc[c] \in Pausing => kind[c] = "pause"

\* Requests are queued only once they are allocated.
Allocated == \A c \in Commands : pc[c] \in {"start", "queue"} => allocated

\* The camera and the flags, by where the last command is, when none overlapped.
Agreement(label) ==
  /\ stopping <=> label \in {"stop", "cancel", "stopped"}
  /\ label \in {"check", "done"} => camera # "stopping" /\ (running <=> camera = "running")
  /\ label \in Resuming => ~running
  /\ label \in Pausing => running
  /\ label \in {"configure", "start", "stopped", "idle"} => camera = "configured"
  /\ label \in {"queue", "started", "stopping", "stop"} => camera = "running"
  /\ label = "cancel" => camera = "stopping"
  /\ label = "queue" => queued = Requests \ toQueue[issued]
  /\ label \notin {"queue", "cancel"}
     => queued = IF camera = "running" THEN Requests ELSE {}

Solo ==
  ~overlap =>
    /\ NoSelfExit
    /\ \A c \in Commands : c < issued => pc[c] = "done"
    /\ Agreement(pc[issued])
    /\ issued > 0 /\ pc[issued] = "done" => (running <=> kind[issued] = "resume")

\* The inductive invariant.
IInv == TypeOK /\ Received /\ Allocated /\ Solo

LEMMA Numbers ==
  MaxCommands \in Nat /\ 0 \in Commands /\ \A c \in Commands : c \in Nat /\ c >= 0
  BY LibcameraAssumption DEF Commands

LEMMA InitIInv == Init => IInv
<1> SUFFICES ASSUME Init PROVE IInv
  OBVIOUS
<1>1. TypeOK
  BY Numbers DEF Init, TypeOK
<1>2. Received /\ Allocated
  BY Numbers DEF Init, Received, Allocated, Resuming, Pausing
<1>3. Solo
  BY Numbers DEF Init, Solo, Agreement, NoSelfExit, Resuming, Pausing
<1> QED
  BY <1>1, <1>2, <1>3 DEF IInv

\* A command that has something to do is the last one, when none overlapped.
LEMMA Active ==
  ASSUME IInv, NEW c \in Commands, pc[c] \notin {"received", "done"}
  PROVE  /\ issued \in Commands /\ c <= issued
         /\ ~overlap => c = issued
<1>1. issued \in Commands /\ c <= issued
  BY Numbers DEF IInv, TypeOK, Received
<1>2. ASSUME ~overlap PROVE c = issued
  <2>1. ~(c < issued)
    BY <1>2 DEF IInv, Solo
  <2> QED
    BY <1>1, <2>1, Numbers
<1> QED
  BY <1>1, <1>2

\* Where the commands are after a step of c.
LEMMA GoFacts ==
  ASSUME IInv, NEW c \in Commands, NEW from \in Labels, NEW to \in Labels,
         Go(c, from, to)
  PROVE  /\ pc' \in [Commands -> Labels] /\ pc[c] = from /\ exited = "no"
         /\ \A d \in Commands : pc'[d] = IF d = c THEN to ELSE pc[d]
         /\ UNCHANGED <<issued, kind, overlap, exited>>
  BY DEF IInv, TypeOK, Go, At, Running, Labels

\* A command that starts the camera is a resume, unless it is Create.
LEMMA Resumes ==
  ASSUME IInv, NEW c \in Commands, pc[c] \in Resuming, c > 0
  PROVE  kind[c] = "resume"
<1>1. c <= issued
  BY Active DEF Resuming
<1> QED
  BY <1>1 DEF IInv, Received

\* A step of one command from a label to another keeps the invariant if the types,
\* the functions, the allocation and the agreement are kept.
LEMMA StepIInv ==
  ASSUME IInv, NEW c \in Commands,
         NEW from \in Labels \ {"received", "done"}, NEW to \in Labels \ {"received"},
         Go(c, from, to),
         /\ camera' \in {"configured", "running", "stopping"}
         /\ allocated' \in BOOLEAN /\ running' \in BOOLEAN /\ stopping' \in BOOLEAN
         /\ queued' \subseteq (IF allocated' THEN Requests ELSE {})
         /\ toQueue' \in [Commands -> SUBSET Requests],
         /\ to \in Resuming => kind[c] # "pause"
         /\ to \in Pausing => kind[c] = "pause"
         /\ to \in {"start", "queue"} => allocated'
         /\ allocated => allocated',
         ~overlap => Agreement(to)',
         ~overlap /\ to = "done" /\ c > 0 => (running' <=> kind[c] = "resume")
  PROVE  IInv'
<1>1. /\ pc' \in [Commands -> Labels] /\ pc[c] = from /\ exited = "no"
      /\ \A d \in Commands : pc'[d] = IF d = c THEN to ELSE pc[d]
      /\ UNCHANGED <<issued, kind, overlap, exited>>
  BY GoFacts
<1>2. issued \in Commands /\ c <= issued /\ (~overlap => c = issued)
  BY <1>1, Active
<1>3. TypeOK'
  BY <1>1 DEF IInv, TypeOK, Labels
<1>4. Received'
  <2>1. issued > 0 => c # 0 \/ pc[0] = "done"
    BY DEF IInv, Received
  <2>2. issued > 0 => c # 0
    BY <1>1, <2>1 DEF IInv, Received
  <2>3. ~(c > issued)
    BY <1>2, Numbers
  <2> QED
    BY <1>1, <2>2, <2>3, Numbers DEF IInv, Received
<1>5. Allocated'
  BY <1>1 DEF IInv, Allocated
<1>6. Solo'
  <2> SUFFICES ASSUME ~overlap PROVE Solo'
    BY <1>1 DEF Solo
  <2>1. c = issued /\ issued' = issued /\ pc'[c] = to
    BY <1>1, <1>2
  <2>2. NoSelfExit'
    BY <1>1 DEF IInv, Solo, NoSelfExit
  <2>3. \A d \in Commands : d < issued => pc'[d] = "done"
    BY <1>1, <2>1, Numbers DEF IInv, Solo
  <2> QED
    BY <1>1, <2>1, <2>2, <2>3 DEF Solo
<1> QED
  BY <1>3, <1>4, <1>5, <1>6 DEF IInv

LEMMA QueueRequestIInv ==
  ASSUME IInv, NEW c \in Commands, NEW r \in Requests, QueueRequest(c, r)
  PROVE  IInv'
<1> USE DEF QueueRequest
<1>1. pc[c] = "queue" /\ UNCHANGED <<cmdVars, camera, allocated, running, stopping, exited>>
  BY DEF At
<1>2. ~overlap => c = issued /\ Agreement("queue")
  BY <1>1, Active DEF IInv, Solo
<1>3. /\ queued' = (IF camera = "running" THEN queued \cup {r} ELSE queued)
      /\ toQueue' = [toQueue EXCEPT ![c] = toQueue[c] \ {r}] /\ r \in toQueue[c]
      /\ toQueue \in [Commands -> SUBSET Requests] /\ allocated
  BY <1>1 DEF IInv, TypeOK, Allocated
<1> HIDE DEF QueueRequest
<1>4. TypeOK' /\ Received' /\ Allocated'
  BY <1>1, <1>3 DEF IInv, TypeOK, Received, Allocated, cmdVars
<1>5. ~overlap => Agreement("queue")'
  <2> SUFFICES ASSUME ~overlap PROVE Agreement("queue")'
    OBVIOUS
  <2>1. camera = "running" /\ queued = Requests \ toQueue[c] /\ c = issued
    BY <1>2 DEF Agreement
  <2>2. queued' = Requests \ toQueue'[issued]
    BY <1>3, <2>1
  <2> QED
    BY <1>1, <1>2, <2>1, <2>2 DEF Agreement, Resuming, Pausing, cmdVars
<1>6. Solo'
  BY <1>1, <1>2, <1>5 DEF IInv, Solo, NoSelfExit, cmdVars
<1> QED
  BY <1>4, <1>6 DEF IInv

LEMMA RequestsQueuedIInv ==
  ASSUME IInv, NEW c \in Commands, RequestsQueued(c)
  PROVE  IInv'
<1> USE DEF RequestsQueued, camVars
<1>1. pc[c] = "queue" /\ pc[c] \in Labels /\ toQueue[c] = {} /\ issued' = issued
  BY DEF Go, At, Labels
<1>2. ~overlap => c = issued /\ Agreement("queue")
  BY <1>1, Active DEF IInv, Solo
<1>3. ~overlap => Agreement("started")'
  BY <1>1, <1>2 DEF Agreement, Resuming, Pausing, IInv, TypeOK
<1> QED
  BY <1>1, <1>2, <1>3, StepIInv DEF IInv, TypeOK, Received, Allocated, Labels, Resuming, Pausing

LEMMA SetRunningIInv ==
  ASSUME IInv, NEW c \in Commands, SetRunning(c)
  PROVE  IInv'
<1> USE DEF SetRunning, camVars
<1>1. pc[c] = "started" /\ pc[c] \in Labels
  BY DEF Go, At, Labels
<1>2. ~overlap => c = issued /\ Agreement("started")
  BY <1>1, Active DEF IInv, Solo
<1>3. Agreement("started") => Agreement("done")'
  BY DEF Agreement, Resuming, Pausing, IInv, TypeOK
<1>4. c > 0 => kind[c] = "resume"
  BY <1>1, Resumes DEF Resuming
<1> QED
  BY <1>1, <1>2, <1>3, <1>4, StepIInv DEF IInv, TypeOK, Received, Allocated, Labels, Resuming, Pausing

LEMMA SetStoppingIInv ==
  ASSUME IInv, NEW c \in Commands, SetStopping(c)
  PROVE  IInv'
<1> USE DEF SetStopping, camVars
<1>1. pc[c] = "stopping" /\ pc[c] \in Labels
  BY DEF Go, At, Labels
<1>2. ~overlap => c = issued /\ Agreement("stopping")
  BY <1>1, Active DEF IInv, Solo
<1>3. Agreement("stopping") => Agreement("stop")'
  BY DEF Agreement, Resuming, Pausing, IInv, TypeOK
<1> QED
  BY <1>1, <1>2, <1>3, StepIInv DEF IInv, TypeOK, Received, Allocated, Labels, Resuming, Pausing

LEMMA CameraStoppedIInv ==
  ASSUME IInv, NEW c \in Commands, CameraStopped(c)
  PROVE  IInv'
<1> USE DEF CameraStopped, camVars
<1>1. pc[c] = "cancel" /\ pc[c] \in Labels
  BY DEF Go, At, Labels
<1>2. ~overlap => c = issued /\ Agreement("cancel")
  BY <1>1, Active DEF IInv, Solo
<1>3. Agreement("cancel") => Agreement("stopped")'
  BY DEF Agreement, Resuming, Pausing, IInv, TypeOK
<1> QED
  BY <1>1, <1>2, <1>3, StepIInv DEF IInv, TypeOK, Received, Allocated, Labels, Resuming, Pausing

LEMMA ClearStoppingIInv ==
  ASSUME IInv, NEW c \in Commands, ClearStopping(c)
  PROVE  IInv'
<1> USE DEF ClearStopping, camVars
<1>1. pc[c] = "stopped" /\ pc[c] \in Labels
  BY DEF Go, At, Labels
<1>2. ~overlap => c = issued /\ Agreement("stopped")
  BY <1>1, Active DEF IInv, Solo
<1>3. Agreement("stopped") => Agreement("idle")'
  BY DEF Agreement, Resuming, Pausing, IInv, TypeOK
<1> QED
  BY <1>1, <1>2, <1>3, StepIInv DEF IInv, TypeOK, Received, Allocated, Labels, Resuming, Pausing

LEMMA ClearRunningIInv ==
  ASSUME IInv, NEW c \in Commands, ClearRunning(c)
  PROVE  IInv'
<1> USE DEF ClearRunning, camVars
<1>1. pc[c] = "idle" /\ pc[c] \in Labels
  BY DEF Go, At, Labels
<1>2. ~overlap => c = issued /\ Agreement("idle")
  BY <1>1, Active DEF IInv, Solo
<1>3. Agreement("idle") => Agreement("done")'
  BY DEF Agreement, Resuming, Pausing, IInv, TypeOK
<1> QED
  BY <1>1, <1>2, <1>3, StepIInv DEF IInv, TypeOK, Received, Allocated, Labels, Resuming, Pausing

\* The process exits in a command, which can only be one that overlapped another.
LEMMA ExitIInv ==
  ASSUME IInv, NEW why \in {"configure", "allocate", "start", "cancelled", "disconnected"},
         Exit(why), UNCHANGED <<running, stopping>>,
         why \in {"allocate", "disconnected"} \/ overlap
  PROVE  IInv'
<1>1. UNCHANGED <<cmdVars, camVars, running, stopping>> /\ exited' = why
  BY DEF Exit
<1>2. TypeOK' /\ Received' /\ Allocated'
  BY <1>1 DEF IInv, TypeOK, Received, Allocated, cmdVars, camVars
<1>3. Solo'
  BY <1>1 DEF IInv, Solo, Agreement, NoSelfExit, cmdVars, camVars
<1> QED
  BY <1>2, <1>3 DEF IInv

LEMMA CheckIInv ==
  ASSUME IInv, NEW c \in Commands, Check(c)
  PROVE  IInv'
<1> USE DEF Check, camVars
<1>1. pc[c] = "check" /\ UNCHANGED <<camVars, running, stopping>>
  BY DEF Go, At
<1>2. ~overlap => c = issued /\ Agreement("check")
  BY <1>1, Active DEF IInv, Solo
<1>3. c > 0 => kind[c] \in {"pause", "resume"}
  BY <1>1, Active DEF IInv, Received
<1>4. CASE kind[c] = "pause" /\ running
  <2>1. Go(c, "check", "stopping")
    BY <1>4
  <2>2. Agreement("check") => Agreement("stopping")'
    BY <1>1, <1>4 DEF Agreement, Resuming, Pausing
  <2> HIDE DEF Check
  <2> QED
    BY <1>1, <1>2, <1>4, <2>1, <2>2, StepIInv
       DEF IInv, TypeOK, Labels, Resuming, Pausing
<1>5. CASE (kind[c] = "pause" /\ ~running) \/ (kind[c] # "pause" /\ running)
  <2>1. Go(c, "check", "done")
    BY <1>5
  <2>2. Agreement("check") => Agreement("done")'
    BY <1>1 DEF Agreement, Resuming, Pausing
  <2> HIDE DEF Check
  <2> QED
    BY <1>1, <1>2, <1>3, <1>5, <2>1, <2>2, StepIInv
       DEF IInv, TypeOK, Labels, Resuming, Pausing
<1>6. CASE kind[c] # "pause" /\ ~running /\ allocated
  <2>1. Go(c, "check", "start")
    BY <1>6
  <2>2. Agreement("check") => Agreement("start")'
    BY <1>1, <1>6 DEF Agreement, Resuming, Pausing, IInv, TypeOK
  <2> HIDE DEF Check
  <2> QED
    BY <1>1, <1>2, <1>6, <2>1, <2>2, StepIInv
       DEF IInv, TypeOK, Labels, Resuming, Pausing
<1>7. CASE kind[c] # "pause" /\ ~running /\ ~allocated
  <2>1. Go(c, "check", "configure")
    BY <1>7
  <2>2. Agreement("check") => Agreement("configure")'
    BY <1>1, <1>7 DEF Agreement, Resuming, Pausing, IInv, TypeOK
  <2> HIDE DEF Check
  <2> QED
    BY <1>1, <1>2, <1>7, <2>1, <2>2, StepIInv
       DEF IInv, TypeOK, Labels, Resuming, Pausing
<1> QED
  BY <1>4, <1>5, <1>6, <1>7 DEF IInv, TypeOK

LEMMA ConfigureIInv ==
  ASSUME IInv, NEW c \in Commands, Configure(c)
  PROVE  IInv'
<1> USE DEF Configure, AllocateBuffer
<1>1. pc[c] = "configure" /\ UNCHANGED <<running, stopping>>
  BY DEF Go, At
<1>2. ~overlap => c = issued /\ Agreement("configure")
  BY <1>1, Active DEF IInv, Solo
<1>3. CASE camera = "configured" /\ Go(c, "configure", "start")
           /\ allocated' = TRUE /\ UNCHANGED <<camera, queued, toQueue>>
  <2>1. Agreement("configure") => Agreement("start")'
    BY <1>1, <1>3 DEF Agreement, Resuming, Pausing
  <2>2. kind[c] # "pause"
    BY <1>1 DEF IInv, Received, Resuming
  <2> HIDE DEF Configure
  <2> QED
    BY <1>1, <1>2, <1>3, <2>1, <2>2, StepIInv
       DEF IInv, TypeOK, Labels, Resuming, Pausing
<1>4. CASE camera # "configured" /\ Exit("configure")
  <2>1. overlap
    BY <1>2, <1>4 DEF Agreement, IInv, TypeOK
  <2> QED
    BY <1>1, <1>4, <2>1, ExitIInv
<1>5. CASE Exit("allocate")
  BY <1>1, <1>5, ExitIInv
<1> QED
  BY <1>3, <1>4, <1>5

LEMMA CameraStartIInv ==
  ASSUME IInv, NEW c \in Commands, CameraStart(c)
  PROVE  IInv'
<1> USE DEF CameraStart
<1>1. pc[c] = "start" /\ UNCHANGED <<running, stopping>>
  BY DEF Go, At
<1>2. ~overlap => c = issued /\ Agreement("start")
  BY <1>1, Active DEF IInv, Solo
<1>3. CASE camera = "configured" /\ Go(c, "start", "queue")
           /\ camera' = "running" /\ UNCHANGED <<allocated, queued>>
           /\ toQueue' = [toQueue EXCEPT ![c] = Requests]
  <2>0. toQueue' \in [Commands -> SUBSET Requests] /\ toQueue'[c] = Requests
        /\ issued' = issued
    BY <1>3 DEF IInv, TypeOK, Go
  <2>1. c = issued /\ Agreement("start") => Agreement("queue")'
    BY <1>1, <1>3, <2>0 DEF Agreement, Resuming, Pausing
  <2>2. kind[c] # "pause" /\ allocated
    BY <1>1 DEF IInv, Received, Allocated, Resuming
  <2> HIDE DEF CameraStart
  <2> QED
    BY <1>1, <1>2, <1>3, <2>0, <2>1, <2>2, StepIInv
       DEF IInv, TypeOK, Labels, Resuming, Pausing
<1>4. CASE camera # "configured" /\ Exit("start")
  <2>1. overlap
    BY <1>2, <1>4 DEF Agreement, IInv, TypeOK
  <2> QED
    BY <1>1, <1>4, <2>1, ExitIInv
<1> QED
  BY <1>3, <1>4

LEMMA CameraStopIInv ==
  ASSUME IInv, NEW c \in Commands, CameraStop(c)
  PROVE  IInv'
<1> USE DEF CameraStop
<1>1. pc[c] = "stop" /\ UNCHANGED <<allocated, queued, toQueue, running, stopping>>
  BY DEF Go, At
<1>0. UNCHANGED toQueue /\ toQueue \in [Commands -> SUBSET Requests]
  BY DEF IInv, TypeOK
<1>2. ~overlap => c = issued /\ Agreement("stop")
  BY <1>1, Active DEF IInv, Solo
<1>3. kind[c] = "pause"
  BY <1>1 DEF IInv, Received, Pausing
<1>4. CASE camera = "running" /\ Go(c, "stop", "cancel") /\ camera' = "stopping"
  <2>1. Agreement("stop") => Agreement("cancel")'
    BY <1>1, <1>4 DEF Agreement, Resuming, Pausing
  <2> HIDE DEF CameraStop
  <2> QED
    BY <1>0, <1>1, <1>2, <1>3, <1>4, <2>1, StepIInv
       DEF IInv, TypeOK, Labels, Resuming, Pausing
<1>5. CASE camera # "running" /\ Go(c, "stop", "stopped") /\ UNCHANGED camera
  <2>1. overlap
    BY <1>2, <1>5 DEF Agreement, IInv, TypeOK
  <2> HIDE DEF CameraStop
  <2> QED
    BY <1>0, <1>1, <1>3, <1>5, <2>1, StepIInv
       DEF IInv, TypeOK, Labels, Resuming, Pausing
<1> QED
  BY <1>4, <1>5

LEMMA CancelledIInv ==
  ASSUME IInv, NEW c \in Commands, NEW r \in Requests, Cancelled(c, r)
  PROVE  IInv'
<1> USE DEF Cancelled, Without
<1>1. pc[c] = "cancel" /\ UNCHANGED <<running, stopping>>
  BY DEF At
<1>2. ~overlap => c = issued /\ Agreement("cancel")
  BY <1>1, Active DEF IInv, Solo
<1>3. CASE stopping /\ queued' = queued \ {r}
           /\ UNCHANGED <<cmdVars, camera, allocated, toQueue, exited>>
  <2>1. TypeOK' /\ Received' /\ Allocated'
    BY <1>1, <1>3 DEF IInv, TypeOK, Received, Allocated, cmdVars
  <2>2. Agreement("cancel") => Agreement("cancel")'
    BY <1>1, <1>3 DEF Agreement, Resuming, Pausing
  <2>3. Solo'
    BY <1>1, <1>2, <1>3, <2>2 DEF IInv, Solo, NoSelfExit, cmdVars
  <2> QED
    BY <2>1, <2>3 DEF IInv
<1>4. CASE ~stopping /\ Exit("cancelled")
  <2>1. overlap
    BY <1>2, <1>4 DEF Agreement, IInv, TypeOK
  <2> QED
    BY <1>1, <1>4, <2>1, ExitIInv
<1> QED
  BY <1>3, <1>4

LEMMA DisconnectedIInv ==
  ASSUME IInv, Disconnected
  PROVE  IInv'
  BY ExitIInv DEF Disconnected

LEMMA ReceiveIInv ==
  ASSUME IInv, NEW k \in {"pause", "resume"}, Receive(k)
  PROVE  IInv'
<1> USE DEF Receive, camVars
<1>1. issued \in Nat /\ issued \in Commands /\ issued + 1 \in Commands
  BY Numbers DEF IInv, TypeOK, Commands
<1>2. /\ pc' \in [Commands -> Labels]
      /\ \A d \in Commands : pc'[d] = IF d = issued + 1 THEN "check" ELSE pc[d]
  BY <1>1 DEF IInv, TypeOK, Labels
<1>3. /\ kind' \in [Commands -> {"none", "start", "pause", "resume"}]
      /\ \A d \in Commands : kind'[d] = IF d = issued + 1 THEN k ELSE kind[d]
  BY <1>1 DEF IInv, TypeOK
<1>4. TypeOK'
  BY <1>1, <1>2, <1>3 DEF IInv, TypeOK, Labels
<1>5. Received'
  BY <1>1, <1>2, <1>3, Numbers DEF IInv, Received, Resuming, Pausing
<1>6. Allocated'
  BY <1>1, <1>2 DEF IInv, Allocated
<1>7. Solo'
  <2> SUFFICES ASSUME ~overlap' PROVE Solo'
    BY DEF Solo
  <2>1. ~overlap /\ pc[issued] = "done" /\ issued' = issued + 1
    OBVIOUS
  <2>2. ASSUME NEW d \in Commands, d < issued + 1 PROVE pc'[d] = "done"
    <3>1. d < issued \/ d = issued
      BY <1>1, <2>2, Numbers
    <3>2. pc[d] = "done"
      BY <2>1, <3>1 DEF IInv, Solo
    <3> QED
      BY <1>1, <1>2, <2>2, <3>2, Numbers
  <2>3. pc'[issued + 1] = "check" /\ NoSelfExit'
    BY <1>1, <1>2, <2>1 DEF IInv, Solo, NoSelfExit
  <2>4. Agreement("done") => Agreement("check")'
    BY DEF Agreement, Resuming, Pausing
  <2>5. Agreement("check")'
    BY <2>1, <2>4 DEF IInv, Solo
  <2> QED
    BY <2>1, <2>2, <2>3, <2>5 DEF Solo
<1> QED
  BY <1>4, <1>5, <1>6, <1>7 DEF IInv

LEMMA NextIInv == IInv /\ [Next]_vars => IInv'
<1> SUFFICES ASSUME IInv, [Next]_vars PROVE IInv'
  OBVIOUS
<1>1. CASE UNCHANGED vars
  BY <1>1 DEF vars, cmdVars, camVars, IInv, TypeOK, Received, Allocated, Solo, Agreement,
     NoSelfExit
<1>2. ASSUME NEW c \in Commands, Command(c) PROVE IInv'
  BY <1>2, CheckIInv, ConfigureIInv, CameraStartIInv, QueueRequestIInv, RequestsQueuedIInv,
     SetRunningIInv, SetStoppingIInv, CameraStopIInv, CancelledIInv, CameraStoppedIInv, ClearStoppingIInv,
     ClearRunningIInv DEF Command
<1>3. CASE Next
  BY <1>2, <1>3, ReceiveIInv, DisconnectedIInv DEF Next
<1> QED
  BY <1>1, <1>3

THEOREM Invariant == Spec => []IInv
  BY InitIInv, NextIInv, PTL DEF Spec
-----------------------------------------------------------------------------
\* One pause or resume after the other never makes libcamera refuse a call, and the
\* flags and the camera then are as the last one wanted (CommandInv: StartCapture,
\* StopCapture, ResumeCapture, RequestComplete), for any number of them.
THEOREM OneAfterTheOther == Spec => []CommandInv
<1>1. IInv => NoSelfExitAlone
  BY DEF IInv, Solo, NoSelfExitAlone
<1>2. IInv => FlagsAgree
  <2> SUFFICES ASSUME IInv, Settled, ~overlap PROVE FlagsAgree
    BY DEF FlagsAgree
  <2>1. issued \in Commands /\ pc[issued] = "done"
    BY Numbers DEF IInv, TypeOK, Received, Settled
  <2>2. Agreement("done")
    BY <2>1 DEF IInv, Solo
  <2>3. running \in BOOLEAN /\ (running <=> camera = "running") /\ ~stopping
        /\ queued = IF camera = "running" THEN Requests ELSE {}
    BY <2>2 DEF IInv, TypeOK, Agreement
  <2>4. issued > 0 => (running <=> kind[issued] = "resume")
    BY <2>1 DEF IInv, Solo
  <2> QED
    BY <2>3, <2>4 DEF FlagsAgree
<1>3. IInv => CommandInv
  BY <1>1, <1>2 DEF IInv, CommandInv
<1> QED
  BY <1>3, Invariant, PTL
===============================================================================
