------------------------------- MODULE Recorder -------------------------------
(***************************************************************************)
(* RecorderManager (src/src/recorder/recorder_manager.cpp) with the video   *)
(* and audio Recorder objects it drives.                                    *)
(*                                                                          *)
(* Threads.  "cap" is the capture thread: it delivers frames to the         *)
(* callback of SubscribeVideoSource, which in background mode starts the    *)
(* recording and in both modes splits the files.  "cmd" is the rtc          *)
(* signaling thread, on which the data channels deliver START_RECORDING and *)
(* STOP_RECORDING (on-demand mode only).  Each Recorder::Start spawns a     *)
(* Worker thread that encodes the queued frames and writes packets; the     *)
(* audio recorder has one too.                                              *)
(*                                                                          *)
(* Granularity.  A step of a thread ends before the next access to an       *)
(* atomic, a mutex or another thread's object; a block under ctx_mux or     *)
(* encoder_mtx_ is one step.  Start and Stop are procedures: ret[t] is the  *)
(* label thread t returns to.                                               *)
(***************************************************************************)
EXTENDS Naturals, Sequences, FiniteSets

CONSTANTS
  Ctxs,          \* addresses an AVFormatContext can have
  NoCtx,         \* fmt_ctx == nullptr
  Workers,       \* identities of the encoder threads
  NoWorker,      \* an empty unique_ptr<Worker>
  AutoStart,     \* auto_start_: background mode; FALSE is on-demand mode
  H264,          \* the camera delivers H.264 (RawH264Recorder), else raw frames
  HeaderMayFail, \* avformat_write_header can fail
  QueueMax,      \* capacity of frame_buffer_queue
  Duration,      \* config.file_duration
  KeyInterval,   \* longest time between two keyframes of a running camera
  MaxStall,      \* longest time the capture can be paused or stuck
  MaxTime,       \* bound: the clock of the frames stops here
  MaxLost        \* bound: containers that are lost

ASSUME RecorderAssumption ==
  /\ Ctxs # {} /\ NoCtx \notin Ctxs
  /\ Workers # {} /\ NoWorker \notin Workers
  /\ {AutoStart, H264, HeaderMayFail} \subseteq BOOLEAN
  /\ QueueMax \in Nat \ {0}
  /\ Duration \in Nat \ {0}
  /\ {KeyInterval, MaxStall, MaxTime, MaxLost} \subseteq Nat

Threads == {"cap", "cmd"}

VARIABLES
  hasFirstKeyframe, \* has_first_keyframe (atomic)
  timeResetPending, \* time_reset_pending_ (atomic)
  fmtCtx,           \* fmt_ctx, under ctx_mux
  headerWritten,    \* header_written_
  ctx,              \* the containers: "free", allocated with an "open" file, or
                    \* "lost"; and the first video packet
  st,               \* the video recorder's AVStream, as the container owning it
  encoder,          \* the video recorder's AVCodecContext is allocated
  encoding,         \* the encoder has started its stream (has_first_keyframe_
                    \* of RawH264Recorder, encoder_ of Openh264Recorder)
  queue,            \* frame_buffer_queue: TRUE is a keyframe
  worker,           \* the video recorder's unique_ptr<Worker>
  encPc,            \* where each encoder thread is
  encKey,           \* whether the frame or packet it holds is a keyframe
  aborted,          \* workers whose abort_ is set
  audioOn,          \* the audio recorder's worker is running
  audioFifo,        \* the fifo holds a full audio frame
  pc, ret,          \* per thread: next label, return label of Start or Stop
  joining,          \* per thread: the worker it waits for
  frameKey,         \* is_keyframe of the frame in the capture callback
  baseStartTime,    \* base_start_time_
  fileIndex,        \* file_index_
  nextGenerateTime, \* next_generate_time_
  now,              \* timestamp of the last frame
  sinceKey,         \* camera: time since its last keyframe
  fresh, session, fileStart, \* history: see AntiDrift and SegmentLength
  answered          \* history: the answer to the last recording command

flagVars  == <<hasFirstKeyframe, timeResetPending>>
muxVars   == <<fmtCtx, headerWritten, ctx, st, encoder>>
encVars   == <<encoding, queue, worker, encPc, encKey, aborted>>
audioVars == <<audioOn, audioFifo>>
callVars  == <<pc, ret, joining>>
splitVars == <<baseStartTime, fileIndex, nextGenerateTime>>
camVars   == <<frameKey, now, sinceKey>>
histVars  == <<fresh, session, fileStart, answered>>
vars == <<flagVars, muxVars, encVars, audioVars, callVars, splitVars, camVars,
          histVars>>

FreeCtx == [state |-> "free", first |-> "none"]
NewCtx  == [state |-> "open", first |-> "none"]
Lost    == {c \in Ctxs : ctx[c].state = "lost"}

Goto(t, label) == /\ pc' = [pc EXCEPT ![t] = label]
                  /\ UNCHANGED <<ret, joining>>

Call(t, label, back) == /\ pc' = [pc EXCEPT ![t] = label]
                        /\ ret' = [ret EXCEPT ![t] = back]
                        /\ UNCHANGED joining

Return(t) == Goto(t, ret[t])
-----------------------------------------------------------------------------
(***************************************************************************)
(* RecorderManager::Start and Recorder::Start, as thread t runs them.       *)
(***************************************************************************)

\* CreateContainer returns null: no container can be allocated, or its file cannot
\* be opened, and nobody frees it.
CreateFails ==
  \/ UNCHANGED ctx
  \/ \E c \in Ctxs :
       /\ ctx[c].state = "free" /\ Cardinality(Lost) < MaxLost
       /\ ctx' = [ctx EXCEPT ![c].state = "lost"]

\* The new container, under ctx_mux.  fmt_ctx is overwritten whatever it was;
\* when there is none Start returns and the flags keep their value.
StartOpen(t) ==
  /\ pc[t] = "startOpen"
  /\ \/ /\ CreateFails
        /\ fmtCtx' = NoCtx
        /\ Return(t)
        /\ UNCHANGED <<headerWritten, st, encoder>>
     \/ \E c \in Ctxs :
          /\ ctx[c].state = "free"
          /\ ctx' = [ctx EXCEPT ![c] = NewCtx]
          /\ fmtCtx' = c
          /\ st' = c
          /\ encoder' = TRUE
          /\ headerWritten' = FALSE
          /\ Goto(t, "startReset")
  /\ UNCHANGED <<flagVars, encVars, audioVars, splitVars, camVars, histVars>>

\* A worker holds encoder_mtx_ from the encode to the end of the write.
EncoderLocked == \E w \in Workers : encPc[w] = "packet"

\* VideoRecorder::OnStart: the encoder starts a new stream.
StartReset(t) ==
  /\ pc[t] = "startReset"
  /\ ~EncoderLocked
  /\ encoding' = FALSE
  /\ Goto(t, "startSpawn")
  /\ UNCHANGED <<flagVars, muxVars, queue, worker, encPc, encKey, aborted,
                 audioVars, splitVars, camVars, histVars>>

\* The thread of a worker that was never run has nothing to finish.
Discard == [w \in Workers |->
              IF w = worker /\ encPc[w] = "new" THEN "dead" ELSE encPc[w]]

\* The queue is emptied and a new Worker replaces the old one, which is told to
\* stop and is joined before the new one runs.
StartSpawn(t) ==
  /\ pc[t] = "startSpawn"
  /\ queue' = <<>>
  /\ \E w \in Workers :
       /\ encPc[w] = "none"
       /\ worker' = w
       /\ encPc' = [Discard EXCEPT ![w] = "new"]
  /\ aborted' = aborted \cup ({worker} \ {NoWorker})
  /\ joining' = [joining EXCEPT ![t] = worker]
  /\ pc' = [pc EXCEPT ![t] = "startRun"]
  /\ UNCHANGED <<ret, flagVars, muxVars, encoding, encKey, audioVars, splitVars,
                 camVars, histVars>>

\* mutant: the join does not wait for the thread
MutJoined(t) == TRUE

\* Thread t has joined the worker it replaced or reset.
Joined(t) == joining[t] # NoWorker => encPc[joining[t]] = "dead"
Reaped(t) == [w \in Workers |->
                IF w = joining[t] /\ encPc[w] = "dead" THEN "none" ELSE encPc[w]]

\* Worker::Run on the recorder's current worker, then the audio recorder's
\* Start: its fifo is emptied and its worker runs.
StartRun(t) ==
  /\ pc[t] = "startRun"
  /\ Joined(t)
  /\ encPc' = [w \in Workers |-> IF w = worker THEN "loop" ELSE Reaped(t)[w]]
  /\ aborted' = aborted \ {joining[t]}
  /\ joining' = [joining EXCEPT ![t] = NoWorker]
  /\ audioFifo' = FALSE
  /\ audioOn' = TRUE
  /\ pc' = [pc EXCEPT ![t] = "startPending"]
  /\ UNCHANGED <<ret, flagVars, muxVars, encoding, queue, worker, encKey,
                 splitVars, camVars, histVars>>

StartPending(t) ==
  /\ pc[t] = "startPending"
  /\ timeResetPending' = TRUE
  /\ Goto(t, "startDone")
  /\ UNCHANGED <<hasFirstKeyframe, muxVars, encVars, audioVars, splitVars,
                 camVars, histVars>>

StartDone(t) ==
  /\ pc[t] = "startDone"
  /\ hasFirstKeyframe' = TRUE
  /\ Return(t)
  /\ UNCHANGED <<timeResetPending, muxVars, encVars, audioVars, splitVars,
                 camVars, histVars>>

Start(t) == \/ StartOpen(t) \/ StartReset(t) \/ StartSpawn(t) \/ StartRun(t)
            \/ StartPending(t) \/ StartDone(t)
-----------------------------------------------------------------------------
(***************************************************************************)
(* RecorderManager::Stop and Recorder::Stop, as thread t runs them.         *)
(***************************************************************************)

\* mutant: the recording flag stays up while the file is closed
MutStopFlag(t) ==
  /\ pc[t] = "stopFlag"
  /\ Goto(t, "stopReset")
  /\ UNCHANGED <<flagVars, muxVars, encVars, audioVars, splitVars, camVars,
                 histVars>>

StopFlag(t) ==
  /\ pc[t] = "stopFlag"
  /\ hasFirstKeyframe' = FALSE
  /\ Goto(t, "stopReset")
  /\ UNCHANGED <<timeResetPending, muxVars, encVars, audioVars, splitVars,
                 camVars, histVars>>

\* worker.reset(): the pointer is cleared first, then the thread is joined, so
\* that a second thread resetting it has nothing to wait for.
StopReset(t) ==
  /\ pc[t] = "stopReset"
  /\ worker' = NoWorker
  /\ aborted' = aborted \cup ({worker} \ {NoWorker})
  /\ joining' = [joining EXCEPT ![t] = worker]
  /\ encPc' = Discard
  /\ pc' = [pc EXCEPT ![t] = "stopJoin"]
  /\ UNCHANGED <<ret, flagVars, muxVars, encoding, queue, encKey, audioVars,
                 splitVars, camVars, histVars>>

\* The join, avcodec_free_context, and the same for the audio recorder.
StopJoin(t) ==
  /\ pc[t] = "stopJoin"
  /\ Joined(t)
  /\ encPc' = Reaped(t)
  /\ aborted' = aborted \ {joining[t]}
  /\ joining' = [joining EXCEPT ![t] = NoWorker]
  /\ encoder' = FALSE
  /\ audioOn' = FALSE
  /\ pc' = [pc EXCEPT ![t] = "stopClose"]
  /\ UNCHANGED <<ret, flagVars, fmtCtx, headerWritten, ctx, st, encoding, queue,
                 worker, encKey, audioFifo, splitVars, camVars, histVars>>

\* mutant: the pointer to the freed container is kept
MutStopClose(t) ==
  /\ pc[t] = "stopClose"
  /\ ctx' = [c \in Ctxs |-> IF c = fmtCtx THEN FreeCtx ELSE ctx[c]]
  /\ headerWritten' = FALSE
  /\ Return(t)
  /\ UNCHANGED <<fmtCtx, flagVars, st, encoder, encVars, audioVars, splitVars,
                 camVars, histVars>>

\* CloseContext (trailer, close, free) under ctx_mux.
StopClose(t) ==
  /\ pc[t] = "stopClose"
  /\ ctx' = [c \in Ctxs |-> IF c = fmtCtx THEN FreeCtx ELSE ctx[c]]
  /\ fmtCtx' = NoCtx
  /\ headerWritten' = FALSE
  /\ Return(t)
  /\ UNCHANGED <<flagVars, st, encoder, encVars, audioVars, splitVars, camVars,
                 histVars>>

Stop(t) == StopFlag(t) \/ StopReset(t) \/ StopJoin(t) \/ StopClose(t)
-----------------------------------------------------------------------------
(***************************************************************************)
(* WriteIntoFile under ctx_mux: a packet is dropped without an open file,   *)
(* outside a recording, and until a key packet opens the file; a failing    *)
(* header closes the container; and the packet is written.                  *)
(***************************************************************************)
Accepts(key) == fmtCtx # NoCtx /\ hasFirstKeyframe /\ (headerWritten \/ key)

FirstOf(key) == IF key THEN "key" ELSE "delta"

WriteIntoFile(key, video) ==
  \/ /\ ~Accepts(key)
     /\ UNCHANGED <<fmtCtx, headerWritten, ctx>>
  \/ /\ Accepts(key)
     /\ HeaderMayFail /\ ~headerWritten
     /\ ctx' = [ctx EXCEPT ![fmtCtx] = FreeCtx]
     /\ fmtCtx' = NoCtx
     /\ UNCHANGED headerWritten
  \/ /\ Accepts(key)
     /\ headerWritten' = TRUE
     /\ ctx' = IF video /\ ctx[fmtCtx].first = "none"
               THEN [ctx EXCEPT ![fmtCtx].first = FirstOf(key)] ELSE ctx
     /\ UNCHANGED fmtCtx
-----------------------------------------------------------------------------
(***************************************************************************)
(* The encoder threads: Worker::Thread looping over ConsumeBuffer, and the  *)
(* audio recorder's worker.                                                 *)
(***************************************************************************)
EncStep(w, label) == encPc' = [encPc EXCEPT ![w] = label]

\* mutant: the loop does not look at abort_
MutEncLoop(w) ==
  /\ encPc[w] = "loop"
  /\ EncStep(w, "pop")
  /\ UNCHANGED <<flagVars, muxVars, encoding, queue, worker, encKey, aborted,
                 audioVars, callVars, splitVars, camVars, histVars>>

\* The loop condition of Worker::Thread.
EncLoop(w) ==
  /\ encPc[w] = "loop"
  /\ EncStep(w, IF w \in aborted THEN "dead" ELSE "pop")
  /\ UNCHANGED <<flagVars, muxVars, encoding, queue, worker, encKey, aborted,
                 audioVars, callVars, splitVars, camVars, histVars>>

\* frame_buffer_queue.pop(10): a frame, or a timeout.
EncPop(w) ==
  /\ encPc[w] = "pop"
  /\ \/ /\ queue = <<>>
        /\ EncStep(w, "loop")
        /\ UNCHANGED <<queue, encKey>>
     \/ /\ queue # <<>>
        /\ encKey' = [encKey EXCEPT ![w] = Head(queue)]
        /\ queue' = Tail(queue)
        /\ EncStep(w, "frame")
  /\ UNCHANGED <<flagVars, muxVars, encoding, worker, aborted, audioVars,
                 callVars, splitVars, camVars, histVars>>

\* What the encoder makes of a frame when its stream has not started: the raw
\* H.264 recorder waits for a keyframe with SPS and PPS, which params says this
\* one has; the software encoder always opens its stream with a keyframe.
Starts(key, params) == IF H264 THEN key /\ params ELSE TRUE

\* Encode, under encoder_mtx_.
EncEncode(w) ==
  /\ encPc[w] = "frame"
  /\ ~EncoderLocked
  /\ \E params, key \in BOOLEAN :
       LET first == ~encoding IN
       /\ encoding' = (encoding \/ (encoder /\ Starts(encKey[w], params)))
       /\ (H264 => key = encKey[w]) /\ (~H264 /\ first => key)
       /\ encKey' = [encKey EXCEPT ![w] = key]
       /\ EncStep(w, IF encoder /\ encoding' THEN "packet" ELSE "loop")
  /\ UNCHANGED <<flagVars, muxVars, queue, worker, aborted, audioVars, callVars,
                 splitVars, camVars, histVars>>

\* OnEncoded fills the packet from the stream st and hands it to WriteIntoFile.
EncWrite(w) ==
  /\ encPc[w] = "packet"
  /\ WriteIntoFile(encKey[w], TRUE)
  /\ EncStep(w, "loop")
  /\ UNCHANGED <<flagVars, st, encoder, encoding, queue, worker, encKey, aborted,
                 audioVars, callVars, splitVars, camVars, histVars>>

\* The audio capture thread fills the fifo while recording.
AudioCaptured ==
  /\ hasFirstKeyframe /\ ~audioFifo
  /\ audioFifo' = TRUE
  /\ UNCHANGED <<flagVars, muxVars, encVars, audioOn, callVars, splitVars,
                 camVars, histVars>>

\* The audio worker encodes and writes; every AAC packet is a key packet.
AudioWrite ==
  /\ audioOn /\ audioFifo
  /\ audioFifo' = FALSE
  /\ WriteIntoFile(TRUE, FALSE)
  /\ UNCHANGED <<flagVars, st, encoder, encVars, audioOn, callVars, splitVars,
                 camVars, histVars>>

Encoder(w) == EncLoop(w) \/ EncPop(w) \/ EncEncode(w) \/ EncWrite(w)
-----------------------------------------------------------------------------
(***************************************************************************)
(* The capture thread: the camera, and the callback of                      *)
(* SubscribeVideoSource.                                                    *)
(***************************************************************************)

\* mutant: an on-demand manager starts by itself
MutAutoStarts(key) == ~hasFirstKeyframe /\ key

\* Background mode starts recording on a keyframe.
AutoStarts(key) == AutoStart /\ ~hasFirstKeyframe /\ key

\* A frame dt after the last one.  A running camera sends a keyframe every
\* KeyInterval; a stall, of at most MaxStall, ends with a keyframe.
CapFrame(key, dt) ==
  /\ pc["cap"] = "idle"
  /\ now + dt <= MaxTime
  /\ ~H264 => key
  /\ \/ sinceKey + dt <= KeyInterval
     \/ key /\ dt <= MaxStall
  /\ now' = now + dt
  /\ sinceKey' = IF key THEN 0 ELSE sinceKey + dt
  /\ frameKey' = key
  /\ IF AutoStarts(key)
     THEN Call("cap", "startOpen", "gate") /\ fresh' = TRUE
     ELSE Goto("cap", "gate") /\ UNCHANGED fresh
  /\ UNCHANGED <<flagVars, muxVars, encVars, audioVars, splitVars, session,
                 fileStart, answered>>

\* if (has_first_keyframe)
CapGate ==
  /\ pc["cap"] = "gate"
  /\ Goto("cap", IF hasFirstKeyframe THEN "anchor" ELSE "idle")
  /\ UNCHANGED <<flagVars, muxVars, encVars, audioVars, splitVars, camVars,
                 histVars>>

\* When the file of this index ends, counted from the anchor.
SplitTime(index) == index * Duration

\* The first keyframe after a fresh start anchors the split timer.
CapAnchor ==
  /\ pc["cap"] = "anchor"
  /\ IF timeResetPending /\ frameKey
     THEN /\ baseStartTime' = now
          /\ fileIndex' = 1
          /\ nextGenerateTime' = SplitTime(1)
          /\ timeResetPending' = FALSE
          /\ fileStart' = now
          /\ fresh' = FALSE
          /\ session' = IF fresh THEN now ELSE session
     ELSE UNCHANGED <<splitVars, timeResetPending, fileStart, fresh, session>>
  /\ Goto("cap", "split")
  /\ UNCHANGED <<hasFirstKeyframe, muxVars, encVars, audioVars, camVars, answered>>

Elapsed == now - baseStartTime

SplitDue == Elapsed >= nextGenerateTime /\ frameKey

\* Frames are dropped until the timer is anchored; a due file is closed.
CapSplit ==
  /\ pc["cap"] = "split"
  /\ IF timeResetPending THEN Goto("cap", "idle")
     ELSE IF SplitDue THEN Call("cap", "stopFlag", "reopen")
     ELSE Goto("cap", "push")
  /\ UNCHANGED <<flagVars, muxVars, encVars, audioVars, splitVars, camVars,
                 histVars>>

CapReopen ==
  /\ pc["cap"] = "reopen"
  /\ Call("cap", "startOpen", "rotated")
  /\ UNCHANGED <<flagVars, muxVars, encVars, audioVars, splitVars, camVars,
                 histVars>>

\* mutant: the rotation leaves the anchor to be taken again
MutCapRotated ==
  /\ pc["cap"] = "rotated"
  /\ fileIndex' = fileIndex + 1
  /\ nextGenerateTime' = SplitTime(fileIndex')
  /\ fileStart' = now
  /\ Goto("cap", "push")
  /\ UNCHANGED <<flagVars, muxVars, encVars, audioVars, baseStartTime, camVars,
                 fresh, session, answered>>

\* The anchor is kept across a rotation.
CapRotated ==
  /\ pc["cap"] = "rotated"
  /\ timeResetPending' = FALSE
  /\ fileIndex' = fileIndex + 1
  /\ nextGenerateTime' = SplitTime(fileIndex')
  /\ fileStart' = now
  /\ Goto("cap", "push")
  /\ UNCHANGED <<hasFirstKeyframe, muxVars, encVars, audioVars, baseStartTime,
                 camVars, fresh, session, answered>>

\* mutant: the queue has no limit
MutEnqueue(key) == Append(queue, key)

\* ThreadSafeQueue::push.
Enqueue(key) == IF Len(queue) < QueueMax THEN Append(queue, key) ELSE queue

\* VideoRecorder::OnBuffer: the frame is dropped when the queue is full.
CapPush ==
  /\ pc["cap"] = "push"
  /\ queue' = Enqueue(frameKey)
  /\ Goto("cap", "idle")
  /\ UNCHANGED <<flagVars, muxVars, encoding, worker, encPc, encKey, aborted,
                 audioVars, splitVars, camVars, histVars>>

Capture == \/ \E key \in BOOLEAN, dt \in 0..MaxTime : CapFrame(key, dt)
           \/ CapGate \/ CapAnchor \/ CapSplit \/ CapReopen \/ CapRotated
           \/ CapPush
-----------------------------------------------------------------------------
(***************************************************************************)
(* Conductor::StartRecording and Conductor::StopRecording, on the signaling *)
(* thread.  Only the on-demand manager is reachable from there.             *)
(***************************************************************************)
\* mutant: START_RECORDING over an active recording starts another
MutCmdStart ==
  /\ ~AutoStart
  /\ pc["cmd"] = "idle"
  /\ answered' = "none"
  /\ Call("cmd", "startOpen", "started") /\ fresh' = TRUE
  /\ UNCHANGED <<flagVars, muxVars, encVars, audioVars, splitVars, camVars,
                 session, fileStart>>

CmdStart ==
  /\ ~AutoStart
  /\ pc["cmd"] = "idle"
  /\ answered' = "none"
  /\ IF hasFirstKeyframe
     THEN Goto("cmd", "started") /\ UNCHANGED fresh
     ELSE Call("cmd", "startOpen", "started") /\ fresh' = TRUE
  /\ UNCHANGED <<flagVars, muxVars, encVars, audioVars, splitVars, camVars,
                 session, fileStart>>

CmdStop ==
  /\ ~AutoStart
  /\ pc["cmd"] = "idle"
  /\ answered' = "none"
  /\ IF hasFirstKeyframe THEN Call("cmd", "stopFlag", "stopped")
     ELSE Goto("cmd", "stopped")
  /\ UNCHANGED <<flagVars, muxVars, encVars, audioVars, splitVars, camVars,
                 fresh, session, fileStart>>

\* The RecordingResponse.
CmdAnswer ==
  /\ pc["cmd"] \in {"started", "stopped"}
  /\ answered' = pc["cmd"]
  /\ Goto("cmd", "idle")
  /\ UNCHANGED <<flagVars, muxVars, encVars, audioVars, splitVars, camVars,
                 fresh, session, fileStart>>

Commands == CmdStart \/ CmdStop \/ CmdAnswer
-----------------------------------------------------------------------------
Init ==
  /\ hasFirstKeyframe = FALSE /\ timeResetPending = FALSE
  /\ fmtCtx = NoCtx /\ headerWritten = FALSE /\ st = NoCtx /\ encoder = FALSE
  /\ ctx = [c \in Ctxs |-> FreeCtx]
  /\ encoding = FALSE /\ queue = <<>> /\ worker = NoWorker /\ aborted = {}
  /\ encPc = [w \in Workers |-> "none"]
  /\ encKey = [w \in Workers |-> FALSE]
  /\ audioOn = FALSE /\ audioFifo = FALSE
  /\ pc = [t \in Threads |-> "idle"]
  /\ ret = [t \in Threads |-> "idle"]
  /\ joining = [t \in Threads |-> NoWorker]
  /\ frameKey = FALSE /\ now = 0 /\ sinceKey = 0
  /\ baseStartTime = 0 /\ fileIndex = 0 /\ nextGenerateTime = 0
  /\ fresh = FALSE /\ session = 0 /\ fileStart = 0
  /\ answered = "none"

Next == \/ Capture \/ Commands
        \/ \E t \in Threads : Start(t) \/ Stop(t)
        \/ \E w \in Workers : Encoder(w)
        \/ AudioCaptured \/ AudioWrite

Spec == Init /\ [][Next]_vars

\* Every thread keeps running, keyframes keep coming (the camera is configured
\* with an intra period), and now and then a file can be opened.
OpenSucceeds(t) == StartOpen(t) /\ fmtCtx' # NoCtx
KeyFrame == \E dt \in 0..MaxTime : CapFrame(TRUE, dt)

FairSpec ==
  /\ Spec
  /\ WF_vars(CapGate \/ CapAnchor \/ CapSplit \/ CapReopen \/ CapRotated \/ CapPush)
  /\ SF_vars(KeyFrame)
  /\ \A t \in Threads : WF_vars(Start(t) \/ Stop(t)) /\ SF_vars(OpenSucceeds(t))
  /\ \A w \in Workers : WF_vars(Encoder(w))
-----------------------------------------------------------------------------
Labels == {"idle", "gate", "anchor", "split", "reopen", "rotated", "push",
           "started", "stopped", "startOpen", "startReset", "startSpawn",
           "startRun", "startPending", "startDone", "stopFlag", "stopReset",
           "stopJoin", "stopClose"}
EncLabels == {"none", "new", "loop", "pop", "frame", "packet", "dead"}

TypeFlags == hasFirstKeyframe \in BOOLEAN /\ timeResetPending \in BOOLEAN
TypeMux ==
  /\ fmtCtx \in Ctxs \cup {NoCtx} /\ st \in Ctxs \cup {NoCtx}
  /\ headerWritten \in BOOLEAN /\ encoder \in BOOLEAN
  /\ ctx \in [Ctxs -> [state : {"free", "open", "lost"}, first : {"none", "key", "delta"}]]
TypeEnc ==
  /\ encoding \in BOOLEAN
  /\ queue \in Seq(BOOLEAN) /\ Len(queue) <= QueueMax
  /\ worker \in Workers \cup {NoWorker}
  /\ encPc \in [Workers -> EncLabels] /\ encKey \in [Workers -> BOOLEAN]
  /\ aborted \subseteq Workers
TypeAudio == audioOn \in BOOLEAN /\ audioFifo \in BOOLEAN
TypeCall ==
  /\ pc \in [Threads -> Labels] /\ ret \in [Threads -> Labels]
  /\ joining \in [Threads -> Workers \cup {NoWorker}]
TypeSplit == baseStartTime \in Nat /\ fileIndex \in Nat /\ nextGenerateTime \in Nat
TypeCam == frameKey \in BOOLEAN /\ now \in Nat /\ sinceKey \in Nat
TypeHist == /\ fresh \in BOOLEAN /\ session \in Nat /\ fileStart \in Nat
            /\ answered \in {"none", "started", "stopped"}

\* Every variable keeps its type, and the queue its bound.
TypeOK == /\ TypeFlags /\ TypeMux /\ TypeEnc /\ TypeAudio
          /\ TypeCall /\ TypeSplit /\ TypeCam /\ TypeHist

\* The recorder's container pointer never dangles: whatever order recording,
\* splitting and encoding run in, WriteIntoFile and CloseContext only reach a
\* container that has not been freed, and whose file is open.
ContextLive == fmtCtx # NoCtx => ctx[fmtCtx].state = "open"

\* No open file is lost: its container is the recorder's, which will close it.
\* ("repeated Start() over an active recording would create a new fmt_ctx without
\* closing the previous one", conductor.cpp:467.)  Memory is lost all the same,
\* with every file that cannot be opened (CreateFails).
NoFileLost == \A c \in Ctxs : ctx[c].state = "open" => c = fmtCtx

\* The first video packet of every file is a keyframe, although an audio packet
\* may open the file first (recorder_manager.cpp:170).
StartsOnKeyframe == \A c \in Ctxs : ctx[c].first # "delta"

\* The encoder thread stamps its packets from an AVStream whose container is
\* still allocated (the guard of video_recorder.cpp:47).
StreamLive ==
  \A w \in Workers : encPc[w] = "packet" => st # NoCtx /\ ctx[st].state = "open"

\* A rotation keeps the anchor of the session's first keyframe, so that the
\* split times do not drift (recorder_manager.cpp:160).
AntiDrift == pc["cap"] \in {"split", "push"} /\ ~timeResetPending
             => baseStartTime = session

\* A file is closed by the split timer no earlier than one keyframe interval
\* before its nominal duration ("The duration (in seconds) of each video file",
\* parser.cpp:203).
SegmentLength == pc["cap"] = "stopFlag" => now - fileStart + KeyInterval >= Duration

\* Files are split when they should be: by the clock of the session, and not too
\* early (recorder_manager.cpp:160, parser.cpp:203).
SplitTimes == AntiDrift /\ SegmentLength

\* A recording that answered STOP_RECORDING stays stopped until the next
\* command ("runs until an explicit STOP_RECORDING", conductor.cpp:288).
StopIsFinal == answered = "stopped" /\ pc["cmd"] = "idle" /\ pc["cap"] = "idle"
               => ~hasFirstKeyframe

\* The files one after the other: the background recorder implements the
\* abstract recording of RecordingFiles.
Files == INSTANCE RecordingFiles WITH
  recording <- hasFirstKeyframe,
  open <- {c \in Ctxs : ctx[c].state = "open"},
  first <- IF fmtCtx = NoCtx THEN "none" ELSE ctx[fmtCtx].first
RefinesFiles == Files!Spec

\* Background recording always comes back: whatever files fail to open, a
\* recording with an open file is reached again and again (the rotation never
\* waits forever for an encoder thread).
KeepsRecording == []<>(hasFirstKeyframe /\ fmtCtx # NoCtx)
=============================================================================
