------------------------------ MODULE FrameCodec ------------------------------
(***************************************************************************)
(* The hardware frame processors (IFrameProcessor): the V4L2 memory-to-     *)
(* memory codecs (V4L2Codec: encoder, decoder, scaler), the Jetson encoder  *)
(* and the Jetson scaler, each with the caller that creates it on its first *)
(* frame and releases it.                                                   *)
(*                                                                          *)
(* Threads.  The caller runs EmplaceBuffer, the destructor and the next     *)
(* creation.  The worker is Worker("...", CaptureBuffer), and for the       *)
(* Jetson encoder the DQ thread of its capture plane.  The device, the      *)
(* decoder's too, takes the frames one after the other and makes one of each. *)
(*                                                                          *)
(* A callback is identified with the number of the frame it was given for.  *)
(***************************************************************************)
EXTENDS Naturals, Sequences, FiniteSets, Functions

CONSTANTS
  Kinds,      \* the processors considered
  BufferNum,  \* BUFFER_NUM, num_buffer_: buffers on either side
  QueueMax,   \* the bound of a ThreadSafeQueue that is given none: 8
  MaxFrames,  \* bound: frames the caller offers
  MaxFaults   \* bound: calls to the driver that fail

V4l2Kinds == {"encoder", "decoder", "scaler"}

ASSUME CodecAssumption ==
  /\ Kinds \subseteq V4l2Kinds \cup {"jetsonEncoder", "jetsonScaler"}
  /\ {BufferNum, QueueMax} \subseteq Nat \ {0} /\ 2 * BufferNum <= QueueMax
  /\ {MaxFrames, MaxFaults} \subseteq Nat

Bufs == 0 .. BufferNum - 1
NoFrame == 0
Eos == MaxFrames + 1 \* the frame without bytes that ends the stream

VARIABLES
  kind,      \* which processor it is
  life,      \* "none", "up", "joining" (in the destructor), or "dead" (exit)
  abort,     \* abort_
  offered,   \* frames offered to EmplaceBuffer so far
  emplacing, \* the buffer and frame of an EmplaceBuffer that has not registered
             \* its callback yet, or None
  free,      \* output_buffer_index_, free_buffers_
  inQ,       \* the driver's input: buffers and frames, in order
  outDone,   \* input buffers that the device has read
  capFree,   \* empty capture buffers in the driver
  capDone,   \* filled capture buffers: buffers and frames, in order
  tasks,     \* capturing_tasks_ (of the Jetson scaler: with the buffer)
  worker,    \* "loop", "dequeue", "call", "requeue" or "ended"
  got,       \* the capture buffer and frame the worker holds, or None
  called,    \* history: the last callback that was called, and the frame it got
  raced,     \* history: a frame came out before its callback was registered
  faults     \* calls to the driver that have failed

callerVars == <<kind, life, abort, offered>>
inVars     == <<free, inQ, outDone, emplacing>>
capVars    == <<capFree, capDone>>
workVars   == <<worker, got, called, raced>>
vars == <<callerVars, inVars, capVars, tasks, workVars, faults>>

None == [buf |-> BufferNum, frame |-> NoFrame]
Item(b, f) == [buf |-> b, frame |-> f]
Items(q) == {q[i].buf : i \in DOMAIN q}
V4l2 == kind \in V4l2Kinds
Up == life = "up"

\* The bound of capturing_tasks_: the Jetson scaler's is its number of buffers.
TaskMax == IF kind = "jetsonScaler" THEN BufferNum ELSE QueueMax

\* A call to the driver fails.
Fault == faults < MaxFaults /\ faults' = faults + 1
-----------------------------------------------------------------------------
(***************************************************************************)
(* Creation: all the buffers are allocated, the capture buffers queued, and *)
(* the thread is started.                                                   *)
(***************************************************************************)
Created(k, inputs, captures) ==
  /\ life = "none" /\ kind \in k /\ offered < MaxFrames
  /\ life' = "up" /\ abort' = FALSE /\ worker' = "loop"
  /\ free' = inputs /\ capFree' = captures
  /\ inQ' = <<>> /\ outDone' = <<>> /\ capDone' = <<>> /\ tasks' = <<>>
  /\ UNCHANGED <<kind, offered, emplacing, got, called, raced, faults>>

\* PrepareBuffer: the output buffers are free, the capture buffers queued.
PrepareBuffer == Bufs

CreateEncoder == Created({"encoder"}, Bufs, PrepareBuffer)
CreateDecoder == Created({"decoder"}, Bufs, PrepareBuffer)
CreateScaler == Created({"scaler"}, Bufs, PrepareBuffer)

\* The Jetson encoder's output buffers are told apart by number only.
PrepareCaptureBuffer == Bufs
CreateJetsonEncoder == Created({"jetsonEncoder"}, {}, PrepareCaptureBuffer)

\* The Jetson scaler has one set of buffers.
CreateJetsonScaler == Created({"jetsonScaler"}, Bufs, {})

\* A processor that could not be created is used.
Unusable(k) ==
  /\ life = "none" /\ kind \in k /\ offered < MaxFrames /\ Fault
  /\ life' = "dead"
  /\ UNCHANGED <<kind, abort, offered, inVars, capVars, tasks, workVars>>

\* OpenDevice throws.
OpenDevice == Unusable(V4l2Kinds)

\* A step of the configuration fails, and Create returns nullptr.
CreateVideoEncoder == Unusable({"jetsonEncoder"})
Initialize == Unusable({"jetsonScaler"})

Create == \/ CreateEncoder \/ CreateDecoder \/ CreateScaler
          \/ CreateJetsonEncoder \/ CreateJetsonScaler
          \/ OpenDevice \/ CreateVideoEncoder \/ Initialize
-----------------------------------------------------------------------------
(***************************************************************************)
(* EmplaceBuffer.                                                           *)
(***************************************************************************)
Offer == /\ Up /\ emplacing = None /\ offered < MaxFrames
         /\ offered' = offered + 1
         /\ UNCHANGED <<kind, life, abort, capVars, tasks, workVars>>

\* No free buffer: the frame is dropped.
EmplaceDrops ==
  /\ Offer /\ kind # "jetsonEncoder" /\ free = {}
  /\ UNCHANGED <<inVars, faults>>

\* V4L2Codec: the frame is copied or its DMA descriptor set, and queued.
EmplaceV4l2(b) ==
  /\ Offer /\ V4l2 /\ b \in free
  /\ inQ' = Append(inQ, Item(b, offered'))
  /\ free' = free \ {b}
  /\ emplacing' = Item(b, offered')
  /\ UNCHANGED <<outDone, faults>>

\* A frame that cannot be queued is dropped, and its buffer given back.
EmplaceFails(b) ==
  /\ Offer /\ kind # "jetsonEncoder" /\ b \in free /\ Fault
  /\ UNCHANGED inVars

\* JetsonScaler: NvTransform is synchronous.
EmplaceTransform(b) ==
  /\ Offer /\ kind = "jetsonScaler" /\ b \in free
  /\ free' = free \ {b}
  /\ emplacing' = Item(b, offered')
  /\ UNCHANGED <<inQ, outDone, faults>>

\* JetsonEncoder: the buffers in the driver, among them those it has read.
NumQueued == Len(inQ) + Len(outDone)
Queued == Items(inQ) \cup Range(outDone)

PlaneFull == NumQueued = BufferNum

\* The oldest buffer is taken back when all are queued, or else the next one
\* is used: getNthBuffer(getNumQueuedBuffers()).
NextBuffer == IF PlaneFull THEN outDone[1] ELSE NumQueued

EmplaceJetson ==
  /\ Offer /\ kind = "jetsonEncoder" /\ ~abort
  /\ PlaneFull => outDone # <<>>
  /\ outDone' = IF PlaneFull THEN Tail(outDone) ELSE outDone
  /\ LET b == NextBuffer
         refused == ~PlaneFull /\ b \in Queued
     IN  /\ inQ' = IF refused THEN inQ ELSE Append(inQ, Item(b, offered'))
         /\ emplacing' = IF refused THEN None ELSE Item(b, offered')
  /\ UNCHANGED <<free, faults>>

\* dqBuffer gives up after ten attempts; nothing is accepted after an error.
EmplaceJetsonDrops ==
  /\ Offer /\ kind = "jetsonEncoder"
  /\ abort \/ (PlaneFull /\ outDone = <<>>)
  /\ UNCHANGED <<inVars, faults>>

\* qBuffer fails: a buffer that was taken back stays outside.
EmplaceJetsonFails ==
  /\ Offer /\ kind = "jetsonEncoder" /\ ~abort /\ Fault
  /\ PlaneFull => outDone # <<>>
  /\ outDone' = IF PlaneFull THEN Tail(outDone) ELSE outDone
  /\ UNCHANGED <<free, inQ, emplacing>>

\* capturing_tasks_.push(on_capture): refused in silence when the queue is full.
Register ==
  /\ emplacing # None
  /\ tasks' = IF Len(tasks) < TaskMax THEN Append(tasks, emplacing) ELSE tasks
  /\ emplacing' = None
  /\ UNCHANGED <<callerVars, free, inQ, outDone, capVars, workVars, faults>>
-----------------------------------------------------------------------------
(***************************************************************************)
(* The device.                                                              *)
(***************************************************************************)
Process ==
  /\ life \in {"up", "joining"} /\ inQ # <<>> /\ capFree # {}
  /\ \E c \in capFree : /\ capFree' = capFree \ {c}
                        /\ capDone' = Append(capDone, Item(c, inQ[1].frame))
  /\ outDone' = Append(outDone, inQ[1].buf)
  /\ inQ' = Tail(inQ)
  /\ UNCHANGED <<callerVars, free, emplacing, tasks, workVars, faults>>

\* The decoder's device reports another resolution, or the end of the stream:
\* HandleEvent throws in SetFormat, as 0x0 is never the driver's size, or exits.
DecoderEvent ==
  /\ Up /\ kind = "decoder" /\ ~abort /\ worker = "loop" /\ Fault
  /\ life' = "dead"
  /\ UNCHANGED <<kind, abort, offered, inVars, capVars, tasks, workVars>>
-----------------------------------------------------------------------------
(***************************************************************************)
(* The worker: V4L2Codec::CaptureBuffer.                                    *)
(***************************************************************************)
Running == life \in {"up", "joining"}
Goes(label) == worker' = label /\ UNCHANGED <<callerVars, emplacing, inQ>>

\* select: a filled capture buffer.
Select ==
  /\ Running /\ V4l2 /\ worker = "loop" /\ ~abort /\ capDone # <<>>
  /\ Goes("dequeue")
  /\ UNCHANGED <<free, outDone, capVars, tasks, got, called, raced, faults>>

\* VIDIOC_DQBUF on the output side blocks until the device has read a buffer.
DequeueOutput ==
  /\ Running /\ V4l2 /\ worker = "dequeue" /\ outDone # <<>>
  /\ free' = free \cup {outDone[1]}
  /\ outDone' = Tail(outDone)
  /\ Goes("take")
  /\ UNCHANGED <<capVars, tasks, got, called, raced, faults>>

DequeueCapture ==
  /\ Running /\ V4l2 /\ worker = "take"
  /\ got' = capDone[1] /\ capDone' = Tail(capDone)
  /\ Goes("call")
  /\ UNCHANGED <<free, outDone, capFree, tasks, called, raced, faults>>

\* Either call fails: CaptureBuffer returns.
DequeueFails ==
  /\ Running /\ V4l2 /\ worker \in {"dequeue", "take"} /\ Fault
  /\ Goes("loop")
  /\ UNCHANGED <<free, outDone, capVars, tasks, got, called, raced>>

\* The DQ thread of the Jetson encoder dequeues a capture buffer.
DequeueJetson ==
  /\ Running /\ kind = "jetsonEncoder" /\ worker = "loop" /\ capDone # <<>>
  /\ got' = capDone[1] /\ capDone' = Tail(capDone)
  /\ Goes("call")
  /\ UNCHANGED <<free, outDone, capFree, tasks, called, raced, faults>>

\* It cannot: the encoder gives up.
DequeueJetsonFails ==
  /\ Running /\ kind = "jetsonEncoder" /\ worker = "loop" /\ Fault
  /\ worker' = "ended" /\ abort' = TRUE
  /\ UNCHANGED <<kind, life, offered, inVars, capVars, tasks, got, called, raced>>

\* mutant: front instead of pop
MutPeeked == [task |-> tasks[1], rest |-> tasks]

\* mutant: the newest callback is popped
MutNewest == [task |-> tasks[Len(tasks)], rest |-> SubSeq(tasks, 1, Len(tasks) - 1)]

\* capturing_tasks_.pop()
Popped == [task |-> tasks[1], rest |-> Tail(tasks)]

\* SendFrame pairs the times of the frame that the callback was made for with the
\* bytes that came out, OnFrame with the image that was scaled.
SendFrame(task) == [task |-> task.frame, frame |-> got.frame]
OnFrame(task) == [task |-> task.frame, frame |-> task.frame]

\* The oldest callback is called with the frame; without one the frame is dropped.
CallEncoded ==
  /\ Running /\ kind # "jetsonScaler" /\ worker = "call" /\ (V4l2 => ~abort)
  /\ IF tasks = <<>>
     THEN UNCHANGED <<tasks, called>>
     ELSE /\ called' = SendFrame(Popped.task)
          /\ tasks' = Popped.rest
  /\ raced' = (raced \/ (tasks = <<>> /\ emplacing # None))
  /\ Goes("requeue")
  /\ UNCHANGED <<free, outDone, capVars, got, faults>>

\* mutant: the capture buffer is not queued again
MutRequeued == capFree

Requeued == capFree \cup {got.buf}

\* The capture buffer goes back to the driver; the Jetson thread ends with the
\* stream.
Requeue ==
  /\ Running /\ worker = "requeue"
  /\ capFree' = Requeued
  /\ got' = None
  /\ Goes(IF got.frame = Eos THEN "ended" ELSE "loop")
  /\ UNCHANGED <<free, outDone, capDone, tasks, called, raced, faults>>

\* It fails: the buffer is lost, and the Jetson encoder gives up.
RequeueFails ==
  /\ Running /\ worker = "requeue" /\ Fault
  /\ got' = None
  /\ worker' = IF V4l2 THEN "loop" ELSE "ended"
  /\ abort' = (abort \/ ~V4l2)
  /\ UNCHANGED <<kind, life, offered, inVars, capVars, tasks, called, raced>>

\* abort_ is looked at after select, before the callback, and by the Worker.
WorkerEnds ==
  /\ Running /\ kind # "jetsonEncoder" /\ abort /\ worker \in {"loop", "call"}
  /\ worker' = "ended" /\ got' = None
  /\ UNCHANGED <<callerVars, inVars, capVars, tasks, called, raced, faults>>
-----------------------------------------------------------------------------
(***************************************************************************)
(* JetsonScaler::CaptureBuffer.                                             *)
(***************************************************************************)
CallScaled ==
  /\ Running /\ kind = "jetsonScaler" /\ worker = "loop" /\ ~abort
  /\ tasks # <<>>
  /\ got' = Popped.task /\ tasks' = Popped.rest
  /\ called' = OnFrame(Popped.task)
  /\ Goes("giveBack")
  /\ UNCHANGED <<free, outDone, capVars, raced, faults>>

GiveBackScaled ==
  /\ Running /\ worker = "giveBack"
  /\ free' = free \cup {got.buf} /\ got' = None
  /\ Goes("loop")
  /\ UNCHANGED <<outDone, capVars, tasks, called, raced, faults>>
-----------------------------------------------------------------------------
(***************************************************************************)
(* Release and the destructors.                                             *)
(***************************************************************************)
\* mutant: abort_ is not set
MutAborted == abort

Aborted == TRUE

\* SendEOS queues an empty buffer: the oldest when all are queued, or else
\* number 0, which the driver refuses while it has it.
EosBuffer == IF PlaneFull /\ outDone # <<>> THEN outDone[1] ELSE 0
EosAccepted == EosBuffer \notin (IF PlaneFull /\ outDone # <<>>
                                 THEN Items(inQ) ELSE Queued)

Release ==
  /\ Up /\ emplacing = None
  /\ life' = "joining" /\ abort' = Aborted
  /\ IF kind = "jetsonEncoder"
     THEN /\ outDone' = IF PlaneFull /\ outDone # <<>> THEN Tail(outDone)
                                                       ELSE outDone
          /\ inQ' = IF EosAccepted THEN Append(inQ, Item(EosBuffer, Eos)) ELSE inQ
     ELSE UNCHANGED <<inQ, outDone>>
  /\ UNCHANGED <<kind, offered, free, emplacing, capVars, tasks, workVars, faults>>

\* The thread has ended: the streams are stopped and the buffers freed.
Released ==
  /\ life = "joining" /\ worker = "ended"
  /\ life' = "none"
  /\ free' = {} /\ capFree' = {} /\ tasks' = <<>>
  /\ inQ' = <<>> /\ outDone' = <<>> /\ capDone' = <<>>
  /\ UNCHANGED <<kind, abort, offered, emplacing, workVars, faults>>
-----------------------------------------------------------------------------
Init ==
  /\ kind \in Kinds /\ life = "none" /\ abort = TRUE /\ offered = 0
  /\ emplacing = None /\ got = None /\ worker = "ended"
  /\ free = {} /\ inQ = <<>> /\ outDone = <<>>
  /\ capFree = {} /\ capDone = <<>> /\ tasks = <<>>
  /\ called = [task |-> NoFrame, frame |-> NoFrame]
  /\ raced = FALSE /\ faults = 0

EmplaceBuffer ==
  \/ EmplaceDrops \/ EmplaceJetson \/ EmplaceJetsonDrops \/ EmplaceJetsonFails
  \/ \E b \in Bufs : EmplaceV4l2(b) \/ EmplaceFails(b) \/ EmplaceTransform(b)

CaptureBuffer ==
  \/ Select \/ DequeueOutput \/ DequeueCapture \/ DequeueJetson
  \/ CallEncoded \/ Requeue \/ WorkerEnds \/ CallScaled \/ GiveBackScaled

Next == \/ Create \/ EmplaceBuffer \/ Register
        \/ Process \/ DecoderEvent
        \/ CaptureBuffer \/ DequeueFails \/ DequeueJetsonFails \/ RequeueFails
        \/ Release \/ Released

Spec == Init /\ [][Next]_vars

\* The threads run and the device works; nobody has to offer a frame.
FairSpec == /\ Spec
            /\ WF_vars(Register) /\ WF_vars(Process)
            /\ WF_vars(CaptureBuffer) /\ WF_vars(Released)
-----------------------------------------------------------------------------
\* Every variable keeps its type, and the queues their bounds.
TypeOK ==
  LET Item_ == [buf : 0..BufferNum, frame : 0..Eos] IN
  /\ kind \in Kinds /\ life \in {"none", "up", "joining", "dead"}
  /\ {abort, raced} \subseteq BOOLEAN
  /\ offered \in 0..MaxFrames /\ faults \in 0..MaxFaults
  /\ free \subseteq Bufs /\ capFree \subseteq Bufs
  /\ {emplacing, got} \subseteq Item_
  /\ inQ \in Seq(Item_) /\ capDone \in Seq(Item_) /\ tasks \in Seq(Item_)
  /\ outDone \in Seq(Bufs)
  /\ worker \in {"loop", "dequeue", "take", "call", "requeue", "giveBack", "ended"}
  /\ called \in [task : 0..MaxFrames, frame : 0..Eos]
  /\ Len(tasks) <= TaskMax

\* No buffer is lost and none is in two hands, as long as the driver refuses
\* nothing: input buffers are free, queued or read, the scaler's are free, at the
\* caller, waiting or at the worker; capture buffers are queued, filled or at the
\* worker.
Holding(n) == IF n = None THEN {} ELSE {n.buf}

Partition(parts, all) ==
  /\ UNION Range(parts) = all
  /\ \A i, j \in DOMAIN parts : i # j => parts[i] \cap parts[j] = {}

BuffersConserved ==
  Up /\ faults = 0 =>
    CASE V4l2 ->
           /\ Partition(<<free, Items(inQ), Range(outDone)>>, Bufs)
           /\ Partition(<<capFree, Items(capDone), Holding(got)>>, Bufs)
      [] kind = "jetsonEncoder" ->
           /\ NumQueued = Cardinality(Queued)
           /\ Partition(<<capFree, Items(capDone), Holding(got)>>, Bufs)
      [] OTHER ->
           Partition(<<free, Holding(emplacing), Items(tasks), Holding(got)>>, Bufs)

\* Queues, buffers and threads are as the codec's bookkeeping says.
BufferInv == TypeOK /\ BuffersConserved

\* "The callback will be triggered with the resulting buffer when processing is
\* completed" (frame_processor.h:49): a callback gets its own frame.  Once a frame
\* has come out before its callback was registered it gets a later one, but
\* never an earlier one, whatever fails.
OwnFrame == /\ called.frame >= called.task
            /\ called.frame = called.task \/ raced

\* FrameCodec implements FramePipe: callbacks at most once and in order.
Pipe == INSTANCE FramePipe WITH latest <- called.task
RefinesPipe == Pipe!Spec

\* The Jetson encoder could not queue the end of the stream.
EosLost == /\ kind = "jetsonEncoder" /\ life = "joining"
           /\ ~ \E i \in DOMAIN inQ : inQ[i].frame = Eos
           /\ ~ \E i \in DOMAIN capDone : capDone[i].frame = Eos
           /\ got.frame # Eos /\ worker # "ended"

\* A release ends, unless the driver has failed or the end of the stream is lost.
ReleaseEnds == life = "joining" ~> (life # "joining" \/ faults > 0 \/ EosLost)
=============================================================================
