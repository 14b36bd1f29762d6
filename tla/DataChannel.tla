------------------------------ MODULE DataChannel ------------------------------
(***************************************************************************)
(* A data channel of a peer (src/src/rtc/rtc_channel.cpp, sfu_channel.cpp)  *)
(* with what Conductor binds to it: the command handlers, the report of the *)
(* recording state, and the local IPC applications in both directions.      *)
(*                                                                          *)
(* Threads.  libwebrtc's signaling thread runs OnStateChange and the        *)
(* handlers; a thread of the IPC server broadcasts what a local application *)
(* writes; SendLoop is the sending thread of an RtcChannel, an SfuChannel   *)
(* sends from the caller's thread; Terminate runs on a thread of its own.   *)
(*                                                                          *)
(* Granularity.  Queuing one packet is one step, as are the steps of        *)
(* SendLoop between two looks at the channel's state.                       *)
(***************************************************************************)
EXTENDS Integers, Sequences, FiniteSets, SequencesExt

CONSTANTS
  Kinds,      \* the channels considered
  ChunkSize,  \* CHUNK_SIZE, in units of data
  Sizes,      \* bound: units of data in a message
  MaxStreams, \* bound: messages sent
  SendRoom    \* MaxSendQueueSize, in packets

\* "command" of a viewer, "ipc" of a viewer, "sfu" of a publisher, and the
\* "subscriber" channel that an SFU opens.
ASSUME ChannelAssumption ==
  /\ Kinds \subseteq {"command", "ipc", "sfu", "subscriber"}
  /\ {ChunkSize, SendRoom} \subseteq Nat \ {0}
  /\ Sizes \subseteq Nat /\ MaxStreams \in Nat

VARIABLES
  kind,
  dc,         \* data_channel->state(): "connecting", "open", "closed"
  buffered,   \* packets in libwebrtc's buffer
  opened,     \* opened_fired_
  queue,      \* send_queue_
  running,    \* send_thread_running_
  sender,     \* SendLoop: "wait", "check", or "ended"
  held,       \* the packets SendLoop has popped: none or one
  registered, \* the IPC server has a callback for the channel
  handler,    \* packets the handler on the signaling thread still has to send
  ipc,        \* packets the IPC thread still has to send, under mutex_
  term,       \* Terminate: "no", "stop", "join", "done"
  streams,    \* messages sent so far
  accepted,   \* history: the packets given to Send
  sent,       \* history: the packets given to libwebrtc
  early       \* history: a packet was given to Send before the channel was open

sendVars == <<queue, held, sender>>
histVars == <<accepted, sent, early>>
workVars == <<handler, ipc, streams>>
termVars == <<running, registered, term>>
vars == <<kind, dc, buffered, opened, sendVars, histVars, workVars, termVars>>

SfuKind == kind \in {"sfu", "subscriber"}
IpcKind == kind \in {"ipc", "sfu"}
-----------------------------------------------------------------------------
(***************************************************************************)
(* Packets.  A message goes out as a header with its length, chunks with    *)
(* their offsets, and a trailer.                                            *)
(***************************************************************************)
Header(id, total) == [stream |-> id, part |-> "header", at |-> 0, size |-> total]
Chunk(id, at, n)  == [stream |-> id, part |-> "chunk", at |-> at, size |-> n]
Trailer(id)       == [stream |-> id, part |-> "trailer", at |-> 0, size |-> 0]
Report == [stream |-> 0, part |-> "report", at |-> 0, size |-> 0]
Packet == [stream : Nat, part : {"header", "chunk", "trailer", "report"},
           at : Nat, size : Nat]

Least(a, b) == IF a < b THEN a ELSE b

\* mutant: the last, shorter chunk is forgotten
MutNumChunks(size) == size \div ChunkSize

NumChunks(size) == (size + ChunkSize - 1) \div ChunkSize

\* Send of size units announced as total.
Stream(id, total, size) ==
  <<Header(id, total)>>
  \o [i \in 1 .. NumChunks(size) |->
        Chunk(id, (i - 1) * ChunkSize,
              Least(ChunkSize, size - (i - 1) * ChunkSize))]
  \o <<Trailer(id)>>

\* The announced length of a file is the one it had when it was opened: a file
\* that is being recorded is longer when it is read.
FileStream(id, total) == {Stream(id, total, total), Stream(id, total, total + 1)}
-----------------------------------------------------------------------------
(***************************************************************************)
(* Send.                                                                    *)
(***************************************************************************)
\* mutant: a packet goes to the front of the queue
MutQueued(p) == <<p>> \o queue

\* send_queue_.push_back
Queued(p) == Append(queue, p)

\* RtcChannel queues whatever the state; SfuChannel sends at once, or drops.
Send(p) ==
  /\ accepted' = Append(accepted, p)
  /\ early' = (early \/ dc = "connecting")
  /\ IF SfuKind
     THEN /\ sent' = IF dc = "open" THEN Append(sent, p) ELSE sent
          /\ UNCHANGED sendVars
     ELSE queue' = Queued(p) /\ UNCHANGED <<held, sender, sent>>

\* The handler that runs on the signaling thread sends its next packet.
HandlerSends ==
  /\ handler # <<>>
  /\ Send(handler[1])
  /\ handler' = Tail(handler)
  /\ UNCHANGED <<kind, dc, buffered, opened, ipc, streams, termVars>>

\* The callback of the IPC server sends its next packet.
IpcSends ==
  /\ ipc # <<>>
  /\ Send(ipc[1])
  /\ ipc' = Tail(ipc)
  /\ UNCHANGED <<kind, dc, buffered, opened, handler, streams, termVars>>
-----------------------------------------------------------------------------
(***************************************************************************)
(* SendLoop.                                                                *)
(***************************************************************************)
Pop ==
  /\ sender = "wait" /\ queue # <<>>
  /\ held' = <<queue[1]>> /\ queue' = Tail(queue)
  /\ sender' = "check"
  /\ UNCHANGED <<kind, dc, buffered, opened, histVars, workVars, termVars>>

\* Stopped, with nothing left to send.
LoopStops ==
  /\ sender = "wait" /\ queue = <<>> /\ ~running
  /\ sender' = "ended"
  /\ UNCHANGED <<kind, dc, buffered, opened, queue, held, histVars, workVars,
                 termVars>>

HasRoom == buffered < SendRoom

\* There is room in libwebrtc's buffer; until then the loop sleeps and looks
\* again.
SendHeld ==
  /\ sender = "check" /\ dc = "open" /\ HasRoom
  /\ sent' = Append(sent, held[1]) /\ held' = <<>>
  /\ buffered' = buffered + 1
  /\ sender' = "wait"
  /\ UNCHANGED <<kind, dc, opened, queue, accepted, early, workVars, termVars>>

GivesUp == dc # "open"

\* The channel is not open: the loop ends, for good.
ChannelNotOpen ==
  /\ sender = "check" /\ GivesUp
  /\ sender' = "ended" /\ held' = <<>>
  /\ UNCHANGED <<kind, dc, buffered, opened, queue, histVars, workVars, termVars>>
-----------------------------------------------------------------------------
(***************************************************************************)
(* The channel, in libwebrtc.                                               *)
(***************************************************************************)
\* OnStateChange(kOpen): the recording state is reported if there is an
\* on-demand recorder.
Opens ==
  /\ dc = "connecting" /\ handler = <<>> /\ term = "no"
  /\ dc' = "open"
  /\ opened' = (kind \in {"command", "sfu"})
  /\ handler' \in IF opened' /\ ~opened THEN {<<Report>>, <<>>} ELSE {<<>>}
  /\ UNCHANGED <<kind, buffered, sendVars, histVars, ipc, streams, termVars>>

\* The other side, or the peer connection, closes it.
Closes ==
  /\ dc # "closed"
  /\ dc' = "closed" /\ buffered' = 0
  /\ UNCHANGED <<kind, opened, sendVars, histVars, workVars, termVars>>

Transmits ==
  /\ buffered > 0
  /\ buffered' = buffered - 1
  /\ UNCHANGED <<kind, dc, opened, sendVars, histVars, workVars, termVars>>
-----------------------------------------------------------------------------
(***************************************************************************)
(* OnMessage: the handlers that Conductor has registered.  Each one is      *)
(* given by the packets it may answer with.                                 *)
(***************************************************************************)
Id == streams + 1

\* A failure is logged and nothing is sent.
TakeSnapshot == {<<>>} \cup {Stream(Id, n, n) : n \in Sizes}

\* One response for each file found, one without a file when there is none.
SendFileResponse(id) == {Stream(id, n, n) : n \in Sizes}
QueryFile ==
  {<<>>} \cup SendFileResponse(Id)
  \cup UNION {{s \o t : t \in SendFileResponse(Id + 1)} : s \in SendFileResponse(Id)}

TransferFile == {<<>>} \cup UNION {FileStream(Id, n) : n \in Sizes}
ControlCamera == {<<>>}
Recording == {<<Report>>}
OnlyReply == {Stream(Id, n, n) : n \in Sizes}

Responses(command) ==
  CASE command = "TAKE_SNAPSHOT" -> TakeSnapshot
    [] command = "QUERY_FILE" -> QueryFile
    [] command = "TRANSFER_FILE" -> TransferFile
    [] command = "CONTROL_CAMERA" -> ControlCamera
    [] command = "RECORDING" -> Recording
    [] OTHER -> {<<>>}

\* RegisterRecordingHandlers and InitializeCommandChannel.
Commands == CASE kind = "command" -> {"TAKE_SNAPSHOT", "QUERY_FILE", "RECORDING",
                                      "TRANSFER_FILE", "CONTROL_CAMERA"}
              [] kind = "sfu" -> {"RECORDING"}
              [] OTHER -> {}

Messages(s) == Cardinality({i \in DOMAIN s : s[i].part \in {"header", "report"}})

Arrives(responses) ==
  /\ dc = "open" /\ handler = <<>>
  /\ \E s \in responses : /\ streams + Messages(s) <= MaxStreams
                          /\ handler' = s
                          /\ streams' = streams + Messages(s)
  /\ UNCHANGED <<kind, dc, buffered, opened, sendVars, histVars, ipc, termVars>>

Command == \E c \in Commands : Arrives(Responses(c))
-----------------------------------------------------------------------------
(***************************************************************************)
(* CUSTOM messages (BindDataChannelToIpcReceiver), by what is in them:      *)
(* whether it is a JSON object, has a "plugin" name, which "cmd" it has,    *)
(* a "domain", and which parameter it names.                                *)
(***************************************************************************)
Customs ==
  [object : BOOLEAN, plugin : BOOLEAN, domain : BOOLEAN,
   cmd : {"none", "capture", "get", "set", "other"},
   param : {"none", "ours", "other"}]

\* The camera: whether there is one, whether it is libcamera, and whether it
\* advertises the parameter.
Cameras == {c \in [source : BOOLEAN, libcamera : BOOLEAN, advertised : BOOLEAN] :
              c.libcamera => c.source}

TryHandleOsdPluginCommand(m) == m.object /\ m.plugin

TryHandleCaptureCommand(m) == m.object /\ m.cmd = "capture"

TryHandleLibcameraControlCommand(m, c) ==
  /\ c.libcamera /\ m.object /\ ~m.domain
  /\ \/ m.cmd = "get" /\ (m.param = "none" \/ (m.param = "ours" /\ c.advertised))
     \/ m.cmd = "set" /\ m.param = "ours"

\* What becomes of a message.
Outcome(m, c) ==
  IF TryHandleOsdPluginCommand(m) THEN "reply"
  ELSE IF TryHandleCaptureCommand(m) THEN "capture"
  ELSE IF TryHandleLibcameraControlCommand(m, c) THEN "reply" ELSE "forward"

\* A reply is sent; ipc_server_->Write takes its mutex_ for a forwarded message.
CustomMessage ==
  /\ kind \in {"ipc", "sfu", "subscriber"}
  /\ \E o \in {Outcome(m, c) : m \in Customs, c \in Cameras} :
       CASE o = "reply" -> Arrives(OnlyReply)
         [] o = "forward" -> ipc = <<>> /\ Arrives({<<>>})
         [] OTHER -> Arrives({<<>>})

\* A local application writes to the IPC server.
Broadcast ==
  /\ registered /\ ipc = <<>> /\ streams < MaxStreams
  /\ ipc' \in OnlyReply
  /\ streams' = streams + 1
  /\ UNCHANGED <<kind, dc, buffered, opened, sendVars, histVars, handler, termVars>>
-----------------------------------------------------------------------------
(***************************************************************************)
(* RtcPeer::Terminate closes the connection, then terminates the channels.  *)
(***************************************************************************)
\* mutant: the channels are terminated before the connection is closed
MutStateAfterClose == dc

StateAfterClose == "closed"

PeerTerminates ==
  /\ term = "no"
  /\ dc' = StateAfterClose
  /\ buffered' = IF dc' = "closed" THEN 0 ELSE buffered
  /\ term' = "stop"
  /\ UNCHANGED <<kind, opened, sendVars, histVars, workVars, running, registered>>

StopLoop ==
  /\ term = "stop"
  /\ running' = FALSE /\ term' = "join"
  /\ UNCHANGED <<kind, dc, buffered, opened, sendVars, histVars, workVars,
                 registered>>

\* mutant: the callback stays registered
MutOnClosed == registered

OnClosed == FALSE

\* Joined: the observer is removed once no handler runs, and the callback once
\* mutex_ is free.
JoinLoop ==
  /\ term = "join" /\ sender = "ended" /\ handler = <<>> /\ ipc = <<>>
  /\ dc' = "closed" /\ buffered' = 0
  /\ registered' = OnClosed /\ term' = "done"
  /\ UNCHANGED <<kind, opened, sendVars, histVars, workVars, running>>
-----------------------------------------------------------------------------
Init ==
  /\ kind \in Kinds
  /\ dc = IF kind = "subscriber" THEN "open" ELSE "connecting"
  /\ buffered = 0 /\ opened = FALSE
  /\ queue = <<>> /\ held = <<>> /\ running = TRUE /\ sender = "wait"
  /\ registered = IpcKind
  /\ handler = <<>> /\ ipc = <<>> /\ streams = 0 /\ term = "no"
  /\ accepted = <<>> /\ sent = <<>> /\ early = FALSE

SendLoop == Pop \/ LoopStops \/ SendHeld \/ ChannelNotOpen

Terminate == StopLoop \/ JoinLoop

Next == \/ SendLoop \/ HandlerSends \/ IpcSends
        \/ Opens \/ Closes \/ Transmits
        \/ Command \/ CustomMessage \/ Broadcast
        \/ PeerTerminates \/ Terminate

Spec == Init /\ [][Next]_vars

\* The threads run; the network need not take anything.
FairSpec == /\ Spec
            /\ WF_vars(SendLoop) /\ WF_vars(HandlerSends) /\ WF_vars(IpcSends)
            /\ WF_vars(Terminate)
-----------------------------------------------------------------------------
\* Every variable keeps its type, at most one packet is held, and the buffer is
\* never filled beyond its room.
TypeOK ==
  /\ kind \in Kinds /\ dc \in {"connecting", "open", "closed"}
  /\ opened \in BOOLEAN /\ running \in BOOLEAN
  /\ registered \in BOOLEAN /\ early \in BOOLEAN
  /\ buffered \in 0 .. SendRoom /\ streams \in 0 .. MaxStreams
  /\ queue \in Seq(Packet) /\ held \in Seq(Packet)
  /\ handler \in Seq(Packet) /\ ipc \in Seq(Packet)
  /\ accepted \in Seq(Packet) /\ sent \in Seq(Packet)
  /\ sender \in {"wait", "check", "ended"}
  /\ term \in {"no", "stop", "join", "done"}
  /\ held # <<>> <=> sender = "check"
  /\ Len(held) <= 1

\* What was given to Send goes out in that order and once: libwebrtc has had a
\* prefix of it, and the rest is held or queued while the loop runs.
SentInOrder ==
  ~SfuKind => /\ IsPrefix(sent, accepted)
              /\ sender # "ended" => accepted = sent \o held \o queue

\* The packets before s[i] of the same message.
Earlier(s, i) == {j \in 1 .. i - 1 : s[j].stream = s[i].stream}

\* How much data there is when packet p has come.
Arrived(p) == IF p.part = "header" THEN 0 ELSE p.at + p.size

\* s[i] begins a message or follows the packet that came last of it.
InPlace(s, i) ==
  /\ s[i].part = "header" <=> Earlier(s, i) = {}
  /\ \A j \in Earlier(s, i) : (\A k \in Earlier(s, i) : k <= j) =>
       /\ s[j].part # "trailer"
       /\ s[i].part = "chunk" => s[i].at = Arrived(s[j])
       /\ s[i].part = "trailer" =>
            \A h \in Earlier(s, i) : s[h].part = "header" => s[h].size <= Arrived(s[j])

\* The messages in s; the report of the recording state is one packet.
InOrder(s) == \A i \in 1 .. Len(s) : s[i].part # "report" => InPlace(s, i)

\* The receiver can put a message together although several are sent at once: of
\* each message the header comes first, the chunks follow without a gap, and when
\* the trailer comes, after which there is nothing, the data has the length that
\* the header announced, or more for a file that grew.  Packets of an SfuChannel
\* that is not open yet are missing.
Reassembles == ~(SfuKind /\ early) => InOrder(sent)

\* "Once a message declares a plugin ... it must NEVER silently vanish, so every
\* branch below sends a reply" (conductor.cpp:634): on an open channel whatever is
\* given to Send is sent, as long as nothing was given to it before it opened.
NeverMute == dc = "open" /\ ~SfuKind => sender # "ended" \/ early

\* Send, the queue and the loop: everything in order, once, and not held for ever.
SendInv == TypeOK /\ SentInOrder /\ NeverMute

\* The same whatever the local applications write before the channel opens.
RepliesAreSent == dc = "open" /\ ~SfuKind => sender # "ended"

\* When Terminate returns, the IPC server no longer uses the channel and nothing
\* is sent any more.
TerminateIsFinal ==
  term = "done" => ~registered /\ sender = "ended" /\ ipc = <<>> /\ dc = "closed"

\* Terminate returns whatever the network takes and however much is queued.
TerminateReturns == term # "no" ~> term = "done"
=============================================================================
