# A formal model of RaspberryPi-WebRTC

This directory holds TLA+ modules that model the concurrent core of the camera
service under `src/`, TLC configurations that check them on small instances,
and proofs that TLAPS checks for every value of the constants. The source is the
reference: every definition is a translation of the lines that `PROJECT.json`
("map") names.

Run everything from this directory:

    tlc -workers 2 -config RecorderBackground.cfg MCRecorder
    tlapm RecorderProofs.tla

## The system

`main.cpp` builds one `Conductor` (libwebrtc's factory, the video and audio
sources, the IPC server), up to two `RecorderManager`s (background and on
demand) and the signaling services, and then runs an `io_context` on the main
thread.

| Part | State it keeps | Operations | Talks to |
|---|---|---|---|
| `recorder/recorder_manager` | `fmt_ctx`, `header_written_`, `has_first_keyframe`, the split timer | `Start`, `Stop`, `WriteIntoFile`, the video and audio callbacks, the rotation thread | called by the capture thread, by the data channels (through the Conductor) and by the encoder threads |
| `recorder/*_recorder` | `encoder`, `st`, frame queue or fifo, one `Worker` | `AddStream`, `Start`, `Stop`, `OnBuffer`, `ConsumeBuffer` | packets to `WriteIntoFile` |
| `signaling/websocket_service` | the stream, timers, discovery socket, write queue, two peers, `stopping_`, `reconnecting_` | `Connect`, the chain of handlers, `OnMessage`, `Write`, `HandleFailure`, `Disconnect` | an SFU; peers' callbacks arrive on libwebrtc threads |
| `signaling/mqtt_service`, `http_service` | client and peer maps, open requests | subscribe, publish, WHEP POST/PATCH/DELETE | broker, HTTP clients |
| `signaling/signaling_service.h` | `peer_map_`, the cleaner thread | `CreatePeer`, `GetPeer`, `RefreshPeerMap` | `Conductor` |
| `rtc/conductor` | factory, sources, IPC server, recorder | data channel commands: recording, capture, camera controls, file transfer | everything |
| `rtc/rtc_peer` | peer connection, pending candidates, timeout task, channels | `CreateOffer`, `SetRemoteSdp`, `SetRemoteIce`, `Terminate` | libwebrtc |
| `rtc/rtc_channel` | send queue and `SendLoop` thread | `Send`, `OnMessage`, `Terminate` | libwebrtc |
| `capturer/v4l2_capturer` | `fd_`, the MMAP buffers, `capturing_`, the capture worker | `Create`, `StartCapture`, `StopCapture`, `ResumeCapture`, `CaptureImage` | the kernel; `Subject::Next` to the recorder and the tracks |
| `capturer/libcamera_capturer` | the camera, its requests, `running_`, `stopping_` | the same, with `RequestComplete` on libcamera's thread | libcamera |
| `ipc/unix_socket_server` | `client_threads_`, `peer_callbacks_`, `running_` | accept loop, client threads, `Write`, `Stop` | local applications, data channels |
| `common/worker`, `thread_safe_queue`, `interface/subject` | `abort_`; a bounded queue; the observers | loop and join; push, pop; subscribe, next | used by all |
| `codecs/*` | buffer indices and a queue of tasks | `EmplaceBuffer`, `CaptureBuffer` | the kernel's codecs |
| `common/utils` | (files) | `RotateFiles`, searches in the dated folders | the recorder, file transfer |
| `track/*`, `capturer/osd*`, `yuyv_clock`, audio capturers, `parser`, `args` | images, samples, options | conversion, drawing, parsing | - |

What is hard here, and hard to test: the recorder's `Start` and `Stop` run on
two threads against two encoder threads; split timers; cancellation in the
io_context, where a handler that is already queued still runs; capture commands
on detached threads; descriptors whose numbers the kernel reuses; joins of
threads that may be blocked; a peer connection whose callbacks and timers close
it under the service that uses it; maps of peers that a cleaner thread changes
without a lock; messages of many packets that three threads send on one channel;
codecs that answer quicker than the caller registers; a rotation thread that
deletes folders while a recorder creates them and a viewer lists them. `PROJECT.json` lists every hazard at its line with
the properties that cover it, and `components` says of every part whether and
how far it is modelled.

## Modules

| Module | Models |
|---|---|
| `RecordingFiles` | abstract: files written one at a time, each starting with a keyframe |
| `Recorder` | `RecorderManager` with its recorders, workers and commands |
| `RecorderInv`, `RecorderProofs` | the inductive invariants of the recorder, and the proofs about it and about `RecordStore` |
| `RecordStore` | the directory of recordings: the recorder, `RotateFiles` and a viewer's query |
| `WsSignaling` | `WebsocketService` |
| `RtcPeer`, `PeerProofs` | `RtcPeer` on libwebrtc's operations chain |
| `PeerSessions` | `SignalingService`'s peer map with `MqttService` and `HttpService` |
| `SignalingProofs` | the proofs about `WsSignaling` and `PeerSessions` |
| `DataChannel`, `ChannelProofs` | `RtcChannel` and `SfuChannel` with what `Conductor` binds to them |
| `V4l2Capture`, `V4l2Proofs` | `V4L2Capturer` and the capture commands |
| `LibcameraCapture`, `LibcameraProofs` | `LibcameraCapturer` and the capture commands |
| `FramePipe` | abstract: callbacks at most once and in the order of the frames |
| `FrameCodec`, `CodecProofs` | the V4L2 codecs, the Jetson encoder and scaler, and their callers |
| `IpcServer`, `IpcProofs` | `UnixSocketServer` and the descriptor table |
| `MC...` | the instances for TLC: symmetry sets where they are sound |

Definitions named `Mut...` are altered copies of the definition that follows
them, each with a mistake somebody could make there. No specification uses
them; substituting one shows that the property it is listed with notices.

The parts meet as follows. Components that share state are one module: the
recorder with its encoder threads and commands, the data channel with the IPC
callbacks and the command handlers, the peer map with both services and the
cleaner, the directory with its three users. Components that only call one
another meet at an operation, and each module takes the other side's calls in
every order the code allows: `PeerSessions` keeps of a peer what the maps can
see (new, connected, closed), and `RtcPeer` what a peer does by itself;
`WsSignaling` keeps of its two peers only when their callbacks call `Write`;
`Recorder` keeps of the software encoder the order of frames and packets, and
`FrameCodec` what the hardware codecs do to that order.

### Recorder

`pc["cap"]` is the capture thread inside the callback of `SubscribeVideoSource`,
`pc["cmd"]` the signaling thread inside `StartRecording` or `StopRecording`;
both call the procedures `Start` and `Stop`, which return to `ret[t]`. A step
ends where the next access to an atomic, a mutex or another thread's object
begins; a block under `ctx_mux` or `encoder_mtx_` is one step. A container is an
address in `Ctxs` that is free, allocated with an open file, or lost, with the kind
of its first video packet; `st` is the container that owns the `AVStream`. A `Worker` that replaces
another (`StartSpawn`) is visible at once while the old thread is still being
joined, as `unique_ptr`'s assignment does it, so two encoder threads can be
alive. Frames are keyframes or not (`TRUE`/`FALSE`), timestamps are counted in
`now`, and the camera delivers a keyframe at least every `KeyInterval` except
after a stall of at most `MaxStall`. `avio_open` may fail at any `Start`,
and then the container made for the file is lost (`CreateFails`), as the code never
frees it; `avformat_write_header` may fail when `HeaderMayFail`. `ret`, `joining`, `fresh`,
`session`, `fileStart` and `answered` are bookkeeping of the model.

### RecordStore

A recording is the tick at which it started, an hour `HourTicks` ticks, a day
`DayHours` hours; `mp4`, `jpg`, `hours` and `days` are what is on the drive.
`rec` is the recorder between naming a file and opening it, with one step for
each folder it creates, as `CreateFolder` does it; `rot` is the rotation thread,
with one step to pick a file, one to remove it with its image (which nobody
reads), and one for each folder it removes; `query`
is `QueryFile`, with one step to list a folder and one to read the times of its
files. An exception that nobody catches is `terminated`. A folder of the
recording path that is no date (`on-demand`, `timelapse`) is `ForeignHour`,
which is after every day, as its name sorts, and `Horizon` the last time that
anybody asks about. A deleted recording that is still
written keeps its space (`Short`). The clock never goes back.

### WsSignaling

One action per handler; `ScheduleReconnect` is two steps (`HandleFailure`, then
`Teardown`), because destroying the peers waits for libwebrtc's threads, on
which a callback may be in `Write`. `chain` counts resolves, connects and
handshakes in flight, `live` and `dead` the `async_write`s begun on an open or a
broken stream, `queued` the messages. As in Asio, an operation that had
completed before it was cancelled still runs its handler without an error;
`late` remembers that this has happened. `NeverAbandoned` and `Reconnects` hold
all the same; the other properties are stated of histories in which every
cancellation came in time, and break without that condition. The reconnect timer
fires after the handlers that the close has queued (`Quiet`): they are put into
the io_context at once, the timer fires a second later at the earliest. `auto` is
chosen in `Init`: with discovery or without. After `leave` the service stops, so
deadlock is not checked.

### RtcPeer

The service that owns the peer is `Caller`; everything else runs on libwebrtc's
signaling thread, of which a step is one task. `chain` is libwebrtc's queue of
operations, `todo` what is left of the task that created a description:
`SetLocalDescription`, then `EmitLocalSdp`. Setting a description takes effect
synchronously, with the state change and what the callbacks do in it; creating
one does not. `SetLocalDescription` takes `modified_desc_` over although the peer
keeps the pointer: `freed` says that the description was refused, or went with
its connection. Using it then may go well or not (`SendSdp`). `closedBy` says who
closed the connection, `crossed` that a local
and a remote offer have met, `silenced` that a description found no callback.
`crashed` is a null connection, an empty `std::function` or a freed description
that was used. `given` and
`pending` are the candidates in libwebrtc's hands and in
`pending_ice_candidates_`; the check for a remote description and the buffering
are two steps of the caller (`RemoteIce`, `BufferIce`).

### PeerSessions

`step` and `msg` are the service thread between two operations on a map: the
look-up, `CreatePeer`, the insertion into either client map, the use of the peer.
`cleaning` is `RefreshPeerMap`'s iteration and `turn` where it is with a peer:
the check, the look-up of its client, the erasure from `client_id_to_peer_id_`,
from `peer_id_to_client_id_` and from `peer_map_`. Steps of the two threads
alternate at will, so `MapsAgree` says what the maps tell in between as well:
which entry may point to a peer that does not point back (`Storing`), and which
client may have a second peer in the map (`Leaving`).
`state` is what a peer looks like from outside; `missed` remembers the peers the
cleaner erased before their client was stored, which leaves an entry in the
client maps. A null peer that is used is `crashed`, after which nothing happens.
Peers are numbered by a bound and not reused: an id is random.

### DataChannel

`Send` cuts a message into a header, chunks and a trailer; queuing one of them is
one step (`HandlerSends`, `IpcSends`), so that messages of different threads
interleave. `SendLoop` is `sender` with the packet it `held`; `Terminate` is
`term`: clear the running flag, unregister from the IPC server under its mutex,
close, join. libwebrtc's buffer takes `SendRoom` packets and empties as the
network likes (`Transmits`). `accepted` and `sent` are histories of what was
given to `Send` and to libwebrtc. An `SfuChannel` sends from the caller's thread
and drops what comes before it is open.

### V4l2Capture and LibcameraCapture

Command 0 is `Create`; the others are numbered as received and each has a `pc`
of its own. In `V4l2Capture` the mutex, the join of the capture worker, the
buffers the driver holds and a device that stalls, leaves (`fd = "gone"`) or
comes back are state; an exit of the process (for systemd to restart it) is
`exited`; a passive camera has `kind[0] = "none"`. `missed` and `first` are
history. In `LibcameraCapture` there is no mutex: a step ends at each read or
write of `running_` and `stopping_` and at each call to libcamera, whose state
machine is `camera`; the requests are queued, and cancelled by `camera_->stop()`,
one step each. Too few buffers for `Create` make it exit, as the code does. In both, `overlap` remembers that a command was received before the one
before had returned: a property of commands in sequence is stated of the
histories without.

### FrameCodec

One module for the five processors, whose buffers go round in the same way:
`free`, `inQ` and `outDone` are the input plane, `capFree` and `capDone` the
capture plane, `tasks` the queue of callbacks, each with the number of its frame.
`EmplaceBuffer` gives the frame to the driver and `Register` pushes the callback,
in the code's order; between them the device and the worker may be quick.
`worker` is `CaptureBuffer`: dequeue, take the task, call it, requeue. `Release`
sets the abort flag and, for the Jetson encoder, queues an empty buffer as the
end of the stream; `Released` is the join. A driver call may fail `MaxFaults`
times, on either side: a dequeue of the capture plane that fails makes the Jetson
encoder give up (`DequeueJetsonFails`), a V4L2 codec go on. The device is assumed to
make one frame of each that it takes, in their order; the decoder's too, although
nothing in the code enforces it. A codec's `tasks` takes `QueueMax` callbacks, the
Jetson scaler's as many as it has buffers (`TaskMax`), and each callback is for
one of these. `called` is the history that `FramePipe` sees.

### IpcServer

`fdt` is the kernel's descriptor table: `close` frees a number and whoever opens
next may get it, the next client or another part of the process (`Files`).
`threads` is `client_threads_`, `joining` the map that `Stop` swaps out.
`Stop` clears `running_` and shuts the socket in two steps, between which the accept
thread may still take a client or leave its loop. `terminated` is
`std::terminate`: a joinable `std::thread` destroyed or assigned
over. `raced` remembers that a client left before its thread was stored, or that
a descriptor was handed out between a client's `close` and the erase of its
entry. `ClientsStored`, `StopIsComplete` and `StopReturns` hold all the same; the
others are stated of histories without such a race.

## Runs

Passing runs:

| Run | Question | Bounds |
|---|---|---|
| `RecorderBackground` | are containers, encoder threads, first packets and split timer consistent in background recording, with opens that fail, does it implement `RecordingFiles`, and does recording always come back? | `FairSpec`, 2 containers of which one may be lost, 2 workers, queue 1, duration 2, time 4: two rotations, a full queue, old and new encoder alive together |
| `RecorderOnDemand` | commands in any order within one file, headers that fail included | 3 containers of which one may be lost, duration 2, time 1 (no rotation: see below what a rotation does) |
| `Files` | are recordings rotated out oldest first, and does a query name the right ones, whatever happens between its steps? does rotation make room? | `FairStoreSpec`, 3 ticks: hours of one tick, days of two, so that an hour and a day begin; room for one recording; up to 2 older ones asked for; a time asked about within the recorded days and one (`Horizon`) two days after they began; a search of at most 2 folders for a time |
| `WsSession` | the whole session, with and without discovery, with late handlers: is the service ever left without a next attempt, or with two, does a message stay behind, and does it reconnect? | `FairSpec`, 3 messages, 2 resolves |
| `PeerNegotiation` | does everything that comes early get to its place, who can use a closed connection, and does every negotiation end? | `FairSpec`, the four kinds of peers, 2 candidates, 3 offers: a renegotiation or ICE restart after another |
| `Sessions` | do the maps agree whatever step of the cleaner comes between two of a message, does every answer go to its client, and does every peer that is not connected leave the map? | `FairSessionsSpec`, both services, 2 clients, 2 peers: a client that comes back, or two at once; the first two questions have their answer for any number in the proofs |
| `DataChannels` | can a receiver put the messages together, is anything lost, and does termination end? | `FairSpec`, the four kinds of channels, chunks of 2, messages of 0 and 3 (none and a short last chunk), 2 messages, room for 2 packets |
| `V4l2Commands` | pauses and resumes racing each other, the capture loop and the device, for an active and a passive camera; does every command return? | `FairSpec`, 3 commands, 2 buffers, 2 failures |
| `LibcameraCommands` | the same of libcamera | `FairSpec`, 3 commands, 2 requests |
| `Codecs` | are buffers conserved, does a callback get its own frame and in order (`FramePipe`), and does a release end? | `FairSpec`, encoder, decoder, Jetson encoder and scaler, 2 buffers, 5 frames (a buffer is used a third time), 2 failing calls; the V4L2 scaler differs from the encoder in its caller only |
| `IpcClients` | clients come and go and `Stop` runs: is a client ever forgotten, and does `Stop` return? | `FairSpec`, 3 clients, 2 descriptors, so that each number is reused |

Deadlock is checked in the recorder's runs. The others end in states in which
nothing has to happen: the service has left, the process has exited, the channel
or the server is closed, the frames, offers or ticks of the bound are used up.

Properties that belong together are one formula, whose parts have names and
comments of their own: `SplitTimes` is `AntiDrift` and `SegmentLength`;
`SessionInv` of the websocket is `TypeOK`, `NeverAbandoned`, `OneAttempt` and
`CleanStart`, `WriteInv` is `OneWrite`, `NoLostWakeup` and `PopsItsOwn`;
`ThreadInv` of V4L2 is `TypeOK`, `SingleThreadedFd` and `NoSelfExit`, `SessionInv`
is `BuffersKept`, `StuckIsReal` and `FirstIsKey`; `CommandInv` of libcamera is
`TypeOK`, `NoSelfExitAlone` and `FlagsAgree`; `ClientInv` of the IPC server is
`TypeOK`, `NoTerminate`, `WritesToClients`, `ClientsStored` and `EntriesAlive`;
`BufferInv` is `TypeOK` and `BuffersConserved`; `DeliveryInv` is `TypeOK`,
`NotStranded` and `NothingWithheld`; `SendInv` is `TypeOK`, `SentInOrder` and
`NeverMute`; `Reassembles` says of every packet that it is `InPlace`;
`PeersInv` is `SessionsTypeOK` and `MapsAgree`; `StoreInOrder` is `StoreTypeOK` and
`OldestFirst`; `RepliesRight` is `RepliesComplete` and `RepliesNewest`.

Time, queue, frame and command counts, clients, peers and messages are bounds;
the containers that are lost too. Other containers and workers are not, since a
free one always exists when one is needed (the capture thread has one file open at
most, and two workers). Two encoder threads, two
containers, a full queue, two rotations, two racing commands, a reused
descriptor, a viewer that comes back, two messages on one channel and a day that
ends are the smallest instances in which the hazards occur, and each mutant is
found within them. `RepliesRight` holds with four ticks, room for two recordings
and a search of three folders as well (5.6 million states). What is proved (below)
holds without the bounds.

One run ends in a violation, a disagreement between the code and what the
repository says of it (the quotation is in `PROJECT.json`, "findings"):

| Run | What the trace shows |
|---|---|
| `RecorderLostStop` | STOP inside a rotation is answered "stopped", and recording goes on |

The same models show more, without a run of their own: an execution is found by
checking the formula named, or the property without its condition, in a copy of
a configuration.

Recorder:

- Every file that cannot be opened loses the `AVFormatContext` made for it
  (`recorder_manager.cpp:36`): `RecorderBackground.cfg` with `Lost = {}`. In
  background mode each keyframe of a full or missing drive loses one more.
- `RecorderLostStop.cfg` with `NoFileLost`: a START inside a rotation opens a
  second container over the first.
- `StreamLive` with `HeaderMayFail`: a header that could not be written frees the
  container and leaves `st` pointing into it (`recorder_manager.cpp:245`).
- `RecorderOnDemand.cfg` with `StartsOnKeyframe`: a frame that passed the gate
  before `Start` gets into the new file first.
- `RecorderBackground.cfg` with `MaxStall = 5`, `MaxTime = 6`, `SegmentLength`:
  after a stall one-frame files are written until the split times catch up.

Files:

- Rotation takes every subfolder for a day: when no dated folder is left it
  removes `on-demand` (`parser.cpp:474`) or `timelapse`, a recorder that is about
  to open a file in it or not.
- `terminated`: rotation deletes a file or folder between the listing and the
  reading of a query, and the exception of `directory_iterator` or
  `last_write_time` is caught nowhere.
- BEFORE_TIME with a time later than the last write, such as one still to come,
  names the recording that is being written (`utils.cpp:299`), whose file is not
  complete; `RepliesComplete` says that this is the only way to get one.
- `RepliesNewest` without `NoGap`: the search ends at a missing day and leaves out
  what is older; so it does when the day asked about is two days or more after the
  last recorded one, and then it finds nothing at all (`utils.cpp:326`). Without
  `GivesUp`: it ends after ten folders that hold nothing early enough.
- A deleted recording that is still written keeps its space and is lost to its
  end; a restart in the same second writes over the file before.

Signaling:

- `PopsItsOwn` without `late`: a write that succeeds late pops an empty
  `std::deque`. A ping that was queued before the teardown stays at the head of
  the cleared queue, and the next session cannot write
  (`websocket_service.cpp:277`).
- `RtcPeer` with `NeverSilenced`: the answer to an offer of a viewer that is
  connected becomes stable synchronously, the callbacks are dropped
  (`rtc_peer.cpp:181`), and the answer is not emitted.
- A WHEP peer makes an offer once it is connected, which goes to a request that
  is answered already; nobody answers it, and a later ICE restart is refused. If
  the two cross, or ICE is restarted again within the second that an emission is
  delayed, an empty `std::function` is called.
- `crashed`: `SetRemoteSdp`, `SetRemoteIce` and `RestartIce` use the connection
  that a failure, a timeout or DISCONNECT has closed.
- `OnlyClosedUnderCaller` without its second disjunct: a description of ours that
  is refused is freed and emitted all the same (`rtc_peer.cpp:294`, `:313`). Two
  offers of a viewer or of the SFU in quick succession do it (the first answer
  makes the state stable, and the second is refused in it), or an offer that
  crosses one of ours. A WHEP peer also adds candidates to it (`:241`), and an
  emission that is due when the connection fails uses what went with it.
- An answer that arrives before the queued local offer is set is ignored.
- `PeerSessions`: a viewer that reloads its page with the same client id within
  the 60 s of the cleaner finds its old peer, connected (its offer is not
  answered) or closed (a null connection); a peer that connects between the
  cleaner's check and the erasure (`mqtt_service.cpp:304`, `:317`) is erased; `CreatePeer` may return null, and
  `peer->id()` comes before the check; the cleaner erases peers that are still
  negotiating; a peer erased between `CreatePeer` and the insertion of its client
  leaves an entry behind; a POST whose peer is cleaned within a second is not
  answered.

Data channels and IPC:

- `RepliesAreSent`: a local application that writes before the viewer's channel is
  open ends `SendLoop`, and no reply is sent on it any more, of which
  `conductor.cpp:634` says "it must NEVER silently vanish".
- A file that is longer when it is read than when it was opened exceeds the length
  in its header. The IPC callback of a channel stays after DISCONNECT until
  `Terminate`.
- `WritesToClients` without `raced`: a message goes to a descriptor that is no
  client any more. A client that leaves before its thread is stored leaves a dead
  entry (`unix_socket_server.cpp:117` against `:95`).

Capture and codecs:

- `LastCommandWins` of `V4l2Capture` without `overlap`: a pause overtakes an
  earlier resume. Two racing libcamera commands make the process exit
  (`libcamera_capturer.cpp:477`).
- `LibcameraCapturer::Create` ignores `--start-passive`, of which `parser.cpp:119`
  says "do NOT start camera capture until the SFU sends a resume command"; the
  model starts as the code does.
- `OwnFrame` without `raced`: a frame that comes out before its callback is
  registered takes the next one's, and every later one is one off for good.
- After a refused buffer the Jetson encoder picks a number that is still queued;
  the end of the stream takes buffer 0, which the driver may still have, and the
  destructor then waits for ever (`EosLost`).

## Fairness

Weak fairness of a thread says that the operating system schedules it. Beyond
that:

- `Recorder`: strong fairness of keyframes (the camera has an intra period) and
  of `OpenSucceeds` (the disk is not full for ever). The clock may stop at
  `MaxTime`; frames still come.
- `RecordStore`: the rotation thread runs. Nobody has to record or to ask.
- `WsSignaling`: strong fairness of the steps of an attempt and of `Begins`: a
  server that announces itself and answers now and then. An operation on a closed
  socket completes. Nothing is assumed of the other side once connected.
- `RtcPeer`: libwebrtc's thread and the caller run. Strong fairness of `TimesOut`
  (a timer that is due fires, although other tasks come between) and of
  `RemoteAnswer` (a remote side that has been asked and is there answers).
  Candidates, offers, connections and failures are not assumed.
- `PeerSessions`: the service thread finishes a message, the cleaner wakes and
  goes through the map. Viewers owe nothing.
- `DataChannel`: the threads run; the network need not take anything (`Transmits`
  has no fairness).
- `V4l2Capture`: strong fairness of `Lock` (the mutex is not starved for ever)
  and of the openings: `Initialize` is retried until a device is there, and a
  device that is gone comes back. Frames are not assumed.
- `LibcameraCapture`, `IpcServer`: threads run. Clients owe nothing: `Stop` must
  end although they are silent (`ReadLast`, the loop noticing that `running_` is
  cleared after a message, has no fairness).
- `FrameCodec`: the threads run and the device works through its input. Nobody has
  to offer a frame or to release.

## Proofs

For each component there is an inductive invariant, a lemma per action (or group of
actions) that it is preserved, with one step per conjunct, and theorems that draw
the properties from it. Everything is proved for all values of the constants;
TLC has checked every invariant on the instance of the run first.

| Module | Theorem | Statement | Assumes |
|---|---|---|---|
| `RecorderProofs` | `TypeCorrect` | `Spec => []TypeOK` | - |
| | `ContextAlwaysLive` | `Spec => []ContextLive` | - |
| | `BackgroundOneFile` | `[](NoFileLost /\ ContextLive)` | `AutoStart` |
| | `BackgroundStartsOnKeyframe` | `[]StartsOnKeyframe` | `AutoStart` |
| | `BackgroundStreamLive` | `[]StreamLive` | `AutoStart`, no failing header |
| | `BackgroundAntiDrift` | `[]AntiDrift` | `AutoStart` |
| | `BackgroundSplitTimes` | `[]SplitTimes` | `AutoStart`, `MaxStall = 0` |
| | `BackgroundRefinesFiles` | `Spec => Files!Spec` | `AutoStart` |
| | `OnDemandUntilSplit` | `Spec /\ []NoSplit => [](StopIsFinal /\ NoFileLost)` | `~AutoStart` |
| `RecorderProofs`, of `RecordStore` | `RotatedOldestFirst` | `StoreSpec => StoreInOrder` | - |
| | `QueriesAnswered` | `StoreSpec => RepliesRight` | - |
| `SignalingProofs`, of `WsSignaling` | `OneSession` | `[]SessionInv` | `OneAttempt` and `CleanStart`: until `late` |
| | `QueueAndStream` | `[]WriteInv` | until `late` |
| | `LeavesForGood` | `Spec => LeaveIsFinal` | until `late` |
| `SignalingProofs`, of `PeerSessions` | `MapsAlwaysAgree` | `[]PeersInv` | - |
| | `AnswersGoHome` | `[]RightRecipient` | - |
| `PeerProofs` | `NothingStranded` | `[]DeliveryInv` | - |
| | `OthersNeverCrash` | `[]OnlyClosedUnderCaller` | - |
| `ChannelProofs` | `SendsInOrder` | `[]SendInv` | - |
| | `TerminationFinal` | `[]TerminateIsFinal` | - |
| | `MessagesReassemble` | `[]Reassembles` | - |
| `V4l2Proofs` | `ThreadsKeepApart` | `[]ThreadInv` | - |
| | `SessionsStartClean` | `[]SessionInv` | - |
| | `LastWins` | `[]LastCommandWins` | - |
| `LibcameraProofs` | `OneAfterTheOther` | `[]CommandInv` | - |
| `CodecProofs` | `NoBufferLost` | `[]BufferInv` | - |
| | `CallbacksGetTheirFrame` | `[]OwnFrame` | - |
| | `CodecRefinesPipe` | `Spec => RefinesPipe` | - |
| `IpcProofs` | `ClientsAccounted` | `[]ClientInv` | all but `ClientsStored`: until `raced` |
| | `StopCompletes` | `[]StopIsComplete` | - |

**Recorder.** The first two hold in both modes: every place that frees a
container clears `fmt_ctx` in the same step. The others rest on `BgInv`
(`RecorderInv`). None of the properties is inductive alone: that the new file
starts with a keyframe depends on the encoder having been reset, which depends on
no old thread being alive at that point, which depends on `Stop` having joined it
before `Start` runs, which holds because in background mode only the capture
thread calls either (`Control`). `OneFile` ties the open container to the label
of that thread, `OneEncoder` the encoder threads, `OneStream` the stream,
`KeyFirst` the first packet to the state of the encoder, and `Anchored` the split
timer to the session. The refinement maps each step to a step of `RecordingFiles`
or to a stutter. `AutoStart` is needed: the violation above and the executions
below it are the counterexamples of on-demand mode.

`SegmentLength` is about time, and needs `Clock` and `Paced` as well: a file begins
within a keyframe interval of the split before it, and at the last keyframe the
next split was not due, so that when it is due the file has its length but for one
interval. It needs a camera that never stalls; `MaxStall = 5` above is the
counterexample. Of on-demand mode `Commanded` is proved until the timer splits a
file (`NoSplit`): the capture thread only passes frames on, and the label of the
signaling thread says whether a file is open. After a split both threads call
`Start` and `Stop`, and `RecorderLostStop` is the counterexample.

**Recordings.** That rotation takes the oldest first is not inductive: between the
pick and the removal the recorder may begin a file, whose name was fixed before its
folders were made. `Coming` are the names that files still to come will have;
`Newest` says that nothing on the drive is later than one of them, `Oldest` that
nothing, there or to come, is older than what rotation has picked. Both need that
the calendar is monotonic, and that the folder that is no day comes last.

A query takes many steps, in each of which files come and go. `Dated` says that
names and closing times give the same order, that the recording being written is
the last by both, and that no file was closed after the next one had its name.
`Listed` says that the folder at hand was listed when every recording that is still
complete was in it. `Walked` is what makes a search right although files are
deleted while it runs: what it has found descends, is later than the hour at hand
and leaves out nothing that is early enough, and what it has found and rotation has
deleted is older than every complete recording that is left, which is
`RotatedOldestFirst` again. `Limited` says that the recording being written is
not before the one asked about, so that BEFORE_FILE cannot have found it, and
`NothingFound` that BEFORE_TIME ends with the first folder in which it finds
anything, so that what it names was early enough when its time was read. `NoGap` is
needed where the search stops: without an hour before the one at hand there is
nothing before the day before (`BeforeFacts`), unless a day is missing. The first
form of `NoGap` did not look at the day asked about, and the proof failed there for
a good reason: a search that begins two days after the last recorded day finds
nothing. That the files can be sorted at all (`CanSort`, `SortedFacts`) is proved
by the least counterexample.

**Websocket.** `Control` says when another session is coming (the timer is armed
or the io thread is tearing down): always while the flag `reconnecting` is set or
the link is lost, unless "leave" has been said. `Attempts` counts the operations
of which each leads to the next (discovery, resolve, connect, handshake, the
timer, the open link) and says there is at most one, and none during a teardown;
`Belongs` says that peers, messages and the ping are those of the open session;
and `Writes` that at most one write is in flight, and that a queue that is not
empty has one unless the session is being torn down or has been left. These three
hold until an operation is cancelled too late (`InTime`), `Control` always.

**Peer map.** `Mapped` is `MapsAgree` seen from either of the two client maps and
for the peers the cleaner has taken as well; `MessageOK` is what the service thread
may hold between two operations, and `TurnOK` the cleaner: a client it has found
stays the peer's until it is forgotten, and it finds none of a peer whose client is
not stored yet. `Creating` says that a client whose message creates a peer has none
in `peer_map_` meanwhile, but for the one that the cleaner takes out, and `Uncreated`
that an id not handed out yet is nowhere.

**Peer connection.** That a candidate cannot be stranded between the check of
`SetRemoteIce` and the flush needs `Early`: what the chain can hold before there
is a remote description, stage by stage, so that the caller finds none only when
none is on its way (`Unset`). `Delivered` says what the last description waits
for, `Linked` that callbacks are dropped only after both sides have had an answer,
`FirstAnswer` where the one answer of a peer is until another offer comes, and
`Offering` the same of a publisher, to whom none comes. A description is refused
only when it meets an offer of the other side, which these two exclude: so one that
is emitted has not been freed (`FreedLater`), and an emission finds its callback
(`Overtaken`), unless a second offer has come.

**Data channel.** `Ordered` says that until the loop ends `accepted` is `sent`,
the packet held and the queue, one after the other; `LoopAlive` that the loop of a
channel that has not opened waits with nothing to send and that of an open one has
not ended, unless a packet came early; `Terminating` that `Terminate` proceeds on
a closed channel only, and what it has undone when it is through. That messages of
several senders can be put together again rests on `Continued`: what the handler
has still to send continues what has been accepted, message by message, what the
IPC thread has still to send does so too, and their messages are different ones.
One more packet of either then disturbs neither, because `InPlace` looks at packets
of one message only. What libwebrtc has had is a prefix of what was accepted
(`Ordered`), for an `SfuChannel` as long as no packet came early (`SfuSends`).

**Codecs.** `Queues` and `Labels` say what the queues and the hands hold. `Inputs`
and `Captures` (for the Jetson scaler, whose buffers make the whole round,
`Scaled`) say that a buffer is in one place at most, and in one as long as the
driver has refused nothing. That callbacks come in order is `InOrder` alone. That a
callback gets its own frame is `Aligned`: the frames on their way out, counted from
the callback back through the filled and the queued buffers, meet the callbacks that
are registered one by one, and when a frame has overtaken its registration, an
earlier callback at worst. `Unended` keeps the end of the stream out of it until
the release. The refinement maps each step to a step of `FramePipe` or a stutter.

**Capture.** `MutexHeld` says at which labels a command holds the mutex,
`Session` what it then knows of the capture thread, the buffers and the flags,
`OneByOne` that without overlap the command in progress is the last and its kind
decides, and `Working` which buffer the thread holds and what it has counted. For
libcamera, which has no mutex, `Solo` says of histories without overlap that flags
and camera are what the label of the one command in progress says (`Agreement`);
`Allocated` is that requests are queued only once there are any.

**IPC.** `Phases` says how far `Stop` is: the accept thread is dead before the
threads are taken over, and none is stored afterwards. `Histories` says what each
client's thread has been through, `Descriptors` that an open descriptor of a
client is that of a thread that has not closed it, and `AllKept` that every thread
that runs is known to the accept thread or to `Stop`. `Orderly`, for histories
that have not `raced`, says that the entries stored are those of threads that run,
each under its own descriptor.

Only model-checked: every liveness property (`KeepsRecording`, `SpaceFreed` and the
like), since fairness is beyond the prover. Every safety property of a passing run
is a theorem. In on-demand mode nothing is claimed of the recorder after a split,
nor that its files start with a keyframe: see the executions above.

## Not modelled

Image and audio contents, wording of messages, option parsing, drawing and
plugins, libwebrtc, Beast, libav, libcamera, mosquitto and the kernel other than
by the effects listed above; back-off delays; exceptions thrown by malformed
messages; data races on plain members and inside library containers (the peer
maps have no lock, and what two operations at once do to an `unordered_map` is not
a choice the model makes); the flat layout of a query; a
clock that goes back; signals (SIGPIPE of a client that hung up). Of
the parts without a module the software encoder, the frame buffers and the audio
capturers are synchronous code without shared state, the encoder factory and the
audio bridge adapters, libargus vendor code around an EGL stream, and the overlay
drawing. `components` says it for each part.

## Plan

Done: every part with threads, retries or shared maps has a module, a run and
proofs, and every safety property of the runs is a theorem, on demand as far as it
holds. What would come next, in this order:

1. `StreamLive` on demand until a split, when headers can be written: `Commanded`
   with the stream of the open file.
2. `RtcPeer` and `WsSignaling` in one module, for the two peers of a session that
   fails while they negotiate.
