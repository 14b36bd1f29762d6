------------------------------ MODULE WsSignaling ------------------------------
(***************************************************************************)
(* WebsocketService (src/src/signaling/websocket_service.cpp): the camera's *)
(* signaling connection to an SFU, with its discovery, its reconnection     *)
(* timer, its write queue and the two peers negotiated over it.             *)
(*                                                                          *)
(* Threads.  Every handler runs on the single thread of the io_context.     *)
(* The peers' callbacks call Write from a libwebrtc thread, under           *)
(* write_mutex_, and post kFailed to the io_context.                        *)
(*                                                                          *)
(* Granularity.  A handler is one step, except ScheduleReconnect, which a   *)
(* Write can fall into: it closes the socket, then waits for the peers'     *)
(* thread, then clears the queue.  The counts below are of operations in    *)
(* flight, whose handlers have not run.  Delays are not modelled: the       *)
(* reconnect timer fires at any time after the handlers that closing the    *)
(* socket has put in the io_context (a FIFO) ahead of it.                   *)
(***************************************************************************)
EXTENDS Naturals

CONSTANTS
  Discover,     \* the values of args.ws_host == "auto" that are considered
  QueueMax,     \* bound: no more messages are produced when this many wait
  ResolveMax    \* bound: no more resolves are begun when this many are in flight

ASSUME WsAssumption == /\ Discover \subseteq BOOLEAN /\ QueueMax \in Nat
                       /\ ResolveMax \in Nat \ {0}

VARIABLES
  auto,         \* args.ws_host == "auto"
  stopping,     \* stopping_
  reconnecting, \* reconnecting_
  timer,        \* reconnect_timer_ is armed
  io,           \* what the io thread does: "start", "loop" or "teardown"
  discovery,    \* discovery_active_
  chain,        \* resolves, connects and handshakes in flight
  link,         \* the stream: see Links
  reading,      \* the async_read in flight: "none", "live" or "dead"
  live, dead,   \* async_writes in flight: begun on an open stream, or not
  queued,       \* write_queue_.size()
  ping, latePing, \* ping_timer_ is armed; its handler is queued
  pub, sub,     \* pub_peer_ and sub_peer_
  failPosted,   \* a posted HandleFailure("Publisher peer connection failed")
  popEmpty,     \* write_queue_.pop_front() was called on an empty queue
  late          \* history: an operation was cancelled when its handler was
                \* queued already, which then runs as if nothing had happened

ctlVars   == <<stopping, reconnecting, timer, io>>
connVars  == <<discovery, chain, link>>
writeVars == <<live, dead, queued, popEmpty>>
pingVars  == <<ping, latePing>>
sfuVars   == <<pub, sub, failPosted>>
vars == <<auto, ctlVars, connVars, reading, writeVars, pingVars, sfuVars, late>>

\* "fresh": not yet a websocket; "open": connected; "closing": async_close was
\* called; "failed": an operation failed, all others are aborted; "closed" and
\* "torn": the socket of a fresh or of an open stream was closed under it, and
\* for the stream's own is_open() nothing has changed.
Links == {"fresh", "open", "closing", "failed", "closed", "torn"}
Steps == {"resolve", "connect", "handshake"}
-----------------------------------------------------------------------------
(***************************************************************************)
(* The write queue.                                                         *)
(***************************************************************************)

\* mutant: every Write starts an async_write
MutIdle == TRUE

\* Write starts an async_write only when nothing waits.
Idle == queued = 0

\* n calls of Write: the first starts an async_write if the queue was empty.
Write(n) ==
  /\ queued' = queued + n
  /\ live' = IF Idle /\ link = "open" THEN live + 1 ELSE live
  /\ dead' = IF Idle /\ link # "open" THEN dead + 1 ELSE dead
  /\ UNCHANGED popEmpty

\* The messages that are sure to be pushed are counted against the bound.
Room(n) == queued + n + (IF latePing THEN 1 ELSE 0) <= QueueMax
-----------------------------------------------------------------------------
(***************************************************************************)
(* Failure and reconnection.                                                *)
(***************************************************************************)
CancelPing == /\ ping' = FALSE /\ UNCHANGED latePing
              /\ late' = (late \/ latePing)

\* What closing the socket makes of a stream.
Shut(l) == CASE l = "fresh" -> "closed" [] l = "open" -> "torn" [] OTHER -> l

\* mutant: a failure after Disconnect reconnects
MutIgnored == reconnecting

Ignored == stopping \/ reconnecting

\* HandleFailure and the first half of ScheduleReconnect, for a stream that the
\* failing operation has left in state l.
HandleFailure(l) ==
  IF Ignored
  THEN link' = l /\ UNCHANGED <<reconnecting, io, pingVars, late>>
  ELSE /\ reconnecting' = TRUE
       /\ CancelPing
       /\ link' = Shut(l)
       /\ io' = "teardown"

\* mutant: the queue is kept for the next session
MutCleared == queued

Cleared == 0

\* The second half: the peers are closed (which waits for their callbacks),
\* the queue is cleared and the timer armed.
Teardown ==
  /\ io = "teardown"
  /\ io' = "loop"
  /\ pub' = "none" /\ sub' = FALSE
  /\ queued' = Cleared
  /\ timer' = TRUE
  /\ UNCHANGED <<auto, stopping, reconnecting, connVars, reading, live, dead,
                 popEmpty, pingVars, failPosted, late>>

\* mutant: reconnecting_ is not cleared before the attempt
MutGuardCleared == UNCHANGED reconnecting

GuardCleared == reconnecting' = FALSE

\* Connect, on a stream in state l: the host is resolved, or discovery started
\* if it is not active, which can fail.
Connect(l) ==
  \/ /\ ~auto
     /\ chain' = [chain EXCEPT !["resolve"] = @ + 1]
     /\ link' = l
     /\ GuardCleared /\ io' = "loop"
     /\ UNCHANGED <<discovery, pingVars, late>>
  \/ /\ auto
     /\ discovery' = TRUE
     /\ link' = l
     /\ GuardCleared /\ io' = "loop"
     /\ UNCHANGED <<chain, pingVars, late>>
  \/ /\ auto /\ ~discovery
     /\ reconnecting' = TRUE /\ io' = "teardown"
     /\ link' = Shut(l)
     /\ CancelPing
     /\ UNCHANGED <<chain, discovery>>

StartUp ==
  /\ io = "start"
  /\ Connect("fresh")
  /\ UNCHANGED <<auto, stopping, timer, reading, writeVars, sfuVars>>

Quiet == /\ chain["connect"] = 0 /\ chain["handshake"] = 0
         /\ reading = "none" /\ live = 0 /\ dead = 0
         /\ ~failPosted /\ ~latePing

\* The reconnect timer's handler: a new stream, and the next attempt.
TimerFires ==
  /\ io = "loop" /\ timer /\ Quiet /\ chain["resolve"] < ResolveMax
  /\ timer' = FALSE
  /\ Connect("fresh")
  /\ UNCHANGED <<auto, stopping, reading, writeVars, sfuVars>>
-----------------------------------------------------------------------------
(***************************************************************************)
(* The steps of an attempt.                                                 *)
(***************************************************************************)

\* An announce: StopDiscovery, ResolveAndConnect.
DiscoveryFound ==
  /\ io = "loop" /\ discovery
  /\ discovery' = FALSE
  /\ chain' = [chain EXCEPT !["resolve"] = @ + 1]
  /\ UNCHANGED <<auto, ctlVars, link, reading, writeVars, pingVars, sfuVars,
                 late>>

StepFails(s) ==
  /\ io = "loop" /\ chain[s] > 0
  /\ chain' = [chain EXCEPT ![s] = @ - 1]
  /\ HandleFailure(link)
  /\ UNCHANGED <<auto, stopping, timer, discovery, reading, writeVars,
                 sfuVars>>

Advance(s, t) == chain' = [chain EXCEPT ![s] = @ - 1, ![t] = @ + 1]

\* Closing the socket does not cancel a resolve; async_connect opens it again.
OnResolve ==
  /\ io = "loop" /\ chain["resolve"] > 0
  /\ Advance("resolve", "connect")
  /\ link' = IF link = "closed" THEN "fresh" ELSE link
  /\ UNCHANGED <<auto, ctlVars, discovery, reading, writeVars, pingVars,
                 sfuVars, late>>

\* An operation on the socket succeeds, or had succeeded when it was closed.
Completes == link \in {"fresh", "closed"}

\* The handshake stands for the TLS handshake and that of the websocket.
OnConnect ==
  /\ io = "loop" /\ chain["connect"] > 0 /\ Completes
  /\ Advance("connect", "handshake")
  /\ late' = (late \/ link = "closed")
  /\ UNCHANGED <<auto, ctlVars, discovery, link, reading, writeVars, pingVars,
                 sfuVars>>

\* Connected: Read and ScheduleNextPing.
OnHandshake ==
  /\ io = "loop" /\ chain["handshake"] > 0 /\ Completes
  /\ chain' = [chain EXCEPT !["handshake"] = @ - 1]
  /\ link' = IF link = "fresh" THEN "open" ELSE "torn"
  /\ reconnecting' = FALSE
  /\ reading' = IF link = "fresh" THEN "live" ELSE "dead"
  /\ ping' = TRUE
  /\ late' = (late \/ link = "closed")
  /\ UNCHANGED <<auto, stopping, timer, io, discovery, writeVars, latePing,
                 sfuVars>>
-----------------------------------------------------------------------------
(***************************************************************************)
(* Reading.                                                                 *)
(***************************************************************************)
ReadFails ==
  /\ io = "loop" /\ reading # "none"
  /\ reading' = "none"
  /\ HandleFailure(IF link \in {"open", "torn"} THEN "failed" ELSE link)
  /\ UNCHANGED <<auto, stopping, timer, discovery, chain, writeVars, sfuVars>>

\* A message has been read: on an open stream, or just before its socket was
\* closed; the next Read then fails.
MessageRead ==
  /\ io = "loop" /\ reading = "live"
  /\ link \in {"open", "torn"}

ReadAgain == reading' = IF link = "open" THEN "live" ELSE "dead"

\* "join": the two peers are created, or not, in the place of older ones, and
\* one or two tracks announced.  The offer follows by the peer's callback.
OnJoin ==
  /\ MessageRead
  /\ pub' \in {"none", "live"} /\ sub' \in BOOLEAN
  /\ \E n \in 1..2 : Room(n) /\ Write(n)
  /\ ReadAgain
  /\ late' = (late \/ link = "torn")
  /\ UNCHANGED <<auto, ctlVars, connVars, pingVars, failPosted>>

\* "offer", "answer" and "trickle" go to the peers.
OnOther ==
  /\ MessageRead
  /\ ReadAgain
  /\ late' = (late \/ link = "torn")
  /\ UNCHANGED <<auto, ctlVars, connVars, writeVars, pingVars, sfuVars>>

\* "leave": Disconnect; is_open() is then false and reading ends.
OnLeave ==
  /\ MessageRead
  /\ stopping' = TRUE
  /\ ping' = FALSE
  /\ late' = (late \/ latePing \/ link = "torn")
  /\ timer' = FALSE
  /\ discovery' = FALSE
  /\ link' = "closing"
  /\ reading' = "none"
  /\ UNCHANGED <<auto, reconnecting, io, chain, writeVars, latePing, sfuVars>>
-----------------------------------------------------------------------------
(***************************************************************************)
(* Writing, pings, and the peers' thread.                                   *)
(***************************************************************************)

More == queued > 1

\* DoWrite's handler, under write_mutex_: the message is popped and the next one
\* written, on the stream as it is now.
WriteDone ==
  /\ io = "loop" /\ live > 0
  /\ link \in {"open", "closing", "torn"}
  /\ queued' = IF queued = 0 THEN 0 ELSE queued - 1
  /\ popEmpty' = (popEmpty \/ queued = 0)
  /\ live' = IF More /\ link = "open" THEN live ELSE live - 1
  /\ dead' = IF More /\ link # "open" THEN dead + 1 ELSE dead
  /\ late' = (late \/ link = "torn")
  /\ UNCHANGED <<auto, ctlVars, connVars, reading, pingVars, sfuVars>>

\* The message stays in the queue.
WriteFails ==
  /\ io = "loop" /\ live + dead > 0
  /\ IF dead > 0 THEN dead' = dead - 1 /\ UNCHANGED live
                 ELSE live' = live - 1 /\ UNCHANGED dead
  /\ HandleFailure(IF link \in {"open", "torn"} THEN "failed" ELSE link)
  /\ UNCHANGED <<auto, stopping, timer, discovery, chain, reading, queued,
                 popEmpty, sfuVars>>

\* The timer expires: its handler is queued, and no longer cancelled.
PingExpires ==
  /\ io # "teardown" /\ ping /\ ~latePing /\ Room(1)
  /\ ping' = FALSE /\ latePing' = TRUE
  /\ UNCHANGED <<auto, ctlVars, connVars, reading, writeVars, sfuVars, late>>

Pings == 1

\* The ping, and ScheduleNextPing.
PingRuns ==
  /\ io = "loop" /\ latePing
  /\ Write(Pings)
  /\ ping' = TRUE /\ latePing' = FALSE
  /\ UNCHANGED <<auto, ctlVars, connVars, reading, sfuVars, late>>

\* A local description or candidate: Write on a libwebrtc thread.
PeerWrites ==
  /\ pub = "live" \/ sub
  /\ Room(1)
  /\ Write(1)
  /\ UNCHANGED <<auto, ctlVars, connVars, reading, pingVars, sfuVars, late>>

\* The publisher's connection fails.
PeerFails ==
  /\ pub = "live"
  /\ pub' = "failed"
  /\ failPosted' = TRUE
  /\ UNCHANGED <<auto, ctlVars, connVars, reading, writeVars, pingVars, sub,
                 late>>

FailureRuns ==
  /\ io = "loop" /\ failPosted
  /\ failPosted' = FALSE
  /\ HandleFailure(link)
  /\ UNCHANGED <<auto, stopping, timer, discovery, chain, reading, writeVars,
                 pub, sub>>
-----------------------------------------------------------------------------
Init ==
  /\ auto \in Discover /\ late = FALSE
  /\ stopping = FALSE /\ reconnecting = FALSE /\ timer = FALSE /\ io = "start"
  /\ discovery = FALSE /\ chain = [s \in Steps |-> 0] /\ link = "fresh"
  /\ reading = "none" /\ live = 0 /\ dead = 0 /\ queued = 0 /\ popEmpty = FALSE
  /\ ping = FALSE /\ latePing = FALSE
  /\ pub = "none" /\ sub = FALSE /\ failPosted = FALSE

Attempt == \/ StartUp \/ TimerFires \/ DiscoveryFound \/ OnResolve \/ OnConnect
           \/ OnHandshake \/ \E s \in Steps : StepFails(s)
Session == \/ ReadFails \/ OnJoin \/ OnOther \/ OnLeave \/ WriteDone \/ WriteFails
           \/ PingExpires \/ PingRuns
PeerEvents == PeerWrites \/ PeerFails \/ FailureRuns

Next == Attempt \/ Session \/ PeerEvents \/ Teardown

Spec == Init /\ [][Next]_vars

\* Handlers that can run do; an operation on a closed socket completes; and now
\* and then discovery can listen and the server is reachable.
Begins == TimerFires /\ io' = "loop"

FairSpec ==
  /\ Spec
  /\ WF_vars(StartUp) /\ WF_vars(Teardown) /\ SF_vars(Begins)
  /\ WF_vars(link # "open" /\ (ReadFails \/ WriteFails))
  /\ WF_vars(PingRuns) /\ WF_vars(FailureRuns)
  /\ WF_vars(\E s \in Steps : StepFails(s))
  /\ SF_vars(DiscoveryFound) /\ SF_vars(OnResolve) /\ SF_vars(OnConnect)
  /\ SF_vars(OnHandshake)
-----------------------------------------------------------------------------
\* Every variable keeps its type.
TypeOK ==
  /\ auto \in BOOLEAN /\ stopping \in BOOLEAN /\ reconnecting \in BOOLEAN
  /\ timer \in BOOLEAN /\ discovery \in BOOLEAN /\ ping \in BOOLEAN
  /\ latePing \in BOOLEAN /\ sub \in BOOLEAN /\ failPosted \in BOOLEAN
  /\ popEmpty \in BOOLEAN /\ late \in BOOLEAN
  /\ io \in {"start", "loop", "teardown"} /\ link \in Links
  /\ chain \in [Steps -> Nat]
  /\ reading \in {"none", "live", "dead"}
  /\ live \in Nat /\ dead \in Nat /\ queued \in 0..QueueMax
  /\ pub \in {"none", "live", "failed"}

\* The service never gives up: until it is told to leave it is connected,
\* attempting to connect, or has a reconnection coming (HandleFailure ignores a
\* failure only when another has scheduled one, websocket_service.cpp:263).
NeverAbandoned ==
  \/ stopping
  \/ link = "open" /\ reading = "live"
  \/ discovery \/ \E s \in Steps : chain[s] > 0
  \/ timer \/ io # "loop"

\* One attempt at a time: a discovery, a step of the chain, the timer, and an
\* established connection exclude each other, unless a step was already done
\* when its socket was closed.
OneAttempt ==
  late \/
  (IF discovery THEN 1 ELSE 0) + chain["resolve"] + chain["connect"]
  + chain["handshake"] + (IF timer THEN 1 ELSE 0)
  + (IF link = "open" THEN 1 ELSE 0) <= 1

\* At most one async_write is in flight on the stream: Beast allows no more.
OneWrite == late \/ live + dead <= 1

\* A message that waits is being written, or the session it belongs to is being
\* torn down: no message is ever left behind a write that is not in flight.
NoLostWakeup ==
  late \/ (queued > 0 => live + dead > 0 \/ stopping \/ io = "teardown")

\* "Tear down the broken session before the next attempt" (websocket_service.cpp
\* :279): no message and no peer of the old session is left when one begins.
FreshSession ==
  ~stopping /\ (discovery \/ \E s \in Steps : chain[s] > 0)
  => queued = 0 /\ pub = "none" /\ ~sub

\* The same, as long as every cancelled operation was cancelled in time.
CleanStart == late \/ FreshSession

\* One session after the other: there is always one, or one to come, there is never
\* a second one, and nothing of the last one is left (websocket_service.cpp:259-317).
SessionInv == TypeOK /\ NeverAbandoned /\ OneAttempt /\ CleanStart

\* "Force-close the socket so any in-flight read/write completes with an error"
\* (websocket_service.cpp:279): no write completes with success after the queue
\* it was started from was cleared, unless it had when the socket was closed.
PopsItsOwn == late \/ ~popEmpty

\* The queue and the stream agree, whichever thread writes and however the session
\* ends (websocket_service.cpp:560-603).
WriteInv == OneWrite /\ NoLostWakeup /\ PopsItsOwn

\* After "leave" nothing connects again, unless a step of another attempt is in
\* flight because of an operation cancelled too late.
LeaveIsFinal == [][~late /\ stopping => chain' = chain /\ (timer' => timer)]_vars

\* A lost connection is always made again, unless the server says "leave".
Reconnects == reconnecting ~> (link = "open" \/ stopping)
=============================================================================
