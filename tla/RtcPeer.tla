-------------------------------- MODULE RtcPeer --------------------------------
(***************************************************************************)
(* One peer connection (src/src/rtc/rtc_peer.cpp): offers and answers in     *)
(* both directions, renegotiation, buffered candidates, the connection      *)
(* timeout, the delayed emission of the local description, and the ways a   *)
(* connection is closed.                                                    *)
(*                                                                          *)
(* Threads.  The signaling service that owns the peer calls it from one     *)
(* thread, "the caller".  Every callback and timer runs on libwebrtc's      *)
(* signaling thread, where a call of the caller into libwebrtc waits its    *)
(* turn: a step below is one task of that thread, or the part of a task     *)
(* between two operations of the chain.                                     *)
(*                                                                          *)
(* The operations chain of libwebrtc: descriptions are created and set one  *)
(* after the other.  Setting one takes effect at once; creating one ends    *)
(* with a task of its own, which begins the next operation and then calls   *)
(* OnSuccess.                                                               *)
(***************************************************************************)
EXTENDS Naturals, Sequences

CONSTANTS
  Modes,      \* the kinds of peers considered
  Candidates, \* remote candidates, each arriving at most once
  MaxOffers   \* bound: offers of the remote side

\* "mqtt": a viewer over MQTT; "http": a viewer over WHEP; "publisher" and
\* "subscriber": the two peers of the websocket (SFU) service.
ASSUME PeerAssumption ==
  /\ Modes \subseteq {"mqtt", "http", "publisher", "subscriber"}
  /\ Candidates \cap {"idle", "answer"} = {}
  /\ MaxOffers \in Nat

VARIABLES
  mode,
  pc,         \* peer_connection_ is not null
  signaling,  \* signaling_state_: "stable", "local", "remote" offer, "closed"
  connected,  \* is_connected_
  needs,      \* needs_renegotiation_
  fns,        \* on_local_sdp_fn_ and on_local_ice_fn_ are set
  desc,       \* modified_desc_: its type and number
  freed,      \* libwebrtc, which owns it, has freed it
  emitDue,    \* the delayed emission is scheduled
  timer,      \* the timeout task is scheduled
  pending,    \* pending_ice_candidates_
  chain,      \* libwebrtc's operations
  todo,       \* what is left of the task: "none", "emit", or OnSuccess of an
              \* "offer" or an "answer"
  remoteSet,  \* there is a remote description
  flushDue,   \* the success of setting it has been posted
  given,      \* candidates libwebrtc has been given
  tracks,     \* tracks and channels to negotiate: "none", "offered", "yes"
  notified,   \* OnRenegotiationNeeded was called for them
  extra,      \* tracks were added after the creation
  caller,     \* "idle", "answer" (before CreateAnswer), or the candidate that
              \* found no remote description
  offers,     \* offers received
  asked,      \* the remote side has an offer of ours to answer
  linked,     \* both sides have had an answer
  local,      \* the number of the last local description that was set
  emitted,    \* the number of the last one that was emitted
  silenced,   \* history: a description was not emitted, there being no callback
  crossed,    \* history: an offer of ours was refused, crossing a remote one, or
              \* its answer was ignored
  crashed,    \* a null connection or an empty callback was used
  closedBy    \* "nobody", "caller", "failure", "timeout", "command"

rtcVars    == <<pc, signaling, connected>>
flagVars   == <<needs, fns>>
emitVars   == <<desc, emitDue, emitted, silenced, asked>>
iceVars    == <<pending, given, remoteSet, flushDue>>
taskVars   == <<chain, todo>>
trackVars  == <<tracks, notified, extra>>
callVars   == <<mode, caller, offers>>
endVars    == <<crashed, closedBy>>
localVars  == <<local, crossed, freed>>
vars == <<rtcVars, flagVars, emitVars, timer, iceVars, taskVars, trackVars,
          callVars, linked, localVars, endVars>>

Sfu == mode \in {"publisher", "subscriber"}
Op(do, type, n) == [do |-> do, type |-> type, n |-> n]
Create(type) == Op("create", type, 0)
Operation == [do : {"create", "remote", "local"}, type : {"offer", "answer"}, n : Nat]

\* The head of the chain can take effect: it sets a description.
Setting == chain # <<>> /\ chain[1].do # "create"

\* The signaling thread is between two tasks.
Between == ~crashed /\ todo = "none" /\ ~Setting

Negotiating == signaling \in {"local", "remote"}
-----------------------------------------------------------------------------
(***************************************************************************)
(* The caller.                                                              *)
(***************************************************************************)
Call == Between /\ caller = "idle" /\ closedBy # "caller"

\* A null peer_connection_ is used.
Crash == crashed' = TRUE /\ UNCHANGED closedBy

\* CreateOffer, called for a publisher when it has been created and by the
\* renegotiation.
CreateOffer == chain' = IF signaling = "local" THEN chain
                                               ELSE Append(chain, Create("offer"))

Publish ==
  /\ Call /\ pc /\ mode = "publisher" /\ desc.n = 0 /\ chain = <<>>
  /\ CreateOffer
  /\ UNCHANGED <<rtcVars, flagVars, emitVars, timer, iceVars, todo, trackVars,
                 callVars, linked, localVars, endVars>>

\* EnsureTracksAdded: the first offer with media adds the tracks, once.
EnsureTracksAdded ==
  /\ Call /\ mode = "mqtt" /\ ~extra /\ offers < MaxOffers
  /\ IF pc
     THEN /\ extra' = TRUE /\ tracks' = "yes"
          /\ UNCHANGED endVars
     ELSE Crash /\ UNCHANGED <<extra, tracks>>
  /\ UNCHANGED <<rtcVars, flagVars, emitVars, timer, iceVars, taskVars, notified,
                 callVars, linked, localVars>>

\* SetRemoteSdp with an offer.  CreateAnswer is called next.
SetRemoteSdp ==
  /\ Call /\ mode # "publisher" /\ offers < MaxOffers
  /\ offers' = offers + 1
  /\ IF pc
     THEN /\ chain' = Append(chain, Op("remote", "offer", 0))
          /\ caller' = "answer"
          /\ UNCHANGED endVars
     ELSE Crash /\ UNCHANGED <<chain, caller>>
  /\ UNCHANGED <<mode, rtcVars, flagVars, emitVars, timer, iceVars, todo,
                 trackVars, linked, localVars>>

RemoteOffer == (mode = "http" => offers = 0) /\ SetRemoteSdp

\* It makes an offer out of the remote description there is.
RestartIce == mode = "http" /\ offers > 0 /\ (pc => remoteSet) /\ SetRemoteSdp

CreateAnswer ==
  /\ Between /\ caller = "answer"
  /\ caller' = "idle"
  /\ IF pc
     THEN chain' = Append(chain, Create("answer")) /\ UNCHANGED endVars
     ELSE Crash /\ UNCHANGED chain
  /\ UNCHANGED <<mode, offers, rtcVars, flagVars, emitVars, timer, iceVars, todo,
                 trackVars, linked, localVars>>

\* SetRemoteSdp ignores an answer while nothing is being negotiated.
AnswerTaken == Negotiating

\* The remote side answers; a WHEP client cannot.
RemoteAnswer ==
  /\ Call /\ mode # "http" /\ asked
  /\ asked' = FALSE
  /\ crossed' = (crossed \/ ~AnswerTaken)
  /\ CASE AnswerTaken /\ pc -> /\ chain' = Append(chain, Op("remote", "answer", 0))
                               /\ UNCHANGED endVars
       [] AnswerTaken /\ ~pc -> Crash /\ UNCHANGED chain
       [] OTHER -> UNCHANGED <<chain, endVars>>
  /\ UNCHANGED <<rtcVars, flagVars, desc, emitDue, emitted, silenced, timer,
                 iceVars, todo, trackVars, callVars, linked, local, freed>>

\* SetRemoteIce: a candidate is given to libwebrtc or found to be early.
RemoteIce(c) ==
  /\ Call /\ c \notin pending \cup given
  /\ CASE ~pc -> Crash /\ UNCHANGED <<given, caller>>
       [] pc /\ remoteSet -> given' = given \cup {c} /\ UNCHANGED <<caller, endVars>>
       [] OTHER -> caller' = c /\ UNCHANGED <<given, endVars>>
  /\ UNCHANGED <<mode, offers, rtcVars, flagVars, emitVars, timer, pending,
                 remoteSet, flushDue, taskVars, trackVars, linked, localVars>>

\* An early candidate is buffered.
BufferIce(c) ==
  /\ ~crashed /\ caller = c
  /\ pending' = pending \cup {c}
  /\ caller' = "idle"
  /\ UNCHANGED <<mode, offers, rtcVars, flagVars, emitVars, timer, given,
                 remoteSet, flushDue, taskVars, trackVars, linked, localVars, endVars>>
-----------------------------------------------------------------------------
(***************************************************************************)
(* Closing: libwebrtc reports kClosed to OnConnectionChange and to          *)
(* OnSignalingChange, and forgets its operations and its observer.          *)
(***************************************************************************)

\* OnConnectionChange(kClosed)
ConnectedAfter == FALSE

Close(why) ==
  /\ pc' = FALSE /\ signaling' = "closed" /\ connected' = ConnectedAfter
  /\ chain' = <<>> /\ todo' = "none" /\ flushDue' = FALSE
  /\ closedBy' = why
  /\ UNCHANGED <<mode, offers, needs, desc, emitted, silenced, asked, timer,
                 pending, given, remoteSet, trackVars, linked, local, crossed, crashed>>

\* The descriptions go with the connection.
DescriptionsGo == freed' = (desc.n > 0)

\* mutant: the scheduled emission is not cancelled
MutEmissionAfter == emitDue

\* A new sdp_emit_safety_ cancels the scheduled emission.
EmissionAfter == FALSE

\* Terminate, and the destructor: the callbacks, a scheduled emission and the
\* pointer to the description go too.
Terminate ==
  /\ Call
  /\ Close("caller")
  /\ fns' = FALSE /\ emitDue' = EmissionAfter /\ freed' = FALSE
  /\ UNCHANGED caller

\* OnConnectionChange(kFailed)
ConnectionFails ==
  /\ Between /\ pc /\ remoteSet
  /\ Close("failure") /\ DescriptionsGo
  /\ UNCHANGED <<fns, emitDue, caller>>

\* The DISCONNECT command of the viewer.
DisconnectCommand ==
  /\ Between /\ pc /\ connected /\ ~Sfu
  /\ Close("command") /\ DescriptionsGo
  /\ UNCHANGED <<fns, emitDue, caller>>

\* The timeout task closes a connection that has not come up.
TimesOut ==
  /\ Between /\ timer
  /\ timer' = FALSE
  /\ IF pc /\ ~connected
     THEN /\ pc' = FALSE /\ signaling' = "closed" /\ chain' = <<>>
          /\ flushDue' = FALSE /\ closedBy' = "timeout" /\ DescriptionsGo
     ELSE UNCHANGED <<pc, signaling, chain, flushDue, closedBy, freed>>
  /\ UNCHANGED <<connected, flagVars, emitVars, pending, given, remoteSet, todo,
                 trackVars, callVars, linked, local, crossed, crashed>>
-----------------------------------------------------------------------------
(***************************************************************************)
(* Operations of the chain.                                                 *)
(***************************************************************************)

\* OnSignalingChange(kStable): a renegotiation is complete.
Renegotiated == connected /\ ~needs /\ ~Sfu

\* The state becomes stable; what is still not negotiated may be notified again.
BecomesStable(tracksLeft) ==
  /\ signaling' = "stable"
  /\ fns' = (fns /\ ~Renegotiated)
  /\ notified' = FALSE
  /\ tracks' \in tracksLeft
  /\ UNCHANGED timer

\* mutant: the timeout is not scheduled
MutTimerAfter == timer

\* OnSignalingChange(kHaveRemoteOffer) cancels the timeout and schedules another.
TimerAfter == signaling # "remote" \/ timer

\* The description at the head of the chain is refused in this state.
Refused(op) == op.type = "answer" /\
  signaling # IF op.do = "remote" THEN "local" ELSE "remote"
RefusedOffer(op) == op.type = "offer" /\
  signaling = IF op.do = "remote" THEN "local" ELSE "remote"

\* The next operation sets a description.  Setting a local one takes it over, and a
\* refused one is freed; of that nobody is told.
SetDescription ==
  /\ ~crashed /\ Setting
  /\ chain' = Tail(chain)
  /\ LET op == chain[1]
         set == ~Refused(op) /\ ~RefusedOffer(op)
     IN /\ CASE set /\ op.type = "offer" ->
                  /\ signaling' = op.do
                  /\ timer' = IF op.do = "remote" THEN TimerAfter ELSE timer
                  /\ UNCHANGED <<fns, notified, tracks>>
             [] set /\ op.type = "answer" /\ op.do = "remote" ->
                  BecomesStable(IF tracks = "offered" THEN {"none"} ELSE {tracks})
             [] set /\ op.type = "answer" /\ op.do = "local" ->
                  BecomesStable(IF tracks = "none" THEN {"none"} ELSE {"none", "yes"})
             [] OTHER -> UNCHANGED <<signaling, timer, fns, notified, tracks>>
        /\ remoteSet' = (remoteSet \/ (set /\ op.do = "remote"))
        /\ flushDue' = (flushDue \/ (set /\ op.do = "remote"))
        /\ local' = IF set /\ op.do = "local" THEN op.n ELSE local
        /\ crossed' = (crossed \/ (op.do = "local" /\ RefusedOffer(op)))
        /\ freed' = (freed \/ (op.do = "local" /\ ~set /\ op.n = desc.n))
        /\ linked' = (linked \/ (set /\ op.do = "remote" /\ op.type = "answer"))
  /\ UNCHANGED <<pc, connected, needs, emitVars, pending, given, todo, extra,
                 callVars, endVars>>

\* A description has been created, or could not be: no offer to answer.
Created ==
  /\ Between /\ chain # <<>>
  /\ chain' = Tail(chain)
  /\ LET type == chain[1].type
         made == type = "offer" \/ signaling = "remote"
     IN /\ todo' = IF made THEN type ELSE "none"
        /\ tracks' = IF type = "offer" /\ tracks = "yes" THEN "offered" ELSE tracks
  /\ UNCHANGED <<rtcVars, flagVars, emitVars, timer, iceVars, notified, extra,
                 callVars, linked, localVars, endVars>>

\* OnSuccess: SetLocalDescription, then EmitLocalSdp.
OnSuccess ==
  /\ ~crashed /\ todo \in {"offer", "answer"} /\ ~Setting
  /\ desc' = [type |-> todo, n |-> desc.n + 1]
  /\ chain' = Append(chain, Op("local", todo, desc.n + 1))
  /\ todo' = "emit" /\ freed' = FALSE
  /\ UNCHANGED <<rtcVars, flagVars, emitDue, emitted, silenced, asked, timer,
                 iceVars, trackVars, callVars, linked, local, crossed, endVars>>

\* on_local_sdp_fn_ is called; the remote side gets the description.
Emit == /\ emitted' = desc.n
        /\ asked' = (asked \/ desc.type = "offer")
        /\ linked' = (linked \/ desc.type = "answer")

\* send_sdp: a description that has been freed may still look like one, or not.
SendSdp == \/ Emit /\ UNCHANGED endVars
           \/ freed /\ Crash /\ UNCHANGED <<emitted, asked, linked>>

EmitLocalSdp ==
  /\ ~crashed /\ todo = "emit" /\ ~Setting
  /\ todo' = "none"
  /\ CASE ~fns -> /\ silenced' = TRUE
                  /\ UNCHANGED <<emitDue, emitted, asked, linked, endVars>>
       [] fns /\ mode = "http" ->
            /\ emitDue' = TRUE
            /\ UNCHANGED <<silenced, emitted, asked, linked, endVars>>
       [] OTHER -> SendSdp /\ UNCHANGED <<emitDue, silenced>>
  /\ UNCHANGED <<rtcVars, flagVars, desc, timer, iceVars, chain, trackVars,
                 callVars, localVars>>

\* One second later, with the candidates gathered meanwhile.
EmitDelayed ==
  /\ Between /\ emitDue
  /\ emitDue' = FALSE
  /\ IF fns THEN SendSdp
            ELSE Crash /\ UNCHANGED <<emitted, asked, linked>>
  /\ UNCHANGED <<rtcVars, flagVars, desc, silenced, timer, iceVars, taskVars,
                 trackVars, callVars, localVars>>

\* OnIceCandidate adds a gathered candidate to the description of a WHEP peer; it
\* matters here when the description has been freed.
OnIceCandidate ==
  /\ Between /\ pc /\ mode = "http" /\ local > 0 /\ freed
  /\ Crash
  /\ UNCHANGED <<rtcVars, flagVars, emitVars, timer, iceVars, taskVars, trackVars,
                 callVars, linked, localVars>>

\* mutant: the buffered candidates stay where they are
MutFlushed == [given |-> given, pending |-> pending]

Flushed == [given |-> given \cup pending, pending |-> {}]

\* The remote description was set.
FlushPendingIce ==
  /\ Between /\ flushDue
  /\ given' = Flushed.given /\ pending' = Flushed.pending /\ flushDue' = FALSE
  /\ UNCHANGED <<rtcVars, flagVars, emitVars, timer, remoteSet, taskVars,
                 trackVars, callVars, linked, localVars, endVars>>
-----------------------------------------------------------------------------
(***************************************************************************)
(* Renegotiation.                                                           *)
(***************************************************************************)
OnRenegotiationNeeded ==
  /\ Between /\ pc /\ signaling = "stable" /\ chain = <<>>
  /\ tracks = "yes" /\ ~notified
  /\ notified' = TRUE
  /\ needs' = (needs \/ (~Sfu /\ ~connected))
  /\ IF ~Sfu /\ connected THEN CreateOffer ELSE UNCHANGED chain
  /\ UNCHANGED <<rtcVars, fns, emitVars, timer, iceVars, todo, tracks, extra,
                 callVars, linked, localVars, endVars>>

\* mutant: the renegotiation is not begun
MutDeferred == FALSE

\* A renegotiation that was waiting for the connection.
Deferred == needs /\ signaling = "stable"

\* OnConnectionChange(kConnected)
Connects ==
  /\ Between /\ pc /\ linked
  /\ connected' = TRUE
  /\ needs' = (needs /\ ~Deferred)
  /\ IF Deferred THEN CreateOffer ELSE UNCHANGED chain
  /\ UNCHANGED <<pc, signaling, fns, emitVars, timer, iceVars, todo, trackVars,
                 callVars, linked, localVars, endVars>>
-----------------------------------------------------------------------------
Init ==
  /\ mode \in Modes
  /\ pc = TRUE /\ signaling = "stable" /\ connected = FALSE
  /\ needs = FALSE /\ fns = TRUE
  /\ desc = [type |-> "none", n |-> 0] /\ local = 0 /\ emitted = 0
  /\ emitDue = FALSE /\ silenced = FALSE /\ asked = FALSE /\ linked = FALSE
  /\ crossed = FALSE /\ freed = FALSE
  /\ timer = FALSE
  /\ pending = {} /\ given = {} /\ remoteSet = FALSE /\ flushDue = FALSE
  /\ chain = <<>> /\ todo = "none"
  /\ tracks = "yes" /\ notified = FALSE /\ extra = FALSE
  /\ caller = "idle" /\ offers = 0
  /\ crashed = FALSE /\ closedBy = "nobody"

SignalingThread ==
  \/ SetDescription \/ Created \/ OnSuccess \/ EmitLocalSdp \/ EmitDelayed
  \/ FlushPendingIce \/ OnRenegotiationNeeded \/ TimesOut \/ OnIceCandidate

Caller == CreateAnswer \/ \E c \in Candidates : BufferIce(c)

Next == \/ SignalingThread \/ Caller
        \/ Publish \/ EnsureTracksAdded \/ RemoteOffer \/ RestartIce
        \/ RemoteAnswer
        \/ \E c \in Candidates : RemoteIce(c)
        \/ Terminate \/ ConnectionFails \/ DisconnectCommand
        \/ Connects

Spec == Init /\ [][Next]_vars

\* The threads run, and a remote side that is asked answers.
FairSpec == /\ Spec
            /\ WF_vars(SetDescription) /\ WF_vars(Created) /\ WF_vars(OnSuccess)
            /\ WF_vars(EmitLocalSdp) /\ WF_vars(EmitDelayed)
            /\ WF_vars(FlushPendingIce) /\ WF_vars(OnRenegotiationNeeded)
            /\ SF_vars(TimesOut) /\ SF_vars(RemoteAnswer) /\ WF_vars(Caller)
-----------------------------------------------------------------------------
\* Every variable keeps its type, and only a peer that is closed has no
\* connection.
Flags ==
  /\ pc \in BOOLEAN /\ connected \in BOOLEAN /\ needs \in BOOLEAN
  /\ fns \in BOOLEAN /\ emitDue \in BOOLEAN /\ timer \in BOOLEAN
  /\ remoteSet \in BOOLEAN /\ flushDue \in BOOLEAN /\ notified \in BOOLEAN
  /\ extra \in BOOLEAN /\ asked \in BOOLEAN /\ linked \in BOOLEAN
  /\ silenced \in BOOLEAN /\ crossed \in BOOLEAN /\ crashed \in BOOLEAN
  /\ freed \in BOOLEAN
Values ==
  /\ mode \in Modes /\ signaling \in {"stable", "local", "remote", "closed"}
  /\ desc \in [type : {"none", "offer", "answer"}, n : Nat]
  /\ local \in 0 .. desc.n /\ emitted \in 0 .. desc.n /\ offers \in 0 .. MaxOffers
  /\ pending \subseteq Candidates /\ given \subseteq Candidates
  /\ chain \in Seq(Operation) /\ todo \in {"none", "emit", "offer", "answer"}
  /\ tracks \in {"none", "offered", "yes"}
  /\ caller \in {"idle", "answer"} \cup Candidates
Closed ==
  /\ closedBy \in {"nobody", "caller", "failure", "timeout", "command"}
  /\ pc <=> closedBy = "nobody"
  /\ ~pc => signaling = "closed" /\ ~connected
TypeOK == Flags /\ Values /\ Closed

\* A candidate that came before the remote description is not stranded: it is
\* buffered only while there is none, or until the flush that is due.
NotStranded == pending # {} /\ pc => ~remoteSet \/ flushDue

\* The process dies only in two ways.  The caller, or an emission that was due, uses
\* a connection that was closed on the signaling thread, after a failure, a timeout
\* or a command.  Or the remote side has made more than one offer: then a delayed
\* emission may find its callback gone, and a description of ours that was refused,
\* and freed, may be emitted all the same.  A peer that has had one offer and stays
\* open is safe, and so is one that its owner has closed.
OnlyClosedUnderCaller ==
  crashed => \/ closedBy \in {"failure", "timeout", "command"}
             \/ offers > 1 /\ closedBy = "nobody" /\ (mode = "http" \/ freed)

\* "Renegotiation completed - clean up signaling callbacks" (rtc_peer.cpp:181):
\* a peer goes silent only after it has been connected, and before that every
\* local description that was set is emitted, or is about to be.
Quiet == Between /\ pc /\ chain = <<>> /\ ~emitDue
Emitted == Quiet => emitted >= local \/ silenced
SilentOnlyConnected == silenced => linked /\ ~Sfu
NothingWithheld == Emitted /\ SilentOnlyConnected

\* Whatever comes early waits for its time and no longer: candidates for the remote
\* description, descriptions for the candidates that go into them.
DeliveryInv == TypeOK /\ NotStranded /\ NothingWithheld

\* The same for every peer: what a renegotiation has made is emitted.
NeverSilenced == ~silenced

\* A peer that was offered something is connected or closed in the end: the
\* timeout leaves none half-open.
PeerResolves == (pc /\ signaling = "remote") ~> (connected \/ ~pc \/ crashed)

\* Tracks that wait for the connection are negotiated once it is up, unless the
\* callbacks are gone already, nobody can answer, or the offer was crossed.
TracksNegotiated ==
  (connected /\ tracks = "yes" /\ ~Sfu)
    ~> (tracks = "none" \/ ~pc \/ crashed \/ ~fns \/ mode = "http" \/ crossed)
=============================================================================
