----------------------------- MODULE PeerSessions -----------------------------
(***************************************************************************)
(* The peers of the viewers and the services that create and look them up:  *)
(* peer_map_ and its cleaner (signaling_service.h), the MQTT service with   *)
(* its maps between clients and peers (mqtt_service.cpp), the WHEP service  *)
(* (http_service.cpp), and the creation of a peer by the Conductor.  What a *)
(* peer does on its own is in RtcPeer; here it is new, connected, closed,   *)
(* or gone.                                                                 *)
(*                                                                          *)
(* Threads.  One service thread handles a message, or a request, after the  *)
(* other; the cleaner wakes every 60 s; libwebrtc's thread brings peers up  *)
(* and down and emits their answers.  None of the maps has a lock: a step   *)
(* of the cleaner comes between any two of a message, and the other way.    *)
(*                                                                          *)
(* Granularity.  One operation on a map, or on a peer, is one step.  What   *)
(* two at once could do to the memory of an unordered_map is left out.      *)
(***************************************************************************)
EXTENDS Naturals, FiniteSets

CONSTANTS
  Services, \* "mqtt", "http"
  Clients,
  Peers,    \* bound: the peers that may be created
  None      \* no client, no peer

ASSUME SessionAssumption ==
  /\ Services \subseteq {"mqtt", "http"}
  /\ None \notin Clients \cup Peers

VARIABLES
  service,
  map,       \* peer_map_: the peers in it
  peerOf,    \* client_id_to_peer_id_
  clientOf,  \* peer_id_to_client_id_
  state,     \* per peer: "none", "new", "connected", "closed", "gone"
  offered,   \* peers that have an offer
  answered,  \* peers whose answer was emitted to their client
  step,      \* the service thread: "idle", "create", "store", "storeBack",
             \* "tracks", "give", "terminate"
  msg,       \* what it handles: its type, client and peer
  cleaning,  \* the peers the cleaner has still to look at
  turn,      \* the one it is taking out, the client it found, and where it is:
             \* "none", "find", "unmap", "forget", "erase"
  whose,     \* history: the client a peer was created for
  missed,    \* history: peers the cleaner erased without having found a client
  crashed    \* a null pointer was used

mapVars   == <<map, peerOf, clientOf>>
peerVars  == <<state, offered, answered>>
threadVars == <<step, msg>>
histVars  == <<whose, missed>>
cleanerVars == <<cleaning, turn>>
sessionsVars ==
  <<service, mapVars, peerVars, threadVars, cleanerVars, histVars, crashed>>

Up == ~crashed
NoMessage == [type |-> "none", client |-> None, peer |-> None]
NoTurn == [at |-> "none", peer |-> None, client |-> None]
Live == {"new", "connected", "closed"}

\* GetPeer
Found(p) == p # None /\ p \in map
-----------------------------------------------------------------------------
(***************************************************************************)
(* A message arrives.                                                       *)
(***************************************************************************)
Receive(type, c, p, next) ==
  /\ Up /\ step = "idle"
  /\ msg' = [type |-> type, client |-> c, peer |-> p]
  /\ step' = next
  /\ UNCHANGED <<service, mapVars, peerVars, cleanerVars, histVars, crashed>>

Known(c) == Found(peerOf[c])

\* MqttService::OnMessage: every message of a client that has no peer creates one.
OnMessage(type, c) ==
  /\ service = "mqtt"
  /\ IF Known(c)
     THEN Receive(type, c, peerOf[c], IF type = "mediaOffer" THEN "tracks"
                                                              ELSE "give")
     ELSE Receive(type, c, None, "create")

\* HttpSession::HandlePostRequest
HandlePost(c) == service = "http" /\ Receive("mediaOffer", c, None, "create")

\* HandlePatchRequest: candidates, and a new offer for an ICE restart.  Without
\* the peer the request is refused.
HandlePatch(c, p, type) ==
  service = "http" /\ whose[p] = c /\ Found(p) /\ Receive(type, c, p, "give")

HandleDelete(c, p) ==
  service = "http" /\ whose[p] = c /\ Found(p) /\ Receive("delete", c, p, "terminate")
-----------------------------------------------------------------------------
\* A new random id; which one does not matter.
Fresh == CHOOSE p \in Peers : state[p] = "none"

(***************************************************************************)
(* CreatePeer: a peer connection, its data channels, and for WHEP its       *)
(* tracks; then peer_map_.                                                  *)
(***************************************************************************)
CreatePeer(p) ==
  /\ Up /\ step = "create" /\ state[p] = "none"
  /\ p = Fresh
  /\ state' = [state EXCEPT ![p] = "new"]
  /\ map' = map \cup {p}
  /\ whose' = [whose EXCEPT ![p] = msg.client]
  /\ msg' = [msg EXCEPT !.peer = p]
  /\ step' = IF service = "mqtt" THEN "store" ELSE "give"
  /\ UNCHANGED <<service, peerOf, clientOf, offered, answered, cleanerVars, missed,
                 crashed>>

\* libwebrtc refuses the configuration: CreatePeer asks the null peer for its id.
CreateFails ==
  /\ Up /\ step = "create"
  /\ crashed' = TRUE
  /\ UNCHANGED <<service, mapVars, peerVars, threadVars, cleanerVars, histVars>>

\* client_id_to_peer_id_
StoreClient ==
  /\ Up /\ step = "store"
  /\ peerOf' = [peerOf EXCEPT ![msg.client] = msg.peer]
  /\ step' = "storeBack"
  /\ UNCHANGED <<service, map, clientOf, peerVars, msg, cleanerVars, histVars,
                 crashed>>

\* peer_id_to_client_id_
StoreBack ==
  /\ Up /\ step = "storeBack"
  /\ clientOf' = [clientOf EXCEPT ![msg.peer] = msg.client]
  /\ step' = IF msg.type = "mediaOffer" THEN "tracks" ELSE "give"
  /\ UNCHANGED <<service, map, peerOf, peerVars, msg, cleanerVars, histVars,
                 crashed>>

\* The thread is done with the peer, which goes with its last reference.
Handled(states) ==
  /\ step' = "idle" /\ msg' = NoMessage
  /\ state' = IF msg.peer \in map' THEN states
                                   ELSE [states EXCEPT ![msg.peer] = "gone"]

\* EnsureTracksAdded uses the connection, which is null in a closed peer.
EnsureTracksAdded ==
  /\ Up /\ step = "tracks"
  /\ crashed' = (state[msg.peer] = "closed")
  /\ step' = IF crashed' THEN step ELSE "give"
  /\ UNCHANGED <<service, mapVars, peerVars, msg, cleanerVars, histVars>>

\* OnRemoteSdp and OnRemoteIce look the peer up again; a request still has it.
Reaches == service = "http" \/ Found(msg.peer)

\* SetRemoteSdp and SetRemoteIce: a closed peer ignores an answer, and its null
\* connection is used for anything else.
Uses == Reaches /\ msg.type # "answer"

GiveMessage ==
  /\ Up /\ step = "give"
  /\ crashed' = (Uses /\ state[msg.peer] = "closed")
  /\ offered' = IF Uses /\ msg.type # "ice" /\ state[msg.peer] = "new"
                THEN offered \cup {msg.peer} ELSE offered
  /\ UNCHANGED mapVars
  /\ IF crashed' THEN UNCHANGED <<state, threadVars>> ELSE Handled(state)
  /\ UNCHANGED <<service, answered, cleanerVars, histVars>>

\* RemovePeerFromMap
Removed == map \ {msg.peer}

\* Terminate, which may find a closed peer, and RemovePeerFromMap.
TerminatePeer ==
  /\ Up /\ step = "terminate"
  /\ map' = Removed
  /\ step' = "idle" /\ msg' = NoMessage
  /\ state' = [state EXCEPT ![msg.peer] = "gone"]
  /\ UNCHANGED <<service, peerOf, clientOf, offered, answered, cleanerVars, histVars,
                 crashed>>
-----------------------------------------------------------------------------
(***************************************************************************)
(* The peers.                                                               *)
(***************************************************************************)
\* mutant: the answer goes to any client
MutRecipient(p) == CHOOSE c \in Clients : TRUE

\* OnLocalSdp: MQTT looks the client up, a request has its own session.
Recipient(p) == IF service = "mqtt" THEN clientOf[p] ELSE whose[p]

\* Without a client the answer is dropped.
EmitAnswer(p) ==
  /\ Up /\ state[p] = "new" /\ p \in offered
  /\ \A q \in answered : q[1] # p
  /\ Recipient(p) # None
  /\ answered' = answered \cup {<<p, Recipient(p)>>}
  /\ UNCHANGED <<service, mapVars, state, offered, threadVars, cleanerVars, histVars,
                 crashed>>

PeerMoves(p, from, to) ==
  /\ Up /\ state[p] \in from
  /\ state' = [state EXCEPT ![p] = to]
  /\ UNCHANGED <<service, mapVars, offered, answered, threadVars, cleanerVars,
                 histVars, crashed>>

Connects(p) == (\E q \in answered : q[1] = p) /\ PeerMoves(p, {"new"}, "connected")

\* It fails, times out, or is disconnected by a command.
ClosesItself(p) == p \in offered /\ PeerMoves(p, {"new", "connected"}, "closed")
-----------------------------------------------------------------------------
(***************************************************************************)
(* The cleaner: RefreshPeerMap of the service, of which a turn of the loop   *)
(* ends at each use of a map.  What it has read of the peer is old by then: *)
(* a peer that connects after the check is erased all the same.             *)
(***************************************************************************)
CleanerWakes ==
  /\ Up /\ cleaning = {} /\ turn = NoTurn /\ map # {}
  /\ cleaning' = map
  /\ UNCHANGED <<service, mapVars, peerVars, threadVars, turn, histVars, crashed>>

\* mutant: only peers that were closed are erased
MutStale(p) == state[p] = "closed"

\* isConnected()
Stale(p) == state[p] # "connected"

\* The base class has no clients to look for.
CheckPeer(p) ==
  /\ Up /\ turn = NoTurn /\ p \in cleaning
  /\ cleaning' = cleaning \ {p}
  /\ turn' = IF p \in map /\ Stale(p)
             THEN [NoTurn EXCEPT !.at = IF service = "mqtt" THEN "find" ELSE "erase",
                                 !.peer = p]
             ELSE NoTurn
  /\ UNCHANGED <<service, mapVars, peerVars, threadVars, histVars, crashed>>

FindClient ==
  /\ Up /\ turn.at = "find"
  /\ turn' = [turn EXCEPT !.client = clientOf[turn.peer],
                          !.at = IF clientOf[turn.peer] = None THEN "erase"
                                                               ELSE "unmap"]
  /\ UNCHANGED <<service, mapVars, peerVars, threadVars, cleaning, histVars, crashed>>

\* mutant: the client keeps its peer
MutUnmapped == peerOf

\* The client's entry is erased if it is still this peer's.
Unmapped == IF peerOf[turn.client] = turn.peer THEN [peerOf EXCEPT ![turn.client] = None]
                                               ELSE peerOf

UnmapClient ==
  /\ Up /\ turn.at = "unmap"
  /\ peerOf' = Unmapped
  /\ turn' = [turn EXCEPT !.at = "forget"]
  /\ UNCHANGED <<service, map, clientOf, peerVars, threadVars, cleaning, histVars,
                 crashed>>

ForgetClient ==
  /\ Up /\ turn.at = "forget"
  /\ clientOf' = [clientOf EXCEPT ![turn.peer] = None]
  /\ turn' = [turn EXCEPT !.at = "erase"]
  /\ UNCHANGED <<service, map, peerOf, peerVars, threadVars, cleaning, histVars,
                 crashed>>

ErasePeer ==
  /\ Up /\ turn.at = "erase"
  /\ map' = map \ {turn.peer}
  /\ state' = [state EXCEPT ![turn.peer] = IF msg.peer = turn.peer THEN @ ELSE "gone"]
  /\ missed' = IF turn.client = None THEN missed \cup {turn.peer} ELSE missed
  /\ turn' = NoTurn
  /\ UNCHANGED <<service, peerOf, clientOf, offered, answered, threadVars, cleaning,
                 whose, crashed>>

CleanPeer == FindClient \/ UnmapClient \/ ForgetClient \/ ErasePeer
-----------------------------------------------------------------------------
SessionsInit ==
  /\ service \in Services
  /\ map = {} /\ peerOf = [c \in Clients |-> None]
  /\ clientOf = [p \in Peers |-> None]
  /\ state = [p \in Peers |-> "none"] /\ offered = {} /\ answered = {}
  /\ step = "idle" /\ msg = NoMessage
  /\ cleaning = {} /\ turn = NoTurn
  /\ whose = [p \in Peers |-> None] /\ missed = {} /\ crashed = FALSE

Mqtt == \E c \in Clients, t \in {"mediaOffer", "offer", "answer", "ice"} :
          OnMessage(t, c)

Http == \E c \in Clients : \/ HandlePost(c)
                           \/ \E p \in Peers : \/ HandlePatch(c, p, "ice")
                                               \/ HandlePatch(c, p, "offer")
                                               \/ HandleDelete(c, p)

Handle == \/ (\E p \in Peers : CreatePeer(p)) \/ StoreClient \/ StoreBack
          \/ EnsureTracksAdded \/ GiveMessage \/ TerminatePeer

Cleaner == CleanerWakes \/ CleanPeer \/ \E p \in Peers : CheckPeer(p)

SessionsNext ==
  \/ Mqtt \/ Http \/ Handle \/ CreateFails
  \/ \E p \in Peers : EmitAnswer(p) \/ Connects(p) \/ ClosesItself(p)
  \/ Cleaner

SessionsSpec == SessionsInit /\ [][SessionsNext]_sessionsVars

\* The service thread and the cleaner run.
FairSessionsSpec ==
  SessionsSpec /\ WF_sessionsVars(Handle) /\ WF_sessionsVars(Cleaner)
-----------------------------------------------------------------------------
\* Every variable keeps its type; a peer in peer_map_ exists, and one that exists
\* is in it or in the service thread's hands.
SessionsTypeOK ==
  /\ service \in Services
  /\ map \subseteq Peers /\ offered \subseteq Peers /\ missed \subseteq Peers
  /\ cleaning \subseteq Peers /\ answered \subseteq Peers \X Clients
  /\ peerOf \in [Clients -> Peers \cup {None}]
  /\ {clientOf, whose} \subseteq [Peers -> Clients \cup {None}]
  /\ state \in [Peers -> {"none", "gone"} \cup Live]
  /\ step \in {"idle", "create", "store", "storeBack", "tracks", "give", "terminate"}
  /\ turn \in [at : {"none", "find", "unmap", "forget", "erase"},
               peer : Peers \cup {None}, client : Clients \cup {None}]
  /\ crashed \in BOOLEAN
  /\ \A p \in map : state[p] \in Live
  /\ \A p \in Peers : state[p] \in Live => p \in map \/ msg.peer = p

\* Between the insertions of OnMessage, and between the erasures of RefreshPeerMap.
Storing(c, p) == step = "storeBack" /\ msg.client = c /\ msg.peer = p
Leaving(p) == turn.at = "forget" /\ turn.peer = p

\* No lock holds the maps of the MQTT service together: a client's peer is mapped
\* back to it except between the two insertions of OnMessage, which may be the peer's
\* whose turn it is; a mapped peer is in peer_map_ unless the cleaner erased it before
\* its client was stored; and a viewer that comes back has one peer in the map, besides
\* the one the cleaner has unmapped and is about to forget.
MapsAgree ==
  /\ \A c \in Clients :
       peerOf[c] # None => \/ clientOf[peerOf[c]] = c
                          \/ Storing(c, peerOf[c])
  /\ \A p \in Peers : clientOf[p] # None => p \in map \cup missed
  /\ \A p, q \in map :
       clientOf[p] # None /\ clientOf[p] = clientOf[q] => \/ p = q
                                                         \/ Leaving(p) \/ Leaving(q)

\* Who has which peer is told the same by every map.
PeersInv == SessionsTypeOK /\ MapsAgree

\* Every answer goes to the client that made the offer.
RightRecipient == \A a \in answered : whose[a[1]] = a[2]

\* A peer that is not connected does not stay in the map.
Cleaned ==
  \A p \in Peers : (p \in map) ~> (p \notin map \/ state[p] = "connected" \/ crashed)
=============================================================================
