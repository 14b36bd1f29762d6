---------------------------- MODULE SignalingProofs ----------------------------
(***************************************************************************)
(* Proofs about the two ways a camera is called.                            *)
(*                                                                          *)
(* WsSignaling, for any number of messages and resolves: there is always    *)
(* one session, or one to come, and never two; the write queue and the      *)
(* stream agree; and after "leave" nothing connects again.                  *)
(*                                                                          *)
(* PeerSessions, for any number of clients and peers: the maps of the       *)
(* services agree whatever the cleaner does in the middle of a message, and *)
(* every answer goes to the client that asked.                              *)
(***************************************************************************)
EXTENDS WsSignaling, PeerSessions, TLAPS

(***************************************************************************)
(* WsSignaling.                                                             *)
(*                                                                          *)
(* What holds whatever was cancelled too late.                              *)
(***************************************************************************)
\* Another session is coming.
Coming == timer \/ io = "teardown"

Control ==
  /\ io = "teardown" => reconnecting
  /\ reconnecting /\ ~stopping => Coming
  /\ link \in {"closed", "torn", "failed"} /\ ~stopping => Coming
  /\ link = "open" => reading = "live"
  /\ link = "closing" => stopping
  /\ stopping => io = "loop" /\ ~timer /\ ~discovery
  /\ latePing => queued < QueueMax

(***************************************************************************)
(* What holds when every operation was cancelled in time.                   *)
(***************************************************************************)
B2N(b) == IF b THEN 1 ELSE 0
Count == B2N(discovery) + chain["resolve"] + chain["connect"] + chain["handshake"]
         + B2N(timer) + B2N(link = "open")

\* One attempt, and none while the io thread starts, tears down, or has left.
Attempts == /\ Count <= 1
            /\ io # "loop" \/ stopping => Count = 0

\* What belongs to a session, and what may outlive it until the next begins.
Belongs ==
  /\ ping \/ latePing => link = "open"
  /\ pub # "none" \/ sub \/ queued > 0 => link = "open" \/ io = "teardown" \/ stopping
  /\ reading # "none" \/ live + dead > 0 \/ failPosted
     => link = "open" \/ reconnecting \/ stopping

\* The write in flight, of a queue that is not empty unless it was cleared.
Writes ==
  /\ live + dead <= 1
  /\ link = "open" => dead = 0
  /\ queued = 0 /\ live + dead > 0 => timer
  /\ queued > 0 => live + dead > 0 \/ stopping \/ io = "teardown"
  /\ ~popEmpty

InTime == ~late => Attempts /\ Belongs /\ Writes

\* The inductive invariant.
IInv == TypeOK /\ Control /\ NeverAbandoned /\ InTime

LEMMA Numbers ==
  QueueMax \in Nat /\ {"resolve", "connect", "handshake"} = Steps
  BY WsAssumption DEF Steps

\* Counting the attempts: nothing is counted, or the open stream alone.
LEMMA NoneCounted ==
  ASSUME TypeOK, Count = 0
  PROVE  /\ ~discovery /\ ~timer /\ link # "open"
         /\ chain["resolve"] = 0 /\ chain["connect"] = 0 /\ chain["handshake"] = 0
  BY Numbers DEF TypeOK, Count, B2N

LEMMA OnlyOpen ==
  ASSUME TypeOK, Count <= 1, link = "open"
  PROVE  /\ ~discovery /\ ~timer
         /\ chain["resolve"] = 0 /\ chain["connect"] = 0 /\ chain["handshake"] = 0
  BY Numbers DEF TypeOK, Count, B2N

LEMMA InitIInv == Init => IInv
<1> SUFFICES ASSUME Init PROVE IInv
  OBVIOUS
<1>1. TypeOK
  <2>1. auto \in BOOLEAN
    BY WsAssumption DEF Init
  <2>2. chain \in [Steps -> Nat] /\ link \in Links
    BY DEF Init, Links
  <2>3. live \in Nat /\ dead \in Nat /\ queued \in 0 .. QueueMax
    BY Numbers DEF Init
  <2> QED
    BY <2>1, <2>2, <2>3 DEF Init, TypeOK
<1>2. Control
  BY Numbers DEF Init, Control, Coming
<1>3. NeverAbandoned
  BY DEF Init, NeverAbandoned
<1>4. Attempts /\ Belongs /\ Writes
  BY Numbers DEF Init, Attempts, Belongs, Writes, Count, B2N
<1> QED
  BY <1>1, <1>2, <1>3, <1>4 DEF IInv, InTime

LEMMA StartUpIInv ==
  ASSUME IInv, StartUp
  PROVE  IInv'
<1> USE Numbers DEF StartUp, Connect, GuardCleared, CancelPing, Shut,
        ctlVars, connVars, writeVars, pingVars, sfuVars
<1>1. TypeOK'
  <2>1. chain' \in [Steps -> Nat]
    BY DEF IInv, TypeOK
  <2>2. link' \in Links
    BY DEF IInv, TypeOK, Links
  <2>3. live' \in Nat /\ dead' \in Nat /\ queued' \in 0 .. QueueMax
    BY DEF IInv, TypeOK, Control
  <2>4. /\ auto' \in BOOLEAN /\ stopping' \in BOOLEAN /\ reconnecting' \in BOOLEAN
        /\ timer' \in BOOLEAN /\ discovery' \in BOOLEAN /\ ping' \in BOOLEAN
    BY DEF IInv, TypeOK
  <2>5. /\ latePing' \in BOOLEAN /\ sub' \in BOOLEAN /\ failPosted' \in BOOLEAN
        /\ popEmpty' \in BOOLEAN /\ late' \in BOOLEAN
    BY DEF IInv, TypeOK
  <2>6. /\ io' \in {"start", "loop", "teardown"} /\ reading' \in {"none", "live", "dead"}
        /\ pub' \in {"none", "live", "failed"}
    BY DEF IInv, TypeOK
  <2> QED
    BY <2>1, <2>2, <2>3, <2>4, <2>5, <2>6 DEF TypeOK
<1>2. Control'
  BY DEF IInv, TypeOK, Control, Coming
<1>3. NeverAbandoned'
  BY DEF IInv, TypeOK, Control, Coming, NeverAbandoned
<1>4. ASSUME ~late' PROVE Attempts' /\ Belongs' /\ Writes'
  <2>1. ~late /\ Attempts /\ Belongs /\ Writes
    BY <1>4 DEF IInv, InTime, TypeOK
  <2>2. Attempts'
    BY <1>4, <2>1 DEF IInv, TypeOK, Control, Coming, Attempts, Belongs, Count, B2N
  <2>3. Belongs'
    BY <1>4, <2>1 DEF IInv, TypeOK, Control, Coming, Attempts, Belongs, Count, B2N
  <2>4. Writes'
    BY <1>4, <2>1 DEF IInv, TypeOK, Control, Coming, Attempts, Belongs, Writes, Count, B2N
  <2> QED
    BY <2>2, <2>3, <2>4
<1> QED
  BY <1>1, <1>2, <1>3, <1>4 DEF IInv, InTime

LEMMA TimerFiresIInv ==
  ASSUME IInv, TimerFires
  PROVE  IInv'
<1> USE Numbers DEF TimerFires, Connect, GuardCleared, CancelPing, Shut, Quiet,
        ctlVars, connVars, writeVars, pingVars, sfuVars
<1>1. TypeOK'
  <2>1. chain' \in [Steps -> Nat]
    BY DEF IInv, TypeOK
  <2>2. link' \in Links
    BY DEF IInv, TypeOK, Links
  <2>3. live' \in Nat /\ dead' \in Nat /\ queued' \in 0 .. QueueMax
    BY DEF IInv, TypeOK, Control
  <2>4. /\ auto' \in BOOLEAN /\ stopping' \in BOOLEAN /\ reconnecting' \in BOOLEAN
        /\ timer' \in BOOLEAN /\ discovery' \in BOOLEAN /\ ping' \in BOOLEAN
    BY DEF IInv, TypeOK
  <2>5. /\ latePing' \in BOOLEAN /\ sub' \in BOOLEAN /\ failPosted' \in BOOLEAN
        /\ popEmpty' \in BOOLEAN /\ late' \in BOOLEAN
    BY DEF IInv, TypeOK
  <2>6. /\ io' \in {"start", "loop", "teardown"} /\ reading' \in {"none", "live", "dead"}
        /\ pub' \in {"none", "live", "failed"}
    BY DEF IInv, TypeOK
  <2> QED
    BY <2>1, <2>2, <2>3, <2>4, <2>5, <2>6 DEF TypeOK
<1>2. Control'
  BY DEF IInv, TypeOK, Control, Coming
<1>3. NeverAbandoned'
  BY DEF IInv, TypeOK, Control, Coming, NeverAbandoned
<1>4. ASSUME ~late' PROVE Attempts' /\ Belongs' /\ Writes'
  <2>1. ~late /\ Attempts /\ Belongs /\ Writes
    BY <1>4 DEF IInv, InTime, TypeOK
  <2>2. Attempts'
    BY <1>4, <2>1 DEF IInv, TypeOK, Control, Coming, Attempts, Belongs, Count, B2N
  <2>3. Belongs'
    BY <1>4, <2>1 DEF IInv, TypeOK, Control, Coming, Attempts, Belongs, Count, B2N
  <2>4. Writes'
    BY <1>4, <2>1 DEF IInv, TypeOK, Control, Coming, Attempts, Belongs, Writes, Count, B2N
  <2> QED
    BY <2>2, <2>3, <2>4
<1> QED
  BY <1>1, <1>2, <1>3, <1>4 DEF IInv, InTime

LEMMA DiscoveryFoundIInv ==
  ASSUME IInv, DiscoveryFound
  PROVE  IInv'
<1> USE Numbers DEF DiscoveryFound, ctlVars, connVars, writeVars, pingVars, sfuVars
<1>1. TypeOK'
  <2>1. chain' \in [Steps -> Nat]
    BY DEF IInv, TypeOK
  <2>2. link' \in Links
    BY DEF IInv, TypeOK, Links
  <2>3. live' \in Nat /\ dead' \in Nat /\ queued' \in 0 .. QueueMax
    BY DEF IInv, TypeOK, Control
  <2>4. /\ auto' \in BOOLEAN /\ stopping' \in BOOLEAN /\ reconnecting' \in BOOLEAN
        /\ timer' \in BOOLEAN /\ discovery' \in BOOLEAN /\ ping' \in BOOLEAN
    BY DEF IInv, TypeOK
  <2>5. /\ latePing' \in BOOLEAN /\ sub' \in BOOLEAN /\ failPosted' \in BOOLEAN
        /\ popEmpty' \in BOOLEAN /\ late' \in BOOLEAN
    BY DEF IInv, TypeOK
  <2>6. /\ io' \in {"start", "loop", "teardown"} /\ reading' \in {"none", "live", "dead"}
        /\ pub' \in {"none", "live", "failed"}
    BY DEF IInv, TypeOK
  <2> QED
    BY <2>1, <2>2, <2>3, <2>4, <2>5, <2>6 DEF TypeOK
<1>2. Control'
  BY DEF IInv, TypeOK, Control, Coming
<1>3. NeverAbandoned'
  BY DEF IInv, TypeOK, Control, Coming, NeverAbandoned
<1>4. ASSUME ~late' PROVE Attempts' /\ Belongs' /\ Writes'
  <2>1. ~late /\ Attempts /\ Belongs /\ Writes
    BY <1>4 DEF IInv, InTime, TypeOK
  <2>2. Attempts'
    BY <1>4, <2>1 DEF IInv, TypeOK, Control, Coming, Attempts, Belongs, Count, B2N
  <2>3. Belongs'
    BY <1>4, <2>1 DEF IInv, TypeOK, Control, Coming, Attempts, Belongs, Count, B2N
  <2>4. Writes'
    BY <1>4, <2>1 DEF IInv, TypeOK, Control, Coming, Attempts, Belongs, Writes, Count, B2N
  <2> QED
    BY <2>2, <2>3, <2>4
<1> QED
  BY <1>1, <1>2, <1>3, <1>4 DEF IInv, InTime

LEMMA StepFailsIInv ==
  ASSUME IInv, NEW s \in Steps, StepFails(s)
  PROVE  IInv'
<1> USE Numbers DEF StepFails, HandleFailure, Ignored, CancelPing, Shut,
        ctlVars, connVars, writeVars, pingVars, sfuVars
<1>1. TypeOK'
  <2>1. chain' \in [Steps -> Nat]
    BY DEF IInv, TypeOK
  <2>2. link' \in Links
    BY DEF IInv, TypeOK, Links
  <2>3. live' \in Nat /\ dead' \in Nat /\ queued' \in 0 .. QueueMax
    BY DEF IInv, TypeOK, Control
  <2>4. /\ auto' \in BOOLEAN /\ stopping' \in BOOLEAN /\ reconnecting' \in BOOLEAN
        /\ timer' \in BOOLEAN /\ discovery' \in BOOLEAN /\ ping' \in BOOLEAN
    BY DEF IInv, TypeOK
  <2>5. /\ latePing' \in BOOLEAN /\ sub' \in BOOLEAN /\ failPosted' \in BOOLEAN
        /\ popEmpty' \in BOOLEAN /\ late' \in BOOLEAN
    BY DEF IInv, TypeOK
  <2>6. /\ io' \in {"start", "loop", "teardown"} /\ reading' \in {"none", "live", "dead"}
        /\ pub' \in {"none", "live", "failed"}
    BY DEF IInv, TypeOK
  <2> QED
    BY <2>1, <2>2, <2>3, <2>4, <2>5, <2>6 DEF TypeOK
<1>2. Control'
  BY DEF IInv, TypeOK, Control, Coming
<1>3. NeverAbandoned'
  BY DEF IInv, TypeOK, Control, Coming, NeverAbandoned
<1>4. ASSUME ~late' PROVE Attempts' /\ Belongs' /\ Writes'
  <2>1. ~late /\ Attempts /\ Belongs /\ Writes
    BY <1>4 DEF IInv, InTime, TypeOK
  <2>2. Attempts'
    <3>1. chain[s] \in Nat /\ chain[s] > 0 /\ io = "loop"
      BY DEF IInv, TypeOK
    <3>2. /\ ~discovery /\ ~timer /\ link # "open" /\ ~stopping
          /\ \A t \in Steps \ {s} : chain[t] = 0
          /\ chain[s] = 1
      BY <2>1, <3>1 DEF IInv, TypeOK, Attempts, Count, B2N
    <3>3. ~Ignored
      BY <3>1, <3>2 DEF IInv, TypeOK, Control, Coming
    <3>4. link' # "open" /\ UNCHANGED <<discovery, timer, stopping>>
      BY <3>2, <3>3
    <3>5. \A t \in Steps : chain'[t] = 0
      BY <3>2 DEF IInv, TypeOK
    <3> HIDE DEF StepFails
    <3> QED
      BY <3>2, <3>4, <3>5 DEF Attempts, Count, B2N
  <2>3. Belongs'
    BY <1>4, <2>1 DEF IInv, TypeOK, Control, Coming, Attempts, Belongs, Count, B2N
  <2>4. Writes'
    BY <1>4, <2>1 DEF IInv, TypeOK, Control, Coming, Attempts, Belongs, Writes, Count, B2N
  <2> QED
    BY <2>2, <2>3, <2>4
<1> QED
  BY <1>1, <1>2, <1>3, <1>4 DEF IInv, InTime

LEMMA OnResolveIInv ==
  ASSUME IInv, OnResolve
  PROVE  IInv'
<1> USE Numbers DEF OnResolve, Advance, ctlVars, connVars, writeVars, pingVars, sfuVars
<1>1. TypeOK'
  BY DEF IInv, TypeOK, Links, Control
<1>2. Control'
  BY DEF IInv, TypeOK, Control, Coming
<1>3. NeverAbandoned'
  BY DEF IInv, TypeOK, Control, Coming, NeverAbandoned
<1>4. ASSUME ~late' PROVE Attempts' /\ Belongs' /\ Writes'
  <2>1. ~late /\ Attempts /\ Belongs /\ Writes
    BY <1>4 DEF IInv, InTime, TypeOK
  <2>2. Attempts'
    BY <1>4, <2>1 DEF IInv, TypeOK, Control, Coming, Attempts, Belongs, Count, B2N
  <2>3. Belongs'
    BY <1>4, <2>1 DEF IInv, TypeOK, Control, Coming, Attempts, Belongs, Count, B2N
  <2>4. Writes'
    BY <1>4, <2>1 DEF IInv, TypeOK, Control, Coming, Attempts, Belongs, Writes, Count, B2N
  <2> QED
    BY <2>2, <2>3, <2>4
<1> QED
  BY <1>1, <1>2, <1>3, <1>4 DEF IInv, InTime

LEMMA OnConnectIInv ==
  ASSUME IInv, OnConnect
  PROVE  IInv'
<1> USE Numbers DEF OnConnect, Advance, Completes, ctlVars, connVars, writeVars, pingVars, sfuVars
<1>1. TypeOK'
  BY DEF IInv, TypeOK, Links, Control
<1>2. Control'
  BY DEF IInv, TypeOK, Control, Coming
<1>3. NeverAbandoned'
  BY DEF IInv, TypeOK, Control, Coming, NeverAbandoned
<1>4. ASSUME ~late' PROVE Attempts' /\ Belongs' /\ Writes'
  <2>1. ~late /\ Attempts /\ Belongs /\ Writes
    BY <1>4 DEF IInv, InTime, TypeOK
  <2>2. Attempts'
    BY <1>4, <2>1 DEF IInv, TypeOK, Control, Coming, Attempts, Belongs, Count, B2N
  <2>3. Belongs'
    BY <1>4, <2>1 DEF IInv, TypeOK, Control, Coming, Attempts, Belongs, Count, B2N
  <2>4. Writes'
    BY <1>4, <2>1 DEF IInv, TypeOK, Control, Coming, Attempts, Belongs, Writes, Count, B2N
  <2> QED
    BY <2>2, <2>3, <2>4
<1> QED
  BY <1>1, <1>2, <1>3, <1>4 DEF IInv, InTime

LEMMA OnHandshakeIInv ==
  ASSUME IInv, OnHandshake
  PROVE  IInv'
<1> USE Numbers DEF OnHandshake, Completes, ctlVars, connVars, writeVars, pingVars, sfuVars
<1>1. TypeOK'
  <2>1. chain' \in [Steps -> Nat]
    BY DEF IInv, TypeOK
  <2>2. link' \in Links
    BY DEF IInv, TypeOK, Links
  <2>3. live' \in Nat /\ dead' \in Nat /\ queued' \in 0 .. QueueMax
    BY DEF IInv, TypeOK, Control
  <2>4. /\ auto' \in BOOLEAN /\ stopping' \in BOOLEAN /\ reconnecting' \in BOOLEAN
        /\ timer' \in BOOLEAN /\ discovery' \in BOOLEAN /\ ping' \in BOOLEAN
    BY DEF IInv, TypeOK
  <2>5. /\ latePing' \in BOOLEAN /\ sub' \in BOOLEAN /\ failPosted' \in BOOLEAN
        /\ popEmpty' \in BOOLEAN /\ late' \in BOOLEAN
    BY DEF IInv, TypeOK
  <2>6. /\ io' \in {"start", "loop", "teardown"} /\ reading' \in {"none", "live", "dead"}
        /\ pub' \in {"none", "live", "failed"}
    BY DEF IInv, TypeOK
  <2> QED
    BY <2>1, <2>2, <2>3, <2>4, <2>5, <2>6 DEF TypeOK
<1>2. Control'
  BY DEF IInv, TypeOK, Control, Coming
<1>3. NeverAbandoned'
  BY DEF IInv, TypeOK, Control, Coming, NeverAbandoned
<1>4. ASSUME ~late' PROVE Attempts' /\ Belongs' /\ Writes'
  <2>1. ~late /\ Attempts /\ Belongs /\ Writes
    BY <1>4 DEF IInv, InTime, TypeOK
  <2>2. Attempts'
    BY <1>4, <2>1 DEF IInv, TypeOK, Control, Coming, Attempts, Belongs, Count, B2N
  <2>3. Belongs'
    BY <1>4, <2>1 DEF IInv, TypeOK, Control, Coming, Attempts, Belongs, Count, B2N
  <2>4. Writes'
    BY <1>4, <2>1 DEF IInv, TypeOK, Control, Coming, Attempts, Belongs, Writes, Count, B2N
  <2> QED
    BY <2>2, <2>3, <2>4
<1> QED
  BY <1>1, <1>2, <1>3, <1>4 DEF IInv, InTime

LEMMA ReadFailsIInv ==
  ASSUME IInv, ReadFails
  PROVE  IInv'
<1> USE Numbers DEF ReadFails, HandleFailure, Ignored, CancelPing, Shut,
        ctlVars, connVars, writeVars, pingVars, sfuVars
<1>1. TypeOK'
  <2>1. chain' \in [Steps -> Nat]
    BY DEF IInv, TypeOK
  <2>2. link' \in Links
    BY DEF IInv, TypeOK, Links
  <2>3. live' \in Nat /\ dead' \in Nat /\ queued' \in 0 .. QueueMax
    BY DEF IInv, TypeOK, Control
  <2>4. /\ auto' \in BOOLEAN /\ stopping' \in BOOLEAN /\ reconnecting' \in BOOLEAN
        /\ timer' \in BOOLEAN /\ discovery' \in BOOLEAN /\ ping' \in BOOLEAN
    BY DEF IInv, TypeOK
  <2>5. /\ latePing' \in BOOLEAN /\ sub' \in BOOLEAN /\ failPosted' \in BOOLEAN
        /\ popEmpty' \in BOOLEAN /\ late' \in BOOLEAN
    BY DEF IInv, TypeOK
  <2>6. /\ io' \in {"start", "loop", "teardown"} /\ reading' \in {"none", "live", "dead"}
        /\ pub' \in {"none", "live", "failed"}
    BY DEF IInv, TypeOK
  <2> QED
    BY <2>1, <2>2, <2>3, <2>4, <2>5, <2>6 DEF TypeOK
<1>2. Control'
  BY DEF IInv, TypeOK, Control, Coming
<1>3. NeverAbandoned'
  BY DEF IInv, TypeOK, Control, Coming, NeverAbandoned
<1>4. ASSUME ~late' PROVE Attempts' /\ Belongs' /\ Writes'
  <2>1. ~late /\ Attempts /\ Belongs /\ Writes
    BY <1>4 DEF IInv, InTime, TypeOK
  <2>2. Attempts'
    BY <1>4, <2>1 DEF IInv, TypeOK, Control, Coming, Attempts, Belongs, Count, B2N
  <2>3. Belongs'
    BY <1>4, <2>1 DEF IInv, TypeOK, Control, Coming, Attempts, Belongs, Count, B2N
  <2>4. Writes'
    BY <1>4, <2>1 DEF IInv, TypeOK, Control, Coming, Attempts, Belongs, Writes, Count, B2N
  <2> QED
    BY <2>2, <2>3, <2>4
<1> QED
  BY <1>1, <1>2, <1>3, <1>4 DEF IInv, InTime

LEMMA OnJoinIInv ==
  ASSUME IInv, OnJoin
  PROVE  IInv'
<1> USE Numbers DEF OnJoin, MessageRead, ReadAgain, Room, Write, Idle,
        ctlVars, connVars, writeVars, pingVars, sfuVars
<1>1. TypeOK'
  BY DEF IInv, TypeOK, Links, Control
<1>2. Control'
  BY DEF IInv, TypeOK, Control, Coming
<1>3. NeverAbandoned'
  BY DEF IInv, TypeOK, Control, Coming, NeverAbandoned
<1>4. ASSUME ~late' PROVE Attempts' /\ Belongs' /\ Writes'
  <2>1. ~late /\ Attempts /\ Belongs /\ Writes
    BY <1>4 DEF IInv, InTime, TypeOK
  <2>2. Attempts'
    BY <1>4, <2>1 DEF IInv, TypeOK, Control, Coming, Attempts, Belongs, Count, B2N
  <2>3. Belongs'
    BY <1>4, <2>1 DEF IInv, TypeOK, Control, Coming, Attempts, Belongs, Count, B2N
  <2>4. Writes'
    BY <1>4, <2>1 DEF IInv, TypeOK, Control, Coming, Attempts, Belongs, Writes, Count, B2N
  <2> QED
    BY <2>2, <2>3, <2>4
<1> QED
  BY <1>1, <1>2, <1>3, <1>4 DEF IInv, InTime

LEMMA OnOtherIInv ==
  ASSUME IInv, OnOther
  PROVE  IInv'
<1> USE Numbers DEF OnOther, MessageRead, ReadAgain,
        ctlVars, connVars, writeVars, pingVars, sfuVars
<1>1. TypeOK'
  BY DEF IInv, TypeOK, Links, Control
<1>2. Control'
  BY DEF IInv, TypeOK, Control, Coming
<1>3. NeverAbandoned'
  BY DEF IInv, TypeOK, Control, Coming, NeverAbandoned
<1>4. ASSUME ~late' PROVE Attempts' /\ Belongs' /\ Writes'
  <2>1. ~late /\ Attempts /\ Belongs /\ Writes
    BY <1>4 DEF IInv, InTime, TypeOK
  <2>2. Attempts'
    BY <1>4, <2>1 DEF IInv, TypeOK, Control, Coming, Attempts, Belongs, Count, B2N
  <2>3. Belongs'
    BY <1>4, <2>1 DEF IInv, TypeOK, Control, Coming, Attempts, Belongs, Count, B2N
  <2>4. Writes'
    BY <1>4, <2>1 DEF IInv, TypeOK, Control, Coming, Attempts, Belongs, Writes, Count, B2N
  <2> QED
    BY <2>2, <2>3, <2>4
<1> QED
  BY <1>1, <1>2, <1>3, <1>4 DEF IInv, InTime

LEMMA OnLeaveIInv ==
  ASSUME IInv, OnLeave
  PROVE  IInv'
<1> USE Numbers DEF OnLeave, MessageRead, ctlVars, connVars, writeVars, pingVars, sfuVars
<1>1. TypeOK'
  BY DEF IInv, TypeOK, Links, Control
<1>2. Control'
  BY DEF IInv, TypeOK, Control, Coming
<1>3. NeverAbandoned'
  BY DEF IInv, TypeOK, Control, Coming, NeverAbandoned
<1>4. ASSUME ~late' PROVE Attempts' /\ Belongs' /\ Writes'
  <2>1. ~late /\ Attempts /\ Belongs /\ Writes
    BY <1>4 DEF IInv, InTime, TypeOK
  <2>2. Attempts'
    BY <1>4, <2>1 DEF IInv, TypeOK, Control, Coming, Attempts, Belongs, Count, B2N
  <2>3. Belongs'
    BY <1>4, <2>1 DEF IInv, TypeOK, Control, Coming, Attempts, Belongs, Count, B2N
  <2>4. Writes'
    BY <1>4, <2>1 DEF IInv, TypeOK, Control, Coming, Attempts, Belongs, Writes, Count, B2N
  <2> QED
    BY <2>2, <2>3, <2>4
<1> QED
  BY <1>1, <1>2, <1>3, <1>4 DEF IInv, InTime

LEMMA WriteDoneIInv ==
  ASSUME IInv, WriteDone
  PROVE  IInv'
<1> USE Numbers DEF WriteDone, More, ctlVars, connVars, writeVars, pingVars, sfuVars
<1>1. TypeOK'
  BY DEF IInv, TypeOK, Links, Control
<1>2. Control'
  BY DEF IInv, TypeOK, Control, Coming
<1>3. NeverAbandoned'
  BY DEF IInv, TypeOK, Control, Coming, NeverAbandoned
<1>4. ASSUME ~late' PROVE Attempts' /\ Belongs' /\ Writes'
  <2>1. ~late /\ Attempts /\ Belongs /\ Writes
    BY <1>4 DEF IInv, InTime, TypeOK
  <2>2. Attempts'
    BY <1>4, <2>1 DEF IInv, TypeOK, Control, Coming, Attempts, Belongs, Count, B2N
  <2>3. Belongs'
    BY <1>4, <2>1 DEF IInv, TypeOK, Control, Coming, Attempts, Belongs, Count, B2N
  <2>4. Writes'
    BY <1>4, <2>1 DEF IInv, TypeOK, Control, Coming, Attempts, Belongs, Writes, Count, B2N
  <2> QED
    BY <2>2, <2>3, <2>4
<1> QED
  BY <1>1, <1>2, <1>3, <1>4 DEF IInv, InTime

LEMMA WriteFailsIInv ==
  ASSUME IInv, WriteFails
  PROVE  IInv'
<1> USE Numbers DEF WriteFails, HandleFailure, Ignored, CancelPing, Shut,
        ctlVars, connVars, writeVars, pingVars, sfuVars
<1>1. TypeOK'
  <2>1. chain' \in [Steps -> Nat]
    BY DEF IInv, TypeOK
  <2>2. link' \in Links
    BY DEF IInv, TypeOK, Links
  <2>3. live' \in Nat /\ dead' \in Nat /\ queued' \in 0 .. QueueMax
    BY DEF IInv, TypeOK, Control
  <2>4. /\ auto' \in BOOLEAN /\ stopping' \in BOOLEAN /\ reconnecting' \in BOOLEAN
        /\ timer' \in BOOLEAN /\ discovery' \in BOOLEAN /\ ping' \in BOOLEAN
    BY DEF IInv, TypeOK
  <2>5. /\ latePing' \in BOOLEAN /\ sub' \in BOOLEAN /\ failPosted' \in BOOLEAN
        /\ popEmpty' \in BOOLEAN /\ late' \in BOOLEAN
    BY DEF IInv, TypeOK
  <2>6. /\ io' \in {"start", "loop", "teardown"} /\ reading' \in {"none", "live", "dead"}
        /\ pub' \in {"none", "live", "failed"}
    BY DEF IInv, TypeOK
  <2> QED
    BY <2>1, <2>2, <2>3, <2>4, <2>5, <2>6 DEF TypeOK
<1>2. Control'
  BY DEF IInv, TypeOK, Control, Coming
<1>3. NeverAbandoned'
  BY DEF IInv, TypeOK, Control, Coming, NeverAbandoned
<1>4. ASSUME ~late' PROVE Attempts' /\ Belongs' /\ Writes'
  <2>1. ~late /\ Attempts /\ Belongs /\ Writes
    BY <1>4 DEF IInv, InTime, TypeOK
  <2>2. Attempts'
    BY <1>4, <2>1 DEF IInv, TypeOK, Control, Coming, Attempts, Belongs, Count, B2N
  <2>3. Belongs'
    BY <1>4, <2>1 DEF IInv, TypeOK, Control, Coming, Attempts, Belongs, Count, B2N
  <2>4. Writes'
    BY <1>4, <2>1 DEF IInv, TypeOK, Control, Coming, Attempts, Belongs, Writes, Count, B2N
  <2> QED
    BY <2>2, <2>3, <2>4
<1> QED
  BY <1>1, <1>2, <1>3, <1>4 DEF IInv, InTime

LEMMA PingExpiresIInv ==
  ASSUME IInv, PingExpires
  PROVE  IInv'
<1> USE Numbers DEF PingExpires, Room, ctlVars, connVars, writeVars, pingVars, sfuVars
<1>1. TypeOK'
  <2>1. chain' \in [Steps -> Nat]
    BY DEF IInv, TypeOK
  <2>2. link' \in Links
    BY DEF IInv, TypeOK, Links
  <2>3. live' \in Nat /\ dead' \in Nat /\ queued' \in 0 .. QueueMax
    BY DEF IInv, TypeOK, Control
  <2>4. /\ auto' \in BOOLEAN /\ stopping' \in BOOLEAN /\ reconnecting' \in BOOLEAN
        /\ timer' \in BOOLEAN /\ discovery' \in BOOLEAN /\ ping' \in BOOLEAN
    BY DEF IInv, TypeOK
  <2>5. /\ latePing' \in BOOLEAN /\ sub' \in BOOLEAN /\ failPosted' \in BOOLEAN
        /\ popEmpty' \in BOOLEAN /\ late' \in BOOLEAN
    BY DEF IInv, TypeOK
  <2>6. /\ io' \in {"start", "loop", "teardown"} /\ reading' \in {"none", "live", "dead"}
        /\ pub' \in {"none", "live", "failed"}
    BY DEF IInv, TypeOK
  <2> QED
    BY <2>1, <2>2, <2>3, <2>4, <2>5, <2>6 DEF TypeOK
<1>2. Control'
  BY DEF IInv, TypeOK, Control, Coming
<1>3. NeverAbandoned'
  BY DEF IInv, TypeOK, Control, Coming, NeverAbandoned
<1>4. ASSUME ~late' PROVE Attempts' /\ Belongs' /\ Writes'
  <2>1. ~late /\ Attempts /\ Belongs /\ Writes
    BY <1>4 DEF IInv, InTime, TypeOK
  <2>2. Attempts'
    BY <1>4, <2>1 DEF IInv, TypeOK, Control, Coming, Attempts, Belongs, Count, B2N
  <2>3. Belongs'
    BY <1>4, <2>1 DEF IInv, TypeOK, Control, Coming, Attempts, Belongs, Count, B2N
  <2>4. Writes'
    BY <1>4, <2>1 DEF IInv, TypeOK, Control, Coming, Attempts, Belongs, Writes, Count, B2N
  <2> QED
    BY <2>2, <2>3, <2>4
<1> QED
  BY <1>1, <1>2, <1>3, <1>4 DEF IInv, InTime

LEMMA PingRunsIInv ==
  ASSUME IInv, PingRuns
  PROVE  IInv'
<1> USE Numbers DEF PingRuns, Write, Idle, Pings, ctlVars, connVars, writeVars, pingVars, sfuVars
<1>1. TypeOK'
  <2>1. chain' \in [Steps -> Nat]
    BY DEF IInv, TypeOK
  <2>2. link' \in Links
    BY DEF IInv, TypeOK, Links
  <2>3. live' \in Nat /\ dead' \in Nat /\ queued' \in 0 .. QueueMax
    BY DEF IInv, TypeOK, Control
  <2>4. /\ auto' \in BOOLEAN /\ stopping' \in BOOLEAN /\ reconnecting' \in BOOLEAN
        /\ timer' \in BOOLEAN /\ discovery' \in BOOLEAN /\ ping' \in BOOLEAN
    BY DEF IInv, TypeOK
  <2>5. /\ latePing' \in BOOLEAN /\ sub' \in BOOLEAN /\ failPosted' \in BOOLEAN
        /\ popEmpty' \in BOOLEAN /\ late' \in BOOLEAN
    BY DEF IInv, TypeOK
  <2>6. /\ io' \in {"start", "loop", "teardown"} /\ reading' \in {"none", "live", "dead"}
        /\ pub' \in {"none", "live", "failed"}
    BY DEF IInv, TypeOK
  <2> QED
    BY <2>1, <2>2, <2>3, <2>4, <2>5, <2>6 DEF TypeOK
<1>2. Control'
  BY DEF IInv, TypeOK, Control, Coming
<1>3. NeverAbandoned'
  BY DEF IInv, TypeOK, Control, Coming, NeverAbandoned
<1>4. ASSUME ~late' PROVE Attempts' /\ Belongs' /\ Writes'
  <2>1. ~late /\ Attempts /\ Belongs /\ Writes
    BY <1>4 DEF IInv, InTime, TypeOK
  <2>2. Attempts'
    BY <1>4, <2>1 DEF IInv, TypeOK, Control, Coming, Attempts, Belongs, Count, B2N
  <2>3. Belongs'
    BY <1>4, <2>1 DEF IInv, TypeOK, Control, Coming, Attempts, Belongs, Count, B2N
  <2>4. Writes'
    BY <1>4, <2>1 DEF IInv, TypeOK, Control, Coming, Attempts, Belongs, Writes, Count, B2N
  <2> QED
    BY <2>2, <2>3, <2>4
<1> QED
  BY <1>1, <1>2, <1>3, <1>4 DEF IInv, InTime

LEMMA PeerWritesIInv ==
  ASSUME IInv, PeerWrites
  PROVE  IInv'
<1> USE Numbers DEF PeerWrites, Write, Idle, Room, ctlVars, connVars, writeVars, pingVars, sfuVars
<1>1. TypeOK'
  BY DEF IInv, TypeOK, Links, Control
<1>2. Control'
  BY DEF IInv, TypeOK, Control, Coming
<1>3. NeverAbandoned'
  BY DEF IInv, TypeOK, Control, Coming, NeverAbandoned
<1>4. ASSUME ~late' PROVE Attempts' /\ Belongs' /\ Writes'
  <2>1. ~late /\ Attempts /\ Belongs /\ Writes
    BY <1>4 DEF IInv, InTime, TypeOK
  <2>2. Attempts'
    BY <1>4, <2>1 DEF IInv, TypeOK, Control, Coming, Attempts, Belongs, Count, B2N
  <2>3. Belongs'
    BY <1>4, <2>1 DEF IInv, TypeOK, Control, Coming, Attempts, Belongs, Count, B2N
  <2>4. Writes'
    BY <1>4, <2>1 DEF IInv, TypeOK, Control, Coming, Attempts, Belongs, Writes, Count, B2N
  <2> QED
    BY <2>2, <2>3, <2>4
<1> QED
  BY <1>1, <1>2, <1>3, <1>4 DEF IInv, InTime

LEMMA PeerFailsIInv ==
  ASSUME IInv, PeerFails
  PROVE  IInv'
<1> USE Numbers DEF PeerFails, ctlVars, connVars, writeVars, pingVars, sfuVars
<1>1. TypeOK'
  BY DEF IInv, TypeOK, Links, Control
<1>2. Control'
  BY DEF IInv, TypeOK, Control, Coming
<1>3. NeverAbandoned'
  BY DEF IInv, TypeOK, Control, Coming, NeverAbandoned
<1>4. ASSUME ~late' PROVE Attempts' /\ Belongs' /\ Writes'
  <2>1. ~late /\ Attempts /\ Belongs /\ Writes
    BY <1>4 DEF IInv, InTime, TypeOK
  <2>2. Attempts'
    BY <1>4, <2>1 DEF IInv, TypeOK, Control, Coming, Attempts, Belongs, Count, B2N
  <2>3. Belongs'
    BY <1>4, <2>1 DEF IInv, TypeOK, Control, Coming, Attempts, Belongs, Count, B2N
  <2>4. Writes'
    BY <1>4, <2>1 DEF IInv, TypeOK, Control, Coming, Attempts, Belongs, Writes, Count, B2N
  <2> QED
    BY <2>2, <2>3, <2>4
<1> QED
  BY <1>1, <1>2, <1>3, <1>4 DEF IInv, InTime

LEMMA FailureRunsIInv ==
  ASSUME IInv, FailureRuns
  PROVE  IInv'
<1> USE Numbers DEF FailureRuns, HandleFailure, Ignored, CancelPing, Shut,
        ctlVars, connVars, writeVars, pingVars, sfuVars
<1>1. TypeOK'
  <2>1. chain' \in [Steps -> Nat]
    BY DEF IInv, TypeOK
  <2>2. link' \in Links
    BY DEF IInv, TypeOK, Links
  <2>3. live' \in Nat /\ dead' \in Nat /\ queued' \in 0 .. QueueMax
    BY DEF IInv, TypeOK, Control
  <2>4. /\ auto' \in BOOLEAN /\ stopping' \in BOOLEAN /\ reconnecting' \in BOOLEAN
        /\ timer' \in BOOLEAN /\ discovery' \in BOOLEAN /\ ping' \in BOOLEAN
    BY DEF IInv, TypeOK
  <2>5. /\ latePing' \in BOOLEAN /\ sub' \in BOOLEAN /\ failPosted' \in BOOLEAN
        /\ popEmpty' \in BOOLEAN /\ late' \in BOOLEAN
    BY DEF IInv, TypeOK
  <2>6. /\ io' \in {"start", "loop", "teardown"} /\ reading' \in {"none", "live", "dead"}
        /\ pub' \in {"none", "live", "failed"}
    BY DEF IInv, TypeOK
  <2> QED
    BY <2>1, <2>2, <2>3, <2>4, <2>5, <2>6 DEF TypeOK
<1>2. Control'
  BY DEF IInv, TypeOK, Control, Coming
<1>3. NeverAbandoned'
  BY DEF IInv, TypeOK, Control, Coming, NeverAbandoned
<1>4. ASSUME ~late' PROVE Attempts' /\ Belongs' /\ Writes'
  <2>1. ~late /\ Attempts /\ Belongs /\ Writes
    BY <1>4 DEF IInv, InTime, TypeOK
  <2>2. Attempts'
    <3>1. UNCHANGED <<discovery, timer, stopping, chain>> /\ io = "loop" /\ failPosted
      OBVIOUS
    <3>2. CASE Ignored
      BY <2>1, <3>1, <3>2 DEF Attempts, Count, B2N
    <3>3. CASE ~Ignored
      <4>1. link = "open" /\ link' # "open"
        BY <2>1, <3>1, <3>3 DEF Belongs
      <4>2. /\ ~discovery /\ ~timer
            /\ chain["resolve"] = 0 /\ chain["connect"] = 0 /\ chain["handshake"] = 0
        BY <2>1, <4>1, OnlyOpen DEF IInv, Attempts
      <4> HIDE DEF FailureRuns
      <4> QED
        BY <3>1, <4>1, <4>2 DEF Attempts, Count, B2N
    <3> QED
      BY <3>2, <3>3
  <2>3. Belongs'
    BY <1>4, <2>1 DEF IInv, TypeOK, Control, Coming, Attempts, Belongs, Count, B2N
  <2>4. Writes'
    BY <1>4, <2>1 DEF IInv, TypeOK, Control, Coming, Attempts, Belongs, Writes, Count, B2N
  <2> QED
    BY <2>2, <2>3, <2>4
<1> QED
  BY <1>1, <1>2, <1>3, <1>4 DEF IInv, InTime

LEMMA TeardownIInv ==
  ASSUME IInv, Teardown
  PROVE  IInv'
<1> USE Numbers DEF Teardown, Cleared, ctlVars, connVars, writeVars, pingVars, sfuVars
<1>1. TypeOK'
  <2>1. chain' \in [Steps -> Nat]
    BY DEF IInv, TypeOK
  <2>2. link' \in Links
    BY DEF IInv, TypeOK, Links
  <2>3. live' \in Nat /\ dead' \in Nat /\ queued' \in 0 .. QueueMax
    BY DEF IInv, TypeOK, Control
  <2>4. /\ auto' \in BOOLEAN /\ stopping' \in BOOLEAN /\ reconnecting' \in BOOLEAN
        /\ timer' \in BOOLEAN /\ discovery' \in BOOLEAN /\ ping' \in BOOLEAN
    BY DEF IInv, TypeOK
  <2>5. /\ latePing' \in BOOLEAN /\ sub' \in BOOLEAN /\ failPosted' \in BOOLEAN
        /\ popEmpty' \in BOOLEAN /\ late' \in BOOLEAN
    BY DEF IInv, TypeOK
  <2>6. /\ io' \in {"start", "loop", "teardown"} /\ reading' \in {"none", "live", "dead"}
        /\ pub' \in {"none", "live", "failed"}
    BY DEF IInv, TypeOK
  <2> QED
    BY <2>1, <2>2, <2>3, <2>4, <2>5, <2>6 DEF TypeOK
<1>2. Control'
  BY DEF IInv, TypeOK, Control, Coming
<1>3. NeverAbandoned'
  BY DEF IInv, TypeOK, Control, Coming, NeverAbandoned
<1>4. ASSUME ~late' PROVE Attempts' /\ Belongs' /\ Writes'
  <2>1. ~late /\ Attempts /\ Belongs /\ Writes
    BY <1>4 DEF IInv, InTime, TypeOK
  <2>2. Attempts'
    BY <1>4, <2>1 DEF IInv, TypeOK, Control, Coming, Attempts, Belongs, Count, B2N
  <2>3. Belongs'
    BY <1>4, <2>1 DEF IInv, TypeOK, Control, Coming, Attempts, Belongs, Count, B2N
  <2>4. Writes'
    BY <1>4, <2>1 DEF IInv, TypeOK, Control, Coming, Attempts, Belongs, Writes, Count, B2N
  <2> QED
    BY <2>2, <2>3, <2>4
<1> QED
  BY <1>1, <1>2, <1>3, <1>4 DEF IInv, InTime

LEMMA NextIInv == IInv /\ [Next]_vars => IInv'
<1> SUFFICES ASSUME IInv, [Next]_vars PROVE IInv'
  OBVIOUS
<1>1. CASE UNCHANGED vars
  BY <1>1 DEF vars, ctlVars, connVars, writeVars, pingVars, sfuVars, IInv, TypeOK, Control,
     Coming, NeverAbandoned, InTime, Attempts, Belongs, Writes, Count, B2N
<1>2. CASE Attempt
  BY <1>2, StartUpIInv, TimerFiresIInv, DiscoveryFoundIInv, OnResolveIInv, OnConnectIInv,
     OnHandshakeIInv, StepFailsIInv DEF Attempt
<1>3. CASE Session
  BY <1>3, ReadFailsIInv, OnJoinIInv, OnOtherIInv, OnLeaveIInv, WriteDoneIInv,
     WriteFailsIInv, PingExpiresIInv, PingRunsIInv DEF Session
<1>4. CASE PeerEvents \/ Teardown
  BY <1>4, PeerWritesIInv, PeerFailsIInv, FailureRunsIInv, TeardownIInv DEF PeerEvents
<1> QED
  BY <1>1, <1>2, <1>3, <1>4 DEF Next

THEOREM Invariant == Spec => []IInv
  BY InitIInv, NextIInv, PTL DEF Spec
-----------------------------------------------------------------------------
\* There is always a session or one to come, there is never a second one, and
\* nothing of the last one is left when the next begins (SessionInv: HandleFailure,
\* ScheduleReconnect, Connect), unless an operation was cancelled too late.
THEOREM OneSession == Spec => []SessionInv
<1>1. ASSUME IInv PROVE SessionInv
  <2>1. TypeOK /\ NeverAbandoned
    BY <1>1 DEF IInv
  <2>2. OneAttempt
    BY <1>1 DEF IInv, InTime, Attempts, Count, B2N, OneAttempt
  <2>3. CleanStart
    <3> SUFFICES ASSUME ~late, ~stopping, discovery \/ \E s \in Steps : chain[s] > 0
                 PROVE  queued = 0 /\ pub = "none" /\ ~sub
      BY DEF CleanStart, FreshSession
    <3>1. Attempts /\ Belongs /\ TypeOK
      BY <1>1 DEF IInv, InTime
    <3>2. chain["resolve"] > 0 \/ chain["connect"] > 0 \/ chain["handshake"] > 0 \/ discovery
      BY DEF Steps
    <3>3. link # "open" /\ io = "loop"
      BY <3>1, <3>2, NoneCounted, OnlyOpen DEF Attempts
    <3> QED
      BY <3>1, <3>3, Numbers DEF Belongs, TypeOK
  <2> QED
    BY <2>1, <2>2, <2>3 DEF SessionInv
<1> QED
  BY <1>1, Invariant, PTL

\* At most one message is being written, every other one waits for it, and none is
\* taken from a queue that was cleared (WriteInv: Write, DoWrite, ScheduleReconnect),
\* unless an operation was cancelled too late.
THEOREM QueueAndStream == Spec => []WriteInv
<1>1. IInv => WriteInv
  BY DEF IInv, InTime, Writes, WriteInv, OneWrite, NoLostWakeup, PopsItsOwn
<1> QED
  BY <1>1, Invariant, PTL

\* After "leave" no step of an attempt is made and no timer armed (LeaveIsFinal:
\* Disconnect, HandleFailure), unless an operation was cancelled too late.
THEOREM LeavesForGood == Spec => LeaveIsFinal
<1>1. ASSUME IInv, [Next]_vars, ~late, stopping PROVE chain' = chain /\ (timer' => timer)
  <2>1. io = "loop" /\ ~timer /\ ~discovery
    BY <1>1 DEF IInv, Control
  <2>2. chain["resolve"] = 0 /\ chain["connect"] = 0 /\ chain["handshake"] = 0
    BY <1>1, NoneCounted DEF IInv, InTime, Attempts
  <2>3. \A s \in Steps : ~(chain[s] > 0)
    BY <2>2, Numbers
  <2>4. ~Attempt
    BY <2>1, <2>2, <2>3 DEF Attempt, StartUp, TimerFires, DiscoveryFound, OnResolve, OnConnect,
       OnHandshake, StepFails
  <2>5. ~Teardown
    BY <2>1 DEF Teardown
  <2>6. CASE Session
    BY <2>6 DEF Session, ReadFails, OnJoin, OnOther, OnLeave, WriteDone, WriteFails,
       PingExpires, PingRuns, ctlVars, connVars
  <2>7. CASE PeerEvents
    BY <2>7 DEF PeerEvents, PeerWrites, PeerFails, FailureRuns, ctlVars, connVars
  <2>8. CASE UNCHANGED vars
    BY <2>8 DEF vars, ctlVars, connVars
  <2> QED
    BY <1>1, <2>4, <2>5, <2>6, <2>7, <2>8 DEF Next
<1>2. IInv /\ [Next]_vars => [~late /\ stopping => chain' = chain /\ (timer' => timer)]_vars
  BY <1>1
<1> QED
  BY <1>2, Invariant, PTL DEF Spec, LeaveIsFinal
-----------------------------------------------------------------------------
(***************************************************************************)
(* PeerSessions.                                                            *)
(***************************************************************************)
\* What the service thread is doing.
MessageOK ==
  /\ msg \in [type : {"none", "mediaOffer", "offer", "answer", "ice", "delete"},
              client : Clients \cup {None}, peer : Peers \cup {None}]
  /\ step = "idle" => msg.peer = None
  /\ step # "idle" => msg.client \in Clients
  /\ step = "create" => msg.peer = None
  /\ step \in {"store", "storeBack", "tracks", "give", "terminate"} => msg.peer \in Peers
  /\ step = "terminate" => service = "http"
  /\ step \in {"store", "storeBack", "tracks"} => service = "mqtt"
  /\ step \in {"store", "storeBack"} => msg.peer \in map \cup missed
  /\ msg.peer # None => state[msg.peer] # "none"

\* What the cleaner is doing: the client it has found stays the peer's until it is
\* forgotten, and it finds none before the service thread has stored it.
TurnOK ==
  /\ turn.at = "none" => turn = NoTurn
  /\ turn.at # "none" => turn.peer \in Peers /\ state[turn.peer] # "none"
  /\ turn.at \in {"find", "unmap", "forget"} => service = "mqtt"
  /\ turn.at = "find" => turn.client = None
  /\ turn.at \in {"unmap", "forget"} => /\ turn.client \in Clients
                                        /\ clientOf[turn.peer] = turn.client
  /\ turn.at = "forget" => peerOf[turn.client] # turn.peer
  /\ turn.at = "erase" /\ turn.client # None => clientOf[turn.peer] = None
  /\ step \in {"store", "storeBack"} /\ turn.peer = msg.peer => turn.client = None

\* A peer that was never created is nowhere.
Uncreated ==
  \A p \in Peers : state[p] = "none" =>
    /\ clientOf[p] = None
    /\ \A a \in answered : a[1] # p

\* The two maps of clients, seen from either side.
Mapped ==
  /\ service = "http" => \A p \in Peers : clientOf[p] = None
  /\ \A c \in Clients : peerOf[c] # None => \/ clientOf[peerOf[c]] = c
                                            \/ Storing(c, peerOf[c])
  /\ \A p \in map : clientOf[p] # None => peerOf[clientOf[p]] = p \/ Leaving(p)
  /\ \A p \in Peers : clientOf[p] # None => /\ p \in map \cup missed
                                            /\ clientOf[p] = whose[p]

\* A client whose message creates a peer has none in peer_map_, but for the one that
\* the cleaner takes out.
Creating ==
  /\ service = "mqtt" /\ step \in {"create", "store"} =>
       \A q \in map : clientOf[q] # msg.client \/ Leaving(q)
  /\ step \in {"store", "storeBack"} => /\ clientOf[msg.peer] = None
                                       /\ whose[msg.peer] = msg.client
  /\ step = "storeBack" => peerOf[msg.client] = msg.peer

\* The inductive invariant.
SessionsIInv == /\ SessionsTypeOK /\ MessageOK /\ TurnOK /\ Uncreated /\ Mapped
                /\ Creating /\ RightRecipient
-----------------------------------------------------------------------------
LEMMA InitSessionsIInv == SessionsInit => SessionsIInv
<1> SUFFICES ASSUME SessionsInit PROVE SessionsIInv
  OBVIOUS
<1> USE SessionAssumption DEF SessionsInit
<1>1. SessionsTypeOK
  BY DEF SessionsTypeOK, Live, NoTurn
<1>2. MessageOK
  BY DEF MessageOK, NoMessage
<1>3. TurnOK /\ Uncreated /\ Mapped /\ Creating /\ RightRecipient
  BY DEF TurnOK, NoMessage, NoTurn, Uncreated, Mapped, Creating, RightRecipient
<1> QED
  BY <1>1, <1>2, <1>3 DEF SessionsIInv

USE DEF SessionsIInv, SessionsTypeOK, Live, NoMessage, NoTurn, Storing, Leaving, mapVars,
        peerVars, threadVars, histVars, cleanerVars

\* A message changes nothing but what the service thread has in its hands.
LEMMA ReceiveIInv ==
  ASSUME SessionsIInv, NEW c \in Clients, NEW p \in Peers \cup {None}, NEW next, NEW type,
         type \in {"mediaOffer", "offer", "answer", "ice", "delete"},
         next \in {"create", "tracks", "give", "terminate"},
         next = "create" => /\ p = None
                            /\ service = "mqtt" => ~Known(c),
         next # "create" => p \in map,
         next = "terminate" => service = "http",
         next = "tracks" => service = "mqtt",
         Receive(type, c, p, next)
  PROVE  SessionsIInv'
<1> USE SessionAssumption DEF Receive
<1>0. msg.peer = None
  BY DEF MessageOK
<1>1. SessionsTypeOK'
  <2>1. \A q \in Peers : state'[q] \in Live => q \in map' \/ msg'.peer = q
    BY <1>0
  <2>2. step' \in {"idle", "create", "store", "tracks", "give", "terminate"}
    OBVIOUS
  <2> QED
    BY <2>1, <2>2
<1>2. MessageOK'
  BY DEF MessageOK
<1>3. TurnOK' /\ Uncreated' /\ Mapped' /\ RightRecipient'
  BY DEF TurnOK, Uncreated, Mapped, RightRecipient
<1>4. Creating'
  BY DEF Creating, Mapped, Known, Found
<1> QED
  BY <1>1, <1>2, <1>3, <1>4

LEMMA MqttIInv == SessionsIInv /\ Mqtt => SessionsIInv'
<1> SUFFICES ASSUME SessionsIInv, NEW c \in Clients,
                    NEW t \in {"mediaOffer", "offer", "answer", "ice"},
                    OnMessage(t, c)
             PROVE  SessionsIInv'
  BY DEF Mqtt
<1>1. CASE Known(c)
  BY <1>1, ReceiveIInv DEF OnMessage, Known, Found
<1>2. CASE ~Known(c)
  BY <1>2, ReceiveIInv DEF OnMessage
<1> QED
  BY <1>1, <1>2

LEMMA HttpIInv == SessionsIInv /\ Http => SessionsIInv'
<1> SUFFICES ASSUME SessionsIInv, NEW c \in Clients,
                    HandlePost(c) \/ \E p \in Peers : \/ HandlePatch(c, p, "ice")
                                                      \/ HandlePatch(c, p, "offer")
                                                      \/ HandleDelete(c, p)
             PROVE  SessionsIInv'
  BY DEF Http
<1>1. CASE HandlePost(c)
  BY <1>1, ReceiveIInv DEF HandlePost
<1>2. ASSUME NEW p \in Peers, NEW t \in {"ice", "offer"}, HandlePatch(c, p, t)
      PROVE  SessionsIInv'
  BY <1>2, ReceiveIInv DEF HandlePatch, Found
<1>3. ASSUME NEW p \in Peers, HandleDelete(c, p)
      PROVE  SessionsIInv'
  BY <1>3, ReceiveIInv DEF HandleDelete, Found
<1> QED
  BY <1>1, <1>2, <1>3

LEMMA CreatePeerIInv ==
  ASSUME SessionsIInv, NEW p \in Peers, CreatePeer(p)
  PROVE  SessionsIInv'
<1> USE SessionAssumption DEF CreatePeer
<1>0. p \notin map
  OBVIOUS
<1>1. SessionsTypeOK'
  BY DEF MessageOK
<1>2. MessageOK' /\ TurnOK'
  BY <1>0 DEF MessageOK, TurnOK
<1>3. Uncreated'
  BY DEF Uncreated
<1>4. Mapped'
  BY <1>0 DEF Mapped, Uncreated
<1>5. Creating'
  BY <1>0 DEF Creating, Uncreated, MessageOK
<1>6. RightRecipient'
  BY DEF RightRecipient, Uncreated
<1> QED
  BY <1>1, <1>2, <1>3, <1>4, <1>5, <1>6

LEMMA StoreClientIInv ==
  ASSUME SessionsIInv, StoreClient
  PROVE  SessionsIInv'
<1> USE SessionAssumption DEF StoreClient
<1>0. msg.peer \in Peers /\ msg.client \in Clients /\ service = "mqtt"
  BY DEF MessageOK
<1>1. SessionsTypeOK'
  BY <1>0 DEF MessageOK
<1>2. MessageOK'
  BY DEF MessageOK
<1>3. TurnOK'
  BY <1>0 DEF TurnOK, Creating
<1>4. Uncreated' /\ RightRecipient'
  BY DEF Uncreated, RightRecipient
<1>5. Mapped'
  BY <1>0 DEF Mapped, Creating
<1>6. Creating'
  BY <1>0 DEF Creating
<1> QED
  BY <1>1, <1>2, <1>3, <1>4, <1>5, <1>6

LEMMA StoreBackIInv ==
  ASSUME SessionsIInv, StoreBack
  PROVE  SessionsIInv'
<1> USE SessionAssumption DEF StoreBack
<1>0. msg.peer \in Peers /\ msg.client \in Clients
  BY DEF MessageOK
<1>1. SessionsTypeOK'
  BY <1>0 DEF MessageOK
<1>2. MessageOK'
  BY DEF MessageOK
<1>3. TurnOK'
  BY <1>0 DEF TurnOK, Creating
<1>4. Uncreated' /\ RightRecipient'
  BY <1>0 DEF Uncreated, MessageOK, RightRecipient
<1>5. Mapped'
  BY <1>0 DEF Mapped, Creating, MessageOK
<1>6. Creating'
  BY DEF Creating
<1> QED
  BY <1>1, <1>2, <1>3, <1>4, <1>5, <1>6

LEMMA HandleIInv ==
  ASSUME SessionsIInv, EnsureTracksAdded \/ GiveMessage \/ TerminatePeer \/ CreateFails
  PROVE  SessionsIInv'
<1> USE SessionAssumption
<1>1. CASE EnsureTracksAdded
  BY <1>1 DEF EnsureTracksAdded, MessageOK, TurnOK, Uncreated, Mapped, Creating,
              RightRecipient
<1>2. CASE GiveMessage
  <2> USE <1>2 DEF GiveMessage, Handled
  <2>0. msg.peer \in Peers
    BY DEF MessageOK
  <2>1. SessionsTypeOK'
    BY <2>0 DEF MessageOK
  <2>2. MessageOK' /\ TurnOK'
    BY <2>0 DEF MessageOK, TurnOK
  <2>3. Uncreated'
    BY <2>0 DEF Uncreated, MessageOK
  <2>4. Mapped' /\ Creating' /\ RightRecipient'
    BY DEF Mapped, Creating, RightRecipient
  <2> QED
    BY <2>1, <2>2, <2>3, <2>4
<1>3. CASE TerminatePeer
  <2> USE <1>3 DEF TerminatePeer, Removed
  <2>0. msg.peer \in Peers /\ service = "http"
    BY DEF MessageOK
  <2>1. SessionsTypeOK'
    BY <2>0 DEF MessageOK
  <2>2. MessageOK' /\ TurnOK'
    BY <2>0 DEF MessageOK, TurnOK
  <2>3. Uncreated'
    BY <2>0 DEF Uncreated, MessageOK
  <2>4. Mapped' /\ Creating' /\ RightRecipient'
    BY <2>0 DEF Mapped, Creating, RightRecipient
  <2> QED
    BY <2>1, <2>2, <2>3, <2>4
<1>4. CASE CreateFails
  BY <1>4 DEF CreateFails, MessageOK, TurnOK, Uncreated, Mapped, Creating,
              RightRecipient
<1> QED
  BY <1>1, <1>2, <1>3, <1>4

LEMMA PeerIInv ==
  ASSUME SessionsIInv, NEW p \in Peers, EmitAnswer(p) \/ Connects(p) \/ ClosesItself(p)
  PROVE  SessionsIInv'
<1> USE SessionAssumption
<1>1. CASE EmitAnswer(p)
  <2> USE <1>1 DEF EmitAnswer
  <2>1. Recipient(p) \in Clients /\ Recipient(p) = whose[p]
    BY DEF Recipient, Mapped
  <2>2. SessionsTypeOK' /\ MessageOK' /\ TurnOK' /\ Mapped' /\ Creating'
    BY <2>1 DEF MessageOK, TurnOK, Mapped, Creating
  <2>3. Uncreated'
    BY DEF Uncreated
  <2>4. RightRecipient'
    BY <2>1 DEF RightRecipient
  <2> QED
    BY <2>2, <2>3, <2>4
<1>2. ASSUME NEW from \in SUBSET {"new", "connected"},
             NEW to \in {"connected", "closed"}, PeerMoves(p, from, to)
      PROVE  SessionsIInv'
  <2> USE <1>2 DEF PeerMoves
  <2>1. SessionsTypeOK' /\ MessageOK' /\ TurnOK'
    BY DEF MessageOK, TurnOK
  <2>2. Uncreated'
    BY DEF Uncreated
  <2>3. Mapped' /\ Creating' /\ RightRecipient'
    BY DEF Mapped, Creating, RightRecipient
  <2> QED
    BY <2>1, <2>2, <2>3
<1> QED
  BY <1>1, <1>2 DEF Connects, ClosesItself

LEMMA CleanerIInv ==
  ASSUME SessionsIInv, Cleaner
  PROVE  SessionsIInv'
<1> USE SessionAssumption
<1>1. CASE CleanerWakes
  BY <1>1 DEF CleanerWakes, MessageOK, TurnOK, Uncreated, Mapped, Creating,
              RightRecipient
<1>2. ASSUME NEW p \in Peers, CheckPeer(p)
      PROVE  SessionsIInv'
  <2> USE <1>2 DEF CheckPeer
  <2>0. turn' = NoTurn \/ turn' = [at |-> "find", peer |-> p, client |-> None]
                       \/ turn' = [at |-> "erase", peer |-> p, client |-> None]
    OBVIOUS
  <2>1. SessionsTypeOK' /\ MessageOK'
    BY <2>0 DEF MessageOK
  <2>2. TurnOK'
    BY DEF TurnOK
  <2>3. Uncreated' /\ Mapped' /\ Creating' /\ RightRecipient'
    BY DEF Uncreated, Mapped, Creating, RightRecipient
  <2> QED
    BY <2>1, <2>2, <2>3
<1>3. CASE FindClient
  <2> USE <1>3 DEF FindClient
  <2>1. SessionsTypeOK' /\ MessageOK'
    BY DEF MessageOK, TurnOK
  <2>2. TurnOK'
    BY DEF TurnOK, MessageOK, Creating
  <2>3. Uncreated' /\ RightRecipient'
    BY DEF Uncreated, TurnOK, RightRecipient
  <2>4. Mapped'
    BY DEF Mapped, TurnOK, Creating
  <2>5. Creating'
    BY DEF Creating, TurnOK, MessageOK
  <2> QED
    BY <2>1, <2>2, <2>3, <2>4, <2>5
<1>4. CASE UnmapClient
  <2> USE <1>4 DEF UnmapClient, Unmapped
  <2>1. SessionsTypeOK' /\ MessageOK'
    BY DEF MessageOK, TurnOK
  <2>2. TurnOK'
    BY DEF TurnOK, MessageOK, Creating
  <2>3. Uncreated' /\ RightRecipient'
    BY DEF Uncreated, TurnOK, RightRecipient
  <2>4. Mapped'
    BY DEF Mapped, TurnOK, Creating
  <2>5. Creating'
    BY DEF Creating, TurnOK, MessageOK
  <2> QED
    BY <2>1, <2>2, <2>3, <2>4, <2>5
<1>5. CASE ForgetClient
  <2> USE <1>5 DEF ForgetClient
  <2>1. SessionsTypeOK' /\ MessageOK'
    BY DEF MessageOK, TurnOK
  <2>2. TurnOK'
    BY DEF TurnOK, MessageOK, Creating
  <2>3. Uncreated' /\ RightRecipient'
    BY DEF Uncreated, TurnOK, RightRecipient
  <2>4. Mapped'
    BY DEF Mapped, TurnOK, Creating
  <2>5. Creating'
    BY DEF Creating, TurnOK, MessageOK
  <2> QED
    BY <2>1, <2>2, <2>3, <2>4, <2>5
<1>6. CASE ErasePeer
  <2> USE <1>6 DEF ErasePeer
  <2>1. SessionsTypeOK' /\ MessageOK'
    BY DEF MessageOK, TurnOK
  <2>2. TurnOK'
    BY DEF TurnOK, MessageOK, Creating
  <2>3. Uncreated' /\ RightRecipient'
    BY DEF Uncreated, TurnOK, RightRecipient
  <2>4. Mapped'
    BY DEF Mapped, TurnOK, Creating
  <2>5. Creating'
    BY DEF Creating, TurnOK, MessageOK
  <2> QED
    BY <2>1, <2>2, <2>3, <2>4, <2>5
<1> QED
  BY <1>1, <1>2, <1>3, <1>4, <1>5, <1>6 DEF Cleaner, CleanPeer

LEMMA NextSessionsIInv == SessionsIInv /\ [SessionsNext]_sessionsVars => SessionsIInv'
<1> SUFFICES ASSUME SessionsIInv, [SessionsNext]_sessionsVars PROVE SessionsIInv'
  OBVIOUS
<1>1. CASE UNCHANGED sessionsVars
  BY <1>1 DEF sessionsVars, MessageOK, TurnOK, Uncreated, Mapped, Creating,
              RightRecipient
<1>2. CASE SessionsNext
  BY <1>2, MqttIInv, HttpIInv, CreatePeerIInv, StoreClientIInv, StoreBackIInv, HandleIInv,
     PeerIInv, CleanerIInv DEF SessionsNext, Handle
<1> QED
  BY <1>1, <1>2

THEOREM SessionsInvariant == SessionsSpec => []SessionsIInv
  BY InitSessionsIInv, NextSessionsIInv, PTL DEF SessionsSpec
-----------------------------------------------------------------------------
\* The maps of the services agree (PeersInv) although no lock holds them together and
\* a step of the cleaner comes between any two of OnMessage: a client's peer is mapped
\* back to it except between the two insertions of OnMessage, a mapped peer is in
\* peer_map_ unless it was erased before its client was stored, and no client has two
\* peers in the map besides one that the cleaner has unmapped.
THEOREM MapsAlwaysAgree == SessionsSpec => []PeersInv
<1>1. SessionsIInv => PeersInv
  <2> SUFFICES ASSUME SessionsIInv PROVE PeersInv
    OBVIOUS
  <2>1. \A p, q \in map : clientOf[p] # None /\ clientOf[p] = clientOf[q] =>
         p = q \/ Leaving(p) \/ Leaving(q)
    BY DEF Mapped
  <2> QED
    BY <2>1 DEF PeersInv, MapsAgree, Mapped
<1> QED
  BY <1>1, SessionsInvariant, PTL

\* Every answer goes to the client that made the offer (RightRecipient), over MQTT
\* and over WHEP.
THEOREM AnswersGoHome == SessionsSpec => []RightRecipient
<1>1. SessionsIInv => RightRecipient
  OBVIOUS
<1> QED
  BY <1>1, SessionsInvariant, PTL
=============================================================================
