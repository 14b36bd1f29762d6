------------------------------ MODULE PeerProofs ------------------------------
(***************************************************************************)
(* Proofs about RtcPeer, for any candidates and any number of offers.       *)
(*                                                                          *)
(* The inductive invariant says what the operations chain can hold while    *)
(* there is no remote description (Early), while a peer has had one offer   *)
(* only (FirstAnswer) or none (Offering), and whom a description is waiting *)
(* for.  From the chain follows that no description of such a peer is       *)
(* refused and freed (FreedLater).                                          *)
(***************************************************************************)
EXTENDS RtcPeer, SequenceTheorems, TLAPS

\* Descriptions are numbered as they were made.
Numbered == \A i \in DOMAIN chain : chain[i].n <= desc.n

\* A closed connection has nothing to do, and one its owner has closed nothing to
\* emit.
Ended ==
  /\ ~pc => chain = <<>> /\ todo = "none"
  /\ closedBy = "caller" => caller = "idle" /\ ~emitDue
  /\ emitDue => mode = "http"

\* Callbacks are dropped, and descriptions find none, only once both sides have had
\* an answer.
Linked ==
  /\ connected => linked
  /\ ~fns /\ pc => linked /\ ~Sfu
  /\ silenced => linked /\ ~Sfu

\* The last description that was made has been emitted, or waits for it.
Delivered == pc /\ ~crashed => \/ emitted = desc.n \/ silenced
                               \/ emitDue \/ todo = "emit"

\* A candidate found no remote description, and none comes before it is buffered.
Unset == caller \in Candidates /\ pc =>
           ~remoteSet /\ \A i \in DOMAIN chain : chain[i].do # "remote"

\* Before the first offer has been set, a viewer's peer and a subscriber's have
\* made nothing.
ViewerStart ==
  /\ signaling = "stable" /\ todo = "none" /\ desc.n = 0 /\ ~asked /\ ~emitDue
  /\ \/ chain = <<>> /\ caller # "answer"
     \/ chain = <<Op("remote", "offer", 0)>> /\ caller = "answer"

\* Before the answer has been set, a publisher has made one offer.
PublisherStart ==
  /\ caller # "answer"
  /\ \/ desc.n = 0 /\ signaling = "stable" /\ ~asked /\ todo = "none"
        /\ chain \in {<<>>, <<Create("offer")>>}
     \/ desc.n = 0 /\ signaling = "stable" /\ ~asked /\ todo = "offer" /\ chain = <<>>
     \/ /\ desc = [type |-> "offer", n |-> 1]
        /\ \/ todo = "emit" /\ ~asked /\ signaling = "stable"
              /\ chain = <<Op("local", "offer", 1)>>
           \/ todo = "emit" /\ ~asked /\ signaling = "local" /\ chain = <<>>
           \/ todo = "none" /\ signaling = "local" /\ chain = <<>>
           \/ /\ todo = "none" /\ ~asked /\ signaling = "local" /\ caller = "idle"
              /\ chain = <<Op("remote", "answer", 0)>>

Early == ~remoteSet /\ pc =>
           /\ ~linked
           /\ IF mode = "publisher" THEN PublisherStart ELSE ViewerStart

\* The answer to the first offer is on its way: there is one of it.
Answering ==
  /\ desc.n = 0 /\ ~linked /\ ~emitDue /\ ~asked
  /\ \/ caller = "answer" /\ todo = "none"
        /\ chain \in {<<>>, <<Op("remote", "offer", 0)>>}
     \/ caller # "answer" /\ todo = "none" /\ chain \in {<<>>, <<Create("answer")>>}
     \/ /\ caller # "answer" /\ todo = "answer" /\ chain = <<>>
        /\ signaling = "remote"
  /\ offers = 0 => chain = <<>> /\ todo = "none" /\ caller # "answer"

\* It has been made, and nothing comes between it and being set.
BeingSet == /\ todo = "emit" /\ chain = <<Op("local", "answer", desc.n)>>
            /\ ~linked /\ ~emitDue /\ ~asked

\* After that all offers are our own, and so the answers the remote side's, which a
\* WHEP client does not give.
OwnOffers == \A i \in DOMAIN chain :
  IF chain[i].type = "answer" THEN chain[i].do = "remote" /\ mode # "http"
                              ELSE chain[i].do # "remote"

Answered ==
  /\ offers > 0 /\ desc.n > 0 /\ caller # "answer" /\ todo # "answer"
  /\ IF signaling = "remote" THEN BeingSet ELSE OwnOffers

FirstAnswer == mode # "publisher" /\ offers <= 1 /\ pc => Answering \/ Answered

\* A publisher is offered nothing.
Offering == mode = "publisher" /\ pc =>
              signaling # "remote" /\ OwnOffers /\ caller # "answer" /\ todo # "answer"

\* A description is refused only when an offer has met another one.
FreedLater == freed /\ pc => offers > 1

\* A delayed emission whose callback is gone has been overtaken by another offer.
Overtaken == emitDue /\ ~fns /\ pc => offers > 1

IInv == /\ TypeOK /\ Numbered /\ Ended /\ Linked /\ Delivered /\ NotStranded
        /\ Unset /\ Early /\ FirstAnswer /\ Offering /\ FreedLater /\ Overtaken
        /\ OnlyClosedUnderCaller
-----------------------------------------------------------------------------
(***************************************************************************)
(* Lemmas about the chain.                                                  *)
(***************************************************************************)
LEMMA OpsTyped ==
  /\ \A t \in {"offer", "answer"} : Create(t) \in Operation
  /\ \A t \in {"offer", "answer"}, n \in Nat :
       Op("remote", t, 0) \in Operation /\ Op("local", t, n) \in Operation
  BY DEF Create, Op, Operation

LEMMA Appended ==
  ASSUME NEW S, NEW s \in Seq(S), NEW e \in S
  PROVE  /\ Append(s, e) \in Seq(S)
         /\ DOMAIN Append(s, e) = 1 .. Len(s) + 1
         /\ DOMAIN s = 1 .. Len(s) /\ Len(s) \in Nat
         /\ \A i \in 1 .. Len(s) : Append(s, e)[i] = s[i]
         /\ Append(s, e)[Len(s) + 1] = e
         /\ s = <<>> => Append(s, e) = <<e>>
<1>1. s = <<>> => Append(s, e) = <<e>>
  OBVIOUS
<1> QED
  BY <1>1, AppendProperties

LEMMA Shortened ==
  ASSUME NEW S, NEW s \in Seq(S), s # <<>>
  PROVE  /\ Tail(s) \in Seq(S) /\ s[1] \in S
         /\ DOMAIN Tail(s) = 1 .. Len(s) - 1
         /\ DOMAIN s = 1 .. Len(s) /\ Len(s) \in Nat \ {0}
         /\ \A i \in 1 .. Len(s) - 1 : Tail(s)[i] = s[i + 1]
         /\ \A e \in S : s = <<e>> => Tail(s) = <<>>
<1>1. /\ Tail(s) \in Seq(S) /\ s[1] \in S /\ Len(Tail(s)) = Len(s) - 1
      /\ \A i \in 1 .. Len(Tail(s)) : Tail(s)[i] = s[i + 1]
  BY HeadTailProperties
<1>2. \A e \in S : s = <<e>> => Tail(s) = <<>>
  OBVIOUS
<1>3. Len(s) \in Nat \ {0}
  BY EmptySeq
<1> QED
  BY <1>1, <1>2, <1>3

LEMMA Enqueued ==
  ASSUME Values, NEW e \in Operation, chain' = Append(chain, e)
  PROVE  /\ DOMAIN chain = 1 .. Len(chain) /\ Len(chain) \in Nat
         /\ chain' \in Seq(Operation) /\ DOMAIN chain' = 1 .. Len(chain) + 1
         /\ \A i \in 1 .. Len(chain) : chain'[i] = chain[i]
         /\ chain'[Len(chain) + 1] = e
         /\ chain = <<>> => chain' = <<e>>
  BY Appended DEF Values

LEMMA Dequeued ==
  ASSUME Values, chain # <<>>, chain' = Tail(chain)
  PROVE  /\ DOMAIN chain = 1 .. Len(chain) /\ Len(chain) \in Nat \ {0}
         /\ chain[1] \in Operation
         /\ chain' \in Seq(Operation) /\ DOMAIN chain' = 1 .. Len(chain) - 1
         /\ \A i \in 1 .. Len(chain) - 1 : chain'[i] = chain[i + 1]
         /\ \A e \in Operation : chain = <<e>> => chain' = <<>>
  BY Shortened DEF Values
-----------------------------------------------------------------------------
LEMMA InitIInv == Init => IInv
<1> SUFFICES ASSUME Init PROVE IInv
  OBVIOUS
<1> USE PeerAssumption DEF Init
<1>1. Flags /\ Closed
  BY DEF Flags, Closed
<1>2. Values
  <2>1. <<>> \in Seq(Operation)
    OBVIOUS
  <2>2. desc.n = 0 /\ 0 \in 0 .. 0 /\ 0 \in 0 .. MaxOffers
    OBVIOUS
  <2> QED
    BY <2>1, <2>2 DEF Values
<1>3. Numbered /\ Ended /\ Linked /\ Delivered /\ NotStranded
  BY DEF Numbered, Ended, Linked, Delivered, NotStranded, Sfu
<1>4. Unset /\ Early /\ FirstAnswer /\ Offering /\ FreedLater /\ Overtaken /\ OnlyClosedUnderCaller
  BY DEF Unset, Early, ViewerStart, PublisherStart, FirstAnswer, Answering, Offering,
         OwnOffers, FreedLater, Overtaken,
         OnlyClosedUnderCaller
<1> QED
  BY <1>1, <1>2, <1>3, <1>4 DEF IInv, TypeOK

LEMMA PublishIInv == ASSUME IInv, Publish PROVE IInv'
<1> USE DEF IInv, TypeOK, Publish, Call, Between, rtcVars, flagVars, emitVars, iceVars,
            trackVars, callVars, localVars, endVars
<1>1. (chain' = chain \/ chain' = <<Create("offer")>>) /\ chain = <<>>
  <2>1. <<>> \in Seq(Operation) /\ Append(<<>>, Create("offer")) = <<Create("offer")>>
    OBVIOUS
  <2> QED
    BY <2>1 DEF CreateOffer
<1>2. (Flags /\ Closed)'
  BY DEF Flags, Closed
<1>3. Values'
  <2>1. Create("offer") \in Operation
    BY OpsTyped
  <2>2. <<Create("offer")>> \in Seq(Operation)
    BY <2>1
  <2>3. chain' \in Seq(Operation)
    BY <1>1, <2>2 DEF Values
  <2> QED
    BY <2>3 DEF Values
<1>4. (Numbered /\ Unset /\ Early)'
  BY <1>1 DEF Numbered, Unset, Early, PublisherStart, Values, Create, Op
<1>5. (Ended /\ Linked /\ Delivered /\ NotStranded)'
  BY DEF Ended, Linked, Delivered, NotStranded, Sfu
<1>6. (FirstAnswer /\ Offering /\ FreedLater /\ Overtaken /\ OnlyClosedUnderCaller)'
  BY <1>1 DEF FirstAnswer, Offering, OwnOffers, FreedLater, Overtaken,
              OnlyClosedUnderCaller,
              Create, Op
<1> QED
  BY <1>2, <1>3, <1>4, <1>5, <1>6

LEMMA EnsureTracksAddedIInv == ASSUME IInv, EnsureTracksAdded PROVE IInv'
<1> USE DEF IInv, TypeOK, EnsureTracksAdded, Call, Between, Crash, rtcVars, flagVars,
            emitVars, iceVars, taskVars, trackVars, callVars, localVars, endVars
<1>1. (Flags /\ Closed)'
  <2>1. CASE pc
    BY <2>1 DEF Flags, Closed
  <2>2. CASE ~pc
    BY <2>2 DEF Flags, Closed
  <2> QED
    BY <2>1, <2>2
<1>2. Values'
  BY DEF Values
<1>3. (Numbered /\ Ended /\ Linked /\ Delivered /\ NotStranded)'
  BY DEF Numbered, Ended, Linked, Delivered, NotStranded, Sfu
<1>4. (Unset /\ Early /\ FirstAnswer /\ Offering /\ FreedLater /\ Overtaken)'
  BY DEF Unset, Early, PublisherStart, ViewerStart, FirstAnswer, Answering, Answered,
         BeingSet, Offering, OwnOffers, FreedLater, Overtaken
<1>5. OnlyClosedUnderCaller'
  BY DEF Closed, OnlyClosedUnderCaller
<1> QED
  BY <1>1, <1>2, <1>3, <1>4, <1>5

LEMMA SetRemoteSdpIInv ==
  ASSUME IInv, SetRemoteSdp, pc => mode # "http" \/ offers = 0 \/ remoteSet
  PROVE  IInv'
<1> USE DEF IInv, TypeOK, SetRemoteSdp, Call, Between, Setting, Crash, rtcVars, flagVars,
            emitVars, iceVars, trackVars, callVars, localVars, endVars
<1>1. pc => /\ DOMAIN chain = 1 .. Len(chain) /\ Len(chain) \in Nat
            /\ chain' \in Seq(Operation) /\ DOMAIN chain' = 1 .. Len(chain) + 1
            /\ \A i \in 1 .. Len(chain) : chain'[i] = chain[i]
            /\ chain'[Len(chain) + 1] = Op("remote", "offer", 0)
            /\ chain = <<>> => chain' = <<Op("remote", "offer", 0)>>
  BY OpsTyped, Enqueued
<1>2. (Flags /\ Closed)'
  <2>1. CASE pc
    BY <2>1 DEF Flags, Closed
  <2>2. CASE ~pc
    BY <2>2 DEF Flags, Closed
  <2> QED
    BY <2>1, <2>2
<1>3. Values'
  BY <1>1, PeerAssumption DEF Values
<1>4. Numbered'
  <2>1. CASE pc
    <3>1. Op("remote", "offer", 0).n = 0 /\ desc.n \in Nat
      BY DEF Op, Values
    <3>2. chain'[Len(chain) + 1].n <= desc.n
      BY <1>1, <2>1, <3>1
    <3>3. ASSUME NEW i \in 1 .. Len(chain)
          PROVE  chain'[i].n <= desc.n
      BY <1>1, <2>1 DEF Numbered
    <3>4. UNCHANGED desc
      OBVIOUS
    <3> QED
      BY ONLY <1>1, <2>1, <3>2, <3>3, <3>4 DEF Numbered
  <2>2. CASE ~pc
    BY <2>2 DEF Numbered
  <2> QED
    BY <2>1, <2>2
<1>5. (Ended /\ Linked /\ Delivered /\ NotStranded)'
  BY DEF Ended, Linked, Delivered, NotStranded, Sfu, Closed
<1>6. Unset'
  BY PeerAssumption DEF Unset
<1>7. Early'
  BY <1>1 DEF Early, ViewerStart, Create, Op
<1>8. FirstAnswer'
  <2>1. offers' <= 1 => offers = 0
    BY PeerAssumption DEF Values
  <2> QED
    BY <1>1, <2>1 DEF FirstAnswer, Answering, Answered, BeingSet, OwnOffers
<1>9. (Offering /\ FreedLater /\ Overtaken /\ OnlyClosedUnderCaller)'
  BY PeerAssumption DEF Offering, OwnOffers, FreedLater, Overtaken, OnlyClosedUnderCaller,
                        Closed, Values
<1> QED
  BY <1>2, <1>3, <1>4, <1>5, <1>6, <1>7, <1>8, <1>9

LEMMA CreateAnswerIInv == ASSUME IInv, CreateAnswer PROVE IInv'
<1> USE DEF IInv, TypeOK, CreateAnswer, Between, Setting, Crash, rtcVars, flagVars,
            emitVars, iceVars, trackVars, localVars, endVars
<1>1. pc => /\ DOMAIN chain = 1 .. Len(chain) /\ Len(chain) \in Nat
            /\ chain' \in Seq(Operation) /\ DOMAIN chain' = 1 .. Len(chain) + 1
            /\ \A i \in 1 .. Len(chain) : chain'[i] = chain[i]
            /\ chain'[Len(chain) + 1] = Create("answer")
            /\ chain = <<>> => chain' = <<Create("answer")>>
  BY OpsTyped, Enqueued
<1>2. (Flags /\ Closed)'
  <2>1. CASE pc
    BY <2>1 DEF Flags, Closed
  <2>2. CASE ~pc
    BY <2>2 DEF Flags, Closed
  <2> QED
    BY <2>1, <2>2
<1>3. Values'
  BY <1>1 DEF Values
<1>4. Numbered'
  <2>1. CASE pc
    <3>1. Create("answer").n = 0 /\ desc.n \in Nat
      BY DEF Create, Op, Values
    <3>2. chain'[Len(chain) + 1].n <= desc.n
      BY <1>1, <2>1, <3>1
    <3>3. ASSUME NEW i \in 1 .. Len(chain)
          PROVE  chain'[i].n <= desc.n
      BY <1>1, <2>1 DEF Numbered
    <3>4. UNCHANGED desc
      OBVIOUS
    <3> QED
      BY ONLY <1>1, <2>1, <3>2, <3>3, <3>4 DEF Numbered
  <2>2. CASE ~pc
    BY <2>2 DEF Numbered
  <2> QED
    BY <2>1, <2>2
<1>5. (Ended /\ Linked /\ Delivered /\ NotStranded)'
  BY DEF Ended, Linked, Delivered, NotStranded, Sfu
<1>6. Unset'
  BY PeerAssumption DEF Unset
<1>7. ~remoteSet => ~pc
  BY PeerAssumption DEF Early, ViewerStart, PublisherStart, Op
<1>8. Early'
  BY <1>7 DEF Early
<1>9. FirstAnswer'
  BY <1>1, PeerAssumption DEF FirstAnswer, Answering, Answered, BeingSet, OwnOffers, Op
<1>10. (Offering /\ FreedLater /\ Overtaken /\ OnlyClosedUnderCaller)'
  BY PeerAssumption DEF Offering, OwnOffers, FreedLater, Overtaken, OnlyClosedUnderCaller,
                        Closed, Ended
<1> QED
  BY <1>2, <1>3, <1>4, <1>5, <1>6, <1>8, <1>9, <1>10

LEMMA RemoteAnswerIInv == ASSUME IInv, RemoteAnswer PROVE IInv'
<1> USE DEF IInv, TypeOK, RemoteAnswer, AnswerTaken, Negotiating, Call, Between, Setting,
            Crash, rtcVars, flagVars, iceVars, trackVars, callVars, endVars
<1>1. CASE AnswerTaken /\ pc
  <2> USE <1>1
  <2>1. /\ DOMAIN chain = 1 .. Len(chain) /\ Len(chain) \in Nat
        /\ chain' \in Seq(Operation) /\ DOMAIN chain' = 1 .. Len(chain) + 1
        /\ \A i \in 1 .. Len(chain) : chain'[i] = chain[i]
        /\ chain'[Len(chain) + 1] = Op("remote", "answer", 0)
        /\ chain = <<>> => chain' = <<Op("remote", "answer", 0)>>
    BY OpsTyped, Enqueued
  <2>2. (Flags /\ Closed)'
    <3>1. asked' \in BOOLEAN /\ crossed' \in BOOLEAN
      OBVIOUS
    <3>2. /\ UNCHANGED <<pc, signaling, connected, needs, fns, freed, emitDue, timer, remoteSet,
                         flushDue, notified, extra, linked, silenced, crashed, closedBy>>
      OBVIOUS
    <3> HIDE <1>1 DEF RemoteAnswer
    <3>3. Flags'
      BY <3>1, <3>2 DEF Flags
    <3>4. Closed'
      BY <3>2 DEF Closed
    <3> QED
      BY <3>3, <3>4
  <2>3. Values'
    BY <2>1 DEF Values
  <2>4. Numbered'
    BY <2>1 DEF Numbered, Values, Op
  <2>5. (Ended /\ Linked /\ Delivered /\ NotStranded)'
    BY DEF Ended, Linked, Delivered, NotStranded, Sfu
  <2>6. Unset'
    BY PeerAssumption DEF Unset
  <2>7. Early'
    BY <2>1 DEF Early, ViewerStart, PublisherStart, Op
  <2>8. FirstAnswer'
    <3> SUFFICES ASSUME mode # "publisher", offers <= 1 PROVE Answered'
      BY DEF FirstAnswer
    <3>1. Answered
      BY DEF FirstAnswer, Answering
    <3>2. signaling # "remote" /\ OwnOffers
      BY <3>1 DEF Answered, BeingSet, Op
    <3>3. OwnOffers'
      BY <2>1, <3>2 DEF OwnOffers, Op
    <3> QED
      BY <3>1, <3>2, <3>3 DEF Answered
  <2>9. (Offering /\ FreedLater /\ Overtaken /\ OnlyClosedUnderCaller)'
    <3>1. Offering'
      <4> SUFFICES ASSUME mode = "publisher" PROVE OwnOffers'
        BY DEF Offering
      <4>1. OwnOffers
        BY DEF Offering
      <4> QED
        BY <2>1, <4>1 DEF OwnOffers, Op
    <3> QED
      BY <3>1 DEF FreedLater, Overtaken, OnlyClosedUnderCaller
  <2> QED
    BY <2>2, <2>3, <2>4, <2>5, <2>6, <2>7, <2>8, <2>9
<1>2. CASE ~(AnswerTaken /\ pc)
  <2>1. UNCHANGED <<chain, closedBy>> /\ crashed' \in BOOLEAN
    BY <1>2 DEF Flags
  <2>2. crashed' => ~pc
    BY <1>2
  <2> HIDE <1>2
  <2>3. (Flags /\ Closed)'
    <3>1. asked' \in BOOLEAN /\ crossed' \in BOOLEAN
      OBVIOUS
    <3>2. /\ UNCHANGED <<pc, signaling, connected, needs, fns, freed, emitDue, timer, remoteSet,
                         flushDue, notified, extra, linked, silenced>>
      OBVIOUS
    <3> HIDE DEF RemoteAnswer
    <3>3. Flags'
      BY <2>1, <3>1, <3>2 DEF Flags
    <3>4. Closed'
      BY <2>1, <3>2 DEF Closed
    <3> QED
      BY <3>3, <3>4
  <2>4. Values'
    BY <2>1 DEF Values
  <2>5. (Numbered /\ Ended /\ Linked /\ Delivered /\ NotStranded)'
    BY <2>1 DEF Numbered, Ended, Linked, Delivered, NotStranded, Sfu
  <2>6. (Unset /\ Early)'
    BY <2>1, PeerAssumption DEF Unset, Early, ViewerStart, PublisherStart
  <2>7. FirstAnswer'
    BY <2>1 DEF FirstAnswer, Answering, Answered, BeingSet, OwnOffers
  <2>8. (Offering /\ FreedLater /\ Overtaken /\ OnlyClosedUnderCaller)'
    BY <2>1, <2>2 DEF Offering, OwnOffers, FreedLater, Overtaken, OnlyClosedUnderCaller,
                      Closed
  <2> QED
    BY <2>3, <2>4, <2>5, <2>6, <2>7, <2>8
<1> QED
  BY <1>1, <1>2

LEMMA RemoteIceIInv == ASSUME IInv, NEW c \in Candidates, RemoteIce(c) PROVE IInv'
<1> USE DEF IInv, TypeOK, RemoteIce, Call, Between, Setting, Crash, rtcVars, flagVars,
            emitVars, taskVars, trackVars, localVars, endVars
<1>1. /\ closedBy' = closedBy /\ crashed' \in BOOLEAN /\ (crashed' => ~pc)
      /\ given' \subseteq Candidates /\ caller' \in {caller, c}
      /\ caller' # caller => pc /\ ~remoteSet
  BY DEF Flags, Values
<1>2. (Flags /\ Closed)'
  BY <1>1 DEF Flags, Closed
<1>3. Values'
  BY <1>1 DEF Values
<1>4. (Numbered /\ Linked /\ Delivered /\ NotStranded)'
  BY <1>1 DEF Numbered, Linked, Delivered, NotStranded, Sfu
<1>5. Ended'
  BY <1>1 DEF Ended, Closed
<1>6. c # "answer" /\ c # "idle"
  BY PeerAssumption
<1>7. pc /\ ~remoteSet => \A i \in DOMAIN chain : chain[i].do # "remote"
  BY DEF Early, ViewerStart, PublisherStart, Create, Op
<1>8. Unset'
  BY <1>1, <1>7 DEF Unset
<1>9. Early'
  BY <1>1, <1>6 DEF Early, ViewerStart, PublisherStart, Op
<1>10. (FirstAnswer /\ Offering /\ FreedLater /\ Overtaken)'
  BY <1>1, <1>6 DEF FirstAnswer, Answering, Answered, BeingSet, OwnOffers, Offering,
                    FreedLater,
                    Overtaken
<1>11. OnlyClosedUnderCaller'
  BY <1>1 DEF OnlyClosedUnderCaller, Closed
<1> QED
  BY <1>2, <1>3, <1>4, <1>5, <1>8, <1>9, <1>10, <1>11

LEMMA BufferIceIInv == ASSUME IInv, NEW c \in Candidates, BufferIce(c) PROVE IInv'
<1> USE PeerAssumption
    DEF IInv, TypeOK, BufferIce, rtcVars, flagVars, emitVars, taskVars, trackVars,
        localVars, endVars
<1>1. (Flags /\ Closed)'
  BY DEF Flags, Closed
<1>2. Values'
  BY DEF Values
<1>3. (Numbered /\ Ended /\ Linked /\ Delivered /\ NotStranded)'
  BY DEF Numbered, Ended, Linked, Delivered, NotStranded, Sfu, Unset
<1>4. (Unset /\ Early)'
  BY DEF Unset, Early, ViewerStart, PublisherStart
<1>5. (FirstAnswer /\ Offering /\ FreedLater /\ Overtaken /\ OnlyClosedUnderCaller)'
  BY DEF FirstAnswer, Answering, Answered, BeingSet, Offering, OwnOffers, FreedLater,
         Overtaken, OnlyClosedUnderCaller
<1> QED
  BY <1>1, <1>2, <1>3, <1>4, <1>5
-----------------------------------------------------------------------------
LEMMA ClosesIInv ==
  ASSUME IInv, Terminate \/ ConnectionFails \/ DisconnectCommand
  PROVE  IInv'
<1> USE DEF IInv, TypeOK, Terminate, ConnectionFails, DisconnectCommand, Close,
            ConnectedAfter, EmissionAfter, DescriptionsGo, Call, Between, trackVars, localVars
<1>1. /\ closedBy' \in {"caller", "failure", "command"}
      /\ fns' \in BOOLEAN /\ emitDue' \in BOOLEAN /\ (emitDue' => emitDue)
      /\ closedBy' = "caller" => caller = "idle" /\ ~emitDue'
      /\ ~pc' /\ signaling' = "closed" /\ ~connected' /\ freed' \in BOOLEAN
      /\ caller' = caller /\ ~crashed' /\ chain' = <<>> /\ todo' = "none"
  <2>1. CASE Terminate
    BY <2>1 DEF Flags
  <2>2. CASE ConnectionFails
    BY <2>2 DEF Flags, Ended
  <2>3. CASE DisconnectCommand
    BY <2>3 DEF Flags, Ended
  <2> QED
    BY <2>1, <2>2, <2>3
<1>2. /\ UNCHANGED <<mode, offers, needs, desc, emitted, silenced, asked, timer, pending,
                    given, remoteSet, tracks, notified, extra, linked, local, crossed,
                    crashed>>
      /\ flushDue' = FALSE /\ pc' = FALSE /\ connected' = FALSE
  <2>1. CASE Terminate
    BY <2>1
  <2>2. CASE ConnectionFails
    BY <2>2
  <2>3. CASE DisconnectCommand
    BY <2>3
  <2> QED
    BY <2>1, <2>2, <2>3
<1> HIDE DEF Terminate, ConnectionFails, DisconnectCommand
<1>3. (Flags /\ Closed)'
  <2>1. flushDue' \in BOOLEAN /\ pc' \in BOOLEAN /\ connected' \in BOOLEAN
    BY <1>2
  <2>2. Flags'
    BY <1>1, <1>2, <2>1 DEF Flags
  <2>3. Closed'
    BY <1>1, <1>2 DEF Closed
  <2> QED
    BY <2>2, <2>3
<1>4. Values'
  <2>1. <<>> \in Seq(Operation)
    OBVIOUS
  <2> QED
    BY <1>1, <1>2, <2>1 DEF Values
<1>5. (Numbered /\ Ended /\ Linked /\ Delivered /\ NotStranded)'
  BY <1>1, <1>2 DEF Numbered, Ended, Linked, Delivered, NotStranded, Sfu
<1>6. (Unset /\ Early /\ FirstAnswer /\ Offering /\ FreedLater /\ Overtaken /\ OnlyClosedUnderCaller)'
  BY <1>1, <1>2 DEF Unset, Early, FirstAnswer, Offering, OwnOffers, FreedLater, Overtaken,
                    OnlyClosedUnderCaller
<1> QED
  BY <1>3, <1>4, <1>5, <1>6

LEMMA TimesOutIInv == ASSUME IInv, TimesOut PROVE IInv'
<1> USE DEF IInv, TypeOK, TimesOut, Between, DescriptionsGo, flagVars, emitVars,
            trackVars, callVars,
            localVars
<1>1. CASE pc /\ ~connected
  <2> USE <1>1
  <2>1. (Flags /\ Closed)'
    <3>1. /\ UNCHANGED <<connected, needs, fns, emitDue, remoteSet, notified, extra, asked,
                         linked, silenced, crossed, crashed>>
          /\ timer' = FALSE /\ pc' = FALSE /\ flushDue' = FALSE /\ freed' \in BOOLEAN
          /\ signaling' = "closed" /\ closedBy' = "timeout" /\ ~connected'
      OBVIOUS
    <3> HIDE <1>1 DEF TimesOut, DescriptionsGo
    <3>2. Flags'
      BY <3>1 DEF Flags
    <3>3. Closed'
      BY <3>1 DEF Closed
    <3> QED
      BY <3>2, <3>3
  <2>2. Values'
    <3>1. <<>> \in Seq(Operation)
      OBVIOUS
    <3> QED
      BY <3>1 DEF Values
  <2>3. (Numbered /\ Ended /\ Linked /\ Delivered /\ NotStranded)'
    BY DEF Numbered, Ended, Linked, Delivered, NotStranded, Sfu
  <2>4. (Unset /\ Early /\ FirstAnswer /\ Offering /\ FreedLater /\ Overtaken /\ OnlyClosedUnderCaller)'
    BY DEF Unset, Early, FirstAnswer, Offering, OwnOffers, FreedLater, Overtaken,
           OnlyClosedUnderCaller
  <2> QED
    BY <2>1, <2>2, <2>3, <2>4
<1>2. CASE ~(pc /\ ~connected)
  <2>1. UNCHANGED <<pc, signaling, chain, flushDue, closedBy, freed>>
    BY <1>2
  <2>2. (Flags /\ Closed)'
    <3>1. /\ UNCHANGED <<connected, needs, fns, emitDue, remoteSet, notified, extra, asked,
                         linked, silenced, crossed, crashed>>
          /\ timer' \in BOOLEAN
      OBVIOUS
    <3> HIDE <1>2 DEF TimesOut
    <3>2. Flags'
      BY <2>1, <3>1 DEF Flags
    <3>3. Closed'
      BY <2>1, <3>1 DEF Closed
    <3> QED
      BY <3>2, <3>3
  <2>3. Values'
    BY <2>1 DEF Values
  <2>4. (Numbered /\ Ended /\ Linked /\ Delivered /\ NotStranded)'
    BY <2>1 DEF Numbered, Ended, Linked, Delivered, NotStranded, Sfu
  <2>5. (Unset /\ Early)'
    BY <2>1 DEF Unset, Early, ViewerStart, PublisherStart
  <2>6. (FirstAnswer /\ Offering /\ FreedLater /\ Overtaken /\ OnlyClosedUnderCaller)'
    BY <2>1 DEF FirstAnswer, Answering, Answered, BeingSet, Offering, OwnOffers,
                FreedLater, Overtaken, OnlyClosedUnderCaller
  <2> QED
    BY <2>2, <2>3, <2>4, <2>5, <2>6
<1> QED
  BY <1>1, <1>2
-----------------------------------------------------------------------------
LEMMA SetDescriptionIInv == ASSUME IInv, SetDescription PROVE IInv'
<1> USE DEF IInv, TypeOK, SetDescription, Setting, BecomesStable, Renegotiated, TimerAfter,
            emitVars, callVars, endVars
<1> DEFINE op == chain[1]
           set == ~Refused(op) /\ ~RefusedOffer(op)
<1>1. /\ DOMAIN chain = 1 .. Len(chain) /\ Len(chain) \in Nat \ {0}
      /\ op \in Operation /\ op.do # "create"
      /\ chain' \in Seq(Operation) /\ DOMAIN chain' = 1 .. Len(chain) - 1
      /\ \A i \in 1 .. Len(chain) - 1 : chain'[i] = chain[i + 1]
      /\ \A e \in Operation : chain = <<e>> => chain' = <<>>
  BY Dequeued
<1>2. pc
  BY DEF Ended
<1>3. /\ op.type \in {"offer", "answer"} /\ op.do \in {"remote", "local"} /\ op.n \in Nat
      /\ op.n <= desc.n
  BY <1>1 DEF Operation, Numbered
<1>4. /\ signaling' \in {signaling, "remote", "local", "stable"}
      /\ timer' \in BOOLEAN /\ fns' \in BOOLEAN /\ notified' \in BOOLEAN
      /\ tracks' \in {"none", "offered", "yes"} /\ fns' \in {fns, fns /\ ~Renegotiated}
  <2>1. CASE set /\ op.type = "offer"
    BY <1>3, <2>1 DEF Flags, Values
  <2>2. CASE set /\ op.type = "answer" /\ op.do = "remote"
    BY <1>3, <2>2 DEF Flags, Values
  <2>3. CASE set /\ op.type = "answer" /\ op.do = "local"
    BY <1>3, <2>3 DEF Flags, Values
  <2>4. CASE ~set
    BY <1>3, <2>4 DEF Flags, Values
  <2> QED
    BY <1>3, <2>1, <2>2, <2>3, <2>4
<1>5. /\ remoteSet' = (remoteSet \/ (set /\ op.do = "remote"))
      /\ flushDue' = (flushDue \/ (set /\ op.do = "remote"))
      /\ local' = IF set /\ op.do = "local" THEN op.n ELSE local
      /\ crossed' \in BOOLEAN
      /\ linked' = (linked \/ (set /\ op.do = "remote" /\ op.type = "answer"))
      /\ freed' = (freed \/ (op.do = "local" /\ ~set /\ op.n = desc.n))
      /\ freed' \in BOOLEAN
  BY DEF Flags
<1>6. /\ set /\ op.type = "offer" => signaling' = op.do /\ fns' = fns
      /\ ~set => signaling' = signaling /\ fns' = fns
      /\ set /\ op.type = "answer" => signaling' = "stable"
  BY <1>3
<1>7. /\ op = Op("remote", "offer", 0) => op.do = "remote" /\ op.type = "offer"
      /\ op = Op("remote", "answer", 0) => op.do = "remote" /\ op.type = "answer"
      /\ op = Op("local", "offer", 1) => op.do = "local" /\ op.type = "offer" /\ op.n = 1
      /\ op = Create("offer") \/ op = Create("answer") => op.do = "create"
  BY DEF Op, Create
<1>8. UNCHANGED <<mode, pc, connected, needs, desc, emitDue, emitted, silenced, asked,
                  pending, given, todo, extra, caller, offers, crashed, closedBy>> /\ ~crashed
  OBVIOUS
<1> HIDE DEF SetDescription, op, set
<1>9. (Flags /\ Closed)'
  BY <1>2, <1>4, <1>5, <1>8 DEF Flags, Closed
<1>10. Values'
  BY <1>1, <1>3, <1>4, <1>5, <1>8 DEF Values
<1>11. Numbered'
  BY <1>1, <1>8 DEF Numbered
<1>12. (Ended /\ Delivered /\ NotStranded)'
  BY <1>2, <1>5, <1>8 DEF Ended, Delivered, NotStranded
<1>13. Linked'
  BY <1>2, <1>4, <1>5, <1>8 DEF Linked, Renegotiated, Sfu
<1>14. Unset'
  <2> SUFFICES ASSUME caller \in Candidates
               PROVE ~remoteSet' /\ \A i \in DOMAIN chain' : chain'[i].do # "remote"
    BY <1>8 DEF Unset
  <2>1. ~remoteSet /\ \A i \in 1 .. Len(chain) : chain[i].do # "remote"
    BY <1>1, <1>2 DEF Unset
  <2>2. op.do # "remote" /\ \A i \in DOMAIN chain' : chain'[i].do # "remote"
    BY <2>1, <1>1 DEF op
  <2> QED
    BY <2>1, <2>2, <1>5
<1>15. Early'
  <2> SUFFICES ASSUME ~remoteSet' PROVE ~linked' /\ IF mode = "publisher"
                                                    THEN PublisherStart' ELSE ViewerStart'
    BY <1>8 DEF Early
  <2>1. ~remoteSet /\ ~(set /\ op.do = "remote") /\ ~linked'
    BY <1>2, <1>5 DEF Early
  <2>2. CASE mode = "publisher"
    <3>1. PublisherStart
      BY <1>2, <2>1, <2>2 DEF Early
    <3>2. CASE chain = <<Op("local", "offer", 1)>>
      <4>1. op = Op("local", "offer", 1) /\ chain' = <<>>
        BY <1>1, <3>2, OpsTyped DEF op
      <4>2. signaling = "stable" /\ todo = "emit" /\ ~asked
        BY <3>1, <3>2, <4>1, <1>7 DEF PublisherStart, op
      <4>3. set /\ signaling' = "local"
        BY <1>6, <1>7, <4>1, <4>2 DEF Refused, RefusedOffer, set
      <4>4. desc = [type |-> "offer", n |-> 1] /\ caller # "answer"
        BY <3>1, <3>2, <4>2 DEF PublisherStart
      <4> QED
        BY <2>1, <2>2, <4>1, <4>2, <4>3, <4>4, <1>8 DEF PublisherStart
    <3>3. CASE chain = <<Op("remote", "answer", 0)>>
      <4>1. op = Op("remote", "answer", 0)
        BY <3>3 DEF op
      <4>2. signaling = "local"
        BY <3>1, <3>3, <4>1, <1>7 DEF PublisherStart, op
      <4>3. set
        BY <1>7, <4>1, <4>2 DEF Refused, RefusedOffer, set
      <4> QED
        BY <2>1, <4>1, <4>3, <1>7
    <3>4. CASE chain \in {<<>>, <<Create("offer")>>}
      BY <3>4, <1>1, <1>7 DEF op
    <3> QED
      BY <3>1, <3>2, <3>3, <3>4 DEF PublisherStart
  <2>3. CASE mode # "publisher"
    <3>1. signaling = "stable" /\ chain \in {<<>>, <<Op("remote", "offer", 0)>>}
      BY <1>2, <2>1, <2>3 DEF Early, ViewerStart
    <3>2. op = Op("remote", "offer", 0)
      BY <1>1, <3>1 DEF op
    <3>3. set
      BY <1>7, <3>1, <3>2 DEF Refused, RefusedOffer, set
    <3> QED
      BY <2>1, <3>2, <3>3, <1>7
  <2> QED
    BY <2>2, <2>3
<1>16. ASSUME mode # "publisher", offers <= 1
       PROVE  /\ Answering' \/ Answered'
              /\ op.do = "local" => set
              /\ mode = "http" /\ op.type = "answer" => ~linked /\ ~emitDue
  <2>1. CASE Answering
    <3>1. chain = <<Op("remote", "offer", 0)>>
      BY <1>16, <2>1, <1>1, <1>7 DEF Answering, op
    <3>2. op.do = "remote" /\ op.type = "offer" /\ chain' = <<>>
      BY <3>1, <1>1, <1>7, OpsTyped DEF op
    <3>3. caller = "answer" /\ todo = "none" /\ offers # 0
      BY <2>1, <3>1, <1>1, <1>7 DEF Answering, op
    <3> QED
      BY <2>1, <3>2, <3>3, <1>5, <1>8 DEF Answering
  <2>2. CASE Answered /\ signaling = "remote"
    <3>1. /\ op = Op("local", "answer", desc.n) /\ chain' = <<>>
          /\ ~linked /\ ~emitDue
      <4>1. chain = <<Op("local", "answer", desc.n)>> /\ desc.n \in Nat
        BY <2>2 DEF Answered, BeingSet, Values
      <4>2. Op("local", "answer", desc.n) \in Operation
        BY <4>1, OpsTyped
      <4> QED
        BY <4>1, <4>2, <2>2, <1>1 DEF Answered, BeingSet, op
    <3>2. op.do = "local" /\ op.type = "answer"
      BY <3>1 DEF Op
    <3>3. set
      BY <2>2, <3>2 DEF Refused, RefusedOffer, set
    <3>4. signaling' = "stable"
      BY <3>2, <3>3, <1>6
    <3>5. OwnOffers'
      <4>1. DOMAIN chain' = {}
        BY <3>1
      <4> QED
        BY <4>1 DEF OwnOffers
    <3>6. Answered'
      BY <2>2, <3>4, <3>5, <1>8 DEF Answered, BeingSet
    <3> QED
      BY <3>1, <3>3, <3>6
  <2>3. CASE Answered /\ signaling # "remote"
    <3>1. /\ op.type = "answer" => op.do = "remote" /\ mode # "http"
          /\ op.type = "offer" => op.do = "local"
      BY <2>3, <1>1, <1>3 DEF Answered, OwnOffers, op
    <3>2. op.do = "local" => set
      BY <3>1, <2>3, <1>3 DEF Refused, RefusedOffer, set
    <3>3. signaling' # "remote"
      BY <3>1, <2>3, <1>3, <1>6
    <3>4. OwnOffers'
      <4>1. OwnOffers /\ mode' = mode
        BY <2>3, <1>8 DEF Answered
      <4> SUFFICES ASSUME NEW i \in 1 .. Len(chain) - 1
                   PROVE IF chain'[i].type = "answer"
                         THEN chain'[i].do = "remote" /\ mode # "http"
                         ELSE chain'[i].do # "remote"
        BY <1>1, <4>1 DEF OwnOffers
      <4>2. i + 1 \in 1 .. Len(chain) /\ chain'[i] = chain[i + 1]
        BY <1>1
      <4> QED
        BY <1>1, <4>1, <4>2 DEF OwnOffers
    <3>5. Answered'
      BY <2>3, <3>3, <3>4, <1>8 DEF Answered
    <3> QED
      BY <3>1, <3>2, <3>5
  <2> QED
    BY <1>16, <2>1, <2>2, <2>3, <1>2 DEF FirstAnswer
<1>17. FirstAnswer'
  BY <1>16, <1>8 DEF FirstAnswer
<1>18. Offering' /\ FreedLater'
  <2>1. ASSUME mode = "publisher" PROVE (op.do = "local" => set) /\ Offering'
    <3>1. /\ signaling # "remote" /\ caller # "answer" /\ todo # "answer"
          /\ op.type = "answer" => op.do = "remote"
          /\ op.type = "offer" => op.do = "local"
      BY <1>1, <1>2, <1>3, <2>1 DEF Offering, OwnOffers, op
    <3>2. op.do = "local" => set
      BY <1>3, <3>1 DEF Refused, RefusedOffer, set
    <3>3. signaling' # "remote"
      BY <3>1, <1>3, <1>6
    <3>4. OwnOffers'
      BY <1>1, <1>2, <1>8, <2>1 DEF Offering, OwnOffers
    <3> QED
      BY <3>1, <3>2, <3>3, <3>4, <1>8 DEF Offering
  <2>2. CASE mode = "publisher"
    BY <2>1, <2>2, <1>2, <1>5, <1>8 DEF FreedLater
  <2>3. CASE mode # "publisher"
    <3>1. Offering'
      BY <2>3, <1>8 DEF Offering
    <3>0. offers \in Nat
      BY PeerAssumption DEF Values
    <3>2. CASE offers <= 1
      <4>1. ~freed
        BY <3>0, <3>2, <1>2 DEF FreedLater
      <4>2. ~freed'
        BY <1>16, <2>3, <3>2, <4>1, <1>5
      <4> QED
        BY <3>1, <4>2 DEF FreedLater
    <3>3. CASE ~(offers <= 1)
      BY <3>0, <3>1, <3>3, <1>8 DEF FreedLater
    <3> QED
      BY <3>2, <3>3
  <2> QED
    BY <2>2, <2>3
<1>19. Overtaken'
  <2> SUFFICES ASSUME emitDue, ~fns', fns, offers <= 1 PROVE FALSE
    BY <1>8 DEF Overtaken, Values
  <2>1. op.type = "answer"
    BY <1>3, <1>6
  <2>2. mode = "http"
    BY DEF Ended
  <2> QED
    BY <2>1, <2>2, <1>16
<1>20. OnlyClosedUnderCaller'
  BY <1>8 DEF OnlyClosedUnderCaller
<1> QED
  BY <1>9, <1>10, <1>11, <1>12, <1>13, <1>14, <1>15, <1>17, <1>18, <1>19, <1>20

LEMMA CreatedIInv == ASSUME IInv, Created PROVE IInv'
<1> USE DEF IInv, TypeOK, Created, Between, Setting, rtcVars, flagVars, emitVars, iceVars,
            callVars, localVars, endVars
<1>1. /\ DOMAIN chain = 1 .. Len(chain) /\ Len(chain) \in Nat \ {0}
      /\ chain[1] \in Operation
      /\ chain' \in Seq(Operation) /\ DOMAIN chain' = 1 .. Len(chain) - 1
      /\ \A i \in 1 .. Len(chain) - 1 : chain'[i] = chain[i + 1]
      /\ \A e \in Operation : chain = <<e>> => chain' = <<>>
  BY Dequeued
<1>2. pc
  BY DEF Ended
<1>3. chain[1].type \in {"offer", "answer"} /\ chain[1].do = "create"
  BY <1>1 DEF Operation
<1>4. /\ todo' \in {"none", chain[1].type} /\ tracks' \in {tracks, "offered"}
      /\ chain[1].type = "offer" => todo' = "offer"
  OBVIOUS
<1>5. (Flags /\ Closed)'
  BY DEF Flags, Closed
<1>6. Values'
  BY <1>1, <1>3, <1>4 DEF Values
<1>7. Numbered'
  BY <1>1 DEF Numbered
<1>8. (Ended /\ Linked /\ Delivered /\ NotStranded)'
  BY <1>2, <1>4 DEF Ended, Linked, Delivered, NotStranded, Sfu
<1>9. Unset'
  BY <1>1 DEF Unset
<1>10. Early'
  BY <1>1, <1>2, <1>3, <1>4, OpsTyped DEF Early, ViewerStart, PublisherStart, Create, Op
<1>11. FirstAnswer'
  <2> SUFFICES ASSUME mode # "publisher", offers <= 1 PROVE Answering' \/ Answered'
    BY DEF FirstAnswer
  <2>1. CASE Answering
    BY <2>1, <1>1, <1>3, <1>4, OpsTyped DEF Answering, Create, Op
  <2>2. CASE Answered
    <3>1. signaling # "remote" /\ OwnOffers
      BY <2>2 DEF Answered, BeingSet, Op
    <3>2. OwnOffers' /\ chain[1].type = "offer"
      BY <3>1, <1>1, <1>3 DEF OwnOffers
    <3> QED
      BY <2>2, <3>1, <3>2, <1>4 DEF Answered
  <2> QED
    BY <2>1, <2>2, <1>2 DEF FirstAnswer
<1>12. Offering'
  BY <1>1, <1>3, <1>4 DEF Offering, OwnOffers
<1>13. (FreedLater /\ Overtaken /\ OnlyClosedUnderCaller)'
  BY DEF FreedLater, Overtaken, OnlyClosedUnderCaller
<1> QED
  BY <1>5, <1>6, <1>7, <1>8, <1>9, <1>10, <1>11, <1>12, <1>13

LEMMA OnSuccessIInv == ASSUME IInv, OnSuccess PROVE IInv'
<1> USE DEF IInv, TypeOK, OnSuccess, Setting, rtcVars, flagVars, iceVars, trackVars,
            callVars, endVars
<1>1. todo \in {"offer", "answer"} /\ desc.n \in Nat /\ pc
  BY DEF Values, Ended
<1>2. Op("local", todo, desc.n + 1) \in Operation
  BY <1>1, OpsTyped
<1>3. /\ DOMAIN chain = 1 .. Len(chain) /\ Len(chain) \in Nat
      /\ chain' \in Seq(Operation) /\ DOMAIN chain' = 1 .. Len(chain) + 1
      /\ \A i \in 1 .. Len(chain) : chain'[i] = chain[i]
      /\ chain'[Len(chain) + 1] = Op("local", todo, desc.n + 1)
      /\ chain = <<>> => chain' = <<Op("local", todo, desc.n + 1)>>
  BY <1>2, Enqueued
<1>4. desc' = [type |-> todo, n |-> desc.n + 1] /\ desc'.n = desc.n + 1
  OBVIOUS
<1>5. (Flags /\ Closed)'
  <2>1. /\ UNCHANGED <<pc, signaling, connected, needs, fns, emitDue, timer, remoteSet,
                       flushDue, notified, extra, asked, linked, silenced, crossed, crashed,
                       closedBy>>
        /\ freed' \in BOOLEAN
    OBVIOUS
  <2> HIDE DEF OnSuccess
  <2>2. Flags'
    BY <2>1 DEF Flags
  <2>3. Closed'
    BY <2>1 DEF Closed
  <2> QED
    BY <2>2, <2>3
<1>6. Values'
  BY <1>1, <1>3, <1>4 DEF Values
<1>7. Numbered'
  <2>1. \A i \in 1 .. Len(chain) : chain[i].n \in Nat /\ chain[i].n <= desc.n
    <3>1. \A i \in 1 .. Len(chain) : chain[i] \in Operation
      BY <1>3 DEF Values
    <3> QED
      BY <3>1, <1>3 DEF Numbered, Operation
  <2>2. \A i \in 1 .. Len(chain) : chain'[i].n <= desc.n + 1
    BY <2>1, <1>1, <1>3
  <2>3. chain'[Len(chain) + 1].n = desc.n + 1
    BY <1>3 DEF Op
  <2> QED
    BY <2>2, <2>3, <1>1, <1>3, <1>4 DEF Numbered
<1>8. (Ended /\ Linked /\ Delivered /\ NotStranded)'
  BY <1>1 DEF Ended, Linked, Delivered, NotStranded, Sfu
<1>9. Unset'
  BY <1>3 DEF Unset, Op
<1>10. Early'
  BY <1>1, <1>3, <1>4 DEF Early, ViewerStart, PublisherStart
<1>11. FirstAnswer'
  <2> SUFFICES ASSUME mode # "publisher", offers <= 1 PROVE Answered'
    BY DEF FirstAnswer
  <2>1. CASE Answering
    <3>1. /\ chain = <<>> /\ todo = "answer" /\ caller # "answer" /\ offers # 0
          /\ signaling = "remote" /\ ~linked /\ ~emitDue /\ ~asked /\ offers \in Nat
      BY <2>1, <1>1, PeerAssumption DEF Answering, Values
    <3>2. BeingSet'
      BY <3>1, <1>3, <1>4 DEF BeingSet
    <3> QED
      BY <3>1, <3>2, <1>1, <1>4 DEF Answered
  <2>2. CASE Answered
    <3>1. todo = "offer" /\ signaling # "remote" /\ OwnOffers
      BY <2>2, <1>1 DEF Answered, BeingSet
    <3>2. OwnOffers'
      BY <3>1, <1>3 DEF OwnOffers, Op
    <3> QED
      BY <2>2, <3>1, <3>2, <1>1, <1>4 DEF Answered
  <2> QED
    BY <2>1, <2>2, <1>1 DEF FirstAnswer
<1>12. Offering'
  <2> SUFFICES ASSUME mode = "publisher" PROVE Offering'
    BY DEF Offering
  <2>1. signaling # "remote" /\ OwnOffers /\ caller # "answer" /\ todo = "offer"
    BY <1>1 DEF Offering
  <2>2. OwnOffers'
    BY <2>1, <1>3 DEF OwnOffers, Op
  <2> QED
    BY <2>1, <2>2 DEF Offering
<1>13. (FreedLater /\ Overtaken /\ OnlyClosedUnderCaller)'
  BY DEF FreedLater, Overtaken, OnlyClosedUnderCaller
<1> QED
  BY <1>5, <1>6, <1>7, <1>8, <1>9, <1>10, <1>11, <1>12, <1>13

LEMMA EmitsIInv ==
  ASSUME IInv, EmitLocalSdp \/ EmitDelayed
  PROVE  IInv'
<1> USE DEF IInv, TypeOK, EmitLocalSdp, EmitDelayed, Emit, SendSdp, Between, Setting, Crash,
            rtcVars, flagVars, iceVars, taskVars, trackVars, callVars, localVars, endVars
<1>1. desc.n \in Nat /\ local \in 0 .. desc.n
  BY DEF Values
<1>2. CASE EmitLocalSdp
  <2> USE <1>2
  <2>0. pc
    BY DEF Ended
  <2>1. /\ asked' \in BOOLEAN /\ emitDue' \in BOOLEAN /\ silenced' \in BOOLEAN
        /\ linked' \in BOOLEAN /\ (linked => linked')
        /\ (linked' => linked \/ desc.type = "answer")
        /\ emitted' \in 0 .. desc.n /\ closedBy' = closedBy /\ crashed' \in BOOLEAN
        /\ (silenced => silenced') /\ (silenced' => silenced \/ ~fns)
        /\ (emitDue => emitDue') /\ (emitDue' => emitDue \/ (fns /\ mode = "http"))
        /\ mode = "http" => linked' = linked
        /\ crashed' => freed
        /\ crashed' \/ emitted' = desc.n \/ silenced' \/ emitDue'
    <3>1. CASE ~fns
      <4>1. silenced' = TRUE /\ UNCHANGED <<emitDue, emitted, asked, linked, crashed, closedBy>>
        BY <3>1
      <4>2. ~crashed
        OBVIOUS
      <4> HIDE <1>2
      <4> QED
        BY <3>1, <4>1, <4>2 DEF Flags, Values
    <3>2. CASE fns /\ mode = "http"
      BY <3>2, <1>1 DEF Flags, Values
    <3>3. CASE fns /\ mode # "http" /\ Emit /\ UNCHANGED endVars
      <4>1. /\ emitted' = desc.n /\ asked' = (asked \/ desc.type = "offer")
            /\ linked' = (linked \/ desc.type = "answer")
            /\ UNCHANGED <<emitDue, silenced, crashed, closedBy>> /\ ~crashed
        BY <3>3
      <4>2. emitted' \in 0 .. desc.n
        BY <4>1, <1>1
      <4> HIDE <1>2
      <4> QED
        BY <3>3, <4>1, <4>2 DEF Flags
    <3>4. CASE /\ fns /\ mode # "http" /\ freed
               /\ Crash /\ UNCHANGED <<emitted, asked, linked>>
      <4>1. UNCHANGED <<emitDue, silenced, emitted, asked, linked, closedBy>> /\ crashed' = TRUE
        BY <3>4
      <4> HIDE <1>2
      <4> QED
        BY <3>4, <4>1 DEF Flags, Values
    <3> QED
      BY <3>1, <3>2, <3>3, <3>4
  <2>3. /\ todo = "emit" /\ todo' = "none" /\ ~(chain # <<>> /\ chain[1].do # "create")
        /\ UNCHANGED <<mode, pc, signaling, connected, needs, fns, desc, timer, pending,
                       given, remoteSet, flushDue, chain, tracks, notified, extra, caller,
                       offers, local, crossed, freed>>
    OBVIOUS
  <2> HIDE <1>2 DEF EmitLocalSdp, EmitDelayed
  <2>4. (Flags /\ Closed)'
    BY <2>1, <2>3 DEF Flags, Closed
  <2>5. Values'
    BY <2>1, <2>3 DEF Values
  <2>6. (Numbered /\ Delivered /\ NotStranded /\ Unset)'
    BY <2>1, <2>3 DEF Numbered, Delivered, NotStranded, Unset
  <2>7. (Ended /\ Linked)'
    BY <2>0, <2>1, <2>3 DEF Ended, Linked, Closed, Sfu
  <2>8. Early'
    BY <2>1, <2>3 DEF Early, ViewerStart, PublisherStart, Op
  <2>9. FirstAnswer'
    <3> SUFFICES ASSUME mode # "publisher", offers <= 1 PROVE Answered'
      BY <2>3 DEF FirstAnswer
    <3>1. Answered
      BY <2>0, <2>3 DEF FirstAnswer, Answering
    <3>2. signaling # "remote" /\ OwnOffers
      BY <3>1, <2>3 DEF Answered, BeingSet, Op
    <3>3. OwnOffers'
      BY <3>2, <2>3 DEF OwnOffers
    <3> QED
      BY <3>1, <3>2, <3>3, <2>3 DEF Answered
  <2>10. (Offering /\ FreedLater /\ Overtaken)'
    BY <2>1, <2>3 DEF Offering, OwnOffers, FreedLater, Overtaken
  <2>11. OnlyClosedUnderCaller'
    BY <2>0, <2>1, <2>3 DEF OnlyClosedUnderCaller, FreedLater, Closed
  <2> QED
    BY <2>4, <2>5, <2>6, <2>7, <2>8, <2>9, <2>10, <2>11
<1>3. CASE EmitDelayed
  <2> USE <1>3
  <2>0. mode = "http"
    BY DEF Ended
  <2>1. /\ asked' \in BOOLEAN /\ linked' \in BOOLEAN /\ (linked => linked')
        /\ emitted' \in 0 .. desc.n /\ closedBy' = closedBy
        /\ emitted' # emitted \/ linked' # linked \/ asked' # asked => fns
        /\ crashed' \in BOOLEAN /\ (crashed' => ~fns \/ freed)
        /\ crashed' \/ emitted' = desc.n
    <3>1. CASE fns /\ Emit /\ UNCHANGED endVars
      BY <3>1, <1>1 DEF Flags, Values
    <3>2. CASE fns /\ freed /\ Crash /\ UNCHANGED <<emitted, asked, linked>>
      BY <3>2, <1>1 DEF Flags, Values
    <3>3. CASE ~fns
      BY <3>3, <1>1 DEF Flags, Values
    <3> QED
      BY <3>1, <3>2, <3>3
  <2>2. /\ emitDue /\ emitDue' = FALSE /\ todo = "none"
        /\ UNCHANGED <<mode, pc, signaling, connected, needs, fns, desc, timer, pending,
                       given, remoteSet, flushDue, chain, tracks, notified, extra, caller,
                       offers, local, crossed, freed, todo, silenced>>
        /\ ~crashed /\ (chain # <<>> => chain[1].do = "create")
    OBVIOUS
  <2> HIDE <1>3 DEF EmitLocalSdp, EmitDelayed, SendSdp, Emit, Crash
  <2>3. (Flags /\ Closed)'
    <3>1. emitDue' \in BOOLEAN /\ Flags
      BY <2>2
    <3>2. Flags'
      BY ONLY <2>1, <2>2, <3>1 DEF Flags
    <3>3. Closed'
      BY <2>1, <2>2 DEF Closed
    <3> QED
      BY <3>2, <3>3
  <2>4. Values'
    BY <2>1, <2>2 DEF Values
  <2>5. (Numbered /\ Delivered /\ NotStranded /\ Unset)'
    BY <2>1, <2>2 DEF Numbered, Delivered, NotStranded, Unset
  <2>6. (Ended /\ Linked)'
    BY <2>1, <2>2 DEF Ended, Linked, Sfu
  <2>7. Early'
    BY <2>0, <2>1, <2>2 DEF Early, ViewerStart
  <2>8. FirstAnswer'
    <3> SUFFICES ASSUME offers <= 1, pc PROVE Answered'
      BY <2>2 DEF FirstAnswer
    <3>1. Answered /\ signaling # "remote" /\ OwnOffers
      BY <2>0, <2>2 DEF FirstAnswer, Answering, Answered, BeingSet, Op
    <3>2. OwnOffers'
      BY <3>1, <2>2 DEF OwnOffers
    <3> QED
      BY <3>1, <3>2, <2>2 DEF Answered
  <2>9. (Offering /\ FreedLater /\ Overtaken)'
    BY <2>0, <2>2 DEF Offering, FreedLater, Overtaken
  <2>10. OnlyClosedUnderCaller'
    BY <2>0, <2>1, <2>2 DEF OnlyClosedUnderCaller, Overtaken, FreedLater, Ended, Closed
  <2> QED
    BY <2>3, <2>4, <2>5, <2>6, <2>7, <2>8, <2>9, <2>10
<1> QED
  BY <1>2, <1>3

LEMMA OnIceCandidateIInv == ASSUME IInv, OnIceCandidate PROVE IInv'
<1> USE DEF IInv, TypeOK, OnIceCandidate, Between, Crash, rtcVars, flagVars, emitVars,
            iceVars, taskVars, trackVars, callVars, localVars, endVars
<1>1. (Flags /\ Closed)'
  BY DEF Flags, Closed
<1>2. Values'
  BY DEF Values
<1>3. (Numbered /\ Ended /\ Linked /\ Delivered /\ NotStranded)'
  BY DEF Numbered, Ended, Linked, Delivered, NotStranded, Sfu
<1>4. (Unset /\ Early)'
  BY DEF Unset, Early, ViewerStart, PublisherStart
<1>5. (FirstAnswer /\ Offering /\ FreedLater /\ Overtaken)'
  BY DEF FirstAnswer, Answering, Answered, BeingSet, Offering, OwnOffers, FreedLater,
         Overtaken
<1>6. OnlyClosedUnderCaller'
  BY DEF OnlyClosedUnderCaller, FreedLater, Closed
<1> QED
  BY <1>1, <1>2, <1>3, <1>4, <1>5, <1>6

LEMMA FlushPendingIceIInv == ASSUME IInv, FlushPendingIce PROVE IInv'
<1> USE DEF IInv, TypeOK, FlushPendingIce, Flushed, Between, rtcVars, flagVars, emitVars,
            taskVars, trackVars, callVars, localVars, endVars
<1>1. (Flags /\ Closed)'
  <2>1. /\ UNCHANGED <<pc, signaling, connected, needs, fns, freed, emitDue, timer, remoteSet,
                       notified, extra, asked, linked, silenced, crossed, crashed,
                       closedBy>>
        /\ flushDue' \in BOOLEAN
    OBVIOUS
  <2> HIDE DEF FlushPendingIce
  <2>2. Flags'
    BY <2>1 DEF Flags
  <2>3. Closed'
    BY <2>1 DEF Closed
  <2> QED
    BY <2>2, <2>3
<1>2. Values'
  BY DEF Values
<1>3. (Numbered /\ Ended /\ Linked /\ Delivered /\ NotStranded)'
  BY DEF Numbered, Ended, Linked, Delivered, NotStranded, Sfu
<1>4. (Unset /\ Early)'
  BY DEF Unset, Early, ViewerStart, PublisherStart
<1>5. (FirstAnswer /\ Offering /\ FreedLater /\ Overtaken /\ OnlyClosedUnderCaller)'
  BY DEF FirstAnswer, Answering, Answered, BeingSet, Offering, OwnOffers, FreedLater,
         Overtaken, OnlyClosedUnderCaller
<1> QED
  BY <1>1, <1>2, <1>3, <1>4, <1>5

LEMMA RenegotiatesIInv ==
  ASSUME IInv, OnRenegotiationNeeded \/ Connects
  PROVE  IInv'
<1> USE DEF IInv, TypeOK, OnRenegotiationNeeded, Connects, CreateOffer, Between, Setting,
            Deferred, rtcVars, flagVars, emitVars, iceVars, trackVars, callVars, localVars,
            endVars
<1>1. /\ chain' = chain \/ (pc /\ linked)
      /\ connected' \in BOOLEAN /\ (connected' => linked) /\ pc
      /\ needs' \in BOOLEAN /\ notified' \in BOOLEAN
      /\ \/ chain' = chain
         \/ chain' = Append(chain, Create("offer")) /\ todo = "none"
            /\ ~(chain # <<>> /\ chain[1].do # "create")
      /\ UNCHANGED <<mode, pc, signaling, fns, desc, emitDue, emitted, silenced, asked,
                     timer, pending, given, remoteSet, flushDue, todo, tracks, extra,
                     caller, offers, linked, local, crossed, freed, crashed, closedBy>>
  <2>1. CASE OnRenegotiationNeeded
    BY <2>1 DEF Flags, Linked
  <2>2. CASE Connects
    BY <2>2 DEF Flags, Linked
  <2> QED
    BY <2>1, <2>2
<1> HIDE DEF OnRenegotiationNeeded, Connects, CreateOffer
<1>2. /\ DOMAIN chain = 1 .. Len(chain) /\ Len(chain) \in Nat
      /\ chain \in Seq(Operation) /\ chain' \in Seq(Operation)
      /\ \A i \in DOMAIN chain' : \/ i \in DOMAIN chain /\ chain'[i] = chain[i]
                                  \/ chain'[i] = Create("offer")
  <2>1. CASE chain' = chain
    BY <2>1, Shortened DEF Values
  <2>2. CASE chain' = Append(chain, Create("offer"))
    BY <2>2, OpsTyped, Enqueued DEF Values
  <2> QED
    BY <1>1, <2>1, <2>2
<1>3. (Flags /\ Closed)'
  BY <1>1 DEF Flags, Closed
<1>4. Values'
  BY <1>1, <1>2 DEF Values
<1>5. Numbered'
  BY <1>1, <1>2 DEF Numbered, Values, Create, Op
<1>6. (Ended /\ Linked /\ Delivered /\ NotStranded)'
  BY <1>1 DEF Ended, Linked, Delivered, NotStranded, Sfu
<1>7. Unset'
  BY <1>1, <1>2 DEF Unset, Create, Op
<1>8. Early'
  BY <1>1 DEF Early, ViewerStart, PublisherStart
<1>9. FirstAnswer'
  <2> SUFFICES ASSUME mode # "publisher", offers <= 1 PROVE Answering' \/ Answered'
    BY <1>1 DEF FirstAnswer
  <2>1. CASE Answering
    BY <2>1, <1>1 DEF Answering
  <2>2. CASE Answered
    <3>1. signaling = "remote" => chain' = chain /\ BeingSet'
      BY <2>2, <1>1 DEF Answered, BeingSet
    <3>2. OwnOffers => OwnOffers'
      BY <1>1, <1>2 DEF OwnOffers, Create, Op
    <3> QED
      BY <2>2, <3>1, <3>2, <1>1 DEF Answered
  <2> QED
    BY <2>1, <2>2, <1>1 DEF FirstAnswer
<1>10. (Offering /\ FreedLater /\ Overtaken /\ OnlyClosedUnderCaller)'
  BY <1>1, <1>2 DEF Offering, OwnOffers, FreedLater, Overtaken, OnlyClosedUnderCaller,
                    Create, Op
<1> QED
  BY <1>3, <1>4, <1>5, <1>6, <1>7, <1>8, <1>9, <1>10
-----------------------------------------------------------------------------
LEMMA NextIInv == IInv /\ [Next]_vars => IInv'
<1> SUFFICES ASSUME IInv, [Next]_vars PROVE IInv'
  OBVIOUS
<1>1. CASE UNCHANGED vars
  <2> USE <1>1 DEF IInv, TypeOK, vars, rtcVars, flagVars, emitVars, iceVars, taskVars,
                   trackVars, callVars, localVars, endVars
  <2>1. (Flags /\ Values /\ Closed)'
    BY DEF Flags, Values, Closed
  <2>2. (Numbered /\ Ended /\ Linked /\ Delivered /\ NotStranded)'
    BY DEF Numbered, Ended, Linked, Delivered, NotStranded, Sfu
  <2>3. (Unset /\ Early)'
    BY DEF Unset, Early, ViewerStart, PublisherStart
  <2>4. (FirstAnswer /\ Offering /\ FreedLater /\ Overtaken /\ OnlyClosedUnderCaller)'
    BY DEF FirstAnswer, Answering, Answered, BeingSet, Offering, OwnOffers, FreedLater,
           Overtaken, OnlyClosedUnderCaller
  <2> QED
    BY <2>1, <2>2, <2>3, <2>4
<1>2. CASE SignalingThread
  BY <1>2, SetDescriptionIInv, CreatedIInv, OnSuccessIInv, EmitsIInv, FlushPendingIceIInv,
     RenegotiatesIInv, TimesOutIInv, OnIceCandidateIInv DEF SignalingThread
<1>3. CASE RemoteOffer \/ RestartIce
  BY <1>3, SetRemoteSdpIInv DEF RemoteOffer, RestartIce
<1>4. CASE Caller \/ \E c \in Candidates : RemoteIce(c)
  BY <1>4, CreateAnswerIInv, BufferIceIInv, RemoteIceIInv DEF Caller
<1>5. CASE Publish \/ EnsureTracksAdded \/ RemoteAnswer
  BY <1>5, PublishIInv, EnsureTracksAddedIInv, RemoteAnswerIInv
<1>6. CASE Terminate \/ ConnectionFails \/ DisconnectCommand \/ Connects
  BY <1>6, ClosesIInv, RenegotiatesIInv
<1> QED
  BY <1>1, <1>2, <1>3, <1>4, <1>5, <1>6 DEF Next

THEOREM Invariant == Spec => []IInv
  BY InitIInv, NextIInv, PTL DEF Spec
-----------------------------------------------------------------------------
\* Whatever comes early gets to its place (DeliveryInv): no candidate is stranded
\* between the check of SetRemoteIce and the flush, and no description that was set
\* is withheld from a peer that has not been connected.
THEOREM NothingStranded == Spec => []DeliveryInv
<1>1. IInv => DeliveryInv
  <2> SUFFICES ASSUME IInv PROVE DeliveryInv
    OBVIOUS
  <2>1. Emitted
    <3> SUFFICES ASSUME Quiet, ~silenced PROVE emitted >= local
      BY DEF Emitted
    <3>1. emitted = desc.n
      BY DEF Quiet, Between, IInv, Delivered
    <3> QED
      BY <3>1 DEF IInv, TypeOK, Values
  <2>2. SilentOnlyConnected
    BY DEF SilentOnlyConnected, IInv, Linked
  <2> QED
    BY <2>1, <2>2 DEF DeliveryInv, NothingWithheld, IInv
<1> QED
  BY <1>1, Invariant, PTL

\* What ends the process (OnlyClosedUnderCaller): a use of a connection that was
\* closed on the signaling thread, by the caller or by an emission that was due, and,
\* once the remote side has made a second offer, an emission whose callback or whose
\* description is gone.  A peer that has had one offer and is open never dies, nor
\* does one that Terminate has closed.
THEOREM OthersNeverCrash == Spec => []OnlyClosedUnderCaller
<1>1. IInv => OnlyClosedUnderCaller
  BY DEF IInv
<1> QED
  BY <1>1, Invariant, PTL
=============================================================================
