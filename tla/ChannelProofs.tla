----------------------------- MODULE ChannelProofs -----------------------------
(***************************************************************************)
(* Proofs about DataChannel, for chunks, messages and buffers of any size:  *)
(* what is given to Send goes out once and in order, the receiver can put   *)
(* every message together, the sending thread of an open channel is there,  *)
(* and Terminate is final.                                                  *)
(***************************************************************************)
EXTENDS DataChannel, SequenceTheorems, FiniteSetTheorems, TLAPS

(***************************************************************************)
(* Lemmas about sequences and packets.                                      *)
(***************************************************************************)
LEMMA Bounds ==
  SendRoom \in Nat \ {0} /\ MaxStreams \in Nat /\ ChunkSize \in Nat \ {0}
  BY ChannelAssumption

LEMMA NoPackets == <<>> \in Seq(Packet) /\ Len(<<>>) = 0
  OBVIOUS

LEMMA Assoc ==
  ASSUME NEW S, NEW s \in Seq(S), NEW h \in Seq(S), NEW q \in Seq(S)
  PROVE  (s \o h) \o q = s \o (h \o q)
  OBVIOUS

LEMMA AtMostOne ==
  ASSUME NEW S, NEW h \in Seq(S), h # <<>>, Len(h) <= 1
  PROVE  Len(h) = 1 /\ h[1] \in S /\ h = <<h[1]>>
<1>1. Len(h) \in Nat /\ Len(h) # 0
  BY EmptySeq
<1>2. Len(h) = 1
  BY <1>1
<1>3. /\ h[1] \in S /\ <<h[1]>> \in Seq(S)
      /\ Len(<<h[1]>>) = 1 /\ <<h[1]>>[1] = h[1]
  BY <1>2
<1> QED
  BY <1>2, <1>3, SeqEqual

LEMMA HeadAndTail ==
  ASSUME NEW S, NEW q \in Seq(S), q # <<>>
  PROVE  /\ q[1] \in S /\ Tail(q) \in Seq(S)
         /\ q = <<q[1]>> \o Tail(q)
<1>1. q[1] \in S /\ Tail(q) \in Seq(S) /\ Len(Tail(q)) = Len(q) - 1
  BY HeadTailProperties
<1>2. \A i \in 1 .. Len(Tail(q)) : Tail(q)[i] = q[i + 1]
  BY HeadTailProperties
<1>3. <<q[1]>> \in Seq(S) /\ Len(<<q[1]>>) = 1
  BY <1>1
<1> DEFINE c == <<q[1]>> \o Tail(q)
<1>4. /\ c \in Seq(S) /\ Len(c) = Len(q)
      /\ \A i \in 1 .. Len(q) : c[i] = IF i <= 1 THEN <<q[1]>>[i] ELSE Tail(q)[i - 1]
  BY <1>1, <1>3, ConcatProperties
<1>5. \A i \in 1 .. Len(q) : c[i] = q[i]
  <2> SUFFICES ASSUME NEW i \in 1 .. Len(q) PROVE c[i] = q[i]
    OBVIOUS
  <2>1. CASE i = 1
    BY <2>1, <1>4
  <2>2. CASE i # 1
    <3>1. i - 1 \in 1 .. Len(Tail(q)) /\ Tail(q)[i - 1] = q[(i - 1) + 1]
      BY <2>2, <1>1, <1>2
    <3> HIDE DEF c
    <3> QED
      BY <2>2, <3>1, <1>4
  <2> QED
    BY <2>1, <2>2
<1> HIDE DEF c
<1>6. c = q
  BY <1>4, <1>5, SeqEqual
<1> QED
  BY <1>1, <1>6 DEF c

\* Every chunk begins inside the message.
LEMMA ChunkInside ==
  ASSUME NEW size \in Nat, NEW i \in 1 .. NumChunks(size)
  PROVE  /\ (i - 1) * ChunkSize \in Nat
         /\ (i - 1) * ChunkSize < size
<1> DEFINE q == NumChunks(size)
<1>1. ChunkSize \in Nat /\ ChunkSize >= 1
  BY ChannelAssumption
<1>2. q \in Int /\ q * ChunkSize <= size + ChunkSize - 1
  BY <1>1 DEF NumChunks
<1> HIDE DEF q
<1>3. i \in Int /\ 1 <= i /\ i <= q
  BY <1>2 DEF q
<1>4. i * ChunkSize <= q * ChunkSize
  BY <1>1, <1>2, <1>3
<1>5. (i - 1) * ChunkSize = i * ChunkSize - ChunkSize
  BY <1>1, <1>3
<1>6. (i - 1) * ChunkSize >= 0
  BY <1>1, <1>3
<1> QED
  BY <1>1, <1>2, <1>3, <1>4, <1>5, <1>6

LEMMA StreamType ==
  ASSUME NEW id \in Nat, NEW total \in Nat, NEW size \in Nat
  PROVE  Stream(id, total, size) \in Seq(Packet)
<1> DEFINE chunk(i) == Chunk(id, (i - 1) * ChunkSize,
                             Least(ChunkSize, size - (i - 1) * ChunkSize))
           chunks == [i \in 1 .. NumChunks(size) |-> chunk(i)]
<1>1. NumChunks(size) \in Nat
  <2>1. ChunkSize \in Nat /\ ChunkSize >= 1
    BY ChannelAssumption
  <2> QED
    BY <2>1 DEF NumChunks
<1>2. ASSUME NEW i \in 1 .. NumChunks(size) PROVE chunk(i) \in Packet
  <2>1. (i - 1) * ChunkSize \in Nat /\ (i - 1) * ChunkSize < size
    BY ChunkInside
  <2>2. Least(ChunkSize, size - (i - 1) * ChunkSize) \in Nat
    <3>1. ChunkSize \in Nat
      BY ChannelAssumption
    <3> DEFINE at == (i - 1) * ChunkSize
    <3> HIDE DEF at
    <3>2. at \in Nat /\ at < size
      BY <2>1 DEF at
    <3>3. Least(ChunkSize, size - at) \in Nat
      BY <3>1, <3>2 DEF Least
    <3> QED
      BY <3>3 DEF at
  <2> QED
    BY <2>1, <2>2 DEF Chunk, Packet
<1>3. chunks \in [1 .. NumChunks(size) -> Packet]
  BY <1>2
<1>4. chunks \in Seq(Packet)
  BY <1>1, <1>3, SeqDef
<1>5. Header(id, total) \in Packet /\ Trailer(id) \in Packet
  BY DEF Header, Trailer, Packet
<1>6. <<Header(id, total)>> \in Seq(Packet) /\ <<Trailer(id)>> \in Seq(Packet)
  BY <1>5
<1> HIDE DEF chunks
<1>7. <<Header(id, total)>> \o chunks \in Seq(Packet)
  BY <1>4, <1>6, ConcatProperties
<1>8. (<<Header(id, total)>> \o chunks) \o <<Trailer(id)>> \in Seq(Packet)
  BY <1>6, <1>7, ConcatProperties
<1> QED
  BY <1>8 DEF chunks, Stream

\* Whatever a handler answers is made of packets.
LEMMA ResponsesType ==
  ASSUME streams \in Nat, NEW c
  PROVE  Responses(c) \cup OnlyReply \subseteq Seq(Packet)
<1>1. <<>> \in Seq(Packet) /\ <<Report>> \in Seq(Packet)
  BY DEF Report, Packet
<1>2. \A n \in Sizes : /\ n \in Nat /\ n + 1 \in Nat
                       /\ Id \in Nat /\ Id + 1 \in Nat
  BY ChannelAssumption DEF Id
<1>3. \A n \in Sizes : Stream(Id, n, n) \in Seq(Packet)
  BY <1>2, StreamType
<1>4. TakeSnapshot \subseteq Seq(Packet) /\ OnlyReply \subseteq Seq(Packet)
  BY <1>1, <1>3 DEF TakeSnapshot, OnlyReply
<1>5. SendFileResponse(Id) \subseteq Seq(Packet)
  BY <1>3 DEF SendFileResponse
<1>6. SendFileResponse(Id + 1) \subseteq Seq(Packet)
  <2>1. \A n \in Sizes : Stream(Id + 1, n, n) \in Seq(Packet)
    BY <1>2, StreamType
  <2> QED
    BY <2>1 DEF SendFileResponse
<1>7. QueryFile \subseteq Seq(Packet)
  <2>1. ASSUME NEW s \in SendFileResponse(Id)
        PROVE  {s \o t : t \in SendFileResponse(Id + 1)} \subseteq Seq(Packet)
    <3>1. \A t \in SendFileResponse(Id + 1) : s \o t \in Seq(Packet)
      BY <1>5, <1>6, ConcatProperties
    <3> QED
      BY <3>1
  <2>2. UNION {{s \o t : t \in SendFileResponse(Id + 1)} : s \in SendFileResponse(Id)}
          \subseteq Seq(Packet)
    BY <2>1
  <2> QED
    BY <1>1, <1>5, <2>2 DEF QueryFile
<1>8. TransferFile \subseteq Seq(Packet)
  <2>1. ASSUME NEW n \in Sizes PROVE FileStream(Id, n) \subseteq Seq(Packet)
    <3>1. Stream(Id, n, n) \in Seq(Packet) /\ Stream(Id, n, n + 1) \in Seq(Packet)
      BY <1>2, StreamType
    <3> QED
      BY <3>1 DEF FileStream
  <2>2. UNION {FileStream(Id, n) : n \in Sizes} \subseteq Seq(Packet)
    BY <2>1
  <2> QED
    BY <1>1, <2>2 DEF TransferFile
<1>9. ControlCamera \subseteq Seq(Packet) /\ Recording \subseteq Seq(Packet)
  BY <1>1 DEF ControlCamera, Recording
<1> QED
  BY <1>1, <1>4, <1>7, <1>8, <1>9 DEF Responses
-----------------------------------------------------------------------------
(***************************************************************************)
(* The invariant.                                                           *)
(***************************************************************************)
\* What was sent is a prefix of what was given to Send; the rest is held or queued
\* while the loop runs.
Ordered ==
  ~SfuKind =>
    /\ Len(sent) <= Len(accepted)
    /\ \A i \in 1 .. Len(sent) : accepted[i] = sent[i]
    /\ sender # "ended" => accepted = (sent \o held) \o queue

\* The loop of a channel that has not opened yet has nothing to send, and that of
\* an open one runs, unless something was given to Send too early.
LoopAlive ==
  ~SfuKind /\ ~early =>
    /\ dc = "connecting" => queue = <<>> /\ sender = "wait"
    /\ dc = "open" => sender # "ended"

\* Terminate proceeds on a closed channel.
Terminating ==
  /\ term # "no" => dc = "closed"
  /\ running \/ term \in {"join", "done"}
  /\ term = "done" => ~registered /\ sender = "ended" /\ ipc = <<>>

\* The inductive invariant.
IInv == TypeOK /\ Ordered /\ LoopAlive /\ Terminating

LEMMA InitIInv == Init => IInv
<1> SUFFICES ASSUME Init PROVE IInv
  OBVIOUS
<1>1. <<>> \in Seq(Packet) /\ Len(<<>>) = 0
  OBVIOUS
<1>2. TypeOK
  <2>1. Len(<<>>) <= 1
    OBVIOUS
  <2>2. /\ queue = <<>> /\ held = <<>> /\ handler = <<>> /\ ipc = <<>>
        /\ accepted = <<>> /\ sent = <<>>
    BY DEF Init
  <2>3. /\ kind \in Kinds /\ dc \in {"connecting", "open", "closed"}
        /\ registered \in BOOLEAN
    BY DEF Init, IpcKind
  <2>4. buffered \in 0 .. SendRoom /\ streams \in 0 .. MaxStreams
    BY Bounds DEF Init
  <2> QED
    BY <1>1, <2>1, <2>2, <2>3, <2>4 DEF Init, TypeOK
<1>3. Ordered
  <2>1. <<>> = (<<>> \o <<>>) \o <<>>
    BY ConcatEmptySeq
  <2> QED
    BY <2>1 DEF Init, Ordered
<1>4. LoopAlive /\ Terminating
  BY DEF Init, LoopAlive, Terminating
<1> QED
  BY <1>2, <1>3, <1>4 DEF IInv

\* Send keeps the order and the types.
LEMMA SendOrdered ==
  ASSUME IInv, NEW p \in Packet, Send(p), kind' = kind
  PROVE  /\ Ordered'
         /\ queue' \in Seq(Packet) /\ held' \in Seq(Packet)
         /\ accepted' \in Seq(Packet) /\ sent' \in Seq(Packet)
         /\ early' \in BOOLEAN
<1>1. /\ queue \in Seq(Packet) /\ held \in Seq(Packet)
      /\ accepted \in Seq(Packet) /\ sent \in Seq(Packet)
  BY DEF IInv, TypeOK
<1>2. accepted' = Append(accepted, p) /\ accepted' \in Seq(Packet)
  BY <1>1, AppendProperties DEF Send
<1>3. queue' \in Seq(Packet) /\ held' \in Seq(Packet) /\ sent' \in Seq(Packet)
  <2>1. Append(queue, p) \in Seq(Packet) /\ Append(sent, p) \in Seq(Packet)
    BY <1>1, AppendProperties
  <2> QED
    BY <1>1, <2>1 DEF Send, Queued, sendVars
<1>4. SfuKind' = SfuKind
  BY DEF SfuKind
<1>5. Ordered'
  <2> SUFFICES ASSUME ~SfuKind PROVE Ordered'
    BY <1>4 DEF Ordered
  <2>1. queue' = Append(queue, p) /\ UNCHANGED <<held, sender, sent>>
    BY DEF Send, Queued
  <2>2. Len(accepted') = Len(accepted) + 1
        /\ \A i \in 1 .. Len(accepted) : accepted'[i] = accepted[i]
    BY <1>1, <1>2, AppendProperties
  <2>3. Len(sent) <= Len(accepted) /\ \A i \in 1 .. Len(sent) : accepted[i] = sent[i]
    BY DEF IInv, Ordered
  <2>4. Len(sent) \in Nat /\ Len(accepted) \in Nat
    BY <1>1
  <2>5. ASSUME sender # "ended"
        PROVE  accepted' = (sent \o held) \o queue'
    <3>1. sent \o held \in Seq(Packet)
      BY <1>1, ConcatProperties
    <3>2. accepted = (sent \o held) \o queue
      BY <2>5 DEF IInv, Ordered
    <3>3. accepted' = (sent \o held) \o queue'
      <4>1. ASSUME NEW f \in Seq(Packet), NEW q \in Seq(Packet)
            PROVE  Append(f \o q, p) = f \o Append(q, p)
        BY ONLY p \in Packet
      <4>2. Append((sent \o held) \o queue, p) = (sent \o held) \o Append(queue, p)
        BY ONLY <1>1, <3>1, <4>1
      <4> QED
        BY ONLY <1>2, <2>1, <3>2, <4>2
    <3> QED
      BY <2>1, <3>3
  <2>6. Len(sent) <= Len(accepted')
    BY <2>2, <2>3, <2>4
  <2>7. \A i \in 1 .. Len(sent) : accepted'[i] = sent[i]
    BY <2>2, <2>3, <2>4
  <2> QED
    BY <2>1, <2>5, <2>6, <2>7 DEF Ordered
<1>6. early' \in BOOLEAN
  BY DEF IInv, TypeOK, Send
<1> QED
  BY <1>2, <1>3, <1>5, <1>6

LEMMA SendsIInv ==
  ASSUME IInv, HandlerSends \/ IpcSends
  PROVE  IInv'
<1>1. \E p \in Packet : Send(p)
  BY HeadAndTail DEF HandlerSends, IpcSends, IInv, TypeOK
<1>2. PICK p \in Packet : Send(p)
  BY <1>1
<1>0. kind' = kind
  BY DEF HandlerSends, IpcSends
<1>3. Ordered' /\ queue' \in Seq(Packet) /\ accepted' \in Seq(Packet)
      /\ sent' \in Seq(Packet)
      /\ early' \in BOOLEAN
  BY <1>0, <1>2, SendOrdered
<1>4. handler' \in Seq(Packet) /\ ipc' \in Seq(Packet)
  BY HeadAndTail DEF HandlerSends, IpcSends, IInv, TypeOK
<1>5. held' = held /\ sender' = sender
  BY <1>2 DEF Send, sendVars
<1>6. TypeOK'
  BY <1>3, <1>4, <1>5 DEF HandlerSends, IpcSends, IInv, TypeOK, termVars
<1>7. LoopAlive'
  BY <1>2, <1>5 DEF HandlerSends, IpcSends, IInv, TypeOK, LoopAlive, Send, SfuKind,
     termVars, sendVars
<1>8. Terminating'
  BY <1>5 DEF HandlerSends, IpcSends, IInv, Terminating, termVars
<1> QED
  BY <1>3, <1>6, <1>7, <1>8 DEF IInv

LEMMA PopIInv ==
  ASSUME IInv, Pop
  PROVE  IInv'
<1> USE DEF IInv, TypeOK, Pop, histVars, workVars, termVars
<1>1. /\ queue[1] \in Packet /\ Tail(queue) \in Seq(Packet)
      /\ queue = <<queue[1]>> \o Tail(queue)
  BY HeadAndTail
<1>2. held = <<>> /\ held' \in Seq(Packet) /\ held' # <<>> /\ Len(held') = 1
  BY <1>1
<1>3. TypeOK'
  BY <1>1, <1>2
<1>4. ~SfuKind => accepted = (sent \o held') \o queue'
  <2> SUFFICES ASSUME ~SfuKind PROVE accepted = (sent \o held') \o queue'
    OBVIOUS
  <2>1. sent \in Seq(Packet)
    OBVIOUS
  <2>2. accepted = sent \o queue
    BY <1>2, <2>1, ConcatEmptySeq DEF Ordered
  <2> DEFINE h == held'
             q == queue'
  <2>3. h \in Seq(Packet) /\ q \in Seq(Packet) /\ queue = h \o q
    BY <1>1, <1>2
  <2> HIDE DEF h, q, IInv, TypeOK, Pop
  <2>4. (sent \o h) \o q = sent \o (h \o q)
    BY <2>1, <2>3, Assoc
  <2> QED
    BY <2>2, <2>3, <2>4 DEF h, q
<1>5. Ordered'
  BY <1>4 DEF Ordered, SfuKind
<1>6. LoopAlive' /\ Terminating'
  BY DEF LoopAlive, Terminating, SfuKind
<1> QED
  BY <1>3, <1>5, <1>6

LEMMA SendHeldIInv ==
  ASSUME IInv, SendHeld
  PROVE  IInv'
<1> USE DEF IInv, TypeOK, SendHeld, HasRoom, workVars, termVars
<1>1. held \in Seq(Packet) /\ held # <<>> /\ Len(held) <= 1
  OBVIOUS
<1>2. Len(held) = 1 /\ held[1] \in Packet /\ held = <<held[1]>>
  BY <1>1, AtMostOne
<1>3. sent' = sent \o held /\ sent' \in Seq(Packet)
  <2>1. sent' = Append(sent, held[1]) /\ sent \in Seq(Packet)
    OBVIOUS
  <2> HIDE DEF IInv, TypeOK, SendHeld
  <2>2. sent' = sent \o <<held[1]>> /\ sent' \in Seq(Packet)
    BY <1>2, <2>1, AppendIsConcat, AppendProperties
  <2> QED
    BY <1>2, <2>2
<1>4. TypeOK'
  BY <1>3, Bounds
<1>5. ASSUME ~SfuKind
      PROVE  /\ accepted = (sent' \o held') \o queue'
             /\ Len(sent') <= Len(accepted)
             /\ \A i \in 1 .. Len(sent') : accepted[i] = sent'[i]
  <2>1. accepted = sent' \o queue
    BY <1>3, <1>5 DEF Ordered
  <2>2. sent' \o <<>> = sent'
    BY <1>3, ConcatEmptySeq
  <2>3. Len(accepted) = Len(sent') + Len(queue)
        /\ \A i \in 1 .. Len(sent') + Len(queue) :
             accepted[i] = IF i <= Len(sent') THEN sent'[i] ELSE queue[i - Len(sent')]
    BY <1>3, <2>1, ConcatProperties
  <2>4. Len(sent') \in Nat /\ Len(queue) \in Nat
    BY <1>3
  <2>5. held' = <<>> /\ queue' = queue
    OBVIOUS
  <2> HIDE DEF SendHeld
  <2> QED
    BY <2>1, <2>2, <2>3, <2>4, <2>5
<1>6. Ordered'
  BY <1>5 DEF Ordered, SfuKind
<1>7. LoopAlive' /\ Terminating'
  BY DEF LoopAlive, Terminating, SfuKind
<1> QED
  BY <1>4, <1>6, <1>7

LEMMA LoopEndsIInv ==
  ASSUME IInv, LoopStops \/ ChannelNotOpen
  PROVE  IInv'
<1> USE DEF IInv, LoopStops, ChannelNotOpen, GivesUp, histVars, workVars, termVars
<1>1. TypeOK'
  <2>1. CASE LoopStops
    BY <2>1, Bounds, NoPackets DEF TypeOK
  <2>2. CASE ChannelNotOpen
    BY <2>2, Bounds, NoPackets DEF TypeOK
  <2> QED
    BY <2>1, <2>2
<1>2. Ordered'
  BY DEF Ordered, SfuKind, TypeOK
<1>3. LoopAlive'
  BY DEF LoopAlive, Terminating, SfuKind, TypeOK
<1>4. Terminating'
  BY DEF Terminating
<1> QED
  BY <1>1, <1>2, <1>3, <1>4

\* What leaves the packets alone keeps their order.
LEMMA OrderedKept ==
  ASSUME Ordered, UNCHANGED <<kind, sendVars, accepted, sent>>
  PROVE  Ordered'
  BY DEF Ordered, sendVars, SfuKind

LEMMA ChannelIInv ==
  ASSUME IInv, Opens \/ Closes \/ Transmits
  PROVE  IInv'
<1> USE DEF IInv, Opens, Closes, Transmits, sendVars, histVars, workVars, termVars
<1>1. Ordered'
  BY OrderedKept
<1>2. TypeOK'
  <2>1. <<>> \in Seq(Packet) /\ <<Report>> \in Seq(Packet)
    BY DEF Report, Packet
  <2>2. CASE Opens
    <3>1. handler' = <<>> \/ handler' = <<Report>>
      <4>1. handler' \in {<<Report>>, <<>>} \/ handler' \in {<<>>}
        BY <2>2
      <4> QED
        BY <4>1
    <3>2. handler' \in Seq(Packet)
      BY <2>1, <3>1
    <3>3. opened' \in BOOLEAN
      BY <2>2
    <3> QED
      BY <2>2, <3>2, <3>3, Bounds DEF TypeOK
  <2>3. CASE Closes
    BY <2>3, Bounds DEF TypeOK
  <2>4. CASE Transmits
    BY <2>4, Bounds DEF TypeOK
  <2> QED
    BY <2>2, <2>3, <2>4
<1>3. LoopAlive' /\ Terminating'
  BY DEF LoopAlive, Terminating, SfuKind, TypeOK
<1> QED
  BY <1>1, <1>2, <1>3

LEMMA ArrivesIInv ==
  ASSUME IInv, NEW responses, responses \subseteq Seq(Packet), Arrives(responses)
  PROVE  IInv'
<1> USE DEF IInv, Arrives, sendVars, histVars, termVars
<1>1. Ordered'
  BY OrderedKept
<1>2. PICK s \in responses : /\ streams + Messages(s) <= MaxStreams
                             /\ handler' = s
                             /\ streams' = streams + Messages(s)
  OBVIOUS
<1>3. Messages(s) \in Nat
  <2>1. s \in Seq(Packet) /\ Len(s) \in Nat /\ DOMAIN s = 1 .. Len(s)
    OBVIOUS
  <2>2. IsFiniteSet(1 .. Len(s))
    BY <2>1, FS_Interval
  <2>3. IsFiniteSet({i \in DOMAIN s : s[i].part \in {"header", "report"}})
    BY <2>1, <2>2, FS_Subset
  <2> QED
    BY <2>3, FS_CardinalityType DEF Messages
<1>4. TypeOK'
  <2>1. streams' \in 0 .. MaxStreams
    BY <1>2, <1>3, Bounds DEF TypeOK
  <2>2. handler' \in Seq(Packet)
    BY <1>2
  <2> QED
    BY <2>1, <2>2 DEF TypeOK
<1>5. LoopAlive' /\ Terminating'
  BY DEF LoopAlive, Terminating, SfuKind
<1> QED
  BY <1>1, <1>4, <1>5

LEMMA MessageIInv ==
  ASSUME IInv, Command \/ CustomMessage \/ Broadcast
  PROVE  IInv'
<1>0. streams \in Nat
  BY ChannelAssumption DEF IInv, TypeOK
<1>1. OnlyReply \subseteq Seq(Packet) /\ \A c : Responses(c) \subseteq Seq(Packet)
  BY <1>0, ResponsesType
<1>2. CASE Command
  BY <1>1, <1>2, ArrivesIInv DEF Command
<1>3. CASE CustomMessage
  <2>1. Arrives(OnlyReply) \/ Arrives({<<>>})
    BY <1>3 DEF CustomMessage
  <2>2. {<<>>} \subseteq Seq(Packet)
    OBVIOUS
  <2> QED
    BY <1>1, <2>1, <2>2, ArrivesIInv
<1>4. CASE Broadcast
  <2> USE <1>4 DEF IInv, Broadcast, sendVars, histVars, termVars
  <2>1. Ordered'
    BY OrderedKept
  <2>2. TypeOK'
    BY <1>1, Bounds DEF TypeOK
  <2>3. LoopAlive' /\ Terminating'
    BY DEF LoopAlive, Terminating, SfuKind
  <2> QED
    BY <2>1, <2>2, <2>3
<1> QED
  BY <1>2, <1>3, <1>4

LEMMA TerminateIInv ==
  ASSUME IInv, PeerTerminates \/ Terminate
  PROVE  IInv'
<1> USE DEF IInv, PeerTerminates, StateAfterClose, Terminate, StopLoop, JoinLoop,
        OnClosed, sendVars, histVars, workVars
<1>1. Ordered'
  BY OrderedKept
<1>2. TypeOK'
  <2>1. CASE PeerTerminates
    BY <2>1, Bounds DEF TypeOK
  <2>2. CASE StopLoop
    BY <2>2, Bounds DEF TypeOK
  <2>3. CASE JoinLoop
    <3>1. registered' = FALSE /\ dc' = "closed" /\ term' = "done" /\ buffered' = 0
      BY <2>3
    <3>2. UNCHANGED <<kind, opened, sendVars, histVars, workVars, running>>
      BY <2>3
    <3>3. TypeOK
      OBVIOUS
    <3> HIDE DEF IInv, PeerTerminates, Terminate, StopLoop, JoinLoop
    <3>4. registered' \in BOOLEAN
      BY <3>1
    <3>5. buffered' \in 0 .. SendRoom
      BY <3>1, Bounds
    <3> QED
      BY <3>1, <3>2, <3>3, <3>4, <3>5 DEF TypeOK
  <2> QED
    BY <2>1, <2>2, <2>3
<1>3. LoopAlive' /\ Terminating'
  BY DEF LoopAlive, Terminating, SfuKind
<1> QED
  BY <1>1, <1>2, <1>3

LEMMA NextIInv == IInv /\ [Next]_vars => IInv'
<1> SUFFICES ASSUME IInv, [Next]_vars PROVE IInv'
  OBVIOUS
<1>1. CASE UNCHANGED vars
  BY <1>1 DEF vars, sendVars, histVars, workVars, termVars, IInv, TypeOK, Ordered,
     LoopAlive, Terminating, SfuKind
<1>2. CASE Next
  BY <1>2, SendsIInv, PopIInv, SendHeldIInv, LoopEndsIInv, ChannelIInv, MessageIInv,
     TerminateIInv DEF Next, SendLoop
<1> QED
  BY <1>1, <1>2

THEOREM Invariant == Spec => []IInv
  BY InitIInv, NextIInv, PTL DEF Spec
-----------------------------------------------------------------------------
\* What is given to Send goes out once and in order, is not held for ever, and finds
\* the loop of an open channel running (SendInv), for any sizes of chunks, messages
\* and buffers: SendLoop, Terminate and the state of the channel never lose a packet
\* between them.
THEOREM SendsInOrder == Spec => []SendInv
<1>1. IInv => SendInv
  <2> SUFFICES ASSUME IInv PROVE SendInv
    OBVIOUS
  <2>1. sent \in Seq(Packet) /\ accepted \in Seq(Packet)
        /\ Len(sent) \in Nat /\ Len(accepted) \in Nat
    BY DEF IInv, TypeOK
  <2>2. ASSUME ~SfuKind PROVE IsPrefix(sent, accepted)
    <3> DEFINE a == SubSeq(sent, 1, Len(sent))
               b == SubSeq(accepted, 1, Len(sent))
    <3>1. Len(sent) <= Len(accepted) /\ \A i \in 1 .. Len(sent) : accepted[i] = sent[i]
      BY <2>2 DEF IInv, Ordered
    <3>2. \A i \in 1 .. Len(sent) : sent[i] \in Packet /\ accepted[i] \in Packet
      BY <2>1, <3>1, ElementOfSeq
    <3>3. /\ a \in Seq(Packet) /\ Len(a) = Len(sent)
          /\ \A i \in 1 .. Len(sent) : a[i] = sent[i]
      BY <2>1, SubSeqFull
    <3>4. /\ b \in Seq(Packet) /\ Len(b) = Len(sent)
          /\ \A i \in 1 .. Len(sent) : b[i] = accepted[i]
      <4>1. 1 \in Int /\ Len(sent) \in Int
        BY <2>1
      <4>2. /\ b \in Seq(Packet)
            /\ Len(b) = IF 1 <= Len(sent) THEN Len(sent) - 1 + 1 ELSE 0
            /\ \A i \in 1 .. Len(sent) - 1 + 1 : b[i] = accepted[1 + i - 1]
        BY <3>2, <4>1, SubSeqProperties
      <4> HIDE DEF b
      <4>3. Len(b) = Len(sent)
        BY <2>1, <4>2
      <4>4. \A i \in 1 .. Len(sent) : 1 + i - 1 = i /\ i \in 1 .. Len(sent) - 1 + 1
        BY <2>1
      <4> QED
        BY <4>2, <4>3, <4>4
    <3> HIDE DEF a, b
    <3>5. a = b
      BY <3>1, <3>3, <3>4, SeqEqual
    <3> QED
      BY <3>1, <3>5 DEF IsPrefix, a, b
  <2>3. SentInOrder
    BY <2>2 DEF SentInOrder, IInv, Ordered
  <2>4. NeverMute
    BY DEF NeverMute, IInv, LoopAlive
  <2> QED
    BY <2>3, <2>4 DEF SendInv, IInv
<1> QED
  BY <1>1, Invariant, PTL

\* When Terminate returns nothing uses the channel any more (TerminateIsFinal).
THEOREM TerminationFinal == Spec => []TerminateIsFinal
<1>1. IInv => TerminateIsFinal
  BY DEF IInv, Terminating, TerminateIsFinal
<1> QED
  BY <1>1, Invariant, PTL
-----------------------------------------------------------------------------
(***************************************************************************)
(* Messages.  The packets of a message keep their places among themselves   *)
(* when other messages' packets come in between (NewMessages, Interleaved), *)
(* a stream is in place by itself (StreamInOrder), and what the handler and *)
(* the IPC thread still have to send continues what was given to Send.      *)
(***************************************************************************)
\* A packet that keeps its place among the packets of its message is in place: u[i]
\* has become t[m[i]], and so have those before it.
LEMMA KeepsPlace ==
  ASSUME NEW u, NEW t, NEW i, NEW m,
         t[m[i]] = u[i],
         Earlier(t, m[i]) = {m[j] : j \in Earlier(u, i)},
         \A j \in Earlier(u, i) : t[m[j]] = u[j],
         \A j, k \in Earlier(u, i) : m[k] <= m[j] => k <= j,
         InPlace(u, i)
  PROVE  InPlace(t, m[i])
<1>1. t[m[i]].part = "header" <=> Earlier(t, m[i]) = {}
  BY DEF InPlace
<1>2. ASSUME NEW jt \in Earlier(t, m[i]), \A kt \in Earlier(t, m[i]) : kt <= jt
      PROVE  /\ t[jt].part # "trailer"
             /\ t[m[i]].part = "chunk" => t[m[i]].at = Arrived(t[jt])
             /\ t[m[i]].part = "trailer" =>
                  \A h \in Earlier(t, m[i]) :
                    t[h].part = "header" => t[h].size <= Arrived(t[jt])
  <2>1. PICK j \in Earlier(u, i) : jt = m[j]
    OBVIOUS
  <2>2. \A k \in Earlier(u, i) : m[k] <= m[j]
    BY <1>2, <2>1
  <2>3. \A k \in Earlier(u, i) : k <= j
    BY <2>2
  <2>4. /\ u[j].part # "trailer"
        /\ u[i].part = "chunk" => u[i].at = Arrived(u[j])
        /\ u[i].part = "trailer" =>
             \A h \in Earlier(u, i) : u[h].part = "header" => u[h].size <= Arrived(u[j])
    BY <2>3 DEF InPlace
  <2>5. t[jt] = u[j]
    BY <2>1
  <2> QED
    BY <2>4, <2>5
<1> QED
  BY <1>1, <1>2 DEF InPlace

\* What has come so far of messages in order is in order.
LEMMA PrefixInOrder ==
  ASSUME NEW a \in Seq(Packet), NEW s \in Seq(Packet), Len(a) <= Len(s),
         \A k \in 1 .. Len(a) : a[k] = s[k], InOrder(s)
  PROVE  InOrder(a)
<1> SUFFICES ASSUME NEW i \in 1 .. Len(a), a[i].part # "report"
             PROVE  InPlace(a, i)
  BY DEF InOrder
<1> DEFINE m == [k \in Nat |-> k]
<1>0. i \in Nat /\ Len(a) \in Nat /\ Len(s) \in Nat /\ i \in 1 .. Len(s)
  OBVIOUS
<1>1. m[i] = i /\ a[i] = s[i] /\ \A k \in 1 .. i - 1 : m[k] = k /\ a[k] = s[k]
  BY <1>0
<1>2. InPlace(s, i)
  BY <1>0, <1>1 DEF InOrder
<1> HIDE DEF m
<1>3. Earlier(s, i) \subseteq 1 .. i - 1 /\ Earlier(a, i) = Earlier(s, i)
  BY <1>1 DEF Earlier
<1>4. /\ a[m[i]] = s[i]
      /\ Earlier(a, m[i]) = {m[k] : k \in Earlier(s, i)}
      /\ \A j \in Earlier(s, i) : a[m[j]] = s[j]
      /\ \A j, k \in Earlier(s, i) : m[k] <= m[j] => k <= j
  BY <1>1, <1>3
<1>5. InPlace(a, m[i])
  BY <1>2, <1>4, KeepsPlace
<1> QED
  BY <1>1, <1>5

\* New messages may follow.
LEMMA NewMessages ==
  ASSUME NEW a \in Seq(Packet), NEW s \in Seq(Packet), InOrder(a), InOrder(s),
         \A i \in 1 .. Len(s) : \/ s[i].part = "report"
                                \/ \A k \in 1 .. Len(a) : a[k].stream # s[i].stream
  PROVE  InOrder(a \o s)
<1> DEFINE t == a \o s
           n == Len(a)
<1>1. /\ n \in Nat /\ Len(s) \in Nat /\ t \in Seq(Packet) /\ Len(t) = n + Len(s)
      /\ \A i \in 1 .. n : t[i] = a[i]
      /\ \A i \in 1 .. Len(s) : t[i + n] = s[i]
  <2>1. /\ t \in Seq(Packet) /\ Len(t) = n + Len(s)
        /\ \A i \in 1 .. n + Len(s) : t[i] = IF i <= n THEN a[i] ELSE s[i - n]
    BY ConcatProperties
  <2>2. n \in Nat /\ Len(s) \in Nat
    OBVIOUS
  <2> HIDE DEF t, n
  <2>3. ASSUME NEW i \in 1 .. Len(s) PROVE t[i + n] = s[i]
    <3>1. i + n \in 1 .. n + Len(s) /\ ~(i + n <= n) /\ (i + n) - n = i
      BY <2>2
    <3> QED
      BY <2>1, <3>1
  <2> QED
    BY <2>1, <2>2, <2>3
<1> HIDE DEF t
<1> SUFFICES ASSUME NEW i \in 1 .. Len(t), t[i].part # "report" PROVE InPlace(t, i)
  BY DEF InOrder, t
<1>2. CASE i <= n
  <2> DEFINE m == [k \in Nat |-> k]
  <2>0. i \in 1 .. n
    BY <1>1, <1>2
  <2>1. m[i] = i /\ t[i] = a[i] /\ \A k \in 1 .. i - 1 : m[k] = k /\ t[k] = a[k]
    BY <1>1, <2>0
  <2>2. InPlace(a, i)
    BY <2>0, <2>1 DEF InOrder
  <2> HIDE DEF m
  <2>3. Earlier(a, i) \subseteq 1 .. i - 1 /\ Earlier(t, i) = Earlier(a, i)
    BY <2>1 DEF Earlier
  <2>4. /\ t[m[i]] = a[i]
        /\ Earlier(t, m[i]) = {m[k] : k \in Earlier(a, i)}
        /\ \A j \in Earlier(a, i) : t[m[j]] = a[j]
        /\ \A j, k \in Earlier(a, i) : m[k] <= m[j] => k <= j
    BY <2>1, <2>3
  <2>5. InPlace(t, m[i])
    BY <2>2, <2>4, KeepsPlace
  <2> QED
    BY <2>1, <2>5
<1>3. CASE n < i
  <2> DEFINE m == [k \in Nat |-> k + n]
             j == i - n
  <2>0. j \in 1 .. Len(s) /\ i \in Nat
    BY <1>1, <1>3
  <2>1. ASSUME NEW k \in 1 .. Len(s) PROVE m[k] = k + n /\ t[m[k]] = s[k]
    <3> HIDE DEF n
    <3>1. k \in Nat /\ m[k] = k + n
      BY <1>1
    <3>2. t[k + n] = s[k]
      BY <1>1
    <3> QED
      BY <3>1, <3>2
  <2>2. m[j] = i /\ t[i] = s[j]
    <3> HIDE DEF n, m
    <3>1. j + n = i
      BY <1>1, <2>0
    <3> HIDE DEF j
    <3>2. m[j] = j + n /\ t[m[j]] = s[j]
      BY <2>0, <2>1
    <3> QED
      BY <3>1, <3>2
  <2>3. InPlace(s, j)
    BY <2>0, <2>2 DEF InOrder
  <2> HIDE DEF m, j
  <2>4. Earlier(s, j) \subseteq 1 .. j - 1 /\ j - 1 <= Len(s) /\ Earlier(t, i) \subseteq 1 .. i - 1
        /\ j \in Nat /\ i = j + n
    BY <2>0, <1>1 DEF Earlier, j
  <2>5. \A k \in Earlier(s, j) : k \in 1 .. Len(s) /\ m[k] = k + n /\ t[m[k]] = s[k]
    BY <2>0, <2>1, <2>4, <1>1
  <2>6. Earlier(t, i) = {m[k] : k \in Earlier(s, j)}
    <3>1. ASSUME NEW k \in Earlier(s, j) PROVE m[k] \in Earlier(t, i)
      <4>1. k \in 1 .. j - 1 /\ s[k].stream = s[j].stream
        BY DEF Earlier
      <4>2. m[k] \in 1 .. i - 1
        <5>1. m[k] = k + n /\ n \in Nat
          BY <1>1, <2>5
        <5>2. j \in Nat /\ i = j + n
          BY <2>4
        <5>3. k + n \in 1 .. (j + n) - 1
          BY <4>1, <5>1, <5>2
        <5> QED
          BY <5>1, <5>2, <5>3
      <4>3. t[m[k]].stream = t[i].stream
        BY <2>2, <2>5, <4>1
      <4> QED
        BY <4>2, <4>3 DEF Earlier
    <3>2. ASSUME NEW x \in Earlier(t, i) PROVE \E k \in Earlier(s, j) : x = m[k]
      <4>1. x \in 1 .. i - 1 /\ t[x].stream = s[j].stream
        BY <2>2 DEF Earlier
      <4>2. ~(x <= n)
        <5> SUFFICES ASSUME x \in 1 .. n PROVE FALSE
          BY <1>1, <4>1
        <5>1. a[x].stream # s[j].stream
          BY <2>0, <2>2
        <5> QED
          BY <1>1, <4>1, <5>1
      <4> DEFINE k == x - n
      <4>3. k \in 1 .. j - 1 /\ k \in 1 .. Len(s) /\ x = k + n
        BY <1>1, <2>0, <2>4, <4>1, <4>2
      <4>4. m[k] = x /\ s[k] = t[x]
        BY <2>1, <4>3
      <4>5. k \in Earlier(s, j)
        BY <4>1, <4>3, <4>4 DEF Earlier
      <4> QED
        BY <4>4, <4>5
    <3> QED
      BY <3>1, <3>2
  <2>7. \A k, l \in Earlier(s, j) : m[k] <= m[l] => k <= l
    BY <1>1, <2>5
  <2>8. InPlace(t, m[j])
    BY <2>2, <2>3, <2>5, <2>6, <2>7, KeepsPlace
  <2> QED
    BY <2>2, <2>8
<1> QED
  BY <1>1, <1>2, <1>3

\* A packet of another message may come between.
LEMMA Interleaved ==
  ASSUME NEW a \in Seq(Packet), NEW g \in Seq(Packet), NEW p \in Packet,
         InOrder(a \o <<p>>), InOrder(a \o g),
         \A i \in 1 .. Len(g) : g[i].stream # p.stream
  PROVE  InOrder((a \o <<p>>) \o g)
<1> DEFINE b == a \o <<p>>
           t == b \o g
           u == a \o g
           n == Len(a)
<1>1. /\ n \in Nat /\ Len(g) \in Nat
      /\ b \in Seq(Packet) /\ Len(b) = n + 1 /\ b[n + 1] = p
      /\ \A i \in 1 .. n : b[i] = a[i]
  <2>1. <<p>> \in Seq(Packet) /\ Len(<<p>>) = 1 /\ <<p>>[1] = p
    OBVIOUS
  <2>2. /\ b \in Seq(Packet) /\ Len(b) = n + 1
        /\ \A i \in 1 .. n + 1 : b[i] = IF i <= n THEN a[i] ELSE <<p>>[i - n]
    BY <2>1, ConcatProperties
  <2>3. n \in Nat /\ Len(g) \in Nat
    OBVIOUS
  <2> HIDE DEF b, n
  <2>4. b[n + 1] = p
    <3>1. n + 1 \in 1 .. n + 1 /\ ~(n + 1 <= n) /\ (n + 1) - n = 1
      BY <2>3
    <3> QED
      BY <2>1, <2>2, <3>1
  <2> QED
    BY <2>2, <2>3, <2>4
<1>2. /\ u \in Seq(Packet) /\ Len(u) = n + Len(g)
      /\ \A i \in 1 .. n + Len(g) : u[i] = IF i <= n THEN a[i] ELSE g[i - n]
  BY ConcatProperties
<1>3. /\ t \in Seq(Packet) /\ Len(t) = (n + 1) + Len(g)
      /\ \A i \in 1 .. (n + 1) + Len(g) : t[i] = IF i <= n + 1 THEN b[i] ELSE g[i - (n + 1)]
  <2> HIDE DEF b, n
  <2>1. /\ t \in Seq(Packet) /\ Len(t) = Len(b) + Len(g)
        /\ \A i \in 1 .. Len(b) + Len(g) : t[i] = IF i <= Len(b) THEN b[i] ELSE g[i - Len(b)]
    BY <1>1, ConcatProperties
  <2> HIDE DEF t
  <2> QED
    BY <1>1, <2>1
<1>4. InOrder(b) /\ InOrder(u)
  OBVIOUS
<1> DEFINE m == [k \in Nat |-> IF k <= n THEN k ELSE k + 1]
<1> HIDE DEF b, t, u, n
<1>5. ASSUME NEW k \in 1 .. n + Len(g)
      PROVE  /\ k \in Nat /\ m[k] = IF k <= n THEN k ELSE k + 1
             /\ m[k] \in 1 .. (n + 1) + Len(g) /\ m[k] # n + 1 /\ t[m[k]] = u[k]
  <2>1. k \in Nat /\ m[k] = IF k <= n THEN k ELSE k + 1
    BY <1>1
  <2> HIDE DEF m
  <2>2. CASE k <= n
    <3>1. m[k] = k /\ k \in 1 .. n /\ k \in 1 .. (n + 1) + Len(g) /\ k <= n + 1 /\ k # n + 1
      BY <1>1, <2>1, <2>2
    <3>2. t[k] = b[k]
      BY <1>3, <3>1
    <3>3. b[k] = a[k]
      BY <1>1, <3>1
    <3>4. u[k] = a[k]
      BY <1>2, <2>2
    <3> QED
      BY <2>1, <3>1, <3>2, <3>3, <3>4
  <2>3. CASE ~(k <= n)
    <3>0. n \in Nat /\ Len(g) \in Nat
      BY <1>1
    <3>1. /\ m[k] = k + 1 /\ k + 1 \in 1 .. (n + 1) + Len(g) /\ ~(k + 1 <= n + 1)
          /\ (k + 1) - (n + 1) = k - n
      BY <2>1, <2>3, <3>0
    <3>2. t[k + 1] = g[(k + 1) - (n + 1)]
      BY <1>3, <3>1
    <3>3. u[k] = g[k - n]
      BY <1>2, <2>3
    <3> QED
      BY <1>1, <2>1, <3>1, <3>2, <3>3
  <2> QED
    BY <2>2, <2>3
<1> HIDE DEF m
<1>6. \A k \in 1 .. Len(g) : u[n + k].stream # p.stream
  <2> SUFFICES ASSUME NEW k \in 1 .. Len(g) PROVE u[n + k].stream # p.stream
    OBVIOUS
  <2>1. n + k \in 1 .. n + Len(g) /\ ~(n + k <= n) /\ (n + k) - n = k
    BY <1>1
  <2>2. u[n + k] = g[k]
    BY <1>2, <2>1
  <2> QED
    BY <2>2
<1> SUFFICES ASSUME NEW i \in 1 .. Len(t), t[i].part # "report" PROVE InPlace(t, i)
  BY DEF InOrder, t, b
<1>7. CASE i <= n + 1
  <2> DEFINE id == [k \in Nat |-> k]
  <2>0. i \in 1 .. Len(b) /\ i \in Nat
    BY <1>1, <1>7, <1>3
  <2>1. id[i] = i /\ t[i] = b[i] /\ \A k \in 1 .. i - 1 : id[k] = k /\ t[k] = b[k]
    BY <1>1, <1>3, <2>0
  <2>2. InPlace(b, i)
    BY <1>4, <2>0, <2>1 DEF InOrder
  <2> HIDE DEF id
  <2>3. Earlier(b, i) \subseteq 1 .. i - 1 /\ Earlier(t, i) = Earlier(b, i)
    BY <2>1 DEF Earlier
  <2>4. /\ t[id[i]] = b[i]
        /\ Earlier(t, id[i]) = {id[k] : k \in Earlier(b, i)}
        /\ \A j \in Earlier(b, i) : t[id[j]] = b[j]
        /\ \A j, k \in Earlier(b, i) : id[k] <= id[j] => k <= j
    <3>1. \A k \in Earlier(b, i) : id[k] = k /\ t[k] = b[k]
      BY <2>1, <2>3
    <3>2. {id[k] : k \in Earlier(b, i)} = Earlier(b, i)
      BY <3>1
    <3> QED
      BY <2>1, <2>3, <3>1, <3>2
  <2>5. InPlace(t, id[i])
    BY <2>2, <2>4, KeepsPlace
  <2> QED
    BY <2>1, <2>5
<1>8. CASE n + 1 < i
  <2> DEFINE j == i - 1
  <2>0. /\ j \in 1 .. n + Len(g) /\ i = j + 1 /\ n < j
        /\ j - n \in 1 .. Len(g) /\ j = n + (j - n)
    BY <1>1, <1>3, <1>8
  <2> HIDE DEF j
  <2>1. m[j] = i /\ t[i] = u[j] /\ j \in Nat
    BY <1>1, <1>5, <2>0
  <2>2. InPlace(u, j)
    BY <1>2, <1>4, <2>0, <2>1 DEF InOrder
  <2>3. u[j].stream # p.stream
    BY <1>6, <2>0
  <2>4. \A k \in Earlier(u, j) : k \in 1 .. n + Len(g) /\ k \in 1 .. j - 1
                                 /\ u[k].stream = u[j].stream
    BY <1>1, <2>0 DEF Earlier
  <2>5. Earlier(t, i) = {m[k] : k \in Earlier(u, j)}
    <3>1. ASSUME NEW k \in Earlier(u, j) PROVE m[k] \in Earlier(t, i)
      <4>1. m[k] \in 1 .. i - 1
        BY <1>1, <1>5, <2>0, <2>4
      <4>2. t[m[k]].stream = t[i].stream
        BY <1>5, <2>1, <2>4
      <4> QED
        BY <4>1, <4>2 DEF Earlier
    <3>2. ASSUME NEW x \in Earlier(t, i) PROVE \E k \in Earlier(u, j) : x = m[k]
      <4>1. x \in 1 .. i - 1 /\ t[x].stream = u[j].stream
        BY <2>1 DEF Earlier
      <4>2. x # n + 1
        <5> SUFFICES ASSUME x = n + 1 PROVE FALSE
          OBVIOUS
        <5>1. t[n + 1] = p
          BY <1>1, <1>3
        <5> QED
          BY <5>1, <4>1, <2>3
      <4> DEFINE k == IF x <= n THEN x ELSE x - 1
      <4>3. k \in 1 .. n + Len(g) /\ k \in 1 .. j - 1 /\ x = IF k <= n THEN k ELSE k + 1
        BY <1>1, <2>0, <4>1, <4>2
      <4> HIDE DEF k
      <4>4. m[k] = x /\ u[k] = t[x]
        BY <1>5, <4>3
      <4>5. k \in Earlier(u, j)
        BY <4>1, <4>3, <4>4 DEF Earlier
      <4> QED
        BY <4>4, <4>5
    <3> QED
      BY <3>1, <3>2
  <2>6. \A k, l \in Earlier(u, j) : m[k] <= m[l] => k <= l
    <3> SUFFICES ASSUME NEW k \in Earlier(u, j), NEW l \in Earlier(u, j), m[k] <= m[l]
                 PROVE  k <= l
      OBVIOUS
    <3>1. /\ k \in Nat /\ l \in Nat /\ m[k] = IF k <= n THEN k ELSE k + 1
          /\ m[l] = IF l <= n THEN l ELSE l + 1
      BY <1>5, <2>4
    <3> QED
      BY <1>1, <3>1
  <2>7. /\ t[m[j]] = u[j] /\ Earlier(t, m[j]) = {m[k] : k \in Earlier(u, j)}
        /\ \A k \in Earlier(u, j) : t[m[k]] = u[k]
    BY <1>5, <2>1, <2>4, <2>5
  <2>8. InPlace(t, m[j])
    BY <2>2, <2>6, <2>7, KeepsPlace
  <2> QED
    BY <2>1, <2>8
<1> QED
  BY <1>1, <1>3, <1>7, <1>8

\* The packets of a stream, one after the other.
LEMMA StreamPackets ==
  ASSUME NEW id \in Nat, NEW total \in Nat, NEW size \in Nat
  PROVE  LET s == Stream(id, total, size)
             q == NumChunks(size)
         IN /\ q \in Nat /\ s \in Seq(Packet) /\ Len(s) = q + 2
            /\ s[1] = Header(id, total)
            /\ \A k \in 1 .. q :
                 s[k + 1] = Chunk(id, (k - 1) * ChunkSize,
                                  Least(ChunkSize, size - (k - 1) * ChunkSize))
            /\ s[q + 2] = Trailer(id)
<1> DEFINE chunk(k) == Chunk(id, (k - 1) * ChunkSize,
                             Least(ChunkSize, size - (k - 1) * ChunkSize))
           q == NumChunks(size)
           chunks == [k \in 1 .. q |-> chunk(k)]
           first == <<Header(id, total)>>
           last == <<Trailer(id)>>
           most == first \o chunks
           s == most \o last
<1>1. s = Stream(id, total, size) /\ s \in Seq(Packet)
  BY StreamType DEF Stream
<1>2. q \in Nat
  <2>1. ChunkSize \in Nat /\ ChunkSize >= 1
    BY ChannelAssumption
  <2> QED
    BY <2>1 DEF NumChunks
<1> DEFINE T == {chunk(k) : k \in 1 .. q} \cup {Header(id, total), Trailer(id)}
<1> HIDE DEF chunk, q
<1>3. chunks \in Seq(T) /\ Len(chunks) = q /\ \A k \in 1 .. q : chunks[k] = chunk(k)
  <2>1. chunks \in [1 .. q -> T]
    OBVIOUS
  <2> QED
    BY <1>2, <2>1, SeqDef
<1>4. /\ first \in Seq(T) /\ Len(first) = 1 /\ first[1] = Header(id, total)
      /\ last \in Seq(T) /\ Len(last) = 1 /\ last[1] = Trailer(id)
  OBVIOUS
<1> HIDE DEF chunks, first, last, T
<1>5. /\ most \in Seq(T) /\ Len(most) = 1 + q
      /\ \A i \in 1 .. 1 + q : most[i] = IF i <= 1 THEN first[i] ELSE chunks[i - 1]
  <2>1. /\ most \in Seq(T) /\ Len(most) = Len(first) + Len(chunks)
        /\ \A i \in 1 .. Len(first) + Len(chunks) :
             most[i] = IF i <= Len(first) THEN first[i] ELSE chunks[i - Len(first)]
    BY <1>3, <1>4, ConcatProperties
  <2> QED
    BY <1>3, <1>4, <2>1
<1> HIDE DEF most
<1>6. /\ Len(s) = (1 + q) + 1
      /\ \A i \in 1 .. (1 + q) + 1 : s[i] = IF i <= 1 + q THEN most[i] ELSE last[i - (1 + q)]
  <2>1. /\ Len(s) = Len(most) + Len(last)
        /\ \A i \in 1 .. Len(most) + Len(last) :
             s[i] = IF i <= Len(most) THEN most[i] ELSE last[i - Len(most)]
    BY <1>4, <1>5, ConcatProperties
  <2> QED
    BY <1>4, <1>5, <2>1
<1> HIDE DEF s
<1>7. s[1] = Header(id, total)
  <2>1. 1 \in 1 .. (1 + q) + 1 /\ 1 <= 1 + q /\ 1 \in 1 .. 1 + q
    BY <1>2
  <2> QED
    BY <1>4, <1>5, <1>6, <2>1
<1>8. ASSUME NEW k \in 1 .. q PROVE s[k + 1] = chunk(k)
  <2>1. /\ k + 1 \in 1 .. (1 + q) + 1 /\ k + 1 \in 1 .. 1 + q /\ k + 1 <= 1 + q
        /\ ~(k + 1 <= 1) /\ (k + 1) - 1 = k
    BY <1>2
  <2>2. s[k + 1] = most[k + 1]
    BY <1>6, <2>1
  <2>3. most[k + 1] = chunks[(k + 1) - 1]
    BY <1>5, <2>1
  <2> QED
    BY <1>3, <2>1, <2>2, <2>3
<1>9. s[q + 2] = Trailer(id)
  <2>1. /\ q + 2 \in 1 .. (1 + q) + 1 /\ ~(q + 2 <= 1 + q) /\ (q + 2) - (1 + q) = 1
    BY <1>2
  <2>2. s[q + 2] = last[(q + 2) - (1 + q)]
    BY <1>6, <2>1
  <2> QED
    BY <1>4, <2>1, <2>2
<1>10. Len(s) = q + 2
  BY <1>2, <1>6
<1> QED
  BY <1>1, <1>2, <1>7, <1>8, <1>9, <1>10 DEF q, chunk

\* The chunks cover the data: each begins where the one before ends, and the last one
\* ends where the data does.
LEMMA ChunksCover ==
  ASSUME NEW size \in Nat
  PROVE  /\ NumChunks(size) = 0 => size = 0
         /\ \A k \in 1 .. NumChunks(size) :
              LET end == (k - 1) * ChunkSize + Least(ChunkSize, size - (k - 1) * ChunkSize)
              IN /\ k < NumChunks(size) => end = k * ChunkSize
                 /\ k = NumChunks(size) => end >= size
<1> DEFINE q == NumChunks(size)
<1>1. ChunkSize \in Nat /\ ChunkSize >= 1
  BY ChannelAssumption
<1>2. q \in Nat /\ size + ChunkSize - 1 < (q + 1) * ChunkSize
  BY <1>1 DEF NumChunks
<1>3. (q + 1) * ChunkSize = q * ChunkSize + ChunkSize /\ q * ChunkSize \in Nat
  BY <1>1, <1>2
<1>4. size <= q * ChunkSize
  BY <1>1, <1>2, <1>3
<1>5. q = 0 => size = 0
  BY <1>1, <1>4
<1>6. ASSUME NEW k \in 1 .. q
      PROVE  LET at == (k - 1) * ChunkSize
                 end == at + Least(ChunkSize, size - at)
             IN /\ k < q => end = k * ChunkSize
                /\ k = q => end >= size
  <2> DEFINE at == (k - 1) * ChunkSize
  <2>1. at \in Nat /\ at < size
    BY ChunkInside
  <2>2. k * ChunkSize = at + ChunkSize
    BY <1>1, <1>2
  <2>3. k < q => k * ChunkSize < size
    <3> SUFFICES ASSUME k < q PROVE k * ChunkSize < size
      OBVIOUS
    <3>1. k + 1 \in 1 .. NumChunks(size) /\ (k + 1) - 1 = k
      BY <1>2
    <3>2. ((k + 1) - 1) * ChunkSize < size
      BY <3>1, ChunkInside
    <3> QED
      BY <3>1, <3>2
  <2> HIDE DEF at, q
  <2>4. k < q => at + Least(ChunkSize, size - at) = k * ChunkSize
    BY <1>1, <2>1, <2>2, <2>3 DEF Least
  <2>5. k = q => at + Least(ChunkSize, size - at) >= size
    BY <1>1, <1>4, <2>1, <2>2 DEF Least
  <2> QED
    BY <2>4, <2>5 DEF at
<1> QED
  BY <1>5, <1>6

\* The packets of one message, from the header on.
OneMessage(s, id) ==
  /\ s \in Seq(Packet) /\ Len(s) > 0 /\ InOrder(s)
  /\ \A i \in 1 .. Len(s) : /\ s[i].stream = id /\ s[i].part # "report"
                            /\ s[i].part = "header" <=> i = 1

LEMMA StreamInOrder ==
  ASSUME NEW id \in Nat, NEW total \in Nat, NEW size \in Nat, total <= size
  PROVE  OneMessage(Stream(id, total, size), id)
<1> DEFINE s == Stream(id, total, size)
           q == NumChunks(size)
           at(k) == (k - 1) * ChunkSize
           len(k) == Least(ChunkSize, size - at(k))
<1>1. /\ q \in Nat /\ s \in Seq(Packet) /\ Len(s) = q + 2
      /\ s[1] = Header(id, total)
      /\ \A k \in 1 .. q : s[k + 1] = Chunk(id, at(k), len(k))
      /\ s[q + 2] = Trailer(id)
  BY StreamPackets
<1>2. /\ q = 0 => size = 0
      /\ \A k \in 1 .. q : /\ k < q => at(k) + len(k) = k * ChunkSize
                           /\ k = q => at(k) + len(k) >= size
  BY ChunksCover
<1>3. ChunkSize \in Nat /\ at(1) = 0 /\ \A k \in Nat : at(k + 1) = k * ChunkSize
  <2>1. ChunkSize \in Nat
    BY ChannelAssumption
  <2>2. at(1) = 0
    BY <2>1
  <2>3. \A k \in Nat : (k + 1) - 1 = k
    OBVIOUS
  <2>4. \A k \in Nat : at(k + 1) = k * ChunkSize
    BY <2>3
  <2> QED
    BY <2>1, <2>2, <2>4
<1> HIDE DEF s, q, at, len
<1>4. ASSUME NEW i \in 1 .. Len(s)
      PROVE  i = 1 \/ i = q + 2 \/ (i # 1 /\ i - 1 \in 1 .. q /\ i = (i - 1) + 1)
  BY <1>1
<1>5. ASSUME NEW i \in 1 .. Len(s)
      PROVE  /\ s[i].stream = id /\ s[i].part # "report"
             /\ s[i].part = "header" <=> i = 1
             /\ s[i].part = "trailer" <=> i = q + 2
             /\ i = 1 => s[i].size = total
  <2>1. CASE i = 1
    BY <1>1, <2>1 DEF Header
  <2>2. CASE i = q + 2
    BY <1>1, <2>2 DEF Trailer
  <2>3. CASE i # 1 /\ i - 1 \in 1 .. q /\ i = (i - 1) + 1
    <3>1. s[i] = Chunk(id, at(i - 1), len(i - 1))
      BY <1>1, <2>3
    <3>2. i # q + 2
      BY <1>1, <2>3
    <3> QED
      BY <2>3, <3>1, <3>2 DEF Chunk
  <2> QED
    BY <1>4, <2>1, <2>2, <2>3
<1>6. ASSUME NEW i \in 2 .. Len(s)
      PROVE  /\ s[i].part = "chunk" => s[i].at = Arrived(s[i - 1])
             /\ s[i].part = "trailer" => total <= Arrived(s[i - 1])
  <2>0. i \in 1 .. Len(s) /\ i - 1 \in 1 .. Len(s) /\ i # 1 /\ i \in Nat
    BY <1>1
  <2>1. i - 1 = 1 => Arrived(s[i - 1]) = 0
    BY <1>1 DEF Arrived, Header
  <2>2. ASSUME NEW k \in 1 .. q, i - 1 = k + 1 PROVE Arrived(s[i - 1]) = at(k) + len(k)
    <3>1. s[i - 1] = Chunk(id, at(k), len(k))
      <4>1. s[k + 1] = Chunk(id, at(k), len(k))
        BY <1>1
      <4> QED
        BY <2>2, <4>1
    <3> QED
      BY <3>1 DEF Arrived, Chunk
  <2>3. ASSUME s[i].part = "chunk" PROVE s[i].at = Arrived(s[i - 1])
    <3>1. i - 1 \in 1 .. q /\ i = (i - 1) + 1
      BY <1>4, <1>5, <2>0, <2>3
    <3>2. s[i].at = at(i - 1)
      <4>1. s[i] = Chunk(id, at(i - 1), len(i - 1))
        BY <1>1, <3>1
      <4> QED
        BY <4>1 DEF Chunk
    <3>3. CASE i - 1 = 1
      BY <1>3, <2>1, <3>2, <3>3
    <3>4. CASE i - 1 # 1
      <4> DEFINE k == i - 2
      <4>1. k \in 1 .. q /\ k < q /\ i - 1 = k + 1 /\ k \in Nat
        BY <1>1, <2>0, <3>1, <3>4
      <4> HIDE DEF k
      <4>2. Arrived(s[i - 1]) = k * ChunkSize
        BY <1>2, <2>2, <4>1
      <4>3. at(i - 1) = k * ChunkSize
        BY <1>3, <4>1
      <4> QED
        BY <3>2, <4>2, <4>3
    <3> QED
      BY <3>3, <3>4
  <2>4. ASSUME s[i].part = "trailer" PROVE total <= Arrived(s[i - 1])
    <3>1. i = q + 2
      BY <1>5, <2>0, <2>4
    <3>2. CASE q = 0
      BY <1>2, <2>1, <3>1, <3>2
    <3>3. CASE q # 0
      <4>1. q \in 1 .. q /\ i - 1 = q + 1 /\ 1 \in 1 .. q
        BY <1>1, <3>1, <3>3
      <4>2. Arrived(s[i - 1]) = at(q) + len(q) /\ at(q) + len(q) >= size
        BY <1>2, <2>2, <4>1
      <4>3. at(q) + len(q) \in Nat
        <5>1. ChunkSize \in Nat
          BY <1>3
        <5>2. at(q) \in Nat /\ at(q) < size
          BY <4>1, ChunkInside DEF at, q
        <5> QED
          BY <5>1, <5>2 DEF len, Least
      <4> QED
        BY <4>2, <4>3
    <3> QED
      BY <3>2, <3>3
  <2> QED
    BY <2>3, <2>4
<1>7. ASSUME NEW i \in 1 .. Len(s)
      PROVE  InPlace(s, i)
  <2>1. i \in Nat /\ Earlier(s, i) = 1 .. i - 1 /\ 1 .. i - 1 \subseteq 1 .. Len(s)
    <3>1. i \in Nat /\ 1 .. i - 1 \subseteq 1 .. Len(s)
      BY <1>1
    <3> QED
      BY <1>5, <3>1 DEF Earlier
  <2>2. s[i].part = "header" <=> Earlier(s, i) = {}
    <3>1. i = 1 <=> 1 .. i - 1 = {}
      BY <2>1
    <3> QED
      BY <1>5, <2>1, <3>1
  <2>3. ASSUME NEW j \in Earlier(s, i), \A k \in Earlier(s, i) : k <= j
        PROVE  /\ s[j].part # "trailer"
               /\ s[i].part = "chunk" => s[i].at = Arrived(s[j])
               /\ s[i].part = "trailer" =>
                    \A h \in Earlier(s, i) : s[h].part = "header" => s[h].size <= Arrived(s[j])
    <3>1. j = i - 1 /\ i \in 2 .. Len(s) /\ j \in 1 .. Len(s) /\ j # q + 2
      <4>1. i - 1 \in 1 .. i - 1 /\ j \in 1 .. i - 1
        BY <2>1, <2>3
      <4>2. i - 1 <= j
        BY <2>1, <2>3, <4>1
      <4> QED
        BY <1>1, <2>1, <4>1, <4>2
    <3>2. \A h \in Earlier(s, i) : s[h].part = "header" => s[h].size = total
      BY <1>5, <2>1
    <3> QED
      BY <1>5, <1>6, <3>1, <3>2
  <2> QED
    BY <2>2, <2>3 DEF InPlace
<1>8. s \in Seq(Packet) /\ Len(s) > 0 /\ InOrder(s)
  BY <1>1, <1>7 DEF InOrder
<1> QED
  BY <1>5, <1>8 DEF s, OneMessage

\* The identifiers of the messages in s; the reports have none.
Ids(s, lo, hi) ==
  \A i \in 1 .. Len(s) : IF s[i].part = "report" THEN s[i].stream = 0
                                                 ELSE s[i].stream \in lo .. hi

\* An answer is made of whole messages that are new, and it counts them.
NewAnswer(s) ==
  /\ s \in Seq(Packet) /\ InOrder(s) /\ Messages(s) \in Nat
  /\ Ids(s, streams + 1, streams + Messages(s))

LEMMA OneNewMessage ==
  ASSUME streams \in Nat, NEW total \in Nat, NEW size \in Nat, total <= size
  PROVE  /\ NewAnswer(Stream(Id, total, size)) /\ Messages(Stream(Id, total, size)) = 1
         /\ \A i \in 1 .. Len(Stream(Id, total, size)) :
              Stream(Id, total, size)[i].part # "report"
<1> DEFINE s == Stream(Id, total, size)
<1>1. /\ s \in Seq(Packet) /\ Len(s) > 0 /\ InOrder(s)
      /\ \A i \in 1 .. Len(s) : /\ s[i].stream = Id /\ s[i].part # "report"
                                /\ s[i].part = "header" <=> i = 1
  <2>1. Id \in Nat
    BY DEF Id
  <2>2. OneMessage(s, Id)
    BY <2>1, StreamInOrder
  <2> HIDE DEF s
  <2> QED
    BY <2>2 DEF OneMessage
<1> HIDE DEF s
<1>2. {i \in DOMAIN s : s[i].part \in {"header", "report"}} = {1}
  <2>1. DOMAIN s = 1 .. Len(s) /\ 1 \in 1 .. Len(s)
    BY <1>1
  <2> QED
    BY <1>1, <2>1
<1>3. Messages(s) = 1
  BY <1>2, FS_Singleton DEF Messages
<1>4. Ids(s, streams + 1, streams + 1)
  BY <1>1 DEF Ids, Id
<1> QED
  BY <1>1, <1>3, <1>4 DEF NewAnswer, s

LEMMA TwoMessages ==
  ASSUME streams \in Nat, NEW n \in Nat, NEW k \in Nat
  PROVE  NewAnswer(Stream(Id, n, n) \o Stream(Id + 1, k, k))
<1> DEFINE s == Stream(Id, n, n)
           t == Stream(Id + 1, k, k)
           st == s \o t
<1>0. Id \in Nat /\ Id + 1 \in Nat /\ Id = streams + 1 /\ Id + 1 = streams + 2
  BY DEF Id
<1>1. /\ s \in Seq(Packet) /\ Len(s) > 0 /\ InOrder(s)
      /\ \A i \in 1 .. Len(s) : /\ s[i].stream = Id /\ s[i].part # "report"
                                /\ s[i].part = "header" <=> i = 1
  <2>1. n <= n /\ k <= k
    OBVIOUS
  <2>2. OneMessage(s, Id)
    BY <1>0, <2>1, StreamInOrder
  <2> HIDE DEF s, t
  <2> QED
    BY <2>2 DEF OneMessage
<1>2. /\ t \in Seq(Packet) /\ Len(t) > 0 /\ InOrder(t)
      /\ \A i \in 1 .. Len(t) : /\ t[i].stream = Id + 1 /\ t[i].part # "report"
                                /\ t[i].part = "header" <=> i = 1
  <2>1. n <= n /\ k <= k
    OBVIOUS
  <2>2. OneMessage(t, Id + 1)
    BY <1>0, <2>1, StreamInOrder
  <2> HIDE DEF s, t
  <2> QED
    BY <2>2 DEF OneMessage
<1> HIDE DEF s, t
<1>3. InOrder(st)
  <2>1. \A i \in 1 .. Len(t) : \A j \in 1 .. Len(s) : s[j].stream # t[i].stream
    BY <1>0, <1>1, <1>2
  <2> QED
    BY <1>1, <1>2, <2>1, NewMessages
<1> DEFINE a == Len(s)
           b == Len(t)
<1>4. /\ st \in Seq(Packet) /\ Len(st) = a + b
      /\ \A i \in 1 .. a + b : st[i] = IF i <= a THEN s[i] ELSE t[i - a]
      /\ a \in Nat /\ b \in Nat /\ a > 0 /\ b > 0
  BY <1>1, <1>2, ConcatProperties
<1> HIDE DEF st
<1>5. ASSUME NEW i \in 1 .. Len(st)
      PROVE  /\ st[i].stream \in streams + 1 .. streams + 2 /\ st[i].part # "report"
             /\ st[i].part = "header" <=> i = 1 \/ i = a + 1
  <2>1. CASE i <= a
    <3>1. st[i] = s[i] /\ i \in 1 .. Len(s) /\ i # a + 1
      BY <1>4, <2>1
    <3> QED
      BY <1>0, <1>1, <3>1
  <2>2. CASE ~(i <= a)
    <3>1. st[i] = t[i - a] /\ i - a \in 1 .. Len(t) /\ (i - a = 1 <=> i = a + 1) /\ i # 1
      BY <1>4, <2>2
    <3> QED
      BY <1>0, <1>2, <3>1
  <2> QED
    BY <2>1, <2>2
<1>6. Messages(st) = 2
  <2>1. DOMAIN st = 1 .. Len(st) /\ 1 \in 1 .. Len(st) /\ a + 1 \in 1 .. Len(st) /\ 1 # a + 1
    BY <1>4
  <2>2. {i \in DOMAIN st : st[i].part \in {"header", "report"}} = {1} \cup {a + 1}
    BY <1>5, <2>1
  <2>3. IsFiniteSet({1}) /\ Cardinality({1}) = 1 /\ a + 1 \notin {1}
    BY <2>1, FS_Singleton
  <2>4. Cardinality({1} \cup {a + 1}) = 2
    BY <2>3, FS_AddElement
  <2> QED
    BY <2>2, <2>4 DEF Messages
<1>7. Ids(st, streams + 1, streams + 2)
  BY <1>5 DEF Ids
<1> QED
  BY <1>3, <1>4, <1>6, <1>7 DEF NewAnswer, st, s, t

\* Every command is answered that way, if at all.
LEMMA AnswersNew ==
  ASSUME streams \in Nat, NEW c, NEW s \in Responses(c) \cup OnlyReply \cup {<<>>}
  PROVE  NewAnswer(s)
<1>1. NewAnswer(<<>>)
  <2>1. {i \in DOMAIN <<>> : <<>>[i].part \in {"header", "report"}} = {}
    OBVIOUS
  <2>2. Messages(<<>>) = 0
    BY <2>1, FS_EmptySet DEF Messages
  <2>3. Len(<<>>) = 0 /\ <<>> \in Seq(Packet) /\ 1 .. 0 = {}
    OBVIOUS
  <2> QED
    BY <2>2, <2>3 DEF NewAnswer, Ids, InOrder
<1>2. NewAnswer(<<Report>>)
  <2> DEFINE r == <<Report>>
  <2>1. Len(r) = 1 /\ r[1] = Report /\ r \in Seq(Packet) /\ DOMAIN r = {1} /\ 1 .. 1 = {1}
    BY DEF Report, Packet
  <2>2. Report.part = "report" /\ Report.stream = 0
    BY DEF Report
  <2> HIDE DEF r
  <2>3. {i \in DOMAIN r : r[i].part \in {"header", "report"}} = {1}
    BY <2>1, <2>2
  <2>4. Messages(r) = 1
    BY <2>3, FS_Singleton DEF Messages
  <2> QED
    BY <2>1, <2>2, <2>4 DEF NewAnswer, Ids, InOrder, r
<1>3. \A n \in Sizes : n \in Nat /\ n + 1 \in Nat /\ n <= n /\ n <= n + 1
  BY ChannelAssumption
<1>4. \A n \in Sizes : NewAnswer(Stream(Id, n, n)) /\ NewAnswer(Stream(Id, n, n + 1))
  BY <1>3, OneNewMessage
<1>5. \A n, k \in Sizes : NewAnswer(Stream(Id, n, n) \o Stream(Id + 1, k, k))
  BY <1>3, TwoMessages
<1>6. s \in TakeSnapshot \cup OnlyReply \cup ControlCamera \cup Recording => NewAnswer(s)
  BY <1>1, <1>2, <1>4 DEF TakeSnapshot, OnlyReply, ControlCamera, Recording
<1>7. s \in TransferFile => NewAnswer(s)
  BY <1>1, <1>4 DEF TransferFile, FileStream
<1>8. s \in QueryFile => NewAnswer(s)
  <2>1. \A r \in SendFileResponse(Id) : NewAnswer(r)
    BY <1>4 DEF SendFileResponse
  <2>2. ASSUME NEW x \in UNION {{u \o t : t \in SendFileResponse(Id + 1)} : u \in SendFileResponse(Id)}
        PROVE  NewAnswer(x)
    <3>1. PICK u \in SendFileResponse(Id), t \in SendFileResponse(Id + 1) : x = u \o t
      OBVIOUS
    <3> QED
      BY <1>5, <3>1 DEF SendFileResponse
  <2> QED
    BY <1>1, <2>1, <2>2 DEF QueryFile
<1> QED
  BY <1>1, <1>6, <1>7, <1>8 DEF Responses

\* Two senders, with q and r still to send, of which each continues what has been
\* sent, a, message by message; their messages are not the same.
Continue(a, q, r) ==
  /\ InOrder(a \o q) /\ InOrder(a \o r)
  /\ Ids(a, 1, streams) /\ Ids(q, 1, streams) /\ Ids(r, 1, streams)
  /\ \A i \in 1 .. Len(q) : \A j \in 1 .. Len(r) : q[i].stream # r[j].stream

\* The handler and the IPC thread continue what has been given to Send.
Continued ==
  /\ Continue(accepted, handler, ipc)
  /\ \A j \in 1 .. Len(ipc) : ipc[j].part # "report"

\* An SfuChannel has no queue; if it has been open from its first packet on it has sent
\* everything until it was closed.
SfuSends ==
  SfuKind =>
    /\ queue = <<>> /\ sender # "check"
    /\ ~early =>
         /\ Len(sent) <= Len(accepted)
         /\ \A i \in 1 .. Len(sent) : accepted[i] = sent[i]
         /\ dc # "closed" => sent = accepted

\* A sender that still has q to send after a gives the first of it to Send.
LEMMA MovesOn ==
  ASSUME NEW a \in Seq(Packet), NEW q \in Seq(Packet), q # <<>>
  PROVE  /\ q[1] \in Packet /\ Tail(q) \in Seq(Packet) /\ 1 \in 1 .. Len(q)
         /\ Append(a, q[1]) = a \o <<q[1]>> /\ Append(a, q[1]) \in Seq(Packet)
         /\ a \o q = Append(a, q[1]) \o Tail(q)
         /\ Len(Tail(q)) = Len(q) - 1
         /\ \A i \in 1 .. Len(Tail(q)) : i + 1 \in 1 .. Len(q) /\ Tail(q)[i] = q[i + 1]
<1>1. q[1] \in Packet /\ Tail(q) \in Seq(Packet) /\ q = <<q[1]>> \o Tail(q)
  BY HeadAndTail
<1>2. /\ Len(q) \in Nat /\ Len(q) > 0 /\ Len(Tail(q)) = Len(q) - 1
      /\ \A i \in 1 .. Len(Tail(q)) : Tail(q)[i] = q[i + 1]
  BY HeadTailProperties, EmptySeq
<1>3. Append(a, q[1]) = a \o <<q[1]>> /\ Append(a, q[1]) \in Seq(Packet)
  BY <1>1, AppendIsConcat, AppendProperties
<1>4. a \o q = Append(a, q[1]) \o Tail(q)
  <2> DEFINE f == <<q[1]>>
             r == Tail(q)
  <2>1. f \in Seq(Packet) /\ r \in Seq(Packet) /\ q = f \o r
    BY <1>1
  <2> HIDE DEF f, r
  <2>2. a \in Seq(Packet)
    OBVIOUS
  <2>3. (a \o f) \o r = a \o (f \o r)
    <3>1. f \in Seq(Packet) /\ r \in Seq(Packet)
      BY <2>1
    <3>2. ASSUME NEW x \in Seq(Packet), NEW y \in Seq(Packet)
          PROVE  (a \o x) \o y = a \o (x \o y)
      BY <2>2, Assoc
    <3> QED
      BY ONLY <3>1, <3>2
  <2>4. a \o q = (a \o f) \o r
    BY <2>1, <2>3
  <2> QED
    BY <1>3, <2>4 DEF f, r
<1> QED
  BY <1>1, <1>2, <1>3, <1>4

\* Two senders, of which the first moves on.
LEMMA SendersContinue ==
  ASSUME streams \in Nat,
         NEW a \in Seq(Packet), NEW q \in Seq(Packet), NEW r \in Seq(Packet), q # <<>>,
         Continue(a, q, r)
  PROVE  Continue(Append(a, q[1]), Tail(q), r)
<1> DEFINE b == Append(a, q[1])
           t == Tail(q)
           n == streams
<1>0. /\ InOrder(a \o q) /\ InOrder(a \o r) /\ n \in Nat
      /\ Ids(a, 1, n) /\ Ids(q, 1, n) /\ Ids(r, 1, n)
      /\ \A i \in 1 .. Len(q) : \A j \in 1 .. Len(r) : q[i].stream # r[j].stream
  BY DEF Continue
<1>1. /\ q[1] \in Packet /\ t \in Seq(Packet) /\ 1 \in 1 .. Len(q)
      /\ b = a \o <<q[1]>> /\ b \in Seq(Packet) /\ a \o q = b \o t
      /\ \A i \in 1 .. Len(t) : i + 1 \in 1 .. Len(q) /\ t[i] = q[i + 1]
  BY MovesOn
<1>2. /\ Len(b) = Len(a) + 1 /\ Len(a) \in Nat /\ b[Len(a) + 1] = q[1]
      /\ \A i \in 1 .. Len(a) : b[i] = a[i]
  BY <1>1, AppendProperties
<1> HIDE DEF b, t, n
<1>3. InOrder(b \o t)
  BY <1>0, <1>1
<1>4. InOrder(b)
  <2> DEFINE s == b \o t
  <2>1. /\ s \in Seq(Packet) /\ Len(s) = Len(b) + Len(t)
        /\ \A i \in 1 .. Len(b) + Len(t) : s[i] = IF i <= Len(b) THEN b[i] ELSE t[i - Len(b)]
    BY <1>1, ConcatProperties
  <2>2. Len(t) \in Nat /\ Len(b) \in Nat
    BY <1>1
  <2>3. InOrder(s)
    BY <1>3
  <2> HIDE DEF s
  <2>4. Len(b) <= Len(s) /\ \A i \in 1 .. Len(b) : b[i] = s[i]
    BY <2>1, <2>2
  <2> QED
    BY <1>1, <2>1, <2>3, <2>4, PrefixInOrder
<1>5. InOrder(b \o r)
  <2>1. \A j \in 1 .. Len(r) : r[j].stream # q[1].stream
    BY <1>0, <1>1
  <2> QED
    BY <1>0, <1>1, <1>4, <2>1, Interleaved
<1>6. Ids(b, 1, n)
  <2> SUFFICES ASSUME NEW i \in 1 .. Len(b)
               PROVE  IF b[i].part = "report" THEN b[i].stream = 0 ELSE b[i].stream \in 1 .. n
    BY DEF Ids
  <2>1. CASE i \in 1 .. Len(a)
    BY <1>0, <1>2, <2>1 DEF Ids
  <2>2. CASE i = Len(a) + 1
    BY <1>0, <1>1, <1>2, <2>2 DEF Ids
  <2> QED
    BY <1>2, <2>1, <2>2
<1>7. Ids(t, 1, n)
  BY <1>0, <1>1 DEF Ids
<1>8. \A i \in 1 .. Len(t) : \A j \in 1 .. Len(r) : t[i].stream # r[j].stream
  BY <1>0, <1>1
<1> QED
  BY <1>0, <1>3, <1>5, <1>6, <1>7, <1>8 DEF b, t, n, Continue

LEMMA EitherSender == ASSUME NEW a, NEW q, NEW r, Continue(a, q, r) PROVE Continue(a, r, q)
  BY DEF Continue

LEMMA SendsContinued == ASSUME IInv, Continued, HandlerSends \/ IpcSends PROVE Continued'
<1>1. /\ accepted \in Seq(Packet) /\ handler \in Seq(Packet) /\ ipc \in Seq(Packet)
      /\ streams \in Nat /\ streams' = streams
      /\ Continue(accepted, handler, ipc)
  BY Bounds DEF IInv, TypeOK, HandlerSends, IpcSends, Continued
<1>2. CASE HandlerSends
  <2>1. /\ handler # <<>> /\ accepted' = Append(accepted, handler[1])
        /\ handler' = Tail(handler) /\ ipc' = ipc
    BY <1>2 DEF HandlerSends, Send
  <2>2. Continue(Append(accepted, handler[1]), Tail(handler), ipc)
    BY <1>1, <2>1, SendersContinue
  <2> QED
    BY <1>1, <2>1, <2>2 DEF Continued, Continue
<1>3. CASE IpcSends
  <2>1. /\ ipc # <<>> /\ accepted' = Append(accepted, ipc[1])
        /\ ipc' = Tail(ipc) /\ handler' = handler
    BY <1>3 DEF IpcSends, Send
  <2>2. Continue(accepted, ipc, handler)
    BY <1>1, EitherSender
  <2>3. Continue(Append(accepted, ipc[1]), Tail(ipc), handler)
    BY <1>1, <2>1, <2>2, SendersContinue
  <2>4. Continue(Append(accepted, ipc[1]), handler, Tail(ipc))
    BY <2>3, EitherSender
  <2>5. \A j \in 1 .. Len(Tail(ipc)) : Tail(ipc)[j].part # "report"
    <3>1. \A i \in 1 .. Len(Tail(ipc)) : i + 1 \in 1 .. Len(ipc) /\ Tail(ipc)[i] = ipc[i + 1]
      BY <1>1, <2>1, MovesOn
    <3> QED
      BY <3>1 DEF Continued
  <2> QED
    BY <1>1, <2>1, <2>4, <2>5 DEF Continued, Continue
<1> QED
  BY <1>2, <1>3

\* An identifier stays one when more are handed out.
LEMMA IdsGrow ==
  ASSUME NEW s, NEW n \in Nat, NEW k \in Nat, Ids(s, 1, n)
  PROVE  Ids(s, 1, n + k)
  BY DEF Ids

LEMMA SentContinues == ASSUME IInv, Continued PROVE InOrder(accepted)
<1>1. accepted \in Seq(Packet) /\ ipc \in Seq(Packet) /\ Len(accepted) \in Nat
  BY DEF IInv, TypeOK
<1> DEFINE c == accepted \o ipc
<1>2. /\ c \in Seq(Packet) /\ Len(c) = Len(accepted) + Len(ipc)
      /\ \A i \in 1 .. Len(accepted) + Len(ipc) :
           c[i] = IF i <= Len(accepted) THEN accepted[i] ELSE ipc[i - Len(accepted)]
  BY <1>1, ConcatProperties
<1>3. InOrder(c) /\ Len(ipc) \in Nat
  BY <1>1 DEF Continued, Continue
<1> HIDE DEF c
<1>4. Len(accepted) <= Len(c) /\ \A i \in 1 .. Len(accepted) : accepted[i] = c[i]
  BY <1>1, <1>2, <1>3
<1> QED
  BY <1>1, <1>2, <1>3, <1>4, PrefixInOrder

\* A new answer continues what has been given to Send.
LEMMA AnswerContinues ==
  ASSUME IInv, Continued, NEW s, NewAnswer(s)
  PROVE  /\ InOrder(accepted \o s) /\ Ids(s, 1, streams + Messages(s))
         /\ Ids(accepted, 1, streams + Messages(s))
         /\ Ids(handler, 1, streams + Messages(s)) /\ Ids(ipc, 1, streams + Messages(s))
         /\ \A i \in 1 .. Len(s) : \A j \in 1 .. Len(ipc) : s[i].stream # ipc[j].stream
<1>1. /\ streams \in Nat /\ Messages(s) \in Nat /\ s \in Seq(Packet) /\ InOrder(s)
      /\ accepted \in Seq(Packet) /\ ipc \in Seq(Packet)
      /\ Len(accepted) \in Nat /\ handler \in Seq(Packet)
  BY Bounds DEF NewAnswer, IInv, TypeOK
<1>2. InOrder(accepted)
  BY SentContinues
<1>3. ASSUME NEW i \in 1 .. Len(s)
      PROVE  IF s[i].part = "report" THEN s[i].stream = 0
             ELSE s[i].stream \in streams + 1 .. streams + Messages(s)
  BY DEF NewAnswer, Ids
<1>4. ASSUME NEW k \in 1 .. Len(accepted)
      PROVE  accepted[k].stream = 0 \/ accepted[k].stream \in 1 .. streams
  BY DEF Continued, Continue, Ids
<1>5. ASSUME NEW j \in 1 .. Len(ipc)
      PROVE  ipc[j].stream \in 1 .. streams
  BY DEF Continued, Continue, Ids
<1>6. InOrder(accepted \o s)
  <2>1. \A i \in 1 .. Len(s) : \/ s[i].part = "report"
                               \/ \A k \in 1 .. Len(accepted) : accepted[k].stream # s[i].stream
    <3> SUFFICES ASSUME NEW i \in 1 .. Len(s), s[i].part # "report",
                        NEW k \in 1 .. Len(accepted)
                 PROVE  accepted[k].stream # s[i].stream
      OBVIOUS
    <3>1. s[i].stream \in streams + 1 .. streams + Messages(s)
      BY <1>3
    <3>2. accepted[k].stream = 0 \/ accepted[k].stream \in 1 .. streams
      BY <1>4
    <3> QED
      BY <1>1, <3>1, <3>2
  <2> QED
    BY <1>1, <1>2, <2>1, NewMessages
<1>7. Ids(s, 1, streams + Messages(s))
  BY <1>1, <1>3 DEF Ids
<1>8. \A i \in 1 .. Len(s) : \A j \in 1 .. Len(ipc) : s[i].stream # ipc[j].stream
  BY <1>1, <1>3, <1>5
<1>9. /\ Ids(accepted, 1, streams + Messages(s)) /\ Ids(handler, 1, streams + Messages(s))
      /\ Ids(ipc, 1, streams + Messages(s))
  BY <1>1, IdsGrow DEF Continued, Continue
<1> QED
  BY <1>6, <1>7, <1>8, <1>9

\* While nobody is sending, the handler starts with an answer.
LEMMA ArrivesContinued ==
  ASSUME IInv, Continued, NEW responses, Arrives(responses),
         \A s \in responses : NewAnswer(s)
  PROVE  Continued'
<1>1. PICK s \in responses : handler' = s /\ streams' = streams + Messages(s)
  BY DEF Arrives
<1>2. accepted' = accepted /\ ipc' = ipc
  BY DEF Arrives, histVars
<1>3. /\ InOrder(accepted \o s) /\ Ids(s, 1, streams + Messages(s))
      /\ Ids(accepted, 1, streams + Messages(s)) /\ Ids(ipc, 1, streams + Messages(s))
      /\ \A i \in 1 .. Len(s) : \A j \in 1 .. Len(ipc) : s[i].stream # ipc[j].stream
  BY <1>1, AnswerContinues
<1> QED
  BY <1>1, <1>2, <1>3 DEF Continued, Continue

LEMMA MessageContinued ==
  ASSUME IInv, Continued, Command \/ CustomMessage \/ Broadcast
  PROVE  Continued'
<1>1. streams \in Nat
  BY Bounds DEF IInv, TypeOK
<1>2. CASE Command
  <2>1. PICK c \in Commands : Arrives(Responses(c))
    BY <1>2 DEF Command
  <2>2. \A s \in Responses(c) : NewAnswer(s)
    BY <1>1, AnswersNew
  <2> QED
    BY <2>1, <2>2, ArrivesContinued
<1>3. CASE CustomMessage
  <2>1. Arrives(OnlyReply) \/ Arrives({<<>>})
    BY <1>3 DEF CustomMessage
  <2>2. /\ \A s \in OnlyReply : NewAnswer(s)
        /\ \A s \in {<<>>} : NewAnswer(s)
    BY <1>1, AnswersNew
  <2> QED
    BY <2>1, <2>2, ArrivesContinued
<1>4. CASE Broadcast
  <2>1. /\ ipc = <<>> /\ ipc' \in OnlyReply /\ streams' = streams + 1
        /\ handler' = handler /\ accepted' = accepted
    BY <1>4 DEF Broadcast, histVars
  <2>2. PICK n \in Sizes : ipc' = Stream(Id, n, n)
    BY <2>1 DEF OnlyReply
  <2> DEFINE s == Stream(Id, n, n)
  <2>3. /\ NewAnswer(s) /\ Messages(s) = 1
        /\ \A i \in 1 .. Len(s) : s[i].part # "report"
    <3>1. n \in Nat /\ n <= n
      BY ChannelAssumption
    <3> QED
      BY <1>1, <3>1, OneNewMessage
  <2> HIDE DEF s
  <2>4. /\ InOrder(accepted \o s) /\ Ids(s, 1, streams + Messages(s))
        /\ Ids(accepted, 1, streams + Messages(s)) /\ Ids(handler, 1, streams + Messages(s))
    BY <2>3, AnswerContinues
  <2>5. InOrder(accepted \o handler) /\ Ids(handler, 1, streams) /\ handler \in Seq(Packet)
    BY DEF Continued, Continue, IInv, TypeOK
  <2>6. \A j \in 1 .. Len(s) : s[j].stream = streams + 1
    BY <1>1, <2>3 DEF NewAnswer, Ids
  <2>7. \A i \in 1 .. Len(handler) : \A j \in 1 .. Len(s) : handler[i].stream # s[j].stream
    <3> SUFFICES ASSUME NEW i \in 1 .. Len(handler), NEW j \in 1 .. Len(s)
                 PROVE  handler[i].stream # s[j].stream
      OBVIOUS
    <3>1. handler[i].stream = 0 \/ handler[i].stream \in 1 .. streams
      BY <2>5 DEF Ids
    <3> QED
      BY <1>1, <2>6, <3>1
  <2>8. ipc' = s
    BY <2>2 DEF s
  <2> QED
    BY <2>1, <2>3, <2>4, <2>5, <2>7, <2>8 DEF Continued, Continue
<1> QED
  BY <1>2, <1>3, <1>4

\* The report that a channel makes when it opens counts as no message.
LEMMA OpensContinued == ASSUME IInv, Continued, Opens PROVE Continued'
<1>1. /\ accepted \in Seq(Packet) /\ streams \in Nat
      /\ Continue(accepted, <<>>, ipc) /\ InOrder(accepted)
      /\ \A j \in 1 .. Len(ipc) : ipc[j].stream \in 1 .. streams
  <2>1. accepted \in Seq(Packet) /\ streams \in Nat /\ handler = <<>>
    BY Bounds DEF IInv, TypeOK, Opens
  <2>2. accepted \o <<>> = accepted
    BY <2>1, ConcatEmptySeq
  <2> QED
    BY <2>1, <2>2 DEF Continued, Continue, Ids
<1>2. /\ accepted' = accepted /\ ipc' = ipc /\ streams' = streams
      /\ handler' = <<>> \/ handler' = <<Report>>
  BY DEF Opens, histVars
<1>3. Continue(accepted, <<Report>>, ipc)
  <2> DEFINE r == <<Report>>
  <2>1. /\ r \in Seq(Packet) /\ Len(r) = 1 /\ InOrder(r)
        /\ \A i \in 1 .. Len(r) : r[i].stream = 0 /\ r[i].part = "report"
    BY DEF Report, Packet, InOrder
  <2> HIDE DEF r
  <2>2. InOrder(accepted \o r)
    BY <1>1, <2>1, NewMessages
  <2>3. Ids(r, 1, streams)
    BY <2>1 DEF Ids
  <2>4. \A i \in 1 .. Len(r) : \A j \in 1 .. Len(ipc) : r[i].stream # ipc[j].stream
    BY <1>1, <2>1
  <2> QED
    BY <1>1, <2>2, <2>3, <2>4 DEF Continue, r
<1>4. Continue(accepted, handler', ipc)
  BY <1>1, <1>2, <1>3
<1> QED
  BY <1>2, <1>4 DEF Continued, Continue

LEMMA InitContinued == Init => Continued /\ SfuSends
<1> SUFFICES ASSUME Init PROVE Continued /\ SfuSends
  OBVIOUS
<1>1. /\ accepted = <<>> /\ handler = <<>> /\ ipc = <<>> /\ sent = <<>>
      /\ queue = <<>> /\ sender = "wait"
  BY DEF Init
<1>2. Len(<<>>) = 0 /\ 1 .. 0 = {} /\ <<>> \o <<>> = <<>>
  BY ConcatEmptySeq, NoPackets
<1> QED
  BY <1>1, <1>2 DEF Continued, Continue, InOrder, Ids, SfuSends

LEMMA NextContinued == IInv /\ Continued /\ [Next]_vars => Continued'
<1> SUFFICES ASSUME IInv, Continued, [Next]_vars PROVE Continued'
  OBVIOUS
<1>1. CASE UNCHANGED <<accepted, workVars>>
  BY <1>1 DEF workVars, Continued, Continue
<1>2. CASE UNCHANGED vars
  BY <1>1, <1>2 DEF vars, histVars
<1>3. CASE SendLoop \/ Closes \/ Transmits \/ PeerTerminates \/ Terminate
  BY <1>1, <1>3 DEF SendLoop, Pop, LoopStops, SendHeld, ChannelNotOpen, Closes, Transmits,
     PeerTerminates, Terminate, StopLoop, JoinLoop, histVars
<1> QED
  BY <1>2, <1>3, SendsContinued, OpensContinued, MessageContinued DEF Next

LEMMA NextSfuSends == IInv /\ SfuSends /\ [Next]_vars => SfuSends'
<1> SUFFICES ASSUME IInv, SfuSends, [Next]_vars PROVE SfuSends'
  OBVIOUS
<1>1. kind' = kind /\ SfuKind' = SfuKind
  BY DEF Next, vars, SendLoop, Pop, LoopStops, SendHeld, ChannelNotOpen, HandlerSends,
     IpcSends, Opens, Closes, Transmits, Command, CustomMessage, Arrives, Broadcast,
     PeerTerminates, Terminate, StopLoop, JoinLoop, SfuKind
<1>2. dc = "closed" => dc' = "closed"
  BY DEF Next, vars, SendLoop, Pop, LoopStops, SendHeld, ChannelNotOpen, HandlerSends,
     IpcSends, Opens, Closes, Transmits, Command, CustomMessage, Arrives, Broadcast,
     PeerTerminates, StateAfterClose, Terminate, StopLoop, JoinLoop
<1>3. CASE UNCHANGED histVars /\ UNCHANGED queue /\ (sender' = sender \/ sender' = "ended")
  BY <1>1, <1>2, <1>3 DEF histVars, SfuSends
<1>4. CASE HandlerSends \/ IpcSends
  <2>1. /\ \E p \in Packet : Send(p)
        /\ dc' = dc
    BY <1>4, HeadAndTail DEF HandlerSends, IpcSends, IInv, TypeOK
  <2>2. PICK p \in Packet : Send(p)
    BY <2>1
  <2>0. SUFFICES ASSUME SfuKind, ~early' PROVE SfuSends'
    BY <1>1, <2>2 DEF SfuSends, Send, sendVars
  <2>3. /\ accepted' = Append(accepted, p) /\ ~early /\ dc # "connecting"
        /\ sent' = IF dc = "open" THEN Append(sent, p) ELSE sent
        /\ queue' = queue /\ sender' = sender /\ queue = <<>> /\ sender # "check"
    BY <2>0, <2>2 DEF Send, sendVars, SfuSends
  <2>4. /\ accepted \in Seq(Packet) /\ sent \in Seq(Packet)
        /\ dc \in {"connecting", "open", "closed"}
    BY DEF IInv, TypeOK
  <2>5. /\ Len(sent) <= Len(accepted) /\ \A i \in 1 .. Len(sent) : accepted[i] = sent[i]
        /\ dc # "closed" => sent = accepted
    BY <2>0, <2>3 DEF SfuSends
  <2>6. /\ Len(sent) \in Nat /\ Len(accepted) \in Nat
        /\ Len(accepted') = Len(accepted) + 1
        /\ \A i \in 1 .. Len(accepted) : accepted'[i] = accepted[i]
    BY <2>3, <2>4, AppendProperties
  <2>7. CASE dc = "open"
    <3>1. sent' = accepted'
      BY <2>3, <2>5, <2>7
    <3> QED
      BY <2>3, <2>6, <3>1 DEF SfuSends
  <2>8. CASE dc = "closed"
    <3>1. sent' = sent /\ dc' = "closed"
      BY <2>1, <2>3, <2>8
    <3> QED
      BY <2>3, <2>5, <2>6, <3>1 DEF SfuSends
  <2> QED
    BY <2>3, <2>4, <2>7, <2>8
<1>5. CASE SendHeld \/ Pop
  <2>1. ~SfuKind
    BY <1>5 DEF SendHeld, Pop, SfuSends
  <2> QED
    BY <1>1, <2>1 DEF SfuSends
<1>6. CASE LoopStops \/ ChannelNotOpen \/ Opens \/ Closes \/ Transmits \/ Command
           \/ CustomMessage \/ Broadcast \/ PeerTerminates \/ Terminate \/ UNCHANGED vars
  BY <1>3, <1>6 DEF vars, LoopStops, ChannelNotOpen, Opens, Closes, Transmits, Command,
     CustomMessage, Arrives, Broadcast, PeerTerminates, Terminate, StopLoop, JoinLoop,
     sendVars
<1> QED
  BY <1>4, <1>5, <1>6 DEF Next, SendLoop

\* The receiver can put together every message it gets (Reassembles), for chunks and
\* messages of any size and any number of them: the packets of Conductor's handlers and
\* of the IPC server's thread may be interleaved on the channel, but each message has an
\* identifier of its own and its packets keep their order through Send and SendLoop.
THEOREM MessagesReassemble == Spec => []Reassembles
<1>1. IInv /\ Continued /\ SfuSends => Reassembles
  <2> SUFFICES ASSUME IInv, Continued, SfuSends, ~(SfuKind /\ early)
               PROVE  InOrder(sent)
    BY DEF Reassembles
  <2>1. /\ accepted \in Seq(Packet) /\ sent \in Seq(Packet) /\ handler \in Seq(Packet)
        /\ Len(accepted) \in Nat
    BY DEF IInv, TypeOK
  <2>2. Len(sent) <= Len(accepted) /\ \A i \in 1 .. Len(sent) : sent[i] = accepted[i]
    BY DEF IInv, Ordered, SfuSends
  <2>3. InOrder(accepted)
    BY <2>1, SentContinues
  <2> QED
    BY <2>1, <2>2, <2>3, PrefixInOrder
<1> QED
  BY <1>1, Invariant, InitContinued, NextContinued, NextSfuSends, PTL DEF Spec
===============================================================================
