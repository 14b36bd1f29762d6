----------------------------- MODULE CodecProofs -----------------------------
(***************************************************************************)
(* Proofs about FrameCodec, for any number of buffers, frames and driver    *)
(* faults, and every kind of processor: no buffer is lost while the driver  *)
(* accepts everything, a callback gets its own frame unless a frame once    *)
(* overtook its registration, and the processors implement FramePipe.       *)
(*                                                                          *)
(* The key of the inductive invariant is Aligned: the frames on their way   *)
(* out (at the callback, filled, in the driver's input) and the callbacks   *)
(* that wait, each oldest first, pair up; and each frame is the callback's  *)
(* own until one has come out too early, and not older afterwards.          *)
(***************************************************************************)
EXTENDS FrameCodec, SequenceTheorems, FiniteSetTheorems, TLAPS

\* A buffer with a frame, or with the end of the stream.
Given == [buf : Bufs, frame : 1 .. Eos]
Distinct(q) == \A i, j \in DOMAIN q : q[i].buf = q[j].buf => i = j

\* The queues and the hands hold frames that were given to the processor.
Queues ==
  /\ inQ \in Seq(Given) /\ capDone \in Seq(Given) /\ tasks \in Seq(Given)
  /\ emplacing \in Given \cup {None} /\ got \in Given \cup {None}

\* What the worker holds at each of its labels, and which processor is there.
Labels ==
  /\ got # None <=> worker \in {"call", "requeue", "giveBack"}
  /\ worker \in {"dequeue", "take"} => V4l2 /\ capDone # <<>>
  /\ worker \in {"call", "requeue"} => kind # "jetsonScaler"
  /\ worker = "giveBack" => kind = "jetsonScaler"
  /\ life \in {"none", "joining"} => emplacing = None
  /\ life = "none" => worker = "ended"
  /\ Up => worker # "ended" \/ kind = "jetsonEncoder"
  /\ Up /\ (abort \/ worker = "ended") => kind = "jetsonEncoder" /\ faults > 0

\* An input buffer is in one place at most, and in one while nothing has failed.
Inputs ==
  /\ Distinct(inQ) /\ IsInjective(outDone)
  /\ Items(inQ) \cap Range(outDone) = {}
  /\ V4l2 => free \cap (Items(inQ) \cup Range(outDone)) = {}
  /\ Up /\ kind = "jetsonEncoder" => NumQueued <= BufferNum
  /\ V4l2 /\ Up /\ faults = 0 => Bufs \subseteq free \cup Items(inQ) \cup Range(outDone)

\* So is a capture buffer.
Captures == kind # "jetsonScaler" =>
  /\ Distinct(capDone) /\ capFree \cap Items(capDone) = {}
  /\ Holding(got) \cap (capFree \cup Items(capDone)) = {}
  /\ Up /\ faults = 0 => Bufs \subseteq capFree \cup Items(capDone) \cup Holding(got)

\* And a buffer of the Jetson scaler, which no fault loses.
Scaled == kind = "jetsonScaler" /\ Up =>
  /\ Distinct(tasks)
  /\ free \cap Items(tasks) = {} /\ Holding(emplacing) \cap (free \cup Items(tasks)) = {}
  /\ Holding(got) \cap (free \cup Items(tasks) \cup Holding(emplacing)) = {}
  /\ Bufs \subseteq free \cup Items(tasks) \cup Holding(emplacing) \cup Holding(got)

\* The callbacks wait in the order of their frames, after the last one called.
InOrder ==
  /\ called.task <= offered
  /\ \A i \in DOMAIN tasks : called.task < tasks[i].frame /\ tasks[i].frame <= offered
  /\ \A i, j \in DOMAIN tasks : i < j => tasks[i].frame < tasks[j].frame
  /\ emplacing # None => /\ emplacing.frame = offered /\ called.task < offered
                         /\ \A i \in DOMAIN tasks : tasks[i].frame < offered

\* The end of the stream is on its way only once the processor is released.
Unended == Up =>
  /\ \A i \in DOMAIN inQ : inQ[i].frame <= offered
  /\ \A i \in DOMAIN capDone : capDone[i].frame <= offered
  /\ got.frame <= offered

\* The frames on their way out, oldest first: at the callback, filled, queued.
InHand == IF worker = "call" THEN 1 ELSE 0
NumOut == InHand + Len(capDone) + Len(inQ)
Out(i) == IF i <= InHand THEN got.frame
          ELSE IF i <= InHand + Len(capDone) THEN capDone[i - InHand].frame
          ELSE inQ[i - InHand - Len(capDone)].frame

\* The callbacks, oldest first: registered, about to be.
NumTasks == Len(tasks) + (IF emplacing # None THEN 1 ELSE 0)
Task(i) == IF i <= Len(tasks) THEN tasks[i].frame ELSE emplacing.frame

\* The i-th frame to come out meets the i-th callback.
Aligned == kind # "jetsonScaler" /\ worker # "ended" =>
  /\ Up => NumOut <= NumTasks /\ (~raced => NumOut = NumTasks)
  /\ \A i \in 1 .. NumOut : i <= NumTasks =>
        Out(i) >= Task(i) /\ (~raced => Out(i) = Task(i))

IInv == TypeOK /\ Queues /\ Labels /\ Inputs /\ Captures /\ Scaled /\ InOrder /\ Unended
        /\ Aligned /\ OwnFrame
-----------------------------------------------------------------------------
\* What is assumed of the constants.
LEMMA Constants ==
  /\ BufferNum \in Nat /\ BufferNum > 0 /\ QueueMax \in Nat /\ 2 * BufferNum <= QueueMax
  /\ MaxFrames \in Nat /\ MaxFaults \in Nat
  /\ Kinds \subseteq V4l2Kinds \cup {"jetsonEncoder", "jetsonScaler"}
  BY CodecAssumption

\* The callbacks' queue has room for those of the scaler's buffers.
LEMMA TaskBound ==
  /\ TaskMax \in Nat /\ BufferNum <= TaskMax
  /\ kind # "jetsonScaler" => TaskMax = QueueMax
  BY Constants DEF TaskMax

\* Elements at the end and from the front of a queue.
LEMMA Appended ==
  ASSUME NEW q \in Seq(Given), NEW e \in Given
  PROVE  /\ Append(q, e) \in Seq(Given) /\ Len(Append(q, e)) = Len(q) + 1
         /\ \A i \in 1 .. Len(q) : Append(q, e)[i] = q[i]
         /\ Append(q, e)[Len(q) + 1] = e
         /\ DOMAIN q = 1 .. Len(q) /\ DOMAIN Append(q, e) = 1 .. Len(q) + 1
         /\ Len(q) \in Nat
  OBVIOUS

LEMMA Shortened ==
  ASSUME NEW q \in Seq(Given), q # <<>>
  PROVE  /\ Tail(q) \in Seq(Given) /\ Len(Tail(q)) = Len(q) - 1 /\ q[1] \in Given
         /\ \A i \in 1 .. Len(q) - 1 : Tail(q)[i] = q[i + 1]
         /\ DOMAIN q = 1 .. Len(q) /\ DOMAIN Tail(q) = 1 .. Len(q) - 1
         /\ Len(q) \in Nat \ {0}
<1>1. Len(q) \in Nat \ {0}
  BY EmptySeq
<1> QED
  BY <1>1

\* The buffers of a queue that grows or shrinks.
LEMMA ItemsAppended ==
  ASSUME NEW q \in Seq(Given), NEW e \in Given
  PROVE  /\ Items(Append(q, e)) = Items(q) \cup {e.buf}
         /\ Distinct(q) /\ e.buf \notin Items(q) => Distinct(Append(q, e))
<1> DEFINE a == Append(q, e)
           n == Len(q)
<1>1. /\ \A i \in 1 .. n : a[i] = q[i]
      /\ a[n + 1] = e
      /\ DOMAIN q = 1 .. n /\ DOMAIN a = 1 .. n + 1 /\ n \in Nat
  BY Appended
<1> HIDE DEF a, n
<1>2. Items(a) = Items(q) \cup {e.buf}
  <2>1. Items(a) \subseteq Items(q) \cup {e.buf}
    <3> SUFFICES ASSUME NEW i \in 1 .. n + 1 PROVE a[i].buf \in Items(q) \cup {e.buf}
      BY <1>1 DEF Items
    <3>1. CASE i = n + 1
      BY <1>1, <3>1
    <3>2. CASE i \in 1 .. n
      BY <1>1, <3>2 DEF Items
    <3> QED
      BY <1>1, <3>1, <3>2
  <2>2. Items(q) \subseteq Items(a)
    <3> SUFFICES ASSUME NEW i \in 1 .. n PROVE q[i].buf \in Items(a)
      BY <1>1 DEF Items
    <3>1. a[i].buf = q[i].buf /\ i \in DOMAIN a
      BY <1>1
    <3> QED
      BY <3>1 DEF Items
  <2>3. e.buf \in Items(a)
    <3>1. n + 1 \in DOMAIN a
      BY <1>1
    <3> QED
      BY <1>1, <3>1 DEF Items
  <2> QED
    BY <2>1, <2>2, <2>3
<1>3. ASSUME Distinct(q), e.buf \notin Items(q)
      PROVE  Distinct(a)
  <2> SUFFICES ASSUME NEW i \in 1 .. n + 1, NEW j \in 1 .. n + 1, a[i].buf = a[j].buf
               PROVE  i = j
    BY <1>1 DEF Distinct
  <2>1. \A k \in 1 .. n : a[k].buf # e.buf
    BY <1>1, <1>3 DEF Items
  <2>2. CASE i \in 1 .. n /\ j \in 1 .. n
    BY <1>1, <1>3, <2>2 DEF Distinct
  <2>3. CASE ~(i \in 1 .. n /\ j \in 1 .. n)
    BY <1>1, <2>1, <2>3
  <2> QED
    BY <2>2, <2>3
<1> QED
  BY <1>2, <1>3 DEF a

LEMMA ItemsShortened ==
  ASSUME NEW q \in Seq(Given), q # <<>>
  PROVE  /\ Items(q) = Items(Tail(q)) \cup {q[1].buf}
         /\ Distinct(q) => Distinct(Tail(q)) /\ q[1].buf \notin Items(Tail(q))
<1> DEFINE t == Tail(q)
           n == Len(q)
<1>1. /\ \A i \in 1 .. n - 1 : t[i] = q[i + 1]
      /\ DOMAIN q = 1 .. n /\ DOMAIN t = 1 .. n - 1 /\ n \in Nat \ {0}
  BY Shortened
<1> HIDE DEF t, n
<1>2. Items(q) = Items(t) \cup {q[1].buf}
  <2>1. Items(q) \subseteq Items(t) \cup {q[1].buf}
    <3> SUFFICES ASSUME NEW i \in 1 .. n PROVE q[i].buf \in Items(t) \cup {q[1].buf}
      BY <1>1 DEF Items
    <3>1. CASE i = 1
      BY <3>1
    <3>2. CASE i # 1
      <4>1. i - 1 \in 1 .. n - 1 /\ t[i - 1] = q[i]
        BY <1>1, <3>2
      <4> QED
        BY <1>1, <4>1 DEF Items
    <3> QED
      BY <3>1, <3>2
  <2>2. Items(t) \subseteq Items(q)
    <3> SUFFICES ASSUME NEW i \in 1 .. n - 1 PROVE t[i].buf \in Items(q)
      BY <1>1 DEF Items
    <3>1. i + 1 \in DOMAIN q /\ t[i] = q[i + 1]
      BY <1>1
    <3> QED
      BY <3>1 DEF Items
  <2>3. q[1].buf \in Items(q)
    <3>1. 1 \in DOMAIN q
      BY <1>1
    <3> QED
      BY <3>1 DEF Items
  <2> QED
    BY <2>1, <2>2, <2>3
<1>3. ASSUME Distinct(q)
      PROVE  Distinct(t) /\ q[1].buf \notin Items(t)
  <2>1. \A i \in 1 .. n - 1 : i + 1 \in DOMAIN q /\ t[i] = q[i + 1]
    BY <1>1
  <2>2. ASSUME NEW i \in 1 .. n - 1, NEW j \in 1 .. n - 1, t[i].buf = t[j].buf
        PROVE  i = j
    <3>1. i + 1 = j + 1
      BY <1>3, <2>1, <2>2 DEF Distinct
    <3> QED
      BY <3>1
  <2>3. ASSUME NEW i \in 1 .. n - 1
        PROVE  t[i].buf # q[1].buf
    <3>1. 1 \in DOMAIN q /\ i + 1 # 1
      BY <1>1
    <3> QED
      BY <1>3, <2>1, <3>1 DEF Distinct
  <2> QED
    BY <1>1, <2>2, <2>3 DEF Distinct, Items
<1> QED
  BY <1>2, <1>3 DEF t

\* The same of a queue of buffers alone.
LEMMA ReadAppended ==
  ASSUME NEW q \in Seq(Bufs), NEW e \in Bufs
  PROVE  /\ Append(q, e) \in Seq(Bufs) /\ Len(Append(q, e)) = Len(q) + 1
         /\ Range(Append(q, e)) = Range(q) \cup {e}
         /\ IsInjective(q) /\ e \notin Range(q) => IsInjective(Append(q, e))
         /\ Len(q) \in Nat
<1> DEFINE a == Append(q, e)
           n == Len(q)
<1>1. /\ \A i \in 1 .. n : a[i] = q[i]
      /\ a[n + 1] = e
      /\ DOMAIN q = 1 .. n /\ DOMAIN a = 1 .. n + 1 /\ n \in Nat
      /\ a \in Seq(Bufs) /\ Len(a) = n + 1
  OBVIOUS
<1> HIDE DEF a, n
<1>2. Range(a) = Range(q) \cup {e}
  <2>1. \A i \in 1 .. n + 1 : a[i] \in Range(q) \cup {e}
    BY <1>1 DEF Range
  <2>2. \A i \in 1 .. n : i \in DOMAIN a /\ a[i] = q[i]
    BY <1>1
  <2>3. n + 1 \in DOMAIN a
    BY <1>1
  <2> QED
    BY <1>1, <2>1, <2>2, <2>3 DEF Range
<1>3. ASSUME IsInjective(q), e \notin Range(q), NEW i \in 1 .. n + 1, NEW j \in 1 .. n + 1,
             a[i] = a[j]
      PROVE  i = j
  <2>1. \A k \in 1 .. n : a[k] # e
    BY <1>1, <1>3 DEF Range
  <2>2. CASE i \in 1 .. n /\ j \in 1 .. n
    BY <1>1, <1>3, <2>2 DEF IsInjective
  <2>3. CASE ~(i \in 1 .. n /\ j \in 1 .. n)
    BY <1>1, <1>3, <2>1, <2>3
  <2> QED
    BY <2>2, <2>3
<1>4. IsInjective(q) /\ e \notin Range(q) => IsInjective(a)
  BY <1>1, <1>3 DEF IsInjective
<1> QED
  BY <1>1, <1>2, <1>4 DEF a, n

LEMMA ReadShortened ==
  ASSUME NEW q \in Seq(Bufs), q # <<>>
  PROVE  /\ Tail(q) \in Seq(Bufs) /\ Len(Tail(q)) = Len(q) - 1 /\ q[1] \in Bufs
         /\ Range(q) = Range(Tail(q)) \cup {q[1]}
         /\ IsInjective(q) => IsInjective(Tail(q)) /\ q[1] \notin Range(Tail(q))
         /\ Len(q) \in Nat \ {0}
<1> DEFINE t == Tail(q)
           n == Len(q)
<1>0. n \in Nat \ {0}
  BY EmptySeq
<1>1. /\ \A i \in 1 .. n - 1 : t[i] = q[i + 1]
      /\ DOMAIN q = 1 .. n /\ DOMAIN t = 1 .. n - 1
      /\ t \in Seq(Bufs) /\ Len(t) = n - 1 /\ q[1] \in Bufs
  BY <1>0
<1> HIDE DEF t, n
<1>2. \A i \in 1 .. n - 1 : i + 1 \in DOMAIN q /\ t[i] = q[i + 1] /\ i + 1 # 1
  BY <1>0, <1>1
<1>3. 1 \in DOMAIN q
  BY <1>0, <1>1
<1>4. Range(q) = Range(t) \cup {q[1]}
  <2>1. ASSUME NEW i \in 1 .. n
        PROVE  q[i] \in Range(t) \cup {q[1]}
    <3>1. CASE i = 1
      BY <3>1
    <3>2. CASE i # 1
      <4>1. i - 1 \in 1 .. n - 1 /\ t[i - 1] = q[i]
        BY <1>0, <1>1, <3>2
      <4> QED
        BY <1>1, <4>1 DEF Range
    <3> QED
      BY <3>1, <3>2
  <2>2. Range(q) \subseteq Range(t) \cup {q[1]}
    BY <1>1, <2>1 DEF Range
  <2>3. Range(t) \subseteq Range(q)
    BY <1>1, <1>2 DEF Range
  <2>4. q[1] \in Range(q)
    BY <1>3 DEF Range
  <2> QED
    BY <2>2, <2>3, <2>4
<1>5. ASSUME IsInjective(q)
      PROVE  IsInjective(t) /\ q[1] \notin Range(t)
  <2>1. ASSUME NEW i \in 1 .. n - 1, NEW j \in 1 .. n - 1, t[i] = t[j]
        PROVE  i = j
    <3>1. i + 1 = j + 1
      BY <1>2, <1>5, <2>1 DEF IsInjective
    <3> QED
      BY <3>1
  <2>2. \A i \in 1 .. n - 1 : t[i] # q[1]
    BY <1>2, <1>3, <1>5 DEF IsInjective
  <2> QED
    BY <1>1, <2>1, <2>2 DEF IsInjective, Range
<1> QED
  BY <1>0, <1>1, <1>4, <1>5 DEF t, n

\* How many indices, and how many buffers there are.
LEMMA Interval ==
  ASSUME NEW n \in Nat
  PROVE  IsFiniteSet(1 .. n) /\ Cardinality(1 .. n) = n
<1>1. Cardinality(1 .. n) = IF 1 > n THEN 0 ELSE n - 1 + 1
  BY FS_Interval
<1>2. IsFiniteSet(1 .. n)
  BY FS_Interval
<1> QED
  BY <1>1, <1>2

LEMMA BufsCounted == IsFiniteSet(Bufs) /\ Cardinality(Bufs) = BufferNum
<1>1. 0 \in Int /\ BufferNum - 1 \in Int /\ ~(0 > BufferNum - 1) /\ BufferNum - 1 - 0 + 1 = BufferNum
  BY Constants
<1> QED
  BY <1>1, FS_Interval DEF Bufs

\* A queue of distinct buffers is as long as they are many.
LEMMA ItemsCounted ==
  ASSUME NEW q \in Seq(Given), Distinct(q)
  PROVE  /\ Items(q) \in SUBSET Bufs /\ IsFiniteSet(Items(q))
         /\ Cardinality(Items(q)) = Len(q) /\ Len(q) \in Nat
<1> DEFINE f == [i \in 1 .. Len(q) |-> q[i].buf]
<1>1. Len(q) \in Nat /\ DOMAIN q = 1 .. Len(q) /\ \A i \in 1 .. Len(q) : q[i] \in Given
  OBVIOUS
<1>2. Items(q) \in SUBSET Bufs
  BY <1>1 DEF Items, Given
<1>3. f \in Surjection(1 .. Len(q), Items(q))
  BY <1>1 DEF Surjection, Items
<1>4. f \in Injection(1 .. Len(q), Items(q))
  BY <1>1 DEF Injection, IsInjective, Items, Distinct
<1>5. IsFiniteSet(1 .. Len(q)) /\ Cardinality(1 .. Len(q)) = Len(q)
  BY <1>1, Interval
<1> HIDE DEF f
<1>6. IsFiniteSet(Items(q)) /\ Cardinality(Items(q)) = Len(q)
  BY <1>3, <1>4, <1>5, FS_Surjection
<1> QED
  BY <1>1, <1>2, <1>6

LEMMA ReadCounted ==
  ASSUME NEW q \in Seq(Bufs), IsInjective(q)
  PROVE  /\ Range(q) \in SUBSET Bufs /\ IsFiniteSet(Range(q))
         /\ Cardinality(Range(q)) = Len(q) /\ Len(q) \in Nat
<1>1. Len(q) \in Nat /\ DOMAIN q = 1 .. Len(q) /\ \A i \in 1 .. Len(q) : q[i] \in Bufs
  OBVIOUS
<1>2. Range(q) \in SUBSET Bufs
  BY <1>1 DEF Range
<1>3. q \in [1 .. Len(q) -> Range(q)]
  BY <1>1 DEF Range
<1>4. q \in Surjection(1 .. Len(q), Range(q))
  BY <1>1, <1>3 DEF Surjection, Range
<1>5. q \in Injection(1 .. Len(q), Range(q))
  BY <1>3 DEF Injection
<1>6. IsFiniteSet(1 .. Len(q)) /\ Cardinality(1 .. Len(q)) = Len(q)
  BY <1>1, Interval
<1>7. IsFiniteSet(Range(q)) /\ Cardinality(Range(q)) = Len(q)
  BY <1>4, <1>5, <1>6, FS_Surjection
<1> QED
  BY <1>1, <1>2, <1>7

\* A queue of distinct buffers has BufferNum of them at most, and fewer when one
\* is elsewhere.
LEMMA ItemsBounded ==
  ASSUME NEW q \in Seq(Given), Distinct(q)
  PROVE  /\ Len(q) <= BufferNum
         /\ \A b \in Bufs : b \notin Items(q) => Len(q) < BufferNum
<1>1. Len(q) <= BufferNum
  BY ItemsCounted, BufsCounted, FS_Subset
<1>2. ASSUME NEW b \in Bufs, b \notin Items(q)
      PROVE  Len(q) < BufferNum
  <2>1. Len(q) # BufferNum
    BY <1>2, ItemsCounted, BufsCounted, FS_Subset
  <2> QED
    BY <1>1, <2>1, ItemsCounted, Constants
<1> QED
  BY <1>1, <1>2
-----------------------------------------------------------------------------
\* TypeOK, conjunct by conjunct.
LEMMA Types ==
  ASSUME TypeOK
  PROVE  /\ kind \in Kinds /\ life \in {"none", "up", "joining", "dead"}
         /\ abort \in BOOLEAN /\ raced \in BOOLEAN
         /\ offered \in 0 .. MaxFrames /\ faults \in 0 .. MaxFaults
         /\ free \subseteq Bufs /\ capFree \subseteq Bufs /\ outDone \in Seq(Bufs)
         /\ worker \in {"loop", "dequeue", "take", "call", "requeue", "giveBack", "ended"}
         /\ called \in [task : 0 .. MaxFrames, frame : 0 .. Eos]
         /\ Len(tasks) <= TaskMax
  BY DEF TypeOK

\* A frame is never mistaken for None, nor a buffer for its absence.
LEMMA Frames ==
  /\ None \notin Given /\ None.frame = 0
  /\ Eos \in Nat /\ Eos > MaxFrames /\ Eos \in 1 .. Eos
  /\ \A b \in Bufs, f \in 1 .. Eos : Item(b, f) \in Given /\ Item(b, f) # None
  /\ \A b, f : Item(b, f).buf = b /\ Item(b, f).frame = f
  /\ \A g \in Given : g.buf \in Bufs /\ g.frame \in 1 .. Eos /\ g # None
<1>1. BufferNum \notin Bufs
  BY Constants DEF Bufs
<1> QED
  BY <1>1, Constants DEF None, Given, Eos, NoFrame, Item

\* The buffer that the Jetson encoder takes next is one of its buffers, and it is not
\* in the driver unless it is the oldest that was read.
LEMMA NextIsOutside ==
  ASSUME Queues, Inputs, outDone \in Seq(Bufs), Up, kind = "jetsonEncoder",
         PlaneFull => outDone # <<>>
  PROVE  /\ NextBuffer \in Bufs
         /\ PlaneFull => /\ NextBuffer = outDone[1]
                         /\ NextBuffer \notin Items(inQ) \cup Range(Tail(outDone))
         /\ ~PlaneFull => NumQueued < BufferNum
         /\ NumQueued \in Nat
<1>1. Len(inQ) \in Nat /\ Len(outDone) \in Nat /\ NumQueued \in Nat
  BY DEF Queues, NumQueued
<1>2. CASE PlaneFull
  <2>1. outDone # <<>>
    BY <1>2
  <2>2. /\ outDone[1] \in Bufs /\ Range(outDone) = Range(Tail(outDone)) \cup {outDone[1]}
        /\ outDone[1] \notin Range(Tail(outDone))
    BY <2>1, ReadShortened DEF Inputs
  <2>3. NextBuffer = outDone[1]
    BY <1>2 DEF NextBuffer
  <2> QED
    BY <1>1, <1>2, <2>2, <2>3 DEF Inputs
<1>3. CASE ~PlaneFull
  <2>1. NumQueued < BufferNum /\ NextBuffer = NumQueued
    BY <1>1, <1>3, Constants DEF Inputs, PlaneFull, NextBuffer
  <2> QED
    BY <1>1, <1>3, <2>1, Constants DEF Bufs
<1> QED
  BY <1>2, <1>3

\* So is the one that the end of the stream takes, if it is accepted.
LEMMA EosIsOutside ==
  ASSUME Queues, Inputs, outDone \in Seq(Bufs)
  PROVE  /\ EosBuffer \in Bufs
         /\ EosAccepted => /\ EosBuffer \notin Items(inQ)
                           /\ PlaneFull /\ outDone # <<>> => EosBuffer \notin Range(Tail(outDone))
                           /\ ~(PlaneFull /\ outDone # <<>>) => EosBuffer \notin Range(outDone)
<1>1. CASE PlaneFull /\ outDone # <<>>
  <2>1. /\ outDone[1] \in Bufs /\ outDone[1] \notin Range(Tail(outDone))
    BY <1>1, ReadShortened DEF Inputs
  <2> QED
    BY <1>1, <2>1 DEF EosBuffer, EosAccepted
<1>2. CASE ~(PlaneFull /\ outDone # <<>>)
  <2>1. 0 \in Bufs /\ EosBuffer = 0
    BY <1>2, Constants DEF Bufs, EosBuffer
  <2> QED
    BY <1>2, <2>1 DEF EosAccepted, Queued
<1> QED
  BY <1>1, <1>2
-----------------------------------------------------------------------------
\* The queues hold frames that were given to the processor.
LEMMA QueuesStep ==
  ASSUME TypeOK, Queues, Labels, Inputs, Next
  PROVE  Queues'
<1> USE Types, Frames
<1>0. CASE UNCHANGED <<inQ, capDone, tasks, emplacing, got>>
  BY <1>0 DEF Queues, Given
<1>1. CASE Create
  <2>1. CASE UNCHANGED <<inQ, capDone, tasks, emplacing, got>>
    BY <1>0, <2>1
  <2>2. CASE \E k, i, c : Created(k, i, c)
    BY <2>2 DEF Created, Queues, Given
  <2> QED
    BY <1>1, <2>1, <2>2 DEF Create, CreateEncoder, CreateDecoder, CreateScaler,
       CreateJetsonEncoder, CreateJetsonScaler, OpenDevice, CreateVideoEncoder, Initialize,
       Unusable, inVars, capVars, workVars
<1>2. CASE EmplaceDrops \/ EmplaceJetsonDrops \/ EmplaceJetsonFails
           \/ (\E b \in Bufs : EmplaceFails(b))
  BY <1>0, <1>2 DEF EmplaceDrops, EmplaceJetsonDrops, EmplaceJetsonFails, EmplaceFails, Offer,
     inVars, capVars, workVars
<1>3. ASSUME Offer
      PROVE  offered' \in 1 .. Eos /\ UNCHANGED <<capDone, tasks, got>>
  BY <1>3, Constants DEF Offer, capVars, workVars, Eos
<1>4. CASE \E b \in Bufs : EmplaceV4l2(b) \/ EmplaceTransform(b)
  <2> PICK b \in Bufs : EmplaceV4l2(b) \/ EmplaceTransform(b)
    BY <1>4
  <2>1. Offer
    BY DEF EmplaceV4l2, EmplaceTransform
  <2>2. Item(b, offered') \in Given
    BY <1>3, <2>1
  <2>3. /\ inQ' = Append(inQ, Item(b, offered')) \/ inQ' = inQ
        /\ emplacing' = Item(b, offered')
    BY DEF EmplaceV4l2, EmplaceTransform
  <2>4. inQ' \in Seq(Given)
    <3>1. Append(inQ, Item(b, offered')) \in Seq(Given)
      BY <2>2, Appended DEF Queues
    <3> QED
      BY <2>3, <3>1 DEF Queues
  <2> QED
    BY <1>3, <2>1, <2>2, <2>3, <2>4 DEF Queues, Given
<1>5. CASE EmplaceJetson
  <2>1. Offer
    BY <1>5 DEF EmplaceJetson
  <2>2. NextBuffer \in Bufs
    BY <1>5, NextIsOutside DEF EmplaceJetson, Offer
  <2>3. Item(NextBuffer, offered') \in Given
    BY <1>3, <2>1, <2>2
  <2>4. /\ inQ' = Append(inQ, Item(NextBuffer, offered')) \/ inQ' = inQ
        /\ emplacing' \in {Item(NextBuffer, offered'), None}
    BY <1>5 DEF EmplaceJetson
  <2>5. inQ' \in Seq(Given)
    <3>1. Append(inQ, Item(NextBuffer, offered')) \in Seq(Given)
      BY <2>3, Appended DEF Queues
    <3> QED
      BY <2>4, <3>1 DEF Queues
  <2> QED
    BY <1>3, <2>1, <2>3, <2>4, <2>5 DEF Queues, Given
<1>6. CASE Register
  <2>1. emplacing \in Given /\ emplacing' = None /\ UNCHANGED <<inQ, capDone, got>>
    BY <1>6 DEF Register, Queues, capVars, workVars
  <2>2. tasks' \in Seq(Given)
    BY <1>6, <2>1 DEF Register, Queues
  <2> QED
    BY <2>1, <2>2 DEF Queues, Given
<1>7. CASE Process
  <2>1. inQ # <<>> /\ inQ' = Tail(inQ) /\ UNCHANGED <<tasks, emplacing, got>>
    BY <1>7 DEF Process, workVars
  <2>2. PICK c \in Bufs : capDone' = Append(capDone, Item(c, inQ[1].frame))
    BY <1>7 DEF Process
  <2>3. inQ[1] \in Given /\ inQ' \in Seq(Given)
    BY <2>1, Shortened DEF Queues
  <2>4. Item(c, inQ[1].frame) \in Given
    BY <2>3
  <2>5. capDone' \in Seq(Given)
    BY <2>2, <2>4 DEF Queues
  <2> QED
    BY <2>1, <2>3, <2>5 DEF Queues, Given
<1>8. CASE DecoderEvent \/ DequeueFails \/ DequeueJetsonFails
  BY <1>0, <1>8 DEF DecoderEvent, DequeueFails, DequeueJetsonFails, Goes, callerVars, inVars,
     capVars, workVars
<1>9. CASE Select \/ DequeueOutput
  BY <1>0, <1>9 DEF Select, DequeueOutput, Goes, callerVars, capVars
<1>10. CASE DequeueCapture \/ DequeueJetson
  <2>1. /\ capDone # <<>> /\ got' = capDone[1] /\ capDone' = Tail(capDone)
        /\ UNCHANGED <<inQ, tasks, emplacing>>
    BY <1>10 DEF DequeueCapture, DequeueJetson, Labels, Goes, callerVars
  <2>2. capDone[1] \in Given /\ capDone' \in Seq(Given)
    BY <2>1, Shortened DEF Queues
  <2> QED
    BY <2>1, <2>2 DEF Queues, Given
<1>11. CASE CallEncoded \/ CallScaled
  <2>1. /\ UNCHANGED <<inQ, emplacing, capDone>>
        /\ tasks' = tasks \/ (tasks # <<>> /\ tasks' = Tail(tasks))
        /\ got' = got \/ (tasks # <<>> /\ got' = tasks[1])
    <3>1. CASE CallEncoded
      BY <3>1 DEF CallEncoded, Popped, Goes, callerVars, capVars
    <3>2. CASE CallScaled
      BY <3>2 DEF CallScaled, Popped, Goes, callerVars, capVars
    <3> QED
      BY <1>11, <3>1, <3>2
  <2>2. tasks' \in Seq(Given)
    BY <2>1, Shortened DEF Queues
  <2>3. got' \in Given \cup {None}
    BY <2>1, Shortened DEF Queues
  <2> QED
    BY <2>1, <2>2, <2>3 DEF Queues, Given
<1>12. CASE Requeue \/ RequeueFails \/ WorkerEnds \/ GiveBackScaled
  <2>1. UNCHANGED <<inQ, emplacing, capDone, tasks>> /\ got' = None
    BY <1>12 DEF Requeue, RequeueFails, WorkerEnds, GiveBackScaled, Goes, callerVars, inVars, capVars
  <2> QED
    BY <2>1 DEF Queues, Given
<1>13. CASE Release
  <2>1. UNCHANGED <<emplacing, capDone, tasks, got>>
    BY <1>13 DEF Release, capVars, workVars
  <2>2. inQ' = inQ \/ inQ' = Append(inQ, Item(EosBuffer, Eos))
    BY <1>13 DEF Release
  <2>3. Item(EosBuffer, Eos) \in Given
    BY EosIsOutside
  <2>4. inQ' \in Seq(Given)
    <3>1. Append(inQ, Item(EosBuffer, Eos)) \in Seq(Given)
      BY <2>3, Appended DEF Queues
    <3> QED
      BY <2>2, <3>1 DEF Queues
  <2> QED
    BY <2>1, <2>4 DEF Queues, Given
<1>14. CASE Released
  BY <1>14 DEF Released, workVars, Queues, Given
<1> QED
  BY <1>1, <1>2, <1>4, <1>5, <1>6, <1>7, <1>8, <1>9, <1>10, <1>11, <1>12, <1>13, <1>14
  DEF Next, EmplaceBuffer, CaptureBuffer
-----------------------------------------------------------------------------
\* What a creation leaves behind.
Fresh ==
  /\ life = "none" /\ life' = "up" /\ abort' = FALSE /\ worker' = "loop"
  /\ inQ' = <<>> /\ outDone' = <<>> /\ capDone' = <<>> /\ tasks' = <<>>
  /\ UNCHANGED <<kind, offered, emplacing, got, called, raced, faults>>
  /\ V4l2 => free' = Bufs /\ capFree' = Bufs
  /\ kind = "jetsonEncoder" => free' = {} /\ capFree' = Bufs
  /\ kind = "jetsonScaler" => free' = Bufs /\ capFree' = {}
Spoiled ==
  /\ life = "none" /\ life' = "dead" /\ Fault
  /\ UNCHANGED <<kind, abort, offered, inVars, capVars, tasks, workVars>>

LEMMA Creation ==
  ASSUME Create
  PROVE  Fresh \/ Spoiled
<1> USE DEF Created, Fresh, V4l2, V4l2Kinds
<1>1. CASE CreateEncoder
  BY <1>1 DEF CreateEncoder, PrepareBuffer
<1>2. CASE CreateDecoder
  BY <1>2 DEF CreateDecoder, PrepareBuffer
<1>3. CASE CreateScaler
  BY <1>3 DEF CreateScaler, PrepareBuffer
<1>4. CASE CreateJetsonEncoder
  BY <1>4 DEF CreateJetsonEncoder, PrepareCaptureBuffer
<1>5. CASE CreateJetsonScaler
  BY <1>5 DEF CreateJetsonScaler
<1>6. CASE OpenDevice \/ CreateVideoEncoder \/ Initialize
  BY <1>6 DEF OpenDevice, CreateVideoEncoder, Initialize, Unusable, Spoiled
<1> QED
  BY <1>1, <1>2, <1>3, <1>4, <1>5, <1>6 DEF Create

\* The kinds exclude each other.
LEMMA NotAllKinds ==
  ASSUME TypeOK
  PROVE  /\ ~(V4l2 /\ kind = "jetsonEncoder") /\ ~(V4l2 /\ kind = "jetsonScaler")
         /\ V4l2 \/ kind \in {"jetsonEncoder", "jetsonScaler"}
  BY Types, Constants DEF V4l2, V4l2Kinds

\* What the worker holds and may do at each of its labels.
LEMMA LabelsStep ==
  ASSUME TypeOK, Queues, Labels, Unended, Next
  PROVE  Labels'
<1> USE Types, Frames, NotAllKinds DEF Labels, Up
<1>0. CASE UNCHANGED <<kind, life, abort, worker, got, capDone, emplacing, faults>>
  BY <1>0 DEF V4l2
<1>1. CASE Create
  <2>1. CASE Fresh
    BY <2>1 DEF Fresh, V4l2
  <2>2. CASE Spoiled
    BY <2>2 DEF Spoiled, inVars, capVars, workVars, V4l2
  <2> QED
    BY <1>1, <2>1, <2>2, Creation
<1>2. CASE EmplaceBuffer
  <2>1. /\ Offer /\ (faults > 0 => faults' > 0)
    BY <1>2 DEF EmplaceBuffer, EmplaceDrops, EmplaceJetsonDrops, EmplaceJetsonFails, EmplaceFails,
       EmplaceV4l2, EmplaceTransform, EmplaceJetson, Fault
  <2>2. UNCHANGED <<kind, life, abort, worker, got, capDone>> /\ life = "up"
    BY <2>1 DEF Offer, capVars, workVars
  <2> HIDE <1>2
  <2> QED
    BY <2>1, <2>2 DEF V4l2
<1>3. CASE Register
  BY <1>3 DEF Register, callerVars, capVars, workVars, V4l2
<1>4. CASE Process
  <2>1. /\ UNCHANGED <<kind, life, abort, worker, got, emplacing, faults>>
        /\ inQ # <<>>
    BY <1>4 DEF Process, callerVars, workVars
  <2>2. PICK c \in Bufs : capDone' = Append(capDone, Item(c, inQ[1].frame))
    BY <1>4 DEF Process
  <2>3. Item(c, inQ[1].frame) \in Given
    BY <2>1, Shortened DEF Queues
  <2>4. capDone' # <<>>
    BY <2>2, <2>3, Appended DEF Queues
  <2> QED
    BY <2>1, <2>4 DEF V4l2
<1>5. CASE DecoderEvent
  BY <1>5 DEF DecoderEvent, inVars, capVars, workVars, V4l2
<1>6. CASE Select
  BY <1>6 DEF Select, Goes, callerVars, capVars, V4l2
<1>7. CASE DequeueOutput
  BY <1>7 DEF DequeueOutput, Goes, callerVars, capVars, V4l2
<1>8. CASE DequeueCapture \/ DequeueJetson
  <2>1. /\ capDone # <<>> /\ got' = capDone[1] /\ worker' = "call" /\ kind # "jetsonScaler"
        /\ UNCHANGED <<kind, life, abort, emplacing, faults>> /\ worker # "ended"
    BY <1>8 DEF DequeueCapture, DequeueJetson, Goes, callerVars
  <2>2. got' \in Given
    BY <2>1, Shortened DEF Queues
  <2> QED
    BY <2>1, <2>2 DEF V4l2
<1>9. CASE DequeueFails \/ DequeueJetsonFails
  <2>1. CASE DequeueFails
    BY <2>1 DEF DequeueFails, Goes, callerVars, capVars, V4l2, Fault
  <2>2. CASE DequeueJetsonFails
    <3>1. /\ UNCHANGED <<kind, life, capDone, emplacing, got>> /\ kind = "jetsonEncoder"
          /\ worker = "loop" /\ worker' = "ended" /\ faults' = faults + 1
          /\ life \in {"up", "joining"} /\ faults \in Nat
      BY <2>2, Constants DEF DequeueJetsonFails, Fault, Running, inVars, capVars, TypeOK
    <3> QED
      BY <3>1 DEF V4l2
  <2> QED
    BY <1>9, <2>1, <2>2
<1>10. CASE CallEncoded
  BY <1>10 DEF CallEncoded, Goes, callerVars, capVars, V4l2
<1>11. CASE Requeue
  <2>1. /\ UNCHANGED <<kind, life, abort, capDone, emplacing, faults>> /\ got' = None
        /\ worker' = IF got.frame = Eos THEN "ended" ELSE "loop"
        /\ worker = "requeue" /\ life \in {"up", "joining"}
    BY <1>11 DEF Requeue, Goes, callerVars, Running
  <2>2. life = "up" => got.frame # Eos
    BY Constants DEF Unended, Eos
  <2> QED
    BY <2>1, <2>2 DEF V4l2
<1>12. CASE RequeueFails
  BY <1>12 DEF RequeueFails, inVars, capVars, V4l2, Fault, Running
<1>13. CASE WorkerEnds
  BY <1>13 DEF WorkerEnds, callerVars, inVars, capVars, V4l2, Running
<1>14. CASE CallScaled
  <2>1. /\ tasks # <<>> /\ got' = tasks[1] /\ worker' = "giveBack" /\ kind = "jetsonScaler"
        /\ UNCHANGED <<kind, life, abort, emplacing, faults, capDone>> /\ worker = "loop"
    BY <1>14 DEF CallScaled, Popped, Goes, callerVars, capVars
  <2>2. got' \in Given
    BY <2>1, Shortened DEF Queues
  <2> QED
    BY <2>1, <2>2 DEF V4l2
<1>15. CASE GiveBackScaled
  BY <1>15 DEF GiveBackScaled, Goes, callerVars, capVars, V4l2
<1>16. CASE Release
  BY <1>16 DEF Release, capVars, workVars, V4l2
<1>17. CASE Released
  BY <1>17 DEF Released, workVars, V4l2
<1> QED
  BY <1>1, <1>2, <1>3, <1>4, <1>5, <1>6, <1>7, <1>8, <1>9, <1>10, <1>11, <1>12, <1>13, <1>14,
     <1>15, <1>16, <1>17 DEF Next, CaptureBuffer
-----------------------------------------------------------------------------
\* A queue that was emptied holds nothing.
LEMMA Emptied ==
  /\ Distinct(<<>>) /\ Items(<<>>) = {} /\ IsInjective(<<>>) /\ Range(<<>>) = {}
  /\ Len(<<>>) = 0
  BY DEF Distinct, Items, IsInjective, Range

\* Every input buffer is in one place.
LEMMA InputsStep ==
  ASSUME TypeOK, Queues, Labels, Inputs, Next
  PROVE  Inputs'
<1> USE Types, Frames, NotAllKinds DEF Up, V4l2
<1>0. CASE /\ UNCHANGED <<kind, inQ, outDone, free>>
           /\ life' = "up" => life = "up"
           /\ faults' = 0 => faults = 0
  BY <1>0 DEF Inputs, NumQueued
<1>a. ASSUME Fault
      PROVE  faults' # 0
  BY <1>a DEF Fault
<1>1. CASE Create
  <2>1. CASE Fresh
    BY <2>1, Emptied, Constants DEF Fresh, Inputs, NumQueued
  <2>2. CASE Spoiled
    BY <1>0, <1>a, <2>2 DEF Spoiled, inVars
  <2> QED
    BY <1>1, <2>1, <2>2, Creation
<1>2. CASE EmplaceDrops \/ EmplaceJetsonDrops \/ (\E b \in Bufs : EmplaceFails(b) \/ EmplaceTransform(b))
  <2>1. CASE EmplaceDrops \/ EmplaceJetsonDrops
    BY <1>0, <2>1 DEF EmplaceDrops, EmplaceJetsonDrops, Offer, inVars
  <2>2. ASSUME NEW b \in Bufs, EmplaceFails(b)
        PROVE  Inputs'
    BY <1>0, <1>a, <2>2 DEF EmplaceFails, Offer, inVars
  <2>3. ASSUME NEW b \in Bufs, EmplaceTransform(b)
        PROVE  Inputs'
    BY <2>3 DEF EmplaceTransform, Offer, Inputs, NumQueued
  <2> QED
    BY <1>2, <2>1, <2>2, <2>3
<1>3. ASSUME NEW b \in Bufs, EmplaceV4l2(b)
      PROVE  Inputs'
  <2> DEFINE e == Item(b, offered')
  <2>1. /\ b \in free /\ inQ' = Append(inQ, e) /\ free' = free \ {b}
        /\ UNCHANGED <<kind, life, outDone, faults>> /\ kind \in V4l2Kinds /\ kind # "jetsonEncoder"
    BY <1>3 DEF EmplaceV4l2, Offer
  <2>2. e \in Given /\ e.buf = b
    <3>1. offered' \in 1 .. Eos
      BY <1>3, Constants DEF EmplaceV4l2, Offer, Eos
    <3> QED
      BY <3>1
  <2> HIDE DEF e
  <2>3. b \notin Items(inQ) \cup Range(outDone)
    BY <2>1 DEF Inputs
  <2>4. Items(inQ') = Items(inQ) \cup {b} /\ Distinct(inQ')
    <3>1. inQ \in Seq(Given) /\ Distinct(inQ) /\ e.buf \notin Items(inQ)
      BY <2>2, <2>3 DEF Inputs, Queues
    <3> QED
      BY <2>1, <2>2, <3>1, ItemsAppended
  <2> QED
    BY <2>1, <2>3, <2>4 DEF Inputs
<1>4. CASE EmplaceJetson \/ EmplaceJetsonFails
  <2>1. /\ Up /\ kind = "jetsonEncoder" /\ (PlaneFull => outDone # <<>>)
        /\ outDone' = (IF PlaneFull THEN Tail(outDone) ELSE outDone)
        /\ UNCHANGED <<kind, life>>
        /\ \/ inQ' = inQ
           \/ /\ inQ' = Append(inQ, Item(NextBuffer, offered'))
              /\ ~PlaneFull => NextBuffer \notin Queued
        /\ offered' \in 1 .. Eos
    <3>0. ASSUME Offer
          PROVE  offered' \in 1 .. Eos
      BY <3>0, Constants DEF Offer, Eos
    <3>1. CASE EmplaceJetson
      <4>1. \/ inQ' = inQ
            \/ /\ inQ' = Append(inQ, Item(NextBuffer, offered'))
               /\ ~PlaneFull => NextBuffer \notin Queued
        BY <3>1 DEF EmplaceJetson
      <4> QED
        BY <3>0, <3>1, <4>1 DEF EmplaceJetson, Offer
    <3>2. CASE EmplaceJetsonFails
      BY <3>0, <3>2 DEF EmplaceJetsonFails, Offer
    <3> QED
      BY <1>4, <3>1, <3>2
  <2> DEFINE e == Item(NextBuffer, offered')
  <2>2. /\ NextBuffer \in Bufs
        /\ PlaneFull => NextBuffer \notin Items(inQ) \cup Range(Tail(outDone))
        /\ ~PlaneFull => NumQueued < BufferNum
        /\ NumQueued \in Nat
    BY <2>1, NextIsOutside
  <2>3. e \in Given /\ e.buf = NextBuffer
    BY <2>1, <2>2
  <2> HIDE DEF e
  <2>4. /\ IsInjective(outDone') /\ Range(outDone') \subseteq Range(outDone)
        /\ NextBuffer \notin Range(outDone') \/ inQ' = inQ
        /\ outDone' \in Seq(Bufs)
        /\ Len(outDone') = (IF PlaneFull THEN Len(outDone) - 1 ELSE Len(outDone))
        /\ Len(outDone) \in Nat
    BY <2>1, <2>2, ReadShortened DEF Inputs, Queued
  <2>5. \/ inQ' = inQ
        \/ /\ inQ' = Append(inQ, e) /\ NextBuffer \notin Items(inQ)
    BY <2>1, <2>2 DEF Queued, e
  <2>6. CASE inQ' = inQ
    <3>1. NumQueued' <= BufferNum
      BY <2>1, <2>4, <2>6, Constants DEF NumQueued, Inputs, PlaneFull, Queues
    <3> QED
      BY <2>1, <2>4, <2>6, <3>1 DEF Inputs
  <2>7. CASE inQ' = Append(inQ, e) /\ NextBuffer \notin Items(inQ) /\ inQ' # inQ
    <3>1. /\ Items(inQ') = Items(inQ) \cup {NextBuffer} /\ Distinct(inQ')
          /\ Len(inQ') = Len(inQ) + 1 /\ Len(inQ) \in Nat
      <4>1. inQ \in Seq(Given) /\ Distinct(inQ) /\ e.buf \notin Items(inQ)
        BY <2>3, <2>7 DEF Inputs, Queues
      <4> QED
        BY <2>3, <2>7, <4>1, ItemsAppended, Appended
    <3>2. NumQueued' <= BufferNum
      <4> DEFINE i == Len(inQ)
                 o == Len(outDone)
      <4>1. i \in Nat /\ o \in Nat /\ NumQueued = i + o
        BY <2>4, <3>1 DEF NumQueued
      <4>2. NumQueued' = i + 1 + (IF PlaneFull THEN o - 1 ELSE o)
        BY <2>4, <3>1 DEF NumQueued
      <4> HIDE DEF i, o
      <4>3. CASE PlaneFull
        <5>1. NumQueued = BufferNum
          BY <4>3 DEF PlaneFull
        <5> QED
          BY <4>1, <4>2, <4>3, <5>1, Constants
      <4>4. CASE ~PlaneFull
        BY <2>2, <4>1, <4>2, <4>4, Constants
      <4> QED
        BY <4>3, <4>4
    <3> QED
      BY <2>1, <2>4, <2>7, <3>1, <3>2 DEF Inputs
  <2> QED
    BY <2>5, <2>6, <2>7
<1>5. CASE Register
  BY <1>0, <1>5 DEF Register, callerVars
<1>6. CASE Process
  <2>1. /\ inQ # <<>> /\ inQ' = Tail(inQ) /\ outDone' = Append(outDone, inQ[1].buf)
        /\ UNCHANGED <<kind, life, free, faults>>
    BY <1>6 DEF Process, callerVars
  <2>2. /\ inQ[1].buf \in Bufs /\ Items(inQ) = Items(inQ') \cup {inQ[1].buf}
        /\ Distinct(inQ') /\ inQ[1].buf \notin Items(inQ')
        /\ Len(inQ') = Len(inQ) - 1 /\ Len(inQ) \in Nat
    BY <2>1, Shortened, ItemsShortened DEF Inputs, Queues
  <2>3. inQ[1].buf \notin Range(outDone)
    BY <2>2 DEF Inputs
  <2>4. /\ Range(outDone') = Range(outDone) \cup {inQ[1].buf} /\ IsInjective(outDone')
        /\ Len(outDone') = Len(outDone) + 1 /\ Len(outDone) \in Nat
    BY <2>1, <2>2, <2>3, ReadAppended DEF Inputs
  <2>5. NumQueued' = NumQueued
    BY <2>2, <2>4 DEF NumQueued
  <2> QED
    BY <2>1, <2>2, <2>3, <2>4, <2>5 DEF Inputs
<1>7. CASE DecoderEvent \/ DequeueFails \/ DequeueJetsonFails
  BY <1>0, <1>a, <1>7 DEF DecoderEvent, DequeueFails, DequeueJetsonFails, Goes, callerVars, inVars
<1>8. CASE Select \/ DequeueCapture \/ DequeueJetson \/ CallEncoded \/ Requeue \/ CallScaled
  BY <1>0, <1>8 DEF Select, DequeueCapture, DequeueJetson, CallEncoded, Requeue, CallScaled, Goes,
     callerVars
<1>9. CASE DequeueOutput
  <2>1. /\ outDone # <<>> /\ free' = free \cup {outDone[1]} /\ outDone' = Tail(outDone)
        /\ UNCHANGED <<kind, life, inQ, faults>> /\ kind \in V4l2Kinds
    BY <1>9 DEF DequeueOutput, Goes, callerVars
  <2>2. /\ Range(outDone) = Range(outDone') \cup {outDone[1]} /\ IsInjective(outDone')
        /\ outDone[1] \notin Range(outDone')
    BY <2>1, ReadShortened DEF Inputs
  <2> QED
    BY <2>1, <2>2 DEF Inputs
<1>10. CASE RequeueFails \/ WorkerEnds
  BY <1>0, <1>a, <1>10 DEF RequeueFails, WorkerEnds, callerVars, inVars
<1>11. CASE GiveBackScaled
  BY <1>11 DEF GiveBackScaled, Goes, callerVars, Labels, Inputs, NumQueued
<1>12. CASE Release
  <2>1. /\ UNCHANGED <<kind, free>> /\ life' = "joining"
        /\ kind # "jetsonEncoder" => UNCHANGED <<inQ, outDone>>
        /\ kind = "jetsonEncoder" =>
             /\ outDone' = (IF PlaneFull /\ outDone # <<>> THEN Tail(outDone) ELSE outDone)
             /\ inQ' = IF EosAccepted THEN Append(inQ, Item(EosBuffer, Eos)) ELSE inQ
    BY <1>12 DEF Release
  <2>2. CASE kind # "jetsonEncoder"
    BY <2>1, <2>2 DEF Inputs
  <2>3. CASE kind = "jetsonEncoder"
    <3>1. /\ IsInjective(outDone') /\ Range(outDone') \subseteq Range(outDone)
          /\ EosAccepted => EosBuffer \notin Range(outDone')
      <4>1. CASE PlaneFull /\ outDone # <<>>
        <5>1. outDone' = Tail(outDone)
          BY <2>1, <2>3, <4>1
        <5> QED
          BY <4>1, <5>1, ReadShortened, EosIsOutside DEF Inputs
      <4>2. CASE ~(PlaneFull /\ outDone # <<>>)
        <5>1. outDone' = outDone
          BY <2>1, <2>3, <4>2
        <5> QED
          BY <4>2, <5>1, EosIsOutside DEF Inputs
      <4> QED
        BY <4>1, <4>2
    <3>2. Item(EosBuffer, Eos) \in Given /\ Item(EosBuffer, Eos).buf = EosBuffer
      BY EosIsOutside
    <3>3. CASE EosAccepted
      <4>1. Items(inQ') = Items(inQ) \cup {EosBuffer} /\ Distinct(inQ')
        <5> DEFINE e == Item(EosBuffer, Eos)
        <5>1. inQ' = Append(inQ, e) /\ e \in Given /\ e.buf = EosBuffer
          BY <2>1, <2>3, <3>2, <3>3
        <5> HIDE DEF e
        <5>2. inQ \in Seq(Given) /\ Distinct(inQ) /\ e.buf \notin Items(inQ)
          BY <3>3, <5>1, EosIsOutside DEF Inputs, Queues
        <5> QED
          BY <5>1, <5>2, ItemsAppended
      <4> QED
        BY <2>1, <2>3, <3>1, <3>3, <4>1 DEF Inputs
    <3>4. CASE ~EosAccepted
      BY <2>1, <2>3, <3>1, <3>4 DEF Inputs
    <3> QED
      BY <3>3, <3>4
  <2> QED
    BY <2>2, <2>3
<1>13. CASE Released
  BY <1>13, Emptied DEF Released, Inputs
<1> QED
  BY <1>1, <1>2, <1>3, <1>4, <1>5, <1>6, <1>7, <1>8, <1>9, <1>10, <1>11, <1>12, <1>13
  DEF Next, EmplaceBuffer, CaptureBuffer
-----------------------------------------------------------------------------
\* What a hand holds.
LEMMA Held ==
  /\ Holding(None) = {}
  /\ \A g \in Given : Holding(g) = {g.buf}
  BY Frames DEF Holding

\* An offer changes neither the capture side nor the worker.
LEMMA OfferKeeps ==
  ASSUME EmplaceBuffer
  PROVE  Offer /\ (faults' = faults \/ Fault)
  BY DEF EmplaceBuffer, EmplaceDrops, EmplaceJetsonDrops, EmplaceJetsonFails, EmplaceFails,
     EmplaceV4l2, EmplaceTransform, EmplaceJetson

\* Every capture buffer is in one place.
LEMMA CapturesStep ==
  ASSUME TypeOK, Queues, Labels, Captures, Next, kind # "jetsonScaler"
  PROVE  Captures'
<1> USE Types, Frames, Held, NotAllKinds DEF Up
<1>a. ASSUME Fault
      PROVE  faults' # 0
  BY <1>a DEF Fault
<1>0. CASE /\ UNCHANGED <<kind, capDone, capFree, got>>
           /\ life' = "up" => life = "up"
           /\ faults' = 0 => faults = 0
  BY <1>0 DEF Captures
<1>1. CASE Create
  <2>1. CASE Fresh
    BY <2>1, Emptied DEF Fresh, Captures, Labels
  <2>2. CASE Spoiled
    BY <1>0, <1>a, <2>2 DEF Spoiled, capVars, workVars
  <2> QED
    BY <1>1, <2>1, <2>2, Creation
<1>2. CASE EmplaceBuffer
  BY <1>0, <1>2, <1>a, OfferKeeps DEF Offer, capVars, workVars
<1>3. CASE Register
  BY <1>0, <1>3 DEF Register, callerVars, capVars, workVars
<1>4. CASE Process
  <2>1. /\ UNCHANGED <<kind, life, got, faults>> /\ inQ # <<>>
    BY <1>4 DEF Process, callerVars, workVars
  <2>2. PICK c \in capFree : /\ capFree' = capFree \ {c}
                             /\ capDone' = Append(capDone, Item(c, inQ[1].frame))
    BY <1>4 DEF Process
  <2> DEFINE e == Item(c, inQ[1].frame)
  <2>3. e \in Given /\ e.buf = c
    BY <2>1, Shortened DEF Queues
  <2>4. capDone' = Append(capDone, e)
    BY <2>2
  <2> HIDE DEF e
  <2>5. c \notin Items(capDone) /\ Distinct(capDone) /\ capDone \in Seq(Given) /\ c \notin Holding(got)
    BY DEF Captures, Queues
  <2>6. Items(capDone') = Items(capDone) \cup {c} /\ Distinct(capDone')
    BY <2>3, <2>4, <2>5, ItemsAppended
  <2> QED
    BY <2>1, <2>2, <2>5, <2>6 DEF Captures
<1>5. CASE DecoderEvent \/ DequeueFails \/ DequeueJetsonFails
  BY <1>0, <1>a, <1>5 DEF DecoderEvent, DequeueFails, DequeueJetsonFails, Goes, callerVars,
     capVars, workVars
<1>6. CASE Select \/ DequeueOutput \/ CallEncoded
  BY <1>0, <1>6 DEF Select, DequeueOutput, CallEncoded, Goes, callerVars, capVars
<1>7. CASE DequeueCapture \/ DequeueJetson
  <2>1. /\ capDone # <<>> /\ got = None /\ got' = capDone[1] /\ capDone' = Tail(capDone)
        /\ UNCHANGED <<kind, life, capFree, faults>>
    BY <1>7 DEF DequeueCapture, DequeueJetson, Goes, callerVars, Labels
  <2>2. /\ capDone[1] \in Given /\ Items(capDone) = Items(capDone') \cup {got'.buf}
        /\ Distinct(capDone') /\ got'.buf \notin Items(capDone')
    BY <2>1, Shortened, ItemsShortened DEF Captures, Queues
  <2>3. Holding(got) = {} /\ Holding(got') = {got'.buf}
    BY <2>1, <2>2
  <2> QED
    BY <2>1, <2>2, <2>3 DEF Captures
<1>8. CASE Requeue
  <2>1. /\ got \in Given /\ got' = None /\ capFree' = capFree \cup {got.buf}
        /\ UNCHANGED <<kind, life, capDone, faults>>
    BY <1>8 DEF Requeue, Requeued, Goes, callerVars, Labels, Queues
  <2>2. Holding(got) = {got.buf} /\ Holding(got') = {}
    BY <2>1
  <2> QED
    BY <2>1, <2>2 DEF Captures
<1>9. CASE RequeueFails \/ WorkerEnds
  <2>1. UNCHANGED <<kind, life, capDone, capFree>> /\ got' = None
    BY <1>9 DEF RequeueFails, WorkerEnds, callerVars, capVars
  <2>2. ~(life' = "up" /\ faults' = 0)
    BY <1>9, <1>a DEF RequeueFails, WorkerEnds, Labels, callerVars
  <2>3. Holding(got') = {}
    BY <2>1
  <2> QED
    BY <2>1, <2>2, <2>3 DEF Captures
<1>10. CASE CallScaled \/ GiveBackScaled
  BY <1>10 DEF CallScaled, GiveBackScaled, Labels
<1>11. CASE Release
  BY <1>0, <1>11 DEF Release, capVars, workVars
<1>12. CASE Released
  BY <1>12, Emptied DEF Released, Captures, workVars, Labels
<1> QED
  BY <1>1, <1>2, <1>3, <1>4, <1>5, <1>6, <1>7, <1>8, <1>9, <1>10, <1>11, <1>12
  DEF Next, CaptureBuffer

\* The Jetson scaler's buffers: none is lost, and no callback is refused.
LEMMA ScaledStep ==
  ASSUME TypeOK, Queues, Labels, Scaled, Next
  PROVE  Scaled'
<1> USE Types, Frames, Held, NotAllKinds DEF Up
<1>0. CASE /\ UNCHANGED <<kind, tasks, free, emplacing, got>>
           /\ life' = "up" => life = "up"
  BY <1>0 DEF Scaled
<1>1. CASE kind' # "jetsonScaler" \/ life' # "up"
  BY <1>1 DEF Scaled
<1> SUFFICES ASSUME kind' = "jetsonScaler", life' = "up"
             PROVE  Scaled'
  BY <1>1
<1>2. CASE Create
  BY <1>2, Creation, Emptied DEF Fresh, Spoiled, Scaled, Labels
<1>3. ASSUME NEW b \in Bufs, EmplaceV4l2(b) \/ EmplaceFails(b)
      PROVE  Scaled'
  BY <1>0, <1>3 DEF EmplaceV4l2, EmplaceFails, Offer, workVars, inVars
<1>4. CASE EmplaceDrops \/ EmplaceJetson \/ EmplaceJetsonDrops \/ EmplaceJetsonFails
  BY <1>0, <1>4 DEF EmplaceDrops, EmplaceJetson, EmplaceJetsonDrops, EmplaceJetsonFails, Offer,
     workVars, inVars
<1>5. ASSUME NEW b \in Bufs, EmplaceTransform(b)
      PROVE  Scaled'
  <2>1. /\ b \in free /\ free' = free \ {b} /\ emplacing = None
        /\ emplacing' = Item(b, offered') /\ UNCHANGED <<kind, life, tasks, got>>
        /\ offered' \in 1 .. Eos
    BY <1>5, Constants DEF EmplaceTransform, Offer, workVars, Eos
  <2>2. Holding(emplacing') = {b} /\ Holding(emplacing) = {}
    BY <2>1
  <2> QED
    BY <2>1, <2>2 DEF Scaled
<1>6. CASE Register
  <2>1. /\ emplacing \in Given /\ emplacing' = None
        /\ tasks' = (IF Len(tasks) < TaskMax THEN Append(tasks, emplacing) ELSE tasks)
        /\ UNCHANGED <<kind, life, free, got>>
    BY <1>6 DEF Register, callerVars, workVars, Queues
  <2>2. /\ tasks \in Seq(Given) /\ Distinct(tasks) /\ emplacing.buf \notin Items(tasks)
        /\ Holding(emplacing) = {emplacing.buf} /\ Holding(emplacing') = {}
    BY <2>1 DEF Scaled, Queues
  <2>3. Len(tasks) < BufferNum /\ Len(tasks) \in Nat
    BY <2>1, <2>2, ItemsBounded
  <2>4. tasks' = Append(tasks, emplacing)
    BY <2>1, <2>3, Constants, TaskBound
  <2>5. Items(tasks') = Items(tasks) \cup {emplacing.buf} /\ Distinct(tasks')
    BY <2>1, <2>2, <2>4, ItemsAppended
  <2> QED
    BY <2>1, <2>2, <2>5 DEF Scaled
<1>7. CASE Process \/ DecoderEvent
  BY <1>0, <1>7 DEF Process, DecoderEvent, callerVars, workVars, inVars
<1>8. CASE Select \/ DequeueOutput \/ DequeueCapture \/ DequeueFails \/ DequeueJetsonFails
           \/ DequeueJetson \/ CallEncoded
           \/ WorkerEnds
  BY <1>8 DEF Select, DequeueOutput, DequeueCapture, DequeueFails, DequeueJetsonFails,
     DequeueJetson, CallEncoded,
     WorkerEnds, Labels, Goes, callerVars
<1>9. CASE Requeue \/ RequeueFails
  BY <1>9 DEF Requeue, RequeueFails, Labels, Goes, callerVars
<1>10. CASE CallScaled
  <2>1. /\ tasks # <<>> /\ got = None /\ got' = tasks[1] /\ tasks' = Tail(tasks)
        /\ UNCHANGED <<kind, life, free, emplacing>>
    BY <1>10 DEF CallScaled, Popped, Goes, callerVars, Labels
  <2>2. /\ tasks[1] \in Given /\ Items(tasks) = Items(tasks') \cup {got'.buf}
        /\ Distinct(tasks') /\ got'.buf \notin Items(tasks')
    BY <2>1, Shortened, ItemsShortened DEF Scaled, Queues
  <2>3. Holding(got) = {} /\ Holding(got') = {got'.buf}
    BY <2>1, <2>2
  <2> QED
    BY <2>1, <2>2, <2>3 DEF Scaled
<1>11. CASE GiveBackScaled
  <2>1. /\ got \in Given /\ got' = None /\ free' = free \cup {got.buf}
        /\ UNCHANGED <<kind, life, tasks, emplacing>>
    BY <1>11 DEF GiveBackScaled, Goes, callerVars, Labels, Queues
  <2>2. Holding(got) = {got.buf} /\ Holding(got') = {}
    BY <2>1
  <2> QED
    BY <2>1, <2>2 DEF Scaled
<1>12. CASE Release \/ Released
  BY <1>12 DEF Release, Released
<1> QED
  BY <1>2, <1>3, <1>4, <1>5, <1>6, <1>7, <1>8, <1>9, <1>10, <1>11, <1>12
  DEF Next, EmplaceBuffer, CaptureBuffer
-----------------------------------------------------------------------------
\* An offer takes the next number, and its callback is made for it.
LEMMA Offered ==
  ASSUME TypeOK, Queues, Inputs, EmplaceBuffer
  PROVE  /\ Up /\ emplacing = None /\ offered' = offered + 1 /\ offered' \in 1 .. MaxFrames
         /\ emplacing' = None \/ (emplacing' \in Given /\ emplacing'.frame = offered')
         /\ UNCHANGED <<kind, life, abort, capVars, tasks, workVars>>
<1> USE Types, Frames
<1>1. Offer
  BY OfferKeeps
<1>2. /\ Up /\ emplacing = None /\ offered' = offered + 1 /\ offered' \in 1 .. MaxFrames
      /\ UNCHANGED <<kind, life, abort, capVars, tasks, workVars>>
  BY <1>1, Constants DEF Offer
<1>3. offered' \in 1 .. Eos
  BY <1>2, Constants DEF Eos
<1>4. CASE EmplaceDrops \/ EmplaceJetsonDrops \/ EmplaceJetsonFails \/ \E b \in Bufs : EmplaceFails(b)
  BY <1>2, <1>4 DEF EmplaceDrops, EmplaceJetsonDrops, EmplaceJetsonFails, EmplaceFails, inVars
<1>5. ASSUME NEW b \in Bufs, EmplaceV4l2(b) \/ EmplaceTransform(b)
      PROVE  emplacing' \in Given /\ emplacing'.frame = offered'
  <2>1. emplacing' = Item(b, offered')
    BY <1>5 DEF EmplaceV4l2, EmplaceTransform
  <2> QED
    BY <1>3, <2>1
<1>6. CASE EmplaceJetson
  <2>1. NextBuffer \in Bufs
    BY <1>6, <1>2, NextIsOutside DEF EmplaceJetson
  <2>2. emplacing' \in {None, Item(NextBuffer, offered')}
    BY <1>6 DEF EmplaceJetson
  <2> QED
    BY <1>2, <1>3, <2>1, <2>2
<1> QED
  BY <1>2, <1>4, <1>5, <1>6 DEF EmplaceBuffer

\* The callbacks that wait have numbers.
LEMMA TasksOf ==
  ASSUME Queues
  PROVE  /\ DOMAIN tasks = 1 .. Len(tasks) /\ Len(tasks) \in Nat
         /\ \A i \in 1 .. Len(tasks) : tasks[i] \in Given /\ tasks[i].frame \in Nat
         /\ tasks # <<>> => Len(tasks) > 0
<1>1. tasks \in Seq(Given) /\ Len(tasks) \in Nat /\ DOMAIN tasks = 1 .. Len(tasks)
  BY DEF Queues
<1>2. \A i \in 1 .. Len(tasks) : tasks[i] \in Given
  BY <1>1
<1>3. tasks # <<>> => Len(tasks) > 0
  BY <1>1, EmptySeq
<1> QED
  BY <1>1, <1>2, <1>3, Frames

\* The callbacks wait, and are called, in the order of the frames.
LEMMA InOrderStep ==
  ASSUME TypeOK, Queues, Labels, Inputs, InOrder, Next
  PROVE  InOrder'
<1> USE Types, Frames, TasksOf
<1>t. offered \in Nat /\ called.task \in Nat
  BY Constants
<1>0. CASE UNCHANGED <<offered, called, tasks, emplacing>>
  BY <1>0 DEF InOrder
<1>1. CASE Create
  <2>1. CASE Fresh
    BY <2>1 DEF Fresh, InOrder, Labels
  <2>2. CASE Spoiled
    BY <1>0, <2>2 DEF Spoiled, inVars, workVars
  <2> QED
    BY <1>1, <2>1, <2>2, Creation
<1>2. CASE EmplaceBuffer
  <2>1. /\ offered' = offered + 1 /\ UNCHANGED <<tasks, called>>
        /\ emplacing' = None \/ emplacing'.frame = offered'
    BY <1>2, Offered DEF workVars
  <2>2. \A i \in DOMAIN tasks : tasks[i].frame < offered' /\ tasks[i].frame \in Nat
    BY <2>1, <1>t DEF InOrder
  <2> QED
    BY <2>1, <2>2, <1>t DEF InOrder
<1>3. CASE Register
  <2>1. /\ emplacing # None /\ emplacing \in Given /\ emplacing' = None /\ UNCHANGED <<offered, called>>
        /\ tasks' = tasks \/ tasks' = Append(tasks, emplacing)
    BY <1>3 DEF Register, callerVars, workVars, Queues
  <2>2. CASE tasks' = tasks
    BY <2>1, <2>2 DEF InOrder
  <2>3. CASE tasks' = Append(tasks, emplacing)
    <3> DEFINE n == Len(tasks)
    <3>1. /\ DOMAIN tasks' = 1 .. n + 1 /\ DOMAIN tasks = 1 .. n /\ tasks'[n + 1] = emplacing
          /\ \A i \in 1 .. n : tasks'[i] = tasks[i]
          /\ n \in Nat
      BY <2>1, <2>3, Appended DEF Queues
    <3>2. /\ emplacing.frame = offered /\ called.task < offered
          /\ \A i \in 1 .. n : /\ tasks[i].frame < offered /\ called.task < tasks[i].frame
                              /\ tasks[i].frame \in Nat
      BY <2>1, <3>1 DEF InOrder
    <3> HIDE DEF n
    <3>3. \A i \in 1 .. n + 1 : called.task < tasks'[i].frame /\ tasks'[i].frame <= offered
      BY <1>t, <3>1, <3>2
    <3>4. ASSUME NEW i \in 1 .. n + 1, NEW j \in 1 .. n + 1, i < j
          PROVE  tasks'[i].frame < tasks'[j].frame
      <4>1. i \in 1 .. n
        BY <3>1, <3>4
      <4>2. CASE j \in 1 .. n
        BY <3>1, <3>4, <4>1, <4>2 DEF InOrder
      <4>3. CASE j = n + 1
        BY <3>1, <3>2, <4>1, <4>3
      <4> QED
        BY <3>1, <4>2, <4>3
    <3> QED
      BY <2>1, <3>1, <3>3, <3>4 DEF InOrder
  <2> QED
    BY <2>1, <2>2, <2>3
<1>4. CASE Process \/ DecoderEvent \/ DequeueFails \/ DequeueJetsonFails \/ RequeueFails
           \/ WorkerEnds
  BY <1>0, <1>4 DEF Process, DecoderEvent, DequeueFails, DequeueJetsonFails, RequeueFails,
     WorkerEnds, Goes, callerVars,
     inVars, workVars
<1>5. CASE Select \/ DequeueOutput \/ DequeueCapture \/ DequeueJetson \/ Requeue \/ GiveBackScaled
  BY <1>0, <1>5 DEF Select, DequeueOutput, DequeueCapture, DequeueJetson, Requeue, GiveBackScaled,
     Goes, callerVars
<1>6. CASE CallEncoded \/ CallScaled
  <2>1. /\ UNCHANGED <<offered, emplacing>>
        /\ \/ UNCHANGED <<tasks, called>>
           \/ tasks # <<>> /\ tasks' = Tail(tasks) /\ called'.task = tasks[1].frame
    <3>1. CASE CallEncoded
      BY <3>1 DEF CallEncoded, Popped, SendFrame, Goes, callerVars
    <3>2. CASE CallScaled
      BY <3>2 DEF CallScaled, Popped, OnFrame, Goes, callerVars
    <3> QED
      BY <1>6, <3>1, <3>2
  <2>2. CASE UNCHANGED <<tasks, called>>
    BY <1>0, <2>1, <2>2
  <2>3. CASE tasks # <<>> /\ tasks' = Tail(tasks) /\ called'.task = tasks[1].frame
    <3> DEFINE n == Len(tasks)
    <3>1. /\ DOMAIN tasks = 1 .. n /\ DOMAIN tasks' = 1 .. n - 1 /\ n \in Nat \ {0}
          /\ \A i \in 1 .. n - 1 : tasks'[i] = tasks[i + 1]
      BY <2>3, Shortened DEF Queues
    <3>2. /\ \A i \in 1 .. n : called.task < tasks[i].frame /\ tasks[i].frame <= offered
                              /\ tasks[i].frame \in Nat
          /\ \A i, j \in 1 .. n : i < j => tasks[i].frame < tasks[j].frame
          /\ emplacing # None => /\ emplacing.frame = offered
                                 /\ \A i \in 1 .. n : tasks[i].frame < offered
      BY <3>1 DEF InOrder
    <3> HIDE DEF n
    <3>3. \A i \in 1 .. n - 1 : i + 1 \in 1 .. n /\ tasks'[i] = tasks[i + 1] /\ 1 < i + 1
      BY <3>1
    <3>4. 1 \in 1 .. n /\ called'.task = tasks[1].frame
      BY <2>3, <3>1
    <3>5. \A i \in 1 .. n - 1 : called'.task < tasks'[i].frame /\ tasks'[i].frame <= offered
      BY <3>2, <3>3, <3>4
    <3>6. ASSUME NEW i \in 1 .. n - 1, NEW j \in 1 .. n - 1, i < j
          PROVE  tasks'[i].frame < tasks'[j].frame
      <4>1. i + 1 < j + 1
        BY <3>1, <3>6
      <4> QED
        BY <3>2, <3>3, <4>1
    <3>7. emplacing # None => /\ emplacing.frame = offered /\ called'.task < offered
                             /\ \A i \in 1 .. n - 1 : tasks'[i].frame < offered
      BY <3>2, <3>3, <3>4
    <3>8. called'.task <= offered
      BY <3>2, <3>4
    <3> QED
      BY <2>1, <3>1, <3>5, <3>6, <3>7, <3>8 DEF InOrder
  <2> QED
    BY <2>1, <2>2, <2>3
<1>7. CASE Release
  BY <1>0, <1>7 DEF Release, workVars
<1>8. CASE Released
  BY <1>8 DEF Released, workVars, InOrder, Labels
<1> QED
  BY <1>1, <1>2, <1>3, <1>4, <1>5, <1>6, <1>7, <1>8 DEF Next, CaptureBuffer

\* Until the release only offered frames are on their way.
LEMMA UnendedStep ==
  ASSUME TypeOK, Queues, Labels, Inputs, InOrder, Unended, Next
  PROVE  Unended'
<1> USE Types, Frames DEF Up
<1>t. offered \in Nat
  BY Constants
<1> SUFFICES ASSUME life' = "up"
             PROVE  Unended'
  BY DEF Unended
<1>0. CASE UNCHANGED <<offered, inQ, capDone, got, life>>
  BY <1>0 DEF Unended
<1>1. CASE Create
  BY <1>1, <1>t, Creation DEF Fresh, Spoiled, Unended, Labels
<1>2. CASE EmplaceBuffer
  <2> DEFINE n == Len(inQ)
  <2>1. /\ life = "up" /\ offered' = offered + 1 /\ UNCHANGED <<capDone, got>>
    BY <1>2, Offered DEF capVars, workVars
  <2>2. \/ inQ' = inQ
        \/ \E b \in Bufs : inQ' = Append(inQ, Item(b, offered'))
    <3>1. CASE EmplaceDrops \/ EmplaceJetsonDrops \/ EmplaceJetsonFails
      BY <3>1 DEF EmplaceDrops, EmplaceJetsonDrops, EmplaceJetsonFails, inVars
    <3>2. ASSUME NEW b \in Bufs, EmplaceFails(b) \/ EmplaceV4l2(b) \/ EmplaceTransform(b)
          PROVE  inQ' = inQ \/ \E c \in Bufs : inQ' = Append(inQ, Item(c, offered'))
      BY <3>2 DEF EmplaceFails, EmplaceV4l2, EmplaceTransform, inVars
    <3>3. CASE EmplaceJetson
      <4>1. NextBuffer \in Bufs
        BY <3>3, NextIsOutside DEF EmplaceJetson, Offer
      <4>2. inQ' = inQ \/ inQ' = Append(inQ, Item(NextBuffer, offered'))
        BY <3>3 DEF EmplaceJetson
      <4> QED
        BY <4>1, <4>2
    <3> QED
      BY <1>2, <3>1, <3>2, <3>3 DEF EmplaceBuffer
  <2>3. /\ \A i \in 1 .. n : inQ[i].frame <= offered /\ inQ[i].frame \in Nat
        /\ \A i \in DOMAIN capDone : capDone[i].frame <= offered /\ capDone[i].frame \in Nat
        /\ got.frame <= offered /\ got.frame \in Nat /\ DOMAIN inQ = 1 .. n /\ n \in Nat
    <3>1. got.frame \in Nat
      BY DEF Queues
    <3>2. \A i \in DOMAIN capDone : capDone[i].frame \in Nat
      BY DEF Queues
    <3>3. \A i \in DOMAIN inQ : inQ[i].frame \in Nat
      BY DEF Queues
    <3>4. DOMAIN inQ = 1 .. n /\ n \in Nat
      BY DEF Queues
    <3> QED
      BY <2>1, <3>1, <3>2, <3>3, <3>4 DEF Unended
  <2>4. CASE inQ' = inQ
    BY <1>t, <2>1, <2>3, <2>4 DEF Unended
  <2>5. ASSUME NEW b \in Bufs, inQ' = Append(inQ, Item(b, offered'))
        PROVE  Unended'
    <3>1. Item(b, offered') \in Given /\ Item(b, offered').frame = offered'
      <4>1. offered' \in 1 .. Eos
        BY <1>2, Offered, Constants DEF Eos
      <4> QED
        BY <4>1
    <3>2. /\ DOMAIN inQ' = 1 .. n + 1 /\ inQ'[n + 1].frame = offered'
          /\ \A i \in 1 .. n : inQ'[i] = inQ[i]
      BY <2>5, <3>1, Appended DEF Queues
    <3> HIDE DEF n
    <3>3. \A i \in DOMAIN inQ' : inQ'[i].frame <= offered'
      BY <1>t, <2>1, <2>3, <3>2
    <3> QED
      BY <1>t, <2>1, <2>3, <3>3 DEF Unended
  <2> QED
    BY <2>2, <2>4, <2>5
<1>3. CASE Register
  BY <1>0, <1>3 DEF Register, callerVars, capVars, workVars
<1>4. CASE Process
  <2>1. inQ # <<>> /\ inQ' = Tail(inQ) /\ UNCHANGED <<life, offered, got>>
    BY <1>4 DEF Process, callerVars, workVars
  <2>2. PICK c \in Bufs : capDone' = Append(capDone, Item(c, inQ[1].frame))
    BY <1>4 DEF Process
  <2> DEFINE m == Len(capDone)
             n == Len(inQ)
  <2>3. /\ inQ[1] \in Given /\ DOMAIN inQ = 1 .. n /\ DOMAIN inQ' = 1 .. n - 1 /\ n \in Nat \ {0}
        /\ \A i \in 1 .. n - 1 : inQ'[i] = inQ[i + 1]
    BY <2>1, Shortened DEF Queues
  <2>4. Item(c, inQ[1].frame) \in Given /\ Item(c, inQ[1].frame).frame = inQ[1].frame
    BY <2>3
  <2>5. /\ DOMAIN capDone' = 1 .. m + 1 /\ DOMAIN capDone = 1 .. m /\ m \in Nat
        /\ capDone'[m + 1].frame = inQ[1].frame
        /\ \A i \in 1 .. m : capDone'[i] = capDone[i]
    BY <2>2, <2>4, Appended DEF Queues
  <2> HIDE DEF m, n
  <2>6. \A i \in DOMAIN inQ : inQ[i].frame <= offered
    BY <2>1 DEF Unended
  <2>7. \A i \in DOMAIN inQ' : inQ'[i].frame <= offered
    <3> SUFFICES ASSUME NEW i \in 1 .. n - 1 PROVE inQ'[i].frame <= offered
      BY <2>3
    <3>1. i + 1 \in DOMAIN inQ /\ inQ'[i] = inQ[i + 1]
      BY <2>3
    <3> QED
      BY <2>6, <3>1
  <2>8. \A i \in DOMAIN capDone' : capDone'[i].frame <= offered
    <3>1. 1 \in DOMAIN inQ
      BY <2>3
    <3> QED
      BY <2>1, <2>5, <2>6, <3>1 DEF Unended
  <2> QED
    BY <2>1, <2>7, <2>8 DEF Unended
<1>5. CASE DecoderEvent \/ DequeueFails \/ DequeueJetsonFails
  BY <1>0, <1>5 DEF DecoderEvent, DequeueFails, DequeueJetsonFails, Goes, callerVars, inVars,
     capVars, workVars
<1>6. CASE Select \/ DequeueOutput \/ CallEncoded
  BY <1>0, <1>6 DEF Select, DequeueOutput, CallEncoded, Goes, callerVars, capVars
<1>7. CASE DequeueCapture \/ DequeueJetson
  <2>1. /\ capDone # <<>> /\ got' = capDone[1] /\ capDone' = Tail(capDone)
        /\ UNCHANGED <<life, offered, inQ>>
    BY <1>7 DEF DequeueCapture, DequeueJetson, Goes, callerVars, Labels
  <2> DEFINE n == Len(capDone)
  <2>2. /\ DOMAIN capDone = 1 .. n /\ DOMAIN capDone' = 1 .. n - 1 /\ n \in Nat \ {0}
        /\ \A i \in 1 .. n - 1 : capDone'[i] = capDone[i + 1]
    BY <2>1, Shortened DEF Queues
  <2> HIDE DEF n
  <2>3. /\ 1 \in DOMAIN capDone
        /\ \A i \in 1 .. n - 1 : i + 1 \in DOMAIN capDone
    BY <2>2
  <2>4. \A i \in DOMAIN capDone : capDone[i].frame <= offered
    BY <2>1 DEF Unended
  <2> QED
    BY <2>1, <2>2, <2>3, <2>4 DEF Unended
<1>8. CASE Requeue \/ RequeueFails \/ WorkerEnds \/ GiveBackScaled
  <2>1. UNCHANGED <<life, offered, inQ, capDone>> /\ got' = None
    BY <1>8 DEF Requeue, RequeueFails, WorkerEnds, GiveBackScaled, Goes, callerVars, inVars, capVars
  <2> QED
    BY <1>t, <2>1 DEF Unended
<1>9. CASE CallScaled
  <2>1. /\ tasks # <<>> /\ got' = tasks[1] /\ UNCHANGED <<life, offered, inQ, capDone>>
    BY <1>9 DEF CallScaled, Popped, Goes, callerVars, capVars
  <2>2. 1 \in DOMAIN tasks
    BY <2>1, TasksOf
  <2>3. got'.frame <= offered
    BY <2>1, <2>2 DEF InOrder
  <2> QED
    BY <2>1, <2>3 DEF Unended
<1>10. CASE Release \/ Released
  BY <1>10 DEF Release, Released
<1> QED
  BY <1>1, <1>2, <1>3, <1>4, <1>5, <1>6, <1>7, <1>8, <1>9, <1>10 DEF Next, CaptureBuffer

\* A processor does not change its kind.
LEMMA KindKept ==
  ASSUME Next
  PROVE  kind' = kind
<1>1. CASE Create
  BY <1>1, Creation DEF Fresh, Spoiled
<1>2. CASE EmplaceBuffer
  BY <1>2, OfferKeeps DEF Offer
<1>3. CASE Register \/ Process \/ DecoderEvent \/ RequeueFails \/ Release \/ Released \/ WorkerEnds
  BY <1>3 DEF Register, Process, DecoderEvent, RequeueFails, Release, Released, WorkerEnds, callerVars
<1>4. CASE Select \/ DequeueOutput \/ DequeueCapture \/ DequeueJetson \/ DequeueFails
           \/ DequeueJetsonFails \/ Requeue
           \/ CallEncoded \/ CallScaled \/ GiveBackScaled
  BY <1>4 DEF Select, DequeueOutput, DequeueCapture, DequeueJetson, DequeueFails,
     DequeueJetsonFails, Requeue, CallEncoded,
     CallScaled, GiveBackScaled, Goes, callerVars
<1> QED
  BY <1>1, <1>2, <1>3, <1>4 DEF Next, CaptureBuffer

\* TypeOK without the queues of frames, which Queues types.
Simple ==
  /\ kind \in Kinds /\ life \in {"none", "up", "joining", "dead"}
  /\ abort \in BOOLEAN /\ raced \in BOOLEAN
  /\ offered \in 0 .. MaxFrames /\ faults \in 0 .. MaxFaults
  /\ free \subseteq Bufs /\ capFree \subseteq Bufs /\ outDone \in Seq(Bufs)
  /\ worker \in {"loop", "dequeue", "take", "call", "requeue", "giveBack", "ended"}
  /\ called \in [task : 0 .. MaxFrames, frame : 0 .. Eos]
  /\ Len(tasks) <= TaskMax

LEMMA TypeStep ==
  ASSUME TypeOK, Queues, Labels, Inputs, InOrder, Next, Queues'
  PROVE  TypeOK'
<1> USE Types, Frames
<1>1. Simple
  BY DEF Simple
<1>2. got \in Given \cup {None} /\ got.frame \in 0 .. Eos
  <2>1. got \in Given \cup {None}
    BY DEF Queues
  <2> QED
    BY <2>1
<1>f. ASSUME Fault
      PROVE  faults' \in 0 .. MaxFaults
  BY <1>f, Constants DEF Fault
<1>m. TaskMax' = TaskMax /\ TaskMax \in Nat
  <2>1. kind' = kind
    BY KindKept
  <2> QED
    BY <2>1, TaskBound DEF TaskMax
<1>r. /\ outDone \in Seq(Bufs)
      /\ outDone # <<>> => Tail(outDone) \in Seq(Bufs)
  <2>1. outDone \in Seq(Bufs)
    OBVIOUS
  <2>2. ASSUME outDone # <<>>
        PROVE  Tail(outDone) \in Seq(Bufs)
    BY <2>1, <2>2, ReadShortened
  <2> QED
    BY <2>1, <2>2
<1>s. ASSUME Simple'
      PROVE  TypeOK'
  <2> DEFINE Item_ == [buf : 0 .. BufferNum, frame : 0 .. Eos]
  <2>1. None \in Item_ /\ Given \subseteq Item_
    <3>1. None \in Item_
      BY Constants DEF None, NoFrame, Eos
    <3>2. Bufs \subseteq 0 .. BufferNum /\ 1 .. Eos \subseteq 0 .. Eos
      BY Constants DEF Bufs, Eos
    <3> QED
      BY <3>1, <3>2 DEF Given
  <2> HIDE DEF Item_
  <2>2. \A q \in Seq(Given) : q \in Seq(Item_)
    BY <2>1, SeqMonotonic
  <2>3. /\ inQ' \in Seq(Item_) /\ capDone' \in Seq(Item_) /\ tasks' \in Seq(Item_)
        /\ emplacing' \in Item_ /\ got' \in Item_
    BY <2>1, <2>2 DEF Queues
  <2> QED
    BY <1>s, <2>3 DEF Item_, Simple, TypeOK
<1> SUFFICES Simple'
  BY <1>s
<1> HIDE Types
<1>3. CASE Create
  <2>1. CASE Fresh
    <3>1. free' \subseteq Bufs /\ capFree' \subseteq Bufs
      BY <2>1, NotAllKinds DEF Fresh
    <3>2. Len(tasks') <= TaskMax' /\ outDone' \in Seq(Bufs)
      BY <2>1, <1>m, Constants, Emptied DEF Fresh
    <3> QED
      BY <1>1, <1>m, <2>1, <3>1, <3>2 DEF Fresh, Simple
  <2>2. CASE Spoiled
    BY <1>1, <1>m, <1>f, <2>2 DEF Spoiled, inVars, capVars, workVars, Simple
  <2> QED
    BY <1>3, <2>1, <2>2, Creation
<1>4. CASE EmplaceBuffer
  <2>1. /\ offered' \in 0 .. MaxFrames /\ UNCHANGED <<kind, life, abort, capVars, tasks, workVars>>
        /\ faults' \in 0 .. MaxFaults
    BY <1>1, <1>m, <1>4, <1>f, OfferKeeps, Offered, Constants DEF Simple
  <2>2. free' \subseteq free /\ outDone' \in Seq(Bufs)
    <3>1. CASE EmplaceDrops \/ EmplaceJetsonDrops
      BY <1>1, <1>m, <3>1 DEF EmplaceDrops, EmplaceJetsonDrops, inVars, Simple
    <3>2. CASE EmplaceJetson \/ EmplaceJetsonFails
      <4>1. /\ outDone' = outDone \/ (outDone # <<>> /\ outDone' = Tail(outDone))
            /\ free' = free
        BY <3>2 DEF EmplaceJetson, EmplaceJetsonFails
      <4> QED
        BY <1>r, <4>1
    <3>3. ASSUME NEW b \in Bufs, EmplaceV4l2(b) \/ EmplaceFails(b) \/ EmplaceTransform(b)
          PROVE  free' \subseteq free /\ outDone' \in Seq(Bufs)
      BY <1>1, <1>m, <3>3 DEF EmplaceV4l2, EmplaceFails, EmplaceTransform, inVars, Simple
    <3> QED
      BY <1>4, <3>1, <3>2, <3>3 DEF EmplaceBuffer
  <2> QED
    BY <1>1, <1>m, <2>1, <2>2 DEF capVars, workVars, Simple
<1>5. CASE Register
  <2>1. Len(tasks') <= TaskMax'
    <3>1. emplacing \in Given /\ tasks \in Seq(Given) /\ Len(tasks) <= TaskMax
      BY <1>1, <1>m, <1>5 DEF Register, Queues, Simple
    <3>2. Len(Append(tasks, emplacing)) = Len(tasks) + 1 /\ Len(tasks) \in Nat
      BY <3>1, Appended
    <3>3. tasks' = IF Len(tasks) < TaskMax THEN Append(tasks, emplacing) ELSE tasks
      BY <1>5 DEF Register
    <3> QED
      BY <1>m, <3>1, <3>2, <3>3, Constants
  <2> QED
    BY <1>1, <1>m, <1>5, <2>1 DEF Register, callerVars, capVars, workVars, Simple
<1>6. CASE Process
  <2>1. outDone' \in Seq(Bufs)
    <3>1. inQ # <<>> /\ outDone' = Append(outDone, inQ[1].buf)
      BY <1>6 DEF Process
    <3>2. inQ[1].buf \in Bufs
      BY <3>1, Shortened DEF Queues
    <3> QED
      BY <1>1, <1>m, <3>1, <3>2, ReadAppended DEF Simple
  <2>2. capFree' \subseteq Bufs
    BY <1>1, <1>m, <1>6 DEF Process, Simple
  <2> QED
    BY <1>1, <1>m, <1>6, <2>1, <2>2 DEF Process, callerVars, workVars, Simple
<1>7. CASE DecoderEvent
  BY <1>1, <1>m, <1>7, <1>f DEF DecoderEvent, inVars, capVars, workVars, Simple
<1>8. CASE Select
  BY <1>1, <1>m, <1>8 DEF Select, Goes, callerVars, capVars, Simple
<1>9. CASE DequeueOutput
  <2>1. outDone' \in Seq(Bufs) /\ free' \subseteq Bufs
    BY <1>1, <1>m, <1>9, ReadShortened DEF DequeueOutput, Simple
  <2> QED
    BY <1>1, <1>m, <1>9, <2>1 DEF DequeueOutput, Goes, callerVars, capVars, Simple
<1>10. CASE DequeueCapture \/ DequeueJetson
  BY <1>1, <1>m, <1>10 DEF DequeueCapture, DequeueJetson, Goes, callerVars, Simple
<1>11. CASE DequeueFails \/ DequeueJetsonFails
  <2>1. CASE DequeueFails
    BY <1>1, <1>m, <1>f, <2>1 DEF DequeueFails, Goes, callerVars, capVars, Simple
  <2>2. CASE DequeueJetsonFails
    BY <1>1, <1>m, <1>f, <2>2 DEF DequeueJetsonFails, inVars, capVars, Simple
  <2> QED
    BY <1>11, <2>1, <2>2
<1>12. ASSUME tasks # <<>>
       PROVE  /\ tasks[1].frame \in 0 .. MaxFrames /\ Len(Tail(tasks)) <= TaskMax'
              /\ tasks[1].frame \in 0 .. Eos
  <2>1. tasks[1] \in Given /\ Len(Tail(tasks)) = Len(tasks) - 1 /\ Len(tasks) \in Nat
    BY <1>12, Shortened DEF Queues
  <2>2. 1 \in DOMAIN tasks
    BY <1>12, TasksOf
  <2>3. tasks[1].frame <= offered /\ tasks[1].frame \in 1 .. Eos
    BY <2>1, <2>2 DEF InOrder
  <2> QED
    BY <1>1, <1>m, <2>1, <2>3, Constants DEF Simple
<1>13. CASE CallEncoded
  <2>1. /\ called' \in [task : 0 .. MaxFrames, frame : 0 .. Eos]
        /\ Len(tasks') <= TaskMax'
    BY <1>1, <1>m, <1>2, <1>12, <1>13 DEF CallEncoded, Popped, SendFrame, Simple
  <2>2. raced' \in BOOLEAN
    BY <1>1, <1>m, <1>13 DEF CallEncoded, Simple
  <2> QED
    BY <1>1, <1>m, <1>13, <2>1, <2>2 DEF CallEncoded, Goes, callerVars, capVars, Simple
<1>14. CASE Requeue
  <2>1. capFree' \subseteq Bufs
    BY <1>1, <1>m, <1>2, <1>14 DEF Requeue, Requeued, Labels, Simple
  <2>2. worker' \in {"ended", "loop"}
    BY <1>14 DEF Requeue, Goes
  <2> QED
    BY <1>1, <1>m, <1>14, <2>1, <2>2 DEF Requeue, Goes, callerVars, Simple
<1>15. CASE RequeueFails
  <2>1. worker' \in {"ended", "loop"} /\ abort' \in BOOLEAN
    BY <1>1, <1>m, <1>15 DEF RequeueFails, Simple
  <2> QED
    BY <1>1, <1>m, <1>15, <1>f, <2>1 DEF RequeueFails, inVars, capVars, Simple
<1>16. CASE WorkerEnds
  BY <1>1, <1>m, <1>16 DEF WorkerEnds, callerVars, inVars, capVars, Simple
<1>17. CASE CallScaled
  <2>1. /\ called' \in [task : 0 .. MaxFrames, frame : 0 .. Eos]
        /\ Len(tasks') <= TaskMax'
    BY <1>1, <1>m, <1>12, <1>17 DEF CallScaled, Popped, OnFrame, Simple
  <2> QED
    BY <1>1, <1>m, <1>17, <2>1 DEF CallScaled, Goes, callerVars, capVars, Simple
<1>18. CASE GiveBackScaled
  <2>1. free' \subseteq Bufs
    BY <1>1, <1>m, <1>2, <1>18 DEF GiveBackScaled, Labels, Simple
  <2> QED
    BY <1>1, <1>m, <1>18, <2>1 DEF GiveBackScaled, Goes, callerVars, capVars, Simple
<1>19. CASE Release
  <2>1. outDone' \in Seq(Bufs)
    <3>1. outDone' = outDone \/ (outDone # <<>> /\ outDone' = Tail(outDone))
      BY <1>19 DEF Release
    <3> QED
      BY <1>r, <3>1
  <2>2. abort' \in BOOLEAN
    BY <1>19 DEF Release, Aborted
  <2> QED
    BY <1>1, <1>m, <1>19, <2>1, <2>2 DEF Release, capVars, workVars, Simple
<1>20. CASE Released
  <2>1. Len(tasks') <= TaskMax' /\ outDone' \in Seq(Bufs)
    BY <1>m, <1>20, Constants, Emptied DEF Released
  <2> QED
    BY <1>1, <1>m, <1>20, <2>1 DEF Released, workVars, Simple
<1> QED
  BY <1>3, <1>4, <1>5, <1>6, <1>7, <1>8, <1>9, <1>10, <1>11, <1>13, <1>14, <1>15, <1>16, <1>17,
     <1>18, <1>19, <1>20 DEF Next, CaptureBuffer
-----------------------------------------------------------------------------
\* The frames on their way out and the callbacks, oldest first.
LEMMA Lined ==
  ASSUME Queues
  PROVE  /\ InHand \in 0 .. 1 /\ Len(capDone) \in Nat /\ Len(inQ) \in Nat /\ Len(tasks) \in Nat
         /\ NumOut \in Nat /\ NumTasks \in Nat
         /\ NumTasks \in {Len(tasks), Len(tasks) + 1}
  BY DEF Queues, InHand, NumOut, NumTasks

\* The frames on their way fit in the queue of the callbacks.
LEMMA OutBounded ==
  ASSUME TypeOK, Queues, Labels, Inputs, Captures, kind # "jetsonScaler"
  PROVE  NumOut <= 2 * BufferNum
<1>1. Len(inQ) <= BufferNum
  BY ItemsBounded DEF Inputs, Queues
<1>2. InHand + Len(capDone) <= BufferNum
  <2>1. CASE worker = "call"
    <3>1. got \in Given /\ got.buf \in Bufs /\ InHand = 1
      BY <2>1, Frames DEF Labels, Queues, InHand
    <3>2. got.buf \notin Items(capDone)
      BY <3>1, Held DEF Captures
    <3>3. Len(capDone) < BufferNum
      BY <3>1, <3>2, ItemsBounded DEF Captures, Queues
    <3> QED
      BY <3>1, <3>3, Lined, Constants
  <2>2. CASE worker # "call"
    <3>1. Len(capDone) <= BufferNum /\ InHand = 0
      BY <2>2, ItemsBounded DEF Captures, Queues, InHand
    <3> QED
      BY <3>1, Lined
  <2> QED
    BY <2>1, <2>2
<1> QED
  BY <1>1, <1>2, Lined, Constants DEF NumOut

\* The frames on their way, and the callbacks, stay as they are.
SameOut == NumOut' = NumOut /\ \A i \in 1 .. NumOut : Out(i)' = Out(i)
SameTasks == NumTasks' = NumTasks /\ \A i \in 1 .. NumTasks : Task(i)' = Task(i)

\* A frame that the device or the worker moves keeps its place in the line.
LEMMA ProcessKeepsOut ==
  ASSUME TypeOK, Queues, Process
  PROVE  SameOut
<1> DEFINE h == InHand
           m == Len(capDone)
           n == Len(inQ)
<1>1. inQ # <<>> /\ inQ' = Tail(inQ) /\ UNCHANGED <<worker, got>>
  BY DEF Process, workVars
<1>2. PICK c \in Bufs : capDone' = Append(capDone, Item(c, inQ[1].frame))
  BY Types DEF Process
<1>3. /\ inQ[1] \in Given /\ Len(inQ') = n - 1 /\ n \in Nat \ {0}
      /\ \A i \in 1 .. n - 1 : inQ'[i] = inQ[i + 1]
  BY <1>1, Shortened DEF Queues
<1>4. Item(c, inQ[1].frame) \in Given /\ Item(c, inQ[1].frame).frame = inQ[1].frame
  BY <1>3, Frames
<1>5. /\ Len(capDone') = m + 1 /\ m \in Nat
      /\ capDone'[m + 1].frame = inQ[1].frame
      /\ \A i \in 1 .. m : capDone'[i] = capDone[i]
  BY <1>2, <1>4, Appended DEF Queues
<1>6. h \in 0 .. 1 /\ InHand' = h
  BY <1>1 DEF InHand
<1>7. NumOut = h + m + n /\ NumOut' = h + (m + 1) + (n - 1)
  BY <1>3, <1>5, <1>6 DEF NumOut
<1>8. ASSUME NEW i \in 1 .. h + m + n
      PROVE  Out(i)' = Out(i)
  <2>1. Out(i) = IF i <= h THEN got.frame
                 ELSE IF i <= h + m THEN capDone[i - h].frame ELSE inQ[i - h - m].frame
    BY DEF Out
  <2>2. Out(i)' = IF i <= h THEN got.frame
                  ELSE IF i <= h + (m + 1) THEN capDone'[i - h].frame ELSE inQ'[i - h - (m + 1)].frame
    BY <1>1, <1>5, <1>6 DEF Out
  <2> HIDE DEF h, m, n
  <2>3. CASE i <= h
    BY <2>1, <2>2, <2>3
  <2>4. CASE i > h /\ i <= h + m
    <3>1. i - h \in 1 .. m
      BY <1>5, <1>6, <2>4
    <3> QED
      BY <1>5, <1>6, <2>1, <2>2, <2>4, <3>1
  <2>5. CASE i = h + m + 1
    <3>1. i - h = m + 1 /\ i - h - m = 1 /\ ~(i <= h) /\ ~(i <= h + m) /\ i <= h + (m + 1)
      BY <1>5, <1>6, <2>5
    <3> QED
      BY <1>5, <2>1, <2>2, <3>1
  <2>6. CASE i > h + m + 1
    <3>1. i - h - (m + 1) \in 1 .. n - 1 /\ i - h - (m + 1) + 1 = i - h - m
      BY <1>3, <1>5, <1>6, <2>6
    <3>2. ~(i <= h) /\ ~(i <= h + m) /\ ~(i <= h + (m + 1))
      BY <1>5, <1>6, <2>6
    <3> QED
      BY <1>3, <2>1, <2>2, <3>1, <3>2
  <2> QED
    BY <1>3, <1>5, <1>6, <2>3, <2>4, <2>5, <2>6
<1> QED
  BY <1>3, <1>5, <1>6, <1>7, <1>8 DEF SameOut

LEMMA DequeueKeepsOut ==
  ASSUME TypeOK, Queues, Labels, DequeueCapture \/ DequeueJetson
  PROVE  SameOut
<1> DEFINE m == Len(capDone)
           n == Len(inQ)
<1>1. /\ capDone # <<>> /\ capDone' = Tail(capDone) /\ got' = capDone[1] /\ inQ' = inQ
      /\ worker # "call" /\ worker' = "call"
  BY DEF DequeueCapture, DequeueJetson, Goes, Labels
<1>2. /\ Len(capDone') = m - 1 /\ m \in Nat \ {0}
      /\ \A i \in 1 .. m - 1 : capDone'[i] = capDone[i + 1]
  BY <1>1, Shortened DEF Queues
<1>3. InHand = 0 /\ InHand' = 1 /\ n \in Nat
  BY <1>1 DEF InHand, Queues
<1>4. NumOut = 0 + m + n /\ NumOut' = 1 + (m - 1) + n
  BY <1>1, <1>2, <1>3 DEF NumOut
<1>5. ASSUME NEW i \in 1 .. m + n
      PROVE  Out(i)' = Out(i)
  <2>1. Out(i) = IF i <= 0 THEN got.frame
                 ELSE IF i <= 0 + m THEN capDone[i - 0].frame ELSE inQ[i - 0 - m].frame
    BY <1>3 DEF Out
  <2>2. Out(i)' = IF i <= 1 THEN capDone[1].frame
                  ELSE IF i <= 1 + (m - 1) THEN capDone'[i - 1].frame ELSE inQ[i - 1 - (m - 1)].frame
    BY <1>1, <1>2, <1>3 DEF Out
  <2> HIDE DEF m, n
  <2>3. CASE i = 1
    BY <1>2, <2>1, <2>2, <2>3
  <2>4. CASE i > 1 /\ i <= m
    <3>1. i - 1 \in 1 .. m - 1 /\ i - 1 + 1 = i - 0
      BY <1>2, <2>4
    <3>2. ~(i <= 0) /\ i <= 0 + m /\ ~(i <= 1) /\ i <= 1 + (m - 1)
      BY <1>2, <2>4
    <3> QED
      BY <1>2, <2>1, <2>2, <3>1, <3>2
  <2>5. CASE i > m
    <3>1. i - 0 - m = i - 1 - (m - 1) /\ ~(i <= 0) /\ ~(i <= 0 + m) /\ ~(i <= 1) /\ ~(i <= 1 + (m - 1))
      BY <1>2, <2>5
    <3> QED
      BY <2>1, <2>2, <3>1
  <2> QED
    BY <1>2, <1>3, <2>3, <2>4, <2>5
<1> QED
  BY <1>2, <1>3, <1>4, <1>5 DEF SameOut

\* A step that moves no frame out and no callback.
LEMMA StillAligned ==
  ASSUME Aligned, Queues, SameOut, SameTasks, UNCHANGED <<kind, raced>>,
         worker' # "ended" => worker # "ended", life' = "up" => life = "up"
  PROVE  Aligned'
<1>1. NumOut \in Nat /\ NumTasks \in Nat
  BY Lined
<1> HIDE DEF NumOut, NumTasks, Out, Task
<1>2. \A i \in 1 .. NumOut : i <= NumTasks => i \in 1 .. NumTasks
  BY <1>1
<1> QED
  BY <1>1, <1>2 DEF Aligned, SameOut, SameTasks, Up

\* The steps that leave the lines' variables alone.
LEMMA TasksUntouched ==
  ASSUME UNCHANGED <<tasks, emplacing>>
  PROVE  SameTasks
  BY DEF SameTasks, NumTasks, Task

LEMMA OutUntouched ==
  ASSUME UNCHANGED <<inQ, capDone>>, InHand' = InHand, InHand = 1 => UNCHANGED got,
         InHand \in {0, 1}, Queues
  PROVE  SameOut
<1>1. NumOut' = NumOut
  BY DEF NumOut
<1>2. ASSUME NEW i \in 1 .. NumOut
      PROVE  Out(i)' = Out(i)
  BY Lined DEF Out
<1> QED
  BY <1>1, <1>2 DEF SameOut

\* A frame at the end of the input queue comes out last.
LEMMA OutGrows ==
  ASSUME Queues, NEW e \in Given, inQ' = Append(inQ, e), UNCHANGED <<capDone, got, worker>>
  PROVE  /\ NumOut' = NumOut + 1
         /\ \A i \in 1 .. NumOut + 1 : Out(i)' = IF i = NumOut + 1 THEN e.frame ELSE Out(i)
<1> DEFINE n == NumOut
<1>1. n \in Nat
  BY Lined
<1>2. /\ Len(inQ') = Len(inQ) + 1 /\ inQ'[Len(inQ) + 1] = e
      /\ \A i \in 1 .. Len(inQ) : inQ'[i] = inQ[i]
  BY Appended DEF Queues
<1> DEFINE h == InHand
           m == Len(capDone)
           q == Len(inQ)
<1>3. h \in 0 .. 1 /\ m \in Nat /\ q \in Nat /\ InHand' = h
  BY Lined DEF InHand
<1>4. n = h + m + q /\ NumOut' = h + m + (q + 1)
  BY <1>2, <1>3 DEF NumOut
<1>5. ASSUME NEW i \in 1 .. n + 1
      PROVE  Out(i)' = IF i = n + 1 THEN e.frame ELSE Out(i)
  <2>1. Out(i) = IF i <= h THEN got.frame ELSE IF i <= h + m THEN capDone[i - h].frame
                 ELSE inQ[i - h - m].frame
    BY DEF Out
  <2>2. Out(i)' = IF i <= h THEN got.frame ELSE IF i <= h + m THEN capDone[i - h].frame
                  ELSE inQ'[i - h - m].frame
    BY <1>3 DEF Out
  <2>3. /\ inQ'[q + 1].frame = e.frame
        /\ \A j \in 1 .. q : inQ'[j] = inQ[j]
    BY <1>2
  <2> HIDE DEF h, m, q, n
  <2>4. CASE i = n + 1
    <3>1. ~(i <= h) /\ ~(i <= h + m) /\ i - h - m = q + 1
      BY <1>3, <1>4, <2>4
    <3> QED
      BY <2>2, <2>3, <2>4, <3>1
  <2>5. CASE i # n + 1
    <3>1. i <= h + m \/ i - h - m \in 1 .. q
      BY <1>1, <1>3, <1>4, <2>5
    <3> QED
      BY <2>1, <2>2, <2>3, <2>5, <3>1
  <2> QED
    BY <2>4, <2>5
<1> QED
  BY <1>1, <1>3, <1>4, <1>5

\* A frame joins the pipeline together with its callback.
LEMMA PipelineGrows ==
  ASSUME TypeOK, Queues, InOrder, Aligned, Up, emplacing = None, emplacing' \in Given, emplacing'.frame = offered',
         offered' = offered + 1, inQ' = Append(inQ, emplacing'),
         UNCHANGED <<kind, life, capDone, got, worker, tasks, raced>>
  PROVE  Aligned'
<1> SUFFICES ASSUME kind # "jetsonScaler", worker # "ended"
             PROVE  Aligned'
  BY DEF Aligned
<1> DEFINE n == NumOut
           k == NumTasks
<1>1. n \in Nat /\ k \in Nat /\ k = Len(tasks) /\ offered \in Nat
  BY Lined, Types, Constants DEF NumTasks
<1>2. NumOut' = n + 1 /\ \A i \in 1 .. n + 1 : Out(i)' = IF i = n + 1 THEN offered' ELSE Out(i)
  BY OutGrows
<1>6. NumTasks' = k + 1
  BY <1>1, Frames DEF NumTasks
<1>7. ASSUME NEW i \in 1 .. k + 1
      PROVE  /\ Task(i)' = IF i = k + 1 THEN offered' ELSE Task(i)
             /\ i # k + 1 => Task(i) \in Nat /\ Task(i) <= offered
  <2>1. CASE i = k + 1
    BY <1>1, <2>1 DEF Task
  <2>2. CASE i # k + 1
    <3>1. i \in 1 .. Len(tasks) /\ i \in DOMAIN tasks
      BY <1>1, <2>2, TasksOf
    <3>2. Task(i) = tasks[i].frame /\ Task(i)' = tasks[i].frame
      BY <3>1 DEF Task
    <3> QED
      BY <2>2, <3>1, <3>2, TasksOf DEF InOrder
  <2> QED
    BY <2>1, <2>2
<1> HIDE DEF n, k
<1>8. /\ Up => n <= k /\ (~raced => n = k)
      /\ \A i \in 1 .. n : i <= k => Out(i) >= Task(i) /\ (~raced => Out(i) = Task(i))
  BY DEF Aligned, n, k
<1>9. Up' => n + 1 <= k + 1 /\ (~raced' => n + 1 = k + 1)
  BY <1>1, <1>8 DEF Up
<1>10. NumOut' = n + 1
  BY <1>2
<1>11. ASSUME NEW i \in 1 .. n + 1, i <= k + 1
       PROVE  Out(i)' >= Task(i)' /\ (~raced' => Out(i)' = Task(i)')
  <2>1. i \in 1 .. k + 1
    BY <1>1, <1>11
  <2>2. CASE i = n + 1 /\ i = k + 1
    BY <1>1, <1>2, <1>7, <2>1, <2>2
  <2>3. CASE i = n + 1 /\ i # k + 1
    <3>1. Out(i)' = offered + 1 /\ Task(i)' = Task(i) /\ Task(i) \in Nat /\ Task(i) <= offered
      BY <1>2, <1>7, <2>1, <2>3
    <3>2. raced
      BY <1>1, <1>8, <2>3
    <3> QED
      BY <1>1, <3>1, <3>2
  <2>4. CASE i # n + 1
    <3>1. i \in 1 .. n /\ i <= k /\ i # k + 1
      BY <1>1, <1>8, <2>1, <2>4
    <3> QED
      BY <1>2, <1>7, <1>8, <2>1, <2>4, <3>1
  <2> QED
    BY <2>2, <2>3, <2>4
<1> QED
  BY <1>6, <1>9, <1>10, <1>11 DEF Aligned

\* The callback is registered, or refused because the queue is full of older ones: it
\* is then longer than the pipeline.
LEMMA RegisterAligned ==
  ASSUME TypeOK, Queues, Labels, Inputs, Captures, Aligned, Register
  PROVE  Aligned'
<1> SUFFICES ASSUME kind # "jetsonScaler", worker # "ended"
             PROVE  Aligned'
  BY DEF Aligned, Register, callerVars, workVars
<1> DEFINE l == Len(tasks)
<1>1. /\ emplacing \in Given /\ emplacing' = None
      /\ tasks' = (IF l < TaskMax THEN Append(tasks, emplacing) ELSE tasks)
      /\ UNCHANGED <<kind, life, inQ, capDone, worker, got, raced>>
  BY DEF Register, callerVars, capVars, workVars, Queues
<1>m. TaskMax = QueueMax
  BY TaskBound
<1>2. l \in Nat /\ l <= QueueMax /\ NumTasks = l + 1
  BY <1>1, <1>m, Lined, Types, Frames DEF NumTasks
<1>3. SameOut
  <2>1. InHand' = InHand
    BY <1>1 DEF InHand
  <2> QED
    BY <1>1, <2>1, Lined, OutUntouched
<1>4. CASE l < QueueMax
  <2>1. /\ Len(tasks') = l + 1 /\ tasks'[l + 1] = emplacing
        /\ \A i \in 1 .. l : tasks'[i] = tasks[i]
    BY <1>1, <1>m, <1>4, Appended DEF Queues
  <2>2. NumTasks' = NumTasks
    BY <1>1, <1>2, <2>1 DEF NumTasks
  <2>3. ASSUME NEW i \in 1 .. NumTasks
        PROVE  Task(i)' = Task(i)
    <3>1. i \in 1 .. l + 1
      BY <1>2
    <3>2. Task(i) = IF i <= l THEN tasks[i].frame ELSE emplacing.frame
      BY DEF Task
    <3>3. Task(i)' = tasks'[i].frame
      BY <1>2, <2>1, <3>1 DEF Task
    <3> HIDE DEF l
    <3> QED
      BY <1>2, <2>1, <3>1, <3>2, <3>3
  <2>4. SameTasks
    BY <2>2, <2>3 DEF SameTasks
  <2> QED
    BY <1>1, <1>3, <2>4, StillAligned
<1>5. CASE ~(l < QueueMax)
  <2>1. tasks' = tasks /\ l = QueueMax /\ NumTasks' = l
    BY <1>1, <1>m, <1>2, <1>5, Constants DEF NumTasks
  <2>2. \A i \in 1 .. l : Task(i)' = Task(i)
    BY <1>2, <2>1 DEF Task
  <2>3. NumOut <= 2 * BufferNum /\ NumOut \in Nat
    BY OutBounded, Lined
  <2> HIDE DEF l
  <2>4. NumOut <= l /\ NumOut # NumTasks
    BY <1>2, <2>1, <2>3, Constants
  <2>5. /\ Up => raced
        /\ \A i \in 1 .. NumOut : i <= NumTasks =>
              Out(i) >= Task(i) /\ (~raced => Out(i) = Task(i))
    BY <2>4 DEF Aligned
  <2>6. ASSUME NEW i \in 1 .. NumOut
        PROVE  Out(i)' >= Task(i)' /\ (~raced => Out(i)' = Task(i)')
    <3>1. i \in 1 .. l /\ i <= NumTasks
      BY <1>2, <2>3, <2>4
    <3> QED
      BY <1>3, <2>2, <2>5, <3>1 DEF SameOut
  <2>7. Up' => NumOut' <= NumTasks' /\ (~raced' => NumOut' = NumTasks')
    BY <1>1, <1>3, <2>1, <2>4, <2>5 DEF SameOut, Up
  <2> QED
    BY <1>1, <1>3, <2>6, <2>7 DEF Aligned, SameOut
<1> QED
  BY <1>4, <1>5

\* A frame comes out, and the oldest callback is called with it.
LEMMA CallAligned ==
  ASSUME TypeOK, Queues, Labels, Aligned, OwnFrame, CallEncoded
  PROVE  Aligned' /\ OwnFrame'
<1> DEFINE m == Len(capDone)
           q == Len(inQ)
           l == Len(tasks)
           e == IF emplacing # None THEN 1 ELSE 0
<1>1. /\ worker = "call" /\ worker' = "requeue" /\ kind # "jetsonScaler"
      /\ UNCHANGED <<kind, life, inQ, capDone, got, emplacing>>
      /\ raced' = (raced \/ (tasks = <<>> /\ emplacing # None))
      /\ IF tasks = <<>> THEN UNCHANGED <<tasks, called>>
         ELSE called' = [task |-> tasks[1].frame, frame |-> got.frame] /\ tasks' = Tail(tasks)
  BY DEF CallEncoded, Popped, SendFrame, Goes, callerVars, capVars
<1>2. m \in Nat /\ q \in Nat /\ l \in Nat /\ raced \in BOOLEAN /\ e \in {0, 1}
  BY Lined, Types
<1>3. NumOut = 1 + m + q /\ NumOut' = m + q
  BY <1>1, <1>2 DEF NumOut, InHand
<1>4. ASSUME NEW i \in 1 .. m + q
      PROVE  Out(i)' = Out(i + 1)
  <2>1. Out(i)' = IF i <= 0 THEN got.frame ELSE IF i <= 0 + m THEN capDone[i - 0].frame
                  ELSE inQ[i - 0 - m].frame
    BY <1>1 DEF Out, InHand
  <2>2. Out(i + 1) = IF i + 1 <= 1 THEN got.frame ELSE IF i + 1 <= 1 + m THEN capDone[i + 1 - 1].frame
                     ELSE inQ[i + 1 - 1 - m].frame
    BY <1>1 DEF Out, InHand
  <2> HIDE DEF m, q
  <2>3. i - 0 = i + 1 - 1 /\ i - 0 - m = i + 1 - 1 - m /\ ~(i <= 0) /\ ~(i + 1 <= 1)
        /\ (i <= 0 + m <=> i + 1 <= 1 + m)
    BY <1>2
  <2> QED
    BY <2>1, <2>2, <2>3
<1>5. /\ Up => NumOut <= NumTasks /\ (~raced => NumOut = NumTasks)
      /\ \A i \in 1 .. NumOut : i <= NumTasks => Out(i) >= Task(i) /\ (~raced => Out(i) = Task(i))
  BY <1>1 DEF Aligned
<1>6. NumTasks = l + e
  BY DEF NumTasks
<1>7. CASE tasks = <<>>
  <2>1. l = 0 /\ NumTasks' = e /\ UNCHANGED <<tasks, called>>
    BY <1>1, <1>7, Emptied DEF NumTasks
  <2>a. raced => raced'
    BY <1>1
  <2>b. emplacing # None => raced'
    BY <1>1, <1>7
  <2>c. e = 1 => emplacing # None
    OBVIOUS
  <2>d. emplacing = None => e = 0
    OBVIOUS
  <2>2. OwnFrame'
    BY <2>1, <2>a DEF OwnFrame
  <2> HIDE DEF m, q, l, e
  <2>3. CASE Up
    <3>1. m + q = 0 /\ e = 1
      BY <1>2, <1>3, <1>5, <1>6, <2>1, <2>3
    <3>2. raced'
      BY <2>b, <2>c, <3>1
    <3> QED
      BY <1>3, <2>1, <2>2, <3>1, <3>2 DEF Aligned
  <2>4. CASE ~Up
    <3>1. e = 0 /\ ~Up'
      BY <1>1, <2>d, <2>4 DEF CallEncoded, Running, Labels, Up
    <3> QED
      BY <1>2, <1>3, <2>1, <2>2, <3>1 DEF Aligned
  <2> QED
    BY <2>3, <2>4
<1>8. CASE tasks # <<>>
  <2>1. /\ tasks' = Tail(tasks) /\ Len(tasks') = l - 1 /\ l \in Nat \ {0}
        /\ \A i \in 1 .. l - 1 : tasks'[i] = tasks[i + 1]
        /\ raced' = raced /\ called' = [task |-> tasks[1].frame, frame |-> got.frame]
    BY <1>1, <1>2, <1>8, Shortened DEF Queues
  <2>2. NumTasks' = l - 1 + e
    BY <1>1, <2>1 DEF NumTasks
  <2>3. ASSUME NEW i \in 1 .. l - 1 + e
        PROVE  Task(i)' = Task(i + 1)
    <3>1. Task(i)' = IF i <= l - 1 THEN tasks'[i].frame ELSE emplacing.frame
      BY <1>1, <2>1 DEF Task
    <3>2. Task(i + 1) = IF i + 1 <= l THEN tasks[i + 1].frame ELSE emplacing.frame
      BY DEF Task
    <3> HIDE DEF l, e
    <3>3. i <= l - 1 <=> i + 1 <= l
      BY <2>1
    <3> QED
      BY <1>2, <2>1, <3>1, <3>2, <3>3
  <2>4. Out(1) = got.frame /\ Task(1) = tasks[1].frame
    BY <1>1, <2>1 DEF Out, InHand, Task
  <2> HIDE DEF m, q, l, e
  <2>5. 1 \in 1 .. NumOut /\ 1 <= NumTasks
    BY <1>2, <1>3, <1>6, <2>1
  <2>6. OwnFrame'
    BY <1>5, <2>1, <2>4, <2>5 DEF OwnFrame
  <2>7. Up' => NumOut' <= NumTasks' /\ (~raced' => NumOut' = NumTasks')
    BY <1>1, <1>2, <1>3, <1>5, <1>6, <2>1, <2>2 DEF Up
  <2>8. ASSUME NEW i \in 1 .. NumOut', i <= NumTasks'
        PROVE  Out(i)' >= Task(i)' /\ (~raced' => Out(i)' = Task(i)')
    <3>1. i \in 1 .. m + q /\ i \in 1 .. l - 1 + e
      BY <1>2, <1>3, <2>1, <2>2, <2>8
    <3>2. i + 1 \in 1 .. NumOut /\ i + 1 <= NumTasks
      BY <1>2, <1>3, <1>6, <2>1, <3>1
    <3> QED
      BY <1>4, <1>5, <2>1, <2>3, <3>1, <3>2
  <2> QED
    BY <2>6, <2>7, <2>8 DEF Aligned
<1> QED
  BY <1>7, <1>8

\* The end of the stream joins the pipeline, or is refused.
LEMMA ReleaseAligned ==
  ASSUME TypeOK, Queues, Inputs, Aligned, Release
  PROVE  Aligned'
<1> SUFFICES ASSUME kind # "jetsonScaler", worker # "ended"
             PROVE  Aligned'
  BY DEF Aligned, Release, workVars
<1>1. /\ life = "up" /\ life' = "joining" /\ emplacing = None
      /\ UNCHANGED <<kind, emplacing, capDone, tasks, worker, got, raced>>
      /\ inQ' = inQ \/ inQ' = Append(inQ, Item(EosBuffer, Eos))
  BY DEF Release, capVars, workVars, Up
<1>2. SameTasks
  BY <1>1, TasksUntouched
<1>3. InHand' = InHand
  BY <1>1 DEF InHand
<1>4. CASE inQ' = inQ
  <2>1. SameOut
    BY <1>1, <1>3, <1>4, Lined, OutUntouched
  <2> QED
    BY <1>1, <1>2, <2>1, StillAligned
<1>5. CASE inQ' = Append(inQ, Item(EosBuffer, Eos))
  <2> DEFINE n == NumOut
             k == NumTasks
  <2>1. Item(EosBuffer, Eos) \in Given /\ Item(EosBuffer, Eos).frame = Eos
    BY EosIsOutside, Types, Frames DEF Release, Aligned
  <2>2. NumOut' = n + 1 /\ \A i \in 1 .. n + 1 : Out(i)' = IF i = n + 1 THEN Eos ELSE Out(i)
    BY <1>1, <1>5, <2>1, OutGrows
  <2>3. n \in Nat /\ k \in Nat /\ k = Len(tasks)
    BY <1>1, Lined DEF NumTasks
  <2>4. \A i \in 1 .. k : Task(i) = tasks[i].frame /\ Task(i) <= Eos
    <3> SUFFICES ASSUME NEW i \in 1 .. k PROVE Task(i) = tasks[i].frame /\ Task(i) <= Eos
      OBVIOUS
    <3>1. Task(i) = tasks[i].frame
      BY <2>3 DEF Task
    <3>2. tasks[i] \in Given
      BY <2>3, TasksOf
    <3> QED
      BY <3>1, <3>2, Frames
  <2>5. /\ n <= k /\ (~raced => n = k)
        /\ \A i \in 1 .. n : i <= k => Out(i) >= Task(i) /\ (~raced => Out(i) = Task(i))
    BY <1>1 DEF Aligned, Up
  <2>6. NumTasks' = k /\ \A i \in 1 .. k : Task(i)' = Task(i)
    BY <1>2 DEF SameTasks
  <2> HIDE DEF n, k
  <2>7. ASSUME NEW i \in 1 .. n + 1, i <= k
        PROVE  Out(i)' >= Task(i)' /\ (~raced => Out(i)' = Task(i)')
    <3>1. i \in 1 .. k /\ Task(i)' = Task(i)
      BY <2>3, <2>6, <2>7
    <3>2. CASE i = n + 1
      <4>1. raced
        BY <2>3, <2>5, <2>7, <3>2
      <4> QED
        BY <2>2, <2>4, <3>1, <3>2, <4>1, Frames
    <3>3. CASE i # n + 1
      <4>1. i \in 1 .. n
        BY <2>3, <3>3
      <4> QED
        BY <2>2, <2>5, <2>7, <3>1, <3>3, <4>1
    <3> QED
      BY <3>2, <3>3
  <2> QED
    BY <1>1, <2>2, <2>6, <2>7 DEF Aligned, Up
<1> QED
  BY <1>1, <1>4, <1>5

\* A new processor has nothing on its way.
LEMMA CreateAligned ==
  ASSUME Queues, Labels, Aligned, Create
  PROVE  Aligned'
<1>1. CASE Fresh
  <2>1. /\ inQ' = <<>> /\ capDone' = <<>> /\ tasks' = <<>> /\ worker' = "loop" /\ emplacing' = None
    BY <1>1 DEF Fresh, Labels
  <2>2. NumOut' = 0 /\ NumTasks' = 0
    BY <2>1, Emptied DEF NumOut, NumTasks, InHand
  <2> QED
    BY <2>2 DEF Aligned
<1>2. CASE Spoiled
  <2>1. UNCHANGED <<kind, inQ, capDone, tasks, emplacing, worker, got, raced>> /\ life' = "dead"
    BY <1>2 DEF Spoiled, inVars, capVars, workVars
  <2>2. InHand' = InHand
    BY <2>1 DEF InHand
  <2>3. SameOut /\ SameTasks
    BY <2>1, <2>2, Lined, OutUntouched, TasksUntouched
  <2> QED
    BY <2>1, <2>3, StillAligned
<1> QED
  BY <1>1, <1>2, Creation

\* An offer adds the frame and its callback together, or neither.
LEMMA EmplaceAligned ==
  ASSUME TypeOK, Queues, Inputs, InOrder, Aligned, EmplaceBuffer
  PROVE  Aligned'
<1>1. /\ Up /\ emplacing = None /\ offered' = offered + 1
      /\ emplacing' = None \/ (emplacing' \in Given /\ emplacing'.frame = offered')
      /\ UNCHANGED <<kind, life, capDone, tasks, worker, got, raced>>
  BY Offered DEF capVars, workVars
<1>2. CASE inQ' = inQ /\ emplacing' = None
  <2>1. InHand' = InHand
    BY <1>1 DEF InHand
  <2>2. SameOut /\ SameTasks
    BY <1>1, <1>2, <2>1, Lined, OutUntouched, TasksUntouched
  <2> QED
    BY <1>1, <2>2, StillAligned
<1>3. CASE inQ' = Append(inQ, emplacing') /\ emplacing' # None
  BY <1>1, <1>3, PipelineGrows
<1>4. CASE kind = "jetsonScaler"
  BY <1>1, <1>4 DEF Aligned
<1>5. \/ inQ' = inQ /\ emplacing' = None
      \/ inQ' = Append(inQ, emplacing') /\ emplacing' # None
      \/ kind = "jetsonScaler"
  <2>1. CASE EmplaceDrops \/ EmplaceJetsonDrops \/ EmplaceJetsonFails \/ \E b \in Bufs : EmplaceFails(b)
    BY <1>1, <2>1 DEF EmplaceDrops, EmplaceJetsonDrops, EmplaceJetsonFails, EmplaceFails, inVars
  <2>2. ASSUME NEW b \in Bufs, EmplaceV4l2(b)
        PROVE  inQ' = Append(inQ, emplacing') /\ emplacing' # None
    <3>1. offered' \in 1 .. Eos
      BY Offered, Constants DEF Eos
    <3> QED
      BY <2>2, <3>1, Frames DEF EmplaceV4l2
  <2>3. ASSUME NEW b \in Bufs, EmplaceTransform(b)
        PROVE  kind = "jetsonScaler"
    BY <2>3 DEF EmplaceTransform
  <2>4. CASE EmplaceJetson
    <3>1. NextBuffer \in Bufs
      BY <2>4, Types, NextIsOutside DEF EmplaceJetson, Offer
    <3>2. offered' \in 1 .. Eos
      BY Offered, Constants DEF Eos
    <3>3. Item(NextBuffer, offered') # None
      BY <3>1, <3>2, Frames
    <3> QED
      BY <2>4, <3>3 DEF EmplaceJetson
  <2> QED
    BY <2>1, <2>2, <2>3, <2>4 DEF EmplaceBuffer
<1> QED
  BY <1>2, <1>3, <1>4, <1>5

\* The frames come out in the order of the callbacks.
LEMMA AlignedStep ==
  ASSUME TypeOK, Queues, Labels, Inputs, Captures, InOrder, Aligned, OwnFrame, Next
  PROVE  Aligned'
<1>0. CASE /\ UNCHANGED <<kind, inQ, capDone, tasks, emplacing, raced>>
           /\ InHand' = InHand /\ (InHand = 1 => UNCHANGED got)
           /\ worker' # "ended" => worker # "ended"
           /\ life' = "up" => life = "up"
  BY <1>0, Lined, OutUntouched, TasksUntouched, StillAligned
<1>1. CASE Create
  BY <1>1, CreateAligned
<1>2. CASE EmplaceBuffer
  BY <1>2, EmplaceAligned
<1>3. CASE Register
  BY <1>3, RegisterAligned
<1>4. CASE Process
  <2>1. UNCHANGED <<kind, life, tasks, emplacing, worker, raced>>
    BY <1>4 DEF Process, callerVars, workVars
  <2> QED
    BY <1>4, <2>1, ProcessKeepsOut, TasksUntouched, StillAligned
<1>5. CASE DecoderEvent
  BY <1>0, <1>5 DEF DecoderEvent, inVars, capVars, workVars, InHand
<1>6. CASE Select \/ DequeueOutput
  BY <1>0, <1>6 DEF Select, DequeueOutput, Goes, callerVars, capVars, InHand
<1>7. CASE DequeueCapture \/ DequeueJetson
  <2>1. UNCHANGED <<kind, life, tasks, emplacing, raced>> /\ worker # "ended"
    BY <1>7 DEF DequeueCapture, DequeueJetson, Goes, callerVars
  <2> QED
    BY <1>7, <2>1, DequeueKeepsOut, TasksUntouched, StillAligned
<1>8. CASE DequeueFails \/ DequeueJetsonFails
  <2>1. CASE DequeueFails
    BY <1>0, <2>1 DEF DequeueFails, Goes, callerVars, capVars, InHand
  <2>2. CASE DequeueJetsonFails
    BY <2>2 DEF DequeueJetsonFails, Aligned
  <2> QED
    BY <1>8, <2>1, <2>2
<1>9. CASE CallEncoded
  BY <1>9, CallAligned
<1>10. CASE Requeue
  <2>1. /\ UNCHANGED <<kind, life, inQ, capDone, tasks, emplacing, raced>> /\ worker = "requeue"
        /\ worker' = IF got.frame = Eos THEN "ended" ELSE "loop"
    BY <1>10 DEF Requeue, Goes, callerVars
  <2> QED
    BY <1>0, <2>1 DEF InHand
<1>11. CASE RequeueFails
  <2>1. /\ UNCHANGED <<kind, life, inQ, capDone, tasks, emplacing, raced>> /\ worker = "requeue"
        /\ worker' = IF V4l2 THEN "loop" ELSE "ended"
    BY <1>11 DEF RequeueFails, inVars, capVars
  <2> QED
    BY <1>0, <2>1 DEF InHand
<1>12. CASE WorkerEnds
  BY <1>12 DEF WorkerEnds, Aligned
<1>13. CASE CallScaled \/ GiveBackScaled
  BY <1>13 DEF CallScaled, GiveBackScaled, Goes, callerVars, Labels, Aligned
<1>14. CASE Release
  BY <1>14, ReleaseAligned
<1>15. CASE Released
  BY <1>15 DEF Released, workVars, Aligned
<1> QED
  BY <1>1, <1>2, <1>3, <1>4, <1>5, <1>6, <1>7, <1>8, <1>9, <1>10, <1>11, <1>12, <1>13, <1>14,
     <1>15 DEF Next, CaptureBuffer

\* A callback is not called with an older frame than its own.
LEMMA OwnFrameStep ==
  ASSUME TypeOK, Queues, Labels, Aligned, OwnFrame, Next
  PROVE  OwnFrame'
<1>0. CASE UNCHANGED <<called, raced>>
  BY <1>0 DEF OwnFrame
<1>1. CASE Create
  BY <1>0, <1>1, Creation DEF Fresh, Spoiled, workVars
<1>2. CASE EmplaceBuffer
  BY <1>0, <1>2, OfferKeeps DEF Offer, workVars
<1>3. CASE Register \/ Process \/ DecoderEvent \/ Release \/ Released \/ WorkerEnds
  BY <1>0, <1>3 DEF Register, Process, DecoderEvent, Release, Released, WorkerEnds, workVars
<1>4. CASE Select \/ DequeueOutput \/ DequeueCapture \/ DequeueJetson \/ DequeueFails
           \/ DequeueJetsonFails \/ Requeue
           \/ RequeueFails \/ GiveBackScaled
  BY <1>0, <1>4 DEF Select, DequeueOutput, DequeueCapture, DequeueJetson, DequeueFails,
     DequeueJetsonFails, Requeue,
     RequeueFails, GiveBackScaled
<1>5. CASE CallEncoded
  BY <1>5, CallAligned
<1>6. CASE CallScaled
  <2>1. tasks # <<>> /\ called' = [task |-> tasks[1].frame, frame |-> tasks[1].frame]
    BY <1>6 DEF CallScaled, Popped, OnFrame
  <2>2. tasks[1].frame \in Nat
    BY <2>1, TasksOf
  <2> QED
    BY <2>1, <2>2 DEF OwnFrame
<1> QED
  BY <1>1, <1>2, <1>3, <1>4, <1>5, <1>6 DEF Next, CaptureBuffer
-----------------------------------------------------------------------------
\* The initial values are in the ranges.
LEMMA Zero ==
  0 \in 0 .. MaxFrames /\ 0 \in 0 .. MaxFaults /\ 0 \in 0 .. Eos /\ 0 <= TaskMax
  BY Constants, TaskBound DEF Eos

\* Init => IInv.
LEMMA InitTypeOK ==
  ASSUME Init
  PROVE  TypeOK
<1> DEFINE Item_ == [buf : 0 .. BufferNum, frame : 0 .. Eos]
<1>1. None \in Item_
  BY Frames, Constants DEF None, NoFrame, Eos
<1> HIDE DEF Item_
<1>2. inQ \in Seq(Item_) /\ capDone \in Seq(Item_) /\ tasks \in Seq(Item_) /\ outDone \in Seq(Bufs)
  BY DEF Init
<1>3. called \in [task : 0 .. MaxFrames, frame : 0 .. Eos]
  BY Zero DEF Init, NoFrame
<1>4. kind \in Kinds /\ life \in {"none", "up", "joining", "dead"}
  BY DEF Init
<1>5. {abort, raced} \subseteq BOOLEAN
  BY DEF Init
<1>6. offered \in 0 .. MaxFrames /\ faults \in 0 .. MaxFaults
  BY Zero DEF Init
<1>7. free \subseteq Bufs /\ capFree \subseteq Bufs
  BY DEF Init
<1>8. worker \in {"loop", "dequeue", "take", "call", "requeue", "giveBack", "ended"}
  BY DEF Init
<1>9. Len(tasks) <= TaskMax
  BY Emptied, Zero DEF Init
<1>10. {emplacing, got} \subseteq Item_
  BY <1>1 DEF Init
<1> QED
  BY <1>2, <1>3, <1>4, <1>5, <1>6, <1>7, <1>8, <1>9, <1>10 DEF Item_, TypeOK

LEMMA InitIInv ==
  ASSUME Init
  PROVE  IInv
<1>1. TypeOK
  BY InitTypeOK
<1> USE Emptied, Frames, Constants DEF Init, Up
<1>2. Queues
  BY DEF Queues
<1>3. Labels
  BY DEF Labels
<1>4. Inputs
  BY DEF Inputs
<1>5. Captures
  BY Held DEF Captures
<1>6. Scaled /\ Unended
  BY DEF Scaled, Unended
<1>7. InOrder
  BY DEF InOrder, NoFrame
<1>8. Aligned /\ OwnFrame
  BY DEF Aligned, OwnFrame, NoFrame
<1> QED
  BY <1>1, <1>2, <1>3, <1>4, <1>5, <1>6, <1>7, <1>8 DEF IInv

\* IInv /\ [Next]_vars => IInv'.
LEMMA NextIInv ==
  ASSUME IInv, [Next]_vars
  PROVE  IInv'
<1>1. CASE Next
  <2> USE <1>1
  <2>0. /\ TypeOK /\ Queues /\ Labels /\ Inputs /\ Captures /\ Scaled /\ InOrder /\ Unended
        /\ Aligned /\ OwnFrame
    BY DEF IInv
  <2>1. Queues'
    BY <2>0, QueuesStep
  <2>2. TypeOK'
    BY <2>0, <2>1, TypeStep
  <2>3. Labels'
    BY <2>0, LabelsStep
  <2>4. Inputs'
    BY <2>0, InputsStep
  <2>5. Captures'
    <3>1. CASE kind = "jetsonScaler"
      <4>1. kind' = kind
        BY KindKept
      <4> QED
        BY <3>1, <4>1 DEF Captures
    <3>2. CASE kind # "jetsonScaler"
      BY <2>0, <3>2, CapturesStep
    <3> QED
      BY <3>1, <3>2
  <2>6. Scaled'
    BY <2>0, ScaledStep
  <2>7. InOrder' /\ Unended'
    BY <2>0, InOrderStep, UnendedStep
  <2>8. Aligned' /\ OwnFrame'
    BY <2>0, AlignedStep, OwnFrameStep
  <2> QED
    BY <2>1, <2>2, <2>3, <2>4, <2>5, <2>6, <2>7, <2>8 DEF IInv
<1>2. CASE UNCHANGED vars
  <2>0. /\ TypeOK /\ Queues /\ Labels /\ Inputs /\ Captures /\ Scaled /\ InOrder /\ Unended
        /\ Aligned /\ OwnFrame
    BY DEF IInv
  <2>1. UNCHANGED <<kind, life, abort, offered, emplacing, free, inQ, outDone, capFree, capDone, tasks,
                    worker, got, called, raced, faults>>
    BY <1>2 DEF vars, callerVars, inVars, capVars, workVars
  <2>2. TypeOK'
    BY <2>0, <2>1 DEF TypeOK, TaskMax
  <2>3. Queues' /\ Labels' /\ Captures' /\ Scaled' /\ InOrder' /\ Unended' /\ OwnFrame'
    BY <2>0, <2>1 DEF Queues, Labels, Captures, Scaled, InOrder, Unended, OwnFrame, Up, V4l2
  <2>4. Inputs'
    BY <2>0, <2>1 DEF Inputs, Up, V4l2, NumQueued
  <2>5. Aligned'
    <3>1. InHand' = InHand
      BY <2>1 DEF InHand
    <3>2. SameOut /\ SameTasks
      BY <2>0, <2>1, <3>1, Lined, OutUntouched, TasksUntouched
    <3> QED
      BY <2>0, <2>1, <3>2, StillAligned
  <2> QED
    BY <2>2, <2>3, <2>4, <2>5 DEF IInv
<1> QED
  BY <1>1, <1>2

\* The inductive invariant always holds.
LEMMA Invariant == Spec => []IInv
<1> QED
  BY InitIInv, NextIInv, PTL DEF Spec
-----------------------------------------------------------------------------
\* Disjoint parts that cover a set are a partition of it.
LEMMA ThreeParts ==
  ASSUME NEW A, NEW B, NEW C, NEW S, A \cap B = {}, C \cap (A \cup B) = {},
         A \subseteq S, B \subseteq S, C \subseteq S, S \subseteq A \cup B \cup C
  PROVE  Partition(<<A, B, C>>, S)
<1> DEFINE p == <<A, B, C>>
<1>1. DOMAIN p = {1, 2, 3} /\ p[1] = A /\ p[2] = B /\ p[3] = C
  OBVIOUS
<1> HIDE DEF p
<1>2. Range(p) = {A, B, C}
  BY <1>1 DEF Range
<1>3. UNION Range(p) = S
  BY <1>2
<1>4. \A i, j \in DOMAIN p : i # j => p[i] \cap p[j] = {}
  BY <1>1
<1> QED
  BY <1>3, <1>4 DEF Partition, p

LEMMA FourParts ==
  ASSUME NEW A, NEW B, NEW C, NEW D, NEW S, A \cap C = {}, B \cap (A \cup C) = {},
         D \cap (A \cup C \cup B) = {},
         A \subseteq S, B \subseteq S, C \subseteq S, D \subseteq S, S \subseteq A \cup B \cup C \cup D
  PROVE  Partition(<<A, B, C, D>>, S)
<1> DEFINE p == <<A, B, C, D>>
<1>1. DOMAIN p = {1, 2, 3, 4} /\ p[1] = A /\ p[2] = B /\ p[3] = C /\ p[4] = D
  OBVIOUS
<1> HIDE DEF p
<1>2. Range(p) = {A, B, C, D}
  BY <1>1 DEF Range
<1>3. UNION Range(p) = S
  BY <1>2
<1>4. \A i, j \in DOMAIN p : i # j => p[i] \cap p[j] = {}
  BY <1>1
<1> QED
  BY <1>3, <1>4 DEF Partition, p

\* The inductive invariant implies the one that is checked.
LEMMA Conserved ==
  ASSUME IInv
  PROVE  BufferInv
<1>0. /\ TypeOK /\ Queues /\ Labels /\ Inputs /\ Captures /\ Scaled
  BY DEF IInv
<1> SUFFICES ASSUME Up, faults = 0
             PROVE  BuffersConserved
  BY <1>0 DEF BufferInv, BuffersConserved
<1>1. /\ free \subseteq Bufs /\ capFree \subseteq Bufs /\ outDone \in Seq(Bufs)
  BY <1>0, Types
<1>2. /\ Items(inQ) \subseteq Bufs /\ Items(capDone) \subseteq Bufs /\ Items(tasks) \subseteq Bufs
      /\ Holding(got) \subseteq Bufs /\ Holding(emplacing) \subseteq Bufs
  <2>1. ASSUME NEW q \in Seq(Given)
        PROVE  Items(q) \subseteq Bufs
    <3>1. \A i \in DOMAIN q : q[i] \in Given
      OBVIOUS
    <3> QED
      BY <3>1, Frames DEF Items
  <2>2. ASSUME NEW g \in Given \cup {None}
        PROVE  Holding(g) \subseteq Bufs
    BY Held, Frames
  <2> QED
    BY <1>0, <2>1, <2>2 DEF Queues
<1>3. Range(outDone) \subseteq Bufs
  BY <1>1 DEF Range
<1>4. kind # "jetsonScaler" => Partition(<<capFree, Items(capDone), Holding(got)>>, Bufs)
  <2> SUFFICES ASSUME kind # "jetsonScaler"
               PROVE  Partition(<<capFree, Items(capDone), Holding(got)>>, Bufs)
    OBVIOUS
  <2>1. /\ capFree \cap Items(capDone) = {}
        /\ Holding(got) \cap (capFree \cup Items(capDone)) = {}
        /\ Bufs \subseteq capFree \cup Items(capDone) \cup Holding(got)
    BY <1>0 DEF Captures
  <2> QED
    BY <1>1, <1>2, <2>1, ThreeParts
<1>5. CASE V4l2
  <2>1. /\ free \cap Items(inQ) = {} /\ Range(outDone) \cap (free \cup Items(inQ)) = {}
        /\ Bufs \subseteq free \cup Items(inQ) \cup Range(outDone)
    BY <1>0, <1>5 DEF Inputs
  <2>2. Partition(<<free, Items(inQ), Range(outDone)>>, Bufs)
    BY <1>1, <1>2, <1>3, <2>1, ThreeParts
  <2>3. kind # "jetsonScaler" /\ kind # "jetsonEncoder" /\ kind \in V4l2Kinds
    BY <1>0, <1>5, NotAllKinds DEF V4l2
  <2> QED
    BY <1>4, <2>2, <2>3 DEF BuffersConserved, V4l2
<1>6. CASE kind = "jetsonEncoder"
  <2>1. /\ IsFiniteSet(Items(inQ)) /\ Cardinality(Items(inQ)) = Len(inQ) /\ Len(inQ) \in Nat
    BY <1>0, ItemsCounted DEF Inputs, Queues
  <2>2. /\ IsFiniteSet(Range(outDone)) /\ Cardinality(Range(outDone)) = Len(outDone)
        /\ Len(outDone) \in Nat
    BY <1>0, <1>1, ReadCounted DEF Inputs
  <2>3. Cardinality(Items(inQ) \cap Range(outDone)) = 0
    BY <1>0, FS_EmptySet DEF Inputs
  <2>4. Cardinality(Queued) = Cardinality(Items(inQ)) + Cardinality(Range(outDone)) - 0
    BY <2>1, <2>2, <2>3, FS_Union DEF Queued
  <2>5. NumQueued = Cardinality(Queued)
    BY <2>1, <2>2, <2>4 DEF NumQueued
  <2>6. kind \notin V4l2Kinds
    BY <1>0, <1>6, NotAllKinds DEF V4l2
  <2> QED
    BY <1>4, <1>6, <2>5, <2>6 DEF BuffersConserved, V4l2
<1>7. CASE kind = "jetsonScaler"
  <2>1. /\ free \cap Items(tasks) = {} /\ Holding(emplacing) \cap (free \cup Items(tasks)) = {}
        /\ Holding(got) \cap (free \cup Items(tasks) \cup Holding(emplacing)) = {}
        /\ Bufs \subseteq free \cup Items(tasks) \cup Holding(emplacing) \cup Holding(got)
    BY <1>0, <1>7 DEF Scaled
  <2>2. Partition(<<free, Holding(emplacing), Items(tasks), Holding(got)>>, Bufs)
    BY <1>1, <1>2, <2>1, FourParts
  <2>3. kind \notin V4l2Kinds
    BY <1>0, <1>7, NotAllKinds DEF V4l2
  <2> QED
    BY <1>7, <2>2, <2>3 DEF BuffersConserved, V4l2
<1> QED
  BY <1>0, <1>5, <1>6, <1>7, NotAllKinds

\* Every type of the processors' state holds, and while the driver has refused
\* nothing each buffer that PrepareBuffer allocated is in exactly one place: free,
\* queued, read, filled, or held by the caller or the worker (BufferInv).
THEOREM NoBufferLost == Spec => []BufferInv
<1> QED
  BY Invariant, Conserved, PTL

\* The callback that EmplaceBuffer was given is called with its own frame, or with a
\* later one once a frame came out before its callback was registered, but never with
\* an earlier one, whatever fails and whoever is released in between (OwnFrame).
THEOREM CallbacksGetTheirFrame == Spec => []OwnFrame
<1>1. IInv => OwnFrame
  BY DEF IInv
<1> QED
  BY <1>1, Invariant, PTL

\* Every step is a step of FramePipe or leaves its variables alone.
LEMMA PipeStep ==
  ASSUME IInv, [Next]_vars
  PROVE  [Pipe!Next]_<<offered, called.task>>
<1>0. TypeOK /\ Queues /\ Labels /\ Inputs /\ InOrder
  BY DEF IInv
<1>u. CASE UNCHANGED <<offered, called>>
  BY <1>u
<1>1. CASE Create
  BY <1>1, <1>u, Creation DEF Fresh, Spoiled, workVars
<1>2. CASE EmplaceBuffer
  <2>1. /\ offered' = offered + 1 /\ offered' \in 1 .. MaxFrames /\ called' = called
        /\ offered \in Nat
    BY <1>0, <1>2, Offered, Types, Constants DEF workVars
  <2>2. offered < MaxFrames
    BY <2>1, Constants
  <2> QED
    BY <2>1, <2>2 DEF Pipe!Next, Pipe!EmplaceBuffer
<1>3. CASE Register \/ Process \/ DecoderEvent \/ Release \/ Released \/ WorkerEnds
  BY <1>u, <1>3 DEF Register, Process, DecoderEvent, Release, Released, WorkerEnds, callerVars, workVars
<1>4. CASE Select \/ DequeueOutput \/ DequeueCapture \/ DequeueJetson \/ DequeueFails
           \/ DequeueJetsonFails \/ Requeue
           \/ RequeueFails \/ GiveBackScaled
  BY <1>u, <1>4 DEF Select, DequeueOutput, DequeueCapture, DequeueJetson, DequeueFails,
     DequeueJetsonFails, Requeue,
     RequeueFails, GiveBackScaled, Goes, callerVars
<1>5. CASE CallEncoded \/ CallScaled
  <2>1. /\ offered' = offered
        /\ \/ called' = called
           \/ tasks # <<>> /\ called'.task = tasks[1].frame
    BY <1>5 DEF CallEncoded, CallScaled, Popped, SendFrame, OnFrame, Goes, callerVars
  <2>2. CASE tasks # <<>> /\ called'.task = tasks[1].frame
    <3>1. 1 \in DOMAIN tasks /\ tasks[1].frame \in Nat
      BY <1>0, <2>2, TasksOf
    <3>2. called.task < tasks[1].frame /\ tasks[1].frame <= offered
      BY <1>0, <3>1 DEF InOrder
    <3>3. tasks[1].frame \in 1 .. MaxFrames
      BY <1>0, <3>1, <3>2, Types, Constants
    <3>4. Pipe!Triggered(tasks[1].frame)
      BY <1>0, <2>1, <2>2, <3>1, <3>2, Types DEF Pipe!Triggered
    <3> QED
      BY <3>3, <3>4 DEF Pipe!Next
  <2> QED
    BY <1>u, <2>1, <2>2
<1>6. CASE UNCHANGED vars
  BY <1>u, <1>6 DEF vars, callerVars, workVars
<1> QED
  BY <1>1, <1>2, <1>3, <1>4, <1>5, <1>6 DEF Next, CaptureBuffer

\* The processors implement FramePipe: the frames are offered one after the
\* other, and callbacks are called at most once, in the order of their frames.
THEOREM CodecRefinesPipe == Spec => RefinesPipe
<1>1. Init => Pipe!Init
  BY DEF Init, Pipe!Init, NoFrame
<1>2. IInv /\ [Next]_vars => [Pipe!Next]_<<offered, called.task>>
  BY PipeStep
<1> QED
  BY <1>1, <1>2, Invariant, PTL DEF Spec, RefinesPipe, Pipe!Spec
=============================================================================
