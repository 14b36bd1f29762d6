------------------------------- MODULE V4l2Proofs -------------------------------
(***************************************************************************)
(* Proofs about V4l2Capture, for any number of commands, buffers and        *)
(* failures: commands and capture thread keep apart, each session starts    *)
(* clean, and the last of commands that do not overlap decides.             *)
(***************************************************************************)
EXTENDS V4l2Capture, TLAPS

\* Where a command holds capture_mutex_.
Starting == {"open", "allocate", "queue"}
Stopping == {"abort", "join", "off"}
Holding  == Starting \cup Stopping \cup {"unlock"}

\* The mutex belongs to the command that is between Lock and Return.
MutexHeld == \A c \in Commands : pc[c] \in Holding <=> mutex = c

\* What a command that holds the mutex knows of the session.
Session ==
  /\ \A c \in Commands : pc[c] \in Starting => ~capturing
  /\ \A c \in Commands : pc[c] \in Stopping => capturing
  /\ \A c \in Commands : pc[c] = "off" => worker = "none"
  /\ \A c \in Commands : pc[c] = "unlock" => (capturing <=> kind[c] # "pause")
  /\ ~capturing => /\ worker = "none" /\ driver = {}
                   /\ failures = 0 /\ ~firstKey
  /\ capturing => fd # "closed"

\* The commands: the later ones have not begun, and Create is over when one is
\* received.
Received ==
  /\ \A c \in Commands : c > issued => pc[c] = "idle"
  /\ \A c \in Commands : c <= issued => pc[c] # "idle"
  /\ \A c \in Commands : pc[c] = "initialize" => c = 0 /\ fd = "closed"
  /\ issued > 0 => pc[0] = "done"
  /\ \A c \in Commands : c > 0 /\ c <= issued => kind[c] \in {"pause", "resume"}
  /\ \A c \in Commands : pc[c] \in Starting => kind[c] # "pause"
  /\ \A c \in Commands : pc[c] \in Stopping => kind[c] = "pause"

\* Commands that do not overlap.
OneByOne ==
  ~overlap =>
    /\ \A c \in Commands : c < issued => pc[c] = "done"
    /\ issued > 0 /\ pc[issued] = "done"
       => (capturing <=> kind[issued] = "resume")

\* The worker's buffer, and its failures and first frame.
Working ==
  /\ worker \in {"emit", "requeue"} <=> held # NoBuffer
  /\ held \notin driver
  /\ BuffersKept
  /\ Running => failures < MaxFailures
  /\ capturing => failures <= missed
  /\ StuckIsReal
  /\ H264 => first # "delta" /\ (firstKey => first # "none")

\* The inductive invariant.
IInv == /\ TypeOK /\ MutexHeld /\ Session /\ Received /\ OneByOne /\ Working
        /\ NoSelfExit

LEMMA Kinds ==
  /\ NoCommand \notin Commands /\ 0 \in Commands
  /\ MaxFailures \in Nat \ {0} /\ MaxCommands \in Nat
  BY V4l2Assumption DEF NoCommand, Commands

LEMMA InitIInv == Init => IInv
<1> SUFFICES ASSUME Init PROVE IInv
  OBVIOUS
<1>1. TypeOK
  <2>1. PICK passive \in Passive :
          /\ kind = [c \in Commands |-> IF c = 0 /\ ~passive THEN "start" ELSE "none"]
          /\ pc = [c \in Commands |-> IF c > 0 THEN "idle" ELSE Create(passive)]
    BY DEF Init
  <2>2. kind \in [Commands -> {"none", "start", "pause", "resume"}]
    BY <2>1
  <2>3. pc \in [Commands -> {"idle", "initialize", "lock", "unlock", "open",
                             "allocate", "queue", "abort", "join", "off", "done"}]
    BY <2>1 DEF Create
  <2>4. issued \in 0 .. MaxCommands /\ failures \in 0 .. MaxFailures /\ missed \in Nat
    BY Kinds DEF Init
  <2>5. driver \subseteq Buffers /\ worker = "none" /\ held = NoBuffer
    BY DEF Init
  <2>6. /\ mutex \in Commands \cup {NoCommand} /\ overlap \in BOOLEAN
        /\ abort \in BOOLEAN /\ capturing \in BOOLEAN /\ firstKey \in BOOLEAN
    BY DEF Init
  <2>7. device = "good" /\ fd = "closed" /\ exited = "no" /\ first = "none"
    BY DEF Init
  <2> QED
    BY <2>2, <2>3, <2>4, <2>5, <2>6, <2>7 DEF TypeOK
<1>2. MutexHeld /\ Session /\ Received /\ OneByOne
  BY V4l2Assumption, Kinds DEF Init, TypeOK, Create, MutexHeld, Session, Received,
     OneByOne, Holding, Starting, Stopping, Commands
<1>3. Working /\ NoSelfExit
  BY V4l2Assumption, Kinds DEF Init, Working, BuffersKept, StuckIsReal, NoSelfExit, Running
<1> QED
  BY <1>1, <1>2, <1>3 DEF IInv

LEMMA CreateInitializeIInv ==
  ASSUME IInv, CreateInitialize
  PROVE  IInv'
<1> USE Kinds DEF IInv, CreateInitialize, Opened, At, Step, cmdVars, devVars, workVars, runVars
<1>1. TypeOK'
  BY DEF TypeOK
<1>2. MutexHeld'
  BY DEF TypeOK, MutexHeld, Holding, Starting, Stopping
<1>3. Session'
  BY DEF TypeOK, MutexHeld, Session, Holding, Starting, Stopping, Received
<1>4. Received'
  BY DEF TypeOK, Received, Session, Starting, Stopping
<1>5. OneByOne'
  <2>1. issued \in Nat /\ ~(issued > 0)
    BY DEF TypeOK, Received
  <2>2. issued = 0 /\ issued' = 0
    BY <2>1
  <2>3. \A d \in Commands : ~(d < 0)
    BY DEF Commands
  <2> QED
    BY <2>2, <2>3 DEF OneByOne
<1>6. Working' /\ NoSelfExit'
  BY DEF TypeOK, Working, BuffersKept, StuckIsReal, NoSelfExit, Running, Session,
     Received, Starting, Stopping
<1> QED
  BY <1>1, <1>2, <1>3, <1>4, <1>5, <1>6

LEMMA LockIInv ==
  ASSUME IInv, NEW c \in Commands, Lock(c)
  PROVE  IInv'
<1> USE Kinds DEF IInv, Lock, Take, At, Step, cmdVars, devVars, workVars, runVars
<1>1. TypeOK'
  BY DEF TypeOK
<1>2. MutexHeld'
  BY DEF TypeOK, MutexHeld, Holding, Starting, Stopping
<1>3. Session'
  BY DEF TypeOK, MutexHeld, Session, Holding, Starting, Stopping, Received
<1>4. Received'
  BY DEF TypeOK, Received, Session, Starting, Stopping
<1>5. OneByOne'
  BY DEF TypeOK, OneByOne, Received, Session, Starting, Stopping, Commands
<1>6. Working' /\ NoSelfExit'
  BY DEF TypeOK, Working, BuffersKept, StuckIsReal, NoSelfExit, Running, Session,
     Received, Starting, Stopping
<1> QED
  BY <1>1, <1>2, <1>3, <1>4, <1>5, <1>6

LEMMA UnlockIInv ==
  ASSUME IInv, NEW c \in Commands, Unlock(c)
  PROVE  IInv'
<1> USE Kinds DEF IInv, Unlock, Return, At, Step, cmdVars, devVars, workVars, runVars
<1>1. TypeOK'
  BY DEF TypeOK
<1>2. MutexHeld'
  BY DEF TypeOK, MutexHeld, Holding, Starting, Stopping
<1>3. Session'
  BY DEF TypeOK, MutexHeld, Session, Holding, Starting, Stopping, Received
<1>4. Received'
  <2>1. \A d \in Commands : pc'[d] = IF d = c THEN "done" ELSE pc[d]
    BY DEF TypeOK
  <2>2. pc[c] = "unlock" /\ UNCHANGED <<issued, kind, fd>>
    OBVIOUS
  <2> QED
    BY <2>1, <2>2 DEF Received, Starting, Stopping
<1>5. OneByOne'
  BY DEF TypeOK, OneByOne, Received, Session, Starting, Stopping, Commands
<1>6. Working' /\ NoSelfExit'
  BY DEF TypeOK, Working, BuffersKept, StuckIsReal, NoSelfExit, Running, Session,
     Received, Starting, Stopping
<1> QED
  BY <1>1, <1>2, <1>3, <1>4, <1>5, <1>6

LEMMA ResumeInitializeIInv ==
  ASSUME IInv, NEW c \in Commands, ResumeInitialize(c)
  PROVE  IInv'
<1> USE Kinds DEF IInv, ResumeInitialize, Opened, At, Step, cmdVars, devVars, workVars, runVars
<1>1. TypeOK'
  BY DEF TypeOK
<1>2. MutexHeld'
  BY DEF TypeOK, MutexHeld, Holding, Starting, Stopping
<1>3. Session'
  BY DEF TypeOK, MutexHeld, Session, Holding, Starting, Stopping, Received
<1>4. Received'
  <2>1. \A d \in Commands : pc'[d] = IF d = c THEN "allocate" ELSE pc[d]
    BY DEF TypeOK
  <2>2. pc[c] = "open" /\ UNCHANGED <<issued, kind>>
    OBVIOUS
  <2>3. ASSUME NEW d \in Commands, pc[d] = "initialize" PROVE FALSE
    <3>1. d = 0 /\ c # 0 /\ c <= issued
      BY <2>2, <2>3 DEF Received, TypeOK, Commands
    <3>2. issued > 0
      BY <3>1 DEF TypeOK, Commands
    <3> QED
      BY <2>3, <3>1, <3>2 DEF Received
  <2> QED
    BY <2>1, <2>2, <2>3 DEF Received, Starting, Stopping
<1>5. OneByOne'
  <2>1. c <= issued /\ issued \in Commands /\ pc[c] # "done"
    BY DEF TypeOK, Received, Commands
  <2>2. \A d \in Commands : d # c => pc'[d] = pc[d]
    BY DEF TypeOK
  <2>3. pc'[c] # "done" /\ UNCHANGED <<issued, kind, capturing, overlap>>
    BY DEF TypeOK
  <2> QED
    BY <2>1, <2>2, <2>3 DEF OneByOne
<1>6. Working' /\ NoSelfExit'
  BY DEF TypeOK, Working, BuffersKept, StuckIsReal, NoSelfExit, Running, Session,
     Received, Starting, Stopping
<1> QED
  BY <1>1, <1>2, <1>3, <1>4, <1>5, <1>6

LEMMA AllocateIInv ==
  ASSUME IInv, NEW c \in Commands, Allocate(c)
  PROVE  IInv'
<1> USE Kinds DEF IInv, Allocate, Exit, At, Step, cmdVars, devVars, workVars, runVars
<1>1. TypeOK'
  BY DEF TypeOK
<1>2. MutexHeld'
  BY DEF TypeOK, MutexHeld, Holding, Starting, Stopping
<1>3. Session'
  BY DEF TypeOK, MutexHeld, Session, Holding, Starting, Stopping, Received
<1>4. Received'
  BY DEF TypeOK, Received, Session, Starting, Stopping
<1>5. OneByOne'
  <2>1. c <= issued /\ issued \in Commands /\ pc[c] # "done"
    BY DEF TypeOK, Received, Commands
  <2>2. \A d \in Commands : d # c => pc'[d] = pc[d]
    BY DEF TypeOK
  <2>3. pc'[c] # "done" /\ UNCHANGED <<issued, kind, capturing, overlap>>
    BY DEF TypeOK
  <2> QED
    BY <2>1, <2>2, <2>3 DEF OneByOne
<1>6. Working' /\ NoSelfExit'
  BY DEF TypeOK, Working, BuffersKept, StuckIsReal, NoSelfExit, Running, Session,
     Received, Starting, Stopping
<1> QED
  BY <1>1, <1>2, <1>3, <1>4, <1>5, <1>6

LEMMA StartStreamingIInv ==
  ASSUME IInv, NEW c \in Commands, StartStreaming(c)
  PROVE  IInv'
<1> USE Kinds DEF IInv, StartStreaming, Return, Exit, NowCapturing,
        At, Step, cmdVars, devVars, workVars, runVars
<1>0. CASE ~(fd = "open" /\ driver = {})
  <2>1. fd # "open" /\ exited' = "gone"
    BY <1>0 DEF Session, Starting
  <2>2. UNCHANGED <<cmdVars, devVars, workVars, capturing, failures, firstKey, missed, first>>
    BY <1>0
  <2> HIDE DEF StartStreaming
  <2>3. TypeOK'
    BY <2>1, <2>2 DEF TypeOK
  <2>4. MutexHeld' /\ Session' /\ Received' /\ OneByOne'
    BY <2>2 DEF MutexHeld, Session, Received, OneByOne
  <2>5. Working' /\ NoSelfExit'
    BY <2>1, <2>2 DEF Working, BuffersKept, StuckIsReal, NoSelfExit, Running
  <2> QED
    BY <2>3, <2>4, <2>5
<1>1. CASE fd = "open" /\ driver = {}
  <2>0. /\ pc' = [pc EXCEPT ![c] = "done"] /\ mutex' = NoCommand
        /\ driver' = Buffers /\ worker' = "loop" /\ abort' = FALSE /\ held' = NoBuffer
        /\ capturing' = TRUE /\ missed' = 0 /\ first' = "none"
        /\ UNCHANGED <<issued, kind, overlap, device, fd, failures, firstKey, exited>>
        /\ exited = "no"
    BY <1>1 DEF Running
  <2>1. TypeOK'
    <3> HIDE DEF StartStreaming
    <3>1. pc' \in [Commands -> {"idle", "initialize", "lock", "unlock", "open",
                               "allocate", "queue", "abort", "join", "off", "done"}]
      BY <2>0 DEF TypeOK
    <3> QED
      BY <2>0, <3>1 DEF TypeOK
  <2>2. MutexHeld'
    BY <1>1 DEF TypeOK, MutexHeld, Holding, Starting, Stopping
  <2>3. Session'
    BY <1>1 DEF TypeOK, MutexHeld, Session, Holding, Starting, Stopping, Received
  <2>4. Received'
    BY <1>1 DEF TypeOK, Received, Session, Starting, Stopping
  <2>5. OneByOne'
    BY <1>1 DEF TypeOK, OneByOne, Received, Session, Starting, Stopping, Commands
  <2>6. Working' /\ NoSelfExit'
    <3>1. pc[c] = "queue" /\ NoBuffer \notin Buffers
      BY V4l2Assumption
    <3>2. failures = 0 /\ ~firstKey
      BY <3>1 DEF Session, Starting
    <3> HIDE DEF StartStreaming
    <3> QED
      BY <2>0, <3>1, <3>2 DEF Working, BuffersKept, StuckIsReal, NoSelfExit, Running
  <2> QED
    BY <2>1, <2>2, <2>3, <2>4, <2>5, <2>6
<1> QED
  BY <1>0, <1>1

LEMMA StopAbortIInv ==
  ASSUME IInv, NEW c \in Commands, StopAbort(c)
  PROVE  IInv'
<1> USE Kinds DEF IInv, StopAbort, At, Step, cmdVars, devVars, workVars, runVars
<1>1. TypeOK'
  BY DEF TypeOK
<1>2. MutexHeld'
  BY DEF TypeOK, MutexHeld, Holding, Starting, Stopping
<1>3. Session'
  BY DEF TypeOK, MutexHeld, Session, Holding, Starting, Stopping, Received
<1>4. Received'
  BY DEF TypeOK, Received, Session, Starting, Stopping
<1>5. OneByOne'
  BY DEF TypeOK, OneByOne, Received, Session, Starting, Stopping, Commands
<1>6. Working' /\ NoSelfExit'
  BY DEF TypeOK, Working, BuffersKept, StuckIsReal, NoSelfExit, Running, Session,
     Received, Starting, Stopping
<1> QED
  BY <1>1, <1>2, <1>3, <1>4, <1>5, <1>6

LEMMA StopJoinIInv ==
  ASSUME IInv, NEW c \in Commands, StopJoin(c)
  PROVE  IInv'
<1> USE Kinds DEF IInv, StopJoin, At, Step, cmdVars, devVars, workVars, runVars
<1>1. TypeOK'
  BY DEF TypeOK
<1>2. MutexHeld'
  BY DEF TypeOK, MutexHeld, Holding, Starting, Stopping
<1>3. Session'
  BY DEF TypeOK, MutexHeld, Session, Holding, Starting, Stopping, Received
<1>4. Received'
  BY DEF TypeOK, Received, Session, Starting, Stopping
<1>5. OneByOne'
  BY DEF TypeOK, OneByOne, Received, Session, Starting, Stopping, Commands
<1>6. Working' /\ NoSelfExit'
  BY DEF TypeOK, Working, BuffersKept, StuckIsReal, NoSelfExit, Running, Session,
     Received, Starting, Stopping
<1> QED
  BY <1>1, <1>2, <1>3, <1>4, <1>5, <1>6

LEMMA StopOffIInv ==
  ASSUME IInv, NEW c \in Commands, StopOff(c)
  PROVE  IInv'
<1> USE Kinds DEF IInv, StopOff, Return, Reset, At, Step, cmdVars, devVars, workVars, runVars
<1>1. TypeOK'
  <2>1. failures' \in 0 .. MaxFailures
    OBVIOUS
  <2>2. driver' \subseteq Buffers
    OBVIOUS
  <2>3. mutex' \in Commands \cup {NoCommand} /\ firstKey' \in BOOLEAN /\ capturing' \in BOOLEAN
    OBVIOUS
  <2>4. pc' \in [Commands -> {"idle", "initialize", "lock", "unlock", "open",
                             "allocate", "queue", "abort", "join", "off", "done"}]
    BY DEF TypeOK
  <2> QED
    BY <2>1, <2>2, <2>3, <2>4 DEF TypeOK
<1>2. MutexHeld'
  BY DEF TypeOK, MutexHeld, Holding, Starting, Stopping
<1>3. Session'
  BY DEF TypeOK, MutexHeld, Session, Holding, Starting, Stopping, Received
<1>4. Received'
  BY DEF TypeOK, Received, Session, Starting, Stopping
<1>5. OneByOne'
  BY DEF TypeOK, OneByOne, Received, Session, Starting, Stopping, Commands
<1>6. Working' /\ NoSelfExit'
  BY DEF TypeOK, Working, BuffersKept, StuckIsReal, NoSelfExit, Running, Session,
     Received, Starting, Stopping
<1> QED
  BY <1>1, <1>2, <1>3, <1>4, <1>5, <1>6


\* What stays as it is for all conjuncts about commands.
LEMMA CommandsKept ==
  ASSUME IInv, UNCHANGED <<cmdVars, fd, capturing>>
  PROVE  MutexHeld' /\ Received' /\ OneByOne'
  BY DEF IInv, MutexHeld, Received, OneByOne, cmdVars

LEMMA ReceiveIInv ==
  ASSUME IInv, NEW k \in {"pause", "resume"}, Receive(k)
  PROVE  IInv'
<1> USE Kinds DEF IInv, Receive, Returned, devVars, workVars, runVars
<1>1. issued + 1 \in Commands /\ issued \in Nat
  BY DEF TypeOK, Commands
<1>2. /\ pc' \in [Commands -> {"idle", "initialize", "lock", "unlock", "open",
                               "allocate", "queue", "abort", "join", "off", "done"}]
      /\ \A d \in Commands : pc'[d] = IF d = issued + 1 THEN "lock" ELSE pc[d]
  BY DEF TypeOK
<1>3. /\ kind' \in [Commands -> {"none", "start", "pause", "resume"}]
      /\ \A d \in Commands : kind'[d] = IF d = issued + 1 THEN k ELSE kind[d]
  BY DEF TypeOK
<1>4. TypeOK'
  BY <1>1, <1>2, <1>3 DEF TypeOK, Commands
<1>5. pc[issued + 1] = "idle"
  BY <1>1 DEF Received
<1>6. MutexHeld' /\ Session'
  BY <1>2, <1>3, <1>5 DEF MutexHeld, Session, Holding, Starting, Stopping
<1>7. Received'
  BY <1>1, <1>2, <1>3, <1>5 DEF Received, Starting, Stopping, Commands
<1>8. OneByOne'
  <2> SUFFICES ASSUME ~overlap' PROVE OneByOne'
    BY DEF OneByOne
  <2>1. ~overlap /\ pc[issued] = "done" /\ issued' = issued + 1
    OBVIOUS
  <2>2. ASSUME NEW d \in Commands, d < issued + 1 PROVE pc'[d] = "done"
    <3>1. d < issued \/ d = issued
      BY <1>1, <2>2 DEF Commands
    <3>2. pc[d] = "done"
      BY <2>1, <3>1 DEF OneByOne
    <3> QED
      BY <1>2, <3>2, <1>1, <2>2 DEF Commands
  <2>3. pc'[issued + 1] = "lock"
    BY <1>1, <1>2
  <2> QED
    BY <2>1, <2>2, <2>3 DEF OneByOne
<1>9. Working' /\ NoSelfExit'
  BY DEF Working, BuffersKept, StuckIsReal, NoSelfExit, Running
<1> QED
  BY <1>4, <1>6, <1>7, <1>8, <1>9

LEMMA WorkerIInv ==
  ASSUME IInv, Worker
  PROVE  IInv'
<1> USE Kinds DEF IInv, Worker, WorkerLoop, Dequeue, DequeueBad, Good, CaptureFails,
        Stuck, Emit, Requeue, cmdVars, devVars, workVars, runVars
<1>1. UNCHANGED <<cmdVars, fd, capturing>>
  OBVIOUS
<1>2. MutexHeld' /\ Received' /\ OneByOne'
  BY <1>1, CommandsKept
<1>3. worker # "none" /\ worker' # "none" /\ capturing
  BY DEF Session
<1>4. Session'
  BY <1>1, <1>3 DEF Session, Stopping
<1>5. CASE WorkerLoop
  BY <1>5, <1>2, <1>4 DEF TypeOK, Working, BuffersKept, StuckIsReal, NoSelfExit, Running
<1>6. ASSUME NEW key \in BOOLEAN, Dequeue(key) PROVE IInv'
  <2>1. TypeOK'
    BY <1>6 DEF TypeOK
  <2>2. Working' /\ NoSelfExit'
    BY <1>6, V4l2Assumption DEF TypeOK, Working, BuffersKept, StuckIsReal, NoSelfExit, Running
  <2> QED
    BY <1>2, <1>4, <2>1, <2>2
<1>7. CASE DequeueBad
  <2>1. TypeOK'
    BY <1>7 DEF TypeOK
  <2>2. Working' /\ NoSelfExit'
    BY <1>7, V4l2Assumption DEF TypeOK, Working, BuffersKept, StuckIsReal, NoSelfExit, Running
  <2> QED
    BY <1>2, <1>4, <2>1, <2>2
<1>8. CASE CaptureFails
  <2>1. TypeOK'
    BY <1>8 DEF TypeOK, Working
  <2>2. Working' /\ NoSelfExit'
    BY <1>8, <1>3 DEF TypeOK, Working, BuffersKept, StuckIsReal, NoSelfExit, Running
  <2> QED
    BY <1>2, <1>4, <2>1, <2>2
<1>9. CASE Emit
  <2>1. TypeOK'
    BY <1>9 DEF TypeOK, Working
  <2>2. Working' /\ NoSelfExit'
    BY <1>9, <1>3 DEF TypeOK, Working, BuffersKept, StuckIsReal, NoSelfExit, Running
  <2> QED
    BY <1>2, <1>4, <2>1, <2>2
<1>10. CASE Requeue
  <2>1. held \in Buffers /\ held # NoBuffer /\ NoBuffer \notin Buffers
    BY <1>10, V4l2Assumption DEF TypeOK, Working
  <2>2. TypeOK'
    BY <1>10, <2>1 DEF TypeOK
  <2>3. BuffersKept'
    BY <1>10, <1>3, <2>1 DEF TypeOK, Working, BuffersKept
  <2>4. Working' /\ NoSelfExit'
    BY <1>10, <2>1, <2>2, <2>3 DEF TypeOK, Working, StuckIsReal, NoSelfExit, Running
  <2> QED
    BY <1>2, <1>4, <2>2, <2>4
<1> QED
  BY <1>5, <1>6, <1>7, <1>8, <1>9, <1>10

LEMMA DeviceIInv ==
  ASSUME IInv, DeviceChanges
  PROVE  IInv'
<1> USE DEF IInv, DeviceChanges, cmdVars, workVars, runVars
<1>1. TypeOK'
  BY DEF TypeOK
<1>2. fd' = fd \/ (fd = "open" /\ fd' = "gone")
  OBVIOUS
<1>3. MutexHeld' /\ Session' /\ Received' /\ OneByOne'
  BY <1>2 DEF MutexHeld, Session, Received, OneByOne
<1>4. Working' /\ NoSelfExit'
  BY <1>2 DEF Working, BuffersKept, StuckIsReal, NoSelfExit, Running
<1> QED
  BY <1>1, <1>3, <1>4

LEMMA NextIInv == IInv /\ [Next]_vars => IInv'
<1> SUFFICES ASSUME IInv, [Next]_vars PROVE IInv'
  OBVIOUS
<1>1. CASE UNCHANGED vars
  BY <1>1 DEF vars, cmdVars, devVars, workVars, runVars, IInv, TypeOK, MutexHeld, Session,
     Received, OneByOne, Working, BuffersKept, StuckIsReal, NoSelfExit, Running
<1>2. ASSUME NEW c \in Commands, Command(c) PROVE IInv'
  BY <1>2, LockIInv, UnlockIInv, ResumeInitializeIInv, AllocateIInv, StartStreamingIInv,
     StopAbortIInv, StopJoinIInv, StopOffIInv DEF Command
<1>3. CASE Next
  BY <1>2, <1>3, ReceiveIInv, CreateInitializeIInv, WorkerIInv, DeviceIInv DEF Next
<1> QED
  BY <1>1, <1>3

THEOREM Invariant == Spec => []IInv
  BY InitIInv, NextIInv, PTL DEF Spec
-----------------------------------------------------------------------------
\* Whatever commands race, no two of them use the descriptor at once, none does
\* while the capture thread runs, and the process never exits because a buffer is
\* queued twice (ThreadInv: StartCapture, StopCapture, ResumeCapture).
THEOREM ThreadsKeepApart == Spec => []ThreadInv
<1>1. IInv => SingleThreadedFd
  <2> SUFFICES ASSUME IInv PROVE SingleThreadedFd
    OBVIOUS
  <2>1. ASSUME NEW c \in Commands, pc[c] \in {"open", "allocate", "queue", "off"}
        PROVE  worker \in {"none", "dead"}
    BY <2>1 DEF IInv, Session, Starting
  <2>2. ASSUME NEW c \in Commands, NEW d \in Commands,
               {pc[c], pc[d]} \subseteq {"open", "allocate", "queue", "off"}
        PROVE  c = d
    <3>1. mutex = c /\ mutex = d
      BY <2>2 DEF IInv, MutexHeld, Holding, Starting, Stopping
    <3> QED
      BY <3>1
  <2> QED
    BY <2>1, <2>2 DEF SingleThreadedFd
<1>2. IInv => ThreadInv
  BY <1>1 DEF IInv, ThreadInv
<1> QED
  BY <1>2, Invariant, PTL

\* Every session of streaming has all its buffers, gives up only over its own
\* failures, and begins with a keyframe (SessionInv: StopCapture, CaptureImage).
THEOREM SessionsStartClean == Spec => []SessionInv
<1>1. IInv => SessionInv
  <2> SUFFICES ASSUME IInv PROVE SessionInv
    OBVIOUS
  <2>1. BuffersKept /\ StuckIsReal /\ FirstIsKey
    BY DEF IInv, Working, FirstIsKey
  <2> QED
    BY <2>1 DEF SessionInv
<1> QED
  BY <1>1, Invariant, PTL

\* When commands that did not overlap have returned, the camera is as the last one
\* wanted it (LastCommandWins).
THEOREM LastWins == Spec => []LastCommandWins
<1>1. IInv => LastCommandWins
  <2> SUFFICES ASSUME IInv, ~overlap, issued > 0,
                      \A c \in Commands : pc[c] \in {"idle", "done"}
               PROVE  capturing = (kind[issued] = "resume")
    BY DEF LastCommandWins
  <2>1. issued \in Commands /\ issued <= issued
    BY Kinds DEF IInv, TypeOK, Commands
  <2>2. pc[issued] = "done"
    BY <2>1 DEF IInv, Received
  <2>3. capturing \in BOOLEAN /\ (capturing <=> kind[issued] = "resume")
    BY <2>2 DEF IInv, OneByOne, TypeOK
  <2> QED
    BY <2>3
<1> QED
  BY <1>1, Invariant, PTL
===============================================================================
