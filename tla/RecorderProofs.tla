---------------------------- MODULE RecorderProofs ----------------------------
(***************************************************************************)
(* Theorems about Recorder and about RecordStore, the files it leaves on the *)
(* drive, for every value of their constants.                               *)
(***************************************************************************)
EXTENDS RecorderInv, RecordStore, FiniteSetTheorems, FunctionTheorems,
        SequenceTheorems, WellFoundedInduction, TLAPS

\* The facts of RecorderAssumption in the form the provers use.
LEMMA Constants ==
  /\ NoCtx \notin Ctxs /\ NoWorker \notin Workers
  /\ AutoStart \in BOOLEAN /\ H264 \in BOOLEAN /\ HeaderMayFail \in BOOLEAN
  /\ QueueMax \in Nat /\ QueueMax > 0 /\ Duration \in Nat /\ MaxTime \in Nat
  BY RecorderAssumption DEF RecorderAssumption

LEMMA SplitTimeNat == ASSUME NEW i \in Nat PROVE SplitTime(i) \in Nat
  BY Constants DEF SplitTime

\* A step is one of the named actions.
LEMMA NextCases ==
  ASSUME NEW P, Next,
         ASSUME NEW key \in BOOLEAN, NEW dt \in 0..MaxTime, CapFrame(key, dt) PROVE P,
         CapGate => P, CapAnchor => P, CapSplit => P, CapReopen => P,
         CapRotated => P, CapPush => P,
         CmdStart => P, CmdStop => P, CmdAnswer => P,
         ASSUME NEW t \in Threads, StartOpen(t) PROVE P,
         ASSUME NEW t \in Threads, StartReset(t) PROVE P,
         ASSUME NEW t \in Threads, StartSpawn(t) PROVE P,
         ASSUME NEW t \in Threads, StartRun(t) PROVE P,
         ASSUME NEW t \in Threads, StartPending(t) PROVE P,
         ASSUME NEW t \in Threads, StartDone(t) PROVE P,
         ASSUME NEW t \in Threads, StopFlag(t) PROVE P,
         ASSUME NEW t \in Threads, StopReset(t) PROVE P,
         ASSUME NEW t \in Threads, StopJoin(t) PROVE P,
         ASSUME NEW t \in Threads, StopClose(t) PROVE P,
         ASSUME NEW w \in Workers, EncLoop(w) PROVE P,
         ASSUME NEW w \in Workers, EncPop(w) PROVE P,
         ASSUME NEW w \in Workers, EncEncode(w) PROVE P,
         ASSUME NEW w \in Workers, EncWrite(w) PROVE P,
         AudioCaptured => P, AudioWrite => P
  PROVE  P
  BY DEF Next, Capture, Commands, Start, Stop, Encoder

\* The control steps keep the types of the call variables.
LEMMA LabelFacts ==
  /\ {"idle", "gate", "anchor", "split", "reopen", "rotated", "push"} \subseteq Labels
  /\ {"started", "stopped", "startOpen", "startReset", "startSpawn"} \subseteq Labels
  /\ {"startRun", "startPending", "startDone", "stopFlag"} \subseteq Labels
  /\ {"stopReset", "stopJoin", "stopClose"} \subseteq Labels
  BY DEF Labels

LEMMA GotoType ==
  ASSUME TypeCall, NEW t \in Threads, NEW l \in Labels, Goto(t, l)
  PROVE  TypeCall'
  BY DEF TypeCall, Goto

LEMMA CallType ==
  ASSUME TypeCall, NEW t \in Threads, NEW l \in Labels, NEW r \in Labels, Call(t, l, r)
  PROVE  TypeCall'
  BY DEF TypeCall, Call

LEMMA ReturnType ==
  ASSUME TypeCall, NEW t \in Threads, Return(t)
  PROVE  TypeCall'
  <1>1. ret[t] \in Labels BY DEF TypeCall
  <1>2. QED BY <1>1, GotoType DEF Return

\* The frame queue: a push keeps the bound, a pop yields a frame.
LEMMA QueueGrows ==
  ASSUME NEW q \in Seq(BOOLEAN), NEW b \in BOOLEAN, Len(q) < QueueMax
  PROVE  Append(q, b) \in Seq(BOOLEAN) /\ Len(Append(q, b)) <= QueueMax
  BY Constants

LEMMA QueueShrinks ==
  ASSUME NEW q \in Seq(BOOLEAN), q # <<>>, Len(q) <= QueueMax
  PROVE  Head(q) \in BOOLEAN /\ Tail(q) \in Seq(BOOLEAN) /\ Len(Tail(q)) <= QueueMax
  BY Constants

LEMMA WriteType ==
  ASSUME TypeMux, NEW key \in BOOLEAN, NEW video \in BOOLEAN,
         WriteIntoFile(key, video), UNCHANGED <<st, encoder>>
  PROVE  TypeMux'
<1>1. CASE ~Accepts(key) /\ UNCHANGED <<fmtCtx, headerWritten, ctx>>
  BY <1>1 DEF TypeMux
<1>2. ASSUME Accepts(key), ctx' = [ctx EXCEPT ![fmtCtx] = FreeCtx], fmtCtx' = NoCtx,
             UNCHANGED headerWritten
      PROVE  TypeMux'
  BY <1>2 DEF TypeMux, FreeCtx, Accepts
<1>3. ASSUME Accepts(key), headerWritten' = TRUE, UNCHANGED fmtCtx,
             ctx' = IF video /\ ctx[fmtCtx].first = "none"
                    THEN [ctx EXCEPT ![fmtCtx].first = FirstOf(key)] ELSE ctx
      PROVE  TypeMux'
  <2>1. FirstOf(key) \in {"none", "key", "delta"} BY DEF FirstOf
  <2>2. [ctx EXCEPT ![fmtCtx].first = FirstOf(key)]
          \in [Ctxs -> [state : {"free", "open", "lost"}, first : {"none", "key", "delta"}]]
    BY <2>1 DEF TypeMux
  <2>3. QED BY <1>3, <2>2 DEF TypeMux
<1>4. QED BY <1>1, <1>2, <1>3 DEF WriteIntoFile

\* When a container cannot be made, those whose files are open stay as they are.
LEMMA CreateKeeps ==
  ASSUME TypeMux, CreateFails
  PROVE  /\ ctx' \in [Ctxs -> [state : {"free", "open", "lost"}, first : {"none", "key", "delta"}]]
         /\ \A c \in Ctxs : /\ (ctx'[c].state = "open") = (ctx[c].state = "open")
                            /\ ctx'[c].first = ctx[c].first
  BY DEF CreateFails, TypeMux

LEMMA TypeInit == Init => TypeOK
<1> SUFFICES ASSUME Init PROVE TypeOK OBVIOUS
<1>1. TypeCall BY DEF Init, TypeCall, Threads, Labels
<1>2. TypeEnc
  <2>1. queue \in Seq(BOOLEAN) /\ Len(queue) <= QueueMax BY Constants DEF Init
  <2>2. /\ encPc \in [Workers -> EncLabels] /\ encKey \in [Workers -> BOOLEAN]
        /\ aborted \subseteq Workers
    BY DEF Init, EncLabels
  <2>3. QED BY <2>1, <2>2 DEF Init, TypeEnc
<1>3. TypeMux BY DEF Init, TypeMux, FreeCtx
<1>4. QED
  BY <1>1, <1>2, <1>3 DEF Init, TypeOK, TypeFlags, TypeAudio, TypeSplit, TypeCam, TypeHist

LEMMA TypeStep == ASSUME TypeOK, [Next]_vars PROVE TypeOK'
<1>0. /\ UNCHANGED flagVars => TypeFlags'
      /\ UNCHANGED muxVars => TypeMux'
      /\ UNCHANGED encVars => TypeEnc'
      /\ UNCHANGED audioVars => TypeAudio'
      /\ UNCHANGED callVars => TypeCall'
      /\ UNCHANGED splitVars => TypeSplit'
      /\ UNCHANGED camVars => TypeCam'
      /\ UNCHANGED histVars => TypeHist'
  BY DEF TypeOK, TypeFlags, TypeMux, TypeEnc, TypeAudio, TypeCall, TypeSplit,
     TypeCam, TypeHist, flagVars, muxVars, encVars, audioVars, callVars,
     splitVars, camVars, histVars
<1> TypeFlags /\ TypeMux /\ TypeEnc /\ TypeAudio /\ TypeCall /\ TypeSplit /\ TypeCam /\ TypeHist
  BY DEF TypeOK
<1>1. ASSUME NEW key \in BOOLEAN, NEW dt \in 0..MaxTime, CapFrame(key, dt)
      PROVE  TypeOK'
  <2>1. TypeCall' BY <1>1, GotoType, CallType, LabelFacts DEF CapFrame, Threads
  <2>2. TypeCam' BY <1>1, Constants DEF CapFrame, TypeCam
  <2>3. TypeHist' BY <1>1, Constants DEF CapFrame, TypeHist
  <2> QED BY <1>1, <1>0, <2>1, <2>2, <2>3 DEF TypeOK, CapFrame
<1>2. ASSUME CapGate PROVE TypeOK'
  <2>1. TypeCall' BY <1>2, GotoType, LabelFacts DEF CapGate, Threads
  <2> QED BY <1>2, <1>0, <2>1 DEF TypeOK, CapGate
<1>3. ASSUME CapAnchor PROVE TypeOK'
  <2>1. TypeCall' BY <1>3, GotoType, LabelFacts DEF CapAnchor, Threads
  <2>2. TypeFlags' BY <1>3, Constants DEF CapAnchor, TypeFlags
  <2>3. SplitTime(1) \in Nat BY SplitTimeNat
  <2>4. TypeSplit' BY <1>3, <2>3 DEF CapAnchor, TypeSplit, TypeCam, splitVars
  <2>5. TypeHist' BY <1>3 DEF CapAnchor, TypeHist, TypeCam
  <2> QED BY <1>3, <1>0, <2>1, <2>2, <2>4, <2>5 DEF TypeOK, CapAnchor
<1>4. ASSUME CapSplit PROVE TypeOK'
  <2>1. TypeCall' BY <1>4, GotoType, CallType, LabelFacts DEF CapSplit, Threads
  <2> QED BY <1>4, <1>0, <2>1 DEF TypeOK, CapSplit
<1>5. ASSUME CapReopen PROVE TypeOK'
  <2>1. TypeCall' BY <1>5, CallType, LabelFacts DEF CapReopen, Threads
  <2> QED BY <1>5, <1>0, <2>1 DEF TypeOK, CapReopen
<1>6. ASSUME CapRotated PROVE TypeOK'
  <2>1. TypeCall' BY <1>6, GotoType, LabelFacts DEF CapRotated, Threads
  <2>2. TypeFlags' BY <1>6, Constants DEF CapRotated, TypeFlags
  <2>3. TypeSplit' BY <1>6, Constants, SplitTimeNat DEF CapRotated, TypeSplit
  <2>4. TypeHist' BY <1>6 DEF CapRotated, TypeHist, TypeCam
  <2> QED BY <1>6, <1>0, <2>1, <2>2, <2>3, <2>4 DEF TypeOK, CapRotated
<1>7. ASSUME CapPush PROVE TypeOK'
  <2>1. TypeCall' BY <1>7, GotoType, LabelFacts DEF CapPush, Threads
  <2>2. queue' \in Seq(BOOLEAN) /\ Len(queue') <= QueueMax
    BY <1>7, QueueGrows DEF CapPush, Enqueue, TypeEnc, TypeCam
  <2>3. TypeEnc' BY <1>7, <2>2 DEF CapPush, TypeEnc
  <2> QED BY <1>7, <1>0, <2>1, <2>3 DEF TypeOK, CapPush
<1>8. ASSUME CmdStart PROVE TypeOK'
  <2>1. TypeCall' BY <1>8, GotoType, CallType, LabelFacts DEF CmdStart, Threads
  <2>2. TypeHist' BY <1>8, Constants DEF CmdStart, TypeHist
  <2> QED BY <1>8, <1>0, <2>1, <2>2 DEF TypeOK, CmdStart
<1>9. ASSUME CmdStop PROVE TypeOK'
  <2>1. TypeCall' BY <1>9, GotoType, CallType, LabelFacts DEF CmdStop, Threads
  <2>2. TypeHist' BY <1>9, Constants DEF CmdStop, TypeHist
  <2> QED BY <1>9, <1>0, <2>1, <2>2 DEF TypeOK, CmdStop
<1>10. ASSUME CmdAnswer PROVE TypeOK'
  <2>1. TypeCall' BY <1>10, GotoType, LabelFacts DEF CmdAnswer, Threads
  <2>2. TypeHist' BY <1>10, Constants DEF CmdAnswer, TypeHist
  <2> QED BY <1>10, <1>0, <2>1, <2>2 DEF TypeOK, CmdAnswer
<1>11. ASSUME NEW t \in Threads, StartOpen(t)
      PROVE  TypeOK'
  <2>1. TypeCall' BY <1>11, GotoType, ReturnType, LabelFacts DEF StartOpen
  <2>2. ASSUME fmtCtx' = NoCtx, CreateFails, UNCHANGED <<headerWritten, st, encoder>>
        PROVE  TypeMux'
    <3>1. TypeMux BY DEF TypeOK
    <3> QED BY <2>2, <3>1, CreateKeeps DEF TypeMux
  <2>3. ASSUME NEW c \in Ctxs, ctx' = [ctx EXCEPT ![c] = NewCtx], fmtCtx' = c,
               st' = c, encoder' = TRUE, headerWritten' = FALSE
        PROVE  TypeMux'
    BY <2>3 DEF NewCtx, TypeMux
  <2>4. TypeMux' BY <1>11, <2>2, <2>3 DEF StartOpen
  <2> QED BY <1>11, <1>0, <2>1, <2>4 DEF TypeOK, StartOpen
<1>12. ASSUME NEW t \in Threads, StartReset(t)
      PROVE  TypeOK'
  <2>1. TypeCall' BY <1>12, GotoType, LabelFacts DEF StartReset
  <2>2. TypeEnc' BY <1>12, Constants DEF StartReset, TypeEnc
  <2> QED BY <1>12, <1>0, <2>1, <2>2 DEF TypeOK, StartReset
<1>13. ASSUME NEW t \in Threads, StartSpawn(t)
      PROVE  TypeOK'
  <2>1. TypeCall' BY <1>13, LabelFacts DEF StartSpawn, TypeEnc, TypeCall
  <2>2. TypeEnc' BY <1>13, Constants DEF StartSpawn, Discard, EncLabels, TypeEnc
  <2> QED BY <1>13, <1>0, <2>1, <2>2 DEF TypeOK, StartSpawn
<1>14. ASSUME NEW t \in Threads, StartRun(t)
      PROVE  TypeOK'
  <2>1. TypeCall' BY <1>14, LabelFacts DEF StartRun, TypeCall
  <2>2. TypeEnc' BY <1>14, Constants DEF StartRun, Reaped, EncLabels, TypeEnc
  <2>3. TypeAudio' BY <1>14, Constants DEF StartRun, TypeAudio
  <2> QED BY <1>14, <1>0, <2>1, <2>2, <2>3 DEF TypeOK, StartRun
<1>15. ASSUME NEW t \in Threads, StartPending(t)
      PROVE  TypeOK'
  <2>1. TypeCall' BY <1>15, GotoType, LabelFacts DEF StartPending
  <2>2. TypeFlags' BY <1>15, Constants DEF StartPending, TypeFlags
  <2> QED BY <1>15, <1>0, <2>1, <2>2 DEF TypeOK, StartPending
<1>16. ASSUME NEW t \in Threads, StartDone(t)
      PROVE  TypeOK'
  <2>1. TypeCall' BY <1>16, ReturnType DEF StartDone
  <2>2. TypeFlags' BY <1>16, Constants DEF StartDone, TypeFlags
  <2> QED BY <1>16, <1>0, <2>1, <2>2 DEF TypeOK, StartDone
<1>17. ASSUME NEW t \in Threads, StopFlag(t)
      PROVE  TypeOK'
  <2>1. TypeCall' BY <1>17, GotoType, LabelFacts DEF StopFlag
  <2>2. TypeFlags' BY <1>17, Constants DEF StopFlag, TypeFlags
  <2> QED BY <1>17, <1>0, <2>1, <2>2 DEF TypeOK, StopFlag
<1>18. ASSUME NEW t \in Threads, StopReset(t)
      PROVE  TypeOK'
  <2>1. TypeCall' BY <1>18, LabelFacts DEF StopReset, TypeEnc, TypeCall
  <2>2. TypeEnc' BY <1>18, Constants DEF StopReset, Discard, EncLabels, TypeEnc
  <2> QED BY <1>18, <1>0, <2>1, <2>2 DEF TypeOK, StopReset
<1>19. ASSUME NEW t \in Threads, StopJoin(t)
      PROVE  TypeOK'
  <2>1. TypeCall' BY <1>19, LabelFacts DEF StopJoin, TypeCall
  <2>2. TypeEnc' BY <1>19, Constants DEF StopJoin, Reaped, EncLabels, TypeEnc
  <2>3. TypeMux' BY <1>19, Constants DEF StopJoin, TypeMux
  <2>4. TypeAudio' BY <1>19, Constants DEF StopJoin, TypeAudio
  <2> QED BY <1>19, <1>0, <2>1, <2>2, <2>3, <2>4 DEF TypeOK, StopJoin
<1>20. ASSUME NEW t \in Threads, StopClose(t)
      PROVE  TypeOK'
  <2>1. TypeCall' BY <1>20, ReturnType DEF StopClose
  <2>2. TypeMux' BY <1>20, Constants DEF StopClose, FreeCtx, TypeMux
  <2> QED BY <1>20, <1>0, <2>1, <2>2 DEF TypeOK, StopClose
<1>21. ASSUME NEW w \in Workers, EncLoop(w)
      PROVE  TypeOK'
  <2>1. TypeEnc' BY <1>21, Constants DEF EncLoop, EncStep, EncLabels, TypeEnc
  <2> QED BY <1>21, <1>0, <2>1 DEF TypeOK, EncLoop
<1>22. ASSUME NEW w \in Workers, EncPop(w)
      PROVE  TypeOK'
  <2>1. ASSUME UNCHANGED <<queue, encKey>>, EncStep(w, "loop") PROVE TypeEnc'
    BY <1>22, <2>1 DEF EncPop, EncStep, EncLabels, TypeEnc
  <2>2. ASSUME queue # <<>>, queue' = Tail(queue), EncStep(w, "frame"),
               encKey' = [encKey EXCEPT ![w] = Head(queue)]
        PROVE  TypeEnc'
    <3>1. /\ Head(queue) \in BOOLEAN /\ Tail(queue) \in Seq(BOOLEAN)
          /\ Len(Tail(queue)) <= QueueMax
      BY <2>2, QueueShrinks DEF TypeEnc
    <3>2. encPc' \in [Workers -> EncLabels]
      BY <2>2 DEF EncStep, EncLabels, TypeEnc
    <3>3. encKey' \in [Workers -> BOOLEAN]
      BY <2>2, <3>1, Zenon DEF TypeEnc
    <3>4. UNCHANGED <<encoding, worker, aborted>> BY <1>22 DEF EncPop
    <3>5. queue' \in Seq(BOOLEAN) /\ Len(queue') <= QueueMax BY <2>2, <3>1
    <3>6. QED BY <3>2, <3>3, <3>4, <3>5 DEF TypeEnc
  <2>3. TypeEnc' BY <1>22, <2>1, <2>2 DEF EncPop
  <2> QED BY <1>22, <1>0, <2>3 DEF TypeOK, EncPop
<1>23. ASSUME NEW w \in Workers, EncEncode(w)
      PROVE  TypeOK'
  <2>1. TypeEnc' BY <1>23, Constants DEF EncEncode, EncStep, EncLabels, TypeEnc
  <2> QED BY <1>23, <1>0, <2>1 DEF TypeOK, EncEncode
<1>24. ASSUME NEW w \in Workers, EncWrite(w)
      PROVE  TypeOK'
  <2>1. TypeEnc' BY <1>24, Constants DEF EncWrite, EncStep, EncLabels, TypeEnc
  <2>2. TypeMux' BY <1>24, WriteType DEF EncWrite, TypeEnc
  <2> QED BY <1>24, <1>0, <2>1, <2>2 DEF TypeOK, EncWrite
<1>25. ASSUME AudioCaptured PROVE TypeOK'
  <2>1. TypeAudio' BY <1>25, Constants DEF AudioCaptured, TypeAudio
  <2> QED BY <1>25, <1>0, <2>1 DEF TypeOK, AudioCaptured
<1>26. ASSUME AudioWrite PROVE TypeOK'
  <2>1. TypeAudio' BY <1>26, Constants DEF AudioWrite, TypeAudio
  <2>2. TypeMux' BY <1>26, WriteType DEF AudioWrite, TypeEnc
  <2> QED BY <1>26, <1>0, <2>1, <2>2 DEF TypeOK, AudioWrite
<1>27. CASE UNCHANGED vars BY <1>0, <1>27 DEF vars, TypeOK
<1>28. CASE Next
  BY ONLY <1>28, NextCases, <1>1, <1>2, <1>3, <1>4, <1>5, <1>6, <1>7, <1>8, <1>9, <1>10, <1>11, <1>12, <1>13, <1>14, <1>15, <1>16, <1>17, <1>18, <1>19, <1>20, <1>21, <1>22, <1>23, <1>24, <1>25, <1>26
<1>29. QED BY <1>27, <1>28

\* Every variable keeps its type.
THEOREM TypeCorrect == Spec => []TypeOK
<1>1. TypeOK /\ [Next]_vars => TypeOK' BY TypeStep
<1>2. QED BY TypeInit, <1>1, PTL DEF Spec
-----------------------------------------------------------------------------
\* The parts of TypeOK the background proof uses.
LEMMA Types ==
  ASSUME TypeOK
  PROVE  /\ pc \in [Threads -> Labels] /\ ret \in [Threads -> Labels]
         /\ joining \in [Threads -> Workers \cup {NoWorker}]
         /\ "cap" \in Threads /\ "cmd" \in Threads
         /\ ctx \in [Ctxs -> [state : {"free", "open", "lost"}, first : {"none", "key", "delta"}]]
         /\ fmtCtx \in Ctxs \cup {NoCtx}
         /\ worker \in Workers \cup {NoWorker}
         /\ encPc \in [Workers -> EncLabels] /\ encKey \in [Workers -> BOOLEAN]
  BY DEF TypeOK, TypeCall, TypeMux, TypeEnc, Threads

\* The invariant of background mode holds initially.
LEMMA BgInit == Init => BgInv
<1> SUFFICES ASSUME Init PROVE BgInv OBVIOUS
<1>1. TypeOK BY TypeInit
<1>2. Control BY DEF Init, Control, StartLabels, StopLabels, cap, Threads
<1>3. OneFile
  BY DEF Init, OneFile, NoFileLost, ContextLive, FreeCtx, cap, StartLabels, Threads
<1>4. OneEncoder BY DEF Init, OneEncoder, Quiet, Threads, cap
<1>5. OneStream BY DEF Init, OneStream, Opened, StartLabels, StopLabels, cap, Threads
<1>6. KeyFirst BY Constants DEF Init, KeyFirst, FreeCtx, cap, Threads
<1>7. Anchored BY DEF Init, Anchored, StartLabels, cap, Threads
<1>8. QED BY <1>1, <1>2, <1>3, <1>4, <1>5, <1>6, <1>7 DEF BgInv

\* Writing a packet keeps the one container, or drops it when the header fails.
LEMMA WriteOneFile ==
  ASSUME TypeOK, NEW key, NEW video, Control, OneFile,
         WriteIntoFile(key, video), UNCHANGED <<pc, hasFirstKeyframe>>
  PROVE  OneFile'
<1>0. fmtCtx \in Ctxs \cup {NoCtx} /\ \A c \in Ctxs : c # NoCtx
  BY Types, Constants
<1>1. /\ Accepts(key) => hasFirstKeyframe /\ cap \notin StartLabels
      /\ cap' = cap
  BY DEF Accepts, Control, cap
<1>2. CASE UNCHANGED fmtCtx /\ \A c \in Ctxs : ctx'[c].state = ctx[c].state
  BY <1>0, <1>1, <1>2 DEF OneFile, NoFileLost, ContextLive, Opened
<1>3. CASE Accepts(key) /\ fmtCtx' = NoCtx /\ ctx' = [ctx EXCEPT ![fmtCtx] = FreeCtx]
  BY <1>0, <1>1, <1>3, Types DEF OneFile, NoFileLost, ContextLive, Opened, FreeCtx
<1> QED
  BY <1>0, <1>2, <1>3, Types DEF WriteIntoFile

LEMMA BgStep == ASSUME AutoStart, BgInv, [Next]_vars PROVE BgInv'
<1> USE Constants DEF flagVars, muxVars, encVars, audioVars, callVars, splitVars,
        camVars, histVars, Goto, Call, Return
<1>0. TypeOK' BY TypeStep DEF BgInv
<1>t. TypeOK BY DEF BgInv
<1>p. Control /\ OneFile /\ OneEncoder /\ OneStream /\ KeyFirst /\ Anchored BY DEF BgInv
<1>1. ASSUME NEW key \in BOOLEAN, NEW dt \in 0..MaxTime, CapFrame(key, dt) PROVE BgInv'
  <2>1. Control' BY <1>1, <1>t, <1>p, Types DEF CapFrame, AutoStarts, Control, StartLabels, StopLabels, cap
  <2>2. OneFile' BY <1>1, <1>t, <1>p, Types DEF CapFrame, AutoStarts, OneFile, NoFileLost, ContextLive, Opened, Control, StartLabels, StopLabels, cap
  <2>3. OneEncoder' BY <1>1, <1>t, <1>p, Types DEF CapFrame, AutoStarts, OneEncoder, Quiet, Opened, Control, StartLabels, StopLabels, cap
  <2>4. OneStream' BY <1>1, <1>t, <1>p, Types DEF CapFrame, AutoStarts, OneStream, OneFile, Opened, Control, StartLabels, StopLabels, cap
  <2>5. KeyFirst' BY <1>1, <1>t, <1>p, Types DEF CapFrame, AutoStarts, KeyFirst, OneEncoder, Quiet, OneFile, Opened, Control, StartLabels, StopLabels, cap
  <2>6. Anchored' BY <1>1, <1>t, <1>p, Types DEF CapFrame, AutoStarts, Anchored, Control, StartLabels, StopLabels, cap
  <2>7. QED BY <1>0, <2>1, <2>2, <2>3, <2>4, <2>5, <2>6 DEF BgInv
<1>2. ASSUME CapGate PROVE BgInv'
  <2>1. Control' BY <1>2, <1>t, <1>p, Types DEF CapGate, Control, StartLabels, StopLabels, cap
  <2>2. OneFile' BY <1>2, <1>t, <1>p, Types DEF CapGate, OneFile, NoFileLost, ContextLive, Opened, Control, StartLabels, StopLabels, cap
  <2>3. OneEncoder' BY <1>2, <1>t, <1>p, Types DEF CapGate, OneEncoder, Quiet, Opened, Control, StartLabels, StopLabels, cap
  <2>4. OneStream' BY <1>2, <1>t, <1>p, Types DEF CapGate, OneStream, OneFile, Opened, Control, StartLabels, StopLabels, cap
  <2>5. KeyFirst' BY <1>2, <1>t, <1>p, Types DEF CapGate, KeyFirst, OneEncoder, Quiet, OneFile, Opened, Control, StartLabels, StopLabels, cap
  <2>6. Anchored' BY <1>2, <1>t, <1>p, Types DEF CapGate, Anchored, Control, StartLabels, StopLabels, cap
  <2>7. QED BY <1>0, <2>1, <2>2, <2>3, <2>4, <2>5, <2>6 DEF BgInv
<1>3. ASSUME CapAnchor PROVE BgInv'
  <2>1. Control' BY <1>3, <1>t, <1>p, Types DEF CapAnchor, Control, StartLabels, StopLabels, cap
  <2>2. OneFile' BY <1>3, <1>t, <1>p, Types DEF CapAnchor, OneFile, NoFileLost, ContextLive, Opened, Control, StartLabels, StopLabels, cap
  <2>3. OneEncoder' BY <1>3, <1>t, <1>p, Types DEF CapAnchor, OneEncoder, Quiet, Opened, Control, StartLabels, StopLabels, cap
  <2>4. OneStream' BY <1>3, <1>t, <1>p, Types DEF CapAnchor, OneStream, OneFile, Opened, Control, StartLabels, StopLabels, cap
  <2>5. KeyFirst' BY <1>3, <1>t, <1>p, Types DEF CapAnchor, KeyFirst, OneEncoder, Quiet, OneFile, Opened, Control, StartLabels, StopLabels, cap
  <2>6. Anchored' BY <1>3, <1>t, <1>p, Types DEF CapAnchor, Anchored, Control, StartLabels, StopLabels, cap
  <2>7. QED BY <1>0, <2>1, <2>2, <2>3, <2>4, <2>5, <2>6 DEF BgInv
<1>4. ASSUME CapSplit PROVE BgInv'
  <2>1. Control' BY <1>4, <1>t, <1>p, Types DEF CapSplit, Control, StartLabels, StopLabels, cap
  <2>2. OneFile' BY <1>4, <1>t, <1>p, Types DEF CapSplit, OneFile, NoFileLost, ContextLive, Opened, Control, StartLabels, StopLabels, cap
  <2>3. OneEncoder' BY <1>4, <1>t, <1>p, Types DEF CapSplit, OneEncoder, Quiet, Opened, Control, StartLabels, StopLabels, cap
  <2>4. OneStream' BY <1>4, <1>t, <1>p, Types DEF CapSplit, OneStream, OneFile, Opened, Control, StartLabels, StopLabels, cap
  <2>5. KeyFirst' BY <1>4, <1>t, <1>p, Types DEF CapSplit, KeyFirst, OneEncoder, Quiet, OneFile, Opened, Control, StartLabels, StopLabels, cap
  <2>6. Anchored' BY <1>4, <1>t, <1>p, Types DEF CapSplit, Anchored, Control, StartLabels, StopLabels, cap
  <2>7. QED BY <1>0, <2>1, <2>2, <2>3, <2>4, <2>5, <2>6 DEF BgInv
<1>5. ASSUME CapReopen PROVE BgInv'
  <2>1. Control' BY <1>5, <1>t, <1>p, Types DEF CapReopen, Control, StartLabels, StopLabels, cap
  <2>2. OneFile' BY <1>5, <1>t, <1>p, Types DEF CapReopen, OneFile, NoFileLost, ContextLive, Opened, Control, StartLabels, StopLabels, cap
  <2>3. OneEncoder' BY <1>5, <1>t, <1>p, Types DEF CapReopen, OneEncoder, Quiet, Opened, Control, StartLabels, StopLabels, cap
  <2>4. OneStream' BY <1>5, <1>t, <1>p, Types DEF CapReopen, OneStream, OneFile, Opened, Control, StartLabels, StopLabels, cap
  <2>5. KeyFirst' BY <1>5, <1>t, <1>p, Types DEF CapReopen, KeyFirst, OneEncoder, Quiet, OneFile, Opened, Control, StartLabels, StopLabels, cap
  <2>6. Anchored' BY <1>5, <1>t, <1>p, Types DEF CapReopen, Anchored, Control, StartLabels, StopLabels, cap
  <2>7. QED BY <1>0, <2>1, <2>2, <2>3, <2>4, <2>5, <2>6 DEF BgInv
<1>6. ASSUME CapRotated PROVE BgInv'
  <2>1. Control' BY <1>6, <1>t, <1>p, Types DEF CapRotated, Control, StartLabels, StopLabels, cap
  <2>2. OneFile' BY <1>6, <1>t, <1>p, Types DEF CapRotated, OneFile, NoFileLost, ContextLive, Opened, Control, StartLabels, StopLabels, cap
  <2>3. OneEncoder' BY <1>6, <1>t, <1>p, Types DEF CapRotated, OneEncoder, Quiet, Opened, Control, StartLabels, StopLabels, cap
  <2>4. OneStream' BY <1>6, <1>t, <1>p, Types DEF CapRotated, OneStream, OneFile, Opened, Control, StartLabels, StopLabels, cap
  <2>5. KeyFirst' BY <1>6, <1>t, <1>p, Types DEF CapRotated, KeyFirst, OneEncoder, Quiet, OneFile, Opened, Control, StartLabels, StopLabels, cap
  <2>6. Anchored' BY <1>6, <1>t, <1>p, Types DEF CapRotated, Anchored, Control, StartLabels, StopLabels, cap
  <2>7. QED BY <1>0, <2>1, <2>2, <2>3, <2>4, <2>5, <2>6 DEF BgInv
<1>7. ASSUME CapPush PROVE BgInv'
  <2>1. Control' BY <1>7, <1>t, <1>p, Types DEF CapPush, Enqueue, Control, StartLabels, StopLabels, cap
  <2>2. OneFile' BY <1>7, <1>t, <1>p, Types DEF CapPush, Enqueue, OneFile, NoFileLost, ContextLive, Opened, Control, StartLabels, StopLabels, cap
  <2>3. OneEncoder' BY <1>7, <1>t, <1>p, Types DEF CapPush, Enqueue, OneEncoder, Quiet, Opened, Control, StartLabels, StopLabels, cap
  <2>4. OneStream' BY <1>7, <1>t, <1>p, Types DEF CapPush, Enqueue, OneStream, OneFile, Opened, Control, StartLabels, StopLabels, cap
  <2>5. KeyFirst' BY <1>7, <1>t, <1>p, Types DEF CapPush, Enqueue, KeyFirst, OneEncoder, Quiet, OneFile, Opened, Control, StartLabels, StopLabels, cap
  <2>6. Anchored' BY <1>7, <1>t, <1>p, Types DEF CapPush, Enqueue, Anchored, Control, StartLabels, StopLabels, cap
  <2>7. QED BY <1>0, <2>1, <2>2, <2>3, <2>4, <2>5, <2>6 DEF BgInv
<1>8. ASSUME CmdStart PROVE BgInv'
  <2>1. Control' BY <1>8, <1>t, <1>p, Types DEF CmdStart, Control, StartLabels, StopLabels, cap
  <2>2. OneFile' BY <1>8, <1>t, <1>p, Types DEF CmdStart, OneFile, NoFileLost, ContextLive, Opened, Control, StartLabels, StopLabels, cap
  <2>3. OneEncoder' BY <1>8, <1>t, <1>p, Types DEF CmdStart, OneEncoder, Quiet, Opened, Control, StartLabels, StopLabels, cap
  <2>4. OneStream' BY <1>8, <1>t, <1>p, Types DEF CmdStart, OneStream, OneFile, Opened, Control, StartLabels, StopLabels, cap
  <2>5. KeyFirst' BY <1>8, <1>t, <1>p, Types DEF CmdStart, KeyFirst, OneEncoder, Quiet, OneFile, Opened, Control, StartLabels, StopLabels, cap
  <2>6. Anchored' BY <1>8, <1>t, <1>p, Types DEF CmdStart, Anchored, Control, StartLabels, StopLabels, cap
  <2>7. QED BY <1>0, <2>1, <2>2, <2>3, <2>4, <2>5, <2>6 DEF BgInv
<1>9. ASSUME CmdStop PROVE BgInv'
  <2>1. Control' BY <1>9, <1>t, <1>p, Types DEF CmdStop, Control, StartLabels, StopLabels, cap
  <2>2. OneFile' BY <1>9, <1>t, <1>p, Types DEF CmdStop, OneFile, NoFileLost, ContextLive, Opened, Control, StartLabels, StopLabels, cap
  <2>3. OneEncoder' BY <1>9, <1>t, <1>p, Types DEF CmdStop, OneEncoder, Quiet, Opened, Control, StartLabels, StopLabels, cap
  <2>4. OneStream' BY <1>9, <1>t, <1>p, Types DEF CmdStop, OneStream, OneFile, Opened, Control, StartLabels, StopLabels, cap
  <2>5. KeyFirst' BY <1>9, <1>t, <1>p, Types DEF CmdStop, KeyFirst, OneEncoder, Quiet, OneFile, Opened, Control, StartLabels, StopLabels, cap
  <2>6. Anchored' BY <1>9, <1>t, <1>p, Types DEF CmdStop, Anchored, Control, StartLabels, StopLabels, cap
  <2>7. QED BY <1>0, <2>1, <2>2, <2>3, <2>4, <2>5, <2>6 DEF BgInv
<1>10. ASSUME CmdAnswer PROVE BgInv'
  <2>1. Control' BY <1>10, <1>t, <1>p, Types DEF CmdAnswer, Control, StartLabels, StopLabels, cap
  <2>2. OneFile' BY <1>10, <1>t, <1>p, Types DEF CmdAnswer, OneFile, NoFileLost, ContextLive, Opened, Control, StartLabels, StopLabels, cap
  <2>3. OneEncoder' BY <1>10, <1>t, <1>p, Types DEF CmdAnswer, OneEncoder, Quiet, Opened, Control, StartLabels, StopLabels, cap
  <2>4. OneStream' BY <1>10, <1>t, <1>p, Types DEF CmdAnswer, OneStream, OneFile, Opened, Control, StartLabels, StopLabels, cap
  <2>5. KeyFirst' BY <1>10, <1>t, <1>p, Types DEF CmdAnswer, KeyFirst, OneEncoder, Quiet, OneFile, Opened, Control, StartLabels, StopLabels, cap
  <2>6. Anchored' BY <1>10, <1>t, <1>p, Types DEF CmdAnswer, Anchored, Control, StartLabels, StopLabels, cap
  <2>7. QED BY <1>0, <2>1, <2>2, <2>3, <2>4, <2>5, <2>6 DEF BgInv
<1>11. ASSUME NEW t \in Threads, StartOpen(t) PROVE BgInv'
  <2>1. Control' BY <1>11, <1>t, <1>p, Types DEF StartOpen, NewCtx, Control, StartLabels, StopLabels, cap, Threads
  <2>2. OneFile' BY <1>11, <1>t, <1>p, Types, CreateKeeps DEF TypeOK, StartOpen, NewCtx, OneFile, NoFileLost, ContextLive, Opened, Control, StartLabels, StopLabels, cap, Threads
  <2>3. OneEncoder' BY <1>11, <1>t, <1>p, Types DEF StartOpen, NewCtx, OneEncoder, Quiet, Opened, Control, StartLabels, StopLabels, cap, Threads
  <2>4. OneStream' BY <1>11, <1>t, <1>p, Types, CreateKeeps DEF TypeOK, StartOpen, NewCtx, OneStream, OneFile, Opened, Control, StartLabels, StopLabels, cap, Threads
  <2>5. KeyFirst' BY <1>11, <1>t, <1>p, Types, CreateKeeps DEF TypeOK, StartOpen, NewCtx, KeyFirst, OneEncoder, Quiet, OneFile, Opened, Control, StartLabels, StopLabels, cap, Threads
  <2>6. Anchored' BY <1>11, <1>t, <1>p, Types DEF StartOpen, NewCtx, Anchored, Control, StartLabels, StopLabels, cap, Threads
  <2>7. QED BY <1>0, <2>1, <2>2, <2>3, <2>4, <2>5, <2>6 DEF BgInv
<1>12. ASSUME NEW t \in Threads, StartReset(t) PROVE BgInv'
  <2>1. Control' BY <1>12, <1>t, <1>p, Types DEF StartReset, EncoderLocked, Control, StartLabels, StopLabels, cap, Threads
  <2>2. OneFile' BY <1>12, <1>t, <1>p, Types DEF StartReset, EncoderLocked, OneFile, NoFileLost, ContextLive, Opened, Control, StartLabels, StopLabels, cap, Threads
  <2>3. OneEncoder' BY <1>12, <1>t, <1>p, Types DEF StartReset, EncoderLocked, OneEncoder, Quiet, Opened, Control, StartLabels, StopLabels, cap, Threads
  <2>4. OneStream' BY <1>12, <1>t, <1>p, Types DEF StartReset, EncoderLocked, OneStream, OneFile, Opened, Control, StartLabels, StopLabels, cap, Threads
  <2>5. KeyFirst' BY <1>12, <1>t, <1>p, Types DEF StartReset, EncoderLocked, KeyFirst, OneEncoder, Quiet, OneFile, Opened, Control, StartLabels, StopLabels, cap, Threads
  <2>6. Anchored' BY <1>12, <1>t, <1>p, Types DEF StartReset, EncoderLocked, Anchored, Control, StartLabels, StopLabels, cap, Threads
  <2>7. QED BY <1>0, <2>1, <2>2, <2>3, <2>4, <2>5, <2>6 DEF BgInv
<1>13. ASSUME NEW t \in Threads, StartSpawn(t) PROVE BgInv'
  <2>1. Control' BY <1>13, <1>t, <1>p, Types DEF StartSpawn, Discard, Control, StartLabels, StopLabels, cap, Threads
  <2>2. OneFile' BY <1>13, <1>t, <1>p, Types DEF StartSpawn, Discard, OneFile, NoFileLost, ContextLive, Opened, Control, StartLabels, StopLabels, cap, Threads
  <2>3. OneEncoder' BY <1>13, <1>t, <1>p, Types DEF StartSpawn, Discard, OneEncoder, Quiet, Opened, Control, StartLabels, StopLabels, cap, Threads
  <2>4. OneStream' BY <1>13, <1>t, <1>p, Types DEF StartSpawn, Discard, OneStream, OneFile, Opened, Control, StartLabels, StopLabels, cap, Threads
  <2>5. KeyFirst' BY <1>13, <1>t, <1>p, Types DEF StartSpawn, Discard, KeyFirst, OneEncoder, Quiet, OneFile, Opened, Control, StartLabels, StopLabels, cap, Threads
  <2>6. Anchored' BY <1>13, <1>t, <1>p, Types DEF StartSpawn, Discard, Anchored, Control, StartLabels, StopLabels, cap, Threads
  <2>7. QED BY <1>0, <2>1, <2>2, <2>3, <2>4, <2>5, <2>6 DEF BgInv
<1>14. ASSUME NEW t \in Threads, StartRun(t) PROVE BgInv'
  <2>1. Control' BY <1>14, <1>t, <1>p, Types DEF StartRun, Reaped, Joined, Control, StartLabels, StopLabels, cap, Threads
  <2>2. OneFile' BY <1>14, <1>t, <1>p, Types DEF StartRun, Reaped, Joined, OneFile, NoFileLost, ContextLive, Opened, Control, StartLabels, StopLabels, cap, Threads
  <2>3. OneEncoder' BY <1>14, <1>t, <1>p, Types DEF StartRun, Reaped, Joined, OneEncoder, Quiet, Opened, Control, StartLabels, StopLabels, cap, Threads
  <2>4. OneStream' BY <1>14, <1>t, <1>p, Types DEF StartRun, Reaped, Joined, OneStream, OneFile, Opened, Control, StartLabels, StopLabels, cap, Threads
  <2>5. KeyFirst' BY <1>14, <1>t, <1>p, Types DEF StartRun, Reaped, Joined, KeyFirst, OneEncoder, Quiet, OneFile, Opened, Control, StartLabels, StopLabels, cap, Threads
  <2>6. Anchored' BY <1>14, <1>t, <1>p, Types DEF StartRun, Reaped, Joined, Anchored, Control, StartLabels, StopLabels, cap, Threads
  <2>7. QED BY <1>0, <2>1, <2>2, <2>3, <2>4, <2>5, <2>6 DEF BgInv
<1>15. ASSUME NEW t \in Threads, StartPending(t) PROVE BgInv'
  <2>1. Control' BY <1>15, <1>t, <1>p, Types DEF StartPending, Control, StartLabels, StopLabels, cap, Threads
  <2>2. OneFile' BY <1>15, <1>t, <1>p, Types DEF StartPending, OneFile, NoFileLost, ContextLive, Opened, Control, StartLabels, StopLabels, cap, Threads
  <2>3. OneEncoder' BY <1>15, <1>t, <1>p, Types DEF StartPending, OneEncoder, Quiet, Opened, Control, StartLabels, StopLabels, cap, Threads
  <2>4. OneStream' BY <1>15, <1>t, <1>p, Types DEF StartPending, OneStream, OneFile, Opened, Control, StartLabels, StopLabels, cap, Threads
  <2>5. KeyFirst' BY <1>15, <1>t, <1>p, Types DEF StartPending, KeyFirst, OneEncoder, Quiet, OneFile, Opened, Control, StartLabels, StopLabels, cap, Threads
  <2>6. Anchored' BY <1>15, <1>t, <1>p, Types DEF StartPending, Anchored, Control, StartLabels, StopLabels, cap, Threads
  <2>7. QED BY <1>0, <2>1, <2>2, <2>3, <2>4, <2>5, <2>6 DEF BgInv
<1>16. ASSUME NEW t \in Threads, StartDone(t) PROVE BgInv'
  <2>1. Control' BY <1>16, <1>t, <1>p, Types DEF StartDone, Control, StartLabels, StopLabels, cap, Threads
  <2>2. OneFile' BY <1>16, <1>t, <1>p, Types DEF StartDone, OneFile, NoFileLost, ContextLive, Opened, Control, StartLabels, StopLabels, cap, Threads
  <2>3. OneEncoder' BY <1>16, <1>t, <1>p, Types DEF StartDone, OneEncoder, Quiet, Opened, Control, StartLabels, StopLabels, cap, Threads
  <2>4. OneStream' BY <1>16, <1>t, <1>p, Types DEF StartDone, OneStream, OneFile, Opened, Control, StartLabels, StopLabels, cap, Threads
  <2>5. KeyFirst' BY <1>16, <1>t, <1>p, Types DEF StartDone, KeyFirst, OneEncoder, Quiet, OneFile, Opened, Control, StartLabels, StopLabels, cap, Threads
  <2>6. Anchored' BY <1>16, <1>t, <1>p, Types DEF StartDone, Anchored, Control, StartLabels, StopLabels, cap, Threads
  <2>7. QED BY <1>0, <2>1, <2>2, <2>3, <2>4, <2>5, <2>6 DEF BgInv
<1>17. ASSUME NEW t \in Threads, StopFlag(t) PROVE BgInv'
  <2>1. Control' BY <1>17, <1>t, <1>p, Types DEF StopFlag, Control, StartLabels, StopLabels, cap, Threads
  <2>2. OneFile' BY <1>17, <1>t, <1>p, Types DEF StopFlag, OneFile, NoFileLost, ContextLive, Opened, Control, StartLabels, StopLabels, cap, Threads
  <2>3. OneEncoder' BY <1>17, <1>t, <1>p, Types DEF StopFlag, OneEncoder, Quiet, Opened, Control, StartLabels, StopLabels, cap, Threads
  <2>4. OneStream' BY <1>17, <1>t, <1>p, Types DEF StopFlag, OneStream, OneFile, Opened, Control, StartLabels, StopLabels, cap, Threads
  <2>5. KeyFirst' BY <1>17, <1>t, <1>p, Types DEF StopFlag, KeyFirst, OneEncoder, Quiet, OneFile, Opened, Control, StartLabels, StopLabels, cap, Threads
  <2>6. Anchored' BY <1>17, <1>t, <1>p, Types DEF StopFlag, Anchored, Control, StartLabels, StopLabels, cap, Threads
  <2>7. QED BY <1>0, <2>1, <2>2, <2>3, <2>4, <2>5, <2>6 DEF BgInv
<1>18. ASSUME NEW t \in Threads, StopReset(t) PROVE BgInv'
  <2>1. Control' BY <1>18, <1>t, <1>p, Types DEF StopReset, Discard, Control, StartLabels, StopLabels, cap, Threads
  <2>2. OneFile' BY <1>18, <1>t, <1>p, Types DEF StopReset, Discard, OneFile, NoFileLost, ContextLive, Opened, Control, StartLabels, StopLabels, cap, Threads
  <2>3. OneEncoder' BY <1>18, <1>t, <1>p, Types DEF StopReset, Discard, OneEncoder, Quiet, Opened, Control, StartLabels, StopLabels, cap, Threads
  <2>4. OneStream' BY <1>18, <1>t, <1>p, Types DEF StopReset, Discard, OneStream, OneFile, Opened, Control, StartLabels, StopLabels, cap, Threads
  <2>5. KeyFirst' BY <1>18, <1>t, <1>p, Types DEF StopReset, Discard, KeyFirst, OneEncoder, Quiet, OneFile, Opened, Control, StartLabels, StopLabels, cap, Threads
  <2>6. Anchored' BY <1>18, <1>t, <1>p, Types DEF StopReset, Discard, Anchored, Control, StartLabels, StopLabels, cap, Threads
  <2>7. QED BY <1>0, <2>1, <2>2, <2>3, <2>4, <2>5, <2>6 DEF BgInv
<1>19. ASSUME NEW t \in Threads, StopJoin(t) PROVE BgInv'
  <2>1. Control' BY <1>19, <1>t, <1>p, Types DEF StopJoin, Reaped, Joined, Control, StartLabels, StopLabels, cap, Threads
  <2>2. OneFile' BY <1>19, <1>t, <1>p, Types DEF StopJoin, Reaped, Joined, OneFile, NoFileLost, ContextLive, Opened, Control, StartLabels, StopLabels, cap, Threads
  <2>3. OneEncoder' BY <1>19, <1>t, <1>p, Types DEF StopJoin, Reaped, Joined, OneEncoder, Quiet, Opened, Control, StartLabels, StopLabels, cap, Threads
  <2>4. OneStream' BY <1>19, <1>t, <1>p, Types DEF StopJoin, Reaped, Joined, OneStream, OneFile, Opened, Control, StartLabels, StopLabels, cap, Threads
  <2>5. KeyFirst' BY <1>19, <1>t, <1>p, Types DEF StopJoin, Reaped, Joined, KeyFirst, OneEncoder, Quiet, OneFile, Opened, Control, StartLabels, StopLabels, cap, Threads
  <2>6. Anchored' BY <1>19, <1>t, <1>p, Types DEF StopJoin, Reaped, Joined, Anchored, Control, StartLabels, StopLabels, cap, Threads
  <2>7. QED BY <1>0, <2>1, <2>2, <2>3, <2>4, <2>5, <2>6 DEF BgInv
<1>20. ASSUME NEW t \in Threads, StopClose(t) PROVE BgInv'
  <2>1. Control' BY <1>20, <1>t, <1>p, Types DEF StopClose, FreeCtx, Control, StartLabels, StopLabels, cap, Threads
  <2>2. OneFile' BY <1>20, <1>t, <1>p, Types DEF StopClose, FreeCtx, OneFile, NoFileLost, ContextLive, Opened, Control, StartLabels, StopLabels, cap, Threads
  <2>3. OneEncoder' BY <1>20, <1>t, <1>p, Types DEF StopClose, FreeCtx, OneEncoder, Quiet, Opened, Control, StartLabels, StopLabels, cap, Threads
  <2>4. OneStream' BY <1>20, <1>t, <1>p, Types DEF StopClose, FreeCtx, OneStream, OneFile, Opened, Control, StartLabels, StopLabels, cap, Threads
  <2>5. KeyFirst' BY <1>20, <1>t, <1>p, Types DEF StopClose, FreeCtx, KeyFirst, OneEncoder, Quiet, OneFile, Opened, Control, StartLabels, StopLabels, cap, Threads
  <2>6. Anchored' BY <1>20, <1>t, <1>p, Types DEF StopClose, FreeCtx, Anchored, Control, StartLabels, StopLabels, cap, Threads
  <2>7. QED BY <1>0, <2>1, <2>2, <2>3, <2>4, <2>5, <2>6 DEF BgInv
<1>21. ASSUME NEW w \in Workers, EncLoop(w) PROVE BgInv'
  <2>1. Control' BY <1>21, <1>t, <1>p, Types DEF EncLoop, EncStep, Control, StartLabels, StopLabels, cap
  <2>2. OneFile' BY <1>21, <1>t, <1>p, Types DEF EncLoop, EncStep, OneFile, NoFileLost, ContextLive, Opened, Control, StartLabels, StopLabels, cap
  <2>3. OneEncoder' BY <1>21, <1>t, <1>p, Types DEF EncLoop, EncStep, OneEncoder, Quiet, Opened, Control, StartLabels, StopLabels, cap
  <2>4. OneStream' BY <1>21, <1>t, <1>p, Types DEF EncLoop, EncStep, OneStream, OneFile, Opened, Control, StartLabels, StopLabels, cap
  <2>5. KeyFirst' BY <1>21, <1>t, <1>p, Types DEF EncLoop, EncStep, KeyFirst, OneEncoder, Quiet, OneFile, Opened, Control, StartLabels, StopLabels, cap
  <2>6. Anchored' BY <1>21, <1>t, <1>p, Types DEF EncLoop, EncStep, Anchored, Control, StartLabels, StopLabels, cap
  <2>7. QED BY <1>0, <2>1, <2>2, <2>3, <2>4, <2>5, <2>6 DEF BgInv
<1>22. ASSUME NEW w \in Workers, EncPop(w) PROVE BgInv'
  <2>1. Control' BY <1>22, <1>t, <1>p, Types DEF EncPop, EncStep, Control, StartLabels, StopLabels, cap
  <2>2. OneFile' BY <1>22, <1>t, <1>p, Types DEF EncPop, EncStep, OneFile, NoFileLost, ContextLive, Opened, Control, StartLabels, StopLabels, cap
  <2>3. OneEncoder' BY <1>22, <1>t, <1>p, Types DEF EncPop, EncStep, OneEncoder, Quiet, Opened, Control, StartLabels, StopLabels, cap
  <2>4. OneStream' BY <1>22, <1>t, <1>p, Types DEF EncPop, EncStep, OneStream, OneFile, Opened, Control, StartLabels, StopLabels, cap
  <2>5. KeyFirst' BY <1>22, <1>t, <1>p, Types DEF EncPop, EncStep, KeyFirst, OneEncoder, Quiet, OneFile, Opened, Control, StartLabels, StopLabels, cap
  <2>6. Anchored' BY <1>22, <1>t, <1>p, Types DEF EncPop, EncStep, Anchored, Control, StartLabels, StopLabels, cap
  <2>7. QED BY <1>0, <2>1, <2>2, <2>3, <2>4, <2>5, <2>6 DEF BgInv
<1>23. ASSUME NEW w \in Workers, EncEncode(w) PROVE BgInv'
  <2>1. Control' BY <1>23, <1>t, <1>p, Types DEF EncEncode, EncStep, Starts, EncoderLocked, Control, StartLabels, StopLabels, cap
  <2>2. OneFile' BY <1>23, <1>t, <1>p, Types DEF EncEncode, EncStep, Starts, EncoderLocked, OneFile, NoFileLost, ContextLive, Opened, Control, StartLabels, StopLabels, cap
  <2>3. OneEncoder' BY <1>23, <1>t, <1>p, Types DEF EncEncode, EncStep, Starts, EncoderLocked, OneEncoder, Quiet, Opened, Control, StartLabels, StopLabels, cap
  <2>4. OneStream' BY <1>23, <1>t, <1>p, Types DEF EncEncode, EncStep, Starts, EncoderLocked, OneStream, OneFile, Opened, Control, StartLabels, StopLabels, cap
  <2>5. KeyFirst' BY <1>23, <1>t, <1>p, Types DEF EncEncode, EncStep, Starts, EncoderLocked, KeyFirst, OneEncoder, Quiet, OneFile, Opened, Control, StartLabels, StopLabels, cap
  <2>6. Anchored' BY <1>23, <1>t, <1>p, Types DEF EncEncode, EncStep, Starts, EncoderLocked, Anchored, Control, StartLabels, StopLabels, cap
  <2>7. QED BY <1>0, <2>1, <2>2, <2>3, <2>4, <2>5, <2>6 DEF BgInv
<1>24. ASSUME NEW w \in Workers, EncWrite(w) PROVE BgInv'
  <2>1. Control' BY <1>24, <1>t, <1>p, Types DEF EncWrite, EncStep, WriteIntoFile, Accepts, FirstOf, FreeCtx, Control, StartLabels, StopLabels, cap
  <2>2. OneFile'
    <3>1. WriteIntoFile(encKey[w], TRUE) /\ UNCHANGED <<pc, hasFirstKeyframe>>
      BY <1>24 DEF EncWrite
    <3>2. QED BY ONLY <3>1, <1>t, <1>p, WriteOneFile
  <2>3. OneEncoder' BY <1>24, <1>t, <1>p, Types DEF EncWrite, EncStep, WriteIntoFile, Accepts, FirstOf, FreeCtx, OneEncoder, Quiet, Opened, Control, StartLabels, StopLabels, cap
  <2>4. OneStream' BY <1>24, <1>t, <1>p, Types DEF EncWrite, EncStep, WriteIntoFile, Accepts, FirstOf, FreeCtx, OneStream, OneFile, Opened, Control, StartLabels, StopLabels, cap
  <2>5. KeyFirst' BY <1>24, <1>t, <1>p, Types DEF EncWrite, EncStep, WriteIntoFile, Accepts, FirstOf, FreeCtx, KeyFirst, OneEncoder, Quiet, OneFile, Opened, Control, StartLabels, StopLabels, cap
  <2>6. Anchored' BY <1>24, <1>t, <1>p, Types DEF EncWrite, EncStep, WriteIntoFile, Accepts, FirstOf, FreeCtx, Anchored, Control, StartLabels, StopLabels, cap
  <2>7. QED BY <1>0, <2>1, <2>2, <2>3, <2>4, <2>5, <2>6 DEF BgInv
<1>25. ASSUME AudioCaptured PROVE BgInv'
  <2>1. Control' BY <1>25, <1>t, <1>p, Types DEF AudioCaptured, Control, StartLabels, StopLabels, cap
  <2>2. OneFile' BY <1>25, <1>t, <1>p, Types DEF AudioCaptured, OneFile, NoFileLost, ContextLive, Opened, Control, StartLabels, StopLabels, cap
  <2>3. OneEncoder' BY <1>25, <1>t, <1>p, Types DEF AudioCaptured, OneEncoder, Quiet, Opened, Control, StartLabels, StopLabels, cap
  <2>4. OneStream' BY <1>25, <1>t, <1>p, Types DEF AudioCaptured, OneStream, OneFile, Opened, Control, StartLabels, StopLabels, cap
  <2>5. KeyFirst' BY <1>25, <1>t, <1>p, Types DEF AudioCaptured, KeyFirst, OneEncoder, Quiet, OneFile, Opened, Control, StartLabels, StopLabels, cap
  <2>6. Anchored' BY <1>25, <1>t, <1>p, Types DEF AudioCaptured, Anchored, Control, StartLabels, StopLabels, cap
  <2>7. QED BY <1>0, <2>1, <2>2, <2>3, <2>4, <2>5, <2>6 DEF BgInv
<1>26. ASSUME AudioWrite PROVE BgInv'
  <2>1. Control' BY <1>26, <1>t, <1>p, Types DEF AudioWrite, WriteIntoFile, Accepts, FirstOf, FreeCtx, Control, StartLabels, StopLabels, cap
  <2>2. OneFile' BY <1>26, <1>t, <1>p, Types DEF AudioWrite, WriteIntoFile, Accepts, FirstOf, FreeCtx, OneFile, NoFileLost, ContextLive, Opened, Control, StartLabels, StopLabels, cap
  <2>3. OneEncoder' BY <1>26, <1>t, <1>p, Types DEF AudioWrite, WriteIntoFile, Accepts, FirstOf, FreeCtx, OneEncoder, Quiet, Opened, Control, StartLabels, StopLabels, cap
  <2>4. OneStream' BY <1>26, <1>t, <1>p, Types DEF AudioWrite, WriteIntoFile, Accepts, FirstOf, FreeCtx, OneStream, OneFile, Opened, Control, StartLabels, StopLabels, cap
  <2>5. KeyFirst' BY <1>26, <1>t, <1>p, Types DEF AudioWrite, WriteIntoFile, Accepts, FirstOf, FreeCtx, KeyFirst, OneEncoder, Quiet, OneFile, Opened, Control, StartLabels, StopLabels, cap
  <2>6. Anchored' BY <1>26, <1>t, <1>p, Types DEF AudioWrite, WriteIntoFile, Accepts, FirstOf, FreeCtx, Anchored, Control, StartLabels, StopLabels, cap
  <2>7. QED BY <1>0, <2>1, <2>2, <2>3, <2>4, <2>5, <2>6 DEF BgInv
<1>27. CASE UNCHANGED vars
  BY <1>27, <1>0, <1>p DEF vars, BgInv, Control, OneFile, NoFileLost, ContextLive, OneEncoder,
     Quiet, OneStream, KeyFirst, Anchored, Opened, cap
<1>28. CASE Next
  BY ONLY <1>28, NextCases, <1>1, <1>2, <1>3, <1>4, <1>5, <1>6, <1>7, <1>8, <1>9, <1>10, <1>11, <1>12, <1>13, <1>14, <1>15, <1>16, <1>17, <1>18, <1>19, <1>20, <1>21, <1>22, <1>23, <1>24, <1>25, <1>26
<1>29. QED BY <1>27, <1>28



\* In background mode no open file is lost (NoFileLost) and the one in use is alive
\* (ContextLive): a rotation closes the file before it opens the next, and nothing
\* else opens one.  A container whose file cannot be opened is lost at once, and is
\* none of these.
THEOREM BackgroundOneFile == ASSUME AutoStart PROVE Spec => [](NoFileLost /\ ContextLive)
<1>1. BgInv /\ [Next]_vars => BgInv' BY BgStep
<1>2. BgInv => NoFileLost /\ ContextLive BY DEF BgInv, OneFile
<1>3. QED BY BgInit, <1>1, <1>2, PTL DEF Spec

\* In background mode every file's first video packet is a keyframe, whatever
\* the audio worker wrote before it and whichever encoder is used.
THEOREM BackgroundStartsOnKeyframe == ASSUME AutoStart PROVE Spec => []StartsOnKeyframe
<1>1. BgInv /\ [Next]_vars => BgInv' BY BgStep
<1>2. BgInv => StartsOnKeyframe BY DEF BgInv, KeyFirst, StartsOnKeyframe
<1>3. QED BY BgInit, <1>1, <1>2, PTL DEF Spec

\* In background mode, if headers can always be written, an encoder thread
\* never stamps a packet from a stream whose container was freed: the join in
\* Recorder::Stop comes before CloseContext.
THEOREM BackgroundStreamLive ==
  ASSUME AutoStart, ~HeaderMayFail PROVE Spec => []StreamLive
<1>1. BgInv /\ [Next]_vars => BgInv' BY BgStep
<1>2. ASSUME BgInv PROVE StreamLive
  <2>1. SUFFICES ASSUME NEW w \in Workers, encPc[w] = "packet"
                 PROVE  st # NoCtx /\ ctx[st].state = "open"
    BY DEF StreamLive
  <2>2. Opened BY <1>2, <2>1 DEF BgInv, OneEncoder, Quiet
  <2>3. QED BY <1>2, <2>2 DEF BgInv, OneStream, OneFile, ContextLive
<1>3. QED BY BgInit, <1>1, <1>2, PTL DEF Spec

\* In background mode the split timer never drifts from the anchor of the
\* session, whatever rotations and failures to open a file there were.
THEOREM BackgroundAntiDrift == ASSUME AutoStart PROVE Spec => []AntiDrift
<1>1. BgInv /\ [Next]_vars => BgInv' BY BgStep
<1>2. BgInv => AntiDrift BY DEF BgInv, Anchored, AntiDrift
<1>3. QED BY BgInit, <1>1, <1>2, PTL DEF Spec

\* In every mode, under every interleaving of commands, splits and encoders,
\* the container pointer used under ctx_mux is null or alive.
THEOREM ContextAlwaysLive == Spec => []ContextLive
<1>1. Init => ContextLive BY DEF Init, ContextLive
<1>2. ASSUME TypeOK, ContextLive, [Next]_vars PROVE ContextLive'
  <2>0. UNCHANGED <<fmtCtx, ctx>> => ContextLive' BY <1>2 DEF ContextLive
  <2>1. ASSUME NEW key \in BOOLEAN, NEW dt \in 0..MaxTime, CapFrame(key, dt) PROVE ContextLive'
    BY <2>1, <2>0 DEF CapFrame, muxVars
  <2>2. ASSUME CapGate PROVE ContextLive'
    BY <2>2, <2>0 DEF CapGate, muxVars
  <2>3. ASSUME CapAnchor PROVE ContextLive'
    BY <2>3, <2>0 DEF CapAnchor, muxVars
  <2>4. ASSUME CapSplit PROVE ContextLive'
    BY <2>4, <2>0 DEF CapSplit, muxVars
  <2>5. ASSUME CapReopen PROVE ContextLive'
    BY <2>5, <2>0 DEF CapReopen, muxVars
  <2>6. ASSUME CapRotated PROVE ContextLive'
    BY <2>6, <2>0 DEF CapRotated, muxVars
  <2>7. ASSUME CapPush PROVE ContextLive'
    BY <2>7, <2>0 DEF CapPush, muxVars
  <2>8. ASSUME CmdStart PROVE ContextLive'
    BY <2>8, <2>0 DEF CmdStart, muxVars
  <2>9. ASSUME CmdStop PROVE ContextLive'
    BY <2>9, <2>0 DEF CmdStop, muxVars
  <2>10. ASSUME CmdAnswer PROVE ContextLive'
    BY <2>10, <2>0 DEF CmdAnswer, muxVars
  <2>11. ASSUME NEW t \in Threads, StartOpen(t) PROVE ContextLive'
    BY <1>2, <2>11, Types, Constants, CreateKeeps DEF TypeOK, ContextLive, StartOpen, NewCtx
  <2>12. ASSUME NEW t \in Threads, StartReset(t) PROVE ContextLive'
    BY <2>12, <2>0 DEF StartReset, muxVars
  <2>13. ASSUME NEW t \in Threads, StartSpawn(t) PROVE ContextLive'
    BY <2>13, <2>0 DEF StartSpawn, muxVars
  <2>14. ASSUME NEW t \in Threads, StartRun(t) PROVE ContextLive'
    BY <2>14, <2>0 DEF StartRun, muxVars
  <2>15. ASSUME NEW t \in Threads, StartPending(t) PROVE ContextLive'
    BY <2>15, <2>0 DEF StartPending, muxVars
  <2>16. ASSUME NEW t \in Threads, StartDone(t) PROVE ContextLive'
    BY <2>16, <2>0 DEF StartDone, muxVars
  <2>17. ASSUME NEW t \in Threads, StopFlag(t) PROVE ContextLive'
    BY <2>17, <2>0 DEF StopFlag, muxVars
  <2>18. ASSUME NEW t \in Threads, StopReset(t) PROVE ContextLive'
    BY <2>18, <2>0 DEF StopReset, muxVars
  <2>19. ASSUME NEW t \in Threads, StopJoin(t) PROVE ContextLive'
    BY <2>19, <2>0 DEF StopJoin, muxVars
  <2>20. ASSUME NEW t \in Threads, StopClose(t) PROVE ContextLive'
    BY <1>2, <2>20, Types, Constants DEF ContextLive, StopClose, FreeCtx
  <2>21. ASSUME NEW w \in Workers, EncLoop(w) PROVE ContextLive'
    BY <2>21, <2>0 DEF EncLoop, muxVars
  <2>22. ASSUME NEW w \in Workers, EncPop(w) PROVE ContextLive'
    BY <2>22, <2>0 DEF EncPop, muxVars
  <2>23. ASSUME NEW w \in Workers, EncEncode(w) PROVE ContextLive'
    BY <2>23, <2>0 DEF EncEncode, muxVars
  <2>24. ASSUME NEW w \in Workers, EncWrite(w) PROVE ContextLive'
    BY <1>2, <2>24, Types, Constants DEF ContextLive, EncWrite, WriteIntoFile, FreeCtx
  <2>25. ASSUME AudioCaptured PROVE ContextLive'
    BY <2>25, <2>0 DEF AudioCaptured, muxVars
  <2>26. ASSUME AudioWrite PROVE ContextLive'
    BY <1>2, <2>26, Types, Constants DEF ContextLive, AudioWrite, WriteIntoFile, FreeCtx
  <2>27. CASE UNCHANGED vars BY <2>27, <2>0 DEF vars, muxVars
  <2>28. CASE Next
    BY ONLY <2>28, NextCases, <2>1, <2>2, <2>3, <2>4, <2>5, <2>6, <2>7, <2>8, <2>9, <2>10, <2>11, <2>12, <2>13, <2>14, <2>15, <2>16, <2>17, <2>18, <2>19, <2>20, <2>21, <2>22, <2>23, <2>24, <2>25, <2>26
  <2>29. QED BY <1>2, <2>27, <2>28
<1>3. QED BY TypeCorrect, <1>1, <1>2, PTL DEF Spec
-----------------------------------------------------------------------------
(***************************************************************************)
(* The background recorder implements RecordingFiles.                       *)
(***************************************************************************)
openFiles == {c \in Ctxs : ctx[c].state = "open"}
firstPacket == IF fmtCtx = NoCtx THEN "none" ELSE ctx[fmtCtx].first

\* With one file at a time, the open files are the recorder's.
LEMMA OpenFiles ==
  ASSUME TypeOK, OneFile
  PROVE  /\ fmtCtx = NoCtx => openFiles = {}
         /\ fmtCtx # NoCtx => openFiles = {fmtCtx}
  BY Types, Constants DEF OneFile, NoFileLost, ContextLive, openFiles

LEMMA FilesStep == ASSUME AutoStart, BgInv, [Next]_vars PROVE [Files!Next]_(Files!vars)
<1> USE DEF Files!vars, openFiles, firstPacket
<1>a. BgInv' BY BgStep
<1>t. TypeOK /\ OneFile /\ Control BY DEF BgInv
<1>u. TypeOK' /\ OneFile' BY <1>a DEF BgInv
<1>o. /\ fmtCtx = NoCtx => openFiles = {}
      /\ fmtCtx # NoCtx => openFiles = {fmtCtx}
  BY <1>t, OpenFiles
<1>n. /\ fmtCtx' = NoCtx => openFiles' = {}
      /\ fmtCtx' # NoCtx => openFiles' = {fmtCtx'}
  BY <1>u, Constants DEF OneFile, NoFileLost, ContextLive, TypeOK, TypeMux
<1>k. \A c \in Ctxs : ctx'[c].first # "delta" BY <1>a DEF BgInv, KeyFirst
<1>s. UNCHANGED <<hasFirstKeyframe, fmtCtx, ctx>> => UNCHANGED Files!vars
  OBVIOUS
<1>1. ASSUME NEW key \in BOOLEAN, NEW dt \in 0..MaxTime, CapFrame(key, dt)
     PROVE  [Files!Next]_(Files!vars)
  BY <1>1, <1>s DEF CapFrame, flagVars, muxVars
<1>2. ASSUME CapGate
     PROVE  [Files!Next]_(Files!vars)
  BY <1>2, <1>s DEF CapGate, flagVars, muxVars
<1>3. ASSUME CapAnchor
     PROVE  [Files!Next]_(Files!vars)
  BY <1>3, <1>s DEF CapAnchor, flagVars, muxVars
<1>4. ASSUME CapSplit
     PROVE  [Files!Next]_(Files!vars)
  BY <1>4, <1>s DEF CapSplit, flagVars, muxVars
<1>5. ASSUME CapReopen
     PROVE  [Files!Next]_(Files!vars)
  BY <1>5, <1>s DEF CapReopen, flagVars, muxVars
<1>6. ASSUME CapRotated
     PROVE  [Files!Next]_(Files!vars)
  BY <1>6, <1>s DEF CapRotated, flagVars, muxVars
<1>7. ASSUME CapPush
     PROVE  [Files!Next]_(Files!vars)
  BY <1>7, <1>s DEF CapPush, flagVars, muxVars
<1>8. ASSUME CmdStart
     PROVE  [Files!Next]_(Files!vars)
  BY <1>8, <1>s DEF CmdStart, flagVars, muxVars
<1>9. ASSUME CmdStop
     PROVE  [Files!Next]_(Files!vars)
  BY <1>9, <1>s DEF CmdStop, flagVars, muxVars
<1>10. ASSUME CmdAnswer
     PROVE  [Files!Next]_(Files!vars)
  BY <1>10, <1>s DEF CmdAnswer, flagVars, muxVars
<1>11. ASSUME NEW t \in Threads, StartOpen(t)
     PROVE  [Files!Next]_(Files!vars)
  <2>1. ~hasFirstKeyframe /\ fmtCtx = NoCtx
    BY <1>11, <1>t, Types DEF StartOpen, Control, OneFile, Opened, cap, StartLabels, StopLabels, Threads
  <2>2. CASE fmtCtx' = NoCtx
    <3>1. UNCHANGED <<hasFirstKeyframe, openFiles, firstPacket>>
      BY <1>11, <2>1, <2>2, <1>o, <1>n DEF StartOpen, flagVars
    <3> QED BY <3>1
  <2>3. ASSUME NEW c \in Ctxs, ctx' = [ctx EXCEPT ![c] = NewCtx], fmtCtx' = c
        PROVE  Files!Open(c)
    BY <1>11, <2>1, <2>3, <1>o, <1>n, <1>t, Types, Constants DEF StartOpen, Files!Open, NewCtx, flagVars
  <2>4. QED BY <1>11, <2>2, <2>3 DEF StartOpen, Files!Next
<1>12. ASSUME NEW t \in Threads, StartReset(t)
     PROVE  [Files!Next]_(Files!vars)
  BY <1>12, <1>s DEF StartReset, flagVars, muxVars
<1>13. ASSUME NEW t \in Threads, StartSpawn(t)
     PROVE  [Files!Next]_(Files!vars)
  BY <1>13, <1>s DEF StartSpawn, flagVars, muxVars
<1>14. ASSUME NEW t \in Threads, StartRun(t)
     PROVE  [Files!Next]_(Files!vars)
  BY <1>14, <1>s DEF StartRun, flagVars, muxVars
<1>15. ASSUME NEW t \in Threads, StartPending(t)
     PROVE  [Files!Next]_(Files!vars)
  BY <1>15, <1>s DEF StartPending, flagVars, muxVars
<1>16. ASSUME NEW t \in Threads, StartDone(t)
     PROVE  [Files!Next]_(Files!vars)
  <2>1. ~hasFirstKeyframe /\ fmtCtx # NoCtx => Files!Record
    BY <1>16, <1>o DEF StartDone, muxVars, Files!Record
  <2>2. ~hasFirstKeyframe
    BY <1>16, <1>t DEF StartDone, Control, cap, StartLabels, Threads
  <2>3. fmtCtx # NoCtx BY <1>16, <1>t DEF StartDone, OneFile, Control, cap, StartLabels, Threads
  <2>4. QED BY <2>1, <2>2, <2>3 DEF Files!Next
<1>17. ASSUME NEW t \in Threads, StopFlag(t)
     PROVE  [Files!Next]_(Files!vars)
  <2>1. hasFirstKeyframe
    BY <1>17, <1>t DEF StopFlag, Control, cap, Threads
  <2>2. Files!Pause BY <1>17, <2>1 DEF StopFlag, muxVars, Files!Pause
  <2>3. QED BY <2>2 DEF Files!Next
<1>18. ASSUME NEW t \in Threads, StopReset(t)
     PROVE  [Files!Next]_(Files!vars)
  BY <1>18, <1>s DEF StopReset, flagVars, muxVars
<1>19. ASSUME NEW t \in Threads, StopJoin(t)
     PROVE  [Files!Next]_(Files!vars)
  BY <1>19, <1>s DEF StopJoin, flagVars, muxVars
<1>20. ASSUME NEW t \in Threads, StopClose(t)
     PROVE  [Files!Next]_(Files!vars)
  <2>1. ~hasFirstKeyframe
    BY <1>20, <1>t DEF StopClose, Control, cap, StopLabels, Threads
  <2>2. CASE fmtCtx = NoCtx
    <3>1. ctx' = ctx BY <1>20, <2>2, <1>t, Types, Constants DEF StopClose
    <3>2. QED BY <1>20, <3>1, <2>2, <1>s DEF StopClose, flagVars
  <2>3. CASE fmtCtx # NoCtx
    <3>1. Files!Close BY <1>20, <2>1, <2>3, <1>o, <1>n DEF StopClose, flagVars, Files!Close
    <3>2. QED BY <3>1 DEF Files!Next
  <2>4. QED BY <2>2, <2>3
<1>21. ASSUME NEW w \in Workers, EncLoop(w)
     PROVE  [Files!Next]_(Files!vars)
  BY <1>21, <1>s DEF EncLoop, flagVars, muxVars
<1>22. ASSUME NEW w \in Workers, EncPop(w)
     PROVE  [Files!Next]_(Files!vars)
  BY <1>22, <1>s DEF EncPop, flagVars, muxVars
<1>23. ASSUME NEW w \in Workers, EncEncode(w)
     PROVE  [Files!Next]_(Files!vars)
  BY <1>23, <1>s DEF EncEncode, flagVars, muxVars
<1>24. ASSUME NEW w \in Workers, EncWrite(w)
     PROVE  [Files!Next]_(Files!vars)
  <2>1. WriteIntoFile(encKey[w], TRUE) /\ UNCHANGED hasFirstKeyframe BY <1>24 DEF EncWrite, flagVars
  <2>2. CASE UNCHANGED <<fmtCtx, ctx>> BY <2>1, <2>2, <1>s
  <2>3. CASE Accepts(encKey[w]) /\ fmtCtx' = NoCtx
    <3>1. Files!Fail BY <2>1, <2>3, <1>o, <1>n DEF Accepts, Files!Fail
    <3>2. QED BY <3>1 DEF Files!Next
  <2>4. ASSUME Accepts(encKey[w]), UNCHANGED fmtCtx, ctx[fmtCtx].first = "none",
               ctx' = [ctx EXCEPT ![fmtCtx].first = FirstOf(encKey[w])]
        PROVE  [Files!Next]_(Files!vars)
    <3>1. ctx'[fmtCtx].first = FirstOf(encKey[w]) /\ fmtCtx \in Ctxs
      BY <2>4, <1>t, Types DEF Accepts
    <3>2. FirstOf(encKey[w]) = "key" BY <3>1, <2>4, <1>k DEF FirstOf
    <3>3. Files!KeyPacket BY <2>1, <2>4, <3>1, <3>2, <1>o, <1>n DEF Accepts, Files!KeyPacket
    <3>4. QED BY <3>3 DEF Files!Next
  <2>5. QED BY <2>1, <2>2, <2>3, <2>4 DEF WriteIntoFile
<1>25. ASSUME AudioCaptured
     PROVE  [Files!Next]_(Files!vars)
  BY <1>25, <1>s DEF AudioCaptured, flagVars, muxVars
<1>26. ASSUME AudioWrite
     PROVE  [Files!Next]_(Files!vars)
  <2>1. WriteIntoFile(TRUE, FALSE) /\ UNCHANGED hasFirstKeyframe BY <1>26 DEF AudioWrite, flagVars
  <2>2. CASE UNCHANGED <<fmtCtx, ctx>> BY <2>1, <2>2, <1>s
  <2>3. CASE Accepts(TRUE) /\ fmtCtx' = NoCtx
    <3>1. Files!Fail BY <2>1, <2>3, <1>o, <1>n DEF Accepts, Files!Fail
    <3>2. QED BY <3>1 DEF Files!Next
  <2>5. QED BY <2>1, <2>2, <2>3 DEF WriteIntoFile
<1>27. CASE UNCHANGED vars BY <1>27, <1>s DEF vars, flagVars, muxVars
<1>28. CASE Next
  BY ONLY <1>28, NextCases, <1>1, <1>2, <1>3, <1>4, <1>5, <1>6, <1>7, <1>8, <1>9, <1>10, <1>11, <1>12, <1>13, <1>14, <1>15, <1>16, <1>17, <1>18, <1>19, <1>20, <1>21, <1>22, <1>23, <1>24, <1>25, <1>26
<1>29. QED BY <1>27, <1>28

\* In background mode the recorder implements RecordingFiles: files one at a
\* time, none closed while it is recorded into, each starting on a keyframe.
THEOREM BackgroundRefinesFiles == ASSUME AutoStart PROVE Spec => RefinesFiles
<1>1. Init => Files!Init BY DEF Init, Files!Init, FreeCtx
<1>2. BgInv /\ [Next]_vars => BgInv' BY BgStep
<1>3. BgInv /\ [Next]_vars => [Files!Next]_(Files!vars) BY FilesStep
<1>4. QED BY BgInit, <1>1, <1>2, <1>3, PTL DEF Spec, RefinesFiles, Files!Spec
-----------------------------------------------------------------------------
(***************************************************************************)
(* The length of the files.                                                 *)
(***************************************************************************)
LEMMA SplitTimeNext ==
  /\ SplitTime(0) = 0 /\ SplitTime(1) = Duration
  /\ \A i \in Nat : SplitTime(i + 1) = SplitTime(i) + Duration
  BY Constants DEF SplitTime

\* The clock, the split times and the last keyframe are numbers.
LEMMA Times ==
  ASSUME TypeOK
  PROVE  /\ now \in Nat /\ sinceKey \in Nat /\ fileStart \in Nat /\ baseStartTime \in Nat
         /\ nextGenerateTime \in Nat /\ fileIndex \in Nat /\ frameKey \in BOOLEAN
         /\ KeyInterval \in Nat /\ Duration \in Nat /\ Duration > 0 /\ MaxStall \in Nat
  BY RecorderAssumption, Constants DEF TypeOK, TypeCam, TypeSplit, TypeHist

\* The pace of a recording that has not begun.
LEMMA PaceInit == Init => Clock /\ Paced
<1> SUFFICES ASSUME Init PROVE Clock /\ Paced OBVIOUS
<1>1. ~Rotating /\ cap = "idle" BY DEF Init, Rotating, cap, Threads, StartLabels, StopLabels
<1>2. 0 <= KeyInterval BY RecorderAssumption
<1>3. Clock BY <1>1, <1>2, SplitTimeNext DEF Init, Clock
<1> QED BY <1>1, <1>3 DEF Init, Paced

\* A frame that comes within the keyframe interval.
LEMMA FrameKeepsPace ==
  ASSUME TypeOK, Clock, Paced, MaxStall = 0, Control,
         NEW key \in BOOLEAN, NEW dt \in 0..MaxTime, CapFrame(key, dt)
  PROVE  Clock' /\ Paced'
<1>1. /\ dt \in Nat /\ cap = "idle" /\ ~Rotating
      /\ now' = now + dt /\ frameKey' = key
      /\ sinceKey' = IF key THEN 0 ELSE sinceKey + dt
      /\ UNCHANGED <<hasFirstKeyframe, timeResetPending, fileStart, splitVars>>
  BY Constants DEF CapFrame, flagVars, cap, Rotating, StartLabels, StopLabels
<1>2. sinceKey + dt <= KeyInterval
  BY <1>1, Times DEF CapFrame, Clock
<1>3. /\ cap' \in {"startOpen", "gate"} /\ (cap' = "startOpen" => ~hasFirstKeyframe)
      /\ ~Rotating'
  BY Types DEF CapFrame, AutoStarts, Call, Goto, cap, Rotating, StartLabels, StopLabels
<1>4. Clock'
  BY <1>1, <1>2, <1>3, Times DEF Clock, splitVars, SplitTime
<1>5. Paced'
  BY <1>1, <1>2, <1>3, Times DEF Paced, Clock, splitVars
<1> QED
  BY <1>4, <1>5

\* A step that leaves the clock and the timer alone.
LEMMA KeepsPace ==
  ASSUME TypeOK, Clock, Paced, UNCHANGED <<splitVars, camVars, fileStart>>,
         Rotating' => Rotating \/ (cap' = "stopFlag" /\ hasFirstKeyframe /\ ~timeResetPending),
         hasFirstKeyframe' /\ ~timeResetPending' =>
           Rotating \/ (hasFirstKeyframe /\ ~timeResetPending),
         cap' = "stopFlag" => SplitDue, cap' = "startDone" => timeResetPending',
         cap' \in {"idle", "push"} => \/ cap \in {"idle", "push"} \/ ~(hasFirstKeyframe' /\ ~timeResetPending')
                                      \/ cap = "split" /\ ~SplitDue
  PROVE  Clock' /\ Paced'
<1>1. /\ now' = now /\ sinceKey' = sinceKey /\ frameKey' = frameKey /\ fileStart' = fileStart
      /\ baseStartTime' = baseStartTime /\ nextGenerateTime' = nextGenerateTime
      /\ fileIndex' = fileIndex
  BY DEF splitVars, camVars
<1>2. SplitDue' = SplitDue
  BY <1>1 DEF SplitDue, Elapsed
<1>3. Clock'
  BY <1>1, <1>2 DEF Clock, SplitDue, SplitTime
<1>4. Paced'
  <2> SUFFICES ASSUME KeyInterval < Duration,
                      Rotating' \/ (hasFirstKeyframe' /\ ~timeResetPending')
               PROVE  /\ fileStart + Duration <= baseStartTime + nextGenerateTime + KeyInterval
                      /\ now < baseStartTime + nextGenerateTime + KeyInterval + sinceKey
                      /\ ~frameKey \/ cap' \in {"idle", "push"}
                         => now < baseStartTime + nextGenerateTime + sinceKey
    BY <1>1 DEF Paced
  <2>1. Rotating \/ (hasFirstKeyframe /\ ~timeResetPending)
    OBVIOUS
  <2>2. CASE cap' \in {"idle", "push"} /\ cap \notin {"idle", "push"} /\ frameKey
    <3>1. ~Rotating'
      BY <2>2 DEF Rotating, cap, StartLabels, StopLabels
    <3>2. ~SplitDue
      BY <2>2, <3>1
    <3> QED
      BY <2>1, <2>2, <3>2, Times DEF Paced, SplitDue, Elapsed
  <2> QED
    BY <2>1, <2>2, Times DEF Paced
<1> QED
  BY <1>3, <1>4
LEMMA PaceStep ==
  ASSUME AutoStart, MaxStall = 0, BgInv, Clock, Paced, [Next]_vars
  PROVE  Clock' /\ Paced'
<1> USE DEF flagVars, muxVars, encVars, audioVars, callVars, histVars
<1>0. TypeOK /\ Control BY DEF BgInv
<1>c. pc["cmd"] = "idle" /\ \A t \in Threads : t = "cap" \/ t = "cmd"
  BY <1>0 DEF Control, Threads
<1>1. ASSUME NEW key \in BOOLEAN, NEW dt \in 0..MaxTime, CapFrame(key, dt) PROVE Clock' /\ Paced'
  BY <1>0, <1>1, FrameKeepsPace
<1>k. ASSUME UNCHANGED <<callVars, hasFirstKeyframe, timeResetPending, splitVars, camVars, fileStart>>
      PROVE  Clock' /\ Paced'
  <2>1. cap' = cap /\ Rotating' = Rotating
    BY <1>k DEF cap, Rotating
  <2>2. cap = "stopFlag" => SplitDue
    BY DEF Clock
  <2>3. cap = "startDone" => timeResetPending
    BY DEF Clock
  <2> QED
    BY <1>0, <1>k, <2>1, <2>2, <2>3, KeepsPace
<1>2. ASSUME CapGate PROVE Clock' /\ Paced'
  <2>1. /\ cap = "gate" /\ cap' = IF hasFirstKeyframe THEN "anchor" ELSE "idle"
        /\ UNCHANGED <<hasFirstKeyframe, timeResetPending, splitVars, camVars, fileStart>>
    BY <1>0, <1>2, Types DEF CapGate, Goto, cap
  <2>2. ~Rotating'
    BY <2>1 DEF Rotating, StartLabels, StopLabels
  <2> QED
    BY <1>0, <2>1, <2>2, KeepsPace
<1>3. ASSUME CapAnchor PROVE Clock' /\ Paced'
  <2>1. cap = "anchor" /\ cap' = "split" /\ hasFirstKeyframe' = hasFirstKeyframe /\ UNCHANGED camVars
    BY <1>0, <1>3, Types DEF CapAnchor, Goto, cap
  <2>2. ~Rotating /\ ~Rotating'
    BY <2>1 DEF Rotating, StartLabels, StopLabels
  <2>3. CASE timeResetPending /\ frameKey
    <3>1. /\ baseStartTime' = now /\ fileIndex' = 1 /\ nextGenerateTime' = SplitTime(1)
          /\ fileStart' = now /\ now' = now /\ sinceKey' = sinceKey /\ frameKey' = frameKey
      BY <1>3, <2>1, <2>3 DEF CapAnchor, camVars
    <3>2. SplitTime(1)' = Duration /\ nextGenerateTime' = SplitTime(1)'
      BY <3>1, SplitTimeNext DEF SplitTime
    <3>3. Clock'
      BY <1>0, <2>1, <2>2, <3>1, <3>2, Times DEF Clock, SplitTime
    <3>4. Paced'
      BY <1>0, <2>1, <2>2, <3>1, SplitTimeNext, Times DEF Paced
    <3> QED
      BY <3>3, <3>4
  <2>4. CASE ~(timeResetPending /\ frameKey)
    <3>1. UNCHANGED <<timeResetPending, splitVars, fileStart>>
      BY <1>3, <2>4 DEF CapAnchor, splitVars
    <3> QED
      BY <1>0, <2>1, <2>2, <3>1, KeepsPace
  <2> QED
    BY <2>3, <2>4
<1>4. ASSUME CapSplit PROVE Clock' /\ Paced'
  <2>1. /\ cap = "split"
        /\ cap' = IF timeResetPending THEN "idle" ELSE IF SplitDue THEN "stopFlag" ELSE "push"
        /\ UNCHANGED <<hasFirstKeyframe, timeResetPending, splitVars, camVars, fileStart>>
    BY <1>0, <1>4, Types DEF CapSplit, Goto, Call, cap
  <2>2. hasFirstKeyframe
    BY <1>0, <2>1 DEF Control
  <2>3. Rotating' => cap' = "stopFlag"
    BY <2>1 DEF Rotating, StartLabels, StopLabels
  <2> QED
    BY <1>0, <2>1, <2>2, <2>3, KeepsPace
<1>6. ASSUME CapRotated PROVE Clock' /\ Paced'
  <2>1. /\ cap = "rotated" /\ cap' = "push" /\ UNCHANGED camVars /\ baseStartTime' = baseStartTime
        /\ fileIndex' = fileIndex + 1 /\ fileStart' = now
        /\ nextGenerateTime' = SplitTime(fileIndex + 1)
        /\ now' = now /\ sinceKey' = sinceKey /\ frameKey' = frameKey
    BY <1>0, <1>6, Types DEF CapRotated, Goto, cap, SplitTime, camVars
  <2>2. Rotating /\ ~Rotating'
    BY <2>1 DEF Rotating, StartLabels, StopLabels
  <2>3. nextGenerateTime' = nextGenerateTime + Duration
    BY <1>0, <2>1, SplitTimeNext, Times DEF Clock
  <2>4. nextGenerateTime' = SplitTime(fileIndex)'
    BY <2>1 DEF SplitTime
  <2>5. Clock'
    BY <1>0, <2>1, <2>2, <2>4, Times DEF Clock
  <2>6. sinceKey = 0
    BY <2>2 DEF Clock
  <2>7. Paced'
    BY <1>0, <2>1, <2>2, <2>3, <2>6, Times DEF Paced
  <2> QED
    BY <2>5, <2>7
<1>7. ASSUME CapPush PROVE Clock' /\ Paced'
  <2>1. /\ cap = "push" /\ cap' = "idle" /\ ~Rotating'
        /\ UNCHANGED <<hasFirstKeyframe, timeResetPending, splitVars, camVars, fileStart>>
    BY <1>0, <1>7, Types DEF CapPush, Goto, cap, Rotating, StartLabels, StopLabels
  <2> QED
    BY <1>0, <2>1, KeepsPace
\* Within Start and Stop only the label and the two flags change.
<1>r. ASSUME UNCHANGED <<splitVars, camVars, fileStart>>,
             cap \in StartLabels \cup StopLabels \cup {"startOpen", "stopFlag", "reopen"},
             Rotating' => Rotating, cap' \notin {"idle", "push", "stopFlag"},
             cap' = "startDone" => timeResetPending',
             hasFirstKeyframe' /\ ~timeResetPending' => Rotating
      PROVE  Clock' /\ Paced'
  BY <1>0, <1>r, KeepsPace
<1>5. ASSUME CapReopen PROVE Clock' /\ Paced'
  <2>1. /\ cap = "reopen" /\ cap' = "startOpen" /\ Rotating
        /\ UNCHANGED <<splitVars, camVars, fileStart>>
    BY <1>0, <1>5, Types DEF CapReopen, Call, cap, Rotating
  <2> QED
    BY <1>r, <2>1
<1>8. ASSUME NEW t \in Threads, Start(t) \/ Stop(t)
      PROVE  Clock' /\ Paced'
  <2>1. t = "cap"
    BY <1>8, <1>c DEF Start, Stop, StartOpen, StartReset, StartSpawn, StartRun, StartPending, StartDone,
       StopFlag, StopReset, StopJoin, StopClose
  <2>2. /\ cap \in StartLabels \cup StopLabels \cup {"startOpen", "stopFlag"}
        /\ UNCHANGED <<splitVars, camVars, fileStart, ret>>
        /\ cap' \in StartLabels \cup StopLabels \cup {ret["cap"]}
    BY <1>0, <1>8, <2>1, Types DEF Start, Stop, StartOpen, StartReset, StartSpawn, StartRun,
       StartPending, StartDone, StopFlag, StopReset, StopJoin, StopClose, Goto, Return, cap,
       StartLabels, StopLabels
  <2>3. /\ cap \in StartLabels \cup {"startOpen"} => cap' \in StartLabels \cup {ret["cap"]}
        /\ cap \in StopLabels \cup {"stopFlag"} => cap' \in StopLabels \cup {ret["cap"]}
    BY <1>0, <1>8, <2>1, Types DEF Start, Stop, StartOpen, StartReset, StartSpawn, StartRun,
       StartPending, StartDone, StopFlag, StopReset, StopJoin, StopClose, Goto, Return, cap,
       StartLabels, StopLabels
  <2>4. cap' = "startDone" => timeResetPending'
    BY <1>0, <1>8, <2>1, Types DEF Start, Stop, StartOpen, StartReset, StartSpawn, StartRun,
       StartPending, StartDone, StopFlag, StopReset, StopJoin, StopClose, Goto, Return, cap, Control,
       StartLabels, StopLabels
  <2>5. hasFirstKeyframe' => cap = "startDone" /\ timeResetPending' = timeResetPending
    BY <1>0, <1>8, <2>1 DEF Start, Stop, StartOpen, StartReset, StartSpawn, StartRun,
       StartPending, StartDone, StopFlag, StopReset, StopJoin, StopClose, cap, Control,
       StartLabels, StopLabels
  <2>6. ~(hasFirstKeyframe' /\ ~timeResetPending')
    BY <2>5 DEF Clock
  <2>7. /\ cap \in StartLabels \cup {"startOpen"} => ret["cap"] \in {"gate", "rotated"}
        /\ cap \in StopLabels \cup {"stopFlag"} => ret["cap"] = "reopen"
    BY <1>0 DEF Control
  <2>8. cap' \notin {"idle", "push", "stopFlag"} /\ (Rotating' => Rotating)
    BY <2>2, <2>3, <2>7 DEF Rotating, StartLabels, StopLabels
  <2> QED
    BY <1>r, <2>2, <2>4, <2>6, <2>8
<1>9. ASSUME CmdStart \/ CmdStop \/ CmdAnswer PROVE FALSE
  BY <1>9, <1>c DEF CmdStart, CmdStop, CmdAnswer
<1>10. ASSUME NEW w \in Workers, Encoder(w)
       PROVE  Clock' /\ Paced'
  BY <1>10, <1>k DEF Encoder, EncLoop, EncPop, EncEncode, EncWrite
<1>11. ASSUME AudioCaptured \/ AudioWrite
       PROVE  Clock' /\ Paced'
  BY <1>11, <1>k DEF AudioCaptured, AudioWrite
<1>12. CASE UNCHANGED vars
  BY <1>12, <1>k DEF vars
<1> QED
  BY <1>1, <1>2, <1>3, <1>4, <1>5, <1>6, <1>7, <1>8, <1>9, <1>10, <1>11, <1>12
     DEF Next, Capture, Commands

\* In background mode, with a camera that keeps its keyframe interval, files are
\* split by the session's clock, and none is closed by the timer more than one
\* keyframe interval too early (SplitTimes).
THEOREM BackgroundSplitTimes == ASSUME AutoStart, MaxStall = 0 PROVE Spec => []SplitTimes
<1>1. Init => BgInv /\ Clock /\ Paced BY BgInit, PaceInit
<1>2. BgInv /\ Clock /\ Paced /\ [Next]_vars => (BgInv /\ Clock /\ Paced)'
  BY BgStep, PaceStep
<1>3. BgInv /\ Clock /\ Paced => SplitTimes
  <2> SUFFICES ASSUME BgInv, Clock, Paced PROVE AntiDrift /\ SegmentLength
    BY DEF SplitTimes
  <2>1. AntiDrift BY DEF BgInv, Anchored, AntiDrift
  <2>2. SegmentLength
    <3> SUFFICES ASSUME cap = "stopFlag" PROVE now - fileStart + KeyInterval >= Duration
      BY DEF SegmentLength, cap
    <3>1. TypeOK /\ Rotating /\ SplitDue /\ fileStart <= now
      BY DEF BgInv, Clock, Rotating
    <3> QED
      BY <3>1, Times DEF Paced, SplitDue, Elapsed
  <2> QED BY <2>1, <2>2
<1> QED BY <1>1, <1>2, <1>3, PTL DEF Spec
-----------------------------------------------------------------------------
(***************************************************************************)
(* On-demand mode, as long as no file is split.                             *)
(***************************************************************************)
LEMMA CommandedInit == Init => Commanded
  BY DEF Init, Commanded, NoFileLost, ContextLive, FreeCtx, cap, StartLabels, StopLabels, Threads

\* A write keeps the one container, or drops it when the header fails, and leaves
\* the commands alone.
LEMMA WriteCommanded ==
  ASSUME TypeOK, Commanded, NEW key, NEW video, WriteIntoFile(key, video),
         UNCHANGED <<callVars, hasFirstKeyframe, answered>>
  PROVE  Commanded'
<1>0. fmtCtx \in Ctxs \cup {NoCtx} /\ \A c \in Ctxs : c # NoCtx
  BY Types, Constants
<1>1. Accepts(key) => hasFirstKeyframe /\ fmtCtx # NoCtx
  BY DEF Accepts
<1>2. CASE UNCHANGED fmtCtx /\ \A c \in Ctxs : ctx'[c].state = ctx[c].state
  BY <1>0, <1>2 DEF Commanded, NoFileLost, ContextLive, callVars, cap
<1>3. CASE Accepts(key) /\ fmtCtx' = NoCtx /\ ctx' = [ctx EXCEPT ![fmtCtx] = FreeCtx]
  <2>1. NoFileLost' /\ ContextLive'
    BY <1>0, <1>1, <1>3, Types DEF Commanded, NoFileLost, ContextLive, FreeCtx
  <2> QED
    BY <1>1, <1>3, <2>1 DEF Commanded, callVars, cap
<1> QED
  BY <1>0, <1>2, <1>3, Types DEF WriteIntoFile

\* Without a split, the commands alone open and close the file.
LEMMA CommandedStep ==
  ASSUME ~AutoStart, TypeOK, Commanded, NoSplit', [Next]_vars
  PROVE  Commanded'
<1> USE Constants, Types DEF flagVars, muxVars, encVars, audioVars, callVars, splitVars, camVars,
        histVars, Goto, Call, Return
<1>k. ASSUME UNCHANGED <<callVars, hasFirstKeyframe, answered, fmtCtx, ctx>>
      PROVE  Commanded'
  BY <1>k DEF Commanded, NoFileLost, ContextLive, cap
<1>c. Capture => UNCHANGED <<hasFirstKeyframe, answered, fmtCtx, ctx, ret>> /\ pc'["cmd"] = pc["cmd"]
  BY DEF Capture, CapFrame, CapGate, CapAnchor, CapSplit, CapReopen, CapRotated, CapPush, Commanded,
     AutoStarts, cap, NoSplit
<1>1. CASE Capture
  <2>1. cap' \in {"idle", "gate", "anchor", "split", "push"}
    BY <1>1 DEF Capture, CapFrame, CapGate, CapAnchor, CapSplit, CapReopen, CapRotated, CapPush,
       Commanded, AutoStarts, cap, NoSplit
  <2> QED
    BY <1>c, <1>1, <2>1 DEF Commanded, NoFileLost, ContextLive, cap
<1>2. CASE CmdStart
  BY <1>2 DEF CmdStart, Commanded, NoFileLost, ContextLive, cap, StartLabels, StopLabels
<1>3. CASE CmdStop
  BY <1>3 DEF CmdStop, Commanded, NoFileLost, ContextLive, cap, StartLabels, StopLabels
<1>4. CASE CmdAnswer
  BY <1>4 DEF CmdAnswer, Commanded, NoFileLost, ContextLive, cap, StartLabels, StopLabels
<1>5. ASSUME NEW t \in Threads, Start(t) \/ Stop(t)
      PROVE  Commanded'
  <2>1. t = "cmd"
    BY <1>5 DEF Start, Stop, StartOpen, StartReset, StartSpawn, StartRun, StartPending, StartDone,
       StopFlag, StopReset, StopJoin, StopClose, Commanded, Threads, cap
  <2>2. cap' = cap /\ answered' = answered /\ ret' = ret
    BY <1>5, <2>1 DEF Start, Stop, StartOpen, StartReset, StartSpawn, StartRun, StartPending,
       StartDone, StopFlag, StopReset, StopJoin, StopClose, cap
  <2>3. CASE StartOpen(t)
    <3>0. fmtCtx = NoCtx /\ ret["cmd"] = "started" /\ ~hasFirstKeyframe /\ hasFirstKeyframe' = FALSE
      BY <2>1, <2>3 DEF StartOpen, Commanded, StartLabels, StopLabels
    <3>1. NoFileLost' /\ ContextLive'
      BY <2>3, <3>0, CreateKeeps DEF TypeOK, StartOpen, Commanded, NoFileLost, ContextLive, NewCtx
    <3>2. \/ pc'["cmd"] = "startReset"
          \/ pc'["cmd"] = "started" /\ fmtCtx' = NoCtx
      BY <2>1, <2>3, <3>0 DEF StartOpen
    <3> QED
      BY <2>2, <3>0, <3>1, <3>2 DEF Commanded, StartLabels, StopLabels
  <2>4. CASE StopClose(t)
    <3>0. ret["cmd"] = "stopped" /\ ~hasFirstKeyframe /\ hasFirstKeyframe' = FALSE
          /\ pc'["cmd"] = "stopped" /\ fmtCtx' = NoCtx
      BY <2>1, <2>4 DEF StopClose, Commanded, StartLabels, StopLabels
    <3>1. NoFileLost' /\ ContextLive'
      BY <2>4 DEF StopClose, Commanded, NoFileLost, ContextLive, FreeCtx
    <3> QED
      BY <2>2, <3>0, <3>1 DEF Commanded, StartLabels, StopLabels
  <2>5. CASE ~StartOpen(t) /\ ~StopClose(t)
    <3>1. UNCHANGED <<fmtCtx, ctx>>
      BY <1>5, <2>5 DEF Start, Stop, StartReset, StartSpawn, StartRun, StartPending, StartDone,
         StopFlag, StopReset, StopJoin
    <3>2. \/ /\ pc["cmd"] \in {"startReset", "startSpawn", "startRun", "startPending"}
             /\ pc'["cmd"] \in StartLabels /\ hasFirstKeyframe' = hasFirstKeyframe
          \/ pc["cmd"] = "startDone" /\ pc'["cmd"] = ret["cmd"] /\ hasFirstKeyframe' = TRUE
          \/ pc["cmd"] = "stopFlag" /\ pc'["cmd"] \in StopLabels /\ hasFirstKeyframe' = FALSE
          \/ /\ pc["cmd"] \in {"stopReset", "stopJoin"}
             /\ pc'["cmd"] \in StopLabels /\ hasFirstKeyframe' = hasFirstKeyframe
      BY <1>5, <2>1, <2>5 DEF Start, Stop, StartReset, StartSpawn, StartRun, StartPending, StartDone,
         StopFlag, StopReset, StopJoin, StartLabels, StopLabels
    <3>3. NoFileLost' /\ ContextLive'
      BY <3>1 DEF Commanded, NoFileLost, ContextLive
    <3> QED
      BY <2>2, <3>1, <3>2, <3>3 DEF Commanded, StartLabels, StopLabels
  <2> QED
    BY <2>3, <2>4, <2>5
<1>6. ASSUME NEW w \in Workers, Encoder(w)
      PROVE  Commanded'
  <2>1. CASE EncWrite(w)
    BY <2>1, WriteCommanded DEF EncWrite
  <2>2. CASE EncLoop(w) \/ EncPop(w) \/ EncEncode(w)
    BY <2>2, <1>k DEF EncLoop, EncPop, EncEncode
  <2> QED
    BY <1>6, <2>1, <2>2 DEF Encoder
<1>7. CASE AudioCaptured
  BY <1>7, <1>k DEF AudioCaptured
<1>8. CASE AudioWrite
  BY <1>8, WriteCommanded DEF AudioWrite
<1>9. CASE UNCHANGED vars
  BY <1>9, <1>k DEF vars
<1> QED
  BY <1>1, <1>2, <1>3, <1>4, <1>5, <1>6, <1>7, <1>8, <1>9 DEF Next, Commands

\* Until the timer has split a file, a recording that answered STOP_RECORDING stays
\* stopped (StopIsFinal), and however commands and encoder threads interleave no
\* open file is lost (NoFileLost).
THEOREM OnDemandUntilSplit ==
  ASSUME ~AutoStart PROVE Spec /\ []NoSplit => [](StopIsFinal /\ NoFileLost)
<1>1. Init => TypeOK /\ Commanded BY TypeInit, CommandedInit
<1>2. TypeOK /\ Commanded /\ NoSplit' /\ [Next]_vars => (TypeOK /\ Commanded)'
  BY TypeStep, CommandedStep
<1>3. Commanded => StopIsFinal /\ NoFileLost
  BY DEF Commanded, StopIsFinal
<1> QED BY <1>1, <1>2, <1>3, PTL DEF Spec
-----------------------------------------------------------------------------
(***************************************************************************)
(* RecordStore.                                                             *)
(***************************************************************************)
\* A set of numbers has a least one.
LEMMA HasLeast ==
  ASSUME NEW S \in SUBSET Nat, S # {}
  PROVE  Least(S) \in S /\ \A y \in S : Least(S) <= y
<1> DEFINE R == OpToRel(<, Nat)
<1>1. \A x, y \in Nat : <<y, x>> \in R <=> y < x
  BY DEF OpToRel
<1>2. IsWellFoundedOn(R, Nat)
  BY NatLessThanWellFounded
<1> HIDE DEF R
<1>3. PICK x \in S : \A y \in S : ~ (<<y, x>> \in R)
  BY <1>2, WFMin, Zenon
<1>4. \A y \in S : x <= y
  <2> SUFFICES ASSUME NEW y \in S PROVE x <= y
    OBVIOUS
  <2>1. x \in Nat /\ y \in Nat /\ ~ (<<y, x>> \in R)
    BY <1>3
  <2>2. ~ (y < x)
    BY <1>1, <2>1
  <2> QED
    BY <2>1, <2>2
<1> QED
  BY <1>4 DEF Least

\* Division by a number that is not zero is monotonic.
LEMMA DivMono ==
  ASSUME NEW m \in Nat, NEW n \in Nat, m <= n, NEW d \in Nat \ {0}
  PROVE  (m \div d) <= (n \div d) /\ (m \div d) \in Nat
  OBVIOUS

\* It undoes multiplication.
LEMMA DivOfMultiple ==
  ASSUME NEW k \in Nat, NEW d \in Nat \ {0}
  PROVE  (d * k) \div d = k
  OBVIOUS

\* The calendar: later times are in no earlier hour and day, and the folder that is no
\* day comes after them all.
LEMMA Calendar ==
  /\ LastTick \in Nat /\ Horizon \in Nat /\ LastTick <= Horizon /\ None \notin Nat
  /\ \A t \in Nat : Hour(t) \in Nat /\ Day(t) \in Nat
  /\ \A s, t \in Nat : s <= t => Hour(s) <= Hour(t) /\ Day(s) <= Day(t)
  /\ ForeignHour \in Nat
  /\ Day(ForeignHour) = Day(Hour(Horizon)) + 1
<1>1. /\ HourTicks \in Nat \ {0} /\ DayHours \in Nat \ {0} /\ LastTick \in Nat
      /\ Horizon \in Nat /\ LastTick <= Horizon /\ None \notin Nat
  BY StoreAssumption DEF StoreAssumption
<1>2. \A t \in Nat : Hour(t) \in Nat /\ Day(t) \in Nat
  BY <1>1, DivMono DEF Hour, Day
<1>3. \A s, t \in Nat : s <= t => Hour(s) <= Hour(t) /\ Day(s) <= Day(t)
  BY <1>1, DivMono DEF Hour, Day
<1>4. Day(Hour(Horizon)) + 1 \in Nat
  BY <1>1, <1>2
<1>5. ForeignHour \in Nat
  BY <1>1, <1>4 DEF ForeignHour
<1>6. Day(ForeignHour) = Day(Hour(Horizon)) + 1
  BY <1>1, <1>4, DivOfMultiple DEF ForeignHour, Day
<1> QED
  BY <1>1, <1>2, <1>3, <1>5, <1>6

\* No time that is recorded or asked about is in the folder that is no day.
LEMMA BeforeForeign ==
  ASSUME NEW t \in Nat, t <= Horizon
  PROVE  Day(Hour(t)) < Day(ForeignHour) /\ Hour(t) < ForeignHour
<1>1. Hour(t) \in Nat /\ Hour(Horizon) \in Nat /\ Hour(t) <= Hour(Horizon)
  BY Calendar
<1>2. /\ Day(Hour(t)) \in Nat /\ Day(Hour(Horizon)) \in Nat
      /\ Day(Hour(t)) <= Day(Hour(Horizon))
  BY <1>1, Calendar
<1>3. Day(Hour(t)) < Day(ForeignHour) /\ ForeignHour \in Nat
  BY <1>2, Calendar
<1>4. ForeignHour <= Hour(t) => Day(ForeignHour) <= Day(Hour(t)) /\ Day(ForeignHour) \in Nat
  BY <1>1, <1>3, Calendar
<1> QED
  BY <1>1, <1>2, <1>3, <1>4

LEMMA NotForeign ==
  ASSUME NEW t \in Time
  PROVE  t \in Nat /\ Hour(t) # ForeignHour /\ Day(Hour(t)) # Day(ForeignHour)
<1>1. t \in Nat /\ t <= Horizon
  BY Calendar DEF Time
<1>2. /\ Hour(t) \in Nat /\ Day(Hour(t)) \in Nat /\ Day(Hour(t)) < Day(ForeignHour)
      /\ Hour(t) < ForeignHour
  BY <1>1, BeforeForeign, Calendar
<1> QED
  BY <1>1, <1>2

\* What the steps of the recorder and of rotation hold.
Held ==
  /\ rec \in [step : {"idle", "hour", "open", "recording"}, name : 0 .. tick \cup {None}]
  /\ rec.step # "idle" => rec.name # None
  /\ rot \in [step : {"wait", "space", "pick", "dropDay", "dropHour", "remove", "emptyHour",
                       "emptyDay", "ended"},
              hour : Nat \cup {None}, file : 0 .. tick \cup {None}]
  /\ rot.step \in {"dropDay", "dropHour"} => rot.hour # None
  /\ hours \subseteq Nat /\ days \subseteq Nat

\* The times at which recordings still to come will be named.
Coming == {tick} \cup ({rec.name} \ {None})

\* Nothing on the drive is later than a recording still to come.
UpTo(t) ==
  /\ \A f \in mp4 \cup jpg : f <= t
  /\ preview # None => preview <= t
  /\ \A h \in hours : h = ForeignHour \/ h <= Hour(t)
  /\ \A d \in days : d = Day(ForeignHour) \/ d <= Day(Hour(t))

Newest == \A t \in Coming : UpTo(t)

\* No recording, there or still to come, is older than what rotation has picked.
Oldest ==
  /\ rot.step = "remove" =>
       rot.file # None /\ \A t \in mp4 \cup Coming : rot.file <= t
  /\ rot.step = "dropHour" =>
       rot.hour = ForeignHour \/ \A t \in mp4 \cup Coming : rot.hour <= Hour(t)
  /\ rot.step = "dropDay" =>
       rot.hour = Day(ForeignHour) \/ \A t \in mp4 \cup Coming : rot.hour <= Day(Hour(t))

StoreInv == StoreTypeOK /\ Held /\ Newest /\ Oldest

\* The numbers in the state are numbers, and no time is later than the clock.
LEMMA StoreTypes ==
  ASSUME StoreTypeOK, Held
  PROVE  /\ tick \in Time /\ tick \in Nat
         /\ \A f \in mp4 \cup jpg : f \in Nat /\ f \in Time /\ f <= tick /\ Hour(f) \in Nat
         /\ \A t \in Coming : t \in Nat /\ t \in Time /\ t <= tick /\ Hour(t) \in Nat
         /\ \A h \in hours : h \in Nat /\ Day(h) \in Nat
         /\ \A d \in days : d \in Nat
<1>1. tick \in Nat /\ tick <= LastTick /\ tick \in Time
  BY Calendar DEF StoreTypeOK, Time
<1>2. ASSUME NEW t \in 0 .. tick PROVE t \in Nat /\ t <= tick /\ t \in Time /\ Hour(t) \in Nat
  BY <1>1, Calendar DEF Time
<1>3. Coming \subseteq 0 .. tick
  BY <1>1 DEF Coming, Held
<1> QED
  BY <1>1, <1>2, <1>3, Calendar DEF StoreTypeOK, Held

LEMMA StoreInitInv == StoreInit => StoreInv
<1> SUFFICES ASSUME StoreInit PROVE StoreInv
  OBVIOUS
<1> USE DEF StoreInit
<1>0. 0 \in Time /\ 0 \in 0 .. tick
  BY Calendar DEF Time
<1>1. StoreTypeOK
  BY <1>0 DEF StoreTypeOK, Waiting
<1>2. Held
  BY <1>0, Calendar DEF Held, Waiting
<1>3. Newest
  BY <1>0 DEF Newest, UpTo, Coming
<1>4. Oldest
  BY DEF Oldest, Waiting
<1> QED
  BY <1>1, <1>2, <1>3, <1>4 DEF StoreInv

\* What rotation picks is not later than any recording.
LEMMA PicksOldest == ASSUME StoreInv, PicksFile PROVE Oldest'
<1> DEFINE Ts == mp4 \cup Coming
<1>1. UNCHANGED <<mp4, tick, rec, hours, days>> /\ Ts' = Ts
  BY DEF PicksFile, Coming, files
<1>2. /\ \A t \in Ts : t \in Nat /\ t \in Time /\ Hour(t) \in Nat /\ Day(Hour(t)) \in Nat
      /\ hours \subseteq Nat /\ days \subseteq Nat /\ mp4 \subseteq Nat /\ jpg \subseteq Nat
  BY StoreTypes, Calendar DEF StoreInv, Held
<1>3. ASSUME days # {}
      PROVE  \/ Least(days) = Day(ForeignHour)
             \/ \A t \in Ts : Least(days) <= Day(Hour(t))
  <2>1. Least(days) \in days /\ \A d \in days : Least(days) <= d
    BY <1>2, <1>3, HasLeast
  <2>2. ASSUME NEW t \in mp4 PROVE Least(days) <= Day(Hour(t))
    BY <2>1 DEF StoreInv, StoreTypeOK
  <2>3. ASSUME NEW t \in Coming, Least(days) # Day(ForeignHour)
        PROVE  Least(days) <= Day(Hour(t))
    BY <2>1, <2>3 DEF StoreInv, Newest, UpTo
  <2> QED
    BY <2>2, <2>3
<1> DEFINE d == Least(days)
           h == OldestHour(days)
<1>4. ASSUME days # {}, h # None
      PROVE  h \in hours /\ Day(h) = d /\ \A g \in hours : Day(g) = d => h <= g
  <2> DEFINE S == {g \in hours : Day(g) = d}
  <2>1. S # {} /\ S \subseteq Nat /\ h = Least(S)
    BY <1>2, <1>4 DEF OldestHour
  <2>2. h \in S /\ \A g \in S : h <= g
    BY <2>1, HasLeast
  <2> QED
    BY <2>2
<1>5. ASSUME days # {}, h # None, h # ForeignHour, NEW t \in Ts
      PROVE  h <= Hour(t)
  <2>1. CASE t \in Coming
    BY <2>1, <1>4, <1>5 DEF StoreInv, Newest, UpTo
  <2>2. CASE t \in mp4
    <3>1. Hour(t) \in hours /\ Day(Hour(t)) \in days
      BY <2>2 DEF StoreInv, StoreTypeOK
    <3>2. d <= Day(Hour(t)) /\ d \in Nat
      BY <3>1, <1>2, <1>5, HasLeast
    <3>3. CASE Day(Hour(t)) = d
      BY <3>1, <3>3, <1>4, <1>5
    <3>4. CASE d # Day(Hour(t))
      <4>1. h \in Nat /\ Hour(t) \in Nat /\ Day(h) \in Nat /\ Day(Hour(t)) \in Nat
            /\ Day(h) = d
        BY <1>2, <1>4, <1>5, Calendar
      <4>2. ~(Hour(t) <= h)
        <5> SUFFICES ASSUME Hour(t) <= h PROVE FALSE
          OBVIOUS
        <5>1. Day(Hour(t)) <= Day(h)
          BY <4>1, Calendar
        <5> HIDE DEF h, d
        <5> QED
          BY <5>1, <4>1, <3>2, <3>4
      <4> HIDE DEF h
      <4> QED
        BY <4>1, <4>2
    <3> QED
      BY <3>3, <3>4
  <2> QED
    BY <2>1, <2>2, <1>5
<1>6. ASSUME days # {}, h # None, Media(h) # {}
      PROVE  /\ Least(Media(h)) \in Nat
             /\ \A t \in Ts : Least(Media(h)) <= t
  <2> DEFINE f == Least(Media(h))
  <2>1. Media(h) \subseteq Nat /\ Media(h) \subseteq mp4 \cup jpg
    BY <1>2 DEF Media, InHour
  <2>2. f \in Media(h) /\ \A g \in Media(h) : f <= g
    BY <2>1, <1>6, HasLeast
  <2>3. f \in mp4 \cup jpg /\ Hour(f) = h
    BY <2>2 DEF Media, InHour
  <2>4. f \in Nat /\ h # ForeignHour
    <3>1. f \in Time
      BY <2>3, StoreTypes DEF StoreInv
    <3> HIDE DEF f, h
    <3> QED
      BY <2>3, <3>1, NotForeign
  <2>5. ASSUME NEW t \in Coming PROVE f <= t
    BY <2>3, <2>5 DEF StoreInv, Newest, UpTo
  <2>6. ASSUME NEW t \in mp4 PROVE f <= t
    <3>1. CASE Hour(t) = h
      <4>1. t \in Media(h)
        BY <3>1, <2>6 DEF Media, InHour
      <4> QED
        BY <4>1, <2>2
    <3>2. CASE Hour(t) # h
      <4>1. h <= Hour(t) /\ t \in Nat /\ Hour(t) \in Nat
        BY <1>2, <1>5, <1>6, <2>4
      <4>2. h \in Nat
        BY <1>2, <1>4, <1>6
      <4> HIDE DEF f, h
      <4>3. t <= f => Hour(t) <= h
        BY <2>3, <2>4, <4>1, Calendar
      <4> QED
        BY <4>1, <4>2, <4>3, <3>2, <2>4
    <3> QED
      BY <3>1, <3>2
  <2> QED
    BY <2>4, <2>5, <2>6
<1>7. \/ days = {} /\ rot'.step = "space"
      \/ days # {} /\ h = None /\ rot'.step = "dropDay" /\ rot'.hour = d
      \/ days # {} /\ h # None /\ rot'.step = "dropHour" /\ rot'.hour = h
      \/ days # {} /\ h # None /\ Media(h) # {} /\ rot'.step = "remove"
         /\ rot'.file = Least(Media(h))
  <2> HIDE DEF h, d
  <2>0. rot \in [step : {"wait", "space", "pick", "dropDay", "dropHour", "remove",
                       "emptyHour", "emptyDay", "ended"},
              hour : Nat \cup {None}, file : 0 .. tick \cup {None}]
    BY DEF StoreInv, Held
  <2>1. rot' = IF days = {} THEN [rot EXCEPT !.step = "space"]
               ELSE IF h = None
               THEN [step |-> "dropDay", hour |-> d, file |-> None]
               ELSE IF Media(h) = {}
               THEN [step |-> "dropHour", hour |-> h, file |-> None]
               ELSE [step |-> "remove", hour |-> h, file |-> Least(Media(h))]
    BY DEF PicksFile, h, d
  <2> QED
    BY <2>0, <2>1
<1> HIDE DEF h, d
<1>8. /\ d = Day(ForeignHour) \/ (days # {} => \A t \in Ts : d <= Day(Hour(t)))
      /\ None \notin Nat
  BY <1>3, Calendar DEF d
<1>9. CASE days = {} /\ rot'.step = "space"
  BY <1>9 DEF Oldest
<1>10. CASE days # {} /\ rot'.step = "dropDay" /\ rot'.hour = d
  BY <1>8, <1>10, <1>1 DEF Oldest
<1>11. CASE days # {} /\ h # None /\ rot'.step = "dropHour" /\ rot'.hour = h
  BY <1>5, <1>11, <1>1 DEF Oldest
<1>12. CASE days # {} /\ h # None /\ Media(h) # {} /\ rot'.step = "remove"
         /\ rot'.file = Least(Media(h))
  BY <1>6, <1>8, <1>12, <1>1 DEF Oldest
<1> QED
  BY <1>7, <1>9, <1>10, <1>11, <1>12

\* A folder that is dropped, or a file that is removed, takes no recording with it that
\* is newer than one left.
LEMMA RotatesOldest ==
  ASSUME StoreInv, DropFolder \/ RemovesFile,
         NEW f \in mp4 \ mp4', NEW g \in mp4'
  PROVE  f < g
<1>1. mp4' \subseteq mp4
  BY DEF DropFolder, RemovesFile
<1>2. /\ f \in Nat /\ g \in Nat /\ f \in Time /\ g \in Time /\ f \in mp4 /\ g \in mp4
      /\ Hour(f) \in Nat /\ Hour(g) \in Nat /\ Day(Hour(f)) \in Nat /\ Day(Hour(g)) \in Nat
  BY <1>1, StoreTypes, Calendar DEF StoreInv
<1>3. Hour(f) # ForeignHour /\ Day(Hour(f)) # Day(ForeignHour)
  BY <1>2, NotForeign
<1>4. Hour(f) < Hour(g) => f < g
  <2> SUFFICES ASSUME Hour(f) < Hour(g), g <= f PROVE FALSE
    BY <1>2
  <2>1. Hour(g) <= Hour(f)
    BY <1>2, Calendar
  <2> QED
    BY <2>1, <1>2
<1>5. CASE RemovesFile
  <2>1. f = rot.file /\ g # rot.file /\ rot.step = "remove"
    BY <1>2, <1>5 DEF RemovesFile, Rotates
  <2> QED
    BY <1>2, <2>1 DEF StoreInv, Oldest
<1>6. CASE DropFolder /\ rot.step = "dropHour"
  <2>1. Hour(f) = rot.hour /\ Hour(g) # rot.hour
    BY <1>2, <1>6 DEF DropFolder
  <2>2. rot.hour <= Hour(g)
    BY <1>2, <1>3, <1>6, <2>1 DEF StoreInv, Oldest
  <2> QED
    BY <1>2, <1>4, <2>1, <2>2
<1>7. CASE DropFolder /\ rot.step = "dropDay"
  <2>1. Hour(g) \in hours
    BY <1>2 DEF StoreInv, StoreTypeOK
  <2>2. Day(Hour(f)) = rot.hour /\ Day(Hour(g)) # rot.hour
    BY <1>2, <1>7, <2>1 DEF DropFolder
  <2>3. rot.hour <= Day(Hour(g))
    BY <1>2, <1>3, <1>7, <2>2 DEF StoreInv, Oldest
  <2>4. ~(Hour(g) <= Hour(f))
    <3> SUFFICES ASSUME Hour(g) <= Hour(f) PROVE FALSE
      OBVIOUS
    <3>1. Day(Hour(g)) <= Day(Hour(f))
      BY <1>2, Calendar
    <3> QED
      BY <3>1, <2>2, <2>3, <1>2
  <2> QED
    BY <1>2, <1>4, <2>4
<1> QED
  BY <1>5, <1>6, <1>7 DEF DropFolder, Rotates

\* Only rotation deletes recordings.
LEMMA OthersKeep ==
  ASSUME [StoreNext]_storeVars, ~DropFolder, ~RemovesFile
  PROVE  mp4 \subseteq mp4'
  BY DEF StoreNext, storeVars, files, Record, Rotation, Query, StartsRecording, CreateHour,
     OpenFile, StopsRecording, WritePreview, WakesUp, ChecksSpace, PicksFile,
     DropEmptyHour, DropEmptyDay, Destroyed, AsksLatest, AsksOlder, AsksBefore, Asks, ReadsTimes, Tick, OthersWrite

\* A step that leaves rotation alone brings no recording older than those there and
\* those already to come.
LEMMA ComingLater ==
  ASSUME StoreInv, mp4' \subseteq mp4 \cup Coming, Coming' \subseteq Coming \cup {tick'},
         tick' \in Nat, tick <= tick', rot' = rot
  PROVE  Oldest'
<1> DEFINE Ts == mp4 \cup Coming
<1>1. tick \in Ts /\ Ts' \subseteq Ts \cup {tick'}
  BY DEF Coming
<1>2. tick \in Nat /\ Hour(tick) \in Nat /\ Hour(tick') \in Nat /\ Hour(tick) <= Hour(tick')
  BY StoreTypes, Calendar DEF StoreInv
<1>3. Day(Hour(tick)) \in Nat /\ Day(Hour(tick')) \in Nat
      /\ Day(Hour(tick)) <= Day(Hour(tick'))
  BY <1>2, Calendar
<1>4. (rot.hour \in Nat \/ rot.hour = None) /\ (rot.file \in Nat \/ rot.file = None)
      /\ None \notin Nat
  BY <1>2, Calendar DEF StoreInv, Held
<1>5. ASSUME rot.step = "remove" PROVE rot.file # None /\ \A t \in Ts' : rot.file <= t
  <2>1. rot.file # None /\ \A t \in Ts : rot.file <= t
    BY <1>5 DEF StoreInv, Oldest
  <2> HIDE DEF Ts
  <2> QED
    BY <2>1, <1>1, <1>2, <1>4
<1>6. ASSUME rot.step = "dropHour", rot.hour # ForeignHour
      PROVE \A t \in Ts' : rot.hour <= Hour(t)
  <2>1. \A t \in Ts : rot.hour <= Hour(t)
    BY <1>6 DEF StoreInv, Oldest
  <2>2. rot.hour <= Hour(tick')
    <3>1. rot.hour <= Hour(tick)
      BY <2>1, <1>1
    <3> QED
      BY <3>1, <1>2, <1>4, <1>6 DEF StoreInv, Held
  <2> HIDE DEF Ts
  <2> QED
    BY <2>1, <2>2, <1>1
<1>7. ASSUME rot.step = "dropDay", rot.hour # Day(ForeignHour)
      PROVE \A t \in Ts' : rot.hour <= Day(Hour(t))
  <2>1. \A t \in Ts : rot.hour <= Day(Hour(t))
    BY <1>7 DEF StoreInv, Oldest
  <2>2. rot.hour <= Day(Hour(tick'))
    <3>1. rot.hour <= Day(Hour(tick))
      BY <2>1, <1>1
    <3> QED
      BY <3>1, <1>3, <1>4, <1>7 DEF StoreInv, Held
  <2> HIDE DEF Ts
  <2> QED
    BY <2>1, <2>2, <1>1
<1> QED
  BY <1>5, <1>6, <1>7 DEF Oldest

\* A step that creates no folder keeps what is on the drive before what is to come.
LEMMA NothingLater ==
  ASSUME StoreInv, mp4' \subseteq mp4, jpg' \subseteq jpg \cup ({preview} \ {None}),
         preview' \in {preview, None}, hours' \subseteq hours, days' \subseteq days,
         Coming' \subseteq Coming
  PROVE  Newest'
<1> SUFFICES ASSUME NEW t \in Coming' PROVE UpTo(t)'
  BY DEF Newest
<1>1. UpTo(t)
  BY DEF StoreInv, Newest
<1> QED
  BY <1>1 DEF UpTo

\* No step puts on the drive what is later than a recording still to come.
LEMMA NewestStep == ASSUME StoreInv, [StoreNext]_storeVars PROVE Newest'
<1>0. /\ tick \in Coming /\ Coming \subseteq Nat
      /\ rec.step # "idle" => rec.name \in Coming
      /\ \A t \in Coming : t <= tick
      /\ None \notin Nat
  BY StoreTypes, Calendar DEF Coming, StoreInv, Held
<1>1. CASE StartsRecording
  <2>1. Coming' = {tick}
    BY <1>0, <1>1 DEF StartsRecording, Coming
  <2> SUFFICES ASSUME NEW t \in Coming' PROVE UpTo(t)'
    BY DEF Newest
  <2>2. UpTo(t) /\ t = tick
    BY <1>0, <2>1 DEF StoreInv, Newest
  <2>3. Day(Hour(t)) \in Nat
    BY <1>0, <2>2, Calendar
  <2> QED
    BY <1>1, <2>2, <2>3 DEF StartsRecording, UpTo
<1>2. CASE CreateHour
  <2>1. Coming' = Coming
    BY <1>2 DEF CreateHour, Coming, StoreInv, Held
  <2> SUFFICES ASSUME NEW t \in Coming PROVE UpTo(t)'
    BY <2>1 DEF Newest
  <2>2. UpTo(t)
    BY DEF StoreInv, Newest
  <2>3. Hour(rec.name) <= Hour(t)
    <3>1. rec.name \in Nat /\ t \in Nat /\ rec.name <= t
      BY <1>0, <1>2 DEF CreateHour, Coming
    <3> QED
      BY <3>1, Calendar
  <2> QED
    BY <1>2, <2>2, <2>3 DEF CreateHour, WithHour, UpTo
<1>3. CASE OpenFile
  <2>1. Coming' \subseteq Coming
    BY <1>3 DEF OpenFile, Coming, StoreInv, Held
  <2> SUFFICES ASSUME NEW t \in Coming' PROVE UpTo(t)'
    BY DEF Newest
  <2>2. UpTo(t)
    BY <2>1 DEF StoreInv, Newest
  <2>3. rec.name <= t
    BY <1>0, <1>3, <2>1 DEF OpenFile, Coming
  <2> QED
    BY <1>3, <2>2, <2>3 DEF OpenFile, UpTo
<1>4. CASE StopsRecording
  BY <1>4, NothingLater DEF StopsRecording, Coming
<1>5. CASE WritePreview
  BY <1>5, NothingLater DEF WritePreview, Coming
<1>6. CASE WakesUp \/ ChecksSpace \/ PicksFile
  BY <1>6, NothingLater DEF WakesUp, ChecksSpace, PicksFile, Coming, files
<1>7. CASE DropFolder
  BY <1>7, NothingLater DEF DropFolder, WithoutDay, Coming
<1>8. CASE RemovesFile \/ DropEmptyHour \/ DropEmptyDay
  BY <1>8, NothingLater DEF RemovesFile, DropEmptyHour, DropEmptyDay, WithoutDay, Coming
<1>9. CASE Destroyed \/ Query \/ OthersWrite \/ UNCHANGED storeVars
  <2>1. UNCHANGED <<tick, files, rec, preview>>
    BY <1>9 DEF Destroyed, Query, AsksLatest, AsksOlder, AsksBefore, Asks, ReadsTimes,
       OthersWrite, storeVars
  <2> QED
    BY <2>1, NothingLater DEF Coming, files
<1>10. CASE Tick
  <2>1. Coming' \subseteq (Coming \ {tick}) \cup {tick, tick + 1} /\ tick' = tick + 1
    BY <1>10 DEF Tick, Coming
  <2> SUFFICES ASSUME NEW t \in Coming' PROVE UpTo(t)'
    BY DEF Newest
  <2>2. PICK s \in Coming : s <= t /\ t \in Nat
    BY <1>0, <2>1, <1>10 DEF Tick, Coming
  <2>3. UpTo(s)
    BY DEF StoreInv, Newest
  <2>4. s \in Nat /\ Hour(s) \in Nat /\ Hour(t) \in Nat /\ Hour(s) <= Hour(t)
        /\ Day(Hour(s)) <= Day(Hour(t)) /\ Day(Hour(s)) \in Nat /\ Day(Hour(t)) \in Nat
    BY <1>0, <2>2, Calendar
  <2>5. UNCHANGED <<mp4, jpg, preview, hours, days>>
    BY <1>10 DEF Tick, files
  <2>6. /\ \A f \in mp4 \cup jpg : f \in Nat
        /\ preview \in Nat \cup {None} /\ hours \subseteq Nat /\ days \subseteq Nat
    BY <1>0 DEF StoreInv, StoreTypeOK, Held
  <2>7. /\ \A f \in mp4 \cup jpg : f <= t
        /\ preview # None => preview <= t
    BY <2>2, <2>3, <2>4, <2>6 DEF UpTo
  <2>8. \A h \in hours : h = ForeignHour \/ h <= Hour(t)
    BY <2>2, <2>3, <2>4, <2>6 DEF UpTo
  <2>9. \A d \in days : d = Day(ForeignHour) \/ d <= Day(Hour(t))
    BY <2>2, <2>3, <2>4, <2>6 DEF UpTo
  <2> QED
    BY <2>5, <2>7, <2>8, <2>9 DEF UpTo
<1> QED
  BY <1>1, <1>2, <1>3, <1>4, <1>5, <1>6, <1>7, <1>8, <1>9, <1>10
     DEF StoreNext, Record, Rotation

\* No step makes what rotation has picked later than a recording.
LEMMA OldestStep == ASSUME StoreInv, [StoreNext]_storeVars PROVE Oldest'
<1>0. /\ tick \in Nat /\ tick \in Coming
      /\ rec.step # "idle" => rec.name \in Coming
  BY StoreTypes DEF Coming, StoreInv, Held
<1>1. CASE PicksFile
  BY <1>1, PicksOldest
<1>2. CASE \/ WakesUp \/ ChecksSpace \/ DropFolder \/ RemovesFile
           \/ DropEmptyHour \/ DropEmptyDay
  <2> DEFINE Nothing == {"wait", "space", "pick", "emptyHour", "emptyDay", "ended"}
  <2>0. rot = [step |-> rot.step, hour |-> rot.hour, file |-> rot.file]
    BY DEF StoreInv, Held
  <2>1. ASSUME WakesUp \/ ChecksSpace \/ DropFolder
        PROVE  rot'.step \in Nothing
    BY <2>0, <2>1 DEF WakesUp, ChecksSpace, DropFolder, Waiting
  <2>2. ASSUME RemovesFile \/ DropEmptyHour \/ DropEmptyDay
        PROVE  rot'.step \in Nothing
    BY <2>0, <2>2 DEF RemovesFile, DropEmptyHour, DropEmptyDay
  <2>3. rot'.step \in Nothing
    BY <1>2, <2>1, <2>2
  <2> QED
    BY <2>3 DEF Oldest
<1>3. CASE Record
  <2>1. /\ mp4' \subseteq mp4 \cup Coming /\ Coming' \subseteq Coming \cup {tick'}
        /\ tick' = tick /\ rot' = rot
    <3>0. rec.name \in Coming \/ rec.name = None
      BY DEF Coming
    <3>1. CASE StartsRecording
      BY <1>0, <3>1 DEF StartsRecording, Coming
    <3>2. CASE CreateHour
      BY <3>2 DEF CreateHour, Coming, StoreInv, Held
    <3>3. CASE OpenFile
      BY <1>0, <3>0, <3>3 DEF OpenFile, Coming, StoreInv, Held
    <3>4. CASE StopsRecording \/ WritePreview
      BY <3>4 DEF StopsRecording, WritePreview, Coming
    <3> QED
      BY <1>3, <3>1, <3>2, <3>3, <3>4 DEF Record
  <2> QED
    BY <1>0, <2>1, ComingLater
<1>4. CASE Destroyed \/ Query \/ OthersWrite \/ UNCHANGED storeVars
  <2>1. UNCHANGED <<tick, files, rec, rot>>
    BY <1>4 DEF Destroyed, Query, AsksLatest, AsksOlder, AsksBefore, Asks, ReadsTimes,
       OthersWrite, storeVars
  <2>2. Coming' = Coming /\ mp4' = mp4 /\ tick' = tick
    BY <2>1 DEF Coming, files
  <2> QED
    BY <1>0, <2>1, <2>2, ComingLater
<1>5. CASE Tick
  <2>1. mp4' = mp4 /\ rot' = rot /\ rec' = rec /\ tick' = tick + 1
    BY <1>5 DEF Tick, files
  <2>2. Coming' \subseteq Coming \cup {tick'}
    BY <2>1 DEF Coming
  <2> QED
    BY <1>0, <2>1, <2>2, ComingLater
<1> QED
  BY <1>1, <1>2, <1>3, <1>4, <1>5 DEF StoreNext, Rotation

\* The steps of the recorder and of rotation keep what they hold.
LEMMA HeldStep == ASSUME StoreInv, [StoreNext]_storeVars PROVE Held'
<1>0. tick \in Nat /\ tick' \in Nat /\ tick <= tick'
  <2>1. tick \in Nat
    BY StoreTypes DEF StoreInv
  <2>2. tick' = tick \/ tick' = tick + 1
    BY DEF StoreNext, storeVars, Record, Rotation, Query, StartsRecording, CreateHour,
       OpenFile, StopsRecording, WritePreview, WakesUp, ChecksSpace, PicksFile, DropFolder,
       RemovesFile, DropEmptyHour, DropEmptyDay, Destroyed, AsksLatest, AsksOlder, AsksBefore,
       Asks, ReadsTimes, Tick, OthersWrite
  <2> QED
    BY <2>1, <2>2
<1>1. 0 .. tick \subseteq 0 .. tick' /\ tick \in 0 .. tick /\ None \notin Nat
  BY <1>0, Calendar
<1> USE DEF Held
<1>2. Held
  BY DEF StoreInv
<1>3. CASE StartsRecording
  <2>1. Hour(tick) \in Nat /\ Day(Hour(tick)) \in Nat
    BY <1>0, Calendar
  <2>2. /\ UNCHANGED <<tick, rot, hours>> /\ days' = days \cup {Day(Hour(tick))}
        /\ rec' = [step |-> "hour", name |-> tick]
    BY <1>3 DEF StartsRecording
  <2>3. /\ rec' \in [step : {"idle", "hour", "open", "recording"}, name : 0 .. tick \cup {None}]
        /\ rec'.name # None
    BY <1>0, <1>1, <2>2
  <2> QED
    BY <1>2, <2>1, <2>2, <2>3
<1>4. CASE CreateHour
  <2>1. Hour(rec.name) \in Nat
    BY <1>0, <1>2, <1>4, Calendar DEF CreateHour
  <2> QED
    BY <1>1, <1>2, <1>4, <2>1 DEF CreateHour, WithHour
<1>5. CASE OpenFile
  <2>1. /\ UNCHANGED <<tick, rot, hours, days>>
        /\ \/ rec' = [rec EXCEPT !.step = "recording"]
           \/ rec' = [step |-> "idle", name |-> None]
    BY <1>5 DEF OpenFile
  <2>2. rec.name # None
    BY <1>2, <1>5 DEF OpenFile
  <2>3. /\ rec' \in [step : {"idle", "hour", "open", "recording"}, name : 0 .. tick \cup {None}]
        /\ rec'.step # "idle" => rec'.name # None
    BY <1>2, <2>1, <2>2
  <2> QED
    BY <1>2, <2>1, <2>3
<1>6. CASE StopsRecording \/ WritePreview
  <2>1. /\ UNCHANGED <<tick, rot, hours, days>>
        /\ \/ rec' = rec
           \/ rec' = [step |-> "idle", name |-> None]
    BY <1>6 DEF StopsRecording, WritePreview
  <2>2. /\ rec' \in [step : {"idle", "hour", "open", "recording"}, name : 0 .. tick \cup {None}]
        /\ rec'.step # "idle" => rec'.name # None
    BY <1>2, <2>1
  <2> QED
    BY <1>2, <2>1, <2>2
<1>7. CASE WakesUp \/ ChecksSpace
  BY <1>1, <1>2, <1>7 DEF WakesUp, ChecksSpace, Waiting, files
<1>8. CASE PicksFile
  <2> DEFINE h == OldestHour(days)
  <2>1. /\ days \subseteq Nat /\ hours \subseteq Nat /\ mp4 \cup jpg \subseteq Nat
        /\ \A f \in mp4 \cup jpg : f \in 0 .. tick
    BY <1>0, <1>2 DEF StoreInv, StoreTypeOK
  <2>2. days # {} => Least(days) \in Nat
    BY <2>1, HasLeast
  <2>3. h # None => h \in Nat
    <3> DEFINE S == {g \in hours : Day(g) = Least(days)}
    <3>1. S # {} => Least(S) \in S
      BY <2>1, HasLeast
    <3> QED
      BY <3>1, <2>1 DEF OldestHour
  <2>4. Media(h) # {} => Least(Media(h)) \in 0 .. tick
    <3>1. Media(h) \subseteq Nat /\ \A f \in Media(h) : f \in 0 .. tick
      BY <2>1 DEF Media, InHour
    <3> HIDE DEF h
    <3> QED
      BY <3>1, HasLeast
  <2>5. UNCHANGED <<tick, rec, hours, days>>
    BY <1>8 DEF PicksFile, files
  <2>6. rot' = IF days = {} THEN [rot EXCEPT !.step = "space"]
               ELSE IF h = None
               THEN [step |-> "dropDay", hour |-> Least(days), file |-> None]
               ELSE IF Media(h) = {}
               THEN [step |-> "dropHour", hour |-> h, file |-> None]
               ELSE [step |-> "remove", hour |-> h, file |-> Least(Media(h))]
    BY <1>8 DEF PicksFile
  <2> HIDE DEF h
  <2> QED
    BY <1>1, <1>2, <2>2, <2>3, <2>4, <2>5, <2>6
<1>9. CASE DropFolder
  BY <1>1, <1>2, <1>9 DEF DropFolder, WithoutDay
<1>10. CASE RemovesFile \/ DropEmptyHour \/ DropEmptyDay
  BY <1>1, <1>2, <1>10 DEF RemovesFile, DropEmptyHour, DropEmptyDay, WithoutDay
<1>11. CASE Destroyed \/ Query \/ OthersWrite \/ UNCHANGED storeVars
  BY <1>2, <1>11 DEF Destroyed, Query, AsksLatest, AsksOlder, AsksBefore, Asks, ReadsTimes,
     OthersWrite, storeVars, files
<1>12. CASE Tick
  <2>1. rec.name \in 0 .. tick' \cup {None} /\ rot.file \in 0 .. tick' \cup {None}
    BY <1>1, <1>2
  <2> QED
    BY <1>2, <1>12, <2>1 DEF Tick, files
<1> QED
  BY <1>3, <1>4, <1>5, <1>6, <1>7, <1>8, <1>9, <1>10, <1>11, <1>12
     DEF StoreNext, Record, Rotation

\* Files stay in their hour's folder, and folders in their day's.
LEMMA StoreTypeStep == ASSUME StoreInv, [StoreNext]_storeVars PROVE StoreTypeOK'
<1>0. /\ tick \in Nat /\ tick' \in Nat /\ tick <= tick' /\ tick' \in Time
      /\ None \notin Nat /\ 0 .. tick \subseteq 0 .. tick' /\ tick \in 0 .. tick
  <2>1. tick \in Nat /\ tick <= LastTick /\ LastTick \in Nat /\ None \notin Nat
    BY StoreTypes, Calendar DEF StoreInv, StoreTypeOK, Time
  <2>2. tick' = tick \/ (tick' = tick + 1 /\ tick < LastTick)
    BY DEF StoreNext, storeVars, Record, Rotation, Query, StartsRecording, CreateHour,
       OpenFile, StopsRecording, WritePreview, WakesUp, ChecksSpace, PicksFile, DropFolder,
       RemovesFile, DropEmptyHour, DropEmptyDay, Destroyed, AsksLatest, AsksOlder, AsksBefore,
       Asks, ReadsTimes, Tick, OthersWrite
  <2> QED
    BY <2>1, <2>2 DEF Time
<1> DEFINE Named == 0 .. tick \cup {None}
<1>1. /\ mp4 \subseteq 0 .. tick /\ jpg \subseteq 0 .. tick /\ mtime \in [Time -> 0 .. tick]
      /\ live \in Named /\ preview \in Named /\ rec.name \in Named /\ rot.file \in Named
      /\ abort \in BOOLEAN /\ full \in BOOLEAN /\ terminated \in BOOLEAN
      /\ \A f \in mp4 \cup jpg : Hour(f) \in hours
      /\ \A h \in hours : Day(h) \in days
  BY DEF StoreInv, StoreTypeOK
<1>2. Held /\ Held'
  BY HeldStep DEF StoreInv
<1>3. /\ rec'.name \in (0 .. tick' \cup {None}) /\ rot'.file \in (0 .. tick' \cup {None})
      /\ rec'.step \in {"idle", "hour", "open", "recording"}
  BY <1>2 DEF Held
\* What is left: the times of the files, the flags, and the folders.
<1>4. SUFFICES
      /\ mp4' \subseteq 0 .. tick' /\ jpg' \subseteq 0 .. tick'
      /\ mtime' \in [Time -> 0 .. tick'] /\ live' \in Named /\ preview' \in Named
      /\ abort' \in BOOLEAN /\ full' \in BOOLEAN /\ terminated' \in BOOLEAN
      /\ \A f \in mp4' \cup jpg' : Hour(f) \in hours'
      /\ \A h \in hours' : Day(h) \in days'
  BY <1>0, <1>3 DEF StoreTypeOK
<1>5. CASE StartsRecording
  BY <1>1, <1>5 DEF StartsRecording
<1>6. CASE CreateHour
  BY <1>1, <1>6 DEF CreateHour, WithHour
<1>7. CASE OpenFile
  <2>1. rec.name \in 0 .. tick
    BY <1>2, <1>7 DEF OpenFile, Held
  <2> QED
    BY <1>1, <1>7, <2>1 DEF OpenFile
<1>8. CASE StopsRecording
  BY <1>0, <1>1, <1>8 DEF StopsRecording
<1>9. CASE WritePreview
  BY <1>1, <1>9 DEF WritePreview
<1>10. CASE WakesUp \/ ChecksSpace \/ PicksFile
  BY <1>1, <1>10 DEF WakesUp, ChecksSpace, PicksFile, files
<1>11. CASE DropFolder
  BY <1>1, <1>11 DEF DropFolder, Rotates, WithoutDay
<1>12. CASE RemovesFile \/ DropEmptyHour \/ DropEmptyDay
  BY <1>1, <1>12 DEF RemovesFile, DropEmptyHour, DropEmptyDay, WithoutDay, Media, InHour
<1>13. CASE Destroyed \/ Query \/ OthersWrite \/ UNCHANGED storeVars
  BY <1>1, <1>13 DEF Destroyed, Query, AsksLatest, AsksOlder, AsksBefore, Asks, ReadsTimes,
     OthersWrite, storeVars, files
<1>14. CASE Tick
  <2>1. UNCHANGED <<mp4, jpg, mtime, days, hours, live, preview, abort, full, terminated>>
    BY <1>14 DEF Tick, files
  <2>2. mtime \in [Time -> 0 .. tick']
    BY <1>0, <1>1
  <2> QED
    BY <1>0, <1>1, <2>1, <2>2
<1> QED
  BY <1>5, <1>6, <1>7, <1>8, <1>9, <1>10, <1>11, <1>12, <1>13, <1>14
     DEF StoreNext, Record, Rotation

\* The recordings stay in the folders of their hour and day, and are rotated out oldest
\* first (StoreInOrder): while an older recording is on the drive, or is about to be
\* opened, RotateFiles deletes no newer one, however it interleaves with the recorder.
THEOREM RotatedOldestFirst == StoreSpec => StoreInOrder
<1>1. StoreInv /\ [StoreNext]_storeVars => StoreInv'
  BY StoreTypeStep, HeldStep, NewestStep, OldestStep DEF StoreInv
<1>2. StoreInv /\ [StoreNext]_storeVars => [\A f \in mp4 \ mp4', g \in mp4' : f < g]_storeVars
  <2> SUFFICES ASSUME StoreInv, [StoreNext]_storeVars, NEW f \in mp4 \ mp4', NEW g \in mp4'
               PROVE  f < g
    OBVIOUS
  <2>1. DropFolder \/ RemovesFile
    BY OthersKeep
  <2> QED
    BY <2>1, RotatesOldest
<1>3. StoreInv => StoreTypeOK
  BY DEF StoreInv
<1> QED
  BY StoreInitInv, <1>1, <1>2, <1>3, PTL DEF StoreSpec, StoreInOrder, OldestFirst

-----------------------------------------------------------------------------
\* The viewer's queries.

\* A set of numbers that has an upper bound has a greatest one.
LEMMA HasLargest ==
  ASSUME NEW n \in Nat, NEW S \in SUBSET (0 .. n), S # {}
  PROVE  Largest(S) \in S /\ \A y \in S : y <= Largest(S)
<1> DEFINE T == {y \in 0 .. n : n - y \in S}
<1>1. T \in SUBSET Nat /\ T # {}
  <2>1. PICK x \in S : TRUE
    OBVIOUS
  <2>2. n - x \in 0 .. n /\ n - (n - x) = x
    OBVIOUS
  <2>3. n - (n - x) \in S
    BY <2>2
  <2>4. n - x \in T
    BY <2>2, <2>3
  <2>5. T \in SUBSET Nat
    OBVIOUS
  <2> QED
    BY <2>4, <2>5
<1> DEFINE l == Least(T)
<1>2. l \in T /\ \A y \in T : l <= y
  BY <1>1, HasLeast
<1> HIDE DEF l
<1>3. n - l \in S
  BY <1>2
<1>4. ASSUME NEW y \in S PROVE y <= n - l
  <2>1. y \in 0 .. n /\ n - y \in 0 .. n /\ n - (n - y) = y
    OBVIOUS
  <2>2. n - y \in T
    BY <2>1
  <2>3. l <= n - y /\ l \in 0 .. n
    BY <1>2, <2>2
  <2> QED
    BY <2>1, <2>3
<1> QED
  BY <1>3, <1>4 DEF Largest

\* s is S, the newest first.
Sorts(s, S) ==
  /\ s \in [1 .. Cardinality(S) -> S]
  /\ \A i, j \in 1 .. Cardinality(S) : i < j => Newer(s[i], s[j])

\* The times of files are times; of any files one is the newest.
LEMMA WrittenType ==
  ASSUME tick \in Time, mtime \in [Time -> 0 .. tick], NEW f \in 0 .. tick
  PROVE  Written(f) \in 0 .. tick /\ tick \in Nat
<1>1. tick \in Nat /\ f \in Time
  BY Calendar DEF Time
<1> QED
  BY <1>1 DEF Written

LEMMA HasNewest ==
  ASSUME tick \in Time, mtime \in [Time -> 0 .. tick], NEW S \in SUBSET (0 .. tick), S # {}
  PROVE  \E x \in S : \A y \in S \ {x} : Newer(x, y)
<1>1. tick \in Nat /\ \A f \in 0 .. tick : Written(f) \in 0 .. tick
  BY WrittenType, Calendar DEF Time
<1> DEFINE W == {Written(f) : f \in S}
           w == Largest(W)
           T == {f \in S : Written(f) = w}
           x == Largest(T)
<1>2. W \in SUBSET (0 .. tick) /\ W # {}
  BY <1>1
<1>3. w \in W /\ \A y \in W : y <= w
  <2> HIDE DEF W
  <2> QED
    BY <1>1, <1>2, HasLargest
<1>4. T \in SUBSET (0 .. tick) /\ T # {}
  BY <1>3
<1>5. x \in T /\ \A y \in T : y <= x
  <2> HIDE DEF T
  <2> QED
    BY <1>1, <1>4, HasLargest
<1>6. x \in S /\ Written(x) = w
  BY <1>5
<1>8. \A y \in S : Written(y) \in W
  OBVIOUS
<1> HIDE DEF x, w, W
<1>7. ASSUME NEW y \in S, y # x PROVE Newer(x, y)
  <2>1. Written(y) <= w /\ (Written(y) = w => y <= x)
    BY <1>3, <1>5, <1>7, <1>8
  <2>2. x \in 0 .. tick /\ y \in 0 .. tick
    BY <1>6
  <2>3. Written(y) \in 0 .. tick /\ w \in 0 .. tick
    BY <1>1, <1>6, <2>2
  <2> HIDE DEF T
  <2> QED
    BY <1>1, <1>6, <1>7, <2>1, <2>2, <2>3 DEF Newer
<1> QED
  BY <1>6, <1>7

\* Files are finitely many.
LEMMA FinitelyMany ==
  ASSUME tick \in Nat, NEW S \in SUBSET (0 .. tick)
  PROVE  IsFiniteSet(S) /\ Cardinality(S) \in Nat
<1>1. IsFiniteSet(0 .. tick)
  BY FS_Interval
<1>2. IsFiniteSet(S)
  BY <1>1, FS_Subset
<1> QED
  BY <1>2, FS_CardinalityType

\* Any files can be sorted: the newest one, and then the others.
LEMMA CanSort ==
  ASSUME tick \in Time, mtime \in [Time -> 0 .. tick], NEW S \in SUBSET (0 .. tick)
  PROVE  \E s : Sorts(s, S)
<1> DEFINE Bad == {n \in Nat : \E T \in SUBSET (0 .. tick) :
                                 Cardinality(T) = n /\ ~ \E s : Sorts(s, T)}
           n == Least(Bad)
<1>1. tick \in Nat
  BY Calendar DEF Time
<1>2. ASSUME NEW T \in SUBSET (0 .. tick) PROVE IsFiniteSet(T) /\ Cardinality(T) \in Nat
  BY <1>1, FinitelyMany
<1> SUFFICES ASSUME ~ \E s : Sorts(s, S) PROVE FALSE
  OBVIOUS
<1>3. Bad \in SUBSET Nat /\ Bad # {}
  BY <1>2
<1>4. n \in Bad /\ \A k \in Bad : n <= k
  <2> HIDE DEF Bad
  <2> QED
    BY <1>3, HasLeast
<1> HIDE DEF n
<1>5. PICK T \in SUBSET (0 .. tick) : Cardinality(T) = n /\ ~ \E s : Sorts(s, T)
  BY <1>4
<1>6. n \in Nat
  BY <1>4
<1>7. CASE T = {}
  <2>1. n = 0
    BY <1>5, <1>7, FS_EmptySet
  <2>2. <<>> \in [1 .. 0 -> T] /\ 1 .. 0 = {}
    OBVIOUS
  <2>3. Sorts(<<>>, T)
    BY <1>5, <2>1, <2>2 DEF Sorts
  <2> QED
    BY <1>5, <2>3
<1>8. CASE T # {}
  <2>1. PICK x \in T : \A y \in T \ {x} : Newer(x, y)
    BY <1>8, HasNewest
  <2> DEFINE R == T \ {x}
  <2>2. Cardinality(R) = n - 1 /\ R \in SUBSET (0 .. tick) /\ Cardinality(R) \in Nat
    BY <1>2, <1>5, FS_RemoveElement
  <2>3. n - 1 \notin Bad
    BY <1>4, <1>6, <2>2
  <2>4. PICK r : Sorts(r, R)
    BY <2>2, <2>3
  <2> DEFINE s == [i \in 1 .. n |-> IF i = 1 THEN x ELSE r[i - 1]]
  <2>5. r \in [1 .. n - 1 -> R] /\ \A i, j \in 1 .. n - 1 : i < j => Newer(r[i], r[j])
    BY <2>2, <2>4 DEF Sorts
  <2>6. ASSUME NEW i \in 1 .. n
        PROVE  /\ s[i] = IF i = 1 THEN x ELSE r[i - 1]
               /\ i # 1 => i - 1 \in 1 .. n - 1 /\ r[i - 1] \in R
    BY <1>6, <2>5
  <2>7. s \in [1 .. n -> T]
    BY <2>6
  <2> HIDE DEF s
  <2>8. ASSUME NEW i \in 1 .. n, NEW j \in 1 .. n, i < j PROVE Newer(s[i], s[j])
    <3>1. j # 1 /\ s[j] = r[j - 1] /\ r[j - 1] \in R /\ j - 1 \in 1 .. n - 1
      BY <2>6, <2>8
    <3>2. CASE i = 1
      <4>1. s[i] = x /\ s[j] \in T \ {x}
        BY <2>6, <3>1, <3>2
      <4> QED
        BY <2>1, <4>1
    <3>3. CASE i # 1
      <4>1. s[i] = r[i - 1] /\ i - 1 \in 1 .. n - 1 /\ i - 1 < j - 1
        BY <2>6, <2>8, <3>3
      <4> QED
        BY <2>5, <3>1, <4>1
    <3> QED
      BY <3>2, <3>3
  <2>9. Sorts(s, T)
    BY <1>5, <2>7, <2>8 DEF Sorts
  <2> QED
    BY <1>5, <2>9
<1> QED
  BY <1>7, <1>8

\* Sorted(S) names the files of S, each once.
LEMMA SortedFacts ==
  ASSUME tick \in Time, mtime \in [Time -> 0 .. tick], NEW S \in SUBSET (0 .. tick)
  PROVE  /\ Sorted(S) \in Seq(0 .. tick) /\ ToSet(Sorted(S)) = S
         /\ \A i, j \in 1 .. Len(Sorted(S)) : i < j => Newer(Sorted(S)[i], Sorted(S)[j])
<1> DEFINE s == Sorted(S)
           n == Cardinality(S)
<1>1. tick \in Nat /\ \A f \in 0 .. tick : Written(f) \in 0 .. tick
  BY WrittenType, Calendar DEF Time
<1>2. IsFiniteSet(S) /\ n \in Nat
  BY <1>1, FinitelyMany
<1>3. s \in [1 .. n -> S] /\ \A i, j \in 1 .. n : i < j => Newer(s[i], s[j])
  <2>1. \E x : Sorts(x, S)
    BY CanSort
  <2>2. \E x \in [1 .. n -> S] : \A i, j \in 1 .. n : i < j => Newer(x[i], x[j])
    BY <2>1 DEF Sorts
  <2> QED
    BY <2>2 DEF Sorted
<1> HIDE DEF s
<1>4. s \in Seq(0 .. tick) /\ Len(s) = n
  <2> HIDE DEF n
  <2>1. s \in [1 .. n -> 0 .. tick]
    BY <1>3
  <2>2. s \in Seq(0 .. tick)
    <3> DEFINE A == 0 .. tick
    <3>1. s \in [1 .. n -> A]
      BY <2>1
    <3> HIDE DEF A
    <3>2. s \in Seq(A)
      BY <1>2, <3>1, SeqDef
    <3> QED
      BY <3>2 DEF A
  <2>3. Len(s) = n
    BY <1>2, <1>3, LenProperties, <2>2
  <2> QED
    BY <2>2, <2>3
<1>5. \A i, j \in 1 .. n : s[i] = s[j] => i = j
  <2> SUFFICES ASSUME NEW i \in 1 .. n, NEW j \in 1 .. n, i < j PROVE s[i] # s[j]
    BY <1>2
  <2>1. Newer(s[i], s[j]) /\ s[i] \in 0 .. tick /\ Written(s[i]) \in 0 .. tick
    BY <1>1, <1>3
  <2> QED
    BY <2>1 DEF Newer
<1>6. s \in Surjection(1 .. n, S)
  <2>1. s \in Injection(1 .. n, S)
    BY <1>3, <1>5, Fun_IsInj
  <2>2. Cardinality(1 .. n) = n
    BY <1>2, FS_Interval
  <2> QED
    BY <1>2, <2>1, <2>2, FS_Injection
<1>7. ToSet(s) = S
  BY <1>3, <1>4, <1>6, Fun_SurjectionProperties DEF ToSet
<1> QED
  BY <1>3, <1>4, <1>7 DEF s

\* The hours that have folders are bounded, so that there is a latest one of them.
LEMMA HoursBounded == ASSUME StoreInv PROVE hours \in SUBSET (0 .. ForeignHour)
<1>1. tick \in Nat /\ tick <= Horizon /\ tick \in Coming
  BY Calendar DEF StoreInv, StoreTypeOK, Time, Coming
<1>2. Hour(tick) < ForeignHour /\ Hour(tick) \in Nat /\ ForeignHour \in Nat
  BY <1>1, BeforeForeign, Calendar
<1>3. hours \subseteq Nat /\ \A h \in hours : h = ForeignHour \/ h <= Hour(tick)
  BY <1>1 DEF StoreInv, Held, Newest, UpTo
<1> QED
  BY <1>2, <1>3

\* The hours the search visits: the latest of a day, and the one before an hour.
LEMMA LatestHourFacts ==
  ASSUME StoreInv, NEW D
  PROVE  LET own == {h \in hours : h # ForeignHour /\ Day(h) \in D}
         IN IF own = {} THEN LatestHourOf(D) = None
            ELSE LatestHourOf(D) \in own /\ \A g \in own : g <= LatestHourOf(D)
<1> DEFINE own == {h \in hours : h # ForeignHour /\ Day(h) \in D}
<1>1. own \in SUBSET (0 .. ForeignHour) /\ ForeignHour \in Nat
  BY HoursBounded, Calendar
<1>2. own # {} => Largest(own) \in own /\ \A y \in own : y <= Largest(own)
  <2> HIDE DEF own
  <2> QED
    BY <1>1, HasLargest
<1>3. LatestHourOf(D) = IF own = {} THEN None ELSE Largest(own)
  BY DEF LatestHourOf
<1> HIDE DEF own
<1>4. IF own = {} THEN LatestHourOf(D) = None
      ELSE LatestHourOf(D) \in own /\ \A g \in own : g <= LatestHourOf(D)
  BY <1>2, <1>3
<1> QED
  BY <1>4 DEF own

LEMMA PreviousHourFacts ==
  ASSUME StoreInv, NEW h \in Nat
  PROVE  \/ /\ PreviousHour(h) = None
            /\ \A g \in hours : ~(Day(g) = Day(h) /\ g < h)
         \/ /\ PreviousHour(h) \in hours
            /\ PreviousHour(h) < h /\ Day(PreviousHour(h)) = Day(h)
            /\ \A g \in hours : Day(g) = Day(h) /\ g < h => g <= PreviousHour(h)
<1> DEFINE own == {g \in hours : Day(g) = Day(h) /\ g < h}
<1>1. own \in SUBSET (0 .. ForeignHour) /\ ForeignHour \in Nat
  BY HoursBounded, Calendar
<1>2. own # {} => Largest(own) \in own /\ \A y \in own : y <= Largest(own)
  <2> HIDE DEF own
  <2> QED
    BY <1>1, HasLargest
<1>3. PreviousHour(h) = IF own = {} THEN None ELSE Largest(own)
  BY DEF PreviousHour
<1> QED
  BY <1>2, <1>3

\* The search skips no hour that has a folder, unless a whole day has none.
LEMMA BeforeFacts ==
  ASSUME StoreInv, NEW h \in Nat, Day(h) < Day(ForeignHour)
  PROVE  /\ Before(h) # None => /\ Before(h) \in Nat /\ Before(h) < h
                                /\ Day(Before(h)) < Day(ForeignHour)
                                /\ \A g \in hours : g < h => g <= Before(h)
         /\ Before(h) = None => /\ \A g \in hours : g < h => Day(g) < Day(h)
                                /\ Day(h) > 0 => \A g \in hours : Day(g) # Day(h) - 1
<1>1. /\ hours \subseteq Nat /\ None \notin Nat /\ Day(h) \in Nat /\ Day(ForeignHour) \in Nat
      /\ \A g \in hours : g \in Nat /\ Day(g) \in Nat /\ (g <= h => Day(g) <= Day(h))
                         /\ (h <= g => Day(h) <= Day(g))
  BY Calendar DEF StoreInv, Held
<1>2. CASE PreviousHour(h) # None
  <2>1. /\ Before(h) = PreviousHour(h) /\ Before(h) \in hours
        /\ Before(h) < h /\ Day(Before(h)) = Day(h)
        /\ \A g \in hours : Day(g) = Day(h) /\ g < h => g <= Before(h)
    BY <1>2, PreviousHourFacts DEF Before
  <2>2. ASSUME NEW g \in hours, g < h PROVE g <= Before(h)
    <3>0. g \in Nat /\ Before(h) \in Nat /\ Day(g) \in Nat /\ (g <= h => Day(g) <= Day(h))
      BY ONLY <1>1, <2>1, g \in hours
    <3>4. g <= h
      BY ONLY <2>2, <3>0, h \in Nat
    <3>1. Day(g) <= Day(h) /\ g \in Nat /\ Before(h) \in Nat /\ Day(g) \in Nat
      BY ONLY <3>0, <3>4
    <3>2. CASE Day(g) = Day(h)
      BY <2>1, <2>2, <3>2
    <3>3. CASE Day(g) < Day(h)
      <4>1. Before(h) <= g => Day(Before(h)) <= Day(g)
        BY <3>1, Calendar
      <4> QED
        BY <1>1, <2>1, <3>1, <3>3, <4>1
    <3> QED
      BY <1>1, <3>1, <3>2, <3>3
  <2> QED
    BY <1>1, <2>1, <2>2
<1>3. CASE PreviousHour(h) = None
  <2>1. Before(h) = PreviousDay(h) /\ \A g \in hours : ~(Day(g) = Day(h) /\ g < h)
    BY <1>1, <1>3, PreviousHourFacts DEF Before
  <2>2. \A g \in hours : g < h => Day(g) < Day(h)
    BY <1>1, <2>1
  <2>3. CASE Day(h) = 0
    <3>1. Before(h) = None
      BY <2>1, <2>3 DEF PreviousDay
    <3> QED
      BY <2>2, <2>3, <3>1
  <2>4. CASE Day(h) # 0
    <3> DEFINE D == {Day(h) - 1}
               own == {g \in hours : g # ForeignHour /\ Day(g) \in D}
    <3>1. Before(h) = LatestHourOf(D)
      BY <2>1, <2>4 DEF PreviousDay
    <3>2. IF own = {} THEN LatestHourOf(D) = None
          ELSE LatestHourOf(D) \in own /\ \A g \in own : g <= LatestHourOf(D)
      <4> HIDE DEF D
      <4> QED
        BY LatestHourFacts
    <3>3. \A g \in hours : g \in own <=> Day(g) = Day(h) - 1
      BY <1>1
    <3>4. own \subseteq hours
      OBVIOUS
    <3> HIDE DEF own, D
    <3>5. CASE own = {}
      BY <2>2, <3>1, <3>2, <3>3, <3>5
    <3>6. CASE own # {}
      <4>1. Before(h) \in own /\ Before(h) \in hours /\ \A g \in own : g <= Before(h)
        BY <3>1, <3>2, <3>4, <3>6
      <4>2. Before(h) \in Nat /\ Day(Before(h)) = Day(h) - 1
        BY <1>1, <3>3, <4>1
      <4>3. Before(h) < h
        BY <1>1, <4>1, <4>2
      <4>4. ASSUME NEW g \in hours, g < h PROVE g <= Before(h)
        <5>1. Day(g) < Day(h) /\ g \in Nat /\ Day(g) \in Nat
          BY <1>1, <2>2, <4>4
        <5>2. CASE Day(g) = Day(h) - 1
          BY <3>3, <4>1, <5>2
        <5>3. CASE Day(g) < Day(h) - 1
          <6>1. Before(h) <= g => Day(Before(h)) <= Day(g)
            BY <4>2, <5>1, Calendar
          <6> QED
            BY <1>1, <4>2, <5>1, <5>3, <6>1
        <5> QED
          BY <1>1, <5>1, <5>2, <5>3
      <4>5. Before(h) # None
        BY <1>1, <4>2
      <4> QED
        BY <1>1, <4>2, <4>3, <4>4, <4>5
    <3> QED
      BY <3>5, <3>6
  <2> QED
    BY <2>3, <2>4
<1> QED
  BY <1>2, <1>3

\* The recording being written is the recorder's; a recording is closed after it was
\* begun, a later one is closed later, and none after the next one has its name.
Dated ==
  /\ live = IF rec.step = "recording" THEN rec.name ELSE None
  /\ \A f \in mp4 : f <= Written(f)
  /\ \A f, g \in mp4 : f < g => Written(f) <= Written(g)
  /\ rec.step \in {"hour", "open"} => \A f \in mp4 : Written(f) <= rec.name

\* What a query has listed and found, and the recordings complete since it was asked.
Listed ==
  query.step = "stat" =>
    /\ query.kind \in {"latest", "older", "before"} /\ query.at \in Nat
    /\ query.listed \subseteq 0 .. tick /\ query.found \in Seq(0 .. tick)
    /\ \A f \in query.listed \cup ToSet(query.found) : \A t \in Coming : f <= t
    /\ query.complete \subseteq Complete
    /\ \A f \in query.listed : Hour(f) = query.at
    /\ \A f \in query.complete : Hour(f) = query.at => f \in query.listed

\* A search back in time names the newest recordings first, has passed over none that is
\* early enough, and those deleted since are older than any that was not.
Walked ==
  (query.step = "stat" /\ query.kind # "latest") =>
    /\ query.limit \in Nat /\ Day(query.at) < Day(ForeignHour)
    /\ \A i, j \in 1 .. Len(query.found) : i < j => query.found[i] > query.found[j]
    /\ \A f \in ToSet(query.found) : Hour(f) > query.at
    /\ \A f \in query.complete : Older(f) /\ Hour(f) > query.at => f \in ToSet(query.found)
    /\ \A g \in ToSet(query.found) : g \in mp4 \/ \A f \in query.complete : g < f

\* What has been found before a file was closed is not written again.
Limited ==
  (query.step = "stat" /\ query.kind = "older") =>
    /\ query.limit \in Nat /\ query.limit <= tick
    /\ rec.step \in {"hour", "open"} => query.limit <= rec.name
    /\ live \notin ToSet(query.found)
    /\ \A f \in ToSet(query.found) : f < query.limit

QueryType ==
  query = [kind |-> query.kind, step |-> query.step, limit |-> query.limit,
           at |-> query.at, listed |-> query.listed, found |-> query.found,
           folders |-> query.folders, complete |-> query.complete]

QueryInv == QueryType /\ Dated /\ Listed /\ Walked /\ Limited

LEMMA QueryInit == StoreInit => QueryInv
<1> SUFFICES ASSUME StoreInit PROVE QueryInv
  OBVIOUS
<1>1. /\ query.step = "idle" /\ live = None /\ rec.step = "idle" /\ mp4 = {}
      /\ QueryType
  BY DEF StoreInit, NoQuery, QueryType
<1> QED
  BY <1>1 DEF QueryInv, Dated, Listed, Walked, Limited

\* Only the history of a query changes when a recording is deleted or begun.
LEMMA OnlyForgets ==
  ASSUME QueryType, NEW S, Forget(S)
  PROVE  /\ UNCHANGED <<query.kind, query.step, query.limit, query.at, query.listed,
                        query.found>>
         /\ query'.complete = query.complete \ S
         /\ QueryType'
<1>1. query' = [query EXCEPT !.complete = query.complete \ S]
  BY DEF Forget
<1>2. query' = [kind |-> query.kind, step |-> query.step, limit |-> query.limit,
                at |-> query.at, listed |-> query.listed, found |-> query.found,
                folders |-> query.folders, complete |-> query.complete \ S]
  BY <1>1 DEF QueryType
<1> QED
  BY <1>2 DEF QueryType

\* The recording being written is later than any other.
LEMMA LiveIsLast ==
  ASSUME StoreInv, Dated
  PROVE  /\ live # None => live \in Coming /\ live = rec.name
         /\ \A f \in mp4 : \A t \in Coming : f <= t /\ f \in Nat /\ t \in Nat
         /\ \A f \in mp4 : /\ f \in 0 .. tick /\ Written(f) \in 0 .. tick
                           /\ f = live => Written(f) = tick
                           /\ f # live => Written(f) = mtime[f]
         /\ tick \in Nat /\ tick \in Coming
<1>1. /\ tick \in Time /\ tick \in Nat /\ mtime \in [Time -> 0 .. tick]
      /\ mp4 \subseteq 0 .. tick /\ \A t \in Coming : t \in Nat
  BY StoreTypes DEF StoreInv, StoreTypeOK
<1>2. \A f \in mp4 : f \in Nat /\ \A t \in Coming : f <= t
  BY <1>1 DEF StoreInv, Newest, UpTo
<1>3. live # None => live \in Coming /\ live = rec.name
  BY DEF Dated, Coming
<1>4. ASSUME NEW f \in mp4 PROVE f \in 0 .. tick /\ Written(f) \in 0 .. tick
  BY <1>1, WrittenType
<1>5. tick \in Coming
  BY DEF Coming
<1> QED
  BY <1>1, <1>2, <1>3, <1>4, <1>5 DEF Written

\* Time, and the recorder, keep the order of the recordings.
LEMMA DatedStep == ASSUME StoreInv, Dated, [StoreNext]_storeVars PROVE Dated'
<1>0. /\ None \notin Nat
      /\ live = IF rec.step = "recording" THEN rec.name ELSE None
      /\ \A f \in mp4 : f <= Written(f)
      /\ \A f, g \in mp4 : f < g => Written(f) <= Written(g)
      /\ rec.step \in {"hour", "open"} => \A f \in mp4 : Written(f) <= rec.name
  BY Calendar DEF Dated
<1>1. CASE UNCHANGED <<tick, mtime, live, rec>> /\ mp4' \subseteq mp4
  <2>1. ASSUME NEW f PROVE Written(f)' = Written(f)
    BY <1>1 DEF Written
  <2> QED
    BY <1>0, <1>1, <2>1 DEF Dated
<1>2. CASE StartsRecording \/ CreateHour
  <2>1. /\ UNCHANGED <<tick, mtime, live, mp4>> /\ live = None
        /\ rec'.step # "recording" /\ (rec'.name = tick \/ (rec.step = "hour" /\ rec'.name = rec.name))
    BY <1>0, <1>2 DEF StartsRecording, CreateHour, StoreInv, Held
  <2>2. ASSUME NEW f PROVE Written(f)' = Written(f)
    BY <2>1 DEF Written
  <2>3. \A f \in mp4 : Written(f) <= rec'.name
    BY <1>0, <2>1, LiveIsLast
  <2> QED
    BY <1>0, <2>1, <2>2, <2>3 DEF Dated
<1>3. CASE OpenFile
  <2>1. CASE Hour(rec.name) \notin hours
    <3>1. /\ UNCHANGED <<tick, mtime, live, mp4>> /\ live = None
          /\ rec'.step = "idle"
      BY <1>0, <1>3, <2>1 DEF OpenFile
    <3>2. ASSUME NEW f PROVE Written(f)' = Written(f)
      BY <3>1 DEF Written
    <3> QED
      BY <1>0, <3>1, <3>2 DEF Dated
  <2>2. CASE Hour(rec.name) \in hours
    <3>1. /\ mp4' = mp4 \cup {rec.name} /\ live' = rec.name /\ rec'.step = "recording"
          /\ rec'.name = rec.name /\ live = None /\ UNCHANGED <<tick, mtime>>
      BY <1>0, <1>3, <2>2 DEF OpenFile, StoreInv, Held
    <3>2. rec.name \in Coming /\ rec.name \in 0 .. tick
      BY <1>0, <1>3, StoreTypes DEF OpenFile, StoreInv, Held, Coming
    <3>3. Written(rec.name)' = tick
      BY <3>1 DEF Written
    <3>4. ASSUME NEW f \in mp4, f # rec.name
          PROVE  /\ Written(f)' = Written(f) /\ Written(f) \in 0 .. tick /\ f <= rec.name
                 /\ f \in Nat
      <4>1. f # live /\ f # live' /\ Written(f) = mtime[f] /\ Written(f) \in 0 .. tick
        BY <1>0, <3>1, <3>4, LiveIsLast
      <4> QED
        BY <3>1, <3>2, <4>1, LiveIsLast DEF Written
    <3>5. tick \in Nat /\ rec.name <= tick /\ rec.name \in Nat
      BY <3>2, LiveIsLast
    <3>6. \A f \in mp4' : f <= Written(f)'
      BY <1>0, <3>1, <3>3, <3>4, <3>5
    <3>7. ASSUME NEW f \in mp4', NEW g \in mp4', f < g PROVE Written(f)' <= Written(g)'
      <4>1. CASE f = rec.name
        BY <3>1, <3>4, <3>5, <3>7, <4>1
      <4>2. CASE f # rec.name /\ g = rec.name
        BY <3>1, <3>3, <3>4, <3>5, <4>2
      <4>3. CASE f # rec.name /\ g # rec.name
        BY <1>0, <3>1, <3>4, <3>7, <4>3
      <4> QED
        BY <4>1, <4>2, <4>3
    <3> QED
      BY <3>1, <3>6, <3>7 DEF Dated
  <2> QED
    BY <2>1, <2>2
<1>4. CASE StopsRecording
  <2>1. /\ UNCHANGED <<tick, mp4>> /\ live' = None /\ rec'.step = "idle"
        /\ mtime' = IF live \in mp4 THEN [mtime EXCEPT ![live] = tick] ELSE mtime
        /\ mtime \in [Time -> 0 .. tick]
    BY <1>4 DEF StopsRecording, StoreInv, StoreTypeOK
  <2>2. ASSUME NEW f \in mp4 PROVE Written(f)' = Written(f)
    <3>1. f \in Time /\ f # None
      BY <1>0, StoreTypes DEF StoreInv
    <3>2. mtime'[f] = Written(f)
      BY <2>1, <3>1 DEF Written
    <3> QED
      BY <2>1, <3>1, <3>2 DEF Written
  <2> QED
    BY <1>0, <2>1, <2>2 DEF Dated
<1>5. CASE Tick
  <2>1. UNCHANGED <<mp4, mtime, live, rec>> /\ tick' = tick + 1
    BY <1>5 DEF Tick, files
  <2>2. ASSUME NEW f \in mp4
        PROVE  /\ Written(f)' = IF f = live THEN tick + 1 ELSE Written(f)
               /\ Written(f) \in 0 .. tick /\ tick \in Nat /\ f \in 0 .. tick
               /\ f = live => Written(f) = tick
    BY <2>1, LiveIsLast DEF Written
  <2>3. ASSUME NEW f \in mp4, NEW g \in mp4, f < g PROVE Written(f)' <= Written(g)'
    <3>1. f # live
      <4> SUFFICES ASSUME f = live PROVE FALSE
        OBVIOUS
      <4>1. f \in Coming
        BY <1>0, <2>2, LiveIsLast
      <4>2. g <= f
        BY <4>1, LiveIsLast
      <4> QED
        BY <2>2, <2>3, <4>2
    <3>2. Written(f) <= Written(g)
      BY <1>0, <2>3
    <3> QED
      BY <2>2, <3>1, <3>2
  <2>4. \A f \in mp4 : f <= Written(f)'
    BY <1>0, <2>2
  <2>5. ASSUME rec.step \in {"hour", "open"}, NEW f \in mp4 PROVE Written(f)' <= rec.name
    <3>1. f # live
      BY <1>0, <2>2, <2>5
    <3> QED
      BY <1>0, <2>2, <2>5, <3>1
  <2> QED
    BY <1>0, <2>1, <2>3, <2>4, <2>5 DEF Dated
<1>6. CASE \/ WritePreview \/ WakesUp \/ ChecksSpace \/ PicksFile \/ DropFolder
           \/ RemovesFile \/ DropEmptyHour \/ DropEmptyDay
           \/ Destroyed \/ Query \/ OthersWrite \/ UNCHANGED storeVars
  <2>1. UNCHANGED <<tick, mtime, live, rec>> /\ mp4' \subseteq mp4
    BY <1>6 DEF storeVars, files, Query, WritePreview, WakesUp, ChecksSpace, PicksFile,
       DropFolder, RemovesFile, DropEmptyHour, DropEmptyDay, Destroyed, AsksLatest, AsksOlder,
       AsksBefore, Asks, ReadsTimes, OthersWrite
  <2> QED
    BY <1>1, <2>1
<1> QED
  BY <1>2, <1>3, <1>4, <1>5, <1>6 DEF StoreNext, Record, Rotation

\* What a sequence holds.
LEMMA ToSetFacts ==
  ASSUME NEW A, NEW s \in Seq(A)
  PROVE  /\ ToSet(s) \subseteq A /\ \A i \in 1 .. Len(s) : s[i] \in ToSet(s)
         /\ \A x \in ToSet(s) : \E i \in 1 .. Len(s) : s[i] = x
         /\ Len(s) \in Nat
<1>1. Len(s) \in Nat /\ DOMAIN s = 1 .. Len(s) /\ \A i \in 1 .. Len(s) : s[i] \in A
  OBVIOUS
<1> QED
  BY <1>1 DEF ToSet

\* The fields of a query that only its own steps change.
Asked == <<query.kind, query.step, query.limit, query.at, query.listed, query.found>>

\* Time passes, and no recording is taken for complete that is not, written again, or
\* deleted before an older one.
Spared ==
  /\ tick' \in Nat /\ tick <= tick' /\ \A t \in Coming' : t \in Coming \/ (t \in Nat /\ tick <= t)
  /\ query'.complete \subseteq query.complete /\ query'.complete \subseteq Complete'
  /\ \A f \in query'.complete : Written(f)' = Written(f)
  /\ \A g \in mp4 \ mp4', f \in query'.complete : g < f

\* While that is so, what holds of a query goes on holding.
LEMMA ListedKept ==
  ASSUME StoreInv, Listed, Asked' = Asked, Spared
  PROVE  Listed'
<1> SUFFICES ASSUME query'.step = "stat" PROVE Listed'
  BY DEF Listed
<1>1. /\ query'.step = query.step /\ query'.at = query.at /\ query'.listed = query.listed
      /\ query'.found = query.found /\ query'.kind = query.kind
  BY DEF Asked
<1>2. /\ query.kind \in {"latest", "older", "before"} /\ query.at \in Nat
      /\ query.listed \subseteq 0 .. tick /\ query.found \in Seq(0 .. tick)
      /\ \A f \in query.listed \cup ToSet(query.found) : \A t \in Coming : f <= t
      /\ \A f \in query.listed : Hour(f) = query.at
      /\ \A f \in query.complete : Hour(f) = query.at => f \in query.listed
  BY <1>1 DEF Listed
<1>3. tick \in Nat /\ tick' \in Nat /\ tick <= tick' /\ \A t \in Coming : t \in Nat
  BY StoreTypes DEF StoreInv, Spared
<1>4. query.listed \subseteq 0 .. tick'
  BY <1>2, <1>3
<1>5. query.found \in Seq(0 .. tick')
  <2> DEFINE A == 0 .. tick
             B == 0 .. tick'
  <2>1. A \subseteq B /\ query.found \in Seq(A)
    BY <1>2, <1>3
  <2> HIDE DEF A, B
  <2>2. query.found \in Seq(B)
    BY <2>1
  <2> QED
    BY <2>2 DEF B
<1>6. ToSet(query.found) \subseteq 0 .. tick
  BY ONLY <1>2, ToSetFacts
<1>7. ASSUME NEW f \in query.listed \cup ToSet(query.found), NEW t \in Coming' PROVE f <= t
  <2>1. f \in 0 .. tick
    BY <1>2, <1>6
  <2>2. CASE t \in Coming
    BY <1>2, <2>2
  <2>3. CASE t \in Nat /\ tick <= t
    <3>1. f \in Nat /\ f <= tick
      BY <1>3, <2>1
    <3> QED
      BY ONLY <1>3, <2>3, <3>1
  <2> QED
    BY <2>2, <2>3 DEF Spared
<1>8. query'.complete \subseteq query.complete /\ query'.complete \subseteq Complete'
  BY DEF Spared
<1> QED
  BY <1>1, <1>2, <1>4, <1>5, <1>7, <1>8 DEF Listed

LEMMA WalkedKept ==
  ASSUME StoreInv, Walked, Asked' = Asked, Spared
  PROVE  Walked'
<1> SUFFICES ASSUME query'.step = "stat", query'.kind # "latest" PROVE Walked'
  BY DEF Walked
<1>1. /\ query'.step = query.step /\ query'.at = query.at /\ query'.limit = query.limit
      /\ query'.kind = query.kind /\ query'.found = query.found
  BY DEF Asked
<1>2. /\ query.limit \in Nat /\ Day(query.at) < Day(ForeignHour)
      /\ \A i, j \in 1 .. Len(query.found) : i < j => query.found[i] > query.found[j]
      /\ \A f \in ToSet(query.found) : Hour(f) > query.at
      /\ \A f \in query.complete : Older(f) /\ Hour(f) > query.at => f \in ToSet(query.found)
      /\ \A g \in ToSet(query.found) : g \in mp4 \/ \A f \in query.complete : g < f
  BY <1>1 DEF Walked
<1>3. /\ query'.complete \subseteq query.complete
      /\ \A g \in mp4 \ mp4', f \in query'.complete : g < f
  BY DEF Spared
<1>4. \A f \in query'.complete : Older(f)' <=> Older(f)
  BY <1>1 DEF Spared, Older
<1>5. ASSUME NEW g \in ToSet(query.found)
      PROVE  g \in mp4' \/ \A f \in query'.complete : g < f
  BY <1>2, <1>3
<1> QED
  BY <1>1, <1>2, <1>3, <1>4, <1>5 DEF Walked

\* The recordings a query has to answer for are closed, and not the one being written.
LEMMA Closed ==
  ASSUME StoreInv, Dated, Listed, query.step = "stat", NEW f \in query.complete
  PROVE  /\ f \in mp4 /\ f # live /\ f \in Time /\ f # None
         /\ Written(f) = mtime[f] /\ Written(f) \in Nat
<1>1. f \in mp4 /\ f # live
  BY DEF Listed, Complete
<1>2. f \in Time /\ f # None /\ Written(f) \in 0 .. tick /\ Written(f) = mtime[f]
  BY <1>1, LiveIsLast, StoreTypes, Calendar DEF StoreInv
<1> QED
  BY <1>1, <1>2, LiveIsLast

\* No step of the recorder or of rotation does anything else.
LEMMA SparesComplete ==
  ASSUME StoreInv, QueryInv, query.step = "stat", [StoreNext]_storeVars, ~Query
  PROVE  Spared /\ Asked' = Asked /\ QueryType'
<1>0. /\ None \notin Nat /\ tick \in Nat /\ StoreInv /\ Dated /\ Listed /\ QueryType
      /\ query.complete \subseteq mp4 /\ live \notin query.complete
  BY Calendar, StoreTypes DEF StoreInv, QueryInv, Listed, Complete
<1>1. CASE UNCHANGED <<tick, mtime, live, query>> /\ mp4' = mp4
           /\ rec'.name \in {rec.name, None, tick}
  <2>1. \A f : Written(f)' = Written(f)
    BY <1>1 DEF Written
  <2>2. Coming' \subseteq Coming /\ query'.complete \subseteq Complete'
    BY <1>0, <1>1 DEF Coming, Complete
  <2> QED
    BY <1>0, <1>1, <2>1, <2>2 DEF Spared, Asked, QueryType
<1>2. CASE OpenFile /\ Hour(rec.name) \in hours
  <2>1. /\ mp4' = mp4 \cup {rec.name} /\ live' = rec.name /\ UNCHANGED <<tick, mtime>>
        /\ rec'.name = rec.name /\ Forget({rec.name})
    BY <1>2 DEF OpenFile, StoreInv, Held
  <2>2. /\ Asked' = Asked /\ QueryType' /\ query'.complete = query.complete \ {rec.name}
    BY <1>0, <2>1, OnlyForgets DEF Asked
  <2>3. \A f \in query'.complete : Written(f)' = Written(f)
    BY <1>0, <2>1, <2>2 DEF Written
  <2>4. Coming' = Coming /\ query'.complete \subseteq Complete'
    BY <1>0, <2>1, <2>2 DEF Coming, Complete
  <2> QED
    BY <1>0, <2>1, <2>2, <2>3, <2>4 DEF Spared
<1>3. CASE StopsRecording
  <2>1. /\ UNCHANGED <<tick, mp4, query>> /\ live' = None /\ rec'.name = None
        /\ mtime' = IF live \in mp4 THEN [mtime EXCEPT ![live] = tick] ELSE mtime
        /\ mtime \in [Time -> 0 .. tick]
    BY <1>3 DEF StopsRecording, StoreInv, StoreTypeOK
  <2>2. ASSUME NEW f \in query'.complete PROVE Written(f)' = Written(f)
    <3>1. f # live /\ f \in Time /\ f # None /\ Written(f) = mtime[f]
      BY <1>0, <2>1, Closed
    <3> QED
      BY <2>1, <3>1 DEF Written
  <2>3. Coming' \subseteq Coming /\ query'.complete \subseteq Complete'
    BY <1>0, <2>1, Closed DEF Coming, Complete
  <2> QED
    BY <1>0, <2>1, <2>2, <2>3 DEF Spared, Asked, QueryType
<1>4. CASE DropFolder \/ RemovesFile
  <2>1. /\ mp4' \subseteq mp4 /\ UNCHANGED <<tick, mtime, live, rec>>
        /\ Forget(mp4 \ mp4')
    BY <1>4 DEF DropFolder, RemovesFile
  <2>2. /\ Asked' = Asked /\ QueryType' /\ query'.complete = query.complete \ (mp4 \ mp4')
    BY <1>0, <2>1, OnlyForgets DEF Asked
  <2>3. \A f : Written(f)' = Written(f)
    BY <2>1 DEF Written
  <2>4. Coming' = Coming /\ query'.complete \subseteq Complete'
    BY <1>0, <2>1, <2>2 DEF Coming, Complete
  <2>5. query'.complete \subseteq mp4'
    BY <1>0, <2>2
  <2>6. \A g \in mp4 \ mp4', f \in query'.complete : g < f
    BY <1>4, <2>5, RotatesOldest
  <2> QED
    BY <1>0, <2>1, <2>2, <2>3, <2>4, <2>6 DEF Spared
<1>5. CASE Tick
  <2>1. UNCHANGED <<mp4, mtime, live, rec, query>> /\ tick' = tick + 1
    BY <1>5 DEF Tick, files
  <2>2. ASSUME NEW f \in query'.complete PROVE Written(f)' = Written(f)
    BY <1>0, <2>1 DEF Written
  <2>3. query'.complete \subseteq Complete'
    BY <1>0, <2>1 DEF Complete
  <2>4. tick' \in Nat /\ tick <= tick' /\ \A t \in Coming' : t \in Coming \/ t = tick'
    BY <1>0, <2>1 DEF Coming
  <2> QED
    BY <1>0, <2>1, <2>2, <2>3, <2>4 DEF Spared, Asked, QueryType
<1> QED
  <2>1. CASE StartsRecording \/ CreateHour \/ WritePreview \/ WakesUp \/ ChecksSpace
             \/ PicksFile \/ DropEmptyHour \/ DropEmptyDay \/ Destroyed \/ OthersWrite
             \/ UNCHANGED storeVars
    BY <1>1, <2>1 DEF storeVars, files, StartsRecording, CreateHour, WritePreview, WakesUp,
       ChecksSpace, PicksFile, DropEmptyHour, DropEmptyDay, Destroyed, OthersWrite, StoreInv,
       Held
  <2>2. CASE OpenFile /\ Hour(rec.name) \notin hours
    BY <1>1, <2>2 DEF OpenFile
  <2> QED
    BY <1>2, <1>3, <1>4, <1>5, <2>1, <2>2 DEF StoreNext, Record, Rotation

\* The recording that is opened is later than what a search has found.
LEMMA LimitedKept ==
  ASSUME StoreInv, QueryInv, Asked' = Asked, [StoreNext]_storeVars, ~Query
  PROVE  Limited'
<1> SUFFICES ASSUME query'.step = "stat", query'.kind = "older" PROVE Limited'
  BY DEF Limited
<1>1. /\ query'.step = query.step /\ query'.limit = query.limit
      /\ query'.kind = query.kind /\ query'.found = query.found
  BY DEF Asked
<1>2. /\ query.limit \in Nat /\ query.limit <= tick
      /\ rec.step \in {"hour", "open"} => query.limit <= rec.name
      /\ live \notin ToSet(query.found)
      /\ \A f \in ToSet(query.found) : f < query.limit
  BY <1>1 DEF Limited, QueryInv
<1>3. /\ None \notin Nat /\ tick \in Nat /\ rec.name \in Nat \cup {None}
      /\ rec.step # "idle" => rec.name \in Nat
  BY Calendar, StoreTypes DEF StoreInv, Held
<1>4. None \notin ToSet(query.found) /\ \A f \in ToSet(query.found) : f \in Nat
  <2>1. query.found \in Seq(0 .. tick)
    BY <1>1 DEF QueryInv, Listed
  <2>2. ToSet(query.found) \subseteq 0 .. tick
    BY ONLY <2>1, ToSetFacts
  <2> QED
    BY <1>3, <2>2
<1>5. CASE OpenFile /\ Hour(rec.name) \in hours
  <2>1. /\ live' = rec.name /\ UNCHANGED tick /\ rec'.step = "recording"
        /\ rec.step = "open" /\ rec.name \in Nat
    BY <1>3, <1>5 DEF OpenFile, StoreInv, Held
  <2>2. rec.name \notin ToSet(query.found)
    <3> SUFFICES ASSUME rec.name \in ToSet(query.found) PROVE FALSE
      OBVIOUS
    <3>1. rec.name < query.limit /\ query.limit <= rec.name
      BY <1>2, <2>1
    <3> QED
      BY ONLY <1>2, <2>1, <3>1
  <2> QED
    BY <1>1, <1>2, <2>1, <2>2 DEF Limited
<1>6. CASE OpenFile /\ Hour(rec.name) \notin hours
  BY <1>1, <1>2, <1>6 DEF OpenFile, Limited
<1>7. CASE StartsRecording
  BY <1>1, <1>2, <1>7 DEF StartsRecording, Limited
<1>8. CASE CreateHour
  BY <1>1, <1>2, <1>8 DEF CreateHour, Limited, StoreInv, Held
<1>9. CASE StopsRecording
  BY <1>1, <1>2, <1>4, <1>9 DEF StopsRecording, Limited
<1>10. CASE Tick
  <2>1. query.limit <= tick' /\ UNCHANGED <<rec, live>>
    BY <1>2, <1>3, <1>10 DEF Tick
  <2> QED
    BY <1>1, <1>2, <2>1 DEF Limited
<1>11. CASE UNCHANGED <<tick, live, rec>>
  BY <1>1, <1>2, <1>11 DEF Limited
<1> QED
  BY <1>5, <1>6, <1>7, <1>8, <1>9, <1>10, <1>11 DEF StoreNext, Record, Rotation,
     storeVars, WritePreview, WakesUp, ChecksSpace, PicksFile, DropFolder, RemovesFile,
     DropEmptyHour, DropEmptyDay, Destroyed, OthersWrite

\* A step that is not the query's own keeps what holds of it.
LEMMA OthersSpare ==
  ASSUME StoreInv, QueryInv, [StoreNext]_storeVars, ~Query
  PROVE  QueryInv'
<1>1. Dated'
  BY DatedStep DEF QueryInv
<1>2. CASE query.step = "stat"
  <2>1. Spared /\ Asked' = Asked /\ QueryType'
    BY <1>2, SparesComplete
  <2> QED
    BY <1>1, <2>1, ListedKept, WalkedKept, LimitedKept DEF QueryInv
<1>3. CASE query.step # "stat"
  <2>1. query' = query \/ \E S : Forget(S)
    BY DEF StoreNext, Record, Rotation, storeVars, StartsRecording, CreateHour, OpenFile,
       StopsRecording, WritePreview, WakesUp, ChecksSpace, PicksFile, DropFolder,
       RemovesFile, DropEmptyHour, DropEmptyDay, Destroyed, Tick, OthersWrite
  <2>2. query'.step # "stat" /\ QueryType'
    <3>1. CASE query' = query
      BY <1>3, <3>1 DEF QueryInv, QueryType
    <3>2. CASE \E S : Forget(S)
      <4>1. PICK S : Forget(S)
        BY <3>2
      <4>2. query'.step = query.step /\ QueryType'
        BY <4>1, OnlyForgets DEF QueryInv
      <4> QED
        BY <1>3, <4>2
    <3> QED
      BY <2>1, <3>1, <3>2
  <2> QED
    BY <1>1, <2>2 DEF QueryInv, Listed, Walked, Limited
<1> QED
  BY <1>2, <1>3

\* A question starts with an hour of which nothing is known yet.
LEMMA AskedIs ==
  ASSUME NEW kind, NEW limit, NEW h, Asks(kind, limit, h)
  PROVE  /\ UNCHANGED <<tick, mp4, mtime, hours, live, rec>> /\ query.step = "idle"
         /\ h = None => query' = Reply(<<>>)
         /\ h # None => query' = [kind |-> kind, step |-> "stat", limit |-> limit, at |-> h,
                                  listed |-> InHour(mp4, h), found |-> <<>>,
                                  folders |-> 1, complete |-> Complete]
<1>1. UNCHANGED <<tick, mp4, mtime, hours, live, rec>> /\ query.step = "idle"
  BY DEF Asks, files
<1>2. h = None => query' = Reply(<<>>)
  BY DEF Asks
<1>3. h # None => query' = Visit([NoQuery EXCEPT !.kind = kind, !.limit = limit,
                                                 !.complete = Complete], h)
  BY DEF Asks
<1>4. h # None => query' = [kind |-> kind, step |-> "stat", limit |-> limit, at |-> h,
                            listed |-> InHour(mp4, h), found |-> <<>>,
                            folders |-> 0 + 1, complete |-> Complete]
  BY <1>3 DEF Visit, NoQuery
<1>5. 0 + 1 = 1
  OBVIOUS
<1> QED
  BY <1>1, <1>2, <1>4, <1>5

LEMMA ReplyIs ==
  ASSUME NEW found, NEW q, q = Reply(found)
  PROVE  q = [kind |-> "none", step |-> "replied", limit |-> None, at |-> None,
              listed |-> {}, found |-> found, folders |-> 0, complete |-> {}]
  BY DEF Reply, NoQuery

\* A reply that is given leaves nothing to hold.
LEMMA Replied ==
  ASSUME NEW found, query' = Reply(found), Dated'
  PROVE  QueryInv' /\ query'.step = "replied" /\ query'.found = found
<1>1. /\ query'.kind = "none" /\ query'.step = "replied" /\ query'.found = found
      /\ QueryType'
  BY ReplyIs DEF QueryType
<1> QED
  BY <1>1 DEF QueryInv, Listed, Walked, Limited

LEMMA AskedListed ==
  ASSUME StoreInv, Dated, NEW kind \in {"latest", "older", "before"}, NEW limit,
         NEW h \in Nat, Asks(kind, limit, h)
  PROVE  /\ Listed' /\ QueryType' /\ ToSet(query'.found) = {} /\ Len(query'.found) = 0
         /\ query' = [kind |-> kind, step |-> "stat", limit |-> limit, at |-> h,
                      listed |-> InHour(mp4, h), found |-> <<>>, folders |-> 1,
                      complete |-> Complete]
<1>1. /\ UNCHANGED <<tick, mp4, mtime, hours, live, rec>>
      /\ query' = [kind |-> kind, step |-> "stat", limit |-> limit, at |-> h,
                   listed |-> InHour(mp4, h), found |-> <<>>, folders |-> 1,
                   complete |-> Complete]
  BY AskedIs, Calendar
<1>2. /\ query'.kind = kind /\ query'.step = "stat" /\ query'.limit = limit
      /\ query'.at = h /\ query'.listed = InHour(mp4, h) /\ query'.found = <<>>
      /\ query'.complete = Complete /\ QueryType'
  BY <1>1 DEF QueryType
<1>3. ToSet(query'.found) = {} /\ Len(query'.found) = 0 /\ query'.found \in Seq(0 .. tick)
  BY <1>2 DEF ToSet
<1>4. /\ query'.listed \subseteq 0 .. tick /\ \A f \in query'.listed : Hour(f) = h
      /\ \A f \in query'.listed : \A t \in Coming : f <= t
      /\ \A f \in query'.complete : Hour(f) = h => f \in query'.listed
  BY <1>2, LiveIsLast DEF InHour, Complete
<1>5. Coming' = Coming /\ Complete' = Complete
  BY <1>1 DEF Coming, Complete
<1>6. Listed'
  BY <1>1, <1>2, <1>3, <1>4, <1>5 DEF Listed
<1> QED
  BY <1>1, <1>2, <1>3, <1>6

\* A search back in time from a recording's hour, or from the hour of the time asked
\* about, has left out no later hour that it should have looked at.
LEMMA AskedWalked ==
  ASSUME StoreInv, Dated, NEW kind \in {"older", "before"}, NEW limit \in Nat, NEW h \in Nat,
         Asks(kind, limit, h), Day(h) < Day(ForeignHour),
         \A f \in mp4 : Hour(f) > h => limit <= Written(f)
  PROVE  Walked'
<1>1. /\ UNCHANGED <<tick, mp4, mtime, hours, live, rec>>
      /\ query'.kind = kind /\ query'.limit = limit
      /\ query'.at = h /\ query'.complete = Complete
      /\ ToSet(query'.found) = {} /\ Len(query'.found) = 0
  BY AskedListed, AskedIs
<1>2. ASSUME NEW f \in query'.complete, Hour(f) > h PROVE ~Older(f)'
  <2>1. f \in mp4 /\ Written(f)' = Written(f) /\ Written(f) \in Nat
    BY <1>1, <1>2, LiveIsLast DEF Complete, Written
  <2>2. limit <= Written(f)
    BY <1>2, <2>1
  <2> QED
    BY <1>1, <2>1, <2>2 DEF Older
<1> QED
  BY <1>1, <1>2 DEF Walked

\* A question starts a search of which the invariant holds.
LEMMA AsksStep ==
  ASSUME StoreInv, QueryInv, Dated', NEW kind, NEW limit, NEW h, Asks(kind, limit, h),
         \/ kind = "latest" /\ (h = None \/ h \in Nat)
         \/ kind = "older" /\ \E f \in mp4 : limit = Written(f) /\ h = Hour(f)
         \/ kind = "before" /\ \E t \in AskedTimes : limit = t /\ h = Hour(t)
  PROVE  QueryInv'
<1>0. Dated /\ None \notin Nat
  BY Calendar DEF QueryInv
<1>1. CASE kind = "latest" /\ h = None
  BY <1>1, AskedIs, Replied
<1>2. CASE kind = "latest" /\ h \in Nat
  <2>1. Listed' /\ QueryType' /\ query'.kind = "latest"
    BY <1>0, <1>2, AskedListed
  <2> QED
    BY <2>1 DEF QueryInv, Walked, Limited
<1>3. ASSUME kind = "older", NEW f \in mp4, limit = Written(f), h = Hour(f)
      PROVE  QueryInv'
  <2>1. /\ f \in 0 .. tick /\ limit \in 0 .. tick /\ tick \in Nat /\ tick <= Horizon
        /\ Horizon \in Nat
    <3>1. tick \in Nat /\ tick \in Time
      BY StoreTypes DEF StoreInv
    <3>2. tick <= Horizon /\ Horizon \in Nat
      BY <3>1, Calendar DEF Time
    <3> QED
      BY <1>0, <1>3, <3>1, <3>2, LiveIsLast
  <2>2. f \in Nat /\ f <= Horizon /\ limit \in Nat /\ limit <= tick
    BY <2>1
  <2>3. h \in Nat /\ Day(h) < Day(ForeignHour)
    BY <1>3, <2>2, BeforeForeign, Calendar
  <2>4. ASSUME NEW g \in mp4, Hour(g) > h PROVE limit <= Written(g)
    <3>1. g \in Nat /\ (g <= f => Hour(g) <= Hour(f)) /\ Hour(g) \in Nat
      BY <1>0, <2>2, LiveIsLast, Calendar
    <3>2. f < g
      BY <1>3, <2>2, <2>3, <2>4, <3>1
    <3> QED
      BY <1>0, <1>3, <3>2 DEF Dated
  <2>5. Listed' /\ QueryType' /\ Walked'
    <3>1. kind \in {"latest", "older", "before"} /\ kind \in {"older", "before"}
      BY <1>3
    <3>2. Listed' /\ QueryType'
      BY <1>0, <2>3, <3>1, AskedListed
    <3>3. Walked'
      BY <1>0, <2>2, <2>3, <2>4, <3>1, AskedWalked
    <3> QED
      BY <3>2, <3>3
  <2>6. /\ query'.limit = limit /\ ToSet(query'.found) = {}
        /\ UNCHANGED <<tick, rec>>
    BY <1>0, <2>3, AskedListed, AskedIs
  <2>7. rec.step \in {"hour", "open"} => limit <= rec.name
    BY <1>0, <1>3 DEF Dated
  <2>8. Limited'
    BY <2>2, <2>6, <2>7 DEF Limited
  <2> QED
    BY <2>5, <2>8 DEF QueryInv
<1>4. ASSUME kind = "before", NEW t \in AskedTimes, limit = t, h = Hour(t)
      PROVE  QueryInv'
  <2>1. t \in Nat /\ t <= Horizon
    BY StoreAssumption, Calendar DEF StoreAssumption
  <2>2. h \in Nat /\ Day(h) < Day(ForeignHour)
    BY <1>4, <2>1, BeforeForeign, Calendar
  <2>3. ASSUME NEW g \in mp4, Hour(g) > h PROVE limit <= Written(g)
    <3>1. g \in Nat /\ (g <= t => Hour(g) <= Hour(t)) /\ Hour(g) \in Nat
      BY <1>0, <2>1, LiveIsLast, Calendar
    <3>2. t < g
      BY <1>4, <2>1, <2>2, <2>3, <3>1
    <3>3. g <= Written(g) /\ Written(g) \in Nat
      BY <1>0, LiveIsLast DEF Dated
    <3> QED
      BY <1>4, <2>1, <3>1, <3>2, <3>3
  <2>4. Listed' /\ QueryType' /\ Walked'
    BY <1>0, <1>4, <2>1, <2>2, <2>3, AskedListed, AskedWalked
  <2>5. query'.kind = "before"
    BY <1>0, <1>4, <2>2, AskedListed
  <2> QED
    BY <2>4, <2>5 DEF QueryInv, Limited
<1> QED
  BY <1>1, <1>2, <1>3, <1>4

\* Two sequences, one after the other.
LEMMA Appended ==
  ASSUME NEW A, NEW s \in Seq(A), NEW t \in Seq(A)
  PROVE  /\ s \o t \in Seq(A) /\ ToSet(s \o t) = ToSet(s) \cup ToSet(t)
         /\ Len(s \o t) = Len(s) + Len(t)
         /\ \A i \in 1 .. Len(s \o t) :
              IF i <= Len(s) THEN i \in 1 .. Len(s) /\ (s \o t)[i] = s[i]
              ELSE i - Len(s) \in 1 .. Len(t) /\ (s \o t)[i] = t[i - Len(s)]
<1> DEFINE u == s \o t
<1>0. Len(s) \in Nat /\ Len(t) \in Nat
  OBVIOUS
<1>1. /\ u \in Seq(A) /\ Len(u) = Len(s) + Len(t)
      /\ \A i \in 1 .. Len(s) + Len(t) : u[i] = IF i <= Len(s) THEN s[i] ELSE t[i - Len(s)]
  BY ConcatProperties
<1> HIDE DEF u
<1>2. \A i \in 1 .. Len(u) :
        IF i <= Len(s) THEN i \in 1 .. Len(s) /\ u[i] = s[i]
        ELSE i - Len(s) \in 1 .. Len(t) /\ u[i] = t[i - Len(s)]
  BY <1>0, <1>1
<1>3. ToSet(u) \subseteq ToSet(s) \cup ToSet(t)
  <2> SUFFICES ASSUME NEW x \in ToSet(u) PROVE x \in ToSet(s) \cup ToSet(t)
    OBVIOUS
  <2>1. PICK i \in 1 .. Len(u) : u[i] = x
    BY <1>1, ToSetFacts
  <2>2. CASE i <= Len(s)
    BY <1>2, <2>1, <2>2, ToSetFacts
  <2>3. CASE ~(i <= Len(s))
    BY <1>2, <2>1, <2>3, ToSetFacts
  <2> QED
    BY <2>2, <2>3
<1>4. ToSet(s) \subseteq ToSet(u)
  <2> SUFFICES ASSUME NEW x \in ToSet(s) PROVE x \in ToSet(u)
    OBVIOUS
  <2>1. PICK i \in 1 .. Len(s) : s[i] = x
    BY ToSetFacts
  <2>2. i \in 1 .. Len(u) /\ u[i] = s[i]
    BY <1>0, <1>1, <1>2
  <2> QED
    BY <1>1, <2>1, <2>2, ToSetFacts
<1>5. ToSet(t) \subseteq ToSet(u)
  <2> SUFFICES ASSUME NEW x \in ToSet(t) PROVE x \in ToSet(u)
    OBVIOUS
  <2>1. PICK i \in 1 .. Len(t) : t[i] = x
    BY ToSetFacts
  <2>2. i + Len(s) \in 1 .. Len(u) /\ ~(i + Len(s) <= Len(s)) /\ (i + Len(s)) - Len(s) = i
    BY <1>0, <1>1
  <2>3. u[i + Len(s)] = t[i]
    BY <1>2, <2>2
  <2> QED
    BY <1>1, <2>1, <2>2, <2>3, ToSetFacts
<1> QED
  BY <1>1, <1>2, <1>3, <1>4, <1>5 DEF u

\* What a search back in time has in hand when the folder at hand is read.
Searched(all) ==
  /\ all \in Seq(0 .. tick)
  /\ ToSet(all) = ToSet(query.found) \cup {f \in query.listed : Older(f)}
  /\ \A i, j \in 1 .. Len(all) : i < j => all[i] > all[j]
  /\ \A f \in ToSet(all) : Hour(f) >= query.at
  /\ \A f \in query.complete : Older(f) /\ Hour(f) >= query.at => f \in ToSet(all)
  /\ \A g \in ToSet(all) : g \in mp4 \/ \A f \in query.complete : g < f

\* Among the recordings that are there, the newer file has the later name.
LEMMA NewerIsLater ==
  ASSUME StoreInv, Dated, NEW f \in mp4, NEW g \in mp4
  PROVE  Newer(f, g) <=> f > g
<1>1. f \in Nat /\ g \in Nat /\ Written(f) \in Nat /\ Written(g) \in Nat
  BY LiveIsLast
<1>2. /\ f < g => Written(f) <= Written(g)
      /\ g < f => Written(g) <= Written(f)
  BY DEF Dated
<1> QED
  BY <1>1, <1>2 DEF Newer

\* Reading the folder at hand adds what is early enough in it.
LEMMA ReadsFolder ==
  ASSUME StoreInv, QueryInv, query.step = "stat", query.kind # "latest",
         query.listed \subseteq mp4
  PROVE  Searched(query.found \o Sorted({f \in query.listed : Older(f)}))
<1> DEFINE L == {f \in query.listed : Older(f)}
           s == query.found
           t == Sorted(L)
           u == s \o t
           A == 0 .. tick
<1>0. /\ Dated /\ tick \in Nat /\ tick \in Time /\ mtime \in [Time -> 0 .. tick]
      /\ query.at \in Nat /\ \A f \in mp4 : Hour(f) \in Nat
  BY StoreTypes DEF StoreInv, StoreTypeOK, QueryInv, Listed
<1>1. /\ s \in Seq(A) /\ L \in SUBSET A /\ L \subseteq mp4 /\ L \subseteq query.listed
      /\ \A f \in query.listed : Hour(f) = query.at
      /\ \A f \in query.complete : Hour(f) = query.at => f \in query.listed
      /\ query.complete \subseteq mp4
  BY DEF QueryInv, Listed, Complete
<1>2. /\ \A i, j \in 1 .. Len(s) : i < j => s[i] > s[j]
      /\ \A f \in ToSet(s) : Hour(f) > query.at
      /\ \A f \in query.complete : Older(f) /\ Hour(f) > query.at => f \in ToSet(s)
      /\ \A g \in ToSet(s) : g \in mp4 \/ \A f \in query.complete : g < f
  BY DEF QueryInv, Walked
<1>3. /\ t \in Seq(A) /\ ToSet(t) = L
      /\ \A i, j \in 1 .. Len(t) : i < j => Newer(t[i], t[j])
  <2> HIDE DEF L
  <2> QED
    BY <1>0, <1>1, SortedFacts
<1>4. \A f \in query.complete : f \in query.listed /\ Older(f) => f \in L
  OBVIOUS
<1> HIDE DEF L, s, t, A
<1>5. /\ u \in Seq(A) /\ ToSet(u) = ToSet(s) \cup L /\ Len(u) \in Nat
      /\ \A i \in 1 .. Len(u) :
           IF i <= Len(s) THEN i \in 1 .. Len(s) /\ u[i] = s[i]
           ELSE i - Len(s) \in 1 .. Len(t) /\ u[i] = t[i - Len(s)]
  BY <1>1, <1>3, Appended
<1>6. Len(s) \in Nat /\ Len(t) \in Nat
  BY <1>1, <1>3
<1>7. /\ \A i \in 1 .. Len(s) : s[i] \in A /\ s[i] \in ToSet(s)
      /\ \A i \in 1 .. Len(t) : t[i] \in A /\ t[i] \in L
  BY <1>1, <1>3, ToSetFacts
<1> HIDE DEF u
<1>8. ASSUME NEW i \in 1 .. Len(u), NEW j \in 1 .. Len(u), i < j PROVE u[i] > u[j]
  <2>1. CASE j <= Len(s)
    <3>1. i <= Len(s)
      BY <1>5, <1>6, <1>8, <2>1
    <3> QED
      BY <1>2, <1>5, <1>8, <2>1, <3>1
  <2>2. CASE i <= Len(s) /\ ~(j <= Len(s))
    <3>1. u[i] \in ToSet(s) /\ u[j] \in L /\ u[i] \in A /\ u[j] \in A
      BY <1>5, <1>7, <2>2
    <3>2. Hour(u[i]) > query.at /\ Hour(u[j]) = query.at
      BY <1>1, <1>2, <3>1
    <3>3. u[i] \in Nat /\ u[j] \in Nat
      BY <1>0, <3>1 DEF A
    <3>4. Hour(u[i]) \in Nat /\ (u[i] <= u[j] => Hour(u[i]) <= Hour(u[j]))
      BY <3>3, Calendar
    <3> QED
      BY <1>0, <3>2, <3>3, <3>4
  <2>3. CASE ~(i <= Len(s))
    <3>1. ~(j <= Len(s))
      BY <1>5, <1>6, <1>8, <2>3
    <3>2. /\ i - Len(s) \in 1 .. Len(t) /\ j - Len(s) \in 1 .. Len(t)
          /\ u[i] = t[i - Len(s)] /\ u[j] = t[j - Len(s)]
      BY <1>5, <2>3, <3>1
    <3>3. i - Len(s) < j - Len(s)
      BY <1>5, <1>6, <1>8
    <3>4. Newer(u[i], u[j]) /\ u[i] \in mp4 /\ u[j] \in mp4
      BY <1>1, <1>3, <1>7, <3>2, <3>3
    <3> QED
      BY <1>0, <3>4, NewerIsLater
  <2> QED
    BY <2>1, <2>2, <2>3
<1>9. \A f \in ToSet(u) : Hour(f) >= query.at
  <2> SUFFICES ASSUME NEW f \in ToSet(u) PROVE Hour(f) >= query.at
    OBVIOUS
  <2>1. CASE f \in L
    BY <1>0, <1>1, <2>1
  <2>2. CASE f \in ToSet(s)
    <3>1. f \in A
      BY <1>1, <2>2, ToSetFacts
    <3>2. Hour(f) \in Nat /\ Hour(f) > query.at
      BY <1>0, <1>2, <2>2, <3>1, Calendar DEF A
    <3> QED
      BY <1>0, <3>2
  <2> QED
    BY <1>5, <2>1, <2>2
<1>10. ASSUME NEW f \in query.complete, Older(f), Hour(f) >= query.at PROVE f \in ToSet(u)
  <2>1. Hour(f) \in Nat
    BY <1>0, <1>1
  <2>2. CASE Hour(f) > query.at
    BY <1>2, <1>5, <1>10, <2>2
  <2>3. CASE Hour(f) = query.at
    BY <1>1, <1>4, <1>5, <1>10, <2>3
  <2> QED
    BY <1>0, <1>10, <2>1, <2>2, <2>3
<1>11. \A g \in ToSet(u) : g \in mp4 \/ \A f \in query.complete : g < f
  BY <1>1, <1>2, <1>5
<1> QED
  BY <1>5, <1>8, <1>9, <1>10, <1>11 DEF Searched, u, s, t, L, A

\* The search goes on with the folder of another hour, and what it has found.
GoesOn(all, limit, h) ==
  query' = [kind |-> query.kind, step |-> "stat", limit |-> limit, at |-> h,
            listed |-> InHour(mp4, h), found |-> all, folders |-> query.folders + 1,
            complete |-> query.complete]

\* Then the next folder is listed.
LEMMA ListsNext ==
  ASSUME StoreInv, QueryInv, query.step = "stat", NEW all \in Seq(0 .. tick),
         ToSet(all) \subseteq ToSet(query.found) \cup query.listed,
         NEW limit, NEW h \in Nat, GoesOn(all, limit, h),
         UNCHANGED <<tick, mp4, mtime, live, rec>>
  PROVE  Listed' /\ QueryType'
<1>1. /\ query'.step = "stat" /\ query'.at = h /\ query'.listed = InHour(mp4, h)
      /\ query'.kind = query.kind /\ query'.found = all /\ query'.complete = query.complete /\ QueryType'
  BY DEF GoesOn, QueryType
<1>2. /\ query.kind \in {"latest", "older", "before"}
      /\ query.complete \subseteq Complete
      /\ \A f \in ToSet(all) : \A t \in Coming : f <= t
  BY DEF QueryInv, Listed
<1>3. /\ InHour(mp4, h) \subseteq 0 .. tick /\ \A f \in InHour(mp4, h) : Hour(f) = h
      /\ \A f \in InHour(mp4, h) : \A t \in Coming : f <= t
      /\ \A f \in Complete : Hour(f) = h => f \in InHour(mp4, h)
  BY LiveIsLast DEF InHour, Complete, QueryInv
<1>4. Coming' = Coming /\ Complete' = Complete /\ tick' = tick
  BY DEF Coming, Complete
<1> QED
  BY <1>1, <1>2, <1>3, <1>4 DEF Listed

\* The next folder is the one before, so that none is passed over.
LEMMA WalksOn ==
  ASSUME StoreInv, QueryInv, query.step = "stat", query.kind # "latest",
         query.listed \subseteq mp4, NEW all, Searched(all),
         NEW h, h = Before(query.at), h # None, GoesOn(all, query.limit, h),
         UNCHANGED <<tick, mp4, mtime, live, rec>>
  PROVE  Listed' /\ QueryType' /\ Walked' /\ Limited'
<1>0. /\ Dated /\ tick \in Nat /\ query.at \in Nat /\ query.limit \in Nat
      /\ Day(query.at) < Day(ForeignHour) /\ query.complete \subseteq mp4
  BY StoreTypes DEF StoreInv, QueryInv, Listed, Walked, Complete
<1>1. /\ query'.step = "stat" /\ query'.kind = query.kind /\ query'.limit = query.limit
      /\ query'.at = h /\ query'.found = all /\ query'.complete = query.complete
  BY DEF GoesOn
<1>2. /\ h \in Nat /\ h < query.at /\ Day(h) < Day(ForeignHour)
      /\ \A g \in hours : g < query.at => g <= h
  BY <1>0, BeforeFacts
<1>3. /\ all \in Seq(0 .. tick)
      /\ ToSet(all) = ToSet(query.found) \cup {f \in query.listed : Older(f)}
      /\ \A i, j \in 1 .. Len(all) : i < j => all[i] > all[j]
      /\ \A f \in ToSet(all) : Hour(f) >= query.at
      /\ \A f \in query.complete : Older(f) /\ Hour(f) >= query.at => f \in ToSet(all)
      /\ \A g \in ToSet(all) : g \in mp4 \/ \A f \in query.complete : g < f
  BY DEF Searched
<1>4. Listed' /\ QueryType'
  BY <1>2, <1>3, ListsNext
<1>5. ASSUME NEW f \in ToSet(all) PROVE Hour(f) > h
  <2>1. f \in 0 .. tick
    BY <1>3, ToSetFacts
  <2>2. f \in Nat /\ Hour(f) >= query.at
    BY <1>0, <1>3, <2>1
  <2>3. Hour(f) \in Nat
    BY <2>2, Calendar
  <2> QED
    BY <1>0, <1>2, <2>2, <2>3
<1>6. ASSUME NEW f \in query.complete, Older(f), Hour(f) > h PROVE f \in ToSet(all)
  <2>1. Hour(f) \in hours /\ Hour(f) \in Nat
    BY <1>0, StoreTypes DEF StoreInv, StoreTypeOK
  <2>2. Hour(f) >= query.at
    BY <1>0, <1>2, <1>6, <2>1
  <2> QED
    BY <1>3, <1>6, <2>2
<1>7. \A f : Older(f)' <=> Older(f)
  BY <1>1 DEF Older, Written
<1>8. Walked'
  BY <1>0, <1>1, <1>2, <1>3, <1>5, <1>6, <1>7 DEF Walked
<1>9. ASSUME query.kind = "older" PROVE Limited'
  <2>1. /\ query.limit <= tick
        /\ rec.step \in {"hour", "open"} => query.limit <= rec.name
        /\ live \notin ToSet(query.found)
        /\ \A f \in ToSet(query.found) : f < query.limit
    BY <1>9 DEF QueryInv, Limited
  <2>2. ASSUME NEW f \in query.listed, Older(f) PROVE f # live /\ f < query.limit
    <3>1. /\ f \in mp4 /\ f \in Nat /\ Written(f) \in Nat /\ f <= Written(f)
          /\ f = live => Written(f) = tick
      BY <1>0, LiveIsLast DEF Dated
    <3>2. Written(f) < query.limit
      BY <2>2 DEF Older
    <3> QED
      BY <1>0, <2>1, <3>1, <3>2
  <2> QED
    BY <1>0, <1>1, <1>3, <2>1, <2>2 DEF Limited
<1>10. query.kind # "older" => Limited'
  BY <1>1 DEF Limited
<1> QED
  BY <1>4, <1>8, <1>9, <1>10

\* What is found in the latest hours, with the hour at hand.
LEMMA ReadsLatest ==
  ASSUME StoreInv, QueryInv, query.step = "stat"
  PROVE  LET S == ToSet(query.found) \cup query.listed
         IN /\ Sorted(S) \in Seq(0 .. tick) /\ ToSet(Sorted(S)) = S
            /\ \A i, j \in 1 .. Len(Sorted(S)) : i < j => Newer(Sorted(S)[i], Sorted(S)[j])
<1> DEFINE S == ToSet(query.found) \cup query.listed
<1>1. tick \in Time /\ mtime \in [Time -> 0 .. tick]
  BY DEF StoreInv, StoreTypeOK
<1>2. query.found \in Seq(0 .. tick) /\ query.listed \subseteq 0 .. tick
  BY DEF QueryInv, Listed
<1>3. S \in SUBSET (0 .. tick)
  BY <1>2, ToSetFacts
<1> HIDE DEF S
<1>4. /\ Sorted(S) \in Seq(0 .. tick) /\ ToSet(Sorted(S)) = S
      /\ \A i, j \in 1 .. Len(Sorted(S)) : i < j => Newer(Sorted(S)[i], Sorted(S)[j])
  BY <1>1, <1>3, SortedFacts
<1> QED
  BY <1>4 DEF S

\* Reading the times of the files keeps the invariant.
LEMMA ReadsStep ==
  ASSUME StoreInv, QueryInv, Dated', ReadsTimes
  PROVE  QueryInv'
<1>1. /\ query.step = "stat" /\ UNCHANGED <<tick, mp4, mtime, hours, live, rec>>
      /\ terminated' = ~(query.listed \subseteq mp4)
      /\ QueryType /\ query.at \in Nat
  BY DEF ReadsTimes, files, QueryInv, Listed
<1>2. CASE ~(query.listed \subseteq mp4)
  <2>1. query' = query
    BY <1>1, <1>2 DEF ReadsTimes
  <2>2. Coming' = Coming /\ Complete' = Complete /\ \A f : Older(f)' <=> Older(f)
    BY <1>1, <2>1 DEF Coming, Complete, Older, Written
  <2>3. QueryType' /\ Listed' /\ Walked' /\ Limited'
    BY <1>1, <2>1, <2>2 DEF QueryInv, QueryType, Listed, Walked, Limited
  <2> QED
    BY <2>3 DEF QueryInv
<1>3. CASE query.listed \subseteq mp4 /\ query.kind = "latest"
  <2> DEFINE S == ToSet(query.found) \cup query.listed
             all == Sorted(S)
             next == IF query.limit = None /\ PreviousHour(query.at) # None
                     THEN PreviousHour(query.at) ELSE PreviousDay(query.at)
             limit == IF Day(next) = Day(query.at) THEN "hour" ELSE "day"
  <2>1. query' = LatestFound(all)
    BY <1>1, <1>3 DEF ReadsTimes
  <2>2. all \in Seq(0 .. tick) /\ ToSet(all) = S
    BY <1>1, ReadsLatest
  <2>3. \/ query' = Reply(Second(all))
        \/ next # None /\ query' = Visit([query EXCEPT !.found = all, !.limit = limit], next)
    <3> HIDE DEF all
    <3> QED
      BY <2>1 DEF LatestFound
  <2>4. next = None \/ next \in Nat
    <3>1. PreviousHour(query.at) = None \/ PreviousHour(query.at) \in hours
      BY <1>1, PreviousHourFacts
    <3>2. PreviousDay(query.at) = None \/ PreviousDay(query.at) \in hours
      <4> DEFINE D == {Day(query.at) - 1}
                 own == {h \in hours : h # ForeignHour /\ Day(h) \in D}
      <4>1. PreviousDay(query.at) = None \/ PreviousDay(query.at) = LatestHourOf(D)
        BY DEF PreviousDay
      <4>2. LatestHourOf(D) = None \/ LatestHourOf(D) \in own
        <5> HIDE DEF D
        <5> QED
          BY LatestHourFacts
      <4> QED
        BY <4>1, <4>2
    <3> QED
      BY <3>1, <3>2, StoreTypes DEF StoreInv
  <2> HIDE DEF next, limit, all
  <2>5. CASE query' = Reply(Second(all))
    BY <2>5, Replied
  <2>6. CASE next # None /\ query' = Visit([query EXCEPT !.found = all, !.limit = limit], next)
    <3>1. GoesOn(all, limit, next)
      BY <1>1, <2>6 DEF Visit, GoesOn, QueryType
    <3>2. Listed' /\ QueryType'
      BY <1>1, <2>2, <2>4, <2>6, <3>1, ListsNext
    <3>3. query'.kind = "latest"
      BY <1>3, <3>1 DEF GoesOn
    <3> QED
      BY <3>2, <3>3 DEF QueryInv, Walked, Limited
  <2> QED
    BY <2>3, <2>5, <2>6
<1>4. CASE query.listed \subseteq mp4 /\ query.kind # "latest"
  <2> DEFINE all == query.found \o Sorted({f \in query.listed : Older(f)})
             h == Before(query.at)
  <2>1. query' = OlderFound(all)
    BY <1>1, <1>4 DEF ReadsTimes
  <2>2. Searched(all)
    BY <1>1, <1>4, ReadsFolder
  <2> HIDE DEF all
  <2>3. \/ \E s : query' = Reply(s)
        \/ h # None /\ query' = Visit([query EXCEPT !.found = all], h)
    BY <2>1 DEF OlderFound
  <2> HIDE DEF h
  <2>4. CASE \E s : query' = Reply(s)
    BY <2>4, Replied
  <2>5. CASE h # None /\ query' = Visit([query EXCEPT !.found = all], h)
    <3>1. GoesOn(all, query.limit, h)
      BY <1>1, <2>5 DEF Visit, GoesOn, QueryType
    <3>2. Listed' /\ QueryType' /\ Walked' /\ Limited'
      BY <1>1, <1>4, <2>2, <2>5, <3>1, WalksOn DEF h
    <3> QED
      BY <3>2 DEF QueryInv
  <2> QED
    BY <2>3, <2>4, <2>5
<1> QED
  BY <1>2, <1>3, <1>4

\* Every step keeps the invariant of the query.
LEMMA QueryStep == ASSUME StoreInv, QueryInv, [StoreNext]_storeVars PROVE QueryInv'
<1>1. Dated'
  BY DatedStep DEF QueryInv
<1>2. CASE AsksLatest
  <2>1. \/ LatestHourOf(LatestDay) = None
        \/ LatestHourOf(LatestDay) \in Nat
    <3> DEFINE D == LatestDay
               own == {h \in hours : h # ForeignHour /\ Day(h) \in D}
    <3>1. own = {} \/ LatestHourOf(D) \in own
      <4> HIDE DEF D
      <4> QED
        BY LatestHourFacts
    <3>2. own = {} => LatestHourOf(D) = None
      <4> HIDE DEF D
      <4> QED
        BY LatestHourFacts
    <3> QED
      BY <3>1, <3>2, StoreTypes DEF StoreInv
  <2> QED
    BY <1>1, <1>2, <2>1, AsksStep DEF AsksLatest
<1>3. CASE \E f \in mp4 : AsksOlder(f)
  <2>1. PICK f \in mp4 : AsksOlder(f)
    BY <1>3
  <2>2. Asks("older", Written(f), Hour(f))
    BY <2>1 DEF AsksOlder
  <2> QED
    BY <1>1, <2>2, AsksStep
<1>4. CASE \E t \in AskedTimes : AsksBefore(t)
  <2>1. PICK t \in AskedTimes : AsksBefore(t)
    BY <1>4
  <2>2. Asks("before", t, Hour(t))
    BY <2>1 DEF AsksBefore
  <2> QED
    BY <1>1, <2>2, AsksStep
<1>5. CASE ReadsTimes
  BY <1>1, <1>5, ReadsStep
<1>6. CASE ~Query
  BY <1>6, OthersSpare
<1> QED
  BY <1>2, <1>3, <1>4, <1>5, <1>6 DEF Query

\* A part of a sequence, from its beginning.
LEMMA Beginning ==
  ASSUME NEW A, NEW s \in Seq(A), NEW k \in Nat, k <= Len(s)
  PROVE  /\ Len(SubSeq(s, 1, k)) = k
         /\ \A i \in 1 .. k : SubSeq(s, 1, k)[i] = s[i]
         /\ ToSet(SubSeq(s, 1, k)) = {s[i] : i \in 1 .. k}
<1> DEFINE p == SubSeq(s, 1, k)
<1>1. p \in Seq(A) /\ Len(p) = k /\ \A i \in 1 .. k : p[i] = s[i]
  OBVIOUS
<1>2. ToSet(p) = {p[i] : i \in 1 .. k}
  <2>1. DOMAIN p = 1 .. k
    BY <1>1
  <2> HIDE DEF p
  <2> QED
    BY <2>1 DEF ToSet
<1> HIDE DEF p
<1>3. {p[i] : i \in 1 .. k} = {s[i] : i \in 1 .. k}
  BY <1>1
<1> QED
  BY <1>1, <1>2, <1>3 DEF p

\* A reply is given when there was nowhere to look, or from what has been found.
LEMMA ReplyCases ==
  ASSUME StoreInv, QueryInv, [StoreNext]_storeVars,
         query.step # "replied", query'.step = "replied"
  PROVE  \/ query.step = "idle" /\ query'.found = <<>>
         \/ /\ ReadsTimes /\ query.step = "stat" /\ query.listed \subseteq mp4
            /\ query.kind = "latest"
            /\ query'.found = Second(Sorted(ToSet(query.found) \cup query.listed))
         \/ /\ ReadsTimes /\ query.step = "stat" /\ query.listed \subseteq mp4
            /\ query.kind # "latest"
            /\ LET all == query.found \o Sorted({f \in query.listed : Older(f)})
               IN /\ Len(all) >= Wanted \/ Before(query.at) = None \/ GivesUp
                  /\ query'.found = SubSeq(all, 1, IF Len(all) < Wanted THEN Len(all)
                                                   ELSE Wanted)
<1>1. CASE ~Query
  <2>1. query' = query \/ \E S : Forget(S)
    BY <1>1 DEF StoreNext, Record, Rotation, storeVars, StartsRecording, CreateHour,
       OpenFile, StopsRecording, WritePreview, WakesUp, ChecksSpace, PicksFile, DropFolder,
       RemovesFile, DropEmptyHour, DropEmptyDay, Destroyed, Tick, OthersWrite
  <2>2. (\E S : Forget(S)) => query'.step = query.step
    BY OnlyForgets DEF QueryInv
  <2> QED
    BY <2>1, <2>2
<1>2. ASSUME NEW kind, NEW limit, NEW h, Asks(kind, limit, h)
      PROVE  query.step = "idle" /\ query'.found = <<>>
  <2>1. query.step = "idle" /\ (query' = Reply(<<>>) \/ query'.step = "stat")
    BY <1>2, AskedIs
  <2>2. query' = Reply(<<>>) => query'.found = <<>>
    BY ReplyIs
  <2> QED
    BY <2>1, <2>2
<1>3. CASE ReadsTimes
  <2>1. query.step = "stat" /\ query.listed \subseteq mp4
    BY <1>3 DEF ReadsTimes
  <2>2. CASE query.kind = "latest"
    <3> DEFINE all == Sorted(ToSet(query.found) \cup query.listed)
    <3>1. query' = LatestFound(all)
      BY <1>3, <2>1, <2>2 DEF ReadsTimes
    <3> HIDE DEF all
    <3>2. \/ query' = Reply(Second(all))
          \/ \E q, g : query' = Visit([query EXCEPT !.found = all, !.limit = q], g)
      BY <3>1 DEF LatestFound
    <3>3. ASSUME NEW q, NEW g, query' = Visit([query EXCEPT !.found = all, !.limit = q], g)
          PROVE  query'.step = "stat"
      <4>1. QueryType
        BY DEF QueryInv
      <4>2. GoesOn(all, q, g)
        BY <3>3, <4>1 DEF Visit, QueryType, GoesOn
      <4> QED
        BY <4>2 DEF GoesOn
    <3>4. query' = Reply(Second(all))
      BY <3>2, <3>3
    <3>5. query'.found = Second(all)
      BY <3>4, ReplyIs
    <3> QED
      BY <1>3, <2>1, <2>2, <3>5 DEF all
  <2>3. CASE query.kind # "latest"
    <3> DEFINE all == query.found \o Sorted({f \in query.listed : Older(f)})
               p == SubSeq(all, 1, IF Len(all) < Wanted THEN Len(all) ELSE Wanted)
    <3>1. query' = OlderFound(all)
      BY <1>3, <2>1, <2>3 DEF ReadsTimes
    <3> HIDE DEF all
    <3>2. \/ query' = Reply(p) /\ (Len(all) >= Wanted \/ Before(query.at) = None \/ GivesUp)
          \/ query' = Visit([query EXCEPT !.found = all], Before(query.at))
      BY <3>1 DEF OlderFound
    <3> HIDE DEF p
    <3>3. query' = Visit([query EXCEPT !.found = all], Before(query.at)) => query'.step = "stat"
      BY DEF Visit, QueryInv, QueryType
    <3>4. query' = Reply(p) /\ (Len(all) >= Wanted \/ Before(query.at) = None \/ GivesUp)
      BY <3>2, <3>3
    <3>5. query'.found = p
      BY <3>4, ReplyIs
    <3> QED
      BY <1>3, <2>1, <2>3, <3>4, <3>5 DEF all, p
  <2> QED
    BY <2>2, <2>3
<1> QED
  BY <1>1, <1>2, <1>3 DEF Query, AsksLatest, AsksOlder, AsksBefore

\* No reply names the recording being written: it is the newest of all.
LEMMA CompleteStep ==
  ASSUME StoreInv, QueryInv, [StoreNext]_storeVars,
         query.step # "replied", query'.step = "replied", query.kind # "before"
  PROVE  live \notin ToSet(query'.found)
<1>0. /\ Dated /\ None \notin Nat /\ tick \in Nat /\ tick \in Time
      /\ mtime \in [Time -> 0 .. tick]
  BY Calendar, StoreTypes DEF QueryInv, StoreInv, StoreTypeOK
<1>1. CASE query'.found = <<>>
  BY <1>1 DEF ToSet
<1>2. CASE /\ query.step = "stat" /\ query.kind = "latest"
           /\ query'.found = Second(Sorted(ToSet(query.found) \cup query.listed))
  <2> DEFINE S == ToSet(query.found) \cup query.listed
             all == Sorted(S)
  <2>1. /\ all \in Seq(0 .. tick) /\ ToSet(all) = S
        /\ \A i, j \in 1 .. Len(all) : i < j => Newer(all[i], all[j])
    BY <1>2, ReadsLatest
  <2>2. \A f \in S : \A t \in Coming : f <= t
    BY <1>2 DEF QueryInv, Listed
  <2>3. query'.found = Second(all)
    BY <1>2
  <2> HIDE DEF all, S
  <2> SUFFICES ASSUME live \in ToSet(query'.found) PROVE FALSE
    OBVIOUS
  <2>4. Len(all) >= 2 /\ query'.found = <<all[2]>> /\ Len(all) \in Nat
    <3>1. Len(all) < 2 => ToSet(query'.found) = {}
      BY <2>3 DEF Second, ToSet
    <3> QED
      BY <2>1, <2>3, <3>1 DEF Second
  <2>5. live = all[2]
    BY <2>4 DEF ToSet
  <2>6. /\ all[1] \in S /\ all[1] \in 0 .. tick /\ all[2] \in 0 .. tick
        /\ Newer(all[1], all[2])
    <3>1. 1 \in 1 .. Len(all) /\ 2 \in 1 .. Len(all)
      BY <2>4
    <3>2. Newer(all[1], all[2])
      BY <2>1, <3>1
    <3>3. all[1] \in S /\ S \subseteq 0 .. tick /\ all[2] \in S
      <4> DEFINE A == 0 .. tick
      <4>1. all \in Seq(A) /\ ToSet(all) = S
        BY <2>1
      <4> HIDE DEF A
      <4>2. all[1] \in S /\ S \subseteq A /\ all[2] \in S
        BY <3>1, <4>1, ToSetFacts
      <4> QED
        BY <4>2 DEF A
    <3> QED
      BY <3>2, <3>3
  <2>7. live # None /\ live \in Coming
    <3>1. live # None
      BY <1>0, <2>5, <2>6
    <3> QED
      BY <1>0, <3>1, LiveIsLast
  <2>8. all[1] <= live
    BY <2>2, <2>6, <2>7
  <2>9. Written(all[1]) \in 0 .. tick /\ Written(live) = tick
    BY <1>0, <2>6, WrittenType DEF Written
  <2> QED
    BY <1>0, <2>5, <2>6, <2>8, <2>9 DEF Newer
<1>3. CASE /\ query.step = "stat" /\ query.kind = "older" /\ query.listed \subseteq mp4
           /\ LET all == query.found \o Sorted({f \in query.listed : Older(f)})
              IN query'.found = SubSeq(all, 1, IF Len(all) < Wanted THEN Len(all) ELSE Wanted)
  <2> DEFINE all == query.found \o Sorted({f \in query.listed : Older(f)})
             k == IF Len(all) < Wanted THEN Len(all) ELSE Wanted
  <2>1. query'.found = SubSeq(all, 1, k) /\ Searched(all)
    BY <1>3, ReadsFolder
  <2> HIDE DEF all
  <2>2. k \in Nat /\ k <= Len(all) /\ all \in Seq(0 .. tick)
    <3>1. Len(all) \in Nat /\ Wanted \in Nat /\ all \in Seq(0 .. tick)
      BY <2>1, StoreAssumption DEF Searched, Wanted, StoreAssumption
    <3> QED
      BY <3>1
  <2> HIDE DEF k
  <2>3. ToSet(query'.found) \subseteq ToSet(all)
    <3>1. ToSet(query'.found) = {all[i] : i \in 1 .. k}
      BY <2>1, <2>2, Beginning
    <3>2. \A i \in 1 .. k : i \in 1 .. Len(all) /\ all[i] \in ToSet(all)
      BY <2>2, ToSetFacts
    <3> QED
      BY <3>1, <3>2
  <2>4. live \notin ToSet(query.found) /\ query.limit \in Nat /\ query.limit <= tick
    BY <1>3 DEF QueryInv, Limited
  <2>5. ~(Older(live) /\ live \in query.listed)
    BY <1>0, <2>4 DEF Older, Written
  <2> QED
    BY <2>1, <2>3, <2>4, <2>5 DEF Searched
<1>4. query.step = "stat" => query.kind \in {"latest", "older", "before"}
  BY DEF QueryInv, Listed
<1> QED
  BY <1>1, <1>2, <1>3, <1>4, ReplyCases

\* The time of BEFORE_TIME is met by the first file early enough, so that nothing has
\* been found while the search goes on.
NothingFound == query.step = "stat" /\ query.kind = "before" => query.found = <<>>

LEMMA NothingFoundStep ==
  ASSUME StoreInv, QueryInv, NothingFound, [StoreNext]_storeVars
  PROVE  NothingFound'
<1>1. CASE ~Query
  <2>1. query' = query \/ \E S : Forget(S)
    BY <1>1 DEF StoreNext, Record, Rotation, storeVars, StartsRecording, CreateHour,
       OpenFile, StopsRecording, WritePreview, WakesUp, ChecksSpace, PicksFile, DropFolder,
       RemovesFile, DropEmptyHour, DropEmptyDay, Destroyed, Tick, OthersWrite
  <2>2. (\E S : Forget(S)) => UNCHANGED <<query.kind, query.step, query.found>>
    BY OnlyForgets DEF QueryInv
  <2> QED
    BY <2>1, <2>2 DEF NothingFound
<1>2. ASSUME NEW kind, NEW limit, NEW h, Asks(kind, limit, h)
      PROVE  NothingFound'
  <2>1. query' = Reply(<<>>) \/ query'.found = <<>>
    BY <1>2, AskedIs
  <2>2. query' = Reply(<<>>) => query'.found = <<>>
    BY ReplyIs
  <2> QED
    BY <2>1, <2>2 DEF NothingFound
<1>3. CASE ReadsTimes
  <2>1. query.step = "stat" /\ (query' = query \/ query.listed \subseteq mp4)
    BY <1>3 DEF ReadsTimes
  <2>2. CASE query' = query
    BY <2>2 DEF NothingFound
  <2>3. CASE query.kind = "before" /\ query.listed \subseteq mp4
    <3> DEFINE all == query.found \o Sorted({f \in query.listed : Older(f)})
               p == SubSeq(all, 1, IF Len(all) < Wanted THEN Len(all) ELSE Wanted)
    <3>1. query' = OlderFound(all)
      BY <1>3, <2>1, <2>3 DEF ReadsTimes
    <3>2. Searched(all) /\ Wanted = 1
      BY <2>1, <2>3, ReadsFolder DEF Wanted
    <3> HIDE DEF all
    <3>3. \/ query' = Reply(p)
          \/ Len(all) < 1 /\ query' = Visit([query EXCEPT !.found = all], Before(query.at))
      <4>1. Len(all) \in Nat
        BY <3>2 DEF Searched
      <4> QED
        BY <3>1, <3>2, <4>1 DEF OlderFound
    <3> HIDE DEF p
    <3>4. CASE query' = Reply(p)
      <4>1. query'.step = "replied"
        BY <3>4, ReplyIs
      <4> QED
        BY <4>1 DEF NothingFound
    <3>5. CASE Len(all) < 1 /\ query' = Visit([query EXCEPT !.found = all], Before(query.at))
      <4>1. query'.found = all
        BY <3>5 DEF Visit, QueryInv, QueryType
      <4>2. all = <<>>
        BY <3>2, <3>5 DEF Searched
      <4> QED
        BY <4>1, <4>2 DEF NothingFound
    <3> QED
      BY <3>3, <3>4, <3>5
  <2>4. CASE query.kind # "before" /\ query.listed \subseteq mp4
    <3>1. query'.step = "replied" \/ query'.kind = query.kind
      <4> DEFINE latest == Sorted(ToSet(query.found) \cup query.listed)
                 older == query.found \o Sorted({f \in query.listed : Older(f)})
      <4>1. query' = LatestFound(latest) \/ query' = OlderFound(older)
        BY <1>3, <2>1, <2>4 DEF ReadsTimes
      <4> HIDE DEF latest, older
      <4>2. \/ \E s : query' = Reply(s)
            \/ \E a, q, g : query' = Visit([query EXCEPT !.found = a, !.limit = q], g)
            \/ \E a, g : query' = Visit([query EXCEPT !.found = a], g)
        BY <4>1 DEF LatestFound, OlderFound
      <4>3. ASSUME NEW a, NEW q, NEW g,
                   query' = Visit([query EXCEPT !.found = a, !.limit = q], g)
            PROVE  query'.kind = query.kind
        BY <4>3 DEF Visit, QueryInv, QueryType
      <4>4. ASSUME NEW a, NEW g, query' = Visit([query EXCEPT !.found = a], g)
            PROVE  query'.kind = query.kind
        BY <4>4 DEF Visit, QueryInv, QueryType
      <4>5. ASSUME NEW s, query' = Reply(s)
            PROVE  query'.step = "replied"
        BY <4>5, ReplyIs
      <4> QED
        BY <4>2, <4>3, <4>4, <4>5
    <3> QED
      BY <2>4, <3>1 DEF NothingFound
  <2> QED
    BY <1>3, <2>1, <2>2, <2>3, <2>4
<1> QED
  BY <1>1, <1>2, <1>3 DEF Query, AsksLatest, AsksOlder, AsksBefore

\* BEFORE_TIME names the recording being written only when the time asked about is later
\* than its last write.
LEMMA BeforeStep ==
  ASSUME StoreInv, QueryInv, NothingFound, [StoreNext]_storeVars,
         query.step # "replied", query'.step = "replied", query.kind = "before",
         live \in ToSet(query'.found)
  PROVE  tick < query.limit
<1> DEFINE all == query.found \o Sorted({f \in query.listed : Older(f)})
           k == IF Len(all) < Wanted THEN Len(all) ELSE Wanted
<1>1. query'.found # <<>>
  BY DEF ToSet
<1>2. /\ query.step = "stat" /\ query.listed \subseteq mp4
      /\ query'.found = SubSeq(all, 1, k)
  BY <1>1, ReplyCases
<1>3. Searched(all)
  BY <1>2, ReadsFolder
<1> HIDE DEF all
<1>4. k \in Nat /\ k <= Len(all) /\ all \in Seq(0 .. tick)
  BY <1>3 DEF Searched, Wanted
<1> HIDE DEF k
<1>5. live \in ToSet(all)
  <2>1. ToSet(query'.found) = {all[i] : i \in 1 .. k}
    BY <1>2, <1>4, Beginning
  <2>2. \A i \in 1 .. k : i \in 1 .. Len(all) /\ all[i] \in ToSet(all)
    BY <1>4, ToSetFacts
  <2> QED
    BY <2>1, <2>2
<1>6. live \notin ToSet(query.found)
  BY <1>2 DEF NothingFound, ToSet
<1> QED
  BY <1>3, <1>5, <1>6 DEF Searched, Older, Written

\* What a search back in time leaves out is older than what it names.
LEMMA NewestReply ==
  ASSUME StoreInv, QueryInv, [StoreNext]_storeVars,
         query.step = "stat", query'.step = "replied", query.kind # "latest", NoGap
  PROVE  LET found == ToSet(query'.found)
             left  == {f \in query.complete \ found : Older(f)}
         IN IF Len(query'.found) < Wanted THEN left = {} \/ GivesUp
            ELSE \A f \in left, g \in found : Newer(g, f)
<1> DEFINE all == query.found \o Sorted({f \in query.listed : Older(f)})
           k == IF Len(all) < Wanted THEN Len(all) ELSE Wanted
           found == ToSet(query'.found)
           left == {f \in query.complete \ found : Older(f)}
<1>0. /\ Dated /\ tick \in Nat /\ query.at \in Nat /\ Day(query.at) < Day(ForeignHour)
      /\ query.complete \subseteq mp4
  BY StoreTypes DEF QueryInv, StoreInv, Listed, Walked, Complete
<1>1. /\ query.listed \subseteq mp4 /\ query'.found = SubSeq(all, 1, k)
      /\ Len(all) >= Wanted \/ Before(query.at) = None \/ GivesUp
  BY ReplyCases
<1>2. Searched(all)
  BY <1>1, ReadsFolder
<1> HIDE DEF all
<1>3. /\ all \in Seq(0 .. tick)
      /\ \A i, j \in 1 .. Len(all) : i < j => all[i] > all[j]
      /\ \A f \in ToSet(all) : Hour(f) >= query.at
      /\ \A f \in query.complete : Older(f) /\ Hour(f) >= query.at => f \in ToSet(all)
      /\ \A g \in ToSet(all) : g \in mp4 \/ \A f \in query.complete : g < f
  BY <1>2 DEF Searched
<1>4. /\ Len(all) \in Nat /\ Wanted \in Nat /\ k \in Nat /\ k <= Len(all)
      /\ k = IF Len(all) < Wanted THEN Len(all) ELSE Wanted
  <2>1. Len(all) \in Nat /\ Wanted \in Nat
    BY <1>3, StoreAssumption DEF Wanted, StoreAssumption
  <2> QED
    BY <2>1
<1> HIDE DEF k
<1>5. Len(query'.found) = k /\ found = {all[i] : i \in 1 .. k}
  BY <1>1, <1>3, <1>4, Beginning
<1> HIDE DEF found
<1>6. ASSUME NEW f \in left PROVE f \in query.complete /\ Older(f) /\ f \in mp4 /\ f \notin found
                                 /\ f \in Nat /\ Hour(f) \in Nat /\ Hour(f) \in hours
  BY <1>0, LiveIsLast, StoreTypes DEF StoreInv, StoreTypeOK
<1> HIDE DEF left
<1>7. ASSUME k < Wanted, ~GivesUp, NEW f \in left PROVE FALSE
  <2>1. k = Len(all) /\ Before(query.at) = None
    BY <1>1, <1>4, <1>7
  <2>2. f \notin ToSet(all)
    <3>1. \A x \in ToSet(all) : \E i \in 1 .. Len(all) : all[i] = x
      BY <1>3, ToSetFacts
    <3> QED
      BY <1>5, <1>6, <2>1, <3>1
  <2>3. Hour(f) < query.at
    <3>1. ~(Hour(f) >= query.at)
      BY <1>3, <1>6, <2>2
    <3> QED
      BY <1>0, <1>6, <3>1
  <2>4. /\ Day(Hour(f)) < Day(query.at)
        /\ Day(query.at) > 0 => \A g \in hours : Day(g) # Day(query.at) - 1
    BY <1>0, <1>6, <2>1, <2>3, BeforeFacts
  <2>5. Day(Hour(f)) \in Nat /\ Day(query.at) \in Nat
    BY <1>0, <1>6, Calendar
  <2>6. Day(query.at) - 1 \in Day(Hour(f)) .. Day(query.at) - 1
    BY ONLY <2>4, <2>5
  <2>7. \E g \in hours : Day(g) = Day(query.at) - 1
    BY <1>6, <2>6 DEF NoGap
  <2> QED
    BY <2>4, <2>5, <2>7
<1>8. ASSUME NEW f \in left, NEW g \in found PROVE Newer(g, f)
  <2>1. PICK j \in 1 .. k : g = all[j]
    BY <1>5
  <2>2. j \in 1 .. Len(all) /\ g \in ToSet(all) /\ g \in 0 .. tick
    <3> DEFINE A == 0 .. tick
    <3>1. j \in 1 .. Len(all) /\ all \in Seq(A)
      BY <1>3, <1>4
    <3> HIDE DEF A
    <3>2. g \in ToSet(all) /\ g \in A
      BY <2>1, <3>1, ToSetFacts
    <3> QED
      BY <3>1, <3>2 DEF A
  <2>3. g > f
    <3>1. CASE f \in ToSet(all)
      <4>1. PICK i \in 1 .. Len(all) : all[i] = f
        BY <1>3, <3>1, ToSetFacts
      <4>2. ~(i \in 1 .. k)
        BY <1>5, <1>6, <4>1
      <4>3. j < i
        BY <1>4, <4>2
      <4> QED
        BY <1>3, <2>1, <2>2, <4>1, <4>3
    <3>2. CASE f \notin ToSet(all)
      <4>1. ~(Hour(f) >= query.at) /\ Hour(g) >= query.at
        BY <1>3, <1>6, <2>2, <3>2
      <4>2. g \in Nat
        BY <2>2
      <4>3. Hour(g) \in Nat /\ (g <= f => Hour(g) <= Hour(f))
        BY <1>6, <4>2, Calendar
      <4> QED
        BY <1>0, <1>6, <4>1, <4>2, <4>3
    <3> QED
      BY <3>1, <3>2
  <2>4. g \in mp4
    <3> SUFFICES ASSUME g \notin mp4 PROVE FALSE
      OBVIOUS
    <3>1. g < f
      BY <1>3, <1>6, <2>2
    <3> QED
      BY <1>6, <2>2, <2>3, <3>1
  <2> QED
    BY <1>0, <1>6, <2>3, <2>4, NewerIsLater
<1>9. IF Len(query'.found) < Wanted THEN left = {} \/ GivesUp
      ELSE \A f \in left, g \in found : Newer(g, f)
  BY <1>5, <1>7, <1>8
<1> QED
  BY <1>9 DEF left, found

\* The replies to the viewer's queries are right, however the recorder writes and
\* RotateFiles deletes recordings while a search runs: none names the recording being
\* written, but to a BEFORE_TIME query about a time later than the last write to it, and
\* a search back in time leaves nothing out (RepliesComplete and RepliesNewest).
THEOREM QueriesAnswered == StoreSpec => RepliesRight
<1>1. StoreInv /\ [StoreNext]_storeVars => StoreInv'
  BY StoreTypeStep, HeldStep, NewestStep, OldestStep DEF StoreInv
<1>2. StoreInv /\ QueryInv /\ [StoreNext]_storeVars => QueryInv'
  BY QueryStep
<1>3. StoreInv /\ QueryInv /\ [StoreNext]_storeVars
         /\ NothingFound
        => [(query.step # "replied" /\ query'.step = "replied" /\ live \in ToSet(query'.found))
              => query.kind = "before" /\ tick < query.limit]_storeVars
  BY CompleteStep, BeforeStep
<1>4. StoreInv /\ QueryInv /\ [StoreNext]_storeVars
        => [(query.step = "stat" /\ query'.step = "replied" /\ query.kind # "latest" /\ NoGap)
              => LET found == ToSet(query'.found)
                     left  == {f \in query.complete \ found : Older(f)}
                 IN IF Len(query'.found) < Wanted THEN left = {} \/ GivesUp
                    ELSE \A f \in left, g \in found : Newer(g, f)]_storeVars
  BY NewestReply
<1>5. StoreInv /\ QueryInv /\ NothingFound /\ [StoreNext]_storeVars => NothingFound'
  BY NothingFoundStep
<1>6. StoreInit => NothingFound
  BY DEF StoreInit, NoQuery, NothingFound
<1> QED
  BY StoreInitInv, QueryInit, <1>1, <1>2, <1>3, <1>4, <1>5, <1>6, PTL
     DEF StoreSpec, RepliesRight, RepliesComplete, RepliesNewest
=============================================================================
