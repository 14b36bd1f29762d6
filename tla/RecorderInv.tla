----------------------------- MODULE RecorderInv -----------------------------
(***************************************************************************)
(* The inductive invariants of Recorder.  In background mode only the       *)
(* capture thread starts and stops the recorder, so that Start and Stop run *)
(* one after the other, against the encoder threads alone.  In on-demand    *)
(* mode only the signaling thread does, until a file is split.              *)
(***************************************************************************)
EXTENDS Recorder

StartLabels == {"startReset", "startSpawn", "startRun", "startPending", "startDone"}
StopLabels  == {"stopReset", "stopJoin", "stopClose"}
cap == pc["cap"]

\* The signaling thread has no part in it, and a procedure returns to a caller
\* in the capture callback.
Control ==
  /\ pc["cmd"] = "idle"
  /\ cap \notin {"started", "stopped"}
  /\ cap \in StartLabels \cup {"startOpen"} => ret["cap"] \in {"gate", "rotated"}
  /\ cap \in StopLabels \cup {"stopFlag"} => ret["cap"] = "reopen"
  /\ cap \in StartLabels \cup StopLabels \cup {"startOpen", "reopen"} => ~hasFirstKeyframe
  /\ cap \in {"anchor", "split", "stopFlag"} => hasFirstKeyframe

\* The recorder holds a container while it records, starts or stops, and only
\* then; no other container is open.
Opened == hasFirstKeyframe \/ cap \in StartLabels \cup StopLabels
OneFile ==
  /\ NoFileLost /\ ContextLive
  /\ ~Opened => fmtCtx = NoCtx
  /\ cap \in StartLabels => fmtCtx # NoCtx

\* The only encoder thread is the recorder's worker, or the one being joined.
Quiet == worker = NoWorker /\ \A w \in Workers : encPc[w] = "none"
OneEncoder ==
  /\ \A w \in Workers : encPc[w] # "none" =>
       w = worker \/ (cap = "stopJoin" /\ w = joining["cap"])
  /\ cap = "stopJoin" => worker = NoWorker
  /\ cap # "stopJoin" => joining["cap"] = NoWorker
  /\ ~Opened \/ cap \in {"stopClose", "startReset", "startSpawn"} => Quiet

\* Unless a header failed, the stream belongs to the open container.
OneStream == ~HeaderMayFail /\ Opened => fmtCtx # NoCtx /\ st = fmtCtx

\* Nothing is encoded until Start is done; and while a file that is recorded
\* into has no video yet, an encoder that has begun holds its keyframe.
KeyFirst ==
  /\ \A c \in Ctxs : ctx[c].first # "delta"
  /\ \A w \in Workers : encPc[w] = "packet" => encoding
  /\ cap \in {"startSpawn", "startRun", "startPending", "startDone"} => ~encoding
  /\ cap \in {"startRun", "startPending", "startDone"} =>
       queue = <<>> /\ \A w \in Workers : encPc[w] \notin {"frame", "packet"}
  /\ hasFirstKeyframe /\ fmtCtx # NoCtx /\ ctx[fmtCtx].first = "none" /\ encoding
       => \E w \in Workers : encPc[w] = "packet" /\ encKey[w]

\* A timer waiting to be anchored belongs to a fresh start or to a rotation
\* that has not finished.
Anchored ==
  /\ baseStartTime = session
  /\ timeResetPending => fresh \/ (ret["cap"] = "rotated" /\ cap \in {"startDone", "rotated"})
  /\ cap \in StartLabels \cup {"startOpen"} /\ ret["cap"] = "gate" => fresh

\* The inductive invariant of background mode: files, encoder threads, stream,
\* first packets and split timer are consistent at every step of the callback.
BgInv == TypeOK /\ Control /\ OneFile /\ OneEncoder /\ OneStream /\ KeyFirst /\ Anchored
\* A rotation: from the frame that closes a file to the push of the same frame.
Rotating ==
  \/ cap \in StopLabels \cup {"stopFlag", "reopen", "rotated"}
  \/ cap \in StartLabels \cup {"startOpen"} /\ ret["cap"] = "rotated"

\* The clock of the frames, and the timer as SplitTime sets it.
Clock ==
  /\ fileStart <= now /\ sinceKey <= KeyInterval
  /\ frameKey => sinceKey = 0
  /\ nextGenerateTime = SplitTime(fileIndex)
  /\ cap = "stopFlag" => SplitDue
  /\ cap = "startDone" => timeResetPending
  /\ Rotating => frameKey

\* With an anchored timer, and keyframes more frequent than files: the file began
\* within a keyframe interval of the last split time, the next one was not due at
\* the last keyframe, so it is not overdue by more than the interval either.
Paced ==
  KeyInterval < Duration /\ (Rotating \/ (hasFirstKeyframe /\ ~timeResetPending)) =>
    /\ fileStart + Duration <= baseStartTime + nextGenerateTime + KeyInterval
    /\ now < baseStartTime + nextGenerateTime + KeyInterval + sinceKey
    /\ ~frameKey \/ cap \in {"idle", "push"}
       => now < baseStartTime + nextGenerateTime + sinceKey

\* The timer has split no file.
NoSplit == cap # "stopFlag"

\* On-demand mode until then: the capture thread passes frames on, the signaling
\* thread starts and stops, and what it answered is so.
Commanded ==
  LET cmd == pc["cmd"] IN
  /\ cap \in {"idle", "gate", "anchor", "split", "push"}
  /\ cmd \in StartLabels \cup {"startOpen"} => ret["cmd"] = "started"
  /\ cmd \in StopLabels \cup {"stopFlag"} => ret["cmd"] = "stopped"
  /\ cmd \in StartLabels \cup StopLabels \cup {"startOpen", "stopped"} => ~hasFirstKeyframe
  /\ cmd = "idle" /\ answered = "stopped" => ~hasFirstKeyframe
  /\ ~hasFirstKeyframe /\ cmd \notin StartLabels \cup StopLabels => fmtCtx = NoCtx
  /\ NoFileLost /\ ContextLive
=============================================================================
