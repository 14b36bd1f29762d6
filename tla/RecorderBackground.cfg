SPECIFICATION FairSpec
CONSTANTS
  Ctxs = {c1, c2}
  NoCtx = NoCtx
  Workers = {w1, w2}
  NoWorker = NoWorker
  AutoStart = TRUE
  H264 = TRUE
  HeaderMayFail = FALSE
  QueueMax = 1
  Duration = 2
  KeyInterval = 1
  MaxStall = 0
  MaxTime = 4
  MaxLost = 1
INVARIANTS TypeOK ContextLive StartsOnKeyframe StreamLive SplitTimes
PROPERTIES RefinesFiles KeepsRecording
