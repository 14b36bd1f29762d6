SPECIFICATION Spec
CONSTANTS
  Ctxs = {c1, c2, c3}
  NoCtx = NoCtx
  Workers = {w1, w2}
  NoWorker = NoWorker
  AutoStart = FALSE
  H264 = TRUE
  HeaderMayFail = TRUE
  QueueMax = 1
  Duration = 2
  KeyInterval = 1
  MaxStall = 0
  MaxTime = 1
  MaxLost = 1
SYMMETRY Symmetry
INVARIANTS NoFileLost StopIsFinal
