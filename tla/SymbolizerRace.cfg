SPECIFICATION Spec
CONSTANTS
  Thread = {t1, t2}
  Path = {p1, p2}
  Handle = {h1, h2, h3, h4}
  NoThread = NoThread
  NoHandle = NoHandle
  MaxFrames = 2
  SerialClose = FALSE
SYMMETRY Symmetry
INVARIANTS
  EngineExclusive
  InternalFailuresNeedClose
  ReclaimedByDel
  DebugInfoOfPath
PROPERTIES SuccessFreesSymbols
\* Nothing happens any more once the driver has been dropped.
CHECK_DEADLOCK FALSE
