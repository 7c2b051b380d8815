SPECIFICATION Spec
CONSTANTS
  Thread = {t1, t2}
  Path = {p1}
  Handle = {h1, h2, h3}
  NoThread = NoThread
  NoHandle = NoHandle
  MaxFrames = 1
  SerialClose = FALSE
INVARIANT
  NoUseAfterFree
\* Nothing happens any more once the driver has been dropped.
CHECK_DEADLOCK FALSE
