SPECIFICATION FairSpec
CONSTANTS
  Thread = {t1, t2}
  Path = {p1, p2}
  Handle = {h1, h2}
  NoThread = NoThread
  NoHandle = NoHandle
  MaxFrames = 1
  SerialClose = FALSE
VIEW Steering
PROPERTIES
  LockReleased
  CloseReturns
\* Nothing happens any more once the driver has been dropped.
CHECK_DEADLOCK FALSE
