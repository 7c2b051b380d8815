SPECIFICATION Spec
CONSTANTS
  Thread = {t1, t2, t3}
  Path = {p1, p2}
  Handle = {h1, h2, h3}
  NoThread = NoThread
  NoHandle = NoHandle
  MaxFrames = 1
  SerialClose = TRUE
SYMMETRY Symmetry
VIEW Steering
INVARIANTS
  TypeOK
  NoUseAfterFree
  NoAccidents
  NoDoubleFree
  QuietHandles
  IInv
PROPERTIES
  ImplementsResources
\* Nothing happens any more once the driver has been dropped.
CHECK_DEADLOCK FALSE
