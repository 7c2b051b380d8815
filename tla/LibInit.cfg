SPECIFICATION FairSpec
CONSTANTS
  Thread = {t1, t2, t3, t4}
  NoThread = NoThread
INVARIANTS
  TypeOK
  BuiltOnce
  NewAfterBuild
PROPERTY
  EveryoneServed
