SPECIFICATION MCSpec
CONSTANTS
  Uuid = {u1, u2}
  OtherName = {x}
  PathCount = 2
  NoFile = NoFile
  Unreadable = Unreadable
INVARIANTS
  Sound
  Preference
  FirstBundle
  MissedOnlyBySkipping
\* find_debug_images() returns.
CHECK_DEADLOCK FALSE
