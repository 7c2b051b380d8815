SPECIFICATION MCSpec
CONSTANTS
  Cpu = {"arm64", "armv7", "x86_64"}
  Arm = {"arm64", "armv7"}
  Arm64 = {"arm64"}
  NoAddr = NoAddr
  NoImage = NoImage
  ArchOf <- MCArchOf
  NameOf <- MCNameOf
  NoUuid = NoUuid
  NoText = NoText
  Nothing = Nothing
  NoFile = NoFile
  NoMeta = NoMeta
  Uuid = {"u1", "u2"}
  CpuType <- Archs
  DebugFiles <- MCDebugFiles
  SourceFiles <- MCSourceFiles
INVARIANTS
  NearestImage
  RightFile
  InsideImage
  CallersBehind
  CrashInside
  DirectoryRight
\* A report is over once it is done or given up.
CHECK_DEADLOCK FALSE
