CONSTANTS
  NumDirect = 3
  SectorSize = 2
  NumSectors = 27
  Name <- MCName
  Path <- MCPath
  FileSize = {7, 19}
  NumDirEntries = 2
  DirectoryFileSize = 1
  FreeMapFileSize = 7
  PathMax = 4
SPECIFICATION Spec
INVARIANT CompleteFilesCanBeRemoved
CHECK_DEADLOCK FALSE
