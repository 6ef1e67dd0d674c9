CONSTANTS
  NumDirect = 3
  SectorSize = 2
  NumSectors = 17
  Name <- MCName
  Path <- MCPath
  FileSize = {1, 7}
  NumDirEntries = 2
  DirectoryFileSize = 1
  FreeMapFileSize = 7
  PathMax = 4
SPECIFICATION Spec
INVARIANT CreateHoldsItsSize
CHECK_DEADLOCK FALSE
