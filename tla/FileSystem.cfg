CONSTANTS
  NumDirect = 2
  SectorSize = 2
  NumSectors = 16
  Name <- MCName
  Path <- MCPath
  FileSize = {1, 5}
  NumDirEntries = 2
  DirectoryFileSize = 1
  FreeMapFileSize = 5
  PathMax = 4
SPECIFICATION Spec
INVARIANTS TypeOK EachSectorOneOwner CreateIsAllOrNothing ExitHarmsOnlyItsFile
  RemoveFreesItsOwn RecursiveRemoveFreesTheTree
  WritesChangeTheirBytes
CHECK_DEADLOCK FALSE
