SPECIFICATION FairSpec
CONSTANTS
  Images <- MCImages
  Root = 2
  Paths <- MCPaths
  SmallBlock = 8
  LargeBlock = 16
  OldInode = 4
  Desc32 = 2
  Desc64 = 4
  Word = 64
  HeaderSize = 2
  RecWord = 16
  None = 0
INVARIANTS TypeOK ListsAll ListsOnlyEntries RightDirectory
PROPERTY Ends
CHECK_DEADLOCK FALSE
