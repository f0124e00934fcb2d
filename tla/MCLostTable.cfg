\* A block of the extent tree is lost.
SPECIFICATION Spec
CONSTANTS
  Direct = 1
  Ptrs = 2
  MaxLen = 8
  Word = 64
  BlockSize = 2
  Files <- ExtentFiles
  Callers = {"projfs"}
  Chunk = 4
  Inode = 9
  Breakable = {11}
  Blocks = 2
  Depth = 1
  Pointed = 7
INVARIANT ShowsContents
CHECK_DEADLOCK FALSE
