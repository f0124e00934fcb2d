\* Every extent tree over four blocks, every set of pointers over seven; blocks of
\* data, or of the inode table, are lost at any time.
SPECIFICATION FairSpec
CONSTANTS
  Direct = 1
  Ptrs = 2
  MaxLen = 8
  Word = 64
  BlockSize = 2
  Files <- AllFiles
  Callers = {"projfs", "cat", "export"}
  Chunk = 4
  Inode = 9
  Breakable = {9, 101}
  Blocks = 4
  Depth = 2
  Pointed = 7
INVARIANTS TypeOK ShowsContents SuccessIsComplete
PROPERTY ReadEnds
CHECK_DEADLOCK FALSE
