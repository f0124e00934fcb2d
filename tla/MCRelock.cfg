SPECIFICATION FairSpec
CONSTANTS
  Workers = {w1}
  None = None
  Inodes = {2, 3, 4, 5}
  Root = 2
  Dirs = {2, 3}
  Entries <- CaseEntries
  Names = {"d", "f", "D", "F"}
  Fold <- MCFold
  Paths <- MCPaths
  Faults = {}
  Relock = {"return", "hang", "throw"}
  MaxRequests = 1
PROPERTY Answered
CHECK_DEADLOCK FALSE
