\* Two workers, every failure and every outcome of the relock; two names
\* of one directory are equal but for case.
SPECIFICATION FairSpec
CONSTANTS
  Workers = {w1, w2}
  None = None
  Inodes = {2, 3, 4, 5}
  Root = 2
  Dirs = {2, 3}
  Entries <- CaseEntries
  Names = {"d", "f", "D", "F"}
  Fold <- MCFold
  Paths <- MCPaths
  Faults = {"list", "stat", "cut"}
  Relock = {"return", "hang", "throw"}
  MaxRequests = 3
INVARIANTS TypeOK LookupSound ExactSettles ListingExact ExistingIsFound
PROPERTY AnsweredUnlessHung
CHECK_DEADLOCK FALSE
