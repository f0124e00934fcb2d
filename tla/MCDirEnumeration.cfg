SPECIFICATION Spec
CONSTANTS
  Guids = {g1, g2}
  Names = {"a.txt", "b.txt", "c.c", "a.c"}
  Listings <- MCListings
  Exprs = {"*.c", "a*"}
  Matches <- MCMatches
  NoExpr = "none"
  MaxStarts = 3
INVARIANTS TypeOK EachOnce NoMoreMeansAll
CHECK_DEADLOCK FALSE
