\* Two daemons, a setup, a reboot, one choice of the user, one failing call.
\* The machine may be left in peace.
SPECIFICATION FairSpec
CONSTANTS
  Daemons = {d1, d2}
  Package <- MCPackage
  Faults = {"call", "slow", "throw", "mutex", "window", "copy", "absent"}
  Before = {FALSE}
  MaxLogons = 1
  MaxSetups = 1
  MaxChoices = 1
  MaxStarts = 2
  MaxFailures = 1
INVARIANTS TypeOK PromiseKept AskedOnce InstalledWhole
 
CHECK_DEADLOCK FALSE
