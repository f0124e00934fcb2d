\* Disks are plugged in and stay; every request returns.
SPECIFICATION FairSpec
CONSTANTS
  Disks = {0, 1}
  Parts = {1, 2}
  Media = {"raid", "usb"}
  None = None
  Sockets <- FixedSockets
  Layout <- MCLayout
  Faults = {}
  Relock = {"return"}
  MaxAttach = 2
  MaxDetach = 0
  MaxClose = 2
  MaxRescan = 1
  MaxRequests = 1
PROPERTY InsertedIsServed

