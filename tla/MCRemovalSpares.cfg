\* One of two disks is pulled out.
SPECIFICATION Spec
CONSTANTS
  Disks = {0, 1}
  Parts = {1, 2}
  Media = {"raid", "usb"}
  None = None
  Sockets <- FixedSockets
  Layout <- MCLayout
  Faults = {}
  Relock = {"return"}
  MaxAttach = 0
  MaxDetach = 1
  MaxClose = 0
  MaxRescan = 0
  MaxRequests = 1
PROPERTY RemovalSparesPresent
CHECK_DEADLOCK FALSE
