\* Two drives, every failure, hotplug, rescans, requests and close.
\* With a mutex that is held for ever everything may come to wait for it.
SPECIFICATION FairSpec
CONSTANTS
  Disks = {0, 1}
  Parts = {1, 2}
  Media = {"ssd", "usb", "boot"}
  None = None
  Sockets <- MixedSockets
  Layout <- MCLayout
  Faults = {"window", "notify", "open", "projfs"}
  Relock = {"return", "hang", "throw"}
  MaxAttach = 1
  MaxDetach = 1
  MaxClose = 2
  MaxRescan = 1
  MaxRequests = 1
INVARIANTS TypeOK RequestsHaveReader RegistryExact NothingLeft
PROPERTIES OnlyDataMounted KeepsPromise CloseEnds
CHECK_DEADLOCK FALSE
