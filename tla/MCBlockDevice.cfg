\* Two readers and a close over one handle of a drive with larger sectors.
SPECIFICATION Spec
CONSTANTS
  Readers = {r1, r2}
  None = None
  SectorSize = 2
  DeviceSector = 4
  DeviceSize = 13
  PartitionOffset = 3
  PartitionSize = 8
  Wanted <- MCWanted
  OpenModes = {"unbuffered", "buffered"}
  Faults = {"read"}
INVARIANTS TypeOK ReadsOwnData OpenWhileReading
