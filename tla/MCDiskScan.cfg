\* Eight drive numbers, three disks, two changes during the scan, any failure.
SPECIFICATION Spec
CONSTANTS
  MaxDrives = 8
  MissLimit = 3
  FirstStop = 4
  Media = {"gpt", "mbr", "bare"}
  None = None
  Parts = {1, 2, 3}
  Layout <- MCLayout
  Faults = {"open", "layout", "probe"}
  MaxChanges = 2
INVARIANTS TypeOK MissedOnlyBehindGap QuietScanExact SystemNeverMountable UnknownNeedsExt
CHECK_DEADLOCK FALSE
