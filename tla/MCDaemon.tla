------------------------------ MODULE MCDaemon ------------------------------
(***************************************************************************)
(* Small instances of Daemon for TLC.                                      *)
(***************************************************************************)
EXTENDS Daemon

\* The head of a partition of a formatted disk; only the magic matters here.
Formatted(ext) == [size |-> 69632, ext |-> ext, extents |-> ext, bit64 |-> FALSE,
               journal |-> ext, btrfs |-> FALSE]

Gpt(guid, ext) ==
  [scheme |-> "gpt", type |-> guid, length |-> 1048576, head |-> Formatted(ext)]

NoEntry ==
  [scheme |-> "gpt", type |-> "Unused", length |-> 0, head |-> Formatted(FALSE)]

\* "usb" has a data partition and a /boot partition, "ssd" a /home and a swap
\* partition, "raid" two data partitions, "boot" a /boot partition where "usb" has
\* its data.
MCLayout ==
  [usb   |-> <<Gpt("LinuxGenericData", TRUE), Gpt("LinuxBoot", TRUE)>>,
   ssd   |-> <<Gpt("LinuxHome", TRUE), Gpt("LinuxSwap", FALSE)>>,
   boot  |-> <<Gpt("LinuxBoot", TRUE), NoEntry>>,
   raid  |-> <<Gpt("LinuxHome", TRUE), Gpt("LinuxRootX86", TRUE)>>]

\* One medium to a drive number.
FixedSockets  == [d \in Disks |-> IF d = 0 THEN {"raid"} ELSE {"usb"}]
\* Drive 1 is whichever of a data disk and a boot disk is plugged in.
MixedSockets  ==
  [d \in Disks |-> IF d = 0 THEN {"ssd"} ELSE {"usb", "boot"}]
=============================================================================
