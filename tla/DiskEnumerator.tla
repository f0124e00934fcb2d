--------------------------- MODULE DiskEnumerator ---------------------------
(***************************************************************************)
(* One call of DiskEnumerator::enumerate_all_disks, with the filtering that *)
(* get_all_mountable_partitions does on its result, while disks are plugged *)
(* in and out. Drive numbers are tried in turn; each drive is inspected     *)
(* through one handle, so its layout and its probes are of one medium.      *)
(***************************************************************************)
EXTENDS Integers, PartitionFilter

CONSTANTS
  MaxDrives,   \* drive numbers that are tried: 32 in the code
  MissLimit,   \* misses in a row that may end the scan: 3
  FirstStop,   \* the first number the scan may end at: 4
  Media,       \* the physical disks
  None,        \* no medium
  Parts,       \* partition numbers
  Layout,      \* Layout[m][p]: the partition table entry p of medium m
  Faults,      \* the calls that may fail: "open", "layout", "probe"
  MaxChanges   \* bound: disks plugged in or pulled out during the scan

Drives == 0 .. MaxDrives - 1

ASSUME NoneAssumption == None \notin Media
ASSUME LimitsAssumption ==
  MaxDrives \in Nat /\ MissLimit \in Nat \ {0} /\ FirstStop \in Nat
  /\ MaxChanges \in Nat
\* As many numbers as end a scan have been tried where it may first end.
ASSUME StopAssumption == FirstStop >= MissLimit - 1

VARIABLES
  attached,    \* attached[d]: the medium Windows shows as drive d
  changes,     \* what is left of MaxChanges
  i,           \* the number to try next
  consecutive_misses,
  disks,       \* the partitions listed, by drive, number and classification
  pc,          \* "scan" or "done"
  found,       \* history: the numbers inspected
  steady,      \* history: drives there, and openable, since the scan began
  quiet        \* history: no change and no failure so far

vars == <<attached, changes, i, consecutive_misses, disks, pc, found, steady,
          quiet>>

world == <<attached, changes>>

Present == {d \in Drives : attached[d] # None}

\* Variant: the loop is `i <= 32`.
MoreDrives_inclusive == pc = "scan" /\ i <= MaxDrives

MoreDrives == pc = "scan" /\ i < MaxDrives

\* Variant: the scan may end at any number.
EndsScan_early(misses) == misses >= MissLimit

EndsScan(misses) == misses >= MissLimit /\ i >= FirstStop

\* Variant: unused slots of the partition table are listed too.
UsedSlots_all(m) == Parts

UsedSlots(m) == {p \in Parts : Layout[m][p].length # 0}

\* An entry whose probe fails is listed with what its type says.
Unread(entry) == [entry EXCEPT !.head.size = 0]

PartitionInfo(d, p, entry) ==
  [disk_index |-> d, partition_number |-> p, info |-> ProbedPartition(entry),
   entry |-> entry]

\* inspect_disk opened drive i.
InspectDisk ==
  /\ MoreDrives
  /\ i \in Present
  /\ \E failed \in {{}} \cup {F \in {{"layout"}, {"probe"}} : F \subseteq Faults} :
       LET m == attached[i]
           read(p) == IF "probe" \in failed THEN Unread(Layout[m][p])
                      ELSE Layout[m][p]
       IN  /\ disks' = IF "layout" \in failed THEN disks
                       ELSE disks \cup {PartitionInfo(i, p, read(p)) : p \in UsedSlots(m)}
           /\ quiet' = (quiet /\ failed = {})
  /\ found' = found \cup {i}
  /\ consecutive_misses' = 0
  /\ i' = i + 1
  /\ UNCHANGED <<world, pc, steady>>

\* CreateFileW fails: the drive is not there, or may not be opened.
MissDisk ==
  /\ MoreDrives
  /\ i \in Present => "open" \in Faults
  /\ steady' = steady \ {i}
  /\ quiet' = (quiet /\ i \notin Present)
  /\ consecutive_misses' = consecutive_misses + 1
  /\ \/ EndsScan(consecutive_misses + 1) /\ pc' = "done" /\ UNCHANGED i
     \/ ~EndsScan(consecutive_misses + 1) /\ i' = i + 1 /\ UNCHANGED pc
  /\ UNCHANGED <<world, disks, found>>

Finish ==
  /\ pc = "scan" /\ i = MaxDrives
  /\ pc' = "done"
  /\ UNCHANGED <<world, i, consecutive_misses, disks, found, steady, quiet>>

Change ==
  /\ pc = "scan" /\ changes > 0
  /\ changes' = changes - 1
  /\ \E d \in Drives :
       \/ /\ d \notin Present
          /\ \E m \in Media : /\ \A e \in Drives : attached[e] # m
                              /\ attached' = [attached EXCEPT ![d] = m]
          /\ UNCHANGED steady
       \/ /\ d \in Present
          /\ attached' = [attached EXCEPT ![d] = None]
          /\ steady' = steady \ {d}
  /\ quiet' = FALSE
  /\ UNCHANGED <<i, consecutive_misses, disks, pc, found>>

Init ==
  /\ attached \in [Drives -> Media \cup {None}]
  /\ \A d, e \in Present : d # e => attached[d] # attached[e]
  /\ changes = MaxChanges
  /\ i = 0 /\ consecutive_misses = 0 /\ disks = {} /\ pc = "scan"
  /\ found = {} /\ steady = Present /\ quiet = TRUE

Next == InspectDisk \/ MissDisk \/ Finish \/ Change

Spec == Init /\ [][Next]_vars

\* The partitions get_all_mountable_partitions returns.
Mountable == {part \in disks : /\ part.info.data
                               /\ ~is_excluded_system_partition(part.info.kind)}
-----------------------------------------------------------------------------
Numbers == 0 .. MaxDrives

\* Every variable has the values the code can give it.
TypeOK ==
  /\ attached \in [Drives -> Media \cup {None}]
  /\ changes \in Nat
  /\ i \in Numbers /\ consecutive_misses \in Numbers
  /\ pc \in {"scan", "done"}
  /\ \A part \in disks : part.disk_index \in found
  /\ found \subseteq Drives /\ steady \subseteq Drives
  /\ quiet \in BOOLEAN

\* Numbers below d, as many as end a scan, at which nothing was steadily there.
BehindGap(d) ==
  \E j \in FirstStop .. d - 1 :
    \A k \in j - MissLimit + 1 .. j : k \notin steady

\* However disks come and go during the scan, one that stays is found unless it
\* is behind a gap in the numbers (disk_enumerator.cpp:27-45).
MissedOnlyBehindGap ==
  pc = "done" => \A d \in steady \ found : BehindGap(d)

\* A partition of a system type is never offered for mounting, whatever it
\* holds, an ext superblock included, and whatever fails
\* (disk_enumerator.cpp:185-186, 226-229, 241; partition_filter.cpp:58-123).
SystemTypes == {"EfiSystemPartition", "BiosBoot", "LinuxBoot", "LinuxSwap",
                "WindowsMSR", "WindowsRecovery"}
SystemBytes == {130, 239, 39}

SystemNeverMountable ==
  \A part \in Mountable :
    /\ part.entry.scheme = "gpt" => part.entry.type \notin SystemTypes
    /\ part.entry.scheme = "mbr" => part.entry.type \notin SystemBytes

\* A partition of a type the filter does not know is offered only if an ext
\* superblock was read from it (disk_enumerator.cpp:206-230).
UnknownNeedsExt ==
  \A part \in Mountable :
    LayoutKind(part.entry) = "Unknown" =>
      part.entry.head.ext /\ ~(part.entry.head.size < 2048)

\* A scan that nothing disturbs returns just the mountable partitions of the
\* drives that are there and not behind a gap: what Daemon calls MountableNow.
QuietScanExact ==
  pc = "done" /\ quiet =>
    {<<part.disk_index, part.partition_number>> : part \in Mountable} =
      {k \in Present \X Parts : /\ ~BehindGap(k[1])
                                /\ IsMountable(Layout[attached[k[1]]][k[2]])}

\* The numbers before i have been tried, and the misses counted are the last.
Scanned ==
  /\ \A d \in steady : d < i => d \in found
  /\ pc = "scan" =>
       \A k \in i - consecutive_misses .. i - 1 : k \notin steady
  /\ pc = "done" =>
       i = MaxDrives
       \/ /\ i < MaxDrives /\ i >= FirstStop
          /\ \A k \in i - MissLimit + 1 .. i : k \notin steady
=============================================================================
