-------------------------- MODULE PartitionFilter --------------------------
(***************************************************************************)
(* The partition classification of src/disk/partition_filter.cpp and the   *)
(* two steps of DiskEnumerator that use it: query_disk_layout, which turns *)
(* an entry of the partition table into a kind, and                        *)
(* probe_partition_filesystem, which may still promote an Unknown kind.    *)
(*                                                                         *)
(* An entry of a drive's layout is a record                                *)
(*   scheme  "gpt", "mbr" or "raw", the entry's PartitionStyle             *)
(*   type    the name of a GPT type GUID, or an MBR type byte              *)
(*   length  PartitionLength in bytes (0: an unused slot)                  *)
(*   head    what the first bytes of the partition hold: size is the       *)
(*           number of bytes ReadFile returns (0: the read fails), the     *)
(*           other fields are the magics and feature bits probed for.      *)
(***************************************************************************)
EXTENDS Integers

PartitionKinds ==
  {"Unknown", "LinuxData", "LinuxRoot", "LinuxHome", "LinuxSrv", "LinuxVar",
   "LinuxBoot", "LinuxSwap", "EfiSystem", "BiosBoot", "WindowsMSR",
   "WindowsData", "WindowsRecovery"}

\* The GUIDs of include/linux2win/types.hpp, in the order classify_gpt tests
\* them; they are pairwise different, so the order decides nothing.
KindOfGuid ==
  [EfiSystemPartition |-> "EfiSystem",  BiosBoot        |-> "BiosBoot",
   LinuxBoot          |-> "LinuxBoot",  LinuxSwap       |-> "LinuxSwap",
   WindowsMSR         |-> "WindowsMSR", WindowsRecovery |-> "WindowsRecovery",
   LinuxGenericData   |-> "LinuxData",  LinuxRootX86_64 |-> "LinuxRoot",
   LinuxRootArm64     |-> "LinuxRoot",  LinuxRootX86    |-> "LinuxRoot",
   LinuxHome          |-> "LinuxHome",  LinuxSrv        |-> "LinuxSrv",
   LinuxVar           |-> "LinuxVar",   LinuxVarTmp     |-> "LinuxVar",
   LinuxUserHome      |-> "LinuxHome"]

classify_gpt(guid) ==
  IF guid \in DOMAIN KindOfGuid THEN KindOfGuid[guid] ELSE "Unknown"

\* is_bootable is a parameter of the code that its switch never reads.
classify_mbr(type) ==
  CASE type = 131 (* 0x83 *) -> "LinuxData"
    [] type = 130 (* 0x82 *) -> "LinuxSwap"
    [] type = 239 (* 0xEF *) -> "EfiSystem"
    [] type = 7   (* 0x07 *) -> "WindowsData"
    [] type = 39  (* 0x27 *) -> "WindowsRecovery"
    [] OTHER -> "Unknown"

is_safe_data_partition(kind) ==
  kind \in {"LinuxData", "LinuxRoot", "LinuxHome", "LinuxSrv", "LinuxVar"}

is_excluded_system_partition(kind) ==
  kind \in {"EfiSystem", "BiosBoot", "LinuxBoot", "LinuxSwap", "WindowsMSR",
            "WindowsRecovery"}

ExtFamily == {"Ext2", "Ext3", "Ext4"}

\* The superblock is looked at first, so a partition that carries both an
\* ext magic and a btrfs magic is an ext partition.
probe_filesystem(head) ==
  IF head.size < 2048 THEN "Unknown"
  ELSE IF head.ext
    THEN IF head.extents \/ head.bit64 THEN "Ext4"
         ELSE IF head.journal THEN "Ext3" ELSE "Ext2"
    ELSE IF head.size >= 65608 /\ head.btrfs THEN "Btrfs" ELSE "Unknown"

\* What query_disk_layout makes of a non-empty entry: a "raw" entry keeps the
\* default kind of PartitionInfo.
LayoutKind(entry) ==
  CASE entry.scheme = "gpt" -> classify_gpt(entry.type)
    [] entry.scheme = "mbr" -> classify_mbr(entry.type)
    [] OTHER -> "Unknown"

\* Variant: the ext superblock decides, whatever the type.
ProbedPartition_promotesAny(entry) ==
  LET fs == probe_filesystem(entry.head)
  IN  [kind |-> IF fs \in ExtFamily THEN "LinuxData" ELSE LayoutKind(entry),
       data |-> fs \in ExtFamily \/ is_safe_data_partition(LayoutKind(entry)),
       fs   |-> fs]

\* Variant: any file system that is recognised promotes an Unknown type.
ProbedPartition_promotesBtrfs(entry) ==
  LET fs == probe_filesystem(entry.head)
      promoted == fs # "Unknown" /\ LayoutKind(entry) = "Unknown"
  IN  [kind |-> IF promoted THEN "LinuxData" ELSE LayoutKind(entry),
       data |-> promoted \/ is_safe_data_partition(LayoutKind(entry)),
       fs   |-> fs]

\* The PartitionInfo after both steps of inspect_disk. A partition shorter
\* than 4096 bytes is never probed.
ProbedPartition(entry) ==
  LET kind == LayoutKind(entry)
      fs   == IF entry.length < 4096 THEN "Unknown"
              ELSE probe_filesystem(entry.head)
      promoted == fs \in ExtFamily /\ kind = "Unknown"
  IN  [kind |-> IF promoted THEN "LinuxData" ELSE kind,
       data |-> promoted \/ is_safe_data_partition(kind),
       fs   |-> fs]

\* The test get_all_mountable_partitions and the daemon's hotplug callback
\* both make, on a slot that query_disk_layout did not skip.
IsMountable(entry) ==
  /\ entry.length # 0
  /\ ProbedPartition(entry).data
  /\ ~is_excluded_system_partition(ProbedPartition(entry).kind)

=============================================================================
