-------------------------- MODULE MCDiskEnumerator --------------------------
(***************************************************************************)
(* Eight drive numbers and three disks for TLC: a GPT disk, an MBR disk and *)
(* one whose partitions the filter knows only by their contents.           *)
(***************************************************************************)
EXTENDS DiskEnumerator

Head(size, ext, btrfs) ==
  [size |-> size, ext |-> ext, extents |-> FALSE, bit64 |-> FALSE,
   journal |-> ext, btrfs |-> btrfs]

Entry(scheme, type, length, head) ==
  [scheme |-> scheme, type |-> type, length |-> length, head |-> head]

Ext   == Head(69632, TRUE, FALSE)
Btrfs == Head(69632, FALSE, TRUE)
Short == Head(2047, TRUE, FALSE)

\* System partitions that hold an ext superblock, an unused slot, a Windows
\* partition, a partition too short to be probed.
MCLayout ==
  [gpt  |-> <<Entry("gpt", "LinuxHome", 1048576, Ext),
              Entry("gpt", "LinuxSwap", 1048576, Ext),
              Entry("gpt", "LinuxHome", 0, Short)>>,
   mbr  |-> <<Entry("mbr", 131, 1048576, Short), Entry("mbr", 130, 1048576, Ext),
              Entry("mbr", 7, 1048576, Ext)>>,
   bare |-> <<Entry("raw", "none", 1048576, Ext), Entry("gpt", "BasicData", 1048576, Btrfs),
              Entry("raw", "none", 4095, Ext)>>]
=============================================================================
