----------------------------- MODULE Ext4Layout -----------------------------
(***************************************************************************)
(* Where Ext4Reader looks for an inode: mount takes the geometry from the   *)
(* superblock, read_group_descriptor and read_inode compute places in bytes *)
(* from it. The other half is the disk as mkfs lays it out, against which   *)
(* those places are judged.                                                 *)
(***************************************************************************)
EXTENDS Integers

CONSTANTS
  SmallBlock, LargeBlock,  \* 1024 and 65536, the least and the largest block size
  OldInode,                \* 128, the size of an inode before revision 1
  Desc32, Desc64,          \* 32 and 64, the sizes of a group descriptor
  Word                     \* 2^32

ASSUME LayoutAssumption ==
  /\ SmallBlock \in Nat \ {0} /\ LargeBlock \in Nat /\ Word \in Nat \ {0}
  /\ Desc32 \in Nat \ {0} /\ Desc64 \in Nat /\ Desc32 < Desc64
  /\ OldInode \in Nat \ {0} /\ OldInode <= SmallBlock
-----------------------------------------------------------------------------
\* What mount makes of a superblock.

block_size(sb) == SmallBlock * 2^sb.log_block_size

inode_size(sb) ==
  LET size == IF sb.rev_level >= 1 THEN sb.inode_size ELSE OldInode
  IN  IF size = 0 \/ size > block_size(sb) THEN OldInode ELSE size

desc_size(sb) ==
  IF ~sb.is_64bit THEN Desc32 ELSE IF sb.desc_size # 0 THEN sb.desc_size ELSE Desc64

total_blocks(sb) ==
  sb.blocks_count_lo + (IF sb.is_64bit THEN sb.blocks_count_hi * Word ELSE 0)

groups_count(sb) ==
  ((total_blocks(sb) + sb.blocks_per_group - 1) \div sb.blocks_per_group) % Word

Mountable(sb) ==
  /\ sb.magic
  /\ block_size(sb) \in SmallBlock .. LargeBlock
  /\ sb.blocks_per_group # 0

Geometry(sb) ==
  [block_size |-> block_size(sb), inode_size |-> inode_size(sb),
   desc_size |-> desc_size(sb), is_64bit |-> sb.is_64bit,
   groups_count |-> groups_count(sb), inodes_per_group |-> sb.inodes_per_group,
   inodes_count |-> sb.inodes_count]
-----------------------------------------------------------------------------
\* Places, in bytes from the start of the partition.

DescPlace(geo, group) ==
  (IF geo.block_size = SmallBlock THEN 2 ELSE 1) * geo.block_size + group * geo.desc_size

\* The block of the inode table, of a descriptor as it was read.
itable_block(geo, desc) ==
  desc.lo + (IF geo.is_64bit /\ geo.desc_size >= Desc64 THEN desc.hi * Word ELSE 0)

\* Mutant: inodes are counted from 0.
GroupOf_zeroBased(geo, n) == n \div geo.inodes_per_group

GroupOf(geo, n) == (n - 1) \div geo.inodes_per_group

IndexInGroup(geo, n) == (n - 1) % geo.inodes_per_group

InodePlace(geo, desc, n) ==
  itable_block(geo, desc) * geo.block_size + IndexInGroup(geo, n) * geo.inode_size
-----------------------------------------------------------------------------
\* The disk as it was made: a geometry, with the block of every group's inode table.

SuperblockOf(made) ==
  [magic |-> TRUE, log_block_size |-> made.log_block_size, rev_level |-> made.rev_level,
   inode_size |-> IF made.rev_level = 0 THEN 0 ELSE made.inode_size,
   is_64bit |-> made.is_64bit, desc_size |-> IF made.is_64bit THEN made.desc_size ELSE 0,
   blocks_count_lo |-> made.blocks_count % Word, blocks_count_hi |-> made.blocks_count \div Word,
   blocks_per_group |-> made.blocks_per_group,
   inodes_per_group |-> made.inodes_per_group,
   inodes_count |-> made.groups * made.inodes_per_group]

MadeBlockSize(made) == SmallBlock * 2^made.log_block_size

\* The superblock is at byte 1024, the descriptors begin in the block behind it.
MadeDescPlace(made, group) ==
  (SmallBlock \div MadeBlockSize(made) + 1) * MadeBlockSize(made) + group * made.desc_size

Groups(made) == 0 .. made.groups - 1

\* The inodes of a group are numbered from 1, one group after the other.
MadeInodePlace(made, group, index) ==
  made.tables[group] * MadeBlockSize(made) + index * made.inode_size

\* The inodes at a place, of a disk that has no other.
InodesAt(made, place) ==
  {n \in 1 .. made.groups * made.inodes_per_group :
     \E group \in Groups(made), index \in 0 .. made.inodes_per_group - 1 :
       /\ n = group * made.inodes_per_group + index + 1
       /\ place = MadeInodePlace(made, group, index)}

DescriptorsAt(made, place) ==
  {[lo |-> made.tables[g] % Word, hi |-> made.tables[g] \div Word] :
     g \in {group \in Groups(made) : MadeDescPlace(made, group) = place}}

\* The inodes read_inode(n) can come back with; none if it fails.
read_inode(made, geo, n) ==
  IF n \notin 1 .. geo.inodes_count \/ GroupOf(geo, n) >= geo.groups_count THEN {}
  ELSE UNION {InodesAt(made, InodePlace(geo, desc, n)) :
                desc \in DescriptorsAt(made, DescPlace(geo, GroupOf(geo, n)))}

\* A file system mkfs can make.
WellMade(made) ==
  /\ made.log_block_size \in Nat /\ MadeBlockSize(made) \in SmallBlock .. LargeBlock
  /\ made.rev_level \in Nat /\ made.is_64bit \in BOOLEAN
  /\ made.inode_size \in OldInode .. MadeBlockSize(made)
  /\ made.rev_level = 0 => made.inode_size = OldInode
  /\ made.desc_size \in Nat
  /\ IF made.is_64bit THEN made.desc_size >= Desc64 ELSE made.desc_size = Desc32
  /\ made.inodes_per_group \in Nat \ {0} /\ made.blocks_per_group \in Nat \ {0}
  /\ made.groups \in Nat \ {0} /\ made.groups + 1 < Word
  /\ made.blocks_count \in Nat
  /\ made.blocks_count > (made.groups - 1) * made.blocks_per_group
  /\ made.blocks_count <= made.groups * made.blocks_per_group + 1
  /\ made.is_64bit \/ made.blocks_count < Word
  /\ made.tables \in [Groups(made) -> 0 .. made.blocks_count - 1]

\* The inode tables do not overlap.
TablesApart(made) ==
  \A g, h \in Groups(made) :
    g # h =>
      \/ made.tables[g] * MadeBlockSize(made) + made.inodes_per_group * made.inode_size
           <= made.tables[h] * MadeBlockSize(made)
      \/ made.tables[h] * MadeBlockSize(made) + made.inodes_per_group * made.inode_size
           <= made.tables[g] * MadeBlockSize(made)
=============================================================================
