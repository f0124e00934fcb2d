--------------------------- MODULE MCExt4Directory ---------------------------
(***************************************************************************)
(* A root directory of up to three blocks whose records fill them in every  *)
(* way, with one directory below it, on file systems of every geometry.    *)
(***************************************************************************)
EXTENDS Ext4Directory, TLC

Record(inode, name, rec_len) ==
  [inode |-> inode, name |-> name, rec_len |-> rec_len,
   file_type |-> CASE inode \in {2, 3} -> "dir" [] inode = 6 -> "link" [] OTHER -> "file"]

\* A block that reads as zeros.
ZeroRecord == [inode |-> 0, name |-> "", rec_len |-> 0, file_type |-> "none"]

\* The records of the first block: the entries of the directory itself; the last record
\* of a block takes what is left of it.
FirstBlocks(self, size) ==
  {0 :> Record(self, ".", 3) @@ 3 :> Record(2, "..", size - 3)}
  \cup {0 :> Record(self, ".", 3) @@ 3 :> Record(2, "..", 3) @@ 6 :> Record(i, "a", size - 6) :
          i \in {0, 5}}

\* The records of a further block, which starts at a place.
FurtherBlocks(at, size) ==
  {at :> ZeroRecord}
  \cup {at :> Record(i, "d", size) : i \in {0, 3}}
  \cup {at :> Record(i, "b", n) @@ (at + n) :> Record(j, "d", size - n) :
          i \in {0, 6}, j \in {0, 3}, n \in {n \in 3 .. size - 3 : n < 6}}

Directory(n, size, records) == [size |-> n * size, records |-> records]

\* The roots of one, two or three blocks.
One(size) == {Directory(1, size, b) : b \in FirstBlocks(2, size)}

Two(size) ==
  {Directory(2, size, b @@ c) : b \in FirstBlocks(2, size), c \in FurtherBlocks(size, size)}

Three(size) ==
  {Directory(3, size, b @@ c @@ d) :
     b \in FirstBlocks(2, size), c \in FurtherBlocks(size, size),
     d \in FurtherBlocks(2 * size, size)}

\* A length of RecWord, behind which the reader goes astray.
Astray ==
  {Directory(3, RecWord, 0 :> Record(2, ".", 3) @@ 3 :> Record(2, "..", RecWord - 3)
                         @@ RecWord :> Record(0, "a", RecWord) @@ b) :
     b \in {b \in FurtherBlocks(2 * RecWord, RecWord) : \A p \in DOMAIN b : b[p].inode # 0}}

Dirs(size, roots) ==
  {2 :> root @@ 3 :> Directory(1, size, b) : root \in roots, b \in FirstBlocks(3, size)}

\* The same directories on a file system that stores no types.
Untyped(dirs) ==
  [d \in DOMAIN dirs |->
     [dirs[d] EXCEPT !.records = [p \in DOMAIN @ |-> [@[p] EXCEPT !.file_type = "none"]]]]

Image(made, dirs, lost, torn) ==
  [made |-> made, magic |-> TRUE, dirs |-> dirs, links |-> {6}, lost |-> lost, torn |-> torn]

\* Three groups; the tables of the first lie behind 2^32 (64), out of order.
Wide(desc, inode) ==
  [log_block_size |-> 0, rev_level |-> 1, inode_size |-> inode, is_64bit |-> TRUE,
   desc_size |-> desc, blocks_count |-> 193, blocks_per_group |-> 64,
   inodes_per_group |-> 2, groups |-> 3, tables |-> [g \in 0..2 |-> <<70, 20, 150>>[g + 1]]]

\* An old file system of two groups with larger blocks.
Old ==
  [log_block_size |-> 1, rev_level |-> 0, inode_size |-> OldInode, is_64bit |-> FALSE,
   desc_size |-> Desc32, blocks_count |-> 40, blocks_per_group |-> 20,
   inodes_per_group |-> 4, groups |-> 2, tables |-> [g \in 0..1 |-> <<7, 30>>[g + 1]]]

MCImages ==
  {Image(Wide(4, 4), dirs, {}, {}) : dirs \in Dirs(8, One(8) \cup Two(8) \cup Three(8))}
  \cup {Image(Wide(6, 8), dirs, lost, torn) :
          dirs \in Dirs(8, Two(8)), lost \in {{}, {3}, {6}}, torn \in {{}, {3}}}
  \cup {Image(Old, Untyped(dirs), lost, {}) : dirs \in Dirs(16, Two(16)), lost \in {{}, {2}, {6}}}
  \cup {Image(Old, dirs, {}, {}) : dirs \in Dirs(16, Astray)}
  \cup {[Image(Old, dirs, {}, {}) EXCEPT !.magic = FALSE] : dirs \in Dirs(16, One(16))}

MCPaths == {<<>>, <<".">>, <<"", "d">>, <<"d", "", "a">>, <<"a">>, <<"b">>}
=============================================================================
