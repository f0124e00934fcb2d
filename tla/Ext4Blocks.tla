----------------------------- MODULE Ext4Blocks -----------------------------
(***************************************************************************)
(* How Ext4Reader finds the physical block of a logical block of a file:   *)
(* the extent tree of ext4 and the direct, single and double indirect      *)
(* pointers of ext2 and ext3. Block 0 stands for "no block", which the      *)
(* caller treats alike whether the look-up fails or finds the number 0.     *)
(* Trees are well formed: the magic of every header is right.               *)
(***************************************************************************)
EXTENDS Integers, Sequences, FiniteSetsExt

CONSTANTS
  Direct,   \* direct pointers in an inode: 12
  Ptrs,     \* pointers in a block: block_size / 4
  MaxLen,   \* longest extent; a larger ee_len marks an unwritten one: 32768
  Word      \* 2^32, the values of a uint32_t

ASSUME BlocksAssumption == {Direct, Ptrs, MaxLen, Word} \subseteq Nat \ {0}

-----------------------------------------------------------------------------
\* The extent tree. A node has a depth and entries: extents [block, len, start]
\* at depth 0, else indices [block, leaf]. node[b] is the node in block b, and
\* bad the blocks the device cannot read.

Length(extent) == IF extent.len <= MaxLen THEN extent.len ELSE extent.len - MaxLen

\* Variant: the first block after the extent counts as covered.
Covers_inclusive(extent, logical_block) ==
  logical_block >= extent.block /\ logical_block <= extent.block + Length(extent)

Covers(extent, logical_block) ==
  /\ logical_block >= extent.block
  /\ logical_block < (extent.block + Length(extent)) % Word

\* The last of the leading indices that start at or before the block.
Chosen(entries, logical_block) ==
  LET leading == {n \in DOMAIN entries :
                    \A m \in 1 .. n : logical_block >= entries[m].block}
  IN  IF leading = {} THEN {} ELSE {Max(leading)}

LeafBlock(entries, logical_block) ==
  LET covering == {n \in DOMAIN entries : Covers(entries[n], logical_block)}
  IN  IF covering = {} THEN 0
      ELSE LET extent == entries[Min(covering)]
           IN  extent.start + (logical_block - extent.block)

\* Both functions that walk the tree do this: resolve_extent_block at the root,
\* parse_extent_node below it.
resolve_extent_block(root, node, bad, logical_block) ==
  LET Walk[n \in {root} \cup {node[b] : b \in DOMAIN node}] ==
        IF n.depth = 0 THEN LeafBlock(n.entries, logical_block)
        ELSE LET chosen == Chosen(n.entries, logical_block)
                 next   == {n.entries[c].leaf : c \in chosen} \ bad
             IN  IF next = {} THEN 0 ELSE Walk[node[Max(next)]]
  IN  Walk[root]

-----------------------------------------------------------------------------
\* The pointers of ext2 and ext3: pointers[0 .. Direct + 2] in the inode, and
\* table[b][0 .. Ptrs - 1] in block b.

Through(b, n, table, bad) == IF b = 0 \/ b \in bad THEN 0 ELSE table[b][n]

Single(logical_block) == logical_block - Direct
Double(logical_block) == Single(logical_block) - Ptrs

\* The triple indirect pointer is not followed.
read_indirect_block(pointers, table, bad, logical_block) ==
  LET single == Single(logical_block)
      double == Double(logical_block)
  IN  IF single < 0 THEN pointers[logical_block]
      ELSE IF single < Ptrs THEN Through(pointers[Direct], single, table, bad)
      ELSE IF double < Ptrs * Ptrs
        THEN Through(Through(pointers[Direct + 1], double \div Ptrs, table, bad),
                     double % Ptrs, table, bad)
      ELSE 0

\* Where read_file_data takes a logical block of file from.
PhysicalBlock(file, bad, logical_block) ==
  IF file.uses_extents
  THEN resolve_extent_block(file.root, file.node, bad, logical_block)
  ELSE read_indirect_block(file.pointers, file.table, bad, logical_block)
-----------------------------------------------------------------------------
\* A file that is well made, and what its mapping says it holds.

Extent == [block : Nat, start : Nat, len : 0 .. MaxLen]
Index  == [block : Nat, leaf : Nat]

NodesOf(file) == {file.root} \cup {file.node[b] : b \in DOMAIN file.node}

\* The extents in the tree at and below each node.
ExtentsBelow(file) ==
  LET Below[n \in NodesOf(file)] ==
        IF n.depth = 0 THEN {n.entries[x] : x \in DOMAIN n.entries}
        ELSE UNION {Below[file.node[n.entries[c].leaf]] : c \in DOMAIN n.entries}
  IN  Below

\* All the extents are written ones, and what is below an index lies between it and
\* the next.
WellMadeLeaf(n) ==
  /\ n.entries \in Seq(Extent)
  /\ \A x \in DOMAIN n.entries : n.entries[x].block + n.entries[x].len < Word

WellMadeIndex(file, n, c) ==
  LET index == n.entries[c]
  IN  /\ index.leaf \in DOMAIN file.node
      /\ file.node[index.leaf].depth < n.depth
      /\ \A e \in ExtentsBelow(file)[file.node[index.leaf]] : index.block <= e.block
      /\ \A d \in DOMAIN n.entries : d > c =>
           /\ index.block <= n.entries[d].block
           /\ \A e \in ExtentsBelow(file)[file.node[index.leaf]] :
                e.block + e.len <= n.entries[d].block

WellMadeTree(file) ==
  \A n \in NodesOf(file) :
    /\ n.depth \in 0 .. file.root.depth
    /\ n.depth = 0 => WellMadeLeaf(n)
    /\ n.depth > 0 => /\ n.entries \in Seq(Index)
                      /\ \A c \in DOMAIN n.entries : WellMadeIndex(file, n, c)

\* A block is where the extent around it puts it, or is a hole.
Spans(e, l) == e.block <= l /\ l < e.block + e.len

TreeHolds(file, l) ==
  LET extents == {e \in ExtentsBelow(file)[file.root] : Spans(e, l)}
  IN  /\ \A e \in extents : file.contents[l] = e.start + (l - e.block)
      /\ extents = {} => file.contents[l] = 0

\* Pointers are 0 or lead to a table; the triple indirect one is not needed.
WellMadePointers(file) ==
  LET tables == DOMAIN file.table \cup {0}
      double == file.pointers[Direct + 1]
  IN  /\ file.pointers[Direct] \in tables /\ double \in tables
      /\ double # 0 => \A n \in 0 .. Ptrs - 1 : file.table[double][n] \in tables

InTable(file, b, n) == IF b = 0 THEN 0 ELSE file.table[b][n]

\* The block that direct pointer n, entry i of the single indirect table, or entry j
\* of the table behind entry i of the double indirect one, is about.
PointersHold(file, blocks) ==
  LET Is(l, b) == l \in blocks => file.contents[l] = b
  IN  /\ \A n \in 0 .. Direct - 1 : Is(n, file.pointers[n])
      /\ \A i \in 0 .. Ptrs - 1 :
           /\ Is(Direct + i, InTable(file, file.pointers[Direct], i))
           /\ \A j \in 0 .. Ptrs - 1 :
                Is(Direct + Ptrs + i * Ptrs + j,
                   InTable(file, InTable(file, file.pointers[Direct + 1], i), j))
      /\ \A l \in blocks : l < Direct + Ptrs + Ptrs * Ptrs
=============================================================================
