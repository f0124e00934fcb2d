----------------------------- MODULE MCExt4File -----------------------------
(***************************************************************************)
(* Files for Ext4File: every extent tree, and every set of pointers, over a *)
(* few logical blocks.                                                     *)
(***************************************************************************)
EXTENDS Ext4File, SequencesExt

CONSTANTS
  Blocks,   \* logical blocks of a file of extents
  Depth,    \* deepest extent tree
  Pointed   \* logical blocks of a file of pointers

Logical == 0 .. Blocks - 1

\* The kinds of logical blocks: a hole, the first of an extent, a further one.
\* The extent at l is at block 100 + 10 * l, so no two are adjacent on disk.
Kinds ==
  {k \in [Logical -> {"hole", "first", "further"}] :
     \A l \in Logical : k[l] = "further" => l > 0 /\ k[l - 1] # "hole"}

LengthAt(k, l) ==
  Cardinality({n \in l .. Blocks - 1 : \A j \in l + 1 .. n : k[j] = "further"})

Extents(k) ==
  LET firsts == SetToSortSeq({l \in Logical : k[l] = "first"}, <)
  IN  [n \in DOMAIN firsts |->
         LET l == firsts[n]
         IN  [block |-> l, start |-> 100 + 10 * l, len |-> LengthAt(k, l)]]

Contents(k) ==
  [l \in Logical |->
     IF k[l] = "hole" THEN 0
     ELSE LET f == Max({j \in 0 .. l : k[j] = "first"})
          IN  100 + 10 * f + (l - f)]

\* seq cut before the positions in cuts.
Groups(seq, cuts) ==
  LET starts == SetToSortSeq({1} \cup cuts, <)
  IN  [g \in DOMAIN starts |->
         SubSeq(seq, starts[g], IF g = Len(starts) THEN Len(seq) ELSE starts[g + 1] - 1)]

\* An index to each group, kept in the blocks from `from` on. An index may start
\* before the first entry below it, here as early as it can.
Indices(groups, from, early, End(_)) ==
  [g \in DOMAIN groups |->
     [block |-> IF ~early THEN groups[g][1].block
                ELSE IF g = 1 THEN 0 ELSE End(Last(groups[g - 1])),
      leaf |-> from + g]]

EndOf(extent) == extent.block + Length(extent)
After(index) == index.block + 1

Nodes(groups, from, depth) ==
  [b \in from + 1 .. from + Len(groups) |->
     [depth |-> depth, entries |-> groups[b - from]]]

Tree(root, node) == [root |-> root, node |-> node]
Cuts(seq) == SUBSET (2 .. Len(seq))

Empty == [depth |-> 0, entries |-> <<>>]

Flat(extents) == {Tree([Empty EXCEPT !.entries = extents], <<>>)}

Deeper(extents) ==
  {LET leaves == Groups(extents, cuts)
   IN  Tree([depth |-> 1, entries |-> Indices(leaves, 10, early, EndOf)],
            Nodes(leaves, 10, 0)) : cuts \in Cuts(extents), early \in BOOLEAN}

Deepest(extents) ==
  UNION {LET leaves  == Groups(extents, cuts)
             indices == Indices(leaves, 10, FALSE, EndOf)
         IN  {LET inner == Groups(indices, upper)
              IN  Tree([depth |-> 2, entries |-> Indices(inner, 20, FALSE, After)],
                       Nodes(leaves, 10, 0) @@ Nodes(inner, 20, 1)) :
                upper \in Cuts(indices)} : cuts \in Cuts(extents)}

Trees(extents) ==
  Flat(extents)
  \cup (IF Depth < 1 \/ extents = <<>> THEN {} ELSE Deeper(extents))
  \cup (IF Depth < 2 \/ extents = <<>> THEN {} ELSE Deepest(extents))

\* Every file of extents: its last byte is anywhere in its last block.
ExtentFiles ==
  UNION {{[uses_extents |-> TRUE, root |-> t.root, node |-> t.node,
           pointers |-> <<>>, table |-> <<>>, size |-> s, contents |-> Contents(k)] :
            t \in Trees(Extents(k)),
            s \in BlockSize * (Blocks - 1) + 1 .. BlockSize * Blocks} : k \in Kinds}

\* Every file of pointers, with the tables it needs in blocks 10 to 13.
PointerFile(c) ==
  LET here(l)   == IF l < Pointed THEN c[l] ELSE 0
      needs(ls) == \E l \in ls : here(l) # 0
      d         == Direct + Ptrs
      behind(n) == d + n * Ptrs .. d + n * Ptrs + Ptrs - 1
  IN  [uses_extents |-> FALSE, root |-> Empty, node |-> <<>>,
       pointers |-> [n \in 0 .. Direct + 2 |->
                   IF n < Direct THEN here(n)
                   ELSE IF n = Direct
                     THEN IF needs(Direct .. d - 1) THEN 10 ELSE 0
                   ELSE IF n = Direct + 1
                     THEN IF needs(d .. d + Ptrs * Ptrs - 1) THEN 11 ELSE 0
                   ELSE 0],
       table |-> [b \in 10 .. 11 + Ptrs |->
                   [n \in 0 .. Ptrs - 1 |->
                      IF b = 10 THEN here(Direct + n)
                      ELSE IF b = 11 THEN IF needs(behind(n)) THEN 12 + n ELSE 0
                      ELSE here(d + (b - 12) * Ptrs + n)]],
       size |-> BlockSize * Pointed,
       contents |-> c]

PointerFiles ==
  {PointerFile([l \in 0 .. Pointed - 1 |-> IF l \in mapped THEN 100 + l ELSE 0]) :
     mapped \in SUBSET (0 .. Pointed - 1)}

AllFiles == ExtentFiles \cup PointerFiles
=============================================================================
