------------------------ MODULE Ext4DirectoryProofs ------------------------
(***************************************************************************)
(* Theorems about Ext4Layout and Ext4Directory, for any file systems that   *)
(* are well made: every inode is found, a path leads to its directory, and  *)
(* what is listed is what the directory holds.                             *)
(***************************************************************************)
EXTENDS Ext4Directory, FiniteSetTheorems, SequenceTheorems, TLAPS

LEMMA DivMod ==
  ASSUME NEW n \in Nat, NEW d \in Nat \ {0}
  PROVE  /\ n \div d \in Nat /\ n % d \in 0 .. d - 1
         /\ n = d * (n \div d) + (n % d)
  BY SMT

\* A quotient is known by its bounds.
LEMMA DivBounds ==
  ASSUME NEW n \in Nat, NEW d \in Nat \ {0}, NEW low \in Nat, NEW high \in Nat,
         low * d <= n, n < (high + 1) * d
  PROVE  n \div d \in low .. high
<1> DEFINE q == n \div d
<1>1. q \in Nat /\ n >= d * q /\ n < d * q + d
  BY DivMod
<1>2. ASSUME q < low PROVE FALSE
  BY <1>1, <1>2, (q + 1) * d <= low * d, SMT
<1>3. ASSUME q > high PROVE FALSE
  BY <1>1, <1>3, (high + 1) * d <= q * d, SMT
<1> QED
  BY <1>1, <1>2, <1>3

LEMMA SmallMod ==
  ASSUME NEW n \in Nat, NEW d \in Nat \ {0}, n < d
  PROVE  n % d = n /\ n \div d = 0
<1>1. n \div d \in 0 .. 0
  BY DivBounds, SMT
<1> QED
  BY <1>1, DivMod, SMT

LEMMA MulLess ==
  ASSUME NEW a \in Nat, NEW b \in Nat, NEW c \in Nat, a < b
  PROVE  a * c + c <= b * c /\ a * c \in Nat /\ b * c \in Nat
  BY SMT

LEMMA MulCancel ==
  ASSUME NEW a \in Nat, NEW b \in Nat, NEW c \in Nat \ {0}, a * c = b * c
  PROVE  a = b
<1>1. ASSUME a < b PROVE FALSE
  BY MulLess, <1>1
<1>2. ASSUME b < a PROVE FALSE
  BY MulLess, <1>2
<1> QED
  BY <1>1, <1>2

\* The numbers a well-made file system consists of.
LEMMA MadeTypes ==
  ASSUME NEW made, WellMade(made)
  PROVE  /\ MadeBlockSize(made) \in Nat \ {0} /\ MadeBlockSize(made) >= SmallBlock
         /\ made.inode_size \in Nat \ {0} /\ made.desc_size \in Nat \ {0}
         /\ made.inodes_per_group \in Nat \ {0} /\ made.groups \in Nat \ {0}
         /\ made.is_64bit \in BOOLEAN
         /\ \A g \in Groups(made) : made.tables[g] \in Nat
<1>1. MadeBlockSize(made) \in SmallBlock .. LargeBlock
  BY DEF WellMade
<1>2. MadeBlockSize(made) \in Nat \ {0} /\ MadeBlockSize(made) >= SmallBlock
  BY <1>1, LayoutAssumption
<1>3. made.inode_size \in Nat \ {0}
  BY <1>2, LayoutAssumption DEF WellMade
<1>4. made.desc_size \in Nat \ {0}
  BY LayoutAssumption DEF WellMade
<1>5. \A g \in Groups(made) : made.tables[g] \in Nat
  BY DEF WellMade
<1> QED
  BY <1>2, <1>3, <1>4, <1>5 DEF WellMade

\* mount finds the geometry the file system was made with; it may count a group too
\* many, since it divides all the blocks, the first one of small blocks included.
LEMMA GeometryRight ==
  ASSUME NEW made, WellMade(made)
  PROVE  LET geo == Geometry(SuperblockOf(made))
         IN  /\ geo.block_size = MadeBlockSize(made)
             /\ geo.inode_size = made.inode_size
             /\ geo.desc_size = made.desc_size
             /\ geo.is_64bit = made.is_64bit
             /\ geo.inodes_per_group = made.inodes_per_group
             /\ geo.inodes_count = made.groups * made.inodes_per_group
             /\ geo.groups_count \in made.groups .. made.groups + 1
<1> DEFINE sb == SuperblockOf(made)
           blocks == made.blocks_count
           bpg == made.blocks_per_group
<1>1. block_size(sb) = MadeBlockSize(made)
  BY DEF block_size, SuperblockOf, MadeBlockSize
<1>2. inode_size(sb) = made.inode_size
  BY <1>1, LayoutAssumption DEF inode_size, SuperblockOf, WellMade
<1>3. desc_size(sb) = made.desc_size
  BY LayoutAssumption DEF desc_size, SuperblockOf, WellMade
<1>4. total_blocks(sb) = blocks
  <2>1. blocks = Word * (blocks \div Word) + (blocks % Word) /\ blocks \div Word \in Nat
    BY DivMod, LayoutAssumption DEF WellMade
  <2>2. ~made.is_64bit => blocks % Word = blocks
    BY SmallMod, LayoutAssumption DEF WellMade
  <2>3. total_blocks(sb) = (blocks % Word)
                             + (IF made.is_64bit THEN (blocks \div Word) * Word ELSE 0)
    BY DEF total_blocks, SuperblockOf
  <2>4. blocks % Word \in Nat
    <3>1. blocks \in Nat /\ Word \in Nat \ {0}
      BY LayoutAssumption DEF WellMade
    <3> QED
      BY <3>1, DivMod
  <2>5. CASE made.is_64bit
    BY <2>1, <2>3, <2>4, <2>5, LayoutAssumption, SMT
  <2>6. CASE ~made.is_64bit
    BY <2>2, <2>3, <2>4, <2>6
  <2> QED
    BY <2>5, <2>6
<1>5. (blocks + bpg - 1) \div bpg \in made.groups .. made.groups + 1
  <2>1. made.groups * bpg <= blocks + bpg - 1
    BY SMT DEF WellMade
  <2>2. blocks + bpg - 1 < ((made.groups + 1) + 1) * bpg
    BY SMT DEF WellMade
  <2>3. /\ blocks + bpg - 1 \in Nat /\ bpg \in Nat \ {0}
        /\ made.groups \in Nat /\ made.groups + 1 \in Nat
    BY SMT DEF WellMade
  <2> QED
    BY <2>1, <2>2, <2>3, DivBounds
<1>6. groups_count(sb) \in made.groups .. made.groups + 1
  <2>1. groups_count(sb) = ((blocks + bpg - 1) \div bpg) % Word
    BY <1>4 DEF groups_count, SuperblockOf
  <2>2. \A k \in 0 .. Word - 1 : k % Word = k
    BY LayoutAssumption, SMT
  <2> QED
    BY <2>1, <2>2, <1>5, LayoutAssumption DEF WellMade
<1> QED
  BY <1>1, <1>2, <1>3, <1>6 DEF Geometry, SuperblockOf

\* The group and the index of an inode number.
LEMMA GroupOfInode ==
  ASSUME NEW made, WellMade(made), NEW geo,
         geo.inodes_per_group = made.inodes_per_group,
         NEW n \in 1 .. made.groups * made.inodes_per_group
  PROVE  /\ GroupOf(geo, n) \in Groups(made)
         /\ IndexInGroup(geo, n) \in 0 .. made.inodes_per_group - 1
         /\ n = GroupOf(geo, n) * made.inodes_per_group + IndexInGroup(geo, n) + 1
<1> DEFINE ipg == made.inodes_per_group
<1>1. ipg \in Nat \ {0} /\ made.groups \in Nat \ {0} /\ n - 1 \in Nat
  BY MadeTypes, SMT
<1>2. (n - 1) \div ipg \in Nat /\ (n - 1) % ipg \in 0 .. ipg - 1
      /\ n - 1 = ipg * ((n - 1) \div ipg) + ((n - 1) % ipg)
  BY <1>1, DivMod
<1>3. n - 1 < ((made.groups - 1) + 1) * ipg
  BY <1>1, SMT
<1>4. (n - 1) \div ipg \in 0 .. made.groups - 1
  BY <1>1, <1>3, DivBounds, 0 * ipg <= n - 1, SMT
<1> HIDE DEF ipg
<1>5. n = ((n - 1) \div ipg) * ipg + ((n - 1) % ipg) + 1
  BY <1>1, <1>2, <1>4, SMT
<1> QED
  BY <1>2, <1>4, <1>5 DEF GroupOf, IndexInGroup, Groups, ipg

\* Two groups have their descriptors at two places, and the code looks for one where
\* it was put.
LEMMA DescriptorFound ==
  ASSUME NEW made, WellMade(made), NEW g \in Groups(made)
  PROVE  DescriptorsAt(made, DescPlace(Geometry(SuperblockOf(made)), g))
           = {[lo |-> made.tables[g] % Word, hi |-> made.tables[g] \div Word]}
<1> DEFINE geo == Geometry(SuperblockOf(made))
           bs  == MadeBlockSize(made)
           ds  == made.desc_size
<1>1. bs \in Nat \ {0} /\ bs >= SmallBlock /\ ds \in Nat \ {0}
  BY MadeTypes
<1>2. geo.block_size = bs /\ geo.desc_size = ds
  BY GeometryRight
<1>3. SmallBlock \div bs = IF bs = SmallBlock THEN 1 ELSE 0
  <2>1. CASE bs = SmallBlock
    <3>1. 1 * bs <= SmallBlock /\ SmallBlock < (1 + 1) * bs
      BY <1>1, <2>1, LayoutAssumption, SMT
    <3>2. SmallBlock \div bs \in 1 .. 1
      BY <1>1, <3>1, LayoutAssumption, DivBounds
    <3> QED
      BY <2>1, <3>2
  <2>2. CASE bs # SmallBlock
    BY <1>1, <2>2, LayoutAssumption, SmallMod
  <2> QED
    BY <2>1, <2>2
<1>4. (SmallBlock \div bs + 1) * bs = (IF bs = SmallBlock THEN 2 ELSE 1) * bs
  BY <1>3
<1>5. \A h \in Groups(made) :
        MadeDescPlace(made, h) = DescPlace(geo, g) <=> h = g
  <2> SUFFICES ASSUME NEW h \in Groups(made)
               PROVE  MadeDescPlace(made, h) = DescPlace(geo, g) <=> h = g
    OBVIOUS
  <2>1. g \in Nat /\ h \in Nat
    BY MadeTypes DEF Groups
  <2>2. DescPlace(geo, g) = (SmallBlock \div bs + 1) * bs + g * ds
    BY <1>2, <1>4 DEF DescPlace
  <2>3. MadeDescPlace(made, h) = (SmallBlock \div bs + 1) * bs + h * ds
    BY DEF MadeDescPlace
  <2>4. (SmallBlock \div bs + 1) * bs \in Nat
    BY <1>1, <1>3, LayoutAssumption, SMT
  <2>5. g * ds \in Nat /\ h * ds \in Nat
    BY <1>1, <2>1, SMT
  <2>6. MadeDescPlace(made, h) = DescPlace(geo, g) <=> h * ds = g * ds
    BY <2>2, <2>3, <2>4, <2>5
  <2> QED
    BY <1>1, <2>1, <2>6, MulCancel
<1> HIDE DEF geo
<1>6. {group \in Groups(made) : MadeDescPlace(made, group) = DescPlace(geo, g)} = {g}
  BY <1>5
<1> QED
  BY <1>6 DEF DescriptorsAt, geo

\* The number of the block of a table survives being stored in two halves.
LEMMA TableFound ==
  ASSUME NEW made, WellMade(made), NEW g \in Groups(made)
  PROVE  itable_block(Geometry(SuperblockOf(made)),
                      [lo |-> made.tables[g] % Word, hi |-> made.tables[g] \div Word])
           = made.tables[g]
<1> DEFINE t == made.tables[g]
<1>1. t \in Nat /\ Word \in Nat \ {0}
  BY MadeTypes, LayoutAssumption
<1>2. t = Word * (t \div Word) + (t % Word) /\ t \div Word \in Nat /\ t % Word \in Nat
  <2> HIDE DEF t
  <2>1. t % Word \in 0 .. Word - 1 /\ t \div Word \in Nat
        /\ t = Word * (t \div Word) + (t % Word)
    BY <1>1, DivMod
  <2> QED
    BY <1>1, <2>1
<1>3. CASE made.is_64bit
  <2>1. made.desc_size >= Desc64
    BY <1>3 DEF WellMade
  <2>2. itable_block(Geometry(SuperblockOf(made)), [lo |-> t % Word, hi |-> t \div Word])
          = (t % Word) + (t \div Word) * Word
    BY <1>3, <2>1, GeometryRight DEF itable_block
  <2> HIDE DEF t
  <2> QED
    BY <1>1, <1>2, <2>2, SMT DEF t
<1>4. CASE ~made.is_64bit
  <2>1. t < Word
    BY <1>1, <1>4, LayoutAssumption DEF WellMade
  <2>2. t % Word = t
    BY <1>1, <2>1, SmallMod
  <2>3. itable_block(Geometry(SuperblockOf(made)), [lo |-> t % Word, hi |-> t \div Word])
          = (t % Word) + 0
    BY <1>4, GeometryRight DEF itable_block
  <2> QED
    BY <1>1, <2>2, <2>3
<1> QED
  BY <1>3, <1>4

\* No two inodes begin at one place, if the tables do not overlap.
LEMMA PlacesApart ==
  ASSUME NEW made, WellMade(made), TablesApart(made),
         NEW g \in Groups(made), NEW h \in Groups(made),
         NEW i \in 0 .. made.inodes_per_group - 1,
         NEW j \in 0 .. made.inodes_per_group - 1,
         MadeInodePlace(made, g, i) = MadeInodePlace(made, h, j)
  PROVE  g = h /\ i = j
<1> DEFINE a == made.tables[g] * MadeBlockSize(made)
           b == made.tables[h] * MadeBlockSize(made)
           isz == made.inode_size
           ipg == made.inodes_per_group
<1>1. isz \in Nat \ {0} /\ ipg \in Nat \ {0} /\ i \in Nat /\ j \in Nat
  BY MadeTypes
<1>2. a \in Nat /\ b \in Nat
  <2>1. MadeBlockSize(made) \in Nat /\ made.tables[g] \in Nat /\ made.tables[h] \in Nat
    BY MadeTypes
  <2> QED
    BY <2>1, SMT
<1>3. a + i * isz = b + j * isz
  BY DEF MadeInodePlace
<1>4. i * isz \in Nat /\ i * isz < ipg * isz /\ j * isz \in Nat /\ j * isz < ipg * isz
  <2>1. i < ipg /\ j < ipg
    BY <1>1
  <2>2. i * isz + isz <= ipg * isz /\ j * isz + isz <= ipg * isz
    BY <1>1, <2>1, MulLess
  <2>3. i * isz \in Nat /\ j * isz \in Nat /\ ipg * isz \in Nat
    BY <1>1, <2>1, MulLess
  <2> HIDE DEF isz, ipg
  <2> QED
    BY <1>1, <2>2, <2>3
<1>5. g = h
  <2> SUFFICES ASSUME g # h PROVE FALSE
    OBVIOUS
  <2>1. a + ipg * isz <= b \/ b + ipg * isz <= a
    BY DEF TablesApart
  <2>2. ipg * isz \in Nat
    BY <1>1, SMT
  <2> HIDE DEF a, b, isz, ipg
  <2> QED
    BY <1>2, <1>3, <1>4, <2>1, <2>2
<1>6. i * isz = j * isz
  <2>1. a = b
    BY <1>5
  <2> HIDE DEF a, b, isz, ipg
  <2> QED
    BY <1>2, <1>3, <1>4, <2>1
<1> QED
  BY <1>1, <1>5, <1>6, MulCancel

\* On a file system that is well made read_inode finds every inode, and nothing else,
\* through whatever group descriptors and block sizes (ext4_reader.cpp:16-53, 91-140).
THEOREM InodeFound ==
  ASSUME NEW made, WellMade(made), TablesApart(made),
         NEW n \in 1 .. made.groups * made.inodes_per_group
  PROVE  read_inode(made, Geometry(SuperblockOf(made)), n) = {n}
<1> DEFINE geo  == Geometry(SuperblockOf(made))
           ipg  == made.inodes_per_group
           g    == GroupOf(geo, n)
           i    == IndexInGroup(geo, n)
           desc == [lo |-> made.tables[g] % Word, hi |-> made.tables[g] \div Word]
<1>1. /\ geo.block_size = MadeBlockSize(made) /\ geo.inode_size = made.inode_size
      /\ geo.inodes_per_group = ipg /\ geo.inodes_count = made.groups * ipg
      /\ geo.groups_count \in made.groups .. made.groups + 1
  BY GeometryRight
<1>2. g \in Groups(made) /\ i \in 0 .. ipg - 1 /\ n = g * ipg + i + 1
  <2> HIDE DEF geo
  <2> QED
    BY <1>1, GroupOfInode
<1>3. DescriptorsAt(made, DescPlace(geo, g)) = {desc}
  BY <1>2, DescriptorFound
<1>4. InodePlace(geo, desc, n) = MadeInodePlace(made, g, i)
  <2>1. itable_block(geo, desc) = made.tables[g]
    BY <1>2, TableFound
  <2> QED
    BY <1>1, <2>1 DEF InodePlace, MadeInodePlace
<1> HIDE DEF geo, g, i, desc
<1>5. InodesAt(made, MadeInodePlace(made, g, i)) = {n}
  <2>1. n \in InodesAt(made, MadeInodePlace(made, g, i))
    BY <1>2 DEF InodesAt
  <2>2. ASSUME NEW m \in InodesAt(made, MadeInodePlace(made, g, i)) PROVE m = n
    <3>1. PICK h \in Groups(made), j \in 0 .. ipg - 1 :
            /\ m = h * ipg + j + 1
            /\ MadeInodePlace(made, g, i) = MadeInodePlace(made, h, j)
      BY DEF InodesAt
    <3>2. g = h /\ i = j
      BY <1>2, <3>1, PlacesApart
    <3> QED
      BY <1>2, <3>1, <3>2
  <2> QED
    BY <2>1, <2>2
<1>6. ~(g >= geo.groups_count)
  BY <1>1, <1>2, MadeTypes DEF Groups
<1>7. n \in 1 .. geo.inodes_count
  BY <1>1
<1>8. read_inode(made, geo, n)
        = UNION {InodesAt(made, InodePlace(geo, d, n)) : d \in DescriptorsAt(made, DescPlace(geo, g))}
  BY <1>6, <1>7 DEF read_inode, g
<1> QED
  BY <1>3, <1>4, <1>5, <1>8 DEF geo
-----------------------------------------------------------------------------
\* A set of numbers in order. The place of a member is given by the members below it.
BelowIn(S, i) == {j \in S : j < i}

LEMMA BelowFinite ==
  ASSUME NEW S, IsFiniteSet(S), NEW i
  PROVE  /\ IsFiniteSet(BelowIn(S, i)) /\ Cardinality(BelowIn(S, i)) \in Nat
         /\ Cardinality(S) \in Nat /\ Cardinality(BelowIn(S, i)) <= Cardinality(S)
<1>1. BelowIn(S, i) \in SUBSET S
  BY DEF BelowIn
<1>2. IsFiniteSet(BelowIn(S, i)) /\ Cardinality(BelowIn(S, i)) <= Cardinality(S)
  BY <1>1, FS_Subset, Zenon
<1> QED
  BY <1>2, FS_CardinalityType, Zenon

\* With a member the set below grows by one.
LEMMA BelowNext ==
  ASSUME NEW S \in SUBSET Nat, IsFiniteSet(S), NEW i \in S, NEW k \in Nat,
         \A j \in S : j <= i \/ k <= j, i < k
  PROVE  Cardinality(BelowIn(S, k)) = Cardinality(BelowIn(S, i)) + 1
<1>1. BelowIn(S, k) = BelowIn(S, i) \cup {i} /\ i \notin BelowIn(S, i)
  <2>1. ASSUME NEW j \in S PROVE j < k <=> j < i \/ j = i
    OBVIOUS
  <2>2. ~(i < i)
    OBVIOUS
  <2> QED
    BY <2>1, <2>2, Zenon DEF BelowIn
<1>2. IsFiniteSet(BelowIn(S, i))
  BY BelowFinite, Zenon
<1> QED
  BY <1>1, <1>2, FS_AddElement, Zenon

LEMMA BelowLess ==
  ASSUME NEW S \in SUBSET Nat, IsFiniteSet(S), NEW i \in S, NEW k \in Nat, i < k
  PROVE  Cardinality(BelowIn(S, i)) < Cardinality(BelowIn(S, k))
<1>1. /\ BelowIn(S, i) \cup {i} \in SUBSET BelowIn(S, k) /\ i \notin BelowIn(S, i)
  <2>1. ASSUME NEW j \in S PROVE j < i \/ j = i => j < k
    OBVIOUS
  <2>2. ~(i < i)
    OBVIOUS
  <2> QED
    BY <2>1, <2>2, Zenon DEF BelowIn
<1>2. IsFiniteSet(BelowIn(S, i)) /\ IsFiniteSet(BelowIn(S, k))
      /\ Cardinality(BelowIn(S, i)) \in Nat /\ Cardinality(BelowIn(S, k)) \in Nat
  BY BelowFinite, Zenon
<1>3. Cardinality(BelowIn(S, i) \cup {i}) = Cardinality(BelowIn(S, i)) + 1
  BY <1>1, <1>2, FS_AddElement, Zenon
<1>4. Cardinality(BelowIn(S, i) \cup {i}) <= Cardinality(BelowIn(S, k))
  BY <1>1, <1>2, FS_Subset, Zenon
<1> QED
  BY <1>2, <1>3, <1>4

\* A member is in order at the number of members below it, plus one.
LEMMA PlaceInOrder ==
  ASSUME NEW S \in SUBSET Nat, IsFiniteSet(S), NEW i \in S
  PROVE  /\ Cardinality(BelowIn(S, i)) + 1 \in 1 .. Cardinality(S)
         /\ InOrder(S)[Cardinality(BelowIn(S, i)) + 1] = i
<1> DEFINE n == Cardinality(BelowIn(S, i)) + 1
           At(k) == k \in S /\ Cardinality(BelowIn(S, k)) = n - 1
<1>1. Cardinality(BelowIn(S, i)) \in Nat /\ Cardinality(S) \in Nat
  BY BelowFinite, Zenon
<1>2. n \in 1 .. Cardinality(S)
  <2>1. BelowIn(S, i) \cup {i} \in SUBSET S /\ i \notin BelowIn(S, i)
    BY DEF BelowIn
  <2>2. IsFiniteSet(BelowIn(S, i))
    BY BelowFinite, Zenon
  <2>3. Cardinality(BelowIn(S, i) \cup {i}) = n
    BY <2>1, <2>2, FS_AddElement, Zenon
  <2>4. Cardinality(BelowIn(S, i) \cup {i}) <= Cardinality(S)
    BY <2>1, FS_Subset, Zenon
  <2> QED
    BY <1>1, <2>3, <2>4
<1>3. At(i)
  BY <1>1
<1>4. \A k : At(k) => k = i
  <2> SUFFICES ASSUME NEW k, At(k), k # i PROVE FALSE
    OBVIOUS
  <2>1. k \in S /\ k \in Nat /\ i \in Nat /\ Cardinality(BelowIn(S, k)) = Cardinality(BelowIn(S, i))
    BY <1>1
  <2>2. CASE k < i
    BY <1>1, <2>1, <2>2, BelowLess
  <2>3. CASE i < k
    BY <1>1, <2>1, <2>3, BelowLess
  <2> QED
    BY <2>1, <2>2, <2>3
<1>5. InOrder(S)[n] = CHOOSE k \in S : Cardinality(BelowIn(S, k)) = n - 1
  BY <1>2 DEF InOrder, BelowIn
<1>6. (CHOOSE k \in S : Cardinality(BelowIn(S, k)) = n - 1) = i
  <2> HIDE DEF n
  <2> QED
    BY <1>3, <1>4, Zenon
<1> QED
  BY <1>2, <1>5, <1>6

-----------------------------------------------------------------------------
\* Sequences, whatever their elements are.
IsSeq(s) == \E A : s \in Seq(A)

LEMMA SeqLen == \A s : IsSeq(s) => Len(s) \in Nat /\ DOMAIN s = 1 .. Len(s)
BY DEF IsSeq

LEMMA EmptyIsSeq == IsSeq(<<>>) /\ Len(<<>>) = 0
<1>1. <<>> \in Seq({})
  OBVIOUS
<1> QED
  BY <1>1 DEF IsSeq

\* A function on 1 .. n is a sequence.
LEMMA FunctionIsSeq ==
  ASSUME NEW n \in Nat, NEW f, f = [i \in 1 .. n |-> f[i]]
  PROVE  IsSeq(f) /\ Len(f) = n
<1> DEFINE A == {f[i] : i \in 1 .. n}
<1>1. f \in [1 .. n -> A]
  <2> QED
    BY Zenon
<1> HIDE DEF A
<1>2. f \in Seq(A) /\ Len(f) = n
  BY <1>1
<1> QED
  BY <1>2 DEF IsSeq

LEMMA Appended ==
  ASSUME NEW s, IsSeq(s), NEW e
  PROVE  /\ IsSeq(Append(s, e)) /\ Len(Append(s, e)) = Len(s) + 1 /\ Len(s) \in Nat
         /\ Append(s, e)[Len(s) + 1] = e
         /\ \A n \in 1 .. Len(s) : Append(s, e)[n] = s[n]
<1>1. PICK A : s \in Seq(A)
  BY DEF IsSeq
<1> DEFINE C == A \cup {e}
<1>2. s \in Seq(C) /\ e \in C
  BY <1>1
<1> HIDE DEF C
<1>3. Append(s, e) \in Seq(C)
  BY <1>2
<1> QED
  BY <1>2, <1>3 DEF IsSeq

LEMMA SameSeq ==
  ASSUME NEW s, NEW t, IsSeq(s), IsSeq(t), Len(s) = Len(t),
         \A n \in 1 .. Len(s) : s[n] = t[n]
  PROVE  s = t
<1>1. PICK A : s \in Seq(A)
  BY DEF IsSeq
<1>2. PICK B : t \in Seq(B)
  BY DEF IsSeq
<1> DEFINE C == A \cup B
<1>3. s \in Seq(C) /\ t \in Seq(C)
  BY <1>1, <1>2
<1> HIDE DEF C
<1> QED
  BY <1>3, SeqEqual, Zenon

\* What is left of a sequence after n of its elements.
After(s, n) == SubSeq(s, n + 1, Len(s))

LEMMA Afterwards ==
  ASSUME NEW s, IsSeq(s), NEW n \in 0 .. Len(s)
  PROVE  /\ After(s, 0) = s
         /\ n = Len(s) => After(s, n) = <<>>
         /\ n < Len(s) => /\ After(s, n) # <<>>
                          /\ Head(After(s, n)) = s[n + 1]
                          /\ Tail(After(s, n)) = After(s, n + 1)
<1>1. PICK A : s \in Seq(A)
  BY DEF IsSeq
<1>2. Len(s) \in Nat
  BY <1>1
<1>3. After(s, 0) = s
  BY <1>1, SubSeqFull DEF After
<1>4. n = Len(s) => After(s, n) = <<>>
  BY <1>1, <1>2, SubSeqEmpty DEF After
<1>5. ASSUME n < Len(s)
      PROVE  /\ After(s, n) # <<>>
             /\ Head(After(s, n)) = s[n + 1]
             /\ Tail(After(s, n)) = After(s, n + 1)
  <2>1. n + 1 \in 1 .. Len(s) /\ Len(s) \in n + 1 .. Len(s)
    BY <1>2, <1>5
  <2>2. Head(After(s, n)) = s[n + 1] /\ Tail(After(s, n)) = After(s, n + 1)
    BY <1>1, <2>1, HeadTailOfSubSeq DEF After
  <2>3. Len(After(s, n)) = Len(s) - n
    BY <1>1, <1>2, <2>1 DEF After
  <2> QED
    BY <1>2, <1>5, <2>2, <2>3, EmptyIsSeq
<1> QED
  BY <1>3, <1>4, <1>5

-----------------------------------------------------------------------------
\* What a well-made directory holds.
LEMMA LiveFinite ==
  ASSUME NEW dir, WellMadeChain(dir)
  PROVE  Live(dir) \in SUBSET Nat /\ IsFiniteSet(Live(dir))
<1>1. Live(dir) \in SUBSET (0 .. dir.size - 1) /\ dir.size \in Nat
  BY DEF WellMadeChain, Live
<1>2. IsFiniteSet(0 .. dir.size - 1)
  BY <1>1, FS_Interval
<1> QED
  BY <1>1, <1>2, FS_Subset

LEMMA EntriesInOrder ==
  ASSUME NEW fs, NEW dir, WellMadeChain(dir)
  PROVE  /\ IsSeq(EntriesOf(fs, dir)) /\ Len(EntriesOf(fs, dir)) = Cardinality(Live(dir))
         /\ \A p \in Live(dir) :
              LET n == Cardinality(BelowIn(Live(dir), p)) + 1
              IN  /\ n \in 1 .. Len(EntriesOf(fs, dir))
                  /\ EntriesOf(fs, dir)[n] = EntryAt(fs, dir, p)
<1> DEFINE entries == EntriesOf(fs, dir)
           size    == Cardinality(Live(dir))
<1>1. Live(dir) \in SUBSET Nat /\ IsFiniteSet(Live(dir))
  BY LiveFinite, Zenon
<1>2. size \in Nat
  BY <1>1, FS_CardinalityType, Zenon
<1>3. DOMAIN InOrder(Live(dir)) = 1 .. size
  BY DEF InOrder
<1>4. entries = [n \in 1 .. size |-> EntryAt(fs, dir, InOrder(Live(dir))[n])]
  BY <1>3, Zenon DEF EntriesOf
<1>5. entries = [n \in 1 .. size |-> entries[n]]
  BY <1>4, Zenon
<1>6. IsSeq(entries) /\ Len(entries) = size
  <2> HIDE DEF entries, size
  <2> QED
    BY <1>2, <1>5, FunctionIsSeq
<1>7. ASSUME NEW p \in Live(dir), NEW n, n = Cardinality(BelowIn(Live(dir), p)) + 1
      PROVE  n \in 1 .. size /\ entries[n] = EntryAt(fs, dir, p)
  <2>1. n \in 1 .. size /\ InOrder(Live(dir))[n] = p
    BY <1>1, <1>7, PlaceInOrder, Zenon
  <2>2. entries[n] = EntryAt(fs, dir, InOrder(Live(dir))[n])
    BY <1>4, <2>1, Zenon
  <2> QED
    BY <2>1, <2>2, Zenon
<1> QED
  BY <1>6, <1>7, Zenon

\* The header read where a record starts is that record, but for a length of RecWord.
LEMMA HeaderRead ==
  ASSUME NEW dir, WellMadeChain(dir), NEW p \in DOMAIN dir.records,
         NEW record \in HeaderAt(dir, p)
  PROVE  /\ record.inode = dir.records[p].inode /\ record.name = dir.records[p].name
         /\ record.file_type = dir.records[p].file_type
         /\ record.rec_len = OnDisk(dir.records[p].rec_len)
         /\ record.rec_len \in 0 .. RecWord - 1 /\ p \in Nat
<1>1. dir.records[p] \in DirEntry2 /\ p \in Nat /\ RecWord \in Nat /\ RecWord > 1
      /\ HeaderSize \in Nat
  BY DirectoryAssumption DEF WellMadeChain
<1>2. record = [dir.records[p] EXCEPT !.rec_len = OnDisk(dir.records[p].rec_len)]
  BY DEF HeaderAt
<1>3. OnDisk(dir.records[p].rec_len) \in 0 .. RecWord - 1
  BY <1>1 DEF DirEntry2, OnDisk
<1> QED
  BY <1>1, <1>2, <1>3 DEF DirEntry2

LEMMA HeaderType ==
  ASSUME NEW dir, WellMadeChain(dir), NEW p \in Nat, NEW record \in HeaderAt(dir, p)
  PROVE  /\ record.rec_len \in 0 .. RecWord - 1
         /\ p \notin DOMAIN dir.records => record.inode \in {0, Root} /\ record.file_type = "none"
<1>1. CASE p \in DOMAIN dir.records
  BY <1>1, HeaderRead
<1>2. CASE p \notin DOMAIN dir.records
  BY <1>2 DEF HeaderAt, Garbage
<1> QED
  BY <1>1, <1>2

\* A record that is taken is one the directory holds, or rubbish of the root's inode.
LEMMA ListedIsLive ==
  ASSUME NEW fs, NEW dir, WellMadeChain(dir), WellMadeEntries(fs, dir), NEW p \in Nat,
         NEW record \in HeaderAt(dir, p), p \in DOMAIN dir.records
  PROVE  Listed(record) <=> p \in Live(dir)
<1>1. record.inode = dir.records[p].inode /\ record.name = dir.records[p].name
  BY HeaderRead
<1>2. p \in Live(dir) => dir.records[p].name # ""
  BY Zenon DEF WellMadeEntries
<1> QED
  BY <1>1, <1>2 DEF Listed, Live

-----------------------------------------------------------------------------
\* mount accepts what mkfs makes, and inodes are read as they are.
LEMMA MadeIsMountable ==
  ASSUME NEW made, WellMade(made)
  PROVE  Mountable(SuperblockOf(made))
BY DEF WellMade, Mountable, SuperblockOf, block_size, MadeBlockSize

LEMMA Mounts ==
  ASSUME NEW made, WellMade(made), NEW magic \in BOOLEAN
  PROVE  LET sb == [SuperblockOf(made) EXCEPT !.magic = magic]
         IN  /\ Mountable(sb) <=> magic
             /\ Geometry(sb) = Geometry(SuperblockOf(made))
<1> DEFINE sb == [SuperblockOf(made) EXCEPT !.magic = magic]
<1>1. Geometry(sb) = Geometry(SuperblockOf(made))
  BY DEF Geometry, block_size, inode_size, desc_size, groups_count, total_blocks,
         SuperblockOf
<1>2. sb.magic = magic
  BY DEF SuperblockOf
<1>3. /\ block_size(sb) = block_size(SuperblockOf(made))
      /\ sb.blocks_per_group = SuperblockOf(made).blocks_per_group
  BY DEF SuperblockOf, block_size
<1>4. Mountable(SuperblockOf(made))
  BY MadeIsMountable
<1> HIDE DEF sb
<1>5. Mountable(sb) <=> magic
  BY <1>2, <1>3, <1>4, Zenon DEF Mountable
<1> QED
  BY <1>1, <1>5 DEF sb

LEMMA InodeRead ==
  ASSUME image \in Images, geometry = Geometry(SuperblockOf(image.made)),
         NEW n \in Inodes(image.made)
  PROVE  Read(n) = {n} \ image.lost
<1>1. read_inode(image.made, geometry, n) = {n}
  BY InodeFound, ImagesAssumption, Zenon DEF Inodes
<1> QED
  BY <1>1 DEF Read

-----------------------------------------------------------------------------
Mounted == pc \in {"open", "entries", "listed", "done"}
AtWork  == pc \in {"entries", "listed", "done"}

\* Where the call is: which directory it reads, and by which geometry.
Located ==
  /\ image \in Images
  /\ Mounted => geometry = Geometry(SuperblockOf(image.made)) /\ image.magic
  /\ curr_inode \in Inodes(image.made)
  /\ AtWork => opened = curr_inode

\* The entries are inodes of the file system, with a type.
Typed ==
  /\ IsSeq(out_entries)
  /\ \A n \in 1 .. Len(out_entries) :
       out_entries[n].inode \in Inodes(image.made) /\ out_entries[n].type # "none"

Basic == TypeOK /\ Located /\ Typed

USE DEF vars, request

LEMMA DirectoryMade ==
  ASSUME Basic, AtWork
  PROVE  /\ opened \in DOMAIN image.dirs /\ opened \in Directories /\ image \in Images
         /\ WellMadeChain(image.dirs[opened])
         /\ WellMadeEntries(image, image.dirs[opened])
<1>1. opened \in DOMAIN image.dirs /\ opened \in Directories /\ image \in Images
  BY DEF Basic, TypeOK, Located, AtWork, Directories
<1> QED
  BY <1>1, ImagesAssumption, Zenon

\* What TakeRecord makes of a header.
LEMMA TypesRight ==
  ASSUME Basic, pc = "entries", NEW record \in HeaderAt(image.dirs[opened], offset),
         Listed(record), NEW type \in Types(record)
  PROVE  /\ record.inode \in Inodes(image.made) /\ type # "none"
         /\ offset \in DOMAIN image.dirs[opened].records =>
              [name |-> record.name, inode |-> record.inode, type |-> type]
                = EntryAt(image, image.dirs[opened], offset)
<1> DEFINE dir == image.dirs[opened]
           r   == dir.records[offset]
<1>0. AtWork /\ Mounted /\ offset \in Nat /\ image \in Images
      /\ geometry = Geometry(SuperblockOf(image.made))
  BY DEF AtWork, Mounted, Basic, TypeOK, Located
<1>1. WellMadeChain(dir) /\ WellMadeEntries(image, dir)
  BY <1>0, DirectoryMade, Zenon
<1>2. record.inode \in Inodes(image.made)
  <2>1. CASE offset \in DOMAIN dir.records
    <3>1. offset \in Live(dir) /\ record.inode = r.inode
      BY <1>0, <1>1, <2>1, ListedIsLive, HeaderRead
    <3> QED
      BY <1>1, <3>1 DEF WellMadeEntries
  <2>2. CASE offset \notin DOMAIN dir.records
    <3>1. record.inode \in {0, Root} /\ record.inode # 0
      BY <1>0, <1>1, <2>2, HeaderType DEF Listed
    <3> QED
      BY <1>0, <3>1, ImagesAssumption, Zenon
  <2> QED
    BY <2>1, <2>2
<1>3. Read(record.inode) = {record.inode} \ image.lost
  BY <1>0, <1>2, InodeRead
<1>4. type = IF record.file_type # "none" THEN record.file_type
             ELSE IF record.inode \in image.lost THEN "file" ELSE TypeOf(image, record.inode)
  BY <1>3 DEF Types
<1>5. TypeOf(image, record.inode) # "none"
  BY DEF TypeOf
<1>6. ASSUME offset \in DOMAIN dir.records
      PROVE  [name |-> record.name, inode |-> record.inode, type |-> type]
               = EntryAt(image, dir, offset)
  <2>1. offset \in Live(dir) /\ record.inode = r.inode /\ record.name = r.name
        /\ record.file_type = r.file_type
    BY <1>0, <1>1, <1>6, ListedIsLive, HeaderRead
  <2>2. r.file_type \in {"none", TypeOf(image, r.inode)}
    BY <1>1, <2>1 DEF WellMadeEntries
  <2> QED
    BY <1>4, <2>1, <2>2 DEF EntryAt
<1> QED
  BY <1>2, <1>4, <1>5, <1>6

LEMMA PartsIsSeq ==
  ASSUME NEW p \in Paths
  PROVE  IsSeq(Parts(p)) /\ Len(Parts(p)) \in Nat
<1> DEFINE S == {n \in DOMAIN p : p[n] # ""}
           f == [n \in DOMAIN InOrder(S) |-> p[InOrder(S)[n]]]
<1>1. p \in Seq(STRING)
  BY DirectoryAssumption
<1>2. Cardinality(S) \in Nat
  <2>1. DOMAIN p = 1 .. Len(p) /\ Len(p) \in Nat
    BY <1>1
  <2>2. IsFiniteSet(1 .. Len(p))
    BY <2>1, FS_Interval
  <2>3. S \in SUBSET DOMAIN p
    OBVIOUS
  <2> QED
    BY <2>1, <2>2, <2>3, FS_Subset, FS_CardinalityType, Zenon
<1>3. IsSeq(f)
  <2>1. DOMAIN InOrder(S) = 1 .. Cardinality(S)
    BY DEF InOrder
  <2>2. f = [n \in 1 .. Cardinality(S) |-> f[n]]
    BY <2>1, Zenon
  <2> HIDE DEF f, S
  <2> QED
    BY <1>2, <2>2, FunctionIsSeq
<1>4. Parts(p) = <<>> \/ Parts(p) = f
  BY Zenon DEF Parts
<1>5. IsSeq(Parts(p))
  BY <1>3, <1>4, EmptyIsSeq, Zenon
<1> QED
  BY <1>5, SeqLen

LEMMA BasicInit == Init => Basic
<1> SUFFICES ASSUME Init PROVE Basic
  OBVIOUS
<1>1. image \in Images /\ path \in Paths /\ curr_inode = Root /\ rest = Parts(path)
      /\ offset = 0 /\ out_entries = <<>> /\ pc = "mount"
  BY DEF Init
<1>2. IsSeq(Parts(path)) /\ Len(Parts(path)) \in Nat
  BY <1>1, PartsIsSeq
<1>3. Parts(path) = After(Parts(path), 0)
  BY <1>2, Afterwards
<1>4. Root \in Inodes(image.made)
  BY <1>1, ImagesAssumption, Zenon
<1>5. IsSeq(out_entries) /\ Len(out_entries) = 0 /\ DOMAIN out_entries = {}
  BY <1>1, EmptyIsSeq
<1>6. \E n \in 0 .. Len(Parts(path)) : rest = SubSeq(Parts(path), n + 1, Len(Parts(path)))
  <2>1. 0 \in 0 .. Len(Parts(path)) /\ rest = SubSeq(Parts(path), 0 + 1, Len(Parts(path)))
    BY <1>1, <1>2, <1>3 DEF After
  <2> QED
    BY <2>1, Zenon
<1> QED
  BY <1>1, <1>4, <1>5, <1>6 DEF Basic, TypeOK, Located, Typed, Mounted, AtWork

\* What is left of the path is left of it, and one less when a part is followed.
Placed(n) == n \in 0 .. Len(Parts(path)) /\ rest = After(Parts(path), n)

LEMMA Following ==
  ASSUME path \in Paths, NEW n, Placed(n)
  PROVE  /\ n \in Nat /\ Len(Parts(path)) \in Nat
         /\ rest = <<>> => n = Len(Parts(path))
         /\ rest # <<>> => /\ n < Len(Parts(path)) /\ Head(rest) = Parts(path)[n + 1]
                           /\ Tail(rest) = After(Parts(path), n + 1)
                           /\ n + 1 \in 0 .. Len(Parts(path))
<1>1. IsSeq(Parts(path)) /\ Len(Parts(path)) \in Nat
  BY PartsIsSeq
<1>2. n \in 0 .. Len(Parts(path)) /\ rest = After(Parts(path), n)
  BY DEF Placed
<1>3. CASE n = Len(Parts(path))
  BY <1>1, <1>2, <1>3, Afterwards
<1>4. CASE n < Len(Parts(path))
  BY <1>1, <1>2, <1>4, Afterwards
<1> QED
  BY <1>1, <1>2, <1>3, <1>4

LEMMA BasicStep == Basic /\ [Next]_vars => Basic'
<1> SUFFICES ASSUME Basic, [Next]_vars PROVE Basic'
  OBVIOUS
<1>0. /\ image \in Images /\ path \in Paths /\ \E n : Placed(n)
      /\ offset \in Nat /\ IsSeq(out_entries) /\ curr_inode \in Inodes(image.made)
      /\ DOMAIN out_entries = 1 .. Len(out_entries)
  BY SeqLen DEF Basic, TypeOK, Located, Typed, Placed, After
\* What a step changes, besides where the call is.
<1>1. ASSUME UNCHANGED <<image, path, rest>>, offset' \in Nat, IsSeq(out_entries'),
             \A n \in 1 .. Len(out_entries') :
               out_entries'[n].inode \in Inodes(image.made) /\ out_entries'[n].type # "none",
             pc' \in {"open", "entries", "listed", "done", "failed"},
             pc' \in {"entries", "listed", "done"} => opened' \in Directories,
             Located'
      PROVE  Basic'
  <2>1. Typed'
    BY <1>1 DEF Typed
  <2>2. \A n \in DOMAIN out_entries' : out_entries'[n].inode # 0 /\ out_entries'[n].type # "none"
    BY <1>1, SeqLen DEF Inodes
  <2>3. (\E n \in 0 .. Len(Parts(path)) :
           rest = SubSeq(Parts(path), n + 1, Len(Parts(path))))'
    BY <1>1 DEF Basic, TypeOK
  <2> QED
    BY <1>0, <1>1, <2>1, <2>2, <2>3 DEF Basic, TypeOK, Directories
<1>2. CASE Mount
  <2>1. /\ pc = "mount" /\ pc' \in {"open", "failed"}
        /\ UNCHANGED <<image, path, curr_inode, rest, opened, offset, out_entries>>
    BY <1>2 DEF Mount
  <2>2. pc' = "open" => geometry' = Geometry(SuperblockOf(image.made)) /\ image.magic
    BY <1>0, <1>2, Mounts, ImagesAssumption, Zenon DEF Mount
  <2>3. Located'
    BY <1>0, <2>1, <2>2 DEF Located, Mounted, AtWork
  <2> QED
    BY <1>0, <1>1, <2>1, <2>3 DEF Basic, Typed
<1>3. CASE OpenDirectory
  <2>1. /\ pc = "open" /\ UNCHANGED <<image, path, geometry, curr_inode, rest>>
        /\ offset' = 0 /\ out_entries' = <<>> /\ pc' \in {"entries", "failed"}
        /\ pc' = "entries" => opened' \in Read(curr_inode) \cap Directories
    BY <1>3 DEF OpenDirectory
  <2>2. Mounted /\ geometry = Geometry(SuperblockOf(image.made)) /\ image.magic
    BY <2>1 DEF Mounted, Basic, Located
  <2>3. Read(curr_inode) = {curr_inode} \ image.lost
    BY <1>0, <2>2, InodeRead
  <2>4. pc' = "entries" => opened' = curr_inode' /\ opened' \in Directories
    BY <2>1, <2>3
  <2>5. Located'
    BY <1>0, <2>1, <2>2, <2>4 DEF Located, Mounted, AtWork
  <2>6. IsSeq(out_entries') /\ Len(out_entries') = 0
    BY <2>1, EmptyIsSeq
  <2> QED
    BY <1>1, <2>1, <2>4, <2>5, <2>6
<1>4. CASE TakeRecord
  <2>1. /\ pc = "entries" /\ UNCHANGED <<image, path, geometry, curr_inode, rest, opened, pc>>
        /\ AtWork /\ opened \in Directories
    BY <1>4 DEF TakeRecord, AtWork, Basic, TypeOK
  <2>2. PICK record \in HeaderAt(image.dirs[opened], offset) :
          /\ \/ /\ Listed(record)
                /\ \E type \in Types(record) :
                     out_entries' = Append(out_entries, [name |-> record.name,
                                                    inode |-> record.inode, type |-> type])
             \/ ~Listed(record) /\ out_entries' = out_entries
          /\ offset' = offset + record.rec_len
    BY <1>4 DEF TakeRecord
  <2>3. offset' \in Nat
    <3>1. record.rec_len \in 0 .. RecWord - 1 /\ RecWord \in Nat
      BY <1>0, <2>1, <2>2, DirectoryMade, HeaderType, DirectoryAssumption
    <3> QED
      BY <1>0, <2>2, <3>1
  <2>4. /\ IsSeq(out_entries')
        /\ \A n \in 1 .. Len(out_entries') :
             out_entries'[n].inode \in Inodes(image.made) /\ out_entries'[n].type # "none"
    <3>1. CASE out_entries' = out_entries
      BY <1>0, <3>1 DEF Basic, Typed
    <3>2. CASE Listed(record) /\ out_entries' # out_entries
      <4>1. PICK type \in Types(record) :
              out_entries' = Append(out_entries, [name |-> record.name,
                                                  inode |-> record.inode, type |-> type])
        BY <2>2, <3>2
      <4>2. record.inode \in Inodes(image.made) /\ type # "none"
        BY <2>1, <2>2, <3>2, <4>1, TypesRight
      <4>3. PICK e : e = [name |-> record.name, inode |-> record.inode, type |-> type]
        OBVIOUS
      <4>4. e.inode \in Inodes(image.made) /\ e.type # "none"
        BY <4>2, <4>3
      <4>5. /\ IsSeq(out_entries') /\ Len(out_entries') = Len(out_entries) + 1
            /\ out_entries'[Len(out_entries) + 1] = e /\ Len(out_entries) \in Nat
            /\ \A n \in 1 .. Len(out_entries) : out_entries'[n] = out_entries[n]
        BY <1>0, <4>1, <4>3, Appended, Zenon
      <4> QED
        BY <4>4, <4>5 DEF Basic, Typed
    <3> QED
      BY <2>2, <3>1, <3>2
  <2>5. Located'
    BY <2>1 DEF Basic, Located, Mounted, AtWork
  <2> QED
    BY <1>1, <2>1, <2>3, <2>4, <2>5
<1>5. CASE EndRecords
  <2>1. /\ pc = "entries" /\ pc' = "listed" /\ opened \in Directories
        /\ UNCHANGED <<image, path, geometry, curr_inode, rest, opened, offset, out_entries>>
    BY <1>5 DEF EndRecords, Basic, TypeOK
  <2>2. Located'
    BY <2>1 DEF Basic, Located, Mounted, AtWork
  <2> QED
    BY <1>0, <1>1, <2>1, <2>2 DEF Basic, Typed
<1>6. CASE FollowPart
  <2>1. /\ pc = "listed" /\ rest # <<>>
        /\ UNCHANGED <<image, path, geometry, opened, offset, out_entries>>
        /\ \/ pc' = "failed" /\ UNCHANGED <<curr_inode, rest>>
           \/ /\ pc' = "open" /\ rest' = Tail(rest)
              /\ \E n \in DOMAIN out_entries : curr_inode' = out_entries[n].inode
    BY <1>6 DEF FollowPart
  <2>2. curr_inode' \in Inodes(image.made)
    BY <1>0, <2>1 DEF Basic, Typed
  <2>3. Located'
    BY <2>1, <2>2 DEF Basic, Located, Mounted, AtWork
  <2>4. PICK n : Placed(n)
    BY <1>0
  <2>5. \E m \in 0 .. Len(Parts(path)) :
          rest' = SubSeq(Parts(path), m + 1, Len(Parts(path)))
    <3>1. CASE rest' = rest
      BY <1>0, <2>4, <3>1 DEF Placed, After
    <3>2. CASE rest' = Tail(rest)
      <4>1. n + 1 \in 0 .. Len(Parts(path)) /\ rest' = After(Parts(path), n + 1)
        BY <1>0, <2>1, <2>4, <3>2, Following
      <4> QED
        BY <4>1, Zenon DEF After
    <3> QED
      BY <2>1, <3>1, <3>2
  <2>6. TypeOK'
    BY <2>1, <2>5 DEF Basic, TypeOK
  <2> QED
    BY <2>1, <2>3, <2>6 DEF Basic, Typed
<1>7. CASE ReturnEntries
  <2>1. /\ pc = "listed" /\ pc' = "done" /\ opened \in Directories
        /\ UNCHANGED <<image, path, geometry, curr_inode, rest, opened, offset, out_entries>>
    BY <1>7 DEF ReturnEntries, Basic, TypeOK
  <2>2. Located'
    BY <2>1 DEF Basic, Located, Mounted, AtWork
  <2> QED
    BY <1>0, <1>1, <2>1, <2>2 DEF Basic, Typed
<1>8. CASE UNCHANGED vars
  BY <1>8 DEF Basic, TypeOK, Located, Typed, Mounted, AtWork, Directories
<1> QED
  BY <1>2, <1>3, <1>4, <1>5, <1>6, <1>7, <1>8 DEF Next

\* No variable ever has a value the code could not give it, and nothing is listed
\* without an inode or a type, even of a directory that is read astray
\* (ext4_reader.cpp:389-495).
THEOREM TypeCorrect == Spec => []TypeOK
<1>1. Basic => TypeOK
  BY DEF Basic
<1> QED
  BY <1>1, BasicInit, BasicStep, PTL DEF Spec

-----------------------------------------------------------------------------
\* The reader is where a record starts, or behind the last one.
OnChain(dir, place) ==
  \/ place \in DOMAIN dir.records \cup {dir.size}
  \/ place + 1 = dir.size /\ \A p \in DOMAIN dir.records : p < place

\* The entries are those of the records before a place.
Tracks(fs, dir, entries, place) ==
  /\ Len(entries) = Cardinality(BelowIn(Live(dir), place))
  /\ \A n \in 1 .. Len(entries) : entries[n] = EntriesOf(fs, dir)[n]

Dir == image.dirs[opened]

Listing ==
  AtWork /\ LengthsKept(Dir) =>
    /\ Tracks(image, Dir, out_entries, offset)
    /\ pc = "entries" => OnChain(Dir, offset)
    /\ pc # "entries" /\ Whole(Dir) => out_entries = EntriesOf(image, Dir)

\* From the start of a record the reader comes to the start of the next.
LEMMA NextOnChain ==
  ASSUME NEW dir, WellMadeChain(dir), LengthsKept(dir), NEW p \in DOMAIN dir.records,
         NEW record \in HeaderAt(dir, p), Sound(record),
         NEW next, next = p + record.rec_len
  PROVE  /\ p \in Nat /\ next \in Nat /\ p < next /\ OnChain(dir, next)
         /\ \A q \in DOMAIN dir.records : q <= p \/ next <= q
<1> DEFINE len == dir.records[p].rec_len
<1>1. /\ record.rec_len = OnDisk(len) /\ OnDisk(len) # 0
      /\ p \in Nat /\ p < dir.size /\ dir.size \in Nat
      /\ DOMAIN dir.records \in SUBSET (0 .. dir.size - 1)
      /\ RecWord \in Nat /\ RecWord > 1 /\ HeaderSize \in Nat
  BY HeaderRead, DirectoryAssumption DEF Sound, WellMadeChain
<1>2. len \in {0} \cup HeaderSize .. RecWord
  BY DEF WellMadeChain, DirEntry2
<1>3. p < p + len => /\ p + len \in DOMAIN dir.records \cup {dir.size}
                     /\ \A q \in DOMAIN dir.records : q <= p \/ p + len <= q
  BY DEF WellMadeChain
<1>4. len = RecWord => p + RecWord = dir.size
  BY DEF LengthsKept
<1> HIDE DEF len
<1>5. CASE len < RecWord
  <2>1. next = p + len /\ p < p + len
    BY <1>1, <1>2, <1>5 DEF OnDisk
  <2> QED
    BY <1>1, <1>2, <1>3, <2>1 DEF OnChain
<1>6. CASE len = RecWord
  <2>1. next = p + RecWord - 1 /\ p + RecWord = dir.size
    BY <1>1, <1>4, <1>6 DEF OnDisk
  <2>2. ASSUME NEW q \in DOMAIN dir.records PROVE q <= p
    BY <1>1, <1>3, <1>6, <2>1
  <2> QED
    BY <1>1, <2>1, <2>2 DEF OnChain
<1> QED
  BY <1>1, <1>2, <1>5, <1>6

\* What one record adds to the entries.
LEMMA TracksOn ==
  ASSUME NEW fs, NEW dir, WellMadeChain(dir), NEW entries, IsSeq(entries),
         NEW p \in Nat, NEW next \in Nat, p < next, Tracks(fs, dir, entries, p),
         \A q \in DOMAIN dir.records : q <= p \/ next <= q
  PROVE  /\ p \in Live(dir) => Tracks(fs, dir, Append(entries, EntryAt(fs, dir, p)), next)
         /\ p \notin Live(dir) => Tracks(fs, dir, entries, next)
<1>1. Live(dir) \in SUBSET Nat /\ IsFiniteSet(Live(dir))
  BY LiveFinite, Zenon
<1>2. \A q \in Live(dir) : q <= p \/ next <= q
  BY DEF Live
<1>3. ASSUME p \in Live(dir)
      PROVE  Tracks(fs, dir, Append(entries, EntryAt(fs, dir, p)), next)
  <2> DEFINE e   == EntryAt(fs, dir, p)
             out == Append(entries, e)
             all == EntriesOf(fs, dir)
  <2>1. Cardinality(BelowIn(Live(dir), next)) = Cardinality(BelowIn(Live(dir), p)) + 1
    BY <1>1, <1>2, <1>3, BelowNext
  <2>2. all[Cardinality(BelowIn(Live(dir), p)) + 1] = e
    BY <1>3, EntriesInOrder, Zenon
  <2> HIDE DEF all, e
  <2>3. /\ Len(out) = Len(entries) + 1 /\ Len(entries) \in Nat
        /\ out[Len(entries) + 1] = e
        /\ \A n \in 1 .. Len(entries) : out[n] = entries[n]
    BY Appended
  <2>4. /\ Len(entries) = Cardinality(BelowIn(Live(dir), p))
        /\ \A n \in 1 .. Len(entries) : entries[n] = all[n]
    BY DEF Tracks, all
  <2> HIDE DEF out
  <2>5. \A n \in 1 .. Len(out) : out[n] = all[n]
    <3> SUFFICES ASSUME NEW n \in 1 .. Len(out) PROVE out[n] = all[n]
      OBVIOUS
    <3>1. CASE n = Len(entries) + 1
      BY <2>2, <2>3, <2>4, <3>1
    <3>2. CASE n # Len(entries) + 1
      BY <2>3, <2>4, <3>2
    <3> QED
      BY <3>1, <3>2
  <2> QED
    BY <2>1, <2>3, <2>4, <2>5 DEF Tracks, all, out, e
<1>4. ASSUME p \notin Live(dir)
      PROVE  Tracks(fs, dir, entries, next)
  <2>1. ASSUME NEW q \in Live(dir) PROVE q < next <=> q < p
    BY <1>1, <1>2, <1>4
  <2>2. BelowIn(Live(dir), next) = BelowIn(Live(dir), p)
    BY <2>1, Zenon DEF BelowIn
  <2> QED
    BY <2>2, Zenon DEF Tracks
<1> QED
  BY <1>3, <1>4, Zenon

\* Behind the last record everything is listed.
LEMMA AllListed ==
  ASSUME NEW fs, NEW dir, WellMadeChain(dir), NEW entries, IsSeq(entries),
         NEW place \in Nat, Tracks(fs, dir, entries, place),
         \A p \in DOMAIN dir.records : p < place
  PROVE  entries = EntriesOf(fs, dir)
<1>1. BelowIn(Live(dir), place) = Live(dir)
  BY Zenon DEF BelowIn, Live
<1>2. IsSeq(EntriesOf(fs, dir)) /\ Len(entries) = Len(EntriesOf(fs, dir))
  BY <1>1, EntriesInOrder, Zenon DEF Tracks
<1> QED
  BY <1>2, SameSeq, Zenon DEF Tracks

\* Where there is no room for a record there is none, but one of length 0.
LEMMA NoRoom ==
  ASSUME NEW dir, WellMadeChain(dir), Whole(dir), NEW place \in Nat, OnChain(dir, place),
         ~(place + HeaderSize <= dir.size)
  PROVE  \A p \in DOMAIN dir.records : p < place
<1>1. /\ dir.size \in Nat /\ HeaderSize \in Nat /\ HeaderSize > 1 /\ RecWord \in Nat
      /\ DOMAIN dir.records \in SUBSET (0 .. dir.size - 1)
  BY DirectoryAssumption DEF WellMadeChain
<1>2. CASE place \in DOMAIN dir.records
  <2> DEFINE len == dir.records[place].rec_len
  <2>1. len \in HeaderSize .. RecWord
    BY <1>2 DEF WellMadeChain, DirEntry2, Whole
  <2>2. place < place + len => place + len \in DOMAIN dir.records \cup {dir.size}
    BY <1>2 DEF WellMadeChain
  <2> HIDE DEF len
  <2> QED
    BY <1>1, <2>1, <2>2
<1>3. CASE place = dir.size
  BY <1>1, <1>3
<1> QED
  BY <1>2, <1>3 DEF OnChain

LEMMA ListingStep == Basic /\ Listing /\ [Next]_vars => Listing'
<1> SUFFICES ASSUME Basic, Listing, [Next]_vars, AtWork', LengthsKept(Dir)'
             PROVE  /\ Tracks(image, Dir, out_entries, offset)'
                    /\ pc' = "entries" => OnChain(Dir, offset)'
                    /\ pc' # "entries" /\ Whole(Dir)' => out_entries' = EntriesOf(image, Dir)'
  BY DEF Listing
<1>0. IsSeq(out_entries) /\ offset \in Nat
  BY DEF Basic, TypeOK, Typed
<1>1. CASE OpenDirectory /\ pc' = "entries"
  <2>1. /\ image' = image /\ offset' = 0 /\ out_entries' = <<>>
        /\ opened' \in DOMAIN image.dirs /\ image \in Images
    BY <1>1 DEF OpenDirectory, Directories, Basic, Located
  <2> DEFINE dir == image.dirs[opened']
  <2>2. WellMadeChain(dir)
    BY <2>1, ImagesAssumption, Zenon
  <2>3. Cardinality(BelowIn(Live(dir), 0)) = 0
    <3>1. Live(dir) \in SUBSET Nat
      BY <2>2, LiveFinite, Zenon
    <3>2. ASSUME NEW q \in Live(dir) PROVE ~(q < 0)
      BY <3>1
    <3>3. BelowIn(Live(dir), 0) = {}
      BY <3>2, Zenon DEF BelowIn
    <3> QED
      BY <3>3, FS_EmptySet, Zenon
  <2>4. OnChain(dir, 0)
    BY <2>2 DEF WellMadeChain, OnChain
  <2>5. Tracks(image, dir, <<>>, 0)
    <3>1. Len(<<>>) = 0 /\ \A n \in 1 .. Len(<<>>) : FALSE
      BY EmptyIsSeq
    <3> QED
      BY <2>3, <3>1, Zenon DEF Tracks
  <2> QED
    BY <1>1, <2>1, <2>4, <2>5 DEF Dir, Tracks
<1>2. CASE TakeRecord
  <2>1. /\ pc = "entries" /\ UNCHANGED <<image, opened, pc>> /\ AtWork /\ MoreRecords
    BY <1>2 DEF TakeRecord, AtWork
  <2>2. PICK record \in HeaderAt(Dir, offset) :
          /\ Sound(record)
          /\ \/ /\ Listed(record)
                /\ \E type \in Types(record) :
                     out_entries' = Append(out_entries, [name |-> record.name,
                                                    inode |-> record.inode, type |-> type])
             \/ ~Listed(record) /\ out_entries' = out_entries
          /\ offset' = offset + record.rec_len
    BY <1>2 DEF TakeRecord, Dir
  <2>3. Dir' = Dir /\ LengthsKept(Dir) /\ WellMadeChain(Dir) /\ WellMadeEntries(image, Dir)
    BY <2>1, DirectoryMade DEF Dir
  <2>4. Tracks(image, Dir, out_entries, offset) /\ OnChain(Dir, offset)
    BY <2>1, <2>3 DEF Listing
  <2>5. offset \in DOMAIN Dir.records
    BY <1>0, <2>1, <2>3, <2>4, DirectoryAssumption DEF OnChain, MoreRecords, Dir, WellMadeChain
  <2>6. /\ offset' \in Nat /\ offset < offset' /\ OnChain(Dir, offset')
        /\ \A q \in DOMAIN Dir.records : q <= offset \/ offset' <= q
    BY <2>2, <2>3, <2>5, NextOnChain
  <2>7. Listed(record) <=> offset \in Live(Dir)
    BY <1>0, <2>2, <2>3, <2>5, ListedIsLive
  <2>8. CASE Listed(record)
    <3>1. out_entries' = Append(out_entries, EntryAt(image, Dir, offset))
      BY <2>1, <2>2, <2>5, <2>8, TypesRight DEF Dir
    <3>2. Tracks(image, Dir, out_entries', offset')
      BY <1>0, <2>3, <2>4, <2>6, <2>7, <2>8, <3>1, TracksOn, Zenon
    <3> QED
      BY <2>1, <2>3, <2>6, <3>2 DEF Tracks
  <2>9. CASE ~Listed(record)
    <3>1. Tracks(image, Dir, out_entries', offset')
      BY <1>0, <2>2, <2>3, <2>4, <2>6, <2>7, <2>9, TracksOn, Zenon
    <3> QED
      BY <2>1, <2>3, <2>6, <3>1 DEF Tracks
  <2> QED
    BY <2>8, <2>9
<1>3. CASE EndRecords
  <2>1. /\ pc = "entries" /\ pc' = "listed" /\ AtWork
        /\ UNCHANGED <<image, opened, offset, out_entries>>
    BY <1>3 DEF EndRecords, AtWork
  <2>2. Dir' = Dir /\ LengthsKept(Dir) /\ WellMadeChain(Dir)
    BY <2>1, DirectoryMade DEF Dir
  <2>3. Tracks(image, Dir, out_entries, offset) /\ OnChain(Dir, offset)
    BY <2>1, <2>2 DEF Listing
  <2>4. ASSUME Whole(Dir) PROVE out_entries = EntriesOf(image, Dir)
    <3>1. ~MoreRecords
      <4> SUFFICES ASSUME MoreRecords PROVE FALSE
        OBVIOUS
      <4>1. PICK record \in HeaderAt(Dir, offset) : ~Sound(record)
        BY <1>3 DEF EndRecords, Dir
      <4>2. offset \in DOMAIN Dir.records
        BY <1>0, <2>2, <2>3, DirectoryAssumption DEF OnChain, MoreRecords, Dir, WellMadeChain
      <4>3. OnDisk(Dir.records[offset].rec_len) = 0
        BY <2>2, <4>1, <4>2, HeaderRead DEF Sound
      <4>4. Dir.records[offset].rec_len # 0
        BY <2>4, <4>2 DEF Whole
      <4> QED
        BY <4>3, <4>4, DirectoryAssumption DEF OnDisk
    <3>2. \A p \in DOMAIN Dir.records : p < offset
      BY <1>0, <2>2, <2>3, <2>4, <3>1, NoRoom DEF MoreRecords, Dir
    <3> QED
      BY <1>0, <2>2, <2>3, <3>2, AllListed
  <2> QED
    BY <2>1, <2>2, <2>3, <2>4 DEF Tracks
<1>4. CASE ReturnEntries \/ UNCHANGED vars
  <2>1. /\ UNCHANGED <<image, opened, offset, out_entries>>
        /\ AtWork /\ (pc' = "entries" => pc = "entries")
        /\ (pc' # "entries" => pc # "entries")
    BY <1>4 DEF ReturnEntries, AtWork
  <2>2. Dir' = Dir
    BY <2>1 DEF Dir
  <2> QED
    BY <2>1, <2>2 DEF Listing, Tracks
<1>5. CASE Mount \/ FollowPart \/ (OpenDirectory /\ pc' # "entries")
  BY <1>5 DEF Mount, FollowPart, OpenDirectory, AtWork
<1> QED
  BY <1>1, <1>2, <1>3, <1>4, <1>5 DEF Next

LEMMA ListingInit == Init => Listing
BY DEF Init, Listing, AtWork

LEMMA Invariance == Spec => [](Basic /\ Listing)
BY BasicInit, BasicStep, ListingInit, ListingStep, PTL DEF Spec

\* A directory whose blocks can be read is listed completely, in order, without what was
\* deleted and with the right types, for any records that fill it, whether or not they
\* have a type (ext4_reader.cpp:407-437).
THEOREM ListingComplete == Spec => []ListsAll
<1>1. Listing => ListsAll
  BY DEF Listing, ListsAll, AtWork, Dir
<1> QED
  BY <1>1, Invariance, PTL

\* Whatever blocks read as zeros, what has been listed is what the directory holds, from
\* its beginning (ext4_reader.cpp:401-413).
THEOREM NothingMadeUp == Spec => []ListsOnlyEntries
<1>1. Basic /\ Listing => ListsOnlyEntries
  <2> SUFFICES ASSUME Basic, Listing, AtWork, LengthsKept(Dir)
               PROVE  /\ Len(out_entries) <= Len(EntriesOf(image, Dir))
                      /\ \A n \in 1 .. Len(out_entries) :
                           out_entries[n] = EntriesOf(image, Dir)[n]
    BY DEF ListsOnlyEntries, AtWork, Dir
  <2>1. Tracks(image, Dir, out_entries, offset)
    BY DEF Listing
  <2>2. WellMadeChain(Dir)
    BY DirectoryMade DEF Dir
  <2>3. Cardinality(BelowIn(Live(Dir), offset)) <= Cardinality(Live(Dir))
    BY <2>2, LiveFinite, BelowFinite, Zenon
  <2>4. Len(EntriesOf(image, Dir)) = Cardinality(Live(Dir))
    BY <2>2, EntriesInOrder, Zenon
  <2> QED
    BY <2>1, <2>3, <2>4 DEF Tracks
<1> QED
  BY <1>1, Invariance, PTL

-----------------------------------------------------------------------------
\* Every place in the order is that of a member.
LEMMA InOrderMember ==
  ASSUME NEW S \in SUBSET Nat, IsFiniteSet(S), NEW k \in 1 .. Cardinality(S)
  PROVE  InOrder(S)[k] \in S
<1> DEFINE size == Cardinality(S)
           f == [i \in S |-> Cardinality(BelowIn(S, i)) + 1]
<1>1. size \in Nat /\ IsFiniteSet(1 .. size) /\ Cardinality(1 .. size) = size
  BY FS_CardinalityType, FS_Interval
<1>2. \A i \in S : f[i] \in 1 .. size /\ InOrder(S)[f[i]] = i
  BY PlaceInOrder
<1>3. f \in [S -> 1 .. size]
  BY <1>2
<1>4. f \in Injection(S, 1 .. size)
  <2>1. \A i, j \in S : f[i] = f[j] => i = j
    <3> HIDE DEF f
    <3> QED
      BY <1>2, Zenon
  <2> HIDE DEF f
  <2> QED
    BY <1>3, <2>1, Zenon DEF Injection, IsInjective
<1> HIDE DEF f
<1>5. f \in Surjection(S, 1 .. size)
  BY <1>1, <1>4, FS_Injection
<1>6. PICK i \in S : f[i] = k
  BY <1>5 DEF Surjection
<1> QED
  BY <1>2, <1>6

\* What is listed of a directory is a record it holds, and the other way round.
LEMMA EntryHeld ==
  ASSUME NEW fs, NEW dir, WellMadeChain(dir), NEW n \in 1 .. Len(EntriesOf(fs, dir))
  PROVE  \E p \in Live(dir) : EntriesOf(fs, dir)[n] = EntryAt(fs, dir, p)
<1>1. Live(dir) \in SUBSET Nat /\ IsFiniteSet(Live(dir))
  BY LiveFinite, Zenon
<1>2. n \in 1 .. Cardinality(Live(dir))
  BY EntriesInOrder, Zenon
<1>3. InOrder(Live(dir))[n] \in Live(dir) /\ n \in DOMAIN InOrder(Live(dir))
  BY <1>1, <1>2, InOrderMember DEF InOrder
<1> QED
  BY <1>3, Zenon DEF EntriesOf

-----------------------------------------------------------------------------
AllWhole(fs) == \A d \in DOMAIN fs.dirs : Whole(fs.dirs[d]) /\ LengthsKept(fs.dirs[d])

\* A way along the first n parts of a path.
WayTo(fs, parts, n, way) ==
  /\ way \in [0 .. n -> Inodes(fs.made)] /\ way[0] = Root
  /\ \A i \in 1 .. n : Child(fs, way[i - 1], parts[i], way[i])

Path == Parts(path)

\* lookup_path is where the first n parts lead, and there is no other way.
OnWay(n) ==
  /\ \E way : WayTo(image, Path, n, way) /\ way[n] = curr_inode
  /\ \A way \in Ways(image, Path) : way[n] = curr_inode

\* No way leads to a directory through inodes that can be read.
Nowhere ==
  \A way \in Ways(image, Path) :
    \/ way[Len(Path)] \notin DOMAIN image.dirs
    \/ \E n \in 0 .. Len(Path) : way[n] \in image.lost \cup image.torn

Walking ==
  image.magic /\ AllWhole(image) =>
    /\ pc # "failed" => (\E n : Placed(n) /\ OnWay(n)) /\ (pc = "done" => rest = <<>>)
    /\ pc = "failed" => Nowhere

\* Of one name there is one child.
LEMMA OneChild ==
  ASSUME image \in Images, NEW d, NEW name, NEW m, NEW n,
         Child(image, d, name, m), Child(image, d, name, n)
  PROVE  m = n
<1>1. d \in DOMAIN image.dirs /\ WellMadeEntries(image, image.dirs[d])
  BY ImagesAssumption, Zenon DEF Child
<1> QED
  BY <1>1, Zenon DEF Child, WellMadeEntries

\* When a directory has been listed, its entries are its children.
LEMMA ListedChildren ==
  ASSUME Basic, Listing, pc = "listed", AllWhole(image)
  PROVE  /\ \A name, m : Child(image, curr_inode, name, m) =>
              \E n \in DOMAIN out_entries : out_entries[n].name = name
         /\ \A n \in DOMAIN out_entries :
              Child(image, curr_inode, out_entries[n].name, out_entries[n].inode)
<1>1. AtWork /\ opened = curr_inode
  BY DEF AtWork, Basic, Located
<1>2. WellMadeChain(Dir) /\ opened \in DOMAIN image.dirs
  BY <1>1, DirectoryMade, Zenon DEF Dir
<1>3. Whole(Dir) /\ LengthsKept(Dir)
  BY <1>2, Zenon DEF AllWhole, Dir
<1>4. out_entries = EntriesOf(image, Dir)
  BY <1>1, <1>3 DEF Listing
<1>5. DOMAIN out_entries = 1 .. Len(out_entries)
  BY SeqLen, Zenon DEF Basic, Typed
<1>6. ASSUME NEW name, NEW m, Child(image, curr_inode, name, m)
      PROVE  \E n \in DOMAIN out_entries : out_entries[n].name = name
  <2>1. PICK p \in Live(Dir) : Dir.records[p].name = name
    BY <1>1, <1>6, Zenon DEF Child, Dir
  <2>2. PICK n : n \in 1 .. Len(EntriesOf(image, Dir))
                 /\ EntriesOf(image, Dir)[n] = EntryAt(image, Dir, p)
    BY <1>2, EntriesInOrder, Zenon
  <2>3. EntryAt(image, Dir, p).name = name
    BY <2>1 DEF EntryAt
  <2> QED
    BY <1>4, <1>5, <2>2, <2>3, Zenon
<1>7. ASSUME NEW n \in DOMAIN out_entries
      PROVE  Child(image, curr_inode, out_entries[n].name, out_entries[n].inode)
  <2>1. PICK p \in Live(Dir) : out_entries[n] = EntryAt(image, Dir, p)
    BY <1>2, <1>4, <1>5, <1>7, EntryHeld, Zenon
  <2>2. out_entries[n].name = Dir.records[p].name /\ out_entries[n].inode = Dir.records[p].inode
    BY <2>1 DEF EntryAt
  <2> QED
    BY <1>1, <1>2, <2>1, <2>2, Zenon DEF Child, Dir
<1> QED
  BY <1>6, <1>7

\* A part is followed to the one inode it leads to.
LEMMA WayOn ==
  ASSUME image \in Images, path \in Paths, NEW n \in Nat, n < Len(Path), OnWay(n), NEW m,
         Child(image, curr_inode, Path[n + 1], m), m \in Inodes(image.made)
  PROVE  /\ \E way : WayTo(image, Path, n + 1, way) /\ way[n + 1] = m
         /\ \A way \in Ways(image, Path) : way[n + 1] = m
<1>0. Len(Path) \in Nat
  BY PartsIsSeq DEF Path
<1>1. \E way : WayTo(image, Path, n + 1, way) /\ way[n + 1] = m
  <2>1. PICK way : WayTo(image, Path, n, way) /\ way[n] = curr_inode
    BY DEF OnWay
  <2> DEFINE on == [i \in 0 .. n + 1 |-> IF i <= n THEN way[i] ELSE m]
  <2>2. way \in [0 .. n -> Inodes(image.made)] /\ way[0] = Root
        /\ \A i \in 1 .. n : Child(image, way[i - 1], Path[i], way[i])
    BY <2>1 DEF WayTo
  <2>3. on \in [0 .. n + 1 -> Inodes(image.made)] /\ on[0] = Root /\ on[n + 1] = m
    BY <2>2
  <2>4. ASSUME NEW i \in 1 .. n + 1 PROVE Child(image, on[i - 1], Path[i], on[i])
    <3>1. CASE i \in 1 .. n
      <4>1. on[i] = way[i] /\ on[i - 1] = way[i - 1]
        BY <3>1
      <4> QED
        BY <2>2, <3>1, <4>1, Zenon
    <3>2. CASE i = n + 1
      <4>1. on[i] = m /\ on[i - 1] = curr_inode
        BY <2>1, <3>2
      <4> QED
        BY <3>2, <4>1, Zenon
    <3> QED
      BY <3>1, <3>2
  <2> HIDE DEF on
  <2> QED
    BY <2>3, <2>4, Zenon DEF WayTo
<1>2. ASSUME NEW way \in Ways(image, Path) PROVE way[n + 1] = m
  <2>1. n + 1 \in 1 .. Len(Path) /\ (n + 1) - 1 = n
    BY <1>0
  <2>2. Child(image, way[n], Path[n + 1], way[n + 1])
    BY <2>1 DEF Ways
  <2>3. way[n] = curr_inode
    BY DEF OnWay
  <2> QED
    BY <2>2, <2>3, OneChild, Zenon
<1> QED
  BY <1>1, <1>2

LEMMA WalkingInit == Init => Walking
<1> SUFFICES ASSUME Init PROVE Walking
  OBVIOUS
<1>1. image \in Images /\ path \in Paths /\ curr_inode = Root /\ rest = Parts(path) /\ pc = "mount"
  BY DEF Init
<1>2. IsSeq(Path) /\ Len(Path) \in Nat
  BY <1>1, PartsIsSeq DEF Path
<1>3. Placed(0)
  BY <1>1, <1>2, Afterwards DEF Placed, Path
<1>4. Root \in Inodes(image.made)
  BY <1>1, ImagesAssumption, Zenon
<1>5. WayTo(image, Path, 0, [i \in 0 .. 0 |-> Root])
  BY <1>4 DEF WayTo
<1>6. OnWay(0)
  <2>1. [i \in 0 .. 0 |-> Root][0] = Root
    OBVIOUS
  <2>2. \A way \in Ways(image, Path) : way[0] = Root
    BY DEF Ways
  <2> QED
    BY <1>1, <1>5, <2>1, <2>2, Zenon DEF OnWay
<1> QED
  BY <1>1, <1>3, <1>6 DEF Walking

LEMMA WalkingStep == Basic /\ Listing /\ Walking /\ [Next]_vars => Walking'
<1> SUFFICES ASSUME Basic, Listing, Walking, [Next]_vars PROVE Walking'
  OBVIOUS
<1>0. image \in Images /\ path \in Paths /\ image' = image /\ path' = path
  BY DEF Basic, TypeOK, Located, Next, Mount, OpenDirectory, TakeRecord, EndRecords,
         FollowPart, ReturnEntries
\* Where nothing moves and nothing fails.
<1>1. ASSUME UNCHANGED <<curr_inode, rest>>, pc # "failed" => pc' # "failed",
             pc = "failed" => pc' = "failed", pc' = "done" => rest = <<>>
      PROVE  Walking'
  <2>0. Path' = Path /\ curr_inode' = curr_inode /\ rest' = rest
    BY <1>0, <1>1 DEF Path
  <2>1. ASSUME NEW n, OnWay(n) PROVE OnWay(n)'
    <3>1. PICK way : WayTo(image, Path, n, way) /\ way[n] = curr_inode
      BY <2>1 DEF OnWay
    <3>2. WayTo(image, Path, n, way)' /\ way[n] = curr_inode'
      BY <1>0, <2>0, <3>1, Zenon
    <3>3. Ways(image, Path)' = Ways(image, Path)
      BY <1>0, <2>0, Zenon
    <3>4. \A v \in Ways(image, Path) : v[n] = curr_inode
      BY <2>1 DEF OnWay
    <3> QED
      BY <2>0, <3>2, <3>3, <3>4, Zenon DEF OnWay
  <2>2. \A n : Placed(n) => Placed(n)'
    BY <1>0, <2>0, Zenon DEF Placed
  <2>3. Nowhere' <=> Nowhere
    BY <1>0, Zenon DEF Nowhere, Path
  <2>4. AllWhole(image)' <=> AllWhole(image)
    BY <1>0, Zenon DEF AllWhole
  <2> QED
    BY <1>0, <1>1, <2>1, <2>2, <2>3, <2>4, Zenon DEF Walking
\* Where the call fails.
<1>2. ASSUME pc' = "failed", image.magic /\ AllWhole(image) => Nowhere
      PROVE  Walking'
  <2>1. Nowhere' <=> Nowhere
    BY <1>0, Zenon DEF Nowhere, Path
  <2>2. AllWhole(image)' <=> AllWhole(image)
    BY <1>0, Zenon DEF AllWhole
  <2> QED
    BY <1>0, <1>2, <2>1, <2>2, Zenon DEF Walking
<1>3. CASE Mount
  <2>1. pc = "mount" /\ pc' \in {"open", "failed"} /\ UNCHANGED <<curr_inode, rest>>
    BY <1>3 DEF Mount
  <2>2. pc' = "failed" => ~image.magic
    BY <1>0, <1>3, Mounts, ImagesAssumption, Zenon DEF Mount
  <2> QED
    BY <1>1, <1>2, <2>1, <2>2
<1>4. CASE OpenDirectory
  <2>1. /\ pc = "open" /\ UNCHANGED <<curr_inode, rest>> /\ pc' \in {"entries", "failed"}
        /\ pc' = "failed" => Read(curr_inode) \cap Directories = {}
    BY <1>4 DEF OpenDirectory
  <2>2. ASSUME pc' = "failed", image.magic, AllWhole(image) PROVE Nowhere
    <3>1. PICK n : Placed(n) /\ OnWay(n)
      BY <2>1, <2>2 DEF Walking
    <3>2. Read(curr_inode) = {curr_inode} \ image.lost
      BY <2>1, InodeRead DEF Basic, Located, Mounted
    <3>3. curr_inode \in image.lost \cup image.torn \/ curr_inode \notin DOMAIN image.dirs
      BY <2>1, <2>2, <3>2 DEF Directories
    <3>4. ASSUME NEW way \in Ways(image, Path)
          PROVE  \/ way[Len(Path)] \notin DOMAIN image.dirs
                 \/ \E i \in 0 .. Len(Path) : way[i] \in image.lost \cup image.torn
      <4>1. way[n] = curr_inode
        BY <3>1 DEF OnWay
      <4>2. n \in 0 .. Len(Path) /\ n \in Nat /\ Len(Path) \in Nat
        BY <1>0, <3>1, Following DEF Path, Placed
      <4>3. CASE curr_inode \in image.lost \cup image.torn
        BY <4>1, <4>2, <4>3
      <4>4. CASE curr_inode \notin DOMAIN image.dirs /\ n = Len(Path)
        BY <4>1, <4>4
      <4>5. CASE curr_inode \notin DOMAIN image.dirs /\ n < Len(Path)
        <5>1. n + 1 \in 1 .. Len(Path) /\ (n + 1) - 1 = n
          BY <4>2, <4>5
        <5>2. Child(image, way[n], Path[n + 1], way[n + 1])
          BY <5>1 DEF Ways
        <5> QED
          BY <4>1, <4>5, <5>2 DEF Child
      <4> QED
        BY <3>3, <4>2, <4>3, <4>4, <4>5
    <3> QED
      BY <3>4 DEF Nowhere
  <2> QED
    BY <1>1, <1>2, <2>1, <2>2
<1>5. CASE TakeRecord \/ EndRecords
  BY <1>1, <1>5 DEF TakeRecord, EndRecords
<1>6. CASE FollowPart
  <2>1. pc = "listed" /\ rest # <<>>
    BY <1>6 DEF FollowPart
  <2> SUFFICES ASSUME image.magic, AllWhole(image) PROVE Walking'
    <3>1. AllWhole(image)' <=> AllWhole(image)
      BY <1>0, Zenon DEF AllWhole
    <3> QED
      BY <1>0, <3>1, Zenon DEF Walking
  <2>2. PICK n : Placed(n) /\ OnWay(n)
    BY <2>1 DEF Walking
  <2>3. /\ n \in Nat /\ n < Len(Path) /\ Head(rest) = Path[n + 1] /\ Len(Path) \in Nat
        /\ Tail(rest) = After(Path, n + 1) /\ n + 1 \in 0 .. Len(Path)
    BY <1>0, <2>1, <2>2, Following DEF Path
  <2>4. CASE pc' = "failed" /\ \A k \in DOMAIN out_entries : ~IsNamed(k)
    <3>1. \A m : ~Child(image, curr_inode, Path[n + 1], m)
      BY <2>1, <2>3, <2>4, ListedChildren DEF IsNamed
    <3>2. ASSUME NEW way \in Ways(image, Path) PROVE FALSE
      <4>1. n + 1 \in 1 .. Len(Path) /\ (n + 1) - 1 = n
        BY <2>3
      <4>2. Child(image, way[n], Path[n + 1], way[n + 1])
        BY <4>1 DEF Ways
      <4>3. way[n] = curr_inode
        BY <2>2 DEF OnWay
      <4> QED
        BY <3>1, <4>2, <4>3
    <3> QED
      BY <1>2, <2>4, <3>2 DEF Nowhere
  <2>5. CASE /\ pc' = "open" /\ rest' = Tail(rest)
             /\ \E k \in DOMAIN out_entries : IsNamed(k) /\ curr_inode' = out_entries[k].inode
    <3>1. PICK k \in DOMAIN out_entries : IsNamed(k) /\ curr_inode' = out_entries[k].inode
      BY <2>5
    <3>2. Child(image, curr_inode, Path[n + 1], curr_inode')
      BY <2>1, <2>3, <3>1, ListedChildren DEF IsNamed
    <3>3. curr_inode' \in Inodes(image.made)
      BY <3>1, SeqLen DEF Basic, Typed
    <3>4. /\ \E way : WayTo(image, Path, n + 1, way) /\ way[n + 1] = curr_inode'
          /\ \A way \in Ways(image, Path) : way[n + 1] = curr_inode'
      BY <1>0, <2>2, <2>3, <3>2, <3>3, WayOn
    <3>5. Path' = Path
      BY <1>0 DEF Path
    <3>6. OnWay(n + 1)'
      BY <1>0, <3>4, <3>5, Zenon DEF OnWay
    <3>7. Placed(n + 1)'
      BY <1>0, <2>3, <2>5, <3>5 DEF Placed, Path
    <3> QED
      BY <2>5, <3>6, <3>7 DEF Walking
  <2> QED
    BY <1>6, <2>4, <2>5 DEF FollowPart
<1>7. CASE ReturnEntries \/ UNCHANGED vars
  BY <1>1, <1>7 DEF ReturnEntries, Walking
<1> QED
  BY <1>3, <1>4, <1>5, <1>6, <1>7 DEF Next

\* The directory listed is the one the path leads to, on any well-made file system of any
\* geometry, and the call fails only if the path leads to none or something on the way
\* cannot be read (ext4_reader.cpp:16-53, 84-140, 442-489).
THEOREM PathFollowed == Spec => []RightDirectory
<1>1. Basic /\ Walking => RightDirectory
  <2> SUFFICES ASSUME Basic, Walking, image.magic, AllWhole(image)
               PROVE  /\ pc = "done" =>
                           \E way \in Ways(image, Path) : way[Len(Path)] = opened
                      /\ pc = "failed" => Nowhere
    BY DEF RightDirectory, AllWhole, Path, Nowhere
  <2>1. ASSUME pc = "done"
        PROVE  \E way \in Ways(image, Path) : way[Len(Path)] = opened
    <3>1. PICK n : Placed(n) /\ OnWay(n) /\ rest = <<>>
      BY <2>1 DEF Walking
    <3>2. n = Len(Path)
      BY <3>1, Following DEF Path, Basic, TypeOK
    <3>3. curr_inode = opened
      BY <2>1 DEF Basic, Located, AtWork
    <3>4. PICK way : WayTo(image, Path, n, way) /\ way[n] = curr_inode
      BY <3>1 DEF OnWay
    <3>5. way \in Ways(image, Path)
      BY <3>2, <3>4, Zenon DEF WayTo, Ways
    <3> QED
      BY <3>2, <3>3, <3>4, <3>5
  <2> QED
    BY <2>1 DEF Walking
<1> QED
  BY <1>1, Invariance, WalkingInit, WalkingStep, PTL DEF Spec
=============================================================================
