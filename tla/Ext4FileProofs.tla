---------------------------- MODULE Ext4FileProofs ----------------------------
(***************************************************************************)
(* Theorems about Ext4Blocks and Ext4File, for any files that are well     *)
(* made, extent trees of any depth, blocks that are lost, and sizes of     *)
(* blocks and of integers.                                                 *)
(***************************************************************************)
EXTENDS Ext4File, NaturalsInduction, WellFoundedInduction, TLAPS

\* Sets of numbers have a least element, and if bounded a greatest.
LEMMA Least ==
  ASSUME NEW S \in SUBSET Nat, S # {}
  PROVE  Min(S) \in S /\ \A x \in S : Min(S) =< x
<1> DEFINE Less == {ss \in Nat \X Nat : ss[1] < ss[2]}
<1>1. IsWellFoundedOn(Less, Nat)
  BY NatLessThanWellFounded, Zenon DEF OpToRel
<1>2. \E x \in S : \A y \in S : <<y, x>> \notin Less
  <2> HIDE DEF Less
  <2> QED
    BY <1>1, WFMin, Zenon
<1>3. PICK x \in S : \A y \in S : <<y, x>> \notin Less
  BY <1>2
<1>4. \A y \in S : x =< y
  <2> SUFFICES ASSUME NEW y \in S, y < x PROVE FALSE
    OBVIOUS
  <2>1. <<y, x>> \in Less
    OBVIOUS
  <2> QED
    BY <2>1, <1>3
<1> QED
  BY <1>4 DEF Min

LEMMA Greatest ==
  ASSUME NEW S \in SUBSET Nat, S # {}, NEW b \in Nat, \A x \in S : x =< b
  PROVE  Max(S) \in S /\ \A x \in S : x =< Max(S)
<1> DEFINE U == {u \in Nat : \A x \in S : x =< u}
           m == Min(U)
<1>1. U \in SUBSET Nat /\ b \in U
  OBVIOUS
<1>2. m \in U /\ \A u \in U : m =< u
  <2> HIDE DEF U
  <2> QED
    BY <1>1, Least
<1> HIDE DEF m
<1>3. m \in S
  <2> SUFFICES ASSUME m \notin S PROVE FALSE
    OBVIOUS
  <2>1. PICK x \in S : TRUE
    OBVIOUS
  <2>2. m \in Nat /\ \A y \in S : y < m
    BY <1>2
  <2>3. m - 1 \in U
    BY <2>1, <2>2
  <2> QED
    BY <1>2, <2>2, <2>3
<1>4. \E x \in S : \A y \in S : x >= y
  BY <1>2, <1>3
<1> QED
  BY <1>4 DEF Max

LEMMA OnlyMax == ASSUME NEW x \in Nat PROVE Max({x}) = x
BY Greatest

-----------------------------------------------------------------------------
\* The children of a node are nodes, and nearer to the leaves.
Layered(f) ==
  /\ \A n \in NodesOf(f) : n.depth \in 0 .. f.root.depth
  /\ \A n \in NodesOf(f) : n.depth > 0 =>
       \A c \in DOMAIN n.entries :
         /\ n.entries[c].leaf \in DOMAIN f.node
         /\ f.node[n.entries[c].leaf].depth < n.depth

LEMMA TreeIsLayered ==
  ASSUME NEW f, WellMadeTree(f)
  PROVE  Layered(f)
BY DEF WellMadeTree, WellMadeIndex, Layered

LEMMA BelowEquation ==
  ASSUME NEW f, Layered(f)
  PROVE  \A n \in NodesOf(f) :
           ExtentsBelow(f)[n] =
             IF n.depth = 0 THEN {n.entries[x] : x \in DOMAIN n.entries}
             ELSE UNION {ExtentsBelow(f)[f.node[n.entries[c].leaf]] : c \in DOMAIN n.entries}
<1> DEFINE N == NodesOf(f)
           Body(W, n) == IF n.depth = 0 THEN {n.entries[x] : x \in DOMAIN n.entries}
                         ELSE UNION {W[f.node[n.entries[c].leaf]] : c \in DOMAIN n.entries}
           Right(W, d) == \A n \in N : n.depth < d => W[n] = Body(W, n)
           S == {d \in Nat : ~ \E W : Right(W, d)}
           P(W) == W = [n \in N |-> Body(W, n)]
<1>1. S = {}
  <2> SUFFICES ASSUME S # {} PROVE FALSE
    OBVIOUS
  <2>1. S \in SUBSET Nat
    OBVIOUS
  <2>2. PICK m \in Nat : m \in S /\ \A x \in S : m =< x
    <3> HIDE DEF S
    <3> QED
      BY <2>1, Least
  <2>3. ~ \E W : Right(W, m)
    BY <2>2, Zenon
  <2>4. m # 0
    <3> SUFFICES ASSUME m = 0 PROVE Right([n \in N |-> {}], m)
      BY <2>3, Zenon
    <3> QED
      BY DEF Layered
  <2>5. PICK V : Right(V, m - 1)
    <3>1. m - 1 \in Nat /\ ~(m =< m - 1)
      BY <2>4
    <3>2. m - 1 \notin S
      BY <2>2, <3>1, Zenon
    <3> QED
      BY <3>1, <3>2, Zenon
  <2>6. PICK W : W = [n \in N |-> Body(V, n)]
    OBVIOUS
  <2>7. ASSUME NEW n \in N, n.depth < m PROVE W[n] = Body(W, n)
    <3>1. W[n] = Body(V, n)
      BY <2>6
    <3>2. CASE n.depth = 0
      BY <3>1, <3>2
    <3>3. CASE n.depth > 0
      <4>1. ASSUME NEW c \in DOMAIN n.entries
            PROVE  W[f.node[n.entries[c].leaf]] = V[f.node[n.entries[c].leaf]]
        <5>1. PICK k : k = f.node[n.entries[c].leaf]
          OBVIOUS
        <5>2. k \in N /\ k.depth < n.depth
          BY <3>3, <4>1, <5>1 DEF Layered, NodesOf
        <5>3. n.depth \in Nat /\ k.depth \in Nat
          BY <5>2 DEF Layered
        <5>4. k.depth < m - 1
          BY ONLY <2>7, <5>2, <5>3, m \in Nat
        <5>5. V[k] = Body(V, k) /\ W[k] = Body(V, k)
          BY <2>5, <2>6, <5>2, <5>4, Zenon
        <5> QED
          BY <5>1, <5>5, Zenon
      <4>2. Body(W, n) = UNION {W[f.node[n.entries[c].leaf]] : c \in DOMAIN n.entries}
        BY <3>3
      <4>3. Body(V, n) = UNION {V[f.node[n.entries[c].leaf]] : c \in DOMAIN n.entries}
        BY <3>3
      <4>4. {W[f.node[n.entries[c].leaf]] : c \in DOMAIN n.entries}
              = {V[f.node[n.entries[c].leaf]] : c \in DOMAIN n.entries}
        BY ONLY <4>1
      <4> QED
        BY <3>1, <4>2, <4>3, <4>4, Zenon
    <3> QED
      BY <3>2, <3>3 DEF Layered
  <2>8. Right(W, m)
    BY <2>7
  <2> QED
    BY <2>3, <2>8, Zenon
<1>2. f.root.depth \in Nat
  BY DEF Layered, NodesOf
<1>3. PICK W : Right(W, f.root.depth + 1)
  <2>1. f.root.depth + 1 \in Nat
    BY <1>2
  <2>2. f.root.depth + 1 \notin S
    <3> HIDE DEF S
    <3> QED
      BY <1>1
  <2> QED
    BY <2>1, <2>2, Zenon
<1>4. \A n \in N : n.depth < f.root.depth + 1
  BY <1>2 DEF Layered
<1>5. PICK V : V = [n \in N |-> Body(W, n)]
  OBVIOUS
<1>6. \A n \in N : V[n] = W[n]
  BY <1>3, <1>4, <1>5
<1>7. \A n \in N : Body(V, n) = Body(W, n)
  <2> SUFFICES ASSUME NEW n \in N PROVE Body(V, n) = Body(W, n)
    OBVIOUS
  <2>1. CASE n.depth = 0
    BY <2>1
  <2>2. CASE n.depth # 0
    <3>1. \A c \in DOMAIN n.entries : f.node[n.entries[c].leaf] \in N
      <4>1. n.depth > 0
        BY <2>2 DEF Layered
      <4> QED
        BY <4>1 DEF Layered, NodesOf
    <3>2. \A c \in DOMAIN n.entries :
            V[f.node[n.entries[c].leaf]] = W[f.node[n.entries[c].leaf]]
      BY ONLY <1>6, <3>1
    <3>3. {V[f.node[n.entries[c].leaf]] : c \in DOMAIN n.entries}
            = {W[f.node[n.entries[c].leaf]] : c \in DOMAIN n.entries}
      BY ONLY <3>2
    <3>4. Body(V, n) = UNION {V[f.node[n.entries[c].leaf]] : c \in DOMAIN n.entries}
      BY <2>2
    <3>5. Body(W, n) = UNION {W[f.node[n.entries[c].leaf]] : c \in DOMAIN n.entries}
      BY <2>2
    <3> QED
      BY <3>3, <3>4, <3>5, Zenon
  <2> QED
    BY <2>1, <2>2, Zenon
<1>8. P(V)
  BY <1>5, <1>7
<1>9. P(CHOOSE X : P(X))
  <2>1. \E X : P(X)
    BY <1>8
  <2> HIDE DEF P
  <2> QED
    BY <2>1
<1>10. ExtentsBelow(f) = CHOOSE X : P(X)
  BY DEF ExtentsBelow
<1>11. P(ExtentsBelow(f))
  <2> HIDE DEF P
  <2> QED
    BY <1>9, <1>10, Zenon
<1> QED
  BY <1>11

LEMMA EntryTypes ==
  ASSUME NEW entries
  PROVE  /\ entries \in Seq(Index) =>
              \A c \in DOMAIN entries : entries[c].block \in Nat /\ entries[c].leaf \in Nat
         /\ entries \in Seq(Extent) =>
              \A c \in DOMAIN entries :
                /\ entries[c].block \in Nat /\ entries[c].start \in Nat
                /\ entries[c].len \in 0 .. MaxLen
<1>1. ASSUME entries \in Seq(Index), NEW c \in DOMAIN entries
      PROVE  entries[c].block \in Nat /\ entries[c].leaf \in Nat
  <2>1. entries[c] \in Index
    BY <1>1
  <2> QED
    BY <2>1 DEF Index
<1>2. ASSUME entries \in Seq(Extent), NEW c \in DOMAIN entries
      PROVE  /\ entries[c].block \in Nat /\ entries[c].start \in Nat
             /\ entries[c].len \in 0 .. MaxLen
  <2>1. entries[c] \in Extent
    BY <1>2
  <2> QED
    BY <2>1 DEF Extent
<1> QED
  BY <1>1, <1>2

\* W is what the walk down from each node finds.
Walks(W, f, l) ==
  \A n \in NodesOf(f) :
    /\ n.depth = 0 => W[n] = LeafBlock(n.entries, l)
    /\ n.depth > 0 /\ Chosen(n.entries, l) = {} => W[n] = 0
    /\ \A c \in DOMAIN n.entries :
         n.depth > 0 /\ Chosen(n.entries, l) = {c} => W[n] = W[f.node[n.entries[c].leaf]]

LEMMA WalkEquation ==
  ASSUME NEW f, Layered(f), NEW lost, DOMAIN f.node \cap lost = {},
         \A n \in NodesOf(f) : n.depth > 0 => n.entries \in Seq(Index), NEW l \in Nat
  PROVE  \E W : Walks(W, f, l) /\ W[f.root] = resolve_extent_block(f.root, f.node, lost, l)
<1> DEFINE N == NodesOf(f)
           Next1(n) == {n.entries[c].leaf : c \in Chosen(n.entries, l)} \ lost
           Body(W, n) == IF n.depth = 0 THEN LeafBlock(n.entries, l)
                         ELSE IF Next1(n) = {} THEN 0 ELSE W[f.node[Max(Next1(n))]]
           Right(W, d) == \A n \in N : n.depth < d => W[n] = Body(W, n)
           S == {d \in Nat : ~ \E W : Right(W, d)}
           P(W) == W = [n \in N |-> Body(W, n)]
\* The child that is gone to is one of the children.
<1>0. ASSUME NEW n \in N, n.depth > 0, Next1(n) # {}
      PROVE  \E c \in DOMAIN n.entries : Next1(n) = {n.entries[c].leaf}
                                        /\ Max(Next1(n)) = n.entries[c].leaf
  <2>1. PICK lead : lead = {k \in DOMAIN n.entries : \A m \in 1 .. k : l >= n.entries[m].block}
    OBVIOUS
  <2>2. lead # {} /\ Chosen(n.entries, l) = {Max(lead)}
    BY <1>0, <2>1 DEF Chosen
  <2>3. n.entries \in Seq(Index)
    BY <1>0
  <2>4. lead \in SUBSET Nat /\ Len(n.entries) \in Nat /\ \A x \in lead : x =< Len(n.entries)
    BY <2>1, <2>3
  <2>5. PICK c \in DOMAIN n.entries : c = Max(lead)
    BY <2>1, <2>2, <2>4, Greatest
  <2>6. Next1(n) = {n.entries[c].leaf}
    BY <1>0, <2>2, <2>5
  <2>7. n.entries[c].leaf \in Nat
    BY <2>3, EntryTypes
  <2> QED
    BY <2>6, <2>7, OnlyMax
<1>1. ASSUME NEW n \in N, n.depth > 0, Next1(n) # {}
      PROVE  f.node[Max(Next1(n))] \in N /\ f.node[Max(Next1(n))].depth < n.depth
  <2>1. PICK c \in DOMAIN n.entries : Max(Next1(n)) = n.entries[c].leaf
    BY <1>0, <1>1
  <2> QED
    BY <1>1, <2>1 DEF Layered, NodesOf
<1>2. \A n \in N : n.depth \in Nat
  BY DEF Layered
<1> HIDE DEF Next1
<1>3. S = {}
  <2> SUFFICES ASSUME S # {} PROVE FALSE
    OBVIOUS
  <2>1. S \in SUBSET Nat
    OBVIOUS
  <2>2. PICK m \in Nat : m \in S /\ \A x \in S : m =< x
    <3> HIDE DEF S
    <3> QED
      BY <2>1, Least
  <2>3. ~ \E W : Right(W, m)
    BY <2>2, Zenon
  <2>4. m # 0
    <3> SUFFICES ASSUME m = 0 PROVE Right([n \in N |-> 0], m)
      BY <2>3, Zenon
    <3> QED
      BY <1>2
  <2>5. PICK V : Right(V, m - 1)
    <3>1. m - 1 \in Nat /\ ~(m =< m - 1)
      BY <2>4
    <3>2. m - 1 \notin S
      BY <2>2, <3>1, Zenon
    <3> QED
      BY <3>1, <3>2, Zenon
  <2>6. PICK W : W = [n \in N |-> Body(V, n)]
    OBVIOUS
  <2>7. ASSUME NEW n \in N, n.depth < m PROVE W[n] = Body(W, n)
    <3>1. W[n] = Body(V, n)
      BY <2>6
    <3>2. CASE n.depth = 0 \/ Next1(n) = {}
      BY <3>1, <3>2
    <3>3. CASE n.depth > 0 /\ Next1(n) # {}
      <4>1. PICK k : k = f.node[Max(Next1(n))]
        OBVIOUS
      <4>2. k \in N /\ k.depth < n.depth
        BY <1>1, <3>3, <4>1
      <4>3. n.depth \in Nat /\ k.depth \in Nat
        BY <1>2, <4>2
      <4>4. k.depth < m - 1
        BY ONLY <2>7, <4>2, <4>3, m \in Nat
      <4>5. V[k] = Body(V, k) /\ W[k] = Body(V, k)
        BY <2>5, <2>6, <4>2, <4>4, Zenon
      <4>6. Body(W, n) = W[k] /\ Body(V, n) = V[k]
        BY <3>3, <4>1
      <4> QED
        BY <3>1, <4>5, <4>6, Zenon
    <3> QED
      BY <1>2, <3>2, <3>3
  <2>8. Right(W, m)
    BY <2>7
  <2> QED
    BY <2>3, <2>8, Zenon
<1>4. f.root \in N /\ f.root.depth \in Nat
  BY DEF Layered, NodesOf
<1>5. PICK W : Right(W, f.root.depth + 1)
  <2>1. f.root.depth + 1 \in Nat
    BY <1>4
  <2>2. f.root.depth + 1 \notin S
    <3> HIDE DEF S
    <3> QED
      BY <1>3
  <2> QED
    BY <2>1, <2>2, Zenon
<1>6. \A n \in N : n.depth < f.root.depth + 1
  BY <1>4 DEF Layered
<1>7. PICK V : V = [n \in N |-> Body(W, n)]
  OBVIOUS
<1>8. \A n \in N : V[n] = W[n]
  BY <1>5, <1>6, <1>7
<1>9. \A n \in N : Body(V, n) = Body(W, n)
  <2> SUFFICES ASSUME NEW n \in N PROVE Body(V, n) = Body(W, n)
    OBVIOUS
  <2>1. CASE n.depth = 0 \/ Next1(n) = {}
    BY <2>1
  <2>2. CASE n.depth > 0 /\ Next1(n) # {}
    BY <1>1, <1>8, <2>2
  <2> QED
    BY <1>2, <2>1, <2>2
<1>10. P(V)
  BY <1>7, <1>9
<1>11. PICK X : X = CHOOSE Y : P(Y)
  OBVIOUS
<1>12. P(X)
  <2>1. \E Y : P(Y)
    BY <1>10
  <2> HIDE DEF P
  <2> QED
    BY <1>11, <2>1
<1>13. X[f.root] = resolve_extent_block(f.root, f.node, lost, l)
  BY <1>11 DEF resolve_extent_block, Next1, NodesOf
<1>14. ASSUME NEW n \in N
       PROVE  /\ n.depth = 0 => X[n] = LeafBlock(n.entries, l)
              /\ n.depth > 0 /\ Chosen(n.entries, l) = {} => X[n] = 0
              /\ \A c \in DOMAIN n.entries :
                   n.depth > 0 /\ Chosen(n.entries, l) = {c} =>
                     X[n] = X[f.node[n.entries[c].leaf]]
  <2>1. X[n] = Body(X, n)
    BY <1>12
  <2>2. ASSUME n.depth > 0, Chosen(n.entries, l) = {} PROVE Next1(n) = {}
    BY <2>2 DEF Next1
  <2>3. ASSUME NEW c \in DOMAIN n.entries, n.depth > 0, Chosen(n.entries, l) = {c}
        PROVE  Max(Next1(n)) = n.entries[c].leaf /\ Next1(n) # {}
    <3>1. n.entries[c].leaf \notin lost
      BY <2>3 DEF Layered
    <3>2. Next1(n) = {n.entries[c].leaf}
      BY <2>3, <3>1 DEF Next1
    <3>3. n.entries[c].leaf \in Nat
      BY <2>3, EntryTypes
    <3> QED
      BY <3>2, <3>3, OnlyMax
  <2> QED
    BY <2>1, <2>2, <2>3
<1>15. Walks(X, f, l)
  BY <1>14, Zenon DEF Walks
<1> QED
  BY <1>13, <1>15

\* A leaf finds the block of one of its extents, if one is around l.
LEMMA LeafFinds ==
  ASSUME NEW n, WellMadeLeaf(n), NEW l \in Nat
  PROVE  \/ \E x \in DOMAIN n.entries :
              /\ Spans(n.entries[x], l)
              /\ LeafBlock(n.entries, l) = n.entries[x].start + (l - n.entries[x].block)
         \/ /\ LeafBlock(n.entries, l) = 0
            /\ \A x \in DOMAIN n.entries : ~Spans(n.entries[x], l)
<1>1. n.entries \in Seq(Extent)
  BY DEF WellMadeLeaf
<1>2. ASSUME NEW x \in DOMAIN n.entries
      PROVE  Covers(n.entries[x], l) <=> Spans(n.entries[x], l)
  <2>1. PICK e : e = n.entries[x]
    OBVIOUS
  <2>2. e.block \in Nat /\ e.len \in 0 .. MaxLen
    BY <1>1, <2>1, EntryTypes
  <2>3. e.block + e.len < Word
    BY <2>1 DEF WellMadeLeaf
  <2>4. Word \in Nat \ {0} /\ MaxLen \in Nat
    BY BlocksAssumption
  <2>5. Length(e) = e.len
    BY <2>2, <2>4 DEF Length
  <2>6. (e.block + e.len) % Word = e.block + e.len
    <3>1. \A a \in Nat, w \in Nat \ {0} : a < w => a % w = a
      OBVIOUS
    <3> QED
      BY <2>2, <2>3, <2>4, <3>1
  <2> QED
    BY <2>1, <2>2, <2>5, <2>6 DEF Covers, Spans
<1>3. PICK covering : covering = {x \in DOMAIN n.entries : Covers(n.entries[x], l)}
  OBVIOUS
<1>4. LeafBlock(n.entries, l) =
        IF covering = {} THEN 0
        ELSE n.entries[Min(covering)].start + (l - n.entries[Min(covering)].block)
  BY <1>3 DEF LeafBlock
<1>5. CASE covering = {}
  BY <1>2, <1>3, <1>4, <1>5
<1>6. CASE covering # {}
  <2>1. covering \in SUBSET Nat
    BY <1>1, <1>3
  <2>2. Min(covering) \in covering
    BY <1>6, <2>1, Least
  <2> QED
    BY <1>2, <1>3, <1>4, <1>6, <2>2
<1> QED
  BY <1>5, <1>6

\* An index is gone to that starts at or before l, unless the first starts after l.
LEMMA ChosenIs ==
  ASSUME NEW entries \in Seq(Index), NEW l \in Nat
  PROVE  \/ /\ Chosen(entries, l) = {}
            /\ 1 \in DOMAIN entries => l < entries[1].block
         \/ \E c \in DOMAIN entries :
              /\ Chosen(entries, l) = {c} /\ entries[c].block =< l
              /\ c + 1 \in DOMAIN entries => l < entries[c + 1].block
<1>1. PICK lead : lead = {k \in DOMAIN entries : \A m \in 1 .. k : l >= entries[m].block}
  OBVIOUS
<1>2. /\ Chosen(entries, l) = IF lead = {} THEN {} ELSE {Max(lead)}
  BY <1>1 DEF Chosen
<1>3. Len(entries) \in Nat /\ DOMAIN entries = 1 .. Len(entries)
  OBVIOUS
<1>4. \A k \in DOMAIN entries : entries[k].block \in Nat
  BY EntryTypes
<1>5. CASE lead = {}
  <2>1. 1 \in DOMAIN entries => l < entries[1].block
    BY <1>1, <1>3, <1>4, <1>5
  <2> QED
    BY <1>2, <1>5, <2>1
<1>6. CASE lead # {}
  <2>1. PICK c : c = Max(lead)
    OBVIOUS
  <2>2. c \in lead /\ \A x \in lead : x =< c
    <3>1. lead \in SUBSET Nat /\ \A x \in lead : x =< Len(entries)
      BY <1>1, <1>3
    <3> QED
      BY <1>3, <1>6, <2>1, <3>1, Greatest
  <2>3. c \in DOMAIN entries /\ \A m \in 1 .. c : l >= entries[m].block
    BY <1>1, <2>2
  <2>4. entries[c].block =< l
    BY <1>3, <1>4, <2>3
  <2>5. ASSUME c + 1 \in DOMAIN entries PROVE l < entries[c + 1].block
    <3> SUFFICES ASSUME l >= entries[c + 1].block PROVE c + 1 \in lead
      BY <1>3, <1>4, <2>2, <2>3, <2>5
    <3>1. \A m \in 1 .. c + 1 : m \in 1 .. c \/ m = c + 1
      BY <1>3, <2>3
    <3> QED
      BY <1>1, <2>3, <2>5, <3>1
  <2> QED
    BY <1>2, <1>6, <2>1, <2>3, <2>4, <2>5
<1> QED
  BY <1>5, <1>6

\* The walk down from a node finds the block of one of the extents below it.
LEMMA WalkFinds ==
  ASSUME NEW f, WellMadeTree(f), NEW l \in Nat, NEW W, Walks(W, f, l)
  PROVE  \A n \in NodesOf(f) :
           \/ \E e \in ExtentsBelow(f)[n] : Spans(e, l) /\ W[n] = e.start + (l - e.block)
           \/ W[n] = 0 /\ \A e \in ExtentsBelow(f)[n] : ~Spans(e, l)
<1> DEFINE Below(n) == ExtentsBelow(f)[n]
           Found(n) == /\ \A e \in Below(n) : e.block \in Nat /\ e.len \in Nat
                       /\ \/ \E e \in Below(n) :
                               Spans(e, l) /\ W[n] = e.start + (l - e.block)
                          \/ W[n] = 0 /\ \A e \in Below(n) : ~Spans(e, l)
           S == {d \in Nat : \E n \in NodesOf(f) : n.depth = d /\ ~Found(n)}
<1>1. Layered(f)
  BY TreeIsLayered
<1>2. \A n \in NodesOf(f) :
        Below(n) = IF n.depth = 0 THEN {n.entries[x] : x \in DOMAIN n.entries}
                   ELSE UNION {Below(f.node[n.entries[c].leaf]) : c \in DOMAIN n.entries}
  BY <1>1, BelowEquation
<1>3. ASSUME NEW n \in NodesOf(f), n.depth = 0 PROVE Found(n)
  <2>1. WellMadeLeaf(n)
    BY <1>3 DEF WellMadeTree
  <2>2. Below(n) = {n.entries[x] : x \in DOMAIN n.entries}
    BY <1>2, <1>3
  <2>3. \A e \in Below(n) : e.block \in Nat /\ e.len \in Nat
    <3>1. n.entries \in Seq(Extent)
      BY <2>1 DEF WellMadeLeaf
    <3>2. \A x \in DOMAIN n.entries : n.entries[x].len \in 0 .. MaxLen /\ MaxLen \in Nat
      BY <3>1, EntryTypes, BlocksAssumption
    <3> QED
      BY <2>2, <3>1, <3>2, EntryTypes
  <2>4. W[n] = LeafBlock(n.entries, l)
    BY <1>3 DEF Walks
  <2>5. \/ \E e \in Below(n) : Spans(e, l) /\ W[n] = e.start + (l - e.block)
        \/ W[n] = 0 /\ \A e \in Below(n) : ~Spans(e, l)
    BY <2>1, <2>2, <2>4, LeafFinds
  <2> QED
    BY <2>3, <2>5
<1>4. ASSUME NEW n \in NodesOf(f), n.depth > 0,
             \A k \in NodesOf(f) : k.depth < n.depth => Found(k)
      PROVE  Found(n)
  <2> DEFINE Kid(c) == f.node[n.entries[c].leaf]
  <2>1. /\ n.entries \in Seq(Index) /\ DOMAIN n.entries = 1 .. Len(n.entries)
        /\ Len(n.entries) \in Nat
        /\ \A c \in DOMAIN n.entries : n.entries[c].block \in Nat
    BY <1>4, EntryTypes DEF WellMadeTree
  <2>2. ASSUME NEW c \in DOMAIN n.entries
        PROVE  /\ Found(Kid(c))
               /\ \A e \in Below(Kid(c)) : n.entries[c].block =< e.block
               /\ \A d \in DOMAIN n.entries : d > c =>
                    /\ n.entries[c].block =< n.entries[d].block
                    /\ \A e \in Below(Kid(c)) : e.block + e.len =< n.entries[d].block
    <3>1. Kid(c) \in NodesOf(f) /\ Kid(c).depth < n.depth
      BY <1>1, <1>4 DEF Layered, NodesOf
    <3>2. WellMadeIndex(f, n, c)
      BY <1>4 DEF WellMadeTree
    <3>3. Found(Kid(c))
      BY <1>4, <3>1, Zenon
    <3> QED
      BY <3>2, <3>3, Zenon DEF WellMadeIndex
  <2> HIDE DEF Kid
  <2>3. Below(n) = UNION {Below(Kid(c)) : c \in DOMAIN n.entries}
    <3>1. ~(n.depth = 0)
      BY <1>4
    <3> QED
      BY <1>2, <3>1, Zenon DEF Kid
  <2>4. \A e \in Below(n) : e.block \in Nat /\ e.len \in Nat
    BY <2>2, <2>3
  <2>5. CASE /\ Chosen(n.entries, l) = {}
             /\ 1 \in DOMAIN n.entries => l < n.entries[1].block
    <3>1. W[n] = 0
      BY <1>4, <2>5 DEF Walks
    <3>2. ASSUME NEW c \in DOMAIN n.entries, NEW e \in Below(Kid(c)) PROVE ~Spans(e, l)
      <4>1. 1 \in DOMAIN n.entries /\ (c = 1 \/ c > 1)
        BY <2>1
      <4>2. l < n.entries[1].block /\ n.entries[1].block =< n.entries[c].block
        BY <2>1, <2>2, <2>5, <4>1
      <4>3. n.entries[c].block =< e.block /\ e.block \in Nat
        BY <2>2, <3>2
      <4> QED
        BY ONLY <2>1, <4>1, <4>2, <4>3, l \in Nat, c \in DOMAIN n.entries DEF Spans
    <3> QED
      BY <2>3, <2>4, <3>1, <3>2
  <2>6. ASSUME NEW c \in DOMAIN n.entries, Chosen(n.entries, l) = {c},
               n.entries[c].block =< l, c + 1 \in DOMAIN n.entries => l < n.entries[c + 1].block
        PROVE  Found(n)
    <3>1. W[n] = W[Kid(c)]
      BY <1>4, <2>6 DEF Kid, Walks
    <3>2. ASSUME NEW d \in DOMAIN n.entries, d # c, NEW e \in Below(Kid(d))
          PROVE  ~Spans(e, l)
      <4>1. n.entries[d].block =< e.block /\ e.block \in Nat /\ e.len \in Nat
        BY <2>2, <3>2
      <4>2. CASE d < c
        <5>1. e.block + e.len =< n.entries[c].block
          BY <2>2, <3>2, <4>2
        <5> QED
          BY ONLY <2>1, <2>6, <4>1, <5>1, l \in Nat, c \in DOMAIN n.entries DEF Spans
      <4>3. CASE d > c
        <5>1. c + 1 \in DOMAIN n.entries /\ (d = c + 1 \/ d > c + 1)
          BY <2>1, <4>3
        <5>2. n.entries[c + 1].block =< n.entries[d].block
          BY <2>1, <2>2, <5>1
        <5> QED
          BY ONLY <2>1, <2>6, <4>1, <5>1, <5>2, l \in Nat, d \in DOMAIN n.entries DEF Spans
      <4> QED
        BY <2>1, <3>2, <4>2, <4>3
    <3>3. Below(Kid(c)) \subseteq Below(n)
      BY <2>3
    <3>4. CASE \E e \in Below(Kid(c)) : Spans(e, l) /\ W[Kid(c)] = e.start + (l - e.block)
      BY <2>4, <3>1, <3>3, <3>4
    <3>5. CASE W[Kid(c)] = 0 /\ \A e \in Below(Kid(c)) : ~Spans(e, l)
      <4>1. \A e \in Below(n) : ~Spans(e, l)
        BY <2>3, <3>2, <3>5
      <4> QED
        BY <2>4, <3>1, <3>5, <4>1
    <3> QED
      BY <2>2, <3>4, <3>5
  <2> QED
    BY <2>1, <2>5, <2>6, ChosenIs
<1> HIDE DEF Found
<1>5. \A n \in NodesOf(f) : n.depth \in Nat
  BY <1>1 DEF Layered
<1>6. S = {}
  <2> SUFFICES ASSUME S # {} PROVE FALSE
    OBVIOUS
  <2>1. S \in SUBSET Nat
    OBVIOUS
  <2>2. PICK m \in Nat : m \in S /\ \A x \in S : m =< x
    <3> HIDE DEF S
    <3> QED
      BY <2>1, Least
  <2>3. PICK n \in NodesOf(f) : n.depth = m /\ ~Found(n)
    BY <2>2
  <2>4. \A k \in NodesOf(f) : k.depth < n.depth => Found(k)
    <3> SUFFICES ASSUME NEW k \in NodesOf(f), k.depth < n.depth, ~Found(k) PROVE FALSE
      OBVIOUS
    <3>1. k.depth \in S
      BY <1>5
    <3>2. m =< k.depth
      BY <2>2, <3>1, Zenon
    <3> QED
      BY <1>5, <2>3, <3>2
  <2> QED
    BY <1>3, <1>4, <1>5, <2>3, <2>4
<1>7. \A n \in NodesOf(f) : Found(n)
  BY <1>5, <1>6
<1> QED
  BY <1>7, Zenon DEF Found

\* In a tree that is well made the block of l is where the extent around it puts it.
LEMMA TreeFinds ==
  ASSUME NEW f, WellMadeTree(f), NEW lost, DOMAIN f.node \cap lost = {}, NEW l \in Nat,
         TreeHolds(f, l)
  PROVE  resolve_extent_block(f.root, f.node, lost, l) = f.contents[l]
<1>1. \A n \in NodesOf(f) : n.depth > 0 => n.entries \in Seq(Index)
  BY DEF WellMadeTree
<1>2. PICK W : Walks(W, f, l) /\ W[f.root] = resolve_extent_block(f.root, f.node, lost, l)
  BY <1>1, TreeIsLayered, WalkEquation
<1>3. f.root \in NodesOf(f)
  BY DEF NodesOf
<1>4. \/ \E e \in ExtentsBelow(f)[f.root] :
           Spans(e, l) /\ W[f.root] = e.start + (l - e.block)
      \/ W[f.root] = 0 /\ \A e \in ExtentsBelow(f)[f.root] : ~Spans(e, l)
  BY <1>2, <1>3, WalkFinds
<1> QED
  BY <1>2, <1>4 DEF TreeHolds

LEMMA DivMod ==
  ASSUME NEW n \in Nat, NEW d \in Nat \ {0}
  PROVE  /\ n \div d \in Nat /\ n % d \in 0 .. d - 1
         /\ n = d * (n \div d) + (n % d)
  BY SMT

\* Quotient and remainder are known by what they make up.
LEMMA DivModOf ==
  ASSUME NEW d \in Nat \ {0}, NEW q \in Nat, NEW r \in 0 .. d - 1
  PROVE  /\ d * q + r \in Nat /\ (d * q + r) \div d = q /\ (d * q + r) % d = r
<1>1. PICK n, p, m : n = d * q + r /\ p = n \div d /\ m = n % d
  OBVIOUS
<1>2. n \in Nat
  BY <1>1, SMT
<1>3. p \in Nat /\ m \in 0 .. d - 1 /\ n = d * p + m
  BY <1>1, <1>2, DivMod
<1>4. \A a, b \in Nat : a < b => d * a + d =< d * b
  BY SMT
<1>5. d * q \in Nat /\ d * p \in Nat
  BY <1>3, SMT
<1>6. ~(p < q) /\ ~(q < p)
  BY ONLY <1>1, <1>3, <1>4, <1>5, q \in Nat, r \in 0 .. d - 1, d \in Nat \ {0}
<1>7. p = q
  BY ONLY <1>3, <1>6, q \in Nat
<1> QED
  BY <1>1, <1>2, <1>3, <1>5, <1>7

LEMMA PointersFind ==
  ASSUME NEW f, WellMadePointers(f), NEW blocks \in SUBSET Nat, PointersHold(f, blocks),
         NEW lost, DOMAIN f.table \cap lost = {}, NEW l \in blocks
  PROVE  read_indirect_block(f.pointers, f.table, lost, l) = f.contents[l]
<1>1. Direct \in Nat \ {0} /\ Ptrs \in Nat \ {0} /\ l \in Nat /\ Ptrs * Ptrs \in Nat
  BY BlocksAssumption
<1>2. \A n : \A b \in DOMAIN f.table \cup {0} :
       Through(b, n, f.table, lost) = InTable(f, b, n)
  BY DEF Through, InTable
<1>3. PICK first, second :
        /\ first = f.pointers[Direct] /\ first \in DOMAIN f.table \cup {0}
        /\ second = f.pointers[Direct + 1] /\ second \in DOMAIN f.table \cup {0}
        /\ \A n \in 0 .. Ptrs - 1 : InTable(f, second, n) \in DOMAIN f.table \cup {0}
  BY DEF WellMadePointers, InTable
<1>4. l < Direct + Ptrs + Ptrs * Ptrs
  BY DEF PointersHold
<1>5. CASE l < Direct
  <2>1. read_indirect_block(f.pointers, f.table, lost, l) = f.pointers[l]
    BY <1>1, <1>5 DEF read_indirect_block, Single, Double
  <2> QED
    BY <1>1, <1>5, <2>1 DEF PointersHold
<1>6. CASE l >= Direct /\ l < Direct + Ptrs
  <2>1. PICK i \in 0 .. Ptrs - 1 : l = Direct + i /\ i = l - Direct
    BY <1>1, <1>6
  <2>2. read_indirect_block(f.pointers, f.table, lost, l) = Through(first, i, f.table, lost)
    BY <1>1, <1>3, <1>6, <2>1 DEF read_indirect_block, Single, Double
  <2>3. f.contents[l] = InTable(f, first, i)
    BY <1>3, <2>1 DEF PointersHold
  <2> QED
    BY <1>2, <1>3, <2>2, <2>3, Zenon
<1>7. CASE l >= Direct + Ptrs
  <2>1. PICK k : k = l - Direct - Ptrs
    OBVIOUS
  <2>2. k \in Nat /\ k < Ptrs * Ptrs
    BY ONLY <1>1, <1>4, <1>7, <2>1
  <2>3. PICK i, j : i = k \div Ptrs /\ j = k % Ptrs
    OBVIOUS
  <2>4. i \in Nat /\ j \in 0 .. Ptrs - 1 /\ k = Ptrs * i + j
    BY <1>1, <2>2, <2>3, DivMod
  <2>5. i < Ptrs
    <3>1. i >= Ptrs => Ptrs * i >= Ptrs * Ptrs
      BY <1>1, <2>4, SMT
    <3>2. Ptrs * i \in Nat
      BY <1>1, <2>4, SMT
    <3> QED
      BY ONLY <1>1, <2>2, <2>4, <3>1, <3>2
  <2>6. i \in 0 .. Ptrs - 1 /\ l = Direct + Ptrs + i * Ptrs + j
    <3>1. PICK m : m = Ptrs * i /\ m = i * Ptrs /\ m \in Nat
      BY <1>1, <2>4, SMT
    <3>2. l = Direct + Ptrs + m + j
      BY ONLY <1>1, <2>1, <2>4, <3>1
    <3> QED
      BY <1>1, <2>4, <2>5, <3>1, <3>2
  <2>7. f.contents[l] = InTable(f, InTable(f, second, i), j)
    BY <1>3, <2>4, <2>6, Zenon DEF PointersHold
  <2>8. read_indirect_block(f.pointers, f.table, lost, l)
          = Through(Through(second, i, f.table, lost), j, f.table, lost)
    <3>1. Single(l) = l - Direct /\ Double(l) = k
      BY <2>1 DEF Single, Double
    <3>2. ~(Single(l) < 0) /\ ~(Single(l) < Ptrs)
      BY ONLY <1>1, <1>7, <3>1
    <3> QED
      BY <1>3, <2>2, <2>3, <3>1, <3>2 DEF read_indirect_block
  <2>9. PICK table : table = InTable(f, second, i) /\ table \in DOMAIN f.table \cup {0}
    BY <1>3, <2>6
  <2>10. Through(second, i, f.table, lost) = table
    BY <1>2, <1>3, <2>9, Zenon
  <2>11. Through(table, j, f.table, lost) = InTable(f, table, j)
    BY <1>2, <2>9, Zenon
  <2> QED
    BY <2>7, <2>8, <2>9, <2>10, <2>11, Zenon
<1> QED
  BY ONLY <1>1, <1>5, <1>6, <1>7

\* The blocks the mapping of a file is kept in, besides its inode.
MappingBlocks(f) == DOMAIN f.node \cup DOMAIN f.table

\* Whatever else is lost, the mapping of a file that is well made finds its blocks.
LEMMA MappingFinds ==
  ASSUME NEW f \in Files, NEW lost, lost \cap MappingBlocks(f) = {}, NEW l \in BlocksOf(f)
  PROVE  PhysicalBlock(f, lost, l) = f.contents[l]
<1>1. WellMade(f) /\ l \in Nat /\ BlocksOf(f) \in SUBSET Nat
  BY MappingAssumption, FilesAssumption DEF BlocksOf
<1>2. DOMAIN f.node \cap lost = {} /\ DOMAIN f.table \cap lost = {}
  BY DEF MappingBlocks
<1>3. CASE f.uses_extents
  <2>1. WellMadeTree(f) /\ TreeHolds(f, l)
    BY <1>1, <1>3 DEF WellMade
  <2> QED
    BY <1>1, <1>2, <1>3, <2>1, TreeFinds DEF PhysicalBlock
<1>4. CASE ~f.uses_extents
  <2>1. WellMadePointers(f) /\ PointersHold(f, BlocksOf(f))
    BY <1>1, <1>4 DEF WellMade
  <2> QED
    BY <1>1, <1>2, <1>4, <2>1, PointersFind DEF PhysicalBlock
<1> QED
  BY <1>3, <1>4

-----------------------------------------------------------------------------
USE DEF vars, call, loop

\* The bytes are of no type that matters here.
IsSeq(s) == \E A : s \in Seq(A)

LEMMA Concatenated ==
  ASSUME NEW s, NEW t, IsSeq(s), IsSeq(t)
  PROVE  IsSeq(s \o t) /\ Len(s \o t) = Len(s) + Len(t) /\ Len(s) \in Nat /\ Len(t) \in Nat
<1>1. PICK A : s \in Seq(A)
  BY DEF IsSeq
<1>2. PICK B : t \in Seq(B)
  BY DEF IsSeq
<1> DEFINE C == A \union B
<1>3. s \in Seq(C) /\ t \in Seq(C)
  BY <1>1, <1>2
<1> HIDE DEF C
<1>4. s \o t \in Seq(C) /\ Len(s \o t) = Len(s) + Len(t) /\ Len(s) \in Nat /\ Len(t) \in Nat
  BY <1>3
<1> QED
  BY <1>4 DEF IsSeq

LEMMA Elements ==
  ASSUME NEW s, NEW t, IsSeq(s), IsSeq(t)
  PROVE  /\ \A n \in 1 .. Len(s) : (s \o t)[n] = s[n]
         /\ \A n \in Len(s) + 1 .. Len(s) + Len(t) : (s \o t)[n] = t[n - Len(s)]
<1>1. PICK A : s \in Seq(A)
  BY DEF IsSeq
<1>2. PICK B : t \in Seq(B)
  BY DEF IsSeq
<1> DEFINE C == A \union B
<1>3. s \in Seq(C) /\ t \in Seq(C)
  BY <1>1, <1>2
<1> HIDE DEF C
<1> QED
  BY <1>3

LEMMA EmptyIsSeq == IsSeq(<<>>) /\ Len(<<>>) = 0
<1>1. <<>> \in Seq({})
  OBVIOUS
<1> QED
  BY <1>1 DEF IsSeq

LEMMA CopiedSeq ==
  ASSUME NEW b, NEW n \in Nat
  PROVE  IsSeq(Copied(b, n)) /\ Len(Copied(b, n)) = n
<1> DEFINE c == Copied(b, n)
           A == {c[m] : m \in 1 .. n}
<1>1. c \in [1 .. n -> A]
  BY DEF Copied
<1> HIDE DEF c, A
<1>2. c \in Seq(A) /\ Len(c) = n
  BY <1>1
<1> QED
  BY <1>2 DEF IsSeq, c

-----------------------------------------------------------------------------
\* How many bytes the call that is under way is to return.
Returned == IF offset >= file.size THEN 0 ELSE ActualSize(offset, size)

\* The loop has copied what it has counted off, from where it began.
Counting ==
  pc = "loop" =>
    /\ offset < file.size /\ ~ok
    /\ curr_offset = offset + Len(dst)
    /\ remaining + Len(dst) = ActualSize(offset, size)

\* A read that succeeds returns all that was asked for and is there.
Complete == pc = "back" /\ ok => Len(dst) = Returned

\* What each caller has asked for.
Asked ==
  /\ caller = "projfs" => offset = base /\ base <= file.size
  /\ caller = "cat" => base = 0 /\ (pc \in {"loop", "back"} => offset = 0 /\ size = file.size)
  /\ pc # "end" => status = "none"

Inv ==
  /\ TypeOK /\ IsSeq(dst) /\ IsSeq(out)
  /\ Counting /\ Complete /\ Asked /\ SuccessIsComplete

LEMMA ToCopyBounds ==
  ASSUME remaining \in Nat, curr_offset \in Nat
  PROVE  ToCopy \in Nat /\ ToCopy <= remaining
<1>1. remaining % Word \in Nat /\ remaining % Word <= remaining
  BY BlocksAssumption
<1>2. curr_offset % BlockSize \in Nat /\ curr_offset % BlockSize < BlockSize /\ BlockSize \in Nat
  BY FileAssumption
<1> QED
  BY <1>1, <1>2 DEF ToCopy, AtMost

\* What a call of read_file_data sets up.
LEMMA Begun ==
  ASSUME Inv, NEW from \in Nat, NEW wanted \in Nat, BeginRead(from, wanted), file' = file
  PROVE  /\ offset' = from /\ size' = wanted /\ dst' = <<>>
         /\ offset' \in Nat /\ size' \in Nat /\ curr_offset' \in Nat /\ remaining' \in Nat
         /\ pc' \in {"loop", "back"} /\ ok' \in BOOLEAN
         /\ IsSeq(dst') /\ Len(dst') <= size'
         /\ Counting' /\ Complete'
<1>1. file.size \in Nat
  BY FilesAssumption DEF Inv, TypeOK
<1>2. /\ offset' = from /\ size' = wanted /\ dst' = <<>> /\ curr_offset' = from
      /\ pc' \in {"loop", "back"} /\ ok' \in BOOLEAN
      /\ pc' = "loop" => from < file.size /\ ~ok' /\ remaining' = ActualSize(from, wanted)
      /\ pc' = "back" => remaining' = 0
      /\ pc' = "back" /\ ok' => from >= file.size
  BY DEF BeginRead
<1>3. pc' = "loop" => ActualSize(from, wanted) \in Nat
  BY <1>1, <1>2 DEF ActualSize, AtMost
<1>4. Counting'
  BY <1>1, <1>2, <1>3, EmptyIsSeq DEF Counting, ActualSize
<1>5. Complete'
  BY <1>2, EmptyIsSeq DEF Complete, Returned
<1> QED
  BY <1>2, <1>3, <1>4, <1>5, EmptyIsSeq

LEMMA InvStep == Inv /\ [Next]_vars => Inv'
<1> SUFFICES ASSUME Inv, [Next]_vars PROVE Inv'
  OBVIOUS
<1>0. /\ file.size \in Nat /\ base \in Nat /\ offset \in Nat /\ size \in Nat
      /\ curr_offset \in Nat /\ remaining \in Nat
  BY FilesAssumption DEF Inv, TypeOK
<1>1. CASE Call
  <2>1. /\ pc = "call" /\ status = "none" /\ UNCHANGED <<call, bad, out>>
        /\ status' = IF pc' = "end" THEN "success" ELSE status
    BY <1>1 DEF Call, Inv, Asked
  <2>2. CASE caller = "projfs" /\ BeginRead(offset, size)
    <3>1. /\ offset' = offset /\ size' = size /\ IsSeq(dst') /\ Len(dst') <= size'
          /\ curr_offset' \in Nat /\ remaining' \in Nat
          /\ pc' \in {"loop", "back"} /\ ok' \in BOOLEAN /\ Counting' /\ Complete'
      BY <1>0, <2>1, <2>2, Begun
    <3> QED
      BY <1>0, <2>1, <2>2, <3>1 DEF Inv, TypeOK, Asked, SuccessIsComplete
  <2>3. CASE caller = "cat" /\ BeginRead(0, file.size)
    <3>1. /\ offset' = 0 /\ size' = file.size /\ IsSeq(dst') /\ Len(dst') <= size'
          /\ curr_offset' \in Nat /\ remaining' \in Nat
          /\ pc' \in {"loop", "back"} /\ ok' \in BOOLEAN /\ Counting' /\ Complete'
      BY <1>0, <2>1, <2>3, Begun
    <3> QED
      BY <1>0, <2>1, <2>3, <3>1 DEF Inv, TypeOK, Asked, SuccessIsComplete
  <2>4. CASE caller = "export" /\ BeginRead(0, AtMost(Chunk, file.size))
    <3>1. AtMost(Chunk, file.size) \in Nat
      BY <1>0, FileAssumption DEF AtMost
    <3>2. /\ offset' \in Nat /\ size' \in Nat /\ IsSeq(dst') /\ Len(dst') <= size'
          /\ curr_offset' \in Nat /\ remaining' \in Nat
          /\ pc' \in {"loop", "back"} /\ ok' \in BOOLEAN /\ Counting' /\ Complete'
      BY <2>1, <2>4, <3>1, Begun
    <3> QED
      BY <1>0, <2>1, <2>4, <3>2 DEF Inv, TypeOK, Asked, SuccessIsComplete
  <2>5. CASE caller = "export" /\ pc' = "end" /\ UNCHANGED <<offset, size, loop>>
    BY <2>1, <2>5 DEF Inv, TypeOK, Counting, Complete, Asked, SuccessIsComplete
  <2> QED
    BY <1>1, <2>2, <2>3, <2>4, <2>5 DEF Call
<1>2. CASE CopyBlock
  <2>1. /\ pc = "loop" /\ dst' = dst \o Copied(NextBlock, ToCopy)
        /\ curr_offset' = curr_offset + ToCopy /\ remaining' = remaining - ToCopy
        /\ UNCHANGED <<call, bad, pc, offset, size, ok, out, status>>
    BY <1>2 DEF CopyBlock
  <2>2. ToCopy \in Nat /\ ToCopy <= remaining
    BY <1>0, ToCopyBounds
  <2>3. IsSeq(Copied(NextBlock, ToCopy)) /\ Len(Copied(NextBlock, ToCopy)) = ToCopy
    BY <2>2, CopiedSeq
  <2>4. IsSeq(dst') /\ Len(dst') = Len(dst) + ToCopy /\ Len(dst) \in Nat
    BY <2>1, <2>3, Concatenated DEF Inv
  <2>5. curr_offset' \in Nat /\ remaining' \in Nat
    BY <1>0, <2>1, <2>2
  <2>6. Counting'
    BY <1>0, <2>1, <2>2, <2>4 DEF Inv, Counting, ActualSize
  <2>7. Len(dst') <= size'
    <3>1. remaining' + Len(dst') = ActualSize(offset, size) /\ offset < file.size
      BY <2>1, <2>6 DEF Counting, ActualSize
    <3>2. ActualSize(offset, size) <= size
      BY <1>0, <3>1 DEF ActualSize, AtMost
    <3>3. ActualSize(offset, size) \in Nat
      BY <1>0, <3>1 DEF ActualSize, AtMost
    <3> QED
      BY <1>0, <2>1, <2>2, <2>4, <2>5, <3>1, <3>2, <3>3
  <2> QED
    BY <1>0, <2>1, <2>4, <2>5, <2>6, <2>7 DEF Inv, TypeOK, Complete, Asked, SuccessIsComplete
<1>3. CASE FailBlock
  <2>1. /\ pc = "loop" /\ pc' = "back" /\ dst' = <<>> /\ ~ok
        /\ UNCHANGED <<call, bad, offset, size, curr_offset, remaining, ok, out, status>>
    BY <1>3 DEF FailBlock, Inv, Counting
  <2>2. TypeOK' /\ IsSeq(dst') /\ IsSeq(out')
    BY <1>0, <2>1, EmptyIsSeq DEF Inv, TypeOK
  <2> QED
    BY <2>1, <2>2 DEF Inv, Counting, Complete, Asked, SuccessIsComplete
<1>4. CASE EndRead
  <2>1. /\ pc = "loop" /\ remaining = 0 /\ pc' = "back" /\ ok' = TRUE
        /\ UNCHANGED <<call, bad, offset, size, curr_offset, remaining, dst, out, status>>
    BY <1>4 DEF EndRead
  <2>2. Complete'
    <3>1. Len(dst) \in Nat
      BY Concatenated DEF Inv
    <3>2. Len(dst) = ActualSize(offset, size) /\ offset < file.size
      BY <2>1, <3>1 DEF Inv, Counting
    <3> QED
      BY <1>0, <2>1, <3>2 DEF Complete, Returned, ActualSize
  <2> QED
    BY <1>0, <2>1, <2>2 DEF Inv, TypeOK, Counting, Asked, SuccessIsComplete
<1>5. CASE HandOn
  <2>1. /\ pc = "back" /\ pc' = "end" /\ caller \in {"projfs", "cat"}
        /\ UNCHANGED <<call, bad, offset, size, loop>>
        /\ \/ ok /\ out' = dst /\ status' = "success"
           \/ ~ok /\ status' = "failure" /\ out' = out
    BY <1>5 DEF HandOn
  <2>2. ok => Len(dst) = Wanted
    BY <1>0, <2>1 DEF Inv, Complete, Asked, Returned, ActualSize, AtMost, Wanted
  <2> QED
    BY <1>0, <2>1, <2>2 DEF Inv, TypeOK, Counting, Complete, Asked, SuccessIsComplete, Wanted
<1>6. CASE ExportChunk
  <2>1. pc = "back" /\ caller = "export" /\ UNCHANGED <<call, bad>>
    BY <1>6 DEF ExportChunk
  <2>2. CASE pc' = "end" /\ status' = "success" /\ UNCHANGED <<offset, size, loop, out>>
    BY <1>0, <2>1, <2>2 DEF Inv, TypeOK, Counting, Complete, Asked, SuccessIsComplete
  <2>3. CASE out' = out \o dst
    <3>1. IsSeq(out') /\ Len(dst) \in Nat
      BY <2>3, Concatenated DEF Inv
    <3>2. CASE pc' = "end" /\ status' = "success" /\ UNCHANGED <<offset, size, loop>>
      BY <1>0, <2>1, <3>1, <3>2 DEF Inv, TypeOK, Counting, Complete, Asked, SuccessIsComplete
    <3>3. ASSUME offset + Len(dst) < file.size,
                 BeginRead(offset + Len(dst), AtMost(Chunk, file.size - (offset + Len(dst)))),
                 UNCHANGED status
          PROVE  Inv'
      <4>1. /\ offset + Len(dst) \in Nat
            /\ AtMost(Chunk, file.size - (offset + Len(dst))) \in Nat
        BY <1>0, <3>1, <3>3, FileAssumption DEF AtMost
      <4>2. /\ offset' \in Nat /\ size' \in Nat /\ IsSeq(dst') /\ Len(dst') <= size'
            /\ curr_offset' \in Nat /\ remaining' \in Nat
            /\ pc' \in {"loop", "back"} /\ ok' \in BOOLEAN /\ Counting' /\ Complete'
        BY <2>1, <3>3, <4>1, Begun
      <4> QED
        BY <1>0, <2>1, <3>1, <3>3, <4>2 DEF Inv, TypeOK, Asked, SuccessIsComplete
    <3> QED
      BY <1>6, <2>3, <2>2, <3>2, <3>3 DEF ExportChunk
  <2> QED
    BY <1>6, <2>2, <2>3 DEF ExportChunk
<1>7. CASE Lose
  BY <1>7 DEF Lose, Inv, TypeOK, Counting, Complete, Returned, ActualSize, Asked,
              SuccessIsComplete, Wanted
<1>8. CASE UNCHANGED vars
  BY <1>8 DEF Inv, TypeOK, Counting, Complete, Returned, ActualSize, Asked,
              SuccessIsComplete, Wanted
<1> QED
  BY <1>1, <1>2, <1>3, <1>4, <1>5, <1>6, <1>7, <1>8 DEF Next, Step

LEMMA InitInv == Init => Inv
<1> SUFFICES ASSUME Init PROVE Inv
  OBVIOUS
<1>1. file.size \in Nat /\ Chunk \in Nat
  BY FilesAssumption, FileAssumption DEF Init
<1>2. offset \in Nat /\ size \in Nat /\ base = offset
  BY <1>1 DEF Init
<1>3. Asked
  BY <1>1 DEF Init, Asked
<1>4. TypeOK
  <2>1. dst = <<>> /\ Len(dst) <= size
    BY <1>2, EmptyIsSeq DEF Init
  <2>2. {offset, size, curr_offset, remaining, base} \subseteq Nat
    BY <1>2 DEF Init
  <2> QED
    BY <2>1, <2>2 DEF Init, TypeOK
<1> QED
  BY <1>3, <1>4, EmptyIsSeq DEF Init, Inv, Counting, Complete, SuccessIsComplete

LEMMA Invariance == Spec => []Inv
  BY InitInv, InvStep, PTL DEF Spec

\* No read ever writes past the end of the buffer it was given, for any size of
\* block and of integer (ext4_reader.cpp:316-356).
THEOREM NoOverrun == Spec => []TypeOK
<1>1. Inv => TypeOK
  BY DEF Inv
<1> QED
  BY <1>1, Invariance, PTL

\* Windows and `cat` are given all they asked for or a failure, whatever is lost
\* and wherever the read begins and ends (projfs_mount.cpp:376-400,
\* main.cpp:297-298).
THEOREM AllOrFailure == Spec => []SuccessIsComplete
<1>1. Inv => SuccessIsComplete
  BY DEF Inv
<1> QED
  BY <1>1, Invariance, PTL

-----------------------------------------------------------------------------
\* What has been copied is what the file holds from offset on, and what has been
\* handed on what it holds from base on, where the next call begins.
Faithful ==
  /\ pc \in {"loop", "back"} =>
       /\ offset = base + Len(out)
       /\ \A n \in 1 .. Len(dst) :
            offset + n <= file.size /\ dst[n] = ByteAt(offset + n - 1)
  /\ pc = "call" => out = <<>>
  /\ caller # "projfs" => base = 0
  /\ ShowsContents

\* No block of the mapping is lost.
MappingThere == bad \cap MappingBlocks(file) = {}

\* The loop asks for the block curr_offset is in, whose number the narrowing to 32
\* bits leaves alone.
LEMMA NextBlockRight ==
  ASSUME TypeOK, MappingThere, curr_offset < file.size
  PROVE  NextBlock = file.contents[curr_offset \div BlockSize]
<1>1. /\ file \in Files /\ bad \in SUBSET Breakable /\ curr_offset \in Nat
      /\ file.size \in Nat /\ BlockSize \in Nat \ {0} /\ Word \in Nat \ {0}
  BY FilesAssumption, FileAssumption, BlocksAssumption DEF TypeOK
<1>2. file.size <= BlockSize * Word
  BY <1>1, MappingAssumption DEF WellMade
<1>3. PICK l : l = curr_offset \div BlockSize
  OBVIOUS
<1>4. l \in Nat /\ BlockSize * l \in Nat /\ BlockSize * l <= curr_offset
  <2>1. l \in Nat /\ curr_offset % BlockSize \in 0 .. BlockSize - 1
        /\ curr_offset = BlockSize * l + (curr_offset % BlockSize)
    BY <1>1, <1>3, DivMod, Zenon
  <2>2. BlockSize * l \in Nat
    BY <1>1, <2>1, SMT
  <2> QED
    BY <1>1, <2>1, <2>2
<1>5. l * BlockSize < file.size /\ l <= file.size
  <2>1. l * BlockSize = BlockSize * l /\ BlockSize * l >= l
    BY <1>1, <1>4, SMT
  <2> QED
    BY <1>1, <1>4, <2>1
<1>6. l \in BlocksOf(file)
  BY <1>1, <1>4, <1>5 DEF BlocksOf
<1>7. l < Word
  <2>1. l >= Word => BlockSize * l >= BlockSize * Word
    BY <1>1, <1>4, SMT
  <2>2. BlockSize * Word \in Nat
    BY <1>1, SMT
  <2> QED
    BY <1>1, <1>2, <1>4, <2>1, <2>2
<1>8. l % Word = l
  BY <1>1, <1>4, <1>7
<1> QED
  BY <1>1, <1>3, <1>6, <1>8, MappingFinds DEF NextBlock, MappingThere

\* What is copied from it is what the file holds.
LEMMA CopiedRight ==
  ASSUME TypeOK, MappingThere, curr_offset < file.size, NEW n \in 1 .. ToCopy
  PROVE  Copied(NextBlock, ToCopy)[n] = ByteAt(curr_offset + n - 1)
<1>1. curr_offset \in Nat /\ BlockSize \in Nat \ {0} /\ remaining \in Nat
  BY FileAssumption DEF TypeOK
<1>2. PICK q, r : /\ q = curr_offset \div BlockSize /\ r = curr_offset % BlockSize
                  /\ q \in Nat /\ r \in 0 .. BlockSize - 1
                  /\ curr_offset = BlockSize * q + r
  <2>1. /\ curr_offset \div BlockSize \in Nat /\ curr_offset % BlockSize \in 0 .. BlockSize - 1
        /\ curr_offset = BlockSize * (curr_offset \div BlockSize) + (curr_offset % BlockSize)
    BY <1>1, DivMod, Zenon
  <2> QED
    BY <2>1, Zenon
<1>3. ToCopy \in Nat /\ ToCopy <= BlockSize - r
  <2>1. remaining % Word \in Nat
    BY <1>1, BlocksAssumption
  <2> QED
    BY <1>1, <1>2, <2>1 DEF ToCopy, AtMost
<1>4. r + n - 1 \in 0 .. BlockSize - 1 /\ n \in Nat
  BY <1>1, <1>2, <1>3
<1>5. PICK m : m = r + n - 1
  OBVIOUS
<1>6. BlockSize * q \in Nat
  BY <1>1, <1>2, SMT
<1>7. curr_offset + n - 1 = BlockSize * q + m
  BY ONLY <1>1, <1>2, <1>4, <1>5, <1>6
<1>8. (curr_offset + n - 1) \div BlockSize = q /\ (curr_offset + n - 1) % BlockSize = m
  <2>1. (BlockSize * q + m) \div BlockSize = q /\ (BlockSize * q + m) % BlockSize = m
    BY <1>1, <1>2, <1>4, <1>5, DivModOf, Zenon
  <2> QED
    BY <1>7, <2>1, Zenon
<1>9. Copied(NextBlock, ToCopy)[n] = ByteIn(NextBlock, m)
  BY <1>2, <1>5 DEF Copied
<1> QED
  BY <1>2, <1>8, <1>9, NextBlockRight DEF ByteAt

LEMMA FaithfulStep == Inv /\ MappingThere /\ Faithful /\ [Next]_vars => Faithful'
<1> SUFFICES ASSUME Inv, MappingThere, Faithful, [Next]_vars PROVE Faithful'
  OBVIOUS
<1>0. /\ file.size \in Nat /\ base \in Nat /\ offset \in Nat /\ size \in Nat
      /\ curr_offset \in Nat /\ remaining \in Nat /\ Len(dst) \in Nat /\ Len(out) \in Nat
      /\ TypeOK
  BY FilesAssumption, Concatenated DEF Inv, TypeOK
\* Where nothing is copied and nothing handed on, but a call may begin.
<1>1. ASSUME UNCHANGED <<file, caller, base, out>>, pc # "end", dst' = <<>>,
             pc' \in {"loop", "back"} => offset' = base + Len(out), pc' # "call"
      PROVE  Faithful'
  <2>1. \A n \in 1 .. Len(dst') : FALSE
    BY <1>1, EmptyIsSeq
  <2> QED
    BY <1>1, <2>1, Zenon DEF Faithful, ShowsContents, ByteAt
<1>2. CASE Call
  <2>1. /\ pc = "call" /\ out = <<>> /\ UNCHANGED <<file, caller, base, out>>
        /\ caller # "projfs" => base = 0
    BY <1>2 DEF Call, Faithful
  <2>2. Len(out) = 0
    BY <2>1, EmptyIsSeq
  <2>3. CASE /\ caller = "export" /\ pc' = "end"
    BY <2>1, <2>3, Zenon DEF Faithful, ShowsContents, ByteAt
  <2>4. CASE \/ caller = "projfs" /\ BeginRead(offset, size)
             \/ caller = "cat" /\ BeginRead(0, file.size)
             \/ caller = "export" /\ BeginRead(0, AtMost(Chunk, file.size))
    <3>1. dst' = <<>> /\ offset' = base /\ pc' # "call"
      BY <1>0, <2>1, <2>4 DEF BeginRead, Inv, Asked
    <3> QED
      BY <1>0, <1>1, <2>1, <2>2, <3>1
  <2> QED
    BY <1>2, <2>3, <2>4 DEF Call
<1>3. CASE CopyBlock
  <2>1. /\ pc = "loop" /\ remaining > 0 /\ dst' = dst \o Copied(NextBlock, ToCopy)
        /\ UNCHANGED <<file, caller, base, bad, pc, offset, size, out>>
        /\ remaining' = remaining - ToCopy
    BY <1>3 DEF CopyBlock
  <2>2. ToCopy \in Nat /\ ToCopy <= remaining
    BY <1>0, ToCopyBounds
  <2>3. /\ curr_offset = offset + Len(dst)
        /\ remaining + Len(dst) <= file.size - offset /\ curr_offset < file.size
    BY <1>0, <2>1 DEF Inv, Counting, ActualSize, AtMost
  <2>4. PICK c : /\ c = Copied(NextBlock, ToCopy) /\ IsSeq(c) /\ Len(c) = ToCopy
                 /\ \A n \in 1 .. ToCopy : c[n] = ByteAt(curr_offset + n - 1)
    BY <1>0, <2>2, <2>3, CopiedSeq, CopiedRight
  <2>5. /\ dst' = dst \o c /\ Len(dst') = Len(dst) + ToCopy
        /\ \A n \in 1 .. Len(dst) : dst'[n] = dst[n]
        /\ \A n \in Len(dst) + 1 .. Len(dst) + ToCopy : dst'[n] = c[n - Len(dst)]
    <3>1. dst' = dst \o c /\ IsSeq(dst) /\ IsSeq(c)
      BY <2>1, <2>4 DEF Inv
    <3>2. Len(dst \o c) = Len(dst) + Len(c)
      BY <3>1, Concatenated, Zenon
    <3>3. /\ \A n \in 1 .. Len(dst) : (dst \o c)[n] = dst[n]
          /\ \A n \in Len(dst) + 1 .. Len(dst) + Len(c) : (dst \o c)[n] = c[n - Len(dst)]
      BY <3>1, Elements, Zenon
    <3> QED
      BY <2>4, <3>1, <3>2, <3>3, Zenon
  <2>6. ASSUME NEW n \in 1 .. Len(dst')
        PROVE  offset + n <= file.size /\ dst'[n] = ByteAt(offset + n - 1)
    <3>1. CASE n <= Len(dst)
      BY <1>0, <2>1, <2>5, <3>1 DEF Faithful
    <3>2. CASE n > Len(dst)
      <4>1. /\ n - Len(dst) \in 1 .. ToCopy /\ n \in Len(dst) + 1 .. Len(dst) + ToCopy
            /\ curr_offset + (n - Len(dst)) - 1 = offset + n - 1
            /\ offset + n <= file.size
        BY <1>0, <2>2, <2>3, <2>5, <3>2
      <4>2. dst'[n] = c[n - Len(dst)]
        BY <2>5, <4>1
      <4>3. c[n - Len(dst)] = ByteAt(curr_offset + (n - Len(dst)) - 1)
        BY <2>4, <4>1
      <4> QED
        BY <4>1, <4>2, <4>3
    <3> QED
      BY <1>0, <2>2, <2>5, <3>1, <3>2
  <2> QED
    BY <2>1, <2>6, Zenon DEF Faithful, ShowsContents, ByteAt
<1>4. CASE FailBlock
  BY <1>1, <1>4 DEF FailBlock, Faithful
<1>5. CASE EndRead
  <2>1. pc = "loop" /\ pc' = "back" /\ UNCHANGED <<file, caller, base, offset, dst, out>>
    BY <1>5 DEF EndRead
  <2> QED
    BY <2>1, Zenon DEF Faithful, ShowsContents, ByteAt
<1>6. CASE HandOn
  <2>1. /\ pc = "back" /\ pc' = "end" /\ caller \in {"projfs", "cat"}
        /\ UNCHANGED <<file, caller, base>>
    BY <1>6 DEF HandOn
  <2>2. offset = base
    BY <2>1 DEF Inv, Asked
  <2>3. CASE out' = out
    BY <2>1, <2>3, Zenon DEF Faithful, ShowsContents, ByteAt
  <2>4. CASE out' = dst
    <3>1. \A n \in 1 .. Len(dst) : base + n <= file.size /\ dst[n] = ByteAt(base + n - 1)
      BY <2>1, <2>2 DEF Faithful
    <3> QED
      BY <2>1, <2>4, <3>1, Zenon DEF Faithful, ShowsContents, ByteAt
  <2> QED
    BY <1>6, <2>3, <2>4 DEF HandOn
<1>7. CASE ExportChunk
  <2>1. pc = "back" /\ caller = "export" /\ UNCHANGED <<file, caller, base>>
        /\ offset = base + Len(out)
        /\ \A n \in 1 .. Len(dst) :
             offset + n <= file.size /\ dst[n] = ByteAt(offset + n - 1)
    BY <1>7 DEF ExportChunk, Faithful
  <2>2. CASE pc' = "end" /\ out' = out
    BY <2>1, <2>2, Zenon DEF Faithful, ShowsContents, ByteAt
  <2>3. CASE out' = out \o dst
    <3>1. /\ Len(out') = Len(out) + Len(dst)
          /\ \A n \in 1 .. Len(out) : out'[n] = out[n]
          /\ \A n \in Len(out) + 1 .. Len(out) + Len(dst) : out'[n] = dst[n - Len(out)]
      BY <2>3, Concatenated, Elements DEF Inv
    <3>2. ASSUME NEW n \in 1 .. Len(out')
          PROVE  base + n <= file.size /\ out'[n] = ByteAt(base + n - 1)
      <4>1. CASE n <= Len(out)
        BY <1>0, <3>1, <4>1 DEF Faithful, ShowsContents
      <4>2. CASE n > Len(out)
        <5>1. /\ n - Len(out) \in 1 .. Len(dst) /\ n \in Len(out) + 1 .. Len(out) + Len(dst)
              /\ offset + (n - Len(out)) = base + n
              /\ offset + (n - Len(out)) - 1 = base + n - 1
          BY <1>0, <2>1, <3>1, <4>2
        <5>2. out'[n] = dst[n - Len(out)]
          BY <3>1, <5>1, Zenon
        <5>3. /\ offset + (n - Len(out)) <= file.size
              /\ dst[n - Len(out)] = ByteAt(offset + (n - Len(out)) - 1)
          BY <2>1, <5>1, Zenon
        <5> QED
          BY <5>1, <5>2, <5>3, Zenon
      <4> QED
        BY <1>0, <3>1, <4>1, <4>2
    <3>3. CASE pc' = "end"
      BY <2>1, <3>2, <3>3, Zenon DEF Faithful, ShowsContents, ByteAt
    <3>4. CASE BeginRead(offset + Len(dst), AtMost(Chunk, file.size - (offset + Len(dst))))
      <4>1. dst' = <<>> /\ pc' \in {"loop", "back"} /\ offset' = offset + Len(dst)
        BY <3>4 DEF BeginRead
      <4>2. offset' = base' + Len(out')
        BY <1>0, <2>1, <3>1, <4>1
      <4>3. \A n \in 1 .. Len(dst') :
              offset' + n <= file'.size /\ dst'[n] = ByteAt(offset + n - 1)'
        BY <4>1, EmptyIsSeq
      <4> QED
        BY <2>1, <3>2, <4>1, <4>2, <4>3, Zenon DEF Faithful, ShowsContents, ByteAt
    <3> QED
      BY <1>7, <2>2, <2>3, <3>3, <3>4 DEF ExportChunk
  <2> QED
    BY <1>7, <2>2, <2>3 DEF ExportChunk
<1>8. CASE Lose \/ UNCHANGED vars
  <2>1. UNCHANGED <<file, caller, base, pc, offset, dst, out>>
    BY <1>8 DEF Lose
  <2> QED
    BY <2>1, Zenon DEF Faithful, ShowsContents, ByteAt
<1> QED
  BY <1>2, <1>3, <1>4, <1>5, <1>6, <1>7, <1>8 DEF Next, Step

LEMMA InitFaithful == Init => Faithful
BY EmptyIsSeq DEF Init, Faithful, ShowsContents

\* A block that is lost stays lost.
LEMMA MappingStays == Inv /\ [Next]_vars /\ MappingThere' => MappingThere
<1> SUFFICES ASSUME Inv, [Next]_vars PROVE bad \subseteq bad' /\ file' = file
  BY DEF MappingThere
<1>1. CASE Lose
  BY <1>1 DEF Lose, Inv, TypeOK
<1>2. CASE Step \/ UNCHANGED vars
  BY <1>2 DEF Step, Call, CopyBlock, FailBlock, EndRead, HandOn, ExportChunk
<1> QED
  BY <1>1, <1>2 DEF Next

\* What Windows, `cat` and `export` are given is what the file holds there, holes as
\* zeros, wherever the read begins and ends and whatever is lost meanwhile, for extent
\* trees of any depth and for direct, single and double indirect pointers, unless a
\* block of the mapping itself was lost (ext4_reader.cpp:179-356).
THEOREM OnlyLostMappingLies == Spec => [](MappingThere => ShowsContents)
<1>1. Init => (MappingThere => Faithful)
  BY InitFaithful
<1>2. Inv /\ (MappingThere => Faithful) /\ [Next]_vars => (MappingThere => Faithful)'
  BY FaithfulStep, MappingStays
<1>3. Faithful => ShowsContents
  BY DEF Faithful
<1> QED
  BY <1>1, <1>2, <1>3, Invariance, PTL DEF Spec

\* What may be lost are blocks of data and of the inode table only.
MappingKept == \A f \in Files : MappingBlocks(f) \cap Breakable = {}

\* Where no block of a mapping can be lost, every read shows the contents of the file.
\* Without that hypothesis it is false: MCLostTable (ext4_reader.cpp:179-356).
THEOREM ContentsShown == MappingKept /\ Spec => []ShowsContents
<1>1. MappingKept /\ TypeOK => MappingThere
  BY DEF MappingKept, MappingThere, TypeOK
<1>2. CASE MappingKept
  <2>1. TypeOK => MappingThere
    BY <1>1, <1>2
  <2> QED
    BY <2>1, NoOverrun, OnlyLostMappingLies, PTL
<1> QED
  BY <1>2

\* The block of every logical block is found where the extents or the pointers of the
\* file put it, and no block for a hole, whatever blocks of data are lost
\* (ext4_reader.cpp:179-309).
THEOREM BlocksFound ==
  \A lost : \A f \in Files : lost \cap MappingBlocks(f) = {} =>
    \A l \in BlocksOf(f) : PhysicalBlock(f, lost, l) = f.contents[l]
BY MappingFinds
=============================================================================
