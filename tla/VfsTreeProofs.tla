--------------------------- MODULE VfsTreeProofs ---------------------------
(***************************************************************************)
(* A path is answered with a file it names, whatever workers share the      *)
(* tree, whatever reads fail and whatever the relock does. The invariant    *)
(* says that every node is where the directories read so far put it, and    *)
(* that a worker on its way down is at a node the first parts of its path   *)
(* name, up to the case of letters.                                        *)
(***************************************************************************)
EXTENDS VfsTree, WellFoundedInduction, TLAPS

Pcs == {"idle", "lock", "root", "pick", "found", "lost", "hung", "load", "list",
        "fill", "copy"}

EntrySet == [name : Names, inode : Inodes]
NodeSet  == [path : Seq(Names), inode : Inodes, loaded : BOOLEAN, children : Seq(Nat)]
TaskSet  == [pc : Pcs, path : Seq(Names), at : Nat, rest : Seq(Names),
             todo : Seq(EntrySet), calm : BOOLEAN]

\* The nodes made so far: the first is the root, and every child is one part below
\* its parent and comes after it.
NodesSound ==
  /\ nodes \in Seq(NodeSet)
  /\ nodes # <<>> => nodes[1].path = <<>> /\ nodes[1].inode = Root
  /\ \A n \in DOMAIN nodes :
       /\ nodes[n].inode \in NamedBy(nodes[n].path)
       /\ \A c \in Range(nodes[n].children) :
            /\ c \in n + 1 .. Len(nodes)
            /\ \E x \in Names : nodes[c].path = Append(nodes[n].path, x)

CacheSound ==
  \A path \in DOMAIN node_cache_ :
    /\ node_cache_[path] \in DOMAIN nodes
    /\ nodes[node_cache_[path]].path = path

\* The path asked for is the path done, as far as the case of letters goes, and the
\* parts that are left.
Walks(path, done, rest) ==
  /\ Len(path) = Len(done) + Len(rest)
  /\ \A i \in 1 .. Len(done) : Fold[done[i]] = Fold[path[i]]
  /\ \A i \in 1 .. Len(rest) : rest[i] = path[Len(done) + i]

Walked(t) == Walks(t.path, nodes[t.at].path, t.rest)

InFindNode(t) ==
  \/ t.pc \in {"root", "pick", "found", "lost", "hung"}
  \/ t.pc \in {"load", "list", "fill"} /\ t.rest # <<>>

\* What is true of the task of a worker wherever it is.
TaskSound(w) ==
  /\ task[w] \in TaskSet
  /\ task[w].pc # "idle" => task[w].path \in Paths
  /\ task[w].pc \in {"idle", "lock", "found"} => task[w].rest = <<>>
  /\ task[w].pc = "pick" => task[w].rest # <<>>
  /\ task[w].pc \in {"pick", "found", "load", "list", "fill", "copy"} =>
       task[w].at \in DOMAIN nodes /\ Walked(task[w])
  /\ task[w].pc \in {"load", "list", "fill"} => nodes[task[w].at].inode \in Dirs
  /\ task[w].pc = "fill" =>
       task[w].todo \in Seq(Range(Entries[nodes[task[w].at].inode]))
  /\ InFindNode(task[w]) => Locked(w)

AnswersSound ==
  \A a \in answers :
    a.path \in Paths /\ (a.inode = None \/ a.inode \in NamedBy(a.path))

Inv ==
  /\ NodesSound
  /\ CacheSound
  /\ task \in [Workers -> TaskSet]
  /\ \A w \in Workers : TaskSound(w)
  /\ AnswersSound
  /\ tree_mutex_ \in Workers \cup {None}
  /\ requests \in 0 .. MaxRequests /\ crashed \in BOOLEAN
-----------------------------------------------------------------------------
\* A set of natural numbers that is not empty has a least one.
LEMMA Least ==
  ASSUME NEW S \in SUBSET Nat, S # {}
  PROVE  Min(S) \in S /\ \A x \in S : Min(S) =< x
<1> DEFINE Less == {ss \in Nat \X Nat : ss[1] < ss[2]}
<1>1. IsWellFoundedOn(Less, Nat)
  BY NatLessThanWellFounded, Zenon DEF OpToRel
<1>2. \E x \in S : \A y \in S : <<y, x>> \notin Less
  <2> HIDE DEF Less
  <2> QED
    BY <1>1, WFMin, Zenon
<1>3. PICK x \in S : \A y \in S : <<y, x>> \notin Less
  BY <1>2
<1>4. \A y \in S : x =< y
  <2> SUFFICES ASSUME NEW y \in S, y < x PROVE FALSE
    OBVIOUS
  <2>1. <<y, x>> \in Less
    OBVIOUS
  <2> QED
    BY <2>1, <1>3
<1> QED
  BY <1>4 DEF Min

\* The root is what the empty path names.
LEMMA RootNamed == Root \in NamedBy(<<>>)
<1> DEFINE s == [i \in 0 .. 0 |-> Root]
<1>1. s \in [0 .. Len(<<>>) -> Inodes]
  BY VfsAssumption
<1>2. Trail(<<>>, s)
  BY DEF Trail
<1>3. s[Len(<<>>)] = Root
  OBVIOUS
<1> QED
  BY <1>1, <1>2, <1>3 DEF NamedBy

\* Paths that differ only in case name the same inodes.
LEMMA NamedAlike ==
  ASSUME NEW p \in Seq(Names), NEW q \in Seq(Names), Len(p) = Len(q),
         \A i \in 1 .. Len(p) : Fold[p[i]] = Fold[q[i]]
  PROVE  NamedBy(p) \subseteq NamedBy(q)
<1> SUFFICES ASSUME NEW s \in [0 .. Len(p) -> Inodes], Trail(p, s)
             PROVE  s[Len(p)] \in NamedBy(q)
  BY DEF NamedBy
<1>1. Trail(q, s)
  <2>1. DOMAIN p = 1 .. Len(p) /\ DOMAIN q = 1 .. Len(p)
    OBVIOUS
  <2> SUFFICES ASSUME NEW i \in 1 .. Len(p)
               PROVE  /\ s[i - 1] \in Dirs
                      /\ \E e \in Range(Entries[s[i - 1]]) :
                           e.inode = s[i] /\ Fold[e.name] = Fold[q[i]]
    BY <2>1 DEF Trail
  <2>2. Fold[p[i]] = Fold[q[i]]
    OBVIOUS
  <2> QED
    BY <2>1, <2>2, Zenon DEF Trail
<1> QED
  BY <1>1 DEF NamedBy

\* An entry of a directory a path names is named by the path with its name.
LEMMA NamedExtends ==
  ASSUME NEW p \in Seq(Names), NEW d \in NamedBy(p), d \in Dirs,
         NEW e \in Range(Entries[d])
  PROVE  e \in EntrySet /\ e.inode \in NamedBy(Append(p, e.name))
<1>1. e \in EntrySet
  <2>1. Entries[d] \in Seq(EntrySet)
    BY VfsAssumption DEF EntrySet
  <2>2. PICK j \in DOMAIN Entries[d] : e = Entries[d][j]
    BY DEF Range
  <2> QED
    BY <2>1, <2>2
<1>2. PICK s \in [0 .. Len(p) -> Inodes] : Trail(p, s) /\ d = s[Len(p)]
  BY DEF NamedBy
<1> DEFINE q == Append(p, e.name)
           n == Len(p)
           z == [i \in 0 .. n + 1 |-> IF i = n + 1 THEN e.inode ELSE s[i]]
<1>3. n \in Nat /\ q \in Seq(Names) /\ Len(q) = n + 1 /\ q[n + 1] = e.name
      /\ DOMAIN p = 1 .. n /\ DOMAIN q = 1 .. n + 1
      /\ \A i \in 1 .. n : q[i] = p[i]
  BY <1>1 DEF EntrySet
<1>4. z \in [0 .. n + 1 -> Inodes]
  BY <1>1, <1>2, <1>3 DEF EntrySet
<1>5. z[n + 1] = e.inode /\ \A i \in 0 .. n : z[i] = s[i]
  BY <1>3
<1>6. Trail(q, z)
  <2> HIDE DEF z, q
  <2>1. z[0] = Root
    BY <1>2, <1>3, <1>5 DEF Trail
  <2>2. ASSUME NEW i \in 1 .. n
        PROVE  /\ z[i - 1] \in Dirs
               /\ \E x \in Range(Entries[z[i - 1]]) :
                    x.inode = z[i] /\ Fold[x.name] = Fold[q[i]]
    <3>1. z[i - 1] = s[i - 1] /\ z[i] = s[i] /\ q[i] = p[i] /\ i \in DOMAIN p
      BY <1>3, <1>5
    <3> QED
      BY <3>1, <1>2, Zenon DEF Trail
  <2>3. /\ z[(n + 1) - 1] \in Dirs
        /\ \E x \in Range(Entries[z[(n + 1) - 1]]) :
             x.inode = z[n + 1] /\ Fold[x.name] = Fold[q[n + 1]]
    <3>1. z[(n + 1) - 1] = d
      BY <1>2, <1>3, <1>5
    <3> QED
      BY <3>1, <1>3, <1>5, Zenon
  <2>4. \A i \in DOMAIN q : i \in 1 .. n \/ i = n + 1
    BY <1>3
  <2> QED
    BY <2>1, <2>2, <2>3, <2>4, Zenon DEF Trail
<1>7. z \in [0 .. Len(q) -> Inodes] /\ z[Len(q)] = e.inode
  BY <1>3, <1>4, <1>5
<1> QED
  <2> HIDE DEF z, q
  <2>1. e.inode \in NamedBy(q)
    BY <1>6, <1>7 DEF NamedBy
  <2> QED
    BY <2>1, <1>1 DEF q
-----------------------------------------------------------------------------
\* Nodes are only added, and keep their paths and inodes.
Grows ==
  \A n \in DOMAIN nodes :
    /\ n \in DOMAIN nodes'
    /\ nodes'[n].path = nodes[n].path /\ nodes'[n].inode = nodes[n].inode

\* What is true of a worker stays true while another one moves.
LEMMA Bystander ==
  ASSUME NEW v \in Workers, TaskSound(v), task'[v] = task[v], Grows,
         tree_mutex_ = v => tree_mutex_' = v
  PROVE  TaskSound(v)'
<1> DEFINE t == task[v]
<1>1. t.pc \in {"pick", "found", "load", "list", "fill", "copy"} =>
        /\ t.at \in DOMAIN nodes'
        /\ nodes'[t.at].path = nodes[t.at].path /\ nodes'[t.at].inode = nodes[t.at].inode
        /\ Walked(task[v])'
  <2> SUFFICES ASSUME t.pc \in {"pick", "found", "load", "list", "fill", "copy"}
               PROVE  /\ t.at \in DOMAIN nodes'
                      /\ nodes'[t.at].path = nodes[t.at].path
                      /\ nodes'[t.at].inode = nodes[t.at].inode
                      /\ Walked(task[v])'
    BY Zenon
  <2>1. t.at \in DOMAIN nodes /\ Walked(t)
    BY DEF TaskSound
  <2>2. /\ t.at \in DOMAIN nodes'
        /\ nodes'[t.at].path = nodes[t.at].path
        /\ nodes'[t.at].inode = nodes[t.at].inode
    BY <2>1 DEF Grows
  <2>3. Walked(task[v])'
    BY <2>1, <2>2 DEF Walked
  <2> QED
    BY <2>2, <2>3
<1>2. InFindNode(t) => Locked(v)'
  BY DEF TaskSound, Locked
<1>3. InFindNode(task[v])' = InFindNode(t)
  BY DEF InFindNode
<1> QED
  BY <1>1, <1>2, <1>3 DEF TaskSound

\* A step of w keeps the invariant if it keeps the parts it writes.
LEMMA Moves ==
  ASSUME Inv, NEW w \in Workers, NEW t \in TaskSet, Set(w, t),
         NodesSound', CacheSound', Grows, TaskSound(w)', AnswersSound',
         \A v \in Workers \ {w} : tree_mutex_ = v => tree_mutex_' = v,
         (tree_mutex_ \in Workers \cup {None})',
         (requests \in 0 .. MaxRequests /\ crashed \in BOOLEAN)'
  PROVE  Inv'
<1>1. task' \in [Workers -> TaskSet]
  BY DEF Inv, Set
<1>2. ASSUME NEW v \in Workers \ {w} PROVE TaskSound(v)'
  <2>1. task'[v] = task[v] /\ TaskSound(v)
    BY DEF Inv, Set
  <2> QED
    BY <2>1, Bystander
<1> QED
  BY <1>1, <1>2 DEF Inv

\* The same for a step that leaves the tree and the mutex alone.
LEMMA MovesOnly ==
  ASSUME Inv, NEW w \in Workers, NEW t \in TaskSet, Set(w, t),
         TaskSound(w)', AnswersSound',
         UNCHANGED <<tree, tree_mutex_>>,
         (requests \in 0 .. MaxRequests /\ crashed \in BOOLEAN)'
  PROVE  Inv'
<1>1. NodesSound' /\ CacheSound' /\ Grows
  BY DEF Inv, NodesSound, CacheSound, Grows, tree
<1> QED
  BY <1>1, Moves DEF Inv

\* Arriving at a node the path leads to.
LEMMA Arrives ==
  ASSUME NEW w \in Workers, task[w] \in TaskSet, task[w].path \in Paths,
         NEW n \in Nat, NEW inode, NEW rest \in Seq(Names),
         Arrive(w, n, inode, rest), task \in [Workers -> TaskSet],
         n \in DOMAIN nodes', inode = nodes'[n].inode,
         Walks(task[w].path, nodes'[n].path, rest),
         tree_mutex_' = w
  PROVE  /\ TaskSound(w)'
         /\ \E t \in TaskSet : Set(w, t)
<1> DEFINE pc == IF rest = <<>> THEN "found" ELSE IF inode \in Dirs THEN "load" ELSE "lost"
           t  == [task[w] EXCEPT !.at = n, !.rest = rest, !.pc = pc]
<1>1. t \in TaskSet /\ t.at = n /\ t.rest = rest /\ t.pc = pc /\ t.path = task[w].path
  BY DEF TaskSet, Pcs
<1>2. Set(w, t)
  BY DEF Arrive
<1>3. task'[w] = t
  BY <1>2 DEF Set
<1>4. Walked(task[w])'
  BY <1>1, <1>3 DEF Walked
<1>5. TaskSound(w)'
  <2> HIDE DEF t
  <2> QED
    BY <1>1, <1>3, <1>4 DEF TaskSound, InFindNode, Locked
<1> QED
  BY <1>1, <1>2, <1>5
-----------------------------------------------------------------------------
\* What is known of a worker that moves, and of the node it is at.
LEMMA Known ==
  ASSUME Inv, NEW w \in Workers
  PROVE  /\ TaskSound(w) /\ task[w] \in TaskSet /\ task \in [Workers -> TaskSet]
         /\ task[w].path \in Seq(Names) /\ task[w].rest \in Seq(Names)
         /\ task[w].at \in Nat /\ task[w].pc \in Pcs /\ task[w].todo \in Seq(EntrySet)
         /\ w # None
         /\ task[w].at \in DOMAIN nodes => nodes[task[w].at] \in NodeSet
<1>1. TaskSound(w) /\ task[w] \in TaskSet /\ task \in [Workers -> TaskSet]
  BY DEF Inv
<1>2. w # None
  BY VfsAssumption
<1>3. task[w].at \in DOMAIN nodes => nodes[task[w].at] \in NodeSet
  BY DEF Inv, NodesSound
<1> QED
  BY <1>1, <1>2, <1>3 DEF TaskSet

LEMMA IdleType == Idle \in TaskSet
  BY DEF Idle, TaskSet, Pcs

LEMMA AskKeeps ==
  ASSUME Inv, NEW w \in Workers, Ask(w)
  PROVE  Inv'
<1>1. PICK path \in Paths : Set(w, [Idle EXCEPT !.pc = "lock", !.path = path])
  BY DEF Ask
<1> DEFINE t == [Idle EXCEPT !.pc = "lock", !.path = path]
<1>2. t \in TaskSet
  <2>1. path \in Seq(Names)
    BY VfsAssumption
  <2> QED
    BY <2>1, IdleType DEF TaskSet, Pcs
<1>3. task'[w] = t
  BY <1>1 DEF Set, Inv
<1>4. TaskSound(w)'
  BY <1>2, <1>3 DEF TaskSound, InFindNode, Idle
<1>5. (requests \in 0 .. MaxRequests /\ crashed \in BOOLEAN)'
  BY VfsAssumption DEF Ask, Inv
<1>6. AnswersSound'
  BY DEF Ask, Inv, AnswersSound
<1> QED
  BY <1>1, <1>2, <1>4, <1>5, <1>6, MovesOnly DEF Ask, tree

LEMMA LockKeeps ==
  ASSUME Inv, NEW w \in Workers, Lock(w)
  PROVE  Inv'
<1> USE Known
<1>1. tree_mutex_ = None /\ tree_mutex_' = w
  BY DEF Lock, Acquire
<1>2. UNCHANGED <<nodes, node_cache_, requests, answers>>
  BY DEF Lock, tree
<1>3. NodesSound' /\ CacheSound' /\ Grows /\ AnswersSound'
  BY <1>2 DEF Inv, NodesSound, CacheSound, Grows, AnswersSound
<1>4. task[w].pc = "lock" /\ task[w].rest = <<>> /\ task[w].path \in Paths
  BY DEF Lock, TaskSound
<1>5. crashed' \in BOOLEAN
  BY DEF Lock, Inv
<1>6. ASSUME NEW t \in TaskSet, Set(w, t), TaskSound(w)' PROVE Inv'
  BY <1>1, <1>2, <1>3, <1>5, <1>6, Moves, VfsAssumption DEF Inv
<1>7. ASSUME Set(w, [task[w] EXCEPT !.pc = "found", !.at = node_cache_[task[w].path]]),
             task[w].path \in DOMAIN node_cache_
      PROVE  Inv'
  <2> DEFINE n == node_cache_[task[w].path]
             t == [task[w] EXCEPT !.pc = "found", !.at = n]
  <2>1. n \in DOMAIN nodes /\ nodes[n].path = task[w].path
    BY <1>7 DEF Inv, CacheSound
  <2>2. n \in Nat
    BY <2>1 DEF Inv, NodesSound
  <2>3. t \in TaskSet
    BY <2>2 DEF TaskSet, Pcs
  <2>4. task'[w] = t
    BY <1>7 DEF Set
  <2>5. Walked(task[w])'
    <3>1. /\ task'[w].path = task[w].path /\ task'[w].at = n /\ task'[w].rest = <<>>
          /\ nodes'[n].path = task[w].path
      BY <2>1, <2>4, <1>2, <1>4 DEF TaskSet
    <3> QED
      BY <3>1 DEF Walked, Walks
  <2>6. TaskSound(w)'
    BY <2>1, <2>3, <2>4, <2>5, <1>1, <1>2, <1>4 DEF TaskSound, InFindNode, Locked, TaskSet
  <2> QED
    BY <2>3, <2>6, <1>6, <1>7
<1>8. ASSUME NEW pc \in {"root", "hung"}, Goto(w, pc) PROVE Inv'
  <2> DEFINE t == [task[w] EXCEPT !.pc = pc]
  <2>1. t \in TaskSet
    BY DEF TaskSet, Pcs
  <2>2. Set(w, t) /\ task'[w] = t
    BY <1>8 DEF Goto, Set
  <2>3. TaskSound(w)'
    BY <2>1, <2>2, <1>1, <1>4 DEF TaskSound, InFindNode, Locked, TaskSet
  <2> QED
    BY <2>1, <2>2, <2>3, <1>6
<1>9. CASE UNCHANGED task
  <2> DEFINE t == task[w]
  <2>1. Set(w, t)
    BY <1>9 DEF Set
  <2>2. TaskSound(w)'
    BY <1>9, <1>4 DEF TaskSound, InFindNode
  <2> QED
    BY <2>1, <2>2, <1>6
<1> QED
  BY <1>7, <1>8, <1>9, Zenon DEF Lock, Cached

LEMMA GetRootKeeps ==
  ASSUME Inv, NEW w \in Workers, GetRoot(w)
  PROVE  Inv'
<1> USE Known
<1>1. task[w].pc = "root" /\ Locked(w) /\ task[w].path \in Paths
      /\ UNCHANGED <<tree_mutex_, requests, answers, crashed>>
  BY DEF GetRoot, TaskSound, InFindNode
<1>2. AnswersSound' /\ (requests \in 0 .. MaxRequests /\ crashed \in BOOLEAN)'
      /\ (tree_mutex_ \in Workers \cup {None})'
  BY <1>1 DEF AnswersSound, Inv
<1>3. CASE Set(w, [task[w] EXCEPT !.pc = "lost", !.calm = FALSE]) /\ UNCHANGED tree
  <2> DEFINE t == [task[w] EXCEPT !.pc = "lost", !.calm = FALSE]
  <2>1. t \in TaskSet /\ task'[w] = t
    BY <1>3 DEF TaskSet, Pcs, Set
  <2>2. TaskSound(w)'
    BY <2>1, <1>1 DEF TaskSound, InFindNode, Locked, TaskSet
  <2> QED
    BY <2>1, <2>2, <1>1, <1>2, <1>3, MovesOnly
<1>4. CASE /\ IF nodes = <<>>
              THEN nodes' = <<Node(<<>>, Root)>> /\ node_cache_' = [path \in {<<>>} |-> 1]
              ELSE UNCHANGED tree
           /\ Arrive(w, 1, Root, task[w].path)
  <2>1. NodesSound' /\ CacheSound' /\ Grows /\ 1 \in DOMAIN nodes'
        /\ nodes'[1].path = <<>> /\ nodes'[1].inode = Root
    <3>1. CASE nodes = <<>>
      <4> DEFINE r == Node(<<>>, Root)
      <4>1. nodes' = <<r>> /\ node_cache_' = [path \in {<<>>} |-> 1]
        BY <1>4, <3>1
      <4>2. r \in NodeSet /\ r.path = <<>> /\ r.inode = Root /\ r.children = <<>>
        BY VfsAssumption DEF Node, NodeSet
      <4>3. nodes' \in Seq(NodeSet) /\ nodes'[1] = r /\ DOMAIN nodes' = {1}
        <5> HIDE DEF r
        <5> QED
          BY <4>1, <4>2
      <4>4. Range(r.children) = {}
        BY <4>2 DEF Range
      <4>5. NodesSound'
        BY <4>2, <4>3, <4>4, RootNamed DEF NodesSound
      <4>6. CacheSound'
        BY <4>1, <4>2, <4>3 DEF CacheSound
      <4>7. Grows
        BY <3>1 DEF Grows
      <4> QED
        BY <4>2, <4>3, <4>5, <4>6, <4>7
    <3>2. CASE nodes # <<>>
      <4>1. UNCHANGED <<nodes, node_cache_>>
        BY <1>4, <3>2 DEF tree
      <4>2. nodes[1].path = <<>> /\ nodes[1].inode = Root /\ 1 \in DOMAIN nodes
        BY <3>2 DEF Inv, NodesSound
      <4>3. nodes' = nodes /\ node_cache_' = node_cache_
        BY <4>1
      <4>4. NodesSound'
        BY <4>3, Zenon DEF Inv, NodesSound
      <4>5. CacheSound'
        BY <4>3, Zenon DEF Inv, CacheSound
      <4>6. Grows
        BY <4>3, Zenon DEF Grows
      <4> QED
        BY <4>2, <4>3, <4>4, <4>5, <4>6, Zenon
    <3> QED
      BY <3>1, <3>2
  <2>2. Walks(task[w].path, nodes'[1].path, task[w].path)
    BY <2>1 DEF Walks
  <2>3. TaskSound(w)' /\ \E t \in TaskSet : Set(w, t)
    BY <2>1, <2>2, <1>1, <1>4, Arrives DEF Locked
  <2> QED
    BY <2>1, <2>3, <1>1, <1>2, Moves
<1> QED
  BY <1>3, <1>4 DEF GetRoot

\* The child that was picked is one part further down the path.
LEMMA PickLeads ==
  ASSUME Inv, NEW w \in Workers, task[w].pc = "pick",
         NEW k \in DOMAIN nodes[task[w].at].children,
         Alike(NameOf(nodes[task[w].at].children[k]), Head(task[w].rest))
  PROVE  LET n == nodes[task[w].at].children[k]
         IN  /\ n \in DOMAIN nodes /\ n \in Nat
             /\ Tail(task[w].rest) \in Seq(Names)
             /\ Walks(task[w].path, nodes[n].path, Tail(task[w].rest))
<1> USE Known
<1> DEFINE at == task[w].at
           children == nodes[at].children
           n == children[k]
           rest == Tail(task[w].rest)
<1>1. /\ task[w].rest # <<>> /\ at \in DOMAIN nodes /\ Walked(task[w])
  BY DEF TaskSound
<1>2. children \in Seq(Nat)
  BY <1>1 DEF NodeSet
<1>3. Alike(NameOf(children[k]), Head(task[w].rest))
  OBVIOUS
<1>4. n \in Range(children) /\ n \in Nat
  BY <1>2 DEF Range
<1>5. n \in DOMAIN nodes
  BY <1>4, <1>1 DEF Inv, NodesSound
<1>6. PICK x \in Names : nodes[n].path = Append(nodes[at].path, x)
  BY <1>4, <1>1 DEF Inv, NodesSound
<1>7. rest \in Seq(Names) /\ Len(rest) = Len(task[w].rest) - 1
      /\ \A i \in 1 .. Len(rest) : rest[i] = task[w].rest[i + 1]
      /\ Head(task[w].rest) = task[w].rest[1] /\ Len(task[w].rest) >= 1
  BY <1>1
<1>8. nodes[at].path \in Seq(Names)
  BY <1>1 DEF NodeSet
<1>9. Walks(task[w].path, nodes[n].path, rest)
  <2> DEFINE a == nodes[at].path
             b == nodes[n].path
             path == task[w].path
             old == task[w].rest
  <2>1. Len(b) = Len(a) + 1 /\ b[Len(a) + 1] = x /\ \A i \in 1 .. Len(a) : b[i] = a[i]
    <3>1. \A s \in Seq(Names), y \in Names :
            /\ Len(Append(s, y)) = Len(s) + 1 /\ Append(s, y)[Len(s) + 1] = y
            /\ \A i \in 1 .. Len(s) : Append(s, y)[i] = s[i]
      OBVIOUS
    <3>2. a \in Seq(Names) /\ b = Append(a, x)
      BY <1>6, <1>8
    <3> HIDE DEF a, b
    <3> QED
      BY <3>1, <3>2
  <2>2. Walks(path, a, old)
    BY <1>1 DEF Walked
  <2>3. Fold[x] = Fold[old[1]]
    <3>1. Fold[NameOf(n)] = Fold[Head(old)]
      BY <1>3 DEF Alike
    <3>2. NameOf(n) = b[Len(b)]
      BY DEF NameOf, Last
    <3>3. NameOf(n) = x
      BY <3>2, <2>1
    <3> QED
      BY <3>1, <3>3, <1>7
  <2> HIDE DEF a, b, path, old, rest
  <2>4. Len(a) \in Nat /\ Len(rest) \in Nat /\ Len(old) \in Nat
        /\ Len(rest) = Len(old) - 1 /\ Len(old) >= 1
        /\ \A i \in 1 .. Len(rest) : rest[i] = old[i + 1]
    <3>1. a \in Seq(Names) /\ old \in Seq(Names) /\ rest \in Seq(Names)
      BY <1>7, <1>8 DEF a, old, rest
    <3>2. Len(a) \in Nat /\ Len(rest) \in Nat /\ Len(old) \in Nat
      BY <3>1
    <3>3. /\ Len(rest) = Len(old) - 1 /\ Len(old) >= 1
          /\ \A i \in 1 .. Len(rest) : rest[i] = old[i + 1]
      BY <1>7 DEF old
    <3> QED
      BY <3>2, <3>3
  <2>5. Len(path) = Len(b) + Len(rest)
    BY <2>1, <2>2, <2>4 DEF Walks
  <2>6. old[1] = path[Len(a) + 1]
    BY <2>2, <2>4 DEF Walks
  <2>7. \A i \in 1 .. Len(b) : Fold[b[i]] = Fold[path[i]]
    <3>1. ASSUME NEW i \in 1 .. Len(a) PROVE Fold[b[i]] = Fold[path[i]]
      BY <2>1, <2>2 DEF Walks
    <3>2. Fold[b[Len(a) + 1]] = Fold[path[Len(a) + 1]]
      BY <2>1, <2>3, <2>6
    <3>3. \A i \in 1 .. Len(b) : i \in 1 .. Len(a) \/ i = Len(a) + 1
      BY <2>1, <2>4
    <3> QED
      BY <3>1, <3>2, <3>3
  <2>8. ASSUME NEW i \in 1 .. Len(rest) PROVE rest[i] = path[Len(b) + i]
    <3>1. i + 1 \in 1 .. Len(old) /\ rest[i] = old[i + 1]
      BY <2>4
    <3>2. Len(a) + (i + 1) = Len(b) + i
      BY <2>1, <2>4
    <3> QED
      BY <3>1, <3>2, <2>2 DEF Walks
  <2> QED
    BY <2>5, <2>7, <2>8 DEF Walks, a, b, path, rest
<1> QED
  BY <1>4, <1>5, <1>7, <1>9

LEMMA PickKeeps ==
  ASSUME Inv, NEW w \in Workers, Pick(w)
  PROVE  Inv'
<1> USE Known
<1> DEFINE at == task[w].at
           children == nodes[at].children
           alike == {c \in DOMAIN children : Alike(NameOf(children[c]), Head(task[w].rest))}
<1>1. /\ task[w].pc = "pick" /\ Locked(w) /\ task[w].path \in Paths
      /\ task[w].rest # <<>> /\ at \in DOMAIN nodes /\ Walked(task[w])
      /\ UNCHANGED <<nodes, node_cache_, tree_mutex_, requests, answers, crashed>>
  BY DEF Pick, TaskSound, InFindNode, tree
<1>2. AnswersSound' /\ (requests \in 0 .. MaxRequests /\ crashed \in BOOLEAN)'
      /\ (tree_mutex_ \in Workers \cup {None})' /\ NodesSound' /\ CacheSound' /\ Grows
  BY <1>1 DEF AnswersSound, NodesSound, CacheSound, Grows, Inv
<1>3. CASE Goto(w, "lost")
  <2> DEFINE t == [task[w] EXCEPT !.pc = "lost"]
  <2>1. t \in TaskSet /\ task'[w] = t /\ Set(w, t)
    BY <1>3 DEF TaskSet, Pcs, Set, Goto
  <2>2. TaskSound(w)'
    BY <2>1, <1>1 DEF TaskSound, InFindNode, Locked, TaskSet
  <2> QED
    BY <2>1, <2>2, <1>1, <1>2, MovesOnly DEF tree
<1>4. CASE /\ alike # {}
           /\ Arrive(w, children[Min(alike)], nodes[children[Min(alike)]].inode,
                     Tail(task[w].rest))
  <2> DEFINE k == Min(alike)
             n == children[k]
             rest == Tail(task[w].rest)
  <2>1. children \in Seq(Nat)
    BY <1>1 DEF NodeSet
  <2>2. alike \in SUBSET Nat
    BY <2>1
  <2>3. k \in DOMAIN children /\ Alike(NameOf(children[k]), Head(task[w].rest))
    <3>1. k \in alike
      <4> HIDE DEF alike
      <4> QED
        BY <2>2, <1>4, Least
    <3> QED
      BY <3>1
  <2> HIDE DEF k, alike
  <2>4. n \in DOMAIN nodes /\ n \in Nat /\ rest \in Seq(Names)
        /\ Walks(task[w].path, nodes[n].path, rest)
    BY <2>3, <1>1, PickLeads
  <2>5. TaskSound(w)' /\ \E t \in TaskSet : Set(w, t)
    <3> HIDE DEF n, rest
    <3>1. Arrive(w, n, nodes[n].inode, rest)
      BY <1>4 DEF n, rest, k, alike
    <3>2. n \in DOMAIN nodes' /\ nodes'[n] = nodes[n] /\ tree_mutex_' = w
      BY <2>4, <1>1 DEF Locked
    <3>3. Walks(task[w].path, nodes'[n].path, rest)
      BY <2>4, <3>2 DEF n, rest
    <3> QED
      BY <3>1, <3>2, <3>3, <2>4, <1>1, Arrives DEF n, rest
  <2> QED
    BY <2>5, <1>1, <1>2, Moves
<1> QED
  BY <1>3, <1>4 DEF Pick

LEMMA FoundKeeps ==
  ASSUME Inv, NEW w \in Workers, Found(w)
  PROVE  Inv'
<1> USE Known
<1> DEFINE n == task[w].at
<1>1. /\ task[w].pc = "found" /\ Locked(w) /\ task[w].path \in Paths
      /\ task[w].rest = <<>> /\ n \in DOMAIN nodes /\ Walked(task[w])
      /\ tree_mutex_' = None
      /\ UNCHANGED <<nodes, node_cache_, requests, crashed>>
  BY DEF Found, TaskSound, InFindNode, tree
<1>2. (requests \in 0 .. MaxRequests /\ crashed \in BOOLEAN)'
      /\ (tree_mutex_ \in Workers \cup {None})' /\ NodesSound' /\ CacheSound' /\ Grows
  BY <1>1 DEF NodesSound, CacheSound, Grows, Inv
<1>3. \A v \in Workers \ {w} : tree_mutex_ # v
  BY <1>1 DEF Locked
<1>4. nodes[n].inode \in NamedBy(task[w].path)
  <2>1. nodes[n].inode \in NamedBy(nodes[n].path) /\ nodes[n].path \in Seq(Names)
    BY <1>1 DEF Inv, NodesSound, NodeSet
  <2>2. Len(nodes[n].path) = Len(task[w].path)
        /\ \A i \in 1 .. Len(nodes[n].path) : Fold[nodes[n].path[i]] = Fold[task[w].path[i]]
    BY <1>1, <2>1 DEF Walked, Walks
  <2> QED
    BY <2>1, <2>2, NamedAlike
<1>5. AnswersSound'
  BY <1>1, <1>4 DEF Found, Answer, AnswersSound, Inv
<1>6. ASSUME NEW t \in TaskSet, Set(w, t), TaskSound(w)' PROVE Inv'
  BY <1>1, <1>2, <1>3, <1>5, <1>6, Moves
<1>7. CASE IsDirectory(n) /\ Set(w, [task[w] EXCEPT !.pc = "load", !.rest = <<>>])
  <2> DEFINE t == [task[w] EXCEPT !.pc = "load", !.rest = <<>>]
  <2>1. t \in TaskSet /\ task'[w] = t
    <3>1. <<>> \in Seq(Names)
      OBVIOUS
    <3> QED
      BY <1>7, <3>1 DEF TaskSet, Pcs, Set
  <2>2. t.pc = "load" /\ t.rest = <<>> /\ t.path = task[w].path /\ t.at = n
    BY DEF TaskSet
  <2>3. Walked(task[w])'
    BY <2>1, <2>2, <1>1 DEF Walked
  <2> HIDE DEF t
  <2>4. nodes'[n].inode \in Dirs
    BY <1>1, <1>7 DEF IsDirectory
  <2>5. TaskSound(w)'
    BY <2>1, <2>2, <2>3, <2>4, <1>1 DEF TaskSound, InFindNode
  <2> QED
    BY <2>1, <2>5, <1>6, <1>7 DEF t
<1>8. CASE Set(w, Idle)
  <2>1. task'[w] = Idle
    BY <1>8 DEF Set
  <2>2. TaskSound(w)'
    BY <2>1, IdleType DEF TaskSound, InFindNode, Idle
  <2> QED
    BY <2>2, <1>6, <1>8, IdleType
<1> QED
  BY <1>7, <1>8 DEF Found

LEMMA LostKeeps ==
  ASSUME Inv, NEW w \in Workers, Lost(w)
  PROVE  Inv'
<1> USE Known
<1>1. /\ Locked(w) /\ task[w].path \in Paths /\ tree_mutex_' = None
      /\ UNCHANGED <<nodes, node_cache_, requests, crashed>>
  BY DEF Lost, TaskSound, InFindNode, tree
<1>2. (requests \in 0 .. MaxRequests /\ crashed \in BOOLEAN)'
      /\ (tree_mutex_ \in Workers \cup {None})' /\ NodesSound' /\ CacheSound' /\ Grows
  BY <1>1 DEF NodesSound, CacheSound, Grows, Inv
<1>3. \A v \in Workers \ {w} : tree_mutex_ # v
  BY <1>1 DEF Locked
<1>4. AnswersSound'
  BY <1>1 DEF Lost, Answer, AnswersSound, Inv
<1>5. task'[w] = Idle /\ Set(w, Idle)
  BY DEF Set, Lost
<1>6. TaskSound(w)'
  BY <1>5, IdleType DEF TaskSound, InFindNode, Idle
<1> QED
  BY <1>1, <1>2, <1>3, <1>4, <1>5, <1>6, Moves, IdleType
-----------------------------------------------------------------------------
\* Children may be dropped and the flag set without disturbing the tree.
LEMMA Reshaped ==
  ASSUME NodesSound, CacheSound, UNCHANGED node_cache_,
         nodes' \in Seq(NodeSet), Len(nodes') = Len(nodes),
         \A n \in DOMAIN nodes :
           /\ nodes'[n].path = nodes[n].path /\ nodes'[n].inode = nodes[n].inode
           /\ Range(nodes'[n].children) \subseteq Range(nodes[n].children)
  PROVE  NodesSound' /\ CacheSound' /\ Grows
<1>1. DOMAIN nodes' = DOMAIN nodes
  BY DEF NodesSound
<1>2. NodesSound'
  <2>1. nodes' # <<>> => nodes'[1].path = <<>> /\ nodes'[1].inode = Root
    <3> SUFFICES ASSUME nodes' # <<>>
                 PROVE  nodes'[1].path = <<>> /\ nodes'[1].inode = Root
      OBVIOUS
    <3>1. nodes # <<>> /\ 1 \in DOMAIN nodes
      BY DEF NodesSound
    <3> QED
      BY <3>1 DEF NodesSound
  <2>2. ASSUME NEW n \in DOMAIN nodes'
        PROVE  /\ nodes'[n].inode \in NamedBy(nodes'[n].path)
               /\ \A c \in Range(nodes'[n].children) :
                    /\ c \in n + 1 .. Len(nodes')
                    /\ \E x \in Names : nodes'[c].path = Append(nodes'[n].path, x)
    <3>1. nodes'[n].inode \in NamedBy(nodes'[n].path)
      BY <1>1 DEF NodesSound
    <3>2. ASSUME NEW c \in Range(nodes'[n].children)
          PROVE  /\ c \in n + 1 .. Len(nodes')
                 /\ \E x \in Names : nodes'[c].path = Append(nodes'[n].path, x)
      <4>1. c \in n + 1 .. Len(nodes)
            /\ \E x \in Names : nodes[c].path = Append(nodes[n].path, x)
        BY <1>1 DEF NodesSound
      <4>2. n \in Nat /\ c \in DOMAIN nodes
        BY <4>1, <1>1 DEF NodesSound
      <4> QED
        BY <4>1, <4>2, <1>1
    <3> QED
      BY <3>1, <3>2
  <2> QED
    BY <2>1, <2>2, Zenon DEF NodesSound
<1>3. CacheSound'
  BY <1>1 DEF CacheSound
<1> QED
  BY <1>1, <1>2, <1>3 DEF Grows

\* The worker leaves ensure_children_loaded.
LEMMA Returns ==
  ASSUME NEW w \in Workers, TaskSound(w), task[w].pc \in {"load", "list", "fill"},
         NEW t \in TaskSet, task'[w] = t, t.pc = Loaded(w), t.path = task[w].path,
         t.at = task[w].at, t.rest = task[w].rest, Grows, UNCHANGED tree_mutex_
  PROVE  TaskSound(w)'
<1>1. task[w].rest # <<>> => Locked(w)'
  BY DEF TaskSound, InFindNode, Locked
<1>2. t.at \in DOMAIN nodes' /\ nodes'[t.at].path = nodes[t.at].path /\ Walked(task[w])
      /\ t.path \in Paths
  BY DEF TaskSound, Grows
<1>3. Walked(task[w])'
  BY <1>2 DEF Walked
<1>4. (t.pc = "copy" /\ t.rest = <<>>) \/ (t.pc = "pick" /\ t.rest # <<>>)
  BY DEF Loaded
<1> QED
  BY <1>1, <1>2, <1>3, <1>4 DEF TaskSound, InFindNode

\* The worker goes on in it.
LEMMA GoesOn ==
  ASSUME NEW w \in Workers, TaskSound(w), task[w].pc \in {"load", "list", "fill"},
         NEW t \in TaskSet, task'[w] = t, t.pc \in {"list", "fill"}, t.path = task[w].path,
         t.at = task[w].at, t.rest = task[w].rest, Grows, UNCHANGED tree_mutex_,
         t.pc = "fill" => t.todo \in Seq(Range(Entries[nodes[t.at].inode]))
  PROVE  TaskSound(w)'
<1>1. task[w].rest # <<>> => Locked(w)'
  BY DEF TaskSound, InFindNode, Locked
<1>2. t.at \in DOMAIN nodes' /\ nodes'[t.at].path = nodes[t.at].path
      /\ nodes'[t.at].inode = nodes[t.at].inode /\ nodes[t.at].inode \in Dirs
      /\ Walked(task[w]) /\ t.path \in Paths
  BY DEF TaskSound, Grows
<1>3. Walked(task[w])'
  BY <1>2 DEF Walked
<1> QED
  BY <1>1, <1>2, <1>3 DEF TaskSound, InFindNode

LEMMA CheckLoadedKeeps ==
  ASSUME Inv, NEW w \in Workers, CheckLoaded(w)
  PROVE  Inv'
<1> USE Known
<1>1. task[w].pc = "load"
      /\ UNCHANGED <<nodes, node_cache_, tree_mutex_, requests, answers, crashed>>
  BY DEF CheckLoaded, tree
<1>2. AnswersSound' /\ (requests \in 0 .. MaxRequests /\ crashed \in BOOLEAN)' /\ Grows
  BY <1>1 DEF AnswersSound, Grows, Inv
<1> DEFINE pc == IF nodes[task[w].at].loaded THEN Loaded(w) ELSE "list"
           t  == [task[w] EXCEPT !.pc = pc]
<1>3. t \in TaskSet /\ task'[w] = t /\ Set(w, t)
  BY DEF TaskSet, Pcs, Set, Goto, CheckLoaded, Loaded
<1>4. t.pc = pc /\ t.path = task[w].path /\ t.at = task[w].at /\ t.rest = task[w].rest
  BY DEF TaskSet
<1> HIDE DEF t
<1>5. TaskSound(w)'
  <2>1. CASE pc = "list"
    BY <2>1, <1>1, <1>2, <1>3, <1>4, GoesOn
  <2>2. CASE pc = Loaded(w)
    BY <2>2, <1>1, <1>2, <1>3, <1>4, Returns
  <2> QED
    BY <2>1, <2>2
<1> QED
  BY <1>1, <1>2, <1>3, <1>5, MovesOnly DEF tree

LEMMA CopyKeeps ==
  ASSUME Inv, NEW w \in Workers, Copy(w)
  PROVE  Inv'
<1> USE Known
<1>1. UNCHANGED <<nodes, node_cache_, tree_mutex_, requests, answers, crashed>>
  BY DEF Copy, tree
<1>2. AnswersSound' /\ (requests \in 0 .. MaxRequests /\ crashed \in BOOLEAN)'
  BY <1>1 DEF AnswersSound, Inv
<1>3. task'[w] = Idle /\ Set(w, Idle)
  BY DEF Set, Copy
<1>4. TaskSound(w)'
  BY <1>3, IdleType DEF TaskSound, InFindNode, Idle
<1> QED
  BY <1>1, <1>2, <1>3, <1>4, MovesOnly, IdleType DEF tree

\* What a step that fills a directory may take for granted.
LEMMA Filling ==
  ASSUME Inv, NEW w \in Workers, task[w].pc \in {"load", "list", "fill"}
  PROVE  /\ task[w].at \in DOMAIN nodes /\ nodes \in Seq(NodeSet)
         /\ nodes[task[w].at] \in NodeSet /\ nodes[task[w].at].inode \in Dirs
         /\ nodes[task[w].at].inode \in NamedBy(nodes[task[w].at].path)
<1>1. task[w].at \in DOMAIN nodes /\ nodes[task[w].at].inode \in Dirs
  BY Known DEF TaskSound
<1> QED
  BY <1>1 DEF Inv, NodesSound

\* What a directory is listed as, cut short or not, are entries of it.
LEMMA ListsSound ==
  ASSUME NEW d \in Dirs, NEW list \in Lists(d)
  PROVE  list \in Seq(EntrySet) /\ list \in Seq(Range(Entries[d]))
<1>1. Entries[d] \in Seq(EntrySet)
  BY VfsAssumption DEF EntrySet
<1>2. PICK s : s = Entries[d]
  OBVIOUS
<1>3. s \in Seq(EntrySet) /\ s \in Seq(Range(s))
  BY <1>1, <1>2 DEF Range
<1>4. list = s \/ \E n \in 0 .. Len(s) : list = SubSeq(s, 1, n)
  BY <1>2 DEF Lists
<1>5. ASSUME NEW n \in 0 .. Len(s)
      PROVE  SubSeq(s, 1, n) \in Seq(EntrySet) /\ SubSeq(s, 1, n) \in Seq(Range(s))
  BY <1>3
<1> QED
  BY <1>2, <1>3, <1>4, <1>5

LEMMA ListDirectoryKeeps ==
  ASSUME Inv, NEW w \in Workers, ListDirectory(w)
  PROVE  Inv'
<1> USE Known
<1> DEFINE at == task[w].at
<1>1. task[w].pc = "list"
      /\ UNCHANGED <<node_cache_, tree_mutex_, requests, answers, crashed>>
  BY DEF ListDirectory
<1>2. AnswersSound' /\ (requests \in 0 .. MaxRequests /\ crashed \in BOOLEAN)'
      /\ (tree_mutex_ \in Workers \cup {None})'
  BY <1>1 DEF AnswersSound, Inv
<1>3. CASE Set(w, [task[w] EXCEPT !.pc = Loaded(w), !.calm = FALSE]) /\ UNCHANGED nodes
  <2> DEFINE t == [task[w] EXCEPT !.pc = Loaded(w), !.calm = FALSE]
  <2>1. t \in TaskSet /\ task'[w] = t /\ Set(w, t)
    BY <1>3 DEF TaskSet, Pcs, Set, Loaded
  <2>2. t.pc = Loaded(w) /\ t.path = task[w].path /\ t.at = at /\ t.rest = task[w].rest
    BY DEF TaskSet
  <2>3. Grows
    BY <1>3 DEF Grows
  <2> HIDE DEF t
  <2>4. TaskSound(w)'
    BY <2>1, <2>2, <2>3, <1>1, Returns
  <2> QED
    BY <2>1, <2>4, <1>1, <1>2, <1>3, MovesOnly DEF tree
<1>4. ASSUME NEW list \in Lists(nodes[at].inode),
             Set(w, [task[w] EXCEPT !.pc = "fill", !.todo = list]),
             nodes' = [nodes EXCEPT ![at].children = <<>>]
      PROVE  Inv'
  <2> DEFINE t == [task[w] EXCEPT !.pc = "fill", !.todo = list]
  <2>1. at \in DOMAIN nodes /\ nodes \in Seq(NodeSet) /\ nodes[at] \in NodeSet
        /\ nodes[at].inode \in Dirs
    BY <1>1, Filling
  <2>2. list \in Seq(EntrySet) /\ list \in Seq(Range(Entries[nodes[at].inode]))
    BY <2>1, ListsSound
  <2>4. t \in TaskSet /\ task'[w] = t /\ Set(w, t)
    BY <2>2, <1>4 DEF TaskSet, Pcs, Set
  <2>5. t.pc = "fill" /\ t.path = task[w].path /\ t.at = at /\ t.rest = task[w].rest
        /\ t.todo = list
    BY DEF TaskSet
  <2>6. /\ nodes' \in Seq(NodeSet) /\ Len(nodes') = Len(nodes)
        /\ \A n \in DOMAIN nodes :
             /\ nodes'[n].path = nodes[n].path /\ nodes'[n].inode = nodes[n].inode
             /\ Range(nodes'[n].children) \subseteq Range(nodes[n].children)
    <3> DEFINE r == [nodes[at] EXCEPT !.children = <<>>]
    <3>1. r \in NodeSet /\ r.path = nodes[at].path /\ r.inode = nodes[at].inode
          /\ r.children = <<>>
      <4>1. <<>> \in Seq(Nat)
        OBVIOUS
      <4> QED
        BY <2>1, <4>1 DEF NodeSet
    <3>2. nodes' = [nodes EXCEPT ![at] = r]
      BY <1>4
    <3>3. Range(r.children) = {}
      BY <3>1 DEF Range
    <3> HIDE DEF r
    <3>4. nodes' \in Seq(NodeSet) /\ Len(nodes') = Len(nodes) /\ DOMAIN nodes' = DOMAIN nodes
      BY <2>1, <3>1, <3>2
    <3>5. \A n \in DOMAIN nodes : nodes'[n] = nodes[n] \/ (n = at /\ nodes'[n] = r)
      BY <2>1, <3>2
    <3> QED
      BY <3>1, <3>3, <3>4, <3>5
  <2>7. NodesSound' /\ CacheSound' /\ Grows
    BY <2>6, <1>1, Reshaped DEF Inv
  <2> HIDE DEF t
  <2>8. TaskSound(w)'
    BY <2>2, <2>4, <2>5, <2>7, <1>1, GoesOn
  <2> QED
    BY <2>4, <2>7, <2>8, <1>1, <1>2, Moves
<1> QED
  BY <1>3, <1>4 DEF ListDirectory

LEMMA SetLoadedKeeps ==
  ASSUME Inv, NEW w \in Workers, SetLoaded(w)
  PROVE  Inv'
<1> USE Known
<1> DEFINE at == task[w].at
           t == [task[w] EXCEPT !.pc = Loaded(w), !.todo = <<>>]
           r == [nodes[at] EXCEPT !.loaded = TRUE]
<1>1. task[w].pc = "fill"
      /\ UNCHANGED <<node_cache_, tree_mutex_, requests, answers, crashed>>
  BY DEF SetLoaded
<1>2. AnswersSound' /\ (requests \in 0 .. MaxRequests /\ crashed \in BOOLEAN)'
      /\ (tree_mutex_ \in Workers \cup {None})'
  BY <1>1 DEF AnswersSound, Inv
<1>3. at \in DOMAIN nodes /\ nodes \in Seq(NodeSet) /\ nodes[at] \in NodeSet
  BY <1>1, Filling
<1>4. t \in TaskSet /\ task'[w] = t /\ Set(w, t)
  <2>1. <<>> \in Seq(EntrySet) /\ Loaded(w) \in Pcs
    BY DEF Loaded, Pcs
  <2> QED
    BY <2>1 DEF TaskSet, Set, SetLoaded
<1>5. t.pc = Loaded(w) /\ t.path = task[w].path /\ t.at = at /\ t.rest = task[w].rest
  BY DEF TaskSet
<1>6. r \in NodeSet /\ r.path = nodes[at].path /\ r.inode = nodes[at].inode
      /\ r.children = nodes[at].children
  BY <1>3 DEF NodeSet
<1>7. nodes' = [nodes EXCEPT ![at] = r]
  BY DEF SetLoaded
<1> HIDE DEF r, t
<1>8. nodes' \in Seq(NodeSet) /\ Len(nodes') = Len(nodes)
  BY <1>3, <1>6, <1>7
<1>9. \A n \in DOMAIN nodes : nodes'[n] = nodes[n] \/ (n = at /\ nodes'[n] = r)
  BY <1>3, <1>7
<1>10. \A n \in DOMAIN nodes :
         /\ nodes'[n].path = nodes[n].path /\ nodes'[n].inode = nodes[n].inode
         /\ Range(nodes'[n].children) \subseteq Range(nodes[n].children)
  BY <1>6, <1>9
<1>11. NodesSound' /\ CacheSound' /\ Grows
  BY <1>1, <1>8, <1>10, Reshaped DEF Inv
<1>12. TaskSound(w)'
  BY <1>1, <1>4, <1>5, <1>11, Returns
<1> QED
  BY <1>1, <1>2, <1>4, <1>11, <1>12, Moves

LEMMA AddChildKeeps ==
  ASSUME Inv, NEW w \in Workers, AddChild(w)
  PROVE  Inv'
<1> USE Known
<1> DEFINE at == task[w].at
           todo == task[w].todo
           entry == Head(todo)
           path == Append(nodes[at].path, entry.name)
           child == Len(nodes) + 1
<1>1. task[w].pc = "fill" /\ todo # <<>>
      /\ UNCHANGED <<tree_mutex_, requests, answers, crashed>>
  BY DEF AddChild
<1>2. AnswersSound' /\ (requests \in 0 .. MaxRequests /\ crashed \in BOOLEAN)'
      /\ (tree_mutex_ \in Workers \cup {None})'
  BY <1>1 DEF AnswersSound, Inv
<1>3. at \in DOMAIN nodes /\ nodes \in Seq(NodeSet) /\ nodes[at] \in NodeSet
      /\ nodes[at].inode \in Dirs /\ nodes[at].inode \in NamedBy(nodes[at].path)
      /\ nodes[at].path \in Seq(Names) /\ nodes[at].children \in Seq(Nat)
  BY <1>1, Filling DEF NodeSet
<1> DEFINE listed == Range(Entries[nodes[at].inode])
<1>4. entry \in listed /\ Tail(todo) \in Seq(listed) /\ Tail(todo) \in Seq(EntrySet)
  <2>1. todo \in Seq(listed) /\ todo \in Seq(EntrySet)
    BY <1>1 DEF TaskSound
  <2> HIDE DEF todo, listed
  <2> QED
    BY <2>1, <1>1
<1>5. entry \in EntrySet /\ entry.inode \in NamedBy(path) /\ path \in Seq(Names)
  <2> HIDE DEF entry
  <2>1. entry \in EntrySet /\ entry.inode \in NamedBy(path)
    BY <1>3, <1>4, NamedExtends
  <2> QED
    BY <1>3, <2>1 DEF EntrySet
<1>6. ASSUME NEW t \in TaskSet, task'[w] = t, t.pc = "fill", t.path = task[w].path,
             t.at = at, t.rest = task[w].rest, t.todo = Tail(todo), Grows
      PROVE  TaskSound(w)'
  BY <1>1, <1>4, <1>6, GoesOn
<1>7. CASE Set(w, [task[w] EXCEPT !.todo = Tail(@), !.calm = FALSE]) /\ UNCHANGED tree
  <2> DEFINE t == [task[w] EXCEPT !.todo = Tail(@), !.calm = FALSE]
  <2>1. t \in TaskSet /\ task'[w] = t /\ Set(w, t)
    BY <1>4, <1>7 DEF TaskSet, Set
  <2>2. t.pc = "fill" /\ t.path = task[w].path /\ t.at = at /\ t.rest = task[w].rest
        /\ t.todo = Tail(todo)
    BY <1>1 DEF TaskSet
  <2>3. Grows
    BY <1>7 DEF Grows, tree
  <2> HIDE DEF t
  <2>4. TaskSound(w)'
    BY <2>1, <2>2, <2>3, <1>6
  <2> QED
    BY <2>1, <2>4, <1>1, <1>2, <1>7, MovesOnly
<1>8. CASE /\ Set(w, [task[w] EXCEPT !.todo = Tail(@)])
           /\ nodes' = Append([nodes EXCEPT ![at].children = Append(@, child)],
                              Node(path, entry.inode))
           /\ node_cache_' = [p \in DOMAIN node_cache_ \cup {path} |->
                                 IF p = path THEN child ELSE node_cache_[p]]
  <2> DEFINE t == [task[w] EXCEPT !.todo = Tail(@)]
             r == [nodes[at] EXCEPT !.children = Append(@, child)]
             new == Node(path, entry.inode)
             len == Len(nodes)
  <2>1. t \in TaskSet /\ task'[w] = t /\ Set(w, t)
    BY <1>4, <1>8 DEF TaskSet, Set
  <2>2. t.pc = "fill" /\ t.path = task[w].path /\ t.at = at /\ t.rest = task[w].rest
        /\ t.todo = Tail(todo)
    BY <1>1 DEF TaskSet
  <2>3. len \in Nat /\ child = len + 1 /\ at \in 1 .. len /\ DOMAIN nodes = 1 .. len
    BY <1>3
  <2>4. r \in NodeSet /\ r.path = nodes[at].path /\ r.inode = nodes[at].inode
        /\ r.children = Append(nodes[at].children, child)
    <3>1. Append(nodes[at].children, child) \in Seq(Nat)
      BY <1>3, <2>3
    <3> QED
      BY <3>1, <1>3 DEF NodeSet
  <2>5. Range(r.children) \subseteq Range(nodes[at].children) \cup {child}
    <3>1. \A s \in Seq(Nat), c \in Nat : Range(Append(s, c)) \subseteq Range(s) \cup {c}
      BY DEF Range
    <3> HIDE DEF r, child
    <3> QED
      BY <3>1, <2>3, <2>4, <1>3
  <2>6. new \in NodeSet /\ new.path = path /\ new.inode = entry.inode /\ new.children = <<>>
    <3>1. <<>> \in Seq(Nat)
      OBVIOUS
    <3> HIDE DEF path, entry
    <3> QED
      BY <3>1, <1>5 DEF Node, NodeSet, EntrySet
  <2> HIDE DEF new
  <2>7. Range(new.children) = {}
    <3>1. \A x \in {<<>>} : DOMAIN x = {}
      OBVIOUS
    <3> QED
      BY <2>6, <3>1 DEF Range
  <2>8. nodes' = Append([nodes EXCEPT ![at] = r], new)
    BY <1>8 DEF new
  <2> HIDE DEF t, r, child, path, entry
  <2>9. /\ nodes' \in Seq(NodeSet) /\ Len(nodes') = child /\ DOMAIN nodes' = 1 .. child
        /\ nodes'[child] = new
        /\ \A n \in 1 .. len : nodes'[n] = nodes[n] \/ (n = at /\ nodes'[n] = r)
    <3> DEFINE z == [nodes EXCEPT ![at] = r]
    <3>1. z \in Seq(NodeSet) /\ Len(z) = len
          /\ \A n \in 1 .. len : z[n] = nodes[n] \/ (n = at /\ z[n] = r)
      BY <1>3, <2>3, <2>4
    <3> HIDE DEF z
    <3> QED
      BY <3>1, <2>3, <2>6, <2>8 DEF z
  <2>10. \A n \in 1 .. len :
           /\ nodes'[n].path = nodes[n].path /\ nodes'[n].inode = nodes[n].inode
           /\ \A c \in Range(nodes'[n].children) :
                c \in Range(nodes[n].children) \/ (n = at /\ c = child)
    BY <2>4, <2>5, <2>9
  <2>11. Grows
    BY <2>3, <2>9, <2>10 DEF Grows
  <2>12. NodesSound'
    <3>1. nodes'[1].path = <<>> /\ nodes'[1].inode = Root
      <4>1. 1 \in 1 .. len /\ nodes # <<>>
        BY <2>3
      <4>2. nodes[1].path = <<>> /\ nodes[1].inode = Root
        BY <4>1 DEF Inv, NodesSound
      <4> QED
        BY <4>1, <4>2, <2>10
    <3>2. ASSUME NEW n \in 1 .. child PROVE nodes'[n].inode \in NamedBy(nodes'[n].path)
      <4>1. CASE n \in 1 .. len
        BY <4>1, <2>3, <2>10 DEF Inv, NodesSound
      <4>2. CASE n = child
        BY <4>2, <2>6, <2>9, <1>5
      <4> QED
        BY <4>1, <4>2, <2>3
    <3>3. ASSUME NEW n \in 1 .. child, NEW c \in Range(nodes'[n].children)
          PROVE  /\ c \in n + 1 .. child
                 /\ \E x \in Names : nodes'[c].path = Append(nodes'[n].path, x)
      <4>1. n # child
        BY <2>7, <2>9
      <4>2. n \in 1 .. len
        BY <4>1, <2>3
      <4>3. CASE c \in Range(nodes[n].children)
        <5>1. c \in n + 1 .. len /\ \E x \in Names : nodes[c].path = Append(nodes[n].path, x)
          BY <4>2, <4>3, <2>3 DEF Inv, NodesSound
        <5>2. c \in 1 .. len /\ c \in n + 1 .. child
          BY <4>2, <5>1, <2>3
        <5> QED
          BY <4>2, <5>1, <5>2, <2>10
      <4>4. CASE n = at /\ c = child
        <5>1. nodes'[c].path = Append(nodes'[n].path, entry.name)
          BY <4>2, <4>4, <2>6, <2>9, <2>10 DEF path
        <5>2. entry.name \in Names
          BY <1>5 DEF EntrySet
        <5>3. c \in n + 1 .. child
          BY <4>4, <2>3
        <5> QED
          BY <5>1, <5>2, <5>3
      <4> QED
        BY <4>2, <4>3, <4>4, <2>10
    <3> QED
      BY <3>1, <3>2, <3>3, <2>9 DEF NodesSound
  <2>13. CacheSound'
    <3> SUFFICES ASSUME NEW p \in DOMAIN node_cache_'
                 PROVE  /\ node_cache_'[p] \in DOMAIN nodes'
                        /\ nodes'[node_cache_'[p]].path = p
      BY DEF CacheSound
    <3>1. p \in DOMAIN node_cache_ \cup {path}
          /\ node_cache_'[p] = IF p = path THEN child ELSE node_cache_[p]
      BY <1>8 DEF path, child, entry
    <3>2. CASE p = path
      BY <3>1, <3>2, <2>3, <2>6, <2>9
    <3>3. CASE p # path
      <4>1. node_cache_'[p] \in 1 .. len /\ nodes[node_cache_'[p]].path = p
        BY <3>1, <3>3, <2>3 DEF Inv, CacheSound
      <4> QED
        BY <4>1, <2>3, <2>9, <2>10
    <3> QED
      BY <3>2, <3>3
  <2>14. TaskSound(w)'
    BY <2>1, <2>2, <2>11, <1>6
  <2> QED
    BY <2>1, <2>11, <2>12, <2>13, <2>14, <1>1, <1>2, Moves
<1> QED
  BY <1>7, <1>8 DEF AddChild, ChildPath
-----------------------------------------------------------------------------
\* Every step keeps the invariant.
LEMMA InvStep ==
  ASSUME Inv, [Next]_vars
  PROVE  Inv'
<1>1. CASE UNCHANGED vars
  BY <1>1 DEF vars, tree, Inv, NodesSound, CacheSound, TaskSound, AnswersSound, Walked,
              Locked
<1>2. ASSUME NEW w \in Workers, Race(w) PROVE Inv'
  BY <1>2 DEF Race, tree, Inv, NodesSound, CacheSound, TaskSound, AnswersSound, Walked,
              Locked
<1>3. ASSUME NEW w \in Workers, Step(w) PROVE Inv'
  BY <1>3, LockKeeps, GetRootKeeps, PickKeeps, FoundKeeps, LostKeeps, CheckLoadedKeeps,
     ListDirectoryKeeps, AddChildKeeps, SetLoadedKeeps, CopyKeeps DEF Step
<1> QED
  BY <1>1, <1>2, <1>3, AskKeeps DEF Next

LEMMA InvInit == Init => Inv
<1> SUFFICES ASSUME Init PROVE Inv
  OBVIOUS
<1>1. NodesSound /\ CacheSound
  BY DEF Init, NodesSound, CacheSound
<1>2. task \in [Workers -> TaskSet] /\ \A w \in Workers : task[w] = Idle
  BY IdleType DEF Init
<1>3. ASSUME NEW w \in Workers PROVE TaskSound(w)
  BY <1>2, IdleType DEF TaskSound, InFindNode, Idle
<1>4. AnswersSound
  BY DEF Init, AnswersSound
<1>5. tree_mutex_ = None /\ requests \in 0 .. MaxRequests
  BY VfsAssumption DEF Init
<1>6. crashed \in BOOLEAN
  BY Zenon DEF Init
<1> QED
  BY <1>1, <1>2, <1>3, <1>4, <1>5, <1>6 DEF Inv

THEOREM Invariance == Spec => []Inv
  BY InvInit, InvStep, PTL DEF Spec

\* The tree stays a tree, the cache points into it, and whoever is in find_node holds
\* the mutex (vfs_tree.cpp:66-150).
THEOREM TypeCorrect == Spec => []TypeOK
<1>1. Inv => TypeOK
  <2> SUFFICES ASSUME Inv PROVE TypeOK
    OBVIOUS
  <2>1. \A n \in DOMAIN nodes :
          /\ nodes[n].path \in Seq(Names) /\ nodes[n].loaded \in BOOLEAN
          /\ Range(nodes[n].children) \subseteq n + 1 .. Len(nodes)
    <3> SUFFICES ASSUME NEW n \in DOMAIN nodes
                 PROVE  /\ nodes[n].path \in Seq(Names) /\ nodes[n].loaded \in BOOLEAN
                        /\ Range(nodes[n].children) \subseteq n + 1 .. Len(nodes)
      OBVIOUS
    <3>1. nodes[n] \in NodeSet
      BY DEF Inv, NodesSound
    <3>2. \A c \in Range(nodes[n].children) : c \in n + 1 .. Len(nodes)
      BY DEF Inv, NodesSound
    <3> QED
      BY <3>1, <3>2 DEF NodeSet
  <2>2. Range(node_cache_) \subseteq DOMAIN nodes
    BY DEF Inv, CacheSound, Range
  <2>3. \A w \in Workers :
          task[w].pc \in {"root", "pick", "found", "lost", "hung"} => Locked(w)
    BY DEF Inv, TaskSound, InFindNode
  <2> QED
    BY <2>1, <2>2, <2>3 DEF Inv, TypeOK
<1> QED
  BY <1>1, Invariance, PTL

\* A path is never answered with a file it does not name (vfs_tree.cpp:77-94, 101-150).
THEOREM NeverAnotherFile == Spec => []LookupSound
<1>1. Inv => LookupSound
  BY DEF Inv, AnswersSound, LookupSound, InodesAt
<1> QED
  BY <1>1, Invariance, PTL

-----------------------------------------------------------------------------
\* As long as no two workers were in one vector or in the cache and no directory was
\* loaded without an entry, a node that
\* counts as loaded has the children its directory has, except while a worker fills it
\* again, and a worker all of whose reads worked relies on nothing else.
Partial(n, todo) ==
  LET list == Entries[nodes[n].inode]
      children == nodes[n].children
  IN  /\ Len(list) = Len(children) + Len(todo)
      /\ \A i \in 1 .. Len(children) : NameOf(children[i]) = list[i].name
      /\ \A i \in 1 .. Len(todo) : todo[i] = list[Len(children) + i]

Filled(n) == \E w \in Workers : task[w].pc = "fill" /\ task[w].at = n

TreeCalm ==
  /\ \A n \in DOMAIN nodes : nodes[n].loaded /\ ~Filled(n) =>
        nodes[n].inode \in Dirs /\ Partial(n, <<>>)
  /\ \A w \in Workers : task[w].pc = "fill" => Partial(task[w].at, task[w].todo)

TaskCalm(t) ==
  /\ t.calm /\ t.pc \in {"pick", "copy"} => nodes[t.at].loaded
  /\ t.calm /\ t.pc = "lost" /\ t.path \in DistinctPaths => NamedBy(t.path) = {}

HistoryCalm ==
  /\ \A l \in listings : l.calm => l.names = NamesIn(l.inode)
  /\ \A a \in answers :
       a.calm /\ a.inode = None /\ a.path \in DistinctPaths => NamedBy(a.path) = {}

Calm == TreeCalm /\ (\A w \in Workers : TaskCalm(task[w])) /\ HistoryCalm

CalmInv == ~marred /\ ~SomeRace => Calm

\* A path that leads past no names equal but for case names nothing if it goes on from
\* a node that is no directory, or into a directory none of whose entries has that name.
LEMMA DeadEnd ==
  ASSUME NodesSound, NEW n \in DOMAIN nodes, NEW path \in Seq(Names),
         path \in DistinctPaths,
         NEW rest \in Seq(Names), rest # <<>>, Walks(path, nodes[n].path, rest),
         \/ nodes[n].inode \notin Dirs
         \/ \A e \in Range(Entries[nodes[n].inode]) : Fold[e.name] # Fold[rest[1]]
  PROVE  NamedBy(path) = {}
<1> DEFINE done == nodes[n].path
           k == Len(done)
<1>1. done \in Seq(Names) /\ nodes[n].inode \in NamedBy(done)
  <2>1. nodes[n] \in NodeSet
    BY DEF NodesSound
  <2> QED
    BY <2>1 DEF NodesSound, NodeSet
<1> SUFFICES ASSUME NEW s \in [0 .. Len(path) -> Inodes], Trail(path, s)
             PROVE  FALSE
  BY DEF NamedBy
<1>2. /\ k \in Nat /\ Len(path) \in Nat /\ Len(rest) \in Nat /\ Len(rest) >= 1
      /\ DOMAIN done = 1 .. k /\ DOMAIN path = 1 .. Len(path)
  BY <1>1
<1>3. /\ Len(path) = k + Len(rest) /\ \A i \in 1 .. k : Fold[done[i]] = Fold[path[i]]
      /\ rest[1] = path[k + 1]
  BY <1>2 DEF Walks
<1> HIDE DEF k, done
<1> DEFINE z == [i \in 0 .. k |-> s[i]]
<1>4. z \in [0 .. k -> Inodes] /\ \A i \in 0 .. k : z[i] = s[i]
  BY <1>2, <1>3
<1>5. Trail(done, z)
  <2> HIDE DEF z
  <2>1. z[0] = Root
    BY <1>2, <1>4 DEF Trail
  <2>2. ASSUME NEW i \in 1 .. k
        PROVE  /\ z[i - 1] \in Dirs
               /\ \E e \in Range(Entries[z[i - 1]]) :
                    e.inode = z[i] /\ Fold[e.name] = Fold[done[i]]
    <3>1. z[i - 1] = s[i - 1] /\ z[i] = s[i] /\ i \in DOMAIN path
          /\ Fold[done[i]] = Fold[path[i]]
      BY <1>2, <1>3, <1>4
    <3> QED
      BY <3>1, Zenon DEF Trail
  <2> QED
    BY <1>2, <2>1, <2>2, Zenon DEF Trail
<1>6. s[k] = nodes[n].inode
  <2>1. z[k] \in NamedBy(done)
    <3> HIDE DEF z
    <3> QED
      BY <1>4, <1>5 DEF NamedBy, k
  <2>2. z[k] = nodes[n].inode
    <3>1. PICK front : front = SubSeq(path, 1, k)
      OBVIOUS
    <3>2. front \in Seq(Names) /\ Len(front) = k /\ \A i \in 1 .. k : front[i] = path[i]
      BY <3>1, <1>2, <1>3
    <3>3. NamedBy(done) \subseteq NamedBy(front)
      <4>1. Len(done) = Len(front) /\ \A i \in 1 .. Len(done) : Fold[done[i]] = Fold[front[i]]
        BY <3>2, <1>3 DEF k
      <4> QED
        BY <4>1, <3>2, <1>1, NamedAlike
    <3>4. k \in 0 .. Len(path)
      BY <1>2, <1>3
    <3>5. \A d, e \in NamedBy(front) : d = e
      BY <3>1, <3>4, Zenon DEF DistinctPaths
    <3> QED
      BY <2>1, <3>3, <3>5, <1>1
  <2> QED
    BY <2>2, <1>2, <1>4
<1>7. k + 1 \in DOMAIN path /\ (k + 1) - 1 = k
  BY <1>2, <1>3
<1>8. s[k] \in Dirs /\ \E e \in Range(Entries[s[k]]) : Fold[e.name] = Fold[path[k + 1]]
  BY <1>7 DEF Trail
<1> QED
  BY <1>3, <1>6, <1>8

\* Steps that leave the nodes alone, of a worker that does not fill a directory.
LEMMA StillCalm ==
  ASSUME Calm, NEW w \in Workers, NEW t, Set(w, t), task \in [Workers -> TaskSet],
         UNCHANGED nodes, task[w].pc # "fill", t.pc # "fill",
         TaskCalm(t), HistoryCalm'
  PROVE  Calm'
<1>1. task'[w] = t /\ \A v \in Workers \ {w} : task'[v] = task[v]
  BY DEF Set
<1>2. \A v \in Workers : task'[v].pc = "fill" => task'[v] = task[v] /\ task[v].pc = "fill"
  BY <1>1
<1>3. \A v \in Workers : task[v].pc = "fill" => task'[v] = task[v]
  BY <1>1
<1>4. \A n : Filled(n)' = Filled(n)
  BY <1>2, <1>3 DEF Filled
<1>5. \A n, todo : Partial(n, todo)' = Partial(n, todo)
  BY DEF Partial, NameOf
<1>6. TreeCalm'
  <2>1. ASSUME NEW n \in DOMAIN nodes', nodes'[n].loaded, ~Filled(n)'
        PROVE  nodes'[n].inode \in Dirs /\ Partial(n, <<>>)'
    BY <2>1, <1>4, <1>5 DEF Calm, TreeCalm
  <2>2. ASSUME NEW v \in Workers, task'[v].pc = "fill"
        PROVE  Partial(task[v].at, task[v].todo)'
    <3>1. task'[v] = task[v] /\ Partial(task[v].at, task[v].todo)
      BY <2>2, <1>2 DEF Calm, TreeCalm
    <3> QED
      BY <3>1 DEF Partial, NameOf
  <2> QED
    BY <2>1, <2>2 DEF TreeCalm
<1>7. ASSUME NEW v \in Workers PROVE TaskCalm(task[v])'
  BY <1>1 DEF Calm, TaskCalm
<1> QED
  BY <1>6, <1>7 DEF Calm

LEMMA AskCalm ==
  ASSUME Inv, Calm, NEW w \in Workers, Ask(w)
  PROVE  Calm'
<1>1. PICK path \in Paths : Set(w, [Idle EXCEPT !.pc = "lock", !.path = path])
  BY DEF Ask
<1> DEFINE t == [Idle EXCEPT !.pc = "lock", !.path = path]
<1>2. t.pc = "lock"
  BY DEF Idle
<1>3. TaskCalm(t)
  BY <1>2 DEF TaskCalm
<1>4. task[w].pc # "fill" /\ UNCHANGED <<nodes, answers, listings>>
  BY DEF Ask, tree
<1>5. HistoryCalm'
  BY <1>4 DEF Calm, HistoryCalm
<1> HIDE DEF t
<1> QED
  BY <1>1, <1>2, <1>3, <1>4, <1>5, StillCalm DEF t, Inv

LEMMA LockCalm ==
  ASSUME Inv, Calm, NEW w \in Workers, Lock(w)
  PROVE  Calm'
<1> USE Known
<1>1. task[w].pc = "lock" /\ UNCHANGED <<nodes, answers, listings>>
  BY DEF Lock, tree
<1>2. HistoryCalm'
  BY <1>1 DEF Calm, HistoryCalm
<1>3. ASSUME NEW t, Set(w, t), t.pc \in {"found", "root", "hung", "lock"} PROVE Calm'
  <2>1. TaskCalm(t)
    BY <1>3 DEF TaskCalm
  <2>2. t.pc # "fill" /\ task[w].pc # "fill"
    BY <1>1, <1>3
  <2> QED
    BY <1>1, <1>2, <1>3, <2>1, <2>2, StillCalm
<1>4. CASE Set(w, [task[w] EXCEPT !.pc = "found", !.at = node_cache_[task[w].path]])
  <2> DEFINE t == [task[w] EXCEPT !.pc = "found", !.at = node_cache_[task[w].path]]
  <2>1. t.pc = "found"
    BY DEF TaskSet
  <2> HIDE DEF t
  <2> QED
    BY <2>1, <1>3, <1>4 DEF t
<1>5. ASSUME NEW pc \in {"root", "hung"}, Goto(w, pc) PROVE Calm'
  <2> DEFINE t == [task[w] EXCEPT !.pc = pc]
  <2>1. t.pc = pc
    BY DEF TaskSet
  <2>2. Set(w, t)
    BY <1>5 DEF Goto
  <2> HIDE DEF t
  <2> QED
    BY <2>1, <2>2, <1>3
<1>6. CASE UNCHANGED task
  <2>1. Set(w, task[w])
    BY <1>6 DEF Set
  <2> QED
    BY <2>1, <1>1, <1>3
<1> QED
  BY <1>4, <1>5, <1>6, Zenon DEF Lock

LEMMA CheckLoadedCalm ==
  ASSUME Inv, Calm, NEW w \in Workers, CheckLoaded(w)
  PROVE  Calm'
<1> USE Known
<1> DEFINE pc == IF nodes[task[w].at].loaded THEN Loaded(w) ELSE "list"
           t  == [task[w] EXCEPT !.pc = pc]
<1>1. task[w].pc = "load" /\ UNCHANGED <<nodes, answers, listings>> /\ Set(w, t)
  BY DEF CheckLoaded, tree, Goto
<1>2. HistoryCalm'
  BY <1>1 DEF Calm, HistoryCalm
<1>3. t.pc = pc /\ t.at = task[w].at
  BY DEF TaskSet
<1> HIDE DEF t
<1>4. TaskCalm(t) /\ t.pc # "fill"
  BY <1>3 DEF TaskCalm, Loaded
<1> QED
  BY <1>1, <1>2, <1>4, StillCalm

LEMMA CopyCalm ==
  ASSUME Inv, Calm, ~SomeRace, NEW w \in Workers, Copy(w)
  PROVE  Calm'
<1> USE Known
<1> DEFINE at == task[w].at
           n  == nodes[at]
           names == [c \in DOMAIN n.children |-> NameOf(n.children[c])]
<1>1. task[w].pc = "copy" /\ UNCHANGED <<nodes, answers>> /\ Set(w, Idle)
      /\ listings' = listings \cup
           {[inode |-> n.inode, names |-> names, calm |-> task[w].calm]}
  BY DEF Copy, tree
<1>2. at \in DOMAIN nodes /\ n \in NodeSet
  BY <1>1 DEF TaskSound
<1>3. ASSUME task[w].calm PROVE names = NamesIn(n.inode)
  <2>1. n.loaded
    BY <1>1, <1>3 DEF Calm, TaskCalm
  <2>2. ~Filled(at)
    <3> SUFFICES ASSUME NEW v \in Workers, task[v].pc = "fill", task[v].at = at
                 PROVE  FALSE
      BY DEF Filled
    <3> QED
      BY <1>1 DEF SomeRace, Racing
  <2>3. n.inode \in Dirs /\ Partial(at, <<>>)
    BY <1>2, <2>1, <2>2 DEF Calm, TreeCalm
  <2>4. n.children \in Seq(Nat) /\ Entries[n.inode] \in Seq(EntrySet)
    BY <1>2, <2>3, VfsAssumption DEF NodeSet, EntrySet
  <2>5. Len(Entries[n.inode]) = Len(n.children)
        /\ \A i \in 1 .. Len(n.children) : NameOf(n.children[i]) = Entries[n.inode][i].name
    <3>1. Len(<<>>) = 0 /\ Len(n.children) \in Nat
      BY <2>4
    <3> QED
      BY <2>3, <3>1 DEF Partial
  <2>6. DOMAIN n.children = DOMAIN Entries[n.inode] /\ DOMAIN n.children = 1 .. Len(n.children)
    BY <2>4, <2>5
  <2> HIDE DEF n
  <2> QED
    BY <2>5, <2>6 DEF NamesIn
<1>4. HistoryCalm'
  <2> HIDE DEF names, n
  <2>1. ASSUME NEW l \in listings', l.calm PROVE l.names = NamesIn(l.inode)
    <3>1. CASE l \in listings
      BY <2>1, <3>1 DEF Calm, HistoryCalm
    <3>2. CASE l = [inode |-> n.inode, names |-> names, calm |-> task[w].calm]
      BY <2>1, <3>2, <1>3
    <3> QED
      BY <3>1, <3>2, <1>1
  <2> QED
    BY <2>1, <1>1 DEF Calm, HistoryCalm
<1>5. TaskCalm(Idle) /\ Idle.pc # "fill"
  BY DEF TaskCalm, Idle
<1> QED
  BY <1>1, <1>4, <1>5, StillCalm

LEMMA LostCalm ==
  ASSUME Inv, Calm, NEW w \in Workers, Lost(w)
  PROVE  Calm'
<1> USE Known
<1>1. task[w].pc = "lost" /\ UNCHANGED <<nodes, listings>> /\ Set(w, Idle)
      /\ answers' = answers \cup
           {[path |-> task[w].path, inode |-> None, calm |-> task[w].calm]}
  BY DEF Lost, tree, Answer
<1>2. HistoryCalm'
  <2> DEFINE b == [path |-> task[w].path, inode |-> None, calm |-> task[w].calm]
  <2>1. ASSUME NEW a \in answers', a.calm, a.inode = None, a.path \in DistinctPaths
        PROVE  NamedBy(a.path) = {}
    <3>1. CASE a \in answers
      BY <2>1, <3>1 DEF Calm, HistoryCalm
    <3>2. CASE a = b
      <4>1. a.path = task[w].path /\ task[w].calm
        BY <2>1, <3>2
      <4> QED
        BY <2>1, <4>1, <1>1 DEF Calm, TaskCalm
    <3> QED
      BY <3>1, <3>2, <1>1
  <2> QED
    BY <2>1, <1>1 DEF Calm, HistoryCalm
<1>3. TaskCalm(Idle) /\ Idle.pc # "fill"
  BY DEF TaskCalm, Idle
<1> QED
  BY <1>1, <1>2, <1>3, StillCalm

LEMMA FoundCalm ==
  ASSUME Inv, Calm, NEW w \in Workers, Found(w)
  PROVE  Calm'
<1> USE Known
<1> DEFINE at == task[w].at
<1>1. task[w].pc = "found" /\ UNCHANGED <<nodes, listings>>
      /\ answers' = answers \cup
           {[path |-> task[w].path, inode |-> nodes[at].inode, calm |-> task[w].calm]}
  BY DEF Found, tree, Answer
<1>2. nodes[at].inode # None
  <2>1. nodes[at] \in NodeSet
    BY <1>1 DEF TaskSound
  <2> QED
    BY <2>1, VfsAssumption DEF NodeSet
<1>3. HistoryCalm'
  <2> DEFINE b == [path |-> task[w].path, inode |-> nodes[at].inode, calm |-> task[w].calm]
  <2>1. ASSUME NEW a \in answers', a.calm, a.inode = None, a.path \in DistinctPaths
        PROVE  NamedBy(a.path) = {}
    <3>1. a # b
      BY <2>1, <1>2
    <3>2. a \in answers
      BY <3>1, <1>1
    <3> QED
      BY <2>1, <3>2 DEF Calm, HistoryCalm
  <2> QED
    BY <2>1, <1>1 DEF Calm, HistoryCalm
<1>4. ASSUME NEW t, Set(w, t), t.pc \in {"load", "idle"} PROVE Calm'
  <2>1. TaskCalm(t) /\ t.pc # "fill" /\ task[w].pc # "fill"
    BY <1>1, <1>4 DEF TaskCalm
  <2> QED
    BY <1>1, <1>3, <1>4, <2>1, StillCalm
<1>5. CASE Set(w, [task[w] EXCEPT !.pc = "load", !.rest = <<>>])
  <2> DEFINE t == [task[w] EXCEPT !.pc = "load", !.rest = <<>>]
  <2>1. t.pc = "load"
    BY DEF TaskSet
  <2> HIDE DEF t
  <2> QED
    BY <2>1, <1>4, <1>5 DEF t
<1>6. CASE Set(w, Idle)
  <2>1. Idle.pc = "idle"
    BY DEF Idle
  <2> QED
    BY <2>1, <1>4, <1>6
<1> QED
  BY <1>5, <1>6 DEF Found

LEMMA PickCalm ==
  ASSUME Inv, Calm, ~SomeRace, NEW w \in Workers, Pick(w)
  PROVE  Calm'
<1> USE Known
<1> DEFINE at == task[w].at
           rest == task[w].rest
           children == nodes[at].children
           alike == {c \in DOMAIN children : Alike(NameOf(children[c]), Head(rest))}
<1>1. /\ task[w].pc = "pick" /\ at \in DOMAIN nodes /\ Walked(task[w])
      /\ rest # <<>> /\ task[w].path \in Paths
      /\ UNCHANGED <<nodes, answers, listings>>
  BY DEF Pick, tree, TaskSound
<1>2. HistoryCalm'
  BY <1>1 DEF Calm, HistoryCalm
<1>3. children \in Seq(Nat) /\ NodesSound
  <2>1. nodes[at] \in NodeSet
    BY <1>1
  <2> QED
    BY <2>1 DEF NodeSet, Inv
<1>4. CASE alike = {} /\ Goto(w, "lost")
  <2> DEFINE t == [task[w] EXCEPT !.pc = "lost"]
  <2>1. Set(w, t)
    BY <1>4 DEF Goto
  <2>2. t.pc = "lost" /\ t.path = task[w].path /\ t.calm = task[w].calm
    BY DEF TaskSet
  <2>3. ASSUME task[w].calm, task[w].path \in DistinctPaths PROVE NamedBy(task[w].path) = {}
    <3> DEFINE list == Entries[nodes[at].inode]
    <3>1. nodes[at].loaded
      BY <1>1, <2>3 DEF Calm, TaskCalm
    <3>2. ~Filled(at)
      <4> SUFFICES ASSUME NEW v \in Workers, task[v].pc = "fill", task[v].at = at
                   PROVE  FALSE
        BY DEF Filled
      <4> QED
        BY <1>1 DEF SomeRace, Racing
    <3>3. nodes[at].inode \in Dirs /\ Partial(at, <<>>)
      BY <1>1, <3>1, <3>2 DEF Calm, TreeCalm
    <3>4. list \in Seq(EntrySet) /\ Len(<<>>) = 0
      BY <3>3, VfsAssumption DEF EntrySet
    <3>5. Len(list) = Len(children)
          /\ \A i \in 1 .. Len(children) : NameOf(children[i]) = list[i].name
      <4>1. Len(children) \in Nat
        BY <1>3
      <4> QED
        BY <3>3, <3>4, <4>1 DEF Partial
    <3>6. rest[1] = Head(rest)
      BY <1>1
    <3>7. ASSUME NEW e \in Range(list) PROVE Fold[e.name] # Fold[rest[1]]
      <4>1. PICK i \in DOMAIN list : e = list[i]
        BY <3>7 DEF Range
      <4>2. i \in DOMAIN children /\ NameOf(children[i]) = e.name
        <5> HIDE DEF list
        <5> QED
          BY <4>1, <3>4, <3>5, <1>3
      <4>3. i \notin alike
        BY <1>4
      <4> QED
        BY <4>2, <4>3, <3>6 DEF Alike
    <3>8. task[w].path \in Seq(Names) /\ rest \in Seq(Names)
          /\ Walks(task[w].path, nodes[at].path, rest)
      BY <1>1 DEF Walked
    <3> HIDE DEF rest, at
    <3> QED
      BY <2>3, <3>7, <3>8, <1>1, <1>3, DeadEnd
  <2>4. TaskCalm(t)
    <3> HIDE DEF t
    <3> QED
      BY <2>2, <2>3 DEF TaskCalm
  <2> HIDE DEF t
  <2> QED
    BY <2>1, <2>2, <2>4, <1>1, <1>2, StillCalm DEF Inv
<1>5. CASE /\ alike # {}
           /\ Arrive(w, children[Min(alike)], nodes[children[Min(alike)]].inode, Tail(rest))
  <2> DEFINE k == Min(alike)
             n == children[k]
             pc == IF Tail(rest) = <<>> THEN "found"
                   ELSE IF nodes[n].inode \in Dirs THEN "load" ELSE "lost"
             t == [task[w] EXCEPT !.at = n, !.rest = Tail(rest), !.pc = pc]
  <2>1. k \in DOMAIN children /\ Alike(NameOf(children[k]), Head(rest))
    <3>1. alike \in SUBSET Nat
      BY <1>3
    <3>2. k \in alike
      <4> HIDE DEF alike
      <4> QED
        BY <3>1, <1>5, Least
    <3> QED
      BY <3>2
  <2> HIDE DEF k, alike
  <2>2. n \in DOMAIN nodes /\ n \in Nat /\ Tail(rest) \in Seq(Names)
        /\ Walks(task[w].path, nodes[n].path, Tail(rest))
    BY <2>1, <1>1, PickLeads
  <2>3. Set(w, t)
    BY <1>5 DEF Arrive, k, alike
  <2>4. t.pc = pc /\ t.path = task[w].path
    BY DEF TaskSet
  <2>5. ASSUME pc = "lost", task[w].path \in DistinctPaths PROVE NamedBy(task[w].path) = {}
    <3>1. Tail(rest) # <<>> /\ nodes[n].inode \notin Dirs
      BY <2>5
    <3>2. task[w].path \in Seq(Names)
      OBVIOUS
    <3> HIDE DEF n, rest
    <3> QED
      BY <2>2, <2>5, <3>1, <3>2, <1>3, DeadEnd
  <2> HIDE DEF t
  <2>6. TaskCalm(t) /\ t.pc # "fill"
    BY <2>4, <2>5 DEF TaskCalm
  <2> QED
    BY <2>3, <2>6, <1>1, <1>2, StillCalm DEF Inv
<1> QED
  BY <1>4, <1>5 DEF Pick

LEMMA GetRootCalm ==
  ASSUME Inv, Calm, NEW w \in Workers, GetRoot(w)
  PROVE  Calm'
<1> USE Known
<1>1. task[w].pc = "root" /\ UNCHANGED <<answers, listings>>
  BY DEF GetRoot
<1>2. HistoryCalm'
  BY <1>1 DEF Calm, HistoryCalm
<1>3. CASE Set(w, [task[w] EXCEPT !.pc = "lost", !.calm = FALSE]) /\ UNCHANGED tree
  <2> DEFINE t == [task[w] EXCEPT !.pc = "lost", !.calm = FALSE]
  <2>1. t.pc = "lost" /\ ~t.calm
    BY DEF TaskSet
  <2> HIDE DEF t
  <2>2. TaskCalm(t) /\ t.pc # "fill"
    BY <2>1 DEF TaskCalm
  <2> QED
    BY <2>2, <1>1, <1>2, <1>3, StillCalm DEF tree, t
<1>4. CASE /\ IF nodes = <<>>
              THEN nodes' = <<Node(<<>>, Root)>> /\ node_cache_' = [path \in {<<>>} |-> 1]
              ELSE UNCHANGED tree
           /\ Arrive(w, 1, Root, task[w].path)
  <2> DEFINE pc == IF task[w].path = <<>> THEN "found"
                   ELSE IF Root \in Dirs THEN "load" ELSE "lost"
             t == [task[w] EXCEPT !.at = 1, !.rest = task[w].path, !.pc = pc]
  <2>1. Set(w, t)
    BY <1>4 DEF Arrive
  <2>2. t.pc \in {"found", "load"}
    BY VfsAssumption DEF TaskSet
  <2> HIDE DEF t
  <2>3. TaskCalm(t) /\ t.pc # "fill"
    BY <2>2 DEF TaskCalm
  <2>4. CASE nodes # <<>>
    BY <2>1, <2>3, <2>4, <1>1, <1>2, <1>4, StillCalm DEF tree
  <2>5. CASE nodes = <<>>
    <3>1. nodes' = <<Node(<<>>, Root)>>
      BY <1>4, <2>5
    <3>2. DOMAIN nodes = {}
      BY <2>5
    <3>3. ASSUME NEW v \in Workers
          PROVE  task[v].pc \notin {"pick", "found", "load", "list", "fill", "copy"}
      BY <3>2 DEF Inv, TaskSound
    <3>4. \A v \in Workers : task'[v] = t \/ task'[v] = task[v]
      BY <2>1 DEF Set
    <3>5. \A n \in DOMAIN nodes' : ~nodes'[n].loaded
      <4> DEFINE r == Node(<<>>, Root)
      <4>1. ~r.loaded
        BY DEF Node
      <4> HIDE DEF r
      <4> QED
        BY <3>1, <4>1 DEF r
    <3>6. TreeCalm'
      BY <3>3, <3>4, <3>5, <2>2 DEF TreeCalm
    <3>7. ASSUME NEW v \in Workers PROVE TaskCalm(task[v])'
      <4>1. CASE task'[v] = t
        BY <4>1, <2>2 DEF TaskCalm
      <4>2. CASE task'[v] = task[v]
        BY <4>2, <3>3 DEF TaskCalm, Calm
      <4> QED
        BY <4>1, <4>2, <3>4
    <3> QED
      BY <3>6, <3>7, <1>2 DEF Calm
  <2> QED
    BY <2>4, <2>5
<1> QED
  BY <1>3, <1>4 DEF GetRoot

\* Nothing races with a worker that fills a directory: no other one does.
LEMMA OneFills ==
  ASSUME NEW w \in Workers, task[w].pc = "fill", ~SomeRace
  PROVE  /\ \A v \in Workers \ {w} : task[v].pc # "fill"
         /\ \A v \in Workers : task[v].pc \in {"load", "pick", "copy"} => task[v].at # task[w].at
  BY DEF SomeRace, Racing

\* The nodes the workers are at are there.
LEMMA Placed ==
  ASSUME Inv
  PROVE  /\ NodesSound /\ task \in [Workers -> TaskSet]
         /\ \A v \in Workers : task[v].pc \in {"pick", "copy"} => task[v].at \in DOMAIN nodes
  BY DEF Inv, TaskSound

\* What a node's children are called does not change while it keeps its children.
LEMMA PartialStays ==
  ASSUME Grows, NodesSound, NEW n \in DOMAIN nodes, NEW todo, Partial(n, todo),
         nodes'[n].inode = nodes[n].inode, nodes'[n].children = nodes[n].children
  PROVE  Partial(n, todo)'
<1>1. \A c \in Range(nodes[n].children) : c \in DOMAIN nodes
  <2>1. \A c \in Range(nodes[n].children) : c \in n + 1 .. Len(nodes)
    BY DEF NodesSound
  <2>2. n \in Nat /\ DOMAIN nodes = 1 .. Len(nodes)
    BY DEF NodesSound
  <2> QED
    BY <2>1, <2>2
<1>2. nodes[n].children \in Seq(Nat)
  <2>1. nodes[n] \in NodeSet
    BY DEF NodesSound
  <2> QED
    BY <2>1 DEF NodeSet
<1>3. \A i \in 1 .. Len(nodes[n].children) :
        NameOf(nodes[n].children[i])' = NameOf(nodes[n].children[i])
  <2> SUFFICES ASSUME NEW i \in 1 .. Len(nodes[n].children)
               PROVE  NameOf(nodes[n].children[i])' = NameOf(nodes[n].children[i])
    OBVIOUS
  <2>1. nodes[n].children[i] \in Range(nodes[n].children)
    BY <1>2 DEF Range
  <2>2. nodes'[nodes[n].children[i]].path = nodes[nodes[n].children[i]].path
    BY <2>1, <1>1 DEF Grows
  <2> QED
    BY <2>2 DEF NameOf
<1> QED
  BY <1>3 DEF Partial

\* A step on the nodes at which one worker stays or is the only one that fills.
LEMMA FillsCalm ==
  ASSUME Calm, Grows, NodesSound, NodesSound', NEW w \in Workers, NEW t, NEW at \in DOMAIN nodes,
         task \in [Workers -> TaskSet], Set(w, t), t.at = at, t.pc = "fill",
         task[w].pc \in {"list", "fill"}, task[w].at = at,
         \A v \in Workers \ {w} : task[v].pc # "fill",
         \A n \in DOMAIN nodes' : n = at \/ ~nodes'[n].loaded \/
           (n \in DOMAIN nodes /\ nodes'[n] = nodes[n]),
         nodes[at].loaded => nodes'[at].loaded,
         \A n \in DOMAIN nodes \ {at} : nodes'[n] = nodes[n],
         \A v \in Workers : task[v].pc \in {"pick", "copy"} => task[v].at \in DOMAIN nodes,
         Partial(at, t.todo)', UNCHANGED <<answers, listings>>
  PROVE  Calm'
<1>1. task'[w] = t /\ \A v \in Workers \ {w} : task'[v] = task[v]
  BY DEF Set
<1>2. Filled(at)'
  BY <1>1 DEF Filled
<1>3. ASSUME NEW n \in DOMAIN nodes', nodes'[n].loaded, ~Filled(n)'
      PROVE  nodes'[n].inode \in Dirs /\ Partial(n, <<>>)'
  <2>1. n \in DOMAIN nodes /\ nodes'[n] = nodes[n] /\ n # at
    BY <1>2, <1>3
  <2>2. ~Filled(n)
    BY <2>1 DEF Filled
  <2>3. nodes[n].inode \in Dirs /\ Partial(n, <<>>)
    BY <1>3, <2>1, <2>2 DEF Calm, TreeCalm
  <2>4. Partial(n, <<>>)'
    BY <2>1, <2>3, PartialStays
  <2> QED
    BY <2>1, <2>3, <2>4
<1>4. ASSUME NEW v \in Workers, task'[v].pc = "fill" PROVE Partial(task[v].at, task[v].todo)'
  <2>1. v = w
    BY <1>1, <1>4
  <2>2. task'[v].at = at /\ task'[v].todo = t.todo
    BY <2>1, <1>1
  <2> QED
    BY <2>2, Zenon DEF Partial, NameOf
<1>5. ASSUME NEW v \in Workers PROVE TaskCalm(task[v])'
  <2>1. CASE v = w
    BY <2>1, <1>1 DEF TaskCalm
  <2>2. CASE v # w
    <3>1. task'[v] = task[v] /\ TaskCalm(task[v])
      BY <2>2, <1>1 DEF Calm
    <3> DEFINE u == task[v]
    <3>2. ASSUME u.calm, u.pc \in {"pick", "copy"} PROVE nodes'[u.at].loaded
      <4>1. u.at \in DOMAIN nodes /\ nodes[u.at].loaded
        BY <3>1, <3>2, Zenon DEF TaskCalm
      <4>2. CASE u.at = at
        BY <4>1, <4>2, Zenon
      <4>3. CASE u.at # at
        <5>1. nodes'[u.at] = nodes[u.at]
          BY <4>1, <4>3, Zenon
        <5> QED
          BY <4>1, <5>1, Zenon
      <4> QED
        BY <4>2, <4>3
    <3>3. u.calm /\ u.pc = "lost" /\ u.path \in DistinctPaths => NamedBy(u.path) = {}
      BY <3>1, Zenon DEF TaskCalm
    <3>4. task'[v] = u
      BY <3>1
    <3> HIDE DEF u
    <3> QED
      BY <3>2, <3>3, <3>4, Zenon DEF TaskCalm
  <2> QED
    BY <2>1, <2>2
<1> QED
  BY <1>3, <1>4, <1>5 DEF Calm, TreeCalm, HistoryCalm

LEMMA ListDirectoryCalm ==
  ASSUME Inv, Inv', Calm, ~SomeRace', ~LeftOut, NEW w \in Workers, ListDirectory(w)
  PROVE  Calm'
<1> USE Known, Placed
<1>1. task[w].pc = "list" /\ UNCHANGED <<answers, listings>>
  BY DEF ListDirectory
<1>2. HistoryCalm'
  BY <1>1 DEF Calm, HistoryCalm
<1>3. CASE Set(w, [task[w] EXCEPT !.pc = Loaded(w), !.calm = FALSE]) /\ UNCHANGED nodes
  <2> DEFINE t == [task[w] EXCEPT !.pc = Loaded(w), !.calm = FALSE]
  <2>1. t.pc = Loaded(w) /\ t.pc # "fill" /\ ~t.calm
    BY DEF TaskSet, Loaded
  <2> HIDE DEF t
  <2>2. TaskCalm(t)
    BY <2>1 DEF TaskCalm
  <2> QED
    BY <2>1, <2>2, <1>1, <1>2, <1>3, StillCalm DEF t
<1>4. ASSUME NEW list \in Lists(nodes[task[w].at].inode),
             Set(w, [task[w] EXCEPT !.pc = "fill", !.todo = list]),
             nodes' = [nodes EXCEPT ![task[w].at].children = <<>>]
      PROVE  Calm'
  <2>1. PICK at : at = task[w].at
    OBVIOUS
  <2>2. at \in DOMAIN nodes /\ nodes \in Seq(NodeSet) /\ nodes[at] \in NodeSet
        /\ nodes[at].inode \in Dirs
    BY <1>1, <2>1, Filling
  <2>3. list = Entries[nodes[at].inode]
    <3>1. task'[w].pc = "fill" /\ task'[w].todo = list
      BY <1>4 DEF Set, TaskSet
    <3> QED
      BY <3>1, <1>1, <2>1 DEF LeftOut
  <2>4. PICK t : t = [task[w] EXCEPT !.pc = "fill", !.todo = list]
    OBVIOUS
  <2>5. Set(w, t) /\ t.at = at /\ t.pc = "fill" /\ t.todo = list
    BY <1>4, <2>1, <2>3, <2>4 DEF TaskSet
  <2>6. list \in Seq(EntrySet) /\ Len(<<>>) = 0
    BY <2>2, <2>3, VfsAssumption DEF EntrySet
  <2>7. PICK r : r = [nodes[at] EXCEPT !.children = <<>>]
    OBVIOUS
  <2>8. /\ r.path = nodes[at].path /\ r.inode = nodes[at].inode
        /\ r.loaded = nodes[at].loaded /\ r.children = <<>>
    BY <2>2, <2>7 DEF NodeSet
  <2>9. nodes' = [nodes EXCEPT ![at] = r]
    BY <1>4, <2>1, <2>7
  <2>10. DOMAIN nodes' = DOMAIN nodes /\ nodes'[at] = r
         /\ \A n \in DOMAIN nodes \ {at} : nodes'[n] = nodes[n]
    BY <2>2, <2>9
  <2>11. Grows
    BY <2>8, <2>10 DEF Grows
  <2>12. \A v \in Workers \ {w} : task[v].pc # "fill"
    <3> SUFFICES ASSUME NEW v \in Workers \ {w}, task[v].pc = "fill" PROVE FALSE
      OBVIOUS
    <3>1. task'[v].pc = "fill" /\ task'[w].pc = "fill"
      BY <2>5 DEF Set
    <3> QED
      BY <3>1 DEF SomeRace, Racing
  <2>13. Partial(at, t.todo)'
    <3>1. nodes'[at].inode = nodes[at].inode /\ nodes'[at].children = <<>>
      BY <2>8, <2>10
    <3>2. Len(list) \in Nat /\ 1 .. Len(<<>>) = {}
          /\ \A i \in 1 .. Len(list) : list[i] = list[Len(<<>>) + i]
      BY <2>6
    <3>3. Len(list) = Len(<<>>) + Len(list)
      BY <2>6
    <3> QED
      BY <2>3, <2>5, <3>1, <3>2, <3>3, Zenon DEF Partial
  <2>14. \A n \in DOMAIN nodes' : n = at \/ ~nodes'[n].loaded
           \/ (n \in DOMAIN nodes /\ nodes'[n] = nodes[n])
    BY <2>10
  <2>15. nodes[at].loaded => nodes'[at].loaded
    BY <2>8, <2>10
  <2> QED
    BY <1>1, <2>1, <2>2, <2>5, <2>10, <2>11, <2>12, <2>13, <2>14, <2>15, FillsCalm DEF Inv
<1> QED
  BY <1>3, <1>4 DEF ListDirectory

LEMMA SetLoadedCalm ==
  ASSUME Inv, Inv', Calm, ~SomeRace, NEW w \in Workers, SetLoaded(w)
  PROVE  Calm'
<1> USE Known, Placed
<1>1. task[w].pc = "fill" /\ task[w].todo = <<>> /\ UNCHANGED <<answers, listings>>
  BY DEF SetLoaded, AllAdded
<1>2. HistoryCalm'
  BY <1>1 DEF Calm, HistoryCalm
<1>3. PICK at : at = task[w].at
  OBVIOUS
<1>4. at \in DOMAIN nodes /\ nodes \in Seq(NodeSet) /\ nodes[at] \in NodeSet
      /\ nodes[at].inode \in Dirs
  BY <1>1, <1>3, Filling
<1>5. PICK t : t = [task[w] EXCEPT !.pc = Loaded(w), !.todo = <<>>]
  OBVIOUS
<1>6. task'[w] = t /\ t.at = at /\ t.pc \in {"pick", "copy"}
      /\ \A v \in Workers \ {w} : task'[v] = task[v]
  BY <1>3, <1>5 DEF SetLoaded, Set, TaskSet, Loaded
<1>7. PICK r : r = [nodes[at] EXCEPT !.loaded = TRUE]
  OBVIOUS
<1>8. /\ r.path = nodes[at].path /\ r.inode = nodes[at].inode /\ r.loaded = TRUE
      /\ r.children = nodes[at].children
  BY <1>4, <1>7 DEF NodeSet
<1>9. nodes' = [nodes EXCEPT ![at] = r]
  BY <1>3, <1>7 DEF SetLoaded
<1>10. DOMAIN nodes' = DOMAIN nodes /\ nodes'[at] = r
       /\ \A n \in DOMAIN nodes \ {at} : nodes'[n] = nodes[n]
  BY <1>4, <1>9
<1>11. Grows
  BY <1>8, <1>10 DEF Grows
<1>12. \A v \in Workers \ {w} : task[v].pc # "fill"
  BY <1>1, OneFills
<1>13. Partial(at, <<>>)'
  <2>1. Partial(at, <<>>)
    BY <1>1, <1>3, Zenon DEF Calm, TreeCalm
  <2> QED
    BY <2>1, <1>4, <1>8, <1>10, <1>11, PartialStays
<1>14. ASSUME NEW n \in DOMAIN nodes', nodes'[n].loaded, ~Filled(n)'
       PROVE  nodes'[n].inode \in Dirs /\ Partial(n, <<>>)'
  <2>1. CASE n = at
    <3>1. nodes'[n].inode \in Dirs
      BY <2>1, <1>4, <1>8, <1>10
    <3> QED
      BY <2>1, <3>1, <1>13
  <2>2. CASE n # at
    <3>1. n \in DOMAIN nodes /\ nodes'[n] = nodes[n]
      BY <2>2, <1>10
    <3>2. ~Filled(n)
      BY <2>2, <1>3, <1>6, <1>14 DEF Filled
    <3>3. nodes[n].inode \in Dirs /\ Partial(n, <<>>)
      BY <1>14, <3>1, <3>2 DEF Calm, TreeCalm
    <3> QED
      BY <3>1, <3>3, <1>11, PartialStays
  <2> QED
    BY <2>1, <2>2
<1>15. \A v \in Workers : task'[v].pc # "fill"
  BY <1>6, <1>12
<1>16. ASSUME NEW v \in Workers PROVE TaskCalm(task[v])'
  <2>1. CASE v = w
    <3>1. nodes'[t.at].loaded
      BY <1>6, <1>8, <1>10
    <3> QED
      BY <2>1, <3>1, <1>6 DEF TaskCalm
  <2>2. CASE v # w
    <3>1. task'[v] = task[v] /\ TaskCalm(task[v])
      BY <2>2, <1>6 DEF Calm
    <3> DEFINE u == task[v]
    <3>2. ASSUME u.calm, u.pc \in {"pick", "copy"} PROVE nodes'[u.at].loaded
      <4>1. u.at \in DOMAIN nodes /\ nodes[u.at].loaded
        BY <3>1, <3>2, Zenon DEF TaskCalm
      <4>2. CASE u.at = at
        BY <4>2, <1>8, <1>10
      <4>3. CASE u.at # at
        <5>1. nodes'[u.at] = nodes[u.at]
          BY <4>1, <4>3, <1>10, Zenon
        <5> QED
          BY <4>1, <5>1, Zenon
      <4> QED
        BY <4>2, <4>3
    <3>3. u.calm /\ u.pc = "lost" /\ u.path \in DistinctPaths => NamedBy(u.path) = {}
      BY <3>1, Zenon DEF TaskCalm
    <3>4. task'[v] = u
      BY <3>1
    <3> HIDE DEF u
    <3> QED
      BY <3>2, <3>3, <3>4, Zenon DEF TaskCalm
  <2> QED
    BY <2>1, <2>2
<1> QED
  BY <1>2, <1>14, <1>15, <1>16 DEF Calm, TreeCalm

LEMMA AddChildCalm ==
  ASSUME Inv, Inv', Calm, ~SomeRace, ~LeftOut, NEW w \in Workers, AddChild(w)
  PROVE  Calm'
<1> USE Known, Placed
<1>1. task[w].pc = "fill" /\ task[w].todo # <<>> /\ UNCHANGED <<answers, listings>>
  BY DEF AddChild
<1>2. PICK at : at = task[w].at
  OBVIOUS
<1>3. PICK todo : todo = task[w].todo
  OBVIOUS
<1>4. at \in DOMAIN nodes /\ nodes \in Seq(NodeSet) /\ nodes[at] \in NodeSet
  BY <1>1, <1>2, Filling
<1>5. /\ todo \in Seq(EntrySet) /\ todo # <<>> /\ Len(todo) \in Nat /\ Len(todo) >= 1
      /\ todo[1] \in EntrySet
  <2>1. todo \in Seq(EntrySet) /\ todo # <<>>
    BY <1>1, <1>3
  <2>2. Len(todo) \in Nat /\ Len(todo) >= 1
    BY <2>1
  <2>3. todo[1] \in EntrySet
    BY <2>1, <2>2
  <2> QED
    BY <2>1, <2>2, <2>3
<1>6. CASE Set(w, [task[w] EXCEPT !.todo = Tail(@), !.calm = FALSE]) /\ UNCHANGED tree
  <2>1. task'[w].pc = "fill" /\ task'[w].todo = Tail(todo)
    BY <1>1, <1>3, <1>6 DEF Set, TaskSet
  <2>2. Len(Tail(todo)) < Len(todo)
    BY <1>5
  <2> QED
    BY <1>3, <1>6, <2>1, <2>2 DEF LeftOut, tree
<1>7. CASE /\ Set(w, [task[w] EXCEPT !.todo = Tail(@)])
           /\ nodes' = Append([nodes EXCEPT ![task[w].at].children = Append(@, Len(nodes) + 1)],
                              Node(ChildPath(task[w].at, Head(task[w].todo).name),
                                   Head(task[w].todo).inode))
  <2>1. PICK t : t = [task[w] EXCEPT !.todo = Tail(@)]
    OBVIOUS
  <2>2. Set(w, t) /\ t.at = at /\ t.pc = "fill" /\ t.todo = Tail(todo)
    BY <1>1, <1>2, <1>3, <1>7, <2>1 DEF TaskSet
  <2>3. PICK child : child = Len(nodes) + 1
    OBVIOUS
  <2>4. PICK old : old = nodes[at].children
    OBVIOUS
  <2>5. old \in Seq(Nat) /\ child \in Nat /\ nodes[at].path \in Seq(Names)
    BY <1>4, <2>3, <2>4 DEF NodeSet
  <2>6. PICK r : r = [nodes[at] EXCEPT !.children = Append(old, child)]
    OBVIOUS
  <2>7. /\ r.path = nodes[at].path /\ r.inode = nodes[at].inode
        /\ r.loaded = nodes[at].loaded /\ r.children = Append(old, child)
    BY <1>4, <2>6 DEF NodeSet
  <2>8. PICK name : name = todo[1].name
    OBVIOUS
  <2>9. PICK new : new = Node(Append(nodes[at].path, name), todo[1].inode)
    OBVIOUS
  <2>10. new.path = Append(nodes[at].path, name) /\ new.loaded = FALSE
    BY <2>9 DEF Node
  <2>11. nodes' = Append([nodes EXCEPT ![at] = r], new)
    <3>1. Head(todo) = todo[1]
      BY <1>5
    <3> QED
      BY <1>2, <1>3, <1>7, <2>3, <2>4, <2>6, <2>8, <2>9, <3>1 DEF ChildPath
  <2>12. /\ DOMAIN nodes = 1 .. Len(nodes) /\ Len(nodes) \in Nat /\ child \notin DOMAIN nodes
         /\ DOMAIN nodes' = DOMAIN nodes \cup {child}
         /\ nodes'[at] = r /\ nodes'[child] = new
         /\ \A n \in DOMAIN nodes \ {at} : nodes'[n] = nodes[n]
    <3>1. PICK z : z = [nodes EXCEPT ![at] = r]
      OBVIOUS
    <3>2. DOMAIN z = 1 .. Len(nodes) /\ Len(z) = Len(nodes) /\ z[at] = r
          /\ \A n \in DOMAIN nodes \ {at} : z[n] = nodes[n]
      BY <1>4, <3>1
    <3>3. DOMAIN nodes = 1 .. Len(nodes) /\ Len(nodes) \in Nat
      BY <1>4
    <3>4. nodes' = Append(z, new)
      BY <2>11, <3>1
    <3> QED
      BY <2>3, <3>2, <3>3, <3>4, <1>4
  <2>13. Grows
    BY <2>7, <2>12 DEF Grows
  <2>14. \A v \in Workers \ {w} : task[v].pc # "fill"
    BY <1>1, OneFills
  <2>15. Partial(at, t.todo)'
    <3>1. PICK list : list = Entries[nodes[at].inode]
      OBVIOUS
    <3>2. /\ Len(list) = Len(old) + Len(todo)
          /\ \A i \in 1 .. Len(old) : NameOf(old[i]) = list[i].name
          /\ \A i \in 1 .. Len(todo) : todo[i] = list[Len(old) + i]
      BY <1>1, <1>2, <1>3, <2>4, <3>1 DEF Calm, TreeCalm, Partial
    <3>3. PICK all : all = Append(old, child)
      OBVIOUS
    <3>4. /\ Len(all) = Len(old) + 1 /\ all[Len(old) + 1] = child /\ Len(old) \in Nat
          /\ \A i \in 1 .. Len(old) : all[i] = old[i]
      BY <2>5, <3>3
    <3>5. /\ Len(todo) = Len(Tail(todo)) + 1 /\ Len(Tail(todo)) \in Nat
          /\ \A i \in 1 .. Len(Tail(todo)) : Tail(todo)[i] = todo[i + 1]
          /\ 1 \in 1 .. Len(todo)
      <4>1. Len(Tail(todo)) = Len(todo) - 1
        BY <1>5
      <4>2. \A i \in 1 .. Len(Tail(todo)) : Tail(todo)[i] = todo[i + 1]
        BY <1>5, <4>1
      <4> QED
        BY <1>5, <4>1, <4>2
    <3>6. PICK left : left = Tail(todo)
      OBVIOUS
    <3>7. /\ Len(list) = Len(all) + Len(left)
          /\ \A i \in 1 .. Len(left) : left[i] = list[Len(all) + i]
      <4>1. /\ Len(todo) = Len(left) + 1 /\ Len(left) \in Nat
            /\ \A i \in 1 .. Len(left) : left[i] = todo[i + 1]
        BY <3>5, <3>6, Zenon
      <4>2. Len(list) = Len(all) + Len(left)
        BY <3>2, <3>4, <4>1
      <4>3. ASSUME NEW i \in 1 .. Len(left) PROVE left[i] = list[Len(all) + i]
        <5>1. i + 1 \in 1 .. Len(todo) /\ Len(old) + (i + 1) = Len(all) + i
          BY <3>4, <4>1
        <5>2. todo[i + 1] = list[Len(old) + (i + 1)]
          BY <3>2, <5>1
        <5> QED
          BY <4>1, <5>1, <5>2
      <4> QED
        BY <4>2, <4>3
    <3>8. ASSUME NEW i \in 1 .. Len(all) PROVE Last(nodes'[all[i]].path) = list[i].name
      <4>1. CASE i \in 1 .. Len(old)
        <5>1. all[i] = old[i] /\ NameOf(old[i]) = list[i].name
          BY <3>2, <3>4, <4>1
        <5>2. old[i] \in Range(nodes[at].children)
          BY <2>4, <2>5, <4>1 DEF Range
        <5>3. old[i] \in at + 1 .. Len(nodes) /\ at \in Nat
          BY <5>2, <1>4 DEF NodesSound
        <5>4. nodes'[old[i]].path = nodes[old[i]].path
          BY <5>3, <2>12, <2>13 DEF Grows
        <5> QED
          BY <5>1, <5>4 DEF NameOf
      <4>2. CASE i = Len(old) + 1
        <5>1. all[i] = child /\ todo[1] = list[Len(old) + 1]
          BY <3>2, <3>4, <3>5, <4>2
        <5>2. Last(Append(nodes[at].path, name)) = name
          <6>1. name \in Names
            BY <1>5, <2>8, Zenon DEF EntrySet
          <6> QED
            BY <2>5, <6>1 DEF Last
        <5> QED
          BY <2>8, <2>10, <2>12, <4>2, <5>1, <5>2
      <4> QED
        BY <3>4, <4>1, <4>2
    <3>9. nodes'[at].inode = nodes[at].inode /\ nodes'[at].children = all
      BY <2>7, <2>12, <3>3
    <3> QED
      BY <2>2, <3>1, <3>6, <3>7, <3>8, <3>9, Zenon DEF Partial, NameOf
  <2>16. \A n \in DOMAIN nodes' : n = at \/ ~nodes'[n].loaded
           \/ (n \in DOMAIN nodes /\ nodes'[n] = nodes[n])
    BY <2>10, <2>12
  <2>17. nodes[at].loaded => nodes'[at].loaded
    BY <2>7, <2>12
  <2> QED
    BY <1>1, <1>2, <1>4, <2>2, <2>12, <2>13, <2>14, <2>15, <2>16, <2>17, FillsCalm DEF Inv
<1> QED
  BY <1>6, <1>7 DEF AddChild

\* Every step keeps the calm as long as nothing disturbs it.
LEMMA CalmStep ==
  ASSUME Inv, Inv', CalmInv, [Next]_vars
  PROVE  CalmInv'
<1> SUFFICES ASSUME ~marred', ~SomeRace' PROVE Calm'
  BY DEF CalmInv
<1>1. CASE UNCHANGED vars
  <2>1. UNCHANGED <<nodes, task, answers, listings, marred, tree_mutex_>>
    BY <1>1 DEF vars, tree
  <2>2. ~marred /\ ~SomeRace
    BY <2>1 DEF SomeRace, Racing
  <2>3. Calm
    BY <2>2 DEF CalmInv
  <2> QED
    BY <2>1, <2>3, ZenonT(40) DEF Calm, TreeCalm, TaskCalm,
      HistoryCalm, Filled, Partial, NameOf
<1>2. ASSUME NEW w \in Workers, Step(w) \/ (~crashed /\ (Ask(w) \/ Race(w))), Watch
      PROVE  Calm'
  <2>1. ~marred /\ ~SomeRace /\ ~LeftOut
    BY <1>2 DEF Watch
  <2>2. Calm
    BY <2>1 DEF CalmInv
  <2>3. CASE Step(w)
    BY <2>1, <2>2, <2>3, LockCalm, GetRootCalm, PickCalm, FoundCalm, LostCalm, CheckLoadedCalm,
       ListDirectoryCalm, AddChildCalm, SetLoadedCalm, CopyCalm DEF Step
  <2>4. CASE Ask(w)
    BY <2>2, <2>4, AskCalm
  <2>5. ~Race(w)
    BY <2>1 DEF Race, SomeRace
  <2> QED
    BY <1>2, <2>3, <2>4, <2>5
<1> QED
  BY <1>1, <1>2 DEF Next

THEOREM CalmInvariance == Spec => [](Inv /\ CalmInv)
<1>1. Init => CalmInv
  <2> SUFFICES ASSUME Init PROVE Calm
    BY DEF CalmInv
  <2>1. \A w \in Workers : task[w].pc = "idle"
    BY DEF Init, Idle
  <2>2. nodes = <<>> /\ answers = {} /\ listings = {}
    BY DEF Init
  <2> QED
    BY <2>1, <2>2 DEF Calm, TreeCalm, TaskCalm, HistoryCalm
<1> QED
  BY <1>1, Invariance, CalmStep, PTL DEF Spec

\* A directory is listed as it is, unless two workers raced or some directory was loaded
\* without an entry: left out, or cut off (vfs_tree.cpp:66-99, projfs_mount.cpp:226-236).
THEOREM ListedAsItIs == Spec => []ListingExact
<1>1. CalmInv => ListingExact
  BY DEF CalmInv, Calm, HistoryCalm, ListingExact
<1> QED
  BY <1>1, CalmInvariance, PTL

\* A file that is there is found, with the same exceptions, on every path that leads past
\* no two names equal but for case (vfs_tree.cpp:66-150).
THEOREM WhatExistsIsFound == Spec => []ExistingIsFound
<1>1. Inv /\ CalmInv => ExistingIsFound
  <2> SUFFICES ASSUME Inv, Calm, NEW a \in answers, a.calm, a.inode = None,
                      a.path \in DistinctPaths
               PROVE  InodesAt[a.path] = {}
    BY DEF CalmInv, ExistingIsFound
  <2>1. a.path \in Paths
    BY DEF Inv, AnswersSound
  <2>2. NamedBy(a.path) = {}
    BY DEF Calm, HistoryCalm
  <2> QED
    BY <2>1, <2>2 DEF InodesAt
<1> QED
  BY <1>1, CalmInvariance, PTL
=============================================================================
