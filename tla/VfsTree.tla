------------------------------- MODULE VfsTree -------------------------------
(***************************************************************************)
(* The tree of VfsNodes that ProjFS worker threads look paths up in and     *)
(* list directories from. Directories are read on demand. find_node works   *)
(* under tree_mutex_; StartDirEnumCallback also loads a directory, and      *)
(* copies its children, without it.                                        *)
(***************************************************************************)
EXTENDS Integers, Sequences, SequencesExt

CONSTANTS
  Workers,     \* threads ProjFS makes callbacks on
  None,        \* no thread, no inode
  Inodes,      \* the inodes that can be read
  Root,        \* inode 2
  Dirs,        \* the inodes of directories
  Entries,     \* Entries[d]: list_directory of d, a sequence of [name, inode]
  Names,       \* names, of entries and in requests
  Fold,        \* Fold[n]: the lower-case form of n
  Paths,       \* the paths asked for: sequences of names
  Faults,      \* the reads that may go wrong: "list" and "stat" fail, "cut" is a
               \* list_directory that succeeds with some entries missing at the end
  Relock,      \* what re-locking tree_mutex_ may do: "return", "hang", "throw"
  MaxRequests  \* bound: requests in all

ASSUME VfsAssumption ==
  /\ Root \in Dirs /\ Dirs \subseteq Inodes /\ None \notin Workers \cup Inodes
  /\ Entries \in [Dirs -> Seq([name : Names, inode : Inodes])]
  /\ Paths \subseteq Seq(Names)
  /\ MaxRequests \in Nat

VARIABLES
  nodes,       \* the VfsNodes made so far; a node is known by its place here
  node_cache_, \* the node of some paths
  tree_mutex_, \* the thread that holds it
  task,        \* what each worker is doing
  requests,    \* what is left of MaxRequests
  answers,     \* history: the look-ups answered
  listings,    \* history: the enumerations started
  crashed,     \* the process has gone down
  marred       \* history: two threads were in one vector or in the cache, see
               \* Racing, or a directory was loaded without some entry, see LeftOut

tree == <<nodes, node_cache_>>
vars == <<tree, tree_mutex_, task, requests, answers, listings, crashed, marred>>

\* root_ is the first node.
Node(path, inode) == [path |-> path, inode |-> inode, loaded |-> FALSE, children |-> <<>>]
IsDirectory(n) == nodes[n].inode \in Dirs

\* pc is where the worker is; then the path asked for, the node it is at, the rest
\* of the path, the entries still to be added, and whether every read has worked.
Idle == [pc |-> "idle", path |-> <<>>, at |-> 0, rest |-> <<>>, todo |-> <<>>,
         calm |-> TRUE]

Locked(w)   == tree_mutex_ = w
Set(w, t)   == task' = [task EXCEPT ![w] = t]
Goto(w, pc) == Set(w, [task[w] EXCEPT !.pc = pc])
-----------------------------------------------------------------------------
\* find_node.

\* A callback begins. All of them call find_node first; which one it is shows in
\* what follows.
Ask(w) ==
  /\ task[w].pc = "idle" /\ requests > 0
  /\ requests' = requests - 1
  /\ \E path \in Paths : Set(w, [Idle EXCEPT !.pc = "lock", !.path = path])
  /\ UNCHANGED <<tree, tree_mutex_, answers, listings, crashed>>

\* Variant: the mutex is looked at but not taken.
Acquire_notTaken(w) == tree_mutex_ = None /\ UNCHANGED tree_mutex_

Acquire(w) == tree_mutex_ = None /\ tree_mutex_' = w

\* Variant: the cache is filled but never used.
Cached_never(path) == FALSE

Cached(path) == path # <<>> /\ path \in DOMAIN node_cache_

\* A path in the cache is answered from it. Otherwise, and for the root, get_root
\* locks the mutex again; "root" is where that returns.
Lock(w) ==
  /\ task[w].pc = "lock" /\ Acquire(w)
  /\ LET path == task[w].path
     IN  IF Cached(path)
         THEN Set(w, [task[w] EXCEPT !.pc = "found", !.at = node_cache_[path]])
              /\ UNCHANGED crashed
         ELSE \/ "return" \in Relock /\ Goto(w, "root") /\ UNCHANGED crashed
              \/ "hang" \in Relock /\ Goto(w, "hung") /\ UNCHANGED crashed
              \/ "throw" \in Relock /\ crashed' = TRUE /\ UNCHANGED task
  /\ UNCHANGED <<tree, requests, answers, listings>>

\* The loop over the parts of the path has come to a node with that inode.
Arrive(w, n, inode, rest) ==
  Set(w, [task[w] EXCEPT !.at = n, !.rest = rest,
            !.pc = IF rest = <<>> THEN "found" ELSE IF inode \in Dirs THEN "load" ELSE "lost"])

\* get_root: the root is made by the first call that can read it.
GetRoot(w) ==
  /\ task[w].pc = "root"
  /\ \/ /\ nodes = <<>> /\ "stat" \in Faults
        /\ Set(w, [task[w] EXCEPT !.pc = "lost", !.calm = FALSE])
        /\ UNCHANGED tree
     \/ /\ IF nodes = <<>>
           THEN nodes' = <<Node(<<>>, Root)>> /\ node_cache_' = [path \in {<<>>} |-> 1]
           ELSE UNCHANGED tree
        /\ Arrive(w, 1, Root, task[w].path)
  /\ UNCHANGED <<tree_mutex_, requests, answers, listings, crashed>>

NameOf(n) == Last(nodes[n].path)

\* Variant: names are compared as they are.
Alike_exactly(a, b) == a = b

Alike(a, b) == Fold[a] = Fold[b]

\* The first child whose name is that part, whatever the case of its letters.
Pick(w) ==
  /\ task[w].pc = "pick"
  /\ LET children == nodes[task[w].at].children
         alike    == {c \in DOMAIN children :
                        Alike(NameOf(children[c]), Head(task[w].rest))}
     IN  IF alike = {} THEN Goto(w, "lost")
         ELSE LET child == children[Min(alike)]
              IN  Arrive(w, child, nodes[child].inode, Tail(task[w].rest))
  /\ UNCHANGED <<tree, tree_mutex_, requests, answers, listings, crashed>>

\* What find_node returned; it has released the mutex. StartDirEnumCallback goes on
\* with ensure_children_loaded, the others answer.
Answer(w, inode) ==
  answers' = answers \cup {[path |-> task[w].path, inode |-> inode, calm |-> task[w].calm]}

Found(w) ==
  /\ task[w].pc = "found"
  /\ tree_mutex_' = None
  /\ Answer(w, nodes[task[w].at].inode)
  /\ \/ IsDirectory(task[w].at) /\ Set(w, [task[w] EXCEPT !.pc = "load", !.rest = <<>>])
     \/ Set(w, Idle)
  /\ UNCHANGED <<tree, requests, listings, crashed>>

\* Variant: this return leaves the mutex locked.
Lost_locked(w) ==
  /\ task[w].pc = "lost"
  /\ Answer(w, None)
  /\ Set(w, Idle)
  /\ UNCHANGED <<tree, tree_mutex_, requests, listings, crashed>>

Lost(w) ==
  /\ task[w].pc = "lost"
  /\ tree_mutex_' = None
  /\ Answer(w, None)
  /\ Set(w, Idle)
  /\ UNCHANGED <<tree, requests, listings, crashed>>
-----------------------------------------------------------------------------
\* ensure_children_loaded, called by find_node on the way down the path and by
\* StartDirEnumCallback at its end; neither looks at the result.

Loaded(w) == IF task[w].rest = <<>> THEN "copy" ELSE "pick"

CheckLoaded(w) ==
  /\ task[w].pc = "load"
  /\ Goto(w, IF nodes[task[w].at].loaded THEN Loaded(w) ELSE "list")
  /\ UNCHANGED <<tree, tree_mutex_, requests, answers, listings, crashed>>

\* A directory can be read in part: a mapping block that cannot be read makes the
\* rest of it zeros, list_directory ends there and succeeds, and what it has found
\* is taken for the whole directory.
Lists(d) ==
  {Entries[d]} \cup
    (IF "cut" \in Faults THEN {SubSeq(Entries[d], 1, n) : n \in 0 .. Len(Entries[d])} ELSE {})

\* The directory is read; if that succeeds the old children go.
ListDirectory(w) ==
  /\ task[w].pc = "list"
  /\ \/ /\ "list" \in Faults
        /\ Set(w, [task[w] EXCEPT !.pc = Loaded(w), !.calm = FALSE])
        /\ UNCHANGED nodes
     \/ /\ \E list \in Lists(nodes[task[w].at].inode) :
             Set(w, [task[w] EXCEPT !.pc = "fill", !.todo = list])
        /\ nodes' = [nodes EXCEPT ![task[w].at].children = <<>>]
  /\ UNCHANGED <<node_cache_, tree_mutex_, requests, answers, listings, crashed>>

\* Variant: a child is known by its name alone.
ChildPath_nameOnly(parent, name) == <<name>>

ChildPath(parent, name) == Append(nodes[parent].path, name)

\* An entry that stat_inode cannot read is left out.
AddChild(w) ==
  /\ task[w].pc = "fill" /\ task[w].todo # <<>>
  /\ LET entry  == Head(task[w].todo)
         parent == task[w].at
         path   == ChildPath(parent, entry.name)
         child  == Len(nodes) + 1
     IN  \/ /\ "stat" \in Faults
            /\ Set(w, [task[w] EXCEPT !.todo = Tail(@), !.calm = FALSE])
            /\ UNCHANGED tree
         \/ /\ Set(w, [task[w] EXCEPT !.todo = Tail(@)])
            /\ nodes' = Append([nodes EXCEPT ![parent].children = Append(@, child)],
                               Node(path, entry.inode))
            /\ node_cache_' = [p \in DOMAIN node_cache_ \cup {path} |->
                                  IF p = path THEN child ELSE node_cache_[p]]
  /\ UNCHANGED <<tree_mutex_, requests, answers, listings, crashed>>

\* Variant: the loop over the entries ends before the last one.
AllAdded_early(w) == Len(task[w].todo) <= 1

AllAdded(w) == task[w].todo = <<>>

SetLoaded(w) ==
  /\ task[w].pc = "fill" /\ AllAdded(w)
  /\ nodes' = [nodes EXCEPT ![task[w].at].loaded = TRUE]
  /\ Set(w, [task[w] EXCEPT !.pc = Loaded(w), !.todo = <<>>])
  /\ UNCHANGED <<node_cache_, tree_mutex_, requests, answers, listings, crashed>>

\* StartDirEnumCallback copies the children into its session.
Copy(w) ==
  /\ task[w].pc = "copy"
  /\ LET n == nodes[task[w].at]
     IN  listings' = listings \cup
           {[inode |-> n.inode, names |-> [c \in DOMAIN n.children |-> NameOf(n.children[c])],
             calm |-> task[w].calm]}
  /\ Set(w, Idle)
  /\ UNCHANGED <<tree, tree_mutex_, requests, answers, crashed>>

\* Two threads in one vector, or in the cache, one of them changing it: the
\* program may also just go down. Who loads a directory changes both; find_node
\* looks a path up in the cache as it begins.
Racing(w, v) ==
  /\ w # v /\ task[w].pc = "fill"
  /\ \/ task[v].pc = "fill"
     \/ task[v].pc \in {"load", "pick", "copy"} /\ task[v].at = task[w].at
     \/ task[v].pc = "lock" /\ tree_mutex_ = None

SomeRace == \E w, v \in Workers : Racing(w, v)

Race(w) ==
  /\ \E v \in Workers : Racing(w, v)
  /\ crashed' = TRUE
  /\ UNCHANGED <<tree, tree_mutex_, task, requests, answers, listings>>

Init ==
  /\ nodes = <<>> /\ node_cache_ = <<>> /\ tree_mutex_ = None
  /\ task = [w \in Workers |-> Idle]
  /\ requests = MaxRequests
  /\ answers = {} /\ listings = {} /\ crashed = FALSE /\ marred = FALSE

Step(w) ==
  /\ ~crashed
  /\ \/ Lock(w) \/ GetRoot(w) \/ Pick(w) \/ Found(w) \/ Lost(w)
     \/ CheckLoaded(w) \/ ListDirectory(w) \/ AddChild(w) \/ SetLoaded(w) \/ Copy(w)

\* An entry was passed over and no node made of it, or the listing was cut short.
LeftOut ==
  \E w \in Workers :
    /\ task'[w].pc = "fill"
    /\ \/ nodes' = nodes /\ Len(task'[w].todo) < Len(task[w].todo)
       \/ task[w].pc = "list" /\ task'[w].todo # Entries[nodes[task[w].at].inode]

Watch == marred' = (marred \/ SomeRace \/ LeftOut)

Next == \E w \in Workers : (Step(w) \/ (~crashed /\ (Ask(w) \/ Race(w)))) /\ Watch

Spec == Init /\ [][Next]_vars
FairSpec == Spec /\ \A w \in Workers : WF_vars(Step(w) /\ Watch)
-----------------------------------------------------------------------------
\* s[i] is an inode the first i parts of the path may lead to, the case of their
\* letters left aside.
Trail(path, s) ==
  /\ s[0] = Root
  /\ \A i \in DOMAIN path :
       /\ s[i - 1] \in Dirs
       /\ \E e \in Range(Entries[s[i - 1]]) :
            e.inode = s[i] /\ Fold[e.name] = Fold[path[i]]

\* The inodes a path may name, and that as a table of the paths asked for.
NamedBy(path) ==
  {s[Len(path)] : s \in {s \in [0 .. Len(path) -> Inodes] : Trail(path, s)}}
InodesAt == [path \in Paths |-> NamedBy(path)]

\* The inodes a path names letter for letter.
ExactlyNamed(path) ==
  {s[Len(path)] : s \in {s \in [0 .. Len(path) -> Inodes] :
     /\ s[0] = Root
     /\ \A i \in DOMAIN path :
          s[i - 1] \in Dirs /\ [name |-> path[i], inode |-> s[i]] \in Range(Entries[s[i - 1]])}}
ExactlyAt == [path \in Paths |-> ExactlyNamed(path)]

\* The paths on which names equal but for case make no difference.
DistinctPaths ==
  {path \in Paths : \A k \in 0 .. Len(path) :
                     \A d, e \in NamedBy(SubSeq(path, 1, k)) : d = e}

\* Every variable has the values the code can give it; whoever is in find_node
\* holds the mutex.
TypeOK ==
  /\ \A n \in DOMAIN nodes :
       /\ nodes[n].path \in Seq(Names) /\ nodes[n].loaded \in BOOLEAN
       /\ Range(nodes[n].children) \subseteq n + 1 .. Len(nodes)
  /\ Range(node_cache_) \subseteq DOMAIN nodes
  /\ tree_mutex_ \in Workers \cup {None}
  /\ requests \in 0 .. MaxRequests /\ crashed \in BOOLEAN
  /\ \A w \in Workers :
       task[w].pc \in {"root", "pick", "found", "lost", "hung"} => Locked(w)

\* A path is never answered with a file it does not name, whatever workers race
\* and whatever reads fail (vfs_tree.cpp:77-94, 101-150).
LookupSound ==
  \A a \in answers : a.inode = None \/ a.inode \in InodesAt[a.path]

\* The first answer to a path may be a file whose name differs in case. Once a path
\* was answered with the file of exactly that name it keeps that answer, whatever is
\* read or loaded again and whoever races: the cache settles it (vfs_tree.cpp:94, 109-111).
ExactSettles ==
  \A w \in Workers, a \in answers :
    task[w].pc = "found" /\ a.path = task[w].path /\ a.inode \in ExactlyAt[a.path] =>
      nodes[task[w].at].inode = a.inode

\* A file that is there is found by a request none of whose reads failed, whatever
\* failed before it. What the code does not keep is excepted: two threads raced; or a
\* directory on some path was loaded without some entry, whose stat failed or which
\* was behind the point where the listing was cut short, and counts as loaded for good
\* (vfs_tree.cpp:66-98); or the path leads past names equal but for case, of which the
\* first is taken (vfs_tree.cpp:136-147).
ExistingIsFound ==
  ~marred /\ ~SomeRace =>
    \A a \in answers :
      a.calm /\ a.inode = None /\ a.path \in DistinctPaths => InodesAt[a.path] = {}

NamesIn(d) == [n \in DOMAIN Entries[d] |-> Entries[d][n].name]

\* A directory is listed as it is by a request none of whose reads failed, unless
\* two threads raced or some directory was loaded without some entry: that one was
\* left out or cut off, and what was loaded stays (vfs_tree.cpp:66-99,
\* projfs_mount.cpp:226-236).
ListingExact ==
  ~marred /\ ~SomeRace =>
    \A l \in listings : l.calm => l.names = NamesIn(l.inode)

\* Every callback returns.
Answered ==
  \A w \in Workers : task[w].pc # "idle" ~> task[w].pc = "idle" \/ crashed

\* Every callback returns unless a relock of tree_mutex_ waits for ever, whatever
\* fails and whoever else is in the tree: every return releases the mutex
\* (vfs_tree.cpp:101-150).
AnsweredUnlessHung ==
  \A w \in Workers :
    task[w].pc # "idle" ~>
      task[w].pc = "idle" \/ crashed \/ \E v \in Workers : task[v].pc = "hung"
=============================================================================
