---------------------------- MODULE Ext4Directory ----------------------------
(***************************************************************************)
(* Ext4Reader::mount and list_directory_path: lookup_path lists one         *)
(* directory after the other, then the last one is listed. An inode is read *)
(* at the place Ext4Layout computes. The data of a directory are records at *)
(* places in it; the reader steps from record to record by rec_len.        *)
(***************************************************************************)
EXTENDS Ext4Layout, Sequences, FiniteSets

CONSTANTS
  Images,     \* file systems: records of their geometry (made), whether there is a
              \* superblock (magic), every directory (dirs), by inode, the symbolic
              \* links (links), and the inodes that cannot be read (lost), nor the
              \* data of a directory (torn)
  Root,       \* inode 2
  Paths,      \* the paths asked for: sequences of what is between separators
  HeaderSize, \* bytes of a record before its name: 8
  RecWord,    \* 2^16, the values of rec_len
  None        \* no inode

ASSUME DirectoryAssumption ==
  /\ HeaderSize \in Nat /\ HeaderSize > 1
  /\ RecWord \in Nat /\ RecWord > 1 /\ LargeBlock <= RecWord
  /\ Paths \subseteq Seq(STRING)

VARIABLES
  image,       \* the file system
  path,        \* the path asked for
  geometry,    \* what mount took from the superblock
  curr_inode,  \* where lookup_path has come to
  rest,        \* the parts of the path still to be looked up
  opened,      \* the inode list_directory found, whose data it lists
  offset,      \* its loop over the records
  out_entries,
  pc           \* "mount", "open", "entries", "listed", "done", "failed"

vars == <<image, path, geometry, curr_inode, rest, opened, offset, out_entries, pc>>
request == <<image, path, geometry>>

-----------------------------------------------------------------------------
\* The disk. A directory has a size and a record at some of its places: an inode (0 when
\* the record is free), a name, a length and, unless the file system is old, the type of
\* the file ("none", "dir", "link", "file"). A block that reads as zeros has a record of
\* length 0 at its start.

DirEntry2 ==
  [inode : Nat, name : STRING, rec_len : {0} \cup HeaderSize .. RecWord,
   file_type : {"none", "dir", "link", "file"}]

Inodes(made) == 1 .. made.groups * made.inodes_per_group

TypeOf(fs, n) == IF n \in DOMAIN fs.dirs THEN "dir" ELSE IF n \in fs.links THEN "link" ELSE "file"

\* The records that are listed: not the free ones, nor the two each directory has.
Live(dir) ==
  {p \in DOMAIN dir.records :
     dir.records[p].inode # 0 /\ dir.records[p].name \notin {".", ".."}}

\* Records follow one another without gaps; one of length 0 breaks the chain.
WellMadeChain(dir) ==
  /\ dir.size \in Nat /\ DOMAIN dir.records \subseteq 0 .. dir.size - 1
  /\ dir.size > 0 => 0 \in DOMAIN dir.records
  /\ \A p \in DOMAIN dir.records :
       LET next == p + dir.records[p].rec_len
       IN  /\ dir.records[p] \in DirEntry2
           /\ p < next => /\ next \in DOMAIN dir.records \cup {dir.size}
                          /\ \A q \in DOMAIN dir.records : q <= p \/ next <= q

\* Of one name there is one inode.
WellMadeEntries(fs, dir) ==
  \A p \in Live(dir) :
    LET r == dir.records[p]
    IN  /\ r.inode \in Inodes(fs.made) /\ r.name # ""
        /\ r.file_type \in {"none", TypeOf(fs, r.inode)}
        /\ \A q \in Live(dir) : dir.records[q].name = r.name => dir.records[q].inode = r.inode

ASSUME ImagesAssumption ==
  \A fs \in Images :
    /\ WellMade(fs.made) /\ TablesApart(fs.made) /\ fs.magic \in BOOLEAN
    /\ Root \in Inodes(fs.made)
    /\ \A d \in DOMAIN fs.dirs : WellMadeChain(fs.dirs[d]) /\ WellMadeEntries(fs, fs.dirs[d])

\* A length is kept in 16 bits; the 2^16 of a block of 64 KiB is kept as 2^16 - 1.
OnDisk(rec_len) == IF rec_len < RecWord THEN rec_len ELSE RecWord - 1

\* What is read as a record where none starts: anything.
Garbage == [inode : {0, Root}, name : {"", "?"}, rec_len : 0 .. RecWord - 1, file_type : {"none"}]

HeaderAt(dir, place) ==
  IF place \notin DOMAIN dir.records THEN Garbage
  ELSE {[dir.records[place] EXCEPT !.rec_len = OnDisk(@)]}
-----------------------------------------------------------------------------
\* mount: a device that cannot be read or holds no ext file system is refused.
Mount ==
  /\ pc = "mount"
  /\ LET sb == [SuperblockOf(image.made) EXCEPT !.magic = image.magic]
     IN  \/ Mountable(sb) /\ geometry' = Geometry(sb) /\ pc' = "open"
         \/ ~Mountable(sb) /\ pc' = "failed" /\ UNCHANGED geometry
  /\ UNCHANGED <<image, path, curr_inode, rest, opened, offset, out_entries>>

\* The inodes that are read for a number: one, or none.
Read(n) == read_inode(image.made, geometry, n) \ image.lost

\* The directories whose data can be read.
Directories == DOMAIN image.dirs \ image.torn

\* Mutant: the entries of the last directory are kept.
OpenDirectory_keeps ==
  /\ pc = "open"
  /\ \E n \in Read(curr_inode) \cap Directories : opened' = n
  /\ pc' = "entries"
  /\ offset' = 0
  /\ UNCHANGED <<request, curr_inode, rest, out_entries>>

\* list_directory(curr_inode): read_inode, the test that it is a directory, and
\* read_file_data.
OpenDirectory ==
  /\ pc = "open"
  /\ \/ /\ \E n \in Read(curr_inode) \cap Directories : opened' = n
        /\ pc' = "entries"
     \/ /\ Read(curr_inode) \cap Directories = {}
        /\ pc' = "failed" /\ UNCHANGED opened
  /\ offset' = 0 /\ out_entries' = <<>>
  /\ UNCHANGED <<request, curr_inode, rest>>

MoreRecords == offset + HeaderSize <= image.dirs[opened].size

\* Mutant: records of length 0 are not looked out for.
Sound_always(record) == TRUE

Sound(record) == record.rec_len # 0

\* Mutant: free records are listed.
Listed_free(record) == record.name \notin {"", ".", ".."}

Listed(record) == record.inode # 0 /\ record.name \notin {"", ".", ".."}

\* Mutant: the type is the one the record has.
Types_stored(record) == {record.file_type}

\* A type that is not stored is taken from the inode; one that cannot be read is a
\* file, neither a directory nor a link.
Types(record) ==
  IF record.file_type # "none" THEN {record.file_type}
  ELSE IF Read(record.inode) = {} THEN {"file"}
  ELSE {TypeOf(image, n) : n \in Read(record.inode)}

TakeRecord ==
  /\ pc = "entries" /\ MoreRecords
  /\ \E record \in HeaderAt(image.dirs[opened], offset) :
       /\ Sound(record)
       /\ \/ /\ Listed(record)
             /\ \E type \in Types(record) :
                  out_entries' = Append(out_entries, [name |-> record.name,
                                                      inode |-> record.inode, type |-> type])
          \/ ~Listed(record) /\ UNCHANGED out_entries
       /\ offset' = offset + record.rec_len
  /\ UNCHANGED <<request, curr_inode, rest, opened, pc>>

\* The end, or a record of length 0, which ends the loop but is no error.
EndRecords ==
  /\ pc = "entries"
  /\ MoreRecords =>
       \E record \in HeaderAt(image.dirs[opened], offset) : ~Sound(record)
  /\ pc' = "listed"
  /\ UNCHANGED <<request, curr_inode, rest, opened, offset, out_entries>>

\* lookup_path goes on with the first entry of that name.
IsNamed(n) == out_entries[n].name = Head(rest)

FollowPart ==
  /\ pc = "listed" /\ rest # <<>>
  /\ \/ /\ \A n \in DOMAIN out_entries : ~IsNamed(n)
        /\ pc' = "failed" /\ UNCHANGED <<curr_inode, rest>>
     \/ /\ \E n \in DOMAIN out_entries :
             /\ IsNamed(n) /\ \A m \in 1 .. n - 1 : ~IsNamed(m)
             /\ curr_inode' = out_entries[n].inode
        /\ rest' = Tail(rest) /\ pc' = "open"
  /\ UNCHANGED <<request, opened, offset, out_entries>>

ReturnEntries ==
  /\ pc = "listed" /\ rest = <<>>
  /\ pc' = "done"
  /\ UNCHANGED <<request, curr_inode, rest, opened, offset, out_entries>>

\* The members of a set of numbers, in order.
InOrder(S) ==
  [n \in 1 .. Cardinality(S) |-> CHOOSE i \in S : Cardinality({j \in S : j < i}) = n - 1]

\* The parts of a path; "." alone is the root too.
Parts(p) ==
  LET kept == InOrder({n \in DOMAIN p : p[n] # ""})
  IN  IF p = <<".">> THEN <<>> ELSE [n \in DOMAIN kept |-> p[kept[n]]]

Init ==
  /\ image \in Images /\ path \in Paths
  /\ geometry = <<>> /\ opened = None
  /\ curr_inode = Root /\ rest = Parts(path)
  /\ offset = 0 /\ out_entries = <<>> /\ pc = "mount"

Next == Mount \/ OpenDirectory \/ TakeRecord \/ EndRecords \/ FollowPart \/ ReturnEntries

Spec == Init /\ [][Next]_vars
FairSpec == Spec /\ WF_vars(Next)
-----------------------------------------------------------------------------
\* What a directory holds: its live records, in order. The child of a record that stores
\* no type, and cannot be read, shows as a file.
EntryAt(fs, dir, p) ==
  LET r == dir.records[p]
  IN  [name |-> r.name, inode |-> r.inode,
       type |-> IF r.file_type = "none" /\ r.inode \in fs.lost THEN "file" ELSE TypeOf(fs, r.inode)]

EntriesOf(fs, dir) ==
  LET places == InOrder(Live(dir))
  IN  [n \in DOMAIN places |-> EntryAt(fs, dir, places[n])]

\* No block reads as zeros.
Whole(dir) == \A p \in DOMAIN dir.records : dir.records[p].rec_len # 0

\* No length of 2^16, of which the code takes the 2^16 - 1 it is stored as for the length,
\* but in the last block.
LengthsKept(dir) ==
  \A p \in DOMAIN dir.records : dir.records[p].rec_len = RecWord => p + RecWord = dir.size

\* Directory d has an entry of this name for inode n.
Child(fs, d, name, n) ==
  /\ d \in DOMAIN fs.dirs
  /\ \E p \in Live(fs.dirs[d]) :
       fs.dirs[d].records[p].name = name /\ fs.dirs[d].records[p].inode = n

\* The inodes from the root on that a path leads through, when every block can be read.
Ways(fs, parts) ==
  {way \in [0 .. Len(parts) -> Inodes(fs.made)] :
     way[0] = Root /\ \A n \in 1 .. Len(parts) : Child(fs, way[n - 1], parts[n], way[n])}

\* Every variable has the values the code can give it.
TypeOK ==
  /\ path \in Paths
  /\ \E n \in 0 .. Len(Parts(path)) : rest = SubSeq(Parts(path), n + 1, Len(Parts(path)))
  /\ offset \in Nat
  /\ \A n \in DOMAIN out_entries : out_entries[n].inode # 0 /\ out_entries[n].type # "none"
  /\ pc \in {"mount", "open", "entries", "listed", "done", "failed"}
  /\ pc \in {"entries", "listed", "done"} => opened \in Directories

\* A directory whose blocks can be read is listed completely, in order, without what
\* was deleted and with the right types, however its records fill the blocks and
\* whether or not they have a type (ext4_reader.cpp:407-437).
ListsAll ==
  pc \in {"listed", "done"} =>
    LET dir == image.dirs[opened]
    IN  Whole(dir) /\ LengthsKept(dir) => out_entries = EntriesOf(image, dir)

\* A block that reads as zeros may cut a listing short, but nothing is made up
\* (ext4_reader.cpp:401-413).
ListsOnlyEntries ==
  pc \in {"entries", "listed", "done"} =>
    LET dir == image.dirs[opened]
    IN  LengthsKept(dir) =>
          /\ Len(out_entries) <= Len(EntriesOf(image, dir))
          /\ \A n \in 1 .. Len(out_entries) : out_entries[n] = EntriesOf(image, dir)[n]

\* The directory listed is the one the path leads to, found through the group
\* descriptors of whatever geometry, and the call fails only if the path leads to none
\* or something on the way cannot be read (ext4_reader.cpp:16-53, 84-140, 442-489).
RightDirectory ==
  /\ pc \in {"done", "failed"} /\ image.magic
  /\ \A d \in DOMAIN image.dirs : Whole(image.dirs[d]) /\ LengthsKept(image.dirs[d])
  =>
    LET ways == Ways(image, Parts(path))
        end  == Len(Parts(path))
    IN  /\ pc = "done" => \E way \in ways : way[end] = opened
        /\ pc = "failed" =>
             \A way \in ways : \/ way[end] \notin DOMAIN image.dirs
                               \/ \E n \in 0 .. end : way[n] \in image.lost \cup image.torn

\* The call ends (ext4_reader.cpp:407-437).
Ends == <>(pc \in {"done", "failed"})
=============================================================================
