------------------------------ MODULE Ext4File ------------------------------
(***************************************************************************)
(* Ext4Reader::read_file_data, block by block, and the three callers that   *)
(* hand file contents on: the ProjFS callback, `cat` and `export`. The      *)
(* device may lose blocks, or all of them, at any time.                     *)
(***************************************************************************)
EXTENDS Ext4Blocks

CONSTANTS
  BlockSize,  \* bytes in a block
  Files,      \* files: size, mapping (uses_extents, and root and
              \* node or pointers and table) and contents,
              \* where contents[l] is the block that holds logical block l of
              \* the file, 0 for zeros
  Callers,    \* some of "projfs", "cat", "export"
  Chunk,      \* bytes `export` reads at once: 65536
  Inode,      \* the block of the inode table the file's inode is in
  Breakable   \* blocks the device may lose

ASSUME FileAssumption == {BlockSize, Chunk} \subseteq Nat \ {0}
ASSUME FilesAssumption == \A f \in Files : f.size \in Nat

\* The logical blocks of a file.
BlocksOf(f) == {l \in 0 .. f.size : l * BlockSize < f.size}

\* The files are well made.
WellMade(f) ==
  /\ f.size <= BlockSize * Word
  /\ IF f.uses_extents
     THEN WellMadeTree(f) /\ \A l \in BlocksOf(f) : TreeHolds(f, l)
     ELSE WellMadePointers(f) /\ PointersHold(f, BlocksOf(f))

ASSUME MappingAssumption == \A f \in Files : WellMade(f)

VARIABLES
  file,         \* the file read
  bad,          \* the blocks that cannot be read
  caller,       \* who reads it
  pc,           \* "call", "loop" in read_file_data, "back" in the caller, "end"
  offset,       \* the arguments of the call
  size,
  curr_offset,  \* the variables of the loop
  remaining,
  dst,          \* the bytes copied to the buffer
  ok,           \* what read_file_data returned
  out,          \* what the caller handed on, from byte base of the file
  base,
  status        \* what the caller reported: "none", "success", "failure"

call == <<file, caller, base>>
loop == <<curr_offset, remaining, dst, ok>>
vars == <<call, bad, pc, offset, size, loop, out, status>>

\* A byte of the disk is its block and its place in it; the zeros of a hole are
\* the one byte that is on no block.
Zero == <<0, 0>>
ByteIn(b, n) == IF b = 0 THEN Zero ELSE <<b, n>>

AtMost(a, b) == IF a <= b THEN a ELSE b
-----------------------------------------------------------------------------
ActualSize(from, wanted) == AtMost(wanted, file.size - from)

\* The call read_file_data(inode, from, wanted): its early returns, or the loop.
BeginRead(from, wanted) ==
  /\ offset' = from /\ size' = wanted /\ dst' = <<>> /\ curr_offset' = from
  /\ \/ /\ wanted = 0 \/ Inode \in bad
        /\ pc' = "back" /\ ok' = FALSE /\ remaining' = 0
     \/ /\ wanted > 0 /\ Inode \notin bad /\ from >= file.size
        /\ pc' = "back" /\ ok' = TRUE /\ remaining' = 0
     \/ /\ wanted > 0 /\ Inode \notin bad /\ from < file.size
        /\ pc' = "loop" /\ ok' = FALSE /\ remaining' = ActualSize(from, wanted)

\* to_copy bytes of block b, from where curr_offset is in it.
Copied(b, to_copy) ==
  [n \in 1 .. to_copy |-> ByteIn(b, (curr_offset % BlockSize) + n - 1)]

\* Variant: the narrowing of remaining is left out of the minimum.
ToCopy_unlimited == BlockSize - (curr_offset % BlockSize)

\* remaining is narrowed to 32 bits before the minimum is taken.
ToCopy == AtMost(remaining % Word, BlockSize - (curr_offset % BlockSize))

\* The block the loop needs next.
NextBlock == PhysicalBlock(file, bad, (curr_offset \div BlockSize) % Word)

CopyBlock ==
  /\ pc = "loop" /\ remaining > 0 /\ NextBlock \notin bad
  /\ dst' = dst \o Copied(NextBlock, ToCopy)
  /\ curr_offset' = curr_offset + ToCopy
  /\ remaining' = remaining - ToCopy
  /\ UNCHANGED <<call, bad, pc, offset, size, ok, out, status>>

\* Variant: what has been copied so far is returned.
FailBlock_short ==
  /\ pc = "loop" /\ remaining > 0 /\ NextBlock \in bad
  /\ pc' = "back" /\ ok' = TRUE
  /\ UNCHANGED <<call, bad, offset, size, curr_offset, remaining, dst, out, status>>

FailBlock ==
  /\ pc = "loop" /\ remaining > 0 /\ NextBlock \in bad
  /\ pc' = "back" /\ dst' = <<>>
  /\ UNCHANGED <<call, bad, offset, size, curr_offset, remaining, ok, out, status>>

EndRead ==
  /\ pc = "loop" /\ remaining = 0
  /\ pc' = "back" /\ ok' = TRUE
  /\ UNCHANGED <<call, bad, offset, size, curr_offset, remaining, dst, out, status>>
-----------------------------------------------------------------------------
\* The callers. GetFileDataCallback reads what ProjFS asks for, cmd_cat the
\* whole file, cmd_export a chunk after the other.

Call ==
  /\ pc = "call"
  /\ \/ caller = "projfs" /\ BeginRead(offset, size)
     \/ caller = "cat"    /\ BeginRead(0, file.size)
     \/ /\ caller = "export" /\ file.size > 0
        /\ BeginRead(0, AtMost(Chunk, file.size))
     \/ /\ caller = "export" /\ file.size = 0
        /\ pc' = "end" /\ UNCHANGED <<offset, size, loop>>
  /\ status' = IF pc' = "end" THEN "success" ELSE status
  /\ UNCHANGED <<call, bad, out>>

\* GetFileDataCallback and cmd_cat.
HandOn ==
  /\ pc = "back" /\ caller \in {"projfs", "cat"}
  /\ \/ ok /\ out' = dst /\ status' = "success"
     \/ ~ok /\ status' = "failure" /\ UNCHANGED out
  /\ pc' = "end"
  /\ UNCHANGED <<call, bad, offset, size, loop>>

\* Variant: a chunk that cannot be read is tried again.
ExportStops_retries == ok /\ dst = <<>>

ExportStops == ~ok \/ dst = <<>>

ExportChunk ==
  /\ pc = "back" /\ caller = "export"
  /\ \/ /\ ExportStops
        /\ pc' = "end" /\ status' = "success"
        /\ UNCHANGED <<offset, size, loop, out>>
     \/ /\ ~ExportStops
        /\ out' = out \o dst
        /\ LET next == offset + Len(dst)
           IN  \/ /\ next >= file.size
                  /\ pc' = "end" /\ status' = "success"
                  /\ UNCHANGED <<offset, size, loop>>
               \/ /\ next < file.size
                  /\ BeginRead(next, AtMost(Chunk, file.size - next))
                  /\ UNCHANGED status
  /\ UNCHANGED <<call, bad>>
-----------------------------------------------------------------------------
\* The device loses a block, or is pulled out.
Lose ==
  /\ pc # "end" /\ bad # Breakable
  /\ \E b \in Breakable : bad' \in {bad \cup {b}, Breakable}
  /\ UNCHANGED <<call, pc, offset, size, loop, out, status>>

Init ==
  /\ file \in Files /\ caller \in Callers
  /\ bad = {} /\ pc = "call"
  /\ \/ caller = "projfs" /\ offset \in 0 .. file.size /\ size \in 1 .. Chunk
     \/ caller # "projfs" /\ offset = 0 /\ size = 0
  /\ base = offset
  /\ curr_offset = 0 /\ remaining = 0 /\ dst = <<>> /\ ok = FALSE
  /\ out = <<>> /\ status = "none"

Step == Call \/ CopyBlock \/ FailBlock \/ EndRead \/ HandOn \/ ExportChunk
Next == Step \/ Lose

Spec == Init /\ [][Next]_vars
FairSpec == Spec /\ WF_vars(Step)
-----------------------------------------------------------------------------
\* The byte of the file at a place within it.
ByteAt(place) == ByteIn(file.contents[place \div BlockSize], place % BlockSize)

\* Every variable has the values the code can give it, and no read writes
\* past the end of the buffer it was given.
TypeOK ==
  /\ file \in Files /\ bad \subseteq Breakable /\ caller \in Callers
  /\ pc \in {"call", "loop", "back", "end"}
  /\ {offset, size, curr_offset, remaining, base} \subseteq Nat
  /\ Len(dst) <= size
  /\ ok \in BOOLEAN /\ status \in {"none", "success", "failure"}

\* What a caller hands on is what the file holds there, holes as zeros, wherever
\* the read starts and ends and whatever the device loses meanwhile
\* (ext4_reader.cpp:331-356).
ShowsContents ==
  \A n \in 1 .. Len(out) :
    base + n <= file.size /\ out[n] = ByteAt(base + n - 1)

\* How much of the file the caller was to hand on.
Wanted == IF caller = "projfs" THEN AtMost(size, file.size - base) ELSE file.size

\* A caller that reports success has handed on all of it (projfs_mount.cpp:376-
\* 400, main.cpp:297-298). An export reports success however it ended.
SuccessIsComplete ==
  status = "success" /\ caller # "export" => Len(out) = Wanted

\* Every call ends.
ReadEnds == <>(pc = "end")
=============================================================================
