----------------------------- MODULE BlockDevice -----------------------------
(***************************************************************************)
(* src/fs/block_device.cpp: one raw drive handle, opened once and shared   *)
(* by every thread that reads from a mount. The handle has one file        *)
(* position, so a read is a seek followed by a ReadFile, both under        *)
(* io_mutex_; the two tests before them are made without it. Byte x of the *)
(* drive stands for its content: a read is right if it returns its own x.  *)
(***************************************************************************)
EXTENDS Integers

CONSTANTS
  Readers,          \* threads that read
  None,             \* no thread
  SectorSize,       \* sector_size_, 512 in the code
  DeviceSector,     \* the sector size of the drive
  DeviceSize,       \* bytes on the drive
  PartitionOffset,  \* partition_offset_
  PartitionSize,    \* partition_size_, 0 if unlimited
  Wanted,           \* the [offset, size] that are asked for
  OpenModes,        \* how CreateFileW may succeed: "unbuffered", "buffered"
  Faults            \* "read" if the drive may fail

ASSUME NoneAssumption == None \notin Readers
ASSUME SizesAssumption ==
  /\ SectorSize \in Nat \ {0} /\ DeviceSector \in Nat \ {0}
  /\ DeviceSize \in Nat /\ PartitionOffset \in Nat /\ PartitionSize \in Nat
\* No 64-bit sum wraps: block numbers have 48 bits and blocks at most 2^16 bytes.
ASSUME WantedAssumption == Wanted \subseteq [offset : Nat, size : Nat]
ASSUME ModesAssumption == OpenModes \subseteq {"unbuffered", "buffered"}

VARIABLES
  handle_,     \* "new" before open_read_only, "closed" once there is none, or
               \* the mode the drive was opened in
  position,    \* the file position of the handle
  io_mutex_,   \* its holder
  pc,          \* where each reader is in read
  want,        \* want[r]: the arguments of r's read
  got          \* got[r]: Failed, or the first drive byte r was given

vars == <<handle_, position, io_mutex_, pc, want, got>>

Failed == -1

is_open == handle_ \in {"unbuffered", "buffered"}

\* The direct sector alignment calculation.
Absolute(w) == PartitionOffset + w.offset
AlignedStart(w) == (Absolute(w) \div SectorSize) * SectorSize
AlignedEnd(w) ==
  ((Absolute(w) + w.size + SectorSize - 1) \div SectorSize) * SectorSize
AlignedSize(w) == AlignedEnd(w) - AlignedStart(w)

InBounds(w) ==
  w.size > 0 /\ (PartitionSize > 0 => w.offset + w.size <= PartitionSize)

\* open_read_only tries without buffering, then with it. The device is shared
\* only after it has returned.
Open ==
  /\ handle_ = "new"
  /\ handle_' \in OpenModes \cup {"closed"}
  /\ UNCHANGED <<position, io_mutex_, pc, want, got>>

\* The tests of read that take no lock.
Call(r) ==
  /\ handle_ # "new" /\ pc[r] = "idle"
  /\ \E w \in Wanted :
       /\ want' = [want EXCEPT ![r] = w]
       /\ \/ /\ is_open /\ InBounds(w)
             /\ pc' = [pc EXCEPT ![r] = "lock"]
             /\ UNCHANGED got
          \/ /\ ~(is_open /\ InBounds(w))
             /\ pc' = [pc EXCEPT ![r] = "done"]
             /\ got' = [got EXCEPT ![r] = Failed]
  /\ UNCHANGED <<handle_, position, io_mutex_>>

\* Variant: the mutex is taken for the seek only.
Seek_unlocked(r) ==
  /\ pc[r] = "lock" /\ io_mutex_ = None /\ is_open
  /\ position' = AlignedStart(want[r])
  /\ pc' = [pc EXCEPT ![r] = "read"]
  /\ UNCHANGED <<handle_, io_mutex_, want, got>>

\* SetFilePointerEx.
Seek(r) ==
  /\ pc[r] = "lock" /\ io_mutex_ = None /\ is_open
  /\ position' = AlignedStart(want[r])
  /\ io_mutex_' = r
  /\ pc' = [pc EXCEPT ![r] = "read"]
  /\ UNCHANGED <<handle_, want, got>>

\* The handle was closed between the test and the lock.
SeekFails(r) ==
  /\ pc[r] = "lock" /\ io_mutex_ = None /\ ~is_open
  /\ got' = [got EXCEPT ![r] = Failed]
  /\ pc' = [pc EXCEPT ![r] = "done"]
  /\ UNCHANGED <<handle_, position, io_mutex_, want>>

\* A handle without buffering reads whole sectors of the drive only.
SectorsFit(w) ==
  handle_ = "unbuffered" =>
    position % DeviceSector = 0 /\ AlignedSize(w) % DeviceSector = 0

\* What ReadFile returns from the current position.
BytesRead(w) ==
  IF position + AlignedSize(w) <= DeviceSize THEN AlignedSize(w)
  ELSE IF position < DeviceSize THEN DeviceSize - position ELSE 0

Enough(w) == BytesRead(w) >= Absolute(w) - AlignedStart(w) + w.size

ReadFileWorks(w) == is_open /\ SectorsFit(w) /\ Enough(w)

Unlock(r) ==
  /\ io_mutex_' = None
  /\ pc' = [pc EXCEPT ![r] = "done"]

Read(r) ==
  /\ pc[r] = "read" /\ ReadFileWorks(want[r])
  /\ got' = [got EXCEPT ![r] = position + (Absolute(want[r])
                                             - AlignedStart(want[r]))]
  /\ position' = position + BytesRead(want[r])
  /\ Unlock(r)
  /\ UNCHANGED <<handle_, want>>

ReadFails(r) ==
  /\ pc[r] = "read"
  /\ ReadFileWorks(want[r]) => "read" \in Faults
  /\ got' = [got EXCEPT ![r] = Failed]
  /\ Unlock(r)
  /\ UNCHANGED <<handle_, position, want>>

Return(r) ==
  /\ pc[r] = "done"
  /\ pc' = [pc EXCEPT ![r] = "idle"]
  /\ UNCHANGED <<handle_, position, io_mutex_, want, got>>

\* Variant: close does not lock.
Close_unlocked ==
  /\ is_open
  /\ handle_' = "closed"
  /\ UNCHANGED <<position, io_mutex_, pc, want, got>>

\* Variant: the mutex is left locked.
Close_torn ==
  /\ is_open /\ io_mutex_ = None
  /\ handle_' = "closed" /\ io_mutex_' = "closer"
  /\ UNCHANGED <<position, pc, want, got>>

Close ==
  /\ is_open /\ io_mutex_ = None
  /\ handle_' = "closed"
  /\ UNCHANGED <<position, io_mutex_, pc, want, got>>

Init ==
  /\ handle_ = "new" /\ position = 0 /\ io_mutex_ = None
  /\ pc = [r \in Readers |-> "idle"]
  /\ want \in [Readers -> Wanted]
  /\ got = [r \in Readers |-> Failed]

ReadStep(r) ==
  Call(r) \/ Seek(r) \/ SeekFails(r) \/ Read(r) \/ ReadFails(r) \/ Return(r)

Next == Open \/ Close \/ \E r \in Readers : ReadStep(r)

Spec == Init /\ [][Next]_vars
-----------------------------------------------------------------------------
\* Every variable has the values the code can give it.
TypeOK ==
  /\ handle_ \in {"new", "closed", "unbuffered", "buffered"}
  /\ position \in Nat
  /\ io_mutex_ \in Readers \cup {None}
  /\ pc \in [Readers -> {"idle", "lock", "read", "done"}]
  /\ want \in [Readers -> Wanted]
  /\ got \in [Readers -> Nat \cup {Failed}]

\* A read that succeeds returns the bytes it was asked for, although all readers
\* move one file position (block_device.cpp:96-125).
ReadsOwnData ==
  \A r \in Readers :
    pc[r] = "done" /\ got[r] # Failed => got[r] = Absolute(want[r])

\* Nothing outside the partition is ever handed out, however the read is aligned
\* (block_device.cpp:91-94).
StaysInPartition ==
  PartitionSize > 0 =>
    \A r \in Readers : pc[r] = "done" /\ got[r] # Failed =>
      /\ PartitionOffset <= got[r]
      /\ got[r] + want[r].size <= PartitionOffset + PartitionSize

\* The handle is never closed under a read that has begun its seek
\* (block_device.cpp:80-86).
OpenWhileReading == \A r \in Readers : pc[r] = "read" => is_open

\* The position between seek and read belongs to the holder of the mutex.
Positioned ==
  \A r \in Readers :
    pc[r] = "read" => io_mutex_ = r /\ position = AlignedStart(want[r])

\* A read that has passed the bounds test, or succeeded, is inside them.
Bounded ==
  \A r \in Readers :
    (pc[r] \in {"lock", "read"} \/ (pc[r] = "done" /\ got[r] # Failed)) =>
      InBounds(want[r])
=============================================================================
