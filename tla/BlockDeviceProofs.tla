-------------------------- MODULE BlockDeviceProofs --------------------------
(***************************************************************************)
(* Theorems about BlockDevice, for any number of readers and any sizes.    *)
(***************************************************************************)
EXTENDS BlockDevice, TLAPS

USE DEF vars

\* The inductive invariant: between its seek and its read a reader holds the
\* mutex, so the position is still the one it set and the handle is still open.
Inv == TypeOK /\ ReadsOwnData /\ OpenWhileReading /\ Positioned /\ Bounded

\* The alignment stays in the natural numbers and ends after it starts.
LEMMA AlignedType ==
  ASSUME NEW w \in Wanted
  PROVE  /\ Absolute(w) \in Nat /\ AlignedStart(w) \in Nat
         /\ AlignedSize(w) \in Int
<1>1. w.offset \in Nat /\ w.size \in Nat
  BY WantedAssumption
<1>2. Absolute(w) \in Nat
  BY <1>1, SizesAssumption DEF Absolute
<1>3. Absolute(w) \div SectorSize \in Nat
  BY <1>2, SizesAssumption
<1>4. (Absolute(w) + w.size + SectorSize - 1) \div SectorSize \in Int
  BY <1>1, <1>2, SizesAssumption
<1> QED
  BY <1>2, <1>3, <1>4, SizesAssumption DEF AlignedStart, AlignedSize, AlignedEnd

LEMMA InvStep ==
  ASSUME Inv, [Next]_vars
  PROVE  Inv'
<1> USE DEF Inv, TypeOK, ReadsOwnData, OpenWhileReading, Positioned, Bounded,
        is_open, Failed
<1>1. CASE Open
  BY <1>1, ModesAssumption DEF Open
<1>2. CASE Close
  BY <1>2, NoneAssumption DEF Close
<1>3. ASSUME NEW r \in Readers, Call(r) PROVE Inv'
  <2>1. PICK w \in Wanted :
          /\ want' = [want EXCEPT ![r] = w]
          /\ \/ /\ is_open /\ InBounds(w)
                /\ pc' = [pc EXCEPT ![r] = "lock"]
                /\ UNCHANGED got
             \/ /\ pc' = [pc EXCEPT ![r] = "done"]
                /\ got' = [got EXCEPT ![r] = Failed]
    BY <1>3 DEF Call
  <2>2. pc[r] = "idle" /\ UNCHANGED <<handle_, position, io_mutex_>>
    BY <1>3 DEF Call
  <2> QED
    BY <2>1, <2>2
<1>4. ASSUME NEW r \in Readers, Seek(r) PROVE Inv'
  <2>1. AlignedStart(want[r]) \in Nat
    BY AlignedType
  <2> QED
    BY <1>4, <2>1, NoneAssumption DEF Seek
<1>5. ASSUME NEW r \in Readers, SeekFails(r) PROVE Inv'
  BY <1>5 DEF SeekFails
<1>6. ASSUME NEW r \in Readers, Read(r) PROVE Inv'
  <2>1. /\ pc[r] = "read" /\ io_mutex_ = r /\ io_mutex_' = None
        /\ pc' = [pc EXCEPT ![r] = "done"]
        /\ UNCHANGED <<handle_, want>>
    BY <1>6 DEF Read, Unlock
  <2>2. \A q \in Readers \ {r} : pc[q] # "read"
    BY <2>1
  <2>3. /\ want[r] \in Wanted /\ Absolute(want[r]) \in Nat
        /\ AlignedStart(want[r]) \in Nat /\ AlignedSize(want[r]) \in Int
    BY AlignedType
  <2>4. got' = [got EXCEPT ![r] = Absolute(want[r])]
    <3> DEFINE a == Absolute(want[r])
               s == AlignedStart(want[r])
    <3>1. got' = [got EXCEPT ![r] = position + (a - s)] /\ position = s
      BY <1>6, <2>1 DEF Read
    <3>2. s + (a - s) = a
      BY <2>3
    <3> QED
      BY <3>1, <3>2
  <2>5. position' \in Nat
    <3>1. want[r].size \in Nat
      BY <2>3, WantedAssumption
    <3>2. position = AlignedStart(want[r])
      BY <2>1
    <3>3. BytesRead(want[r]) \in Int
      BY <2>3, SizesAssumption DEF BytesRead
    <3>4. BytesRead(want[r]) >= Absolute(want[r]) - position + want[r].size
      BY <1>6, <3>2 DEF Read, ReadFileWorks, Enough
    <3>5. position' = position + BytesRead(want[r])
      BY <1>6 DEF Read
    <3> QED
      BY <3>1, <3>3, <3>4, <3>5, <2>3
  <2> QED
    BY <2>1, <2>2, <2>3, <2>4, <2>5
<1>7. ASSUME NEW r \in Readers, ReadFails(r) PROVE Inv'
  <2>1. \A q \in Readers \ {r} : pc[q] # "read"
    BY <1>7 DEF ReadFails
  <2> QED
    BY <1>7, <2>1 DEF ReadFails, Unlock
<1>8. ASSUME NEW r \in Readers, Return(r) PROVE Inv'
  BY <1>8 DEF Return
<1>9. CASE UNCHANGED vars
  BY <1>9
<1> QED
  BY <1>1, <1>2, <1>3, <1>4, <1>5, <1>6, <1>7, <1>8, <1>9 DEF Next, ReadStep

\* The inductive invariant holds in every reachable state.
THEOREM Invariance == Spec => []Inv
<1>1. Init => Inv
  BY DEF Init, Inv, TypeOK, ReadsOwnData, OpenWhileReading, Positioned, Bounded,
         Failed
<1> QED
  BY <1>1, InvStep, PTL DEF Spec

\* The handle, its position, the mutex and every read keep their types
\* (block_device.hpp:49-54).
THEOREM TypeCorrect == Spec => []TypeOK
<1>1. Inv => TypeOK
  BY DEF Inv
<1> QED
  BY <1>1, Invariance, PTL

\* A read that succeeds returns the bytes it was asked for
\* (block_device.cpp:88-126).
THEOREM OwnData == Spec => []ReadsOwnData
<1>1. Inv => ReadsOwnData
  BY DEF Inv
<1> QED
  BY <1>1, Invariance, PTL

\* The handle outlives every read that has begun (block_device.cpp:80-86).
THEOREM NoCloseUnderRead == Spec => []OpenWhileReading
<1>1. Inv => OpenWhileReading
  BY DEF Inv
<1> QED
  BY <1>1, Invariance, PTL

\* A successful read lies inside the partition (block_device.cpp:91-94).
THEOREM InsidePartition == Spec => []StaysInPartition
<1>1. Inv => StaysInPartition
  <2> SUFFICES ASSUME Inv, PartitionSize > 0, NEW r \in Readers,
                      pc[r] = "done", got[r] # Failed
               PROVE  /\ PartitionOffset <= got[r]
                      /\ got[r] + want[r].size <= PartitionOffset + PartitionSize
    BY DEF StaysInPartition
  <2>1. got[r] = Absolute(want[r]) /\ InBounds(want[r])
    BY DEF Inv, ReadsOwnData, Bounded
  <2>2. want[r].offset \in Nat /\ want[r].size \in Nat
    BY WantedAssumption DEF Inv, TypeOK
  <2> QED
    BY <2>1, <2>2, SizesAssumption DEF Absolute, InBounds
<1> QED
  BY <1>1, Invariance, PTL
=============================================================================
