------------------------ MODULE DiskEnumeratorProofs ------------------------
(***************************************************************************)
(* Theorems about DiskEnumerator, for any limits, disks and hotplug.       *)
(***************************************************************************)
EXTENDS DiskEnumerator, TLAPS

USE DEF vars, world

\* The part of the state the argument is about.
Counters ==
  /\ i \in Nat /\ i <= MaxDrives /\ consecutive_misses \in Nat
  /\ pc \in {"scan", "done"} /\ steady \subseteq Drives

\* What the scan has seen: every steady drive before i has been inspected, none
\* of the last consecutive_misses numbers is steady, and when the scan has
\* stopped before the end none of the last MissLimit ones is.
Inv == Counters /\ Scanned

LEMMA InvStep ==
  ASSUME Inv, [Next]_vars
  PROVE  Inv'
<1> USE LimitsAssumption DEF Inv, Counters, Scanned, Drives
<1>1. CASE InspectDisk
  <2>1. /\ pc = "scan" /\ i < MaxDrives /\ pc' = pc /\ steady' = steady
        /\ found' = found \cup {i} /\ consecutive_misses' = 0 /\ i' = i + 1
    BY <1>1 DEF InspectDisk, MoreDrives
  <2> QED
    BY <2>1
<1>2. CASE MissDisk
  <2>1. /\ pc = "scan" /\ i < MaxDrives /\ steady' = steady \ {i}
        /\ consecutive_misses' = consecutive_misses + 1 /\ found' = found
    BY <1>2 DEF MissDisk, MoreDrives
  <2>2. CASE EndsScan(consecutive_misses + 1) /\ pc' = "done" /\ i' = i
    <3>1. consecutive_misses + 1 >= MissLimit /\ i >= FirstStop
      BY <2>2 DEF EndsScan
    <3>2. ASSUME NEW k \in i - MissLimit + 1 .. i PROVE k \notin steady'
      <4>1. CASE k = i
        BY <4>1, <2>1
      <4>2. CASE k # i
        <5>1. k \in i - consecutive_misses .. i - 1
          BY <4>2, <3>1
        <5> QED
          BY <5>1, <2>1
      <4> QED
        BY <4>1, <4>2
    <3>3. Counters' 
      BY <2>1, <2>2
    <3>4. \A d \in steady' : d < i' => d \in found'
      BY <2>1, <2>2
    <3> QED
      BY <2>1, <2>2, <3>1, <3>2, <3>3, <3>4
  <2>3. CASE i' = i + 1 /\ pc' = pc
    BY <2>1, <2>3
  <2> QED
    BY <1>2, <2>2, <2>3 DEF MissDisk
<1>3. CASE Finish
  BY <1>3 DEF Finish
<1>4. CASE Change
  BY <1>4 DEF Change
<1>5. CASE UNCHANGED vars
  BY <1>5
<1> QED
  BY <1>1, <1>2, <1>3, <1>4, <1>5 DEF Next

\* A drive that stays is found unless it is behind a gap in the numbers
\* (disk_enumerator.cpp:27-45).
THEOREM ScanFinds == Spec => []MissedOnlyBehindGap
<1>1. Init => Inv
  BY LimitsAssumption DEF Init, Inv, Counters, Scanned, Drives, Present
<1>2. Inv => MissedOnlyBehindGap
  <2> SUFFICES ASSUME Inv, pc = "done", NEW d \in steady \ found
               PROVE  BehindGap(d)
    BY DEF MissedOnlyBehindGap
  <2>1. d \in 0 .. MaxDrives - 1 /\ ~(d < i) /\ i \in Nat
    BY DEF Inv, Counters, Scanned, Drives
  <2>2. /\ i < MaxDrives /\ i >= FirstStop
        /\ \A k \in i - MissLimit + 1 .. i : k \notin steady
    BY <2>1, LimitsAssumption DEF Inv, Scanned
  <2>3. i \in i - MissLimit + 1 .. i
    BY <2>1, LimitsAssumption
  <2>4. i \in FirstStop .. d - 1
    BY <2>1, <2>2, <2>3, LimitsAssumption
  <2> QED
    BY <2>2, <2>4 DEF BehindGap
<1> QED
  BY <1>1, <1>2, InvStep, PTL DEF Spec
-----------------------------------------------------------------------------
\* Every partition listed is classified by what was read of its entry.
Classified == \A part \in disks : part.info = ProbedPartition(part.entry)

LEMMA ClassifiedStep ==
  ASSUME Classified, [Next]_vars
  PROVE  Classified'
<1>1. CASE InspectDisk
  <2>1. PICK failed :
          LET m == attached[i]
              read(p) == IF "probe" \in failed THEN Unread(Layout[m][p])
                         ELSE Layout[m][p]
          IN  disks' = IF "layout" \in failed THEN disks
                       ELSE disks \cup {PartitionInfo(i, p, read(p)) : p \in UsedSlots(m)}
    BY <1>1 DEF InspectDisk
  <2>2. ASSUME NEW part \in disks' PROVE part.info = ProbedPartition(part.entry)
    <3>1. CASE part \in disks
      BY <3>1 DEF Classified
    <3>2. ASSUME part \notin disks PROVE part.info = ProbedPartition(part.entry)
      <4>1. PICK p, entry : part = PartitionInfo(i, p, entry)
        BY <2>1, <2>2, <3>2
      <4> QED
        BY <4>1 DEF PartitionInfo
    <3> QED
      BY <3>1, <3>2
  <2> QED
    BY <2>2 DEF Classified
<1>2. CASE MissDisk
  BY <1>2 DEF MissDisk, Classified
<1>3. CASE Finish
  BY <1>3 DEF Finish, Classified
<1>4. CASE Change
  BY <1>4 DEF Change, Classified
<1>5. CASE UNCHANGED vars
  BY <1>5 DEF Classified
<1> QED
  BY <1>1, <1>2, <1>3, <1>4, <1>5 DEF Next

LEMMA AlwaysClassified == Spec => []Classified
<1>1. Init => Classified
  BY DEF Init, Classified
<1> QED
  BY <1>1, ClassifiedStep, PTL DEF Spec

\* A partition of a system type is never offered for mounting, whatever it
\* holds and whatever fails (disk_enumerator.cpp:185-186, 226-229, 241).
THEOREM SystemNeverOffered == Spec => []SystemNeverMountable
<1>1. Classified => SystemNeverMountable
  <2> SUFFICES ASSUME Classified, NEW part \in Mountable
               PROVE  /\ part.entry.scheme = "gpt" => part.entry.type \notin SystemTypes
                      /\ part.entry.scheme = "mbr" => part.entry.type \notin SystemBytes
    BY DEF SystemNeverMountable
  <2>1. /\ ProbedPartition(part.entry).data
        /\ ~is_excluded_system_partition(ProbedPartition(part.entry).kind)
    BY DEF Classified, Mountable
  <2>2. ~is_excluded_system_partition(LayoutKind(part.entry))
    BY <2>1 DEF ProbedPartition, is_excluded_system_partition
  <2>3. ASSUME part.entry.scheme = "gpt" PROVE part.entry.type \notin SystemTypes
    BY <2>2, <2>3 DEF LayoutKind, classify_gpt, KindOfGuid, SystemTypes,
                      is_excluded_system_partition
  <2>4. ASSUME part.entry.scheme = "mbr" PROVE part.entry.type \notin SystemBytes
    BY <2>2, <2>4 DEF LayoutKind, classify_mbr, SystemBytes,
                      is_excluded_system_partition
  <2> QED
    BY <2>3, <2>4
<1> QED
  BY <1>1, AlwaysClassified, PTL

\* A partition of a type the filter does not know is offered only if an ext
\* superblock was read from it (disk_enumerator.cpp:206-230).
THEOREM UnknownOfferedIfExt == Spec => []UnknownNeedsExt
<1>1. Classified => UnknownNeedsExt
  <2> SUFFICES ASSUME Classified, NEW part \in Mountable,
                      LayoutKind(part.entry) = "Unknown"
               PROVE  part.entry.head.ext /\ ~(part.entry.head.size < 2048)
    BY DEF UnknownNeedsExt
  <2>1. ProbedPartition(part.entry).data
    BY DEF Classified, Mountable
  <2> DEFINE fs == IF part.entry.length < 4096 THEN "Unknown"
                    ELSE probe_filesystem(part.entry.head)
  <2>2. ProbedPartition(part.entry).data =
          (\/ fs \in ExtFamily /\ LayoutKind(part.entry) = "Unknown"
           \/ is_safe_data_partition(LayoutKind(part.entry)))
    BY ZenonT(30) DEF ProbedPartition
  <2>3. fs \in ExtFamily
    <3> HIDE DEF fs
    <3>1. fs \in ExtFamily \/ is_safe_data_partition(LayoutKind(part.entry))
      BY <2>1, <2>2, Zenon
    <3> QED
      BY <3>1 DEF is_safe_data_partition
  <2>4. probe_filesystem(part.entry.head) \in ExtFamily
    BY <2>3 DEF ExtFamily
  <2> QED
    BY <2>4 DEF probe_filesystem, ExtFamily
<1> QED
  BY <1>1, AlwaysClassified, PTL
-----------------------------------------------------------------------------
\* No more misses are counted than numbers have been tried.
Counted == consecutive_misses <= (IF pc = "scan" THEN i ELSE MaxDrives)

LEMMA TypeStep == TypeOK /\ Counted /\ [Next]_vars => (TypeOK /\ Counted)'
<1> SUFFICES ASSUME TypeOK, Counted, [Next]_vars PROVE (TypeOK /\ Counted)'
  OBVIOUS
<1> USE LimitsAssumption DEF Numbers, Drives
<1>1. CASE InspectDisk
  <2>1. /\ pc = "scan" /\ i < MaxDrives /\ pc' = pc /\ UNCHANGED <<world, steady>>
        /\ found' = found \cup {i} /\ consecutive_misses' = 0 /\ i' = i + 1
    BY <1>1 DEF InspectDisk, MoreDrives
  <2>2. \A part \in disks' : part.disk_index \in found'
    <3>1. PICK failed, entry :
            disks' = IF "layout" \in failed THEN disks
                     ELSE disks \cup {PartitionInfo(i, p, entry[p]) : p \in UsedSlots(attached[i])}
      <4>1. PICK failed :
              LET read(p) == IF "probe" \in failed THEN Unread(Layout[attached[i]][p])
                             ELSE Layout[attached[i]][p]
              IN  disks' = IF "layout" \in failed THEN disks
                           ELSE disks \cup {PartitionInfo(i, p, read(p)) : p \in UsedSlots(attached[i])}
        BY <1>1 DEF InspectDisk
      <4> DEFINE entry == [p \in UsedSlots(attached[i]) |->
                             IF "probe" \in failed THEN Unread(Layout[attached[i]][p])
                             ELSE Layout[attached[i]][p]]
      <4>2. disks' = IF "layout" \in failed THEN disks
                     ELSE disks \cup {PartitionInfo(i, p, entry[p]) : p \in UsedSlots(attached[i])}
        BY <4>1
      <4> QED
        BY <4>2
    <3>2. ASSUME NEW part \in disks', part \notin disks PROVE part.disk_index = i
      BY <3>1, <3>2 DEF PartitionInfo
    <3> QED
      BY <2>1, <3>2 DEF TypeOK
  <2>3. quiet' \in BOOLEAN
    BY <1>1 DEF InspectDisk, TypeOK
  <2> QED
    BY <2>1, <2>2, <2>3 DEF TypeOK, Counted
<1>2. CASE MissDisk
  <2>1. /\ pc = "scan" /\ i < MaxDrives /\ steady' = steady \ {i}
        /\ consecutive_misses' = consecutive_misses + 1
        /\ UNCHANGED <<world, disks, found>>
        /\ \/ pc' = "done" /\ i' = i
           \/ pc' = pc /\ i' = i + 1
    BY <1>2 DEF MissDisk, MoreDrives
  <2>2. quiet' \in BOOLEAN
    BY <1>2 DEF MissDisk, TypeOK
  <2> QED
    BY <2>1, <2>2 DEF TypeOK, Counted
<1>3. CASE Finish
  BY <1>3 DEF Finish, TypeOK, Counted
<1>4. CASE Change
  <2>1. PICK d \in Drives, m \in Media \cup {None} :
          attached' = [attached EXCEPT ![d] = m] /\ steady' \in {steady, steady \ {d}}
    BY <1>4 DEF Change
  <2>2. attached' \in [Drives -> Media \cup {None}] /\ steady' \subseteq Drives
    BY <2>1 DEF TypeOK
  <2>3. changes' \in Nat
    BY <1>4 DEF Change, TypeOK
  <2> QED
    BY <1>4, <2>2, <2>3 DEF Change, TypeOK, Counted
<1>5. CASE UNCHANGED vars
  BY <1>5 DEF TypeOK, Counted
<1> QED
  BY <1>1, <1>2, <1>3, <1>4, <1>5 DEF Next

\* Every variable keeps its type: no number is tried, and no miss counted, beyond
\* the last (disk_enumerator.cpp:27-45).
THEOREM TypeCorrect == Spec => []TypeOK
<1>1. Init => TypeOK /\ Counted
  BY LimitsAssumption DEF Init, TypeOK, Counted, Numbers, Drives, Present
<1>2. Spec => [](TypeOK /\ Counted)
  BY <1>1, TypeStep, PTL DEF Spec
<1> QED
  BY <1>2, PTL
-----------------------------------------------------------------------------
\* What the scan knows as long as nothing disturbs it: the drives that are there
\* before i have been inspected, and no others; just the last consecutive_misses
\* numbers were misses; and it has not passed a gap.
Undisturbed ==
  quiet =>
    /\ steady = Present
    /\ found \subseteq {d \in Present : d < i}
    /\ pc = "scan" => \/ consecutive_misses = i
                      \/ consecutive_misses < i /\ i - consecutive_misses - 1 \in steady
    /\ \A j \in FirstStop .. i - 1 : \E k \in j - MissLimit + 1 .. j : k \in steady

\* The partitions listed are all of those of the drives inspected.
Slots(F) == {k \in F \X Parts : Layout[attached[k[1]]][k[2]].length # 0}
Listed ==
  quiet =>
    disks = {PartitionInfo(k[1], k[2], Layout[attached[k[1]]][k[2]]) : k \in Slots(found)}

QuietInv == TypeOK /\ Counted /\ Inv /\ Undisturbed /\ Listed

LEMMA UndisturbedStep == QuietInv /\ [Next]_vars => Undisturbed'
<1> SUFFICES ASSUME QuietInv, [Next]_vars, quiet' PROVE Undisturbed'
  BY DEF Undisturbed
<1> USE LimitsAssumption, StopAssumption
<1>0. /\ i \in Nat /\ consecutive_misses \in Nat /\ steady \subseteq 0 .. MaxDrives - 1
      /\ quiet \in BOOLEAN
  BY DEF QuietInv, TypeOK, Numbers, Drives
<1>1. CASE InspectDisk
  <2>1. /\ pc = "scan" /\ pc' = pc /\ UNCHANGED <<world, steady>>
        /\ found' = found \cup {i} /\ consecutive_misses' = 0 /\ i' = i + 1
        /\ i \in Present /\ quiet
    BY <1>1 DEF InspectDisk, MoreDrives
  <2>2. Undisturbed
    BY DEF QuietInv
  <2>3. \A j \in FirstStop .. i' - 1 : \E k \in j - MissLimit + 1 .. j : k \in steady'
    <3> SUFFICES ASSUME NEW j \in FirstStop .. i
                 PROVE  \E k \in j - MissLimit + 1 .. j : k \in steady
      BY <1>0, <2>1
    <3>1. CASE j = i
      <4>1. i \in j - MissLimit + 1 .. j /\ i \in steady
        BY <1>0, <2>1, <2>2, <3>1 DEF Undisturbed
      <4> QED
        BY <4>1
    <3>2. CASE j # i
      BY <1>0, <2>1, <2>2, <3>2 DEF Undisturbed
    <3> QED
      BY <3>1, <3>2
  <2>4. steady' = Present' /\ found' \subseteq {d \in Present' : d < i'}
    <3>1. Present' = Present
      BY <2>1 DEF Present
    <3> QED
      BY <1>0, <2>1, <2>2, <3>1 DEF Undisturbed, Present, Drives
  <2>5. consecutive_misses' < i' /\ i' - consecutive_misses' - 1 \in steady'
    BY <1>0, <2>1, <2>2 DEF Undisturbed
  <2> QED
    BY <2>3, <2>4, <2>5 DEF Undisturbed
<1>2. CASE MissDisk
  <2>1. /\ pc = "scan" /\ steady' = steady \ {i} /\ quiet /\ i \notin Present
        /\ consecutive_misses' = consecutive_misses + 1
        /\ UNCHANGED <<world, disks, found>>
    BY <1>2 DEF MissDisk, MoreDrives
  <2>2. Undisturbed /\ steady' = steady
    BY <2>1 DEF QuietInv, Undisturbed
  <2>3. steady' = Present' /\ found' \subseteq {d \in Present' : d < i}
    <3>1. Present' = Present
      BY <2>1 DEF Present
    <3> QED
      BY <2>1, <2>2, <3>1 DEF Undisturbed
  <2>4. CASE pc' = "done" /\ i' = i
    BY <2>1, <2>2, <2>3, <2>4 DEF Undisturbed
  <2>5. CASE ~EndsScan(consecutive_misses + 1) /\ i' = i + 1 /\ pc' = pc
    <3>1. \/ consecutive_misses' = i'
          \/ consecutive_misses' < i' /\ i' - consecutive_misses' - 1 \in steady'
      BY <1>0, <2>1, <2>2, <2>5 DEF Undisturbed
    <3>2. ASSUME i >= FirstStop
          PROVE  \E k \in i - MissLimit + 1 .. i : k \in steady
      <4>1. consecutive_misses + 1 < MissLimit
        BY <1>0, <2>5, <3>2 DEF EndsScan
      <4>2. consecutive_misses < i /\ i - consecutive_misses - 1 \in steady
        BY <1>0, <2>1, <2>2, <3>2, <4>1 DEF Undisturbed
      <4>3. i - consecutive_misses - 1 \in i - MissLimit + 1 .. i
        BY <1>0, <4>1, <4>2
      <4> QED
        BY <4>2, <4>3
    <3>3. \A j \in FirstStop .. i' - 1 : \E k \in j - MissLimit + 1 .. j : k \in steady'
      <4> SUFFICES ASSUME NEW j \in FirstStop .. i
                   PROVE  \E k \in j - MissLimit + 1 .. j : k \in steady
        BY <1>0, <2>2, <2>5
      <4>1. CASE j = i
        BY <3>2, <4>1, <1>0
      <4>2. CASE j # i
        BY <1>0, <2>1, <2>2, <4>2 DEF Undisturbed
      <4> QED
        BY <4>1, <4>2
    <3>4. found' \subseteq {d \in Present' : d < i'}
      BY <1>0, <2>3, <2>5 DEF Present, Drives
    <3> QED
      BY <2>3, <3>1, <3>3, <3>4 DEF Undisturbed
  <2> QED
    BY <1>2, <2>4, <2>5 DEF MissDisk
<1>3. CASE Finish
  BY <1>3 DEF Finish, QuietInv, Undisturbed, Present
<1>4. CASE Change
  BY <1>4 DEF Change
<1>5. CASE UNCHANGED vars
  BY <1>5 DEF QuietInv, Undisturbed, Present
<1> QED
  BY <1>1, <1>2, <1>3, <1>4, <1>5 DEF Next

LEMMA ListedStep == QuietInv /\ [Next]_vars => Listed'
<1> SUFFICES ASSUME QuietInv, [Next]_vars, quiet' PROVE Listed'
  BY DEF Listed
<1>1. CASE InspectDisk
  <2>1. quiet /\ found' = found \cup {i} /\ UNCHANGED world
    BY <1>1 DEF InspectDisk, QuietInv, TypeOK
  <2>2. disks' = disks \cup {PartitionInfo(i, p, Layout[attached[i]][p]) : p \in UsedSlots(attached[i])}
    BY <1>1 DEF InspectDisk, QuietInv, TypeOK
  <2> DEFINE info(k) == PartitionInfo(k[1], k[2], Layout[attached[k[1]]][k[2]])
  <2>3. disks = {info(k) : k \in Slots(found)}
    BY <2>1 DEF QuietInv, Listed
  <2>4. Slots(found \cup {i}) = Slots(found) \cup ({i} \X UsedSlots(attached[i]))
    BY DEF Slots, UsedSlots
  <2>5. {PartitionInfo(i, p, Layout[attached[i]][p]) : p \in UsedSlots(attached[i])}
          = {info(k) : k \in {i} \X UsedSlots(attached[i])}
    <3> DEFINE of(p) == PartitionInfo(i, p, Layout[attached[i]][p])
               U == UsedSlots(attached[i])
    <3>1. ASSUME NEW p \in U PROVE of(p) = info(<<i, p>>) /\ <<i, p>> \in {i} \X U
      OBVIOUS
    <3>2. ASSUME NEW k \in {i} \X U PROVE k[2] \in U /\ k = <<i, k[2]>>
      OBVIOUS
    <3>3. ASSUME NEW k \in {i} \X U PROVE info(k) = of(k[2])
      <4>1. k[1] = i
        OBVIOUS
      <4> QED
        BY <4>1
    <3> HIDE DEF info, of, U
    <3>4. {of(p) : p \in U} = {info(k) : k \in {i} \X U}
      <4>1. ASSUME NEW x \in {of(p) : p \in U} PROVE x \in {info(k) : k \in {i} \X U}
        <5>1. PICK p \in U : x = of(p)
          OBVIOUS
        <5> QED
          BY <3>1, <5>1
      <4>2. ASSUME NEW x \in {info(k) : k \in {i} \X U} PROVE x \in {of(p) : p \in U}
        <5>1. PICK k \in {i} \X U : x = info(k)
          OBVIOUS
        <5> QED
          BY <3>2, <3>3, <5>1
      <4> QED
        BY <4>1, <4>2
    <3> QED
      BY <3>4 DEF of, U
  <2> HIDE DEF info
  <2>6. disks' = {info(k) : k \in Slots(found')}
    BY <2>1, <2>2, <2>3, <2>4, <2>5
  <2>7. Slots(found)' = Slots(found') /\ attached' = attached
    BY <2>1 DEF Slots
  <2>8. disks' = {PartitionInfo(k[1], k[2], Layout[attached'[k[1]]][k[2]]) : k \in Slots(found)'}
    BY <2>6, <2>7 DEF info
  <2> QED
    BY <2>8 DEF Listed
<1>2. CASE MissDisk
  BY <1>2 DEF MissDisk, QuietInv, Listed, Slots
<1>3. CASE Finish
  BY <1>3 DEF Finish, QuietInv, Listed, Slots
<1>4. CASE Change
  BY <1>4 DEF Change
<1>5. CASE UNCHANGED vars
  BY <1>5 DEF QuietInv, Listed, Slots
<1> QED
  BY <1>1, <1>2, <1>3, <1>4, <1>5 DEF Next

\* A scan that nothing disturbs returns just the mountable partitions of the drives
\* that are there and not behind a gap, for any limits that let the scan end only
\* where as many numbers have been tried (disk_enumerator.cpp:27-45, 232-248).
THEOREM ExactWhenQuiet == Spec => []QuietScanExact
<1>1. Init => QuietInv
  <2> SUFFICES ASSUME Init PROVE QuietInv
    OBVIOUS
  <2>1. Present \subseteq Drives /\ Slots({}) = {}
    BY DEF Present, Slots
  <2> QED
    BY <2>1, LimitsAssumption
       DEF Init, QuietInv, TypeOK, Counted, Numbers, Drives, Inv, Counters, Scanned,
           Undisturbed, Listed
<1>2. QuietInv /\ [Next]_vars => QuietInv'
  BY TypeStep, InvStep, UndisturbedStep, ListedStep DEF QuietInv
<1>3. QuietInv => QuietScanExact
  <2> SUFFICES ASSUME QuietInv, pc = "done", quiet
               PROVE  {<<part.disk_index, part.partition_number>> : part \in Mountable} =
                        {k \in Present \X Parts :
                           /\ ~BehindGap(k[1])
                           /\ IsMountable(Layout[attached[k[1]]][k[2]])}
    BY DEF QuietScanExact
  <2>1. ASSUME NEW d \in Present PROVE d \in found <=> ~BehindGap(d)
    <3>1. /\ d \in 0 .. MaxDrives - 1 /\ i \in Nat /\ d \in steady
          /\ \A e \in found : e < i
          /\ \A e \in steady : e < i => e \in found
          /\ \A j \in FirstStop .. i - 1 : \E k \in j - MissLimit + 1 .. j : k \in steady
      BY DEF QuietInv, Undisturbed, Inv, Counters, Scanned, Present, Drives
    <3>2. ASSUME d \in found PROVE ~BehindGap(d)
      BY <3>1, <3>2, LimitsAssumption DEF BehindGap
    <3>3. ASSUME d \notin found PROVE BehindGap(d)
      <4>1. ~(d < i)
        BY <3>1, <3>3
      <4>2. /\ i < MaxDrives /\ i >= FirstStop
            /\ \A k \in i - MissLimit + 1 .. i : k \notin steady
        BY <3>1, <4>1, LimitsAssumption DEF QuietInv, Inv, Scanned
      <4>3. i \in i - MissLimit + 1 .. i
        BY <3>1, LimitsAssumption
      <4>4. i \in FirstStop .. d - 1
        BY <3>1, <4>1, <4>2, <4>3, LimitsAssumption
      <4> QED
        BY <4>2, <4>4 DEF BehindGap
    <3> QED
      BY <3>2, <3>3
  <2>2. /\ found \subseteq Present
        /\ disks = {PartitionInfo(k[1], k[2], Layout[attached[k[1]]][k[2]]) : k \in Slots(found)}
    BY DEF QuietInv, Undisturbed, Listed
  <2> DEFINE entry(k) == Layout[attached[k[1]]][k[2]]
             part(k) == PartitionInfo(k[1], k[2], entry(k))
  <2>3. ASSUME NEW k \in Slots(found)
        PROVE  /\ <<part(k).disk_index, part(k).partition_number>> = k
               /\ IsMountable(entry(k)) <=> /\ part(k).info.data
                                            /\ ~is_excluded_system_partition(part(k).info.kind)
    BY DEF PartitionInfo, Slots, IsMountable
  <2>4. ASSUME NEW k
        PROVE  (k \in Present \X Parts /\ ~BehindGap(k[1]) /\ IsMountable(entry(k)))
                 <=> (k \in Slots(found) /\ IsMountable(entry(k)))
    BY <2>1, <2>2 DEF Slots, IsMountable
  <2>5. Mountable = {part(k) : k \in {s \in Slots(found) : IsMountable(entry(s))}}
    <3> HIDE DEF entry
    <3>1. disks = {part(k) : k \in Slots(found)}
      BY <2>2 DEF entry
    <3> HIDE DEF part
    <3> QED
      BY <2>3, <3>1 DEF Mountable
  <2> HIDE DEF part, entry
  <2>6. {<<p.disk_index, p.partition_number>> : p \in Mountable}
          = {s \in Slots(found) : IsMountable(entry(s))}
    <3>1. ASSUME NEW p \in Mountable
          PROVE  <<p.disk_index, p.partition_number>>
                   \in {s \in Slots(found) : IsMountable(entry(s))}
      BY <2>3, <2>5
    <3>2. ASSUME NEW s \in Slots(found), IsMountable(entry(s))
          PROVE  \E p \in Mountable : s = <<p.disk_index, p.partition_number>>
      <4>1. part(s) \in Mountable
        BY <2>5, <3>2
      <4> QED
        BY <2>3, <4>1
    <3> QED
      BY <3>1, <3>2
  <2> QED
    BY <2>4, <2>6 DEF entry
<1> QED
  BY <1>1, <1>2, <1>3, PTL DEF Spec
=============================================================================
