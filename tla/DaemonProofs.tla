---------------------------- MODULE DaemonProofs ----------------------------
(***************************************************************************)
(* Theorems about Daemon, for all disks, media, failures and bounds.       *)
(***************************************************************************)
EXTENDS Daemon, TLAPS

\* The frames of the actions are tuples of variables.
USE DEF vars, windows, flow, mounts, calls, ListPartitions

\* The steps of Next, one by one: a case split used by every invariance proof.
LEMMA StepCases ==
  ASSUME [Next]_vars
  PROVE  \/ \E t \in Threads :
              /\ Alive
              /\ \/ SkipPartition(t) \/ OpenPartition(t) \/ RegisterMount(t)
                 \/ MountsDone(t)
         \/ Alive /\ (StartMonitor \/ Rescan \/ DispatchClose \/ StopNext
                      \/ CloseNext \/ ClearMounts \/ StopMonitor \/ FinishClose
                      \/ LeaveLoop \/ MountsDestroyed)
         \/ Alive /\ (CreateWindow \/ RegisterNotification
                      \/ InitialEnumeration \/ GetInserted \/ GetRemoved
                      \/ CollectDisk \/ SkipUnmount \/ BeginUnmount
                      \/ EndUnmount \/ UnmountsDone \/ GetQuit \/ Cleanup)
         \/ \E k \in Keys : Alive /\ (BeginRequest(k) \/ EndRequest(k)
                                      \/ RequestHangs(k) \/ RequestThrows(k))
         \/ \E d \in Disks : Alive /\ (Attach(d) \/ Detach(d))
         \/ Alive /\ (PostClose \/ ChooseRescan)
         \/ UNCHANGED vars
  BY DEF Next, MainStep, MonitorStep, MountStep, Return, OutsideStep, Stopped

LEMMA SpendType ==
  ASSUME budget \in [Items -> Nat], NEW item \in Items, Spend(item)
  PROVE  budget' \in [Items -> Nat]
  BY DEF Spend

\* Every variable keeps its type in every behaviour of the daemon.
THEOREM TypeCorrect == Spec => [](TypeOK /\ HasKey)
<1> USE DEF TypeOK, HasKey, Flags, Threads
<1>1. Init => TypeOK /\ HasKey
  BY BoundsAssumption DEF Init, Items, MainStates, MonitorStates
<1>2. TypeOK /\ HasKey /\ [Next]_vars => (TypeOK /\ HasKey)'
  <2> SUFFICES ASSUME TypeOK, HasKey, [Next]_vars PROVE (TypeOK /\ HasKey)'
    OBVIOUS
  <2> USE DEF MainStates, MonitorStates, Goto, Done
  <2>1. ASSUME NEW t \in Threads, SkipPartition(t) PROVE (TypeOK /\ HasKey)'
    BY <2>1 DEF SkipPartition, First
  <2>2. ASSUME NEW t \in Threads, OpenPartition(t) PROVE (TypeOK /\ HasKey)'
    BY <2>2 DEF OpenPartition, CanOpen, Present, First, Keys
  <2>3. ASSUME NEW t \in Threads, RegisterMount(t) PROVE (TypeOK /\ HasKey)'
    BY <2>3 DEF RegisterMount
  <2>4. ASSUME NEW t \in Threads, MountsDone(t) PROVE (TypeOK /\ HasKey)'
    BY <2>4 DEF MountsDone, NextMessage
  <2>5. ASSUME StartMonitor PROVE (TypeOK /\ HasKey)'
    BY <2>5 DEF StartMonitor
  <2>6. ASSUME Rescan PROVE (TypeOK /\ HasKey)'
    BY <2>6 DEF Rescan, MountableNow
  <2>7. ASSUME DispatchClose PROVE (TypeOK /\ HasKey)'
    BY <2>7 DEF DispatchClose
  <2>8. ASSUME StopNext PROVE (TypeOK /\ HasKey)'
    BY <2>8 DEF StopNext, StopMount, First
  <2>9. ASSUME CloseNext PROVE (TypeOK /\ HasKey)'
    BY <2>9 DEF CloseNext, CloseMount
  <2>10. ASSUME ClearMounts PROVE (TypeOK /\ HasKey)'
    BY <2>10 DEF ClearMounts
  <2>11. ASSUME StopMonitor PROVE (TypeOK /\ HasKey)'
    BY <2>11, ZenonT(40) DEF StopMonitor
  <2>12. ASSUME FinishClose PROVE (TypeOK /\ HasKey)'
    BY <2>12 DEF FinishClose
  <2>13. ASSUME LeaveLoop PROVE (TypeOK /\ HasKey)'
    BY <2>13 DEF LeaveLoop
  <2>14. ASSUME MountsDestroyed PROVE (TypeOK /\ HasKey)'
    BY <2>14 DEF MountsDestroyed
  <2>15. ASSUME CreateWindow PROVE (TypeOK /\ HasKey)'
    BY <2>15, ZenonT(40) DEF CreateWindow
  <2>16. ASSUME RegisterNotification PROVE (TypeOK /\ HasKey)'
    BY <2>16 DEF RegisterNotification
  <2>17. ASSUME InitialEnumeration PROVE (TypeOK /\ HasKey)'
    BY <2>17 DEF InitialEnumeration, MountableNow
  <2>18. ASSUME GetInserted PROVE (TypeOK /\ HasKey)'
    BY <2>18 DEF GetInserted, MountableNow
  <2>19. ASSUME GetRemoved PROVE (TypeOK /\ HasKey)'
    BY <2>19 DEF GetRemoved, Present
  <2>20. ASSUME CollectDisk PROVE (TypeOK /\ HasKey)'
    BY <2>20 DEF CollectDisk
  <2>21. ASSUME SkipUnmount PROVE (TypeOK /\ HasKey)'
    BY <2>21 DEF SkipUnmount, First
  <2>22. ASSUME BeginUnmount PROVE (TypeOK /\ HasKey)'
    BY <2>22 DEF BeginUnmount, StopMount, First
  <2>23. ASSUME EndUnmount PROVE (TypeOK /\ HasKey)'
    BY <2>23 DEF EndUnmount, CloseMount
  <2>24. ASSUME UnmountsDone PROVE (TypeOK /\ HasKey)'
    BY <2>24 DEF UnmountsDone, NextMessage
  <2>25. ASSUME GetQuit PROVE (TypeOK /\ HasKey)'
    BY <2>25 DEF GetQuit
  <2>26. ASSUME Cleanup PROVE (TypeOK /\ HasKey)'
    BY <2>26 DEF Cleanup
  <2>27. ASSUME NEW k \in Keys, BeginRequest(k) PROVE (TypeOK /\ HasKey)'
    BY <2>27 DEF BeginRequest
  <2>28. ASSUME NEW k \in Keys, EndRequest(k) PROVE (TypeOK /\ HasKey)'
    BY <2>28 DEF EndRequest
  <2>29. ASSUME NEW k \in Keys, RequestHangs(k) PROVE (TypeOK /\ HasKey)'
    BY <2>29 DEF RequestHangs
  <2>30. ASSUME NEW k \in Keys, RequestThrows(k) PROVE (TypeOK /\ HasKey)'
    BY <2>30 DEF RequestThrows
  <2>31. ASSUME NEW d \in Disks, Attach(d) PROVE (TypeOK /\ HasKey)'
    <3>1. budget' \in [Items -> Nat]
      BY <2>31, SpendType DEF Attach, Items
    <3>2. attached' \in [Disks -> Media \cup {None}]
      <4>1. PICK m \in Sockets[d] : attached' = [attached EXCEPT ![d] = m]
        BY <2>31 DEF Attach
      <4>2. m \in Media
        BY <4>1, SocketsAssumption
      <4> QED
        BY <4>1, <4>2
    <3>3. devices' \in Seq({"Inserted", "Removed"})
      BY <2>31 DEF Attach, Announce
    <3> QED
      BY <2>31, <3>1, <3>2, <3>3 DEF Attach
  <2>32. ASSUME NEW d \in Disks, Detach(d) PROVE (TypeOK /\ HasKey)'
    BY <2>32, SpendType, SMTT(30) DEF Detach, Announce, Items
  <2>33. ASSUME PostClose PROVE (TypeOK /\ HasKey)'
    BY <2>33, SpendType DEF PostClose, Items
  <2>34. ASSUME ChooseRescan PROVE (TypeOK /\ HasKey)'
    BY <2>34, SpendType DEF ChooseRescan, Items
  <2>35. CASE UNCHANGED vars
    BY <2>35
  <2> QED
    BY <2>1, <2>2, <2>3, <2>4, <2>5, <2>6, <2>7, <2>8, <2>9, <2>10, <2>11, <2>12, <2>13, <2>14, <2>15, <2>16, <2>17, <2>18, <2>19, <2>20, <2>21, <2>22, <2>23, <2>24, <2>25, <2>26, <2>27, <2>28, <2>29, <2>30, <2>31, <2>32, <2>33, <2>34, <2>35, StepCases DEF Threads
<1> QED
  BY <1>1, <1>2, PTL DEF Spec
-----------------------------------------------------------------------------
\* The steps that change what is mounted, projected or in flight.
LEMMA MountFrame ==
  ASSUME [Next]_vars
  PROVE  \/ UNCHANGED <<served, projfs, requests>>
         \/ \E t \in Threads : Alive /\ OpenPartition(t)
         \/ Alive /\ (StopNext \/ CloseNext \/ BeginUnmount \/ EndUnmount)
         \/ \E k \in Keys : Alive /\ (BeginRequest(k) \/ EndRequest(k))
  BY StepCases DEF SkipPartition, RegisterMount, MountsDone, StartMonitor, Rescan,
     DispatchClose, ClearMounts, StopMonitor, FinishClose, LeaveLoop,
     MountsDestroyed, CreateWindow, RegisterNotification, InitialEnumeration,
     GetInserted, GetRemoved, CollectDisk, SkipUnmount, UnmountsDone, GetQuit,
     Cleanup, RequestHangs, RequestThrows, Attach, Detach, PostClose,
     ChooseRescan

\* mount_data_partition only ever opens a slot nothing is served from.
LEMMA OpensIdleSlot ==
  ASSUME TypeOK, Inductive, Alive, NEW t \in Threads, OpenPartition(t)
  PROVE  \E k \in Keys :
           /\ attached[k[1]] \in Media /\ served[k] = None
           /\ k \notin active_mounts
           /\ served' = [served EXCEPT ![k] = attached[k[1]]]
           /\ projfs' \in {[projfs EXCEPT ![k] = "on"], [projfs EXCEPT ![k] = "off"]}
           /\ cur' = [cur EXCEPT ![t] = k]
<1>1. PICK k \in First(todo[t]) :
        /\ CanOpen(k) /\ ~AlreadyMounted(k)
        /\ served' = [served EXCEPT ![k] = attached[k[1]]]
        /\ projfs' \in {[projfs EXCEPT ![k] = "on"], [projfs EXCEPT ![k] = "off"]}
        /\ cur' = [cur EXCEPT ![t] = k]
  BY DEF OpenPartition
<1>2. k \in Keys /\ attached[k[1]] \in Media
  BY <1>1 DEF First, CanOpen, Present, TypeOK, Keys
<1>3. k \notin active_mounts
  BY <1>1 DEF AlreadyMounted
<1>4. \A u \in Threads : pc[u] # "register"
  BY NoneAssumption DEF OpenPartition, Inductive, Exclusive, Threads
<1>5. served[k] = None
  BY <1>2, <1>3, <1>4 DEF Inductive, Registered
<1> QED
  BY <1>1, <1>2, <1>3, <1>5

LEMMA LayeredStep ==
  ASSUME TypeOK, Inductive, [Next]_vars
  PROVE  Layered'
<1> USE DEF TypeOK, Inductive, HasKey, Layered, Threads, Goto, Done
<1>1. CASE UNCHANGED <<served, projfs, requests>>
  BY <1>1
<1>2. ASSUME NEW t \in Threads, OpenPartition(t), Alive PROVE Layered'
  <2>1. PICK k \in Keys :
          /\ attached[k[1]] \in Media /\ served[k] = None
          /\ served' = [served EXCEPT ![k] = attached[k[1]]]
          /\ projfs' \in {[projfs EXCEPT ![k] = "on"], [projfs EXCEPT ![k] = "off"]}
    BY <1>2, OpensIdleSlot
  <2>2. requests' = requests
    BY <1>2 DEF OpenPartition
  <2>3. projfs[k] = "off" /\ ~(requests[k] > 0)
    BY <2>1
  <2>4. ASSUME NEW j \in Keys
        PROVE /\ projfs'[j] # "off" => served'[j] # None
              /\ requests'[j] > 0 => projfs'[j] # "off"
    <3>1. CASE j = k
      BY <3>1, <2>1, <2>2, <2>3, NoneAssumption
    <3>2. CASE j # k
      BY <3>2, <2>1, <2>2
    <3> QED
      BY <3>1, <3>2
  <2> QED
    BY <2>4
<1>3. CASE StopNext
  BY <1>3 DEF StopNext, StopMount, First
<1>4. CASE CloseNext
  BY <1>4 DEF CloseNext, CloseMount
<1>5. CASE BeginUnmount
  BY <1>5 DEF BeginUnmount, StopMount, First
<1>6. CASE EndUnmount
  BY <1>6 DEF EndUnmount, CloseMount
<1>7. ASSUME NEW k \in Keys, BeginRequest(k) PROVE Layered'
  BY <1>7 DEF BeginRequest
<1>8. ASSUME NEW k \in Keys, EndRequest(k) PROVE Layered'
  BY <1>8 DEF EndRequest
<1> QED
  BY <1>1, <1>2, <1>3, <1>4, <1>5, <1>6, <1>7, <1>8, MountFrame

-----------------------------------------------------------------------------
\* The mutex is held just by the thread that is inside a critical section.
LEMMA ExclusiveStep ==
  ASSUME TypeOK, Inductive, [Next]_vars, Alive'
  PROVE  Exclusive'
<1> USE DEF TypeOK, Exclusive, Threads, Goto, Done
<1>0. Alive /\ Exclusive
  BY StepCases DEF Inductive, Alive
<1>1. ASSUME NEW t \in Threads,
             SkipPartition(t) \/ RegisterMount(t) \/ MountsDone(t)
      PROVE  Exclusive'
  BY <1>1, <1>0, NoneAssumption DEF SkipPartition, RegisterMount, MountsDone,
     NextMessage, MainStates, MonitorStates
<1>2. ASSUME NEW t \in Threads, OpenPartition(t) PROVE Exclusive'
  BY <1>2, <1>0, NoneAssumption DEF OpenPartition
<1>3. CASE StartMonitor \/ Rescan \/ DispatchClose \/ StopNext \/ CloseNext
  BY <1>3, <1>0, NoneAssumption DEF StartMonitor, Rescan, DispatchClose,
     StopNext, CloseNext
<1>4. CASE ClearMounts \/ StopMonitor \/ FinishClose \/ LeaveLoop
           \/ MountsDestroyed
  BY <1>4, <1>0, NoneAssumption DEF ClearMounts, StopMonitor, FinishClose,
     LeaveLoop, MountsDestroyed
<1>5. CASE CreateWindow \/ RegisterNotification \/ InitialEnumeration
           \/ GetInserted \/ GetRemoved \/ CollectDisk \/ SkipUnmount
  BY <1>5, <1>0, NoneAssumption DEF CreateWindow, RegisterNotification,
     InitialEnumeration, GetInserted, GetRemoved, CollectDisk, SkipUnmount
<1>6. CASE BeginUnmount \/ EndUnmount \/ UnmountsDone \/ GetQuit \/ Cleanup
  BY <1>6, <1>0, NoneAssumption DEF BeginUnmount, EndUnmount, UnmountsDone,
     NextMessage, GetQuit, Cleanup
<1>7. ASSUME NEW k \in Keys,
             BeginRequest(k) \/ EndRequest(k) \/ RequestHangs(k)
             \/ RequestThrows(k)
      PROVE  Exclusive'
  BY <1>7, <1>0 DEF BeginRequest, EndRequest, RequestHangs, RequestThrows, Alive
<1>8. ASSUME NEW d \in Disks, Attach(d) \/ Detach(d) PROVE Exclusive'
  BY <1>8, <1>0 DEF Attach, Detach
<1>9. CASE PostClose \/ ChooseRescan \/ UNCHANGED vars
  BY <1>9, <1>0, NoneAssumption DEF PostClose, ChooseRescan
<1> QED
  BY <1>1, <1>2, <1>3, <1>4, <1>5, <1>6, <1>7, <1>8, <1>9, StepCases

\* Registry and readers differ only by what the threads have in hand.
LEMMA RegisteredStep ==
  ASSUME TypeOK, Inductive, [Next]_vars, Alive'
  PROVE  Registered'
<1> USE DEF TypeOK, HasKey, Registered, Walking, Threads, Goto, Done
<1>0. Alive /\ Exclusive /\ Registered /\ HasKey
  BY StepCases DEF Inductive, Alive
<1>1. ASSUME NEW t \in Threads, SkipPartition(t) \/ MountsDone(t)
      PROVE  Registered'
  BY <1>1, <1>0 DEF SkipPartition, MountsDone, NextMessage
<1>2. ASSUME NEW t \in Threads, OpenPartition(t) PROVE Registered'
  <2>1. PICK k \in Keys :
          /\ attached[k[1]] \in Media /\ served[k] = None
          /\ k \notin active_mounts
          /\ served' = [served EXCEPT ![k] = attached[k[1]]]
          /\ cur' = [cur EXCEPT ![t] = k]
    BY <1>0, <1>2, OpensIdleSlot
  <2>2. /\ pc[t] = "mount" /\ mutex = None
        /\ pc' = [pc EXCEPT ![t] = "register"]
        /\ active_mounts' = active_mounts
    BY <1>2 DEF OpenPartition
  <2>3. \A u \in Threads : pc[u] # "register"
    BY <1>0, <2>2, NoneAssumption DEF Exclusive
  <2>4. ~Walking /\ pc["monitor"] # "unmounting"
    BY <1>0, <2>2, NoneAssumption DEF Exclusive
  <2>5. ~Walking'
    BY <2>2, <2>4
  <2> QED
    BY <2>1, <2>2, <2>3, <2>4, <2>5, <1>0, NoneAssumption
<1>3. ASSUME NEW t \in Threads, RegisterMount(t) PROVE Registered'
  <2>1. /\ pc[t] = "register" /\ cur[t] \in Keys
        /\ \A u \in Threads : pc'[u] # "register"
    BY <1>3, <1>0, NoneAssumption DEF RegisterMount, Exclusive
  <2> QED
    BY <2>1, <1>3, <1>0, NoneAssumption DEF RegisterMount, Exclusive
<1>4. CASE DispatchClose
  BY <1>4, <1>0, NoneAssumption DEF DispatchClose, Exclusive
<1>5. CASE StopNext
  BY <1>5, <1>0, NoneAssumption DEF StopNext, StopMount, First, Exclusive
<1>6. CASE CloseNext
  BY <1>6, <1>0, NoneAssumption DEF CloseNext, CloseMount, Exclusive
<1>7. CASE ClearMounts
  BY <1>7, <1>0, NoneAssumption DEF ClearMounts, Exclusive
<1>8. CASE LeaveLoop
  BY <1>8, <1>0, NoneAssumption DEF LeaveLoop, Exclusive
<1>9. CASE BeginUnmount
  BY <1>9, <1>0, NoneAssumption DEF BeginUnmount, StopMount, First, Exclusive
<1>10. CASE EndUnmount
  BY <1>10, <1>0, NoneAssumption DEF EndUnmount, CloseMount, Exclusive
<1>11. CASE StartMonitor \/ Rescan \/ StopMonitor \/ FinishClose
            \/ MountsDestroyed
  BY <1>11, <1>0 DEF StartMonitor, Rescan, StopMonitor, FinishClose,
     MountsDestroyed, Alive, Exclusive
<1>12. CASE CreateWindow \/ RegisterNotification \/ InitialEnumeration
            \/ GetInserted \/ GetRemoved \/ CollectDisk \/ SkipUnmount
            \/ UnmountsDone \/ GetQuit \/ Cleanup
  BY <1>12, <1>0 DEF CreateWindow, RegisterNotification, InitialEnumeration,
     GetInserted, GetRemoved, CollectDisk, SkipUnmount, UnmountsDone,
     NextMessage, GetQuit, Cleanup
<1>13. ASSUME NEW k \in Keys,
              BeginRequest(k) \/ EndRequest(k) \/ RequestHangs(k)
              \/ RequestThrows(k)
       PROVE  Registered'
  BY <1>13, <1>0 DEF BeginRequest, EndRequest, RequestHangs, RequestThrows, Alive
<1>14. ASSUME NEW d \in Disks, Attach(d) \/ Detach(d) PROVE Registered'
  BY <1>14, <1>0 DEF Attach, Detach
<1>15. CASE PostClose \/ ChooseRescan \/ UNCHANGED vars
  BY <1>15, <1>0 DEF PostClose, ChooseRescan
<1> QED
  BY <1>1, <1>2, <1>3, <1>4, <1>5, <1>6, <1>7, <1>8, <1>9, <1>10, <1>11,
     <1>12, <1>13, <1>14, <1>15, <1>0, StepCases

\* Static destruction leaves an empty registry, and nothing mounted.
LEMMA ExitStep ==
  ASSUME TypeOK, Inductive, [Next]_vars
  PROVE  NothingLeft' /\ (pc["main"] = "exited" => active_mounts = {})'
<1> USE DEF TypeOK, NothingLeft, Threads, Goto
<1>1. CASE Alive /\ MountsDestroyed
  <2>1. pc["main"] = "destroy" /\ todo["main"] = {} /\ active_mounts' = {}
    BY <1>1 DEF MountsDestroyed
  <2>2. \A t \in Threads : pc[t] # "register"
    BY <1>1, <2>1 DEF Inductive, Exclusive
  <2>3. \A k \in Keys : served[k] = None
    BY <1>1, <2>1, <2>2 DEF Inductive, Registered, Walking
  <2>4. \A k \in Keys : projfs[k] = "off" /\ requests[k] = 0
    BY <2>3 DEF Inductive, Layered
  <2> QED
    BY <1>1, <2>1, <2>3, <2>4 DEF MountsDestroyed
<1>2. CASE UNCHANGED vars
  BY <1>2 DEF Inductive
<1>3. CASE pc'["main"] # "exited"
  BY <1>3
<1> QED
  <2> SUFFICES ASSUME pc'["main"] = "exited", ~UNCHANGED vars
               PROVE  Alive /\ MountsDestroyed
    BY <1>1, <1>2, <1>3
  <2>1. Alive
    BY StepCases
  <2> USE DEF Alive
  <2>2. ~\E t \in Threads : SkipPartition(t) \/ OpenPartition(t)
                            \/ RegisterMount(t) \/ MountsDone(t)
    BY <2>1 DEF SkipPartition, OpenPartition, RegisterMount, MountsDone
  <2>3. ~(StartMonitor \/ Rescan \/ DispatchClose \/ StopNext \/ CloseNext
          \/ ClearMounts \/ StopMonitor \/ FinishClose \/ LeaveLoop)
    BY <2>1 DEF StartMonitor, Rescan, DispatchClose, StopNext, CloseNext,
       ClearMounts, StopMonitor, FinishClose, LeaveLoop
  <2>4. ~(CreateWindow \/ RegisterNotification \/ InitialEnumeration
          \/ GetInserted \/ GetRemoved \/ CollectDisk \/ SkipUnmount
          \/ BeginUnmount \/ EndUnmount \/ UnmountsDone \/ GetQuit \/ Cleanup)
    BY <2>1 DEF CreateWindow, RegisterNotification, InitialEnumeration,
       GetInserted, GetRemoved, CollectDisk, SkipUnmount, BeginUnmount,
       EndUnmount, UnmountsDone, NextMessage, GetQuit, Cleanup
  <2>5. ~\E k \in Keys : BeginRequest(k) \/ EndRequest(k) \/ RequestHangs(k)
                         \/ RequestThrows(k)
    BY <2>1 DEF BeginRequest, EndRequest, RequestHangs, RequestThrows
  <2>6. ~(PostClose \/ ChooseRescan \/ \E d \in Disks : Attach(d) \/ Detach(d))
    BY <2>1 DEF PostClose, ChooseRescan, Attach, Detach
  <2> QED
    BY <2>1, <2>2, <2>3, <2>4, <2>5, <2>6, StepCases

-----------------------------------------------------------------------------
\* The inductive invariant holds in every state the daemon reaches.
THEOREM InductiveInvariant == Spec => [](TypeOK /\ Inductive)
<1>1. Init => Inductive
  BY NoneAssumption DEF Init, Inductive, HasKey, Layered, NothingLeft, Exclusive,
     Registered, Walking, Threads, Keys
<1>2. TypeOK /\ Inductive /\ [Next]_vars /\ (TypeOK /\ HasKey)' => Inductive'
  BY LayeredStep, ExclusiveStep, RegisteredStep, ExitStep DEF Inductive
<1> QED
  BY <1>1, <1>2, TypeCorrect, PTL DEF Spec

\* No ProjFS callback ever runs over an unmounted reader, whatever the number of
\* drives and partitions and whichever thread takes the mount down
\* (daemon_main.cpp:91-107, 174-190; projfs_mount.cpp:204-212).
THEOREM ReaderUnderRequests == Spec => []RequestsHaveReader
<1>1. TypeOK /\ Inductive => RequestsHaveReader
  BY DEF TypeOK, Inductive, Layered, RequestsHaveReader
<1> QED
  BY <1>1, InductiveInvariant, PTL

\* When the mutex is free the registry and the mounted readers agree
\* (daemon_main.cpp:46-89, 91-107, 174-190).
THEOREM RegistryCorrect == Spec => []RegistryExact
<1>1. TypeOK /\ Inductive => RegistryExact
  <2> SUFFICES ASSUME TypeOK, Inductive, mutex = None,
                      pc["main"] \notin {"destroy", "destroying", "crashed"}
               PROVE  active_mounts = {k \in Keys : served[k] # None}
    BY DEF RegistryExact
  <2>1. CASE pc["main"] = "exited"
    BY <2>1 DEF Inductive, NothingLeft
  <2>2. CASE Alive
    <3>1. Exclusive /\ Registered
      BY <2>2 DEF Inductive
    <3>2. ~Walking /\ \A t \in Threads : pc[t] # "register"
      BY <3>1, NoneAssumption DEF Exclusive, Walking, Threads
    <3> QED
      BY <3>1, <3>2 DEF Registered, TypeOK
  <2> QED
    BY <2>1, <2>2 DEF Alive
<1> QED
  BY <1>1, InductiveInvariant, PTL

\* A process that has gone through static destruction leaves nothing mounted,
\* projected or in flight (daemon_main.cpp:23-36, 262-274).
THEOREM CleanExit == Spec => []NothingLeft
<1>1. TypeOK /\ Inductive => NothingLeft
  BY DEF Inductive
<1> QED
  BY <1>1, InductiveInvariant, PTL

\* The daemon implements the promise of MountTable: no slot is opened twice, and
\* none is closed or rebound under a request.
THEOREM Implementation == Spec => KeepsPromise
<1> USE DEF Promise!vars, Keys
<1>1. Init => Promise!Init
  BY DEF Init, Promise!Init
<1>2. TypeOK /\ Inductive /\ [Next]_vars => [Promise!Next]_(Promise!vars)
  <2> SUFFICES ASSUME TypeOK, Inductive, [Next]_vars
               PROVE  [Promise!Next]_(Promise!vars)
    OBVIOUS
  <2> USE DEF TypeOK, HasKey, Threads
  <2>1. CASE UNCHANGED <<served, projfs, requests>>
    BY <2>1
  <2>2. ASSUME NEW t \in Threads, Alive, OpenPartition(t)
        PROVE  [Promise!Next]_(Promise!vars)
    <3>1. PICK k \in Keys :
            /\ attached[k[1]] \in Media /\ served[k] = None
            /\ served' = [served EXCEPT ![k] = attached[k[1]]]
      BY <2>2, OpensIdleSlot
    <3>2. requests[k] = 0 /\ requests' = requests
      BY <3>1, <2>2 DEF OpenPartition, Inductive, Layered
    <3>3. Promise!Mount(k)
      BY <3>1, <3>2 DEF Promise!Mount
    <3> QED
      BY <3>3 DEF Promise!Next
  <2>3. CASE Alive /\ (StopNext \/ BeginUnmount)
    BY <2>3 DEF StopNext, BeginUnmount, StopMount
  <2>4. ASSUME NEW t \in Threads, cur[t] \in Keys, CloseMount(t),
               requests' = requests
        PROVE  [Promise!Next]_(Promise!vars)
    <3>1. CASE served[cur[t]] = None
      BY <2>4, <3>1 DEF CloseMount
    <3>2. CASE served[cur[t]] # None
      <4>1. Promise!Unmount(cur[t])
        BY <2>4, <3>2 DEF CloseMount, Promise!Unmount
      <4> QED
        BY <4>1, <2>4 DEF Promise!Next
    <3> QED
      BY <3>1, <3>2
  <2>5. CASE Alive /\ CloseNext
    BY <2>5, <2>4 DEF CloseNext, Inductive
  <2>6. CASE Alive /\ EndUnmount
    BY <2>6, <2>4 DEF EndUnmount, Inductive
  <2>7. ASSUME NEW k \in Keys, BeginRequest(k)
        PROVE  [Promise!Next]_(Promise!vars)
    <3>1. Promise!Begin(k)
      BY <2>7 DEF BeginRequest, Inductive, Layered, Promise!Begin, mounts
    <3> QED
      BY <3>1 DEF Promise!Next
  <2>8. ASSUME NEW k \in Keys, EndRequest(k)
        PROVE  [Promise!Next]_(Promise!vars)
    <3>1. Promise!End(k)
      BY <2>8 DEF EndRequest, Promise!End
    <3> QED
      BY <3>1 DEF Promise!Next
  <2> QED
    BY <2>1, <2>2, <2>3, <2>5, <2>6, <2>7, <2>8, MountFrame
<1> QED
  BY <1>1, <1>2, InductiveInvariant, PTL DEF Spec, KeepsPromise, Promise!Spec

-----------------------------------------------------------------------------
\* Every list of partitions to mount is made by the filter and only shortened after
\* that, and a drive that gets another disk in the meantime is noted.
LEMMA ListedStep ==
  ASSUME TypeOK, Listed, [Next]_vars
  PROVE  Listed'
<1> USE DEF TypeOK, Listed, Threads, Goto, Done
<1>1. \A k \in MountableNow :
        k[1] \in Disks /\ IsMountable(Layout[attached[k[1]]][k[2]])
  BY DEF MountableNow, Present, Keys
<1>2. ASSUME NEW t \in Threads, SkipPartition(t) \/ RegisterMount(t)
      PROVE  Listed'
  <2>1. /\ UNCHANGED <<attached, replaced>>
        /\ \A u \in Threads : u # t => pc'[u] = pc[u] /\ todo'[u] = todo[u]
        /\ pc[t] \in {"mount", "register"} /\ todo'[t] \subseteq todo[t]
    BY <1>2 DEF SkipPartition, RegisterMount
  <2> QED
    BY <2>1
<1>3. ASSUME NEW t \in Threads, MountsDone(t) PROVE Listed'
  BY <1>3 DEF MountsDone, NextMessage
<1>4. ASSUME NEW t \in Threads, OpenPartition(t) PROVE Listed'
  BY <1>4 DEF OpenPartition
<1>5. CASE Rescan \/ InitialEnumeration \/ GetInserted
  BY <1>5, <1>1 DEF Rescan, InitialEnumeration, GetInserted
<1>6. CASE StartMonitor \/ DispatchClose \/ StopNext \/ ClearMounts
           \/ StopMonitor \/ FinishClose \/ LeaveLoop \/ MountsDestroyed
  BY <1>6, SMTT(30) DEF StartMonitor, DispatchClose, StopNext, StopMount,
     ClearMounts, StopMonitor, FinishClose, LeaveLoop, MountsDestroyed
<1>7. CASE CloseNext \/ EndUnmount
  BY <1>7, ZenonT(40) DEF CloseNext, EndUnmount, CloseMount
<1>8. CASE CreateWindow \/ RegisterNotification \/ GetRemoved \/ CollectDisk
           \/ SkipUnmount \/ BeginUnmount \/ UnmountsDone \/ GetQuit \/ Cleanup
  BY <1>8 DEF CreateWindow, RegisterNotification, GetRemoved, CollectDisk,
     SkipUnmount, BeginUnmount, StopMount, UnmountsDone, NextMessage, GetQuit,
     Cleanup
<1>9. ASSUME NEW k \in Keys,
             BeginRequest(k) \/ EndRequest(k) \/ RequestHangs(k)
             \/ RequestThrows(k)
      PROVE  Listed'
  BY <1>9 DEF BeginRequest, EndRequest, RequestHangs, RequestThrows
<1>10. ASSUME NEW d \in Disks, Attach(d) PROVE Listed'
  <2>1. /\ UNCHANGED <<pc, todo>>
        /\ \A e \in Disks \ {d} : attached'[e] = attached[e]
        /\ \A t \in Threads : /\ replaced[t] \subseteq replaced'[t]
                              /\ pc[t] \in {"mount", "register"} => d \in replaced'[t]
    BY <1>10 DEF Attach
  <2> SUFFICES ASSUME NEW t \in Threads, pc[t] \in {"mount", "register"},
                      NEW k \in todo[t]
               PROVE  \/ attached'[k[1]] = None \/ k[1] \in replaced'[t]
                      \/ IsMountable(Layout[attached'[k[1]]][k[2]])
    BY <2>1
  <2>2. k[1] \in Disks
    BY DEF Keys
  <2> QED
    BY <2>1, <2>2
<1>11. ASSUME NEW d \in Disks, Detach(d) PROVE Listed'
  BY <1>11 DEF Detach
<1>12. CASE PostClose \/ ChooseRescan \/ UNCHANGED vars
  BY <1>12 DEF PostClose, ChooseRescan
<1> QED
  BY <1>2, <1>3, <1>4, <1>5, <1>6, <1>7, <1>8, <1>9, <1>10, <1>11, <1>12, StepCases

\* A step that mounts what the filter excludes mounts a disk that was plugged in after
\* the listing.
LEMMA OpensListed ==
  ASSUME TypeOK, Listed, [Next]_vars, NEW t \in Threads,
         pc[t] = "mount", pc'[t] = "register"
  PROVE  \/ IsMountable(Layout[served'[cur'[t]]][cur'[t][2]])
         \/ cur'[t][1] \in replaced[t]
<1>1. OpenPartition(t)
  <2> USE DEF TypeOK, Threads, Goto
  <2>1. ASSUME NEW u \in Threads, u # t, OpenPartition(u) PROVE FALSE
    BY <2>1 DEF OpenPartition
  <2>2. ASSUME NEW u \in Threads,
               SkipPartition(u) \/ RegisterMount(u) \/ MountsDone(u)
        PROVE  FALSE
    BY <2>2 DEF SkipPartition, RegisterMount, MountsDone, NextMessage
  <2>3. ~(StartMonitor \/ Rescan \/ DispatchClose \/ StopNext \/ CloseNext
          \/ ClearMounts \/ StopMonitor \/ FinishClose \/ LeaveLoop \/ MountsDestroyed)
    BY SMTT(30) DEF StartMonitor, Rescan, DispatchClose, StopNext,
       CloseNext, ClearMounts, StopMonitor, FinishClose, LeaveLoop, MountsDestroyed
  <2>4. ~(CreateWindow \/ RegisterNotification \/ InitialEnumeration \/ GetInserted
          \/ GetRemoved \/ CollectDisk \/ SkipUnmount \/ BeginUnmount \/ EndUnmount
          \/ UnmountsDone \/ GetQuit \/ Cleanup)
    BY SMTT(30) DEF CreateWindow, RegisterNotification, InitialEnumeration,
       GetInserted, GetRemoved, CollectDisk, SkipUnmount, BeginUnmount,
       EndUnmount, UnmountsDone, NextMessage, GetQuit, Cleanup
  <2>5. \A k \in Keys : ~(BeginRequest(k) \/ EndRequest(k) \/ RequestHangs(k)
                          \/ RequestThrows(k))
    BY DEF BeginRequest, EndRequest, RequestHangs, RequestThrows
  <2>6. \A d \in Disks : ~(Attach(d) \/ Detach(d))
    BY DEF Attach, Detach
  <2>7. ~(PostClose \/ ChooseRescan \/ UNCHANGED vars)
    BY DEF PostClose, ChooseRescan
  <2> QED
    BY <2>1, <2>2, <2>3, <2>4, <2>5, <2>6, <2>7, StepCases
<1>2. PICK k \in First(todo[t]) :
        /\ CanOpen(k) /\ served' = [served EXCEPT ![k] = attached[k[1]]]
        /\ cur' = [cur EXCEPT ![t] = k]
  BY <1>1 DEF OpenPartition
<1>3. k \in Keys /\ k \in todo[t] /\ attached[k[1]] # None
  BY <1>2 DEF First, CanOpen, Present, TypeOK
<1>4. cur'[t] = k /\ served'[k] = attached[k[1]]
  BY <1>2, <1>3 DEF TypeOK
<1>5. k[1] \in replaced[t] \/ IsMountable(Layout[attached[k[1]]][k[2]])
  BY <1>3 DEF Listed
<1> QED
  BY <1>4, <1>5

\* What the filter excludes is mounted only from a disk that was plugged in after the
\* drives were listed, for any disks, sockets, partition tables, failures and bounds
\* (daemon_main.cpp:46-65, 124-129, 240-247; disk_enumerator.cpp:235-247).
THEOREM DataOnly == Spec => OnlyDataMounted
<1>1. Init => Listed
  BY DEF Init, Listed, Threads
<1>2. TypeOK /\ Listed /\ [Next]_vars => Listed'
  BY ListedStep
<1>3. TypeOK /\ Listed /\ [Next]_vars =>
        [\A t \in Threads : pc[t] = "mount" /\ pc'[t] = "register" =>
           LET k == cur'[t]
           IN  IsMountable(Layout[served'[k]][k[2]]) \/ k[1] \in replaced[t]]_vars
  BY OpensListed
<1> QED
  BY <1>1, <1>2, <1>3, TypeCorrect, PTL DEF Spec, OnlyDataMounted
=============================================================================
