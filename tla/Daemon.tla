------------------------------- MODULE Daemon -------------------------------
(***************************************************************************)
(* The resident daemon: the registry of active mounts of                   *)
(* src/service/daemon_main.cpp, the hotplug thread of                      *)
(* src/disk/disk_monitor.cpp, the ProjFS worker threads that serve         *)
(* requests from a mount, and the system that plugs disks in and out and   *)
(* posts WM_CLOSE. "main" is the thread of wWinMain (rescan, window        *)
(* procedure, static destruction), "monitor" the one DiskMonitor::start    *)
(* makes. Both change the registry under g_mount_mutex.                    *)
(***************************************************************************)
EXTENDS Integers, FiniteSets, Sequences, PartitionFilter

CONSTANTS
  Disks,       \* the N of the \\.\PhysicalDriveN names in use
  Parts,       \* partition numbers
  Media,       \* the physical disks that come and go
  None,        \* no medium, no key, no thread
  Sockets,     \* Sockets[d]: the media Windows may enumerate as drive d
  Layout,      \* Layout[m][p]: the partition table entry p of medium m
  Faults,      \* the calls that may fail: "window", "notify", "open", "projfs"
  Relock,      \* what re-locking tree_mutex_ may do: "return", "hang", "throw"
  MaxAttach,   \* bound: how often a disk is plugged in
  MaxDetach,   \* bound: how often a disk is pulled out
  MaxClose,    \* bound: how many WM_CLOSE messages are posted
  MaxRescan,   \* bound: how often "Rescan Disks Now" is chosen
  MaxRequests  \* bound: requests ProjFS has in flight on one mount

Threads == {"main", "monitor"}
Keys    == Disks \X Parts      \* (disk_index, partition_number)

ASSUME DisksAssumption == Disks \subseteq Nat /\ Parts \subseteq Nat
ASSUME NoneAssumption == None \notin Media \cup Threads
ASSUME SocketsAssumption == Sockets \in [Disks -> SUBSET Media]
ASSUME BoundsAssumption ==
  {MaxAttach, MaxDetach, MaxClose, MaxRescan, MaxRequests} \subseteq Nat

VARIABLES
  attached,       \* attached[d]: the medium Windows shows as drive d
  devices,        \* WM_DEVICECHANGE messages sent to the monitor's window
  budget,         \* what is left of the Max bounds
  closes,         \* WM_CLOSE messages in the main window's queue
  flags,          \* which of these hold: "running", "hwnd", "notified" (the
                  \* fields running_, hwnd_, hDevNotify_ of the DiskMonitor),
                  \* "quit" (a WM_QUIT for its window), "joined" (its thread
                  \* has been joined), "quitting" (PostQuitMessage was called)
  pc,             \* where each thread is
  todo,           \* todo[t]: keys the loop thread t is in has still to handle
  replaced,       \* history: replaced[t], the drives that got a disk since t
                  \* listed the partitions it is mounting
  cur,            \* cur[t]: the key thread t has half mounted or unmounted
  removed,        \* drives whose Removed callback is still to be made
  mutex,          \* the holder of g_mount_mutex between two steps
  active_mounts,  \* the keys of g_active_mounts
  served,         \* served[k]: the medium k's Ext4Reader is mounted on
  projfs,         \* projfs[k]: "off", "on", or "stopping" in PrjStopVirtualizing
  requests,       \* requests[k]: ProjFS callbacks in flight
  hung            \* mounts whose tree_mutex_ is held forever

windows == <<attached, devices, budget, closes, replaced>>
flow    == <<pc, todo, cur, removed, mutex>>
mounts  == <<active_mounts, served, projfs>>
calls   == <<requests, hung>>
vars    == <<windows, flags, flow, mounts, calls>>

Alive == pc["main"] \notin {"exited", "crashed"}

Goto(t, state) == pc' = [pc EXCEPT ![t] = state]
Done(t, k)     == todo' = [todo EXCEPT ![t] = @ \ {k}]

-----------------------------------------------------------------------------
\* Enumeration, and the order of its vectors and of std::map.

Present == {d \in Disks : attached[d] # None}

\* Variant: the filter is forgotten.
MountableNow_unfiltered ==
  {k \in Keys : /\ k[1] \in Present
               /\ Layout[attached[k[1]]][k[2]].length # 0}

\* get_all_mountable_partitions, and the loop of the Inserted callback: both
\* list the mountable partitions of the drives present now.
MountableNow ==
  {k \in Keys : k[1] \in Present /\ IsMountable(Layout[attached[k[1]]][k[2]])}

\* The mountable partitions are listed, and mounted one after the other.
ListPartitions(t) ==
  /\ todo' = [todo EXCEPT ![t] = MountableNow]
  /\ Goto(t, "mount")

Before(a, b) == a[1] < b[1] \/ (a[1] = b[1] /\ a[2] < b[2])
First(S) == {k \in S : \A j \in S \ {k} : Before(k, j)}

-----------------------------------------------------------------------------
\* mount_data_partition, called by both threads: the mutex is held from the
\* look-up to the insertion. open_read_only names the drive, so it opens
\* whatever medium is there now; the medium must carry an ext superblock where
\* the partition was when the drives were listed.

\* Variant: the registry is not looked up.
AlreadyMounted_unchecked(k) == FALSE

AlreadyMounted(k) == k \in active_mounts

CanOpen(k) == k[1] \in Present /\ Layout[attached[k[1]]][k[2]].head.ext

\* Variant: the loop over the partitions ends at the first one not mounted.
SkipPartition_breaks(t) ==
  /\ pc[t] = "mount" /\ mutex = None
  /\ \E k \in First(todo[t]) :
       AlreadyMounted(k) \/ ~CanOpen(k) \/ "open" \in Faults
  /\ todo' = [todo EXCEPT ![t] = {}]
  /\ UNCHANGED <<windows, flags, pc, cur, removed, mutex, mounts, calls>>

SkipPartition(t) ==
  /\ pc[t] = "mount" /\ mutex = None
  /\ \E k \in First(todo[t]) :
       /\ AlreadyMounted(k) \/ ~CanOpen(k) \/ "open" \in Faults
       /\ Done(t, k)
  /\ UNCHANGED <<windows, flags, pc, cur, removed, mutex, mounts, calls>>

\* Variant: the mutex is not held from the look-up to the insertion.
OpenPartition_unlocked(t) ==
  /\ pc[t] = "mount" /\ mutex = None
  /\ \E k \in First(todo[t]) :
       /\ ~AlreadyMounted(k) /\ CanOpen(k)
       /\ served' = [served EXCEPT ![k] = attached[k[1]]]
       /\ projfs' = [projfs EXCEPT ![k] = "on"]
       /\ cur' = [cur EXCEPT ![t] = k]
       /\ Done(t, k)
  /\ Goto(t, "register")
  /\ UNCHANGED <<windows, flags, removed, mutex, active_mounts, calls>>

\* The result of ProjFSMount::start is not looked at.
OpenPartition(t) ==
  /\ pc[t] = "mount" /\ mutex = None
  /\ \E k \in First(todo[t]) :
       /\ ~AlreadyMounted(k) /\ CanOpen(k)
       /\ served' = [served EXCEPT ![k] = attached[k[1]]]
       /\ \E state \in {"on"} \cup {s \in {"off"} : "projfs" \in Faults} :
            projfs' = [projfs EXCEPT ![k] = state]
       /\ cur' = [cur EXCEPT ![t] = k]
       /\ Done(t, k)
  /\ mutex' = t
  /\ Goto(t, "register")
  /\ UNCHANGED <<windows, flags, removed, active_mounts, calls>>

\* The insertion into g_active_mounts, the balloon and the unlock.
RegisterMount(t) ==
  /\ pc[t] = "register"
  /\ active_mounts' = active_mounts \cup {cur[t]}
  /\ cur' = [cur EXCEPT ![t] = None]
  /\ mutex' = None
  /\ Goto(t, "mount")
  /\ UNCHANGED <<windows, flags, todo, removed, served, projfs, calls>>

\* Variant: the monitor's loop is `while (GetMessage(...))`.
NextMessage_untested == "get"

\* The monitor's message loop tests running_ before it calls GetMessage.
NextMessage == IF "running" \in flags THEN "get" ELSE "cleanup"

\* Variant: both threads go on to the monitor's message loop.
MountsDone_confused(t) ==
  /\ pc[t] = "mount" /\ todo[t] = {}
  /\ Goto(t, NextMessage)
  /\ UNCHANGED <<windows, flags, todo, cur, removed, mutex, mounts, calls>>

MountsDone(t) ==
  /\ pc[t] = "mount" /\ todo[t] = {}
  /\ Goto(t, IF t = "main" THEN "loop" ELSE NextMessage)
  /\ replaced' = [replaced EXCEPT ![t] = {}]
  /\ UNCHANGED <<attached, devices, budget, closes, flags, todo, cur, removed,
                 mutex, mounts, calls>>

-----------------------------------------------------------------------------
\* Taking a mount down, in two halves. ProjFSMount::stop calls
\* PrjStopVirtualizing, which starts no further callback and returns when those
\* in flight have ended (ProjFS: external); then the reader is unmounted and
\* the device closed. A projection that never started has nothing to wait for.

\* Variant: the reader is unmounted before the projection is stopped.
StopMount_readerFirst(t, k) ==
  /\ projfs' = [projfs EXCEPT ![k] = IF @ = "on" THEN "stopping" ELSE @]
  /\ served' = [served EXCEPT ![k] = None]
  /\ cur' = [cur EXCEPT ![t] = k]

StopMount(t, k) ==
  /\ projfs' = [projfs EXCEPT ![k] = IF @ = "on" THEN "stopping" ELSE @]
  /\ cur' = [cur EXCEPT ![t] = k]
  /\ UNCHANGED served

CloseMount(t) ==
  /\ requests[cur[t]] = 0
  /\ projfs' = [projfs EXCEPT ![cur[t]] = "off"]
  /\ served' = [served EXCEPT ![cur[t]] = None]
  /\ cur' = [cur EXCEPT ![t] = None]

-----------------------------------------------------------------------------
\* The main thread. wWinMain has made its window and tray icon.

StartMonitor ==
  /\ pc["main"] = "boot"
  /\ flags' = flags \cup {"running"}
  /\ pc' = [pc EXCEPT !["main"] = "rescan", !["monitor"] = "create"]
  /\ UNCHANGED <<windows, todo, cur, removed, mutex, mounts, calls>>

\* rescan_and_mount_all: the partitions are listed once, then mounted.
Rescan ==
  /\ pc["main"] = "rescan"
  /\ ListPartitions("main")
  /\ UNCHANGED <<windows, flags, cur, removed, mutex, mounts, calls>>

\* The WM_CLOSE handler takes the mutex and walks g_active_mounts.
DispatchClose ==
  /\ pc["main"] = "loop" /\ closes > 0 /\ mutex = None
  /\ closes' = closes - 1
  /\ mutex' = "main"
  /\ todo' = [todo EXCEPT !["main"] = active_mounts]
  /\ Goto("main", "closing")
  /\ UNCHANGED <<attached, devices, budget, replaced, flags, cur, removed, mounts,
                 calls>>

\* The walk stops each entry in turn; so does the destruction of the map.
StopNext ==
  /\ pc["main"] \in {"closing", "destroy"}
  /\ \E k \in First(todo["main"]) : StopMount("main", k) /\ Done("main", k)
  /\ Goto("main", IF pc["main"] = "closing" THEN "draining" ELSE "destroying")
  /\ UNCHANGED <<windows, flags, removed, mutex, active_mounts, calls>>

CloseNext ==
  /\ pc["main"] \in {"draining", "destroying"}
  /\ CloseMount("main")
  /\ Goto("main", IF pc["main"] = "draining" THEN "closing" ELSE "destroy")
  /\ UNCHANGED <<windows, flags, todo, removed, mutex, active_mounts, calls>>

\* g_active_mounts.clear() and the end of the critical section.
ClearMounts ==
  /\ pc["main"] = "closing" /\ todo["main"] = {}
  /\ active_mounts' = {}
  /\ mutex' = None
  /\ Goto("main", "stop")
  /\ UNCHANGED <<windows, flags, todo, cur, removed, served, projfs, calls>>

\* DiskMonitor::stop does nothing when running_ is already false; otherwise it
\* clears running_, posts WM_QUIT if there is a window, and joins the thread.
StopMonitor ==
  /\ pc["main"] = "stop"
  /\ \/ /\ "running" \in flags
        /\ flags' = (flags \ {"running"})
                      \cup {f \in {"quit"} : "hwnd" \in flags}
        /\ Goto("main", "join")
     \/ "running" \notin flags /\ Goto("main", "quit") /\ UNCHANGED flags
  /\ UNCHANGED <<windows, todo, cur, removed, mutex, mounts, calls>>

\* Variant: the thread is detached instead of joined.
FinishClose_detached ==
  /\ pc["main"] \in {"join", "quit"}
  /\ flags' = flags \cup {"quitting"} \cup {f \in {"joined"} : pc["main"] = "join"}
  /\ Goto("main", "loop")
  /\ UNCHANGED <<windows, todo, cur, removed, mutex, mounts, calls>>

\* The join returns; PostQuitMessage ends the handler.
FinishClose ==
  /\ \/ /\ pc["main"] = "join" /\ pc["monitor"] = "ended"
        /\ flags' = flags \cup {"quitting", "joined"}
     \/ /\ pc["main"] = "quit"
        /\ flags' = flags \cup {"quitting"}
  /\ Goto("main", "loop")
  /\ UNCHANGED <<windows, todo, cur, removed, mutex, mounts, calls>>

\* GetMessage returns 0 when the posted messages are used up, and wWinMain
\* returns. Static destruction begins with g_disk_monitor, defined after
\* g_active_mounts: a worker_thread_ that was never joined is still joinable,
\* and its destructor calls std::terminate.
LeaveLoop ==
  /\ pc["main"] = "loop" /\ closes = 0 /\ "quitting" \in flags
  /\ todo' = [todo EXCEPT !["main"] = active_mounts]
  /\ Goto("main", IF "joined" \in flags THEN "destroy" ELSE "crashed")
  /\ UNCHANGED <<windows, flags, cur, removed, mutex, mounts, calls>>

\* The map of mounts is destroyed last, by StopNext and CloseNext.
MountsDestroyed ==
  /\ pc["main"] = "destroy" /\ todo["main"] = {}
  /\ active_mounts' = {}
  /\ Goto("main", "exited")
  /\ UNCHANGED <<windows, flags, todo, cur, removed, mutex, served, projfs, calls>>

-----------------------------------------------------------------------------
\* The monitor thread: monitor_thread_proc and WindowProc.

CreateWindow ==
  /\ pc["monitor"] = "create"
  /\ \/ flags' = flags \cup {"hwnd"} /\ Goto("monitor", "notify")
     \/ /\ "window" \in Faults
        /\ flags' = flags \ {"running"}
        /\ Goto("monitor", "ended")
  /\ UNCHANGED <<windows, todo, cur, removed, mutex, mounts, calls>>

\* The result of RegisterDeviceNotificationW is not looked at.
RegisterNotification ==
  /\ pc["monitor"] = "notify"
  /\ \/ flags' = flags \cup {"notified"}
     \/ "notify" \in Faults /\ UNCHANGED flags
  /\ Goto("monitor", "enumerate")
  /\ UNCHANGED <<windows, todo, cur, removed, mutex, mounts, calls>>

InitialEnumeration ==
  /\ pc["monitor"] = "enumerate"
  /\ ListPartitions("monitor")
  /\ UNCHANGED <<windows, flags, cur, removed, mutex, mounts, calls>>

\* WM_DEVICECHANGE: the drives are enumerated anew whatever the event is, and
\* the callback is made for each drive found.
GetInserted ==
  /\ pc["monitor"] = "get"
  /\ devices # <<>> /\ Head(devices) = "Inserted"
  /\ devices' = Tail(devices)
  /\ ListPartitions("monitor")
  /\ UNCHANGED <<attached, budget, closes, replaced, flags, cur, removed, mutex,
                 mounts, calls>>

GetRemoved ==
  /\ pc["monitor"] = "get"
  /\ devices # <<>> /\ Head(devices) = "Removed"
  /\ devices' = Tail(devices)
  /\ removed' = Present
  /\ Goto("monitor", "unmount")
  /\ UNCHANGED <<attached, budget, closes, replaced, flags, todo, cur, mutex,
                 mounts, calls>>

\* unmount_all_partitions_for_disk copies the drive's keys under the mutex.
CollectDisk ==
  /\ pc["monitor"] = "unmount" /\ todo["monitor"] = {} /\ mutex = None
  /\ \E d \in removed :
       /\ \A e \in removed : d <= e
       /\ removed' = removed \ {d}
       /\ todo' = [todo EXCEPT !["monitor"] =
                     {k \in active_mounts : k[1] = d}]
  /\ UNCHANGED <<windows, flags, pc, cur, mutex, mounts, calls>>

\* unmount_data_partition looks the key up again: between the copy and this
\* lock the main thread may have cleared the registry.
SkipUnmount ==
  /\ pc["monitor"] = "unmount" /\ mutex = None
  /\ \E k \in First(todo["monitor"]) \ active_mounts : Done("monitor", k)
  /\ UNCHANGED <<windows, flags, pc, cur, removed, mutex, mounts, calls>>

BeginUnmount ==
  /\ pc["monitor"] = "unmount" /\ mutex = None
  /\ \E k \in First(todo["monitor"]) \cap active_mounts :
       StopMount("monitor", k) /\ Done("monitor", k)
  /\ mutex' = "monitor"
  /\ Goto("monitor", "unmounting")
  /\ UNCHANGED <<windows, flags, removed, active_mounts, calls>>

EndUnmount ==
  /\ pc["monitor"] = "unmounting"
  /\ CloseMount("monitor")
  /\ active_mounts' = active_mounts \ {cur["monitor"]}
  /\ mutex' = None
  /\ Goto("monitor", "unmount")
  /\ UNCHANGED <<windows, flags, todo, removed, calls>>

UnmountsDone ==
  /\ pc["monitor"] = "unmount" /\ todo["monitor"] = {} /\ removed = {}
  /\ Goto("monitor", NextMessage)
  /\ UNCHANGED <<windows, flags, todo, cur, removed, mutex, mounts, calls>>

GetQuit ==
  /\ pc["monitor"] = "get" /\ "quit" \in flags
  /\ flags' = flags \ {"quit"}
  /\ Goto("monitor", "cleanup")
  /\ UNCHANGED <<windows, todo, cur, removed, mutex, mounts, calls>>

\* The notification is unregistered, the window destroyed, the thread returns.
Cleanup ==
  /\ pc["monitor"] = "cleanup"
  /\ flags' = flags \ {"notified", "hwnd"}
  /\ devices' = <<>>
  /\ Goto("monitor", "ended")
  /\ UNCHANGED <<attached, budget, closes, replaced, todo, cur, removed, mutex,
                 mounts, calls>>

-----------------------------------------------------------------------------
\* ProjFS (external) calls back on threads of its own. A request that resolves
\* a path goes through VfsTree::find_node, which locks tree_mutex_ and calls
\* get_root, which locks it again; Relock says what that may do. Requests that
\* do not (the end of an enumeration, say) always return.

BeginRequest(k) ==
  /\ projfs[k] = "on" /\ requests[k] < MaxRequests
  /\ requests' = [requests EXCEPT ![k] = @ + 1]
  /\ UNCHANGED <<windows, flags, flow, mounts, hung>>

EndRequest(k) ==
  /\ requests[k] > 0 /\ k \notin hung
  /\ requests' = [requests EXCEPT ![k] = @ - 1]
  /\ UNCHANGED <<windows, flags, flow, mounts, hung>>

RequestHangs(k) ==
  /\ "hang" \in Relock /\ requests[k] > 0 /\ k \notin hung
  /\ hung' = hung \cup {k}
  /\ UNCHANGED <<windows, flags, flow, mounts, requests>>

\* std::system_error leaves the callback, and the process ends.
RequestThrows(k) ==
  /\ "throw" \in Relock /\ requests[k] > 0 /\ k \notin hung
  /\ Goto("main", "crashed")
  /\ UNCHANGED <<windows, flags, todo, cur, removed, mutex, mounts, calls>>

-----------------------------------------------------------------------------
\* Windows and the user.

Spend(item) == budget[item] > 0 /\ budget' = [budget EXCEPT ![item] = @ - 1]

Announce(event) ==
  devices' = IF "notified" \in flags THEN Append(devices, event) ELSE devices

Attach(d) ==
  /\ d \notin Present
  /\ \E m \in Sockets[d] : /\ \A e \in Disks : attached[e] # m
                           /\ attached' = [attached EXCEPT ![d] = m]
  /\ replaced' = [t \in Threads |-> replaced[t] \cup
                    IF pc[t] \in {"mount", "register"} THEN {d} ELSE {}]
  /\ Spend("attach")
  /\ Announce("Inserted")
  /\ UNCHANGED <<closes, flags, flow, mounts, calls>>

Detach(d) ==
  /\ d \in Present
  /\ attached' = [attached EXCEPT ![d] = None]
  /\ Spend("detach")
  /\ Announce("Removed")
  /\ UNCHANGED <<closes, replaced, flags, flow, mounts, calls>>

\* "Exit" in the tray menu, or linux2win_setup, which looks for the window.
PostClose ==
  /\ pc["main"] \notin {"boot", "destroy", "destroying"}
  /\ closes' = closes + 1
  /\ Spend("close")
  /\ UNCHANGED <<attached, devices, replaced, flags, flow, mounts, calls>>

\* "Rescan Disks Now" in the tray menu. Posted messages and WM_QUIT are
\* retrieved before the click that chooses the item.
ChooseRescan ==
  /\ pc["main"] = "loop" /\ closes = 0 /\ "quitting" \notin flags
  /\ Goto("main", "rescan")
  /\ Spend("rescan")
  /\ UNCHANGED <<attached, devices, closes, replaced, flags, todo, cur, removed,
                 mutex, mounts, calls>>

-----------------------------------------------------------------------------
Init ==
  /\ attached \in [Disks -> Media \cup {None}]
  /\ \A d \in Disks : attached[d] \in Sockets[d] \cup {None}
  /\ \A d, e \in Present : d # e => attached[d] # attached[e]
  /\ devices = <<>>
  /\ budget = [attach |-> MaxAttach, detach |-> MaxDetach,
               close |-> MaxClose, rescan |-> MaxRescan]
  /\ closes = 0 /\ flags = {}
  /\ pc = [t \in Threads |-> IF t = "main" THEN "boot" ELSE "unborn"]
  /\ todo = [t \in Threads |-> {}] /\ replaced = [t \in Threads |-> {}]
  /\ cur = [t \in Threads |-> None]
  /\ removed = {} /\ mutex = None
  /\ active_mounts = {}
  /\ served = [k \in Keys |-> None]
  /\ projfs = [k \in Keys |-> "off"]
  /\ requests = [k \in Keys |-> 0] /\ hung = {}

MountStep(t) ==
  Alive /\ (SkipPartition(t) \/ OpenPartition(t) \/ RegisterMount(t)
            \/ MountsDone(t))

MainStep ==
  Alive /\ (StartMonitor \/ Rescan \/ DispatchClose \/ StopNext \/ CloseNext
            \/ ClearMounts \/ StopMonitor \/ FinishClose \/ LeaveLoop
            \/ MountsDestroyed)

MonitorStep ==
  Alive /\ (CreateWindow \/ RegisterNotification \/ InitialEnumeration
            \/ GetInserted \/ GetRemoved \/ CollectDisk \/ SkipUnmount
            \/ BeginUnmount \/ EndUnmount \/ UnmountsDone \/ GetQuit \/ Cleanup)

Return(k) == Alive /\ EndRequest(k)

OutsideStep ==
  Alive /\ (\/ \E k \in Keys : \/ BeginRequest(k) \/ RequestHangs(k)
                               \/ RequestThrows(k)
            \/ \E d \in Disks : Attach(d) \/ Detach(d)
            \/ PostClose \/ ChooseRescan)

Stopped == ~Alive /\ UNCHANGED vars

Next == \/ MainStep \/ MonitorStep \/ \E t \in Threads : MountStep(t)
        \/ \E k \in Keys : Return(k)
        \/ OutsideStep \/ Stopped

Spec == Init /\ [][Next]_vars

\* Both threads are scheduled, and a request that can end does. Neither the
\* user nor a disk owes anything.
Fairness == /\ WF_vars(MainStep) /\ WF_vars(MonitorStep)
            /\ \A t \in Threads : WF_vars(MountStep(t))
            /\ \A k \in Keys : WF_vars(Return(k))

FairSpec == Spec /\ Fairness
-----------------------------------------------------------------------------
(***************************************************************************)
(* Properties.                                                             *)
(***************************************************************************)

Flags == {"running", "hwnd", "notified", "quit", "joined", "quitting"}

Items == {"attach", "detach", "close", "rescan"}

MainStates ==
  {"boot", "rescan", "mount", "register", "loop", "closing", "draining",
   "stop", "join", "quit", "destroy", "destroying", "exited", "crashed"}

MonitorStates ==
  {"unborn", "create", "notify", "enumerate", "mount", "register", "get",
   "unmount", "unmounting", "cleanup", "ended"}

\* Every variable has the values the code can give it.
TypeOK ==
  /\ attached \in [Disks -> Media \cup {None}]
  /\ devices \in Seq({"Inserted", "Removed"})
  /\ budget \in [Items -> Nat]
  /\ closes \in Nat /\ flags \subseteq Flags
  /\ pc \in [Threads -> MainStates \cup MonitorStates]
  /\ pc["main"] \in MainStates /\ pc["monitor"] \in MonitorStates
  /\ todo \in [Threads -> SUBSET Keys]
  /\ replaced \in [Threads -> SUBSET Disks]
  /\ cur \in [Threads -> Keys \cup {None}]
  /\ removed \subseteq Disks
  /\ mutex \in Threads \cup {None}
  /\ active_mounts \subseteq Keys
  /\ served \in [Keys -> Media \cup {None}]
  /\ projfs \in [Keys -> {"off", "on", "stopping"}]
  /\ requests \in [Keys -> Nat]
  /\ hung \subseteq Keys

\* A ProjFS callback in flight always finds its reader mounted: whichever
\* thread takes a mount down stops the projection, and waits for it, before it
\* unmounts the reader (daemon_main.cpp:97-99 and 179-181, and the destruction
\* of ActiveMount).
RequestsHaveReader == \A k \in Keys : requests[k] > 0 => served[k] # None

\* Whenever g_mount_mutex is free, the registry holds exactly the partitions
\* whose reader is mounted: no thread can find a half-mounted entry, and no
\* mount is left that the registry does not know and nobody would ever take
\* down. Only static destruction works on the registry without the mutex.
RegistryExact ==
  mutex = None /\ pc["main"] \notin {"destroy", "destroying", "crashed"} =>
    active_mounts = {k \in Keys : served[k] # None}

\* A partition the filter excludes is mounted only in one way: its drive got
\* another disk after the drives were listed, since a partition is opened by the
\* number of its drive and not looked at again. Neither of the two loops that
\* mount (rescan_and_mount_all and the hotplug callback), and no order of them,
\* closes, failures and events, mounts one otherwise (daemon_main.cpp:46-65,
\* 124-129, 240-247; disk_enumerator.cpp:235-247).
OnlyDataMounted ==
  [][\A t \in Threads : pc[t] = "mount" /\ pc'[t] = "register" =>
       LET k == cur'[t]
       IN  IsMountable(Layout[served'[k]][k[2]]) \/ k[1] \in replaced[t]]_vars

\* When the process has gone through static destruction nothing is left
\* projected, mounted or in flight, though a mount may have been added while
\* the close handler was at work.
NothingLeft ==
  pc["main"] = "exited" =>
    \A k \in Keys : served[k] = None /\ projfs[k] = "off" /\ requests[k] = 0

\* Every step of the daemon is a step of the promise in MountTable: a slot is
\* rebound only through an unmount, and never under a request.
Promise == INSTANCE MountTable WITH
  Slots <- Keys, table <- served, serving <- requests

KeepsPromise == Promise!Spec

\* A WM_CLOSE ends the process, whatever the monitor is doing when it arrives
\* (no window yet, in its first enumeration, mounting, unmounting, waiting), unless
\* a callback never returns (daemon_main.cpp:174-190, disk_monitor.cpp:32-44).
CloseEnds == closes > 0 ~> (~Alive \/ hung # {})

Closing ==
  "quitting" \in flags \/ pc["main"] \notin {"boot", "rescan", "mount", "register",
                                       "loop"}

\* A data partition of a disk that is there, or that is plugged in at any
\* moment, is eventually served from that disk, unless the disk goes or the
\* daemon is closed.
InsertedIsServed ==
  \A k \in Keys :
    (k \in MountableNow /\ CanOpen(k)) ~>
      (served[k] = attached[k[1]] \/ Closing)

\* The Removed event takes down no mount whose disk is still there.
RemovalSparesPresent ==
  [][\A k \in active_mounts \ active_mounts' :
       pc["monitor"] = "unmounting" => attached[k[1]] # served[k]]_vars
-----------------------------------------------------------------------------
\* The inductive invariant behind RequestsHaveReader, RegistryExact, NothingLeft
\* and KeepsPromise.

\* A thread that has taken a key in hand still has it.
HasKey ==
  \A t \in Threads :
    pc[t] \in {"register", "draining", "destroying", "unmounting"} =>
      cur[t] \in Keys

\* A projection is up only over a mounted reader, and requests come only
\* through a projection that is up.
Layered ==
  \A k \in Keys : /\ projfs[k] # "off" => served[k] # None
                  /\ requests[k] > 0 => projfs[k] # "off"

\* Who holds g_mount_mutex, and when the monitor has certainly ended.
Exclusive ==
  /\ mutex = "main" <=> pc["main"] \in {"register", "closing", "draining"}
  /\ mutex = "monitor" <=> pc["monitor"] \in {"register", "unmounting"}
  /\ "joined" \in flags => pc["monitor"] = "ended"
  /\ pc["main"] \in {"destroy", "destroying"} => "joined" \in flags
  /\ pc["main"] = "boot" => pc["monitor"] = "unborn"

\* The main thread is taking every entry down, in a walk over todo["main"].
Walking == pc["main"] \in {"closing", "draining", "destroy", "destroying"}

\* How the registry and the mounted readers differ while a thread is at work.
Registered ==
  /\ \A k \in Keys : served[k] # None =>
       k \in active_mounts \/ \E t \in Threads : pc[t] = "register" /\ cur[t] = k
  /\ \A t \in Threads : pc[t] = "register" =>
       cur[t] \notin active_mounts /\ served[cur[t]] # None
  /\ pc["monitor"] = "unmounting" => cur["monitor"] \in active_mounts
  /\ ~Walking => \A k \in active_mounts : served[k] # None
  /\ Walking => \A k \in active_mounts : served[k] # None =>
       \/ k \in todo["main"]
       \/ pc["main"] \in {"draining", "destroying"} /\ k = cur["main"]

Inductive ==
  /\ HasKey /\ Layered /\ NothingLeft
  /\ pc["main"] = "exited" => active_mounts = {}
  /\ Alive => Exclusive /\ Registered

\* The inductive invariant behind OnlyDataMounted: what a thread has still to
\* mount the filter admits, on the disk there is, unless the drive got that disk
\* after the listing.
Listed ==
  \A t \in Threads : pc[t] \in {"mount", "register"} =>
    \A k \in todo[t] :
      \/ attached[k[1]] = None \/ k[1] \in replaced[t]
      \/ IsMountable(Layout[attached[k[1]]][k[2]])
=============================================================================
