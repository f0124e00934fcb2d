----------------------------- MODULE MountTable -----------------------------
(***************************************************************************)
(* What the daemon promises whoever reads files through a mount, without   *)
(* threads, mutexes, projections or hotplug: each partition slot serves at *)
(* most one medium at a time, a medium is only ever one that was mounted   *)
(* there, and a slot is mounted, unmounted or rebound to another medium    *)
(* only when no request is being served from it.                           *)
(***************************************************************************)
EXTENDS Naturals

CONSTANTS
  Slots,     \* partition slots, (disk_index, partition_number) in the daemon
  Media,     \* what can be served
  None       \* nothing is served

VARIABLES
  table,     \* table[k]: the medium slot k serves
  serving    \* serving[k]: requests being served from slot k

vars == <<table, serving>>

Init == /\ table   = [k \in Slots |-> None]
        /\ serving = [k \in Slots |-> 0]

Mount(k) ==
  /\ table[k] = None /\ serving[k] = 0
  /\ \E m \in Media : table' = [table EXCEPT ![k] = m]
  /\ UNCHANGED serving

Unmount(k) ==
  /\ table[k] # None /\ serving[k] = 0
  /\ table' = [table EXCEPT ![k] = None]
  /\ UNCHANGED serving

Begin(k) ==
  /\ table[k] # None
  /\ serving' = [serving EXCEPT ![k] = @ + 1]
  /\ UNCHANGED table

End(k) ==
  /\ serving[k] > 0
  /\ serving' = [serving EXCEPT ![k] = @ - 1]
  /\ UNCHANGED table

Next == \E k \in Slots : Mount(k) \/ Unmount(k) \/ Begin(k) \/ End(k)

Spec == Init /\ [][Next]_vars
=============================================================================
