---------------------------- MODULE MCBlockDevice ----------------------------
(***************************************************************************)
(* A small drive for TLC: two-byte sectors, a partition that is not aligned *)
(* to them, and reads at both of its ends, across sectors and past its end.*)
(***************************************************************************)
EXTENDS BlockDevice

MCWanted == {[offset |-> o, size |-> s] : o \in {0, 3, 6}, s \in {1, 4}}
=============================================================================
