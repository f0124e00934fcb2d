--------------------------- MODULE MCInstallation ---------------------------
(***************************************************************************)
(* A small instance of Installation for TLC.                               *)
(***************************************************************************)
EXTENDS Installation

MCPackage == <<"daemon", "uninstall">>
=============================================================================
