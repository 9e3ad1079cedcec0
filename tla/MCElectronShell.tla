--------------------------- MODULE MCElectronShell ----------------------------
(***************************************************************************)
(* A small instance of ElectronShell: three probes instead of thirty.      *)
(***************************************************************************)
EXTENDS ElectronShell
===============================================================================
