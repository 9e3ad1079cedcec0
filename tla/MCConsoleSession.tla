--------------------------- MODULE MCConsoleSession ---------------------------
(***************************************************************************)
(* A small instance of ConsoleSession: two tabs of one browser and two     *)
(* accounts, one of which the person at the browser signs in to.           *)
(***************************************************************************)
EXTENDS ConsoleSession

CONSTANTS t1, t2, u1, u2
===============================================================================
