--------------------------- MODULE MCStreamScanner ----------------------------
(***************************************************************************)
(* A small instance of StreamScanner: a queue of two chunks.               *)
(***************************************************************************)
EXTENDS StreamScanner
===============================================================================
