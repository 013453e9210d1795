----------------------------- MODULE MCConsole ------------------------------
(***************************************************************************)
(* The console with four bytes typed, the last one Ctrl-\, and three bytes *)
(* of output.                                                              *)
(***************************************************************************)
EXTENDS Console
=============================================================================
