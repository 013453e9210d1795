------------------------------- MODULE MCUart -------------------------------
(***************************************************************************)
(* The UART alone, arbitrary guest: four bytes typed, the last one Ctrl-\, *)
(* two bytes transmitted.                                                  *)
(***************************************************************************)
EXTENDS Uart
=============================================================================
