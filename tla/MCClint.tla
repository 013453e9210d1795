------------------------------ MODULE MCClint -------------------------------
(***************************************************************************)
(* The timer with deadlines up to thirty steps ahead, arbitrary guest.     *)
(***************************************************************************)
EXTENDS Clint
=============================================================================
