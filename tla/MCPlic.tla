------------------------------- MODULE MCPlic -------------------------------
(***************************************************************************)
(* The PLIC alone under an arbitrary guest: two sources, three priority    *)
(* levels, both contexts.                                                  *)
(***************************************************************************)
EXTENDS Plic
=============================================================================
