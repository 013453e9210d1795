----------------------------- MODULE MCAtomics ------------------------------
(***************************************************************************)
(* Three threads that use the same virtual address: two of one process,    *)
(* and one of another process, where another word lies behind it.          *)
(***************************************************************************)
EXTENDS Atomics

MCVa   == [t \in 1 .. 3 |-> 8]
MCWord == [t \in 1 .. 3 |-> IF t = 3 THEN "other" ELSE "shared"]
=============================================================================
