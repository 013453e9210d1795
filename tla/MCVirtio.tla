------------------------------ MODULE MCVirtio ------------------------------
(***************************************************************************)
(* A queue of two entries whose indices wrap at four and a disk of one     *)
(* sector.  The requests: a write past the end of the image, which extends *)
(* it over a gap and may fail half way; a read across the end, which spins *)
(* unless the image has grown; and a request of unknown type.              *)
(***************************************************************************)
EXTENDS Virtio

Request(type, sector, len, value) ==
    [type |-> type, sector |-> sector, len |-> len, value |-> value]

MCValues   == {0, 1}
MCRequests == {Request("out", 2, 2, 1), Request("in", 0, 3, 0), Request("bad", 0, 1, 0)}
=============================================================================
