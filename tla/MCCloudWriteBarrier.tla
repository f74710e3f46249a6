------------------------ MODULE MCCloudWriteBarrier ------------------------
(***************************************************************************)
(* A small instance of CloudWriteBarrier for TLC.                          *)
(***************************************************************************)
EXTENDS CloudWriteBarrier, TLC

CONSTANTS t1, t2
=============================================================================
