----------------------------- MODULE MCCtrParallel -----------------------------
(***************************************************************************)
(* Instances of CtrParallel for TLC, with the counters' bytes.             *)
(***************************************************************************)
EXTENDS BlockCounter

MCSizes == 0 .. 13
MCCores == {0, 2, 3, 4}
=============================================================================
