------------------------------ MODULE MCIndexScan ------------------------------
(***************************************************************************)
(* An instance of PGrnIndexScan for TLC: a leader and a parallel worker.   *)
(***************************************************************************)
EXTENDS PGrnIndexScan

TheTids == 1 .. 2
=============================================================================
