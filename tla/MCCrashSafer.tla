---------------------------- MODULE MCCrashSafer ----------------------------
(***************************************************************************)
(* Instances of PGrnCrashSafer for TLC.  CounterSize need only be bigger   *)
(* than the numbers of processes that are ever counted.                    *)
(***************************************************************************)
EXTENDS PGrnCrashSafer

Primary == {FALSE}
PrimaryAndStandby == {FALSE, TRUE}
=============================================================================
