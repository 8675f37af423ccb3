------------------------- MODULE MCStandbyMaintainer -------------------------
(***************************************************************************)
(* Instances of PGrnStandbyMaintainer for TLC: a database with three       *)
(* indexes, one with a single index and one without any.                   *)
(***************************************************************************)
EXTENDS PGrnStandbyMaintainer, TLC

CONSTANTS d1, d2, d3, i1, i2, i3, i4

ThreeAndOne == i1 :> d1 @@ i2 :> d1 @@ i3 :> d1 @@ i4 :> d2
UpToTwo == {0, 1, 2}
=============================================================================
