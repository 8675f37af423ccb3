---------------------------- MODULE MCReplication ----------------------------
(***************************************************************************)
(* Instances of PGrnWALReplication for TLC.  A page carries two bytes, so  *)
(* that an object of one byte leaves a page partly filled, two fill it,    *)
(* three and more span pages.                                              *)
(***************************************************************************)
EXTENDS PGrnWALReplication

Unlimited == {0}
\* A ring of three blocks.
ThreeBlocks == {4}
\* pgroonga.max_wal_size is made smaller or bigger from session to session.
FourOrThreeBlocks == {4, 5}
OneOrThree == {1, 3}
\* Five bytes need one buffer more than a record of three buffers may hold.
OneOrFive == {1, 5}
=============================================================================
