------------------------------- MODULE MCWriter -------------------------------
(***************************************************************************)
(* Instances of PGrnWALWriter for TLC.  A page carries two bytes, so that  *)
(* an object of one byte leaves a page partly filled, two fill it, three   *)
(* and more span pages.                                                    *)
(***************************************************************************)
EXTENDS PGrnWALWriter

\* No limit; a limit that gives a ring of three pages of data, the buffers of
\* a generic record besides the one of the meta page; and one that gives the
\* smallest ring, of two pages of data.
AnySize == {0, 1, 4}
TwoBlocks == {3}
\* Objects that never need more buffers than a generic record may hold ...
SmallObjects == {1, 2, 3}
\* ... and one that does, wherever in a page it begins.
WithHuge == {1, 3, 7}
=============================================================================
