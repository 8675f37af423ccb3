----------------------------- MODULE WALDelivery -----------------------------
(***************************************************************************)
(* What the WAL of an index promises a node that only reads it: the        *)
(* objects the primary has published are applied there one after the       *)
(* other, in the order they were published in, each of them exactly once,  *)
(* and all of them in the end.                                             *)
(***************************************************************************)
EXTENDS Naturals, Sequences

VARIABLES
  log,       \* the objects published so far, in order
  delivered  \* the objects applied so far, in order

vars == <<log, delivered>>

Init ==
  /\ log = <<>>
  /\ delivered = <<>>

\* log' is log with something after it.
Publish ==
  /\ Len(log') > Len(log)
  /\ SubSeq(log', 1, Len(log)) = log
  /\ UNCHANGED delivered

Deliver ==
  /\ Len(delivered) < Len(log)
  /\ delivered' = Append(delivered, log[Len(delivered) + 1])
  /\ UNCHANGED log

Next == Publish \/ Deliver

\* Safety alone, and with the promise that delivery goes on.
Safe == Init /\ [][Next]_vars
Spec == Safe /\ WF_vars(Deliver)

Delivered == delivered = SubSeq(log, 1, Len(delivered))
=============================================================================
