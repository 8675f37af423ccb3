-------------------------- MODULE PGrnWALReplication --------------------------
(***************************************************************************)
(* A primary that writes the WAL of an index (PGrnWALWriter), the stream   *)
(* of XLOG records to a standby, and the readers of the standby            *)
(* (PGrnWALApply), which bring the Groonga database of the standby up to   *)
(* date from the pages PostgreSQL has replayed.                            *)
(***************************************************************************)
EXTENDS PGrnWALWriter, SequencesExt

CONSTANTS
  Readers,   \* the processes of the standby that may apply
  KeepsUp,   \* whether the standby has always applied a page before the
             \* primary reuses it: what pgroonga.max_wal_size and
             \* pgroonga_wal_applier.naptime are to be set for
  MaxDeaths, \* bound: readers that die in a behaviour
  MaxResets  \* bound: calls of pgroonga_wal_set_applied_position

ASSUME ReplicationAssumption ==
  /\ KeepsUp \in BOOLEAN
  /\ MaxDeaths \in Nat
  /\ MaxResets \in Nat

VARIABLES
  xlog,     \* the records sent that the standby has not replayed, in order
  smeta,    \* the standby's meta page ...
  spages,   \* ... and data pages
  spos,     \* the standby's WAL applied position
  sdb,      \* the objects applied to the standby's Groonga database
  visible,  \* whether the standby has replayed the commit of CREATE INDEX
  readers,
  log,      \* history: the objects published whole, in order
  nDeaths,
  nResets

Standby == INSTANCE PGrnWALApply WITH
  meta <- smeta, pages <- spages, pos <- spos, db <- sdb, readers <- readers,
  SelfExclusive <- FALSE

standby == <<smeta, spages, spos, sdb, visible, readers>>
rvars == <<vars, xlog, standby, log, nDeaths, nResets>>

-----------------------------------------------------------------------------
CellsOf(page) == {page.data[j] : j \in DOMAIN page.data}

\* The objects whose last byte is in the images and was not published before.
Completed(images) ==
  {c.rec : c \in {d \in UNION {CellsOf(images[b]) : b \in DOMAIN images} :
                    /\ d.i = d.n
                    /\ d.rec \notin Range(log)}}

\* A session packs one object, so there is one of them at most.
PublishedBy(records) ==
  IF records = <<>> THEN <<>> ELSE SetToSeq(Completed(records[1].image))

\* The page the primary is about to reuse holds nothing the standby needs, and
\* the position the standby has stored says so: it begins with another page.
Spent(b) ==
  /\ Standby!StartBlock # b
  /\ \A r \in Readers : readers[r].pc # "applied"
  /\ \A c \in CellsOf(pages[b]) : c.rec \in Range(sdb)

PrimaryStep ==
  /\ Next
  /\ KeepsUp =>
       \A b \in DOMAIN image' \ DOMAIN image :
         b \in DOMAIN pages /\ pages[b].data # <<>> /\ image'[b] = EmptyPage
           => Spent(b)
  /\ xlog' = xlog \o [k \in DOMAIN out' |->
                        [meta |-> out'[k].meta, image |-> out'[k].image,
                         commit |-> phase' = "ready" /\ phase # "ready"]]
  /\ log' = log \o PublishedBy(out')
  /\ UNCHANGED <<standby, nDeaths, nResets>>

\* PostgreSQL replays the next record: it locks all the buffers of the record
\* first, so it waits while a reader holds the meta page of the index.
Replay ==
  /\ xlog # <<>>
  /\ LET record == Head(xlog)
     IN  /\ record.meta # <<>> => Standby!Consuming = {}
         /\ smeta' = IF record.meta = <<>> THEN smeta ELSE record.meta[1]
         /\ spages' = [b \in 1..Max({Len(spages)} \cup DOMAIN record.image) |->
                         IF b \in DOMAIN record.image THEN record.image[b]
                         ELSE IF b \in DOMAIN spages THEN spages[b]
                         ELSE ZeroPage]
         /\ visible' = (visible \/ record.commit)
  /\ xlog' = Tail(xlog)
  /\ UNCHANGED <<vars, spos, sdb, readers, log, nDeaths, nResets>>

ReaderStep(r) ==
  /\ visible
  /\ Standby!Step(r)
  /\ UNCHANGED <<vars, xlog, visible, log, nDeaths, nResets>>

ReaderDies(r) ==
  /\ nDeaths < MaxDeaths
  /\ nDeaths' = nDeaths + 1
  /\ Standby!Die(r)
  /\ UNCHANGED <<vars, xlog, visible, log, nResets>>

\* The operator gives up what is pending on the standby.
ResetPosition ==
  /\ visible
  /\ nResets < MaxResets
  /\ nResets' = nResets + 1
  /\ Standby!SetLastPosition
  /\ UNCHANGED <<vars, xlog, visible, log, nDeaths>>

RInit ==
  /\ Init
  /\ xlog = <<>>
  /\ smeta = InitMeta
  /\ spages = <<>>
  /\ spos = [block |-> MetaBlock, offset |-> 0]
  /\ sdb = <<>>
  /\ visible = FALSE
  /\ Standby!InitReaders
  /\ log = <<>>
  /\ nDeaths = 0
  /\ nResets = 0

RNext ==
  \/ PrimaryStep
  \/ Replay
  \/ \E r \in Readers : ReaderStep(r) \/ ReaderDies(r)
  \/ ResetPosition

RSpec == RInit /\ [][RNext]_rvars

\* The startup process replays what has arrived: strong fairness, because the
\* lock of the meta page's buffer wakes it when a reader lets go.  Some reader
\* comes by again and again: pgroonga_wal_applier every naptime seconds.
\* The primary finishes the sessions it begins and its CREATE INDEX, but need
\* not begin another session.
RFairness ==
  /\ SF_rvars(Replay)
  /\ \A r \in Readers : WF_rvars(ReaderStep(r))
  /\ WF_rvars(PrimaryStep /\ (pc # "idle" \/ phase # "ready"))

RFairSpec == RSpec /\ RFairness

-----------------------------------------------------------------------------
(* What must hold.                                                         *)

\* The standby implements the promise of WALDelivery.
Delivery == INSTANCE WALDelivery WITH log <- log, delivered <- sdb
Delivers == Delivery!Spec

\* No reader ever meets bytes that are no object, nor is told "unconsumed WAL
\* are overwritten" (pgrn-wal.c:2961) while the standby keeps up.
ReadersNeverFail ==
  \A r \in Readers : readers[r].outcome \notin {"garbled", "overwritten"}

\* PGrnWALApplyConsume subtracts the bytes it has fed and not used: the
\* position it stores is right behind the object applied last, even when that
\* object began on an earlier page.
PreviousCell(p) ==
  IF p.offset > 0 THEN spages[p.block].data[p.offset]
  ELSE spages[p.block - 1].data[PageSize]

PositionAfterLastObject ==
  (/\ sdb # <<>>
   /\ \A r \in Readers : readers[r].pc # "applied")
  => LET c == PreviousCell(spos)
     IN  c.i = c.n /\ c.rec = sdb[Len(sdb)]

\* Even when the standby lags and its ring is overrun, when a reader dies
\* between applying an object and storing the position, or when an operator
\* moves the position: one reader never goes back to an object older than the
\* one it applied last, so no later change of a tuple is undone.
NeverBackwards ==
  [][ sdb' # sdb =>
        \A j \in DOMAIN sdb : sdb[j] <= sdb'[Len(sdb')] ]_rvars

\* A reader that is told that unconsumed WAL were overwritten has not applied
\* everything there is: a lagging standby may be told so, one that is done never
\* is, whatever has died or been reset.  (After pgroonga_wal_truncate on the
\* primary the position of a standby means nothing until the operator sets it.)
RaisedOnlyWhenBehind ==
  [][ \A r \in Readers :
        (/\ readers'[r].outcome = "overwritten"
         /\ readers[r].outcome # "overwritten"
         /\ nTruncates = 0)
          => Range(log) \ Range(sdb) # {} ]_rvars

\* Two readers apply the same bytes at the same time, because the WAL lock
\* lets them: still none of the published objects is skipped.
NothingSkipped ==
  \E k \in 0..Len(log) : Range(sdb) = Range(SubSeq(log, 1, k))

\* An object may be applied again, but when the readers are done the last
\* applications of the objects are in the order the objects were written in:
\* the Groonga database, whose records have keys, ends up with what applying
\* each object once would give.
LastApplication(rec) == Max({j \in DOMAIN sdb : sdb[j] = rec})

ReplaysEndInOrder ==
  Standby!Consuming = {} =>
    \A a, b \in Range(sdb) : a < b => LastApplication(a) < LastApplication(b)

\* What the primary has published reaches the standby's database although the
\* startup process has to wait for the readers to let go of the meta page's
\* buffer.  Readers that take turns in holding it can keep it waiting for
\* ever, so the promise is for readers that pause.
ReadersPause == []<>(Standby!Consuming = {})
EventuallyApplied == ReadersPause => <>[](Range(sdb) = Range(log))
=============================================================================
