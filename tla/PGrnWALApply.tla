---------------------------- MODULE PGrnWALApply ----------------------------
(***************************************************************************)
(* The read side of the WAL of one PGroonga index on one node: PGrnWALApply*)
(* and the positions it moves (pgrn-wal.c).  A reader is a backend, or a   *)
(* worker of pgroonga_wal_applier or pgroonga_standby_maintainer, that     *)
(* applies the pending records to the Groonga database of the node.        *)
(*                                                                         *)
(* The unpacker takes objects off the bytes it was fed.  Bytes that are no *)
(* intact object (a half-written object, a stale page, a page in the wrong *)
(* order) decode to whatever they happen to be: the model ends the session *)
(* there, with the outcome "garbled", and says nothing of what follows.    *)
(***************************************************************************)
EXTENDS PGrnWALPages

CONSTANTS
  Readers,       \* the processes that may apply
  SelfExclusive  \* whether the WAL lock excludes another reader: the lock is
                 \* ShareUpdateExclusiveLock outside recovery, and
                 \* RowExclusiveLock, which lets readers pass, in recovery

VARIABLES
  meta, pages,  \* the meta page and the data pages in the shared buffers
  pos,          \* the WAL applied position (IndexStatuses)
  db,           \* objects applied to the Groonga database, in order
  readers       \* readers[r]: the session of reader r

NBlocks == Len(pages) + 1

Idle(outcome) ==
  [pc |-> "idle", start |-> MetaBlock, i |-> 0, off |-> 0, end |-> 0,
   buf |-> <<>>, outcome |-> outcome]

InitReaders == readers = [r \in Readers |-> Idle("none")]

\* The mutant: the loop does not come back to the first blocks.
BlockNeverWraps(r) ==
  LET b == readers[r].start + readers[r].i
  IN  IF b < NBlocks THEN b ELSE MetaBlock

Block(r) == (readers[r].start + readers[r].i) % NBlocks

\* Readers between the lock and the unlock of PGrnWALApply: they hold the WAL
\* lock and the share lock of the meta page's buffer.
Consuming ==
  {r \in Readers : readers[r].pc \in {"consume", "object", "applied"}}

Update(r, session) == readers' = [readers EXCEPT ![r] = session]
Leave(r, outcome) == Update(r, Idle(outcome))

-----------------------------------------------------------------------------
(* PGrnWALApplyNeeded, without the WAL lock.  The model reads the position *)
(* and the two pages in one step: the answer only decides whether to look. *)

StartBlock == IF pos.block = MetaBlock THEN FirstBlock ELSE pos.block

\* The mutant: the block after the current one is not looked at.
ApplyNeededInThisBlock ==
  /\ StartBlock < NBlocks
  /\ LastOffset(pages[StartBlock]) > pos.offset

ApplyNeeded ==
  LET following ==
        IF StartBlock + 1 = NBlocks THEN FirstBlock ELSE StartBlock + 1
  IN  /\ StartBlock < NBlocks
      /\ \/ LastOffset(pages[StartBlock]) > pos.offset
         \/ LastOffset(pages[following]) > 0

Check(r) ==
  /\ readers[r].pc = "idle"
  /\ ApplyNeeded
  /\ Update(r, [Idle("none") EXCEPT !.pc = "needed"])
  /\ UNCHANGED <<meta, pages, pos, db>>

\* PGrnWALLock, then the position is read again, then the meta page locked.
Lock(r) ==
  /\ readers[r].pc = "needed"
  /\ SelfExclusive => Consuming = {}
  /\ Update(r, [readers[r] EXCEPT !.pc = "consume",
                                  !.start = StartBlock,
                                  !.off = pos.offset])
  /\ UNCHANGED <<meta, pages, pos, db>>

-----------------------------------------------------------------------------
(* PGrnWALApplyConsume: one turn of its loop over the blocks.              *)

\* max is one more than the last block of the ring, and the code lets it by.
Skipped(r) == Block(r) = MetaBlock \/ Block(r) > meta.max

AtBlock(r) == readers[r].pc = "consume" /\ readers[r].i < NBlocks

Skip(r) ==
  /\ AtBlock(r)
  /\ Skipped(r)
  /\ Update(r, [readers[r] EXCEPT !.i = readers[r].i + 1])
  /\ UNCHANGED <<meta, pages, pos, db>>

\* "unconsumed WAL are overwritten"
RaiseOverwritten(r) ==
  /\ AtBlock(r)
  /\ ~Skipped(r)
  /\ readers[r].off > LastOffset(pages[Block(r)])
  /\ Leave(r, "overwritten")
  /\ UNCHANGED <<meta, pages, pos, db>>

\* The bytes from the offset on are fed to the unpacker; those of a zero page
\* are not even bytes of that page.
ReadPage(r) ==
  /\ AtBlock(r)
  /\ ~Skipped(r)
  /\ LET page == pages[Block(r)]
         off == readers[r].off
     IN  /\ off <= LastOffset(page)
         /\ IF page.init
            THEN Update(r, [readers[r] EXCEPT
                   !.pc = "object",
                   !.buf = @ \o SubSeq(page.data, off + 1, Len(page.data)),
                   !.end = LastOffset(page)])
            ELSE Leave(r, "garbled")
  /\ UNCHANGED <<meta, pages, pos, db>>

\* What the unpacker finds at the front of its buffer.
Available(buf) == IF Len(buf) < buf[1].n THEN Len(buf) ELSE buf[1].n
Intact(buf) ==
  \A j \in 1..Available(buf) : buf[j] = [buf[1] EXCEPT !.i = j]
Complete(buf) == buf # <<>> /\ Intact(buf) /\ Len(buf) >= buf[1].n
NeedsMore(buf) ==
  IF buf = <<>> THEN TRUE ELSE Intact(buf) /\ Len(buf) < buf[1].n

ApplyObject(r) ==
  /\ readers[r].pc = "object"
  /\ LET buf == readers[r].buf
     IN  /\ Complete(buf)
         /\ db' = Append(db, buf[1].rec)
         /\ Update(r, [readers[r] EXCEPT
                         !.pc = "applied",
                         !.buf = SubSeq(buf, buf[1].n + 1, Len(buf))])
  /\ UNCHANGED <<meta, pages, pos>>

\* The mutant: the bytes that are fed but not yet used are not subtracted.
EndOfObjectTooFar(r) == [block |-> Block(r), offset |-> readers[r].end]

EndOfObject(r) ==
  [block |-> Block(r), offset |-> readers[r].end - Len(readers[r].buf)]

SetPosition(r) ==
  /\ readers[r].pc = "applied"
  /\ pos' = EndOfObject(r)
  /\ Update(r, [readers[r] EXCEPT !.pc = "object"])
  /\ UNCHANGED <<meta, pages, db>>

Garbled(r) ==
  /\ readers[r].pc = "object"
  /\ readers[r].buf # <<>>
  /\ ~Intact(readers[r].buf)
  /\ Leave(r, "garbled")
  /\ UNCHANGED <<meta, pages, pos, db>>

\* The mutants: the loop does not end at next; the offset of the block before
\* is kept.
NextBlockPastNext(r) ==
  /\ readers[r].pc = "object"
  /\ NeedsMore(readers[r].buf)
  /\ Update(r, [readers[r] EXCEPT !.pc = "consume",
                                  !.i = readers[r].i + 1,
                                  !.off = 0])
  /\ UNCHANGED <<meta, pages, pos, db>>
NextBlockKeepsOffset(r) ==
  /\ readers[r].pc = "object"
  /\ NeedsMore(readers[r].buf)
  /\ Block(r) # meta.next
  /\ Update(r, [readers[r] EXCEPT !.pc = "consume", !.i = readers[r].i + 1])
  /\ UNCHANGED <<meta, pages, pos, db>>

\* The object at the front goes on in the next block, or there is none.
NextBlock(r) ==
  /\ readers[r].pc = "object"
  /\ NeedsMore(readers[r].buf)
  /\ Block(r) # meta.next
  /\ Update(r, [readers[r] EXCEPT !.pc = "consume",
                                  !.i = readers[r].i + 1,
                                  !.off = 0])
  /\ UNCHANGED <<meta, pages, pos, db>>

Done(r) ==
  /\ \/ readers[r].pc = "consume" /\ readers[r].i = NBlocks
     \/ /\ readers[r].pc = "object"
        /\ NeedsMore(readers[r].buf)
        /\ Block(r) = meta.next
  /\ Leave(r, "done")
  /\ UNCHANGED <<meta, pages, pos, db>>

-----------------------------------------------------------------------------
\* The reader dies, or its statement is cancelled, at any point; what it has
\* changed in the Groonga database stays.
Die(r) ==
  /\ readers[r].pc # "idle"
  /\ Leave(r, "died")
  /\ UNCHANGED <<meta, pages, pos, db>>

Step(r) ==
  \/ Check(r) \/ Lock(r)
  \/ Skip(r) \/ RaiseOverwritten(r) \/ ReadPage(r)
  \/ ApplyObject(r) \/ SetPosition(r) \/ Garbled(r)
  \/ NextBlock(r) \/ Done(r)

\* pgroonga_wal_set_applied_position(index): the last position of the WAL.
LastPosition ==
  IF meta.next < NBlocks
  THEN [block |-> meta.next, offset |-> LastOffset(pages[meta.next])]
  ELSE [block |-> meta.next, offset |-> 0]

SetLastPosition ==
  /\ SelfExclusive => Consuming = {}
  /\ pos' = LastPosition
  /\ UNCHANGED <<meta, pages, db, readers>>
=============================================================================
