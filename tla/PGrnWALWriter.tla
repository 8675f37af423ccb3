---------------------------- MODULE PGrnWALWriter ----------------------------
(***************************************************************************)
(* The write side of the WAL of one PGroonga index (pgrn-wal.c), on the    *)
(* primary: PGrnWALStart ... PGrnWALFinish or PGrnWALAbort, the page       *)
(* writer between them, and PGrnWALTruncate.                               *)
(*                                                                         *)
(* PGrnWALStart takes the WAL lock of the index (ShareUpdateExclusiveLock  *)
(* outside recovery, which conflicts with itself), so at most one backend  *)
(* is in a session: one set of session variables stands for whichever      *)
(* backend it is.  A session changes private copies of the pages, that is  *)
(* what GenericXLogRegisterBuffer returns; they reach the shared buffers   *)
(* and the XLOG together, in GenericXLogFinish.                            *)
(***************************************************************************)
EXTENDS PGrnWALPages

CONSTANTS
  MaxSizes,     \* values pgroonga.max_wal_size takes, in pages; 0: no limit
  Sizes,        \* sizes of the objects that get packed, in bytes
  BuildSizes,   \* sizes of the objects that CREATE INDEX packs
  BuildObjects, \* objects CREATE INDEX packs, each in a session of its own
  MaxObjects,   \* bound: objects packed in a behaviour
  MaxTruncates, \* bound: calls of PGrnWALTruncate in a behaviour
  MaxAborts     \* bound: sessions that end in an error in a behaviour

ASSUME WriterAssumption ==
  /\ MaxSizes \subseteq Nat
  /\ Sizes \subseteq Nat \ {0}
  /\ BuildSizes \subseteq Nat \ {0}
  /\ BuildObjects \in Nat
  /\ MaxObjects \in Nat
  /\ MaxTruncates \in Nat
  /\ MaxAborts \in Nat

VARIABLES
  meta,     \* the meta page in the shared buffers
  pages,    \* pages[b]: block b in the shared buffers; block 0 is meta
  pos,      \* the WAL applied position of this node (IndexStatuses)
  out,      \* the generic XLOG records this step wrote (GenericXLogFinish)
  phase,    \* how far CREATE INDEX is: see Phases
  pc,       \* where the session is: see PCs
  limit,    \* pgroonga.max_wal_size of the session's backend
  wmeta,    \* the session's copy of the meta page
  image,    \* the session's copies of the pages it has registered
  current,  \* data->current: block being filled, MetaBlock for InvalidBuffer
  nUsed,    \* data->nUsedPages
  obj,      \* the object being packed and how many of its bytes remain
  count,    \* objects begun so far
  nTruncates,
  nAborts

shared == <<meta, pages, pos, phase>>
session == <<limit, wmeta, image, current, nUsed, obj>>
bounds == <<count, nTruncates, nAborts>>
vars == <<shared, out, pc, session, bounds>>

\* build: CREATE INDEX creates the tables and the columns, copies the sources,
\* sets the sources of the columns and renames the sources table.  ready: its
\* transaction has committed.
Phases == {"build", "ready"}

\* ensure: in PGrnWALPageWriterEnsureCurrent.  append: a page is open and
\* bytes remain.  packed: the object is packed and a page is open.  hung: the
\* backend waits for a buffer lock that it holds.
PCs == {"idle", "open", "ensure", "append", "packed", "hung", "truncate"}

Position == [block : Nat, offset : Nat]
NoImage == [b \in {} |-> EmptyPage]
NoObject == [rec |-> 0, n |-> 0, rest |-> 0]
NBlocks == Len(pages) + 1    \* RelationGetNumberOfBlocks

-----------------------------------------------------------------------------
(* PGrnWALStart: lock, GenericXLogStart, InitMeta, InitCurrent.            *)

Start(l) ==
  /\ pc = "idle"
  /\ count < MaxObjects
  /\ pc' = "open"
  /\ limit' = l
  /\ wmeta' = meta
  /\ image' = NoImage
  /\ current' = MetaBlock
  /\ nUsed' = 1
  /\ obj' = NoObject
  /\ out' = <<>>
  /\ UNCHANGED <<shared, bounds>>

\* The first byte of an object is packed.  A session packs one object: bulk
\* inserts are for the WAL resource manager alone (pgroonga_build).
BeginObject(n) ==
  /\ pc = "open"
  /\ n \in (IF phase = "ready" THEN Sizes ELSE BuildSizes)
  /\ count' = count + 1
  /\ obj' = [rec |-> count + 1, n |-> n, rest |-> n]
  /\ pc' = "ensure"
  /\ out' = <<>>
  /\ UNCHANGED <<shared, limit, wmeta, image, current, nUsed,
                 nTruncates, nAborts>>

-----------------------------------------------------------------------------
(* GenericXLogFinish and PGrnWALDataFinish, which moves the applied        *)
(* position of the writing node to the end of what it wrote.               *)

Publish ==
  /\ meta' = wmeta
  /\ pages' = [b \in DOMAIN pages |->
                 IF b \in DOMAIN image THEN image[b] ELSE pages[b]]
  /\ out' = <<[meta |-> <<wmeta>>, image |-> image]>>

\* The mutant: the offset in the current page is forgotten.
WrittenPositionAtPage == [block |-> wmeta.next, offset |-> 0]

WrittenPosition ==
  IF current # MetaBlock
  THEN [block |-> current, offset |-> LastOffset(image[current])]
  ELSE [block |-> wmeta.next, offset |-> 0]

\* The mutant: one buffer too many.
HasBufferOffByOne == nUsed <= MaxXLogPages

HasBuffer == nUsed < MaxXLogPages

\* The mutant: a page that still has room is emptied, too.
ReusablePageEmptied(page) == EmptyPage

\* What becomes of an existing page when the writer gets to it.
ReusablePage(page) == IF FreeSize(page) = 0 THEN EmptyPage ELSE page

AfterEnsure == IF obj.rest > 0 THEN "append" ELSE "packed"

\* The buffers of a generic record are used up: what was packed so far is
\* published although its object may go on, and a new record begins.
EnsureRestart ==
  /\ pc = "ensure"
  /\ nUsed = MaxXLogPages
  /\ Publish
  /\ pos' = WrittenPosition
  /\ image' = NoImage
  /\ nUsed' = 1
  /\ UNCHANGED <<phase, pc, limit, wmeta, current, obj, bounds>>

OpenPage(b, page) ==
  /\ current' = b
  /\ image' = Put(image, b, page)
  /\ nUsed' = nUsed + 1
  /\ pc' = AfterEnsure
  /\ out' = <<>>
  /\ UNCHANGED <<meta, pos, phase, limit, obj, bounds>>

\* P_NEW extends the relation at once: an abort leaves the block zeroed.
EnsureNew ==
  /\ pc = "ensure"
  /\ HasBuffer
  /\ NBlocks <= wmeta.next
  /\ wmeta' = [wmeta EXCEPT !.next = NBlocks]
  /\ pages' = Append(pages, ZeroPage)
  /\ OpenPage(NBlocks, EmptyPage)

EnsureExisting ==
  /\ pc = "ensure"
  /\ HasBuffer
  /\ NBlocks > wmeta.next
  /\ wmeta.next \notin DOMAIN image
  /\ OpenPage(wmeta.next, ReusablePage(pages[wmeta.next]))
  /\ UNCHANGED <<pages, wmeta>>

\* LockBuffer on a buffer whose exclusive lock the session holds since it
\* registered the same block: content locks are not reentrant.
EnsureHang ==
  /\ pc = "ensure"
  /\ HasBuffer
  /\ NBlocks > wmeta.next
  /\ wmeta.next \in DOMAIN image
  /\ pc' = "hung"
  /\ out' = <<>>
  /\ UNCHANGED <<shared, session, bounds>>

\* One turn of PGrnWALPageWriter: fill the page as far as the bytes go.
AppendBytes ==
  /\ pc = "append"
  /\ LET page == image[current]
         free == FreeSize(page)
         k == IF obj.rest <= free THEN obj.rest ELSE free
         cells == [j \in 1..k |-> [rec |-> obj.rec,
                                   i |-> obj.n - obj.rest + j,
                                   n |-> obj.n]]
         filled == AppendTo(page, cells)
     IN  /\ image' = Put(image, current, filled)
         /\ obj' = [obj EXCEPT !.rest = obj.rest - k]
         /\ IF FreeSize(filled) = 0
            THEN /\ wmeta' = Filled(wmeta, limit)
                 /\ current' = MetaBlock
                 /\ pc' = "ensure"
            ELSE /\ pc' = "packed"
                 /\ UNCHANGED <<wmeta, current>>
  /\ out' = <<>>
  /\ UNCHANGED <<shared, limit, nUsed, bounds>>

-----------------------------------------------------------------------------
(* PGrnWALFinish.  With the last session of CREATE INDEX it commits, too.  *)

NextPhase == IF count < BuildObjects THEN phase ELSE "ready"

Finish ==
  /\ pc = "packed"
  /\ Publish
  /\ pos' = WrittenPosition
  /\ phase' = NextPhase
  /\ pc' = "idle"
  /\ image' = NoImage
  /\ current' = MetaBlock
  /\ UNCHANGED <<limit, wmeta, nUsed, obj, bounds>>

\* PGrnWALAbort, or the abort of a transaction in a session nobody catches:
\* the record in progress is dropped.  What EnsureRestart published stays.
\* An error in CREATE INDEX drops the relation, so nothing is left to model.
Abort ==
  /\ phase = "ready"
  /\ nAborts < MaxAborts
  /\ nAborts' = nAborts + 1
  /\ pc \in {"open", "ensure", "append", "packed"}
  /\ pc' = "idle"
  /\ image' = NoImage
  /\ current' = MetaBlock
  /\ out' = <<>>
  /\ UNCHANGED <<shared, limit, wmeta, nUsed, obj, count, nTruncates>>

-----------------------------------------------------------------------------
(* PGrnWALTruncate: the meta page and all pages of data, in batches of as  *)
(* many buffers as a generic record may hold.  current is the last block   *)
(* that is done.                                                           *)

TruncateBatch(m, from, to) ==
  LET reset == [b \in from..to |-> EmptyPage]
  IN  /\ pages' = [b \in DOMAIN pages |->
                     IF b \in DOMAIN reset THEN EmptyPage ELSE pages[b]]
      /\ out' = <<[meta |-> m, image |-> reset]>>
      /\ current' = to

LastOfBatch(from, n) ==
  IF from + n - 1 < Len(pages) THEN from + n - 1 ELSE Len(pages)

TruncateStart ==
  /\ pc = "idle"
  /\ phase = "ready"
  /\ nTruncates < MaxTruncates
  /\ nTruncates' = nTruncates + 1
  /\ meta' = [meta EXCEPT !.next = FirstBlock]
  /\ TruncateBatch(<<meta'>>, FirstBlock,
                   LastOfBatch(FirstBlock, MaxXLogPages - 1))
  /\ pc' = "truncate"
  /\ UNCHANGED <<pos, phase, limit, wmeta, image, nUsed, obj, count,
                 nAborts>>

TruncateMore ==
  /\ pc = "truncate"
  /\ current < Len(pages)
  /\ TruncateBatch(<<>>, current + 1, LastOfBatch(current + 1, MaxXLogPages))
  /\ UNCHANGED <<meta, pos, phase, pc, limit, wmeta, image, nUsed, obj, bounds>>

TruncateFinish ==
  /\ pc = "truncate"
  /\ current = Len(pages)
  /\ pos' = [block |-> FirstBlock, offset |-> 0]
  /\ pc' = "idle"
  /\ current' = MetaBlock
  /\ out' = <<>>
  /\ UNCHANGED <<meta, pages, phase, limit, wmeta, image, nUsed, obj, bounds>>

-----------------------------------------------------------------------------
Init ==
  /\ meta = InitMeta
  /\ pages = <<>>
  /\ pos = [block |-> MetaBlock, offset |-> 0]
  /\ out = <<>>
  /\ phase = "build"
  /\ pc = "idle"
  /\ limit = 0
  /\ wmeta = InitMeta
  /\ image = NoImage
  /\ current = MetaBlock
  /\ nUsed = 1
  /\ obj = NoObject
  /\ count = 0
  /\ nTruncates = 0
  /\ nAborts = 0

Write ==
  \/ \E l \in MaxSizes : Start(l)
  \/ \E n \in Sizes \cup BuildSizes : BeginObject(n)
  \/ EnsureRestart
  \/ EnsureNew
  \/ EnsureExisting
  \/ EnsureHang
  \/ AppendBytes
  \/ Finish

Truncate == TruncateStart \/ TruncateMore \/ TruncateFinish

Next == Write \/ Abort \/ Truncate

Spec == Init /\ [][Next]_vars

-----------------------------------------------------------------------------
(* What must hold.                                                         *)

TypeOK ==
  /\ meta \in MetaPage
  /\ wmeta \in MetaPage
  /\ pages \in Seq(Page)
  /\ pos \in Position
  /\ phase \in Phases
  /\ pc \in PCs
  /\ limit \in Nat
  /\ DOMAIN image \subseteq DOMAIN pages
  /\ \A b \in DOMAIN image : image[b] \in Page
  /\ current \in {MetaBlock} \cup DOMAIN pages
  /\ nUsed \in 1..MaxXLogPages
  /\ obj \in [rec : Nat, n : Nat, rest : Nat]
  /\ <<count, nTruncates, nAborts>> \in Nat \X Nat \X Nat

\* The stream never skips a block: the block the meta page names exists or is
\* the one P_NEW would give (PGrnWALPageWriterEnsureCurrent overwrites
\* meta->next with the number P_NEW returned and leaves max alone: that is
\* right only because the two numbers agree).
NoHole ==
  /\ meta.next <= NBlocks
  /\ wmeta.next <= NBlocks
  /\ meta.next < meta.max
  /\ wmeta.next < wmeta.max

\* Where the next byte of the stream goes.
EndOfWAL ==
  IF meta.next < NBlocks /\ FreeSize(pages[meta.next]) > 0
  THEN [block |-> meta.next, offset |-> LastOffset(pages[meta.next])]
  ELSE [block |-> meta.next, offset |-> 0]

\* The writing node has itself applied all it wrote: whatever mix of
\* restarts, aborts, wraps and truncations came before, the applied position
\* that PGrnWALDataFinish and PGrnWALTruncate leave is the place where the
\* next byte goes, so that a later PGrnWALApply replays nothing and skips
\* nothing.
PositionAtEnd ==
  (pos.block # MetaBlock /\ pc # "truncate") => pos = EndOfWAL

\* The ring is as long, with the meta page, as a generic record may hold
\* buffers.
LongEnough(l) == l = 0 \/ EffectiveLimit(l) >= MaxXLogPages

\* A session never waits for a buffer whose lock it holds: what the code takes
\* for granted of every ring, and what a ring that is long enough gives.
NoSelfDeadlock == pc # "hung"
HangsOnlyInShortRing == pc = "hung" => ~LongEnough(limit)

\* The live blocks are 1..max-1; the one written after block b.
LiveSuccessor(b) == IF b + 1 = meta.max THEN FirstBlock ELSE b + 1

\* Objects of this size fit in one generic record, wherever in a page they
\* begin: they are published at once or not at all.
FitsOneRecord(n) == n <= (MaxXLogPages - 2) * PageSize

\* What a reader gets that follows the ring from any live block to next is
\* one intact stream: within a page each byte follows the byte before it,
\* and the first byte of a page follows the last byte of the page before.
\* Nobody reads the ring of an index whose CREATE INDEX has not committed, and
\* the WAL lock keeps the readers of this node out of a truncation.  An object
\* that is published in pieces breaks the stream until its last piece.
StreamIntact ==
  (/\ phase = "ready"
   /\ pc # "truncate"
   /\ \A b \in DOMAIN pages : \A j \in DOMAIN pages[b].data :
        FitsOneRecord(pages[b].data[j].n))
  => \A b \in DOMAIN pages :
       b < meta.max =>
         LET data == pages[b].data
             s == LiveSuccessor(b)
         IN  /\ \A j \in 1..Len(data) - 1 : Follows(data[j], data[j + 1])
             /\ (/\ b # meta.next
                 /\ data # <<>>
                 /\ s \in DOMAIN pages
                 /\ pages[s].data # <<>>)
                => Follows(data[Len(data)], pages[s].data[1])

Older(c1, c2) == c1.rec < c2.rec \/ (c1.rec = c2.rec /\ c1.i < c2.i)

Recycled(b) ==
  /\ pages[b].data # <<>>
  /\ pages'[b].data = <<>> \/ pages'[b].data[1] # pages[b].data[1]

\* "If WAL size is larger than this value, old WAL are overwritten"
\* (pgroonga.max_wal_size): a page of the ring is reused when it is full, and
\* what it held is older than everything that stays in the ring.  (The page
\* next may be left from an earlier round while an object goes on there.)
ReusesOldest ==
  \A b \in DOMAIN pages :
    (pc # "truncate" /\ pc' # "truncate" /\ Recycled(b)) =>
      /\ Len(pages[b].data) = PageSize
      /\ \A other \in DOMAIN pages' \ {b} :
           other < meta'.max /\ other # meta'.next =>
             \A c1 \in {pages[b].data[j] : j \in DOMAIN pages[b].data},
               c2 \in {pages'[other].data[j] :
                        j \in DOMAIN pages'[other].data} :
               Older(c1, c2)

\* ReusesOldest of every step: what a ring may lose, and when.
OverwritesOldest == [][ReusesOldest]_vars
=============================================================================
