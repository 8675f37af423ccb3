--------------------------- MODULE PGrnWALPageProofs ---------------------------
(***************************************************************************)
(* Theorems about the WAL in the pages of an index: its write side         *)
(* (PGrnWALWriter) and its way to a standby (PGrnWALReplication), for      *)
(* every page size, every number of buffers of a generic record, every set *)
(* of object sizes and every sequence of sessions.                         *)
(*                                                                         *)
(* Writing.  The first inductive invariant has four layers, each proved    *)
(* with the help of those below it: types and the shape of a session       *)
(* (Shape); no hole in the relation (NoHole); which pages may be partly    *)
(* filled (Settled), which gives PositionAtEnd; and how the blocks a       *)
(* record holds lie in the ring (Held), which gives NoSelfDeadlock.        *)
(*                                                                         *)
(* The second, which rests on them, is about the stream: what a reader     *)
(* that follows the ring gets is one intact stream (StreamIntact), and a   *)
(* page is reused only when all it holds is older than all that stays      *)
(* (OverwritesOldest).  It says of the pages everybody sees (Shared), and  *)
(* of the pages as the session sees them (Session), that they are a ring   *)
(* (Ring): every byte follows the byte before it, the pages are as old as  *)
(* their places say, and the newest byte is on the page before the one the *)
(* stream comes to next, or on that page (Top, End).  Of the session it    *)
(* says, too, that the buffers of a record are used up only by an object   *)
(* that does not fit in one (UsedUp), and what became of the pages it has  *)
(* registered (Reused).                                                    *)
(*                                                                         *)
(* Replication.  When the ring has one size, objects fit in a generic      *)
(* record and nobody truncates the WAL, every record brings one object,    *)
(* whole, and with it the pages form a ring without a gap, full but for    *)
(* the page next, in which no object is missing between two others         *)
(* (Whole).                                                                *)
(*                                                                         *)
(* And a standby that keeps up, with a process that applies: whatever the  *)
(* primary writes, in whatever ring, and wherever the process dies, it     *)
(* meets whole objects only, is never told that WAL was overwritten, and   *)
(* applies the objects in the order they were published in.  Two           *)
(* invariants carry this: Replicates (what is on the standby and on its    *)
(* way is the ring at some earlier moment, and the rest of it is still     *)
(* there) and AppliesInOrder (the process has read the objects up to some  *)
(* number of the log, and the Groonga database holds a prefix of it).      *)
(***************************************************************************)
EXTENDS PGrnWALReplication, FiniteSetTheorems, WellFoundedInduction, TLAPS

USE DEF MetaBlock, FirstBlock

-----------------------------------------------------------------------------
(* Pages, and functions with one value changed.                            *)

\* The two pages without a byte are pages.
LEMMA NewPages ==
  /\ EmptyPage \in Page
  /\ ZeroPage \in Page
  /\ Len(EmptyPage.data) = 0
  /\ Len(ZeroPage.data) = 0
  /\ FreeSize(EmptyPage) = PageSize
  /\ FreeSize(ZeroPage) = 0
  /\ LastOffset(EmptyPage) = 0
BY PagesAssumption DEF EmptyPage, ZeroPage, Page, FreeSize, LastOffset

\* A page that is not overfull has a number of free bytes and an end.
LEMMA PageSizes ==
  ASSUME NEW page \in Page, Len(page.data) <= PageSize
  PROVE  /\ FreeSize(page) \in Nat
         /\ LastOffset(page) \in Nat
BY PagesAssumption DEF Page, FreeSize, LastOffset

\* What the writer makes of a page it comes to has room and is not overfull.
LEMMA ReusableFacts ==
  ASSUME NEW page \in Page, Len(page.data) <= PageSize
  PROVE  /\ ReusablePage(page) \in Page
         /\ Len(ReusablePage(page).data) <= PageSize
         /\ FreeSize(ReusablePage(page)) > 0
BY NewPages, PageSizes, PagesAssumption DEF ReusablePage

\* PGrnWALPageFilled moves next by one block or back to the first one, and
\* keeps it below max.
LEMMA FilledFacts ==
  ASSUME NEW m \in MetaPage, NEW l \in Nat, m.next < m.max
  PROVE  /\ Filled(m, l) \in MetaPage
         /\ Filled(m, l).next < Filled(m, l).max
         /\ Filled(m, l).next <= m.next + 1
         /\ Filled(m, l).next = m.next + 1
              \/ /\ l # 0 /\ Filled(m, l).next = 1
                 /\ 1 + m.next >= l /\ 1 + m.next >= 3
BY DEF MetaPage, Filled, Advance, EffectiveLimit

\* Appending as many cells as fit gives a page that is not overfull.
LEMMA AppendFacts ==
  ASSUME NEW page \in Page, NEW cells \in Seq(Cell),
         page.init, Len(page.data) + Len(cells) <= PageSize
  PROVE  /\ AppendTo(page, cells) \in Page
         /\ Len(AppendTo(page, cells).data) <= PageSize
         /\ FreeSize(AppendTo(page, cells)) = FreeSize(page) - Len(cells)
<1>1. page.data \in Seq(Cell) /\ page.init \in BOOLEAN
  BY DEF Page
<1> DEFINE data == page.data \o cells
<1>2. /\ data \in Seq(Cell)
      /\ Len(data) = Len(page.data) + Len(cells)
  BY <1>1
<1>3. AppendTo(page, cells) = [init |-> page.init, data |-> data]
  BY DEF AppendTo
<1> HIDE DEF data
<1>4. AppendTo(page, cells) \in Page
  BY <1>1, <1>2, <1>3 DEF Page
<1>5. Len(AppendTo(page, cells).data) = Len(page.data) + Len(cells)
  BY <1>2, <1>3
<1>6. AppendTo(page, cells).init
  BY <1>3
<1>7. Len(page.data) \in Nat /\ Len(cells) \in Nat
  BY <1>1
<1>8. FreeSize(AppendTo(page, cells)) = FreeSize(page) - Len(cells)
  BY <1>5, <1>6, <1>7, PagesAssumption DEF FreeSize
<1> QED
  BY <1>4, <1>5, <1>8

-----------------------------------------------------------------------------
(* The first layer: types, and what a session looks like in each place.    *)

Shape ==
  /\ \A b \in DOMAIN pages : Len(pages[b].data) <= PageSize
  /\ \A b \in DOMAIN image : Len(image[b].data) <= PageSize
  /\ obj.rest <= obj.n
  /\ obj.rest > 0 => obj.rec > 0
  /\ pc = "append" => obj.rest > 0
  /\ pc \in {"idle", "open", "ensure", "hung"} => current = MetaBlock
  /\ pc \in {"append", "packed"} =>
       /\ current = wmeta.next
       /\ current \in DOMAIN image
       /\ FreeSize(image[current]) > 0
  /\ pc \in {"idle", "open", "truncate"} => image = NoImage
  /\ pc = "open" => nUsed = 1

Types == TypeOK /\ Shape

\* What DataFinish stores is a position.
LEMMA WrittenPositionType ==
  ASSUME Types, pc # "truncate"
  PROVE  WrittenPosition \in Position
<1>1. wmeta.next \in Nat /\ current \in Nat
  BY DEF Types, TypeOK, MetaPage
<1>2. CASE current = MetaBlock
  BY <1>1, <1>2 DEF WrittenPosition, Position
<1>3. CASE current # MetaBlock
  <2>1. current \in DOMAIN image
    BY <1>3 DEF Types, TypeOK, Shape, PCs
  <2>2. LastOffset(image[current]) \in Nat
    BY <2>1, PageSizes DEF Types, TypeOK, Shape
  <2> QED
    BY <1>1, <1>3, <2>2 DEF WrittenPosition, Position
<1> QED
  BY <1>2, <1>3

\* The pages of a record reach the shared buffers.
LEMMA PublishTypes ==
  ASSUME Types, Publish
  PROVE  /\ meta' \in MetaPage
         /\ pages' \in Seq(Page)
         /\ DOMAIN pages' = DOMAIN pages
         /\ Len(pages') = Len(pages)
         /\ \A b \in DOMAIN pages' : Len(pages'[b].data) <= PageSize
<1>1. /\ DOMAIN pages = 1..Len(pages)
      /\ Len(pages) \in Nat
      /\ \A b \in DOMAIN pages : pages[b] \in Page
  BY DEF Types, TypeOK
<1>2. \A b \in DOMAIN image : image[b] \in Page
  BY DEF Types, TypeOK
<1>3. pages' = [b \in 1..Len(pages) |->
                  IF b \in DOMAIN image THEN image[b] ELSE pages[b]]
  BY <1>1 DEF Publish
<1>4. \A b \in 1..Len(pages) :
        (IF b \in DOMAIN image THEN image[b] ELSE pages[b]) \in Page
  BY <1>1, <1>2
<1>5. pages' \in Seq(Page) /\ Len(pages') = Len(pages)
  BY <1>1, <1>3, <1>4
<1>6. \A b \in DOMAIN pages' : Len(pages'[b].data) <= PageSize
  BY <1>1, <1>3 DEF Types, Shape
<1> QED
  BY <1>1, <1>3, <1>5, <1>6 DEF Publish, Types, TypeOK

\* The cells AppendBytes writes.
LEMMA NewCells ==
  ASSUME Types, obj.rest > 0, NEW k \in Nat, k <= obj.rest
  PROVE  LET cells == [j \in 1..k |-> [rec |-> obj.rec,
                                       i |-> obj.n - obj.rest + j,
                                       n |-> obj.n]]
         IN  cells \in Seq(Cell) /\ Len(cells) = k
<1> DEFINE cell(j) == [rec |-> obj.rec, i |-> obj.n - obj.rest + j,
                       n |-> obj.n]
<1>1. /\ obj.rec \in Nat /\ obj.n \in Nat /\ obj.rest \in Nat
      /\ obj.rest <= obj.n /\ obj.rec > 0
  BY DEF Types, TypeOK, Shape
<1>2. \A j \in 1..k : cell(j) \in Cell
  BY <1>1 DEF Cell
<1> HIDE DEF cell
<1>3. [j \in 1..k |-> cell(j)] \in Seq(Cell)
  BY <1>2
<1>4. Len([j \in 1..k |-> cell(j)]) = k
  OBVIOUS
<1> QED
  BY <1>3, <1>4 DEF cell

\* One lemma for each step that changes pages; the others are short.
LEMMA StartTypes ==
  ASSUME Types, NEW l \in MaxSizes, Start(l) PROVE Types'
BY PagesAssumption, WriterAssumption
   DEF Types, TypeOK, Shape, Start, shared, bounds, NoImage, NoObject, PCs,
       MetaPage

\* Packing the first byte of an object keeps the types.
LEMMA BeginObjectTypes ==
  ASSUME Types, NEW n \in Sizes \cup BuildSizes, BeginObject(n) PROVE Types'
<1>1. n \in Nat \ {0}
  BY WriterAssumption
<1>2. TypeOK'
  BY <1>1 DEF Types, TypeOK, BeginObject, shared, PCs
<1>3. Shape'
  BY <1>1 DEF Types, TypeOK, Shape, BeginObject, shared, PCs
<1> QED
  BY <1>2, <1>3 DEF Types

\* A restart publishes pages and stores a position, and keeps the types.
LEMMA EnsureRestartTypes ==
  ASSUME Types, EnsureRestart PROVE Types'
<1>1. Publish /\ pc = "ensure"
  BY DEF EnsureRestart
<1>2. WrittenPosition \in Position
  BY <1>1, WrittenPositionType
<1>3. TypeOK'
  BY <1>1, <1>2, PublishTypes, PagesAssumption
     DEF Types, TypeOK, EnsureRestart, NoImage, bounds
<1>4. Shape'
  BY <1>1, PublishTypes DEF Types, TypeOK, Shape, EnsureRestart, NoImage
<1> QED
  BY <1>3, <1>4 DEF Types

\* A page opened with room for a byte.
LEMMA OpenPageTypes ==
  ASSUME Types, pc = "ensure", HasBuffer,
         NEW b \in DOMAIN pages', NEW page \in Page,
         Len(page.data) <= PageSize, FreeSize(page) > 0,
         pages' \in Seq(Page), DOMAIN pages \subseteq DOMAIN pages',
         \A c \in DOMAIN pages' : Len(pages'[c].data) <= PageSize,
         wmeta' \in MetaPage, b = wmeta'.next,
         OpenPage(b, page)
  PROVE  Types'
<1>1. /\ DOMAIN image' = DOMAIN image \cup {b}
      /\ image'[b] = page
      /\ \A y \in DOMAIN image \ {b} : image'[y] = image[y]
  BY DEF OpenPage, Put
<1>2. TypeOK'
  <2>1. DOMAIN image' \subseteq DOMAIN pages'
    BY <1>1 DEF Types, TypeOK
  <2>2. \A c \in DOMAIN image' : image'[c] \in Page
    BY <1>1 DEF Types, TypeOK
  <2>3. nUsed' \in 1..MaxXLogPages
    BY PagesAssumption DEF Types, TypeOK, HasBuffer, OpenPage
  <2> QED
    BY <2>1, <2>2, <2>3
       DEF Types, TypeOK, OpenPage, AfterEnsure, PCs, bounds
<1>3. Shape'
  <2>1. \A c \in DOMAIN image' : Len(image'[c].data) <= PageSize
    BY <1>1 DEF Types, Shape
  <2> QED
    BY <1>1, <2>1 DEF Types, Shape, OpenPage, AfterEnsure
<1> QED
  BY <1>2, <1>3 DEF Types

\* Extending the relation and opening the new block keeps the types.
LEMMA EnsureNewTypes ==
  ASSUME Types, EnsureNew PROVE Types'
<1>1. /\ pages \in Seq(Page) /\ Len(pages) \in Nat
      /\ DOMAIN pages = 1..Len(pages)
  BY DEF Types, TypeOK
<1>2. pages' = Append(pages, ZeroPage)
  BY DEF EnsureNew
<1>3. /\ pages' \in Seq(Page)
      /\ Len(pages') = Len(pages) + 1
      /\ DOMAIN pages' = 1..(Len(pages) + 1)
      /\ pages'[Len(pages) + 1] = ZeroPage
      /\ \A c \in 1..Len(pages) : pages'[c] = pages[c]
  BY <1>1, <1>2, NewPages
<1>4. \A c \in DOMAIN pages' : Len(pages'[c].data) <= PageSize
  BY <1>1, <1>3, NewPages, PagesAssumption DEF Types, Shape
<1>5. NBlocks \in DOMAIN pages'
  BY <1>1, <1>3 DEF NBlocks
<1>6. wmeta' \in MetaPage /\ wmeta'.next = NBlocks
  <2>1. NBlocks \in Nat \ {0}
    BY <1>1 DEF NBlocks
  <2>2. wmeta' = [wmeta EXCEPT !.next = NBlocks]
    BY DEF EnsureNew
  <2> QED
    BY <2>1, <2>2 DEF Types, TypeOK, MetaPage
<1>7. DOMAIN pages \subseteq DOMAIN pages'
  BY <1>1, <1>3
<1> QED
  <2>1. pc = "ensure" /\ HasBuffer /\ OpenPage(NBlocks, EmptyPage)
    BY DEF EnsureNew
  <2>2. /\ EmptyPage \in Page
        /\ Len(EmptyPage.data) <= PageSize
        /\ FreeSize(EmptyPage) > 0
    BY NewPages, PagesAssumption
  <2> HIDE DEF NBlocks
  <2> QED
    BY <1>3, <1>4, <1>5, <1>6, <1>7, <2>1, <2>2, OpenPageTypes

\* Opening a block of the relation keeps the types.
LEMMA EnsureExistingTypes ==
  ASSUME Types, EnsureExisting PROVE Types'
<1>1. /\ pages \in Seq(Page) /\ Len(pages) \in Nat
      /\ DOMAIN pages = 1..Len(pages)
      /\ wmeta \in MetaPage /\ wmeta.next \in Nat \ {0}
  BY DEF Types, TypeOK, MetaPage
<1>2. wmeta.next \in DOMAIN pages
  BY <1>1 DEF EnsureExisting, NBlocks
<1>3. pages[wmeta.next] \in Page /\ Len(pages[wmeta.next].data) <= PageSize
  BY <1>1, <1>2 DEF Types, Shape
<1>4. /\ pages' = pages /\ wmeta' = wmeta
      /\ pc = "ensure" /\ HasBuffer
      /\ OpenPage(wmeta.next, ReusablePage(pages[wmeta.next]))
  BY DEF EnsureExisting
<1> DEFINE page == ReusablePage(pages[wmeta.next])
<1>5. page \in Page /\ Len(page.data) <= PageSize /\ FreeSize(page) > 0
  BY <1>3, ReusableFacts
<1>6. \A c \in DOMAIN pages' : Len(pages'[c].data) <= PageSize
  BY <1>4 DEF Types, Shape
<1> HIDE DEF page
<1>7. OpenPage(wmeta.next, page)
  BY <1>4 DEF page
<1> QED
  BY <1>1, <1>2, <1>4, <1>5, <1>6, <1>7, OpenPageTypes

\* What AppendBytes leaves: the page in the image is not overfull, bytes
\* remain only when the page is full, and it is full exactly when the session
\* goes on in another page.
LEMMA AppendBytesEffect ==
  ASSUME Types, NoHole, AppendBytes
  PROVE  /\ current \in DOMAIN image /\ current = wmeta.next
         /\ DOMAIN image' = DOMAIN image
         /\ image'[current] \in Page
         /\ Len(image'[current].data) <= PageSize
         /\ \A b \in DOMAIN image \ {current} : image'[b] = image[b]
         /\ obj' \in [rec : Nat, n : Nat, rest : Nat]
         /\ obj'.rest <= obj'.n /\ obj'.rec > 0
         /\ \/ /\ FreeSize(image'[current]) = 0
               /\ wmeta' = Filled(wmeta, limit)
               /\ current' = MetaBlock
               /\ pc' = "ensure"
            \/ /\ FreeSize(image'[current]) > 0
               /\ wmeta' = wmeta
               /\ current' = current
               /\ pc' = "packed"
         /\ UNCHANGED <<meta, pages, pos, phase, limit, nUsed, count,
                        nTruncates, nAborts>>
<1> DEFINE page == image[current]
           free == FreeSize(page)
           k == IF obj.rest <= free THEN obj.rest ELSE free
           cells == [j \in 1..k |-> [rec |-> obj.rec,
                                     i |-> obj.n - obj.rest + j,
                                     n |-> obj.n]]
           filled == AppendTo(page, cells)
<1>1. /\ current \in DOMAIN image /\ current = wmeta.next
      /\ page \in Page /\ Len(page.data) <= PageSize
      /\ FreeSize(page) > 0
  BY DEF Types, TypeOK, Shape, AppendBytes
<1>2. /\ obj \in [rec : Nat, n : Nat, rest : Nat]
      /\ obj.rest > 0 /\ obj.rest <= obj.n /\ obj.rec > 0
  BY DEF Types, TypeOK, Shape, AppendBytes
<1>3. /\ page.init /\ Len(page.data) \in Nat
      /\ free = PageSize - Len(page.data)
      /\ free \in Nat \ {0}
  <2> HIDE DEF page
  <2>1. page.data \in Seq(Cell) /\ page.init \in BOOLEAN
    BY <1>1 DEF Page
  <2>2. Len(page.data) \in Nat
    BY <2>1
  <2>3. free = IF page.init THEN PageSize - Len(page.data) ELSE 0
    BY DEF FreeSize
  <2>4. PageSize \in Nat /\ FreeSize(page) \in Int
    BY <2>2, <2>3, PagesAssumption
  <2>5. page.init
    BY <1>1, <2>3
  <2> QED
    BY <1>1, <2>2, <2>3, <2>4, <2>5
<1>4. k \in Nat /\ k <= obj.rest /\ k <= free
  BY <1>2, <1>3
<1>5. cells \in Seq(Cell) /\ Len(cells) = k
  <2> HIDE DEF k
  <2> QED
    BY <1>2, <1>4, NewCells
<1>6. /\ filled \in Page
      /\ Len(filled.data) <= PageSize
      /\ FreeSize(filled) = free - k
  <2>1. Len(page.data) + Len(cells) <= PageSize
    BY <1>3, <1>4, <1>5, PagesAssumption
  <2> HIDE DEF cells, k
  <2> QED
    BY <1>1, <1>3, <1>5, <2>1, AppendFacts
<1>7. /\ image' = Put(image, current, filled)
      /\ obj' = [obj EXCEPT !.rest = obj.rest - k]
      /\ IF FreeSize(filled) = 0
         THEN /\ wmeta' = Filled(wmeta, limit)
              /\ current' = MetaBlock
              /\ pc' = "ensure"
         ELSE /\ pc' = "packed"
              /\ UNCHANGED <<wmeta, current>>
      /\ UNCHANGED <<shared, limit, nUsed, bounds>>
  BY DEF AppendBytes
<1> HIDE DEF filled, k, cells, page, free
<1>8. /\ DOMAIN image' = DOMAIN image
      /\ image'[current] = filled
      /\ \A b \in DOMAIN image \ {current} : image'[b] = image[b]
  BY <1>1, <1>7 DEF Put
<1>9. /\ obj' \in [rec : Nat, n : Nat, rest : Nat]
      /\ obj'.rest <= obj'.n /\ obj'.rec > 0
  BY <1>2, <1>4, <1>7
<1>10. FreeSize(filled) = 0 \/ FreeSize(filled) > 0
  BY <1>3, <1>4, <1>6
<1> QED
  BY <1>1, <1>6, <1>7, <1>8, <1>9, <1>10 DEF shared, bounds

\* Filling the page that is open keeps the types.
LEMMA AppendBytesTypes ==
  ASSUME Types, NoHole, AppendBytes PROVE Types'
<1>1. Filled(wmeta, limit) \in MetaPage
  BY FilledFacts DEF Types, TypeOK, NoHole
<1>2. TypeOK'
  BY <1>1, AppendBytesEffect DEF Types, TypeOK, PCs
<1>3. Shape'
  BY AppendBytesEffect DEF Types, TypeOK, Shape, AppendBytes
<1> QED
  BY <1>2, <1>3 DEF Types

\* PGrnWALFinish publishes pages and stores a position, and keeps the types.
LEMMA FinishTypes ==
  ASSUME Types, Finish PROVE Types'
<1>1. Publish /\ pc # "truncate"
  BY DEF Finish
<1>2. WrittenPosition \in Position
  BY <1>1, WrittenPositionType
<1>3. TypeOK'
  BY <1>1, <1>2, PublishTypes
     DEF Types, TypeOK, Finish, NoImage, bounds, NextPhase, Phases, PCs
<1>4. Shape'
  BY <1>1, PublishTypes DEF Types, TypeOK, Shape, Finish, NoImage
<1> QED
  BY <1>3, <1>4 DEF Types

\* An abort drops the record and keeps the types.
LEMMA AbortTypes ==
  ASSUME Types, Abort PROVE Types'
<1>1. TypeOK'
  BY DEF Types, TypeOK, Abort, shared, NoImage, PCs
<1>2. Shape'
  BY DEF Types, TypeOK, Shape, Abort, shared, NoImage
<1> QED
  BY <1>1, <1>2 DEF Types

\* A batch of a truncation empties the blocks from..to and leaves the others.
LEMMA TruncateBatchTypes ==
  ASSUME Types, NEW m, NEW from \in Nat, NEW to \in Nat,
         TruncateBatch(m, from, to)
  PROVE  /\ pages' \in Seq(Page)
         /\ Len(pages') = Len(pages)
         /\ DOMAIN pages' = DOMAIN pages
         /\ \A b \in DOMAIN pages :
              pages'[b] = IF b \in from..to THEN EmptyPage ELSE pages[b]
         /\ \A b \in DOMAIN pages' : Len(pages'[b].data) <= PageSize
         /\ current' = to
<1>1. /\ DOMAIN pages = 1..Len(pages)
      /\ Len(pages) \in Nat
      /\ \A b \in DOMAIN pages : pages[b] \in Page
  BY DEF Types, TypeOK
<1>2. pages' = [b \in 1..Len(pages) |->
                  IF b \in from..to THEN EmptyPage ELSE pages[b]]
  BY <1>1 DEF TruncateBatch
<1>3. \A b \in 1..Len(pages) :
        (IF b \in from..to THEN EmptyPage ELSE pages[b]) \in Page
  BY <1>1, NewPages
<1>4. pages' \in Seq(Page) /\ Len(pages') = Len(pages)
  BY <1>1, <1>2, <1>3
<1>5. \A b \in DOMAIN pages' : Len(pages'[b].data) <= PageSize
  BY <1>1, <1>2, NewPages, PagesAssumption DEF Types, Shape
<1> QED
  BY <1>1, <1>2, <1>4, <1>5 DEF TruncateBatch

\* The first batch of a truncation keeps the types.
LEMMA TruncateStartTypes ==
  ASSUME Types, TruncateStart PROVE Types'
<1> DEFINE to == LastOfBatch(FirstBlock, MaxXLogPages - 1)
<1>1. Len(pages) \in Nat /\ DOMAIN pages = 1..Len(pages)
  BY DEF Types, TypeOK
<1>2. to \in Nat /\ to \in {MetaBlock} \cup DOMAIN pages
  BY <1>1, PagesAssumption DEF LastOfBatch
<1>3. TruncateBatch(<<meta'>>, FirstBlock, to)
  BY DEF TruncateStart
<1>4. meta' \in MetaPage
  <2>1. meta \in MetaPage /\ FirstBlock \in Nat \ {0}
    BY DEF Types, TypeOK
  <2>2. meta' = [meta EXCEPT !.next = FirstBlock]
    BY DEF TruncateStart
  <2> QED
    BY <2>1, <2>2 DEF MetaPage
<1> HIDE DEF to
<1>5. /\ pages' \in Seq(Page)
      /\ DOMAIN pages' = DOMAIN pages
      /\ \A b \in DOMAIN pages' : Len(pages'[b].data) <= PageSize
      /\ current' = to
  <2>1. FirstBlock \in Nat
    OBVIOUS
  <2> QED
    BY <1>2, <1>3, <2>1, TruncateBatchTypes
<1>6. TypeOK'
  BY <1>2, <1>4, <1>5 DEF Types, TypeOK, TruncateStart, PCs
<1>7. Shape'
  BY <1>5 DEF Types, Shape, TruncateStart
<1> QED
  BY <1>6, <1>7 DEF Types

\* A further batch of a truncation keeps the types.
LEMMA TruncateMoreTypes ==
  ASSUME Types, TruncateMore PROVE Types'
<1> DEFINE from == current + 1
           to == LastOfBatch(from, MaxXLogPages)
<1>1. Len(pages) \in Nat /\ DOMAIN pages = 1..Len(pages) /\ current \in Nat
  BY DEF Types, TypeOK
<1>2. from \in Nat /\ to \in Nat /\ to \in {MetaBlock} \cup DOMAIN pages
  BY <1>1, PagesAssumption DEF LastOfBatch
<1>3. TruncateBatch(<<>>, from, to)
  BY DEF TruncateMore
<1> HIDE DEF from, to
<1>4. /\ pages' \in Seq(Page)
      /\ DOMAIN pages' = DOMAIN pages
      /\ \A b \in DOMAIN pages' : Len(pages'[b].data) <= PageSize
      /\ current' = to
  BY <1>1, <1>2, <1>3, TruncateBatchTypes
<1>5. TypeOK'
  BY <1>2, <1>4 DEF Types, TypeOK, TruncateMore, bounds
<1>6. Shape'
  BY <1>4 DEF Types, Shape, TruncateMore
<1> QED
  BY <1>5, <1>6 DEF Types

\* The steps that change neither pages nor copies keep the types.
LEMMA OtherTypes ==
  ASSUME Types, EnsureHang \/ TruncateFinish \/ UNCHANGED vars
  PROVE  Types'
<1>1. CASE EnsureHang
  BY <1>1 DEF Types, TypeOK, Shape, EnsureHang, shared, session, bounds, PCs
<1>2. CASE TruncateFinish
  BY <1>2 DEF Types, TypeOK, Shape, TruncateFinish, bounds, PCs, Position
<1>3. CASE UNCHANGED vars
  BY <1>3 DEF Types, TypeOK, Shape, vars, shared, session, bounds
<1> QED
  BY <1>1, <1>2, <1>3
-----------------------------------------------------------------------------
(* The second layer: the stream skips no block.                            *)

\* The session's own copy of the meta page, and the blocks it has opened.
LEMMA NoHoleStep ==
  ASSUME Types, Types', NoHole, [Next]_vars PROVE NoHole'
<1>1. /\ Len(pages) \in Nat /\ DOMAIN pages = 1..Len(pages)
      /\ meta \in MetaPage /\ wmeta \in MetaPage
  BY DEF Types, TypeOK
<1>2. /\ NBlocks = Len(pages) + 1
      /\ NBlocks' = Len(pages') + 1
  BY DEF NBlocks
<1>3. CASE \E l \in MaxSizes : Start(l)
  BY <1>2, <1>3 DEF NoHole, Start, shared
<1>4. CASE \E n \in Sizes \cup BuildSizes : BeginObject(n)
  BY <1>2, <1>4 DEF NoHole, BeginObject, shared
<1>5. CASE EnsureRestart
  <2>1. Publish
    BY <1>5 DEF EnsureRestart
  <2>2. Len(pages') = Len(pages) /\ meta' = wmeta
    BY <2>1, PublishTypes DEF Publish
  <2> QED
    BY <1>2, <1>5, <2>2 DEF NoHole, EnsureRestart
<1>6. CASE EnsureNew
  <2>1. Len(pages') = Len(pages) + 1
    BY <1>1, <1>6 DEF EnsureNew
  <2>2. wmeta.next = NBlocks
    BY <1>1, <1>2, <1>6 DEF EnsureNew, NoHole, MetaPage
  <2>3. wmeta'.next = wmeta.next /\ wmeta'.max = wmeta.max
    BY <1>1, <1>6, <2>2 DEF EnsureNew, MetaPage
  <2>4. meta' = meta
    BY <1>6 DEF EnsureNew, OpenPage
  <2> QED
    BY <1>1, <1>2, <2>1, <2>3, <2>4 DEF NoHole, MetaPage
<1>7. CASE EnsureExisting
  BY <1>2, <1>7 DEF NoHole, EnsureExisting, OpenPage
<1>8. CASE EnsureHang
  BY <1>2, <1>8 DEF NoHole, EnsureHang, shared, session
<1>9. CASE AppendBytes
  <2>1. wmeta.next \in 1..Len(pages)
    BY <1>1, <1>9, AppendBytesEffect DEF Types, TypeOK
  <2>2. /\ pages' = pages /\ meta' = meta
        /\ wmeta' = wmeta \/ wmeta' = Filled(wmeta, limit)
    BY <1>9, AppendBytesEffect
  <2>3. /\ Filled(wmeta, limit).next <= wmeta.next + 1
        /\ Filled(wmeta, limit).next < Filled(wmeta, limit).max
        /\ Filled(wmeta, limit) \in MetaPage
    BY <1>1, FilledFacts DEF Types, TypeOK, NoHole
  <2>4. wmeta'.next <= NBlocks' /\ wmeta'.next < wmeta'.max
    BY <1>1, <1>2, <2>1, <2>2, <2>3 DEF NoHole, MetaPage
  <2> QED
    BY <1>2, <2>2, <2>4 DEF NoHole
<1>10. CASE Finish
  <2>1. Publish
    BY <1>10 DEF Finish
  <2>2. Len(pages') = Len(pages) /\ meta' = wmeta
    BY <2>1, PublishTypes DEF Publish
  <2> QED
    BY <1>2, <1>10, <2>2 DEF NoHole, Finish
<1>11. CASE Abort
  BY <1>2, <1>11 DEF NoHole, Abort, shared
<1>12. CASE TruncateStart
  <2>1. DOMAIN pages' = DOMAIN pages
    BY <1>12 DEF TruncateStart, TruncateBatch
  <2>2. Len(pages') = Len(pages)
    BY <1>1, <2>1 DEF Types, TypeOK
  <2>3. meta'.next = 1 /\ meta'.max = meta.max /\ wmeta' = wmeta
    BY <1>1, <1>12 DEF TruncateStart, MetaPage
  <2> QED
    BY <1>1, <1>2, <2>2, <2>3 DEF NoHole, MetaPage
<1>13. CASE TruncateMore
  <2>1. DOMAIN pages' = DOMAIN pages
    BY <1>13 DEF TruncateMore, TruncateBatch
  <2>2. Len(pages') = Len(pages)
    BY <1>1, <2>1 DEF Types, TypeOK
  <2> QED
    BY <1>2, <1>13, <2>2 DEF NoHole, TruncateMore
<1>14. CASE TruncateFinish
  BY <1>2, <1>14 DEF NoHole, TruncateFinish
<1>15. CASE UNCHANGED vars
  BY <1>2, <1>15 DEF NoHole, vars, shared, session
<1> QED
  BY <1>3, <1>4, <1>5, <1>6, <1>7, <1>8, <1>9, <1>10, <1>11, <1>12, <1>13,
     <1>14, <1>15 DEF Next, Write, Truncate

\* Every step keeps the types.
LEMMA TypesStep ==
  ASSUME Types, NoHole, [Next]_vars PROVE Types'
BY StartTypes, BeginObjectTypes, EnsureRestartTypes, EnsureNewTypes,
   EnsureExistingTypes, AppendBytesTypes, FinishTypes, AbortTypes,
   TruncateStartTypes, TruncateMoreTypes, OtherTypes
   DEF Next, Write, Truncate

\* The types and the absence of holes hold at first.
LEMMA InitTypes ==
  ASSUME Init PROVE Types /\ NoHole
<1>1. TypeOK
  BY PagesAssumption
     DEF Init, TypeOK, InitMeta, MetaPage, Position, Phases, PCs, NoImage,
         NoObject
<1>2. Shape
  BY DEF Init, Shape, NoImage, NoObject
<1>3. NoHole
  BY DEF Init, NoHole, InitMeta, NBlocks
<1> QED
  BY <1>1, <1>2, <1>3 DEF Types

\* The writer's variables keep their types and a session its shape: among
\* others, the writer never registers more buffers than a generic record may
\* hold (TypeOK), and the page that is open always has a free byte (Shape).
THEOREM TypeCorrect == Spec => [](Types /\ NoHole)
<1>1. Init => Types /\ NoHole
  BY InitTypes
<1>2. Types /\ NoHole /\ [Next]_vars => Types' /\ NoHole'
  BY TypesStep, NoHoleStep
<1> QED
  BY <1>1, <1>2, PTL DEF Spec

\* TypeOK, the type invariant the runs check, holds for all constants.
THEOREM TypeInvariant == Spec => []TypeOK
<1>1. Types /\ NoHole => TypeOK
  BY DEF Types
<1> QED
  BY <1>1, TypeCorrect, PTL

\* NoHole, for every page size, ring and mix of sessions, aborts and
\* truncations: P_NEW always returns the block the meta page names, so the
\* assignment meta->next = BufferGetBlockNumber(...) never moves next.
THEOREM NeverAHole == Spec => []NoHole
BY TypeCorrect, PTL
-----------------------------------------------------------------------------
(* The third layer: which pages may be partly filled.                      *)

\* A page is full (or nobody has initialised it) or has no byte yet.
Closed(page) == FreeSize(page) = 0 \/ page = EmptyPage

\* A block as the session sees it.
View(b) == IF b \in DOMAIN image THEN image[b] ELSE pages[b]

InSession == pc \in {"open", "ensure", "append", "packed"}

Settled ==
  /\ pc # "truncate" => \A b \in DOMAIN pages \ {meta.next} : Closed(pages[b])
  /\ InSession => \A b \in DOMAIN pages \ {wmeta.next} : Closed(View(b))
  /\ pc = "ensure" /\ nUsed > 1 =>
       \A b \in DOMAIN pages \cap {wmeta.next} : Closed(View(b))
  /\ pc = "truncate" =>
       /\ meta.next = FirstBlock
       /\ \A b \in 1..current : pages[b] = EmptyPage

Ends == Settled /\ PositionAtEnd

\* The steps that touch no page and no position.
LEMMA QuietEnds ==
  ASSUME Types, Ends, UNCHANGED <<meta, pages, pos, phase, wmeta, image>>,
         pc' # "truncate", pc # "truncate",
         InSession' => InSession,
         pc' = "ensure" => nUsed' = 1
  PROVE  Ends'
<1>1. Settled'
  BY DEF Ends, Settled, Closed, View, FreeSize, EmptyPage
<1>2. PositionAtEnd'
  BY DEF Ends, PositionAtEnd, EndOfWAL, NBlocks, FreeSize, LastOffset
<1> QED
  BY <1>1, <1>2 DEF Ends

\* A session begins with copies of what is shared.
LEMMA StartEnds ==
  ASSUME Types, Ends, NEW l \in MaxSizes, Start(l) PROVE Ends'
<1>1. /\ pc = "idle" /\ pc' = "open"
      /\ pages' = pages /\ meta' = meta /\ pos' = pos /\ phase' = phase
      /\ wmeta' = meta /\ image' = NoImage
  BY DEF Start, shared
<1>2. \A b : View(b)' = pages[b]
  BY <1>1 DEF View, NoImage
<1>3. Settled'
  BY <1>1, <1>2 DEF Ends, Settled, Closed
<1>4. PositionAtEnd'
  BY <1>1 DEF Ends, PositionAtEnd, EndOfWAL, NBlocks
<1> QED
  BY <1>3, <1>4 DEF Ends

\* What is published is what the session saw.
LEMMA PublishEnds ==
  ASSUME Types, Publish,
         \A b \in DOMAIN pages \ {wmeta.next} : Closed(View(b))
  PROVE  /\ meta' = wmeta
         /\ DOMAIN pages' = DOMAIN pages
         /\ Len(pages') = Len(pages)
         /\ \A b \in DOMAIN pages : pages'[b] = View(b)
         /\ \A b \in DOMAIN pages' \ {meta'.next} : Closed(pages'[b])
<1>1. meta' = wmeta /\ DOMAIN pages' = DOMAIN pages /\ Len(pages') = Len(pages)
  BY PublishTypes DEF Publish
<1>2. \A b \in DOMAIN pages : pages'[b] = View(b)
  BY DEF Publish, View
<1> QED
  BY <1>1, <1>2

\* A restart leaves the position at the end of what it publishes.
LEMMA EnsureRestartEnds ==
  ASSUME Types, Ends, EnsureRestart PROVE Ends'
<1>1. /\ pc = "ensure" /\ pc' = "ensure" /\ phase' = phase
      /\ Publish
      /\ pos' = WrittenPosition
      /\ nUsed = MaxXLogPages /\ nUsed' = 1
      /\ wmeta' = wmeta /\ image' = NoImage
  BY DEF EnsureRestart
<1>2. /\ meta' = wmeta
      /\ DOMAIN pages' = DOMAIN pages
      /\ Len(pages') = Len(pages)
      /\ \A b \in DOMAIN pages : pages'[b] = View(b)
      /\ \A b \in DOMAIN pages' \ {meta'.next} : Closed(pages'[b])
  BY <1>1, PublishEnds DEF Ends, Settled, InSession
<1>3. pos' = [block |-> wmeta.next, offset |-> 0]
  BY <1>1 DEF WrittenPosition, Types, Shape
<1>4. \A b \in DOMAIN pages' \cap {wmeta.next} : Closed(pages'[b])
  BY <1>1, <1>2, PagesAssumption DEF Ends, Settled
<1>5. \A b : View(b)' = pages'[b]
  BY <1>1 DEF View, NoImage
<1>6. Settled'
  BY <1>1, <1>2, <1>5 DEF Settled
<1>7. PositionAtEnd'
  <2>1. ASSUME wmeta.next < Len(pages) + 1, FreeSize(pages'[wmeta.next]) > 0
        PROVE  LastOffset(pages'[wmeta.next]) = 0
    <3>1. wmeta.next \in DOMAIN pages'
      BY <1>2, <2>1 DEF Types, TypeOK, MetaPage
    <3>2. Closed(pages'[wmeta.next])
      BY <1>4, <3>1
    <3>3. pages'[wmeta.next] = EmptyPage
      BY <2>1, <3>2 DEF Closed
    <3> QED
      BY <3>3, NewPages
  <2> QED
    BY <1>2, <1>3, <2>1 DEF PositionAtEnd, EndOfWAL, NBlocks
<1> QED
  BY <1>6, <1>7 DEF Ends

\* A block that extends the relation is the one the stream goes on in.
LEMMA EnsureNewEnds ==
  ASSUME Types, NoHole, Ends, EnsureNew PROVE Ends'
<1>1. /\ pages \in Seq(Page) /\ Len(pages) \in Nat
      /\ DOMAIN pages = 1..Len(pages)
      /\ meta.next \in Nat \ {0} /\ meta.next <= Len(pages) + 1
      /\ wmeta.next \in Nat \ {0} /\ wmeta.next <= Len(pages) + 1
  BY DEF Types, TypeOK, MetaPage, NoHole, NBlocks
<1>2. /\ pages' = Append(pages, ZeroPage)
      /\ wmeta.next = Len(pages) + 1
      /\ wmeta' = [wmeta EXCEPT !.next = Len(pages) + 1]
      /\ image' = Put(image, Len(pages) + 1, EmptyPage)
      /\ meta' = meta /\ pos' = pos /\ phase' = phase
      /\ pc = "ensure" /\ pc' \in {"append", "packed"}
  BY <1>1 DEF EnsureNew, OpenPage, AfterEnsure, NBlocks
<1>3. /\ Len(pages') = Len(pages) + 1
      /\ DOMAIN pages' = 1..(Len(pages) + 1)
      /\ pages'[Len(pages) + 1] = ZeroPage
      /\ \A b \in 1..Len(pages) : pages'[b] = pages[b]
  BY <1>1, <1>2
<1>4. wmeta'.next = Len(pages) + 1
  BY <1>2 DEF Types, TypeOK, MetaPage
<1>5. \A b \in 1..Len(pages) : View(b)' = View(b)
  <2>1. \A b \in 1..Len(pages) : b # Len(pages) + 1
    BY <1>1
  <2> QED
    BY <1>2, <1>3, <2>1 DEF View, Put
<1>6. Settled'
  <2>1. \A b \in DOMAIN pages' \ {meta'.next} : Closed(pages'[b])
    BY <1>1, <1>2, <1>3, NewPages DEF Ends, Settled, Closed
  <2>2. \A b \in DOMAIN pages' \ {wmeta'.next} : Closed(View(b)')
    <3>1. \A b \in 1..Len(pages) : Closed(View(b))
      BY <1>1, <1>2 DEF Ends, Settled, InSession
    <3>2. DOMAIN pages' \ {wmeta'.next} = 1..Len(pages)
      BY <1>1, <1>3, <1>4
    <3> QED
      BY <1>5, <3>1, <3>2
  <2> QED
    BY <1>2, <2>1, <2>2 DEF Settled, Closed
<1>7. PositionAtEnd'
  <2>1. CASE meta.next = Len(pages) + 1
    <3>1. EndOfWAL = [block |-> meta.next, offset |-> 0]
      BY <1>1, <2>1 DEF EndOfWAL, NBlocks
    <3>2. EndOfWAL' = [block |-> meta.next, offset |-> 0]
      BY <1>2, <1>3, <2>1, NewPages DEF EndOfWAL, NBlocks
    <3> QED
      BY <1>2, <3>1, <3>2 DEF Ends, PositionAtEnd
  <2>2. CASE meta.next \in 1..Len(pages)
    <3>1. pages'[meta.next] = pages[meta.next]
      BY <1>3, <2>2
    <3>2. EndOfWAL' = EndOfWAL
      BY <1>1, <1>2, <1>3, <2>2, <3>1 DEF EndOfWAL, NBlocks
    <3> QED
      BY <1>2, <3>2 DEF Ends, PositionAtEnd
  <2> QED
    BY <1>1, <2>1, <2>2
<1> QED
  BY <1>6, <1>7 DEF Ends

\* Opening a block changes nothing that is shared.
LEMMA EnsureExistingEnds ==
  ASSUME Types, Ends, EnsureExisting PROVE Ends'
<1>1. /\ pages' = pages /\ wmeta' = wmeta /\ meta' = meta /\ pos' = pos
      /\ phase' = phase /\ pc = "ensure" /\ pc' \in {"append", "packed"}
      /\ image' = Put(image, wmeta.next, ReusablePage(pages[wmeta.next]))
  BY DEF EnsureExisting, OpenPage, AfterEnsure
<1>2. \A b \in DOMAIN pages \ {wmeta.next} : View(b)' = View(b)
  BY <1>1 DEF View, Put
<1>3. Settled'
  BY <1>1, <1>2 DEF Ends, Settled, InSession, Closed
<1>4. PositionAtEnd'
  BY <1>1 DEF Ends, PositionAtEnd, EndOfWAL, NBlocks
<1> QED
  BY <1>3, <1>4 DEF Ends

\* Filling a page changes the copies of the session only.
LEMMA AppendBytesEnds ==
  ASSUME Types, NoHole, Ends, AppendBytes PROVE Ends'
<1>1. /\ pages' = pages /\ meta' = meta /\ pos' = pos /\ phase' = phase
      /\ pc = "append" /\ pc' \in {"ensure", "packed"}
  BY AppendBytesEffect DEF AppendBytes
<1>2. \A b \in DOMAIN pages \ {wmeta.next} : View(b)' = View(b)
  BY <1>1, AppendBytesEffect DEF View
<1>3. \A b : b = wmeta.next => View(b)' = image'[b] /\ current = b
  BY AppendBytesEffect DEF View
<1>4. CASE pc' = "packed"
  <2>1. wmeta' = wmeta
    BY <1>4, AppendBytesEffect
  <2>2. Settled'
    BY <1>1, <1>2, <1>4, <2>1 DEF Ends, Settled, InSession, Closed
  <2> QED
    BY <1>1, <2>2 DEF Ends, PositionAtEnd, EndOfWAL, NBlocks
<1>5. CASE pc' = "ensure"
  <2>1. \A b : b = wmeta.next => Closed(View(b)')
    BY <1>3, <1>5, AppendBytesEffect DEF Closed
  <2>2. \A b \in DOMAIN pages' : Closed(View(b)')
    BY <1>1, <1>2, <2>1 DEF Ends, Settled, InSession
  <2>3. Settled'
    BY <1>1, <1>5, <2>2 DEF Ends, Settled, Closed
  <2> QED
    BY <1>1, <2>3 DEF Ends, PositionAtEnd, EndOfWAL, NBlocks
<1> QED
  BY <1>1, <1>4, <1>5

\* PGrnWALFinish leaves the position at the end of what it publishes.
LEMMA FinishEnds ==
  ASSUME Types, NoHole, Ends, Finish PROVE Ends'
<1>1. /\ pc' = "idle" /\ Publish /\ pos' = WrittenPosition
      /\ pc = "packed"
  BY DEF Finish
<1>2. /\ meta' = wmeta
      /\ DOMAIN pages' = DOMAIN pages
      /\ Len(pages') = Len(pages)
      /\ \A b \in DOMAIN pages : pages'[b] = View(b)
      /\ \A b \in DOMAIN pages' \ {meta'.next} : Closed(pages'[b])
  BY <1>1, PublishEnds DEF Ends, Settled, InSession
<1>3. Settled'
  BY <1>1, <1>2 DEF Settled, InSession
<1>4. PositionAtEnd'
  <2>1. /\ current = wmeta.next /\ current \in DOMAIN image
        /\ FreeSize(image[current]) > 0 /\ current # MetaBlock
        /\ current \in 1..Len(pages) /\ Len(pages) \in Nat
    BY <1>1 DEF Types, TypeOK, Shape, MetaPage
  <2>2. pages'[current] = image[current]
    BY <1>2, <2>1 DEF View, Types, TypeOK
  <2>3. EndOfWAL' = [block |-> current,
                     offset |-> LastOffset(image[current])]
    BY <1>2, <2>1, <2>2 DEF EndOfWAL, NBlocks
  <2> QED
    BY <1>1, <2>1, <2>3 DEF PositionAtEnd, WrittenPosition
<1> QED
  BY <1>3, <1>4 DEF Ends

\* What is shared is as the last record left it.
LEMMA AbortEnds ==
  ASSUME Types, Ends, Abort PROVE Ends'
<1>1. /\ pages' = pages /\ meta' = meta /\ pos' = pos /\ phase' = phase
      /\ pc \in {"open", "ensure", "append", "packed"} /\ pc' = "idle"
  BY DEF Abort, shared
<1>2. Settled'
  BY <1>1 DEF Ends, Settled, InSession
<1>3. PositionAtEnd'
  BY <1>1 DEF Ends, PositionAtEnd, EndOfWAL, NBlocks
<1> QED
  BY <1>2, <1>3 DEF Ends

\* A truncation that has begun says nothing of the position.
LEMMA TruncateStartEnds ==
  ASSUME Types, TruncateStart PROVE Ends'
<1> DEFINE to == LastOfBatch(FirstBlock, MaxXLogPages - 1)
<1>1. Len(pages) \in Nat /\ DOMAIN pages = 1..Len(pages)
  BY DEF Types, TypeOK
<1>2. to \in Nat /\ to <= Len(pages) /\ FirstBlock \in Nat
  BY <1>1, PagesAssumption DEF LastOfBatch
<1>3. TruncateBatch(<<meta'>>, FirstBlock, to)
  BY DEF TruncateStart
<1> HIDE DEF to
<1>4. /\ \A b \in DOMAIN pages :
           pages'[b] = IF b \in FirstBlock..to THEN EmptyPage ELSE pages[b]
      /\ current' = to
  BY <1>2, <1>3, TruncateBatchTypes
<1>5. meta'.next = FirstBlock /\ pc' = "truncate"
  BY DEF TruncateStart, Types, TypeOK, MetaPage
<1>6. \A b \in 1..current' : pages'[b] = EmptyPage
  BY <1>1, <1>2, <1>4
<1> QED
  BY <1>5, <1>6 DEF Ends, Settled, PositionAtEnd, InSession

\* A further batch does not, either, and the first block stays empty.
LEMMA TruncateMoreEnds ==
  ASSUME Types, Ends, TruncateMore PROVE Ends'
<1> DEFINE from == current + 1
           to == LastOfBatch(from, MaxXLogPages)
<1>1. /\ Len(pages) \in Nat /\ DOMAIN pages = 1..Len(pages)
      /\ current \in Nat /\ current < Len(pages) /\ pc = "truncate"
  BY DEF Types, TypeOK, TruncateMore
<1>2. from \in Nat /\ to \in Nat /\ to <= Len(pages)
  BY <1>1, PagesAssumption DEF LastOfBatch
<1>3. TruncateBatch(<<>>, from, to)
  BY DEF TruncateMore
<1>4. from = current + 1
  OBVIOUS
<1> HIDE DEF from, to
<1>5. /\ \A b \in DOMAIN pages :
           pages'[b] = IF b \in from..to THEN EmptyPage ELSE pages[b]
      /\ current' = to
  BY <1>2, <1>3, TruncateBatchTypes
<1>6. meta' = meta /\ pc' = "truncate"
  BY <1>1 DEF TruncateMore
<1>7. \A b \in 1..current' : pages'[b] = EmptyPage
  <2>1. \A b \in 1..current : pages[b] = EmptyPage
    BY <1>1 DEF Ends, Settled
  <2> QED
    BY <1>1, <1>2, <1>4, <1>5, <2>1
<1> QED
  BY <1>1, <1>6, <1>7 DEF Ends, Settled, PositionAtEnd, InSession

\* After a truncation the stream goes on at the start of the first block.
LEMMA TruncateFinishEnds ==
  ASSUME Types, Ends, TruncateFinish PROVE Ends'
<1>1. /\ pages' = pages /\ meta' = meta /\ phase' = phase
      /\ pos' = [block |-> FirstBlock, offset |-> 0]
      /\ pc = "truncate" /\ pc' = "idle" /\ current = Len(pages)
  BY DEF TruncateFinish
<1>2. /\ meta.next = FirstBlock
      /\ DOMAIN pages = 1..Len(pages) /\ Len(pages) \in Nat
      /\ \A b \in DOMAIN pages : pages[b] = EmptyPage
  BY <1>1 DEF Ends, Settled, Types, TypeOK
<1>3. Settled'
  BY <1>1, <1>2 DEF Settled, Closed, InSession
<1>4. PositionAtEnd'
  <2>1. ASSUME 1 < NBlocks PROVE LastOffset(pages[1]) = 0
    BY <1>2, <2>1, NewPages DEF NBlocks
  <2> QED
    BY <1>1, <1>2, <2>1 DEF PositionAtEnd, EndOfWAL, NBlocks
<1> QED
  BY <1>3, <1>4 DEF Ends

\* Every step keeps the position at the end.
LEMMA EndsStep ==
  ASSUME Types, NoHole, Ends, [Next]_vars PROVE Ends'
<1>1. CASE \E n \in Sizes \cup BuildSizes : BeginObject(n)
  <2>1. /\ UNCHANGED <<meta, pages, pos, phase, wmeta, image, nUsed>>
        /\ pc = "open" /\ pc' = "ensure"
    BY <1>1 DEF BeginObject, shared
  <2>2. nUsed' = 1
    BY <2>1 DEF Types, Shape
  <2>3. InSession /\ pc' # "truncate" /\ pc # "truncate"
    BY <2>1 DEF InSession
  <2> QED
    BY <2>1, <2>2, <2>3, QuietEnds
<1>2. CASE EnsureHang
  <2>1. Settled'
    BY <1>2 DEF Ends, Settled, EnsureHang, shared, session, InSession
  <2>2. PositionAtEnd'
    BY <1>2 DEF Ends, PositionAtEnd, EndOfWAL, NBlocks, EnsureHang, shared
  <2> QED
    BY <2>1, <2>2 DEF Ends
<1>3. CASE UNCHANGED vars
  <2>1. Settled'
    BY <1>3 DEF Ends, Settled, vars, shared, session, InSession, Closed, View
  <2>2. PositionAtEnd'
    BY <1>3 DEF Ends, PositionAtEnd, EndOfWAL, NBlocks, vars, shared
  <2> QED
    BY <2>1, <2>2 DEF Ends
<1> QED
  BY <1>1, <1>2, <1>3, StartEnds, EnsureRestartEnds, EnsureNewEnds,
     EnsureExistingEnds, AppendBytesEnds, FinishEnds, AbortEnds,
     TruncateStartEnds, TruncateMoreEnds, TruncateFinishEnds
     DEF Next, Write, Truncate

\* PositionAtEnd, for all constants.  It needs to know which pages may be
\* partly filled: only the one meta->next names, so that a record that stops
\* in the middle of an object (EnsureRestart) leaves a position at the start
\* of a page, and an abort leaves the position where it is.
THEOREM PositionStaysAtEnd == Spec => []PositionAtEnd
<1>1. Init => Types /\ NoHole /\ Ends
  <2>1. ASSUME Init PROVE Ends
    BY <2>1 DEF Init, Ends, Settled, PositionAtEnd, InSession
  <2> QED
    BY <2>1, InitTypes
<1>2. Types /\ NoHole /\ Ends /\ [Next]_vars
        => Types' /\ NoHole' /\ Ends'
  BY TypesStep, NoHoleStep, EndsStep
<1>3. Ends => PositionAtEnd
  BY DEF Ends
<1> QED
  BY <1>1, <1>2, <1>3, PTL DEF Spec

-----------------------------------------------------------------------------
(* The fourth layer: how the blocks that a record holds lie in the ring.   *)

\* The registered blocks are the ones before block n, in the order of the
\* ring: they have not met the block 1 they may have wrapped to.
Straight(n, a, b) ==
  /\ b + 1 = n
  /\ a <= n
  /\ DOMAIN image = a..b
  /\ nUsed = b - a + 2

Wrapped(n, a, b) ==
  /\ limit # 0
  /\ n <= a
  /\ a <= b
  /\ b + 1 >= EffectiveLimit(limit)
  /\ DOMAIN image = 1..(n - 1) \cup a..b
  /\ nUsed = n + b - a + 1

Consecutive(n) ==
  \E a, b \in Nat : a > 0 /\ (Straight(n, a, b) \/ Wrapped(n, a, b))

Apart ==
  /\ pc = "ensure" /\ nUsed < MaxXLogPages => Consecutive(wmeta.next)
  /\ pc \in {"append", "packed"} => Consecutive(wmeta.next + 1)
  /\ pc # "hung"

\* A session whose ring is long enough keeps them apart; the ring of the
\* sessions before it, which may have been shorter, does not matter.
Held == LongEnough(limit) => Apart

\* A session begins with no block.
LEMMA StartHeld ==
  ASSUME Types, NEW l \in MaxSizes, Start(l)
  PROVE  Apart'
BY DEF Apart, Start

\* No block is registered yet.
LEMMA NothingHeld ==
  ASSUME NEW n \in Nat \ {0}, image = NoImage, nUsed = 1
  PROVE  Consecutive(n)
<1>1. /\ n \in Nat /\ n - 1 \in Nat /\ n > 0
      /\ (n - 1) + 1 = n /\ n <= n /\ nUsed = (n - 1) - n + 2
      /\ DOMAIN image = n..(n - 1)
  BY DEF NoImage
<1>2. Straight(n, n, n - 1)
  BY <1>1 DEF Straight
<1> QED
  BY <1>1, <1>2 DEF Consecutive

\* Packing the first byte of an object registers no block.
LEMMA BeginObjectHeld ==
  ASSUME Types, Apart, NEW n \in Sizes \cup BuildSizes, BeginObject(n)
  PROVE  Apart'
<1>1. /\ wmeta' = wmeta /\ image' = image /\ nUsed' = nUsed
      /\ limit' = limit
      /\ pc = "open" /\ pc' = "ensure"
  BY DEF BeginObject
<1>2. wmeta.next \in Nat \ {0} /\ wmeta.next \in Nat
  BY DEF Types, TypeOK, MetaPage
<1>3. image = NoImage /\ nUsed = 1
  BY <1>1 DEF Types, Shape
<1>4. Consecutive(wmeta.next)
  BY <1>2, <1>3, NothingHeld
<1>5. Consecutive(wmeta.next)'
  BY <1>1, <1>4 DEF Consecutive, Straight, Wrapped
<1> QED
  BY <1>1, <1>5 DEF Apart

\* A restart lets go of all the blocks.
LEMMA EnsureRestartHeld ==
  ASSUME Types, Apart, EnsureRestart PROVE Apart'
<1>1. /\ wmeta' = wmeta /\ image' = NoImage /\ nUsed' = 1 /\ limit' = limit
      /\ pc' = "ensure"
  BY DEF EnsureRestart
<1>2. wmeta'.next \in Nat \ {0}
  BY <1>1 DEF Types, TypeOK, MetaPage
<1>3. Consecutive(wmeta.next)'
  <2>1. /\ wmeta'.next - 1 \in Nat /\ wmeta'.next > 0
        /\ (wmeta'.next - 1) + 1 = wmeta'.next
        /\ nUsed' = (wmeta'.next - 1) - wmeta'.next + 2
        /\ DOMAIN image' = wmeta'.next..(wmeta'.next - 1)
    BY <1>1, <1>2 DEF NoImage
  <2>2. \A n : n = wmeta'.next => Straight(n, n, n - 1)'
    BY <1>2, <2>1 DEF Straight
  <2> QED
    BY <1>2, <2>1, <2>2 DEF Consecutive
<1> QED
  BY <1>1, <1>3 DEF Apart

\* The block opened next is the one after those registered.
LEMMA OpenPageHeld ==
  ASSUME Types, Apart, pc = "ensure", HasBuffer, NEW page,
         wmeta'.next = wmeta.next,
         wmeta.next \notin DOMAIN image,
         OpenPage(wmeta.next, page)
  PROVE  Apart'
<1>1. /\ DOMAIN image' = DOMAIN image \cup {wmeta.next}
      /\ nUsed' = nUsed + 1
      /\ limit' = limit
      /\ pc' \in {"append", "packed"}
  BY DEF OpenPage, Put, AfterEnsure
<1>2. wmeta.next \in Nat \ {0} /\ nUsed \in Nat /\ limit \in Nat
  BY PagesAssumption DEF Types, TypeOK, MetaPage
<1>3. PICK a \in Nat, b \in Nat :
        a > 0 /\ (Straight(wmeta.next, a, b) \/ Wrapped(wmeta.next, a, b))
  BY <1>2, PagesAssumption DEF Apart, HasBuffer, Consecutive
<1>4. CASE Straight(wmeta.next, a, b)
  <2>1. Straight(wmeta.next + 1, a, b + 1)'
    <3>1. DOMAIN image' = a..(b + 1)
      BY <1>1, <1>2, <1>4 DEF Straight
    <3> QED
      BY <1>1, <1>2, <1>4, <3>1 DEF Straight
  <2> QED
    BY <1>1, <1>3, <2>1 DEF Apart, Consecutive
<1>5. CASE Wrapped(wmeta.next, a, b)
  <2>1. wmeta.next + 1 <= a
    BY <1>2, <1>5 DEF Wrapped
  <2>2. DOMAIN image' = 1..((wmeta.next + 1) - 1) \cup a..b
    BY <1>1, <1>2, <1>5 DEF Wrapped
  <2>3. Wrapped(wmeta.next + 1, a, b)'
    BY <1>1, <1>2, <1>5, <2>1, <2>2 DEF Wrapped
  <2> QED
    BY <1>1, <1>3, <2>3 DEF Apart, Consecutive
<1> QED
  BY <1>3, <1>4, <1>5

\* The page is full: next goes one block on, or wraps to the first block.
\* It cannot wrap a second time while the record has a buffer left: between
\* two wraps lie limit - 1 blocks.
LEMMA AppendBytesHeld ==
  ASSUME Types, NoHole, Apart, LongEnough(limit), AppendBytes
  PROVE  Apart'
<1>1. /\ DOMAIN image' = DOMAIN image /\ nUsed' = nUsed /\ limit' = limit
      /\ pc = "append"
  BY AppendBytesEffect DEF AppendBytes
<1>2. /\ wmeta \in MetaPage /\ wmeta.next \in Nat \ {0}
      /\ nUsed \in Nat /\ limit \in Nat
  BY PagesAssumption DEF Types, TypeOK, MetaPage
<1>3. PICK a \in Nat, b \in Nat :
        /\ a > 0
        /\ Straight(wmeta.next + 1, a, b) \/ Wrapped(wmeta.next + 1, a, b)
  BY <1>1 DEF Apart, Consecutive
<1>4. CASE wmeta' = wmeta /\ pc' = "packed"
  <2>1. Straight(wmeta.next + 1, a, b)' \/ Wrapped(wmeta.next + 1, a, b)'
    BY <1>1, <1>3, <1>4 DEF Straight, Wrapped
  <2> QED
    BY <1>1, <1>3, <1>4, <2>1 DEF Apart, Consecutive
<1>5. CASE wmeta' = Filled(wmeta, limit) /\ pc' = "ensure"
  <2>1. \/ wmeta'.next = wmeta.next + 1
        \/ /\ limit # 0 /\ wmeta'.next = 1
           /\ 1 + wmeta.next >= EffectiveLimit(limit)
    BY <1>2, <1>5, FilledFacts DEF NoHole, EffectiveLimit
  <2>2. /\ limit = 0 \/ EffectiveLimit(limit) >= MaxXLogPages
        /\ EffectiveLimit(limit) \in Nat
    BY <1>2 DEF LongEnough, EffectiveLimit
  <2>3. CASE wmeta'.next = wmeta.next + 1
    <3>1. Straight(wmeta.next, a, b)' \/ Wrapped(wmeta.next, a, b)'
      BY <1>1, <1>3, <2>3 DEF Straight, Wrapped
    <3> QED
      BY <1>1, <1>3, <1>5, <2>2, <3>1 DEF Apart, Consecutive
  <2>4. CASE /\ limit # 0 /\ wmeta'.next = 1
             /\ 1 + wmeta.next >= EffectiveLimit(limit)
    <3>1. CASE Straight(wmeta.next + 1, a, b)
      <4>1. b = wmeta.next /\ a <= b + 1 /\ nUsed = b - a + 2
        BY <1>2, <3>1 DEF Straight
      <4>2. CASE a <= b
        <5>1. DOMAIN image' = 1..(1 - 1) \cup a..b
          BY <1>1, <3>1 DEF Straight
        <5>2. Wrapped(wmeta.next, a, b)'
          BY <1>1, <1>2, <1>3, <2>4, <4>1, <4>2, <5>1 DEF Wrapped
        <5> QED
          BY <1>1, <1>3, <1>5, <2>2, <5>2 DEF Apart, Consecutive
      <4>3. CASE a > b
        <5>1. wmeta.next \in DOMAIN image
          BY <1>1, AppendBytesEffect
        <5> QED
          BY <1>2, <1>3, <3>1, <4>1, <4>3, <5>1 DEF Straight
      <4> QED
        BY <1>2, <4>2, <4>3
    <3>2. CASE Wrapped(wmeta.next + 1, a, b)
      <4>1. nUsed > MaxXLogPages
        BY <1>2, <1>3, <2>2, <2>4, <3>2, PagesAssumption DEF Wrapped
      <4> QED
        BY <1>2, <4>1, PagesAssumption DEF Types, TypeOK
    <3> QED
      BY <1>3, <3>1, <3>2
  <2> QED
    BY <2>1, <2>3, <2>4
<1> QED
  BY <1>4, <1>5, AppendBytesEffect

\* The writer never comes to a block it has registered while it has a buffer
\* left.
LEMMA NextIsFree ==
  ASSUME Types, Apart, LongEnough(limit), pc = "ensure", HasBuffer
  PROVE  wmeta.next \notin DOMAIN image
<1>1. wmeta.next \in Nat \ {0} /\ nUsed \in Nat /\ limit \in Nat
  BY PagesAssumption DEF Types, TypeOK, MetaPage
<1>2. PICK a \in Nat, b \in Nat :
        a > 0 /\ (Straight(wmeta.next, a, b) \/ Wrapped(wmeta.next, a, b))
  BY <1>1, PagesAssumption DEF Apart, HasBuffer, Consecutive
<1>3. CASE Straight(wmeta.next, a, b)
  BY <1>1, <1>3 DEF Straight
<1>4. CASE Wrapped(wmeta.next, a, b)
  <2>1. SUFFICES ASSUME wmeta.next \in DOMAIN image PROVE FALSE
    OBVIOUS
  <2>2. wmeta.next = a
    BY <1>1, <1>4, <2>1 DEF Wrapped
  <2>3. nUsed = b + 1 /\ b + 1 >= EffectiveLimit(limit) /\ limit # 0
    BY <1>1, <1>4, <2>2 DEF Wrapped
  <2>4. EffectiveLimit(limit) >= MaxXLogPages /\ EffectiveLimit(limit) \in Nat
    BY <1>1, <2>3 DEF LongEnough, EffectiveLimit
  <2> QED
    BY <1>1, <2>3, <2>4, PagesAssumption DEF HasBuffer
<1> QED
  BY <1>2, <1>3, <1>4

\* Every step keeps the blocks that are registered apart from the next one.
LEMMA HeldStep ==
  ASSUME Types, NoHole, Held, [Next]_vars PROVE Held'
<1> SUFFICES ASSUME LongEnough(limit)' PROVE Apart'
  BY DEF Held
<1>1. CASE \E l \in MaxSizes : Start(l)
  BY <1>1, StartHeld
<1>2. ASSUME limit' = limit, ~ \E l \in MaxSizes : Start(l)
      PROVE  Apart'
  <2>1. LongEnough(limit) /\ Apart
    BY <1>2 DEF LongEnough, Held
  <2>2. CASE EnsureNew
    <3>1. /\ pc = "ensure" /\ HasBuffer
          /\ NBlocks <= wmeta.next
          /\ wmeta' = [wmeta EXCEPT !.next = NBlocks]
          /\ OpenPage(NBlocks, EmptyPage)
      BY <2>2 DEF EnsureNew
    <3>2. wmeta.next = NBlocks
      BY <3>1 DEF Types, TypeOK, NoHole, NBlocks, MetaPage
    <3>3. wmeta'.next = wmeta.next
      BY <3>1, <3>2 DEF Types, TypeOK, MetaPage
    <3>4. wmeta.next \notin DOMAIN image
      BY <2>1, <3>1, NextIsFree
    <3> QED
      BY <2>1, <3>1, <3>2, <3>3, <3>4, OpenPageHeld
  <2>3. CASE EnsureExisting
    <3>1. /\ pc = "ensure" /\ HasBuffer /\ wmeta' = wmeta
          /\ OpenPage(wmeta.next, ReusablePage(pages[wmeta.next]))
      BY <2>3 DEF EnsureExisting
    <3> QED
      BY <2>1, <3>1, NextIsFree, OpenPageHeld
  <2>4. CASE EnsureHang
    BY <2>1, <2>4, NextIsFree DEF EnsureHang
  <2>5. CASE Finish \/ Abort
    BY <2>1, <2>5 DEF Apart, Finish, Abort
  <2>6. CASE Truncate
    BY <2>1, <2>6 DEF Apart, Truncate, TruncateStart, TruncateMore,
                      TruncateFinish
  <2>7. CASE UNCHANGED vars
    BY <2>1, <2>7 DEF Apart, Consecutive, Straight, Wrapped, vars, session
  <2> QED
    BY <1>2, <2>1, <2>2, <2>3, <2>4, <2>5, <2>6, <2>7, BeginObjectHeld,
       EnsureRestartHeld, AppendBytesHeld DEF Next, Write
<1>3. (\E l \in MaxSizes : Start(l)) \/ limit' = limit
  BY DEF Next, Write, BeginObject, EnsureRestart, EnsureNew, EnsureExisting,
         EnsureHang, OpenPage, AppendBytes, Finish, Abort, Truncate,
         TruncateStart, TruncateMore, TruncateFinish, vars, session
<1> QED
  BY <1>1, <1>2, <1>3

\* A session whose ring is long enough, or has no limit, never waits for a
\* buffer lock it holds, whatever the sizes of the objects are and however
\* long the ring was before.  Shorter rings do not have this property.
THEOREM NeverSelfDeadlock == Spec => []HangsOnlyInShortRing
<1>1. Init => Types /\ NoHole /\ Held
  <2>1. Init => Held
    BY DEF Init, Held, Apart
  <2> QED
    BY <2>1, InitTypes
<1>2. Types /\ NoHole /\ Held /\ [Next]_vars
        => Types' /\ NoHole' /\ Held'
  BY TypesStep, NoHoleStep, HeldStep
<1>3. Held => HangsOnlyInShortRing
  BY DEF Held, Apart, HangsOnlyInShortRing
<1> QED
  BY <1>1, <1>2, <1>3, PTL DEF Spec

-----------------------------------------------------------------------------
(* The invariant of the stream.                                            *)

\* Pages of a ring: none is overfull, and none has a byte before it is
\* initialised.
Fit(P) ==
  \A b \in DOMAIN P :
    /\ b \in Nat \ {0}
    /\ P[b] \in Page
    /\ Len(P[b].data) <= PageSize
    /\ P[b].init \/ Len(P[b].data) = 0

\* Block b has bytes.
HasData(P, b) == b \in DOMAIN P /\ Len(P[b].data) > 0

\* The first byte of a page, and the last.
FirstCell(page) == page.data[1]
LastCell(page) == page.data[Len(page.data)]

\* The last block that was written in this round of the ring: next, or the
\* one before it while next has no byte of this round yet.
Top(P, m) ==
  IF HasData(P, m.next) /\ FreeSize(P[m.next]) > 0 THEN m.next ELSE m.next - 1

\* The block of the newest byte.
End(m, top) == IF top = 0 THEN m.max - 1 ELSE top

\* The block the ring goes on in after block b.
Succ(m, b) == IF b + 1 = m.max THEN 1 ELSE b + 1

\* What follows a byte of an object that fits in a record: an object that does
\* not may have been given up after it was published in part.
Joined(c1, c2) == FitsOneRecord(c1.n) => Follows(c1, c2)

\* Inside a page every byte follows the byte before it.
Within(P) ==
  \A b \in DOMAIN P : \A j \in 1..Len(P[b].data) - 1 :
    Joined(P[b].data[j], P[b].data[j + 1])

\* So does the first byte of a page, except behind the newest byte and behind
\* the page next, where the oldest bytes begin.
Linked(P, m, top) ==
  \A b, s \in DOMAIN P :
    (/\ b < m.max /\ b # m.next /\ b # End(m, top)
     /\ s = Succ(m, b)
     /\ HasData(P, b) /\ HasData(P, s))
    => Joined(LastCell(P[b]), FirstCell(P[s]))

\* Block b1 was written before block b2: the blocks above top are left from
\* the round before.
Before(m, top, b1, b2) ==
  \/ b1 > top /\ b2 <= top
  \/ b1 > top /\ b2 > top /\ b1 < b2 /\ b2 < m.max
  \/ b2 <= top /\ b1 < b2

\* All bytes of one page are older than all of another.
OlderPage(page1, page2) ==
  \A i \in 1..Len(page1.data), j \in 1..Len(page2.data) :
    Older(page1.data[i], page2.data[j])

\* Pages are as old as their places in the ring say.
Sorted(P, m, top) ==
  \A b1, b2 \in DOMAIN P :
    Before(m, top, b1, b2) => OlderPage(P[b1], P[b2])

\* The newest byte is not on the page the stream comes to next: the ring has
\* two pages of data at least.
NotAlone(P, m, top) ==
  End(m, top) = m.next /\ top # m.next => ~HasData(P, m.next)

\* The pages are a ring of one stream.
Ring(P, m, top) ==
  Within(P) /\ Linked(P, m, top) /\ Sorted(P, m, top) /\ NotAlone(P, m, top)

\* The newest byte is the last one written of the object in progress, or the
\* end of an object, or of what is left of one that was published in pieces.
TailFits(P, m, top, o) ==
  IF o.rest < o.n
  THEN /\ HasData(P, End(m, top))
       /\ LastCell(P[End(m, top)])
            = [rec |-> o.rec, i |-> o.n - o.rest, n |-> o.n]
  ELSE HasData(P, End(m, top)) =>
         LET c == LastCell(P[End(m, top)]) IN c.i = c.n \/ ~FitsOneRecord(c.n)

\* The pages as the session sees them.
Seen == [b \in DOMAIN pages |-> View(b)]

\* The session's object has begun.
Begun == pc \in {"ensure", "append", "packed"}

\* No byte is newer than the ones object o has written.
Past(P, o) ==
  \A b \in DOMAIN P : \A j \in 1..Len(P[b].data) :
    LET c == P[b].data[j]
    IN  c.rec < o.rec \/ (c.rec = o.rec /\ c.i <= o.n - o.rest)

\* No byte is newer than the ones written so far.
Old(P) ==
  IF Begun
  THEN Past(P, obj)
  ELSE \A b \in DOMAIN P : \A j \in 1..Len(P[b].data) :
         P[b].data[j].rec <= count

\* The ring has bytes of an object that does not fit in a record.
Huge(P) ==
  \E b \in DOMAIN P : \E j \in 1..Len(P[b].data) :
    ~FitsOneRecord(P[b].data[j].n)

\* A ring the next byte of object o can be written to.
RingFits(P, m, o) ==
  /\ Fit(P)
  /\ Ring(P, m, Top(P, m))
  /\ TailFits(P, m, Top(P, m), o)

\* What everybody sees.  A page next that has no room is left from the round
\* before, and then the stream was published in the middle of an object.
Shared ==
  /\ Fit(pages)
  /\ Old(pages)
  /\ Within(pages)
  /\ pc # "truncate" =>
       /\ RingFits(pages, meta, NoObject)
       /\ HasData(pages, meta.next)
            => Top(pages, meta) = meta.next \/ Huge(pages)

\* A record whose buffers are used up carries more bytes than fit in all its
\* pages but the first: every page after the first was empty when it was
\* opened.  So only an object that does not fit in a record is split.
UsedUp ==
  /\ pc = "ensure" /\ nUsed > 1 =>
       /\ obj.rest < obj.n
       /\ FitsOneRecord(obj.n) => obj.n - obj.rest > (nUsed - 2) * PageSize
  /\ pc = "append" => nUsed > 1
  /\ pc = "append" /\ nUsed > 2 =>
       /\ obj.rest < obj.n
       /\ image[current] = EmptyPage
       /\ FitsOneRecord(obj.n) => obj.n - obj.rest > (nUsed - 3) * PageSize

\* The copy of a page begins with what the page begins with.
Kept(b) ==
  HasData(pages, b) =>
    HasData(image, b) /\ FirstCell(image[b]) = FirstCell(pages[b])

\* The copy takes the place of a full page whose bytes are older than all the
\* session sees in the ring.
Replaced(b) ==
  /\ Len(pages[b].data) = PageSize
  /\ \A o \in DOMAIN Seen \ {b} :
       o < wmeta.max /\ (o = wmeta.next => Top(Seen, wmeta) = o)
         => OlderPage(pages[b], Seen[o])

\* What became of the pages the session has registered.
Reused == \A b \in DOMAIN image : Kept(b) \/ Replaced(b)

\* What a session sees and has done.
Session ==
  InSession =>
    /\ pc = "open" => wmeta = meta /\ obj = NoObject
    /\ Begun => obj.rec = count /\ obj.n > 0
    /\ pc = "packed" => obj.rest = 0
    /\ Old(Seen)
    /\ RingFits(Seen, wmeta, obj)
    /\ UsedUp
    /\ Reused

\* The layers below, as far as they are needed here.
Base == Types /\ NoHole /\ Settled

\* What this module adds to them.
StreamInv == Shared /\ Session

-----------------------------------------------------------------------------
(* Rings of pages.                                                         *)

\* The data of a page is a sequence of cells.
LEMMA PageCells ==
  ASSUME NEW page \in Page
  PROVE  /\ page.data \in Seq(Cell)
         /\ page.init \in BOOLEAN
         /\ Len(page.data) \in Nat
         /\ DOMAIN page.data = 1..Len(page.data)
         /\ \A j \in 1..Len(page.data) : page.data[j] \in Cell
BY DEF Page

\* The same, of every page of a ring.
LEMMA FitCells ==
  ASSUME NEW P, Fit(P)
  PROVE  \A b \in DOMAIN P :
           /\ Len(P[b].data) \in Nat
           /\ \A j \in 1..Len(P[b].data) : P[b].data[j] \in Cell
BY PageCells DEF Fit

\* Bytes after bytes.
LEMMA ConcatCells ==
  ASSUME NEW s \in Seq(Cell), NEW t \in Seq(Cell)
  PROVE  /\ Len(s \o t) = Len(s) + Len(t)
         /\ \A j \in 1..Len(s) : (s \o t)[j] = s[j]
         /\ \A j \in (Len(s) + 1)..(Len(s) + Len(t)) :
              (s \o t)[j] = t[j - Len(s)]
OBVIOUS

\* A byte and the next one of the same object.
LEMMA FollowsFields ==
  ASSUME NEW c \in Cell, NEW d \in Cell,
         c.i < c.n, d.i = c.i + 1, d.n = c.n, d.rec = c.rec
  PROVE  Follows(c, d)
BY DEF Cell, Follows

\* Q is P with a page without a byte at x: a new block, or the one the stream
\* comes to next.
Emptied(P, Q, m, x) ==
  /\ x \in Nat \ {0}
  /\ HasData(P, x) => x = m.next /\ Top(P, m) = m.next - 1
  /\ DOMAIN Q = DOMAIN P \cup {x}
  /\ Q[x] \in Page
  /\ Len(Q[x].data) = 0
  /\ \A b \in DOMAIN P \ {x} : Q[b] = P[b]

\* A page without a byte, added to the ring or in the place of the page the
\* stream comes to next, keeps the ring: nothing that is left meets what was
\* in it.
LEMMA EmptyRing ==
  ASSUME NEW P, NEW Q, NEW m \in MetaPage, m.next < m.max, NEW o, NEW x,
         RingFits(P, m, o), Emptied(P, Q, m, x)
  PROVE  RingFits(Q, m, o) /\ Top(Q, m) = Top(P, m)
<1> DEFINE top == Top(P, m)
<1>0. /\ Fit(P) /\ Ring(P, m, top) /\ TailFits(P, m, top, o)
      /\ x \in Nat \ {0}
      /\ HasData(P, x) => x = m.next /\ top = m.next - 1
      /\ DOMAIN Q = DOMAIN P \cup {x}
      /\ Q[x] \in Page /\ Len(Q[x].data) = 0
      /\ \A b \in DOMAIN P \ {x} : Q[b] = P[b]
  BY DEF RingFits, Emptied
<1> HIDE DEF top
<1>1. m.next \in Nat \ {0} /\ m.max \in Nat \ {0}
  BY DEF MetaPage
<1>2. Fit(Q)
  BY <1>0, PagesAssumption DEF Fit
<1>3. ~ HasData(Q, x)
  BY <1>0 DEF HasData
<1>4. \A b : HasData(Q, b) => b \in DOMAIN P /\ HasData(P, b) /\ Q[b] = P[b]
  BY <1>0, <1>3 DEF HasData
<1>5. Top(Q, m) = top
  <2>1. CASE x = m.next
    BY <1>0, <1>3, <2>1 DEF Top, top
  <2>2. CASE x # m.next
    <3>1. HasData(Q, m.next) <=> HasData(P, m.next)
      BY <1>0, <2>2 DEF HasData
    <3> QED
      BY <1>4, <3>1 DEF Top, top
  <2> QED
    BY <2>1, <2>2
<1>6. Within(Q)
  BY <1>0, <1>2 DEF Within, Ring
<1>7. Linked(Q, m, top)
  <2> SUFFICES ASSUME NEW b \in DOMAIN Q, NEW s \in DOMAIN Q,
                      b < m.max, b # m.next, b # End(m, top),
                      s = Succ(m, b), HasData(Q, b), HasData(Q, s)
               PROVE  Joined(LastCell(Q[b]), FirstCell(Q[s]))
    BY DEF Linked
  <2>1. Joined(LastCell(P[b]), FirstCell(P[s]))
    BY <1>0, <1>4 DEF Ring, Linked
  <2> QED
    BY <1>4, <2>1
<1>8. Sorted(Q, m, top)
  <2> SUFFICES ASSUME NEW b1 \in DOMAIN Q, NEW b2 \in DOMAIN Q,
                      Before(m, top, b1, b2)
               PROVE  OlderPage(Q[b1], Q[b2])
    BY DEF Sorted
  <2>1. CASE b1 = x \/ b2 = x
    BY <1>0, <2>1 DEF OlderPage
  <2>2. CASE b1 # x /\ b2 # x
    BY <1>0, <2>2 DEF Ring, Sorted
  <2> QED
    BY <2>1, <2>2
<1>9. NotAlone(Q, m, top)
  BY <1>0, <1>4 DEF Ring, NotAlone
<1>10. TailFits(Q, m, top, o)
  <2> DEFINE e == End(m, top)
  <2>1. HasData(P, e) => e # x
    BY <1>0, <1>1 DEF Ring, NotAlone
  <2>2. HasData(P, e) => HasData(Q, e) /\ Q[e] = P[e]
    BY <1>0, <2>1 DEF HasData
  <2> QED
    BY <1>0, <1>4, <2>2 DEF TailFits
<1> QED
  BY <1>2, <1>5, <1>6, <1>7, <1>8, <1>9, <1>10 DEF Ring, RingFits, top

\* The next k bytes of an object.
NewBytes(cells, o, k) ==
  /\ Len(cells) = k
  /\ \A j \in 1..k :
       /\ cells[j] \in Cell
       /\ cells[j].rec = o.rec
       /\ cells[j].i = o.n - o.rest + j
       /\ cells[j].n = o.n

\* Q is P with the next k bytes of object o on the page the stream goes on in;
\* p is the object with these bytes written.
Appended(P, Q, m, o, p, k, cells) ==
  /\ k \in Nat \ {0} /\ k <= o.rest
  /\ p.rec = o.rec /\ p.n = o.n /\ p.rest = o.rest - k
  /\ cells \in Seq(Cell) /\ NewBytes(cells, o, k)
  /\ m.next \in DOMAIN P /\ FreeSize(P[m.next]) > 0
  /\ DOMAIN Q = DOMAIN P
  /\ Fit(Q)
  /\ \A b \in DOMAIN P \ {m.next} : Q[b] = P[b]
  /\ Q[m.next].data = P[m.next].data \o cells

\* What is older than all that was written is older than the page that grew.
LEMMA AppendOlder ==
  ASSUME NEW P, NEW Q, NEW m,
         NEW o \in [rec : Nat, n : Nat, rest : Nat],
         NEW p, NEW k, NEW cells, NEW R, NEW b \in DOMAIN R,
         Fit(P), Fit(R), Past(R, o), o.rest <= o.n,
         Appended(P, Q, m, o, p, k, cells),
         HasData(P, m.next) => OlderPage(R[b], P[m.next])
  PROVE  OlderPage(R[b], Q[m.next])
<1> DEFINE old == P[m.next].data
           new == Q[m.next].data
<1>1. /\ k \in Nat \ {0} /\ k <= o.rest
      /\ cells \in Seq(Cell) /\ NewBytes(cells, o, k)
      /\ m.next \in DOMAIN P
      /\ new = old \o cells
      /\ old \in Seq(Cell) /\ Len(old) \in Nat
  BY PageCells DEF Appended, Fit
<1>2. Len(cells) = k
  BY <1>1 DEF NewBytes
<1> HIDE DEF old, new
<1>3. /\ Len(new) = Len(old) + k
      /\ \A j \in 1..Len(old) : new[j] = old[j]
      /\ \A j \in (Len(old) + 1)..(Len(old) + k) : new[j] = cells[j - Len(old)]
  BY <1>1, <1>2, ConcatCells
<1> SUFFICES ASSUME NEW i \in 1..Len(R[b].data), NEW j \in 1..Len(new)
             PROVE  Older(R[b].data[i], new[j])
  BY DEF OlderPage, new
<1>4. CASE j \in 1..Len(old)
  <2>1. HasData(P, m.next)
    BY <1>1, <1>4 DEF HasData, old
  <2>2. Older(R[b].data[i], old[j])
    BY <1>4, <2>1 DEF OlderPage, old
  <2> QED
    BY <1>3, <1>4, <2>2
<1>5. CASE j \in (Len(old) + 1)..(Len(old) + k)
  <2> DEFINE x == j - Len(old)
             c == R[b].data[i]
             d == new[j]
  <2>1. x \in 1..k /\ d = cells[x]
    BY <1>1, <1>3, <1>5
  <2>2. c.rec \in Nat /\ c.i \in Nat
    BY FitCells DEF Cell
  <2>3. c.rec < o.rec \/ (c.rec = o.rec /\ c.i <= o.n - o.rest)
    BY DEF Past
  <2> HIDE DEF x, c, d
  <2>4. d.rec = o.rec /\ d.i = o.n - o.rest + x
    BY <1>1, <2>1 DEF NewBytes
  <2>5. Older(c, d)
    BY <1>1, <2>1, <2>2, <2>3, <2>4 DEF Older
  <2> QED
    BY <2>5 DEF c, d
<1> QED
  BY <1>1, <1>3, <1>4, <1>5

\* The bytes AppendBytes writes come after all that were written before, and
\* follow the last of them.
LEMMA AppendRing ==
  ASSUME NEW P, NEW Q, NEW m \in MetaPage, m.next < m.max,
         NEW o \in [rec : Nat, n : Nat, rest : Nat],
         NEW p \in [rec : Nat, n : Nat, rest : Nat],
         NEW k, NEW cells,
         RingFits(P, m, o), Past(P, o), o.rest <= o.n,
         Appended(P, Q, m, o, p, k, cells)
  PROVE  /\ HasData(Q, m.next)
         /\ Ring(Q, m, m.next)
         /\ TailFits(Q, m, m.next, p)
         /\ Past(Q, p)
<1> DEFINE top == Top(P, m)
<1>a. /\ k \in Nat \ {0} /\ k <= o.rest
      /\ p.rec = o.rec /\ p.n = o.n /\ p.rest = o.rest - k
      /\ cells \in Seq(Cell) /\ NewBytes(cells, o, k)
      /\ m.next \in DOMAIN P
      /\ DOMAIN Q = DOMAIN P
      /\ Fit(Q)
      /\ \A b \in DOMAIN P \ {m.next} : Q[b] = P[b]
      /\ Q[m.next].data = P[m.next].data \o cells
  BY DEF Appended
<1>b. Fit(P) /\ Ring(P, m, top) /\ TailFits(P, m, top, o)
  BY DEF RingFits
<1>c. IF HasData(P, m.next) THEN top = m.next ELSE top = m.next - 1
  BY DEF Top, Appended
<1> HIDE DEF top
<1> USE <1>a, <1>b, <1>c
<1> DEFINE n == m.next
           old == P[m.next].data
           new == Q[m.next].data
<1>1. n \in Nat \ {0} /\ m.max \in Nat \ {0} /\ n < m.max
  BY DEF MetaPage
<1>2. /\ o.rec \in Nat /\ o.n \in Nat /\ o.rest \in Nat
      /\ p.rec = o.rec /\ p.n = o.n /\ p.rest \in Nat
      /\ p.rest = o.rest - k /\ p.rest < p.n
  OBVIOUS
<1>3. /\ old \in Seq(Cell) /\ Len(old) \in Nat
      /\ \A j \in 1..Len(old) : old[j] \in Cell
  BY PageCells DEF Fit
<1>4. /\ Len(new) = Len(old) + k
      /\ \A j \in 1..Len(old) : new[j] = old[j]
      /\ \A j \in (Len(old) + 1)..(Len(old) + k) : new[j] = cells[j - Len(old)]
  <2>1. new = old \o cells /\ Len(cells) = k
    BY DEF NewBytes
  <2> HIDE DEF new, old
  <2> QED
    BY <1>3, <2>1, ConcatCells
<1> HIDE DEF old, new
<1>5. \A j \in (Len(old) + 1)..(Len(old) + k) :
        /\ new[j] \in Cell
        /\ new[j].rec = o.rec
        /\ new[j].i = o.n - o.rest + (j - Len(old))
        /\ new[j].n = o.n
  <2> TAKE j \in (Len(old) + 1)..(Len(old) + k)
  <2>1. j - Len(old) \in 1..k
    BY <1>3
  <2>2. new[j] = cells[j - Len(old)]
    BY <1>4
  <2>3. cells[j - Len(old)] \in Cell
    BY <2>1 DEF NewBytes
  <2> QED
    BY <2>1, <2>2, <2>3 DEF NewBytes
<1>6. \A b \in DOMAIN P : b \in Nat \ {0} /\ Len(P[b].data) \in Nat
                          /\ \A j \in 1..Len(P[b].data) : P[b].data[j] \in Cell
  BY FitCells DEF Fit
<1>7. HasData(Q, n)
  BY <1>3, <1>4 DEF HasData, new
<1>8. Past(Q, p)
  <2> SUFFICES ASSUME NEW b \in DOMAIN Q, NEW j \in 1..Len(Q[b].data)
               PROVE  LET c == Q[b].data[j]
                      IN  \/ c.rec < p.rec
                          \/ c.rec = p.rec /\ c.i <= p.n - p.rest
    BY DEF Past
  <2>1. CASE b # n
    <3>1. Q[b] = P[b]
      BY <2>1
    <3> DEFINE c == P[b].data[j]
    <3>2. c.i \in Nat /\ c.rec \in Nat
      BY <1>6, <3>1 DEF Cell
    <3>3. c.rec < o.rec \/ (c.rec = o.rec /\ c.i <= o.n - o.rest)
      BY <3>1 DEF Past
    <3> HIDE DEF c
    <3>4. c.rec < p.rec \/ (c.rec = p.rec /\ c.i <= p.n - p.rest)
      BY <1>2, <3>2, <3>3
    <3> QED
      BY <3>1, <3>4 DEF c
  <2>2. CASE b = n
    <3>1. CASE j \in 1..Len(old)
      <4>1. new[j] = old[j] /\ old[j].i \in Nat /\ old[j].rec \in Nat
        BY <1>3, <1>4, <3>1 DEF Cell
      <4> QED
        <5>1. LET c == old[j]
              IN  c.rec < o.rec \/ (c.rec = o.rec /\ c.i <= o.n - o.rest)
          BY <3>1 DEF Past, old
        <5>2. LET c == new[j]
              IN  c.rec < p.rec \/ (c.rec = p.rec /\ c.i <= p.n - p.rest)
          BY <1>2, <4>1, <5>1
        <5> QED
          BY <2>2, <5>2 DEF new
    <3>2. CASE j \in (Len(old) + 1)..(Len(old) + k)
      <4>1. j - Len(old) \in 1..k
        BY <1>3, <3>2
      <4>2. LET c == new[j] IN c.rec = p.rec /\ c.i <= p.n - p.rest
        BY <1>2, <1>5, <3>2, <4>1
      <4> QED
        BY <2>2, <4>2 DEF new
    <3> QED
      BY <1>3, <1>4, <2>2, <3>1, <3>2 DEF new
  <2> QED
    BY <2>1, <2>2
<1>9. TailFits(Q, m, n, p)
  <2>1. End(m, n) = n
    BY <1>1 DEF End
  <2> DEFINE last == Len(old) + k
             c == new[last]
  <2>2. LastCell(Q[n]) = c
    BY <1>4 DEF LastCell, new
  <2>3. last \in (Len(old) + 1)..(Len(old) + k) /\ last - Len(old) = k
    BY <1>3
  <2> HIDE DEF last
  <2>4. c \in Cell /\ c.rec = p.rec /\ c.i = p.n - p.rest /\ c.n = p.n
    <3>1. /\ c \in Cell /\ c.rec = o.rec /\ c.n = o.n
          /\ c.i = o.n - o.rest + (last - Len(old))
      BY <1>5, <2>3
    <3> HIDE DEF c
    <3> QED
      BY <1>2, <2>3, <3>1
  <2> HIDE DEF c
  <2>5. c = [rec |-> p.rec, i |-> p.n - p.rest, n |-> p.n]
    BY <2>4 DEF Cell
  <2> QED
    BY <1>2, <1>7, <2>1, <2>2, <2>5 DEF TailFits
\* What is last is joined with the first of the new cells.
<1>10. ASSUME NEW c \in Cell,
              IF o.rest < o.n
              THEN c = [rec |-> o.rec, i |-> o.n - o.rest, n |-> o.n]
              ELSE /\ c.i = c.n \/ ~FitsOneRecord(c.n)
                   /\ c.rec < o.rec \/ (c.rec = o.rec /\ c.i <= o.n - o.rest)
       PROVE  Joined(c, new[Len(old) + 1])
  <2> DEFINE d == new[Len(old) + 1]
  <2>1. d \in Cell /\ d.rec = o.rec /\ d.i = o.n - o.rest + 1 /\ d.n = o.n
    <3> DEFINE x == Len(old) + 1
    <3>1. x \in (Len(old) + 1)..(Len(old) + k) /\ x - Len(old) = 1
      BY <1>3
    <3> HIDE DEF x
    <3>2. /\ new[x] \in Cell /\ new[x].rec = o.rec /\ new[x].n = o.n
          /\ new[x].i = o.n - o.rest + (x - Len(old))
      BY <1>5, <3>1
    <3> QED
      BY <3>1, <3>2 DEF x
  <2> HIDE DEF d
  <2>2. CASE o.rest < o.n
    <3>1. c.i < c.n /\ d.i = c.i + 1 /\ d.n = c.n /\ d.rec = c.rec
      BY <1>2, <1>10, <2>1, <2>2
    <3>2. Follows(c, d)
      BY <1>10, <2>1, <3>1, FollowsFields
    <3> QED
      BY <3>2 DEF Joined, d
  <2>3. CASE ~(o.rest < o.n)
    <3>1. d.i = 1 /\ c.i \in Nat \ {0} /\ o.n - o.rest = 0
      BY <1>2, <1>10, <2>1, <2>3 DEF Cell
    <3>2. c.rec < d.rec
      BY <1>2, <1>10, <2>1, <2>3, <3>1 DEF Cell
    <3>3. c.i = c.n \/ ~FitsOneRecord(c.n)
      BY <1>10, <2>3
    <3>4. Joined(c, d)
      BY <1>10, <2>1, <3>1, <3>2, <3>3 DEF Joined, Follows, Cell
    <3> QED
      BY <3>4 DEF d
  <2> QED
    BY <2>2, <2>3
<1>11. ASSUME HasData(P, End(m, top))
       PROVE  Joined(LastCell(P[End(m, top)]), new[Len(old) + 1])
  <2> DEFINE e == End(m, top)
             c == LastCell(P[e])
  <2>1. e \in DOMAIN P /\ Len(P[e].data) \in Nat /\ Len(P[e].data) > 0
    BY <1>6, <1>11 DEF HasData
  <2>2. c \in Cell /\ (c.rec < o.rec \/ (c.rec = o.rec /\ c.i <= o.n - o.rest))
    BY <1>6, <2>1 DEF LastCell, Past
  <2>3. IF o.rest < o.n
        THEN c = [rec |-> o.rec, i |-> o.n - o.rest, n |-> o.n]
        ELSE c.i = c.n \/ ~FitsOneRecord(c.n)
    BY <1>11 DEF TailFits
  <2> HIDE DEF c, e
  <2>4. Joined(c, new[Len(old) + 1])
    BY <1>10, <2>2, <2>3
  <2> QED
    BY <2>4 DEF c, e
<1>12. Within(Q)
  <2> SUFFICES ASSUME NEW b \in DOMAIN Q, NEW j \in 1..Len(Q[b].data) - 1
               PROVE  Joined(Q[b].data[j], Q[b].data[j + 1])
    BY DEF Within
  <2>1. CASE b # n
    BY <2>1 DEF Ring, Within
  <2>2. CASE b = n
    <3>1. CASE j \in 1..Len(old) - 1
      <4>1. /\ j \in 1..Len(old) /\ j + 1 \in 1..Len(old)
            /\ new[j] = old[j] /\ new[j + 1] = old[j + 1]
        BY <1>3, <1>4, <3>1
      <4>2. Joined(old[j], old[j + 1])
        BY <3>1 DEF Ring, Within, old
      <4> QED
        BY <2>2, <4>1, <4>2 DEF new
    <3>2. CASE j = Len(old)
      <4>1. HasData(P, n) /\ top = n /\ End(m, top) = n
        BY <1>1, <1>3, <2>2, <3>2 DEF HasData, old, End
      <4>2. LastCell(P[n]) = new[j]
        <5>1. j \in 1..Len(old) /\ LastCell(P[n]) = old[j]
          BY <1>3, <3>2 DEF LastCell, old
        <5> QED
          BY <1>4, <5>1
      <4> QED
        BY <1>11, <2>2, <3>2, <4>1, <4>2 DEF new
    <3>3. CASE j \in (Len(old) + 1)..(Len(old) + k - 1)
      <4>1. /\ j \in (Len(old) + 1)..(Len(old) + k)
            /\ j + 1 \in (Len(old) + 1)..(Len(old) + k)
            /\ j - Len(old) < k /\ j - Len(old) \in Nat
            /\ j + 1 - Len(old) = j - Len(old) + 1
        BY <1>3, <3>3
      <4> DEFINE x == j - Len(old)
                 y == j + 1 - Len(old)
                 c == new[j]
                 d == new[j + 1]
      <4>2. /\ c \in Cell /\ c.rec = o.rec /\ c.n = o.n
            /\ c.i = o.n - o.rest + x
            /\ d \in Cell /\ d.rec = o.rec /\ d.n = o.n
            /\ d.i = o.n - o.rest + y
        <5> DEFINE w == j + 1
        <5>1. c \in Cell /\ c.rec = o.rec /\ c.n = o.n /\ c.i = o.n - o.rest + x
          BY <1>5, <4>1
        <5>2. w \in (Len(old) + 1)..(Len(old) + k)
          BY <4>1
        <5> HIDE DEF w
        <5>3. /\ new[w] \in Cell /\ new[w].rec = o.rec /\ new[w].n = o.n
              /\ new[w].i = o.n - o.rest + (w - Len(old))
          BY <1>5, <5>2
        <5> QED
          BY <5>1, <5>3 DEF w
      <4> HIDE DEF c, d
      <4>3. d.rec = c.rec /\ d.n = c.n /\ d.i = c.i + 1 /\ c.i < c.n
        <5>1. x \in Nat /\ x < k /\ y = x + 1
          BY <4>1
        <5>2. /\ o.n \in Nat /\ o.rest \in Nat /\ k \in Nat
              /\ k <= o.rest /\ o.rest <= o.n
          BY <1>2
        <5>3. d.rec = c.rec /\ d.n = c.n
          BY <4>2
        <5>4. c.n = o.n /\ c.i = o.n - o.rest + x /\ d.i = o.n - o.rest + y
          BY <4>2
        <5> HIDE DEF x, y
        <5> QED
          BY <5>1, <5>2, <5>3, <5>4
      <4>4. Follows(c, d)
        BY <4>2, <4>3, FollowsFields
      <4> QED
        BY <2>2, <4>4 DEF Joined, new, c, d
    <3> QED
      BY <1>3, <1>4, <2>2, <3>1, <3>2, <3>3 DEF new
  <2> QED
    BY <2>1, <2>2
<1>13. Linked(Q, m, n)
  <2> SUFFICES ASSUME NEW b \in DOMAIN Q, NEW s \in DOMAIN Q,
                      b < m.max, b # n, b # End(m, n),
                      s = Succ(m, b), HasData(Q, b), HasData(Q, s)
               PROVE  Joined(LastCell(Q[b]), FirstCell(Q[s]))
    BY DEF Linked
  <2>1. Q[b] = P[b] /\ HasData(P, b)
    BY DEF HasData
  <2>2. CASE s # n
    <3>1. Q[s] = P[s] /\ HasData(P, s)
      BY <2>2 DEF HasData
    <3>2. b # End(m, top)
      <4>1. CASE top = n
        BY <1>1, <4>1 DEF End
      <4>2. CASE top = n - 1
        BY <1>1, <1>6, <2>2, <4>2 DEF End, Succ
      <4> QED
        BY <4>1, <4>2
    <3>3. Joined(LastCell(P[b]), FirstCell(P[s]))
      BY <2>1, <3>1, <3>2 DEF Ring, Linked
    <3> QED
      BY <2>1, <3>1, <3>3
  <2>3. CASE s = n /\ HasData(P, n)
    <3>1. b # End(m, top)
      BY <1>1, <2>3 DEF End
    <3>2. Joined(LastCell(P[b]), FirstCell(P[s]))
      BY <2>1, <2>3, <3>1 DEF Ring, Linked
    <3>3. FirstCell(Q[n]) = FirstCell(P[n])
      BY <1>3, <1>4, <2>3 DEF FirstCell, HasData, new, old
    <3> QED
      BY <2>1, <2>3, <3>2, <3>3
  <2>4. CASE s = n /\ ~HasData(P, n)
    <3>1. top = n - 1 /\ Len(old) = 0
      BY <1>3, <2>4 DEF HasData, old
    <3>2. b = End(m, top)
      BY <1>1, <1>6, <2>4, <3>1, SMTT(30) DEF End, Succ
    <3>3. FirstCell(Q[n]) = new[Len(old) + 1]
      BY <3>1 DEF FirstCell, new
    <3> QED
      BY <1>11, <2>1, <2>4, <3>2, <3>3
  <2> QED
    BY <2>2, <2>3, <2>4
<1>14. Sorted(Q, m, n)
  <2> SUFFICES ASSUME NEW b1 \in DOMAIN Q, NEW b2 \in DOMAIN Q,
                      Before(m, n, b1, b2)
               PROVE  OlderPage(Q[b1], Q[b2])
    BY DEF Sorted
  <2>1. /\ b1 # n /\ Q[b1] = P[b1]
        /\ b1 \in Nat /\ b2 \in Nat
    BY <1>1, <1>6 DEF Before
  <2>2. CASE b2 # n
    <3>1. Before(m, top, b1, b2)
      BY <1>1, <2>1, <2>2 DEF Before
    <3> QED
      BY <2>1, <2>2, <3>1 DEF Ring, Sorted
  <2>3. CASE b2 = n
    <3>1. HasData(P, n) => Before(m, top, b1, b2)
      OBVIOUS
    <3>2. HasData(P, n) => OlderPage(P[b1], P[n])
      BY <2>3, <3>1 DEF Ring, Sorted, HasData
    <3>3. OlderPage(P[b1], Q[n])
      BY <3>2, AppendOlder
    <3> QED
      BY <2>1, <2>3, <3>3
  <2> QED
    BY <2>2, <2>3
<1> QED
  BY <1>1, <1>7, <1>8, <1>9, <1>12, <1>13, <1>14 DEF Ring, NotAlone

\* When the page next is full the stream goes on in a page that is full of
\* older bytes, or empty: the ring is the same with another page next.
LEMMA FilledRing ==
  ASSUME NEW Q, NEW m \in MetaPage, m.next < m.max, NEW l \in Nat, NEW o,
         Fit(Q), Ring(Q, m, m.next), TailFits(Q, m, m.next, o),
         FreeSize(Q[m.next]) = 0,
         \A b \in DOMAIN Q \ {m.next} : Closed(Q[b])
  PROVE  LET f == Filled(m, l)
         IN  /\ Top(Q, f) = f.next - 1
             /\ Ring(Q, f, f.next - 1)
             /\ TailFits(Q, f, f.next - 1, o)
<1> DEFINE n == m.next
           f == Filled(m, l)
<1>1. n \in Nat \ {0} /\ m.max \in Nat \ {0} /\ n < m.max
  BY DEF MetaPage
<1>2. \/ f.next = n + 1 /\ f.max = (IF n + 1 >= m.max THEN n + 2 ELSE m.max)
      \/ f.next = 1 /\ f.max = n + 1 /\ n >= 2
  BY <1>1 DEF Filled, Advance, EffectiveLimit
<1> HIDE DEF f
<1>3. f.next # n /\ f.next \in Nat \ {0} /\ f.max \in Nat
  BY <1>1, <1>2
<1>4. Top(Q, f) = f.next - 1
  <2>1. ASSUME HasData(Q, f.next) PROVE ~(FreeSize(Q[f.next]) > 0)
    <3>1. Closed(Q[f.next])
      BY <1>3, <2>1 DEF HasData
    <3>2. Q[f.next] # EmptyPage
      BY <2>1, NewPages DEF HasData
    <3> QED
      BY <3>1, <3>2 DEF Closed
  <2> QED
    BY <2>1 DEF Top
<1>5. End(f, f.next - 1) = n /\ End(m, n) = n
  BY <1>1, <1>2 DEF End
<1>6. TailFits(Q, f, f.next - 1, o)
  BY <1>5 DEF TailFits
<1>7. \A b \in DOMAIN Q : b \in Nat \ {0}
  BY DEF Fit
<1>8. Linked(Q, f, f.next - 1)
  <2> SUFFICES ASSUME NEW b \in DOMAIN Q, NEW s \in DOMAIN Q,
                      b < f.max, b # f.next, b # n,
                      s = Succ(f, b), HasData(Q, b), HasData(Q, s)
               PROVE  Joined(LastCell(Q[b]), FirstCell(Q[s]))
    BY <1>5 DEF Linked
  <2>1. b < m.max /\ s = Succ(m, b)
    BY <1>1, <1>2, <1>7 DEF Succ
  <2> QED
    BY <1>5, <2>1 DEF Ring, Linked
<1>9. Sorted(Q, f, f.next - 1)
  <2> SUFFICES ASSUME NEW b1 \in DOMAIN Q, NEW b2 \in DOMAIN Q,
                      Before(f, f.next - 1, b1, b2)
               PROVE  OlderPage(Q[b1], Q[b2])
    BY DEF Sorted
  <2>1. Before(m, n, b1, b2)
    BY <1>1, <1>2, <1>7 DEF Before
  <2> QED
    BY <2>1 DEF Ring, Sorted
<1>10. NotAlone(Q, f, f.next - 1)
  BY <1>3, <1>5 DEF NotAlone
<1> QED
  BY <1>4, <1>6, <1>8, <1>9, <1>10 DEF Ring, f
-----------------------------------------------------------------------------
(* The steps.                                                              *)

\* What a session sees: as many pages as there are.
LEMMA SeenFacts ==
  ASSUME Types
  PROVE  /\ DOMAIN pages = 1..Len(pages)
         /\ Len(pages) \in Nat
         /\ DOMAIN Seen = DOMAIN pages
         /\ \A b \in DOMAIN Seen : Seen[b] = View(b)
         /\ Seen = [b \in DOMAIN Seen |-> Seen[b]]
BY DEF Types, TypeOK, Seen

\* The numbers of objects written so far, whether a session goes on or not.
LEMMA OldNumbers ==
  ASSUME NEW P, Fit(P), Old(P), count \in Nat, Begun => obj.rec = count
  PROVE  \A b \in DOMAIN P : \A j \in 1..Len(P[b].data) :
           P[b].data[j].rec <= count
<1> SUFFICES ASSUME NEW b \in DOMAIN P, NEW j \in 1..Len(P[b].data)
             PROVE  P[b].data[j].rec <= count
  OBVIOUS
<1>1. P[b].data[j].rec \in Nat
  BY FitCells DEF Cell
<1> QED
  BY <1>1 DEF Old, Past

\* A step that leaves the pages alone leaves what they hold old.
LEMMA SharedSame ==
  ASSUME Shared, UNCHANGED <<meta, pages>>, pc # "truncate",
         pc' # "truncate", Old(pages)'
  PROVE  Shared'
BY DEF Shared

\* A session begins with copies of what is shared.
LEMMA StartStream ==
  ASSUME Types, StreamInv, NEW l \in MaxSizes, Start(l)
  PROVE  StreamInv'
<1>1. /\ pc = "idle" /\ pc' = "open" /\ wmeta' = meta /\ obj' = NoObject
      /\ meta' = meta /\ pages' = pages /\ image' = NoImage
      /\ count' = count /\ nUsed' = 1
  BY DEF Start, shared, bounds
<1>2. Seen' = pages
  BY <1>1, SeenFacts DEF Seen, View, NoImage, Types, TypeOK
<1>3. Old(pages)' /\ ~Begun /\ ~Begun'
  BY <1>1 DEF StreamInv, Shared, Old, Begun
<1>4. Shared'
  BY <1>1, <1>3, SharedSame DEF StreamInv
<1>5. RingFits(Seen', wmeta', obj')
  BY <1>1, <1>2 DEF StreamInv, Shared
<1>6. Old(Seen)'
  BY <1>1, <1>2, <1>3 DEF Old
<1>7. UsedUp' /\ Reused'
  BY <1>1 DEF UsedUp, Reused, NoImage
<1>8. Session'
  BY <1>1, <1>3, <1>5, <1>6, <1>7 DEF Session
<1> QED
  BY <1>4, <1>8 DEF StreamInv

\* The object that begins is newer than all that is in the ring.
LEMMA BeginObjectStream ==
  ASSUME Types, StreamInv, NEW n \in Sizes \cup BuildSizes, BeginObject(n)
  PROVE  StreamInv'
<1>1. /\ pc = "open" /\ pc' = "ensure" /\ count' = count + 1
      /\ obj' = [rec |-> count + 1, n |-> n, rest |-> n]
      /\ UNCHANGED <<meta, pages, wmeta, image, nUsed>>
      /\ n \in Nat \ {0} /\ count \in Nat
  BY WriterAssumption DEF BeginObject, shared, Types, TypeOK
<1>2. /\ image = NoImage /\ nUsed = 1
      /\ InSession /\ InSession' /\ ~Begun /\ Begun'
  BY <1>1 DEF Types, Shape, InSession, Begun
<1>3. Seen' = Seen
  BY <1>1 DEF Seen, View
<1>4. \A P : Fit(P) /\ Old(P) => Past(P, obj')
  <2> SUFFICES ASSUME NEW P, Fit(P), Old(P),
                      NEW b \in DOMAIN P, NEW j \in 1..Len(P[b].data)
               PROVE  P[b].data[j].rec < obj'.rec
    BY DEF Past
  <2>1. P[b].data[j].rec <= count /\ P[b].data[j].rec \in Nat
    BY <1>1, <1>2, OldNumbers, FitCells DEF Cell
  <2> QED
    BY <1>1, <2>1
<1>5. Old(pages)' /\ Old(Seen)'
  <2>1. Fit(pages) /\ Old(pages) /\ Fit(Seen) /\ Old(Seen)
    BY <1>2 DEF StreamInv, Shared, Session, RingFits
  <2>2. Past(pages, obj') /\ Past(Seen, obj')
    BY <1>4, <2>1
  <2> QED
    BY <1>1, <1>2, <1>3, <2>2 DEF Old
<1>6. Shared'
  BY <1>1, <1>5, SharedSame DEF StreamInv
<1>7. RingFits(Seen', wmeta', obj')
  <2>1. RingFits(Seen, wmeta, NoObject)
    BY <1>1, <1>2 DEF StreamInv, Session
  <2>2. TailFits(Seen, wmeta, Top(Seen, wmeta), obj')
    BY <1>1, <2>1 DEF RingFits, TailFits, NoObject
  <2> QED
    BY <1>1, <1>3, <2>1, <2>2 DEF RingFits
<1>8. UsedUp' /\ Reused'
  BY <1>1, <1>2 DEF UsedUp, Reused, NoImage
<1>9. Session'
  BY <1>1, <1>5, <1>7, <1>8 DEF Session
<1> QED
  BY <1>6, <1>9 DEF StreamInv

\* What is published is what the session saw.
LEMMA PublishSeen ==
  ASSUME Types, Publish
  PROVE  pages' = Seen /\ meta' = wmeta
BY DEF Publish, Seen, View

\* An object whose last byte has been written, or one that is too large for a
\* record, leaves an end a later object may follow.
LEMMA TailDone ==
  ASSUME NEW P, NEW m, NEW o \in [rec : Nat, n : Nat, rest : Nat],
         RingFits(P, m, o), o.rest = 0 \/ ~FitsOneRecord(o.n)
  PROVE  RingFits(P, m, NoObject)
BY DEF RingFits, TailFits, NoObject

\* When the buffers of a record are used up, the object is one that does not
\* fit in a record.
LEMMA RestartIsHuge ==
  ASSUME Types, Session, EnsureRestart
  PROVE  obj.rest < obj.n /\ ~FitsOneRecord(obj.n)
<1>1. pc = "ensure" /\ nUsed = MaxXLogPages /\ MaxXLogPages >= 2
  BY PagesAssumption DEF EnsureRestart
<1>2. /\ obj.rest < obj.n
      /\ FitsOneRecord(obj.n)
           => obj.n - obj.rest > (MaxXLogPages - 2) * PageSize
  BY <1>1, PagesAssumption DEF Session, InSession, UsedUp
<1>3. obj.n \in Nat /\ obj.rest \in Nat
  BY DEF Types, TypeOK
<1> DEFINE room == (MaxXLogPages - 2) * PageSize
<1>4. room \in Int
  BY PagesAssumption
<1>5. FitsOneRecord(obj.n) <=> obj.n <= room
  BY DEF FitsOneRecord
<1> HIDE DEF room
<1>6. FitsOneRecord(obj.n) => obj.n - obj.rest > room
  BY <1>2 DEF room
<1> QED
  BY <1>2, <1>3, <1>4, <1>5, <1>6

\* A restart publishes part of an object that does not fit in a record.
LEMMA EnsureRestartStream ==
  ASSUME Types, StreamInv, EnsureRestart
  PROVE  StreamInv'
<1>1. /\ pc = "ensure" /\ pc' = "ensure" /\ image' = NoImage /\ nUsed' = 1
      /\ wmeta' = wmeta /\ obj' = obj /\ count' = count
      /\ Publish
  BY DEF EnsureRestart, bounds
<1>2. pages' = Seen /\ meta' = wmeta /\ InSession /\ Begun /\ Begun'
  BY <1>1, PublishSeen DEF InSession, Begun
<1>3. Seen' = Seen
  <2>1. DOMAIN pages' = DOMAIN Seen /\ \A b : View(b)' = pages'[b]
    BY <1>1, <1>2 DEF View, NoImage
  <2>2. Seen' = [b \in DOMAIN pages' |-> pages'[b]]
    BY <2>1 DEF Seen
  <2> QED
    BY <1>2, <2>2, SeenFacts
<1>4. /\ Old(Seen) /\ RingFits(Seen, wmeta, obj) /\ Fit(Seen)
      /\ obj.rec = count /\ obj.n > 0
  BY <1>2 DEF StreamInv, Session, RingFits
<1>5. Old(Seen)' /\ Old(pages)'
  BY <1>1, <1>2, <1>3, <1>4 DEF Old
<1>6. /\ obj.rest < obj.n /\ ~FitsOneRecord(obj.n)
      /\ obj \in [rec : Nat, n : Nat, rest : Nat]
  BY RestartIsHuge DEF StreamInv, Types, TypeOK
<1>7. RingFits(Seen, wmeta, NoObject)
  BY <1>4, <1>6, TailDone
<1>8. Huge(Seen)
  <2> DEFINE e == End(wmeta, Top(Seen, wmeta))
  <2>1. e \in DOMAIN Seen /\ Len(Seen[e].data) > 0 /\ Len(Seen[e].data) \in Nat
    BY <1>4, <1>6, FitCells DEF RingFits, TailFits, HasData
  <2>2. LastCell(Seen[e]).n = obj.n
    BY <1>4, <1>6 DEF RingFits, TailFits
  <2> HIDE DEF e
  <2>3. Len(Seen[e].data) \in 1..Len(Seen[e].data)
    BY <2>1
  <2> QED
    BY <1>6, <2>1, <2>2, <2>3 DEF Huge, LastCell
<1>9. Shared'
  <2>1. Fit(Seen) /\ Within(Seen)
    BY <1>4 DEF RingFits, Ring
  <2> QED
    BY <1>1, <1>2, <1>5, <1>7, <1>8, <2>1 DEF Shared
<1>10. Session'
  <2>1. UsedUp' /\ Reused'
    BY <1>1 DEF UsedUp, Reused, NoImage
  <2> QED
    BY <1>1, <1>3, <1>4, <1>5, <2>1 DEF Session
<1> QED
  BY <1>9, <1>10 DEF StreamInv

\* The end of a session publishes the end of an object.
LEMMA FinishStream ==
  ASSUME Types, StreamInv, Finish
  PROVE  StreamInv'
<1>1. /\ pc = "packed" /\ pc' = "idle" /\ count' = count
      /\ Publish
  BY DEF Finish, bounds
<1>2. /\ pages' = Seen /\ meta' = wmeta /\ InSession /\ Begun
      /\ ~InSession' /\ ~Begun'
  BY <1>1, PublishSeen DEF InSession, Begun
<1>3. /\ Old(Seen) /\ RingFits(Seen, wmeta, obj) /\ Fit(Seen) /\ Within(Seen)
      /\ obj.rec = count /\ obj.rest = 0
  BY <1>1, <1>2 DEF StreamInv, Session, RingFits, Ring
<1>4. Old(pages)'
  BY <1>1, <1>2, <1>3, OldNumbers DEF Old, Types, TypeOK
<1>5. RingFits(Seen, wmeta, NoObject)
  BY <1>3, TailDone DEF Types, TypeOK
<1>6. HasData(Seen, wmeta.next) => Top(Seen, wmeta) = wmeta.next
  <2>1. wmeta.next \in DOMAIN image /\ FreeSize(image[wmeta.next]) > 0
    BY <1>1 DEF Types, Shape
  <2>2. wmeta.next \in DOMAIN Seen /\ Seen[wmeta.next] = image[wmeta.next]
    BY <2>1, SeenFacts DEF View, Types, TypeOK
  <2> QED
    BY <2>1, <2>2 DEF Top
<1>7. Shared'
  BY <1>1, <1>2, <1>3, <1>4, <1>5, <1>6 DEF Shared
<1> QED
  BY <1>2, <1>7 DEF StreamInv, Session

\* A block that a page is opened in: the buffers of the record and the bytes
\* written with them.
LEMMA OpenPageSpent ==
  ASSUME Types, Session, pc = "ensure", HasBuffer, NEW b, NEW page,
         OpenPage(b, page), nUsed > 1 => page = EmptyPage
  PROVE  /\ UsedUp' /\ InSession /\ InSession' /\ Begun /\ Begun'
         /\ pc' # "open"
         /\ obj'.rec = count' /\ obj'.n > 0
         /\ pc' = "packed" => obj'.rest = 0
<1>1. /\ current' = b /\ nUsed' = nUsed + 1 /\ obj' = obj /\ count' = count
      /\ pc' = (IF obj.rest > 0 THEN "append" ELSE "packed")
      /\ image'[b] = page
  BY DEF OpenPage, bounds, AfterEnsure, Put
<1>2. InSession /\ InSession' /\ Begun /\ Begun' /\ nUsed \in Nat /\ nUsed >= 1
      /\ obj.rest \in Nat
  BY <1>1, PagesAssumption DEF InSession, Begun, Types, TypeOK
<1>3. ASSUME pc' = "append", nUsed' > 2
      PROVE  /\ obj'.rest < obj'.n
             /\ image'[current'] = EmptyPage
             /\ FitsOneRecord(obj'.n)
                  => obj'.n - obj'.rest > (nUsed' - 3) * PageSize
  <2>1. nUsed > 1 /\ nUsed' - 3 = nUsed - 2
    BY <1>1, <1>2, <1>3
  <2>2. UsedUp
    BY <1>2 DEF Session
  <2> QED
    BY <1>1, <2>1, <2>2 DEF UsedUp
<1>4. UsedUp'
  BY <1>1, <1>2, <1>3 DEF UsedUp
<1> QED
  BY <1>1, <1>2, <1>4 DEF Session

\* The pages a session sees after it has opened one.
LEMMA OpenPageSeen ==
  ASSUME Types, Types', NEW b, NEW page, OpenPage(b, page),
         b \in DOMAIN pages',
         DOMAIN pages \subseteq DOMAIN pages',
         \A c \in DOMAIN pages : pages'[c] = pages[c]
  PROVE  /\ DOMAIN Seen' = DOMAIN pages'
         /\ Seen'[b] = page
         /\ \A c \in DOMAIN pages \ {b} : Seen'[c] = Seen[c]
         /\ DOMAIN image' = DOMAIN image \cup {b}
         /\ image'[b] = page
         /\ \A c \in DOMAIN image \ {b} : image'[c] = image[c]
<1>1. /\ DOMAIN image' = DOMAIN image \cup {b}
      /\ image'[b] = page
      /\ \A c \in DOMAIN image \ {b} : image'[c] = image[c]
  BY DEF OpenPage, Put
<1>2. /\ DOMAIN Seen' = DOMAIN pages'
      /\ \A c \in DOMAIN pages' : Seen'[c] = View(c)'
  BY DEF Seen
<1>3. \A c \in DOMAIN pages : Seen[c] = View(c)
  BY DEF Seen
<1>4. \A c \in DOMAIN pages \ {b} : View(c)' = View(c)
  BY <1>1 DEF View
<1>5. View(b)' = page
  BY <1>1 DEF View
<1> QED
  BY <1>1, <1>2, <1>3, <1>4, <1>5

\* A new block extends the ring without a byte.
LEMMA EnsureNewStream ==
  ASSUME Base, Types', StreamInv, EnsureNew
  PROVE  StreamInv'
<1> DEFINE n == wmeta.next
<1>1. /\ pages \in Seq(Page) /\ Len(pages) \in Nat
      /\ DOMAIN pages = 1..Len(pages)
      /\ n \in Nat \ {0} /\ n <= Len(pages) + 1 /\ wmeta \in MetaPage
      /\ meta \in MetaPage /\ meta.next < meta.max /\ wmeta.next < wmeta.max
  BY DEF Base, Types, TypeOK, MetaPage, NoHole, NBlocks
<1>2. /\ pc = "ensure" /\ HasBuffer /\ n = Len(pages) + 1
      /\ pages' = Append(pages, ZeroPage)
      /\ wmeta' = [wmeta EXCEPT !.next = Len(pages) + 1]
      /\ OpenPage(n, EmptyPage)
  BY <1>1 DEF EnsureNew, NBlocks
<1>3. /\ DOMAIN pages' = DOMAIN pages \cup {n}
      /\ pages'[n] = ZeroPage
      /\ \A b \in DOMAIN pages : pages'[b] = pages[b]
      /\ n \notin DOMAIN pages
  BY <1>1, <1>2
<1>4. wmeta' = wmeta
  BY <1>1, <1>2 DEF MetaPage
<1>5. /\ meta' = meta /\ obj' = obj /\ count' = count
      /\ pc' \in {"append", "packed"}
  BY <1>2 DEF OpenPage, bounds, AfterEnsure
<1>6. /\ InSession /\ InSession' /\ Begun /\ Begun' /\ UsedUp' /\ pc' # "open"
      /\ obj'.rec = count' /\ obj'.n > 0
      /\ pc' = "packed" => obj'.rest = 0
  BY <1>2, OpenPageSpent DEF StreamInv, Base
<1>7. /\ DOMAIN Seen' = DOMAIN pages'
      /\ Seen'[n] = EmptyPage
      /\ \A b \in DOMAIN pages : Seen'[b] = Seen[b]
      /\ DOMAIN image' = DOMAIN image \cup {n}
      /\ image'[n] = EmptyPage
      /\ \A b \in DOMAIN image \ {n} : image'[b] = image[b]
  <2>1. /\ n \in DOMAIN pages'
        /\ DOMAIN pages \subseteq DOMAIN pages'
        /\ \A c \in DOMAIN pages : pages'[c] = pages[c]
        /\ DOMAIN pages \ {n} = DOMAIN pages
    BY <1>3
  <2>2. Types /\ Types' /\ OpenPage(n, EmptyPage)
    BY <1>2 DEF Base
  <2> HIDE DEF n
  <2>3. /\ DOMAIN Seen' = DOMAIN pages'
        /\ Seen'[n] = EmptyPage
        /\ \A c \in DOMAIN pages \ {n} : Seen'[c] = Seen[c]
        /\ DOMAIN image' = DOMAIN image \cup {n}
        /\ image'[n] = EmptyPage
        /\ \A c \in DOMAIN image \ {n} : image'[c] = image[c]
    BY <2>1, <2>2, OpenPageSeen
  <2> QED
    BY <2>1, <2>3
<1>8. DOMAIN Seen = DOMAIN pages /\ DOMAIN image \subseteq DOMAIN pages
  BY SeenFacts DEF Base, Types, TypeOK
<1>9. /\ RingFits(pages, meta, NoObject)
      /\ HasData(pages, meta.next)
           => Top(pages, meta) = meta.next \/ Huge(pages)
      /\ RingFits(Seen, wmeta, obj)
      /\ Past(pages, obj) /\ Past(Seen, obj)
  BY <1>2, <1>6 DEF StreamInv, Shared, Session, Old
<1>10. RingFits(pages', meta, NoObject) /\ Top(pages', meta) = Top(pages, meta)
  <2>1. Emptied(pages, pages', meta, n)
    BY <1>1, <1>3, NewPages DEF Emptied, HasData
  <2> QED
    BY <1>1, <1>9, <2>1, EmptyRing
<1>11. RingFits(Seen', wmeta, obj) /\ Top(Seen', wmeta) = Top(Seen, wmeta)
  <2>1. Emptied(Seen, Seen', wmeta, n)
    BY <1>1, <1>3, <1>7, <1>8, NewPages DEF Emptied, HasData
  <2> QED
    BY <1>1, <1>9, <2>1, EmptyRing
<1>12. Old(pages)' /\ Old(Seen)'
  <2>1. Past(pages', obj)
    BY <1>3, <1>9, NewPages DEF Past
  <2>2. Past(Seen', obj)
    BY <1>3, <1>7, <1>8, <1>9, NewPages DEF Past
  <2> QED
    BY <1>5, <1>6, <2>1, <2>2 DEF Old
<1>13. Shared'
  <2>1. HasData(pages', meta.next) => HasData(pages, meta.next)
    BY <1>3, NewPages DEF HasData
  <2>2. Huge(pages) => Huge(pages')
    BY <1>3 DEF Huge
  <2>3. Within(pages') /\ Fit(pages')
    BY <1>10 DEF RingFits, Ring
  <2> QED
    BY <1>5, <1>9, <1>10, <1>12, <2>1, <2>2, <2>3 DEF Shared
<1>14. Reused'
  <2> SUFFICES ASSUME NEW b \in DOMAIN image' PROVE Kept(b)' \/ Replaced(b)'
    BY DEF Reused
  <2>1. CASE b = n
    BY <1>3, <2>1, NewPages DEF Kept, HasData
  <2>2. CASE b # n
    <3>1. b \in DOMAIN image /\ b \in DOMAIN pages /\ image'[b] = image[b]
          /\ pages'[b] = pages[b]
      BY <1>3, <1>7, <1>8, <2>2
    <3>2. CASE Kept(b)
      BY <1>3, <1>7, <3>1, <3>2 DEF Kept, HasData
    <3>3. CASE Replaced(b)
      <4> SUFFICES ASSUME NEW o \in DOMAIN Seen' \ {b},
                          o < wmeta.max,
                          o = wmeta.next => Top(Seen', wmeta) = o
                   PROVE  OlderPage(pages[b], Seen'[o])
        BY <1>4, <3>1, <3>3 DEF Replaced
      <4>1. CASE o = n
        BY <1>7, <4>1, NewPages DEF OlderPage
      <4>2. CASE o # n
        BY <1>3, <1>7, <1>8, <3>3, <4>2 DEF Replaced
      <4> QED
        BY <4>1, <4>2
    <3> QED
      BY <1>6, <3>1, <3>2, <3>3 DEF StreamInv, Session, Reused
  <2> QED
    BY <2>1, <2>2
<1>15. RingFits(Seen', wmeta', obj')
  BY <1>4, <1>5, <1>11
<1>16. Session'
  BY <1>6, <1>12, <1>14, <1>15 DEF Session
<1> QED
  BY <1>13, <1>16 DEF StreamInv

\* A page that has room is kept; a full one was the oldest of the ring.
LEMMA EnsureExistingStream ==
  ASSUME Base, Types', StreamInv, EnsureExisting
  PROVE  StreamInv'
<1> DEFINE n == wmeta.next
           page == ReusablePage(pages[n])
<1>1. /\ pages \in Seq(Page) /\ Len(pages) \in Nat
      /\ DOMAIN pages = 1..Len(pages)
      /\ n \in Nat \ {0} /\ wmeta \in MetaPage /\ wmeta.next < wmeta.max
      /\ wmeta.max \in Nat
  BY DEF Base, Types, TypeOK, MetaPage, NoHole
<1>2. /\ pc = "ensure" /\ HasBuffer /\ n \in DOMAIN pages
      /\ n \notin DOMAIN image
      /\ pages' = pages /\ wmeta' = wmeta
      /\ OpenPage(n, page)
  BY <1>1 DEF EnsureExisting, NBlocks
<1>3. /\ meta' = meta /\ obj' = obj /\ count' = count
      /\ pc' \in {"append", "packed"}
  BY <1>2 DEF OpenPage, bounds, AfterEnsure
<1>4. /\ DOMAIN Seen = DOMAIN pages /\ DOMAIN image \subseteq DOMAIN pages
      /\ Seen[n] = pages[n] /\ View(n) = pages[n]
  BY <1>2, SeenFacts DEF Base, Types, TypeOK, View
<1>5. /\ FreeSize(pages[n]) = 0 => page = EmptyPage
      /\ FreeSize(pages[n]) # 0 => page = pages[n]
  BY DEF ReusablePage
<1>6. nUsed > 1 => page = EmptyPage
  <2>1. nUsed > 1 => Closed(pages[n])
    BY <1>2, <1>4 DEF Base, Settled
  <2> QED
    BY <1>5, <2>1 DEF Closed
<1> HIDE DEF page
<1>7. /\ InSession /\ InSession' /\ Begun /\ Begun' /\ UsedUp' /\ pc' # "open"
      /\ obj'.rec = count' /\ obj'.n > 0
      /\ pc' = "packed" => obj'.rest = 0
  BY <1>2, <1>6, OpenPageSpent DEF StreamInv, Base
<1>8. /\ DOMAIN Seen' = DOMAIN pages
      /\ Seen'[n] = page
      /\ \A b \in DOMAIN pages \ {n} : Seen'[b] = Seen[b]
      /\ DOMAIN image' = DOMAIN image \cup {n}
      /\ image'[n] = page
      /\ \A b \in DOMAIN image \ {n} : image'[b] = image[b]
  BY <1>2, OpenPageSeen DEF Base
<1>9. /\ RingFits(Seen, wmeta, obj)
      /\ Past(pages, obj) /\ Past(Seen, obj)
  BY <1>2, <1>7 DEF StreamInv, Shared, Session, Old
<1>10. Old(pages)'
  BY <1>2, <1>3, <1>7, <1>9 DEF Old
<1>11. Shared'
  BY <1>2, <1>3, <1>10, SharedSame DEF StreamInv
<1>12. CASE FreeSize(pages[n]) # 0
  <2>1. page = Seen[n]
    BY <1>4, <1>5, <1>12
  <2>2. Seen' = Seen
    <3>1. Seen' = [b \in DOMAIN Seen' |-> Seen'[b]]
      BY SeenFacts DEF Base, Seen
    <3>2. Seen = [b \in DOMAIN Seen |-> Seen[b]]
      BY SeenFacts DEF Base
    <3>3. /\ DOMAIN Seen' = DOMAIN Seen
          /\ \A b \in DOMAIN Seen : Seen'[b] = Seen[b]
      BY <1>4, <1>8, <2>1
    <3> QED
      BY <3>1, <3>2, <3>3
  <2>3. Old(Seen)'
    BY <1>3, <1>7, <1>9, <2>2 DEF Old
  <2>4. Reused'
    <3> SUFFICES ASSUME NEW b \in DOMAIN image' PROVE Kept(b)' \/ Replaced(b)'
      BY DEF Reused
    <3>1. CASE b = n
      BY <1>2, <1>4, <1>8, <2>1, <3>1 DEF Kept, HasData
    <3>2. CASE b # n
      <4>1. b \in DOMAIN image /\ image'[b] = image[b]
        BY <1>8, <3>2
      <4>2. Kept(b) => Kept(b)'
        BY <1>2, <4>1 DEF Kept, HasData
      <4>3. Replaced(b) => Replaced(b)'
        BY <1>2, <2>2 DEF Replaced
      <4> QED
        BY <1>7, <4>1, <4>2, <4>3 DEF StreamInv, Session, Reused
    <3> QED
      BY <3>1, <3>2
  <2>5. Session'
    BY <1>2, <1>3, <1>7, <1>9, <2>2, <2>3, <2>4 DEF Session
  <2> QED
    BY <1>11, <2>5 DEF StreamInv
<1>13. CASE FreeSize(pages[n]) = 0
  <2>1. page = EmptyPage
    BY <1>5, <1>13
  <2>2. Top(Seen, wmeta) = n - 1
    BY <1>1, <1>4, <1>13 DEF Top
  <2>3. RingFits(Seen', wmeta, obj)
    <3>1. Emptied(Seen, Seen', wmeta, n)
      BY <1>1, <1>2, <1>4, <1>8, <2>1, <2>2, NewPages DEF Emptied, HasData
    <3> QED
      BY <1>1, <1>9, <3>1, EmptyRing
  <2>4. Old(Seen)'
    <3>1. Past(Seen', obj)
      BY <1>4, <1>8, <1>9, <2>1, NewPages DEF Past
    <3> QED
      BY <1>3, <1>7, <3>1 DEF Old
  <2>5. Reused'
    <3> SUFFICES ASSUME NEW b \in DOMAIN image' PROVE Kept(b)' \/ Replaced(b)'
      BY DEF Reused
    <3>1. CASE b = n
      <4>1. CASE ~HasData(pages, n)
        BY <1>2, <3>1, <4>1 DEF Kept
      <4>2. CASE HasData(pages, n)
        <5>1. Len(pages[n].data) = PageSize
          <6>1. pages[n].init /\ Len(pages[n].data) \in Nat
            BY <1>2, <4>2, FitCells DEF StreamInv, Shared, Fit, HasData
          <6> QED
            BY <1>13, <6>1, PagesAssumption DEF FreeSize
        <5>2. ASSUME NEW o \in DOMAIN Seen' \ {n}, o < wmeta.max
              PROVE  OlderPage(pages[n], Seen'[o])
          <6>1. o \in DOMAIN Seen /\ o \in Nat /\ Seen'[o] = Seen[o]
            BY <1>1, <1>4, <1>8, <5>2
          <6>2. Before(wmeta, n - 1, n, o)
            BY <1>1, <5>2, <6>1 DEF Before
          <6>3. OlderPage(Seen[n], Seen[o])
            BY <1>2, <1>4, <1>9, <2>2, <6>1, <6>2 DEF RingFits, Ring, Sorted
          <6> QED
            BY <1>4, <6>1, <6>3
        <5> QED
          BY <1>2, <3>1, <5>1, <5>2 DEF Replaced
      <4> QED
        BY <4>1, <4>2
    <3>2. CASE b # n
      <4>1. b \in DOMAIN image /\ image'[b] = image[b]
        BY <1>8, <3>2
      <4>2. Kept(b) => Kept(b)'
        BY <1>2, <1>8, <4>1 DEF Kept, HasData
      <4>3. ASSUME Replaced(b) PROVE Replaced(b)'
        <5> SUFFICES ASSUME NEW o \in DOMAIN Seen' \ {b}, o < wmeta.max
                     PROVE  OlderPage(pages[b], Seen'[o])
          BY <1>2, <4>3 DEF Replaced
        <5>1. CASE o = n
          BY <1>8, <2>1, <5>1, NewPages DEF OlderPage
        <5>2. CASE o # n
          BY <1>4, <1>8, <4>3, <5>2 DEF Replaced
        <5> QED
          BY <5>1, <5>2
      <4> QED
        BY <1>7, <4>1, <4>2, <4>3 DEF StreamInv, Session, Reused
    <3> QED
      BY <3>1, <3>2
  <2>6. Session'
    BY <1>2, <1>3, <1>7, <2>3, <2>4, <2>5 DEF Session
  <2> QED
    BY <1>11, <2>6 DEF StreamInv
<1> QED
  BY <1>12, <1>13

\* One turn of PGrnWALPageWriter, as the ring sees it.
LEMMA AppendBytesSeen ==
  ASSUME Base, StreamInv, AppendBytes
  PROVE  /\ \E k, cells : Appended(Seen, Seen', wmeta, obj, obj', k, cells)
         /\ obj' \in [rec : Nat, n : Nat, rest : Nat]
         /\ wmeta.next = current
         /\ Seen[current] = image[current]
         /\ Seen'[current] = image'[current]
         /\ HasData(Seen, current) =>
              FirstCell(image'[current]) = FirstCell(image[current])
<1> DEFINE page == image[current]
           free == FreeSize(page)
           k == IF obj.rest <= free THEN obj.rest ELSE free
           cells == [j \in 1..k |-> [rec |-> obj.rec,
                                     i |-> obj.n - obj.rest + j,
                                     n |-> obj.n]]
           filled == AppendTo(page, cells)
<1>1. /\ current \in DOMAIN image /\ current = wmeta.next
      /\ page \in Page /\ Len(page.data) <= PageSize
      /\ free > 0 /\ free \in Nat
      /\ DOMAIN image \subseteq DOMAIN pages
      /\ obj \in [rec : Nat, n : Nat, rest : Nat]
      /\ obj.rest > 0 /\ obj.rest <= obj.n /\ obj.rec > 0
  BY PageSizes DEF Base, Types, TypeOK, Shape, AppendBytes
<1>2. k \in Nat \ {0} /\ k <= obj.rest
  BY <1>1
<1>3. /\ image' = Put(image, current, filled)
      /\ obj' = [obj EXCEPT !.rest = obj.rest - k]
      /\ pages' = pages
  BY DEF AppendBytes, shared
<1>4. cells \in Seq(Cell) /\ NewBytes(cells, obj, k)
  <2> HIDE DEF k
  <2>1. cells \in Seq(Cell) /\ Len(cells) = k
    BY <1>1, <1>2, NewCells DEF Base
  <2>2. \A j \in 1..k : /\ cells[j].rec = obj.rec
                        /\ cells[j].i = obj.n - obj.rest + j
                        /\ cells[j].n = obj.n
    OBVIOUS
  <2> HIDE DEF cells
  <2>3. \A j \in 1..k : cells[j] \in Cell
    BY <1>2, <2>1
  <2> QED
    BY <2>1, <2>2, <2>3 DEF NewBytes
<1> HIDE DEF page, free, k, cells, filled
<1>5. filled.data = page.data \o cells
  BY DEF filled, AppendTo
<1>6. /\ DOMAIN image' = DOMAIN image
      /\ image'[current] = filled
      /\ \A b \in DOMAIN image \ {current} : image'[b] = image[b]
  BY <1>1, <1>3 DEF Put
<1>7. /\ DOMAIN Seen = DOMAIN pages /\ DOMAIN Seen' = DOMAIN pages
      /\ \A b \in DOMAIN Seen : Seen[b] = View(b)
      /\ \A b \in DOMAIN Seen : Seen'[b] = View(b)'
  BY <1>3 DEF Seen
<1>8. Seen[current] = page /\ Seen'[current] = filled
  BY <1>1, <1>6, <1>7 DEF View, page
<1>9. \A b \in DOMAIN Seen \ {current} : Seen'[b] = Seen[b]
  BY <1>3, <1>6, <1>7 DEF View
<1>10. Fit(Seen) /\ HasData(Seen, current) => Len(page.data) > 0
  BY <1>1, <1>7, <1>8 DEF StreamInv, Session, RingFits, AppendBytes, InSession,
                          HasData
<1>11. Fit(Seen')
  <2>1. filled \in Page /\ Len(filled.data) <= PageSize
    BY <1>1, <1>6, AppendBytesEffect DEF Base
  <2>2. filled.init
    <3>1. page.init
      BY <1>1 DEF free, FreeSize
    <3> QED
      BY <3>1 DEF filled, AppendTo
  <2>3. Fit(Seen)
    BY DEF StreamInv, Session, RingFits, AppendBytes, InSession
  <2> QED
    BY <1>1, <1>7, <1>8, <1>9, <2>1, <2>2, <2>3 DEF Fit
<1>12. obj'.rec = obj.rec /\ obj'.n = obj.n /\ obj'.rest = obj.rest - k
       /\ obj' \in [rec : Nat, n : Nat, rest : Nat]
  BY <1>1, <1>2, <1>3
<1>13. Appended(Seen, Seen', wmeta, obj, obj', k, cells)
  <2>1. /\ wmeta.next \in DOMAIN Seen /\ FreeSize(Seen[wmeta.next]) > 0
        /\ Seen'[wmeta.next].data = Seen[wmeta.next].data \o cells
    BY <1>1, <1>5, <1>7, <1>8 DEF free
  <2>2. \A b \in DOMAIN Seen \ {wmeta.next} : Seen'[b] = Seen[b]
    BY <1>1, <1>9
  <2> QED
    BY <1>2, <1>4, <1>7, <1>11, <1>12, <2>1, <2>2 DEF Appended
<1>14. HasData(Seen, current) => FirstCell(filled) = FirstCell(page)
  <2> SUFFICES ASSUME HasData(Seen, current)
               PROVE  FirstCell(filled) = FirstCell(page)
    OBVIOUS
  <2>1. page.data \in Seq(Cell) /\ Len(page.data) \in Nat /\ Len(page.data) > 0
    BY <1>1, <1>8, PageCells DEF HasData
  <2>2. (page.data \o cells)[1] = page.data[1]
    BY <1>4, <2>1, ConcatCells
  <2> QED
    BY <1>5, <2>2 DEF FirstCell
<1> QED
  BY <1>1, <1>6, <1>8, <1>12, <1>13, <1>14 DEF page

\* The bytes and the buffers after a turn.
LEMMA AppendBytesSpent ==
  ASSUME Base, StreamInv, AppendBytes
  PROVE  /\ UsedUp'
         /\ pc' = "packed" => obj'.rest = 0
<1> DEFINE page == image[current]
           free == FreeSize(page)
           k == IF obj.rest <= free THEN obj.rest ELSE free
           cells == [j \in 1..k |-> [rec |-> obj.rec,
                                     i |-> obj.n - obj.rest + j,
                                     n |-> obj.n]]
           filled == AppendTo(page, cells)
<1>1. /\ pc = "append" /\ obj.rest > 0 /\ obj.rest <= obj.n
      /\ obj \in [rec : Nat, n : Nat, rest : Nat]
      /\ page \in Page /\ Len(page.data) <= PageSize
      /\ free > 0 /\ free \in Nat
      /\ nUsed \in Nat
  BY PageSizes, PagesAssumption DEF Base, Types, TypeOK, Shape, AppendBytes
<1>2. k \in Nat \ {0} /\ k <= obj.rest /\ k <= free
  BY <1>1
<1>3. /\ obj' = [obj EXCEPT !.rest = obj.rest - k]
      /\ nUsed' = nUsed
      /\ IF FreeSize(filled) = 0
         THEN pc' = "ensure"
         ELSE pc' = "packed"
  BY DEF AppendBytes
<1>4. FreeSize(filled) = free - k
  <2>1. page.init
    BY <1>1 DEF FreeSize
  <2>2. Len(page.data) \in Nat /\ free = PageSize - Len(page.data)
    BY <1>1, <2>1, PageCells DEF FreeSize
  <2>3. cells \in Seq(Cell) /\ Len(cells) = k
    <3> HIDE DEF k
    <3> QED
      BY <1>1, <1>2, NewCells DEF Base
  <2> HIDE DEF cells, k
  <2>4. Len(page.data) + Len(cells) <= PageSize
    BY <1>2, <2>2, <2>3, PagesAssumption
  <2> HIDE DEF page
  <2> QED
    BY <1>1, <2>1, <2>3, <2>4, AppendFacts
<1>5. k = obj.rest \/ k = free
  OBVIOUS
<1> HIDE DEF page, free, k, cells, filled
<1>6. obj'.n = obj.n /\ obj'.rest = obj.rest - k
  BY <1>1, <1>3
<1>7. pc' = "packed" => obj'.rest = 0
  BY <1>1, <1>2, <1>3, <1>4, <1>5, <1>6
<1>8. nUsed > 1 /\ UsedUp
  BY <1>1 DEF StreamInv, Session, InSession, UsedUp
<1>9. ASSUME pc' = "ensure"
      PROVE  /\ obj'.rest < obj'.n
             /\ FitsOneRecord(obj'.n)
                  => obj'.n - obj'.rest > (nUsed - 2) * PageSize
  <2>1. k = free
    BY <1>1, <1>2, <1>3, <1>4, <1>9
  <2>2. obj'.rest < obj'.n
    BY <1>1, <1>2, <1>6
  <2>3. CASE nUsed = 2
    <3>1. (nUsed - 2) * PageSize = 0
      BY <2>3, PagesAssumption
    <3> QED
      BY <1>1, <1>2, <1>6, <2>2, <3>1
  <2>4. CASE nUsed > 2
    <3>1. page = EmptyPage /\ free = PageSize
      BY <1>1, <1>8, <2>4, NewPages DEF UsedUp, page, free
    <3>2. FitsOneRecord(obj.n) => obj.n - obj.rest > (nUsed - 3) * PageSize
      BY <1>1, <1>8, <2>4 DEF UsedUp
    <3>3. (nUsed - 2) * PageSize = (nUsed - 3) * PageSize + PageSize
      BY <1>1, PagesAssumption
    <3> DEFINE x == (nUsed - 2) * PageSize
               y == (nUsed - 3) * PageSize
    <3>4. y \in Int /\ PageSize \in Int
      BY <1>1, PagesAssumption
    <3>5. x = y + PageSize /\ (FitsOneRecord(obj.n) => obj.n - obj.rest > y)
      BY <3>2, <3>3
    <3> HIDE DEF x, y
    <3>6. FitsOneRecord(obj.n) => obj.n - obj'.rest > x
      BY <1>1, <1>2, <1>6, <2>1, <3>1, <3>4, <3>5
    <3> QED
      BY <1>6, <2>2, <3>6 DEF x
  <2> QED
    BY <1>1, <1>8, <2>3, <2>4
<1>10. UsedUp'
  BY <1>3, <1>9 DEF UsedUp
<1> QED
  BY <1>7, <1>10

\* The bytes a turn writes are the newest of the ring.
LEMMA AppendBytesStream ==
  ASSUME Base, Types', StreamInv, AppendBytes
  PROVE  StreamInv'
<1> DEFINE n == wmeta.next
<1>1. /\ pc = "append" /\ pc' \in {"ensure", "packed"}
      /\ n = current /\ n \in DOMAIN image /\ DOMAIN image' = DOMAIN image
      /\ \A b \in DOMAIN image \ {n} : image'[b] = image[b]
      /\ image'[n] \in Page /\ Len(image'[n].data) <= PageSize
      /\ \/ /\ FreeSize(image'[n]) = 0
            /\ wmeta' = Filled(wmeta, limit)
            /\ pc' = "ensure"
         \/ /\ FreeSize(image'[n]) > 0
            /\ wmeta' = wmeta
            /\ pc' = "packed"
      /\ UNCHANGED <<meta, pages, count>>
  BY AppendBytesEffect DEF Base, AppendBytes
<1>2. /\ InSession /\ InSession' /\ Begun /\ Begun'
      /\ obj.rec = count /\ obj.n > 0 /\ Reused
      /\ RingFits(Seen, wmeta, obj) /\ Past(Seen, obj)
      /\ Fit(pages) /\ Past(pages, obj)
      /\ obj \in [rec : Nat, n : Nat, rest : Nat] /\ obj.rest <= obj.n
  BY <1>1 DEF StreamInv, Session, Shared, InSession, Begun, Old, Base, Types,
              TypeOK, Shape
<1>3. /\ wmeta \in MetaPage /\ n \in Nat \ {0} /\ wmeta.max \in Nat
      /\ n < wmeta.max /\ limit \in Nat
  BY DEF Base, Types, TypeOK, NoHole, MetaPage
<1>4. PICK k, cells : Appended(Seen, Seen', wmeta, obj, obj', k, cells)
  BY AppendBytesSeen
<1>5. /\ obj' \in [rec : Nat, n : Nat, rest : Nat]
      /\ Seen[n] = image[n] /\ Seen'[n] = image'[n]
      /\ HasData(Seen, n) => FirstCell(image'[n]) = FirstCell(image[n])
  BY <1>1, AppendBytesSeen
<1>6. /\ HasData(Seen', n)
      /\ Ring(Seen', wmeta, n)
      /\ TailFits(Seen', wmeta, n, obj')
      /\ Past(Seen', obj')
  BY <1>2, <1>3, <1>4, <1>5, AppendRing
<1>7. /\ DOMAIN Seen' = DOMAIN Seen /\ Fit(Seen')
      /\ \A b \in DOMAIN Seen \ {n} : Seen'[b] = Seen[b]
      /\ obj'.rec = obj.rec /\ obj'.n = obj.n
      /\ k \in Nat \ {0} /\ obj'.rest = obj.rest - k
      /\ n \in DOMAIN Seen /\ FreeSize(Seen[n]) > 0
  BY <1>4 DEF Appended
<1>8. Past(pages, obj')
  <2> SUFFICES ASSUME NEW b \in DOMAIN pages, NEW j \in 1..Len(pages[b].data)
               PROVE  LET c == pages[b].data[j]
                      IN  c.rec < obj'.rec
                            \/ (c.rec = obj'.rec /\ c.i <= obj'.n - obj'.rest)
    BY DEF Past
  <2> DEFINE c == pages[b].data[j]
  <2>1. c.rec \in Nat /\ c.i \in Nat
    BY <1>2, FitCells DEF Cell
  <2>2. c.rec < obj.rec \/ (c.rec = obj.rec /\ c.i <= obj.n - obj.rest)
    BY <1>2 DEF Past
  <2> HIDE DEF c
  <2>3. c.rec < obj'.rec \/ (c.rec = obj'.rec /\ c.i <= obj'.n - obj'.rest)
    BY <1>2, <1>5, <1>7, <2>1, <2>2
  <2> QED
    BY <2>3 DEF c
<1>9. Old(pages)' /\ Old(Seen)'
  BY <1>1, <1>2, <1>6, <1>8 DEF Old
<1>10. Shared'
  BY <1>1, <1>9, SharedSame DEF StreamInv
\* Where the ring ends, and where it goes on.
<1>11. /\ RingFits(Seen', wmeta', obj')
       /\ \A o \in DOMAIN Seen \ {n} :
            o < wmeta'.max /\ (o = wmeta'.next => Top(Seen', wmeta') = o)
              => o < wmeta.max
  <2>1. CASE FreeSize(image'[n]) = 0 /\ wmeta' = Filled(wmeta, limit)
    <3>1. \A b \in DOMAIN Seen' \ {n} : Closed(Seen'[b])
      BY <1>1, <1>2, <1>7, SeenFacts DEF Base, Settled
    <3>2. /\ Top(Seen', wmeta') = wmeta'.next - 1
          /\ Ring(Seen', wmeta', wmeta'.next - 1)
          /\ TailFits(Seen', wmeta', wmeta'.next - 1, obj')
      BY <1>3, <1>5, <1>6, <1>7, <2>1, <3>1, FilledRing
    <3>3. /\ wmeta'.next \in Nat
          /\ \/ /\ wmeta'.next = n + 1
                /\ wmeta'.max =
                     (IF n + 1 >= wmeta.max THEN n + 2 ELSE wmeta.max)
             \/ wmeta'.max = n + 1
      BY <1>3, <2>1 DEF Filled, Advance
    <3>4. \A o \in DOMAIN Seen : o \in Nat
      BY <1>7 DEF Fit
    <3>5. \A o \in DOMAIN Seen \ {n} :
            o < wmeta'.max /\ o # wmeta'.next => o < wmeta.max
      BY <1>3, <3>3, <3>4
    <3>6. \A o \in DOMAIN Seen : o = wmeta'.next => Top(Seen', wmeta') # o
      BY <3>2, <3>3
    <3> QED
      BY <1>7, <3>2, <3>5, <3>6 DEF RingFits
  <2>2. CASE FreeSize(image'[n]) > 0 /\ wmeta' = wmeta
    <3>1. Top(Seen', wmeta') = n
      BY <1>5, <1>6, <2>2 DEF Top
    <3> QED
      BY <1>6, <1>7, <2>2, <3>1 DEF RingFits
  <2> QED
    BY <1>1, <2>1, <2>2
<1>12. Reused'
  <2> SUFFICES ASSUME NEW b \in DOMAIN image' PROVE Kept(b)' \/ Replaced(b)'
    BY DEF Reused
  <2>1. ASSUME Kept(b) PROVE Kept(b)'
    <3>1. CASE b = n
      BY <1>1, <1>5, <1>6, <1>7, <2>1, <3>1 DEF Kept, HasData
    <3>2. CASE b # n
      BY <1>1, <2>1, <3>2 DEF Kept, HasData
    <3> QED
      BY <3>1, <3>2
  <2>2. ASSUME Replaced(b) PROVE Replaced(b)'
    <3>1. b \in DOMAIN pages
      BY <1>1 DEF Base, Types, TypeOK
    <3> SUFFICES ASSUME NEW o \in DOMAIN Seen' \ {b},
                        o < wmeta'.max,
                        o = wmeta'.next => Top(Seen', wmeta') = o
                 PROVE  OlderPage(pages[b], Seen'[o])
      BY <1>1, <2>2 DEF Replaced
    <3>2. CASE o = n
      <4>1. HasData(Seen, n) => Top(Seen, wmeta) = n
        BY <1>7 DEF Top
      <4>2. HasData(Seen, n) => OlderPage(pages[b], Seen[n])
        BY <1>3, <1>7, <2>2, <3>2, <4>1 DEF Replaced
      <4> QED
        BY <1>2, <1>4, <3>1, <3>2, <4>2, AppendOlder DEF RingFits
    <3>3. CASE o # n
      <4>1. o < wmeta.max /\ Seen'[o] = Seen[o]
        BY <1>7, <1>11, <3>3
      <4> QED
        BY <1>7, <2>2, <3>3, <4>1 DEF Replaced
    <3> QED
      BY <3>2, <3>3
  <2> QED
    BY <1>1, <1>2, <2>1, <2>2 DEF Reused
<1>13. Session'
  BY <1>1, <1>2, <1>7, <1>9, <1>11, <1>12, AppendBytesSpent DEF Session
<1> QED
  BY <1>10, <1>13 DEF StreamInv

\* A step that leaves the pages alone and ends the session, if there is one:
\* the number of the object is an old one from now on.
LEMMA QuietStream ==
  ASSUME Types, StreamInv, UNCHANGED <<meta, pages, count>>,
         pc # "truncate", pc' # "truncate", ~InSession'
  PROVE  StreamInv'
<1>1. ~Begun'
  BY DEF InSession, Begun
<1>2. Begun => obj.rec = count
  BY DEF StreamInv, Session, InSession, Begun
<1>3. Fit(pages) /\ Old(pages) /\ count \in Nat
  BY DEF StreamInv, Shared, Types, TypeOK
<1>4. Old(pages)'
  BY <1>1, <1>2, <1>3, OldNumbers DEF Old
<1>5. Shared'
  BY <1>4, SharedSame DEF StreamInv
<1> QED
  BY <1>5 DEF StreamInv, Session

\* A batch of a truncation leaves pages that held their bytes before, or
\* nothing.
LEMMA TruncateBatchStream ==
  ASSUME Types, StreamInv, NEW m, NEW from \in Nat, NEW to \in Nat,
         TruncateBatch(m, from, to), ~Begun, ~Begun',
         pc' = "truncate", count' = count
  PROVE  StreamInv'
<1>1. /\ DOMAIN pages' = DOMAIN pages
      /\ \A b \in DOMAIN pages : pages'[b] = EmptyPage \/ pages'[b] = pages[b]
  BY TruncateBatchTypes
<1>2. Fit(pages) /\ Old(pages) /\ Within(pages)
  BY DEF StreamInv, Shared
<1>3. Fit(pages')
  BY <1>1, <1>2, NewPages, PagesAssumption DEF Fit
<1>4. Old(pages)'
  BY <1>1, <1>2, NewPages DEF Old
<1>5. Within(pages')
  <2> SUFFICES ASSUME NEW b \in DOMAIN pages',
                      NEW j \in 1..Len(pages'[b].data) - 1
               PROVE  Joined(pages'[b].data[j], pages'[b].data[j + 1])
    BY DEF Within
  <2>1. CASE pages'[b] = EmptyPage
    BY <2>1, NewPages
  <2>2. CASE pages'[b] = pages[b]
    BY <1>1, <1>2, <2>2 DEF Within
  <2> QED
    BY <1>1, <2>1, <2>2
<1> QED
  BY <1>3, <1>4, <1>5 DEF StreamInv, Shared, Session, InSession

\* The batches of a truncation.
LEMMA TruncateStream ==
  ASSUME Types, StreamInv, TruncateStart \/ TruncateMore
  PROVE  StreamInv'
<1>1. Len(pages) \in Nat /\ current \in Nat
  BY DEF Types, TypeOK
<1>2. CASE TruncateStart
  <2> DEFINE to == LastOfBatch(FirstBlock, MaxXLogPages - 1)
  <2>1. FirstBlock \in Nat /\ to \in Nat
    BY <1>1, PagesAssumption DEF LastOfBatch
  <2>2. TruncateBatch(<<meta'>>, FirstBlock, to)
    BY <1>2 DEF TruncateStart
  <2> HIDE DEF to
  <2> QED
    BY <1>2, <2>1, <2>2, TruncateBatchStream DEF TruncateStart, Begun
<1>3. CASE TruncateMore
  <2> DEFINE from == current + 1
             to == LastOfBatch(from, MaxXLogPages)
  <2>1. from \in Nat /\ to \in Nat
    BY <1>1, PagesAssumption DEF LastOfBatch
  <2>2. TruncateBatch(<<>>, from, to)
    BY <1>3 DEF TruncateMore
  <2> HIDE DEF from, to
  <2> QED
    BY <1>3, <2>1, <2>2, TruncateBatchStream DEF TruncateMore, Begun, bounds
<1> QED
  BY <1>2, <1>3

\* A ring without a byte.
LEMMA BlankRing ==
  ASSUME NEW P, NEW m, Fit(P), \A b \in DOMAIN P : Len(P[b].data) = 0
  PROVE  RingFits(P, m, NoObject) /\ Within(P) /\ ~HasData(P, m.next)
<1>1. \A b : ~HasData(P, b)
  BY DEF HasData
<1>2. Within(P)
  BY DEF Within
<1>3. Sorted(P, m, Top(P, m))
  BY DEF Sorted, OlderPage
<1> QED
  BY <1>1, <1>2, <1>3
     DEF RingFits, Ring, Linked, NotAlone, TailFits, NoObject

\* A truncation leaves a ring without a byte.
LEMMA TruncateFinishStream ==
  ASSUME Base, StreamInv, TruncateFinish
  PROVE  StreamInv'
<1>1. /\ UNCHANGED <<meta, pages, count>>
      /\ pc = "truncate" /\ pc' = "idle" /\ current = Len(pages)
  BY DEF TruncateFinish, bounds
<1>2. DOMAIN pages = 1..Len(pages)
  BY DEF Base, Types, TypeOK
<1>3. \A b \in DOMAIN pages : Len(pages[b].data) = 0
  BY <1>1, <1>2, NewPages DEF Base, Settled
<1>4. Fit(pages) /\ Old(pages)'
  BY <1>1 DEF StreamInv, Shared, Old, Begun
<1> QED
  BY <1>1, <1>3, <1>4, BlankRing DEF StreamInv, Shared, Session, InSession

\* A step that changes nothing.
LEMMA StutterStream ==
  ASSUME StreamInv, UNCHANGED vars
  PROVE  StreamInv'
<1>1. UNCHANGED <<meta, pages, pc, wmeta, image, current, nUsed, obj, count>>
  BY DEF vars, shared, session, bounds
<1>2. Seen' = Seen
  BY <1>1 DEF Seen, View
<1>3. Shared'
  BY <1>1 DEF StreamInv, Shared, Old, Begun
<1>4. UsedUp' = UsedUp
  BY <1>1 DEF UsedUp
<1>5. Reused' = Reused
  BY <1>1, <1>2 DEF Reused, Kept, Replaced
<1>6. Old(Seen)' <=> Old(Seen)
  BY <1>1, <1>2 DEF Old, Begun
<1>7. Session'
  BY <1>1, <1>2, <1>4, <1>5, <1>6 DEF StreamInv, Session, InSession, Begun
<1> QED
  BY <1>3, <1>7 DEF StreamInv

\* Every step keeps the stream.
LEMMA StreamStep ==
  ASSUME Base, Types', StreamInv, [Next]_vars
  PROVE  StreamInv'
<1>1. Types
  BY DEF Base
<1>2. CASE EnsureHang
  BY <1>1, <1>2, QuietStream DEF EnsureHang, shared, bounds, InSession
<1>3. CASE Abort
  BY <1>1, <1>3, QuietStream DEF Abort, shared, InSession
<1> QED
  BY <1>1, <1>2, <1>3, StartStream, BeginObjectStream, EnsureRestartStream,
     EnsureNewStream, EnsureExistingStream, AppendBytesStream, FinishStream,
     TruncateStream, TruncateFinishStream, StutterStream
     DEF Next, Write, Truncate

\* At first there is no page.
LEMMA InitStream ==
  ASSUME Init
  PROVE  Ends /\ StreamInv
<1>1. /\ pages = <<>> /\ DOMAIN pages = {}
      /\ pc = "idle"
  BY DEF Init
<1>2. Ends
  BY DEF Init, Ends, Settled, PositionAtEnd, InSession
<1>3. Fit(pages) /\ Old(pages)
  BY <1>1 DEF Fit, Old, Begun
<1>4. Shared
  BY <1>1, <1>3, BlankRing DEF Shared
<1>5. Session
  BY <1>1 DEF Session, InSession
<1> QED
  BY <1>2, <1>4, <1>5 DEF StreamInv

-----------------------------------------------------------------------------
(* The theorems.                                                           *)

\* The layers together.
Whole == Types /\ NoHole /\ Ends /\ StreamInv

\* The invariant of this module holds in every state.
LEMMA AlwaysWhole == Spec => []Whole
<1>1. Init => Whole
  BY InitTypes, InitStream DEF Whole
<1>2. Whole /\ [Next]_vars => Whole'
  <2> SUFFICES ASSUME Whole, [Next]_vars PROVE Whole'
    OBVIOUS
  <2>1. Types' /\ NoHole' /\ Ends'
    BY TypesStep, NoHoleStep, EndsStep DEF Whole
  <2>2. StreamInv'
    BY <2>1, StreamStep DEF Whole, Base, Ends
  <2> QED
    BY <2>1, <2>2 DEF Whole
<1> QED
  BY <1>1, <1>2, PTL DEF Spec

\* Once every object in the ring fits in a record, the stream is intact.
LEMMA WholeIsIntact ==
  ASSUME Whole
  PROVE  StreamIntact
<1> SUFFICES ASSUME pc # "truncate",
                    \A b \in DOMAIN pages : \A j \in DOMAIN pages[b].data :
                      FitsOneRecord(pages[b].data[j].n),
                    NEW b \in DOMAIN pages, b < meta.max
             PROVE  LET data == pages[b].data
                        s == LiveSuccessor(b)
                    IN  /\ \A j \in 1..Len(data) - 1 :
                             Follows(data[j], data[j + 1])
                        /\ (/\ b # meta.next
                            /\ data # <<>>
                            /\ s \in DOMAIN pages
                            /\ pages[s].data # <<>>)
                           => Follows(data[Len(data)], pages[s].data[1])
  BY DEF StreamIntact
<1> DEFINE top == Top(pages, meta)
           s == Succ(meta, b)
<1>1. /\ Fit(pages) /\ Within(pages)
      /\ Linked(pages, meta, top)
      /\ HasData(pages, meta.next) => top = meta.next \/ Huge(pages)
      /\ meta.next \in Nat \ {0} /\ meta.max \in Nat /\ meta.next < meta.max
  BY DEF Whole, StreamInv, Shared, RingFits, Ring, Types, TypeOK, MetaPage,
         NoHole
<1>2. \A p \in DOMAIN pages :
        /\ p \in Nat \ {0}
        /\ pages[p].data \in Seq(Cell)
        /\ Len(pages[p].data) \in Nat
        /\ DOMAIN pages[p].data = 1..Len(pages[p].data)
        /\ pages[p].data # <<>> => Len(pages[p].data) > 0
  BY <1>1, PageCells DEF Fit
<1>3. \A p \in DOMAIN pages : \A j \in 1..Len(pages[p].data) :
        FitsOneRecord(pages[p].data[j].n)
  BY <1>2
<1>4. ~Huge(pages)
  BY <1>3 DEF Huge
<1>5. HasData(pages, meta.next) => top = meta.next
  BY <1>1, <1>4
<1>6. ASSUME NEW j \in 1..Len(pages[b].data) - 1
      PROVE  Follows(pages[b].data[j], pages[b].data[j + 1])
  <2>1. Joined(pages[b].data[j], pages[b].data[j + 1])
    BY <1>1 DEF Within
  <2>2. j \in 1..Len(pages[b].data)
    BY <1>2
  <2> QED
    BY <1>3, <2>1, <2>2 DEF Joined
<1>7. ASSUME b # meta.next, pages[b].data # <<>>, s \in DOMAIN pages,
             pages[s].data # <<>>
      PROVE  Follows(LastCell(pages[b]), FirstCell(pages[s]))
  <2>1. HasData(pages, b) /\ HasData(pages, s)
    BY <1>2, <1>7 DEF HasData
  <2>2. b # End(meta, top)
    <3>1. top = meta.next \/ top = meta.next - 1
      BY DEF Top
    <3>2. CASE top = meta.next
      BY <1>1, <1>7, <3>2 DEF End
    <3>3. CASE top = meta.next - 1
      <4>1. s # meta.next
        BY <1>1, <1>5, <2>1, <3>3
      <4> QED
        BY <1>1, <1>2, <1>7, <3>3, <4>1 DEF End, Succ
    <3> QED
      BY <3>1, <3>2, <3>3
  <2>3. Joined(LastCell(pages[b]), FirstCell(pages[s]))
    BY <1>1, <1>7, <2>1, <2>2 DEF Linked
  <2>4. FitsOneRecord(LastCell(pages[b]).n)
    <3>1. Len(pages[b].data) \in 1..Len(pages[b].data)
      BY <1>2, <2>1 DEF HasData
    <3> QED
      BY <1>3, <3>1 DEF LastCell
  <2> QED
    BY <2>3, <2>4 DEF Joined
<1>8. LiveSuccessor(b) = s
  BY DEF LiveSuccessor, Succ
<1> HIDE DEF top, s
<1> QED
  BY <1>6, <1>7, <1>8 DEF LastCell, FirstCell

\* StreamIntact, for every page size, every ring and every mix of sessions,
\* restarts, aborts and truncations.
THEOREM StreamStaysIntact == Spec => []StreamIntact
BY AlwaysWhole, WholeIsIntact, PTL

\* A page that is published over another one takes the place of the oldest
\* bytes of the ring, and only of a full page.
LEMMA PublishReuses ==
  ASSUME Whole, InSession, Publish
  PROVE  ReusesOldest
<1>1. /\ pages' = Seen /\ meta' = wmeta /\ DOMAIN Seen = DOMAIN pages
      /\ Fit(pages) /\ Fit(Seen) /\ Reused
      /\ \A b \in DOMAIN pages : Seen[b] = View(b)
  BY PublishSeen, SeenFacts
     DEF Whole, StreamInv, Shared, Session, RingFits
<1> SUFFICES ASSUME NEW b \in DOMAIN pages, Recycled(b)
             PROVE  /\ Len(pages[b].data) = PageSize
                    /\ \A other \in DOMAIN pages' \ {b} :
                         other < meta'.max /\ other # meta'.next =>
                           \A c1 \in {pages[b].data[j] :
                                        j \in DOMAIN pages[b].data},
                              c2 \in {pages'[other].data[j] :
                                        j \in DOMAIN pages'[other].data} :
                             Older(c1, c2)
  BY DEF ReusesOldest
<1>2. \A P : Fit(P) => \A p \in DOMAIN P :
        /\ DOMAIN P[p].data = 1..Len(P[p].data)
        /\ Len(P[p].data) \in Nat
        /\ P[p].data # <<>> => Len(P[p].data) > 0
        /\ P[p].data = <<>> => Len(P[p].data) = 0
  <2> SUFFICES ASSUME NEW P, Fit(P), NEW p \in DOMAIN P
               PROVE  /\ DOMAIN P[p].data = 1..Len(P[p].data)
                      /\ Len(P[p].data) \in Nat
                      /\ P[p].data # <<>> => Len(P[p].data) > 0
                      /\ P[p].data = <<>> => Len(P[p].data) = 0
    OBVIOUS
  <2>1. P[p].data \in Seq(Cell)
    BY PageCells DEF Fit
  <2> QED
    BY <2>1
<1>3. HasData(pages, b)
  BY <1>1, <1>2 DEF Recycled, HasData
<1>4. b \in DOMAIN image
  BY <1>1 DEF Recycled, View
<1>5. ~Kept(b)
  <2> SUFFICES ASSUME Kept(b) PROVE FALSE
    OBVIOUS
  <2>1. /\ HasData(image, b) /\ FirstCell(image[b]) = FirstCell(pages[b])
        /\ Seen[b] = image[b]
    BY <1>1, <1>3, <1>4 DEF Kept, View
  <2>2. Len(Seen[b].data) > 0 /\ Seen[b].data[1] = pages[b].data[1]
    BY <2>1 DEF HasData, FirstCell
  <2>3. Seen[b].data # <<>>
    BY <1>1, <1>2, <2>2
  <2> QED
    BY <1>1, <2>2, <2>3 DEF Recycled
<1>6. Replaced(b)
  BY <1>1, <1>4, <1>5 DEF Reused
<1>7. ASSUME NEW other \in DOMAIN Seen \ {b}, other < wmeta.max,
             other # wmeta.next
      PROVE  \A c1 \in {pages[b].data[j] : j \in DOMAIN pages[b].data},
                c2 \in {Seen[other].data[j] : j \in DOMAIN Seen[other].data} :
               Older(c1, c2)
  <2>1. OlderPage(pages[b], Seen[other])
    BY <1>6, <1>7 DEF Replaced
  <2>2. /\ DOMAIN pages[b].data = 1..Len(pages[b].data)
        /\ DOMAIN Seen[other].data = 1..Len(Seen[other].data)
    BY <1>1, <1>2, <1>7
  <2> QED
    BY <2>1, <2>2 DEF OlderPage
<1> QED
  BY <1>1, <1>6, <1>7 DEF Replaced

\* The other steps outside a truncation leave the bytes that are shared.
LEMMA StepReuses ==
  ASSUME Whole, [Next]_vars
  PROVE  [ReusesOldest]_vars
<1>1. CASE EnsureRestart \/ Finish
  <2>1. InSession /\ Publish
    BY <1>1 DEF EnsureRestart, Finish, InSession
  <2> QED
    BY <2>1, PublishReuses
<1>2. ASSUME \A b \in DOMAIN pages : pages'[b] = pages[b] PROVE ReusesOldest
  BY <1>2 DEF ReusesOldest, Recycled
<1>3. CASE EnsureNew
  <2>1. pages' = Append(pages, ZeroPage) /\ pages \in Seq(Page)
    BY <1>3 DEF EnsureNew, Whole, Types, TypeOK
  <2>2. \A b \in DOMAIN pages : pages'[b] = pages[b]
    BY <2>1
  <2> QED
    BY <1>2, <2>2
<1>4. CASE TruncateStart \/ TruncateMore
  <2>1. pc' = "truncate"
    BY <1>4 DEF TruncateStart, TruncateMore
  <2> QED
    BY <2>1 DEF ReusesOldest
<1>5. CASE pages' = pages
  BY <1>2, <1>5
<1> QED
  BY <1>1, <1>3, <1>4, <1>5
     DEF Next, Write, Truncate, Start, BeginObject, EnsureExisting, OpenPage,
         EnsureHang, AppendBytes, Abort, TruncateFinish, vars, shared

\* OverwritesOldest, for all constants: "old WAL are overwritten", and only
\* old WAL.
THEOREM OldestIsOverwritten == Spec => OverwritesOldest
<1>1. Whole /\ [Next]_vars => [ReusesOldest]_vars
  BY StepReuses
<1> QED
  BY <1>1, AlwaysWhole, PTL DEF Spec, OverwritesOldest

-----------------------------------------------------------------------------
(* The hypotheses and the invariant.                                       *)

\* The standby keeps up, pgroonga.max_wal_size is one, the objects fit in a
\* record, one process applies, and nobody calls pgroonga_wal_truncate or
\* pgroonga_wal_set_applied_position.
KeepsPace ==
  /\ KeepsUp
  /\ \A l1, l2 \in MaxSizes : l1 = l2
  /\ \A n \in Sizes \cup BuildSizes : FitsOneRecord(n)
  /\ \A r1, r2 \in Readers : r1 = r2
  /\ MaxTruncates = 0
  /\ MaxResets = 0

Initialised(P) == {b \in DOMAIN P : P[b].init}

\* The pages 1..max-1 are all there, except the page next maybe, and full,
\* except the page next.  The ring is not longer than it may be.
Packed(P, m) ==
  /\ Initialised(P) \cup {m.next} = 1..(m.max - 1)
  /\ \A b \in Initialised(P) \ {m.next} : Len(P[b].data) = PageSize
  /\ \A l \in MaxSizes : l = 0 \/ m.max <= EffectiveLimit(l)

\* All bytes are of objects in R.
Among(P, R) ==
  \A b \in DOMAIN P : \A j \in 1..Len(P[b].data) : P[b].data[j].rec \in R

\* The ring has a byte of object x.
Holds(P, x) ==
  \E b \in DOMAIN P : \E j \in 1..Len(P[b].data) : P[b].data[j].rec = x

\* Of the objects in R, it has all that are newer than one it has.
NoneMissing(P, R) ==
  \A x \in R : \A b \in DOMAIN P : \A j \in 1..Len(P[b].data) :
    P[b].data[j].rec <= x => Holds(P, x)

\* The ring begins with the first byte of object x.
BeginsWith(P, x) ==
  HasData(P, 1) /\ P[1].data[1].rec = x /\ P[1].data[1].i = 1

\* The objects published are numbered in order, and are older than the object
\* in progress.
LogFits ==
  /\ log \in Seq(Nat \ {0})
  /\ \A i, j \in DOMAIN log : i < j => log[i] < log[j]
  /\ \A j \in DOMAIN log : log[j] <= count
  /\ Begun => \A j \in DOMAIN log : log[j] < obj.rec

\* Before the first object is published there is no page; after it there is
\* room on the page next.
Resting ==
  IF log = <<>>
  THEN Initialised(pages) = {} /\ meta = InitMeta
  ELSE meta.next \in Initialised(pages) /\ Len(pages[meta.next].data) < PageSize

\* The first object goes to the first page.
Opening ==
  IF pc = "open" \/ obj.rest = obj.n
  THEN wmeta.next = 1 /\ \A b \in DOMAIN Seen : ~HasData(Seen, b)
  ELSE BeginsWith(Seen, obj.rec)

\* The pages everybody sees.
Published ==
  /\ ~Huge(pages)
  /\ Among(pages, Range(log))
  /\ NoneMissing(pages, Range(log))
  /\ Packed(pages, meta)
  /\ Resting

\* The pages as the session sees them.
Writing ==
  InSession =>
    /\ limit \in MaxSizes
    /\ Begun => FitsOneRecord(obj.n)
    /\ ~Huge(Seen)
    /\ Among(Seen, Range(log) \cup {obj.rec})
    /\ NoneMissing(Seen, Range(log))
    /\ Packed(Seen, wmeta)
    /\ log = <<>> => Opening

Primary == pc # "truncate" /\ nTruncates = 0 /\ LogFits /\ Published /\ Writing

-----------------------------------------------------------------------------
(* Rings of pages.                                                         *)

\* A page that is emptied takes the oldest bytes of the ring with it.
LEMMA EmptiedKeeps ==
  ASSUME NEW P, NEW Q, NEW m, NEW x, NEW R, NEW S \in SUBSET Nat,
         Fit(P), Emptied(P, Q, m, x),
         HasData(P, x) =>
           \A o \in DOMAIN P \ {x} : OlderPage(P[x], P[o]),
         ~Huge(P), Among(P, R), NoneMissing(P, S)
  PROVE  ~Huge(Q) /\ Among(Q, R) /\ NoneMissing(Q, S)
<1>1. \A b \in DOMAIN Q : \A j \in 1..Len(Q[b].data) :
        /\ b # x /\ b \in DOMAIN P /\ Q[b] = P[b]
        /\ P[b].data[j].rec \in Nat
  <2> SUFFICES ASSUME NEW b \in DOMAIN Q, NEW j \in 1..Len(Q[b].data)
               PROVE  /\ b # x /\ b \in DOMAIN P /\ Q[b] = P[b]
                      /\ P[b].data[j].rec \in Nat
    OBVIOUS
  <2>1. b # x
    BY DEF Emptied
  <2>2. b \in DOMAIN P /\ Q[b] = P[b]
    BY <2>1 DEF Emptied
  <2>3. P[b].data[j] \in Cell
    BY <2>2, FitCells
  <2> QED
    BY <2>1, <2>2, <2>3 DEF Cell
<1>2. ~Huge(Q) /\ Among(Q, R)
  BY <1>1 DEF Huge, Among
<1>3. NoneMissing(Q, S)
  <2> SUFFICES ASSUME NEW s \in S, NEW b \in DOMAIN Q,
                      NEW j \in 1..Len(Q[b].data), Q[b].data[j].rec <= s
               PROVE  Holds(Q, s)
    BY DEF NoneMissing
  <2>1. Q[b] = P[b] /\ b \in DOMAIN P /\ b # x /\ P[b].data[j].rec \in Nat
    BY <1>1
  <2>2. PICK c \in DOMAIN P : \E k \in 1..Len(P[c].data) : P[c].data[k].rec = s
    BY <2>1 DEF NoneMissing, Holds
  <2>3. PICK k \in 1..Len(P[c].data) : P[c].data[k].rec = s
    BY <2>2
  <2>4. CASE c # x
    BY <2>3, <2>4 DEF Emptied, Holds
  <2>5. CASE c = x
    <3>1. HasData(P, x)
      BY <2>3, <2>5, FitCells DEF HasData
    <3>2. Older(P[x].data[k], P[b].data[j])
      BY <2>1, <2>3, <2>5, <3>1 DEF OlderPage
    <3>3. P[b].data[j].rec = s
      BY <2>1, <2>3, <2>5, <3>2 DEF Older
    <3> QED
      BY <2>1, <3>3 DEF Holds
  <2> QED
    BY <2>4, <2>5
<1> QED
  BY <1>2, <1>3

\* A byte of a page that has grown is one of the page as it was or of the
\* object that is written.
LEMMA AppendedCells ==
  ASSUME NEW P, NEW Q, NEW m, NEW o, NEW p, NEW k, NEW cells,
         Fit(P), Appended(P, Q, m, o, p, k, cells)
  PROVE  /\ \A b \in DOMAIN P :
              /\ Len(P[b].data) \in Nat /\ Len(Q[b].data) \in Nat
              /\ Len(P[b].data) <= Len(Q[b].data)
              /\ \A j \in 1..Len(P[b].data) : Q[b].data[j] = P[b].data[j]
         /\ \A b \in DOMAIN Q : \A j \in 1..Len(Q[b].data) :
              \/ /\ j \in 1..Len(P[b].data)
                 /\ Q[b].data[j] = P[b].data[j]
              \/ /\ b = m.next
                 /\ j \in (Len(P[b].data) + 1)..(Len(P[b].data) + k)
                 /\ Q[b].data[j] = cells[j - Len(P[b].data)]
                 /\ Q[b].data[j].rec = o.rec
                 /\ Q[b].data[j].n = o.n
         /\ Len(Q[m.next].data) = Len(P[m.next].data) + k
<1> DEFINE old == P[m.next].data
<1>1. /\ DOMAIN Q = DOMAIN P /\ m.next \in DOMAIN P
      /\ \A b \in DOMAIN P \ {m.next} : Q[b] = P[b]
      /\ Q[m.next].data = old \o cells
      /\ cells \in Seq(Cell) /\ Len(cells) = k /\ k \in Nat
      /\ \A j \in 1..k : cells[j].rec = o.rec /\ cells[j].n = o.n
  BY DEF Appended, NewBytes
<1>2. old \in Seq(Cell) /\ Len(old) \in Nat
  BY <1>1, PageCells DEF Fit
<1>3. \A b \in DOMAIN P : Len(P[b].data) \in Nat
  BY FitCells
<1> HIDE DEF old
<1>4. /\ Len(Q[m.next].data) = Len(old) + k
      /\ \A j \in 1..Len(old) : Q[m.next].data[j] = old[j]
      /\ \A j \in (Len(old) + 1)..(Len(old) + k) :
           Q[m.next].data[j] = cells[j - Len(old)]
  <2> DEFINE new == old \o cells
  <2>1. /\ Len(new) = Len(old) + Len(cells)
        /\ \A j \in 1..Len(old) : new[j] = old[j]
        /\ \A j \in (Len(old) + 1)..(Len(old) + Len(cells)) :
             new[j] = cells[j - Len(old)]
    BY <1>1, <1>2, ConcatCells
  <2>2. Q[m.next].data = new /\ Len(cells) = k
    BY <1>1
  <2> HIDE DEF new
  <2> QED
    BY <2>1, <2>2
<1>5. \A j \in (Len(old) + 1)..(Len(old) + k) : j - Len(old) \in 1..k
  BY <1>1, <1>2
<1>6. \A j \in 1..Len(old) + k :
        j \in 1..Len(old) \/ j \in (Len(old) + 1)..(Len(old) + k)
  BY <1>1, <1>2
<1>7. ASSUME NEW b \in DOMAIN P
      PROVE  /\ Len(P[b].data) \in Nat /\ Len(Q[b].data) \in Nat
             /\ Len(P[b].data) <= Len(Q[b].data)
             /\ \A j \in 1..Len(P[b].data) : Q[b].data[j] = P[b].data[j]
  <2>1. CASE b = m.next
    BY <1>1, <1>2, <1>4, <2>1 DEF old
  <2>2. CASE b # m.next
    BY <1>1, <1>3, <2>2
  <2> QED
    BY <2>1, <2>2
<1>8. ASSUME NEW b \in DOMAIN Q, NEW j \in 1..Len(Q[b].data)
      PROVE  \/ /\ j \in 1..Len(P[b].data)
                /\ Q[b].data[j] = P[b].data[j]
             \/ /\ b = m.next
                /\ j \in (Len(P[b].data) + 1)..(Len(P[b].data) + k)
                /\ Q[b].data[j] = cells[j - Len(P[b].data)]
                /\ Q[b].data[j].rec = o.rec
                /\ Q[b].data[j].n = o.n
  <2>1. CASE b = m.next
    <3>1. j \in 1..Len(old) \/ j \in (Len(old) + 1)..(Len(old) + k)
      BY <1>4, <1>6, <1>8, <2>1
    <3>2. CASE j \in 1..Len(old)
      BY <1>4, <2>1, <3>2 DEF old
    <3>3. CASE j \in (Len(old) + 1)..(Len(old) + k)
      <4>1. Q[b].data[j] = cells[j - Len(old)]
        BY <1>4, <2>1, <3>3
      <4>2. /\ cells[j - Len(old)].rec = o.rec
            /\ cells[j - Len(old)].n = o.n
        BY <1>1, <1>5, <3>3
      <4> QED
        BY <2>1, <3>3, <4>1, <4>2 DEF old
    <3> QED
      BY <3>1, <3>2, <3>3
  <2>2. CASE b # m.next
    BY <1>1, <2>2
  <2> QED
    BY <2>1, <2>2
<1> QED
  BY <1>4, <1>7, <1>8 DEF old

\* The bytes of an object that is newer than all that was published.
LEMMA AppendedKeeps ==
  ASSUME NEW P, NEW Q, NEW m, NEW o, NEW p, NEW k, NEW cells,
         NEW R, NEW S \in SUBSET Nat,
         Fit(P), Appended(P, Q, m, o, p, k, cells),
         o.rec \in Nat, FitsOneRecord(o.n), o.rec \in R,
         \A s \in S : s < o.rec,
         ~Huge(P), Among(P, R), NoneMissing(P, S)
  PROVE  ~Huge(Q) /\ Among(Q, R) /\ NoneMissing(Q, S)
<1>1. DOMAIN Q = DOMAIN P
  BY DEF Appended
<1>2. \A b \in DOMAIN Q : \A j \in 1..Len(Q[b].data) :
        \/ j \in 1..Len(P[b].data) /\ Q[b].data[j] = P[b].data[j]
        \/ Q[b].data[j].rec = o.rec /\ Q[b].data[j].n = o.n
  BY AppendedCells
<1>3. ~Huge(Q)
  BY <1>1, <1>2 DEF Huge
<1>4. Among(Q, R)
  BY <1>1, <1>2 DEF Among
<1>5. NoneMissing(Q, S)
  <2> SUFFICES ASSUME NEW s \in S, NEW b \in DOMAIN Q,
                      NEW j \in 1..Len(Q[b].data), Q[b].data[j].rec <= s
               PROVE  Holds(Q, s)
    BY DEF NoneMissing
  <2>1. j \in 1..Len(P[b].data) /\ Q[b].data[j] = P[b].data[j]
    BY <1>2
  <2>2. PICK c \in DOMAIN P : \E i \in 1..Len(P[c].data) : P[c].data[i].rec = s
    BY <1>1, <2>1 DEF NoneMissing, Holds
  <2>3. PICK i \in 1..Len(P[c].data) : P[c].data[i].rec = s
    BY <2>2
  <2>4. /\ Len(P[c].data) \in Nat /\ Len(Q[c].data) \in Nat
        /\ Len(P[c].data) <= Len(Q[c].data)
        /\ Q[c].data[i] = P[c].data[i]
    BY <2>3, AppendedCells
  <2>5. i \in 1..Len(Q[c].data)
    BY <2>4
  <2> QED
    BY <1>1, <2>3, <2>4, <2>5 DEF Holds
<1> QED
  BY <1>3, <1>4, <1>5

\* A page is opened where the stream comes to next.
LEMMA EmptiedPacked ==
  ASSUME NEW P, NEW Q, NEW m, Packed(P, m), Emptied(P, Q, m, m.next),
         Q[m.next].init
  PROVE  Packed(Q, m)
<1>1. Initialised(Q) = Initialised(P) \cup {m.next}
  BY DEF Initialised, Emptied
<1>2. \A b \in Initialised(Q) \ {m.next} :
        b \in Initialised(P) \ {m.next} /\ Q[b] = P[b]
  BY DEF Initialised, Emptied
<1> QED
  BY <1>1, <1>2 DEF Packed

\* Bytes are written there.
LEMMA AppendedPacked ==
  ASSUME NEW P, NEW Q, NEW m, NEW o, NEW p, NEW k, NEW cells,
         Fit(P), Packed(P, m), Appended(P, Q, m, o, p, k, cells)
  PROVE  Packed(Q, m) /\ m.next \in Initialised(Q)
<1>1. /\ DOMAIN Q = DOMAIN P /\ m.next \in DOMAIN P
      /\ \A b \in DOMAIN P \ {m.next} : Q[b] = P[b]
      /\ FreeSize(P[m.next]) > 0
  BY DEF Appended
<1>2. P[m.next].init
  BY <1>1 DEF FreeSize
<1>3. Q[m.next].init
  <2>1. /\ Len(Q[m.next].data) = Len(P[m.next].data) + k
        /\ Len(P[m.next].data) \in Nat
    BY <1>1, AppendedCells
  <2>2. k \in Nat \ {0}
    BY DEF Appended
  <2>3. Len(Q[m.next].data) # 0
    BY <2>1, <2>2
  <2> QED
    BY <1>1, <2>3 DEF Appended, Fit
<1>4. Initialised(Q) = Initialised(P)
  BY <1>1, <1>2, <1>3 DEF Initialised
<1>5. \A b \in Initialised(Q) \ {m.next} :
        b \in Initialised(P) \ {m.next} /\ Q[b] = P[b]
  BY <1>1, <1>4 DEF Initialised
<1> QED
  BY <1>1, <1>3, <1>4, <1>5 DEF Packed, Initialised

\* The stream goes on after the page next is full.
LEMMA FilledPacked ==
  ASSUME NEW Q, NEW m \in MetaPage, m.next < m.max, NEW l \in MaxSizes,
         \A l1, l2 \in MaxSizes : l1 = l2,
         Packed(Q, m), m.next \in Initialised(Q),
         Len(Q[m.next].data) = PageSize
  PROVE  Packed(Q, Filled(m, l))
<1> DEFINE f == Filled(m, l)
           n == m.next
           I == Initialised(Q)
<1>1. n \in Nat \ {0} /\ m.max \in Nat \ {0} /\ l \in Nat
  BY WriterAssumption DEF MetaPage
<1>2. I = 1..(m.max - 1)
  BY DEF Packed
<1>3. \A b \in I : Len(Q[b].data) = PageSize
  BY DEF Packed
<1>4. l = 0 \/ m.max <= EffectiveLimit(l)
  BY DEF Packed
<1>5. EffectiveLimit(l) \in Nat
  BY <1>1 DEF EffectiveLimit
<1> HIDE DEF I
<1>6. CASE l = 0 \/ 1 + n < EffectiveLimit(l)
  <2>1. f.next = n + 1 /\ f.max = (IF n + 1 >= m.max THEN n + 2 ELSE m.max)
    BY <1>6 DEF Filled, Advance
  <2>2. I \cup {f.next} = 1..(f.max - 1)
    BY <1>1, <1>2, <2>1
  <2>3. l = 0 \/ f.max <= EffectiveLimit(l)
    BY <1>1, <1>4, <1>5, <1>6, <2>1
  <2> QED
    BY <1>3, <2>2, <2>3 DEF Packed, I
<1>7. CASE ~(l = 0 \/ 1 + n < EffectiveLimit(l))
  <2>1. f.next = 1 /\ f.max = n + 1
    BY <1>7 DEF Filled
  <2>2. n + 1 = m.max
    BY <1>1, <1>4, <1>5, <1>7
  <2>3. I \cup {f.next} = 1..(f.max - 1)
    BY <1>1, <1>2, <2>1, <2>2
  <2>4. l = 0 \/ f.max <= EffectiveLimit(l)
    BY <1>4, <2>1, <2>2
  <2> QED
    BY <1>3, <2>3, <2>4 DEF Packed, I
<1> QED
  BY <1>6, <1>7

-----------------------------------------------------------------------------
(* The steps of the primary.                                               *)

\* What everybody sees is left alone, or a block is added that nobody has
\* initialised.
LEMMA SamePublished ==
  ASSUME Published, Fit(pages), meta' = meta, log' = log,
         DOMAIN pages \subseteq DOMAIN pages',
         \A b \in DOMAIN pages : pages'[b] = pages[b],
         \A b \in DOMAIN pages' \ DOMAIN pages : pages'[b] = ZeroPage
  PROVE  Published'
<1>1. \A b \in DOMAIN pages' : \A j \in 1..Len(pages'[b].data) :
        b \in DOMAIN pages /\ pages'[b] = pages[b]
  BY NewPages
<1>2. /\ Initialised(pages') = Initialised(pages)
      /\ \A b \in Initialised(pages) : pages'[b] = pages[b]
  BY DEF Initialised, ZeroPage
<1>3. ~Huge(pages') /\ Among(pages', Range(log))
  BY <1>1 DEF Published, Huge, Among
<1>4. NoneMissing(pages', Range(log))
  BY <1>1 DEF Published, NoneMissing, Holds
<1>5. Packed(pages', meta)
  BY <1>2 DEF Published, Packed
<1>6. Resting'
  BY <1>2 DEF Published, Resting
<1> QED
  BY <1>3, <1>4, <1>5, <1>6 DEF Published

\* The numbers in the log are numbers.
LEMMA LogNumbers ==
  ASSUME LogFits
  PROVE  /\ Range(log) \in SUBSET (Nat \ {0})
         /\ \A x \in Range(log) : x <= count
         /\ Begun => \A x \in Range(log) : x < obj.rec
BY DEF LogFits, Range

\* A session begins with the pages everybody sees.
LEMMA StartPrimary ==
  ASSUME Whole, Primary, NEW l \in MaxSizes, Start(l), log' = log
  PROVE  Primary'
<1>1. /\ pc = "idle" /\ pc' = "open" /\ wmeta' = meta /\ obj' = NoObject
      /\ meta' = meta /\ pages' = pages /\ image' = NoImage
      /\ count' = count /\ nTruncates' = nTruncates /\ limit' = l
  BY DEF Start, shared, bounds
<1>2. Seen' = pages
  BY <1>1, SeenFacts DEF Seen, View, NoImage, Whole, Types, TypeOK
<1>3. Fit(pages)
  BY DEF Whole, StreamInv, Shared
<1>4. Published'
  BY <1>1, <1>3, SamePublished DEF Primary
<1>5. LogFits'
  BY <1>1 DEF Primary, LogFits, Begun
<1>6. log = <<>> => Opening'
  <2> SUFFICES ASSUME log = <<>>
               PROVE  wmeta'.next = 1 /\ \A b \in DOMAIN pages : ~HasData(pages, b)
    BY <1>1, <1>2 DEF Opening
  <2>1. Initialised(pages) = {} /\ meta = InitMeta
    BY DEF Primary, Published, Resting
  <2>2. \A b \in DOMAIN pages : Len(pages[b].data) = 0
    BY <1>3, <2>1 DEF Initialised, Fit
  <2> QED
    BY <1>1, <2>1, <2>2 DEF InitMeta, HasData
<1>7. Writing'
  <2>1. ~Begun'
    BY <1>1 DEF Begun
  <2>2. Among(pages, Range(log) \cup {0})
    BY DEF Primary, Published, Among
  <2>3. ~Huge(pages) /\ NoneMissing(pages, Range(log)) /\ Packed(pages, meta)
    BY DEF Primary, Published
  <2>4. obj'.rec = 0
    BY <1>1 DEF NoObject
  <2> QED
    BY <1>1, <1>2, <1>6, <2>1, <2>2, <2>3, <2>4 DEF Writing
<1> QED
  BY <1>1, <1>4, <1>5, <1>7 DEF Primary

\* The first byte of an object is packed.
LEMMA BeginObjectPrimary ==
  ASSUME Whole, Primary, KeepsPace, NEW n \in Sizes \cup BuildSizes,
         BeginObject(n), log' = log
  PROVE  Primary'
<1>1. /\ pc = "open" /\ pc' = "ensure" /\ count' = count + 1
      /\ obj' = [rec |-> count + 1, n |-> n, rest |-> n]
      /\ UNCHANGED <<meta, pages, wmeta, image, limit, nTruncates>>
      /\ n \in Nat \ {0} /\ count \in Nat
  BY WriterAssumption DEF BeginObject, shared, Whole, Types, TypeOK
<1>2. obj'.rec = count + 1 /\ obj'.n = n /\ obj'.rest = n
  BY <1>1
<1>3. /\ InSession /\ InSession' /\ ~Begun /\ Begun'
      /\ obj = NoObject
  BY <1>1 DEF InSession, Begun, Whole, StreamInv, Session
<1>4. Seen' = Seen
  BY <1>1 DEF Seen, View
<1>5. Published'
  BY <1>1, SamePublished DEF Primary, Whole, StreamInv, Shared
<1>6. LogFits'
  <2>1. log \in Seq(Nat \ {0}) /\ \A j \in DOMAIN log : log[j] <= count
    BY DEF Primary, LogFits
  <2>2. \A j \in DOMAIN log : log[j] \in Nat
    BY <2>1
  <2>3. \A j \in DOMAIN log : log[j] < count + 1 /\ log[j] <= count + 1
    BY <1>1, <2>1, <2>2
  <2> QED
    BY <1>1, <1>2, <2>1, <2>3 DEF Primary, LogFits
<1>7. Among(Seen, Range(log) \cup {obj'.rec})
  <2> SUFFICES ASSUME NEW b \in DOMAIN Seen, NEW j \in 1..Len(Seen[b].data)
               PROVE  Seen[b].data[j].rec \in Range(log)
    BY DEF Among
  <2>1. Fit(Seen)
    BY <1>3 DEF Whole, StreamInv, Session, RingFits
  <2>2. Seen[b].data[j] \in Cell
    BY <2>1, FitCells
  <2>3. Seen[b].data[j].rec \in Range(log) \cup {0}
    BY <1>3 DEF Primary, Writing, Among, NoObject
  <2> QED
    BY <2>2, <2>3 DEF Cell
<1>8. log = <<>> => Opening'
  BY <1>1, <1>2, <1>3, <1>4 DEF Primary, Writing, Opening
<1>9. Writing'
  <2>1. FitsOneRecord(n)
    BY DEF KeepsPace
  <2>2. /\ limit \in MaxSizes /\ ~Huge(Seen) /\ NoneMissing(Seen, Range(log))
        /\ Packed(Seen, wmeta)
    BY <1>3 DEF Primary, Writing
  <2> QED
    BY <1>1, <1>2, <1>4, <1>7, <1>8, <2>1, <2>2 DEF Writing
<1> QED
  BY <1>1, <1>5, <1>6, <1>9 DEF Primary

\* A block is added: the session sees a page without a byte there.
LEMMA EnsureNewSeen ==
  ASSUME Whole, Whole', EnsureNew
  PROVE  /\ Emptied(Seen, Seen', wmeta, wmeta.next)
         /\ wmeta.next \notin DOMAIN Seen
         /\ Seen'[wmeta.next] = EmptyPage
         /\ UNCHANGED <<meta, wmeta, obj, limit, count, nTruncates>>
         /\ pc = "ensure" /\ pc' \in {"append", "packed"} /\ out' = <<>>
         /\ DOMAIN pages \subseteq DOMAIN pages'
         /\ \A b \in DOMAIN pages : pages'[b] = pages[b]
         /\ \A b \in DOMAIN pages' \ DOMAIN pages : pages'[b] = ZeroPage
         /\ \A b \in DOMAIN image' \ DOMAIN image : b \notin DOMAIN pages
<1> DEFINE n == wmeta.next
<1>1. /\ pages \in Seq(Page) /\ Len(pages) \in Nat
      /\ DOMAIN pages = 1..Len(pages) /\ DOMAIN Seen = DOMAIN pages
      /\ n \in Nat \ {0} /\ n <= Len(pages) + 1 /\ wmeta \in MetaPage
  BY SeenFacts DEF Whole, Types, TypeOK, MetaPage, NoHole, NBlocks
<1>2. /\ pc = "ensure" /\ n = Len(pages) + 1
      /\ pages' = Append(pages, ZeroPage)
      /\ wmeta' = [wmeta EXCEPT !.next = Len(pages) + 1]
      /\ OpenPage(n, EmptyPage)
  BY <1>1 DEF EnsureNew, NBlocks
<1>3. /\ DOMAIN pages' = DOMAIN pages \cup {n}
      /\ pages'[n] = ZeroPage
      /\ \A b \in DOMAIN pages : pages'[b] = pages[b]
      /\ n \notin DOMAIN pages
  BY <1>1, <1>2
<1>4. wmeta' = wmeta
  BY <1>1, <1>2 DEF MetaPage
<1> HIDE DEF n
<1>5. /\ DOMAIN Seen' = DOMAIN pages' /\ Seen'[n] = EmptyPage
      /\ \A c \in DOMAIN pages \ {n} : Seen'[c] = Seen[c]
      /\ DOMAIN image' = DOMAIN image \cup {n}
  BY <1>2, <1>3, OpenPageSeen DEF Whole
<1>6. Emptied(Seen, Seen', wmeta, n)
  BY <1>1, <1>3, <1>5, NewPages DEF Emptied, HasData
<1> QED
  BY <1>1, <1>2, <1>3, <1>4, <1>5, <1>6 DEF n, OpenPage, bounds, AfterEnsure

\* The session comes to a block that exists.
LEMMA EnsureExistingSeen ==
  ASSUME Whole, Whole', Primary, EnsureExisting
  PROVE  /\ UNCHANGED <<meta, pages, wmeta, obj, limit, count, nTruncates>>
         /\ pc = "ensure" /\ pc' \in {"append", "packed"} /\ out' = <<>>
         /\ wmeta.next \in DOMAIN pages /\ wmeta.next \notin DOMAIN image
         /\ Seen[wmeta.next] = pages[wmeta.next]
         /\ DOMAIN image' = DOMAIN image \cup {wmeta.next}
         /\ \/ Seen' = Seen
            \/ /\ Emptied(Seen, Seen', wmeta, wmeta.next)
               /\ Seen'[wmeta.next] = EmptyPage
               /\ image'[wmeta.next] = EmptyPage
               /\ HasData(Seen, wmeta.next) =>
                    \A o \in DOMAIN Seen \ {wmeta.next} :
                      OlderPage(Seen[wmeta.next], Seen[o])
<1> DEFINE n == wmeta.next
           page == ReusablePage(pages[n])
<1>1. /\ pages \in Seq(Page) /\ Len(pages) \in Nat
      /\ DOMAIN pages = 1..Len(pages)
      /\ n \in Nat \ {0} /\ wmeta \in MetaPage /\ wmeta.next < wmeta.max
      /\ wmeta.max \in Nat
  BY DEF Whole, Types, TypeOK, MetaPage, NoHole
<1>2. /\ pc = "ensure" /\ n \in DOMAIN pages
      /\ n \notin DOMAIN image
      /\ pages' = pages /\ wmeta' = wmeta
      /\ OpenPage(n, page)
  BY <1>1 DEF EnsureExisting, NBlocks
<1>3. /\ UNCHANGED <<meta, obj, limit, count, nTruncates>>
      /\ pc' \in {"append", "packed"} /\ out' = <<>>
  BY <1>2 DEF OpenPage, bounds, AfterEnsure
<1>4. DOMAIN Seen = DOMAIN pages /\ Seen[n] = pages[n]
  BY <1>2, SeenFacts DEF Whole, View
<1>5. /\ FreeSize(pages[n]) = 0 => page = EmptyPage
      /\ FreeSize(pages[n]) # 0 => page = pages[n]
  BY DEF ReusablePage
<1> HIDE DEF page, n
<1>6. /\ DOMAIN Seen' = DOMAIN pages /\ Seen'[n] = page
      /\ \A b \in DOMAIN pages \ {n} : Seen'[b] = Seen[b]
      /\ DOMAIN image' = DOMAIN image \cup {n} /\ image'[n] = page
  BY <1>2, OpenPageSeen DEF Whole
<1>7. CASE FreeSize(pages[n]) # 0
  <2>1. \A b \in DOMAIN Seen : Seen'[b] = Seen[b]
    BY <1>4, <1>5, <1>6, <1>7
  <2>2. /\ Seen' = [b \in DOMAIN Seen' |-> Seen'[b]]
        /\ Seen = [b \in DOMAIN Seen |-> Seen[b]]
    BY SeenFacts DEF Whole, Seen
  <2>3. Seen' = Seen
    BY <1>4, <1>6, <2>1, <2>2
  <2> QED
    BY <1>2, <1>3, <1>4, <1>6, <2>3 DEF n
<1>8. CASE FreeSize(pages[n]) = 0
  <2>1. page = EmptyPage
    BY <1>5, <1>8
  <2>2. Top(Seen, wmeta) = n - 1
    BY <1>1, <1>4, <1>8 DEF Top, n
  <2>3. Emptied(Seen, Seen', wmeta, n)
    BY <1>1, <1>2, <1>4, <1>6, <2>1, <2>2, NewPages DEF Emptied, HasData, n
  <2>4. ASSUME NEW o \in DOMAIN Seen \ {n}
        PROVE  OlderPage(Seen[n], Seen[o])
    <3>1. /\ InSession /\ Fit(Seen) /\ Sorted(Seen, wmeta, n - 1)
      BY <1>2, <2>2 DEF InSession, Whole, StreamInv, Session, RingFits, Ring
    <3>2. CASE Seen[o].init
      <4>1. o \in 1..(wmeta.max - 1)
        BY <3>1, <3>2 DEF Primary, Writing, Packed, Initialised
      <4>2. Before(wmeta, n - 1, n, o)
        BY <1>1, <2>4, <4>1 DEF Before, n
      <4> QED
        BY <1>2, <1>4, <3>1, <4>2 DEF Sorted
    <3>3. CASE ~Seen[o].init
      BY <3>1, <3>3 DEF Fit, OlderPage
    <3> QED
      BY <3>2, <3>3
  <2> QED
    BY <1>2, <1>3, <1>4, <1>6, <2>1, <2>3, <2>4 DEF n
<1> QED
  BY <1>7, <1>8

\* The invariant when a page is opened.
LEMMA OpenPrimary ==
  ASSUME Whole, Whole', Primary, log' = log,
         UNCHANGED <<meta, wmeta, obj, limit, count, nTruncates>>,
         pc = "ensure", pc' \in {"append", "packed"},
         DOMAIN pages \subseteq DOMAIN pages',
         \A b \in DOMAIN pages : pages'[b] = pages[b],
         \A b \in DOMAIN pages' \ DOMAIN pages : pages'[b] = ZeroPage,
         \/ Seen' = Seen
         \/ /\ Emptied(Seen, Seen', wmeta, wmeta.next)
            /\ Seen'[wmeta.next] = EmptyPage
            /\ HasData(Seen, wmeta.next) =>
                 /\ Seen[wmeta.next] = pages[wmeta.next]
                 /\ wmeta.next \in DOMAIN pages
                 /\ \A o \in DOMAIN Seen \ {wmeta.next} :
                      OlderPage(Seen[wmeta.next], Seen[o])
  PROVE  Primary'
<1>1. InSession /\ InSession' /\ Begun /\ Begun'
  BY DEF InSession, Begun
<1>2. Published'
  BY SamePublished DEF Primary, Whole, StreamInv, Shared
<1>3. LogFits'
  BY <1>1 DEF Primary, LogFits
<1>4. /\ limit \in MaxSizes /\ FitsOneRecord(obj.n)
      /\ ~Huge(Seen) /\ Among(Seen, Range(log) \cup {obj.rec})
      /\ NoneMissing(Seen, Range(log)) /\ Packed(Seen, wmeta)
      /\ log = <<>> => Opening
  BY <1>1 DEF Primary, Writing
<1>5. /\ ~Huge(Seen') /\ Among(Seen', Range(log) \cup {obj.rec})
      /\ NoneMissing(Seen', Range(log)) /\ Packed(Seen', wmeta)
      /\ log = <<>> => Opening'
  <2>1. CASE Seen' = Seen
    BY <1>4, <2>1 DEF Opening
  <2>2. CASE Seen' # Seen
    <3>1. Fit(Seen) /\ Range(log) \in SUBSET Nat
      BY <1>1, LogNumbers DEF Primary, Whole, StreamInv, Session, RingFits
    <3>2. ~Huge(Seen') /\ Among(Seen', Range(log) \cup {obj.rec})
          /\ NoneMissing(Seen', Range(log))
      BY <1>4, <2>2, <3>1, EmptiedKeeps
    <3>3. Packed(Seen', wmeta)
      BY <1>4, <2>2, EmptiedPacked DEF EmptyPage
    <3>4. ASSUME log = <<>> PROVE Opening'
      <4>1. ~HasData(Seen, wmeta.next)
        <5> SUFFICES ASSUME HasData(Seen, wmeta.next) PROVE FALSE
          OBVIOUS
        <5>1. Initialised(pages) = {} /\ Fit(pages)
          BY <3>4 DEF Primary, Published, Resting, Whole, StreamInv, Shared
        <5>2. Len(pages[wmeta.next].data) = 0
          BY <2>2, <5>1 DEF Initialised, Fit
        <5> QED
          BY <2>2, <5>2 DEF HasData
      <4>2. \A b : HasData(Seen', b) => HasData(Seen, b) /\ Seen'[b] = Seen[b]
        BY <2>2, NewPages DEF Emptied, HasData
      <4>3. \A b : HasData(Seen, b) => HasData(Seen', b) /\ Seen'[b] = Seen[b]
        BY <2>2, <4>1 DEF Emptied, HasData
      <4>4. Opening
        BY <1>4, <3>4
      <4>5. CASE obj.rest = obj.n
        <5>1. wmeta.next = 1 /\ \A b \in DOMAIN Seen : ~HasData(Seen, b)
          BY <4>4, <4>5 DEF Opening
        <5>2. \A b \in DOMAIN Seen' : ~HasData(Seen', b)
          BY <4>2, <5>1 DEF HasData
        <5> QED
          BY <4>5, <5>1, <5>2 DEF Opening
      <4>6. CASE obj.rest # obj.n
        <5>1. BeginsWith(Seen, obj.rec)
          BY <4>4, <4>6 DEF Opening
        <5>2. BeginsWith(Seen', obj.rec)
          BY <4>3, <5>1 DEF BeginsWith
        <5> QED
          BY <4>6, <5>2 DEF Opening
      <4> QED
        BY <4>5, <4>6
    <3> QED
      BY <3>2, <3>3, <3>4
  <2> QED
    BY <2>1, <2>2
<1>6. Writing'
  BY <1>4, <1>5 DEF Writing
<1> QED
  BY <1>2, <1>3, <1>6 DEF Primary

\* Bytes are written.
LEMMA AppendBytesPrimary ==
  ASSUME Whole, Whole', Primary, KeepsPace, AppendBytes, log' = log
  PROVE  Primary'
<1> DEFINE n == wmeta.next
<1>1. /\ pc = "append" /\ pc' \in {"ensure", "packed"}
      /\ n = current /\ image'[n] \in Page /\ Len(image'[n].data) <= PageSize
      /\ \/ /\ FreeSize(image'[n]) = 0
            /\ wmeta' = Filled(wmeta, limit)
         \/ wmeta' = wmeta
      /\ UNCHANGED <<meta, pages, limit, count, nTruncates>>
  BY AppendBytesEffect DEF Whole, AppendBytes
<1>2. InSession /\ InSession' /\ Begun /\ Begun'
  BY <1>1 DEF InSession, Begun
<1>3. PICK k, cells : Appended(Seen, Seen', wmeta, obj, obj', k, cells)
  BY AppendBytesSeen DEF Whole, Base, Ends
<1>4. /\ obj \in [rec : Nat, n : Nat, rest : Nat] /\ obj.rest <= obj.n
      /\ Fit(Seen) /\ RingFits(Seen, wmeta, obj)
      /\ wmeta \in MetaPage /\ wmeta.next < wmeta.max
  BY <1>2 DEF Whole, Types, TypeOK, Shape, NoHole, StreamInv, Session, RingFits
<1>5. /\ obj'.rec = obj.rec /\ obj'.n = obj.n /\ obj'.rest = obj.rest - k
      /\ k \in Nat \ {0} /\ k <= obj.rest /\ DOMAIN Seen' = DOMAIN Seen
      /\ n \in DOMAIN Seen /\ cells \in Seq(Cell) /\ NewBytes(cells, obj, k)
      /\ Seen'[n].data = Seen[n].data \o cells
  BY <1>3 DEF Appended
<1>6. Published'
  BY <1>1, SamePublished DEF Primary, Whole, StreamInv, Shared
<1>7. LogFits'
  BY <1>1, <1>2, <1>5 DEF Primary, LogFits
<1>8. /\ limit \in MaxSizes /\ FitsOneRecord(obj.n)
      /\ ~Huge(Seen) /\ Among(Seen, Range(log) \cup {obj.rec})
      /\ NoneMissing(Seen, Range(log)) /\ Packed(Seen, wmeta)
      /\ log = <<>> => Opening
  BY <1>2 DEF Primary, Writing
<1>9. ~Huge(Seen') /\ Among(Seen', Range(log) \cup {obj.rec})
      /\ NoneMissing(Seen', Range(log))
  <2>1. /\ Range(log) \in SUBSET Nat /\ \A x \in Range(log) : x < obj.rec
    BY <1>2, LogNumbers DEF Primary
  <2> QED
    BY <1>3, <1>4, <1>8, <2>1, AppendedKeeps
<1>10. Packed(Seen', wmeta')
  <2>1. Packed(Seen', wmeta) /\ n \in Initialised(Seen')
    BY <1>3, <1>4, <1>8, AppendedPacked
  <2>2. CASE FreeSize(image'[n]) = 0 /\ wmeta' = Filled(wmeta, limit)
    <3>1. Seen'[n] = image'[n]
      BY <1>1, AppendBytesSeen DEF Whole, Base, Ends
    <3>2. Len(Seen'[n].data) = PageSize
      <4>1. Seen'[n].init /\ Len(Seen'[n].data) \in Nat
        BY <1>1, <2>1, <3>1, PageCells DEF Initialised
      <4> QED
        BY <2>2, <3>1, <4>1, PagesAssumption DEF FreeSize
    <3> QED
      BY <1>4, <1>8, <2>1, <2>2, <3>2, FilledPacked DEF KeepsPace
  <2> QED
    BY <1>1, <2>1, <2>2
<1>11. ASSUME log = <<>> PROVE Opening'
  <2>1. obj'.rest # obj'.n /\ pc' # "open"
    BY <1>1, <1>4, <1>5
  <2>2. CASE obj.rest = obj.n
    <3>1. n = 1 /\ ~HasData(Seen, 1)
      BY <1>5, <1>8, <1>11, <2>2 DEF Opening
    <3>2. /\ Len(Seen[1].data) = 0 /\ Seen[1].data \in Seq(Cell)
          /\ Len(cells) = k
      <4>1. Seen[1].data \in Seq(Cell) /\ Len(Seen[1].data) \in Nat
        BY <1>4, <1>5, <3>1, PageCells DEF Fit
      <4> QED
        BY <1>5, <3>1, <4>1 DEF HasData, NewBytes
    <3>3. /\ Len(Seen'[1].data) = k
          /\ Seen'[1].data[1] = cells[1]
      <4> DEFINE old == Seen[1].data
                 new == old \o cells
      <4>1. /\ Len(new) = Len(old) + Len(cells)
            /\ \A j \in (Len(old) + 1)..(Len(old) + Len(cells)) :
                 new[j] = cells[j - Len(old)]
        BY <1>5, <3>2, ConcatCells
      <4>2. Len(old) = 0 /\ Seen'[1].data = new
        BY <1>5, <3>1, <3>2
      <4> HIDE DEF new, old
      <4> QED
        BY <1>5, <3>2, <4>1, <4>2
    <3>4. cells[1].rec = obj.rec /\ cells[1].i = 1
      BY <1>4, <1>5, <2>2 DEF NewBytes
    <3> QED
      BY <1>5, <2>1, <3>1, <3>3, <3>4 DEF Opening, BeginsWith, HasData
  <2>3. CASE obj.rest # obj.n
    <3>1. BeginsWith(Seen, obj.rec)
      BY <1>1, <1>8, <1>11, <2>3 DEF Opening
    <3>2. 1 \in DOMAIN Seen /\ Len(Seen[1].data) > 0 /\ Len(Seen[1].data) \in Nat
      BY <1>4, <3>1, FitCells DEF BeginsWith, HasData
    <3>3. /\ Len(Seen'[1].data) \in Nat
          /\ Len(Seen[1].data) <= Len(Seen'[1].data)
          /\ Seen'[1].data[1] = Seen[1].data[1]
      BY <1>3, <1>4, <3>2, AppendedCells
    <3>4. BeginsWith(Seen', obj.rec)
      BY <1>5, <3>1, <3>2, <3>3 DEF BeginsWith, HasData
    <3> QED
      BY <1>5, <2>1, <3>4 DEF Opening
  <2> QED
    BY <2>2, <2>3
<1>12. Writing'
  BY <1>1, <1>2, <1>5, <1>8, <1>9, <1>10, <1>11 DEF Writing
<1> QED
  BY <1>1, <1>6, <1>7, <1>12 DEF Primary

\* A set of one as a sequence.
LEMMA OneToSeq ==
  ASSUME NEW x
  PROVE  SetToSeq({x}) = <<x>>
<1>1. Cardinality({x}) = 1
  BY FS_Singleton
<1>2. <<x>> \in [1..1 -> {x}] /\ IsInjective(<<x>>)
  BY DEF IsInjective
<1>3. \A f \in [1..1 -> {x}] : f = <<x>>
  OBVIOUS
<1> QED
  BY <1>1, <1>2, <1>3 DEF SetToSeq

\* The session has written the last byte of its object, to a page it has
\* registered.
LEMMA FinishHolds ==
  ASSUME Whole, Primary, Finish
  PROVE  \E b \in DOMAIN image : \E j \in 1..Len(image[b].data) :
           /\ Seen[b] = image[b]
           /\ image[b].data[j].rec = obj.rec
           /\ image[b].data[j].i = image[b].data[j].n
<1>1. pc = "packed" /\ InSession /\ Begun
  BY DEF Finish, InSession, Begun
<1>2. /\ RingFits(Seen, wmeta, obj) /\ Fit(Seen)
      /\ obj.rest = 0 /\ obj.n > 0 /\ obj.n \in Nat
  BY <1>1 DEF Whole, Types, TypeOK, StreamInv, Session, RingFits
<1> DEFINE b == End(wmeta, Top(Seen, wmeta))
           j == Len(Seen[b].data)
<1>3. /\ HasData(Seen, b)
      /\ LastCell(Seen[b]) = [rec |-> obj.rec, i |-> obj.n - obj.rest, n |-> obj.n]
  BY <1>2 DEF RingFits, TailFits
<1> HIDE DEF b
<1>4. /\ b \in DOMAIN Seen /\ j \in 1..j
      /\ Seen[b].data[j].rec = obj.rec
      /\ Seen[b].data[j].i = Seen[b].data[j].n
  BY <1>2, <1>3, FitCells DEF HasData, LastCell
<1>5. b \in DOMAIN image
  <2> SUFFICES ASSUME b \notin DOMAIN image PROVE FALSE
    OBVIOUS
  <2>1. b \in DOMAIN pages /\ Seen[b] = pages[b]
    BY <1>4, SeenFacts DEF Whole, View
  <2>2. obj.rec \in Range(log)
    BY <1>4, <2>1 DEF Primary, Published, Among
  <2>3. obj.rec < obj.rec /\ obj.rec \in Nat
    BY <1>1, <2>2, LogNumbers DEF Primary
  <2> QED
    BY <2>3
<1>6. Seen[b] = image[b]
  BY <1>4, <1>5, SeenFacts DEF Whole, View
<1> QED
  BY <1>4, <1>5, <1>6

\* The record brings one object.
LEMMA FinishPublishes ==
  ASSUME Whole, Primary, Finish
  PROVE  PublishedBy(out') = <<obj.rec>>
<1>1. out' = <<[meta |-> <<wmeta>>, image |-> image]>>
  BY DEF Finish, Publish
<1>2. out' # <<>> /\ out'[1].image = image
  BY <1>1
<1>3. /\ pc = "packed" /\ InSession /\ Begun
  BY DEF Finish, InSession, Begun
<1>4. \A b \in DOMAIN image : b \in DOMAIN Seen /\ Seen[b] = image[b]
  BY SeenFacts DEF Whole, Types, TypeOK, View
<1>5. \A b \in DOMAIN image : DOMAIN image[b].data = 1..Len(image[b].data)
  BY PageCells DEF Whole, Types, TypeOK
<1>6. obj.rec \notin Range(log)
  <2>1. obj.rec \in Nat /\ \A x \in Range(log) : x < obj.rec
    BY <1>3, LogNumbers DEF Primary, Whole, Types, TypeOK
  <2> QED
    BY <2>1
<1> DEFINE C == UNION {CellsOf(image[b]) : b \in DOMAIN image}
           D == {d \in C : d.i = d.n /\ d.rec \notin Range(log)}
<1>7. \A d \in C : d.rec \in Range(log) \cup {obj.rec}
  <2> SUFFICES ASSUME NEW b \in DOMAIN image, NEW d \in CellsOf(image[b])
               PROVE  d.rec \in Range(log) \cup {obj.rec}
    OBVIOUS
  <2>1. PICK j \in 1..Len(image[b].data) : d = image[b].data[j]
    BY <1>5 DEF CellsOf
  <2> QED
    BY <1>3, <1>4, <2>1 DEF Primary, Writing, Among
<1>8. \E d \in C : d.i = d.n /\ d.rec = obj.rec
  <2>1. PICK b \in DOMAIN image : \E j \in 1..Len(image[b].data) :
          /\ image[b].data[j].rec = obj.rec
          /\ image[b].data[j].i = image[b].data[j].n
    BY FinishHolds
  <2>2. PICK j \in 1..Len(image[b].data) :
          /\ image[b].data[j].rec = obj.rec
          /\ image[b].data[j].i = image[b].data[j].n
    BY <2>1
  <2>3. image[b].data[j] \in CellsOf(image[b])
    BY <1>5, <2>2 DEF CellsOf
  <2>4. image[b].data[j] \in C
    BY <2>3
  <2> QED
    BY <2>2, <2>4
<1> HIDE DEF C
<1>9. {d.rec : d \in D} = {obj.rec}
  <2>1. \A d \in D : d.rec = obj.rec
    BY <1>7
  <2>2. \E d \in D : d.rec = obj.rec
    BY <1>6, <1>8
  <2> HIDE DEF D
  <2> QED
    BY <2>1, <2>2
<1>10. Completed(image) = {obj.rec}
  BY <1>9 DEF Completed, C
<1> QED
  BY <1>2, <1>10, OneToSeq DEF PublishedBy

\* The end of a session publishes its object.
LEMMA FinishPrimary ==
  ASSUME Whole, Whole', Primary, Finish, log' = Append(log, obj.rec)
  PROVE  Primary'
<1>1. /\ pc = "packed" /\ pc' = "idle" /\ count' = count
      /\ nTruncates' = nTruncates /\ Publish
  BY DEF Finish, bounds
<1>2. /\ pages' = Seen /\ meta' = wmeta /\ InSession /\ Begun
      /\ ~InSession' /\ ~Begun'
  BY <1>1, PublishSeen DEF InSession, Begun, Whole
<1>3. /\ log \in Seq(Nat \ {0}) /\ obj.rec = count /\ obj.n > 0
      /\ obj.rec \in Nat \ {0}
      /\ \A j \in DOMAIN log : log[j] < obj.rec
      /\ \A i, j \in DOMAIN log : i < j => log[i] < log[j]
  <2>1. obj.rec = count /\ obj.n > 0
    BY <1>2 DEF Whole, StreamInv, Session
  <2>2. PICK b \in DOMAIN image : \E j \in 1..Len(image[b].data) :
           image[b].data[j].rec = obj.rec
    BY FinishHolds
  <2>3. PICK j \in 1..Len(image[b].data) : image[b].data[j].rec = obj.rec
    BY <2>2
  <2>4. image[b].data[j] \in Cell
    BY <2>3, PageCells DEF Whole, Types, TypeOK
  <2>5. obj.rec \in Nat \ {0}
    BY <2>3, <2>4 DEF Cell
  <2> QED
    BY <1>2, <2>1, <2>5 DEF Primary, LogFits
<1>4. /\ log' \in Seq(Nat \ {0}) /\ DOMAIN log' = DOMAIN log \cup {Len(log) + 1}
      /\ \A j \in DOMAIN log : log'[j] = log[j]
      /\ log'[Len(log) + 1] = obj.rec /\ DOMAIN log = 1..Len(log)
      /\ Len(log) \in Nat
  BY <1>3
<1>5. LogFits'
  <2>1. \A j \in DOMAIN log' : log'[j] <= count
    BY <1>1, <1>3, <1>4 DEF Primary, LogFits
  <2>2. \A i, j \in DOMAIN log' : i < j => log'[i] < log'[j]
    <3> SUFFICES ASSUME NEW i \in DOMAIN log', NEW j \in DOMAIN log', i < j
                 PROVE  log'[i] < log'[j]
      OBVIOUS
    <3>1. i \in DOMAIN log
      BY <1>4
    <3> QED
      BY <1>3, <1>4, <3>1
  <2> QED
    BY <1>1, <1>2, <1>4, <2>1, <2>2 DEF LogFits
<1>6. Range(log') = Range(log) \cup {obj.rec}
  BY <1>4 DEF Range
<1>7. /\ ~Huge(Seen) /\ Among(Seen, Range(log) \cup {obj.rec})
      /\ NoneMissing(Seen, Range(log)) /\ Packed(Seen, wmeta)
  BY <1>2 DEF Primary, Writing
<1>8. Holds(Seen, obj.rec)
  <2>1. PICK b \in DOMAIN image : \E j \in 1..Len(image[b].data) :
           Seen[b] = image[b] /\ image[b].data[j].rec = obj.rec
    BY FinishHolds
  <2>2. b \in DOMAIN Seen
    BY SeenFacts DEF Whole, Types, TypeOK
  <2> QED
    BY <2>1, <2>2 DEF Holds
<1>9. NoneMissing(Seen, Range(log'))
  BY <1>6, <1>7, <1>8 DEF NoneMissing
<1>10. Resting'
  <2>1. /\ wmeta.next \in DOMAIN image /\ FreeSize(image[wmeta.next]) > 0
        /\ image[wmeta.next] \in Page /\ Len(image[wmeta.next].data) <= PageSize
    BY <1>1 DEF Whole, Types, TypeOK, Shape
  <2>2. wmeta.next \in DOMAIN Seen /\ Seen[wmeta.next] = image[wmeta.next]
    BY <2>1, SeenFacts DEF Whole, Types, TypeOK, View
  <2>3. Seen[wmeta.next].init
    BY <2>1, <2>2 DEF FreeSize
  <2>4. Len(Seen[wmeta.next].data) < PageSize
    <3>1. Len(Seen[wmeta.next].data) \in Nat
      BY <2>1, <2>2, PageCells
    <3> QED
      BY <2>1, <2>2, <2>3, <3>1, PagesAssumption DEF FreeSize
  <2>5. log' # <<>>
    BY <1>4
  <2> QED
    BY <1>2, <2>2, <2>3, <2>4, <2>5 DEF Resting, Initialised
<1>11. Published'
  BY <1>2, <1>6, <1>7, <1>9, <1>10 DEF Published
<1> QED
  BY <1>1, <1>2, <1>5, <1>11 DEF Primary, Writing

\* The steps that change no page.
LEMMA QuietPrimary ==
  ASSUME Whole, Primary, log' = log,
         UNCHANGED <<meta, pages, count, nTruncates>>,
         pc' # "truncate", ~InSession'
  PROVE  Primary'
<1>1. Published'
  BY SamePublished DEF Primary, Whole, StreamInv, Shared
<1>2. LogFits'
  BY DEF Primary, LogFits, Begun, InSession
<1> QED
  BY <1>1, <1>2 DEF Primary, Writing

\* Nothing changes.
LEMMA StutterPrimary ==
  ASSUME Primary, UNCHANGED vars, log' = log
  PROVE  Primary'
<1>1. /\ UNCHANGED <<meta, pages, pc, limit, wmeta, image, obj, count,
                     nTruncates>>
  BY DEF vars, shared, session, bounds
<1>2. Seen' = Seen
  BY <1>1 DEF Seen, View
<1>3. (InSession' <=> InSession) /\ (Begun' <=> Begun)
  BY <1>1 DEF InSession, Begun
<1>4. LogFits' /\ Published'
  BY <1>1, <1>3 DEF Primary, LogFits, Published, Resting
<1>5. Opening => Opening'
  BY <1>1, <1>2 DEF Opening
<1>6. Writing'
  BY <1>1, <1>2, <1>3, <1>5 DEF Primary, Writing
<1> QED
  BY <1>1, <1>4, <1>6 DEF Primary

-----------------------------------------------------------------------------
(* The invariant holds, and what a step of the primary does to the ring.   *)

\* Page q begins with all that is on page p.
Extends(p, q) ==
  /\ Len(p.data) <= Len(q.data)
  /\ \A j \in 1..Len(p.data) : q.data[j] = p.data[j]

\* A page of the ring may go when it is the oldest of all and the standby's
\* position is not on it.
MayGo(P, b) ==
  /\ HasData(P, b)
  /\ b # Standby!StartBlock
  /\ \A o \in DOMAIN P \ {b} : OlderPage(P[b], P[o])

\* The record of a session that ends, as it is sent.
LastRecord ==
  [meta |-> <<wmeta>>, image |-> image,
   commit |-> phase' = "ready" /\ phase # "ready"]

\* A step of the primary that publishes nothing.
QuietStep ==
  /\ log' = log /\ xlog' = xlog /\ meta' = meta
  /\ Initialised(pages') = Initialised(pages)
  /\ \A b \in Initialised(pages) : pages'[b] = pages[b]
  /\ \/ Seen' = pages
     \/ \A b \in DOMAIN Seen : /\ b \in DOMAIN Seen'
                               /\ Extends(Seen[b], Seen'[b]) \/ MayGo(Seen, b)

\* A step of the primary that publishes an object.
PublishStep ==
  /\ Finish
  /\ log' = Append(log, obj.rec)
  /\ xlog' = Append(xlog, LastRecord)

\* A page extends itself.
LEMMA ExtendsSame ==
  ASSUME NEW page \in Page
  PROVE  Extends(page, page)
BY PageCells DEF Extends

\* A step without a record.
LEMMA NoRecord ==
  ASSUME log \in Seq(Nat \ {0}), NEW R, xlog \in Seq(R),
         PrimaryStep, out' = <<>>
  PROVE  log' = log /\ xlog' = xlog
<1>1. PublishedBy(out') = <<>>
  BY DEF PublishedBy
<1>2. log' = log \o <<>>
  BY <1>1 DEF PrimaryStep
<1>3. xlog' = xlog \o <<>>
  BY DEF PrimaryStep
<1> QED
  BY <1>2, <1>3

\* The record of a session that ends.
LEMMA OneRecord ==
  ASSUME Whole, Primary, NEW R, xlog \in Seq(R), PrimaryStep, Finish
  PROVE  PublishStep
<1>1. out' = <<[meta |-> <<wmeta>>, image |-> image]>>
  BY DEF Finish, Publish
<1>2. log' = log \o <<obj.rec>>
  BY FinishPublishes DEF PrimaryStep
<1>3. log' = Append(log, obj.rec)
  BY <1>2 DEF Primary, LogFits
<1> DEFINE sent == [k \in DOMAIN out' |->
                      [meta |-> out'[k].meta, image |-> out'[k].image,
                       commit |-> phase' = "ready" /\ phase # "ready"]]
<1>4. sent = <<LastRecord>>
  BY <1>1 DEF LastRecord
<1>5. xlog' = xlog \o sent
  BY DEF PrimaryStep
<1> HIDE DEF sent
<1>6. xlog' = Append(xlog, LastRecord)
  BY <1>4, <1>5
<1> QED
  BY <1>3, <1>6 DEF PublishStep

\* What a session sees is pages.
LEMMA SeenPages ==
  ASSUME Types
  PROVE  /\ \A b \in DOMAIN Seen : Seen[b] \in Page
         /\ image' = NoImage /\ pages' = pages => Seen' = pages
<1>1. \A b \in DOMAIN Seen : Seen[b] \in Page
  <2>1. DOMAIN Seen = DOMAIN pages /\ \A b \in DOMAIN Seen : Seen[b] = View(b)
    BY SeenFacts
  <2>2. \A b \in DOMAIN pages : pages[b] \in Page
    BY DEF Types, TypeOK
  <2>3. \A b \in DOMAIN image : image[b] \in Page
    BY DEF Types, TypeOK
  <2> QED
    BY <2>1, <2>2, <2>3 DEF View
<1>2. ASSUME image' = NoImage, pages' = pages PROVE Seen' = pages
  <2>1. Seen' = [b \in DOMAIN pages |-> pages[b]]
    BY <1>2 DEF Seen, View, NoImage
  <2>2. pages = [b \in DOMAIN pages |-> pages[b]]
    BY DEF Types, TypeOK
  <2> QED
    BY <2>1, <2>2
<1> QED
  BY <1>1, <1>2

\* Seen is as it was, or as everybody sees the pages.
LEMMA SameSeenQuiet ==
  ASSUME Whole, log' = log, xlog' = xlog, meta' = meta, pages' = pages,
         Seen' = Seen \/ Seen' = pages
  PROVE  QuietStep
<1>1. \A b \in DOMAIN Seen : Seen[b] \in Page
  BY SeenPages DEF Whole
<1>2. \A b \in DOMAIN Seen : Extends(Seen[b], Seen[b])
  BY <1>1, ExtendsSame
<1> QED
  BY <1>2 DEF QuietStep

\* A page is registered.
LEMMA EnsureQuiet ==
  ASSUME Whole, Whole', Primary, KeepsPace, PrimaryStep,
         EnsureNew \/ EnsureExisting, log' = log, xlog' = xlog
  PROVE  QuietStep
<1>1. \A b \in DOMAIN Seen : Seen[b] \in Page
  BY SeenPages DEF Whole
<1>2. \A b \in DOMAIN Seen : Extends(Seen[b], Seen[b])
  BY <1>1, ExtendsSame
<1>3. CASE EnsureNew
  <2>1. /\ Emptied(Seen, Seen', wmeta, wmeta.next)
        /\ wmeta.next \notin DOMAIN Seen /\ meta' = meta
        /\ DOMAIN pages \subseteq DOMAIN pages'
        /\ \A b \in DOMAIN pages : pages'[b] = pages[b]
        /\ \A b \in DOMAIN pages' \ DOMAIN pages : pages'[b] = ZeroPage
    BY <1>3, EnsureNewSeen
  <2>2. \A b \in DOMAIN Seen : b \in DOMAIN Seen' /\ Seen'[b] = Seen[b]
    BY <2>1 DEF Emptied
  <2>3. /\ Initialised(pages') = Initialised(pages)
        /\ \A b \in Initialised(pages) : pages'[b] = pages[b]
    BY <2>1 DEF Initialised, ZeroPage
  <2> QED
    BY <1>2, <2>1, <2>2, <2>3 DEF QuietStep
<1>4. CASE EnsureExisting
  <2> DEFINE n == wmeta.next
  <2>1. /\ meta' = meta /\ pages' = pages
        /\ n \in DOMAIN pages /\ n \notin DOMAIN image
        /\ Seen[n] = pages[n]
        /\ DOMAIN image' = DOMAIN image \cup {n}
        /\ \/ Seen' = Seen
           \/ /\ Emptied(Seen, Seen', wmeta, n)
              /\ Seen'[n] = EmptyPage
              /\ image'[n] = EmptyPage
              /\ HasData(Seen, n) =>
                   \A o \in DOMAIN Seen \ {n} : OlderPage(Seen[n], Seen[o])
    BY <1>4, EnsureExistingSeen
  <2>2. CASE Seen' = Seen
    BY <2>1, <2>2, SameSeenQuiet
  <2>3. CASE /\ Emptied(Seen, Seen', wmeta, n)
             /\ Seen'[n] = EmptyPage
             /\ image'[n] = EmptyPage
             /\ HasData(Seen, n) =>
                  \A o \in DOMAIN Seen \ {n} : OlderPage(Seen[n], Seen[o])
    <3>1. /\ DOMAIN Seen \subseteq DOMAIN Seen'
          /\ \A b \in DOMAIN Seen \ {n} : Seen'[b] = Seen[b]
      BY <2>3 DEF Emptied
    <3>2. CASE HasData(Seen, n)
      <4>1. pages[n].data # <<>>
        BY <2>1, <3>2 DEF HasData
      <4>2. Spent(n)
        BY <2>1, <2>3, <4>1 DEF PrimaryStep, KeepsPace
      <4>3. MayGo(Seen, n)
        BY <2>3, <3>2, <4>2 DEF MayGo, Spent
      <4> QED
        BY <1>2, <2>1, <3>1, <4>3 DEF QuietStep
    <3>3. CASE ~HasData(Seen, n)
      <4>1. n \in DOMAIN Seen /\ Seen[n] \in Page
        BY <2>1, SeenFacts, <1>1 DEF Whole
      <4>2. Len(Seen[n].data) = 0
        BY <3>3, <4>1, PageCells DEF HasData
      <4>3. Extends(Seen[n], Seen'[n])
        BY <2>3, <4>2 DEF Extends, EmptyPage
      <4> QED
        BY <1>2, <2>1, <3>1, <4>3 DEF QuietStep
    <3> QED
      BY <3>2, <3>3
  <2> QED
    BY <2>1, <2>2, <2>3
<1> QED
  BY <1>3, <1>4

\* What the primary does to the ring, and that the invariant is kept.
LEMMA PrimaryKeeps ==
  ASSUME KeepsPace, Whole, Whole', Primary, NEW R, xlog \in Seq(R),
         PrimaryStep
  PROVE  Primary' /\ (QuietStep \/ PublishStep)
<1> USE DEF Whole
<1>0. log \in Seq(Nat \ {0}) /\ pc # "truncate" /\ nTruncates = 0
  BY DEF Primary, LogFits
<1>1. ASSUME NEW l \in MaxSizes, Start(l)
      PROVE  Primary' /\ QuietStep
  <2>1. /\ out' = <<>> /\ meta' = meta /\ pages' = pages
        /\ image' = NoImage
    BY <1>1 DEF Start, shared
  <2>2. log' = log /\ xlog' = xlog
    BY <1>0, <2>1, NoRecord
  <2>3. Seen' = pages
    BY <2>1, SeenPages
  <2> QED
    BY <1>1, <2>1, <2>2, <2>3, StartPrimary, SameSeenQuiet
<1>2. ASSUME NEW n \in Sizes \cup BuildSizes, BeginObject(n)
      PROVE  Primary' /\ QuietStep
  <2>1. /\ out' = <<>> /\ UNCHANGED <<meta, pages, image>>
    BY <1>2 DEF BeginObject, shared
  <2>2. log' = log /\ xlog' = xlog
    BY <1>0, <2>1, NoRecord
  <2>3. Seen' = Seen
    BY <2>1 DEF Seen, View
  <2> QED
    BY <1>2, <2>1, <2>2, <2>3, BeginObjectPrimary, SameSeenQuiet
<1>3. ~EnsureRestart
  <2> SUFFICES ASSUME EnsureRestart PROVE FALSE
    OBVIOUS
  <2>1. InSession /\ Begun
    BY DEF EnsureRestart, InSession, Begun
  <2>2. ~FitsOneRecord(obj.n)
    BY <2>1, RestartIsHuge DEF StreamInv
  <2> QED
    BY <2>1, <2>2 DEF Primary, Writing
<1>4. CASE EnsureNew
  <2>1. /\ Emptied(Seen, Seen', wmeta, wmeta.next)
        /\ wmeta.next \notin DOMAIN Seen
        /\ Seen'[wmeta.next] = EmptyPage
        /\ UNCHANGED <<meta, wmeta, obj, limit, count, nTruncates>>
        /\ pc = "ensure" /\ pc' \in {"append", "packed"} /\ out' = <<>>
        /\ DOMAIN pages \subseteq DOMAIN pages'
        /\ \A b \in DOMAIN pages : pages'[b] = pages[b]
        /\ \A b \in DOMAIN pages' \ DOMAIN pages : pages'[b] = ZeroPage
    BY <1>4, EnsureNewSeen
  <2>2. log' = log /\ xlog' = xlog
    BY <1>0, <2>1, NoRecord
  <2>3. Primary'
    BY <2>1, <2>2, OpenPrimary DEF HasData
  <2> QED
    BY <1>4, <2>2, <2>3, EnsureQuiet
<1>5. CASE EnsureExisting
  <2>1. /\ UNCHANGED <<meta, pages, wmeta, obj, limit, count, nTruncates>>
        /\ pc = "ensure" /\ pc' \in {"append", "packed"} /\ out' = <<>>
        /\ wmeta.next \in DOMAIN pages
        /\ Seen[wmeta.next] = pages[wmeta.next]
        /\ \/ Seen' = Seen
           \/ /\ Emptied(Seen, Seen', wmeta, wmeta.next)
              /\ Seen'[wmeta.next] = EmptyPage
              /\ HasData(Seen, wmeta.next) =>
                   \A o \in DOMAIN Seen \ {wmeta.next} :
                     OlderPage(Seen[wmeta.next], Seen[o])
    BY <1>5, EnsureExistingSeen
  <2>2. log' = log /\ xlog' = xlog
    BY <1>0, <2>1, NoRecord
  <2>3. Primary'
    BY <2>1, <2>2, OpenPrimary
  <2> QED
    BY <1>5, <2>2, <2>3, EnsureQuiet
<1>6. CASE EnsureHang
  <2>1. /\ out' = <<>> /\ pc' = "hung"
        /\ UNCHANGED <<meta, pages, image, count, nTruncates>>
    BY <1>6 DEF EnsureHang, shared, session, bounds
  <2>2. log' = log /\ xlog' = xlog
    BY <1>0, <2>1, NoRecord
  <2>3. Seen' = Seen
    BY <2>1 DEF Seen, View
  <2>4. Primary'
    BY <2>1, <2>2, QuietPrimary DEF InSession
  <2> QED
    BY <2>1, <2>2, <2>3, <2>4, SameSeenQuiet
<1>7. CASE AppendBytes
  <2>1. out' = <<>> /\ meta' = meta /\ pages' = pages
    BY <1>7 DEF AppendBytes, shared
  <2>2. log' = log /\ xlog' = xlog
    BY <1>0, <2>1, NoRecord
  <2>3. PICK k, cells : Appended(Seen, Seen', wmeta, obj, obj', k, cells)
    BY <1>7, AppendBytesSeen DEF Base, Ends
  <2>4. InSession
    BY <1>7 DEF AppendBytes, InSession
  <2>5. Fit(Seen)
    BY <2>4 DEF StreamInv, Session, RingFits
  <2>6. DOMAIN Seen' = DOMAIN Seen
    BY <2>3 DEF Appended
  <2>7. \A b \in DOMAIN Seen : Extends(Seen[b], Seen'[b])
    BY <2>3, <2>5, AppendedCells DEF Extends
  <2>8. QuietStep
    BY <2>1, <2>2, <2>6, <2>7 DEF QuietStep
  <2> QED
    BY <1>7, <2>2, <2>8, AppendBytesPrimary
<1>8. CASE Finish
  <2>1. PublishStep
    BY <1>8, OneRecord
  <2> QED
    BY <1>8, <2>1, FinishPrimary DEF PublishStep
<1>9. CASE Abort
  <2>1. /\ out' = <<>> /\ pc' = "idle" /\ image' = NoImage
        /\ UNCHANGED <<meta, pages, count, nTruncates>>
    BY <1>9 DEF Abort, shared
  <2>2. log' = log /\ xlog' = xlog
    BY <1>0, <2>1, NoRecord
  <2>3. Seen' = pages
    BY <2>1, SeenPages
  <2>4. Primary'
    BY <2>1, <2>2, QuietPrimary DEF InSession
  <2> QED
    BY <2>1, <2>2, <2>3, <2>4, SameSeenQuiet
<1>10. ~Truncate
  BY <1>0 DEF Truncate, TruncateStart, TruncateMore, TruncateFinish, KeepsPace
<1> QED
  BY <1>1, <1>2, <1>3, <1>4, <1>5, <1>6, <1>7, <1>8, <1>9, <1>10
  DEF PrimaryStep, Next, Write

\* Before the first object.
LEMMA InitPrimary ==
  ASSUME KeepsPace, RInit
  PROVE  Primary
<1>1. /\ pc = "idle" /\ nTruncates = 0 /\ log = <<>> /\ pages = <<>>
      /\ meta = InitMeta
  BY DEF RInit, Init
<1>2. LogFits
  BY <1>1 DEF LogFits, Begun
<1>3. Published
  <2>1. ~Huge(pages) /\ Among(pages, Range(log)) /\ NoneMissing(pages, Range(log))
    BY <1>1 DEF Huge, Among, NoneMissing, Holds, Range
  <2>2. Initialised(pages) = {}
    BY <1>1 DEF Initialised
  <2>3. Packed(pages, meta)
    <3>1. \A l \in MaxSizes : l = 0 \/ 2 <= EffectiveLimit(l)
      BY WriterAssumption DEF EffectiveLimit
    <3>2. 1..1 = {1}
      OBVIOUS
    <3> QED
      BY <1>1, <2>2, <3>1, <3>2 DEF Packed, InitMeta
  <2> QED
    BY <1>1, <2>1, <2>2, <2>3 DEF Published, Resting
<1> QED
  BY <1>1, <1>2, <1>3 DEF Primary, Writing, InSession

\* A session registers no page that is not initialised.
Formatted == \A b \in DOMAIN image : image[b].init

LEMMA FormattedKeeps ==
  ASSUME Whole, Formatted, [Next]_vars
  PROVE  Formatted'
<1>1. CASE image' = image
  BY <1>1 DEF Formatted
<1>2. CASE image' = NoImage
  BY <1>2 DEF Formatted, NoImage
<1>3. ASSUME NEW b, NEW page, OpenPage(b, page), page.init
      PROVE  Formatted'
  BY <1>3 DEF Formatted, OpenPage, Put
<1>4. CASE AppendBytes
  <2>1. /\ current \in DOMAIN image /\ DOMAIN image' = DOMAIN image
        /\ \A b \in DOMAIN image \ {current} : image'[b] = image[b]
    BY <1>4, AppendBytesEffect DEF Whole
  <2>2. image'[current].init = image[current].init
    BY <1>4, <2>1 DEF AppendBytes, Put, AppendTo
  <2> QED
    BY <2>1, <2>2 DEF Formatted
<1>5. CASE EnsureNew
  BY <1>3, <1>5 DEF EnsureNew, EmptyPage
<1>6. CASE EnsureExisting
  <2>1. ReusablePage(pages[wmeta.next]).init
    BY PagesAssumption DEF ReusablePage, EmptyPage, FreeSize
  <2> QED
    BY <1>3, <1>6, <2>1 DEF EnsureExisting
<1> QED
  BY <1>1, <1>2, <1>4, <1>5, <1>6
  DEF Next, Write, Truncate, Start, BeginObject, EnsureRestart, EnsureHang,
      Finish, Abort, TruncateStart, TruncateMore, TruncateFinish, vars, session

HIDE DEF MetaBlock, FirstBlock

-----------------------------------------------------------------------------
(* The invariant of the standby.                                           *)

StartBlock == Standby!StartBlock

\* The pages that were written since block s began.
Arc(P, s) ==
  {b \in DOMAIN P :
     /\ HasData(P, s) /\ HasData(P, b)
     /\ b = s \/ Older(FirstCell(P[s]), FirstCell(P[b]))}

\* They are in Q, with more at their ends maybe.
Carried(P, Q, s) == \A b \in Arc(P, s) : b \in DOMAIN Q /\ Extends(P[b], Q[b])

\* The first n objects published.
Told(n) == {log[i] : i \in 1..n}

\* The pages P of meta page m as a record leaves them.
Frozen(m, P) ==
  /\ m \in MetaPage /\ m.next < m.max
  /\ P \in Seq(Page)
  /\ Fit(P) /\ Ring(P, m, Top(P, m)) /\ ~Huge(P)
  /\ P # <<>> =>
       /\ Len(P) = m.max - 1
       /\ \A b \in DOMAIN P : P[b].init
       /\ \A b \in DOMAIN P \ {m.next} : Len(P[b].data) = PageSize
       /\ Len(P[m.next].data) < PageSize

\* What the standby's pages are, or will be: n objects were published then.
Snapshot(h) ==
  /\ Frozen(h.meta, h.pages)
  /\ h.n \in 0..Len(log)
  /\ Among(h.pages, Told(h.n)) /\ NoneMissing(h.pages, Told(h.n))
  /\ h.pages # <<>> => log # <<>>
  /\ h.pages # <<>> /\ spos.block = 0 => BeginsWith(h.pages, log[1])

\* A record that makes h of g.
Brings(record, g, h) ==
  /\ record.meta = <<h.meta>>
  /\ h.pages # <<>>
  /\ DOMAIN h.pages = DOMAIN g.pages \cup DOMAIN record.image
  /\ \A b \in DOMAIN h.pages :
       h.pages[b] = IF b \in DOMAIN record.image THEN record.image[b]
                    ELSE g.pages[b]

\* What everybody sees on the primary.
Shows(h) ==
  /\ h.meta = meta
  /\ DOMAIN h.pages = Initialised(pages)
  /\ \A b \in DOMAIN h.pages : h.pages[b] = pages[b]

\* The records on their way lead from what is on the standby to what is on
\* the primary, and leave alone what the standby has not applied.
Chain(H) ==
  /\ DOMAIN H = 1..Len(xlog) + 1
  /\ H[1].meta = smeta /\ H[1].pages = spages
  /\ Shows(H[Len(xlog) + 1])
  /\ \A k \in 1..Len(xlog) : Brings(xlog[k], H[k], H[k + 1])
  /\ \A k \in DOMAIN H : Snapshot(H[k])
  /\ \A j, k \in DOMAIN H :
       j <= k => Carried(H[j].pages, H[k].pages, StartBlock)
  /\ \A j \in DOMAIN H : Carried(H[j].pages, Seen, StartBlock)

\* The cell at offset e of a page ends an object.
EndsAt(page, e) == e \in 1..Len(page.data) /\ page.data[e].i = page.data[e].n

PositionFits ==
  /\ spos \in Position
  /\ IF spos.block = 0 THEN spos.offset = 0
     ELSE spos.block \in DOMAIN spages /\ EndsAt(spages[spos.block], spos.offset)

ReaderSession ==
  [pc : {"idle", "needed", "consume", "object", "applied"},
   start : Nat, i : Nat, off : Nat, end : Nat, buf : Seq(Cell),
   outcome : {"none", "done", "died", "garbled", "overwritten"}]

\* The block a reader is at.
BlockOf(s) == (s.start + s.i) % (Len(spages) + 1)

\* What is in the buffer of an unpacker that has read a page up to its end.
BufFits(buf, page) ==
  /\ \A j \in 1..Len(buf) - 1 : Follows(buf[j], buf[j + 1])
  /\ buf # <<>> => buf[1].i = 1
  /\ \A j \in 0..Len(buf) - 1 :
       j < Len(page.data) => buf[Len(buf) - j] = page.data[Len(page.data) - j]
  /\ Len(buf) > Len(page.data) => buf[1].n > Len(buf) - Len(page.data)
  /\ Len(buf) < Len(page.data) => EndsAt(page, Len(page.data) - Len(buf))

\* Before the first page is read.
AtStart(s) ==
  s.i = 0 /\ s.start = StartBlock /\ s.off = spos.offset /\ s.buf = <<>>

\* Between page p and the page after it.
Between(s, b, p) ==
  /\ s.i > 0 /\ s.off = 0
  /\ p \in Arc(spages, StartBlock) /\ p # smeta.next
  /\ IF b = 0 THEN p + 1 = smeta.max ELSE b = Succ(smeta, p)
  /\ BufFits(s.buf, spages[p])
  /\ s.buf # <<>> => Len(s.buf) < s.buf[1].n

\* On a page that has been read.
AtPage(s, b) ==
  /\ s.i < smeta.max
  /\ b \in DOMAIN spages
  /\ b \in Arc(spages, StartBlock) \/ (b = smeta.next /\ ~HasData(spages, b))
  /\ s.end = Len(spages[b].data)
  /\ BufFits(s.buf, spages[b])

SessionFits(s) ==
  /\ s.outcome \notin {"garbled", "overwritten"}
  /\ s.pc # "idle" => spages # <<>>
  /\ s.pc = "needed" => s.i = 0 /\ s.buf = <<>>
  /\ s.pc \in {"consume", "object", "applied"} =>
       s.start \in DOMAIN spages /\ s.i \in 0..smeta.max
  /\ s.pc = "consume" => AtStart(s) \/ \E p : Between(s, BlockOf(s), p)
  /\ s.pc = "object" => AtPage(s, BlockOf(s))
  /\ s.pc = "applied" => AtPage(s, BlockOf(s)) /\ Len(s.buf) < s.end

ReadersFit ==
  /\ readers \in [Readers -> ReaderSession]
  /\ \A r \in Readers : SessionFits(readers[r])

Sequence(x) == \E R : x \in Seq(R)

Replicates ==
  /\ Whole /\ Primary /\ Formatted
  /\ nResets = 0 /\ Sequence(xlog)
  /\ PositionFits /\ ReadersFit
  /\ \E H : Chain(H)

-----------------------------------------------------------------------------
(* Numbers, cells and pages.                                               *)

\* A set of numbers that is not empty has a least one.
LEMMA LeastNumber ==
  ASSUME NEW S \in SUBSET Nat, S # {}
  PROVE  \E n \in S : \A m \in S : n <= m
<1> DEFINE R == OpToRel(<, Nat)
<1>1. IsWellFoundedOn(R, Nat)
  BY NatLessThanWellFounded
<1> HIDE DEF R
<1>2. PICK n \in S : \A m \in S : <<m, n>> \notin R
  BY <1>1, WFMin
<1>3. \A m \in S : ~(m < n)
  BY <1>2 DEF R, OpToRel
<1> QED
  BY <1>3

\* Being older is an order of bytes.
LEMMA OlderOrder ==
  /\ \A c, d, e \in Cell : Older(c, d) /\ Older(d, e) => Older(c, e)
  /\ \A c, d \in Cell : ~(Older(c, d) /\ Older(d, c))
  /\ \A c, d \in Cell : Follows(c, d) => Older(c, d)
<1>1. \A c \in Cell : c.rec \in Nat /\ c.i \in Nat /\ c.n \in Nat
  BY DEF Cell
<1>2. ASSUME NEW c \in Cell, NEW d \in Cell, Follows(c, d)
      PROVE  Older(c, d)
  <2>1. CASE c.i < c.n
    <3>1. d = [c EXCEPT !.i = c.i + 1]
      BY <1>2, <2>1 DEF Follows
    <3>2. d.rec = c.rec /\ d.i = c.i + 1
      BY <3>1 DEF Cell
    <3> QED
      BY <1>1, <3>2 DEF Older
  <2>2. CASE ~(c.i < c.n)
    BY <1>1, <1>2, <2>2 DEF Follows, Older
  <2> QED
    BY <2>1, <2>2
<1> QED
  BY <1>1, <1>2 DEF Older

\* A run of bytes in order begins with a whole object, or with what there is
\* of it.
LEMMA IntactRun ==
  ASSUME NEW buf \in Seq(Cell), buf # <<>>, buf[1].i = 1,
         \A j \in 1..Len(buf) - 1 : Follows(buf[j], buf[j + 1])
  PROVE  Standby!Intact(buf)
<1> DEFINE a == Standby!Available(buf)
           bad == {j \in 1..a : buf[j] # [buf[1] EXCEPT !.i = j]}
<1>1. /\ Len(buf) \in Nat \ {0} /\ \A j \in 1..Len(buf) : buf[j] \in Cell
      /\ buf[1] \in Cell
  OBVIOUS
<1>2. a \in Nat /\ a <= Len(buf) /\ a <= buf[1].n
  BY <1>1 DEF Standby!Available, Cell
<1> HIDE DEF a
<1>3. SUFFICES ASSUME bad # {} PROVE FALSE
  BY DEF Standby!Intact, a
<1>4. PICK j \in bad : \A m \in bad : j <= m
  <2>1. bad \in SUBSET Nat
    BY <1>2
  <2> HIDE DEF bad
  <2> QED
    BY <1>3, <2>1, LeastNumber
<1>5. j \in 1..a /\ j \in 1..Len(buf)
  BY <1>2, <1>4
<1>6. j # 1
  BY <1>1, <1>4 DEF Cell
<1>7. j - 1 \in 1..a /\ j - 1 \in 1..Len(buf) - 1 /\ j - 1 + 1 = j
  BY <1>1, <1>2, <1>5, <1>6
<1>8. buf[j - 1] = [buf[1] EXCEPT !.i = j - 1]
  <2>1. j - 1 \notin bad
    <3> HIDE DEF bad
    <3> QED
      BY <1>2, <1>4, <1>5
  <2> QED
    BY <1>7, <2>1
<1>9. buf[j - 1].i = j - 1 /\ buf[j - 1].n = buf[1].n
  BY <1>1, <1>8 DEF Cell
<1>10. j - 1 < buf[1].n
  BY <1>1, <1>2, <1>5 DEF Cell
<1>11. Follows(buf[j - 1], buf[j])
  BY <1>7
<1>12. buf[j] = [buf[j - 1] EXCEPT !.i = j]
  BY <1>7, <1>9, <1>10, <1>11 DEF Follows
<1>13. buf[j] = [buf[1] EXCEPT !.i = j]
  BY <1>1, <1>8, <1>12 DEF Cell
<1> QED
  BY <1>4, <1>13

\* Where the newest byte of a ring is that a record leaves.
LEMMA FrozenTop ==
  ASSUME NEW m, NEW P, Frozen(m, P), P # <<>>,
         NEW top, top = Top(P, m)
  PROVE  /\ m.max \in Nat \ {0} /\ m.next \in Nat \ {0} /\ m.next < m.max
         /\ DOMAIN P = 1..(m.max - 1) /\ Len(P) = m.max - 1
         /\ m.next \in DOMAIN P
         /\ \A b \in DOMAIN P :
              /\ P[b] \in Page /\ P[b].init /\ P[b].data \in Seq(Cell)
              /\ Len(P[b].data) \in Nat
              /\ \A j \in 1..Len(P[b].data) : P[b].data[j] \in Cell
         /\ top = IF HasData(P, m.next) THEN m.next ELSE m.next - 1
         /\ \A b \in DOMAIN P \ {m.next} :
              /\ Succ(m, b) \in DOMAIN P
              /\ HasData(P, Succ(m, b)) =>
                   b # End(m, top) /\ Before(m, top, b, Succ(m, b))
<1>1. /\ m.max \in Nat \ {0} /\ m.next \in Nat \ {0} /\ m.next < m.max
      /\ DOMAIN P = 1..(m.max - 1) /\ Len(P) = m.max - 1
  BY DEF Frozen, MetaPage
<1>2. m.next \in DOMAIN P
  BY <1>1
<1>3. \A b \in DOMAIN P :
        /\ P[b] \in Page /\ P[b].init /\ P[b].data \in Seq(Cell)
        /\ Len(P[b].data) \in Nat
        /\ \A j \in 1..Len(P[b].data) : P[b].data[j] \in Cell
  BY PageCells DEF Frozen
<1>4. top = IF HasData(P, m.next) THEN m.next ELSE m.next - 1
  <2>1. FreeSize(P[m.next]) > 0
    BY <1>2, <1>3, PagesAssumption DEF Frozen, FreeSize
  <2> QED
    BY <2>1 DEF Top
<1>5. ASSUME NEW b \in DOMAIN P \ {m.next}
      PROVE  /\ Succ(m, b) \in DOMAIN P
             /\ HasData(P, Succ(m, b)) =>
                  b # End(m, top) /\ Before(m, top, b, Succ(m, b))
  <2>1. b \in Nat \ {0} /\ b < m.max /\ b # m.next
    BY <1>1
  <2>2. Succ(m, b) \in DOMAIN P
    BY <1>1, <2>1 DEF Succ
  <2>3. ASSUME HasData(P, Succ(m, b)) PROVE b # End(m, top)
    <3>1. CASE HasData(P, m.next)
      BY <1>1, <1>4, <2>1, <3>1 DEF End
    <3>2. CASE ~HasData(P, m.next)
      <4>1. Succ(m, b) # m.next
        BY <2>3, <3>2
      <4> QED
        BY <1>1, <1>4, <2>1, <3>2, <4>1 DEF End, Succ
    <3> QED
      BY <3>1, <3>2
  <2>4. ASSUME b # End(m, top) PROVE Before(m, top, b, Succ(m, b))
    BY <1>1, <1>4, <2>1, <2>4 DEF End, Succ, Before
  <2> QED
    BY <2>2, <2>3, <2>4
<1> QED
  BY <1>1, <1>2, <1>3, <1>4, <1>5

\* The ring a record leaves: one page follows the other up to the page next.
LEMMA FrozenRing ==
  ASSUME NEW m, NEW P, Frozen(m, P), P # <<>>
  PROVE  /\ DOMAIN P = 1..(m.max - 1) /\ m.next \in DOMAIN P
         /\ m.max \in Nat /\ m.next \in Nat /\ Len(P) = m.max - 1
         /\ \A b \in DOMAIN P :
              /\ P[b] \in Page /\ P[b].init
              /\ P[b].data \in Seq(Cell)
              /\ \A j \in 1..Len(P[b].data) - 1 :
                   Follows(P[b].data[j], P[b].data[j + 1])
              /\ ~HasData(P, b) => b = m.next
         /\ \A b \in DOMAIN P \ {m.next} :
              /\ Succ(m, b) \in DOMAIN P
              /\ HasData(P, Succ(m, b)) =>
                   /\ Follows(LastCell(P[b]), FirstCell(P[Succ(m, b)]))
                   /\ OlderPage(P[b], P[Succ(m, b)])
<1>1. PICK top : top = Top(P, m)
  OBVIOUS
<1>2. /\ m.max \in Nat \ {0} /\ m.next \in Nat \ {0} /\ m.next < m.max
      /\ DOMAIN P = 1..(m.max - 1) /\ Len(P) = m.max - 1
      /\ m.next \in DOMAIN P
  BY <1>1, FrozenTop
<1>3. \A b \in DOMAIN P :
        /\ P[b] \in Page /\ P[b].init /\ P[b].data \in Seq(Cell)
        /\ Len(P[b].data) \in Nat
        /\ \A j \in 1..Len(P[b].data) : P[b].data[j] \in Cell
  BY <1>1, FrozenTop
<1>4. ASSUME NEW b \in DOMAIN P, ~HasData(P, b) PROVE b = m.next
  <2>1. Len(P[b].data) # PageSize
    BY <1>4, <1>3, PagesAssumption DEF HasData
  <2> QED
    BY <2>1 DEF Frozen
<1>5. ASSUME NEW b \in DOMAIN P, NEW j \in 1..Len(P[b].data) - 1
      PROVE  Follows(P[b].data[j], P[b].data[j + 1])
  <2>1. Joined(P[b].data[j], P[b].data[j + 1])
    BY DEF Frozen, Ring, Within
  <2>2. j \in 1..Len(P[b].data)
    BY <1>3
  <2>3. FitsOneRecord(P[b].data[j].n)
    BY <2>2 DEF Frozen, Huge
  <2> QED
    BY <2>1, <2>3 DEF Joined
<1>6. ASSUME NEW b \in DOMAIN P \ {m.next}
      PROVE  /\ Succ(m, b) \in DOMAIN P
             /\ HasData(P, Succ(m, b)) =>
                  b # End(m, top) /\ Before(m, top, b, Succ(m, b))
  BY <1>1, FrozenTop
<1>7. ASSUME NEW b \in DOMAIN P \ {m.next}, HasData(P, Succ(m, b))
      PROVE  /\ Follows(LastCell(P[b]), FirstCell(P[Succ(m, b)]))
             /\ OlderPage(P[b], P[Succ(m, b)])
  <2>1. /\ b # End(m, top) /\ Before(m, top, b, Succ(m, b))
        /\ Succ(m, b) \in DOMAIN P /\ b < m.max
    BY <1>2, <1>6, <1>7
  <2>2. HasData(P, b)
    BY <1>4
  <2>3. Joined(LastCell(P[b]), FirstCell(P[Succ(m, b)]))
    BY <1>1, <1>7, <2>1, <2>2 DEF Frozen, Ring, Linked
  <2>4. FitsOneRecord(LastCell(P[b]).n)
    BY <1>3, <2>2 DEF Frozen, Huge, LastCell, HasData
  <2> QED
    BY <1>1, <2>1, <2>3, <2>4 DEF Joined, Frozen, Ring, Sorted
<1> QED
  BY <1>2, <1>3, <1>4, <1>5, <1>6, <1>7

-----------------------------------------------------------------------------
(* The pages written since a block began.                                  *)

Paged(P) == \A b \in DOMAIN P : P[b] \in Page

\* What the cells of a page are.
LEMMA PagedCells ==
  ASSUME NEW P, Paged(P)
  PROVE  \A b \in DOMAIN P :
           /\ Len(P[b].data) \in Nat
           /\ \A j \in 1..Len(P[b].data) : P[b].data[j] \in Cell
BY PageCells DEF Paged

\* A page that is extended begins with the same byte.
LEMMA ExtendsFirst ==
  ASSUME NEW P, NEW Q, Paged(P), Paged(Q), NEW b \in DOMAIN P, b \in DOMAIN Q,
         HasData(P, b), Extends(P[b], Q[b])
  PROVE  /\ HasData(Q, b) /\ FirstCell(Q[b]) = FirstCell(P[b])
         /\ FirstCell(P[b]) \in Cell
<1>1. Len(P[b].data) \in Nat /\ Len(Q[b].data) \in Nat
  BY PagedCells
<1>2. 1 \in 1..Len(P[b].data)
  BY <1>1 DEF HasData
<1>3. P[b].data[1] \in Cell
  BY <1>2, PagedCells
<1> QED
  BY <1>1, <1>2, <1>3 DEF HasData, Extends, FirstCell

\* A page that has more at its end twice has more at its end.
LEMMA ExtendsTrans ==
  ASSUME NEW p \in Page, NEW q \in Page, NEW r \in Page,
         Extends(p, q), Extends(q, r)
  PROVE  Extends(p, r)
<1>1. Len(p.data) \in Nat /\ Len(q.data) \in Nat /\ Len(r.data) \in Nat
  BY PageCells
<1> QED
  BY <1>1 DEF Extends

\* What is carried along stays so while pages grow and the oldest go.
LEMMA CarriedOn ==
  ASSUME NEW P, NEW Q, NEW R, NEW s, Paged(P), Paged(Q), Paged(R),
         Carried(P, Q, s),
         \A b \in DOMAIN Q :
           /\ b \in DOMAIN R
           /\ \/ Extends(Q[b], R[b])
              \/ /\ HasData(Q, b) /\ b # s
                 /\ \A o \in DOMAIN Q \ {b} : OlderPage(Q[b], Q[o])
  PROVE  Carried(P, R, s)
<1> SUFFICES ASSUME NEW b \in Arc(P, s)
             PROVE  b \in DOMAIN R /\ Extends(P[b], R[b])
  BY DEF Carried
<1>1. /\ b \in DOMAIN P /\ HasData(P, b)
      /\ s \in DOMAIN P /\ HasData(P, s) /\ s \in Arc(P, s)
      /\ b = s \/ Older(FirstCell(P[s]), FirstCell(P[b]))
  BY DEF Arc, HasData
<1>2. /\ b \in DOMAIN Q /\ Extends(P[b], Q[b])
      /\ s \in DOMAIN Q /\ Extends(P[s], Q[s])
  BY <1>1 DEF Carried
<1>3. b \in DOMAIN R
  BY <1>2
<1>4. Extends(Q[b], R[b])
  <2> SUFFICES ASSUME HasData(Q, b), b # s, OlderPage(Q[b], Q[s])
               PROVE  FALSE
    BY <1>2
  <2>1. /\ FirstCell(Q[b]) = FirstCell(P[b]) /\ FirstCell(P[b]) \in Cell
        /\ FirstCell(Q[s]) = FirstCell(P[s]) /\ FirstCell(P[s]) \in Cell
        /\ HasData(Q, s)
    BY <1>1, <1>2, ExtendsFirst
  <2>2. 1 \in 1..Len(Q[b].data) /\ 1 \in 1..Len(Q[s].data)
    BY <1>2, <2>1, PagedCells DEF HasData
  <2>3. Older(FirstCell(Q[b]), FirstCell(Q[s]))
    BY <2>2 DEF OlderPage, FirstCell
  <2> QED
    BY <1>1, <2>1, <2>3, OlderOrder
<1>5. P[b] \in Page /\ Q[b] \in Page /\ R[b] \in Page
  BY <1>1, <1>2, <1>3 DEF Paged
<1> QED
  BY <1>2, <1>3, <1>4, <1>5, ExtendsTrans

\* As the position goes on, fewer pages have to be carried along.
LEMMA CarriedMoves ==
  ASSUME NEW O, NEW P, NEW Q, NEW s, NEW t, Paged(O), Paged(P),
         t \in Arc(O, s), Carried(O, P, s), Carried(P, Q, s)
  PROVE  Carried(P, Q, t)
<1>1. /\ t \in DOMAIN O /\ HasData(O, t)
      /\ s \in DOMAIN O /\ HasData(O, s) /\ s \in Arc(O, s)
      /\ t = s \/ Older(FirstCell(O[s]), FirstCell(O[t]))
  BY DEF Arc, HasData
<1>2. /\ t \in DOMAIN P /\ Extends(O[t], P[t])
      /\ s \in DOMAIN P /\ Extends(O[s], P[s])
  BY <1>1 DEF Carried
<1>3. /\ HasData(P, t) /\ FirstCell(P[t]) = FirstCell(O[t]) /\ FirstCell(P[t]) \in Cell
      /\ HasData(P, s) /\ FirstCell(P[s]) = FirstCell(O[s]) /\ FirstCell(P[s]) \in Cell
  BY <1>1, <1>2, ExtendsFirst
<1>4. Arc(P, t) \subseteq Arc(P, s)
  <2> SUFFICES ASSUME NEW b \in Arc(P, t) PROVE b \in Arc(P, s)
    OBVIOUS
  <2>1. b \in DOMAIN P /\ HasData(P, b) /\ Extends(P[b], P[b])
    BY ExtendsSame DEF Arc, Paged
  <2>2. FirstCell(P[b]) \in Cell
    BY <2>1, ExtendsFirst
  <2>3. b = t \/ Older(FirstCell(P[t]), FirstCell(P[b]))
    BY DEF Arc
  <2>4. b = s \/ Older(FirstCell(P[s]), FirstCell(P[b]))
    BY <1>1, <1>3, <2>2, <2>3, OlderOrder
  <2> QED
    BY <1>3, <2>1, <2>4 DEF Arc
<1> QED
  BY <1>4 DEF Carried

-----------------------------------------------------------------------------
(* The records on their way.                                               *)

\* What a chain says of the pages in it.
LEMMA ChainPages ==
  ASSUME NEW H, Chain(H), Sequence(xlog)
  PROVE  /\ Len(xlog) \in Nat /\ DOMAIN H = 1..Len(xlog) + 1
         /\ 1 \in DOMAIN H /\ Len(xlog) + 1 \in DOMAIN H
         /\ \A k \in DOMAIN H :
              Frozen(H[k].meta, H[k].pages) /\ Paged(H[k].pages)
         /\ Frozen(smeta, spages)
<1>1. Len(xlog) \in Nat
  BY DEF Sequence
<1>2. DOMAIN H = 1..Len(xlog) + 1
  BY DEF Chain
<1>3. \A k \in DOMAIN H : Frozen(H[k].meta, H[k].pages)
  BY DEF Chain, Snapshot
<1>4. \A k \in DOMAIN H : Paged(H[k].pages)
  BY <1>3 DEF Frozen, Fit, Paged
<1>5. 1 \in DOMAIN H /\ Len(xlog) + 1 \in DOMAIN H
  BY <1>1, <1>2
<1>6. Frozen(smeta, spages)
  <2>1. Frozen(H[1].meta, H[1].pages)
    BY <1>3, <1>5
  <2> QED
    BY <2>1 DEF Chain
<1> QED
  BY <1>1, <1>2, <1>3, <1>4, <1>5, <1>6

\* A step of the primary that publishes nothing.
LEMMA ChainQuiet ==
  ASSUME Whole, Whole', Sequence(xlog), NEW H, Chain(H), QuietStep,
         UNCHANGED standby
  PROVE  Chain(H)'
<1>1. /\ log' = log /\ xlog' = xlog /\ meta' = meta
      /\ smeta' = smeta /\ spages' = spages /\ spos' = spos
      /\ StartBlock' = StartBlock
  BY DEF QuietStep, standby, StartBlock, Standby!StartBlock
<1>2. /\ Len(xlog) \in Nat /\ DOMAIN H = 1..Len(xlog) + 1
      /\ \A k \in DOMAIN H : Paged(H[k].pages)
      /\ Len(xlog) + 1 \in DOMAIN H
  BY ChainPages
<1>3. Shows(H[Len(xlog) + 1])'
  BY <1>1 DEF Chain, Shows, QuietStep
<1>4. \A k \in DOMAIN H : Snapshot(H[k])'
  BY <1>1 DEF Chain, Snapshot, Told
<1>5. Paged(Seen) /\ Paged(Seen')
  <2>1. Types /\ Types'
    BY DEF Whole
  <2>2. /\ \A b \in DOMAIN pages' : pages'[b] \in Page
        /\ \A b \in DOMAIN image' : image'[b] \in Page
    <3>1. /\ pages' \in Seq(Page)
          /\ \A b \in DOMAIN image' : image'[b] \in Page
      BY <2>1 DEF Types, TypeOK
    <3> QED
      BY <3>1
  <2>3. Paged(Seen')
    BY <2>2 DEF Paged, Seen, View
  <2> QED
    BY <2>1, <2>3, SeenPages DEF Paged
<1>6. ASSUME NEW j \in DOMAIN H
      PROVE  Carried(H[j].pages, Seen', StartBlock)
  <2>1. Carried(H[j].pages, Seen, StartBlock)
    BY DEF Chain
  <2>2. CASE Seen' = pages
    <3>1. j <= Len(xlog) + 1
      BY <1>2
    <3>2. Carried(H[j].pages, H[Len(xlog) + 1].pages, StartBlock)
      BY <1>2, <3>1 DEF Chain
    <3>3. \A b \in DOMAIN H[Len(xlog) + 1].pages :
            b \in DOMAIN pages /\ H[Len(xlog) + 1].pages[b] = pages[b]
      BY DEF Chain, Shows, Initialised
    <3> QED
      BY <2>2, <3>2, <3>3 DEF Carried
  <2>3. CASE \A b \in DOMAIN Seen :
               /\ b \in DOMAIN Seen'
               /\ Extends(Seen[b], Seen'[b]) \/ MayGo(Seen, b)
    <3>1. \A b \in DOMAIN Seen :
           /\ b \in DOMAIN Seen'
           /\ \/ Extends(Seen[b], Seen'[b])
              \/ /\ HasData(Seen, b) /\ b # StartBlock
                 /\ \A o \in DOMAIN Seen \ {b} : OlderPage(Seen[b], Seen[o])
      BY <2>3 DEF MayGo, StartBlock
    <3> QED
      BY <1>2, <1>5, <2>1, <3>1, CarriedOn
  <2> QED
    BY <2>2, <2>3 DEF QuietStep
<1>7. \A k \in 1..Len(xlog) : Brings(xlog[k], H[k], H[k + 1])
  BY DEF Chain
<1>8. \A j, k \in DOMAIN H :
        j <= k => Carried(H[j].pages, H[k].pages, StartBlock)
  BY DEF Chain
<1>9. H[1].meta = smeta /\ H[1].pages = spages
  BY DEF Chain
<1> QED
  BY <1>1, <1>2, <1>3, <1>4, <1>6, <1>7, <1>8, <1>9 DEF Chain

\* A ring without the pages that nobody has initialised.
LEMMA RestrictedRing ==
  ASSUME NEW P, NEW Q, NEW m, Fit(P), Ring(P, m, Top(P, m)),
         DOMAIN Q \subseteq DOMAIN P, \A b \in DOMAIN Q : Q[b] = P[b],
         \A b \in DOMAIN P \ DOMAIN Q : ~HasData(P, b)
  PROVE  /\ Fit(Q) /\ Ring(Q, m, Top(Q, m))
         /\ \A b : HasData(Q, b) <=> HasData(P, b)
<1>1. \A b : HasData(Q, b) <=> HasData(P, b)
  BY DEF HasData
<1>2. Fit(Q)
  BY DEF Fit
<1>3. Top(Q, m) = Top(P, m)
  <2>1. HasData(P, m.next) => m.next \in DOMAIN Q /\ Q[m.next] = P[m.next]
    BY <1>1 DEF HasData
  <2> QED
    BY <1>1, <2>1 DEF Top
<1> DEFINE top == Top(P, m)
<1> HIDE DEF top
<1>4. Within(Q)
  BY DEF Ring, Within
<1>5. Linked(Q, m, top)
  BY <1>1 DEF Ring, Linked, top
<1>6. Sorted(Q, m, top)
  BY DEF Ring, Sorted, top
<1>7. NotAlone(Q, m, top)
  BY <1>1 DEF Ring, NotAlone, top
<1> QED
  BY <1>1, <1>2, <1>3, <1>4, <1>5, <1>6, <1>7 DEF Ring, top

\* What a reader of the primary would see, and that it is a ring once an
\* object has been published.
Shown == [b \in Initialised(pages) |-> pages[b]]

ShownFits ==
  /\ Frozen(meta, Shown) /\ Shown # <<>>
  /\ Among(Shown, Told(Len(log))) /\ NoneMissing(Shown, Told(Len(log)))

\* What everybody sees of the primary's pages is as a record leaves them.
LEMMA ShownIsFrozen == KeepsPace /\ Whole /\ Primary /\ log # <<>> => ShownFits
<1> SUFFICES ASSUME KeepsPace, Whole, Primary, log # <<>>
             PROVE  ShownFits
  OBVIOUS
<1> DEFINE n == meta.next
<1>1. /\ Fit(pages) /\ Ring(pages, meta, Top(pages, meta))
      /\ meta \in MetaPage /\ meta.next < meta.max
  BY DEF Whole, StreamInv, Shared, Primary, RingFits, NoHole, Types, TypeOK
<1>2. /\ ~Huge(pages) /\ Among(pages, Range(log)) /\ NoneMissing(pages, Range(log))
      /\ Packed(pages, meta)
      /\ n \in Initialised(pages) /\ Len(pages[n].data) < PageSize
  BY DEF Primary, Published, Resting
<1>3. /\ DOMAIN Shown = 1..(meta.max - 1)
      /\ DOMAIN Shown = Initialised(pages)
      /\ \A b \in DOMAIN Shown : Shown[b] = pages[b] /\ b \in DOMAIN pages
  BY <1>2 DEF Packed, Shown, Initialised
<1>4. \A b \in DOMAIN pages \ DOMAIN Shown : ~HasData(pages, b)
  <2>1. \A b \in DOMAIN pages \ Initialised(pages) : Len(pages[b].data) = 0
    BY <1>1 DEF Initialised, Fit
  <2>2. DOMAIN Shown = Initialised(pages)
    BY <1>3
  <2> HIDE DEF Shown
  <2>3. \A b \in DOMAIN pages \ DOMAIN Shown : Len(pages[b].data) = 0
    BY <2>1, <2>2
  <2> QED
    BY <2>3 DEF HasData
<1>5. /\ Fit(Shown) /\ Ring(Shown, meta, Top(Shown, meta))
      /\ \A b : HasData(Shown, b) <=> HasData(pages, b)
  BY <1>1, <1>3, <1>4, RestrictedRing
<1>6. meta.max - 1 \in Nat \ {0} /\ meta.max \in Nat
  BY <1>1 DEF MetaPage
<1>7. Shown \in Seq(Page) /\ Len(Shown) = meta.max - 1
  <2>1. \A b \in 1..(meta.max - 1) : Shown[b] \in Page
    BY <1>1, <1>3 DEF Fit
  <2>2. Shown = [b \in 1..(meta.max - 1) |-> Shown[b]]
    BY <1>3 DEF Shown
  <2> HIDE DEF Shown
  <2>3. Shown \in [1..(meta.max - 1) -> Page]
    BY <2>1, <2>2
  <2> QED
    BY <1>6, <2>3
<1>8. ~Huge(Shown)
  BY <1>2, <1>3 DEF Huge
<1>9. /\ \A b \in DOMAIN Shown : Shown[b].init
      /\ \A b \in DOMAIN Shown \ {n} : Len(Shown[b].data) = PageSize
      /\ Len(Shown[n].data) < PageSize
  BY <1>2, <1>3 DEF Packed, Initialised
<1>10. Told(Len(log)) = Range(log)
  BY DEF Told, Range, Primary, LogFits
<1>11. Among(Shown, Range(log))
  BY <1>2, <1>3 DEF Among
<1>12. NoneMissing(Shown, Range(log))
  <2>1. \A x : Holds(pages, x) => Holds(Shown, x)
    <3> SUFFICES ASSUME NEW x, NEW b \in DOMAIN pages,
                        NEW j \in 1..Len(pages[b].data), pages[b].data[j].rec = x
                 PROVE  Holds(Shown, x)
      BY DEF Holds
    <3>1. HasData(pages, b)
      BY <1>1, FitCells DEF HasData
    <3>2. b \in DOMAIN Shown
      BY <1>4, <3>1
    <3> QED
      BY <1>3, <3>2 DEF Holds
  <2> QED
    BY <1>2, <1>3, <2>1 DEF NoneMissing
<1>13. Shown # <<>>
  BY <1>6, <1>7
<1> QED
  BY <1>1, <1>5, <1>7, <1>8, <1>9, <1>10, <1>11, <1>12, <1>13
  DEF ShownFits, Frozen

\* The objects a snapshot knows of stay when one more is published.
LEMMA SnapshotStays ==
  ASSUME NEW h, Snapshot(h), log \in Seq(Nat \ {0}), NEW x,
         log' = Append(log, x), spos' = spos
  PROVE  Snapshot(h)'
<1>1. /\ Len(log) \in Nat /\ Len(log') = Len(log) + 1
      /\ \A i \in 1..Len(log) : log'[i] = log[i]
  OBVIOUS
<1>2. h.n \in 0..Len(log) /\ h.n \in 0..Len(log')
  BY <1>1 DEF Snapshot
<1>3. Told(h.n)' = Told(h.n)
  BY <1>1, <1>2 DEF Told
<1>4. ASSUME h.pages # <<>> PROVE log' # <<>> /\ log'[1] = log[1]
  <2>1. log # <<>>
    BY <1>4 DEF Snapshot
  <2> QED
    BY <1>1, <2>1
<1> QED
  BY <1>2, <1>3, <1>4 DEF Snapshot

\* A step of the primary that publishes an object.
LEMMA ChainPublish ==
  ASSUME KeepsPace, Whole, Whole', Primary, Primary', Formatted,
         Sequence(xlog), NEW H, Chain(H), PublishStep, UNCHANGED standby
  PROVE  (\E G : Chain(G))'
<1> DEFINE L == Len(xlog)
           last == H[L + 1]
<1>1. /\ pages' = Seen /\ meta' = wmeta /\ image' = NoImage
      /\ log' = Append(log, obj.rec) /\ xlog' = Append(xlog, LastRecord)
      /\ smeta' = smeta /\ spages' = spages /\ spos' = spos
      /\ StartBlock' = StartBlock
      /\ InSession /\ Begun /\ obj.rest = 0
  BY PublishSeen
  DEF PublishStep, Finish, standby, StartBlock, Standby!StartBlock, InSession,
      Begun, Whole, StreamInv, Session
<1>2. /\ L \in Nat /\ DOMAIN H = 1..L + 1
      /\ \A k \in DOMAIN H : Paged(H[k].pages)
      /\ L + 1 \in DOMAIN H /\ 1 \in DOMAIN H
  BY ChainPages
<1>3. /\ Len(xlog') = L + 1 /\ xlog'[L + 1] = LastRecord
      /\ \A k \in 1..L : xlog'[k] = xlog[k]
  BY <1>1 DEF Sequence
<1>4. log \in Seq(Nat \ {0}) /\ log' # <<>> /\ Len(log') \in Nat
  BY <1>1 DEF Primary, LogFits
<1>5. ShownFits'
  <2>1. (KeepsPace /\ Whole /\ Primary /\ log # <<>> => ShownFits)'
    BY ShownIsFrozen, PTL
  <2> QED
    BY <1>4, <2>1 DEF KeepsPace
<1>6. PICK P : P = Shown'
  OBVIOUS
<1>7. PICK h : h = [meta |-> wmeta, pages |-> P, n |-> Len(log')]
  OBVIOUS
<1>8. /\ DOMAIN P = Initialised(Seen)
      /\ \A b \in DOMAIN P : P[b] = Seen[b] /\ b \in DOMAIN Seen
  BY <1>1, <1>6 DEF Shown, Initialised
<1>9. h.meta = wmeta /\ h.pages = P /\ h.n = Len(log')
  BY <1>7
<1>10. Shows(h)'
  BY <1>1, <1>8, <1>9 DEF Shows
<1>11. DOMAIN Seen = DOMAIN pages /\ Paged(Seen) /\ Seen' = pages'
       /\ DOMAIN image \subseteq DOMAIN Seen
       /\ \A b \in DOMAIN Seen :
            Seen[b] = IF b \in DOMAIN image THEN image[b] ELSE pages[b]
  <2>1. DOMAIN Seen = DOMAIN pages /\ Paged(Seen) /\ DOMAIN image \subseteq DOMAIN Seen
    BY SeenFacts, SeenPages DEF Whole, Paged, Types, TypeOK
  <2>2. \A b \in DOMAIN Seen :
          Seen[b] = IF b \in DOMAIN image THEN image[b] ELSE pages[b]
    BY SeenFacts DEF View, Whole
  <2>3. Seen' = [b \in DOMAIN pages' |-> pages'[b]]
    BY <1>1 DEF Seen, View, NoImage
  <2>4. pages' = [b \in DOMAIN pages' |-> pages'[b]]
    BY DEF Whole, Types, TypeOK
  <2> QED
    BY <2>1, <2>2, <2>3, <2>4
<1>12. Brings(LastRecord, last, h)
  <2>1. Shows(last)
    BY DEF Chain
  <2>2. DOMAIN last.pages = Initialised(pages)
        /\ \A b \in Initialised(pages) : last.pages[b] = pages[b]
    BY <2>1 DEF Shows
  <2>3. Initialised(Seen) = Initialised(pages) \cup DOMAIN image
    <3> SUFFICES ASSUME NEW b
                 PROVE  b \in Initialised(Seen) <=>
                          b \in Initialised(pages) \/ b \in DOMAIN image
      OBVIOUS
    <3>1. CASE b \in DOMAIN image
      BY <1>11, <3>1 DEF Initialised, Formatted
    <3>2. CASE b \notin DOMAIN image
      BY <1>11, <3>2 DEF Initialised
    <3> QED
      BY <3>1, <3>2
  <2>4. LastRecord.meta = <<wmeta>> /\ LastRecord.image = image
    BY DEF LastRecord
  <2>5. P # <<>>
    BY <1>5, <1>6 DEF ShownFits
  <2>6. \A b \in DOMAIN P :
          P[b] = IF b \in DOMAIN image THEN image[b] ELSE last.pages[b]
    BY <1>8, <1>11, <2>2, <2>3
  <2> HIDE DEF last
  <2> QED
    BY <1>8, <1>9, <2>2, <2>3, <2>4, <2>5, <2>6 DEF Brings
<1>13. Carried(P, P, StartBlock) /\ Carried(P, Seen, StartBlock)
  <2>1. \A b \in DOMAIN P : P[b] \in Page
    BY <1>8, <1>11 DEF Paged
  <2>2. \A b \in DOMAIN P : Extends(P[b], P[b])
    BY <2>1, ExtendsSame
  <2> QED
    BY <1>8, <2>2 DEF Carried, Arc
<1>14. ASSUME NEW j \in DOMAIN H
       PROVE  /\ Carried(H[j].pages, P, StartBlock)
              /\ Carried(H[j].pages, Seen, StartBlock)
  <2>1. Carried(H[j].pages, Seen, StartBlock)
    BY DEF Chain
  <2>2. ASSUME NEW b \in Arc(H[j].pages, StartBlock)
        PROVE  b \in DOMAIN P /\ Extends(H[j].pages[b], P[b])
    <3>1. /\ b \in DOMAIN H[j].pages /\ HasData(H[j].pages, b)
          /\ b \in DOMAIN Seen /\ Extends(H[j].pages[b], Seen[b])
      BY <2>1 DEF Carried, Arc
    <3>2. HasData(Seen, b)
      BY <1>2, <1>11, <3>1, ExtendsFirst
    <3>3. Fit(Seen)
      BY <1>1 DEF Whole, StreamInv, Session, RingFits
    <3>4. b \in Initialised(Seen)
      BY <3>1, <3>2, <3>3 DEF Fit, HasData, Initialised
    <3> QED
      BY <1>8, <3>1, <3>4
  <2> QED
    BY <2>1, <2>2 DEF Carried
<1>15. ASSUME spos.block = 0 PROVE BeginsWith(P, log'[1])
  <2>1. CASE log = <<>>
    <3>1. Opening /\ obj.rest # obj.n
      BY <1>1, <2>1 DEF Primary, Writing, Whole, StreamInv, Session
    <3>2. BeginsWith(Seen, obj.rec)
      BY <3>1 DEF Opening, PublishStep, Finish
    <3>3. HasData(Seen, 1) /\ Fit(Seen)
      BY <1>1, <3>2 DEF BeginsWith, Whole, StreamInv, Session, RingFits
    <3>4. 1 \in Initialised(Seen)
      BY <3>3 DEF Fit, HasData, Initialised
    <3>5. P[1] = Seen[1] /\ 1 \in DOMAIN P
      BY <1>8, <3>4
    <3>6. log'[1] = obj.rec
      BY <1>1, <2>1
    <3> QED
      BY <3>2, <3>3, <3>5, <3>6 DEF BeginsWith, HasData
  <2>2. CASE log # <<>>
    <3>1. last.pages # <<>>
      <4>1. meta.next \in Initialised(pages)
        BY <2>2 DEF Primary, Published, Resting
      <4>2. Initialised(pages) = DOMAIN last.pages
        BY DEF Chain, Shows
      <4> QED
        BY <4>1, <4>2
    <3>2. BeginsWith(last.pages, log[1])
      BY <1>2, <1>15, <3>1 DEF Chain, Snapshot
    <3>3. StartBlock = 1
      BY <1>15 DEF StartBlock, Standby!StartBlock, Standby!MetaBlock, Standby!FirstBlock
    <3>4. 1 \in Arc(last.pages, StartBlock)
      BY <3>2, <3>3 DEF BeginsWith, Arc, HasData
    <3>5. /\ 1 \in DOMAIN P /\ Extends(last.pages[1], P[1])
          /\ HasData(last.pages, 1) /\ Paged(last.pages)
          /\ 1 \in DOMAIN last.pages
      BY <1>2, <1>14, <3>2, <3>4 DEF Carried, BeginsWith, HasData
    <3>6. Paged(P)
      BY <1>8, <1>11 DEF Paged
    <3>7. HasData(P, 1) /\ FirstCell(P[1]) = FirstCell(last.pages[1])
      BY <3>5, <3>6, ExtendsFirst
    <3>8. log'[1] = log[1]
      BY <1>1, <1>4, <2>2
    <3> QED
      BY <3>2, <3>7, <3>8 DEF BeginsWith, FirstCell
  <2> QED
    BY <2>1, <2>2
<1>16. Snapshot(h)'
  <2>1. /\ Frozen(meta', P) /\ Among(P, Told(Len(log))')
        /\ NoneMissing(P, Told(Len(log))')
    BY <1>5, <1>6 DEF ShownFits
  <2>2. Told(h.n)' = Told(Len(log))'
    BY <1>9 DEF Told
  <2> QED
    BY <1>1, <1>4, <1>9, <1>15, <2>1, <2>2 DEF Snapshot
<1> HIDE DEF L
<1>17. PICK G : G = [k \in 1..(L + 1) + 1 |-> IF k = L + 2 THEN h ELSE H[k]]
  OBVIOUS
<1>18. /\ DOMAIN G = 1..(L + 1) + 1
       /\ \A k \in 1..L + 1 : G[k] = H[k]
       /\ G[(L + 1) + 1] = h
       /\ \A k \in DOMAIN G : k \in DOMAIN H \/ k = (L + 1) + 1
  BY <1>2, <1>17
<1>19. \A k \in DOMAIN G : Snapshot(G[k])'
  <2>1. \A k \in DOMAIN H : Snapshot(H[k])'
    BY <1>1, <1>4, SnapshotStays DEF Chain
  <2> QED
    BY <1>2, <1>16, <1>18, <2>1
<1>20. \A k \in 1..L + 1 : Brings(xlog'[k], G[k], G[k + 1])
  <2> SUFFICES ASSUME NEW k \in 1..L + 1
               PROVE  Brings(xlog'[k], G[k], G[k + 1])
    OBVIOUS
  <2>1. CASE k = L + 1
    BY <1>2, <1>3, <1>12, <1>18, <2>1 DEF L
  <2>2. CASE k # L + 1
    <3>1. k \in 1..L /\ k + 1 \in 1..L + 1
      BY <1>2, <2>2
    <3>2. Brings(xlog[k], H[k], H[k + 1])
      BY <3>1 DEF Chain, L
    <3> QED
      BY <1>3, <1>18, <3>1, <3>2 DEF L
  <2> QED
    BY <2>1, <2>2
<1>21. \A j, k \in DOMAIN G :
         j <= k => Carried(G[j].pages, G[k].pages, StartBlock)
  <2> SUFFICES ASSUME NEW j \in DOMAIN G, NEW k \in DOMAIN G, j <= k
               PROVE  Carried(G[j].pages, G[k].pages, StartBlock)
    OBVIOUS
  <2>1. CASE k \in DOMAIN H
    <3>1. j \in DOMAIN H
      BY <1>2, <1>18, <2>1
    <3> QED
      BY <1>2, <1>18, <2>1, <3>1 DEF Chain
  <2>2. CASE k \notin DOMAIN H
    BY <1>2, <1>9, <1>13, <1>14, <1>18, <2>2
  <2> QED
    BY <2>1, <2>2
<1>22. \A j \in DOMAIN G : Carried(G[j].pages, Seen', StartBlock)
  BY <1>1, <1>2, <1>9, <1>11, <1>13, <1>14, <1>18
<1>23. G[1].meta = smeta /\ G[1].pages = spages
  BY <1>2, <1>18 DEF Chain
<1> QED
  BY <1>1, <1>3, <1>10, <1>18, <1>19, <1>20, <1>21, <1>22, <1>23 DEF Chain, L

\* The greatest of a set of numbers.
LEMMA MaxIs ==
  ASSUME NEW S \in SUBSET Nat, NEW x \in S, \A y \in S : y <= x
  PROVE  Max(S) = x
<1>1. x >= x /\ \A y \in S : x >= y
  OBVIOUS
<1>2. \A z \in S : (\A y \in S : z >= y) => z = x
  OBVIOUS
<1> QED
  BY <1>1, <1>2, Zenon DEF Max

\* What a replayed record makes of the standby's pages.
LEMMA ReplayEffect ==
  ASSUME Sequence(xlog), NEW H, Chain(H), Replay
  PROVE  /\ xlog' = Tail(xlog) /\ Len(xlog) > 0 /\ Standby!Consuming = {}
         /\ smeta' = H[2].meta /\ spages' = H[2].pages
         /\ UNCHANGED <<vars, spos, sdb, readers, log, nResets>>
<1> DEFINE record == Head(xlog)
           Q == H[2].pages
<1>1. xlog # <<>> /\ Len(xlog) \in Nat \ {0} /\ record = xlog[1]
  BY DEF Sequence, Replay
<1>2. /\ 1 \in DOMAIN H /\ 2 \in DOMAIN H
      /\ Brings(record, H[1], H[2])
      /\ Frozen(H[2].meta, Q)
      /\ H[1].pages = spages
  <2>1. 1 \in 1..Len(xlog) /\ 2 \in 1..Len(xlog) + 1
    BY <1>1
  <2>2. Brings(xlog[1], H[1], H[1 + 1])
    BY <2>1 DEF Chain
  <2>3. 1 \in DOMAIN H /\ 2 \in DOMAIN H /\ Frozen(H[2].meta, Q)
    BY <2>1, ChainPages
  <2>4. H[1].pages = spages
    BY DEF Chain
  <2> QED
    BY <1>1, <2>2, <2>3, <2>4
<1>3. Frozen(smeta, spages)
  BY ChainPages
<1> HIDE DEF Q, record
<1>4. /\ record.meta = <<H[2].meta>> /\ Q # <<>>
      /\ DOMAIN Q = DOMAIN spages \cup DOMAIN record.image
      /\ \A b \in DOMAIN Q :
           Q[b] = IF b \in DOMAIN record.image THEN record.image[b]
                  ELSE spages[b]
  BY <1>2 DEF Brings, Q
<1>5. record.meta # <<>> /\ record.meta[1] = H[2].meta
  BY <1>4
<1>6. Standby!Consuming = {} /\ smeta' = H[2].meta
  BY <1>5 DEF Replay, record
<1>7. /\ Q \in Seq(Page) /\ spages \in Seq(Page)
      /\ DOMAIN Q = 1..Len(Q) /\ DOMAIN spages = 1..Len(spages)
      /\ Len(Q) \in Nat /\ Len(spages) \in Nat
  BY <1>2, <1>3 DEF Frozen
<1>8. Max({Len(spages)} \cup DOMAIN record.image) = Len(Q)
  <2> DEFINE S == {Len(spages)} \cup DOMAIN record.image
  <2>1. DOMAIN record.image \subseteq 1..Len(Q)
    BY <1>4, <1>7
  <2>2. Len(spages) <= Len(Q)
    <3>1. CASE Len(spages) = 0
      BY <1>7, <3>1
    <3>2. CASE Len(spages) # 0
      <4>1. Len(spages) \in DOMAIN Q
        BY <1>4, <1>7, <3>2
      <4> QED
        BY <1>7, <4>1
    <3> QED
      BY <3>1, <3>2
  <2>3. Len(Q) \in S
    <3>1. Len(Q) \in DOMAIN Q
      BY <1>4, <1>7
    <3>2. ASSUME Len(Q) \in DOMAIN spages PROVE Len(Q) = Len(spages)
      <4>1. Len(Q) <= Len(spages)
        BY <1>7, <3>2
      <4>2. Len(Q) \in Nat /\ Len(spages) \in Nat
        BY <1>7
      <4> QED
        BY <2>2, <4>1, <4>2
    <3> QED
      BY <1>4, <3>1, <3>2
  <2>4. S \in SUBSET Nat /\ \A y \in S : y <= Len(Q)
    BY <1>7, <2>1, <2>2
  <2> HIDE DEF S
  <2>5. Max(S) = Len(Q)
    BY <1>7, <2>3, <2>4, MaxIs
  <2> QED
    BY <2>5 DEF S
<1>9. spages' = [b \in 1..Len(Q) |->
                   IF b \in DOMAIN record.image THEN record.image[b]
                   ELSE IF b \in DOMAIN spages THEN spages[b] ELSE ZeroPage]
  BY <1>8 DEF Replay, record
<1>10. spages' = Q
  <2>1. Q = [b \in 1..Len(Q) |-> Q[b]]
    BY <1>7
  <2>2. \A b \in 1..Len(Q) :
          Q[b] = IF b \in DOMAIN record.image THEN record.image[b]
                 ELSE IF b \in DOMAIN spages THEN spages[b] ELSE ZeroPage
    BY <1>4, <1>7
  <2> QED
    BY <1>9, <2>1, <2>2
<1>11. /\ xlog' = Tail(xlog)
       /\ UNCHANGED <<vars, spos, sdb, readers, log, nResets>>
  BY DEF Replay
<1> QED
  BY <1>1, <1>6, <1>10, <1>11 DEF Q

\* The record that is replayed leaves a shorter chain, which starts at what it
\* leaves on the standby.
LEMMA ChainReplay ==
  ASSUME Whole, Sequence(xlog), NEW H, Chain(H), Replay
  PROVE  (\E G : Chain(G))'
<1>0. PICK L : L = Len(xlog)
  OBVIOUS
<1>1. /\ xlog' = Tail(xlog) /\ L > 0
      /\ smeta' = H[2].meta /\ spages' = H[2].pages
      /\ vars' = vars /\ spos' = spos /\ log' = log
  BY <1>0, ReplayEffect
<1>2. meta' = meta /\ pages' = pages /\ Seen' = Seen /\ StartBlock' = StartBlock
  BY <1>1 DEF vars, shared, session, Seen, View, StartBlock, Standby!StartBlock
<1>3. /\ Len(xlog') = L - 1 /\ L \in Nat
      /\ \A k \in 1..L - 1 : xlog'[k] = xlog[k + 1]
      /\ DOMAIN H = 1..L + 1
  BY <1>0, <1>1 DEF Sequence, Chain
<1>4. PICK G : G = [k \in 1..(L - 1) + 1 |-> H[k + 1]]
  OBVIOUS
<1>5. /\ DOMAIN G = 1..(L - 1) + 1
      /\ \A k \in DOMAIN G : G[k] = H[k + 1] /\ k + 1 \in DOMAIN H
      /\ G[1] = H[2] /\ G[(L - 1) + 1] = H[L + 1]
  BY <1>1, <1>3, <1>4
<1>6. Shows(G[(L - 1) + 1])'
  <2>1. Shows(H[L + 1])
    BY <1>0 DEF Chain
  <2> QED
    BY <1>2, <1>5, <2>1 DEF Shows
<1>7. \A k \in 1..L - 1 : Brings(xlog'[k], G[k], G[k + 1])
  <2> SUFFICES ASSUME NEW k \in 1..L - 1
               PROVE  Brings(xlog'[k], G[k], G[k + 1])
    OBVIOUS
  <2>1. k + 1 \in 1..L /\ k \in DOMAIN G /\ k + 1 \in DOMAIN G
    BY <1>3, <1>5
  <2>2. Brings(xlog[k + 1], H[k + 1], H[(k + 1) + 1])
    BY <1>0, <2>1 DEF Chain
  <2> QED
    BY <1>3, <1>5, <2>1, <2>2
<1>8. \A k \in DOMAIN G : Snapshot(G[k])'
  BY <1>1, <1>5 DEF Chain, Snapshot, Told
<1>9. \A j, k \in DOMAIN G :
        j <= k => Carried(G[j].pages, G[k].pages, StartBlock)
  <2>1. \A j, k \in DOMAIN G : j <= k => j + 1 <= k + 1
    BY <1>3, <1>5
  <2> QED
    BY <1>5, <2>1 DEF Chain
<1>10. \A j \in DOMAIN G : Carried(G[j].pages, Seen, StartBlock)
  BY <1>5 DEF Chain
<1>11. /\ DOMAIN G = 1..Len(xlog') + 1
       /\ G[1].meta = smeta' /\ G[1].pages = spages'
       /\ Shows(G[Len(xlog) + 1])'
       /\ \A k \in 1..Len(xlog') : Brings(xlog'[k], G[k], G[k + 1])
  BY <1>1, <1>3, <1>5, <1>6, <1>7
<1> QED
  BY <1>2, <1>8, <1>9, <1>10, <1>11 DEF Chain

\* The position is still at the end of an object when a record has been
\* replayed: its page is carried along.
LEMMA PositionReplay ==
  ASSUME Sequence(xlog), NEW H, Chain(H), Replay, PositionFits
  PROVE  PositionFits'
<1>1. /\ Len(xlog) > 0 /\ spages' = H[2].pages /\ spos' = spos
  BY ReplayEffect
<1>2. CASE spos.block = 0
  BY <1>1, <1>2 DEF PositionFits
<1>3. CASE spos.block # 0
  <2> DEFINE b == spos.block
  <2>1. b \in DOMAIN spages /\ EndsAt(spages[b], spos.offset) /\ StartBlock = b
    BY <1>3 DEF PositionFits, StartBlock, Standby!StartBlock, Standby!MetaBlock
  <2>2. /\ 1 \in DOMAIN H /\ 2 \in DOMAIN H /\ H[1].pages = spages
        /\ Paged(spages) /\ Paged(H[2].pages)
    <3>1. 1 \in DOMAIN H /\ 2 \in DOMAIN H
      BY <1>1, ChainPages
    <3> QED
      BY <3>1, ChainPages DEF Chain
  <2>3. Carried(spages, H[2].pages, StartBlock)
    BY <2>2 DEF Chain
  <2>4. Len(spages[b].data) \in Nat /\ spos.offset \in 1..Len(spages[b].data)
    BY <2>1, <2>2, PagedCells DEF EndsAt
  <2>5. b \in Arc(spages, StartBlock)
    BY <2>1, <2>4 DEF Arc, HasData
  <2>6. b \in DOMAIN H[2].pages /\ Extends(spages[b], H[2].pages[b])
    BY <2>3, <2>5 DEF Carried
  <2>7. EndsAt(H[2].pages[b], spos.offset)
    <3>1. /\ Len(spages[b].data) <= Len(H[2].pages[b].data)
          /\ H[2].pages[b].data[spos.offset] = spages[b].data[spos.offset]
      BY <2>4, <2>6 DEF Extends
    <3>2. Len(H[2].pages[b].data) \in Nat
      BY <2>2, <2>6, PagedCells
    <3>3. spos.offset \in 1..Len(H[2].pages[b].data)
      <4>1. PICK m \in Nat : m = Len(spages[b].data)
        BY <2>4
      <4>2. PICK n \in Nat : n = Len(H[2].pages[b].data)
        BY <3>2
      <4>3. spos.offset \in 1..m /\ m <= n
        BY <2>4, <3>1, <4>1, <4>2
      <4>4. spos.offset \in 1..n
        BY <4>3
      <4> QED
        BY <4>2, <4>4
    <3> QED
      BY <2>1, <3>1, <3>3 DEF EndsAt
  <2> QED
    BY <1>1, <1>3, <2>6, <2>7 DEF PositionFits
<1> QED
  BY <1>2, <1>3

\* A step of the standby that moves neither the position nor the pages.
LEMMA ChainSame ==
  ASSUME NEW H, Chain(H),
         UNCHANGED <<vars, xlog, smeta, spages, spos, log>>
  PROVE  Chain(H)'
<1>1. /\ meta' = meta /\ pages' = pages /\ Seen' = Seen
      /\ StartBlock' = StartBlock
      /\ xlog' = xlog /\ smeta' = smeta /\ spages' = spages /\ spos' = spos
      /\ log' = log
  BY DEF vars, shared, session, Seen, View, StartBlock, Standby!StartBlock
<1>2. \A k \in DOMAIN H : Snapshot(H[k])'
  BY <1>1 DEF Chain, Snapshot, Told
<1>3. Shows(H[Len(xlog) + 1])'
  <2>1. Shows(H[Len(xlog) + 1])
    BY DEF Chain
  <2> QED
    BY <1>1, <2>1 DEF Shows
<1>4. /\ DOMAIN H = 1..Len(xlog) + 1
      /\ H[1].meta = smeta /\ H[1].pages = spages
      /\ \A k \in 1..Len(xlog) : Brings(xlog[k], H[k], H[k + 1])
      /\ \A j, k \in DOMAIN H :
           j <= k => Carried(H[j].pages, H[k].pages, StartBlock)
      /\ \A j \in DOMAIN H : Carried(H[j].pages, Seen, StartBlock)
  BY DEF Chain
<1> QED
  BY <1>1, <1>2, <1>3, <1>4 DEF Chain

\* The position goes on to a page that is carried along.
LEMMA ChainPosition ==
  ASSUME Sequence(xlog), NEW H, Chain(H),
         UNCHANGED <<vars, xlog, smeta, spages, log>>,
         StartBlock' \in Arc(spages, StartBlock), spos'.block # 0
  PROVE  Chain(H)'
<1>1. /\ meta' = meta /\ pages' = pages /\ Seen' = Seen
      /\ xlog' = xlog /\ smeta' = smeta /\ spages' = spages /\ log' = log
  BY DEF vars, shared, session, Seen, View
<1>2. PICK t : t = StartBlock'
  OBVIOUS
<1>3. \A k \in DOMAIN H : Snapshot(H[k])'
  BY <1>1 DEF Chain, Snapshot, Told
<1>4. Shows(H[Len(xlog) + 1])'
  <2>1. Shows(H[Len(xlog) + 1])
    BY DEF Chain
  <2> QED
    BY <1>1, <2>1 DEF Shows
<1>5. /\ DOMAIN H = 1..Len(xlog) + 1
      /\ H[1].meta = smeta /\ H[1].pages = spages
      /\ \A k \in 1..Len(xlog) : Brings(xlog[k], H[k], H[k + 1])
      /\ \A j, k \in DOMAIN H :
           j <= k => Carried(H[j].pages, H[k].pages, StartBlock)
      /\ \A j \in DOMAIN H : Carried(H[j].pages, Seen, StartBlock)
  BY DEF Chain
<1>6. ASSUME NEW j \in DOMAIN H, NEW Q, Carried(H[j].pages, Q, StartBlock)
      PROVE  Carried(H[j].pages, Q, t)
  <2>1. /\ 1 \in DOMAIN H /\ 1 <= j /\ Paged(spages) /\ Paged(H[j].pages)
    <3>1. 1 \in DOMAIN H /\ DOMAIN H = 1..Len(xlog) + 1 /\ Len(xlog) \in Nat
          /\ \A k \in DOMAIN H : Paged(H[k].pages)
      BY ChainPages
    <3> QED
      BY <1>5, <3>1
  <2>2. Carried(spages, H[j].pages, StartBlock)
    BY <1>5, <2>1
  <2> QED
    BY <1>2, <1>6, <2>1, <2>2, CarriedMoves
<1>7. \A j, k \in DOMAIN H : j <= k => Carried(H[j].pages, H[k].pages, t)
  BY <1>5, <1>6
<1>8. \A j \in DOMAIN H : Carried(H[j].pages, Seen, t)
  BY <1>5, <1>6
<1> QED
  BY <1>1, <1>2, <1>3, <1>4, <1>5, <1>7, <1>8 DEF Chain

-----------------------------------------------------------------------------
(* The unpacker's buffer.                                                  *)

\* The bytes from an offset on, where an object begins.
LEMMA SuffixFits ==
  ASSUME NEW page \in Page, NEW e \in 0..Len(page.data),
         \A j \in 1..Len(page.data) - 1 :
           Follows(page.data[j], page.data[j + 1]),
         e < Len(page.data) => page.data[e + 1].i = 1,
         e > 0 => EndsAt(page, e)
  PROVE  /\ SubSeq(page.data, e + 1, Len(page.data)) \in Seq(Cell)
         /\ BufFits(SubSeq(page.data, e + 1, Len(page.data)), page)
<1> DEFINE data == page.data
           len == Len(page.data)
           buf == SubSeq(data, e + 1, len)
<1>1. /\ data \in Seq(Cell) /\ len \in Nat
      /\ \A j \in 1..len : data[j] \in Cell
  BY PageCells
<1>2. /\ Len(buf) = len - e
      /\ \A j \in 1..len - e : buf[j] = data[e + j]
      /\ buf \in Seq(Cell)
  BY <1>1
<1> HIDE DEF data, len, buf
<1>3. \A j \in 1..Len(buf) - 1 : Follows(buf[j], buf[j + 1])
  <2> SUFFICES ASSUME NEW j \in 1..(len - e) - 1
               PROVE  Follows(buf[j], buf[j + 1])
    BY <1>2
  <2>1. /\ j \in 1..len - e /\ j + 1 \in 1..len - e
        /\ e + j \in 1..len - 1 /\ e + (j + 1) = (e + j) + 1
    BY <1>1 DEF len
  <2> QED
    BY <1>2, <2>1 DEF data, len
<1>4. buf # <<>> => buf[1].i = 1
  <2>1. buf # <<>> => 1 \in 1..len - e /\ e < len
    BY <1>1, <1>2 DEF len
  <2> QED
    BY <1>2, <2>1 DEF data, len
<1>5. \A j \in 0..Len(buf) - 1 : buf[Len(buf) - j] = data[len - j]
  <2> SUFFICES ASSUME NEW j \in 0..(len - e) - 1
               PROVE  buf[Len(buf) - j] = data[len - j]
    BY <1>2
  <2>1. (len - e) - j \in 1..len - e /\ e + ((len - e) - j) = len - j
    BY <1>1 DEF len
  <2> QED
    BY <1>2, <2>1
<1>6. Len(buf) <= len /\ (Len(buf) < len => EndsAt(page, len - Len(buf)))
  <2>1. len - Len(buf) = e
    BY <1>1, <1>2 DEF len
  <2> QED
    BY <1>1, <1>2, <2>1 DEF len
<1>7. BufFits(buf, page)
  <2>1. Len(buf) \in Nat
    BY <1>2
  <2> QED
    BY <1>1, <1>3, <1>4, <1>5, <1>6, <2>1 DEF BufFits, data, len
<1> QED
  BY <1>2, <1>7 DEF data, len, buf

\* The bytes of the next page behind what is left of the page before.
LEMMA JoinFits ==
  ASSUME NEW p \in Page, NEW q \in Page, NEW buf \in Seq(Cell),
         BufFits(buf, p), Len(p.data) > 0,
         buf # <<>> => Len(buf) < buf[1].n,
         \A j \in 1..Len(q.data) - 1 : Follows(q.data[j], q.data[j + 1]),
         Len(q.data) > 0 => Follows(LastCell(p), FirstCell(q))
  PROVE  /\ buf \o q.data \in Seq(Cell)
         /\ BufFits(buf \o q.data, q)
<1> DEFINE m == Len(buf)
           len == Len(q.data)
           new == buf \o q.data
<1>1. /\ q.data \in Seq(Cell) /\ len \in Nat /\ Len(p.data) \in Nat
      /\ m \in Nat /\ \A j \in 1..m : buf[j] \in Cell
      /\ \A j \in 1..len : q.data[j] \in Cell
  BY PageCells
<1>2. /\ Len(new) = m + len
      /\ \A j \in 1..m : new[j] = buf[j]
      /\ \A j \in m + 1..m + len : new[j] = q.data[j - m]
  BY <1>1, ConcatCells
<1>3. new \in Seq(Cell)
  BY <1>1
<1> HIDE DEF new, m, len
<1>4. m > 0 => buf[m] = LastCell(p)
  <2>1. ASSUME m > 0 PROVE 0 \in 0..m - 1 /\ 0 < Len(p.data)
    BY <1>1, <2>1
  <2> QED
    BY <1>1, <2>1 DEF BufFits, LastCell, m
<1>5. m = 0 => LastCell(p).i = LastCell(p).n
  BY <1>1 DEF BufFits, EndsAt, LastCell, m
<1>6. ASSUME NEW j \in 1..m + len - 1
      PROVE  Follows(new[j], new[j + 1])
  <2>1. CASE j < m
    <3>1. j \in 1..m - 1 /\ j \in 1..m /\ j + 1 \in 1..m
      BY <1>1, <2>1
    <3> QED
      BY <1>2, <3>1 DEF BufFits, m
  <2>2. CASE j = m
    <3>1. /\ j \in 1..m /\ j + 1 \in m + 1..m + len /\ j + 1 - m = 1
          /\ m > 0 /\ len > 0
      BY <1>1, <2>2
    <3>2. new[j] = LastCell(p) /\ new[j + 1] = FirstCell(q)
      BY <1>2, <1>4, <2>2, <3>1 DEF FirstCell
    <3> QED
      BY <3>1, <3>2 DEF len
  <2>3. CASE j > m
    <3>1. /\ j \in m + 1..m + len /\ j + 1 \in m + 1..m + len
          /\ j - m \in 1..len - 1 /\ j + 1 - m = (j - m) + 1
      BY <1>1, <2>3
    <3>2. new[j] = q.data[j - m]
      BY <1>2, <3>1
    <3>4. new[j + 1] = q.data[(j - m) + 1]
      <4>1. PICK k \in m + 1..m + len : k = j + 1
        BY <3>1
      <4>2. new[k] = q.data[k - m]
        BY <1>2
      <4>3. k - m = (j - m) + 1
        BY <1>1, <3>1, <4>1
      <4> QED
        BY <4>1, <4>2, <4>3
    <3>3. Follows(q.data[j - m], q.data[(j - m) + 1])
      BY <3>1 DEF len
    <3> QED
      BY <3>1, <3>2, <3>3, <3>4
  <2> QED
    BY <1>1, <2>1, <2>2, <2>3
<1>7. m + len > 0 => new[1].i = 1
  <2>1. CASE m > 0
    <3>1. 1 \in 1..m /\ buf # <<>>
      BY <1>1, <2>1 DEF m
    <3> QED
      BY <1>2, <3>1 DEF BufFits
  <2>2. CASE m = 0 /\ len > 0
    <3>1. 1 \in m + 1..m + len /\ 1 - m = 1
      BY <1>1, <2>2
    <3>2. new[1] = FirstCell(q)
      BY <1>2, <2>2, <3>1 DEF FirstCell
    <3>3. LastCell(p) \in Cell
      <4>1. Len(p.data) \in 1..Len(p.data)
        BY <1>1
      <4> QED
        BY <4>1, PageCells DEF LastCell
    <3>4. Follows(LastCell(p), FirstCell(q))
      BY <2>2 DEF len
    <3> QED
      BY <1>5, <2>2, <3>2, <3>3, <3>4 DEF Follows, Cell
  <2> QED
    BY <1>1, <2>1, <2>2
<1>8. \A j \in 0..m + len - 1 :
        j < len => new[m + len - j] = q.data[len - j]
  <2>1. ASSUME NEW j \in 0..m + len - 1, j < len
        PROVE  new[m + len - j] = q.data[len - j]
    <3>1. m + len - j \in m + 1..m + len /\ (m + len - j) - m = len - j
      BY <1>1, <2>1
    <3>2. new[m + len - j] = q.data[(m + len - j) - m]
      BY <1>2, <3>1
    <3> QED
      BY <3>1, <3>2
  <2> QED
    BY <2>1
<1>9. m > 0 => new[1] = buf[1] /\ buf[1].n > m
  <2> SUFFICES ASSUME m > 0 PROVE new[1] = buf[1] /\ buf[1].n > m
    OBVIOUS
  <2>1. 1 \in 1..m
    BY <1>1
  <2>2. buf # <<>>
    BY <2>1 DEF m
  <2>3. m < buf[1].n
    BY <2>2 DEF m
  <2>4. buf[1].n \in Nat
    BY <1>1, <2>1 DEF Cell
  <2> QED
    BY <1>1, <1>2, <2>1, <2>3, <2>4
<1>10. BufFits(new, q)
  <2>1. new # <<>> => m + len > 0
    BY <1>1, <1>2, <1>3
  <2>2. m + len > len => m > 0 /\ m + len - len = m
    BY <1>1
  <2>3. ~(m + len < len)
    BY <1>1
  <2>4. m + len > len => new[1].n > m + len - len
    BY <1>9, <2>2
  <2>5. Len(new) = m + len
    BY <1>2
  <2>6. new # <<>> => new[1].i = 1
    BY <1>7, <2>1
  <2>7. \A j \in 0..Len(new) - 1 :
          j < Len(q.data) => new[Len(new) - j] = q.data[Len(q.data) - j]
    BY <1>1, <1>8, <2>5 DEF len
  <2>8. \A j \in 1..Len(new) - 1 : Follows(new[j], new[j + 1])
    BY <1>1, <1>6, <2>5
  <2>9. Len(new) > Len(q.data) => new[1].n > Len(new) - Len(q.data)
    BY <1>1, <2>4, <2>5 DEF len
  <2>10. ~(Len(new) < Len(q.data))
    BY <1>1, <2>3, <2>5 DEF len
  <2> QED
    BY <2>6, <2>7, <2>8, <2>9, <2>10 DEF BufFits
<1> QED
  BY <1>3, <1>10 DEF new

\* What is left when the object at the front has been taken off.
LEMMA DropFits ==
  ASSUME NEW page \in Page, NEW buf \in Seq(Cell), BufFits(buf, page),
         Standby!Complete(buf)
  PROVE  /\ SubSeq(buf, buf[1].n + 1, Len(buf)) \in Seq(Cell)
         /\ BufFits(SubSeq(buf, buf[1].n + 1, Len(buf)), page)
         /\ Len(SubSeq(buf, buf[1].n + 1, Len(buf))) < Len(page.data)
<1> DEFINE n == buf[1].n
           m == Len(buf)
           len == Len(page.data)
           rest == SubSeq(buf, n + 1, m)
<1>1. /\ page.data \in Seq(Cell) /\ len \in Nat /\ m \in Nat
      /\ buf # <<>> /\ m > 0 /\ \A j \in 1..m : buf[j] \in Cell
      /\ n \in Nat \ {0} /\ n <= m
  <2>1. /\ page.data \in Seq(Cell) /\ len \in Nat
    BY PageCells
  <2>2. buf # <<>> /\ m >= n
    BY DEF Standby!Complete
  <2>3. m \in Nat /\ m > 0 /\ \A j \in 1..m : buf[j] \in Cell
    BY <2>2
  <2>4. buf[1] \in Cell
    BY <2>3
  <2>5. n \in Nat \ {0}
    BY <2>4 DEF Cell
  <2> QED
    BY <2>1, <2>2, <2>3, <2>5
<1>2. /\ Len(rest) = m - n /\ rest \in Seq(Cell)
      /\ \A j \in 1..m - n : rest[j] = buf[n + j]
  BY <1>1
<1>3. buf[n].i = buf[n].n
  <2>1. Standby!Available(buf) = n
    BY <1>1 DEF Standby!Available
  <2>2. n \in 1..n
    BY <1>1
  <2>3. buf[n] = [buf[1] EXCEPT !.i = n]
    BY <2>1, <2>2 DEF Standby!Complete, Standby!Intact
  <2>4. buf[1] \in Cell
    BY <1>1
  <2> QED
    BY <2>3, <2>4 DEF Cell
<1> HIDE DEF rest, n, m, len
<1>4. \A j \in 1..(m - n) - 1 : Follows(rest[j], rest[j + 1])
  <2> SUFFICES ASSUME NEW j \in 1..(m - n) - 1
               PROVE  Follows(rest[j], rest[j + 1])
    OBVIOUS
  <2>1. /\ j \in 1..m - n /\ j + 1 \in 1..m - n
        /\ n + j \in 1..m - 1 /\ n + (j + 1) = (n + j) + 1
    BY <1>1
  <2> QED
    BY <1>2, <2>1 DEF BufFits, m
<1>5. m - n > 0 => rest[1].i = 1
  <2>1. ASSUME m - n > 0
        PROVE  /\ 1 \in 1..m - n /\ n \in 1..m - 1 /\ n \in 1..m
               /\ n + 1 \in 1..m
    BY <1>1, <2>1
  <2>2. m - n > 0 => Follows(buf[n], buf[n + 1]) /\ rest[1] = buf[n + 1]
    BY <1>2, <2>1 DEF BufFits, m
  <2>3. m - n > 0 => buf[n] \in Cell
    BY <1>1, <2>1
  <2> QED
    BY <1>3, <2>2, <2>3 DEF Follows, Cell
<1>6. m - n < len
  <2>1. CASE m > len
    <3>1. n > m - len
      BY <2>1 DEF BufFits, m, n, len
    <3> QED
      BY <1>1, <3>1
  <2>2. CASE ~(m > len)
    BY <1>1, <2>2
  <2> QED
    BY <2>1, <2>2
<1>7. \A j \in 0..(m - n) - 1 :
        j < len => rest[(m - n) - j] = page.data[len - j]
  <2> SUFFICES ASSUME NEW j \in 0..(m - n) - 1, j < len
               PROVE  rest[(m - n) - j] = page.data[len - j]
    OBVIOUS
  <2>1. (m - n) - j \in 1..m - n /\ n + ((m - n) - j) = m - j /\ j \in 0..m - 1
    BY <1>1
  <2> QED
    BY <1>2, <2>1 DEF BufFits, m, len
<1>8. EndsAt(page, len - (m - n))
  <2>1. m - n \in 0..m - 1 /\ m - (m - n) = n
    BY <1>1
  <2>2. buf[n] = page.data[len - (m - n)]
    BY <1>6, <2>1 DEF BufFits, m, len
  <2>3. len - (m - n) \in 1..len
    BY <1>1, <1>6
  <2> QED
    BY <1>3, <2>2, <2>3 DEF EndsAt, len
<1>9. BufFits(rest, page)
  <2>1. rest # <<>> => m - n > 0
    BY <1>1, <1>2
  <2>2. ~(m - n > len)
    BY <1>1, <1>6
  <2> QED
    BY <1>2, <1>4, <1>5, <1>7, <1>8, <2>1, <2>2 DEF BufFits, len
<1> QED
  BY <1>2, <1>6, <1>9 DEF rest, n, m, len

-----------------------------------------------------------------------------
(* The steps of a reader.                                                  *)

\* What a reader finds on the standby.
StandbyFits ==
  /\ Frozen(smeta, spages) /\ PositionFits
  /\ spages # <<>> /\ spos.block = 0 => BeginsWith(spages, log[1])

\* A chain starts at pages the reader can rely on.
LEMMA ChainStandby ==
  ASSUME Sequence(xlog), NEW H, Chain(H), PositionFits
  PROVE  StandbyFits
<1>1. 1 \in DOMAIN H /\ Frozen(smeta, spages)
  BY ChainPages
<1>2. Snapshot(H[1]) /\ H[1].pages = spages
  BY <1>1 DEF Chain
<1> QED
  BY <1>1, <1>2 DEF Snapshot, StandbyFits

\* The position is on a page of the ring, and an object begins behind it.
LEMMA StartFits ==
  ASSUME StandbyFits, spages # <<>>
  PROVE  /\ StartBlock \in DOMAIN spages
         /\ StartBlock \in Arc(spages, StartBlock)
         /\ spos.offset \in 0..Len(spages[StartBlock].data)
         /\ spos.offset < Len(spages[StartBlock].data) =>
              spages[StartBlock].data[spos.offset + 1].i = 1
         /\ spos.offset > 0 => EndsAt(spages[StartBlock], spos.offset)
<1> DEFINE page == spages[StartBlock]
           e == spos.offset
<1>1. \A b \in DOMAIN spages :
        /\ spages[b] \in Page /\ Len(spages[b].data) \in Nat
        /\ \A j \in 1..Len(spages[b].data) - 1 :
             Follows(spages[b].data[j], spages[b].data[j + 1])
        /\ \A j \in 1..Len(spages[b].data) : spages[b].data[j] \in Cell
  BY FrozenRing, PageCells DEF StandbyFits
<1>2. CASE spos.block = 0
  <2>1. StartBlock = 1 /\ e = 0
    BY <1>2 DEF StandbyFits, PositionFits, StartBlock, Standby!StartBlock,
                Standby!MetaBlock, Standby!FirstBlock
  <2>2. HasData(spages, 1) /\ spages[1].data[1].i = 1
    BY <1>2 DEF StandbyFits, BeginsWith
  <2>3. 1 \in Arc(spages, 1) /\ 1 \in DOMAIN spages
    BY <2>2 DEF Arc, HasData
  <2> QED
    BY <1>1, <2>1, <2>2, <2>3
<1>3. CASE spos.block # 0
  <2>1. StartBlock = spos.block
    BY <1>3 DEF StartBlock, Standby!StartBlock, Standby!MetaBlock
  <2>2. StartBlock \in DOMAIN spages /\ EndsAt(page, e)
    BY <1>3, <2>1 DEF StandbyFits, PositionFits
  <2>3. /\ e \in 1..Len(page.data) /\ page.data[e].i = page.data[e].n
        /\ Len(page.data) \in Nat
    BY <1>1, <2>2 DEF EndsAt
  <2>4. StartBlock \in Arc(spages, StartBlock)
    BY <2>2, <2>3 DEF Arc, HasData
  <2>5. ASSUME e < Len(page.data) PROVE page.data[e + 1].i = 1
    <3>1. e \in 1..Len(page.data) - 1
      BY <2>3, <2>5
    <3>2. Follows(page.data[e], page.data[e + 1])
      BY <1>1, <2>2, <3>1
    <3>3. page.data[e] \in Cell
      BY <1>1, <2>2, <2>3
    <3> QED
      BY <2>3, <3>2, <3>3 DEF Follows, Cell
  <2> HIDE DEF page
  <2>6. e \in 0..Len(page.data)
    BY <2>3
  <2> QED
    BY <2>2, <2>4, <2>5, <2>6 DEF page
<1> QED
  BY <1>2, <1>3

\* Where the loop over the blocks is, and where it goes next.
LEMMA BlockRange ==
  ASSUME StandbyFits, spages # <<>>, NEW s,
         s.start \in DOMAIN spages, s.i \in 0..smeta.max
  PROVE  /\ smeta.max = Len(spages) + 1 /\ smeta.max \in Nat
         /\ smeta.max > 1 /\ DOMAIN spages = 1..smeta.max - 1
         /\ BlockOf(s) \in 0..smeta.max - 1
         /\ s.i = 0 => BlockOf(s) = s.start
         /\ \A t : t.start = s.start /\ t.i = s.i + 1 /\ s.i < smeta.max =>
              BlockOf(t) = IF BlockOf(s) + 1 = smeta.max THEN 0
                           ELSE BlockOf(s) + 1
<1> DEFINE N == smeta.max
           x == s.start + s.i
<1>1. /\ N \in Nat /\ DOMAIN spages = 1..N - 1 /\ N = Len(spages) + 1
      /\ smeta.next \in DOMAIN spages
  <2>1. /\ N \in Nat /\ DOMAIN spages = 1..(N - 1) /\ Len(spages) = N - 1
        /\ smeta.next \in DOMAIN spages
    BY FrozenRing DEF StandbyFits
  <2>2. N = Len(spages) + 1
    BY <2>1
  <2> QED
    BY <2>1, <2>2
<1>2. N > 1 /\ s.start \in 1..N - 1 /\ s.i \in 0..N
  BY <1>1
<1> HIDE DEF N
<1>3. \A y \in Nat : y < 2 * N => y % N = IF y < N THEN y ELSE y - N
  BY <1>1, <1>2
<1>4. BlockOf(s) = IF x < N THEN x ELSE x - N
  <2>1. x \in Nat /\ x < 2 * N
    BY <1>1, <1>2
  <2>2. BlockOf(s) = x % N
    BY <1>1 DEF BlockOf
  <2> HIDE DEF x
  <2> QED
    BY <1>3, <2>1, <2>2
<1>5. ASSUME NEW t, t.start = s.start, t.i = s.i + 1, s.i < N
      PROVE  BlockOf(t) = IF BlockOf(s) + 1 = N THEN 0 ELSE BlockOf(s) + 1
  <2> DEFINE y == t.start + t.i
  <2>1. y = x + 1 /\ y \in Nat /\ y < 2 * N
    BY <1>1, <1>2, <1>5
  <2>2. BlockOf(t) = y % N
    BY <1>1 DEF BlockOf
  <2> HIDE DEF y
  <2>3. BlockOf(t) = IF y < N THEN y ELSE y - N
    BY <1>3, <2>1, <2>2
  <2> QED
    BY <1>1, <1>2, <1>4, <2>1, <2>3
<1>6. BlockOf(s) \in 0..N - 1 /\ (s.i = 0 => BlockOf(s) = s.start)
  BY <1>1, <1>2, <1>4
<1> QED
  BY <1>1, <1>2, <1>5, <1>6 DEF N

\* PGrnWALLock and the position.
LEMMA LockFits ==
  ASSUME StandbyFits, NEW s \in ReaderSession, SessionFits(s),
         s.pc = "needed", NEW t,
         t = [s EXCEPT !.pc = "consume", !.start = StartBlock,
                       !.off = spos.offset]
  PROVE  t \in ReaderSession /\ SessionFits(t)
<1>1. spages # <<>> /\ s.i = 0 /\ s.buf = <<>>
  BY DEF SessionFits
<1>2. StartBlock \in DOMAIN spages /\ smeta.max \in Nat
  BY <1>1, StartFits, FrozenRing DEF StandbyFits
<1>3. StartBlock \in Nat /\ spos.offset \in Nat
  BY <1>2 DEF StandbyFits, PositionFits, Position, Frozen
<1>4. /\ t.pc = "consume" /\ t.start = StartBlock /\ t.off = spos.offset
      /\ t.i = 0 /\ t.buf = <<>> /\ t.outcome = s.outcome
      /\ t \in ReaderSession
  BY <1>1, <1>3 DEF ReaderSession
<1>5. AtStart(t)
  BY <1>4 DEF AtStart
<1>6. t.i \in 0..smeta.max
  BY <1>2, <1>4
<1> QED
  BY <1>1, <1>2, <1>4, <1>5, <1>6 DEF SessionFits

\* The loop passes the meta page.
LEMMA SkipFits ==
  ASSUME StandbyFits, NEW s \in ReaderSession, SessionFits(s),
         s.pc = "consume", s.i < Len(spages) + 1,
         BlockOf(s) = 0 \/ BlockOf(s) > smeta.max, NEW t,
         t = [s EXCEPT !.i = s.i + 1]
  PROVE  /\ t \in ReaderSession /\ SessionFits(t)
         /\ ~AtStart(s)
         /\ \A p : Between(s, BlockOf(s), p) => Between(t, BlockOf(t), p)
<1>1. /\ spages # <<>> /\ s.start \in DOMAIN spages /\ s.i \in 0..smeta.max
      /\ AtStart(s) \/ \E p : Between(s, BlockOf(s), p)
  BY DEF SessionFits
<1>2. /\ smeta.max = Len(spages) + 1 /\ smeta.max \in Nat /\ smeta.max > 1
      /\ DOMAIN spages = 1..smeta.max - 1
      /\ BlockOf(s) \in 0..smeta.max - 1
      /\ s.i = 0 => BlockOf(s) = s.start
  BY <1>1, BlockRange
<1>3. BlockOf(s) = 0 /\ s.i # 0
  BY <1>1, <1>2
<1>4. PICK p : Between(s, 0, p)
  BY <1>1, <1>3 DEF AtStart
<1>5. /\ t.start = s.start /\ t.i = s.i + 1 /\ t.pc = s.pc /\ t.buf = s.buf
      /\ t.off = s.off /\ t.outcome = s.outcome /\ t \in ReaderSession
  BY DEF ReaderSession
<1>6. BlockOf(t) = 1
  <2>1. BlockOf(t) = IF BlockOf(s) + 1 = smeta.max THEN 0 ELSE BlockOf(s) + 1
    BY <1>1, <1>2, <1>5, BlockRange
  <2> QED
    BY <1>2, <1>3, <2>1
<1>7. t.i > 0 /\ t.i \in 0..smeta.max
  BY <1>1, <1>2, <1>5
<1>8. \A q : Between(s, 0, q) => Between(t, 1, q)
  BY <1>5, <1>7 DEF Between, Succ
<1>9. t \in ReaderSession /\ SessionFits(t)
  BY <1>1, <1>4, <1>5, <1>6, <1>7, <1>8 DEF SessionFits
<1> QED
  BY <1>3, <1>6, <1>8, <1>9 DEF AtStart

\* A sequence, up to its end.
LEMMA WholeSeq ==
  ASSUME NEW q \in Seq(Cell)
  PROVE  SubSeq(q, 1, Len(q)) = q
OBVIOUS

\* A page is read from the offset on.
LEMMA ReadFits ==
  ASSUME StandbyFits, NEW s \in ReaderSession, SessionFits(s),
         s.pc = "consume", s.i < Len(spages) + 1, BlockOf(s) # 0,
         NEW page, page = spages[BlockOf(s)], NEW t,
         t = [s EXCEPT !.pc = "object",
                       !.buf = s.buf \o SubSeq(page.data, s.off + 1,
                                               Len(page.data)),
                       !.end = LastOffset(page)]
  PROVE  /\ s.off <= LastOffset(page) /\ page.init
         /\ t \in ReaderSession /\ SessionFits(t)
<1> DEFINE b == BlockOf(s)
           suffix == SubSeq(page.data, s.off + 1, Len(page.data))
<1>1. /\ spages # <<>> /\ s.start \in DOMAIN spages /\ s.i \in 0..smeta.max
      /\ AtStart(s) \/ \E p : Between(s, b, p)
      /\ s.outcome \notin {"garbled", "overwritten"}
  BY DEF SessionFits
<1>2. /\ smeta.max = Len(spages) + 1 /\ smeta.max \in Nat
      /\ DOMAIN spages = 1..smeta.max - 1
      /\ b \in 0..smeta.max - 1
      /\ s.i = 0 => b = s.start
  BY <1>1, BlockRange
<1>3. b \in DOMAIN spages /\ s.i < smeta.max
  BY <1>1, <1>2
<1>4. /\ page \in Page /\ page.init /\ Len(page.data) \in Nat
      /\ page.data \in Seq(Cell)
      /\ \A j \in 1..Len(page.data) - 1 :
           Follows(page.data[j], page.data[j + 1])
      /\ ~HasData(spages, b) => b = smeta.next
  BY <1>1, <1>3, FrozenRing, PageCells DEF StandbyFits
<1>5. LastOffset(page) = Len(page.data)
  BY <1>4 DEF LastOffset
<1>6. s.buf \in Seq(Cell) /\ s.off \in Nat
  BY DEF ReaderSession
<1>7. /\ s.off <= Len(page.data)
      /\ s.buf \o suffix \in Seq(Cell) /\ BufFits(s.buf \o suffix, page)
      /\ b \in Arc(spages, StartBlock) \/ (b = smeta.next /\ ~HasData(spages, b))
  <2>1. CASE AtStart(s)
    <3>1. b = StartBlock /\ s.off = spos.offset /\ s.buf = <<>>
      BY <1>2, <2>1 DEF AtStart
    <3>2. /\ b \in Arc(spages, StartBlock)
          /\ s.off \in 0..Len(page.data)
          /\ s.off < Len(page.data) => page.data[s.off + 1].i = 1
          /\ s.off > 0 => EndsAt(page, s.off)
      BY <1>1, <3>1, StartFits
    <3>3. suffix \in Seq(Cell) /\ BufFits(suffix, page)
      BY <1>4, <3>2, SuffixFits
    <3>4. s.buf \o suffix = suffix
      BY <3>1, <3>3
    <3> HIDE DEF suffix, b
    <3>5. s.off <= Len(page.data)
      BY <3>2
    <3> QED
      BY <3>2, <3>3, <3>4, <3>5
  <2>2. ASSUME NEW p, Between(s, b, p)
        PROVE  /\ s.off <= Len(page.data)
               /\ s.buf \o suffix \in Seq(Cell) /\ BufFits(s.buf \o suffix, page)
               /\ \/ b \in Arc(spages, StartBlock)
                  \/ b = smeta.next /\ ~HasData(spages, b)
    <3>1. /\ s.off = 0 /\ p \in Arc(spages, StartBlock) /\ p # smeta.next
          /\ b = Succ(smeta, p) /\ BufFits(s.buf, spages[p])
          /\ s.buf # <<>> => Len(s.buf) < s.buf[1].n
      BY <2>2 DEF Between
    <3>2. /\ p \in DOMAIN spages /\ HasData(spages, p)
          /\ HasData(spages, StartBlock)
          /\ \/ p = StartBlock
             \/ Older(FirstCell(spages[StartBlock]), FirstCell(spages[p]))
      BY <3>1 DEF Arc
    <3>3. /\ spages[p] \in Page
          /\ HasData(spages, b) =>
               /\ Follows(LastCell(spages[p]), FirstCell(page))
               /\ OlderPage(spages[p], page)
      BY <1>1, <3>1, <3>2, FrozenRing DEF StandbyFits
    <3>4. suffix = page.data
      <4>1. suffix = SubSeq(page.data, 1, Len(page.data))
        BY <3>1
      <4> QED
        BY <1>4, <4>1, WholeSeq
    <3>5. Len(page.data) > 0 => HasData(spages, b)
      BY <1>3 DEF HasData
    <3>6. Len(spages[p].data) > 0
      BY <3>2 DEF HasData
    <3>7. s.buf \o suffix \in Seq(Cell) /\ BufFits(s.buf \o suffix, page)
      BY <1>4, <1>6, <3>1, <3>3, <3>4, <3>5, <3>6, JoinFits
    <3>8. ASSUME HasData(spages, b) PROVE b \in Arc(spages, StartBlock)
      <4>1. Paged(spages)
        BY DEF StandbyFits, Frozen, Fit, Paged
      <4>2. \A o \in DOMAIN spages : HasData(spages, o) =>
              /\ 1 \in 1..Len(spages[o].data)
              /\ FirstCell(spages[o]) \in Cell
        <5> SUFFICES ASSUME NEW o \in DOMAIN spages, HasData(spages, o)
                     PROVE  /\ 1 \in 1..Len(spages[o].data)
                            /\ FirstCell(spages[o]) \in Cell
          OBVIOUS
        <5>1. Len(spages[o].data) \in Nat
          BY <4>1, PagedCells
        <5>2. 1 \in 1..Len(spages[o].data)
          BY <5>1 DEF HasData
        <5> QED
          BY <4>1, <5>2, PagedCells DEF FirstCell
      <4>3. Older(FirstCell(spages[p]), FirstCell(page))
        BY <1>3, <3>2, <3>3, <3>8, <4>2 DEF OlderPage, FirstCell
      <4>4. StartBlock \in DOMAIN spages
        BY <3>2 DEF HasData
      <4>5. Older(FirstCell(spages[StartBlock]), FirstCell(page))
        BY <1>3, <3>2, <3>8, <4>2, <4>3, <4>4, OlderOrder
      <4> QED
        BY <1>3, <3>2, <3>8, <4>5 DEF Arc
    <3> QED
      BY <1>4, <3>1, <3>7, <3>8
  <2> QED
    BY <1>1, <2>1, <2>2
<1> HIDE DEF suffix
<1>8. /\ t.start = s.start /\ t.i = s.i /\ t.pc = "object"
      /\ t.buf = s.buf \o suffix /\ t.end = Len(page.data)
      /\ t.outcome = s.outcome /\ t \in ReaderSession
  BY <1>4, <1>5, <1>7 DEF ReaderSession, suffix
<1>9. BlockOf(t) = b
  BY <1>8 DEF BlockOf
<1>10. AtPage(t, b)
  BY <1>3, <1>7, <1>8 DEF AtPage
<1> QED
  BY <1>1, <1>4, <1>5, <1>7, <1>8, <1>9, <1>10 DEF SessionFits

\* An object is applied.
LEMMA ApplyFits ==
  ASSUME StandbyFits, NEW s \in ReaderSession, SessionFits(s),
         s.pc = "object", Standby!Complete(s.buf), NEW t,
         t = [s EXCEPT !.pc = "applied",
                       !.buf = SubSeq(s.buf, s.buf[1].n + 1, Len(s.buf))]
  PROVE  t \in ReaderSession /\ SessionFits(t)
<1> DEFINE b == BlockOf(s)
           rest == SubSeq(s.buf, s.buf[1].n + 1, Len(s.buf))
<1>1. /\ spages # <<>> /\ s.start \in DOMAIN spages /\ s.i \in 0..smeta.max
      /\ AtPage(s, b) /\ s.outcome \notin {"garbled", "overwritten"}
  BY DEF SessionFits
<1>2. /\ b \in DOMAIN spages /\ s.end = Len(spages[b].data)
      /\ BufFits(s.buf, spages[b]) /\ spages[b] \in Page
  BY <1>1, FrozenRing DEF AtPage, StandbyFits
<1>3. s.buf \in Seq(Cell)
  BY DEF ReaderSession
<1>4. /\ rest \in Seq(Cell) /\ BufFits(rest, spages[b])
      /\ Len(rest) < Len(spages[b].data)
  BY <1>2, <1>3, DropFits
<1> HIDE DEF rest
<1>5. /\ t.start = s.start /\ t.i = s.i /\ t.pc = "applied"
      /\ t.buf = rest /\ t.end = s.end
      /\ t.outcome = s.outcome /\ t \in ReaderSession
  BY <1>4 DEF ReaderSession, rest
<1>6. BlockOf(t) = b
  BY <1>5 DEF BlockOf
<1>7. AtPage(t, b)
  BY <1>1, <1>4, <1>5 DEF AtPage
<1> QED
  BY <1>1, <1>2, <1>4, <1>5, <1>6, <1>7 DEF SessionFits

\* The loop goes on to the next block.
LEMMA NextFits ==
  ASSUME StandbyFits, NEW s \in ReaderSession, SessionFits(s),
         s.pc = "object", Standby!NeedsMore(s.buf),
         BlockOf(s) # smeta.next, NEW t,
         t = [s EXCEPT !.pc = "consume", !.i = s.i + 1, !.off = 0]
  PROVE  /\ t \in ReaderSession /\ SessionFits(t)
         /\ BlockOf(s) \in DOMAIN spages
         /\ Between(t, BlockOf(t), BlockOf(s))
<1> DEFINE b == BlockOf(s)
<1>1. /\ spages # <<>> /\ s.start \in DOMAIN spages /\ s.i \in 0..smeta.max
      /\ AtPage(s, b) /\ s.outcome \notin {"garbled", "overwritten"}
  BY DEF SessionFits
<1>2. /\ smeta.max \in Nat /\ s.i < smeta.max
      /\ b \in Arc(spages, StartBlock) /\ BufFits(s.buf, spages[b])
  BY <1>1, BlockRange DEF AtPage
<1>3. /\ t.start = s.start /\ t.i = s.i + 1 /\ t.pc = "consume"
      /\ t.buf = s.buf /\ t.off = 0
      /\ t.outcome = s.outcome /\ t \in ReaderSession
  <2>1. s.i \in Nat /\ s.i + 1 \in Nat
    BY DEF ReaderSession
  <2>2. PICK i \in Nat : i = s.i + 1
    BY <2>1
  <2>3. t = [s EXCEPT !.pc = "consume", !.i = i, !.off = 0]
    BY <2>2
  <2>4. t \in ReaderSession
    <3>1. [s EXCEPT !.pc = "consume"] \in ReaderSession
      BY DEF ReaderSession
    <3>2. [[s EXCEPT !.pc = "consume"] EXCEPT !.i = i] \in ReaderSession
      BY <2>2, <3>1 DEF ReaderSession
    <3>3. [[[s EXCEPT !.pc = "consume"] EXCEPT !.i = i] EXCEPT !.off = 0]
            \in ReaderSession
      BY <3>2 DEF ReaderSession
    <3>4. [s EXCEPT !.pc = "consume", !.i = i, !.off = 0]
            = [[[s EXCEPT !.pc = "consume"] EXCEPT !.i = i] EXCEPT !.off = 0]
      OBVIOUS
    <3> QED
      BY <2>3, <3>3, <3>4
  <2>5. /\ t.start = s.start /\ t.i = i /\ t.pc = "consume"
        /\ t.buf = s.buf /\ t.off = 0 /\ t.outcome = s.outcome
    BY <2>3 DEF ReaderSession
  <2> QED
    BY <2>2, <2>4, <2>5
<1>4. BlockOf(t) = IF b + 1 = smeta.max THEN 0 ELSE b + 1
  BY <1>1, <1>2, <1>3, BlockRange
<1>5. b \in Nat /\ t.i > 0 /\ t.i \in 0..smeta.max
  BY <1>1, <1>2, <1>3, BlockRange
<1>6. s.buf # <<>> => Len(s.buf) < s.buf[1].n
  BY DEF Standby!NeedsMore
<1>7. IF BlockOf(t) = 0 THEN b + 1 = smeta.max
      ELSE BlockOf(t) = Succ(smeta, b)
  BY <1>4, <1>5 DEF Succ
<1>8. Between(t, BlockOf(t), b)
  BY <1>2, <1>3, <1>5, <1>6, <1>7 DEF Between
<1>9. t \in ReaderSession /\ SessionFits(t)
  BY <1>1, <1>3, <1>5, <1>8 DEF SessionFits
<1>10. b \in DOMAIN spages
  BY <1>2 DEF Arc
<1> QED
  BY <1>8, <1>9, <1>10

\* The unpacker never meets bytes that are no object.
LEMMA NeverGarbled ==
  ASSUME NEW s \in ReaderSession, SessionFits(s), s.pc = "object",
         s.buf # <<>>
  PROVE  Standby!Intact(s.buf)
<1>1. s.buf \in Seq(Cell)
  BY DEF ReaderSession
<1>2. BufFits(s.buf, spages[BlockOf(s)])
  BY DEF SessionFits, AtPage
<1> QED
  BY <1>1, <1>2, IntactRun DEF BufFits

\* A reader that has left.
LEMMA IdleFits ==
  ASSUME NEW o \in {"none", "done", "died"}, NEW t, t = Standby!Idle(o)
  PROVE  t \in ReaderSession /\ SessionFits(t)
BY DEF Standby!Idle, Standby!MetaBlock, ReaderSession, SessionFits

\* The position that is stored when an object has been applied.
LEMMA PositionKeeps ==
  ASSUME StandbyFits, NEW s \in ReaderSession, SessionFits(s),
         s.pc = "applied", UNCHANGED <<smeta, spages>>,
         spos' = [block |-> BlockOf(s), offset |-> s.end - Len(s.buf)],
         NEW t, t = [s EXCEPT !.pc = "object"]
  PROVE  /\ PositionFits' /\ t \in ReaderSession /\ SessionFits(t)'
         /\ spos'.block # 0 /\ StartBlock' \in Arc(spages, StartBlock)
<1>1. PICK b : b = BlockOf(s)
  OBVIOUS
<1>2. /\ spages # <<>> /\ s.start \in DOMAIN spages /\ s.i \in 0..smeta.max
      /\ AtPage(s, b) /\ s.outcome \notin {"garbled", "overwritten"}
      /\ Len(s.buf) < s.end
  BY <1>1 DEF SessionFits
<1>3. /\ b \in DOMAIN spages /\ s.end = Len(spages[b].data)
      /\ BufFits(s.buf, spages[b]) /\ s.i < smeta.max
      /\ b \in Nat \ {0} /\ s.end \in Nat
  BY <1>2, FrozenRing, PageCells DEF AtPage, StandbyFits, Frozen, Fit
<1>4. s.buf \in Seq(Cell) /\ Len(s.buf) \in Nat
  BY DEF ReaderSession
<1>5. HasData(spages, b)
  BY <1>2, <1>3, <1>4 DEF HasData
<1>6. b \in Arc(spages, StartBlock) /\ b \in Arc(spages, b)
  BY <1>2, <1>3, <1>5 DEF AtPage, Arc
<1>7. spos'.block = b /\ spos'.offset = s.end - Len(s.buf) /\ StartBlock' = b
  BY <1>1, <1>3 DEF StartBlock, Standby!StartBlock, Standby!MetaBlock
<1>8. EndsAt(spages[b], s.end - Len(s.buf))
  BY <1>2, <1>3 DEF BufFits
<1>9. PositionFits'
  <2>1. s.end - Len(s.buf) \in Nat
    BY <1>2, <1>3, <1>4
  <2>2. spos' \in Position
    BY <1>1, <1>3, <2>1 DEF Position
  <2> QED
    BY <1>3, <1>7, <1>8, <2>2 DEF PositionFits
<1>10. /\ t.start = s.start /\ t.i = s.i /\ t.pc = "object"
       /\ t.buf = s.buf /\ t.end = s.end
       /\ t.outcome = s.outcome /\ t \in ReaderSession
  BY DEF ReaderSession
<1>11. BlockOf(t)' = b
  BY <1>1, <1>10 DEF BlockOf
<1>12. AtPage(t, b)'
  BY <1>3, <1>6, <1>7, <1>10 DEF AtPage
<1>13. SessionFits(t)'
  BY <1>2, <1>10, <1>11, <1>12 DEF SessionFits
<1> QED
  BY <1>3, <1>6, <1>7, <1>9, <1>10, <1>13

\* The session of the one process that applies.
LEMMA UpdateFits ==
  ASSUME KeepsPace, ReadersFit, NEW r \in Readers, NEW t \in ReaderSession,
         SessionFits(t)', Standby!Update(r, t)
  PROVE  ReadersFit'
<1>1. readers \in [Readers -> ReaderSession]
  BY DEF ReadersFit
<1>2. readers' = [readers EXCEPT ![r] = t]
  BY DEF Standby!Update
<1>3. readers' \in [Readers -> ReaderSession] /\ readers'[r] = t
  BY <1>1, <1>2
<1>4. \A q \in Readers : q = r
  BY DEF KeepsPace
<1> QED
  BY <1>3, <1>4 DEF ReadersFit

\* A session does not notice a step that leaves the standby as it is.
LEMMA SessionSame ==
  ASSUME NEW s, SessionFits(s), UNCHANGED <<smeta, spages, spos>>
  PROVE  SessionFits(s)'
<1>1. smeta' = smeta /\ spages' = spages /\ spos' = spos /\ StartBlock' = StartBlock
  BY DEF StartBlock, Standby!StartBlock
<1>2. BlockOf(s)' = BlockOf(s)
  BY <1>1 DEF BlockOf
<1>3. AtStart(s)' <=> AtStart(s)
  BY <1>1 DEF AtStart
<1>4. \A b, p : Between(s, b, p)' <=> Between(s, b, p)
  BY <1>1 DEF Between
<1>5. \A b : AtPage(s, b)' <=> AtPage(s, b)
  BY <1>1 DEF AtPage
<1> QED
  BY <1>1, <1>2, <1>3, <1>4, <1>5 DEF SessionFits

\* Nor does the position.
LEMMA PositionSame ==
  ASSUME PositionFits, UNCHANGED <<spages, spos>>
  PROVE  PositionFits'
BY DEF PositionFits

\* A step of a reader keeps the position and the sessions fitting.
LEMMA ReaderKeeps ==
  ASSUME KeepsPace, Sequence(xlog), NEW H, Chain(H), PositionFits, ReadersFit,
         NEW r \in Readers, ReaderStep(r) \/ ReaderDies(r)
  PROVE  Chain(H)' /\ PositionFits' /\ ReadersFit'
<1>1. StandbyFits
  BY ChainStandby
<1>2. PICK s \in ReaderSession : s = readers[r] /\ SessionFits(s)
  BY DEF ReadersFit
<1>3. /\ smeta' = smeta /\ spages' = spages
      /\ UNCHANGED <<vars, xlog, log>>
  BY DEF ReaderStep, ReaderDies, Standby!Step, Standby!Check, Standby!Lock,
         Standby!Skip, Standby!RaiseOverwritten, Standby!ReadPage,
         Standby!ApplyObject, Standby!SetPosition, Standby!Garbled,
         Standby!NextBlock, Standby!Done, Standby!Die
<1>4. Standby!Block(r) = BlockOf(s)
  BY <1>2 DEF Standby!Block, Standby!NBlocks, BlockOf
<1>5. ASSUME NEW t \in ReaderSession, SessionFits(t), Standby!Update(r, t),
             spos' = spos
      PROVE  Chain(H)' /\ PositionFits' /\ ReadersFit'
  <2>1. SessionFits(t)'
    BY <1>3, <1>5, SessionSame
  <2>2. PositionFits'
    BY <1>3, <1>5, PositionSame
  <2>3. Chain(H)'
    BY <1>3, <1>5, ChainSame
  <2> QED
    BY <1>5, <2>1, <2>2, <2>3, UpdateFits
<1>6. ASSUME NEW o \in {"none", "done", "died"}, Standby!Leave(r, o),
             spos' = spos
      PROVE  Chain(H)' /\ PositionFits' /\ ReadersFit'
  <2>1. PICK t : t = Standby!Idle(o)
    OBVIOUS
  <2>2. Standby!Update(r, t)
    BY <1>6, <2>1 DEF Standby!Leave
  <2> QED
    BY <1>5, <1>6, <2>1, <2>2, IdleFits
<1>7. CASE ReaderDies(r)
  BY <1>6, <1>7 DEF ReaderDies, Standby!Die
<1>8. CASE Standby!Check(r)
  <2>1. PICK t : t = [Standby!Idle("none") EXCEPT !.pc = "needed"]
    OBVIOUS
  <2>2. Standby!Update(r, t) /\ spos' = spos
    BY <1>8, <2>1 DEF Standby!Check
  <2>3. spages # <<>>
    <3>1. StartBlock < Len(spages) + 1
      BY <1>8 DEF Standby!Check, Standby!ApplyNeeded, Standby!NBlocks, StartBlock
    <3>2. StartBlock \in Nat \ {0}
      BY DEF PositionFits, Position, StartBlock, Standby!StartBlock,
             Standby!MetaBlock, Standby!FirstBlock
    <3> QED
      BY <3>1, <3>2
  <2>4. t = [pc |-> "needed", start |-> 0, i |-> 0, off |-> 0, end |-> 0,
             buf |-> <<>>, outcome |-> "none"]
    BY <2>1 DEF Standby!Idle, Standby!MetaBlock
  <2>5. t \in ReaderSession
    BY <2>4 DEF ReaderSession
  <2>6. SessionFits(t)
    BY <2>3, <2>4 DEF SessionFits
  <2> QED
    BY <1>5, <2>2, <2>5, <2>6
<1>9. CASE Standby!Lock(r)
  <2>1. PICK t : t = [s EXCEPT !.pc = "consume", !.start = StartBlock,
                               !.off = spos.offset]
    OBVIOUS
  <2>2. /\ Standby!Update(r, t) /\ spos' = spos /\ s.pc = "needed"
    BY <1>2, <1>9, <2>1 DEF Standby!Lock, StartBlock
  <2> QED
    BY <1>1, <1>2, <1>5, <2>1, <2>2, LockFits
<1>10. CASE Standby!Skip(r)
  <2>1. PICK t : t = [s EXCEPT !.i = s.i + 1]
    OBVIOUS
  <2>2. /\ Standby!Update(r, t) /\ spos' = spos /\ s.pc = "consume"
        /\ s.i < Len(spages) + 1
        /\ BlockOf(s) = 0 \/ BlockOf(s) > smeta.max
    BY <1>2, <1>4, <1>10, <2>1
    DEF Standby!Skip, Standby!AtBlock, Standby!Skipped, Standby!NBlocks,
        Standby!MetaBlock
  <2> QED
    BY <1>1, <1>2, <1>5, <2>1, <2>2, SkipFits
<1>11. ASSUME Standby!AtBlock(r), ~Standby!Skipped(r)
       PROVE  \A page, t :
                /\ page = spages[BlockOf(s)]
                /\ t = [s EXCEPT !.pc = "object",
                          !.buf = s.buf \o SubSeq(page.data, s.off + 1,
                                                  Len(page.data)),
                          !.end = LastOffset(page)]
                => /\ s.off <= LastOffset(page) /\ page.init
                   /\ t \in ReaderSession /\ SessionFits(t)
  <2>1. s.pc = "consume" /\ s.i < Len(spages) + 1 /\ BlockOf(s) # 0
    BY <1>2, <1>4, <1>11
    DEF Standby!AtBlock, Standby!Skipped, Standby!NBlocks, Standby!MetaBlock
  <2> QED
    BY <1>1, <1>2, <2>1, ReadFits
<1>12. ~Standby!RaiseOverwritten(r)
  <2> SUFFICES ASSUME Standby!RaiseOverwritten(r) PROVE FALSE
    OBVIOUS
  <2>1. PICK page : page = spages[BlockOf(s)]
    OBVIOUS
  <2>2. /\ Standby!AtBlock(r) /\ ~Standby!Skipped(r)
        /\ s.off > Standby!LastOffset(page)
    BY <1>2, <1>4, <2>1 DEF Standby!RaiseOverwritten
  <2>3. s.off <= LastOffset(page) /\ page.init
    BY <1>11, <2>1, <2>2
  <2>4. page.data \in Seq(Cell) /\ s.off \in Nat
    <3>1. BlockOf(s) \in DOMAIN spages
      BY <1>1, <1>2, <1>4, <2>2, BlockRange
      DEF SessionFits, Standby!Skipped, Standby!MetaBlock, Standby!AtBlock
    <3>2. spages # <<>>
      BY <1>2, <2>2 DEF SessionFits, Standby!AtBlock
    <3> QED
      BY <1>1, <2>1, <3>1, <3>2, FrozenRing DEF StandbyFits, ReaderSession
  <2> QED
    BY <2>2, <2>3, <2>4 DEF LastOffset, Standby!LastOffset
<1>13. CASE Standby!ReadPage(r)
  <2>1. PICK page : page = spages[BlockOf(s)]
    OBVIOUS
  <2>2. PICK t : t = [s EXCEPT !.pc = "object",
                        !.buf = s.buf \o SubSeq(page.data, s.off + 1,
                                                Len(page.data)),
                        !.end = LastOffset(page)]
    OBVIOUS
  <2>3. page.init /\ t \in ReaderSession /\ SessionFits(t)
    BY <1>11, <1>13, <2>1, <2>2 DEF Standby!ReadPage
  <2>4. Standby!Update(r, t) /\ spos' = spos
    BY <1>2, <1>4, <1>13, <2>1, <2>2, <2>3
    DEF Standby!ReadPage, LastOffset, Standby!LastOffset
  <2> QED
    BY <1>5, <2>3, <2>4
<1>14. CASE Standby!ApplyObject(r)
  <2>1. PICK t : t = [s EXCEPT !.pc = "applied",
                        !.buf = SubSeq(s.buf, s.buf[1].n + 1, Len(s.buf))]
    OBVIOUS
  <2>2. /\ Standby!Update(r, t) /\ spos' = spos /\ s.pc = "object"
        /\ Standby!Complete(s.buf)
    BY <1>2, <1>14, <2>1 DEF Standby!ApplyObject
  <2> QED
    BY <1>1, <1>2, <1>5, <2>1, <2>2, ApplyFits
<1>15. CASE Standby!SetPosition(r)
  <2>1. PICK t : t = [s EXCEPT !.pc = "object"]
    OBVIOUS
  <2>2. /\ Standby!Update(r, t) /\ s.pc = "applied"
        /\ spos' = [block |-> BlockOf(s), offset |-> s.end - Len(s.buf)]
    BY <1>2, <1>4, <1>15, <2>1 DEF Standby!SetPosition, Standby!EndOfObject
  <2>3. /\ PositionFits' /\ t \in ReaderSession /\ SessionFits(t)'
        /\ spos'.block # 0 /\ StartBlock' \in Arc(spages, StartBlock)
    BY <1>1, <1>2, <1>3, <2>1, <2>2, PositionKeeps
  <2>4. Chain(H)'
    BY <1>3, <2>3, ChainPosition
  <2> QED
    BY <2>2, <2>3, <2>4, UpdateFits
<1>16. ~Standby!Garbled(r)
  BY <1>2, NeverGarbled DEF Standby!Garbled
<1>17. CASE Standby!NextBlock(r)
  <2>1. PICK t : t = [s EXCEPT !.pc = "consume", !.i = s.i + 1, !.off = 0]
    OBVIOUS
  <2>2. /\ Standby!Update(r, t) /\ spos' = spos /\ s.pc = "object"
        /\ Standby!NeedsMore(s.buf) /\ BlockOf(s) # smeta.next
    BY <1>2, <1>4, <1>17, <2>1 DEF Standby!NextBlock
  <2> QED
    BY <1>1, <1>2, <1>5, <2>1, <2>2, NextFits
<1>18. CASE Standby!Done(r)
  BY <1>6, <1>18 DEF Standby!Done
<1> QED
  BY <1>7, <1>8, <1>9, <1>10, <1>12, <1>13, <1>14, <1>15, <1>16, <1>17, <1>18
  DEF ReaderStep, Standby!Step

\* A record that is replayed finds no reader between its pages.
LEMMA ReplayReaders ==
  ASSUME Sequence(xlog), NEW H, Chain(H), Replay, ReadersFit
  PROVE  ReadersFit'
<1>1. /\ Standby!Consuming = {} /\ readers' = readers
      /\ spages' = H[2].pages /\ Len(xlog) > 0
  BY ReplayEffect
<1>2. spages' # <<>>
  <2>1. 1 \in 1..Len(xlog)
    BY <1>1 DEF Sequence
  <2>2. Brings(xlog[1], H[1], H[1 + 1])
    BY <2>1 DEF Chain
  <2> QED
    BY <1>1, <2>2 DEF Brings
<1>3. ASSUME NEW r \in Readers
      PROVE  SessionFits(readers[r])'
  <2>1. PICK s \in ReaderSession : s = readers[r] /\ SessionFits(s)
    BY DEF ReadersFit
  <2>2. s.pc \in {"idle", "needed"}
    BY <1>1, <2>1 DEF Standby!Consuming, ReaderSession
  <2>3. SessionFits(s)'
    BY <1>2, <2>1, <2>2 DEF SessionFits
  <2> QED
    BY <1>1, <2>1, <2>3
<1> QED
  BY <1>1, <1>3 DEF ReadersFit

-----------------------------------------------------------------------------
(* No reader is told that WAL was overwritten.                             *)

\* A step of the writers keeps the stream whole.
LEMMA WholeKeeps ==
  ASSUME Whole, [Next]_vars
  PROVE  Whole'
<1>1. Types' /\ NoHole' /\ Ends'
  BY TypesStep, NoHoleStep, EndsStep DEF Whole
<1>2. StreamInv'
  BY <1>1, StreamStep DEF Whole, Base, Ends
<1> QED
  BY <1>1, <1>2 DEF Whole

\* Nothing is written, sent or applied at first.
LEMMA InitReplicates ==
  ASSUME KeepsPace, RInit
  PROVE  Replicates
<1>1. /\ Init /\ xlog = <<>> /\ smeta = InitMeta /\ spages = <<>>
      /\ spos = [block |-> 0, offset |-> 0] /\ log = <<>> /\ nResets = 0
      /\ meta = InitMeta /\ pages = <<>> /\ pc = "idle" /\ image = NoImage
  <2>1. /\ Init /\ xlog = <<>> /\ smeta = InitMeta /\ spages = <<>>
        /\ spos = [block |-> 0, offset |-> 0] /\ log = <<>> /\ nResets = 0
    BY DEF RInit, MetaBlock
  <2>2. meta = InitMeta /\ pages = <<>> /\ pc = "idle" /\ image = NoImage
    BY <2>1 DEF Init
  <2> QED
    BY <2>1, <2>2
<1>2. Whole
  BY <1>1, InitTypes, InitStream DEF Whole
<1>3. Primary /\ Formatted
  BY <1>1, InitPrimary DEF Formatted, NoImage
<1>4. Sequence(xlog) /\ Len(xlog) = 0
  <2>1. xlog \in Seq({})
    BY <1>1
  <2> QED
    BY <1>1, <2>1 DEF Sequence
<1>5. PositionFits
  BY <1>1 DEF PositionFits, Position
<1>6. ReadersFit
  <2>1. PICK t : t = Standby!Idle("none")
    OBVIOUS
  <2>2. readers = [r \in Readers |-> t]
    BY <2>1 DEF RInit, Standby!InitReaders
  <2>3. t \in ReaderSession /\ SessionFits(t)
    BY <2>1, IdleFits
  <2> QED
    BY <2>2, <2>3 DEF ReadersFit
<1>7. PICK h : h = [meta |-> InitMeta, pages |-> <<>>, n |-> 0]
  OBVIOUS
<1>8. PICK H : H = [k \in 1..1 |-> h]
  OBVIOUS
<1>9. h.meta = InitMeta /\ h.pages = <<>> /\ h.n = 0 /\ DOMAIN h.pages = {}
  BY <1>7
<1>10. Snapshot(h)
  <2>1. InitMeta \in MetaPage /\ InitMeta.next < InitMeta.max
    <3>1. InitMeta = [next |-> 1, max |-> 1 + 1]
      BY DEF InitMeta, FirstBlock, MetaBlock
    <3>2. [next |-> 1, max |-> 1 + 1] \in MetaPage
      BY DEF MetaPage
    <3> QED
      BY <3>1, <3>2
  <2>2. /\ Fit(<<>>) /\ Ring(<<>>, InitMeta, Top(<<>>, InitMeta))
        /\ ~Huge(<<>>)
    BY <1>1, <1>2, <1>3 DEF Whole, StreamInv, Shared, RingFits, Primary, Published
  <2>3. Frozen(h.meta, h.pages)
    BY <1>9, <2>1, <2>2 DEF Frozen
  <2> QED
    BY <1>1, <1>9, <2>3 DEF Snapshot, Among, NoneMissing
<1>11. Shows(h)
  BY <1>1, <1>9 DEF Shows, Initialised
<1>12. Chain(H)
  <2>1. /\ DOMAIN H = 1..Len(xlog) + 1 /\ H[1] = h
        /\ \A k \in DOMAIN H : H[k] = h
        /\ Len(xlog) + 1 = 1
        /\ \A k \in 1..Len(xlog) : FALSE
    BY <1>4, <1>8
  <2>2. \A Q : Carried(h.pages, Q, StartBlock)
    BY <1>9 DEF Carried, Arc
  <2> QED
    BY <1>1, <1>9, <1>10, <1>11, <2>1, <2>2 DEF Chain
<1> QED
  BY <1>1, <1>2, <1>3, <1>4, <1>5, <1>6, <1>12 DEF Replicates

\* Every step keeps the invariant.
LEMMA StepReplicates ==
  ASSUME KeepsPace, Replicates, [RNext]_rvars
  PROVE  Replicates'
<1>1. /\ Whole /\ Primary /\ Formatted /\ nResets = 0 /\ Sequence(xlog)
      /\ PositionFits /\ ReadersFit
  BY DEF Replicates
<1>2. PICK H : Chain(H)
  BY DEF Replicates
<1>3. Whole' /\ Formatted'
  <2>1. [Next]_vars
    BY DEF RNext, PrimaryStep, Replay, ReaderStep, ReaderDies, ResetPosition,
           rvars
  <2> QED
    BY <1>1, <2>1, WholeKeeps, FormattedKeeps
<1>4. CASE PrimaryStep
  <2>1. PICK R : xlog \in Seq(R)
    BY <1>1 DEF Sequence
  <2>2. Primary' /\ (QuietStep \/ PublishStep)
    BY <1>1, <1>3, <1>4, <2>1, PrimaryKeeps
  <2>3. UNCHANGED standby /\ nResets' = nResets
    BY <1>4 DEF PrimaryStep
  <2>4. PositionFits' /\ ReadersFit'
    BY <1>1, <2>3, PositionSame, SessionSame DEF standby, ReadersFit
  <2>5. Sequence(xlog')
    <3>1. CASE xlog' = xlog
      BY <1>1, <3>1
    <3>2. ASSUME NEW e, xlog' = Append(xlog, e)
          PROVE  Sequence(xlog')
      <4>1. xlog \in Seq(R \cup {e})
        BY <2>1
      <4>2. xlog' \in Seq(R \cup {e})
        BY <3>2, <4>1
      <4> QED
        BY <4>2 DEF Sequence
    <3> QED
      BY <2>2, <3>1, <3>2 DEF QuietStep, PublishStep
  <2>6. (\E G : Chain(G))'
    <3>1. CASE QuietStep
      BY <1>1, <1>2, <1>3, <2>3, <3>1, ChainQuiet
    <3>2. CASE PublishStep
      BY <1>1, <1>2, <1>3, <2>2, <2>3, <3>2, ChainPublish
    <3> QED
      BY <2>2, <3>1, <3>2
  <2> QED
    BY <1>1, <1>3, <2>2, <2>3, <2>4, <2>5, <2>6 DEF Replicates
<1>5. ASSUME UNCHANGED <<vars, log>>
      PROVE  Primary'
  BY <1>1, <1>5, StutterPrimary
<1>6. CASE Replay
  <2>1. /\ xlog' = Tail(xlog) /\ Len(xlog) > 0
        /\ UNCHANGED <<vars, log, nResets>>
    BY <1>1, <1>2, <1>6, ReplayEffect
  <2>2. Sequence(xlog')
    <3>1. PICK R : xlog \in Seq(R)
      BY <1>1 DEF Sequence
    <3>2. xlog' \in Seq(R)
      BY <2>1, <3>1
    <3> QED
      BY <3>2 DEF Sequence
  <2>3. PositionFits' /\ ReadersFit' /\ (\E G : Chain(G))'
    BY <1>1, <1>2, <1>6, PositionReplay, ReplayReaders, ChainReplay
  <2> QED
    BY <1>1, <1>3, <1>5, <2>1, <2>2, <2>3 DEF Replicates
<1>7. ASSUME NEW r \in Readers, ReaderStep(r) \/ ReaderDies(r)
      PROVE  Replicates'
  <2>1. UNCHANGED <<vars, log, nResets, xlog>>
    BY <1>7 DEF ReaderStep, ReaderDies
  <2>2. Chain(H)' /\ PositionFits' /\ ReadersFit'
    BY <1>1, <1>2, <1>7, ReaderKeeps
  <2> QED
    BY <1>1, <1>3, <1>5, <2>1, <2>2 DEF Replicates
<1>8. ~ResetPosition
  BY <1>1 DEF ResetPosition, KeepsPace
<1>9. CASE UNCHANGED rvars
  <2>1. UNCHANGED <<vars, log, nResets, xlog, smeta, spages, spos, readers>>
    BY <1>9 DEF rvars, standby
  <2>2. Chain(H)' /\ PositionFits' /\ ReadersFit'
    BY <1>1, <1>2, <2>1, ChainSame, PositionSame, SessionSame DEF ReadersFit
  <2> QED
    BY <1>1, <1>3, <1>5, <2>1, <2>2 DEF Replicates
<1> QED
  BY <1>4, <1>6, <1>7, <1>8, <1>9 DEF RNext

\* A standby that keeps up always finds what it needs: whatever the primary
\* writes, aborts and wraps around, and wherever the process that applies
\* dies, PGrnWALApplyConsume meets whole objects only and never raises
\* "unconsumed WAL are overwritten" (pgrn-wal.c).
THEOREM ReaderFindsWhatItNeeds ==
  ASSUME KeepsPace
  PROVE  RSpec => []ReadersNeverFail
<1>1. RInit => Replicates
  BY InitReplicates
<1>2. Replicates /\ [RNext]_rvars => Replicates'
  BY StepReplicates
<1>3. Replicates => ReadersNeverFail
  BY DEF Replicates, ReadersFit, SessionFits, ReadersNeverFail
<1> QED
  BY <1>1, <1>2, <1>3, PTL DEF RSpec

-----------------------------------------------------------------------------
(* What is applied: the objects of the log in order.                       *)

\* The position of the standby is behind object p of the log.
Tells(p) ==
  /\ p \in 0..Len(log)
  /\ IF spos.block = 0 THEN p = 0
     ELSE p > 0 /\ spages[spos.block].data[spos.offset].rec = log[p]

\* An unpacker that has read a page up to its end is behind object q.
BufTells(buf, page, q) ==
  /\ q \in 0..Len(log)
  /\ buf # <<>> => q < Len(log) /\ buf[1].rec = log[q + 1]
  /\ Len(buf) < Len(page.data) =>
       q > 0 /\ page.data[Len(page.data) - Len(buf)].rec = log[q]

\* A reader is behind the object of the position, or behind the next one when
\* it has applied that and has not stored its position yet.
SessionTells(s, p) ==
  /\ s.pc = "consume" =>
       \/ AtStart(s)
       \/ \E b \in DOMAIN spages :
            Between(s, BlockOf(s), b) /\ BufTells(s.buf, spages[b], p)
  /\ s.pc = "object" => BufTells(s.buf, spages[BlockOf(s)], p)
  /\ s.pc = "applied" => BufTells(s.buf, spages[BlockOf(s)], p + 1)

\* The first k objects have been applied, some of them again maybe, but none
\* after a newer one.
Applied(k) ==
  /\ k \in 0..Len(log)
  /\ sdb \in Seq(Nat) /\ Range(sdb) = Told(k)
  /\ \A i, j \in DOMAIN sdb : i <= j => sdb[i] <= sdb[j]
  /\ MaxDeaths = 0 => sdb = SubSeq(log, 1, k)

\* The object behind the position is applied, but the position is not stored:
\* a reader is just about to store it, or has died.
Tracks(p, k) ==
  /\ Tells(p) /\ Applied(k) /\ k \in {p, p + 1}
  /\ \A r \in Readers :
       /\ SessionTells(readers[r], p)
       /\ readers[r].pc = "applied" => k = p + 1
  /\ MaxDeaths = 0 /\ k # p => \E r \in Readers : readers[r].pc = "applied"

AppliesInOrder ==
  Replicates /\ nDeaths \in Nat /\ \E p, k : Tracks(p, k)

-----------------------------------------------------------------------------
(* From one object of the ring to the next.                                *)

\* Inside a page the bytes are in order.
LEMMA PageOrder ==
  ASSUME NEW data \in Seq(Cell),
         \A j \in 1..Len(data) - 1 : Follows(data[j], data[j + 1]),
         NEW i \in 1..Len(data), NEW k \in 1..Len(data), i < k
  PROVE  Older(data[i], data[k])
<1> DEFINE bad == {j \in 1..Len(data) : i < j /\ ~Older(data[i], data[j])}
<1>1. SUFFICES ASSUME bad # {} PROVE FALSE
  OBVIOUS
<1>2. bad \in SUBSET Nat
  OBVIOUS
<1>3. PICK j \in bad : \A l \in bad : j <= l
  <2> HIDE DEF bad
  <2> QED
    BY <1>1, <1>2, LeastNumber
<1>4. j \in 1..Len(data) /\ i < j /\ ~Older(data[i], data[j])
  OBVIOUS
<1>5. Len(data) \in Nat /\ i \in Nat /\ j \in Nat
  BY <1>4
<1>6. PICK h \in 1..Len(data) - 1 : h + 1 = j /\ h \in 1..Len(data)
  <2>1. j - 1 \in 1..Len(data) - 1 /\ (j - 1) + 1 = j /\ j - 1 \in 1..Len(data)
    BY <1>4, <1>5
  <2> QED
    BY <2>1
<1>7. data[i] \in Cell /\ data[h] \in Cell /\ data[j] \in Cell
  BY <1>4, <1>6
<1>8. Older(data[h], data[j])
  BY <1>6, <1>7, OlderOrder
<1>9. h # i
  BY <1>4, <1>8
<1>10. Older(data[i], data[h])
  <2>1. i < h /\ h < j
    BY <1>4, <1>5, <1>6, <1>9
  <2>2. h \notin bad
    <3> HIDE DEF bad
    <3> QED
      BY <1>3, <1>5, <1>6, <2>1
  <2> QED
    BY <1>6, <2>1, <2>2
<1> QED
  BY <1>4, <1>7, <1>8, <1>10, OlderOrder

\* No byte of the ring lies between two bytes.
NoneBetween(P, c, d) ==
  \A b \in DOMAIN P : \A j \in 1..Len(P[b].data) :
    ~(Older(c, P[b].data[j]) /\ Older(P[b].data[j], d))

\* Two bytes next to each other on a page.
LEMMA InPage ==
  ASSUME NEW m, NEW P, Frozen(m, P), P # <<>>, NEW b \in DOMAIN P,
         NEW e \in 1..Len(P[b].data) - 1
  PROVE  NoneBetween(P, P[b].data[e], P[b].data[e + 1])
<1>1. PICK top : top = Top(P, m)
  OBVIOUS
<1>2. PICK data \in Seq(Cell) : data = P[b].data
  BY FrozenRing
<1>3. PICK c \in Cell : c = data[e]
  BY <1>2
<1>4. PICK d \in Cell : d = data[e + 1]
  BY <1>2
<1>5. /\ \A p \in DOMAIN P : P[p].data \in Seq(Cell)
      /\ \A j \in 1..Len(data) - 1 : Follows(data[j], data[j + 1])
  BY <1>2, FrozenRing
<1>6. /\ Len(data) \in Nat /\ e \in 1..Len(data) /\ e + 1 \in 1..Len(data)
      /\ e \in Nat
  BY <1>2
<1> SUFFICES ASSUME NEW o \in DOMAIN P, NEW j \in 1..Len(P[o].data),
                    Older(c, P[o].data[j]), Older(P[o].data[j], d)
             PROVE  FALSE
  BY <1>2, <1>3, <1>4 DEF NoneBetween
<1>7. PICK x \in Cell : x = P[o].data[j]
  BY <1>5
<1>8. CASE o = b
  <2>1. x = data[j] /\ j \in 1..Len(data) /\ j \in Nat
    BY <1>2, <1>7, <1>8
  <2>2. CASE j <= e
    <3>1. j = e \/ Older(x, c)
      BY <1>3, <1>5, <1>6, <2>1, <2>2, PageOrder
    <3> QED
      BY <1>3, <1>7, <2>1, <3>1, OlderOrder
  <2>3. CASE j >= e + 1
    <3>1. j = e + 1 \/ Older(d, x)
      <4>1. j = e + 1 \/ e + 1 < j
        BY <1>6, <2>1, <2>3
      <4> QED
        BY <1>4, <1>5, <1>6, <2>1, <4>1, PageOrder
    <3> QED
      BY <1>4, <1>7, <2>1, <3>1, OlderOrder
  <2> QED
    BY <1>6, <2>1, <2>2, <2>3
<1>9. CASE o # b
  <2>1. Before(m, top, o, b) \/ Before(m, top, b, o)
    <3>1. /\ m.max \in Nat /\ m.next \in Nat /\ DOMAIN P = 1..(m.max - 1)
          /\ top = m.next \/ top = m.next - 1
      BY <1>1, FrozenTop
    <3> QED
      BY <1>9, <3>1 DEF Before
  <2>2. OlderPage(P[o], P[b]) \/ OlderPage(P[b], P[o])
    BY <1>1, <2>1 DEF Frozen, Ring, Sorted
  <2>3. Older(x, c) \/ Older(d, x)
    BY <1>2, <1>3, <1>4, <1>6, <1>7, <2>2 DEF OlderPage
  <2> QED
    BY <1>7, <2>3, OlderOrder
<1> QED
  BY <1>8, <1>9

\* The last byte of a page and the first one of the page after it.
LEMMA AcrossPages ==
  ASSUME NEW m, NEW P, Frozen(m, P), P # <<>>,
         NEW b \in DOMAIN P \ {m.next}, HasData(P, Succ(m, b))
  PROVE  NoneBetween(P, LastCell(P[b]), FirstCell(P[Succ(m, b)]))
<1>1. PICK top : top = Top(P, m)
  OBVIOUS
<1>2. PICK s \in DOMAIN P : s = Succ(m, b)
  BY FrozenRing
<1>3. \A p \in DOMAIN P :
        /\ P[p].data \in Seq(Cell)
        /\ \A j \in 1..Len(P[p].data) - 1 :
             Follows(P[p].data[j], P[p].data[j + 1])
        /\ p # m.next => HasData(P, p)
  BY FrozenRing
<1>4. PICK data \in Seq(Cell) : data = P[b].data /\ Len(data) > 0
  BY <1>3 DEF HasData
<1>5. PICK after \in Seq(Cell) : after = P[s].data /\ Len(after) > 0
  BY <1>2, <1>3 DEF HasData
<1>6. PICK n \in Nat : n = Len(data) /\ n \in 1..Len(data)
  BY <1>4
<1>7. Len(after) \in Nat /\ 1 \in 1..Len(after)
  BY <1>5
<1>8. PICK c \in Cell : c = data[n] /\ c = LastCell(P[b])
  BY <1>4, <1>6 DEF LastCell
<1>9. PICK d \in Cell : d = after[1] /\ d = FirstCell(P[Succ(m, b)])
  BY <1>2, <1>5, <1>7 DEF FirstCell
<1> SUFFICES ASSUME NEW o \in DOMAIN P, NEW j \in 1..Len(P[o].data),
                    Older(c, P[o].data[j]), Older(P[o].data[j], d)
             PROVE  FALSE
  BY <1>8, <1>9 DEF NoneBetween
<1>10. PICK x \in Cell : x = P[o].data[j]
  BY <1>3
<1>11. CASE o = b
  <2>1. x = data[j] /\ j \in 1..n /\ j \in Nat
    BY <1>4, <1>6, <1>10, <1>11
  <2>2. j = n \/ Older(x, c)
    <3>1. j = n \/ j < n
      BY <2>1
    <3>2. \A i \in 1..Len(data) - 1 : Follows(data[i], data[i + 1])
      BY <1>3, <1>4
    <3>3. j \in 1..Len(data)
      BY <1>6, <2>1
    <3>4. j < n => Older(data[j], data[n])
      BY <1>6, <3>2, <3>3, PageOrder
    <3> QED
      BY <1>8, <2>1, <3>1, <3>4
  <2>3. Older(c, x)
    BY <1>10
  <2>4. ~Older(c, c) /\ ~(Older(x, c) /\ Older(c, x))
    BY OlderOrder
  <2>5. j = n => x = c
    BY <1>8, <2>1
  <2> QED
    BY <2>2, <2>3, <2>4, <2>5
<1>12. CASE o = s
  <2>1. x = after[j] /\ j \in 1..Len(after) /\ j \in Nat
    BY <1>5, <1>10, <1>12
  <2>2. j = 1 \/ Older(d, x)
    <3>1. j = 1 \/ 1 < j
      BY <2>1
    <3>2. \A i \in 1..Len(after) - 1 : Follows(after[i], after[i + 1])
      BY <1>3, <1>5
    <3>3. 1 < j => Older(after[1], after[j])
      BY <1>7, <2>1, <3>2, PageOrder
    <3> QED
      BY <1>9, <2>1, <3>1, <3>3
  <2> QED
    BY <1>9, <1>10, <2>1, <2>2, OlderOrder
<1>13. CASE o # b /\ o # s
  <2>1. Before(m, top, o, b) \/ Before(m, top, s, o)
    <3>1. /\ m.max \in Nat /\ m.next \in Nat /\ DOMAIN P = 1..(m.max - 1)
          /\ m.next < m.max /\ m.next > 0
          /\ top = m.next \/ top = m.next - 1
          /\ b # End(m, top)
      BY <1>1, FrozenTop
    <3>2. /\ b \in Nat /\ o \in Nat /\ s \in Nat /\ top \in Nat
          /\ b > 0 /\ b < m.max /\ o > 0 /\ o < m.max
          /\ s = IF b + 1 = m.max THEN 1 ELSE b + 1
      BY <1>2, <3>1 DEF Succ
    <3>3. CASE b + 1 = m.max
      BY <1>13, <3>1, <3>2, <3>3 DEF Before, End
    <3>4. CASE b + 1 # m.max
      BY <1>13, <3>1, <3>2, <3>4 DEF Before, End
    <3> QED
      BY <3>3, <3>4
  <2>2. OlderPage(P[o], P[b]) \/ OlderPage(P[s], P[o])
    BY <1>1, <2>1 DEF Frozen, Ring, Sorted
  <2>3. Older(x, c) \/ Older(d, x)
    BY <1>4, <1>5, <1>6, <1>7, <1>8, <1>9, <1>10, <2>2 DEF OlderPage
  <2> QED
    BY <1>10, <2>3, OlderOrder
<1> QED
  BY <1>11, <1>12, <1>13

\* The pages of the standby have all the objects behind one they have, up to
\* the newest one.
StandbyKnows ==
  /\ \A i \in DOMAIN log : log[i] \in Nat \ {0}
  /\ \A i, j \in DOMAIN log : i < j => log[i] < log[j]
  /\ log \in Seq(Nat \ {0})
  /\ spages # <<>> => log # <<>>
  /\ \E n \in 0..Len(log) :
       Among(spages, Told(n)) /\ NoneMissing(spages, Told(n))

\* Behind the last byte of an object comes the first byte of the next one.
LEMMA NextTold ==
  ASSUME StandbyKnows, NEW c \in Cell, NEW d \in Cell,
         Holds(spages, c.rec), Holds(spages, d.rec),
         Follows(c, d), NoneBetween(spages, c, d),
         c.i = c.n, NEW q \in 1..Len(log), c.rec = log[q]
  PROVE  q < Len(log) /\ d.rec = log[q + 1]
<1>1. d.rec > c.rec /\ c.rec \in Nat /\ d.rec \in Nat
  BY DEF Follows, Cell
<1>2. PICK n \in 0..Len(log) :
        Among(spages, Told(n)) /\ NoneMissing(spages, Told(n))
  BY DEF StandbyKnows
<1>3. Len(log) \in Nat /\ DOMAIN log = 1..Len(log)
  BY DEF StandbyKnows
<1>4. PICK j \in 1..n : d.rec = log[j]
  BY <1>2 DEF Among, Holds, Told
<1>5. j \in DOMAIN log /\ q \in DOMAIN log /\ j \in Nat /\ q \in Nat /\ n \in Nat
  BY <1>2, <1>3, <1>4
<1>6. q < j
  <2>1. j < q => log[j] < log[q]
    BY <1>5 DEF StandbyKnows
  <2>2. j = q => log[j] = log[q]
    OBVIOUS
  <2>3. j < q \/ j = q \/ q < j
    BY <1>5
  <2> QED
    BY <1>1, <1>4, <2>1, <2>2, <2>3
<1>7. PICK k \in 1..n : k = q + 1 /\ k \in DOMAIN log
  BY <1>2, <1>3, <1>4, <1>5, <1>6
<1>8. ~(k < j)
  <2> SUFFICES ASSUME k < j PROVE FALSE
    OBVIOUS
  <2>1. PICK y \in Nat : y = log[k] /\ c.rec < y /\ y < d.rec
    BY <1>4, <1>5, <1>7 DEF StandbyKnows
  <2>2. y \in Told(n)
    BY <1>7, <2>1 DEF Told
  <2>3. PICK b \in DOMAIN spages :
          \E i \in 1..Len(spages[b].data) : spages[b].data[i].rec = c.rec
    BY DEF Holds
  <2>4. PICK i \in 1..Len(spages[b].data) : spages[b].data[i].rec <= y
    BY <1>1, <2>1, <2>3
  <2>5. Holds(spages, y)
    BY <1>2, <2>2, <2>4 DEF NoneMissing
  <2>6. PICK o \in DOMAIN spages :
          \E h \in 1..Len(spages[o].data) : spages[o].data[h].rec = y
    BY <2>5 DEF Holds
  <2>7. PICK h \in 1..Len(spages[o].data) :
          Older(c, spages[o].data[h]) /\ Older(spages[o].data[h], d)
    BY <2>1, <2>6 DEF Older
  <2> QED
    BY <2>7 DEF NoneBetween
<1> QED
  BY <1>3, <1>4, <1>5, <1>6, <1>7, <1>8

\* The object that follows in the same page.
LEMMA InPageTold ==
  ASSUME StandbyFits, StandbyKnows, NEW b \in DOMAIN spages,
         NEW e \in 1..Len(spages[b].data) - 1,
         spages[b].data[e].i = spages[b].data[e].n,
         NEW q \in 1..Len(log), spages[b].data[e].rec = log[q]
  PROVE  q < Len(log) /\ spages[b].data[e + 1].rec = log[q + 1]
<1>1. spages # <<>> /\ Frozen(smeta, spages)
  BY DEF StandbyFits
<1>2. PICK data \in Seq(Cell) : data = spages[b].data
  BY <1>1, FrozenRing
<1>3. e \in 1..Len(data) /\ e + 1 \in 1..Len(data)
  BY <1>2
<1>4. PICK c \in Cell : c = data[e]
  BY <1>3
<1>5. PICK d \in Cell : d = data[e + 1]
  BY <1>3
<1>6. Follows(c, d)
  BY <1>1, <1>2, <1>4, <1>5, FrozenRing
<1>7. NoneBetween(spages, c, d)
  BY <1>1, <1>2, <1>4, <1>5, InPage
<1>8. Holds(spages, c.rec) /\ Holds(spages, d.rec)
  BY <1>2, <1>3, <1>4, <1>5 DEF Holds
<1>9. c.i = c.n /\ c.rec = log[q]
  BY <1>2, <1>4
<1> QED
  BY <1>2, <1>5, <1>6, <1>7, <1>8, <1>9, NextTold

\* The object that follows across the end of a page.
LEMMA AcrossTold ==
  ASSUME StandbyFits, StandbyKnows, NEW b \in DOMAIN spages, b # smeta.next,
         HasData(spages, Succ(smeta, b)),
         LastCell(spages[b]).i = LastCell(spages[b]).n,
         NEW q \in 1..Len(log), LastCell(spages[b]).rec = log[q]
  PROVE  q < Len(log) /\ FirstCell(spages[Succ(smeta, b)]).rec = log[q + 1]
<1>1. spages # <<>> /\ Frozen(smeta, spages)
  BY DEF StandbyFits
<1>2. PICK s \in DOMAIN spages : s = Succ(smeta, b)
  BY <1>1, FrozenRing
<1>3. PICK data \in Seq(Cell) : data = spages[b].data /\ Len(data) > 0
  BY <1>1, FrozenRing DEF HasData
<1>4. PICK after \in Seq(Cell) : after = spages[s].data /\ Len(after) > 0
  BY <1>1, <1>2, FrozenRing DEF HasData
<1>5. Len(data) \in 1..Len(data) /\ 1 \in 1..Len(after)
  BY <1>3, <1>4
<1>6. PICK c \in Cell : c = data[Len(data)] /\ c = LastCell(spages[b])
  BY <1>3, <1>5 DEF LastCell
<1>7. PICK d \in Cell : d = after[1] /\ d = FirstCell(spages[s])
  BY <1>4, <1>5 DEF FirstCell
<1>8. Follows(c, d)
  BY <1>1, <1>2, <1>6, <1>7, FrozenRing
<1>9. NoneBetween(spages, c, d)
  BY <1>1, <1>2, <1>6, <1>7, AcrossPages
<1>10. Holds(spages, c.rec) /\ Holds(spages, d.rec)
  BY <1>3, <1>4, <1>5, <1>6, <1>7 DEF Holds
<1> QED
  BY <1>2, <1>6, <1>7, <1>8, <1>9, <1>10, NextTold

-----------------------------------------------------------------------------
(* The steps of a reader, in the order of the log.                         *)

\* The unpacker's buffer when a page has been read ...
Fed(s, page) == s.buf \o SubSeq(page.data, s.off + 1, Len(page.data))

\* ... and when an object has been taken off it.
Unfed(buf) == SubSeq(buf, buf[1].n + 1, Len(buf))

LEMMA SuffixCells ==
  ASSUME NEW q \in Seq(Cell), NEW e \in 0..Len(q),
         NEW rest, rest = SubSeq(q, e + 1, Len(q))
  PROVE  /\ rest \in Seq(Cell) /\ Len(rest) = Len(q) - e /\ Len(rest) \in Nat
         /\ \A j \in 1..Len(q) - e : rest[j] = q[e + j]
<1>1. Len(q) \in Nat /\ e \in Nat /\ \A j \in 1..Len(q) : q[j] \in Cell
  OBVIOUS
<1>2. rest \in Seq(Cell) /\ Len(rest) = Len(q) - e
      /\ \A j \in 1..Len(q) - e : rest[j] = q[e + j]
  BY <1>1
<1> QED
  BY <1>1, <1>2

\* The cells of two sequences, one after the other.
LEMMA JoinedCells ==
  ASSUME NEW q \in Seq(Cell), NEW r \in Seq(Cell), NEW all, all = q \o r
  PROVE  /\ all \in Seq(Cell) /\ Len(all) = Len(q) + Len(r)
         /\ q # <<>> => all[1] = q[1]
         /\ q = <<>> => all = r
OBVIOUS

\* The bytes of a page that are read begin where the unpacker is.
LEMMA ReadTells ==
  ASSUME StandbyFits, StandbyKnows, NEW s \in ReaderSession, SessionFits(s),
         s.pc = "consume", s.i < Len(spages) + 1, BlockOf(s) # 0,
         NEW p, Tells(p), SessionTells(s, p),
         NEW page, page = spages[BlockOf(s)], NEW buf, buf = Fed(s, page)
  PROVE  BufTells(buf, page, p)
<1>1. /\ spages # <<>> /\ s.start \in DOMAIN spages /\ s.i \in 0..smeta.max
      /\ Frozen(smeta, spages)
  BY DEF SessionFits, StandbyFits
<1>2. PICK b \in DOMAIN spages : b = BlockOf(s)
  BY <1>1, BlockRange
<1>3. PICK data \in Seq(Cell) : data = page.data
  BY <1>1, <1>2, FrozenRing
<1>4. PICK n \in Nat : n = Len(data)
  BY <1>3
<1>5. PICK old \in Seq(Cell) : old = s.buf
  BY DEF ReaderSession
<1>6. p \in 0..Len(log) /\ Len(log) \in Nat
  BY DEF Tells, StandbyKnows
<1>7. CASE AtStart(s)
  <2>1. PICK e \in Nat : e = s.off
    BY DEF ReaderSession
  <2>2. b = StartBlock /\ e = spos.offset /\ old = <<>>
    BY <1>1, <1>2, <1>5, <1>7, <2>1, BlockRange DEF AtStart
  <2>3. e \in 0..n /\ (e > 0 => EndsAt(page, e))
    BY <1>1, <1>2, <1>3, <1>4, <2>2, StartFits
  <2>4. /\ buf = SubSeq(data, e + 1, n) /\ Len(buf) = n - e
        /\ buf # <<>> => e < n /\ buf[1] = data[e + 1]
    <3>1. PICK suffix : suffix = SubSeq(data, e + 1, n)
      OBVIOUS
    <3>2. buf = <<>> \o suffix
      BY <1>3, <1>4, <1>5, <2>1, <2>2, <3>1 DEF Fed
    <3>3. /\ suffix \in Seq(Cell) /\ Len(suffix) = n - e /\ Len(suffix) \in Nat
          /\ \A j \in 1..n - e : suffix[j] = data[e + j]
      BY <1>4, <2>3, <3>1, SuffixCells
    <3>4. buf = suffix
      BY <3>2, <3>3
    <3>5. ASSUME buf # <<>> PROVE e < n /\ buf[1] = data[e + 1]
      <4>1. n - e > 0
        BY <3>3, <3>4, <3>5
      <4> QED
        BY <1>4, <2>3, <3>3, <3>4, <4>1
    <3> QED
      BY <1>4, <3>1, <3>3, <3>4, <3>5
  <2>5. CASE spos.block = 0
    <3>1. p = 0 /\ e = 0 /\ b = 1
      BY <2>2, <2>5 DEF Tells, StandbyFits, PositionFits, StartBlock,
                        Standby!StartBlock, Standby!MetaBlock,
                        Standby!FirstBlock
    <3>2. data[1].rec = log[1] /\ Len(log) > 0
      <4>1. BeginsWith(spages, log[1]) /\ log # <<>>
        BY <1>1, <2>5 DEF StandbyFits, StandbyKnows
      <4>2. Len(log) > 0
        BY <4>1 DEF StandbyKnows
      <4> QED
        BY <1>2, <1>3, <3>1, <4>1, <4>2 DEF BeginsWith
    <3> QED
      BY <1>3, <1>4, <1>6, <2>4, <3>1, <3>2 DEF BufTells
  <2>6. CASE spos.block # 0
    <3>1. p \in 1..Len(log) /\ b = spos.block /\ e > 0 /\ e \in 1..n
          /\ data[e].rec = log[p] /\ data[e].i = data[e].n
      <4>1. b = spos.block
        BY <2>2, <2>6 DEF StartBlock, Standby!StartBlock, Standby!MetaBlock
      <4>2. EndsAt(page, e)
        BY <1>2, <2>2, <2>6, <4>1 DEF StandbyFits, PositionFits
      <4>3. e \in 1..n /\ data[e].i = data[e].n
        BY <1>3, <1>4, <4>2 DEF EndsAt
      <4>4. p > 0 /\ data[e].rec = log[p]
        BY <1>2, <1>3, <2>2, <2>6, <4>1 DEF Tells
      <4> QED
        BY <1>6, <4>1, <4>3, <4>4
    <3>2. ASSUME buf # <<>> PROVE p < Len(log) /\ buf[1].rec = log[p + 1]
      <4>1. e \in 1..Len(spages[b].data) - 1
        <5>1. e < n /\ e \in 1..n
          BY <2>4, <3>1, <3>2
        <5> QED
          BY <1>2, <1>3, <1>4, <5>1
      <4>2. /\ spages[b].data[e].i = spages[b].data[e].n
            /\ spages[b].data[e].rec = log[p]
        BY <1>2, <1>3, <3>1
      <4>3. p < Len(log) /\ spages[b].data[e + 1].rec = log[p + 1]
        BY <3>1, <4>1, <4>2, InPageTold
      <4> QED
        BY <1>2, <1>3, <2>4, <3>2, <4>3
    <3>3. n - Len(buf) = e
      BY <2>4, <1>4, <3>1
    <3> QED
      <4>1. p \in 0..Len(log) /\ p > 0
        BY <1>6, <3>1
      <4>2. page.data[Len(page.data) - Len(buf)].rec = log[p]
        BY <1>3, <1>4, <3>1, <3>3
      <4> QED
        BY <3>2, <4>1, <4>2 DEF BufTells
  <2> QED
    BY <2>5, <2>6
<1>8. ASSUME NEW o \in DOMAIN spages, Between(s, b, o),
             BufTells(old, spages[o], p)
      PROVE  BufTells(buf, page, p)
  <2>1. /\ s.off = 0 /\ o # smeta.next /\ HasData(spages, o)
        /\ b = Succ(smeta, o) /\ BufFits(old, spages[o])
    BY <1>2, <1>5, <1>8 DEF Between, Arc
  <2>2. buf = old \o data
    <3>1. SubSeq(page.data, s.off + 1, Len(page.data)) = data
      BY <1>3, <2>1, WholeSeq
    <3> QED
      BY <1>5, <3>1 DEF Fed
  <2>3. Len(buf) = Len(old) + n /\ Len(old) \in Nat
    BY <1>3, <1>4, <1>5, <2>2
  <2>4. ~(Len(buf) < n)
    BY <1>4, <2>3
  <2>5. CASE old # <<>>
    <3>1. buf[1] = old[1]
      BY <2>2, <2>5, JoinedCells
    <3> QED
      BY <1>3, <1>4, <1>6, <1>8, <2>4, <2>5, <3>1 DEF BufTells
  <2>6. CASE old = <<>>
    <3>1. buf = data
      BY <1>3, <2>2, <2>6
    <3>2. ASSUME buf # <<>> PROVE p < Len(log) /\ buf[1].rec = log[p + 1]
      <4>1. HasData(spages, Succ(smeta, o))
        <5>1. Len(data) > 0
          BY <1>3, <3>1, <3>2
        <5> QED
          BY <1>2, <1>3, <2>1, <5>1 DEF HasData
      <4>2. PICK before \in Seq(Cell) :
              before = spages[o].data /\ Len(before) > 0
        BY <1>1, <2>1, FrozenRing DEF HasData
      <4>3. /\ LastCell(spages[o]) = before[Len(before)]
            /\ Len(old) = 0 /\ Len(before) - Len(old) = Len(before)
        BY <2>6, <4>2 DEF LastCell
      <4>4. LastCell(spages[o]).i = LastCell(spages[o]).n
        BY <2>1, <4>2, <4>3 DEF BufFits, EndsAt
      <4>5. p > 0 /\ LastCell(spages[o]).rec = log[p]
        BY <1>8, <4>2, <4>3 DEF BufTells
      <4>6. p \in 1..Len(log)
        BY <1>6, <4>5
      <4>7. p < Len(log) /\ FirstCell(page).rec = log[p + 1]
        BY <1>2, <2>1, <4>1, <4>4, <4>5, <4>6, AcrossTold
      <4> QED
        BY <1>3, <3>1, <4>7 DEF FirstCell
    <3> QED
      BY <1>3, <1>4, <1>6, <2>4, <3>2 DEF BufTells
  <2> QED
    BY <2>5, <2>6
<1> QED
  BY <1>2, <1>5, <1>7, <1>8 DEF SessionTells

\* The object that comes off the unpacker is the next one of the log.
LEMMA ApplyTells ==
  ASSUME StandbyFits, StandbyKnows, NEW buf \in Seq(Cell),
         NEW b \in DOMAIN spages, BufFits(buf, spages[b]),
         Standby!Complete(buf), NEW p, BufTells(buf, spages[b], p),
         NEW rest, rest = Unfed(buf)
  PROVE  /\ p + 1 \in 1..Len(log) /\ p \in Nat /\ buf[1].rec = log[p + 1]
         /\ BufTells(rest, spages[b], p + 1)
<1>1. /\ buf # <<>> /\ Standby!Intact(buf) /\ Len(buf) >= buf[1].n
      /\ Len(buf) \in Nat
  BY DEF Standby!Complete
<1>2. PICK n \in Nat \ {0} : n = buf[1].n
  <2>1. buf[1] \in Cell
    BY <1>1
  <2> QED
    BY <2>1 DEF Cell
<1>3. p \in 0..Len(log) /\ p < Len(log) /\ buf[1].rec = log[p + 1]
      /\ Len(log) \in Nat
  BY <1>1 DEF BufTells, StandbyKnows
<1>4. PICK q \in 1..Len(log) : q = p + 1
  BY <1>3
<1>5. spages[b] \in Page /\ spages[b].data \in Seq(Cell)
  BY FrozenRing, PageCells DEF StandbyFits
<1>6. PICK data \in Seq(Cell) : data = spages[b].data
  BY <1>5
<1>7. PICK l \in Nat : l = Len(data)
  BY <1>6
<1>8. rest \in Seq(Cell) /\ BufFits(rest, spages[b]) /\ Len(rest) < l
  <2>1. rest = SubSeq(buf, buf[1].n + 1, Len(buf))
    BY DEF Unfed
  <2>2. /\ rest \in Seq(Cell) /\ BufFits(rest, spages[b])
        /\ Len(rest) < Len(spages[b].data)
    BY <1>5, <2>1, DropFits
  <2> QED
    BY <1>6, <1>7, <2>2
<1>9. Len(rest) = Len(buf) - n /\ Len(rest) \in Nat /\ n \in 1..Len(buf)
  <2>1. PICK m \in Nat : m = Len(buf)
    BY <1>1
  <2>2. n \in 1..m
    BY <1>1, <1>2, <2>1
  <2>3. rest = SubSeq(buf, n + 1, m)
    BY <1>2, <2>1 DEF Unfed
  <2>4. Len(rest) = m - n /\ Len(rest) \in Nat
    BY <2>1, <2>2, <2>3
  <2> QED
    BY <2>1, <2>2, <2>4
<1>10. PICK e \in 1..l : e = l - Len(rest)
  <2>1. Len(rest) \in Nat /\ Len(rest) < l /\ l \in Nat
    BY <1>8, <1>9
  <2>2. l - Len(rest) \in 1..l
    BY <2>1
  <2> QED
    BY <2>2
<1>11. data[e] = buf[n]
  <2>1. Len(rest) \in 0..Len(buf) - 1 /\ Len(buf) - Len(rest) = n
    <3>1. Len(rest) \in Nat /\ Len(buf) \in Nat /\ n \in Nat /\ n > 0
      BY <1>1, <1>2, <1>9
    <3> QED
      BY <1>9, <3>1
  <2> QED
    BY <1>6, <1>7, <1>8, <1>10, <2>1 DEF BufFits
<1>12. data[e].rec = log[q] /\ data[e].i = data[e].n
  <2>1. n \in 1..Standby!Available(buf)
    BY <1>1, <1>2 DEF Standby!Available
  <2>2. buf[n] = [buf[1] EXCEPT !.i = n]
    BY <1>1, <2>1 DEF Standby!Intact
  <2>3. buf[1] \in Cell
    BY <1>1
  <2> QED
    BY <1>2, <1>3, <1>4, <1>11, <2>2, <2>3 DEF Cell
<1>13. ASSUME rest # <<>> PROVE q < Len(log) /\ rest[1].rec = log[q + 1]
  <2>1. Len(rest) > 0
    BY <1>8, <1>13
  <2>2. rest[1] = data[e + 1]
    <3>1. Len(rest) - 1 \in 0..Len(rest) - 1 /\ Len(rest) - (Len(rest) - 1) = 1
          /\ Len(rest) - 1 < l /\ l - (Len(rest) - 1) = e + 1
      BY <1>7, <1>8, <1>9, <1>10, <2>1
    <3> QED
      BY <1>6, <1>7, <1>8, <3>1 DEF BufFits
  <2>3. e \in 1..Len(spages[b].data) - 1
    BY <1>6, <1>7, <1>9, <1>10, <2>1
  <2> QED
    <3>1. /\ spages[b].data[e].i = spages[b].data[e].n
          /\ spages[b].data[e].rec = log[q]
      BY <1>6, <1>12
    <3>2. q < Len(log) /\ spages[b].data[e + 1].rec = log[q + 1]
      BY <2>3, <3>1, InPageTold
    <3> QED
      BY <1>6, <2>2, <3>2
<1>14. BufTells(rest, spages[b], q)
  BY <1>3, <1>6, <1>7, <1>10, <1>12, <1>13 DEF BufTells
<1> QED
  BY <1>3, <1>4, <1>14

\* The standby has applied one object more, or the newest one again.
LEMMA AppliedMore ==
  ASSUME StandbyKnows, NEW p \in Nat, NEW k \in {p, p + 1}, Applied(k),
         p + 1 \in 1..Len(log), MaxDeaths = 0 => k = p,
         sdb' = Append(sdb, log[p + 1]), log' = log
  PROVE  Applied(p + 1)'
<1>1. Len(log) \in Nat /\ DOMAIN log = 1..Len(log)
      /\ \A i \in DOMAIN log : log[i] \in Nat
  BY DEF StandbyKnows
<1>2. PICK q \in DOMAIN log : q = p + 1
  BY <1>1
<1>3. PICK x \in Nat : x = log[q] /\ x = log[p + 1]
  BY <1>1, <1>2
<1>4. /\ sdb \in Seq(Nat) /\ Len(sdb) \in Nat /\ DOMAIN sdb = 1..Len(sdb)
      /\ Range(sdb) = Told(k)
      /\ \A i, j \in DOMAIN sdb : i <= j => sdb[i] <= sdb[j]
      /\ \A i \in DOMAIN sdb : sdb[i] \in Nat
  BY DEF Applied
<1>5. /\ sdb' \in Seq(Nat) /\ DOMAIN sdb' = 1..Len(sdb) + 1
      /\ sdb'[Len(sdb) + 1] = x
      /\ \A i \in 1..Len(sdb) : sdb'[i] = sdb[i]
  BY <1>3, <1>4
<1>6. Told(k) \cup {x} = Told(q)
  <2>1. k = p \/ k = q
    BY <1>2
  <2>2. 1..q = (1..p) \cup {q} /\ 1..q = (1..q) \cup {q}
    BY <1>2
  <2>3. CASE k = p
    BY <1>3, <2>2, <2>3 DEF Told
  <2>4. CASE k = q
    BY <1>3, <2>2, <2>4 DEF Told
  <2> QED
    BY <2>1, <2>3, <2>4
<1>7. \A y \in Told(q) : y <= x
  <2> SUFFICES ASSUME NEW i \in 1..q PROVE log[i] <= x
    BY DEF Told
  <2>1. i \in DOMAIN log /\ (i = q \/ i < q)
    BY <1>1, <1>2
  <2> QED
    <3>1. CASE i = q
      <4>1. log[i] = x
        BY <1>3, <3>1
      <4>2. x <= x
        OBVIOUS
      <4> QED
        BY <4>1, <4>2
    <3>2. CASE i < q
      <4>1. log[i] < log[q]
        BY <2>1, <3>2 DEF StandbyKnows
      <4>2. log[i] \in Nat
        BY <1>1, <2>1
      <4> QED
        BY <1>3, <4>1, <4>2
    <3> QED
      BY <2>1, <3>1, <3>2
<1>8. Range(sdb') = Told(q)
  <2>1. Range(sdb') = Range(sdb) \cup {x}
    <3>1. \A y \in Range(sdb') : y \in Range(sdb) \cup {x}
      BY <1>4, <1>5 DEF Range
    <3>2. x \in Range(sdb')
      BY <1>4, <1>5 DEF Range
    <3>3. Range(sdb) \subseteq Range(sdb')
      BY <1>4, <1>5 DEF Range
    <3> QED
      BY <3>1, <3>2, <3>3
  <2> QED
    BY <1>4, <1>6, <2>1
<1>9. ASSUME NEW i \in DOMAIN sdb', NEW j \in DOMAIN sdb', i <= j
      PROVE  sdb'[i] <= sdb'[j]
  <2>1. CASE j = Len(sdb) + 1
    <3>1. sdb'[i] \in Told(q)
      BY <1>8 DEF Range
    <3> QED
      BY <1>5, <1>7, <2>1, <3>1
  <2>2. CASE j # Len(sdb) + 1
    <3>1. i \in DOMAIN sdb /\ j \in DOMAIN sdb
      BY <1>4, <1>5, <1>9, <2>2
    <3> QED
      BY <1>4, <1>5, <1>9, <3>1
  <2> QED
    BY <2>1, <2>2
<1>10. ASSUME MaxDeaths = 0 PROVE sdb' = SubSeq(log, 1, q)
  <2>1. sdb = SubSeq(log, 1, p)
    BY <1>10 DEF Applied
  <2>2. Len(sdb) = p /\ \A i \in 1..p : sdb[i] = log[i]
    BY <1>1, <1>2, <2>1 DEF StandbyKnows
  <2>3. /\ sdb' \in Seq(Nat) /\ DOMAIN sdb' = 1..q
        /\ \A i \in 1..q : sdb'[i] = log[i]
    BY <1>2, <1>3, <1>5, <2>2
  <2>4. /\ SubSeq(log, 1, q) \in Seq(Nat) /\ DOMAIN SubSeq(log, 1, q) = 1..q
        /\ \A i \in 1..q : SubSeq(log, 1, q)[i] = log[i]
    BY <1>1, <1>2 DEF StandbyKnows
  <2>5. PICK all \in Seq(Nat) : all = SubSeq(log, 1, q)
    BY <2>4
  <2>6. PICK new \in Seq(Nat) : new = sdb'
    BY <2>3
  <2>7. new = [i \in 1..q |-> new[i]] /\ all = [i \in 1..q |-> all[i]]
    BY <2>3, <2>4, <2>5, <2>6
  <2>8. \A i \in 1..q : new[i] = all[i]
    BY <2>3, <2>4, <2>5, <2>6
  <2> QED
    BY <2>5, <2>6, <2>7, <2>8
<1>11. Told(q)' = Told(q)
  BY DEF Told
<1>12. Applied(q)'
  BY <1>1, <1>2, <1>5, <1>8, <1>9, <1>10, <1>11 DEF Applied
<1> QED
  BY <1>2, <1>12

\* Nothing is told that has not been told when the log grows.
LEMMA LogGrows ==
  ASSUME StandbyKnows, log' = log \/ \E x : log' = Append(log, x),
         UNCHANGED standby, NEW p, NEW k, Tracks(p, k)
  PROVE  Tracks(p, k)'
<1>1. /\ smeta' = smeta /\ spages' = spages /\ spos' = spos /\ sdb' = sdb
      /\ readers' = readers /\ StartBlock' = StartBlock
  BY DEF standby, StartBlock, Standby!StartBlock
<1>2. PICK n \in Nat : n = Len(log)
  BY DEF StandbyKnows
<1>3. /\ Len(log') \in Nat /\ n <= Len(log')
      /\ \A i \in 1..n : log'[i] = log[i]
  <2>1. log \in Seq(Nat \ {0})
    BY DEF StandbyKnows
  <2>2. CASE log' = log
    BY <1>2, <2>1, <2>2
  <2>3. CASE \E x : log' = Append(log, x)
    BY <1>2, <2>1, <2>3
  <2> QED
    BY <2>2, <2>3
<1>4. p \in 0..n /\ k \in 0..n
  BY <1>2 DEF Tracks, Tells, Applied
<1>5. Tells(p)'
  <2>1. spos.block # 0 => p \in 1..n
    BY <1>4 DEF Tracks, Tells
  <2> QED
    BY <1>1, <1>2, <1>3, <1>4, <2>1 DEF Tracks, Tells
<1>6. Applied(k)'
  <2>1. Told(k)' = Told(k)
    BY <1>3, <1>4 DEF Told
  <2>2. SubSeq(log', 1, k) = SubSeq(log, 1, k)
    BY <1>2, <1>3, <1>4 DEF StandbyKnows
  <2> QED
    BY <1>1, <1>2, <1>3, <1>4, <2>1, <2>2 DEF Tracks, Applied
<1>7. \A buf, page, q : BufTells(buf, page, q) => BufTells(buf, page, q)'
  <2> SUFFICES ASSUME NEW buf, NEW page, NEW q, BufTells(buf, page, q)
               PROVE  BufTells(buf, page, q)'
    OBVIOUS
  <2>1. /\ q \in 0..n
        /\ buf # <<>> => q < n /\ buf[1].rec = log[q + 1]
        /\ Len(buf) < Len(page.data) =>
             q > 0 /\ page.data[Len(page.data) - Len(buf)].rec = log[q]
    BY <1>2 DEF BufTells
  <2>2. q < n => q + 1 \in 1..n
    BY <2>1
  <2>3. q > 0 => q \in 1..n
    BY <2>1
  <2> QED
    BY <1>2, <1>3, <2>1, <2>2, <2>3 DEF BufTells
<1>8. \A s : SessionTells(s, p) => SessionTells(s, p)'
  <2> SUFFICES ASSUME NEW s, SessionTells(s, p) PROVE SessionTells(s, p)'
    OBVIOUS
  <2>1. BlockOf(s)' = BlockOf(s)
    BY <1>1 DEF BlockOf
  <2>2. AtStart(s)' <=> AtStart(s)
    BY <1>1 DEF AtStart
  <2>3. \A b, o : Between(s, b, o)' <=> Between(s, b, o)
    BY <1>1 DEF Between
  <2>4. \A q, b : BufTells(s.buf, spages[b], q)
                    => BufTells(s.buf, spages[b], q)'
    BY <1>1, <1>7
  <2> QED
    BY <1>1, <2>1, <2>2, <2>3, <2>4 DEF SessionTells
<1> QED
  BY <1>1, <1>5, <1>6, <1>8 DEF Tracks

\* The position tells the same when its page has been replayed.
LEMMA ReplayTracks ==
  ASSUME Sequence(xlog), NEW H, Chain(H), Replay, PositionFits, ReadersFit,
         NEW p, NEW k, Tracks(p, k)
  PROVE  Tracks(p, k)'
<1>1. /\ Standby!Consuming = {} /\ readers' = readers /\ Len(xlog) > 0
      /\ spages' = H[2].pages /\ spos' = spos /\ sdb' = sdb /\ log' = log
  BY ReplayEffect
<1>2. \A r \in Readers : readers[r].pc \notin {"consume", "object", "applied"}
  BY <1>1 DEF Standby!Consuming
<1>3. \A r \in Readers : SessionTells(readers[r], p)'
  BY <1>1, <1>2 DEF SessionTells
<1>4. Applied(k)'
  BY <1>1 DEF Tracks, Applied, Told
<1>5. Tells(p)'
  <2>1. CASE spos.block = 0
    BY <1>1, <2>1 DEF Tracks, Tells
  <2>2. CASE spos.block # 0
    <3>1. PICK b : b = spos.block
      OBVIOUS
    <3>2. b \in DOMAIN spages /\ EndsAt(spages[b], spos.offset) /\ StartBlock = b
      BY <2>2, <3>1
      DEF PositionFits, StartBlock, Standby!StartBlock, Standby!MetaBlock
    <3>3. /\ 1 \in DOMAIN H /\ 2 \in DOMAIN H /\ H[1].pages = spages
          /\ Paged(spages) /\ Paged(H[2].pages)
      <4>1. 1 \in DOMAIN H /\ 2 \in DOMAIN H
        BY <1>1, ChainPages
      <4> QED
        BY <4>1, ChainPages DEF Chain
    <3>4. Carried(spages, H[2].pages, StartBlock)
      BY <3>3 DEF Chain
    <3>5. spos.offset \in 1..Len(spages[b].data) /\ Len(spages[b].data) \in Nat
      BY <3>2, <3>3, PagedCells DEF EndsAt
    <3>6. b \in Arc(spages, StartBlock)
      BY <3>2, <3>5 DEF Arc, HasData
    <3>7. H[2].pages[b].data[spos.offset] = spages[b].data[spos.offset]
      BY <3>4, <3>5, <3>6 DEF Carried, Extends
    <3> QED
      BY <1>1, <2>2, <3>1, <3>7 DEF Tracks, Tells
  <2> QED
    BY <2>1, <2>2
<1> QED
  BY <1>1, <1>2, <1>3, <1>4, <1>5 DEF Tracks

\* A step of the one process that applies.
LEMMA SessionMoves ==
  ASSUME KeepsPace, ReadersFit, NEW r \in Readers, NEW t \in ReaderSession,
         Standby!Update(r, t), NEW p, NEW k, Tells(p)', Applied(k)',
         k \in {p, p + 1}, SessionTells(t, p)',
         t.pc = "applied" => k = p + 1,
         MaxDeaths = 0 /\ k # p => t.pc = "applied"
  PROVE  Tracks(p, k)'
<1>1. readers \in [Readers -> ReaderSession]
  BY DEF ReadersFit
<1>2. readers' = [readers EXCEPT ![r] = t]
  BY DEF Standby!Update
<1>3. readers'[r] = t
  BY <1>1, <1>2
<1>4. \A q \in Readers : q = r
  BY DEF KeepsPace
<1> QED
  BY <1>3, <1>4 DEF Tracks

\* What a reader sees does not change while it reads.
LEMMA TellsSame ==
  ASSUME UNCHANGED <<smeta, spages, spos, log>>
  PROVE  /\ \A p : Tells(p) => Tells(p)'
         /\ \A s, p : SessionTells(s, p) => SessionTells(s, p)'
<1>1. /\ smeta' = smeta /\ spages' = spages /\ spos' = spos /\ log' = log
      /\ StartBlock' = StartBlock
  BY DEF StartBlock, Standby!StartBlock
<1>2. \A s : BlockOf(s)' = BlockOf(s)
  BY <1>1 DEF BlockOf
<1>3. \A s : AtStart(s)' <=> AtStart(s)
  BY <1>1 DEF AtStart
<1>4. \A s, b, o : Between(s, b, o)' <=> Between(s, b, o)
  BY <1>1 DEF Between
<1>5. \A buf, page, q : BufTells(buf, page, q)' <=> BufTells(buf, page, q)
  BY <1>1 DEF BufTells
<1>6. \A p : Tells(p) => Tells(p)'
  BY <1>1 DEF Tells
<1>7. ASSUME NEW s, NEW p, SessionTells(s, p) PROVE SessionTells(s, p)'
  BY <1>1, <1>2, <1>3, <1>4, <1>5, <1>7 DEF SessionTells
<1> QED
  BY <1>6, <1>7

\* A reader applies the objects one after the other.
LEMMA ReaderTracks ==
  ASSUME KeepsPace, Sequence(xlog), NEW H, Chain(H), PositionFits, ReadersFit,
         StandbyKnows, NEW p, NEW k, Tracks(p, k), nDeaths \in Nat,
         NEW r \in Readers, ReaderStep(r) \/ ReaderDies(r)
  PROVE  (\E q, l : Tracks(q, l))'
<1>1. StandbyFits
  BY ChainStandby
<1>2. PICK s \in ReaderSession : s = readers[r] /\ SessionFits(s)
  BY DEF ReadersFit
<1>3. /\ smeta' = smeta /\ spages' = spages /\ log' = log
  BY DEF ReaderStep, ReaderDies, Standby!Step, Standby!Check, Standby!Lock,
         Standby!Skip, Standby!RaiseOverwritten, Standby!ReadPage,
         Standby!ApplyObject, Standby!SetPosition, Standby!Garbled,
         Standby!NextBlock, Standby!Done, Standby!Die
<1>4. Standby!Block(r) = BlockOf(s)
  BY <1>2 DEF Standby!Block, Standby!NBlocks, BlockOf
<1>5. /\ Tells(p) /\ Applied(k) /\ k \in {p, p + 1} /\ SessionTells(s, p)
      /\ p \in Nat /\ k \in Nat
      /\ s.pc = "applied" => k = p + 1
      /\ MaxDeaths = 0 /\ k # p => s.pc = "applied"
  <2>1. \A q \in Readers : q = r
    BY DEF KeepsPace
  <2>2. p \in 0..Len(log) /\ k \in 0..Len(log) /\ Len(log) \in Nat
    BY DEF Tracks, Tells, Applied, StandbyKnows
  <2>3. p \in Nat /\ k \in Nat
    BY <2>2
  <2> QED
    BY <1>2, <2>1, <2>3 DEF Tracks
<1>6. ASSUME NEW t \in ReaderSession, Standby!Update(r, t),
             SessionTells(t, p), t.pc # "applied", s.pc # "applied",
             spos' = spos, sdb' = sdb
      PROVE  (\E q, l : Tracks(q, l))'
  <2>1. Tells(p)' /\ SessionTells(t, p)'
    BY <1>3, <1>5, <1>6, TellsSame
  <2>2. Applied(k)'
    BY <1>3, <1>5, <1>6 DEF Applied, Told
  <2>3. Tracks(p, k)'
    BY <1>5, <1>6, <2>1, <2>2, SessionMoves
  <2> QED
    BY <2>3
<1>7. ASSUME NEW o \in {"none", "done", "died"}, Standby!Leave(r, o),
             s.pc # "applied" \/ MaxDeaths # 0, spos' = spos, sdb' = sdb
      PROVE  (\E q, l : Tracks(q, l))'
  <2>1. PICK t : t = Standby!Idle(o)
    OBVIOUS
  <2>2. Standby!Update(r, t)
    BY <1>7, <2>1 DEF Standby!Leave
  <2>3. t \in ReaderSession /\ t.pc = "idle"
    BY <1>7, <2>1, IdleFits DEF Standby!Idle
  <2>4. SessionTells(t, p)'
    BY <2>3 DEF SessionTells
  <2>5. Tells(p)' /\ Applied(k)'
    BY <1>3, <1>5, <1>7, TellsSame DEF Applied, Told
  <2>6. Tracks(p, k)'
    BY <1>5, <1>7, <2>2, <2>3, <2>4, <2>5, SessionMoves
  <2> QED
    BY <2>6
<1>8. CASE ReaderDies(r)
  <2>1. Standby!Leave(r, "died") /\ spos' = spos /\ sdb' = sdb
    BY <1>8 DEF ReaderDies, Standby!Die
  <2>2. MaxDeaths # 0
    BY <1>8, ReplicationAssumption DEF ReaderDies
  <2> QED
    BY <1>7, <2>1, <2>2
<1>9. CASE Standby!Check(r)
  <2>1. PICK t : t = [Standby!Idle("none") EXCEPT !.pc = "needed"]
    OBVIOUS
  <2>2. Standby!Update(r, t) /\ spos' = spos /\ sdb' = sdb /\ s.pc = "idle"
    BY <1>2, <1>9, <2>1 DEF Standby!Check
  <2>3. t = [pc |-> "needed", start |-> 0, i |-> 0, off |-> 0, end |-> 0,
             buf |-> <<>>, outcome |-> "none"]
    BY <2>1 DEF Standby!Idle, Standby!MetaBlock
  <2>4. t \in ReaderSession /\ t.pc = "needed"
    BY <2>3 DEF ReaderSession
  <2>5. SessionTells(t, p)
    BY <2>4 DEF SessionTells
  <2> QED
    BY <1>6, <2>2, <2>4, <2>5
<1>10. CASE Standby!Lock(r)
  <2>1. PICK t : t = [s EXCEPT !.pc = "consume", !.start = StartBlock,
                               !.off = spos.offset]
    OBVIOUS
  <2>2. /\ Standby!Update(r, t) /\ spos' = spos /\ sdb' = sdb
        /\ s.pc = "needed"
    BY <1>2, <1>10, <2>1 DEF Standby!Lock, StartBlock
  <2>3. t \in ReaderSession /\ SessionFits(t)
    BY <1>1, <1>2, <2>1, <2>2, LockFits
  <2>4. t.pc = "consume" /\ t.i = s.i /\ s.i = 0
    BY <1>2, <2>1, <2>2 DEF ReaderSession, SessionFits
  <2>5. AtStart(t)
    BY <2>3, <2>4 DEF SessionFits, Between
  <2>6. SessionTells(t, p)
    BY <2>4, <2>5 DEF SessionTells
  <2> QED
    BY <1>6, <2>2, <2>3, <2>4, <2>6
<1>11. CASE Standby!Skip(r)
  <2>1. PICK t : t = [s EXCEPT !.i = s.i + 1]
    OBVIOUS
  <2>2. /\ Standby!Update(r, t) /\ spos' = spos /\ sdb' = sdb
        /\ s.pc = "consume" /\ s.i < Len(spages) + 1
        /\ BlockOf(s) = 0 \/ BlockOf(s) > smeta.max
    BY <1>2, <1>4, <1>11, <2>1
    DEF Standby!Skip, Standby!AtBlock, Standby!Skipped, Standby!NBlocks,
        Standby!MetaBlock
  <2>3. /\ t \in ReaderSession /\ ~AtStart(s)
        /\ \A o : Between(s, BlockOf(s), o) => Between(t, BlockOf(t), o)
    BY <1>1, <1>2, <2>1, <2>2, SkipFits
  <2>4. t.pc = "consume" /\ t.buf = s.buf
    BY <2>1, <2>2 DEF ReaderSession
  <2>5. SessionTells(t, p)
    BY <1>5, <2>2, <2>3, <2>4 DEF SessionTells
  <2> QED
    BY <1>6, <2>2, <2>3, <2>4, <2>5
<1>12. ASSUME Standby!AtBlock(r), ~Standby!Skipped(r)
       PROVE  /\ s.pc = "consume" /\ s.i < Len(spages) + 1 /\ BlockOf(s) # 0
              /\ s.off <= LastOffset(spages[BlockOf(s)])
              /\ spages[BlockOf(s)].init
  <2>1. s.pc = "consume" /\ s.i < Len(spages) + 1 /\ BlockOf(s) # 0
    BY <1>2, <1>4, <1>12
    DEF Standby!AtBlock, Standby!Skipped, Standby!NBlocks, Standby!MetaBlock
  <2> QED
    BY <1>1, <1>2, <2>1, ReadFits
<1>13. ~Standby!RaiseOverwritten(r) /\ ~Standby!Garbled(r)
  <2>1. ReadersFit'
    BY ReaderKeeps
  <2>2. SessionFits(readers[r])'
    BY <2>1 DEF ReadersFit
  <2>3. readers'[r].outcome \notin {"garbled", "overwritten"}
    BY <2>2 DEF SessionFits
  <2>4. ASSUME NEW o, Standby!Leave(r, o) PROVE readers'[r].outcome = o
    BY <2>4 DEF Standby!Leave, Standby!Update, Standby!Idle, ReadersFit
  <2> QED
    BY <2>3, <2>4 DEF Standby!RaiseOverwritten, Standby!Garbled
<1>14. CASE Standby!ReadPage(r)
  <2>1. PICK page : page = spages[BlockOf(s)]
    OBVIOUS
  <2>2. PICK t : t = [s EXCEPT !.pc = "object",
                        !.buf = s.buf \o SubSeq(page.data, s.off + 1,
                                                Len(page.data)),
                        !.end = LastOffset(page)]
    OBVIOUS
  <2>3. /\ s.pc = "consume" /\ s.i < Len(spages) + 1 /\ BlockOf(s) # 0
        /\ page.init
    BY <1>12, <1>14, <2>1 DEF Standby!ReadPage
  <2>4. Standby!Update(r, t) /\ spos' = spos /\ sdb' = sdb
    BY <1>2, <1>4, <1>14, <2>1, <2>2, <2>3
    DEF Standby!ReadPage, LastOffset, Standby!LastOffset
  <2>5. t \in ReaderSession
    BY <1>1, <1>2, <2>1, <2>2, <2>3, ReadFits
  <2>6. t.pc = "object" /\ t.buf = Fed(s, page) /\ BlockOf(t) = BlockOf(s)
    BY <2>2 DEF Fed, ReaderSession, BlockOf
  <2>7. BufTells(t.buf, page, p)
    BY <1>1, <1>2, <1>5, <2>1, <2>3, <2>6, ReadTells
  <2>8. SessionTells(t, p)
    BY <2>1, <2>6, <2>7 DEF SessionTells
  <2> QED
    BY <1>6, <2>3, <2>4, <2>5, <2>6, <2>8
<1>15. CASE Standby!ApplyObject(r)
  <2>1. PICK t : t = [s EXCEPT !.pc = "applied",
                        !.buf = SubSeq(s.buf, s.buf[1].n + 1, Len(s.buf))]
    OBVIOUS
  <2>2. /\ Standby!Update(r, t) /\ spos' = spos /\ s.pc = "object"
        /\ Standby!Complete(s.buf) /\ sdb' = Append(sdb, s.buf[1].rec)
    BY <1>2, <1>15, <2>1 DEF Standby!ApplyObject
  <2>3. t \in ReaderSession
    BY <1>1, <1>2, <2>1, <2>2, ApplyFits
  <2>4. /\ t.pc = "applied" /\ t.buf = Unfed(s.buf)
        /\ BlockOf(t) = BlockOf(s)
    BY <2>1 DEF Unfed, ReaderSession, BlockOf
  <2>5. /\ s.buf \in Seq(Cell) /\ BlockOf(s) \in DOMAIN spages
        /\ BufFits(s.buf, spages[BlockOf(s)])
        /\ BufTells(s.buf, spages[BlockOf(s)], p)
    BY <1>2, <1>5, <2>2 DEF ReaderSession, SessionFits, AtPage, SessionTells
  <2>6. /\ p + 1 \in 1..Len(log) /\ s.buf[1].rec = log[p + 1]
        /\ BufTells(t.buf, spages[BlockOf(s)], p + 1)
    BY <1>1, <2>2, <2>4, <2>5, ApplyTells
  <2>7. Applied(p + 1)'
    BY <1>3, <1>5, <2>2, <2>6, AppliedMore
  <2>8. Tells(p)' /\ SessionTells(t, p)'
    <3>1. SessionTells(t, p)
      BY <2>4, <2>6 DEF SessionTells
    <3> QED
      BY <1>3, <1>5, <2>2, <3>1, TellsSame
  <2>9. Tracks(p, p + 1)'
    BY <2>2, <2>3, <2>4, <2>7, <2>8, SessionMoves
  <2> QED
    BY <2>9
<1>16. CASE Standby!SetPosition(r)
  <2>1. PICK t : t = [s EXCEPT !.pc = "object"]
    OBVIOUS
  <2>2. /\ Standby!Update(r, t) /\ s.pc = "applied" /\ sdb' = sdb
        /\ spos' = [block |-> BlockOf(s), offset |-> s.end - Len(s.buf)]
    BY <1>2, <1>4, <1>16, <2>1 DEF Standby!SetPosition, Standby!EndOfObject
  <2>3. t \in ReaderSession /\ spos'.block # 0
    BY <1>1, <1>2, <1>3, <2>1, <2>2, PositionKeeps
  <2>4. t.pc = "object" /\ t.buf = s.buf /\ BlockOf(t)' = BlockOf(s)
    BY <1>3, <2>1 DEF ReaderSession, BlockOf
  <2>5. PICK q \in Nat : q = p + 1
    BY <1>5
  <2>6. /\ k = q /\ BufTells(s.buf, spages[BlockOf(s)], q)
        /\ s.end = Len(spages[BlockOf(s)].data) /\ Len(s.buf) < s.end
    BY <1>2, <1>5, <2>2, <2>5 DEF SessionTells, SessionFits, AtPage
  <2>7. Tells(q)'
    <3>1. /\ q \in 0..Len(log) /\ q > 0
          /\ spages[BlockOf(s)].data[s.end - Len(s.buf)].rec = log[q]
      BY <2>6 DEF BufTells
    <3>2. spos'.block = BlockOf(s) /\ spos'.offset = s.end - Len(s.buf)
      BY <2>2
    <3> QED
      BY <1>3, <2>3, <3>1, <3>2 DEF Tells
  <2>8. SessionTells(t, q)'
    <3>1. PICK b : b = BlockOf(s)
      OBVIOUS
    <3>2. BufTells(s.buf, spages[b], q)'
      BY <1>3, <2>6, <3>1 DEF BufTells
    <3>3. BlockOf(t)' = b
      BY <2>4, <3>1
    <3> QED
      BY <2>4, <3>2, <3>3 DEF SessionTells
  <2>9. Applied(q)'
    BY <1>3, <1>5, <2>2, <2>6 DEF Applied, Told
  <2>10. Tracks(q, q)'
    BY <2>2, <2>3, <2>4, <2>7, <2>8, <2>9, SessionMoves
  <2> QED
    BY <2>10
<1>17. CASE Standby!NextBlock(r)
  <2>1. PICK t : t = [s EXCEPT !.pc = "consume", !.i = s.i + 1, !.off = 0]
    OBVIOUS
  <2>2. /\ Standby!Update(r, t) /\ spos' = spos /\ sdb' = sdb
        /\ s.pc = "object"
        /\ Standby!NeedsMore(s.buf) /\ BlockOf(s) # smeta.next
    BY <1>2, <1>4, <1>17, <2>1 DEF Standby!NextBlock
  <2>3. /\ t \in ReaderSession /\ BlockOf(s) \in DOMAIN spages
        /\ Between(t, BlockOf(t), BlockOf(s))
    BY <1>1, <1>2, <2>1, <2>2, NextFits
  <2>4. t.pc = "consume" /\ t.buf = s.buf
    BY <2>1 DEF ReaderSession
  <2>5. BufTells(s.buf, spages[BlockOf(s)], p)
    BY <1>5, <2>2 DEF SessionTells
  <2>6. SessionTells(t, p)
    BY <2>3, <2>4, <2>5 DEF SessionTells
  <2> QED
    BY <1>6, <2>2, <2>3, <2>4, <2>6
<1>18. CASE Standby!Done(r)
  <2>1. Standby!Leave(r, "done") /\ spos' = spos /\ sdb' = sdb
        /\ s.pc # "applied"
    BY <1>2, <1>18 DEF Standby!Done
  <2> QED
    BY <1>7, <2>1
<1> QED
  BY <1>8, <1>9, <1>10, <1>11, <1>13, <1>14, <1>15, <1>16, <1>17, <1>18
  DEF ReaderStep, Standby!Step

-----------------------------------------------------------------------------
(* Nothing is skipped, applied out of order or applied twice.              *)

\* What the first invariant says about the log and the standby.
LEMMA ReplicatesKnows ==
  ASSUME Replicates
  PROVE  StandbyKnows
<1>1. PICK H : Chain(H)
  BY DEF Replicates
<1>2. Snapshot(H[1]) /\ H[1].pages = spages
  <2>1. 1 \in DOMAIN H
    BY <1>1, ChainPages DEF Replicates
  <2> QED
    BY <1>1, <2>1 DEF Chain
<1>3. /\ log \in Seq(Nat \ {0})
      /\ \A i, j \in DOMAIN log : i < j => log[i] < log[j]
  BY DEF Replicates, Primary, LogFits
<1> QED
  BY <1>2, <1>3 DEF StandbyKnows, Snapshot

\* Nothing is published at first.
LEMMA InitInOrder ==
  ASSUME KeepsPace, RInit
  PROVE  AppliesInOrder
<1>1. /\ spos.block = 0 /\ log = <<>> /\ sdb = <<>> /\ nDeaths = 0
      /\ readers = [r \in Readers |-> Standby!Idle("none")]
  BY DEF RInit, Standby!InitReaders, MetaBlock
<1>2. \A r \in Readers : readers[r].pc = "idle"
  BY <1>1 DEF Standby!Idle
<1>3. Tells(0)
  BY <1>1 DEF Tells
<1>4. Applied(0)
  <2>1. Range(sdb) = {} /\ Told(0) = {}
    BY <1>1 DEF Range, Told
  <2>2. sdb \in Seq(Nat) /\ DOMAIN sdb = {}
    BY <1>1
  <2>3. SubSeq(log, 1, 0) = <<>>
    BY <1>1
  <2>4. 0 \in 0..Len(log)
    BY <1>1
  <2>5. \A i, j \in DOMAIN sdb : i <= j => sdb[i] <= sdb[j]
    BY <2>2
  <2> QED
    BY <1>1, <2>1, <2>2, <2>3, <2>4, <2>5 DEF Applied
<1>5. Tracks(0, 0)
  BY <1>2, <1>3, <1>4 DEF Tracks, SessionTells
<1> QED
  BY <1>1, <1>5, InitReplicates DEF AppliesInOrder

\* How a step moves what is published and what is applied.
StepShape ==
  \/ sdb' = sdb /\ (log' = log \/ \E x : log' = Append(log, x))
  \/ log' = log /\ \E x : sdb' = Append(sdb, x)

\* Every step keeps the order.
LEMMA StepInOrder ==
  ASSUME KeepsPace, AppliesInOrder, [RNext]_rvars
  PROVE  AppliesInOrder' /\ StepShape
<1>1. /\ Replicates /\ Replicates' /\ StandbyKnows /\ nDeaths \in Nat
      /\ Sequence(xlog) /\ PositionFits /\ ReadersFit
  BY StepReplicates, ReplicatesKnows DEF AppliesInOrder, Replicates
<1>2. PICK H : Chain(H)
  BY <1>1 DEF Replicates
<1>3. PICK p, k : Tracks(p, k)
  BY DEF AppliesInOrder
<1>4. CASE PrimaryStep
  <2>1. PICK R : xlog \in Seq(R)
    BY <1>1 DEF Sequence
  <2>2. QuietStep \/ PublishStep
    BY <1>1, <1>4, <2>1, PrimaryKeeps DEF Replicates
  <2>3. UNCHANGED standby /\ sdb' = sdb /\ nDeaths' = nDeaths
    BY <1>4 DEF PrimaryStep, standby
  <2>4. log' = log \/ \E x : log' = Append(log, x)
    BY <2>2 DEF QuietStep, PublishStep
  <2>5. Tracks(p, k)'
    BY <1>1, <1>3, <2>3, <2>4, LogGrows
  <2> QED
    BY <1>1, <2>3, <2>4, <2>5 DEF AppliesInOrder, StepShape
<1>5. CASE Replay
  <2>1. Tracks(p, k)'
    BY <1>1, <1>2, <1>3, <1>5, ReplayTracks
  <2>2. sdb' = sdb /\ log' = log /\ nDeaths' = nDeaths
    BY <1>5 DEF Replay
  <2> QED
    BY <1>1, <2>1, <2>2 DEF AppliesInOrder, StepShape
<1>6. ASSUME NEW r \in Readers, ReaderStep(r) \/ ReaderDies(r)
      PROVE  AppliesInOrder' /\ StepShape
  <2>1. (\E q, l : Tracks(q, l))'
    BY <1>1, <1>2, <1>3, <1>6, ReaderTracks
  <2>2. nDeaths' \in Nat
    BY <1>1, <1>6 DEF ReaderStep, ReaderDies
  <2>3. StepShape
    <3>1. CASE ReaderDies(r)
      BY <3>1 DEF ReaderDies, Standby!Die, StepShape
    <3>2. CASE ReaderStep(r)
      BY <3>2
      DEF ReaderStep, StepShape, Standby!Step, Standby!Check, Standby!Lock,
          Standby!Skip, Standby!RaiseOverwritten, Standby!ReadPage,
          Standby!ApplyObject, Standby!SetPosition, Standby!Garbled,
          Standby!NextBlock, Standby!Done
    <3> QED
      BY <1>6, <3>1, <3>2
  <2> QED
    BY <1>1, <2>1, <2>2, <2>3 DEF AppliesInOrder
<1>7. ~ResetPosition
  BY <1>1 DEF Replicates, ResetPosition, KeepsPace
<1>8. CASE UNCHANGED rvars
  <2>1. log' = log /\ UNCHANGED standby /\ sdb' = sdb /\ nDeaths' = nDeaths
    BY <1>8 DEF rvars, standby
  <2>2. Tracks(p, k)'
    BY <1>1, <1>3, <2>1, LogGrows
  <2> QED
    BY <1>1, <2>1, <2>2 DEF AppliesInOrder, StepShape
<1> QED
  BY <1>4, <1>5, <1>6, <1>7, <1>8 DEF RNext

\* The second invariant holds, and what steps do to the log and the database.
LEMMA AlwaysInOrder ==
  ASSUME KeepsPace
  PROVE  RSpec => []AppliesInOrder /\ [][StepShape]_rvars
<1>1. RInit => AppliesInOrder
  BY InitInOrder
<1>2. AppliesInOrder /\ [RNext]_rvars => AppliesInOrder' /\ StepShape
  BY StepInOrder
<1> QED
  BY <1>1, <1>2, PTL DEF RSpec

\* The objects applied are the first ones published: none is skipped, also
\* when the process that applies has died.
THEOREM NoneIsSkipped ==
  ASSUME KeepsPace
  PROVE  RSpec => []NothingSkipped
<1>1. AppliesInOrder => NothingSkipped
  <2> SUFFICES ASSUME AppliesInOrder PROVE NothingSkipped
    OBVIOUS
  <2>1. PICK k : Applied(k)
    BY DEF AppliesInOrder, Tracks
  <2>2. log \in Seq(Nat \ {0}) /\ k \in 0..Len(log)
    BY <2>1, ReplicatesKnows DEF AppliesInOrder, StandbyKnows, Applied
  <2>3. Range(SubSeq(log, 1, k)) = Told(k)
    <3>1. /\ DOMAIN SubSeq(log, 1, k) = 1..k
          /\ \A i \in 1..k : SubSeq(log, 1, k)[i] = log[i]
      BY <2>2
    <3> QED
      BY <3>1 DEF Range, Told
  <2> QED
    BY <2>1, <2>2, <2>3 DEF NothingSkipped, Applied
<1> QED
  BY <1>1, AlwaysInOrder, PTL

\* The greatest of the numbers up to n that have something.
LEMMA HasGreatest ==
  ASSUME NEW n \in Nat, NEW S \in SUBSET (1..n), S # {}
  PROVE  Max(S) \in S
<1> DEFINE T == {n - j : j \in S}
<1>1. T \in SUBSET Nat /\ T # {}
  <2>1. \A j \in S : n - j \in Nat
    OBVIOUS
  <2>2. PICK j \in S : TRUE
    OBVIOUS
  <2>3. n - j \in T
    BY <2>2
  <2>4. T \in SUBSET Nat
    BY <2>1
  <2> QED
    BY <2>3, <2>4
<1> HIDE DEF T
<1>2. PICK l \in T : \A m \in T : l <= m
  BY <1>1, LeastNumber
<1>3. PICK x \in S : l = n - x
  BY DEF T
<1>4. \A j \in S : n - x <= n - j
  BY <1>2, <1>3 DEF T
<1>5. \A j \in S : j <= x
  BY <1>4
<1>6. Max(S) = x
  BY <1>5, MaxIs
<1> QED
  BY <1>6

\* An object that has been applied more than once was applied for the last time
\* before any newer object was: keys in the Groonga database end up as the log
\* says.
THEOREM EndsInOrder ==
  ASSUME KeepsPace
  PROVE  RSpec => []ReplaysEndInOrder
<1>1. AppliesInOrder => ReplaysEndInOrder
  <2> SUFFICES ASSUME AppliesInOrder, NEW a \in Range(sdb), NEW b \in Range(sdb),
                      a < b
               PROVE  LastApplication(a) < LastApplication(b)
    BY DEF ReplaysEndInOrder
  <2>1. PICK k : Applied(k)
    BY DEF AppliesInOrder, Tracks
  <2>2. /\ sdb \in Seq(Nat) /\ Len(sdb) \in Nat /\ DOMAIN sdb = 1..Len(sdb)
        /\ \A i, j \in DOMAIN sdb : i <= j => sdb[i] <= sdb[j]
    BY <2>1 DEF Applied
  <2>3. ASSUME NEW rec \in Range(sdb)
        PROVE  /\ LastApplication(rec) \in DOMAIN sdb
               /\ sdb[LastApplication(rec)] = rec
    <3> DEFINE S == {j \in DOMAIN sdb : sdb[j] = rec}
    <3>1. S # {} /\ S \in SUBSET (1..Len(sdb))
      BY <2>2, <2>3 DEF Range
    <3> HIDE DEF S
    <3>2. Max(S) \in S
      BY <2>2, <3>1, HasGreatest
    <3> QED
      BY <3>2 DEF LastApplication, S
  <2>4. PICK x \in DOMAIN sdb : x = LastApplication(a) /\ sdb[x] = a
    BY <2>3
  <2>5. PICK y \in DOMAIN sdb : y = LastApplication(b) /\ sdb[y] = b
    BY <2>3
  <2>6. a \in Nat /\ b \in Nat /\ x \in Nat /\ y \in Nat
    BY <2>2, <2>4, <2>5
  <2>7. ~(y <= x)
    <3>1. y <= x => b <= a
      BY <2>2, <2>4, <2>5
    <3> QED
      BY <2>6, <3>1
  <2> QED
    BY <2>4, <2>5, <2>6, <2>7
<1> QED
  BY <1>1, AlwaysInOrder, PTL

\* No object is applied after a newer one, so no later change of a tuple is
\* undone.
THEOREM NeverGoesBack ==
  ASSUME KeepsPace
  PROVE  RSpec => NeverBackwards
<1> DEFINE Onwards ==
             sdb' # sdb => \A j \in DOMAIN sdb : sdb[j] <= sdb'[Len(sdb')]
<1>1. AppliesInOrder /\ AppliesInOrder' /\ StepShape => Onwards
  <2> SUFFICES ASSUME AppliesInOrder, AppliesInOrder', sdb' # sdb, StepShape,
                      NEW j \in DOMAIN sdb
               PROVE  sdb[j] <= sdb'[Len(sdb')]
    OBVIOUS
  <2>1. PICK x : sdb' = Append(sdb, x)
    BY DEF StepShape
  <2>2. (\E l : Applied(l))'
    BY DEF AppliesInOrder, Tracks
  <2>3. /\ sdb' \in Seq(Nat) /\ DOMAIN sdb' = 1..Len(sdb')
        /\ \A i, m \in DOMAIN sdb' : i <= m => sdb'[i] <= sdb'[m]
    BY <2>2 DEF Applied
  <2>4. PICK k : Applied(k)
    BY DEF AppliesInOrder, Tracks
  <2>5. sdb \in Seq(Nat) /\ Len(sdb) \in Nat /\ j \in 1..Len(sdb)
    BY <2>4 DEF Applied
  <2>6. Len(sdb') = Len(sdb) + 1 /\ sdb'[j] = sdb[j]
    BY <2>1, <2>5
  <2>7. j \in DOMAIN sdb' /\ Len(sdb') \in DOMAIN sdb' /\ j <= Len(sdb')
    BY <2>3, <2>5, <2>6
  <2>8. sdb'[j] <= sdb'[Len(sdb')]
    BY <2>3, <2>7
  <2> QED
    BY <2>6, <2>8
<1>2. RSpec => []AppliesInOrder /\ [][StepShape]_rvars
  BY AlwaysInOrder
<1>3. RSpec => [][Onwards]_rvars
  <2> HIDE DEF Onwards
  <2> QED
    BY <1>1, <1>2, PTL
<1> QED
  BY <1>3 DEF NeverBackwards, Onwards

\* When the process that applies does not die, the position it stores is right
\* behind the object applied last.
THEOREM PositionBehindLastObject ==
  ASSUME KeepsPace, MaxDeaths = 0
  PROVE  RSpec => []PositionAfterLastObject
<1>1. AppliesInOrder => PositionAfterLastObject
  <2> SUFFICES ASSUME AppliesInOrder, sdb # <<>>,
                      \A r \in Readers : readers[r].pc # "applied"
               PROVE  LET c == PreviousCell(spos)
                      IN  c.i = c.n /\ c.rec = sdb[Len(sdb)]
    BY DEF PositionAfterLastObject
  <2>1. PICK p, k : Tracks(p, k)
    BY DEF AppliesInOrder
  <2>2. k = p /\ Tells(p) /\ Applied(k)
    BY <2>1 DEF Tracks
  <2>3. log \in Seq(Nat \ {0}) /\ k \in 0..Len(log) /\ sdb = SubSeq(log, 1, k)
    BY <2>2, ReplicatesKnows DEF AppliesInOrder, StandbyKnows, Applied
  <2>4. k > 0 /\ sdb[Len(sdb)] = log[k]
    <3>1. Len(sdb) = k /\ \A i \in 1..k : sdb[i] = log[i]
      BY <2>3
    <3>2. k # 0
      BY <2>3
    <3>3. k \in 1..k
      BY <2>3, <3>2
    <3> QED
      BY <3>1, <3>3
  <2>5. spos.block # 0 /\ spages[spos.block].data[spos.offset].rec = log[k]
    BY <2>2, <2>4 DEF Tells
  <2>6. EndsAt(spages[spos.block], spos.offset) /\ spos.offset > 0
    BY <2>5 DEF AppliesInOrder, Replicates, PositionFits, EndsAt, Position
  <2>7. PreviousCell(spos) = spages[spos.block].data[spos.offset]
    BY <2>6 DEF PreviousCell
  <2> QED
    BY <2>4, <2>5, <2>6, <2>7 DEF EndsAt
<1> QED
  BY <1>1, AlwaysInOrder, PTL

\* The safety part of WALDelivery: when the process that applies does not die,
\* every step of the primary, the stream and the standby publishes something,
\* or delivers the next object that is published and not delivered yet, or is
\* a stutter of the promise.
THEOREM DeliversInOrderOnce ==
  ASSUME KeepsPace, MaxDeaths = 0
  PROVE  RSpec => Delivery!Safe
<1>1. RInit => Delivery!Init
  BY DEF RInit, Delivery!Init
<1>2. AppliesInOrder /\ AppliesInOrder' /\ StepShape
        => [Delivery!Next]_(Delivery!vars)
  <2> SUFFICES ASSUME AppliesInOrder, AppliesInOrder', StepShape,
                      ~UNCHANGED <<log, sdb>>
               PROVE  Delivery!Next
    BY DEF Delivery!vars
  <2>1. log \in Seq(Nat \ {0}) /\ Len(log) \in Nat
    BY ReplicatesKnows DEF AppliesInOrder, StandbyKnows
  <2>2. ASSUME sdb' = sdb, NEW x, log' = Append(log, x)
        PROVE  Delivery!Publish
    <3>1. Len(log') = Len(log) + 1 /\ SubSeq(log', 1, Len(log)) = log
      BY <2>1, <2>2
    <3>2. Len(log') > Len(log)
      BY <2>1, <3>1
    <3> QED
      BY <2>2, <3>1, <3>2 DEF Delivery!Publish
  <2>3. ASSUME log' = log, NEW x, sdb' = Append(sdb, x)
        PROVE  Delivery!Deliver
    <3>1. PICK k : Applied(k)
      BY DEF AppliesInOrder, Tracks
    <3>2. (\E l : Applied(l))'
      BY DEF AppliesInOrder, Tracks
    <3>3. PICK l : l \in 0..Len(log) /\ sdb' = SubSeq(log, 1, l)
      BY <2>3, <3>2 DEF Applied
    <3>4. sdb \in Seq(Nat) /\ Len(sdb) \in Nat
      BY <3>1 DEF Applied
    <3>5. Len(sdb') = Len(sdb) + 1 /\ sdb'[Len(sdb) + 1] = x
      BY <2>3, <3>4
    <3>6. Len(sdb') = l /\ \A i \in 1..l : sdb'[i] = log[i]
      BY <2>1, <3>3
    <3>7. Len(sdb) < Len(log) /\ x = log[Len(sdb) + 1]
      BY <2>1, <3>3, <3>4, <3>5, <3>6
    <3> QED
      BY <2>3, <3>7 DEF Delivery!Deliver
  <2> QED
    BY <2>2, <2>3 DEF StepShape, Delivery!Next
<1>3. RSpec => []AppliesInOrder /\ [][StepShape]_rvars
  BY AlwaysInOrder
<1>4. UNCHANGED rvars => UNCHANGED Delivery!vars
  BY DEF rvars, standby, Delivery!vars
<1> QED
  BY <1>1, <1>2, <1>3, <1>4, PTL DEF RSpec, Delivery!Safe
=============================================================================
