---------------------------- MODULE PGrnWALPages ----------------------------
(***************************************************************************)
(* The pages of an index relation that PGroonga writes its own WAL to, and *)
(* the meta page that says where the ring of pages goes on (pgrn-wal.c).   *)
(*                                                                         *)
(* Block 0 is the meta page.  Blocks 1, 2, ... carry one stream of         *)
(* MessagePack objects: an object may span pages, and one page may hold    *)
(* several objects.  A byte of the stream is a cell: the object it belongs *)
(* to, its place in that object and the size the object announced.         *)
(***************************************************************************)
EXTENDS Integers, Sequences

CONSTANTS
  PageSize,      \* bytes a page carries: BLCKSZ without the page header
  MaxXLogPages   \* MAX_GENERIC_XLOG_PAGES: buffers one generic record may hold

ASSUME PagesAssumption ==
  /\ PageSize \in Nat \ {0}
  /\ MaxXLogPages \in Nat
  /\ MaxXLogPages >= 2          \* the meta page and one page of data

\* PGRN_WAL_META_PAGE_BLOCK_NUMBER and the first block after it.
MetaBlock == 0
FirstBlock == MetaBlock + 1

Cell == [rec : Nat \ {0}, i : Nat \ {0}, n : Nat \ {0}]

\* c2 is the byte that comes right after c1 in an intact stream.  Object
\* numbers may skip: an object whose session was aborted is never published.
Follows(c1, c2) ==
  IF c1.i < c1.n
  THEN c2 = [c1 EXCEPT !.i = c1.i + 1]
  ELSE c2.i = 1 /\ c2.rec > c1.rec

\* A page PageInit has prepared, and a block the relation was extended by
\* (P_NEW) that nobody has initialised: every byte of its header is zero.
EmptyPage == [init |-> TRUE, data |-> <<>>]
ZeroPage  == [init |-> FALSE, data |-> <<>>]
Page == [init : BOOLEAN, data : Seq(Cell)]

\* pd_upper - pd_lower: a zero page has no free byte, like a full one.
FreeSize(page) == IF page.init THEN PageSize - Len(page.data) ELSE 0

\* pd_lower - SizeOfPageHeaderData.  LocationIndex is 16 bits wide: on a zero
\* page 0 - 24 wraps around to 65512, eight times what a page can carry.
LastOffset(page) == IF page.init THEN Len(page.data) ELSE 8 * PageSize

AppendTo(page, cells) ==
  [init |-> page.init, data |-> page.data \o cells]

MetaPage == [next : Nat \ {0}, max : Nat \ {0}]

InitMeta == [next |-> FirstBlock, max |-> FirstBlock + 1]

\* The mutant: max stays where it is.
AdvanceKeepsMax(m) == [m EXCEPT !.next = m.next + 1]

\* next moves to the block after it; max stays above next.
Advance(m) ==
  [next |-> m.next + 1,
   max  |-> IF m.next + 1 >= m.max THEN m.next + 2 ELSE m.max]

\* pgroonga.max_wal_size in pages, 0 for no limit, as PGrnWALPageFilled uses
\* it: the meta page and two pages of data at least.
EffectiveLimit(limit) == IF limit < 3 THEN 3 ELSE limit

\* The mutants: a ring that is one page short, and one that wraps on the meta
\* page's count alone.
FilledOnePageShort(m, limit) ==
  IF limit = 0 \/ 2 + m.next < EffectiveLimit(limit)
  THEN Advance(m)
  ELSE [next |-> FirstBlock, max |-> m.next + 1]
FilledGoesBackOne(m, limit) ==
  IF limit = 0 \/ 1 + m.next < EffectiveLimit(limit)
  THEN Advance(m)
  ELSE [next |-> m.next - 1, max |-> m.next + 1]

\* PGrnWALPageFilled: where the stream goes on once the page next is full.
Filled(m, limit) ==
  IF limit = 0 \/ 1 + m.next < EffectiveLimit(limit)
  THEN Advance(m)
  ELSE [next |-> FirstBlock, max |-> m.next + 1]

\* f with f[x] = v, x being in the domain of f or not.
Put(f, x, v) == [y \in DOMAIN f \cup {x} |-> IF y = x THEN v ELSE f[y]]
=============================================================================
