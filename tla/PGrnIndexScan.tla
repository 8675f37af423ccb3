----------------------------- MODULE PGrnIndexScan -----------------------------
(***************************************************************************)
(* Scans of an index while others insert, delete and VACUUM.               *)
(*                                                                         *)
(* The index knows nothing of transactions.  A scan takes the rows of the  *)
(* index that match when its cursor is opened, and reads the place in the  *)
(* heap (ctid) of each of them when its turn comes; the row, its record ID *)
(* and its place may have been given to another tuple by then.  The heap   *)
(* tells what the snapshot sees.  A place all of whose tuples are dead     *)
(* makes the scan remove the row (kill_prior_tuple).                       *)
(*                                                                         *)
(* The participants of a parallel statement share one flag; one of them    *)
(* scans.  A scan holds pointers to objects of Groonga in its opaque, which*)
(* PGrnEnsureLatestDB closes in the whole process after a VACUUM.          *)
(***************************************************************************)
EXTENDS Integers, Sequences, SequencesExt, FiniteSets

CONSTANTS
  Participants,  \* the leader of a statement and its parallel workers
  Leader,
  Tids,          \* the places of the one page of the heap
  MaxTuples,     \* bound: tuples that are inserted
  MaxTime,       \* bound: transactions that commit
  MaxVacuums,    \* bound: VACUUMs and ANALYZEs
  MaxStatements  \* bound: statements, rescans included

ASSUME ScanAssumption ==
  /\ Tids \subseteq Nat \ {0} /\ 1 .. 2 \subseteq Tids
  /\ Leader \in Participants

VARIABLES
  tuples,      \* tuples[n]: [tid, matches, born, died, by]
  heap,        \* heap[tid]: the tuple there, or None
  allVisible,  \* the page's bit in the visibility map
  rows,        \* rows[id]: the tuple whose ctid and columns the row has, or None
  free,        \* the IDs of removed rows, the next one to use at the end
  now,         \* commits so far
  statement,   \* [pc, kind, snapshot, returned, nested, broken]
  scan,        \* scan[p]: the opaque of p and what the executor has of it
  scanning,    \* PGrnParallelScanDescData.scanning
  vacuum,      \* [pc, targets]
  outdated,    \* the leader's process has not unmapped since the last VACUUM
  vacuumed,    \* tuples VACUUM took from the heap
  killed,      \* tuples whose rows scans removed
  count        \* what the bounds count

heapVars == <<tuples, heap, allVisible, now>>
index == <<rows, free>>
vars == <<heapVars, index, statement, scan, scanning, vacuum, outdated, vacuumed, killed, count>>

None == 0
InProgress == 0
Aborted == -1
Alive == 0

NoStatement == [pc |-> "idle", kind |-> "", snapshot |-> None, returned |-> <<>>, nested |-> FALSE, broken |-> FALSE]
ScanKinds == {"tuples", "index only", "bitmap"}

-----------------------------------------------------------------------------
(* The heap: transactions of one command, snapshots and dead tuples.       *)

Visible(n, snapshot) ==
  /\ tuples[n].born \in 1 .. snapshot
  /\ tuples[n].died = Alive \/ tuples[n].died > snapshot

Running == statement.pc = "running"
OldestSnapshot == IF Running THEN statement.snapshot ELSE now
DeadToAll(n) ==
  \/ tuples[n].born = Aborted
  \/ tuples[n].died # Alive /\ tuples[n].died <= OldestSnapshot

Reads == {n \in DOMAIN tuples : tuples[n].matches /\ Visible(n, statement.snapshot)}

Delete(n) ==
  /\ tuples[n].born > InProgress
  /\ tuples[n].died = Alive
  /\ now < MaxTime
  /\ now' = now + 1
  /\ tuples' = [tuples EXCEPT ![n].died = now + 1]
  /\ allVisible' = FALSE
  /\ UNCHANGED <<heap, index, statement, scan, scanning, vacuum, outdated, vacuumed, killed, count>>

\* What the leader's own statement inserts ends with it.
EndsNow(n) == tuples[n].by = "leader" => ~Running
Commit(n) ==
  /\ tuples[n].born = InProgress
  /\ EndsNow(n)
  /\ now < MaxTime
  /\ now' = now + 1
  /\ tuples' = [tuples EXCEPT ![n].born = now + 1]
  /\ UNCHANGED <<heap, allVisible, index, statement, scan, scanning, vacuum, outdated, vacuumed, killed, count>>
Abort(n) ==
  /\ tuples[n].born = InProgress
  /\ EndsNow(n)
  /\ tuples' = [tuples EXCEPT ![n].born = Aborted]
  /\ UNCHANGED <<heap, allVisible, now, index, statement, scan, scanning, vacuum, outdated, vacuumed, killed, count>>

-----------------------------------------------------------------------------
(* Objects of Groonga in the leader's process.                             *)

\* PGrnScanOpaques: an opaque is in the list from pgroonga_beginscan on.
NScanOpaques(p) == IF scan[p].open THEN 1 ELSE 0

\* PGrnUnmapDB closes what the opaque refers to.
UnmapDB ==
  /\ outdated' = FALSE
  /\ statement' = [statement EXCEPT !.broken = @ \/ NScanOpaques(Leader) > 0]
EnsureLatestDB == IF outdated THEN UnmapDB ELSE UNCHANGED <<outdated, statement>>

\* Mutant: pgroonga_insert does not look at PGrnNScanOpaques.
InsertEnsuresAlways(by) ==
  IF by = "leader" THEN EnsureLatestDB ELSE UNCHANGED <<outdated, statement>>
InsertEnsures(by) ==
  IF by = "leader" /\ NScanOpaques(Leader) = 0 THEN EnsureLatestDB ELSE UNCHANGED <<outdated, statement>>

\* pgroonga_insert, after the tuple was put into the heap: by another process,
\* or by an UPDATE of the leader.
Insert(by, tid, matches) ==
  LET n == Len(tuples) + 1
      id == IF free = <<>> THEN Len(rows) + 1 ELSE Last(free)
  IN /\ n <= MaxTuples
     /\ heap[tid] = None
     /\ by = "leader" => Running
     /\ tuples' = Append(tuples, [tid |-> tid, matches |-> matches, born |-> InProgress, died |-> Alive, by |-> by])
     /\ heap' = [heap EXCEPT ![tid] = n]
     /\ allVisible' = FALSE
     /\ InsertEnsures(by)
     /\ rows' = IF id \in DOMAIN rows THEN [rows EXCEPT ![id] = n] ELSE Append(rows, n)
     /\ free' = IF free = <<>> THEN free ELSE Front(free)
     /\ UNCHANGED <<now, scan, scanning, vacuum, vacuumed, killed, count>>

-----------------------------------------------------------------------------
(* Opaques.                                                                *)

NoScan == [open |-> FALSE, cursor |-> "closed", ids |-> <<>>, current |-> None, prior |-> {},
           hand |-> {}, kill |-> FALSE, done |-> FALSE]
\* PGrnScanOpaqueInit; PGrnScanOpaqueReinit makes an opaque such a one again.
Opaque == [NoScan EXCEPT !.open = TRUE]
\* A bitmap is made by the leader alone.
Opaques(kind) == [p \in Participants |-> IF kind = "bitmap" /\ p # Leader THEN NoScan ELSE Opaque]

\* pgroonga_costestimate, and then pgroonga_beginscan of all participants.
BeginScan(kind) ==
  /\ statement.pc = "idle"
  /\ \A n \in DOMAIN tuples : tuples[n].by = "leader" => tuples[n].born # InProgress
  /\ count.statements < MaxStatements
  /\ count' = [count EXCEPT !.statements = @ + 1]
  /\ outdated' = FALSE
  /\ statement' = [pc |-> "running", kind |-> kind, snapshot |-> now, returned |-> <<>>,
                   nested |-> FALSE, broken |-> FALSE]
  /\ scan' = Opaques(kind)
  /\ scanning' = FALSE
  /\ UNCHANGED <<heapVars, index, vacuum, vacuumed, killed>>

\* pgroonga_parallelrescan and pgroonga_rescan: the workers have been shut down
\* and are started anew.
Rescan ==
  /\ Running
  /\ count.statements < MaxStatements
  /\ count' = [count EXCEPT !.statements = @ + 1]
  /\ statement' = [statement EXCEPT !.returned = <<>>]
  /\ scan' = Opaques(statement.kind)
  /\ scanning' = FALSE
  /\ UNCHANGED <<heapVars, index, vacuum, outdated, vacuumed, killed>>

\* pgroonga_endscan, when all is read or earlier.
EndScan ==
  /\ Running
  /\ statement' = NoStatement
  /\ scan' = [p \in Participants |-> NoScan]
  /\ UNCHANGED <<heapVars, index, scanning, vacuum, outdated, vacuumed, killed, count>>

\* An ERROR: nobody calls pgroonga_endscan.  The transaction may go on when a
\* subtransaction is all that is rolled back.
Error ==
  /\ Running
  /\ statement' = [statement EXCEPT !.pc = "failed"]
  /\ scan' = [p \in Participants |-> IF p = Leader THEN scan[p] ELSE NoScan]
  /\ UNCHANGED <<heapVars, index, scanning, vacuum, outdated, vacuumed, killed, count>>
\* PGrnReleaseScanOpaques
ReleaseScanOpaques ==
  /\ statement.pc = "failed"
  /\ statement' = NoStatement
  /\ scan' = [p \in Participants |-> NoScan]
  /\ UNCHANGED <<heapVars, index, scanning, vacuum, outdated, vacuumed, killed, count>>

\* Another statement of the same transaction is planned: a cursor is open, or a
\* function is called for every row.
PlanNested ==
  /\ statement.pc # "idle"
  /\ outdated
  /\ outdated' = FALSE
  /\ statement' = [statement EXCEPT !.nested = TRUE, !.broken = TRUE]
  /\ UNCHANGED <<heapVars, index, scan, scanning, vacuum, vacuumed, killed, count>>

\* ANALYZE in the transaction: pgroonga_vacuumcleanup does not look at
\* analyze_only.
AnalyzeNested ==
  /\ statement.pc # "idle"
  /\ count.vacuums < MaxVacuums
  /\ count' = [count EXCEPT !.vacuums = @ + 1]
  /\ outdated' = TRUE
  /\ statement' = [statement EXCEPT !.nested = TRUE, !.broken = TRUE]
  /\ UNCHANGED <<heapVars, index, scan, scanning, vacuum, vacuumed, killed>>

-----------------------------------------------------------------------------
(* Getting tuples.                                                         *)

\* PGrnParallelScanAcquire
HasCursor(p) == scan[p].cursor # "closed"
MayScan(p) == HasCursor(p) \/ ~scanning
\* Mutant: the flag is not set.
AcquireShared(p) == MayScan(p) /\ UNCHANGED scanning
Acquire(p) == MayScan(p) /\ scanning' = TRUE

HasRow(id) == id \in DOMAIN rows /\ rows[id] # None
Least(ids) == {i \in ids : \A j \in ids : i <= j}
Matching == {id \in DOMAIN rows : HasRow(id) /\ tuples[rows[id]].matches}

\* PGrnEnsureCursorOpened: a cursor on a table of what PGrnSearch has found, in
\* whatever order PGrnSort has put it, or on the index or the rows themselves.
Opened(p) ==
  IF HasCursor(p)
  THEN {scan[p]}
  ELSE {[scan[p] EXCEPT !.cursor = "found", !.ids = ids] : ids \in SetToSeqs(Matching)}
         \cup {[scan[p] EXCEPT !.cursor = "rows"]}

\* PGrnScanOpaqueResolveID
ResolveID(so) == IF so.cursor = "found" THEN so.ids[so.current] ELSE so.current

DeleteByID(so, id) ==
  IF so.kill /\ HasRow(id)
  THEN /\ rows' = [rows EXCEPT ![id] = None]
       /\ free' = Append(free, id)
       /\ killed' = killed \cup {[tuple |-> rows[id], reused |-> \E h \in so.prior : rows[ResolveID(so)] # h.tuple]}
  ELSE UNCHANGED <<index, killed>>
\* Mutant: a record of the table that was found is taken for a row.
KillPriorUnresolved(so) == DeleteByID(so, so.current)
\* What kill_prior_tuple asks for.
KillPrior(so) == DeleteByID(so, IF so.kill THEN ResolveID(so) ELSE None)

\* Records whose row is gone have no ctid and are passed over.
Ahead(so) ==
  {i \in so.current + 1 .. (IF so.cursor = "found" THEN Len(so.ids) ELSE Len(rows)) :
     IF so.cursor = "found" THEN HasRow(so.ids[i]) ELSE i \in Matching}
InHand(id) == [tid |-> tuples[rows[id]].tid, tuple |-> rows[id]]
AllRead(so) == [so EXCEPT !.done = TRUE, !.kill = FALSE, !.prior = {}]
ReadAt(so, i) ==
  LET id == ResolveID([so EXCEPT !.current = i])
  IN [so EXCEPT !.current = i, !.hand = {InHand(id)}, !.prior = {InHand(id)}, !.kill = FALSE]
NextTuple(so) ==
  IF Ahead(so) = {} THEN {AllRead(so)} ELSE {ReadAt(so, i) : i \in Least(Ahead(so))}

MayGet(p) == Running /\ ~statement.broken /\ scan[p].open /\ ~scan[p].done /\ scan[p].hand = {}

\* pgroonga_gettuple
GetTuple(p) ==
  /\ MayGet(p)
  /\ statement.kind # "bitmap"
  /\ \/ /\ Acquire(p)
        /\ \E so \in Opened(p) :
             /\ KillPrior(so)
             /\ \E next \in NextTuple(so) : scan' = [scan EXCEPT ![p] = next]
     \/ /\ ~MayScan(p)
        /\ scan' = [scan EXCEPT ![p] = AllRead(@)]
        /\ UNCHANGED <<index, killed, scanning>>
  /\ UNCHANGED <<heapVars, statement, vacuum, outdated, vacuumed, count>>

\* pgroonga_getbitmap
GetBitmap(p) ==
  /\ MayGet(p)
  /\ statement.kind = "bitmap"
  /\ scan' = [scan EXCEPT ![p].hand = {InHand(id) : id \in Matching}, ![p].done = TRUE]
  /\ UNCHANGED <<heapVars, index, statement, scanning, vacuum, outdated, vacuumed, killed, count>>

\* The executor looks into the heap; an index only scan does not when all of
\* the page is visible.
Fetch(p) ==
  /\ Running /\ ~statement.broken
  /\ \E h \in scan[p].hand :
       LET n == heap[h.tid]
           sees == n # None /\ Visible(n, statement.snapshot)
           skips == statement.kind = "index only" /\ allVisible
       IN /\ scan' = [scan EXCEPT ![p].hand = @ \ {h},
                                 ![p].kill = ~skips /\ ~sees /\ (n = None \/ DeadToAll(n))]
          /\ statement' = [statement EXCEPT !.returned =
                             CASE skips -> Append(@, h.tuple)
                               [] ~skips /\ sees -> Append(@, n)
                               [] OTHER -> @]
  /\ UNCHANGED <<heapVars, index, scanning, vacuum, outdated, vacuumed, killed, count>>

-----------------------------------------------------------------------------
(* VACUUM by another process.                                              *)

VacuumStart ==
  /\ vacuum.pc = "idle"
  /\ count.vacuums < MaxVacuums
  /\ count' = [count EXCEPT !.vacuums = @ + 1]
  /\ vacuum' = [pc |-> "index", targets |-> {n \in Range(heap) \ {None} : DeadToAll(n)}]
  /\ UNCHANGED <<heapVars, index, statement, scan, scanning, outdated, vacuumed, killed>>

Removable == {id \in DOMAIN rows : HasRow(id) /\ rows[id] \in vacuum.targets}

\* pgroonga_bulkdelete, row by row.
BulkDelete ==
  /\ vacuum.pc = "index"
  /\ \E id \in Least(Removable) :
       /\ rows' = [rows EXCEPT ![id] = None]
       /\ free' = Append(free, id)
  /\ UNCHANGED <<heapVars, statement, scan, scanning, vacuum, outdated, vacuumed, killed, count>>

\* The heap of what is left, and the visibility map.
VacuumHeap ==
  LET left == Range(heap) \ (vacuum.targets \cup {None})
  IN /\ vacuum.pc = "index"
     /\ Removable = {}
     /\ vacuum' = [pc |-> "cleanup", targets |-> {}]
     /\ heap' = [tid \in Tids |-> IF heap[tid] \in vacuum.targets THEN None ELSE heap[tid]]
     /\ vacuumed' = vacuumed \cup vacuum.targets
     /\ allVisible' = \A n \in left : tuples[n].born \in 1 .. OldestSnapshot /\ tuples[n].died = Alive
     /\ UNCHANGED <<tuples, now, index, statement, scan, scanning, outdated, killed, count>>

\* pgroonga_vacuumcleanup: the timestamp of PGrnRemoveUnusedTables.
VacuumCleanup ==
  /\ vacuum.pc = "cleanup"
  /\ vacuum' = [vacuum EXCEPT !.pc = "idle"]
  /\ outdated' = TRUE
  /\ UNCHANGED <<heapVars, index, statement, scan, scanning, vacuumed, killed, count>>

-----------------------------------------------------------------------------
\* Two tuples that were there before.
Init ==
  /\ \E matches \in [1 .. 2 -> BOOLEAN] :
       tuples = [n \in 1 .. 2 |-> [tid |-> n, matches |-> matches[n], born |-> 1, died |-> Alive, by |-> "other"]]
  /\ heap = [tid \in Tids |-> IF tid <= 2 THEN tid ELSE None]
  /\ allVisible = FALSE
  /\ rows = <<1, 2>>
  /\ free = <<>>
  /\ now = 1
  /\ statement = NoStatement
  /\ scan = [p \in Participants |-> NoScan]
  /\ scanning = FALSE
  /\ vacuum = [pc |-> "idle", targets |-> {}]
  /\ outdated = FALSE
  /\ vacuumed = {}
  /\ killed = {}
  /\ count = [vacuums |-> 0, statements |-> 0]

Next ==
  \/ \E kind \in ScanKinds : BeginScan(kind)
  \/ \E p \in Participants : GetTuple(p) \/ GetBitmap(p) \/ Fetch(p)
  \/ Rescan \/ EndScan \/ Error \/ ReleaseScanOpaques \/ PlanNested \/ AnalyzeNested
  \/ \E by \in {"leader", "other"}, tid \in Tids, matches \in BOOLEAN : Insert(by, tid, matches)
  \/ \E n \in DOMAIN tuples : Delete(n) \/ Commit(n) \/ Abort(n)
  \/ VacuumStart \/ BulkDelete \/ VacuumHeap \/ VacuumCleanup

Spec == Init /\ [][Next]_vars

-----------------------------------------------------------------------------
(* Properties.                                                             *)

AllReturned == Running /\ ~statement.broken /\ \A p \in Participants : scan[p].open => scan[p].done /\ scan[p].hand = {}

\* Rows that were removed by a scan after their ID had gone to another tuple.
Lost == {k.tuple : k \in {x \in killed : x.reused}}

\* What a scan returns, with all participants and in spite of everything that
\* others insert, delete, remove and put into the same place meanwhile, is what
\* matches in its snapshot, each tuple once.  An index only scan trusts the
\* visibility map of a moment that comes after it read the row: it may return
\* what VACUUM has removed in between as well.
ScansSeeSnapshot ==
  AllReturned =>
    /\ IsInjective(statement.returned)
    /\ Reads \ Lost \subseteq ToSet(statement.returned)
    /\ ToSet(statement.returned) \ Reads \subseteq (IF statement.kind = "index only" THEN vacuumed ELSE {})

\* kill_prior_tuple, VACUUM and the reuse of IDs never take the row of a tuple
\* that somebody may still see, but for a kill that comes after the ID of its
\* row has gone to another tuple.
LiveTuplesHaveRows ==
  \A n \in Range(heap) \ ({None} \cup Lost) : DeadToAll(n) \/ n \in Range(rows)

\* No insertion closes the objects of a scan that is not finished; another command
\* in the same transaction, planned or an ANALYZE, does.
ScanKeepsObjects == statement.broken => statement.nested
=============================================================================
