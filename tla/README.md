# PGroonga in TLA+

PGroonga is a PostgreSQL extension that gives PostgreSQL an index access method
backed by Groonga, a full text search library that keeps its own files and has
its own locks and caches. What makes it hard is that two storage engines must
agree although only one of them has transactions, crash recovery and
replication. This directory holds TLA+ modules of the protocols PGroonga uses
to make them agree, configurations that check the modules with TLC, and proofs
for the TLA+ proof system.

All paths below are relative to `src/src/` of the repository.

## The system

| part | code | state | operations |
| --- | --- | --- | --- |
| page WAL, writing | `pgrn-wal.c` 173-1880, 3195-3440, `pgrn-index-status.c` | the pages of the index relation: a meta page (`next`, `max`) and a ring of data pages; the applied position of this node in the Groonga table `IndexStatuses` | `PGrnWALStart` ... `PGrnWALFinish` / `PGrnWALAbort`, the page writer, `PGrnWALTruncate` |
| page WAL, applying | `pgrn-wal.c` 1882-3120, 3440-3700 | the same pages as replayed by PostgreSQL, the position, the Groonga database | `PGrnWALApply`, `pgroonga_wal_set_applied_position` |
| crash safer | `pgroonga-crash-safer.c`, `pgrn-crash-safer-statuses.h` | a hash table in shared memory: per database a flusher pid, a preparer pid, `flushing`, `nUsingProcesses` | main worker, flusher per database, worker that resets positions or reindexes |
| loading in a backend | `pgroonga.c` 560-900 (`PGrnEnsureDatabase`, `PGrnBeforeShmemExit`, `PGrnEnsureLatestDB`) | the Groonga handles of the process | wait for the flusher, open, close at exit, reopen after a VACUUM elsewhere |
| index life cycle | `pgroonga.c` (build, insert, bulkdelete, vacuumcleanup), `pgrn-create.c`, `pgrn-alias.c`, `pgrn-vacuum.c` | Groonga tables and columns named after file nodes, aliases | CREATE INDEX, REINDEX, VACUUM, removal of unused tables |
| parallel build, parallel scan | `pgroonga.c` 7885-8240, 9180-9330 | shared memory of a parallel query: counters, `scanning` under a mutex | leader and workers copy the sources; one participant scans |
| standby maintainer | `pgroonga-standby-maintainer.c` | a main worker's list of databases and workers | bounded WAL appliers per database, then a vacuum |
| WAL applier | `pgroonga-wal-applier.c` | none | every `naptime`, one worker per database |
| WAL resource manager | `pgroonga-wal-resource-manager.c`, `pgrn-wal-custom.h`, `pgrn-wal.c` 611-790 | custom WAL records, a bulk insert buffer, the database the startup process has open | emit, redo |
| index scan | `pgroonga.c`, `pgrn-condition.c`, `pgrn-ctid.c` | scan opaques with cursors and borders, a list of all of them, a resource owner callback | begin, rescan, next, kill, end; from the keys to a range or an expression |
| sequential search | `pgrn-sequential-search.c`, `pgrn-auto-close.c` | a hash table of datums (temporary table, index and expression); last use per index | prepare, execute, throw away what is unused |
| JSONB | `pgrn-jsonb.c` | tables of values, paths and types, a row's references to values | insert, bulk delete, search |
| text functions | `pgrn-escape.c`, `pgrn-index-column-name.c`, highlight, snippet, keywords, normalize, tokenize, query expansion | none (prepared Groonga objects) | functions on text |
| conversions, settings | `pgrn-convert.c`, `pgrn-result-converter.c`, `pgrn-variables.c`, `pgrn-options.c`, `pgrn-custom-scan.c` ... | configuration variables | thin functions |

### How the parts interact

A session that changes an index changes Groonga first and describes the change
as a MessagePack object. With `pgroonga.enable_wal` it holds the index's WAL
lock meanwhile and writes the object to the index relation through PostgreSQL's
generic XLOG. PostgreSQL's streaming replication and crash recovery bring the
pages, but not Groonga's files, to where they were. On a standby, and after a
crash, `PGrnWALApply` decodes the objects that are behind the applied position
and changes Groonga accordingly; it is called by index scans, by inserts, by
`pgroonga_wal_apply`, and by the workers of the WAL applier and the standby
maintainer.

The crash safer exists because a crash may break Groonga's files. Its flusher
opens a database before everyone else, repairs it or makes it anew, starts a
worker that resets the positions or reindexes, flushes every
`pgroonga_crash_safer.flush_naptime` seconds, and flushes once more when the
last user has gone. Backends announce themselves in the statuses, wake the main
worker with SIGUSR1 and wait on their latch until the flusher is ready.

### What must be right, and what is hard

* *Writing.* The ring is one stream of bytes: no page skipped, no stale byte
  between two objects, the oldest page reused first, the position at its end.
  Hard: sessions aborted after the relation was extended, objects that need
  more buffers than one generic record may hold (they are published in pieces),
  a ring size that changes from session to session.
* *Applying.* Every object is applied in order and at least once; one reader
  alone applies it exactly once. Hard: the ring moves on while it is read, the
  WAL lock does not keep two readers of a standby apart, a reader may die
  between applying and storing the position, a standby may lag by more than a
  ring.
* *Crash safer.* Whoever uses a database has a flusher, a fresh database is not
  used before its indexes are filled, a stop leaves nothing unflushed, nobody
  waits for ever. Hard: five kinds of processes and a table without a lock,
  elements reused with old contents, processes that fail at any step.
* *Life cycle and redo.* A standby that has replayed everything has the tables,
  columns and rows of the primary. Hard: objects are renamed and reused, builds
  fail half way, each operation writes its own records and some write none,
  replay may start again from an earlier point, records of several databases
  take turns.
* *Index scans.* A scan returns what its snapshot sees, each row once, and never
  removes the row of a tuple that lives. Hard: the index knows nothing of
  snapshots; rows, IDs and places are reused under a scan; a VACUUM elsewhere
  makes the process close its Groonga objects; one participant of a parallel scan
  has to do it all.
* *Keys of a scan.* With an index, a query returns what it returns without.
  Hard: PostgreSQL checks again for LIKE only, so that an expression that is off by an
  operand, or a border that is taken over from the scan before, shows.
* *Sequential search.* What is executed is what was asked, however the cache was
  filled, emptied and interrupted.
* *JSONB.* A value is shared by many rows, and goes when none refers to it; the
  index and the operators agree. Hard: insertions share values with each other and
  with VACUUM, and the searches walk through documents by rules of their own.
* *Standby maintainer.* Never more appliers than configured, the vacuum after all
  appliers, a round that ends.

`PROJECT.json` lists the hazards at the lines where they bite.

## The modules

| module | models | lines |
| --- | --- | --- |
| `PGrnWALPages` | the data: pages, the meta page, the byte stream, `PGrnWALPageFilled` | shared by writer and reader |
| `PGrnWALWriter` | a primary's WAL sessions and `PGrnWALTruncate` | one action per step of the page writer |
| `PGrnWALApply` | `PGrnWALApplyNeeded`, `PGrnWALApply` by several readers, set applied position | instantiated by the next one |
| `PGrnWALReplication` | the primary (EXTENDS the writer), the stream of XLOG records, a standby (INSTANCE of the reader) | composition |
| `WALDelivery` | the abstract promise: objects are delivered in order, each once, in the end all | refined by the composition |
| `PGrnCrashSafer` | main worker, flushers, preparers, backends, crash, stop | statuses as a function |
| `PGrnStandbyMaintainer` | main worker, the process per database, its WAL appliers, the vacuum | counts and handles of `pgroonga_standby_maintainer_maintain` |
| `PGrnGroongaDB` | a Groonga database: tables, columns, references, and what Groonga refuses | operators |
| `PGrnWALRecords` | the operations that write WAL, how each is packed and unpacked, by the resource manager and as an object in pages | operators |
| `PGrnWALRedo` | `pgrnwrm_redo_*` and `PGrnWALApply*` on a database | operators |
| `PGrnWALObjects` | the life of indexes on a primary, and a standby that replays | scripts of steps per database |
| `PGrnJSONBDocument` | documents, their paths, values and conditions | operators |
| `PGrnJSONB` | insertions, VACUUM and searches of a JSONB index | |
| `PGrnJSONBContain` | `@>` by the index against PostgreSQL's | operators |
| `PGrnIndexScan` | heap, index, scans and VACUUM | |
| `PGrnScanKeys` | what a scan finds for its keys, against the operators | key by key |
| `PGrnSequentialSearch` | the cache of datums of a process | |
| `PGrnWALPageProofs` (of `PGrnWALWriter` and `PGrnWALReplication`), `PGrnWALObjectsProofs`, `PGrnCrashSaferProofs`, `PGrnStandbyMaintainerProofs`, `PGrnIndexScanProofs`, `PGrnSearchProofs` (of `PGrnScanKeys` and `PGrnSequentialSearch`), `PGrnJSONBProofs` | theorems | |
| `LeftFolds` | folds of sequences, for `PGrnSearchProofs`, `PGrnJSONBProofs` and `PGrnWALObjectsProofs` | theorems |
| `MCWriter`, `MCReplication`, `MCCrashSafer`, `MCStandbyMaintainer`, `MCObjects`, `MCJSONB`, `MCIndexScan`, `MCSearch` | sets for the configurations | |

### The writer

`meta` and `pages` are the shared buffers, `wmeta` and `image` the private
copies `GenericXLogRegisterBuffer` returned, `current` and `nUsed` are
`PGrnWALData`'s, `pos` is the row of `IndexStatuses`. A page is the sequence of
the bytes it carries, and a byte knows its object, its place and the size of the
object: that is what tells a good stream from a bad one. `LastOffset` of a page
that `P_NEW` gave and nobody initialised is as big as the 16 bit subtraction in
the code makes it. `Start`, `BeginObject`, `EnsureRestart` / `EnsureNew` /
`EnsureExisting` / `EnsureHang` (the branches of
`PGrnWALPageWriterEnsureCurrent`), `AppendBytes` (one turn of
`PGrnWALPageWriter`), `Finish`, `Abort` follow the code line by line;
`TruncateStart` / `More` / `Finish` are the batches of `PGrnWALTruncate`. The WAL
lock of a primary conflicts with itself, so one set of session variables is
enough. A session packs one object: the loop of bulk inserts
(`pgroonga_build_callback`) is taken only with the WAL resource manager, which
does not use pages.

Simplifications: the last session of a CREATE INDEX and its commit are one step
(in between nobody else sees the index); an error in CREATE INDEX drops the
relation and is left out; the contents of objects are left out.

### Applying and replication

A reader goes from `Check` (`PGrnWALApplyNeeded`) over `Lock` through the turns
of the loop in `PGrnWALApplyConsume`: `Skip`, `RaiseOverwritten`, `ReadPage`,
then per object `ApplyObject`, `SetPosition`, then `NextBlock` or `Done`. `Die` is
an error or a kill at any of them. Applying an object is appending its number to
`db`. Bytes that are no intact object would decode to something else, or to an
error: the model ends the session there with the outcome "garbled".

A replay of one record is atomic but needs the lock of the meta page's buffer
when the record changes that page, and a reader holds it in share mode from
`Lock` to its end: this is why a reader sees a fixed `next` and `max`, and why
readers can hold up the replay. Records that do not change the meta page (the
later batches of a truncation) may be replayed while a reader reads. Promotion of
the standby and `pgroonga_wal_truncate` called there are not modelled.

### Crash safer

An entry has `pid` and `preparing` (valid pid or not), `flushing` and `nUsing`
(wrapping around at `CounterSize`). `free` is what HASH_REMOVE leaves in the
freed elements, because HASH_ENTER initialises nothing but the pids. `file` is
the Groonga database on disk, `own` whether the file the flusher has open is
still that one, `lost` whether it was made anew and its indexes were not filled
since, `dirty` whether there is something only a flush would save. The calls of
the statuses are atomic steps here; nothing in the code makes them so. A crash
makes a dirty database fail to open or not. A shutdown sends one SIGTERM to
everyone; others may send more to a flusher (`Terminate`). The worker that resets the positions, or reindexes, is a process of
its own (`preparer`), counted as a user while it has PGroonga loaded.

A flusher ends twice: for everyone when its exit callbacks have run (`Ended`), for the
main worker when the postmaster has reaped it (`Reap`); in between it is in
`main.unreaped`. `WaitForBackgroundWorkerStartup` (`pgroonga-crash-safer.c` 694) asks
the postmaster and stores the pid of a worker it has seen started, so that
`MainStarted` may store the pid of a process that has cleared it already. The two
callbacks of a flusher that ends regularly are one step, and the main worker's
pointer to an entry stands for the entry of the database: a pid that is stored
in an element after HASH_REMOVE is not followed.

### Standby maintainer

`main` is the main worker with the databases its scan has left, `maint` the
process it waits for: `max` is `nMaxWorkers`, `held` the indexes whose entry in
`workerHandles` is not NULL, `running` is `nRunningWorkers`, `todo` what the loop
has not come to (in any order, as the SELECT has none). `applier[x]` is the
background worker this process registered for index x: registered, running or
stopped; when the process dies its appliers become `orphans`. `Sweep` is one turn
of the loop that waits for room (`GetBackgroundWorkerPid` over all handles), one
step, because an applier that ends during it is found in the next turn.
`RegisterApplier`, `Started` and `Join` are the registration,
`WaitForBackgroundWorkerStartup` and `WaitForBackgroundWorkerShutdown`. With a
limit of 0 the process applies by itself (`ApplyInline`, `InlineApplied`), and an
error ends it. `Limits` are the values the setting takes; each process reads it
once. The death of the postmaster is left out, and so is the time
`WaitLatch` takes (the loop never resets its latch). The WAL applier's main
worker is the same loop over the databases.

### The life of an index, and its redo

`PGrnGroongaDB` is what PGroonga relies on of Groonga: a table has a type, a
key, rows, columns and references of columns to tables; a table that a column
refers to cannot be removed; a column takes its index columns along.
`PGrnWALRecords` writes each operation as a sequence of cells, once as the
custom resource manager does and once as a MessagePack object, and reads it
again cell by cell, so that a field that is missing or has another kind makes
the reader take something else for it. `PGrnWALRedo` says what each operation does
on the standby, in the order of the calls, with the first that fails as the last.

In `PGrnWALObjects` every operation of the primary is a script of steps
(`PGrnCreate`, `PGrnSetSources`, the insertions of the copy, the renaming of
`Building`, ...), taken one by one, with the backends of other databases in
between. A step says which WAL hears of it: several hear of none
(`PGrnRemoveUnusedTables` with pages, rows of `Aliases` and `IndexStatuses` with
the resource manager). `BuildError` is PG_CATCH of `pgroonga_build`. `Apply` and
`Redo` are the standby; `Restart` begins again at a restart point (custom) or at
the object before the last one (pages). Pages themselves are not here: a channel
is the sequence of its objects, as `PGrnWALReplication` delivers them.

### JSONB

`PGrnJSONBDocument` walks through the tokens of a document (`Tokens`, those of
`JsonbIteratorNext`) as the three functions of the code do, each with its own
stack of components: the insertion of all values, the insertion of strings for
full text search, and the conditions of "@>". `PGrnJSONBContain` has documents and
their tokens, and PostgreSQL's containment as the reference for "@>"; the references for
the other searches are the operators that need no index. `PGrnJSONB` is the
insertion of a row value by value (`AddValue`, then `SetColumns` in a WAL session,
then `InsertRecord`) by several processes, an ERROR in between, and VACUUM:
`BulkDeleteRecord` widens the range of values to look at, `BulkDeleteCheck` looks
at one, `BulkDeleteValue` removes it. IDs are used again, last freed first, as
Groonga does, and a column keeps what a removed row left. `replica` is what a
standby makes of the objects in the WAL.

### Index scans

`PGrnIndexScan` has one page of heap with few places, tuples with the commits
that made and deleted them, rows of `Sources` with IDs that are reused, one
statement of a leader with a worker, and VACUUM elsewhere. `GetTuple` is one call
of `pgroonga_gettuple`: acquire, open the cursor, kill the tuple before, go on.
The cursor either runs over what a search has found, in either order, or over
rows as they come. `Fetch` is the executor's look at the heap. `broken` is set when
`PGrnUnmapDB` closes the objects an opaque refers to.

`PGrnScanKeys` is the same scan without time: keys come one by one, are turned
into a range (`FillBorder`) or put on the stack of an expression
(`BuildConditions`), and the rows that are found are compared with those for
which the operators hold. `amsearcharray` is true of the access method, so that every
operator that takes one value may come with ANY of an array. Only "=", "&@" and LIKE
look at the elements; with the others the datum of the array, a pointer, is converted
like a value of the column (`ConvertedFrom`): `keys` are the keys of the query, `read`
the keys as they are read. `Datums` are the values an array may be taken for, some
number or some text that is not empty, and which one is open. A text Groonga
rejects would be an error, which finds nothing wrong; a NULL in place of an array is
left out, it is skipped like any NULL. Texts are sequences of characters and a keyword
is found as a part of a text. Loops over arguments and patterns are folds of a
step that has a name (`Alternative`, `NotPrefix`, `LikeKeyword`...). Of its constants
`ScanKeysAssumption` says what the operator classes allow: operators of a column of
numbers and of one of texts, ANY with every operator whose argument is not an array
itself, and that an operand has the type of its column.

### Sequential search

A datum is the record of what it was made for, which expression it holds (a
query, `Broken`, or `NoQuery`) and under which hash. `Execute` is
`PGrnSequentialSearchPrepare` and `PGrnSequentialSearchExecute` together; `Refuse`
the error for an index that is not one of PGroonga; `Release` the end of a
transaction with, every 100th time, the vacuum of what was not used.

## The runs

| run | result | question |
| --- | --- | --- |
| `writer` | holds | one intact stream, no hole, position at its end, oldest overwritten, no wait for oneself but in the shortest ring |
| `replication_ring` | holds | does a standby that keeps up implement `WALDelivery`, and with a position right behind the last object? |
| `replication_lagging` | holds | a standby whose ring is overrun, with deaths, resets and a truncation: never an older object after a newer one, no false alarm for one that is done |
| `replication_two_readers` | holds | two readers: nothing skipped, repeated only in order, all applied in the end |
| `replication_restart` | violated | are objects published in two records applied, too? |
| `crash_safer_stop` | holds | two backends, failures, a crash, a stop: see the properties below |
| `crash_safer_recover` | holds | is a database that was made anew used before its indexes are filled? |
| `maintainer` | holds | never too many appliers, no vacuum beside them, every round ends, one broken index does not keep the others from being applied |
| `objects` | holds | is every record read as it was written, does the standby replay without an error, and does it have in the end what the primary has, no less and no more, for both kinds of WAL and after restarts? |
| `jsonb` | holds | do index and operators agree, does VACUUM remove the unused values and only them, does "@>" find what PostgreSQL says? |
| `scan` | holds | does a scan return what its snapshot sees, and remove and close only what it may? |
| `search` | holds | does an index find what the operators find for every plan, and does a sequential search execute what was asked? |

**Bounds.** A page carries two bytes, so that objects of one, two and three bytes
leave a page partly filled, fill it, and span pages. A generic record holds four
buffers, the meta page and three pages; seven bytes never fit in three pages of
two bytes. The rings have two pages (the least), three pages (as many as a record
holds) or no limit; one of three pages is gone round with five objects, and six
to eight are packed. With two readers the objects after CREATE INDEX all have three
bytes, and so begin and end in the middle of a page and at its end in turn. `CREATE INDEX` packs at least three objects in the code (two
creations and the renaming of the sources): `BuildObjects` is three. One
truncation, one abort, one death of a reader and one reset each can meet every
step; a second one meets the same states again. In the crash safer two backends
and three connections allow for one that leaves and one that comes back; one
database is enough but for what an element of the hash table carries from one database to
another (below). The maintainer's database of three indexes
exceeds the limits of one and two; one process that is terminated leaves orphans
of each kind. `CounterSize` only has to be bigger
than the number of processes. In `objects` one index is built in one database
while another, in a second database, is filled, so that every pair of steps meets
in the one stream of the resource manager; two operations there, three with
pages (databases share nothing then), one failing build and one restart from any
point. The JSONB run has all documents of two levels over the kinds of scalars,
each alone with each as a query, and pairs that share values, one more value and
none. In the scan three tuples, two of them there at the start, share two places
and two IDs, so that a place and an ID get another tuple; four commits and two
VACUUMs let a tuple be born, die and be removed during a scan, and two statements
are a statement and its rescan or successor. Two SIGTERMs to a flusher end its
wait in `crash_safer_recover`. In the search run a plan has up to two
keys, which is what two operands on a stack and a pair of borders need; patterns
have up to three characters, so that an escape, a wildcard and a letter meet in
each order, and arrays up to two elements. An array that is taken for one value is
taken for one that some row has or for one that none has. A rescan with arguments as free as
those of the first scan makes all pairs. `VacuumFrequency` of 2 stands for 100. Deadlock is not checked: all bounds used up is a
legitimate end.

**Fairness.** In `PGrnWALReplication` the startup process is strongly fair: it
waits for a buffer lock, and the release of the lock wakes it. Readers are weakly
fair (the WAL applier comes by every naptime), and so is the primary in the
middle of a session, but it need not begin another. `EventuallyApplied` assumes
in addition that the readers pause, `[]<>(Consuming = {})`: the code has nothing
that keeps readers who take turns from holding the meta page's buffer for ever.
In `PGrnCrashSafer` the workers are weakly fair, because they wait on latches
with a timeout or on each other, and so is the postmaster, which reaps what has ended; a waiting backend looks again every second; a
backend ends when the server stops and need not end before. `WaitingIsServed` has two
exceptions, `DeadPID` and `Crowded` (below): a backend that waits for ever has met one of them for
good. In `PGrnStandbyMaintainer`
the main worker wakes every naptime seconds, the process looks for stopped
appliers at least once a minute, the postmaster starts what is registered, and
applying what is pending ends; nothing makes a worker impossible to register for
ever, nor a SIGTERM come.

**Conditions in properties.** `StreamIntact` leaves out the time in which a part
of an object too big for one record is in the ring, `RaisedOnlyWhenBehind` leaves
out truncations, `CountsUsers` a server that is stopping, and `IndexesFilled` a
standby, which cannot reindex. The violated runs show the first, and the README
says below what is known of the others.

## Where the code does not keep its promises

The run `replication_restart` shows one, which `PROJECT.json` quotes:
`PGrnWALDataRestart` publishes half an object with `next` on a page that does not
exist or is stale; the reader does not stop there and feeds old bytes after the
half object.

Others that the models show when a configuration is changed:

* with `MaxSizes <- TwoBlocks` in `MCWriterRing.cfg`, `NoSelfDeadlock` fails: in the
  smallest ring a session of three pages wraps to a page it holds and waits for
  itself, with the WAL lock of the index held (`HangsOnlyInShortRing` says that no
  other ring does);
* with `MaxSizes <- FourOrThreeBlocks` in `MCReplicationRing.cfg`, `ReadersNeverFail`
  fails: when `pgroonga.max_wal_size` is made smaller, the block numbered `max` is
  taken as part of the ring;
* with `MaxStops = 1` in `MCCrashSaferRecover.cfg`, `IndexesFilled` fails:
  `needReindex` (`pgroonga-crash-safer.c` 467-477) is known to one process only; when
  the server stops before the REINDEX has committed, the next start opens the
  new, empty database without an error and its indexes stay empty. With
  `ParallelReindex = TRUE` there it fails because the parallel workers of the REINDEX
  are turned away like ordinary backends, with `MaxFailures = 1` because the
  flusher does not look at how its worker ended;
* with `MaxSignals = 1` in `MCCrashSaferStop.cfg`, `RunningIsFlushed`,
  `NothingLeftUnflushed`, `NoneWhilePreparing` and `CountsUsers` fail: a flusher that gets
  a SIGTERM while the server is up leaves when nobody uses the database, but its
  entry says that it flushes until it has left, and a backend that trusts the entry in
  between uses a database without a flusher, is not counted in the next entry, and
  is not kept away by a preparer. With two signals it does not even wait
  (`pgroonga-crash-safer.c` 595);
* with `MaxRemovals = 1` in `MCCrashSaferStop.cfg`, `RunningIsFlushed` fails (the run and
  the theorems have no removal, so that an element of the hash table is freed, and its
  counter left behind, while the server stops only): the
  flusher looks for its files only once per `flush_naptime`, and files that were
  removed and made anew in between escape it;
* with `Limits = {0}` in `MCStandbyMaintainer.cfg`, `EveryIndexTried` fails: an index
  whose WAL cannot be applied ends the process before it comes to the others;
* with `MaxTruncates = 1` and without its condition `RaisedOnlyWhenBehind` fails: the
  position of a standby then points behind the new end of the WAL.

Some properties that hold name an exception; without the exception TLC finds the
behaviour that is told here.

* `WaitingIsServed` (`DeadPID`): a flusher that fails right after it was started clears
  its pid in its exit callback (`pgroonga-crash-safer.c` 351-366) while the postmaster
  still says that it has started. When the main worker, in
  `WaitForBackgroundWorkerStartup` (694), has seen that, it stores the pid of the dead process
  afterwards. From then on the database has a flusher for the main worker, which
  skips it (797), and for the backends, which wait for it; nothing clears the pid
  before the server is started anew. (`Crowded`): a flusher is started for exactly one user
  (799). Two that come before the main worker looks wait for each other, and one waits
  in vain for a flusher that has ended while another backend is still counted, though
  that one was turned away or was cancelled.
* `FirstReplayNeverFails`, tuples that are short: a value that cannot be cast
  (`pgroonga.c` 5010) is left out after the number of columns was announced. Redo
  then fails at the end of the record; with pages the reader takes the next object
  for the missing column. And an index in a tablespace of its own: the startup
  process has no database to name the directory with.
* `ReplayFailsOnMovedTables`: the resource manager's redo of a renamed or removed
  table is no redo at all: when the restart point lies between the creation of
  `BuildingSources` and its renaming, the startup process fails on the same record
  after every restart. With pages, a reader that died between applying an object
  and storing its position fails on `create_table`, `create_column` and
  `rename_table`.
* `StandbyHasNoMore`: a build that fails, and VACUUM with pages, remove tables
  without WAL; the standby keeps them. A VACUUM that dies after it has removed a
  `Sources` table leaves its lexicons for ever, since only a `Sources` table tells of
  an index to remove. Rows of `Aliases` and `IndexStatuses` never reach a standby of
  the resource manager: `PGrnWALInsertFinish` is not called for them.
* `SearchesAgree` (`Spoilt`): VACUUM removes a value that an insertion has looked up
  and not referred to yet; the row refers to an ID that is nobody's, or somebody
  else's later. An ERROR between `grn_table_add` and the columns leaves a bare value, and
  every later row that has it takes it as it is.
* `ContainFindsAll` (`Misleads`, `PathsFit`): only a VALUE pops the key of a member
  in the conditions of "@>" (`pgrn-jsonb.c` 1745-1787), so that a member after an array
  or object is looked for with the wrong path. Paths of 4096 bytes are not stored.
  `ContainFindsOnly`: members of an array cannot be told apart by their paths, a
  scalar is an array of one element, and only "0" is asked for its type.
* `ScansSeeSnapshot`, `LiveTuplesHaveRows` (`Lost`): `kill_prior_tuple` comes one call
  late; when VACUUM has removed the row and an insertion has taken its ID in
  between, the scan removes the row of a tuple that lives. An index only scan does
  not hold a pin on anything, so that it may believe the visibility map about a
  row that VACUUM has removed.
* `ScanKeepsObjects` (`nested`): the comment of `PGrnEnsureLatestDB` (`pgroonga.c`
  807-813) relies on `pgroonga_costestimate` being called before every scan; it is
  also called in the middle of one, when another statement of the transaction is
  planned. ANALYZE in a transaction comes to the same.
* `IndexFindsOnly`: of `x < 5 AND x <= 5` the weaker border is kept (`SameBorder`,
  7058-7087). In a rescan the borders are emptied but not void, so that a
  border that is not narrower than the last scan's is dropped (`LostBorder`, 5421;
  this supposes that Groonga's comparison reads the emptied value where it was). A key
  that is NULL is skipped, or is 0 in a range (`NullKey`). `IndexFindsAll`: an
  empty text among alternatives empties the search (`EmptyAlternative`), and a scan
  without keys loses the rows whose first column is NULL (`WithoutKey`). Both: of
  `n < ANY ('{3, 5}')`, `t &@~ ANY (...)`, `t &^ ANY (...)` or `t &~ ANY (...)`, which PostgreSQL 18
  makes of OR as well, the array is read as one value (`pgroonga.c` 6564, 7141), since only "=",
  "&@" and LIKE are asked about SK_SEARCHARRAY (6389-6427). Rows the query wants are
  lost (`LostToArrays`) and others are found (`FoundByArrays`), and nothing checks them
  again.
* `ExecutesWhatIsAsked` speaks of the ratio and the options of a datum that was made
  for the condition only: one that is found keeps those it was made with, also
  after ALTER INDEX, and the name of an index is looked up without its schema
  (`BareName`: the second GRN_TEXT_SET writes over the first, 266-276).

Three more things were found while reading, and are in no model. When an index has a
new file node, `pgrn-auto-close.c` (28-57) closes every object of Groonga whose name
begins with `Sources` and the old number: those of an index whose number begins
with the same digits as well. And `PGrnJSONBRemoveUnusedTables` (`pgrn-jsonb.c` 2053)
does nothing when the table of values is not there, although the tables of paths and
types may be, when a build has failed before it made the former or removed it alone.
And a worker of a parallel copy of a build, which is off by default, is given a
`PGrnCreateData` on the stack of which nobody sets `sourcesTable` (`pgroonga.c`
7958-7966); with the crash safer in use `pgroonga_build_copy_source_execute` flushes it
(7870-7875).

## Proofs

`PGrnWALPageProofs` proves of the writer, for every page size, number of buffers per record,
set of ring sizes and object sizes, and without the bounds on aborts and
truncations (they are arbitrary naturals):

* `TypeInvariant`: `Spec => []TypeOK`;
* `NeverAHole`: `Spec => []NoHole`;
* `PositionStaysAtEnd`: `Spec => []PositionAtEnd`;
* `NeverSelfDeadlock`: `Spec => []HangsOnlyInShortRing`, that is, a session that waits
  for itself has a ring that, with the meta page, is shorter than the number of
  buffers a generic record may hold.

The assumptions are those the modules state of their constants:
`PagesAssumption` (a page carries at least a byte, a record holds at least two
buffers) and `WriterAssumption` (the sets of sizes are naturals).

None of the last three is inductive as it stands. The invariant has four layers.
`Types` is `TypeOK` and `Shape`: what a session looks like at each place, for
example that an open page is the page `next` and has room. `NoHole` is inductive
on top of it. `Settled` says which pages may be partly filled (only the page
`next`, in the shared buffers or in the images), and gives `PositionAtEnd`
together with it (`Ends`). `Held` says how the blocks a record has registered lie
in the ring: consecutive up to `next`, or wrapped with a gap (`Straight`,
`Wrapped`), as many as `nUsed - 1`; in a ring that is long enough the page `next` is
never among them. It speaks of the session's own ring only, so a ring that was
shorter or longer before does not matter.

It goes on from these layers, under the same assumptions:

* `StreamStaysIntact`: `Spec => []StreamIntact`;
* `OldestIsOverwritten`: `Spec => OverwritesOldest`.

The invariant `StreamInv` is about a ring of pages (`Ring`) that is looked at twice:
as everybody sees it (`Shared`), and as the session does, with the pages it has
registered in the place of the shared ones (`Seen`, `Session`); `Finish` and
`EnsureRestart` make the second the first. A ring is in order when the bytes of a
page follow each other (`Within`), the first byte of a page follows the last one of
the page before except where the newest bytes meet the oldest (`Linked`), and pages
are as old as their places say (`Sorted`). Where the newest byte is depends on
whether the page `next` has bytes of this round already: a full page there is left
from the round before (`Top`, `End`). `TailFits` says what the next byte has to
follow, `Past` that all bytes are older than it. Three lemmas about rings carry the
proof: a page without a byte may be added or take the oldest place (`EmptyRing`),
bytes may be appended on the page `next` (`AppendRing`), and a full page moves `next`,
back to the first page or not, and changes `max` (`FilledRing`). `UsedUp` counts the
bytes of a record: pages after the first are empty when they are opened, so that a
record whose buffers are used up carries an object that fits in no record
(`RestartIsHuge`); that is the exception `StreamIntact` makes. `Reused` remembers of
each page a session has registered that it begins as it did (`Kept`) or was full and
older than the rest (`Replaced`).

Then it goes on to the standby. It
proves, for every page size, number of buffers, size of the ring and of objects, and
any number of aborted sessions and of deaths of the reader:

* `ReaderFindsWhatItNeeds`: `RSpec => []ReadersNeverFail`;
* `NoneIsSkipped`: `RSpec => []NothingSkipped`;
* `EndsInOrder`: `RSpec => []ReplaysEndInOrder`;
* `NeverGoesBack`: `RSpec => NeverBackwards`;

and, when the reader does not die (`MaxDeaths = 0`: one that dies between applying an
object and storing the position applies it again),

* `PositionBehindLastObject`: `RSpec => []PositionAfterLastObject`;
* `DeliversInOrderOnce`: `RSpec => Delivery!Safe`, the safety part of the refinement
  of `WALDelivery`: each step of the composition is a step of the promise or a
  stutter.

The hypothesis is `KeepsPace`: the standby replays and applies a record before what
it still needs is overwritten (`KeepsUp`, as in `MCReplicationRing.cfg`),
`pgroonga.max_wal_size` has one value, every object fits in a generic record, one
process applies, nobody truncates the WAL or moves the position. The
runs `replication_lagging` and `replication_restart` and the list above show what
happens without the first three. The constants of `MCReplicationRing.cfg` satisfy it.
The run `replication_two_readers` checks `NothingSkipped` and `ReplaysEndInOrder`
for two readers and `replication_lagging` checks `NeverBackwards` for a standby that
is overrun; there they are model-checked only, as the theorems do not speak of these.

The argument has three parts. On the primary (`Primary`)
the ring has one length, its pages are all initialised and full but for the page
`next` (`Packed`), a record brings one whole object or none (nothing is `Huge`), and
of the objects published the ring has all that are newer than one it has
(`NoneMissing`). Between the primary and the standby (`Replicates`) there is a chain
of snapshots (`Chain`): the first is what the standby has, the last what the primary
shows, and each record on its way leads from one to the next (`Brings`); the pages
written since the block in which the standby will go on (`Arc`) are in all of them,
with more at their ends maybe (`Carried`), because `KeepsUp` does not let a record
take a page from there. So what a reader reads is the stream from its position on,
wherever it stopped: a session knows that the bytes it holds are the beginning of an
object whose rest is on the pages it comes to (`SessionFits`, `BufFits`), and since every
snapshot ends with a whole object, so does every session. This gives
`ReadersNeverFail`. The second invariant (`AppliesInOrder`) counts: the position is
behind object number `p` of the log (`Tells`), the database has the first `k` (`Applied`),
`k` is `p`, or `p + 1` between applying and storing (`Tracks`); the next object in the
buffer is number `p + 1`, because a ring that misses no object between two has
nothing between a byte and the next one (`NoneBetween`, `InPage`, `AcrossPages`).

`PGrnStandbyMaintainerProofs` proves, for all finite sets of indexes, databases,
limits and any number of refusals and deaths (`MaintainerAssumption`):

* `MaintainerTypes`: `Spec => []TypeOK`;
* `AppliersBounded`: `Spec => []NeverTooMany`;
* `VacuumIsLast`: `Spec => []VacuumAfterAppliers`.

What is inductive is `Counted`, with the types: appliers that are alive have
handles, an index the loop has not come to has none, `nRunningWorkers` is the
number of handles (less one between registration and start) and within the
limit, a process exists only while the main worker waits for it. It needs the
cardinalities of finite sets (`Handles`).

`PGrnSearchProofs` proves, for any indexes, conditions, options and frequency of the
vacuum of `PGrnSequentialSearch`, `AlwaysWhatIsAsked`: `CacheSpec => []ExecutesWhatIsAsked`. The
inductive invariant `CacheInv` adds that every datum is one that its key asks
for and, if it has a hash, holds the expression of that hash (`DatumsFit`), and that
the current datum is in the table (`CurrentAlive`). Its assumptions are those of the
module: the values that stand for nothing are different from the others.

`PGrnIndexScanProofs` proves, for any participants, any places in the heap that
include those of the first two tuples, and any number of tuples, transactions,
statements and VACUUMs (`ScanAssumption`; the bounds may have any value):

* `ScansReturnSnapshot`: `Spec => []ScansSeeSnapshot`;
* `LiveTuples`: `Spec => []LiveTuplesHaveRows`;
* `ScansKeepObjects`: `Spec => []ScanKeepsObjects`.

The invariant `Inv`, which is enough for the last two, adds to the types: the tuple at a place has that place
(`HeapFits`), rows have tuples (`RowsFit`), an ID that is free has no row and is free
once (`FreeFits`), the targets of VACUUM are dead to all (`TargetsDead`), and a scan
that is told to kill has a tuple before it that is dead to all or has left
the heap (`Gone` in `ScansFit`). The last one is why kills are safe: `Fetch` looked at
the place of the tuple, and a tuple that is still there is at its place. That
what is gone stays gone (`TuplesStep`) rests on the oldest snapshot, which never
goes back (`StatementStep`); each step then is looked at once for the statement, the
tuples, the scans, the index and the heap.

What a statement returns needs `SeesInv`. Of the index and the heap it adds that a
row has a tuple of its own (`RowsDistinct`) that is in the heap (`RowsInHeap`), that
what has left the heap was dead to all (`LeftDead`), and that the visibility map is
right (`MapFits`). Of a statement that reads (`Reading`) it says where its tuples
are: each one that its snapshot sees, and that was not lost, was returned, is in a
hand, or is ahead of the cursor (`Upcoming` in `ReaderFits`), and none is in two of
these, which is why nothing comes twice. Only one participant has a cursor or may
still get one (`CursorsFit`, `OneHand`). At the place of a tuple in a hand there is
that tuple, nothing, or one that came after the snapshot (`HandKnown`); so `Fetch`
never returns a tuple for another one although places are reused. What others do
between two calls is one condition on a step, `Elsewhere`, and one lemma,
`ElsewhereSees`: the snapshot sees the same tuples (`SnapshotStep`), rows it sees
stay, and those that come are of tuples it does not see (`RowsStep`). The order in
which a cursor hands out what a search found is any (`SortedOnce`).

`PGrnCrashSaferProofs` proves, for any databases, any finite set of backends, any
counter that can count them, any time between the end of a flusher and its reaping, and any number of connections, failures, crashes and
shutdowns, but without removals and without SIGTERMs to a flusher (`MaxRemovals =
MaxSignals = 0`, where the code does not keep its promises otherwise):

* `RunningAreFlushed`: `Spec => []RunningIsFlushed`;
* `AllFlushedInTheEnd`: `Spec => []NothingLeftUnflushed`;
* `NobodyWhilePreparing`: `Spec => []NoneWhilePreparing`;
* `UsersAreCounted`: `Spec => []CountsUsers`;
* `FilledBeforeUse`: `Spec => []IndexesFilled`, with at most one crash and no stop,
  failure or parallel REINDEX on top (`OneCrash`).

No lock protects the entries, so the proof is about who may change one and when.
`MainFits` says that the main worker never starts a second flusher of a
database: between registering one and storing its pid it does nothing else.
A pid that is stored although its process is gone (`DeadPID`) is no danger to any of
them: it keeps flushers away, and an entry that does not flush lets nobody in.
`FlushersFit` ties an entry to the place of its flusher; an entry that says
"flushing" belongs to one that flushes or leaves, or was left by one of a server
that stops. `CountFits` is `CountsUsers` made inductive: the count is right while the
server is up *or the flusher is there*, so that a flusher that drains may believe
it; only after it has left may an entry hold what an older one left behind
(`NothingFreed`: never while the server is up). `BackendsFit` and `DirtyFits` then
say that whoever is past `PGrnEnsureDatabase`, and whatever is not flushed, has a
flusher. `LostInv` adds, for the last theorem, that a database without its indexes
is in the hands of a flusher that waits for the REINDEX.

`PGrnSearchProofs` also proves, of `PGrnScanKeys`, for any characters, rows, plans of any number of keys and
arguments of any length (`ScanKeysAssumption`), and for rescans after any scans:

* `SearchFindsEveryRow`: `Spec => []IndexFindsAll`;
* `SearchFindsNoOtherRow`: `Spec => []IndexFindsOnly`;
* `LikeHasKeywords`: a text that is like a pattern has each keyword that
  `PGrnSearchBuildConditionLikeMatch` cuts out of the pattern;
* `LikeMatchesRegexp`: it matches the regular expression
  `PGrnSearchBuildConditionLikeRegexp` makes of the pattern.

The two formulas say of all these plans what the run finds out for plans of two
keys: the only exceptions are those listed above (`EmptyAlternative`, `SameBorder`...).
The plans include arrays with any operator, and an array may be taken for any value of
its column (`Datums`).

The invariant (`SearchInv`) says what has become of the keys that have come, as they
were read (`ReadAs`); `WantedRead` then leads back to the keys of the query, row by row:
where the two differ is `LostToArrays` and `FoundByArrays`. Of an
expression: the stack holds exactly one set, and in it are all rows that all keys
hold for (`AllFits`) and no others (`OnlyFits`), unless one of the exceptions has
happened already; a key that pushes nothing leaves the stack empty, and the operator
that comes next is short of an operand. One key adds to it what `BuildConditionFits` and
`NotPrefixBuilt` say: it pushes a set, nothing, or empties the search, and "!&^|" takes
rows off the set that is there, which is why it must push all rows when it is the
first key and only then. Of a range: a border with an operator is that of a key, and
its value lets in no more than any key (`UpperFits`, `LowerFits`). For rescans this has
to be said of values without an operator, too: the value of the scan before stays, and
a key that it already implies leaves no border (`LostBorder`).

Loops are folds, and what they leave is shown along their run: `LeftFolds` proves that
the recursive function by which the community modules define `FoldLeft` exists
for sequences of any length and computes the run step by step (`FoldLeftRuns`). For a pattern
the run of `LikeKeyword` is followed side by side with that of `LikeElement`, the
reference: what is held back in `keyword` is the row of characters just read, and those
are consecutive in every text that matches (`KeywordsFit`). For `LikeRegexp` it is that
of `LikeRegexpElement`: the elements are the same but for a "%" at an end, which is
replaced by where the search begins and by `open`.

`PGrnWALObjectsProofs` proves, for any databases, indexes, attributes (of any type and
number), tablespaces, rows and any number of tuples in a bulk record, both kinds of WAL
and whatever fails, is dropped, vacuumed or replayed again (`ObjectsAssumption`; the
bounds may have any value):

* `RecordsAreTold`: `Spec => []RecordsTellOperations`: when the standby comes to a record, what it refers to
  is there and what it creates is not, replaying it ends without an error and does to the database what
  the operation did on the primary. The exceptions are tuples that are short and tablespaces of their own,
  told of above.

So the three places that have to agree for each of the nine operations do: the `Write` functions
and the `Read` functions of `pgrn-wal-custom.h` with the redo of the resource manager, and
the packers and `PGrnWALApply*` of `pgrn-wal.c`. Most of the proof is about that: each read,
given the cells its write gives and any that follow, takes just those and
gives back what was written (`TupleIsRead`, `ValueIsRead`, `SetSourcesIsRead`), along the run of the fold that
reads what was counted (`LeftFolds`); the bulk record, whose reader goes on until nothing is left, ends
after the last tuple. Then `RecordIsRedone` and `ObjectIsApplied` say it of each operation. What can
be read back is `FormedOp`: a vector has elements, texts or values of a fixed
size; an object in pages has no column called "_key", "_table" or "_action" (the first
is why the assumption is there: `PGrnColumnNameEncode` takes care of it). The inductive invariant, `RecordsInv`,
is that everything the steps of all scripts, the buffers of bulk insertions and the streams hold
is formed, and was written as its operation is written; it holds of each of the scripts by their
construction from the attributes (`FormedSteps`), and of a bulk record because the buffer is only appended to.
What the invariant does not say, and the theorem supposes, is that what a record refers to is there: this is
what `FirstReplayNeverFails` and `StandbyHasIndexes` check on the run.

`PGrnJSONBProofs` proves, for any documents whose tokens are tokens (`JSONBAssumption`),
any number of insertions, failures and VACUUMs (the bounds may have any value),
any limit of a path and any reading of numbers:

* `SearchesAlwaysAgree`: `Spec => []SearchesAgree`;
* `NoValueIsEverLeft`: `Spec => []NoValueIsLeft`.

Both are about what holds while nothing is spoilt, and so is their invariant,
`ValuesInv` (`ValuesBelongTogether`). Insertions do not keep each other away, so it says of all
of them at once: a key has one value that is alive (`OneValueOfKey`); an insertion has,
in order, values of the first calls of its document, and the other calls before it
(`Inserting`); one insertion at most is about to set the columns of a
value (`OneSets`), which is why `Written` finds them bare and an ID that is used
again does not keep the columns of the value before (`FreeIDs`); every other value has
the columns of a call with its key, and the standby knows its key (`ValueFits`). A row
refers to the values of its calls, one for each (`RowsFit`); the standby has the same
values and rows by keys (`ReplicaFits`). When all insertions are through, then,
what the index looks at are the columns of the calls of the document, which is
what the operator without an index looks at (`RowMeets`). For full text search it is
shown, along the run of both folds over the tokens, that the strings are those of
the calls (`DocumentFits`).

That VACUUM leaves nothing is `NoneIsLost`: a value that is alive is referred to by a
row, in the hand of an insertion, or between the place of VACUUM and the biggest ID.
The smallest and the biggest ID that VACUUM has seen are alive (`VacuumFits`), because only
VACUUM itself removes values; without that its cursor might not open and all
would be left. When the last row that refers to a value goes, its ID is seen
(`UpdateDeletedIDsFit`, along the run of the fold over the IDs of the row).

Only model-checked: replication with two readers or a standby that is overrun
(`RaisedOnlyWhenBehind` among others); that what a record refers to is there when it is replayed, and what
is there in the end (`FirstReplayNeverFails`, `ReplayFailsOnMovedTables`, `StandbyHasIndexes`,
`StandbyHasNoMore`), which are about whole histories of two nodes; what "@>" finds
(`ContainFindsAll`, `ContainFindsOnly`), and all liveness, that of `WALDelivery`
included, which the proof system does not do. What "@>" finds is compared with a
containment that is recursive in the documents, and takes induction over them, which
keeps the proof system away.

## What is not modelled

* The rows of the first table without a module: the WAL applier (the loop of the
  standby maintainer's main worker), text functions, conversions, settings, options
  and the custom scan (no state that two steps share).
* Of the page WAL: promotion; truncation on a standby;
  `pgroonga_wal_set_applied_position` with a position of the operator's choice;
  `pgroonga.enable_wal` switched off and on. Of the crash safer: processes inside the unlocked hash table at the same instant; the table
  space in the key of an entry.
* Of the life of an index: the parallel copy of a build (its workers insert rows of
  their own under Groonga's locks), the functions that list broken indexes and
  physical tables, tokenizers and normalizers other than as names.
* Of scans: which order (any may come), scores, costs; the tokenizer, of which `PGrnScanKeys` keeps that a
  keyword is found where it is part of a text; queries with operators.
* Of JSONB: the creation of its tables; `kill_prior_tuple`, which removes the row of a
  JSONB index and leaves its values.
* `pgrn-auto-close.c`.

Groonga and PostgreSQL themselves appear as what PGroonga
relies on: generic XLOG records are atomic, `P_NEW` extends the relation at once
and an abort does not undo it, content locks are not reentrant, a buffer lock's
release wakes who waits, background workers are started by a postmaster that is
up and forgotten by one that stops.

## The plan

Done: the page WAL, writing and applying, and its composition; the crash safer; the
standby maintainer; the life of indexes with both kinds of WAL and their redo; JSONB;
index scans, their keys and the sequential search; theorems about the writer, a
standby that keeps up (with the safety part of the refinement of `WALDelivery`), records and their redo, the crash safer, the maintainer, index scans, what their keys find, the sequential search, and the values of JSONB indexes. Left, in this order:

1. theorems: that the first replay of a record finds what it refers to, by following the
   database of the standby as an earlier one of the primary; replication with two readers, for which `Tracks` would have to count
   what each of them has applied;
2. promotion of a standby: the readers of `PGrnWALReplication` become writers;
3. the maintainer's appliers composed with `PGrnWALApply`, so that what two rounds do to
   one index is one model; SIGHUP;
4. `PGrnAutoClose`, and the parallel copy of a build;
5. pure algorithms over bounded inputs: encoding of column names, escaping, the size
   of the largest record, each against a reference definition.
