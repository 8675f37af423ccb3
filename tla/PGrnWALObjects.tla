---------------------------- MODULE PGrnWALObjects ----------------------------
(***************************************************************************)
(* PGroonga indexes of a primary and their copies on a standby: building   *)
(* (pgroonga_build), inserting, deleting, dropping, and VACUUM removing    *)
(* what a dropped index leaves; every change of the Groonga database of    *)
(* the primary with the WAL it writes, or does not write, and the standby  *)
(* that applies it, once or, after a restart, once more.                   *)
(*                                                                         *)
(* mode "custom": the custom WAL resource manager; all databases share one *)
(* stream of records, the startup process redoes it.  mode "generic": the  *)
(* WAL in the pages of each index (its pages are in PGrnWALWriter and      *)
(* PGrnWALApply; here it is the sequence of its objects), a stream for     *)
(* each index.  An index is known by its file node; pgroonga_build, VACUUM *)
(* and so on are scripts of steps, between which other databases step.     *)
(***************************************************************************)
EXTENDS PGrnWALRedo

CONSTANTS
  Databases,
  Modes,          \* kinds of WAL: a subset of {"custom", "generic"}
  FileNodes,      \* the indexes, from 1
  Home,           \* Home[n]: the database of index n
  Built,          \* the indexes that exist, on both nodes, at the start, in order
  Spaces,         \* the tablespaces of the indexes: functions of n, DefaultSpace that of the database
  Attributes,     \* the names of the attributes of every index, in order
  Prefix,         \* the attributes with a prefix search operator class
  Included,       \* the attributes in INCLUDE, the last ones
  Plugin,         \* the plugin with the token filters of the lexicons, None without
  Domain,         \* Domain[a]: the Groonga type of attribute a
  Rows,           \* rows that are inserted: [key, nulls, tooLong]
  Contents,       \* sequences of rows that a table may have when its index is created
  MaxBulkTuples,  \* tuples of a bulk record that are too many for another one
  Active,         \* bound: Active[mode], the indexes that something happens to
  Kept,           \* bound: the indexes that are neither truncated nor dropped
  MaxOperations,  \* bound: MaxOperations[mode], scripts begun
  MaxLag,         \* bound: MaxLag[mode], how far a channel is ahead of the standby
  MaxErrors,      \* bound: builds that fail
  MaxRestarts     \* bound: restarts of the standby

ASSUME ObjectsAssumption ==
  /\ Modes \subseteq {"custom", "generic"}
  /\ FileNodes \subseteq Nat \ {0}
  /\ Built \in Seq(FileNodes)
  /\ Home \in [FileNodes -> Databases]
  /\ MaxBulkTuples \in Nat
  /\ NoDatabase \notin Databases
  /\ Attributes \in Seq(ToSet(Attributes))
  /\ \A a \in ToSet(Attributes) : a \notin {"_table", "_key", "_action"}   \* PGrnColumnNameEncode
  /\ \A rows \in Contents : rows \in Seq(ToSet(rows))

VARIABLES
  mode,      \* the kind of WAL
  space,     \* space[n]: the tablespace of index n
  primary,   \* primary[d]: the Groonga database of d on the primary
  phase,     \* phase[n]: "none" before CREATE INDEX, "building", "live"; "dropped"
             \* or "failed": the file node is not valid any more
  script,    \* script[d]: the steps that the backend in d still has to do
  owner,     \* owner[d]: the index the script is about
  made,      \* made[d]: the tables the running build has created
  bulk,      \* bulk[d]: the tuples in the buffer of the bulk insertion
  stream,    \* stream[c]: the records or objects of channel c
  standby,   \* standby[d]: the Groonga database of d on the standby
  opened,    \* PGrnWRMCurrentDatabaseID
  applied,   \* applied[c]: how much of channel c the standby has applied
  high,      \* high[c]: how much of it the standby ever has applied
  from,      \* from[c]: where the last restart began again
  status,    \* status[c]: "ok" or, after an ERROR, "failed"
  count      \* what the bounds count

wal == <<stream, count>>
primaryVars == <<primary, phase, script, owner, made, bulk>>
standbyVars == <<standby, opened, applied, high, from, status>>
config == <<mode, space>>
vars == <<config, primaryVars, wal, standbyVars>>

XLog == 0
Channels == {XLog} \cup FileNodes
Channel(n) == IF mode = "custom" THEN XLog ELSE n
Both == {"custom", "generic"}

\* A step: the operation, and the WALs that hear of it.
Step(op, wals) == [op |-> op, wals |-> wals]
Logged(op) == Step(op, Both)
Steps(steps(_), seq) == FlattenSeq([i \in DOMAIN seq |-> steps(seq[i])])

-----------------------------------------------------------------------------
(* CREATE INDEX: PGrnCreate, the copy of the rows, PGrnSetSources,         *)
(* PGrnCreateSourcesTableFinish, PGrnUpdateMaxRecordSize.                  *)

LexiconFor(n, a) == Lexicon(n, a)
\* What is done for the columns that have a lexicon.
Unless(excluded, steps) == IF excluded THEN <<>> ELSE steps

CreateLexicon(n, a) ==
  (IF Plugin = None THEN <<>> ELSE <<Logged(RegisterPluginOp(Plugin))>>)
    \o <<Logged(CreateTableOp(LexiconFor(n, a), Type("ShortText"), Plugin, space[n]))>>

CreateDataColumn(n, a) ==
  LET range == IF a \in Prefix THEN LexiconFor(n, a) ELSE Type(Domain[a])
  IN <<Logged(CreateColumnOp(Building(n), a, range, space[n]))>>

CreateIndexColumn(n, a) ==
  <<Logged(CreateColumnOp(LexiconFor(n, a), IndexColumn, Building(n), space[n]))>>

CreateAttribute(n, a) ==
  IF a \in Included
  THEN (IF a \in Prefix THEN CreateLexicon(n, a) ELSE <<>>) \o CreateDataColumn(n, a)
  ELSE CreateLexicon(n, a) \o CreateDataColumn(n, a) \o CreateIndexColumn(n, a)

\* Mutant: the lexicons go with PGrnRemoveObject, which writes no WAL.
RemoveUnusedTableQuietly(n, wals) ==
  LET removed(name) == Step(RemoveObjectOp(name), wals)
      columns(a) == Unless(a \in Included, <<removed(<<LexiconFor(n, a), IndexColumn>>)>>)
      lexicon(a) == Unless(a \in Included, <<Step(RemoveObjectOp(<<LexiconFor(n, a), "">>), {})>>)
  IN Steps(columns, Attributes) \o <<removed(<<Sources(n), "">>)>> \o Steps(lexicon, Attributes)
\* PGrnRemoveUnusedTable.  The rows of the index in Aliases and IndexStatuses
\* go without WAL; wals: who hears of the rest.
RemoveUnusedTable(n, wals) ==
  LET removed(name) == Step(RemoveObjectOp(name), wals)
      columns(a) == Unless(a \in Included, <<removed(<<LexiconFor(n, a), IndexColumn>>)>>)
      lexicon(a) == Unless(a \in Included, <<removed(<<LexiconFor(n, a), "">>)>>)
  IN Steps(columns, Attributes)
       \o <<removed(<<Sources(n), "">>), Step(DeleteOp(Aliases, n), {}), Step(DeleteOp(IndexStatuses, n), {})>>
       \o Steps(lexicon, Attributes)

\* PGrnInsert: the key and the attributes that are not NULL are announced; a
\* value that cannot be cast to the lexicon of its column is not packed.
Value(a, key) == CASE Domain[a] \in {"Text", "LongText"} -> Bulk(Domain[a], <<a, key>>)
                   [] Domain[a] = "ShortText" -> Vector("ShortText", <<<<a, key>>, <<a, "x">>>>)
                   [] OTHER -> UVector(Domain[a], <<key, key>>)
RowTuple(row) ==
  LET col(a) == <<[name |-> a, value |-> Value(a, row.key)]>>
      valid(a) == Unless(a \in row.nulls, col(a))
      packed(a) == Unless(a \in row.nulls \/ (row.tooLong /\ a \in Prefix), col(a))
  IN Tuple(1 + Len(Steps(valid, Attributes)), row.key, Steps(packed, Attributes))
InsertRow(table, row) == Logged(InsertOp(table, RowTuple(row)))

\* A row of Aliases or IndexStatuses: PGrnWALInsertFinish is not called, so
\* that the resource manager's record stays in the buffer.
LocalRow(table, n) ==
  Step(InsertOp(table, Tuple(2, n, <<[name |-> "value", value |-> Bulk("Text", n)]>>)), {"generic"})
AliasAdd(n) == LocalRow(Aliases, n)
UpdateMaxRecordSize(n) == LocalRow(IndexStatuses, n)

SetSourceSteps(n) ==
  LET set(a) == Unless(a \in Included,
        <<Logged(SetSourcesOp(<<LexiconFor(n, a), IndexColumn>>, <<<<Building(n), a>>>>))>>)
  IN Steps(set, Attributes)

\* Rows are inserted in bulk when only the resource manager is enabled.
CopySource(n, rows) ==
  LET row(r) == <<InsertRow(Building(n), r)>>
  IN Steps(row, rows)
       \o IF mode = "custom" THEN <<Step(BulkInsertOp(Building(n), <<>>), {"custom"})>> ELSE <<>>

BuildSteps(n, rows, exists) ==
  LET attribute(a) == CreateAttribute(n, a)
  IN (IF exists THEN RemoveUnusedTable(n, Both) ELSE <<>>)
       \o <<Logged(CreateTableOp(Building(n), Type("UInt64"), None, space[n]))>>
       \o Steps(attribute, Attributes)
       \o CopySource(n, rows)
       \o SetSourceSteps(n)
       \o <<Logged(RenameTableOp(Building(n), Sources(n))), AliasAdd(n), UpdateMaxRecordSize(n)>>

\* A Sources table of the same file node is what an earlier build left.
BuildScript(n, rows) == BuildSteps(n, rows, HasTable(primary[Home[n]], Sources(n)))

-----------------------------------------------------------------------------
(* What an operation does to the Groonga database of the primary.          *)

Values(cols) == [i \in DOMAIN cols |-> [name |-> cols[i].name, v |-> cols[i].value.v]]
Perform(d, db, op) ==
  CASE op.action = "create_table" -> CreateTableRaw(d, db, op.name, op.type, op.modules, op.space).db
    [] op.action = "create_column" -> CreateColumnRaw(d, db, op.table, op.name, op.type, op.space).db
    [] op.action = "set_sources" -> SetSources(db, op.column, ToSet(op.sources)).db
    [] op.action = "rename_table" -> RenameTable(db, op.name, op.new).db
    [] op.action = "insert" -> AddRow(db, op.table, op.tuple.key, Values(op.tuple.cols))
    [] op.action = "bulk_insert" -> db
    [] op.action = "delete" -> DeleteRow(db, op.table, op.key).db
    [] op.action = "remove_object" -> RemoveObject(db, op.name).db
    [] op.action = "register_plugin" -> RegisterPlugin(db, op.name).db

Record(d, op) == [db |-> d, action |-> op.action, cells |-> CustomWrite(d, op), op |-> op]
ObjectRecord(d, op) == [db |-> d, action |-> op.action, object |-> GenericWrite(op), op |-> op]

Emit(d, n, op) ==
  stream' = [stream EXCEPT ![Channel(n)] =
               Append(@, IF mode = "custom" THEN Record(d, op) ELSE ObjectRecord(d, op))]

Bulking(d) == \E i \in DOMAIN script[d] : script[d][i].op.action = "bulk_insert"

\* Mutant: the tuple for which there was no room is lost.
BulkInsertLossy(d, op) ==
  IF Len(bulk[d]) > MaxBulkTuples
  THEN /\ Emit(d, owner[d], BulkInsertOp(op.table, bulk[d]))
       /\ bulk' = [bulk EXCEPT ![d] = <<>>]
  ELSE /\ bulk' = [bulk EXCEPT ![d] = Append(@, op.tuple)]
       /\ UNCHANGED stream
\* PGrnWALInsertStartCustom in a bulk insertion: a buffer that is too long
\* becomes a record first.
BulkInsert(d, op) ==
  IF Len(bulk[d]) > MaxBulkTuples
  THEN /\ Emit(d, owner[d], BulkInsertOp(op.table, bulk[d]))
       /\ bulk' = [bulk EXCEPT ![d] = <<op.tuple>>]
  ELSE /\ bulk' = [bulk EXCEPT ![d] = Append(@, op.tuple)]
       /\ UNCHANGED stream

Write(d, step) ==
  LET op == step.op
  IN IF mode \notin step.wals
     THEN UNCHANGED <<stream, bulk>>
     ELSE IF op.action = "insert" /\ mode = "custom" /\ Bulking(d)
     THEN BulkInsert(d, op)
     ELSE IF op.action = "bulk_insert"
     THEN /\ Emit(d, owner[d], BulkInsertOp(op.table, bulk[d]))
          /\ bulk' = [bulk EXCEPT ![d] = <<>>]
     ELSE Emit(d, owner[d], op) /\ UNCHANGED bulk

-----------------------------------------------------------------------------
(* The primary.                                                            *)

Idle(d) == script[d] = <<>>

\* Every record starts with GRN_BULK_REWIND of the one buffer.
Begin(n, steps) ==
  /\ count.operations < MaxOperations[mode]
  /\ count' = [count EXCEPT !.operations = @ + 1]
  /\ script' = [script EXCEPT ![Home[n]] = steps]
  /\ owner' = [owner EXCEPT ![Home[n]] = n]
  /\ made' = [made EXCEPT ![Home[n]] = {}]
  /\ bulk' = [bulk EXCEPT ![Home[n]] = <<>>]

CreateIndex(n, rows) ==
  /\ phase[n] = "none"
  /\ Idle(Home[n])
  /\ Begin(n, BuildScript(n, rows))
  /\ phase' = [phase EXCEPT ![n] = "building"]
  /\ UNCHANGED <<config, primary, stream, standbyVars>>

\* TRUNCATE of a table the transaction has created keeps its file nodes.
Truncate(n) ==
  /\ n \notin Kept
  /\ phase[n] = "live"
  /\ Idle(Home[n])
  /\ Begin(n, BuildScript(n, <<>>))
  /\ phase' = [phase EXCEPT ![n] = "building"]
  /\ UNCHANGED <<config, primary, stream, standbyVars>>

\* The next step of the script; the last one of a build makes the index ready.
Proceed(d) ==
  LET step == Head(script[d])
      n == owner[d]
  IN /\ ~Idle(d)
     /\ Len(stream[Channel(n)]) - high[Channel(n)] <= MaxLag[mode]
     /\ primary' = [primary EXCEPT ![d] = Perform(d, @, step.op)]
     /\ Write(d, step)
     /\ script' = [script EXCEPT ![d] = Tail(@)]
     /\ made' = [made EXCEPT ![d] = IF step.op.action = "create_table" THEN @ \cup {step.op.name} ELSE @]
     /\ phase' = [phase EXCEPT ![n] = IF @ = "building" /\ Len(script[d]) = 1 THEN "live" ELSE @]
     /\ UNCHANGED <<config, owner, count, standbyVars>>

\* PG_CATCH of pgroonga_build: the lexicons, then the sources table under the
\* name it has, are removed, without WAL; what Groonga refuses stays.  The
\* last step, PGrnUpdateMaxRecordSize, is outside of PG_TRY.
RemoveTableIfCan(db, t) == RemoveTable(db, t).db
RemoveMade(db, d, n) ==
  LET lexicon(a) == Unless(LexiconFor(n, a) \notin made[d], <<LexiconFor(n, a)>>)
      cleared == FoldLeft(RemoveTableIfCan, db, Steps(lexicon, Attributes))
      table == IF HasTable(cleared, Building(n)) THEN Building(n) ELSE Sources(n)
  IN IF Building(n) \in made[d] THEN RemoveTable(cleared, table).db ELSE cleared

BuildError(d) ==
  LET n == owner[d]
  IN /\ ~Idle(d)
     /\ phase[n] = "building"
     /\ count.errors < MaxErrors
     /\ count' = [count EXCEPT !.errors = @ + 1]
     /\ primary' = [primary EXCEPT ![d] = IF Len(script[d]) = 1 THEN @ ELSE RemoveMade(@, d, n)]
     /\ phase' = [phase EXCEPT ![n] = "failed"]
     /\ script' = [script EXCEPT ![d] = <<>>]
     /\ made' = [made EXCEPT ![d] = {}]
     /\ UNCHANGED <<config, owner, bulk, stream, standbyVars>>

\* pgroonga_insert of a ready index.
Insert(n, row) ==
  /\ phase[n] = "live"
  /\ Idle(Home[n])
  /\ row.key \notin DOMAIN primary[Home[n]].tables[Sources(n)].rows
  /\ Begin(n, <<InsertRow(Sources(n), row)>>)
  /\ UNCHANGED <<config, primary, phase, stream, standbyVars>>

\* pgroonga_bulkdelete: a row of a dead tuple.
Delete(n, key) ==
  /\ phase[n] = "live"
  /\ Idle(Home[n])
  /\ key \in DOMAIN primary[Home[n]].tables[Sources(n)].rows
  /\ Begin(n, <<Logged(DeleteOp(Sources(n), key))>>)
  /\ UNCHANGED <<config, primary, phase, stream, standbyVars>>

DropIndex(n) ==
  /\ n \notin Kept
  /\ phase[n] = "live"
  /\ Idle(Home[n])
  /\ phase' = [phase EXCEPT ![n] = "dropped"]
  /\ UNCHANGED <<config, primary, script, owner, made, bulk, wal, standbyVars>>

\* PGrnRemoveUnusedTables: only a Sources table tells of an index to remove.
\* There is no relation any more, and without one PGrnWALStart gives no WAL.
Vacuum(n) ==
  /\ phase[n] \in {"dropped", "failed"}
  /\ Idle(Home[n])
  /\ HasTable(primary[Home[n]], Sources(n))
  /\ Begin(n, RemoveUnusedTable(n, {"custom"}))
  /\ UNCHANGED <<config, primary, phase, stream, standbyVars>>

-----------------------------------------------------------------------------
(* The standby.                                                            *)

\* Mutant: the database that is open stays open.
RedoSetupOnce(d) == IF opened = NoDatabase THEN d ELSE opened
\* pgrnwrm_redo_setup: the database of the record.
RedoSetup(d) == IF d = opened THEN opened ELSE d

NextRecord(c) == stream[c][applied[c] + 1]

\* The objects that msgpack takes for the entries an object lacks.
Swallowed(c) == IF mode = "custom" THEN 0 ELSE 2 * Missing(NextRecord(c).object)

DatabaseOf(record) == IF mode = "custom" THEN RedoSetup(record.db) ELSE record.db
Outcome(d, record) ==
  IF mode = "custom"
  THEN Redo(standby[d], record.action, record.cells)
  ELSE ApplyObject(d, standby[d], record.object)

Apply(c) ==
  LET d == DatabaseOf(NextRecord(c))
      result == Outcome(d, NextRecord(c))
  IN /\ status[c] = "ok"
     /\ applied[c] < Len(stream[c])
     /\ applied[c] + 1 + Swallowed(c) <= Len(stream[c])
     /\ standby' = [standby EXCEPT ![d] = result.db]
     /\ opened' = IF mode = "custom" THEN d ELSE opened
     /\ applied' = [applied EXCEPT ![c] = IF result.ok THEN @ + 1 ELSE @]
     /\ high' = [high EXCEPT ![c] = IF result.ok /\ applied[c] + 1 > @ THEN applied[c] + 1 ELSE @]
     /\ status' = [status EXCEPT ![c] = IF result.ok THEN @ ELSE "failed"]
     /\ UNCHANGED <<config, primaryVars, wal, from>>

\* custom: replay begins again at the last restart point.  generic: a reader
\* died when it had applied an object and not yet stored its position.
RestartPoints(c) == IF mode = "custom" THEN 0 .. applied[c] ELSE {applied[c] - 1} \cap Nat

Restart(c, point) ==
  /\ status[c] = "ok"
  /\ count.restarts < MaxRestarts
  /\ count' = [count EXCEPT !.restarts = @ + 1]
  /\ applied' = [applied EXCEPT ![c] = point]
  /\ from' = [from EXCEPT ![c] = point]
  /\ opened' = NoDatabase
  /\ UNCHANGED <<config, primaryVars, stream, standby, high, status>>

-----------------------------------------------------------------------------
\* PGrnInitializeAlias, PGrnInitializeIndexStatus, and the indexes of Built.
PerformStep(s, step) == [s EXCEPT !.db = Perform(s.by, @, step.op)]
InitialDB(d) ==
  LET local == [t \in {Aliases, IndexStatuses} |->
                  [NewTable(Type("ShortText"), {}) EXCEPT
                     !.cols = With(NoFunction, "value", NewColumn(Type("ShortText")))]]
      build(n) == Unless(Home[n] # d, BuildSteps(n, <<>>, FALSE))
  IN FoldLeft(PerformStep, [db |-> [EmptyDB EXCEPT !.tables = local], by |-> d], Steps(build, Built)).db

Init ==
  /\ mode \in Modes
  /\ space \in Spaces
  /\ primary = [d \in Databases |-> InitialDB(d)]
  /\ phase = [n \in FileNodes |-> IF n \in ToSet(Built) THEN "live" ELSE "none"]
  /\ script = [d \in Databases |-> <<>>]
  /\ owner = [d \in Databases |-> CHOOSE n \in FileNodes : TRUE]
  /\ made = [d \in Databases |-> {}]
  /\ bulk = [d \in Databases |-> <<>>]
  /\ stream = [c \in Channels |-> <<>>]
  /\ standby = primary
  /\ opened = NoDatabase
  /\ applied = [c \in Channels |-> 0]
  /\ high = applied
  /\ from = applied
  /\ status = [c \in Channels |-> "ok"]
  /\ count = [operations |-> 0, errors |-> 0, restarts |-> 0]

Next ==
  \/ \E n \in Active[mode] :
       \/ \E rows \in Contents : CreateIndex(n, rows)
       \/ \E row \in Rows : Insert(n, row)
       \/ \E row \in Rows : Delete(n, row.key)
       \/ Truncate(n)
       \/ DropIndex(n)
       \/ Vacuum(n)
  \/ \E d \in Databases : Proceed(d) \/ BuildError(d)
  \/ \E c \in Channels : Apply(c)
  \/ \E c \in Channels : \E point \in RestartPoints(c) : Restart(c, point)

Spec == Init /\ [][Next]_vars

-----------------------------------------------------------------------------
(* Properties.                                                             *)

Short(tuple) == Len(tuple.cols) + 1 < tuple.announced
ShortTuple(op) ==
  \/ op.action = "insert" /\ Short(op.tuple)
  \/ op.action = "bulk_insert" /\ \E i \in DOMAIN op.tuples : Short(op.tuples[i])

OwnSpace(op) ==
  /\ mode = "custom"
  /\ op.action \in {"create_table", "create_column"}
  /\ op.space # DefaultSpace

\* Whatever databases and indexes take turns in the stream, a record that the
\* standby has not applied before never ends with an ERROR: what it refers to
\* is there, under the name it has at this point, and the record is read as it
\* was written.  The exceptions are a tuple with fewer columns than announced
\* (a value that cannot be cast, PGrnInsertColumn) and a table or column that
\* the startup process cannot place (an index in a tablespace of its own).
FirstReplayNeverFails ==
  \A c \in Channels :
    status[c] = "failed" /\ applied[c] >= high[c] =>
      ShortTuple(NextRecord(c).op) \/ OwnSpace(NextRecord(c).op)

\* What the operation refers to is there, and what it creates is not.
PlacedTuple(db, table, tuple) ==
  /\ HasTable(db, table)
  /\ \A i \in DOMAIN tuple.cols : HasColumn(db, table, tuple.cols[i].name)
Placed(db, op) ==
  CASE op.action = "create_table" ->
         Known(db, op.type) /\ ~HasTable(db, op.name) /\ Modules(op.modules) \subseteq db.plugins
    [] op.action = "create_column" ->
         HasTable(db, op.table) /\ Known(db, op.type) /\ ~HasColumn(db, op.table, op.name)
    [] op.action = "set_sources" ->
         \A tc \in {op.column} \cup ToSet(op.sources) : HasColumn(db, tc[1], tc[2])
    [] op.action = "rename_table" -> HasTable(db, op.name) /\ ~HasTable(db, op.new)
    [] op.action = "insert" -> PlacedTuple(db, op.table, op.tuple)
    [] op.action = "bulk_insert" ->
         HasTable(db, op.table) /\ \A i \in DOMAIN op.tuples : PlacedTuple(db, op.table, op.tuples[i])
    [] op.action = "delete" -> HasTable(db, op.table)
    [] op.action = "remove_object" -> RemoveObject(db, op.name).ok
    [] OTHER -> TRUE

\* What the primary has done to a database when it writes the record.
InsertTuple(s, tuple) == [s EXCEPT !.db = AddRow(@, s.table, tuple.key, Values(tuple.cols))]
Performed(d, db, op) ==
  IF op.action = "bulk_insert"
  THEN FoldLeft(InsertTuple, [table |-> op.table, db |-> db], op.tuples).db
  ELSE Perform(d, db, op)

\* A record does to the database of the standby what the primary did to its
\* own: what the writer packs is what the reader takes, for every operation,
\* every value and either WAL, and redoing it ends without an ERROR if what
\* the operation refers to is there and what it creates is not (but for a
\* tuple with fewer columns than announced and an index in a tablespace of
\* its own).
RecordsTellOperations ==
  \A c \in Channels :
    applied[c] < Len(stream[c]) =>
      LET record == NextRecord(c)
          op == record.op
      IN Placed(standby[record.db], op) /\ ~ShortTuple(op) /\ ~OwnSpace(op) =>
           Outcome(DatabaseOf(record), record) = Done(Performed(record.db, standby[record.db], op))

Needs(op) ==
  CASE op.action \in {"insert", "bulk_insert", "delete"} -> {op.table}
    [] op.action = "create_column" -> {op.table, op.type}
    [] op.action = "set_sources" -> {op.column[1]} \cup {op.sources[i][1] : i \in DOMAIN op.sources}
    [] op.action = "rename_table" -> {op.name}
    [] OTHER -> {}
Creates(op, t) == op.action = "create_table" /\ op.name = t
Moves(op, t) ==
  \/ op.action = "remove_object" /\ op.name[1] = t
  \/ op.action = "rename_table" /\ op.name = t

Refers(op, t) ==
  \/ op.action = "create_column" /\ op.type = t
  \/ op.action = "rename_table" /\ op.new = t

\* After a restart from any earlier record, the resource manager fails only on
\* a record about a table that it or a later record, replayed before the
\* restart, renamed or removed, and which is not created again on the way, or
\* on the removal of a table that a later record made a column refer to, if
\* only by giving another table, which columns refer to, its name.
\* A reader of the generic WAL that died before it stored its position fails
\* only on an object that creates what is there already or renames what is gone.
ReplayFailsOnMovedTables ==
  \A c \in Channels :
    status[c] = "failed" /\ applied[c] < high[c] =>
      LET i == applied[c] + 1
          op(j) == stream[c][j].op
      IN IF mode = "custom"
         THEN \/ \E t \in Needs(op(i)) :
                   /\ \E j \in i .. high[c] : Moves(op(j), t)
                   /\ ~\E j \in from[c] + 1 .. i - 1 : Creates(op(j), t)
              \/ /\ op(i).action = "remove_object"
                 /\ \E j \in i + 1 .. high[c] : Refers(op(j), op(i).name[1])
         ELSE op(i).action \in {"create_table", "create_column", "rename_table"}

CaughtUp ==
  /\ \A d \in Databases : Idle(d)
  /\ \A c \in Channels : status[c] = "ok" /\ applied[c] = Len(stream[c])

TablesOf(n) == {Sources(n), Building(n)} \cup {LexiconFor(n, Attributes[i]) : i \in DOMAIN Attributes}

\* A standby that has caught up has every table of an index that was built,
\* with the columns, the sources, the token filters and the rows of the
\* primary, however often it restarted.
StandbyHasIndexes ==
  CaughtUp =>
    \A n \in FileNodes : phase[n] # "failed" =>
      LET d == Home[n]
      IN \A t \in TablesOf(n) \cap DOMAIN primary[d].tables :
           HasTable(standby[d], t) /\ standby[d].tables[t] = primary[d].tables[t]

\* And what it has in excess is what a failed build removed on the primary
\* without WAL or, with the generic WAL, what VACUUM did.
StandbyHasNoMore ==
  CaughtUp =>
    \A d \in Databases : \A t \in DOMAIN standby[d].tables \ DOMAIN primary[d].tables :
      \E n \in FileNodes :
        /\ t \in TablesOf(n)
        /\ phase[n] = "failed" \/ (mode = "generic" /\ phase[n] = "dropped")
=============================================================================
