----------------------------- MODULE PGrnWALRedo -----------------------------
(***************************************************************************)
(* What a standby does with one record of the custom WAL resource manager  *)
(* (pgroonga-wal-resource-manager.c) and with one object of the generic    *)
(* WAL (PGrnWALApplyObject and what it calls, pgrn-wal.c).  Both give the  *)
(* database they leave and whether they ended without an ERROR: an ERROR   *)
(* leaves what was done before it.                                         *)
(***************************************************************************)
EXTENDS PGrnGroongaDB, PGrnWALRecords

DefaultSpace == "default"

Modules(m) == IF m = None THEN {} ELSE {m}

\* PGrnCreateTableRawWithSize and PGrnCreateColumnRawWithSize: an object of an
\* index in a tablespace of its own goes to the directory that the database
\* MyDatabaseId has in that tablespace.  The startup process is connected to
\* no database.
NoDatabase == "InvalidOid"
HasDirectory(myDatabase, space) == space = DefaultSpace \/ myDatabase # NoDatabase

CreateTableRaw(myDatabase, db, name, type, module, space) ==
  IF HasDirectory(myDatabase, space) THEN CreateTable(db, name, type, Modules(module)) ELSE Fail(db)
CreateColumnRaw(myDatabase, db, table, name, type, space) ==
  IF HasDirectory(myDatabase, space) THEN CreateColumn(db, table, name, type) ELSE Fail(db)

\* An ERROR for a column that is not there comes when the row has been added
\* and the columns before it have been set.
InsertRowInto(db, table, key, cols) ==
  LET unknown == {i \in DOMAIN cols : ~HasColumn(db, table, cols[i].name)}
  IN IF unknown = {}
     THEN Done(AddRow(db, table, key, cols))
     ELSE Fail(AddRow(db, table, key, SubSeq(cols, 1, Min(unknown) - 1)))

-----------------------------------------------------------------------------
(* The resource manager.                                                   *)

\* Mutant: a table that is there already is not removed first.
RedoCreateTableOnce(db, out) ==
  IF Known(db, out[5]) THEN CreateTableRaw(NoDatabase, db, out[3], out[5], out[6], out[2]) ELSE Fail(db)
RedoCreateTable(db, out) ==
  LET name == out[3]
      type == out[5]
      cleared == RemoveTableDependent(db, name)
  IN IF ~Known(db, type)
     THEN Fail(db)
     ELSE CreateTableRaw(NoDatabase, cleared, name, type, out[6], out[2])

RedoCreateColumn(db, out) ==
  LET table == out[3]
      name == out[4]
      type == out[6]
      cleared == IF HasColumn(db, table, name) THEN WithoutColumns(db, {<<table, name>>}) ELSE db
  IN IF ~HasTable(db, table) \/ ~Known(db, type)
     THEN Fail(db)
     ELSE CreateColumnRaw(NoDatabase, cleared, table, name, type, out[2])

RedoSetSources(db, out) ==
  LET column == out[2]
      sources == {out[i] : i \in 3..Len(out)}
  IN IF \E tc \in {column} \cup sources : ~HasColumn(db, tc[1], tc[2])
     THEN Fail(db)
     ELSE SetSources(db, column, sources)

\* The table that has the new name goes before the old name is looked up.
RedoRenameTable(db, out) ==
  LET cleared == RemoveTableDependent(db, out[3])
  IN IF HasTable(cleared, out[2]) THEN RenameTable(cleared, out[2], out[3]) ELSE Fail(cleared)

\* The first column is the key.
RedoInsertTuple(db, table, cols) == InsertRowInto(db, table, cols[1].v[1], Tail(cols))

RedoInsert(db, cells) ==
  LET head == InsertHead(cells)
      tuple == AtEnd(TakeTuple(head))
  IN IF ~tuple.ok \/ ~HasTable(db, head.out[2])
     THEN Fail(db)
     ELSE RedoInsertTuple(db, head.out[2], tuple.out)

\* Tuple after tuple up to the end: those before one that cannot be read are
\* inserted.
RedoTuple(state, cell) ==
  LET db == state.result.db
      tuple == TakeTuple(state.raw)
  IN IF state.raw.rest = <<>> \/ ~state.result.ok
     THEN state
     ELSE [state EXCEPT !.raw = tuple,
                        !.result = IF tuple.ok THEN RedoInsertTuple(db, state.table, tuple.out) ELSE Fail(db)]

\* A tuple has a cell at least.
RedoBulkInsert(db, cells) ==
  LET head == InsertHead(cells)
      start == [raw |-> head, table |-> head.out[2], result |-> Done(db)]
  IN IF ~head.ok \/ ~HasTable(db, head.out[2])
     THEN Fail(db)
     ELSE FoldLeft(RedoTuple, start, head.rest).result

RedoDelete(db, out) ==
  IF HasTable(db, out[2]) THEN DeleteRow(db, out[2], out[3]) ELSE Fail(db)
RedoRemoveObject(db, out) == RemoveObject(db, out[2])
RedoRegisterPlugin(db, out) == RegisterPlugin(db, out[2])

\* pgrnwrm_redo: read the record, then do it.
RedoRead(db, raw, redo(_, _)) == IF raw.ok THEN redo(db, raw.out) ELSE Fail(db)
Redo(db, action, cells) ==
  CASE action = "create_table" -> RedoRead(db, CreateTableRead(cells), RedoCreateTable)
    [] action = "create_column" -> RedoRead(db, CreateColumnRead(cells), RedoCreateColumn)
    [] action = "set_sources" -> RedoRead(db, SetSourcesRead(cells), RedoSetSources)
    [] action = "rename_table" -> RedoRead(db, RenameTableRead(cells), RedoRenameTable)
    [] action = "insert" -> RedoInsert(db, cells)
    [] action = "bulk_insert" -> RedoBulkInsert(db, cells)
    [] action = "delete" -> RedoRead(db, DeleteRead(cells), RedoDelete)
    [] action = "remove_object" -> RedoRead(db, RemoveObjectRead(cells), RedoRemoveObject)
    [] action = "register_plugin" -> RedoRead(db, RegisterPluginRead(cells), RedoRegisterPlugin)

-----------------------------------------------------------------------------
(* The generic WAL: a backend of the standby applies, connected to d.      *)

ApplyCreateTable(d, db, object) ==
  IF Known(db, ValueOf(object, "type"))
  THEN CreateTableRaw(d, db, ValueOf(object, "name"), ValueOf(object, "type"),
                      ValueOf(object, "token_filters"), DefaultSpace)
  ELSE Fail(db)

ApplyCreateColumn(d, db, object) ==
  IF HasTable(db, ValueOf(object, "table")) /\ Known(db, ValueOf(object, "type"))
  THEN CreateColumnRaw(d, db, ValueOf(object, "table"), ValueOf(object, "name"),
                       ValueOf(object, "type"), DefaultSpace)
  ELSE Fail(db)

ApplySetSources(db, object) ==
  LET column == ValueOf(object, "column")
      sources == ValueOf(object, "sources")
  IN IF \E tc \in {column} \cup ToSet(sources) : tc = None \/ ~HasColumn(db, tc[1], tc[2])
     THEN Fail(db)
     ELSE SetSources(db, column, ToSet(sources))

\* grn_table_rename is not followed by a check: what it cannot do it leaves.
ApplyRenameTable(db, object) ==
  IF HasTable(db, ValueOf(object, "name"))
  THEN Done(RenameTable(db, ValueOf(object, "name"), ValueOf(object, "new_name")).db)
  ELSE Fail(db)

ApplyInsert(db, object) ==
  LET table == ValueOf(object, "_table")
      cols == [i \in 1 .. Len(object.kvs) - 2 |->
                 [name |-> object.kvs[i + 2].key, v |-> object.kvs[i + 2].value]]
      all == InsertRowInto(db, table, ValueOf(object, "_key"), cols)
  IN IF ~HasTable(db, table)
     THEN Fail(db)
     ELSE IF Missing(object) > 0    \* the first object taken as a key is no string
     THEN Fail(all.db)
     ELSE all

ApplyDelete(db, object) ==
  IF HasTable(db, ValueOf(object, "table"))
  THEN DeleteRow(db, ValueOf(object, "table"), ValueOf(object, "key"))
  ELSE Fail(db)

ApplyObject(d, db, object) ==
  LET action == IF HasEntry(object, "_action") THEN ValueOf(object, "_action") ELSE "insert"
  IN CASE action = "insert" -> ApplyInsert(db, object)
       [] action = "create_table" -> ApplyCreateTable(d, db, object)
       [] action = "create_column" -> ApplyCreateColumn(d, db, object)
       [] action = "set_sources" -> ApplySetSources(db, object)
       [] action = "rename_table" -> ApplyRenameTable(db, object)
       [] action = "delete" -> ApplyDelete(db, object)
       [] action = "remove_object" -> RemoveObject(db, ValueOf(object, "name"))
       [] action = "register_plugin" -> RegisterPlugin(db, ValueOf(object, "name"))
=============================================================================
