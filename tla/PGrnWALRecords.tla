--------------------------- MODULE PGrnWALRecords ---------------------------
(***************************************************************************)
(* What PGroonga writes about one operation on a Groonga database, in its  *)
(* two WALs, and how it is read back:                                      *)
(*  - the records of the custom WAL resource manager (pgrn-wal-custom.h):  *)
(*    fields in a fixed order without names, which the reader must take in *)
(*    the order, and with the kinds, in which the writer put them;         *)
(*  - the objects of the generic WAL (pgrn-wal.c): msgpack maps that       *)
(*    announce how many entries follow.                                    *)
(* A field is a cell: its kind and its value.  Reading a cell as another   *)
(* kind, past the last cell ("small data") or not up to it ("garbage at    *)
(* the end") is an error; bytes that are taken for a wrong field are one,  *)
(* too, as they hardly ever make another record.                           *)
(***************************************************************************)
EXTENDS Integers, Sequences, SequencesExt

None == <<"none">>   \* NULL: no tokenizer, no source, a value that is missing

Cell(kind, value) == [kind |-> kind, value |-> value]

\* PGrnWALRecordCommon: dbID, dbEncoding and dbTableSpaceID.
Common(d) == <<Cell("common", d)>>
Text(s) == <<Cell("size", 1), Cell("bytes", s)>>
GrnObj(o) == IF o = None THEN <<Cell("size", -1)>> ELSE Text(o)
Many(cells(_), seq) == FlattenSeq([i \in DOMAIN seq |-> cells(seq[i])])

-----------------------------------------------------------------------------
(* The operations, as both WALs tell them.  A tuple has the number of      *)
(* columns that PGrnWALInsertStart announced, the key included, its key    *)
(* and the columns that were packed.                                       *)

CreateTableOp(name, type, modules, space) ==
  [action |-> "create_table", name |-> name, type |-> type, modules |-> modules, space |-> space]
CreateColumnOp(table, name, type, space) ==
  [action |-> "create_column", table |-> table, name |-> name, type |-> type, space |-> space]
SetSourcesOp(column, sources) ==
  [action |-> "set_sources", column |-> column, sources |-> sources]
RenameTableOp(name, new) == [action |-> "rename_table", name |-> name, new |-> new]
InsertOp(table, tuple) == [action |-> "insert", table |-> table, tuple |-> tuple]
BulkInsertOp(table, tuples) == [action |-> "bulk_insert", table |-> table, tuples |-> tuples]
DeleteOp(table, key) == [action |-> "delete", table |-> table, key |-> key]
RemoveObjectOp(name) == [action |-> "remove_object", name |-> name]
RegisterPluginOp(name) == [action |-> "register_plugin", name |-> name]

Tuple(announced, key, cols) == [announced |-> announced, key |-> key, cols |-> cols]
Bulk(domain, v) == [shape |-> "bulk", domain |-> domain, v |-> <<v>>]
Vector(domain, vs) == [shape |-> "vector", domain |-> domain, v |-> vs]
UVector(domain, vs) == [shape |-> "uvector", domain |-> domain, v |-> <<vs>>]
IsText(domain) == domain \in {"Text", "ShortText", "LongText"}

-----------------------------------------------------------------------------
(* Writing a custom record.                                                *)

CreateTableWrite(d, op) ==
  Common(d) \o <<Cell("space", op.space)>> \o Text(op.name) \o <<Cell("flags", 0)>>
    \o GrnObj(op.type) \o GrnObj(op.modules)

CreateColumnWrite(d, op) ==
  Common(d) \o <<Cell("space", op.space)>> \o GrnObj(op.table) \o Text(op.name)
    \o <<Cell("flags", 0)>> \o GrnObj(op.type)

SetSourcesWrite(d, op) ==
  Common(d) \o GrnObj(op.column) \o <<Cell("count", Len(op.sources))>> \o Many(GrnObj, op.sources)

RenameTableWrite(d, op) == Common(d) \o Text(op.name) \o Text(op.new)
DeleteWrite(d, op) == Common(d) \o Text(op.table) \o Text(op.key)
RemoveObjectWrite(d, op) == Common(d) \o Text(op.name)
RegisterPluginWrite(d, op) == Common(d) \o Text(op.name)

\* A value of a fixed size has no size of its own.
ColumnValueRaw(domain, v) == IF IsText(domain) THEN Text(v) ELSE <<Cell("value", v)>>

ColumnWrite(col) ==
  LET value == col.value
      domain(vector) == <<Cell("domain", [domain |-> value.domain, vector |-> vector])>>
      element(v) == ColumnValueRaw(value.domain, v)
  IN Text(col.name) \o
     CASE value.shape = "bulk" -> domain(FALSE) \o ColumnValueRaw(value.domain, value.v[1])
       [] value.shape = "vector" -> domain(TRUE) \o <<Cell("count", Len(value.v))>> \o Many(element, value.v)
       [] value.shape = "uvector" -> domain(TRUE) \o Text(value.v[1])

\* WriteStart or WriteRecordStart, the key, the columns.  The mutant forgets that
\* the key is a column, too.
TupleWriteKeyUncounted(tuple) ==
  <<Cell("count", tuple.announced - 1)>> \o Text("_key") \o Text(tuple.key) \o
    Many(ColumnWrite, tuple.cols)
TupleWrite(tuple) ==
  <<Cell("count", tuple.announced)>> \o Text("_key") \o Text(tuple.key) \o Many(ColumnWrite, tuple.cols)

InsertWrite(d, op) == Common(d) \o Text(op.table) \o TupleWrite(op.tuple)
BulkInsertWrite(d, op) == Common(d) \o Text(op.table) \o Many(TupleWrite, op.tuples)

CustomWrite(d, op) ==
  CASE op.action = "create_table" -> CreateTableWrite(d, op)
    [] op.action = "create_column" -> CreateColumnWrite(d, op)
    [] op.action = "set_sources" -> SetSourcesWrite(d, op)
    [] op.action = "rename_table" -> RenameTableWrite(d, op)
    [] op.action = "insert" -> InsertWrite(d, op)
    [] op.action = "bulk_insert" -> BulkInsertWrite(d, op)
    [] op.action = "delete" -> DeleteWrite(d, op)
    [] op.action = "remove_object" -> RemoveObjectWrite(d, op)
    [] op.action = "register_plugin" -> RegisterPluginWrite(d, op)

-----------------------------------------------------------------------------
(* Reading: what is left to read, what has been read, and whether every    *)
(* read succeeded so far.                                                  *)

Raw(cells) == [rest |-> cells, out |-> <<>>, ok |-> TRUE]

\* PGrnWALRecordRawReadData and PGrnWALRecordRawRefer.
Take(raw, kind) ==
  IF raw.ok /\ raw.rest # <<>> /\ Head(raw.rest).kind = kind
  THEN [raw EXCEPT !.rest = Tail(raw.rest), !.out = Append(raw.out, Head(raw.rest).value)]
  ELSE [raw EXCEPT !.ok = FALSE]
Last1(raw) == raw.out[Len(raw.out)]
Skip(raw) == IF raw.ok THEN [raw EXCEPT !.out = Front(raw.out)] ELSE raw

TakeText(raw) == Take(Skip(Take(raw, "size")), "bytes")
TakeGrnObj(raw) ==
  LET size == Take(raw, "size")
  IN IF size.ok /\ Last1(size) = -1
     THEN [size EXCEPT !.out = Append(Front(size.out), None)]
     ELSE Take(Skip(size), "bytes")

TakeField(raw, field) ==
  CASE field = "text" -> TakeText(raw)
    [] field = "object" -> TakeGrnObj(raw)
    [] OTHER -> Take(raw, field)
TakeAll(raw, fields) == FoldLeft(TakeField, raw, fields)

\* "garbage at the end"
AtEnd(raw) == [raw EXCEPT !.ok = @ /\ raw.rest = <<>>]
Read(cells, fields) == AtEnd(TakeAll(Raw(cells), fields))

CreateTableRead(cells) == Read(cells, <<"common", "space", "text", "flags", "object", "object">>)
CreateColumnRead(cells) == Read(cells, <<"common", "space", "object", "text", "flags", "object">>)
RenameTableRead(cells) == Read(cells, <<"common", "text", "text">>)
DeleteRead(cells) == Read(cells, <<"common", "text", "text">>)
RemoveObjectRead(cells) == Read(cells, <<"common", "text">>)
RegisterPluginRead(cells) == Read(cells, <<"common", "text">>)

\* take for each of the number of elements that has been read.
TakeCounted(take(_, _), raw) ==
  IF raw.ok THEN FoldLeft(take, Skip(raw), [i \in 1..Last1(raw) |-> i]) ELSE raw

\* The size -1 of a source that is not there is skipped.
TakeSource(raw, i) ==
  LET r == TakeGrnObj(raw) IN IF r.ok /\ Last1(r) = None THEN Skip(r) ELSE r
SetSourcesRead(cells) ==
  AtEnd(TakeCounted(TakeSource, TakeAll(Raw(cells), <<"common", "object", "count">>)))

TakeElement(raw, i) == TakeText(raw)

\* The element type of the domain tells a vector of texts from a uvector.
TakeColumnValue(raw) ==
  LET head == Take(raw, "domain")
      type == Last1(head)
  IN IF ~head.ok
     THEN head
     ELSE IF type.vector /\ IsText(type.domain)
     THEN TakeCounted(TakeElement, Take(Skip(head), "count"))
     ELSE IF type.vector \/ IsText(type.domain)
     THEN TakeText(Skip(head))
     ELSE Take(Skip(head), "value")

\* PGrnWALRecordInsertReadColumn: a name and a key or a value; gives the name
\* and the values.
TakeColumn(raw, i) ==
  LET name == TakeText([raw EXCEPT !.out = <<>>])
      value == IF Last1(name) = "_key" THEN TakeText(Skip(name)) ELSE TakeColumnValue(Skip(name))
  IN IF name.ok
     THEN [value EXCEPT !.out = Append(raw.out, [name |-> Last1(name), v |-> value.out])]
     ELSE name

\* PGrnWALRecordBulkInsertReadNext: gives the columns of one tuple.
TakeTuple(raw) == TakeCounted(TakeColumn, Take([raw EXCEPT !.out = <<>>], "count"))

InsertHead(cells) == TakeAll(Raw(cells), <<"common", "text">>)

-----------------------------------------------------------------------------
(* Objects of the generic WAL: [count, kvs], kvs the entries that were     *)
(* packed.  The reader (msgpack_unpacker_next) goes by count: it takes two *)
(* of the following objects for every entry that is missing.               *)

Entry(key, value) == [key |-> key, value |-> value]
Object(count, kvs) == [count |-> count, kvs |-> kvs]
Action(op) == Entry("_action", op.action)

InsertObject(op) ==
  Object(op.tuple.announced + 1,
         <<Entry("_table", op.table), Entry("_key", op.tuple.key)>>
           \o [i \in DOMAIN op.tuple.cols |-> Entry(op.tuple.cols[i].name, op.tuple.cols[i].value.v)])

GenericWrite(op) ==
  CASE op.action = "insert" -> InsertObject(op)
    [] op.action = "create_table" ->
         Object(7, <<Action(op), Entry("name", op.name), Entry("flags", 0), Entry("type", op.type),
                     Entry("tokenizer", None), Entry("normalizers", None), Entry("token_filters", op.modules)>>)
    [] op.action = "create_column" ->
         Object(5, <<Action(op), Entry("table", op.table), Entry("name", op.name), Entry("flags", 0),
                     Entry("type", op.type)>>)
    [] op.action = "set_sources" ->
         Object(3, <<Action(op), Entry("column", op.column), Entry("sources", op.sources)>>)
    [] op.action = "rename_table" ->
         Object(3, <<Action(op), Entry("name", op.name), Entry("new_name", op.new)>>)
    [] op.action = "delete" ->
         Object(3, <<Action(op), Entry("table", op.table), Entry("key", op.key)>>)
    [] op.action \in {"remove_object", "register_plugin"} ->
         Object(2, <<Action(op), Entry("name", op.name)>>)

Missing(object) == object.count - Len(object.kvs)
HasEntry(object, key) == \E i \in DOMAIN object.kvs : object.kvs[i].key = key
ValueOf(object, key) == object.kvs[CHOOSE i \in DOMAIN object.kvs : object.kvs[i].key = key].value
=============================================================================
