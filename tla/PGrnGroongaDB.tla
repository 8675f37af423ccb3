---------------------------- MODULE PGrnGroongaDB ----------------------------
(***************************************************************************)
(* A Groonga database as PGroonga uses it: tables with a key type, columns *)
(* with a range, the sources of the index columns, rows, and the plugins   *)
(* that are registered.  Groonga itself is external: its operations are    *)
(* modelled from how the code in src/ uses them.                           *)
(*                                                                         *)
(* A table is known by its name and a reference to a table is its name:    *)
(* renaming a table renames the references, as the object ID, by which     *)
(* Groonga refers to it, stays.  Names are tuples.  Every operation gives  *)
(* what it leaves and whether it succeeded; a failing one leaves the       *)
(* database as it was.                                                     *)
(***************************************************************************)
EXTENDS Integers, FiniteSets, SequencesExt

Type(name) == <<"type", name>>
Sources(n) == <<"Sources", n>>
Building(n) == <<"BuildingSources", n>>
Lexicon(n, a) == <<"Lexicon", n, a>>
Aliases == <<"Aliases">>
IndexStatuses == <<"IndexStatuses">>

IndexColumn == "index"
NoFunction == [x \in {} |-> x]
EmptyDB == [plugins |-> {}, tables |-> NoFunction]
NewTable(type, modules) ==
  [type |-> type, modules |-> modules, cols |-> NoFunction, rows |-> NoFunction]
NewColumn(range) == [range |-> range, sources |-> {}]

Done(db) == [ok |-> TRUE, db |-> db]
Fail(db) == [ok |-> FALSE, db |-> db]

HasTable(db, t) == t \in DOMAIN db.tables
HasColumn(db, t, c) == HasTable(db, t) /\ c \in DOMAIN db.tables[t].cols
Columns(db) == UNION {{<<t, c>> : c \in DOMAIN db.tables[t].cols} : t \in DOMAIN db.tables}
RangeOf(db, tc) == db.tables[tc[1]].cols[tc[2]].range

\* PGrnLookup of the key type of a table or of the range of a column.
Known(db, ref) == ref[1] = "type" \/ HasTable(db, ref)

KeepOnly(f, S) == [x \in DOMAIN f \cap S |-> f[x]]
With(f, x, value) == [y \in DOMAIN f \cup {x} |-> IF y = x THEN value ELSE f[y]]

\* The index columns over the columns S: a column takes them along when it is
\* removed (the hooks of the column).
IndexColumnsOf(db, S) ==
  {tc \in Columns(db) : db.tables[tc[1]].cols[tc[2]].sources \cap S # {}}

WithoutColumns(db, S) ==
  LET gone == S \cup IndexColumnsOf(db, S)
      kept(t) == {c \in DOMAIN db.tables[t].cols : <<t, c>> \notin gone}
      rows(t) == [k \in DOMAIN db.tables[t].rows |-> KeepOnly(db.tables[t].rows[k], kept(t))]
  IN [db EXCEPT !.tables =
        [t \in DOMAIN db.tables |->
           [db.tables[t] EXCEPT !.cols = KeepOnly(db.tables[t].cols, kept(t)), !.rows = rows(t)]]]

WithoutTable(db, t) ==
  LET d == WithoutColumns(db, {tc \in Columns(db) : tc[1] = t})
  IN [d EXCEPT !.tables = KeepOnly(d.tables, DOMAIN d.tables \ {t})]

-----------------------------------------------------------------------------
(* The operations.                                                         *)

RegisterPlugin(db, name) == Done([db EXCEPT !.plugins = @ \cup {name}])

CreateTable(db, t, type, modules) ==
  IF HasTable(db, t) \/ ~(modules \subseteq db.plugins)
  THEN Fail(db)
  ELSE Done([db EXCEPT !.tables = With(@, t, NewTable(type, modules))])

CreateColumn(db, t, c, range) ==
  IF HasColumn(db, t, c)
  THEN Fail(db)
  ELSE Done([db EXCEPT !.tables[t].cols = With(@, c, NewColumn(range))])

SetSources(db, tc, S) == Done([db EXCEPT !.tables[tc[1]].cols[tc[2]].sources = S])

RenameTable(db, old, new) ==
  LET name(ref) == IF ref = old THEN new ELSE ref
      renamed(col) == [range |-> name(col.range), sources |-> {<<name(s[1]), s[2]>> : s \in col.sources}]
      moved(t) == db.tables[IF t = new THEN old ELSE t]
  IN IF HasTable(db, new)
     THEN Fail(db)
     ELSE Done([db EXCEPT !.tables =
            [t \in {name(u) : u \in DOMAIN db.tables} |->
               [moved(t) EXCEPT !.cols = [c \in DOMAIN moved(t).cols |-> renamed(moved(t).cols[c])]]]])

\* grn_table_add, which lets a key that is there already keep its row, and
\* grn_obj_set_value of each column.
SetValue(row, col) == With(row, col.name, col.v)
RowOf(rows, key, cols) ==
  FoldLeft(SetValue, IF key \in DOMAIN rows THEN rows[key] ELSE NoFunction, cols)
AddRow(db, t, key, cols) ==
  [db EXCEPT !.tables[t].rows = With(@, key, RowOf(@, key, cols))]
DeleteRow(db, t, key) ==
  Done([db EXCEPT !.tables[t].rows = KeepOnly(@, DOMAIN @ \ {key})])

RemoveColumn(db, t, c) == Done(WithoutColumns(db, {<<t, c>>}))

\* grn_obj_remove of a table fails while a column of another table refers to it.
RemoveTable(db, t) ==
  IF \E tc \in Columns(db) : tc[1] # t /\ RangeOf(db, tc) = t
  THEN Fail(db)
  ELSE Done(WithoutTable(db, t))

\* GRN_OBJ_REMOVE_DEPENDENT | GRN_OBJ_REMOVE_ENSURE
RemoveTableDependent(db, t) ==
  IF HasTable(db, t)
  THEN WithoutTable(WithoutColumns(db, {tc \in Columns(db) : RangeOf(db, tc) = t}), t)
  ELSE db

\* An object's name is <<table, "">> or <<table, column>>; a missing object is
\* not an error (PGRN_ERROR_LEVEL_IGNORE).
RemoveObject(db, name) ==
  IF name[2] # ""
  THEN IF HasColumn(db, name[1], name[2]) THEN RemoveColumn(db, name[1], name[2]) ELSE Done(db)
  ELSE IF HasTable(db, name[1]) THEN RemoveTable(db, name[1]) ELSE Done(db)
=============================================================================
