------------------------------- MODULE PGrnJSONB -------------------------------
(***************************************************************************)
(* The values of an index over jsonb.  A value, that is a path, a type and *)
(* a scalar, is a row of its own, which all documents that have it share.  *)
(* An insertion looks up or adds the values one by one, and only then adds *)
(* the row of the document that refers to them (PGrnJSONBInsert); nothing  *)
(* keeps others away in between.  VACUUM removes dead rows, and then the   *)
(* values without a reference whose IDs are between the smallest and the   *)
(* biggest ID of what they referred to (pgroonga_bulkdelete).              *)
(*                                                                         *)
(* Next to the database there is what a standby has when it has applied    *)
(* all WAL: keys instead of IDs.                                           *)
(***************************************************************************)
EXTENDS PGrnJSONBDocument

CONSTANTS
  Workloads,    \* the documents that are inserted: functions of heap tuples
  MaxFailures,  \* bound: insertions that end with an ERROR
  MaxVacuums    \* bound: VACUUMs

JSONBAssumption ==
  \A workload \in Workloads : \A r \in DOMAIN workload : Tokens(workload[r]) \in Seq(TokenType)
ASSUME JSONBAssumption

VARIABLES
  docs,      \* docs[r]: the document of tuple r
  values,    \* values[id]: [live, key, row], for all IDs that ever were used
  free,      \* the IDs that were freed, the next one to use at the end
  sources,   \* sources[r]: the IDs of the values of r
  inserter,  \* inserter[r]: [pc, calls, ids]
  dead,      \* the tuples that are dead
  vacuum,    \* [pc, targets, min, max, next]
  replica,   \* [values, sources] of the standby, by key
  spoilt,    \* what has gone wrong: see Spoilt
  count      \* what the bounds count

database == <<values, free, sources, replica>>
vars == <<docs, database, inserter, dead, vacuum, spoilt, count>>

\* removed: VACUUM has removed a value that an insertion had in hand.  bare: an
\* insertion has failed between adding a value and setting its columns, and
\* the next one that has this value finds it and leaves it as it is.
Spoilt == {"removed", "bare"}

None == 0
Rows == DOMAIN docs
NoKey == <<"uninitialized">>
Live == {id \in DOMAIN values : values[id].live}
IDsOf(key) == {id \in Live : values[id].key = key}

Busy(r) == inserter[r].pc \in {"values", "columns"} /\ inserter[r].ids # <<>>
Finished == \A r \in Rows : inserter[r].pc \in {"done", "failed"}

\* A table by key, with and without a record.
With(f, x, record) == [y \in DOMAIN f \cup {x} |-> IF y = x THEN record ELSE f[y]]
Without(f, x) == [y \in DOMAIN f \ {x} |-> f[y]]

-----------------------------------------------------------------------------
(* PGrnJSONBInsert.                                                        *)

\* grn_table_add of a new key: an ID that was freed comes first.  A column that
\* was written after the ID was freed keeps what it holds.
NewID == IF free = <<>> THEN Len(values) + 1 ELSE Last(free)
AddKey(id, key) ==
  /\ values' = IF id \in DOMAIN values
               THEN [values EXCEPT ![id] = [@ EXCEPT !.live = TRUE, !.key = key]]
               ELSE Append(values, [live |-> TRUE, key |-> key, row |-> Bare])
  /\ free' = IF free = <<>> THEN free ELSE Front(free)

\* PGrnJSONBInsertValueSet, up to its early return.
AddValue(r) ==
  LET call == Head(inserter[r].calls)
      key == ValueKey(call)
      next(pc, id) == [pc |-> pc,
                       calls |-> IF pc = "columns" THEN inserter[r].calls ELSE Tail(inserter[r].calls),
                       ids |-> Append(inserter[r].ids, id)]
  IN /\ inserter[r].pc = "values"
     /\ inserter[r].calls # <<>>
     /\ \/ \E id \in IDsOf(key) :
             /\ inserter' = [inserter EXCEPT ![r] = next("values", id)]
             /\ UNCHANGED <<values, free>>
        \/ /\ IDsOf(key) = {}
           /\ AddKey(NewID, key)
           /\ inserter' = [inserter EXCEPT ![r] = next("columns", NewID)]
     /\ UNCHANGED <<docs, sources, dead, vacuum, replica, spoilt, count>>

\* The columns of an array, an object or null are all but that of its type.
WrittenColumn(call) == IF call.t \in {"string", "number", "boolean"} THEN {call.t} ELSE {}
Written(row, call) ==
  LET columns == Columns(call)
  IN [c \in DOMAIN row |->
        IF c \in {"path", "paths", "type"} \cup WrittenColumn(call) THEN columns[c] ELSE row[c]]

\* The rest of PGrnJSONBInsertValueSet, one session of the WAL.
SetColumns(r) ==
  LET call == Head(inserter[r].calls)
      id == Last(inserter[r].ids)
      key == ValueKey(call)
      old == IF key \in DOMAIN replica.values THEN replica.values[key] ELSE Bare
  IN /\ inserter[r].pc = "columns"
     /\ values' = [values EXCEPT ![id].row = Written(@, call)]
     /\ replica' = [replica EXCEPT !.values = With(@, key, Written(old, call))]
     /\ inserter' = [inserter EXCEPT ![r].pc = "values", ![r].calls = Tail(@)]
     /\ UNCHANGED <<docs, free, sources, dead, vacuum, spoilt, count>>

\* PGrnJSONBInsertRecord.  grn_table_get_key leaves the variable alone when the
\* ID is gone: it holds anything, or the key before.
InsertRecord(r) ==
  LET ids == inserter[r].ids
      keysLeft == {values[ids[i]].key : i \in {j \in DOMAIN ids : values[ids[j]].live}}
  IN /\ inserter[r].pc = "values"
     /\ inserter[r].calls = <<>>
     /\ sources' = With(sources, r, ids)
     /\ \E stale \in keysLeft \cup {NoKey} :
          LET keyOf(id) == IF values[id].live THEN values[id].key ELSE stale
              keys == [i \in DOMAIN ids |-> keyOf(ids[i])]
              known == DOMAIN replica.values
          IN /\ replica' = [values |-> [k \in known \cup ToSet(keys) |-> IF k \in known THEN replica.values[k] ELSE Bare],
                            sources |-> With(replica.sources, r, keys)]
             /\ (keysLeft = {values[ids[i]].key : i \in DOMAIN ids}) => stale = NoKey
     /\ inserter' = [inserter EXCEPT ![r].pc = "done"]
     /\ UNCHANGED <<docs, values, free, dead, vacuum, spoilt, count>>

\* An ERROR before the row is added: nothing is taken back.
InsertError(r) ==
  /\ Busy(r)
  /\ count.failures < MaxFailures
  /\ count' = [count EXCEPT !.failures = @ + 1]
  /\ inserter' = [inserter EXCEPT ![r].pc = "failed"]
  /\ spoilt' = spoilt \cup (IF inserter[r].pc = "columns" THEN {"bare"} ELSE {})
  /\ UNCHANGED <<docs, database, dead, vacuum>>

\* The tuple is deleted, or its transaction aborts, and nobody sees it any more.
Die(r) ==
  /\ inserter[r].pc = "done"
  /\ r \notin dead
  /\ dead' = dead \cup {r}
  /\ UNCHANGED <<docs, database, inserter, vacuum, spoilt, count>>

-----------------------------------------------------------------------------
(* pgroonga_bulkdelete.                                                    *)

BulkDeleteInit ==
  /\ vacuum.pc = "idle"
  /\ dead \cap DOMAIN sources # {}
  /\ count.vacuums < MaxVacuums
  /\ count' = [count EXCEPT !.vacuums = @ + 1]
  /\ vacuum' = [pc |-> "rows", targets |-> dead, min |-> None, max |-> None, next |-> None]
  /\ UNCHANGED <<docs, database, inserter, dead, spoilt>>

\* PGrnJSONValuesUpdateDeletedID
\* Mutant: the first ID is never the smallest.
UpdateDeletedIDOnly(v, id) ==
  [v EXCEPT !.min = IF @ = None \/ @ > id THEN id ELSE @, !.max = IF @ = None \/ @ < id THEN v.min ELSE @]
UpdateDeletedID(v, id) ==
  [v EXCEPT !.min = IF @ = None \/ @ > id THEN id ELSE @, !.max = IF @ = None \/ @ < id THEN id ELSE @]

BulkDeleteRecord ==
  /\ vacuum.pc = "rows"
  /\ \E r \in vacuum.targets \cap DOMAIN sources :
       /\ vacuum' = FoldLeft(UpdateDeletedID, [vacuum EXCEPT !.targets = @ \ {r}], sources[r])
       /\ sources' = Without(sources, r)
       /\ replica' = [replica EXCEPT !.sources = Without(@, r)]
  /\ UNCHANGED <<docs, values, free, inserter, dead, spoilt, count>>

\* The cursor is opened with the keys of both IDs; without them there is none.
BulkDeleteRange ==
  /\ vacuum.pc = "rows"
  /\ vacuum.targets \cap DOMAIN sources = {}
  /\ vacuum' = IF {vacuum.min, vacuum.max} \subseteq Live
               THEN [vacuum EXCEPT !.pc = "values", !.next = vacuum.min]
               ELSE [vacuum EXCEPT !.pc = "idle"]
  /\ UNCHANGED <<docs, database, inserter, dead, spoilt, count>>

\* Mutant: a value that one row still refers to goes as well.
ReferencedTwice(id) == \E r, s \in DOMAIN sources : r # s /\ id \in ToSet(sources[r]) \cap ToSet(sources[s])
Referenced(id) == \E r \in DOMAIN sources : id \in ToSet(sources[r])

\* PGrnJSONValuesDeleteBulk: a look at the references of the next value ...
BulkDeleteCheck ==
  LET id == vacuum.next
      unused == id \in Live /\ ~Referenced(id)
  IN /\ vacuum.pc = "values"
     /\ id <= vacuum.max
     /\ vacuum' = IF unused THEN [vacuum EXCEPT !.pc = "delete"] ELSE [vacuum EXCEPT !.next = @ + 1]
     /\ UNCHANGED <<docs, database, inserter, dead, spoilt, count>>

\* ... and its removal.
BulkDeleteValue ==
  LET id == vacuum.next
  IN /\ vacuum.pc = "delete"
     /\ values' = [values EXCEPT ![id] = [live |-> FALSE, key |-> NoKey, row |-> Bare]]
     /\ free' = Append(free, id)
     /\ replica' = [replica EXCEPT !.values = Without(@, values[id].key)]
     /\ vacuum' = [vacuum EXCEPT !.pc = "values", !.next = @ + 1]
     /\ LET inHand == Referenced(id) \/ \E r \in Rows : Busy(r) /\ id \in ToSet(inserter[r].ids)
        IN spoilt' = spoilt \cup (IF inHand THEN {"removed"} ELSE {})
     /\ UNCHANGED <<docs, sources, inserter, dead, count>>

BulkDeleteFin ==
  /\ vacuum.pc = "values"
  /\ vacuum.next > vacuum.max
  /\ vacuum' = [vacuum EXCEPT !.pc = "idle"]
  /\ UNCHANGED <<docs, database, inserter, dead, spoilt, count>>

-----------------------------------------------------------------------------
Init ==
  /\ docs \in Workloads
  /\ values = <<>>
  /\ free = <<>>
  /\ sources = <<>>
  /\ inserter = [r \in Rows |-> [pc |-> "values", calls |-> InsertCalls(docs[r]), ids |-> <<>>]]
  /\ dead = {}
  /\ vacuum = [pc |-> "idle", targets |-> {}, min |-> None, max |-> None, next |-> None]
  /\ replica = [values |-> <<>>, sources |-> <<>>]
  /\ spoilt = {}
  /\ count = [failures |-> 0, vacuums |-> 0]

Next ==
  \/ \E r \in Rows : AddValue(r) \/ SetColumns(r) \/ InsertRecord(r) \/ InsertError(r) \/ Die(r)
  \/ BulkDeleteInit
  \/ BulkDeleteRecord
  \/ BulkDeleteRange
  \/ BulkDeleteCheck
  \/ BulkDeleteValue
  \/ BulkDeleteFin

Spec == Init /\ [][Next]_vars

-----------------------------------------------------------------------------
(* Searches.                                                               *)

\* PGrnSearchBuildConditionJSONScript: the index takes the values that meet the
\* condition, sub_filter the rows that refer to one of them.
Finds(r, condition) ==
  \E id \in ToSet(sources[r]) \cap Live : Meets(values[id].row, condition)
ReplicaFinds(r, condition) ==
  \E key \in ToSet(replica.sources[r]) \cap DOMAIN replica.values : Meets(replica.values[key], condition)

\* PGrnJSONBMatchExpression: the same without an index, in temporary tables.
MatchExpression(doc, condition) ==
  \E i \in DOMAIN InsertCalls(doc) : Meets(Columns(InsertCalls(doc)[i]), condition)

\* pgroonga_match_jsonb, and the index of an operator class for full text search
\* only; a term stands for itself.
MatchTerm(doc, term) ==
  term # "" /\ \E i \in DOMAIN InsertCalls(doc) : Columns(InsertCalls(doc)[i]).string = term
FindsTerm(doc, term) == term # "" /\ term \in ToSet(FullTextStrings(doc))

\* "@>" by the index; what it finds is not checked again.
FindsContained(r, query) ==
  \A i \in DOMAIN ContainConditions(query) : Finds(r, ContainConditions(query)[i])

-----------------------------------------------------------------------------
(* Properties.                                                             *)

Quiet == Finished /\ spoilt = {}

Conditions == UNION {ToSet(ContainConditions(docs[r])) : r \in Rows}
Terms == {c.s : c \in Conditions}

\* However insertions that share values took turns, with each other and with
\* VACUUM, the index finds a row exactly if the operator without an index
\* does, on the primary and on a standby.  The exceptions are those of Spoilt.
SearchesAgree ==
  Quiet =>
    \A r \in DOMAIN sources : \A c \in Conditions :
      /\ Finds(r, c) <=> MatchExpression(docs[r], c)
      /\ ReplicaFinds(r, c) <=> MatchExpression(docs[r], c)
      /\ \A term \in Terms : FindsTerm(docs[r], term) <=> MatchTerm(docs[r], term)

\* After VACUUM no value is left without a row but those of an insertion that
\* failed, however the IDs of the values lie.
NoValueIsLeft ==
  Quiet /\ vacuum.pc = "idle" /\ dead \cap DOMAIN sources = {} /\ count.vacuums > 0 =>
    \A id \in Live :
      \/ Referenced(id)
      \/ \E r \in Rows : inserter[r].pc = "failed" /\ id \in ToSet(inserter[r].ids)
=============================================================================
