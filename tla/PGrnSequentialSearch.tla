------------------------- MODULE PGrnSequentialSearch -------------------------
(***************************************************************************)
(* The operators of a process that do not use an index of PostgreSQL.  A   *)
(* row is put in a table of one record and searched with an expression of  *)
(* Groonga, and a temporary index that is like an index of PGroonga if the *)
(* condition names one.  Table, index and expression are made once for an  *)
(* index, a kind of target and a type of operator, and kept until nobody   *)
(* has used them for a while.                                              *)
(*                                                                         *)
(* An index stands for itself and the column that the condition names.     *)
(* Two queries have two hashes.                                            *)
(***************************************************************************)
EXTENDS Integers, FiniteSets

CONSTANTS
  Indexes, OtherIndexes,   \* those of PGroonga, and others
  NoIndex,                 \* the condition does not name one
  BareName,                \* the index that is found for the name of an index, without its schema
  Available,               \* PGrnIsTemporaryIndexSearchAvailable
  Conditions,              \* [index, target, type, query, ratio]: what may be asked
  Unparsable,              \* the queries that are no query
  Options,                 \* the relation options of an index
  VacuumFrequency,         \* vacuumFrequency, 100
  NoDatum, NoQuery, Broken

VARIABLES
  datums,        \* data: a datum for each of some keys
  current,       \* currentDatum: the key of a datum, or NoDatum
  nExecutions,   \* nExecutions % vacuumFrequency
  options,       \* the options of each index now
  executed       \* {} or what was executed last

cacheVars == <<datums, current, nExecutions, options, executed>>

Query == {c.query : c \in Conditions}
ASSUME FrequencyAssumption == VacuumFrequency \in Nat \ {0}
ASSUME QueryAssumption == NoQuery \notin Query /\ Broken \notin Query
ASSUME IndexAssumption ==
  /\ NoIndex \notin Indexes \cup OtherIndexes
  /\ BareName \in [Indexes \cup OtherIndexes -> Indexes \cup OtherIndexes]
  /\ \A c \in Conditions : c.index \in Indexes \cup OtherIndexes \cup {NoIndex}
ASSUME AvailableAssumption == Available \in BOOLEAN

-----------------------------------------------------------------------------
(* PGrnSequentialSearchPrepareIndex.                                       *)

\* The schema is written to the buffer first and the name over it.
IndexOf(c) == IF c.index = NoIndex THEN NoIndex ELSE BareName[c.index]

Key(c) == [index |-> IndexOf(c), target |-> c.target, type |-> c.type,
           useIndex |-> Available /\ (IndexOf(c) # NoIndex \/ c.target = "texts")]
ASSUME DatumAssumption == \A c \in Conditions : Key(c) # NoDatum

\* currentDatum is looked at first, its fields one by one.
IsFor(datum, key) ==
  /\ datum.index = key.index
  /\ datum.target = key.target
  /\ datum.useIndex = key.useIndex
  /\ datum.type = key.type
Place(key) == IF current # NoDatum /\ IsFor(datums[current], key) THEN current ELSE key

OptionsOf(key) == IF key.useIndex /\ key.index # NoIndex THEN {options[key.index]} ELSE {}
\* The ratio and the options are those of the condition it is made for.
DatumInitialize(key, c) ==
  [index |-> key.index, target |-> key.target, type |-> key.type, useIndex |-> key.useIndex,
   ratio |-> c.ratio,
   options |-> OptionsOf(key),
   expression |-> NoQuery, hash |-> NoQuery, used |-> TRUE]

Known(c) == Place(Key(c)) \in DOMAIN datums
Refused(c) == ~Known(c) /\ Key(c).useIndex /\ Key(c).index \in OtherIndexes
Prepared(c) == IF Known(c) THEN [datums[Place(Key(c))] EXCEPT !.used = TRUE] ELSE DatumInitialize(Key(c), c)

-----------------------------------------------------------------------------
(* The expression.                                                         *)

Parsed(c) == c.type \in {"query", "equal query", "script"}
Fails(c) == Parsed(c) /\ c.query \in Unparsable

\* Mutant: the hash stays when the query cannot be parsed.
PrepareExpressionKeepsHash(c) ==
  LET datum == Prepared(c)
  IN IF Known(c) /\ datum.hash = c.query THEN datum
     ELSE [datum EXCEPT !.expression = IF Fails(c) THEN Broken ELSE c.query, !.hash = c.query]

PrepareExpression(c) ==
  LET datum == Prepared(c)
  IN IF Known(c) /\ datum.hash = c.query THEN datum
     ELSE [datum EXCEPT !.expression = IF Fails(c) THEN Broken ELSE c.query,
                        !.hash = IF Fails(c) THEN NoQuery ELSE c.query]

\* The index that is named is not one of PGroonga: the datum is made, finalized and
\* deleted again.
Refuse(c) ==
  /\ Refused(c)
  /\ current' = NoDatum
  /\ executed' = {}
  /\ UNCHANGED <<datums, nExecutions, options>>

\* The expression is rebuilt unless it is the one of this query.  An error in the
\* query ends the statement, after the datum was made.
Execute(c) ==
  LET place == Place(Key(c))
      datum == PrepareExpression(c)
      failed == Fails(c) /\ ~(Known(c) /\ Prepared(c).hash = c.query)
  IN /\ ~Refused(c)
     /\ datums' = [k \in DOMAIN datums \cup {place} |-> IF k = place THEN datum ELSE datums[k]]
     /\ current' = place
     /\ executed' = IF failed THEN {} ELSE {[asked |-> c, datum |-> datum, reused |-> Known(c)]}
     /\ UNCHANGED <<nExecutions, options>>

-----------------------------------------------------------------------------
(* What goes on around it.                                                 *)

\* The end of a transaction.  What was not used since the vacuum before goes.
Release ==
  LET used == {k \in DOMAIN datums : datums[k].used}
      vacuum == nExecutions + 1 = VacuumFrequency
  IN /\ nExecutions' = (nExecutions + 1) % VacuumFrequency
     /\ datums' = IF vacuum THEN [k \in used |-> [datums[k] EXCEPT !.used = FALSE]] ELSE datums
     /\ current' = IF vacuum /\ current \notin used THEN NoDatum ELSE current
     /\ executed' = {}
     /\ UNCHANGED options

\* PGrnUnmapDB, after a VACUUM.
Unmap ==
  /\ datums' = [k \in {} |-> {}]
  /\ current' = NoDatum
  /\ executed' = {}
  /\ UNCHANGED <<nExecutions, options>>

\* ALTER INDEX ... SET, of this or another session.
AlterIndex(i) ==
  /\ options' \in {[options EXCEPT ![i] = o] : o \in Options}
  /\ executed' = {}
  /\ UNCHANGED <<datums, current, nExecutions>>

CacheInit ==
  /\ datums = [k \in {} |-> {}]
  /\ current = NoDatum
  /\ nExecutions = 0
  /\ \E o \in Options : options = [i \in Indexes |-> o]
  /\ executed = {}

CacheNext ==
  \/ \E c \in Conditions : Refuse(c) \/ Execute(c)
  \/ Release
  \/ Unmap
  \/ \E i \in Indexes : AlterIndex(i)

CacheSpec == CacheInit /\ [][CacheNext]_cacheVars

-----------------------------------------------------------------------------
\* Whatever was asked before, failed to be parsed, was vacuumed or closed
\* with the database: what is executed is the query that is asked for, with a
\* table of the right kind of target, an index like the one that is named, and an
\* operator of the right type (the index that is found for the bare name: the
\* schema of a condition is lost).  A datum that is made for the condition has its
\* ratio and the options of the index; one that is reused has those of the
\* condition and of the time it was made for.
ExecutesWhatIsAsked ==
  /\ current # NoDatum => current \in DOMAIN datums
  /\ \A e \in executed :
       /\ e.datum.expression = e.asked.query
       /\ IsFor(e.datum, Key(e.asked))
       /\ ~e.reused => e.datum.ratio = e.asked.ratio /\ e.datum.options = OptionsOf(Key(e.asked))
=============================================================================
