--------------------------- MODULE PGrnJSONBContain ---------------------------
(***************************************************************************)
(* What PostgreSQL says that "@>" is, and the tokens it reads a document   *)
(* as, next to the index of PGrnJSONB.                                     *)
(*                                                                         *)
(* A JSON value is [t |-> type, s |-> text, items |-> what it contains];   *)
(* an item is [k |-> key, v |-> value], with the key "" in an array.       *)
(***************************************************************************)
EXTENDS PGrnJSONB

CONSTANT Queries  \* the right sides of "@>"

Scalar(t, s) == [t |-> t, s |-> s, items |-> <<>>]
IsScalar(json) == json.t \notin {"array", "object"}

-----------------------------------------------------------------------------
(* PostgreSQL: JsonbIteratorNext and jsonb_contains.                       *)

Token(w, json) == [w |-> w, s |-> json.s, t |-> json.t, n |-> Len(json.items)]
Key(k) == [w |-> "KEY", s |-> k, t |-> "key", n |-> 0]

RECURSIVE TokensOf(_)
TokensOf(json) ==
  LET inObject == json.t = "object"
      value(v) == IF IsScalar(v) THEN <<Token(IF inObject THEN "VALUE" ELSE "ELEM", v)>> ELSE TokensOf(v)
      item(i) == (IF inObject THEN <<Key(json.items[i].k)>> ELSE <<>>) \o value(json.items[i].v)
  IN <<Token(IF inObject THEN "BEGIN_OBJECT" ELSE "BEGIN_ARRAY", json)>>
       \o FlattenSeq([i \in DOMAIN json.items |-> item(i)])
       \o <<Token(IF inObject THEN "END_OBJECT" ELSE "END_ARRAY", json)>>

\* A scalar is stored as an array of one element that is marked as such.
AsArray(json) == [t |-> "array", s |-> "", items |-> <<[k |-> "", v |-> json]>>]
JsonbTokens(json) == TokensOf(IF IsScalar(json) THEN AsArray(json) ELSE json)

SameScalar(a, b) ==
  a.t = b.t /\ IF a.t = "number" THEN NumberOf(a.s) = NumberOf(b.s) ELSE a.s = b.s

RECURSIVE DeepContains(_, _)
DeepContains(doc, query) ==
  /\ doc.t = query.t
  /\ \A i \in DOMAIN query.items : \E j \in DOMAIN doc.items :
       LET d == doc.items[j]
           q == query.items[i]
       IN /\ d.k = q.k
          /\ IF IsScalar(q.v)
             THEN IsScalar(d.v) /\ SameScalar(d.v, q.v)
             ELSE ~IsScalar(d.v) /\ DeepContains(d.v, q.v)
\* An array may contain a bare scalar, and a scalar itself alone.
JsonbContains(doc, query) ==
  CASE IsScalar(doc) -> IsScalar(query) /\ SameScalar(doc, query)
    [] IsScalar(query) -> DeepContains(doc, AsArray(query))
    [] OTHER -> DeepContains(doc, query)

-----------------------------------------------------------------------------
(* Properties.                                                             *)

\* A key after an array or object that belongs to a key: the conditions name it
\* with the wrong path.
RECURSIVE Misleads(_)
Misleads(json) ==
  \/ \E i \in DOMAIN json.items : Misleads(json.items[i].v)
  \/ json.t = "object" /\ \E i \in 1 .. Len(json.items) - 1 : ~IsScalar(json.items[i].v)

PathsFit(query) == \A i \in DOMAIN ContainConditions(query) : Fits(ContainConditions(query)[i].path)

\* "@>" finds every row that contains the query, but for queries with a member
\* after an array or object, and for paths that are too long to be stored.
ContainFindsAll ==
  Quiet =>
    \A r \in DOMAIN sources : \A q \in Queries :
      JsonbContains(docs[r], q) /\ ~Misleads(q) /\ PathsFit(q) => FindsContained(r, q)

\* And it finds no other, unless the members of an array are arrays or objects,
\* which the paths do not tell apart, the document is a bare scalar, or the
\* query has a zero that is not written "0".
RECURSIVE HasBranches(_)
HasBranches(json) ==
  \E i \in DOMAIN json.items :
    LET v == json.items[i].v
    IN ~IsScalar(v) /\ (json.t = "array" \/ HasBranches(v))
RECURSIVE OddZero(_)
OddZero(json) ==
  \/ json.t = "number" /\ NumberOf(json.s) = 0 /\ json.s # "0"
  \/ \E i \in DOMAIN json.items : OddZero(json.items[i].v)
ContainFindsOnly ==
  Quiet =>
    \A r \in DOMAIN sources : \A q \in Queries :
      FindsContained(r, q) /\ ~Misleads(q) /\ ~HasBranches(docs[r]) /\ ~OddZero(q) /\ ~IsScalar(docs[r])
        => JsonbContains(docs[r], q)
=============================================================================
