--------------------------- MODULE PGrnJSONBDocument ---------------------------
(***************************************************************************)
(* What an index over jsonb makes of a document and of a query: the values *)
(* of a document with their paths and keys (PGrnJSONBInsertContainer), the *)
(* strings of a document for full text search, and the conditions of an    *)
(* "@>" (PGrnSearchBuildConditionJSONContain).                             *)
(*                                                                         *)
(* All of them read a document token by token (JsonbIteratorNext).  A      *)
(* token is [w |-> what it is, s |-> text, t |-> type of its value,        *)
(* n |-> members of the array or object that begins].                      *)
(***************************************************************************)
EXTENDS Integers, Sequences, SequencesExt, FiniteSets

CONSTANTS
  MaxPath,       \* components of a path that fit in a key of Groonga
  NumberOf(_),   \* the number a text stands for
  Tokens(_)      \* the tokens of a document

\* JsonbIteratorToken
TokenKinds == {"KEY", "VALUE", "ELEM", "BEGIN_ARRAY", "END_ARRAY", "BEGIN_OBJECT", "END_OBJECT"}
TokenType == [w : TokenKinds, s : STRING, t : STRING, n : Nat]

-----------------------------------------------------------------------------
(* Paths.                                                                  *)

ArrayComponent == [array |-> TRUE, key |-> ""]
KeyComponent(k) == [array |-> FALSE, key |-> k]

\* PGrnJSONGeneratePath.  The text of a path tells apart what differs here; the
\* style does not show when no key does.
GeneratePath(components, start, absolute, array, dot) ==
  LET shown == SelectSeq(SubSeq(components, start + 1, Len(components)), LAMBDA c : array \/ ~c.array)
  IN [absolute |-> absolute, dot |-> dot /\ shown # <<>>, shown |-> shown]
CompletePath(components) == GeneratePath(components, 0, TRUE, TRUE, FALSE)
Fits(path) == Len(path.shown) <= MaxPath

\* PGrnJSONBInsertGenerateKey; the hash is taken for injective.
ValueKey(call) == <<CompletePath(call.components), call.t, call.s>>

\* PGrnJSONBInsertAddPath
AddPath(ids, path) ==
  IF (path.shown = <<>> /\ ~path.absolute) \/ ~Fits(path) THEN ids ELSE ids \cup {path}

\* PGrnJSONBInsertGenerateSubPathsRecursive
SubPaths(components, ids) ==
  LET from(S, start) ==
        AddPath(AddPath(AddPath(S, GeneratePath(components, start, FALSE, FALSE, TRUE)),
                        GeneratePath(components, start, FALSE, FALSE, FALSE)),
                GeneratePath(components, start, FALSE, TRUE, FALSE))
  IN FoldLeft(from, ids, [i \in DOMAIN components |-> i - 1])

\* PGrnJSONBInsertGeneratePaths
GeneratePaths(components) ==
  LET whole == AddPath(AddPath(AddPath({}, GeneratePath(components, 0, TRUE, FALSE, TRUE)),
                               GeneratePath(components, 0, TRUE, FALSE, FALSE)),
                       CompletePath(components))
  IN SubPaths(components, whole)

-----------------------------------------------------------------------------
(* Insertion: PGrnJSONBInsertContainer makes a call of                     *)
(* PGrnJSONBInsertValueSet of every value, array and object.               *)

Call(components, t, s) == [components |-> components, t |-> t, s |-> s]
Walk == [components |-> <<>>, stack |-> <<>>, calls |-> <<>>]

\* Mutant: the key of an object or array stays.
PopKeyForgotten(w) == w
\* The end of an array or object is also the end of the key it belongs to.
PopKey(w) ==
  IF w.stack # <<>> /\ Last(w.stack) = "KEY"
  THEN [w EXCEPT !.components = Front(@), !.stack = Front(@)]
  ELSE w

Pushed(w, token) == [w EXCEPT !.stack = Append(@, token.w)]
Called(w, t, s) == [w EXCEPT !.calls = Append(@, Call(w.components, t, s))]

InsertToken(w, token) ==
  CASE token.w = "KEY" -> [Pushed(w, token) EXCEPT !.components = Append(@, KeyComponent(token.s))]
    [] token.w = "VALUE" ->
         [Called(w, token.t, token.s) EXCEPT !.components = Front(@), !.stack = Front(@)]
    [] token.w = "ELEM" -> Called(w, token.t, token.s)
    [] token.w = "BEGIN_ARRAY" ->
         Called([Pushed(w, token) EXCEPT !.components = Append(@, ArrayComponent)], "array", "")
    [] token.w = "END_ARRAY" -> PopKey([w EXCEPT !.components = Front(@), !.stack = Front(@)])
    [] token.w = "BEGIN_OBJECT" -> Called(Pushed(w, token), "object", "")
    [] token.w = "END_OBJECT" -> PopKey([w EXCEPT !.stack = Front(@)])

InsertCalls(json) == FoldLeft(InsertToken, Walk, Tokens(json)).calls

\* PGrnJSONBInsertContainerForFullTextSearch: the strings, but no keys.
FullTextToken(strings, token) ==
  IF token.w \in {"VALUE", "ELEM"} /\ token.t = "string" THEN Append(strings, token.s) ELSE strings
FullTextStrings(json) == FoldLeft(FullTextToken, <<>>, Tokens(json))

\* The row of a value: a column that is not set has the default of its type.
Bare == [path |-> <<>>, paths |-> {}, type |-> "", string |-> "", number |-> 0, boolean |-> "false"]
Columns(call) ==
  LET path == CompletePath(call.components)
  IN [path |-> IF Fits(path) THEN <<path>> ELSE <<>>,
      paths |-> GeneratePaths(call.components),
      type |-> call.t,
      string |-> IF call.t = "string" THEN call.s ELSE "",
      number |-> IF call.t = "number" THEN NumberOf(call.s) ELSE 0,
      boolean |-> IF call.t = "boolean" THEN call.s ELSE "false"]

-----------------------------------------------------------------------------
(* Conditions on a value, of which sub_filter takes the rows.              *)

\* PGrnSearchBuildConditionJSONContainType
TypeCondition(components, t) ==
  [path |-> CompletePath(components), type |-> {t}, column |-> "none", s |-> ""]

\* Mutant: an empty string is not asked for its type.
ValueConditionUntyped(components, token) ==
  [path |-> CompletePath(components),
   type |-> IF token.t \in {"null", "boolean"} THEN {token.t} ELSE {},
   column |-> IF token.t = "null" THEN "none" ELSE token.t,
   s |-> token.s]
\* PGrnSearchBuildConditionJSONContainValue: only what would be the default of
\* another type as well is asked for its type.
ValueCondition(components, token) ==
  LET ambiguous == \/ token.t \in {"null", "boolean"}
                   \/ token.t = "string" /\ token.s = ""
                   \/ token.t = "number" /\ token.s = "0"
  IN [path |-> CompletePath(components),
      type |-> IF ambiguous THEN {token.t} ELSE {},
      column |-> IF token.t = "null" THEN "none" ELSE token.t,
      s |-> token.s]

\* PGrnSearchBuildConditionJSONContain: only a VALUE ends a key.
ContainToken(w, token) ==
  LET condition(c) == [w EXCEPT !.calls = Append(@, c)]
      nested == Append(w.components, ArrayComponent)
  IN CASE token.w = "KEY" -> [w EXCEPT !.components = Append(@, KeyComponent(token.s))]
       [] token.w = "VALUE" ->
            [condition(ValueCondition(w.components, token)) EXCEPT !.components = Front(@)]
       [] token.w = "ELEM" -> condition(ValueCondition(w.components, token))
       [] token.w = "BEGIN_ARRAY" ->
            IF token.n = 0
            THEN [condition(TypeCondition(nested, "array")) EXCEPT !.components = nested]
            ELSE [w EXCEPT !.components = nested]
       [] token.w = "END_ARRAY" -> [w EXCEPT !.components = Front(@)]
       [] token.w = "BEGIN_OBJECT" ->
            IF token.n = 0 THEN condition(TypeCondition(w.components, "object")) ELSE w
       [] token.w = "END_OBJECT" -> w

ContainConditions(query) == FoldLeft(ContainToken, Walk, Tokens(query)).calls

\* The script of a condition, evaluated on the row of a value.
Meets(value, condition) ==
  /\ value.path = <<condition.path>>
  /\ \A t \in condition.type : value.type = t
  /\ CASE condition.column = "string" -> value.string = condition.s
       [] condition.column = "number" -> value.number = NumberOf(condition.s)
       [] condition.column = "boolean" -> value.boolean = condition.s
       [] OTHER -> TRUE
=============================================================================
