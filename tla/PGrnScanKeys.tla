----------------------------- MODULE PGrnScanKeys -----------------------------
(***************************************************************************)
(* What an index finds for the keys of a scan, against what the operators  *)
(* find without an index.                                                  *)
(*                                                                         *)
(* A scan whose keys are all comparisons of one column walks through the   *)
(* lexicon between two borders.  Every other scan becomes one expression   *)
(* of Groonga in postfix notation, key by key; here its stack holds the    *)
(* sets of rows.  PostgreSQL checks rows again (xs_recheck) for LIKE only. *)
(*                                                                         *)
(* A text is a sequence of characters, and Groonga finds a keyword         *)
(* wherever it is part of a text: what a tokenizer does with characters it *)
(* does not group, under a normalizer that changes none of them.           *)
(***************************************************************************)
EXTENDS Integers, Sequences, SequencesExt, FiniteSets

CONSTANTS
  Characters,
  Rows,    \* records [n, t]: a set of at most one number, and of one text
  Plans,   \* [keys, regexp]: keys without their arguments, regexp for a regexp index
  Datums   \* [n, t]: the numbers and the texts an array may be taken for

VARIABLES
  plan,      \* one of Plans
  keys,      \* the keys whose arguments are known, [column, op, any, args]
  read,      \* these keys as they are read
  borders,   \* [min, max, minOp, maxOp]
  data,      \* PGrnSearchData: [stack, short, empty, nExpressions]
  found      \* {} or the set of the rows that are found

vars == <<plan, keys, read, borders, data, found>>

\* args holds sets of at most one value, {} for a NULL: the elements of the array
\* if it is one, else the one argument.  In a plan it is the set of what it may be.
Comparisons == {"<", "<=", ">=", ">"}
InOperators == {"&@|", "&@~|", "&^|", "!&^|", "&~|"}
ElementOp == [op \in InOperators |-> CASE op = "&@|" -> "&@" [] op = "&@~|" -> "&@~" [] op = "&~|" -> "&~" [] OTHER -> "&^"]
The(option) == CHOOSE v \in option : TRUE

\* The operators of the operator classes, and what their arguments are.
AtMostOne(option) == \A v, w \in option : v = w
Values(column) == IF column = "n" THEN Int ELSE Seq(Characters)
Operators(column) == IF column = "n" THEN Comparisons \cup {"="} ELSE {"~~", "&^", "&@", "&@~", "&~"} \cup InOperators
AnyOperators == {"=", "~~", "&@"}

\* Any operator comes with ANY, but those whose argument is an array: PostgreSQL
\* has no array of arrays.

ASSUME ScanKeysAssumption ==
  /\ Characters \cap {"any", "any number"} = {}
  /\ Datums.n \subseteq Int /\ Datums.t \subseteq Seq(Characters) \ {<<>>}
  /\ \A row \in Rows : /\ row.n \subseteq Int /\ AtMostOne(row.n)
                      /\ row.t \subseteq Seq(Characters) /\ AtMostOne(row.t)
  /\ \A p \in Plans :
       /\ p.regexp \in BOOLEAN
       /\ p.keys \in Seq(ToSet(p.keys))
       /\ \A i \in DOMAIN p.keys :
            LET key == p.keys[i]
            IN /\ key = [column |-> key.column, op |-> key.op, any |-> key.any, args |-> key.args]
               /\ key.column \in {"n", "t"} /\ key.op \in Operators(key.column) /\ key.any \in BOOLEAN
               /\ key.any => key.op \notin InOperators
               /\ \A args \in key.args :
                    /\ args \in Seq(SUBSET Values(key.column))
                    /\ \A j \in DOMAIN args : AtMostOne(args[j])
                    /\ ~key.any /\ key.op \notin InOperators => Len(args) = 1

-----------------------------------------------------------------------------
(* The operators, a row at a time.                                         *)

\* PostgreSQL's LIKE: the places in the text an element of the pattern leads to.
After(state, element) ==
  LET text == state.text
      reached(p, q) == CASE element = "any number" -> p <= q
                         [] element = "any" -> p + 1 = q
                         [] OTHER -> p + 1 = q /\ text[q] = element
  IN [state EXCEPT !.places = {q \in 0 .. Len(text) : \E p \in state.places : reached(p, q)}]
Reached(from, elements, text) == FoldLeft(After, [text |-> text, places |-> from], elements).places

LikeElement(state, c) ==
  CASE state.escaped -> [escaped |-> FALSE, elements |-> Append(state.elements, c)]
    [] ~state.escaped /\ c = "\\" -> [state EXCEPT !.escaped = TRUE]
    [] ~state.escaped /\ c = "%" -> [state EXCEPT !.elements = Append(@, "any number")]
    [] ~state.escaped /\ c = "_" -> [state EXCEPT !.elements = Append(@, "any")]
    [] OTHER -> [state EXCEPT !.elements = Append(@, c)]
LikeElements(pattern) == FoldLeft(LikeElement, [escaped |-> FALSE, elements |-> <<>>], pattern)
Like(text, pattern) == Len(text) \in Reached({0}, LikeElements(pattern).elements, text)

HasKeyword(text, keyword) == \E i \in 0 .. Len(text) - Len(keyword) : SubSeq(text, i + 1, i + Len(keyword)) = keyword

\* match_term, match_query (a query is a keyword here), regexp and prefix of nothing
\* find nothing.  What an index finds for an empty prefix is Groonga's own: no
\* prefix of a plan is empty.
Operator(op, value, arg) ==
  CASE op = "<" -> value < arg
    [] op = "<=" -> value <= arg
    [] op = "=" -> value = arg
    [] op = ">=" -> value >= arg
    [] op = ">" -> value > arg
    [] op = "~~" -> Like(value, arg)
    [] op = "&^" -> arg # <<>> /\ IsPrefix(arg, value)
    [] op \in {"&@", "&@~", "&~"} -> arg # <<>> /\ HasKeyword(value, arg)

InOperator(op, value, args) == \E i \in DOMAIN args : args[i] # {} /\ Operator(op, value, The(args[i]))

Holds(key, row) ==
  /\ row[key.column] # {}
  /\ LET value == The(row[key.column])
     IN CASE key.op = "!&^|" -> ~InOperator("&^", value, key.args)
          [] key.op \in InOperators \ {"!&^|"} -> InOperator(ElementOp[key.op], value, key.args)
          [] OTHER -> InOperator(key.op, value, key.args)
Wanted == {row \in Rows : \A i \in DOMAIN keys : Holds(keys[i], row)}

-----------------------------------------------------------------------------
(* Keys as they are read.                                                  *)

\* An array is read as one with "=", "~~" and "&@" only.  With any other operator
\* its datum, a pointer to its header, is converted like one value of the column:
\* a part of an address is the number, the bytes from the header on are the text.
ConvertedFrom(key) ==
  IF key.any /\ key.op \notin AnyOperators
  THEN {[key EXCEPT !.any = FALSE, !.args = <<{value}>>] : value \in Datums[key.column]}
  ELSE {key}

-----------------------------------------------------------------------------
(* Range searches.                                                         *)

\* Without a key it is the first column, whose lexicon has no tokenizer.
IsRangeSearchable ==
  \A i \in DOMAIN plan.keys :
    /\ plan.keys[i].column = plan.keys[1].column
    /\ plan.keys[i].op \in Comparisons

\* The values stay in the opaque: GRN_BULK_REWIND of a rescan empties them, but
\* they still are no GRN_DB_VOID, and a comparison reads what they held.  The
\* operators, "" for no border, are those of one search.
NoBorders == [min |-> {}, max |-> {}, minOp |-> "", maxOp |-> ""]

IsMeaningfullMaxBorderValue(value, op) ==
  \/ borders.max = {}
  \/ The(borders.max) > value
  \/ borders.maxOp = "<" /\ op = "<=" /\ The(borders.max) = value
IsMeaningfullMinBorderValue(value, op) ==
  \/ borders.min = {}
  \/ The(borders.min) < value
  \/ borders.minOp = ">" /\ op = ">=" /\ The(borders.min) = value

\* A NULL is taken for the 0 its datum has.
FillBorder(key) ==
  LET value == IF key.args[1] = {} THEN 0 ELSE The(key.args[1])
  IN borders' = CASE key.op \in {"<", "<="} /\ IsMeaningfullMaxBorderValue(value, key.op) ->
                       [borders EXCEPT !.max = {value}, !.maxOp = key.op]
                  [] key.op \in {">", ">="} /\ IsMeaningfullMinBorderValue(value, key.op) ->
                       [borders EXCEPT !.min = {value}, !.minOp = key.op]
                  [] OTHER -> borders

\* The terms between the borders, and the rows that have them.  A row has none
\* of a column that is NULL.
RangeSearch ==
  {row \in Rows :
     /\ row.n # {}
     /\ borders.maxOp # "" => Operator(borders.maxOp, The(row.n), The(borders.max))
     /\ borders.minOp # "" => Operator(borders.minOp, The(row.n), The(borders.min))}

-----------------------------------------------------------------------------
(* Expressions.                                                            *)

SearchDataInit == [stack |-> <<>>, short |-> FALSE, empty |-> FALSE, nExpressions |-> 0]

Push(d, rows) == [d EXCEPT !.stack = Append(@, rows)]
Left(d) == d.stack[Len(d.stack) - 1]
Combine(d, rows) ==
  LET n == Len(d.stack)
  IN IF n < 2 THEN [d EXCEPT !.short = TRUE] ELSE [d EXCEPT !.stack = Append(SubSeq(@, 1, n - 2), rows)]
Or(d) == Combine(d, Left(d) \cup Last(d.stack))
And(d) == Combine(d, Left(d) \cap Last(d.stack))
AndNot(d) == Combine(d, Left(d) \ Last(d.stack))

BinaryOperation(d, key, op, arg) ==
  Push(d, {row \in Rows : row[key.column] # {} /\ Operator(op, The(row[key.column]), arg)})

\* Several arguments of a key are alternatives: the first one is pushed, each of
\* the others is combined with what is there.
Alternatives(key, args) == [i \in DOMAIN args |-> [key |-> key, arg |-> args[i], first |-> i = 1]]

\* Mutant: a keyword goes on after % and _.
LikeKeywordNotFlushed(state, c) ==
  CASE state.escaped -> [state EXCEPT !.escaped = FALSE, !.keyword = Append(@, c)]
    [] ~state.escaped /\ c = "\\" -> [state EXCEPT !.escaped = TRUE]
    [] ~state.escaped /\ c \in {"%", "_"} -> [state EXCEPT !.keywords = IF state.keyword = <<>> THEN @ ELSE <<state.keyword>>]
    [] OTHER -> [state EXCEPT !.keyword = Append(@, c)]
\* A keyword ends at % and _.
LikeKeyword(state, c) ==
  CASE state.escaped -> [state EXCEPT !.escaped = FALSE, !.keyword = Append(@, c)]
    [] ~state.escaped /\ c = "\\" -> [state EXCEPT !.escaped = TRUE]
    [] ~state.escaped /\ c \in {"%", "_"} ->
         [state EXCEPT !.keywords = IF state.keyword = <<>> THEN @ ELSE Append(@, state.keyword), !.keyword = <<>>]
    [] OTHER -> [state EXCEPT !.keyword = Append(@, c)]
LikeKeywords(pattern) ==
  FoldLeft(LikeKeyword, [escaped |-> FALSE, keyword |-> <<>>, keywords |-> <<>>], Append(pattern, "%")).keywords
MatchKeyword(d, a) ==
  LET matched == BinaryOperation(d, a.key, "&@", a.arg) IN IF a.first THEN matched ELSE Or(matched)
BuildConditionLikeMatch(d, key, pattern) ==
  LET keywords == LikeKeywords(pattern)
  IN CASE pattern = <<>> -> [d EXCEPT !.empty = TRUE]
       [] pattern # <<>> /\ keywords = <<>> -> Push(d, Rows)
       [] OTHER -> FoldLeft(MatchKeyword, d, Alternatives(key, keywords))

\* The elements of the regular expression, and whether \A and \z are around them.
LikeRegexpElement(state, c) ==
  CASE state.escaped -> [state EXCEPT !.escaped = FALSE, !.n = @ + 1, !.elements = Append(@, c)]
    [] ~state.escaped /\ c = "\\" -> [state EXCEPT !.escaped = TRUE, !.n = @ + 1]
    [] ~state.escaped /\ c = "_" -> [state EXCEPT !.n = @ + 1, !.elements = Append(@, "any")]
    [] ~state.escaped /\ c = "%" ->
         [state EXCEPT !.n = @ + 1,
                       !.open = @ \/ (state.n > 1 /\ state.n = state.size),
                       !.elements = IF state.n \in {1, state.size} THEN @ ELSE Append(@, "any number")]
    [] OTHER -> [state EXCEPT !.n = @ + 1, !.elements = Append(@, c)]
LikeRegexp(pattern) ==
  FoldLeft(LikeRegexpElement, [escaped |-> FALSE, n |-> 1, size |-> Len(pattern), open |-> FALSE, elements |-> <<>>], pattern)
BuildConditionLikeRegexp(d, key, pattern) ==
  LET regexp == LikeRegexp(pattern)
      From(text) == IF pattern # <<>> /\ pattern[1] = "%" THEN 0 .. Len(text) ELSE {0}
      Matches(text) == LET places == Reached(From(text), regexp.elements, text)
                       IN IF regexp.open THEN places # {} ELSE Len(text) \in places
  IN Push(d, {row \in Rows : row[key.column] # {} /\ Matches(The(row[key.column]))})

BuildConditionQuery(d, key, query) ==
  IF query = <<>> THEN [d EXCEPT !.empty = TRUE] ELSE BinaryOperation(d, key, "&@~", query)

\* What one element of an array makes of the expression.
Alternative(d, a) ==
  LET key == a.key
      built == CASE key.op = "~~" -> BuildConditionLikeMatch(d, key, a.arg)
                 [] key.op = "&@~|" -> BuildConditionQuery(d, key, a.arg)
                 [] key.op \in InOperators \ {"&@~|"} -> BinaryOperation(d, key, ElementOp[key.op], a.arg)
                 [] OTHER -> BinaryOperation(d, key, key.op, a.arg)
  IN IF a.first THEN built ELSE Or(built)

\* "= ANY", "&@ ANY" and "LIKE ANY", whose NULLs are passed over.
AddGiven(values, arg) == IF arg = {} THEN values ELSE Append(values, The(arg))
Given(args) == FoldLeft(AddGiven, <<>>, args)
BuildConditionIn(d, key) ==
  CASE key.args = <<>> -> Push(d, {})
    [] key.args # <<>> /\ key.op = "=" ->
         Push(d, {row \in Rows : row[key.column] # {} /\ InOperator("=", The(row[key.column]), key.args)})
    [] OTHER -> FoldLeft(Alternative, d, Alternatives(key, Given(key.args)))

\* An array of keywords in which a NULL is an empty text.
Keywords(key) == [i \in DOMAIN key.args |-> IF key.args[i] = {} THEN <<>> ELSE The(key.args[i])]
AddRegexp(regexps, keyword) == IF keyword = <<>> THEN regexps ELSE Append(regexps, keyword)
Regexps(key) == FoldLeft(AddRegexp, <<>>, Keywords(key))
BuildConditionKeywords(d, key) ==
  FoldLeft(Alternative, d, Alternatives(key, IF key.op = "&~|" THEN Regexps(key) ELSE Keywords(key)))

NotPrefix(d, a) == AndNot(BinaryOperation(d, a.key, "&^", a.arg))
\* Mutant: the records to subtract from are pushed for every key.
BuildConditionNotPrefixInAlways(d, key) ==
  FoldLeft(NotPrefix, Push(d, Rows), Alternatives(key, Keywords(key)))
BuildConditionNotPrefixIn(d, key) ==
  FoldLeft(NotPrefix, IF d.nExpressions = 0 THEN Push(d, Rows) ELSE d, Alternatives(key, Keywords(key)))

BuildCondition(d, key) ==
  CASE key.any -> BuildConditionIn(d, key)
    [] ~key.any /\ key.op = "!&^|" -> BuildConditionNotPrefixIn(d, key)
    [] ~key.any /\ key.op \in InOperators \ {"!&^|"} -> BuildConditionKeywords(d, key)
    [] ~key.any /\ key.op = "~~" /\ plan.regexp -> BuildConditionLikeRegexp(d, key, The(key.args[1]))
    [] ~key.any /\ key.op = "~~" /\ ~plan.regexp -> BuildConditionLikeMatch(d, key, The(key.args[1]))
    [] ~key.any /\ key.op = "&@~" -> BuildConditionQuery(d, key, The(key.args[1]))
    [] ~key.any /\ key.op = "&~" /\ The(key.args[1]) = <<>> -> [d EXCEPT !.empty = TRUE]
    [] OTHER -> BinaryOperation(d, key, key.op, The(key.args[1]))

IsNullKey(key) == ~key.any /\ key.op \notin InOperators /\ key.args[1] = {}
BuildConditions(key) ==
  LET built == BuildCondition(data, key)
      joined == IF data.nExpressions > 0 /\ key.op # "!&^|" THEN And(built) ELSE built
  IN CASE IsNullKey(key) -> data
       [] ~IsNullKey(key) /\ built.empty -> built
       [] OTHER -> [joined EXCEPT !.nExpressions = @ + 1]

-----------------------------------------------------------------------------
(* A search, key by key.                                                   *)

\* After an empty condition the keys that come are not looked at.
NextKey ==
  /\ found = {} /\ Len(keys) < Len(plan.keys)
  /\ \E args \in plan.keys[Len(keys) + 1].args :
       LET key == [plan.keys[Len(keys) + 1] EXCEPT !.args = args]
       IN /\ keys' = Append(keys, key)
          /\ \E one \in ConvertedFrom(key) :
               /\ read' = Append(read, one)
               /\ IF IsRangeSearchable
                  THEN FillBorder(one) /\ UNCHANGED data
                  ELSE data' = (IF data.empty THEN data ELSE BuildConditions(one)) /\ UNCHANGED borders
  /\ UNCHANGED <<plan, found>>

\* What the selector finds for the expression; nothing for one without an operand.
Selected == IF data.empty \/ data.stack = <<>> THEN {} ELSE Last(data.stack)

Recheck == \E i \in DOMAIN keys : keys[i].op = "~~"
Search ==
  /\ found = {} /\ Len(keys) = Len(plan.keys)
  /\ LET rows == CASE IsRangeSearchable -> RangeSearch
                   [] ~IsRangeSearchable /\ keys = <<>> -> Rows
                   [] OTHER -> Selected
     IN found' = {IF Recheck THEN rows \cap Wanted ELSE rows}
  /\ UNCHANGED <<plan, keys, read, borders, data>>

\* The same plan with other arguments: the inner side of a nested loop.
Rescan ==
  /\ found # {}
  /\ keys' = <<>> /\ read' = <<>>
  /\ borders' = [borders EXCEPT !.minOp = "", !.maxOp = ""]
  /\ data' = SearchDataInit
  /\ found' = {}
  /\ UNCHANGED plan

Init ==
  /\ plan \in Plans
  /\ keys = <<>> /\ read = <<>>
  /\ borders = NoBorders
  /\ data = SearchDataInit
  /\ found = {}

Next == NextKey \/ Search \/ Rescan

Spec == Init /\ [][Next]_vars

-----------------------------------------------------------------------------
(* Where the index and the operators disagree.                             *)

Keys == ToSet(keys)

\* Something empty among alternatives empties the whole search, and LIKE '' does
\* not find the empty text.
EmptyAlternative ==
  \/ \E k \in Keys : k.op = "&@~|" /\ \E i \in DOMAIN k.args : k.args[i] \in {{}, {<<>>}}
  \/ \E k \in Keys : k.op = "~~" /\ ~plan.regexp /\ {<<>>} \in ToSet(k.args)
  \/ \E k \in Keys : k.op = "~~" /\ k.any /\ {<<>>} \in ToSet(k.args)
\* Without a key the rows are read from the lexicon.
WithoutKey == keys = <<>>
\* Of two borders with one value the one that lets it in stays.
SameBorder ==
  \E k, l \in ToSet(read) : /\ <<k.op, l.op>> \in {<<"<", "<=">>, <<">", ">=">>}
                             /\ k.args = l.args
\* In a rescan a border that is not narrower than the one of the scan before it
\* is taken for one that adds nothing.
LostBorder ==
  IsRangeSearchable /\ \E k \in Keys : \/ k.op \in {"<", "<="} /\ borders.maxOp = ""
                                       \/ k.op \in {">", ">="} /\ borders.minOp = ""
\* A key that is NULL is left out.
NullKey == \E k \in Keys : IsNullKey(k)
\* A NULL does not begin with anything.
NotPrefixOfNull == {row \in Rows : row.t = {} /\ \E k \in Keys : k.op = "!&^|"}

\* The rows a key holds for, but not the value its array is taken for, and the
\* rows it is the other way about for.
LostToArrays == {row \in Rows : \E i \in DOMAIN keys : Holds(keys[i], row) /\ ~Holds(read[i], row)}
FoundByArrays == {row \in Rows : \E i \in DOMAIN keys : ~Holds(keys[i], row) /\ Holds(read[i], row)}

\* Whatever keys come together and in which order, an index finds the rows the
\* operators find, but for those of an empty alternative and of a scan without keys,
\* and for those lost because an array is taken for one value.
IndexFindsAll ==
  found # {} => Wanted \subseteq The(found) \cup LostToArrays \/ EmptyAlternative \/ WithoutKey

\* It finds no other rows, in a rescan either, but for a border that is NULL, lost,
\* or less strict than another at the same value, for a NULL and "!&^|", for an
\* array of keywords that leaves an operator of the expression without an operand,
\* and for the rows of the value an array is taken for.
IndexFindsOnly ==
  found # {} => \/ The(found) \subseteq Wanted \cup NotPrefixOfNull \cup FoundByArrays
                \/ SameBorder \/ LostBorder \/ NullKey \/ data.short
=============================================================================
