------------------------------ MODULE MCSearch ------------------------------
(***************************************************************************)
(* Searches with an index and without one, for TLC: PGrnScanKeys with      *)
(* numbers, short texts and plans of at most two keys, or                  *)
(* PGrnSequentialSearch with two indexes of PGroonga and another.  They    *)
(* share nothing: a behaviour is one of the one or of the other.           *)
(***************************************************************************)
EXTENDS PGrnScanKeys, PGrnSequentialSearch, TLC

Texts(chars, n) == UNION {[1 .. k -> chars] : k \in 0 .. n}
OrNull(values) == {{}} \cup {{v} : v \in values}
TheCharacters == {"a", "b", "%", "_", "\\"}
TheRows == [n : OrNull(0 .. 2), t : OrNull(Texts({"a", "b", "%"}, 2) \cup {<<"a", "b", "a">>, <<"a", "%", "a">>})]

\* A pattern that ends in its escape is an error.
Escapes(pattern) == LikeElements(pattern).escaped
Patterns(chars, n) == {p \in Texts(chars, n) : ~Escapes(p)}

\* The value an array is taken for is the number or the text of a row, or of none.
TheDatums == [n |-> {1, 7}, t |-> {<<"a">>, <<"b", "b", "b">>}]

Singles(values) == {<<a>> : a \in OrNull(values)}
Arrays(values) == Texts(OrNull(values), 2)
NumberKeys ==
  {[column |-> "n", op |-> op, any |-> FALSE, args |-> Singles(0 .. 2)] : op \in Comparisons \cup {"="}}
    \cup {[column |-> "n", op |-> "=", any |-> TRUE, args |-> Arrays(0 .. 2)]}
    \cup {[column |-> "n", op |-> op, any |-> TRUE, args |-> {<<{0}, {1}>>, <<{}, {2}>>}] : op \in {"<", ">="}}

TextKey(op, any, args) == [column |-> "t", op |-> op, any |-> any, args |-> args]
FullTextKeys(patterns, short, words) ==
  {TextKey("~~", FALSE, Singles(patterns)), TextKey("~~", TRUE, Arrays(short)), TextKey("&@", TRUE, Arrays(words))}
    \cup {TextKey(op, FALSE, Singles(words)) : op \in {"&@", "&@~"}}
    \cup {TextKey(op, FALSE, Arrays(words)) : op \in {"&@|", "&@~|"}} \cup {TextKey("&@~", TRUE, Arrays(words))}
TermKeys(words) ==
  {TextKey("&^", FALSE, Singles(words \ {<<>>})), TextKey("&^", TRUE, Texts({{w} : w \in words \ {<<>>}}, 2))}
    \cup {TextKey(op, FALSE, Texts({{w} : w \in words \ {<<>>}}, 2)) : op \in {"&^|", "!&^|"}}
RegexpKeys(patterns, words) ==
  {TextKey("~~", FALSE, Singles(patterns)), TextKey("&~|", FALSE, Arrays(words))}
    \cup {TextKey("&~", FALSE, Singles(words)), TextKey("&~", TRUE, Arrays(words))}

Words == {<<>>, <<"a">>, <<"a", "b">>}
UpTo2(ks, regexp) == {[keys |-> k, regexp |-> regexp] : k \in UNION {[1 .. m -> ks] : m \in 0 .. 2}}
One(ks, regexp) == {[keys |-> <<k>>, regexp |-> regexp] : k \in ks}
ThePlans ==
  One(FullTextKeys(Patterns({"a", "%", "_", "\\"}, 3), Patterns({"a", "%", "_"}, 2), Texts({"a", "b"}, 2)), FALSE)
    \cup One(TermKeys(Texts({"a", "b"}, 2)), FALSE)
    \cup One(RegexpKeys(Patterns({"a", "%", "_", "\\"}, 3), Texts({"a", "b"}, 2)), TRUE)
    \cup UpTo2(NumberKeys \cup FullTextKeys({<<"%", "a">>}, {<<>>, <<"a">>}, Words), FALSE)
    \cup UpTo2(NumberKeys \cup TermKeys(Words), FALSE)
    \cup UpTo2(RegexpKeys({<<"%", "a">>, <<"_", "%">>}, Words), TRUE)

CONSTANTS i1, i2, other
TheBareName == (i1 :> i1) @@ (i2 :> i1) @@ (other :> other)
Condition(index, target, type, queries, ratios) ==
  [index : {index}, target : {target}, type : {type}, query : queries, ratio : ratios]
TheConditions ==
  Condition(i1, "text", "query", {"q1", "bad"}, {0, 1}) \cup Condition(i2, "text", "query", {"q2"}, {0})
    \cup Condition(i1, "text", "prefix", {"q1", "bad"}, {0}) \cup Condition(i1, "texts", "query", {"q1"}, {0})
    \cup Condition(NoIndex, "text", "query", {"q1", "bad"}, {0}) \cup Condition(other, "text", "query", {"q1"}, {0})

SearchInit == Init /\ CacheInit
SearchNext ==
  \/ CacheInit /\ Next /\ UNCHANGED cacheVars
  \/ plan = [keys |-> <<>>, regexp |-> FALSE] /\ found = {} /\ CacheNext /\ UNCHANGED vars
SearchSpec == SearchInit /\ [][SearchNext]_<<vars, cacheVars>>
=============================================================================
