-------------------------------- MODULE MCJSONB --------------------------------
(***************************************************************************)
(* Instances of PGrnJSONBContain for TLC: every document of a set alone,   *)
(* against every query of the same set, and pairs that share values, with  *)
(* VACUUM.                                                                 *)
(***************************************************************************)
EXTENDS PGrnJSONBContain

TheNumber(s) == IF s = "1" THEN 1 ELSE 0

Array(vs) == [t |-> "array", s |-> "", items |-> [i \in DOMAIN vs |-> [k |-> "", v |-> vs[i]]]]
Object(ks, vs) == [t |-> "object", s |-> "", items |-> [i \in DOMAIN vs |-> [k |-> ks[i], v |-> vs[i]]]]

X == Scalar("string", "x")
One == Scalar("number", "1")
Scalars == {X, One, Scalar("string", ""), Scalar("number", "0"), Scalar("number", "0.0"),
            Scalar("boolean", "true"), Scalar("null", "")}
Members == Scalars \cup {Array(<<>>), Object(<<>>, <<>>), Array(<<X>>), Object(<<"b">>, <<X>>)}
Documents ==
  Scalars
    \cup {Array(vs) : vs \in UNION {[1 .. n -> Members] : n \in {0, 1}} \cup [1 .. 2 -> {X, One, Array(<<X>>)}]}
    \cup {Object(<<k>>, <<v>>) : k \in {"a", "b"}, v \in Members}
    \cup {Object(<<"a", "b">>, vs) : vs \in [1 .. 2 -> Members]}
    \cup {Object(<<"a">>, <<Array(<<Object(<<"b">>, <<v>>)>>)>>) : v \in {X, One, Array(<<X>>)}}
    \cup {Array(<<Array(<<X, One>>)>>), Array(<<Array(<<X>>), Array(<<One>>)>>)}

\* The values of the first are among those of the second, in another order; the
\* third adds values between them.
A == Object(<<"a">>, <<X>>)
B == Object(<<"a", "b">>, <<X, One>>)
C == Array(<<One, X>>)
Pairs == {<<A, B>>, <<B, A>>, <<A, C>>, <<B, B>>}
TheWorkloads == {<<d>> : d \in Documents} \cup Pairs
=============================================================================
