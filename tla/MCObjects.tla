------------------------------ MODULE MCObjects ------------------------------
(***************************************************************************)
(* Instances of PGrnWALObjects for TLC: index 1 is built in d1 while index *)
(* 2, which is there already, changes in d2.                               *)
(***************************************************************************)
EXTENDS PGrnWALObjects

TheHome == 1 :> "d1" @@ 2 :> "d2"
TheDomain == "title" :> "ShortText" @@ "body" :> "Text" @@ "tags" :> "Int32"
TheAttributes == <<"title", "body", "tags">>
InDefault == [n \in {1, 2} |-> DefaultSpace]
TheSpaces == {InDefault, [InDefault EXCEPT ![1] = "own"]}

Plain == [key |-> 1, nulls |-> {}, tooLong |-> FALSE]
TooLong == [key |-> 2, nulls |-> {}, tooLong |-> TRUE]
WithNull == [key |-> 3, nulls |-> {"title"}, tooLong |-> FALSE]
TheBuilt == <<2>>
TheRows == {Plain, TooLong}
TheContents == {<<Plain, WithNull>>, <<TooLong>>}
\* The standby tells the primary nothing: how far it is behind makes a
\* difference only where the generic WAL needs the objects that follow.
TheMaxLag == "custom" :> 0 @@ "generic" :> 2
\* With the generic WAL databases have nothing in common.
TheActive == "custom" :> {1, 2} @@ "generic" :> {1}
TheMaxOperations == "custom" :> 2 @@ "generic" :> 3
ThePlugin == <<"plugin">>
=============================================================================
