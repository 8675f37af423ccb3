--------------------------- MODULE PGrnJSONBProofs ---------------------------
(***************************************************************************)
(* Theorems about the values of an index over jsonb (PGrnJSONB), for all   *)
(* documents, any number of them, and any turns insertions and VACUUMs     *)
(* take: as long as nothing is spoilt, all searches agree (SearchesAgree)  *)
(* and VACUUM leaves no value without a row (NoValueIsLeft).               *)
(*                                                                         *)
(* What a document holds is a fold of its tokens; along its run the        *)
(* strings for full text search are those of the calls so far.             *)
(*                                                                         *)
(* The invariant (ValuesInv) relates what insertions have in hand, what    *)
(* rows refer to and what VACUUM has yet to look at to the values that are *)
(* alive: a key belongs to one value, a value in hand or referred to is    *)
(* alive and has the key of its call, and its columns are set but for the  *)
(* one insertion that is about to set them.  A value nobody refers to is   *)
(* in hand, or VACUUM has not come to it yet.                              *)
(***************************************************************************)
EXTENDS PGrnJSONB, SequenceTheorems, TLAPS

-----------------------------------------------------------------------------
(* The invariant.                                                          *)

Calls(d, r) == InsertCalls(d[r])
AllCalls(d) == UNION {ToSet(Calls(d, r)) : r \in DOMAIN d}
Keys(d) == {ValueKey(call) : call \in AllCalls(d)}
Record(d) == {Columns(call) : call \in AllCalls(d)} \cup {Bare}
Value(d) == [live : BOOLEAN, key : Keys(d) \cup {NoKey}, row : Record(d)]
ID == Nat \ {0}

Inserter(d) == [pc : {"values", "columns", "done", "failed"}, calls : Seq(AllCalls(d)), ids : Seq(ID)]
Vacuum == [pc : {"idle", "rows", "values", "delete"}, targets : SUBSET Rows, min : Nat, max : Nat, next : Nat]
Types ==
  /\ docs \in Workloads
  /\ values \in Seq(Value(docs))
  /\ free \in Seq(ID)
  /\ DOMAIN sources \subseteq Rows
  /\ \A r \in DOMAIN sources : sources[r] \in Seq(ID)
  /\ inserter \in [Rows -> Inserter(docs)]
  /\ dead \subseteq Rows
  /\ vacuum \in Vacuum
  /\ DOMAIN replica = {"values", "sources"}

\* An ID that was freed is not used, and it was freed once.  Its columns are
\* bare.
FreeIDs ==
  /\ \A i \in 1..Len(free) : free[i] \in DOMAIN values \ Live
  /\ \A i, j \in 1..Len(free) : free[i] = free[j] => i = j
  /\ \A id \in DOMAIN values \ Live : values[id].row = Bare

OneValueOfKey == \A id, other \in Live : values[id].key = values[other].key => id = other

\* The IDs of the first calls of a document, in order.
Have(ids, calls) ==
  \A i \in 1..Len(ids) : ids[i] \in Live /\ values[ids[i]].key = ValueKey(calls[i])

\* An insertion is somewhere in its document, and has the values before it.
Rest(calls, n, rest) ==
  /\ Len(calls) = n + Len(rest)
  /\ \A i \in 1..Len(rest) : rest[i] = calls[n + i]
Inserting(r) ==
  LET in == inserter[r]
      calls == Calls(docs, r)
  IN /\ in.pc = "values" => Rest(calls, Len(in.ids), in.calls)
     /\ in.pc = "columns" => in.ids # <<>> /\ in.calls # <<>> /\ Rest(calls, Len(in.ids) - 1, in.calls)
     /\ in.pc \in {"values", "columns"} => Have(in.ids, calls)
Insertions == \A r \in Rows : Inserting(r)

\* One insertion at most is about to set the columns of a value.
Sets(r, id) == inserter[r].pc = "columns" /\ Last(inserter[r].ids) = id
OneSets ==
  \A r, s \in Rows : inserter[s].pc = "columns" /\ Sets(r, Last(inserter[s].ids)) => r = s

\* Its columns are bare until then, and the standby may not know it.
ValueFits(id) ==
  IF \E r \in Rows : Sets(r, id)
  THEN values[id].row = Bare
  ELSE /\ values[id].key \in DOMAIN replica.values
       /\ \E call \in AllCalls(docs) : values[id].key = ValueKey(call) /\ values[id].row = Columns(call)
ValuesFit == \A id \in Live : ValueFits(id)

RowsFit ==
  \A r \in DOMAIN sources :
    /\ inserter[r].pc = "done"
    /\ Len(sources[r]) = Len(Calls(docs, r))
    /\ Have(sources[r], Calls(docs, r))

ReplicaHas(key) == \E id \in Live : values[id].key = key /\ values[id].row = replica.values[key]
ReplicaFits ==
  /\ \A key \in DOMAIN replica.values : ReplicaHas(key)
  /\ DOMAIN replica.sources = DOMAIN sources
  /\ \A r \in DOMAIN sources : 
       replica.sources[r] = [i \in 1..Len(sources[r]) |-> ValueKey(Calls(docs, r)[i])]

\* The cursor of VACUUM opens, and stands at a value that is alive.
VacuumFits ==
  /\ vacuum.pc = "rows" => (vacuum.min = None /\ vacuum.max = None) \/ {vacuum.min, vacuum.max} \subseteq Live
  /\ vacuum.pc = "delete" => vacuum.next \in Live

\* A value is referred to, or in hand, or VACUUM has not come to it yet.
InHand(id) == \E r \in Rows : inserter[r].pc # "done" /\ id \in ToSet(inserter[r].ids)
YetToCome(id) ==
  \/ vacuum.pc = "rows" /\ vacuum.min <= id /\ id <= vacuum.max
  \/ vacuum.pc \in {"values", "delete"} /\ vacuum.next <= id /\ id <= vacuum.max
NoneIsLost == \A id \in Live : Referenced(id) \/ InHand(id) \/ YetToCome(id)

Inv ==
  /\ Types
  /\ FreeIDs
  /\ OneValueOfKey
  /\ Insertions
  /\ OneSets
  /\ ValuesFit
  /\ RowsFit
  /\ ReplicaFits
  /\ VacuumFits
  /\ NoneIsLost
ValuesInv == spoilt = {} => Inv

-----------------------------------------------------------------------------
(* Folds of the tokens of a document.                                      *)

\* The largest number, as FoldLeft chooses it.
LEMMA LargestOf ==
  ASSUME NEW s \in SUBSET Int, NEW x \in s, \A y \in s : x >= y
  PROVE  Max(s) = x
<1>1. \A y \in s : (\A z \in s : y >= z) => y = x
  OBVIOUS
<1> QED
  BY <1>1 DEF Max

InsertTokenFold == INSTANCE LeftFolds WITH op <- InsertToken, Largest <- Max
FullTextTokenFold == INSTANCE LeftFolds WITH op <- FullTextToken, Largest <- Max
UpdateDeletedIDFold == INSTANCE LeftFolds WITH op <- UpdateDeletedID, Largest <- Max

LEMMA InsertTokenFolded ==
  ASSUME NEW base, NEW seq
  PROVE  FoldLeft(InsertToken, base, seq) = InsertTokenFold!Folded(base, seq)
BY DEF InsertTokenFold!Folded, FoldLeft, MapThenFoldSet
LEMMA InsertTokenRuns ==
  ASSUME NEW base, NEW n \in Nat, NEW seq, DOMAIN seq = 1..n
  PROVE  \E run : /\ run[0] = base
                  /\ \A i \in 1..n : run[i] = InsertToken(run[i - 1], seq[i])
                  /\ run[n] = FoldLeft(InsertToken, base, seq)
<1>1. InsertTokenFold!LargestIs
  BY LargestOf DEF InsertTokenFold!LargestIs
<1>2. \E run : InsertTokenFold!Runs(run, base, seq, n) /\ run[n] = InsertTokenFold!Folded(base, seq)
  BY <1>1, InsertTokenFold!FoldLeftRuns
<1> QED
  BY <1>2, InsertTokenFolded DEF InsertTokenFold!Runs

LEMMA FullTextTokenFolded ==
  ASSUME NEW base, NEW seq
  PROVE  FoldLeft(FullTextToken, base, seq) = FullTextTokenFold!Folded(base, seq)
BY DEF FullTextTokenFold!Folded, FoldLeft, MapThenFoldSet
LEMMA FullTextTokenRuns ==
  ASSUME NEW base, NEW n \in Nat, NEW seq, DOMAIN seq = 1..n
  PROVE  \E run : /\ run[0] = base
                  /\ \A i \in 1..n : run[i] = FullTextToken(run[i - 1], seq[i])
                  /\ run[n] = FoldLeft(FullTextToken, base, seq)
<1>1. FullTextTokenFold!LargestIs
  BY LargestOf DEF FullTextTokenFold!LargestIs
<1>2. \E run : FullTextTokenFold!Runs(run, base, seq, n) /\ run[n] = FullTextTokenFold!Folded(base, seq)
  BY <1>1, FullTextTokenFold!FoldLeftRuns
<1> QED
  BY <1>2, FullTextTokenFolded DEF FullTextTokenFold!Runs

LEMMA UpdateDeletedIDFolded ==
  ASSUME NEW base, NEW seq
  PROVE  FoldLeft(UpdateDeletedID, base, seq) = UpdateDeletedIDFold!Folded(base, seq)
BY DEF UpdateDeletedIDFold!Folded, FoldLeft, MapThenFoldSet
LEMMA UpdateDeletedIDRuns ==
  ASSUME NEW base, NEW n \in Nat, NEW seq, DOMAIN seq = 1..n
  PROVE  \E run : /\ run[0] = base
                  /\ \A i \in 1..n : run[i] = UpdateDeletedID(run[i - 1], seq[i])
                  /\ run[n] = FoldLeft(UpdateDeletedID, base, seq)
<1>1. UpdateDeletedIDFold!LargestIs
  BY LargestOf DEF UpdateDeletedIDFold!LargestIs
<1>2. \E run : UpdateDeletedIDFold!Runs(run, base, seq, n) /\ run[n] = UpdateDeletedIDFold!Folded(base, seq)
  BY <1>1, UpdateDeletedIDFold!FoldLeftRuns
<1> QED
  BY <1>2, UpdateDeletedIDFolded DEF UpdateDeletedIDFold!Runs

\* Induction along a run.
LEMMA Along ==
  ASSUME NEW n \in Nat, NEW S, 0 \in S,
         \A i \in 0..n - 1 : i \in S => i + 1 \in S
  PROVE  n \in S
<1>1. \A i \in 0..n : i \in S
  BY InsertTokenFold!FromZero
<1> QED
  BY <1>1

-----------------------------------------------------------------------------
(* Calls and strings of a document.                                        *)

Text == STRING \cup {"", "array", "object"}
Component == [array : BOOLEAN, key : Text]
CallType == [components : Seq(Component), t : Text, s : Text]
WalkType == [components : Seq(Component), stack : Seq(TokenKinds), calls : Seq(CallType)]

\* Front of a sequence, which may be empty.
LEMMA FrontType ==
  ASSUME NEW S, NEW s \in Seq(S)
  PROVE  Front(s) \in Seq(S)
BY DEF Front

\* What is left of a sequence without its last element.
LEMMA FrontIs ==
  ASSUME NEW S, NEW s \in Seq(S), s # <<>>
  PROVE  /\ Front(s) \in Seq(S)
         /\ Len(Front(s)) = Len(s) - 1
         /\ \A i \in 1..Len(s) - 1 : Front(s)[i] = s[i]
<1> DEFINE n == Len(s) - 1
<1>1. n \in Nat /\ \A i \in 1..n : s[i] \in S
  OBVIOUS
<1>2. Len(SubSeq(s, 1, n)) = n
  <2> HIDE DEF n
  <2>1. CASE n = 0
    BY <1>1, <2>1, SubSeqProperties
  <2>2. CASE 1 <= n
    BY <1>1, <2>2, SubSeqProperties
  <2> QED
    BY <1>1, <2>1, <2>2
<1>3. \A i \in 1..Len(s) - 1 : Front(s)[i] = s[i]
  BY DEF Front
<1> QED
  BY <1>2, <1>3, FrontType DEF Front

Calling(w, next, t, s) == \E components \in Seq(Component) : next.calls = Append(w.calls, Call(components, t, s))

LEMMA CallMade ==
  ASSUME NEW w \in WalkType, NEW now \in Seq(Component), NEW stack \in Seq(TokenKinds),
         NEW components \in Seq(Component), NEW t \in Text, NEW s \in Text, NEW next,
         next = [components |-> now, stack |-> stack, calls |-> Append(w.calls, Call(components, t, s))]
  PROVE  next \in WalkType /\ Calling(w, next, t, s)
<1> DEFINE calls == Append(w.calls, Call(components, t, s))
<1>1. Call(components, t, s) \in CallType /\ w.calls \in Seq(CallType)
  BY DEF WalkType, CallType, Call
<1>2. calls \in Seq(CallType)
  BY <1>1
<1>3. next = [components |-> now, stack |-> stack, calls |-> calls]
  OBVIOUS
<1>4. \E c \in Seq(Component) : calls = Append(w.calls, Call(c, t, s))
  OBVIOUS
<1> HIDE DEF calls
<1>5. next \in WalkType
  BY <1>2, <1>3 DEF WalkType
<1>6. next.calls = calls
  BY <1>3
<1> QED
  BY <1>4, <1>5, <1>6 DEF Calling

\* The walk stays a walk, and a token makes a call or none.
LEMMA InsertTokenFits ==
  ASSUME NEW w \in WalkType, NEW token \in TokenType
  PROVE  LET next == InsertToken(w, token)
         IN /\ next \in WalkType
            /\ token.w \in {"VALUE", "ELEM"} => Calling(w, next, token.t, token.s)
            /\ token.w = "BEGIN_ARRAY" => Calling(w, next, "array", "")
            /\ token.w = "BEGIN_OBJECT" => Calling(w, next, "object", "")
            /\ token.w \in {"KEY", "END_ARRAY", "END_OBJECT"} => next.calls = w.calls
<1> DEFINE next == InsertToken(w, token)
<1>1. /\ w.components \in Seq(Component) /\ w.stack \in Seq(TokenKinds) /\ w.calls \in Seq(CallType)
      /\ Front(w.components) \in Seq(Component)
      /\ Front(w.stack) \in Seq(TokenKinds)
  <2>1. w.components \in Seq(Component) /\ w.stack \in Seq(TokenKinds) /\ w.calls \in Seq(CallType)
    BY DEF WalkType
  <2> QED
    BY <2>1, FrontType
<1>2. token.w \in TokenKinds /\ token.s \in Text /\ token.t \in Text
  BY DEF TokenType, Text
<1>3. ASSUME NEW v \in WalkType
      PROVE  PopKey(v) \in WalkType /\ PopKey(v).calls = v.calls
  <2>1. Front(v.components) \in Seq(Component) /\ Front(v.stack) \in Seq(TokenKinds)
    BY FrontType DEF WalkType
  <2> QED
    BY <2>1 DEF PopKey, WalkType
<1>4. ArrayComponent \in Component /\ KeyComponent(token.s) \in Component
  <2>1. "" \in Text
    BY DEF Text
  <2> QED
    BY <1>2, <2>1 DEF ArrayComponent, KeyComponent, Component
<1>5. Append(w.components, ArrayComponent) \in Seq(Component) /\ Append(w.components, KeyComponent(token.s)) \in Seq(Component)
  BY <1>1, <1>4
<1>6. Append(w.stack, token.w) \in Seq(TokenKinds)
  BY <1>1, <1>2
<1>7. CASE token.w = "KEY"
  <2>1. next = [Pushed(w, token) EXCEPT !.components = Append(@, KeyComponent(token.s))]
    BY <1>7 DEF InsertToken
  <2>2. next = [components |-> Append(w.components, KeyComponent(token.s)), stack |-> Append(w.stack, token.w), calls |-> w.calls]
    BY <2>1 DEF Pushed, WalkType
  <2> QED
    BY <1>1, <1>5, <1>6, <1>7, <2>2 DEF WalkType
<1>8. CASE token.w = "VALUE"
  <2>1. next = [Called(w, token.t, token.s) EXCEPT !.components = Front(@), !.stack = Front(@)]
    BY <1>8 DEF InsertToken
  <2>2. next = [components |-> Front(w.components), stack |-> Front(w.stack), calls |-> Append(w.calls, Call(w.components, token.t, token.s))]
    BY <2>1 DEF Called, WalkType
  <2>3. next \in WalkType /\ Calling(w, next, token.t, token.s)
    BY <1>1, <1>2, <2>2, CallMade DEF Text
  <2> QED
    BY <1>8, <2>3
<1>9. CASE token.w = "ELEM"
  <2>1. next = Called(w, token.t, token.s)
    BY <1>9 DEF InsertToken
  <2>2. next = [components |-> w.components, stack |-> w.stack, calls |-> Append(w.calls, Call(w.components, token.t, token.s))]
    BY <2>1 DEF Called, WalkType
  <2>3. next \in WalkType /\ Calling(w, next, token.t, token.s)
    BY <1>1, <1>2, <2>2, CallMade DEF Text
  <2> QED
    BY <1>9, <2>3
<1>10. CASE token.w = "BEGIN_ARRAY"
  <2> DEFINE nested == Append(w.components, ArrayComponent)
  <2>1. next = Called([Pushed(w, token) EXCEPT !.components = Append(@, ArrayComponent)], "array", "")
    BY <1>10 DEF InsertToken
  <2>2. next = [components |-> nested, stack |-> Append(w.stack, token.w), calls |-> Append(w.calls, Call(nested, "array", ""))]
    BY <2>1 DEF Called, Pushed, WalkType
  <2>3. next \in WalkType /\ Calling(w, next, "array", "")
    BY <1>1, <1>2, <1>5, <1>6, <2>2, CallMade DEF Text
  <2> QED
    BY <1>10, <2>3
<1>11. CASE token.w = "END_ARRAY"
  <2> DEFINE popped == [w EXCEPT !.components = Front(@), !.stack = Front(@)]
  <2>1. next = PopKey(popped)
    BY <1>11 DEF InsertToken
  <2>2. popped \in WalkType /\ popped.calls = w.calls
    BY <1>1 DEF WalkType
  <2> HIDE DEF popped
  <2> QED
    BY <1>3, <1>11, <2>1, <2>2
<1>12. CASE token.w = "BEGIN_OBJECT"
  <2>1. next = Called(Pushed(w, token), "object", "")
    BY <1>12 DEF InsertToken
  <2>2. next = [components |-> w.components, stack |-> Append(w.stack, token.w), calls |-> Append(w.calls, Call(w.components, "object", ""))]
    BY <2>1 DEF Called, Pushed, WalkType
  <2>3. next \in WalkType /\ Calling(w, next, "object", "")
    BY <1>1, <1>2, <1>6, <2>2, CallMade DEF Text
  <2> QED
    BY <1>12, <2>3
<1>13. CASE token.w = "END_OBJECT"
  <2> DEFINE popped == [w EXCEPT !.stack = Front(@)]
  <2>1. next = PopKey(popped)
    BY <1>13 DEF InsertToken
  <2>2. popped \in WalkType /\ popped.calls = w.calls
    BY <1>1 DEF WalkType
  <2> HIDE DEF popped
  <2> QED
    BY <1>3, <1>13, <2>1, <2>2
<1> QED
  BY <1>2, <1>7, <1>8, <1>9, <1>10, <1>11, <1>12, <1>13 DEF TokenKinds

\* The strings of the calls.
StringIn(calls, term) == \E i \in 1..Len(calls) : calls[i].t = "string" /\ calls[i].s = term
Among(strings, term) == \E i \in 1..Len(strings) : strings[i] = term

LEMMA StringOfCall ==
  ASSUME NEW w \in WalkType, NEW next \in WalkType, NEW t, NEW s, Calling(w, next, t, s), NEW term
  PROVE  StringIn(next.calls, term) <=> StringIn(w.calls, term) \/ (t = "string" /\ s = term)
<1>1. PICK components \in Seq(Component) : next.calls = Append(w.calls, Call(components, t, s))
  BY DEF Calling
<1> DEFINE n == Len(w.calls)
<1>2. w.calls \in Seq(CallType) /\ n \in Nat
  BY DEF WalkType
<1> DEFINE call == Call(components, t, s)
<1>3. call.t = t /\ call.s = s
  BY DEF Call
<1> HIDE DEF call
<1>4. /\ Len(next.calls) = n + 1
      /\ next.calls[n + 1] = call
      /\ \A i \in 1..n : next.calls[i] = w.calls[i]
  BY <1>1, <1>2 DEF call
<1>5. ASSUME StringIn(next.calls, term)
      PROVE  StringIn(w.calls, term) \/ (t = "string" /\ s = term)
  <2>1. PICK i \in 1..n + 1 : next.calls[i].t = "string" /\ next.calls[i].s = term
    BY <1>4, <1>5 DEF StringIn
  <2>2. i \in 1..n \/ i = n + 1
    BY <1>2
  <2> QED
    BY <1>3, <1>4, <2>1, <2>2 DEF StringIn
<1>6. ASSUME StringIn(w.calls, term)
      PROVE  StringIn(next.calls, term)
  <2>1. PICK i \in 1..n : w.calls[i].t = "string" /\ w.calls[i].s = term
    BY <1>6 DEF StringIn
  <2>2. i \in 1..n + 1 /\ next.calls[i].t = "string" /\ next.calls[i].s = term
    BY <1>2, <1>4, <2>1
  <2> QED
    BY <1>4, <2>2 DEF StringIn
<1>7. ASSUME t = "string" /\ s = term
      PROVE  StringIn(next.calls, term)
  <2>1. n + 1 \in 1..n + 1
    BY <1>2
  <2> QED
    BY <1>3, <1>4, <1>7, <2>1 DEF StringIn
<1> QED
  BY <1>5, <1>6, <1>7

\* The walk has the strings of FullTextToken.
LEMMA StringOfToken ==
  ASSUME NEW w \in WalkType, NEW token \in TokenType, NEW strings \in Seq(Text), NEW term
  PROVE  /\ FullTextToken(strings, token) \in Seq(Text)
         /\ (StringIn(w.calls, term) <=> Among(strings, term))
              => (StringIn(InsertToken(w, token).calls, term) <=> Among(FullTextToken(strings, token), term))
<1> DEFINE next == InsertToken(w, token)
           more == FullTextToken(strings, token)
           held == token.w \in {"VALUE", "ELEM"} /\ token.t = "string"
<1>1. token.s \in Text /\ token.w \in TokenKinds
  BY DEF TokenType, Text
<1>2. more = IF held THEN Append(strings, token.s) ELSE strings
  BY DEF FullTextToken
<1>3. next \in WalkType /\ (StringIn(next.calls, term) <=> StringIn(w.calls, term) \/ (held /\ token.s = term))
  <2>1. /\ next \in WalkType
        /\ token.w \in {"VALUE", "ELEM"} => Calling(w, next, token.t, token.s)
        /\ token.w = "BEGIN_ARRAY" => Calling(w, next, "array", "")
        /\ token.w = "BEGIN_OBJECT" => Calling(w, next, "object", "")
        /\ token.w \in {"KEY", "END_ARRAY", "END_OBJECT"} => next.calls = w.calls
    BY InsertTokenFits
  <2> HIDE DEF next
  <2>2. CASE token.w \in {"VALUE", "ELEM"}
    <3>1. next \in WalkType /\ Calling(w, next, token.t, token.s)
      BY <2>1, <2>2
    <3>2. StringIn(next.calls, term) <=> StringIn(w.calls, term) \/ (token.t = "string" /\ token.s = term)
      BY <3>1, StringOfCall
    <3> QED
      BY <2>2, <3>1, <3>2
  <2>3. CASE token.w = "BEGIN_ARRAY"
    BY <2>1, <2>3, StringOfCall
  <2>4. CASE token.w = "BEGIN_OBJECT"
    BY <2>1, <2>4, StringOfCall
  <2>5. CASE token.w \in {"KEY", "END_ARRAY", "END_OBJECT"}
    BY <2>1, <2>5
  <2> QED
    BY <1>1, <2>2, <2>3, <2>4, <2>5 DEF TokenKinds
<1> HIDE DEF next, more, held
<1>4. more \in Seq(Text) /\ (Among(more, term) <=> Among(strings, term) \/ (held /\ token.s = term))
  <2>1. CASE ~held
    BY <1>2, <2>1
  <2>2. CASE held
    <3> DEFINE n == Len(strings)
    <3>1. n \in Nat /\ more = Append(strings, token.s)
      BY <1>2, <2>2
    <3>2. /\ more \in Seq(Text) /\ Len(more) = n + 1 /\ more[n + 1] = token.s
          /\ \A i \in 1..n : more[i] = strings[i]
      BY <1>1, <3>1
    <3> HIDE DEF n
    <3>3. \A i \in 1..n + 1 : i \in 1..n \/ i = n + 1
      BY <3>1
    <3>4. n + 1 \in 1..n + 1 /\ \A i \in 1..n : i \in 1..n + 1
      BY <3>1
    <3> QED
      BY <2>2, <3>2, <3>3, <3>4 DEF n, Among
  <2> QED
    BY <2>1, <2>2
<1> QED
  BY <1>3, <1>4 DEF next, more

LEMMA DocumentFits ==
  ASSUME NEW json, Tokens(json) \in Seq(TokenType)
  PROVE  /\ InsertCalls(json) \in Seq(CallType)
         /\ FullTextStrings(json) \in Seq(Text)
         /\ \A term : StringIn(InsertCalls(json), term) <=> term \in ToSet(FullTextStrings(json))
<1> DEFINE n == Len(Tokens(json))
           token(i) == Tokens(json)[i]
<1>1. n \in Nat /\ DOMAIN Tokens(json) = 1..n /\ \A i \in 1..n : token(i) \in TokenType
  OBVIOUS
<1> HIDE DEF n
<1>2. PICK walk : /\ walk[0] = Walk
                  /\ \A i \in 1..n : walk[i] = InsertToken(walk[i - 1], token(i))
                  /\ walk[n] = FoldLeft(InsertToken, Walk, Tokens(json))
  BY <1>1, InsertTokenRuns, ZenonT(30)
<1>3. PICK text : /\ text[0] = <<>>
                  /\ \A i \in 1..n : text[i] = FullTextToken(text[i - 1], token(i))
                  /\ text[n] = FoldLeft(FullTextToken, <<>>, Tokens(json))
  BY <1>1, FullTextTokenRuns, ZenonT(30)
<1> DEFINE Fit(i) == /\ walk[i] \in WalkType
                     /\ text[i] \in Seq(Text)
                     /\ \A term : StringIn(walk[i].calls, term) <=> Among(text[i], term)
           S == {i \in 0..n : Fit(i)}
<1>4. 0 \in S
  <2>1. Walk \in WalkType /\ Walk.calls = <<>>
    BY DEF Walk, WalkType
  <2>2. \A term : ~StringIn(<<>>, term)
    BY DEF StringIn
  <2>3. walk[0] \in WalkType /\ walk[0].calls = <<>> /\ text[0] = <<>>
    BY <1>2, <1>3, <2>1
  <2>4. \A term : StringIn(walk[0].calls, term) <=> Among(text[0], term)
    BY <2>2, <2>3 DEF Among
  <2>5. text[0] \in Seq(Text) /\ 0 \in 0..n
    BY <1>1, <2>3
  <2> QED
    BY <2>3, <2>4, <2>5
<1>5. ASSUME NEW i \in 0..n - 1, i \in S
      PROVE  i + 1 \in S
  <2>1. i + 1 \in 1..n /\ (i + 1) - 1 = i /\ i + 1 \in 0..n
    BY <1>1
  <2>2. walk[i + 1] = InsertToken(walk[i], token(i + 1)) /\ text[i + 1] = FullTextToken(text[i], token(i + 1))
    BY <1>2, <1>3, <2>1
  <2>3. Fit(i) /\ token(i + 1) \in TokenType
    BY <1>1, <1>5, <2>1
  <2> HIDE DEF token
  <2>4. walk[i + 1] \in WalkType
    BY <2>2, <2>3, InsertTokenFits
  <2>5. text[i + 1] \in Seq(Text)
    BY <2>2, <2>3, StringOfToken
  <2>6. ASSUME NEW term
        PROVE  StringIn(walk[i + 1].calls, term) <=> Among(text[i + 1], term)
    <3>1. StringIn(walk[i].calls, term) <=> Among(text[i], term)
      BY <2>3
    <3> QED
      BY <2>2, <2>3, <3>1, StringOfToken
  <2> QED
    BY <2>1, <2>4, <2>5, <2>6
<1> HIDE DEF S
<1>6. n \in S
  BY <1>1, <1>4, <1>5, Along
<1>7. Fit(n) /\ walk[n].calls = InsertCalls(json) /\ text[n] = FullTextStrings(json)
  BY <1>2, <1>3, <1>6 DEF S, InsertCalls, FullTextStrings
<1>8. \A strings \in Seq(Text) : \A term : term \in ToSet(strings) <=> Among(strings, term)
  BY DEF ToSet, Among
<1> QED
  BY <1>7, <1>8 DEF WalkType

\* Two calls with one key have rows that meet the same conditions.
LEMMA SameKeyMeets ==
  ASSUME NEW call, NEW other, ValueKey(call) = ValueKey(other), NEW condition
  PROVE  Meets(Columns(call), condition) <=> Meets(Columns(other), condition)
<1> DEFINE row == Columns(call)
           same == Columns(other)
<1>1. CompletePath(call.components) = CompletePath(other.components) /\ call.t = other.t /\ call.s = other.s
  BY DEF ValueKey
<1>2. row.path = same.path
  BY <1>1 DEF Columns
<1>3. row.type = same.type
  BY <1>1 DEF Columns
<1>4. row.string = same.string
  BY <1>1 DEF Columns
<1>5. row.number = same.number
  BY <1>1 DEF Columns
<1>6. row.boolean = same.boolean
  BY <1>1 DEF Columns
<1> HIDE DEF row, same
<1>7. Meets(row, condition) <=> Meets(same, condition)
  BY <1>2, <1>3, <1>4, <1>5, <1>6 DEF Meets
<1> QED
  BY <1>7 DEF row, same

\* The columns of a new row are those of its call.
LEMMA WrittenIsColumns ==
  ASSUME NEW call
  PROVE  Written(Bare, call) = Columns(call)
<1> DEFINE columns == Columns(call)
           set == {"path", "paths", "type"} \cup WrittenColumn(call)
           names == {"path", "paths", "type", "string", "number", "boolean"}
<1>1. Written(Bare, call) = [c \in DOMAIN Bare |-> IF c \in set THEN columns[c] ELSE Bare[c]]
  BY DEF Written
<1>2. DOMAIN Bare = names /\ DOMAIN columns = names
  BY DEF Bare, Columns
<1>3. columns = [c \in names |-> columns[c]]
  BY <1>2 DEF Columns
<1>4. ASSUME NEW c \in names, c \notin set
      PROVE  columns[c] = Bare[c]
  <2>1. \/ c = "string" /\ call.t # "string"
        \/ c = "number" /\ call.t # "number"
        \/ c = "boolean" /\ call.t # "boolean"
    BY <1>4 DEF WrittenColumn
  <2>2. CASE c = "string" /\ call.t # "string"
    BY <2>2 DEF Columns, Bare
  <2>3. CASE c = "number" /\ call.t # "number"
    BY <2>3 DEF Columns, Bare
  <2>4. CASE c = "boolean" /\ call.t # "boolean"
    BY <2>4 DEF Columns, Bare
  <2> QED
    BY <2>1, <2>2, <2>3, <2>4
<1> HIDE DEF columns, set, names
<1> QED
  BY <1>1, <1>2, <1>3, <1>4 DEF columns

-----------------------------------------------------------------------------
(* What the steps share.                                                   *)

LEMMA CallsType ==
  ASSUME Types, NEW r \in Rows
  PROVE  /\ Calls(docs, r) \in Seq(AllCalls(docs))
         /\ \A i \in 1..Len(Calls(docs, r)) : Calls(docs, r)[i] \in AllCalls(docs)
<1> DEFINE calls == Calls(docs, r)
<1>1. calls \in Seq(CallType)
  <2>1. Tokens(docs[r]) \in Seq(TokenType)
    BY JSONBAssumption DEF JSONBAssumption, Types, Rows
  <2> QED
    BY <2>1, DocumentFits DEF Calls
<1>2. \A i \in 1..Len(calls) : calls[i] \in ToSet(calls)
  BY <1>1 DEF ToSet
<1>3. ToSet(calls) \subseteq AllCalls(docs)
  BY DEF AllCalls, Rows
<1> HIDE DEF calls
<1>4. \A i \in 1..Len(calls) : calls[i] \in AllCalls(docs)
  BY <1>2, <1>3
<1>5. calls \in Seq(AllCalls(docs))
  BY <1>1, <1>4
<1> QED
  BY <1>4, <1>5 DEF calls

\* One call more is done.
LEMMA RestOfTail ==
  ASSUME NEW S, NEW calls \in Seq(S), NEW n \in Nat, NEW rest \in Seq(S), rest # <<>>, Rest(calls, n, rest)
  PROVE  /\ Rest(calls, n + 1, Tail(rest))
         /\ Tail(rest) \in Seq(S)
         /\ Head(rest) = calls[n + 1]
         /\ n + 1 \in 1..Len(calls)
<1>1. Len(rest) \in Nat /\ Len(rest) >= 1 /\ Head(rest) = rest[1]
  OBVIOUS
<1>2. Tail(rest) \in Seq(S) /\ Len(Tail(rest)) = Len(rest) - 1
  OBVIOUS
<1>3. \A i \in 1..Len(Tail(rest)) : Tail(rest)[i] = rest[i + 1]
  OBVIOUS
<1>4. \A i \in 1..Len(Tail(rest)) : i + 1 \in 1..Len(rest) /\ n + (i + 1) = (n + 1) + i
  BY <1>1, <1>2
<1>5. Len(calls) = (n + 1) + Len(Tail(rest))
  BY <1>1, <1>2 DEF Rest
<1>6. \A i \in 1..Len(Tail(rest)) : Tail(rest)[i] = calls[(n + 1) + i]
  BY <1>3, <1>4 DEF Rest
<1> QED
  BY <1>1, <1>2, <1>5, <1>6 DEF Rest

LEMMA AppendIs ==
  ASSUME NEW S, NEW ids \in Seq(S), NEW id \in S
  PROVE  /\ Append(ids, id) \in Seq(S)
         /\ Append(ids, id) # <<>>
         /\ Len(Append(ids, id)) = Len(ids) + 1
         /\ Last(Append(ids, id)) = id
         /\ ToSet(Append(ids, id)) = ToSet(ids) \cup {id}
         /\ \A i \in 1..Len(ids) : Append(ids, id)[i] = ids[i]
         /\ Append(ids, id)[Len(ids) + 1] = id
<1> DEFINE more == Append(ids, id)
           n == Len(ids)
<1>1. more \in Seq(S) /\ Len(more) = n + 1 /\ more[n + 1] = id /\ n \in Nat
  OBVIOUS
<1>2. \A i \in 1..n : more[i] = ids[i]
  OBVIOUS
<1>3. DOMAIN more = 1..n + 1 /\ DOMAIN ids = 1..n
  BY <1>1
<1> HIDE DEF more, n
<1>4. ToSet(more) = ToSet(ids) \cup {id}
  BY <1>1, <1>2, <1>3 DEF ToSet
<1>5. more # <<>>
  BY <1>1
<1> QED
  BY <1>1, <1>2, <1>4, <1>5 DEF more, n, Last

\* A value of the next call in hand.
LEMMA HaveOneMore ==
  ASSUME NEW ids \in Seq(ID), NEW calls, NEW id \in ID, id \in Live',
         \A i \in 1..Len(ids) : ids[i] \in Live' /\ values'[ids[i]].key = ValueKey(calls[i]),
         values'[id].key = ValueKey(calls[Len(ids) + 1])
  PROVE  \A i \in 1..Len(Append(ids, id)) :
           Append(ids, id)[i] \in Live' /\ values'[Append(ids, id)[i]].key = ValueKey(calls[i])
<1> DEFINE more == Append(ids, id)
<1>1. Len(more) = Len(ids) + 1 /\ more[Len(ids) + 1] = id /\ \A i \in 1..Len(ids) : more[i] = ids[i]
  BY AppendIs
<1>2. \A i \in 1..Len(ids) + 1 : i \in 1..Len(ids) \/ i = Len(ids) + 1
  OBVIOUS
<1> HIDE DEF more
<1>3. \A i \in 1..Len(more) : more[i] \in Live' /\ values'[more[i]].key = ValueKey(calls[i])
  BY <1>1, <1>2
<1> QED
  BY <1>3 DEF more

\* IDs are numbers from one.
LEMMA LiveAreIDs ==
  ASSUME Types
  PROVE  /\ Live \subseteq ID
         /\ DOMAIN values = 1..Len(values) /\ Len(values) \in Nat
         /\ \A id \in DOMAIN values : values[id] \in Value(docs)
<1>1. values \in Seq(Value(docs))
  BY DEF Types
<1>2. DOMAIN values = 1..Len(values) /\ Len(values) \in Nat
  BY <1>1
<1>3. \A id \in DOMAIN values : values[id] \in Value(docs)
  BY <1>1
<1> QED
  BY <1>2, <1>3 DEF Live, ID

\* What is in an inserter, one by one.
LEMMA InserterIs ==
  ASSUME Types, NEW r \in Rows
  PROVE  /\ inserter[r] \in Inserter(docs)
         /\ inserter[r].pc \in {"values", "columns", "done", "failed"}
         /\ inserter[r].calls \in Seq(AllCalls(docs))
         /\ inserter[r].ids \in Seq(ID)
         /\ Len(inserter[r].ids) \in Nat
<1>1. inserter[r] \in Inserter(docs)
  BY DEF Types
<1>2. inserter[r].ids \in Seq(ID)
  BY <1>1 DEF Inserter
<1>3. Len(inserter[r].ids) \in Nat
  BY <1>2
<1> QED
  BY <1>1, <1>2, <1>3 DEF Inserter

\* One insertion goes on.
LEMMA InserterStep ==
  ASSUME Types, NEW r \in Rows, NEW next, inserter' = [inserter EXCEPT ![r] = next],
         next.pc \in {"values", "columns", "done", "failed"},
         next.calls \in Seq(AllCalls(docs)),
         next.ids \in Seq(ID),
         next = [pc |-> next.pc, calls |-> next.calls, ids |-> next.ids]
  PROVE  /\ inserter' \in [Rows -> Inserter(docs)]
         /\ inserter'[r] = next
         /\ \A s \in Rows : s # r => inserter'[s] = inserter[s]
<1>1. next \in Inserter(docs)
  BY DEF Inserter
<1>2. inserter \in [Rows -> Inserter(docs)]
  BY DEF Types
<1> QED
  BY <1>1, <1>2

\* The last value of an insertion that sets columns is alive.
LEMMA SettingIsLive ==
  ASSUME Types, Insertions, NEW r \in Rows, inserter[r].pc = "columns"
  PROVE  /\ Last(inserter[r].ids) \in Live
         /\ Last(inserter[r].ids) \in ID
         /\ Last(inserter[r].ids) = inserter[r].ids[Len(inserter[r].ids)]
         /\ Len(inserter[r].ids) \in 1..Len(inserter[r].ids)
         /\ values[Last(inserter[r].ids)].key = ValueKey(Calls(docs, r)[Len(inserter[r].ids)])
<1> DEFINE ids == inserter[r].ids
<1>1. ids \in Seq(ID) /\ Len(ids) \in Nat
  BY InserterIs
<1>2. ids # <<>> /\ Have(ids, Calls(docs, r))
  BY DEF Insertions, Inserting
<1>3. Len(ids) \in 1..Len(ids) /\ Last(ids) = ids[Len(ids)]
  BY <1>1, <1>2 DEF Last
<1>4. Last(ids) \in Live /\ values[Last(ids)].key = ValueKey(Calls(docs, r)[Len(ids)])
  BY <1>2, <1>3 DEF Have
<1> QED
  BY <1>3, <1>4, LiveAreIDs

\* What a step keeps that leaves the values, the insertions and the rows alone.
LEMMA Frame ==
  ASSUME Inv, UNCHANGED <<docs, values, free, sources, inserter, replica>>
  PROVE  /\ FreeIDs' /\ OneValueOfKey' /\ Insertions' /\ OneSets' /\ ValuesFit' /\ RowsFit' /\ ReplicaFits'
         /\ Live' = Live
         /\ \A id : Referenced(id)' <=> Referenced(id)
         /\ \A id : InHand(id)' <=> InHand(id)
         /\ Rows' = Rows
<1>1. Live' = Live /\ Rows' = Rows
  BY DEF Live, Rows
<1>2. FreeIDs'
  BY <1>1 DEF Inv, FreeIDs
<1>3. OneValueOfKey'
  BY <1>1 DEF Inv, OneValueOfKey
<1>4. Insertions'
  BY <1>1 DEF Inv, Insertions, Inserting, Have, Calls
<1>5. OneSets'
  BY <1>1 DEF Inv, OneSets, Sets
<1>6. ValuesFit'
  BY <1>1 DEF Inv, ValuesFit, ValueFits, Sets
<1>7. RowsFit'
  BY <1>1 DEF Inv, RowsFit, Have, Calls
<1>8. ReplicaFits'
  BY <1>1 DEF Inv, ReplicaFits, ReplicaHas, Calls
<1>9. \A id : Referenced(id)' <=> Referenced(id)
  BY DEF Referenced
<1>10. \A id : InHand(id)' <=> InHand(id)
  BY <1>1 DEF InHand
<1> QED
  BY <1>1, <1>2, <1>3, <1>4, <1>5, <1>6, <1>7, <1>8, <1>9, <1>10

-----------------------------------------------------------------------------
(* VACUUM.                                                                 *)

LEMMA VacuumIs ==
  ASSUME Types
  PROVE  /\ vacuum.pc \in {"idle", "rows", "values", "delete"}
         /\ vacuum.targets \subseteq Rows
         /\ vacuum.min \in Nat /\ vacuum.max \in Nat /\ vacuum.next \in Nat
         /\ vacuum = [pc |-> vacuum.pc, targets |-> vacuum.targets, min |-> vacuum.min,
                      max |-> vacuum.max, next |-> vacuum.next]
BY DEF Types, Vacuum

LEMMA DieKeeps ==
  ASSUME Inv, NEW r \in Rows, Die(r)
  PROVE  Inv'
<1>1. UNCHANGED <<docs, values, free, sources, inserter, replica, vacuum>> /\ dead' = dead \cup {r}
  BY DEF Die, database
<1>2. Types'
  BY <1>1 DEF Inv, Types, Rows, Vacuum, Inserter
<1>3. VacuumFits'
  BY <1>1, Frame DEF Inv, VacuumFits
<1>4. NoneIsLost'
  BY <1>1, Frame DEF Inv, NoneIsLost, YetToCome
<1> QED
  BY <1>1, <1>2, <1>3, <1>4, Frame DEF Inv

\* The types when only VACUUM has moved.
LEMMA VacuumTypes ==
  ASSUME Types, UNCHANGED <<docs, database, inserter, dead>>, vacuum' \in Vacuum
  PROVE  Types'
BY DEF Types, Rows, Inserter, Vacuum, database

LEMMA BulkDeleteInitKeeps ==
  ASSUME Inv, BulkDeleteInit
  PROVE  Inv'
<1>1. /\ UNCHANGED <<docs, database, inserter, dead>>
      /\ vacuum' = [pc |-> "rows", targets |-> dead, min |-> None, max |-> None, next |-> None]
      /\ vacuum.pc = "idle"
  BY DEF BulkDeleteInit
<1>2. UNCHANGED <<docs, values, free, sources, inserter, replica>>
  BY <1>1 DEF database
<1>3. Types'
  <2>1. dead \subseteq Rows
    BY DEF Inv, Types
  <2>2. vacuum' \in Vacuum
    BY <1>1, <2>1 DEF Vacuum, None
  <2> QED
    BY <1>1, <2>2, VacuumTypes DEF Inv
<1>4. VacuumFits'
  BY <1>1 DEF VacuumFits
<1>5. NoneIsLost'
  <2>1. ASSUME NEW id, id \in Live
        PROVE  Referenced(id) \/ InHand(id)
    BY <1>1, <2>1 DEF Inv, NoneIsLost, YetToCome
  <2> QED
    BY <1>2, <2>1, Frame DEF NoneIsLost
<1> QED
  BY <1>2, <1>3, <1>4, <1>5, Frame DEF Inv

LEMMA BulkDeleteRangeKeeps ==
  ASSUME Inv, BulkDeleteRange
  PROVE  Inv'
<1>1. /\ UNCHANGED <<docs, database, inserter, dead>>
      /\ vacuum.pc = "rows"
      /\ vacuum' = IF {vacuum.min, vacuum.max} \subseteq Live
                   THEN [vacuum EXCEPT !.pc = "values", !.next = vacuum.min]
                   ELSE [vacuum EXCEPT !.pc = "idle"]
  BY DEF BulkDeleteRange
<1>2. UNCHANGED <<docs, values, free, sources, inserter, replica>>
  BY <1>1 DEF database
<1>3. /\ vacuum' \in Vacuum
      /\ vacuum'.min = vacuum.min /\ vacuum'.max = vacuum.max
      /\ {vacuum.min, vacuum.max} \subseteq Live => vacuum'.pc = "values" /\ vacuum'.next = vacuum.min
      /\ ~({vacuum.min, vacuum.max} \subseteq Live) => vacuum'.pc = "idle"
  BY <1>1 DEF Inv, Types, Vacuum
<1>4. Types'
  BY <1>1, <1>3, VacuumTypes DEF Inv
<1>5. VacuumFits'
  BY <1>3 DEF VacuumFits
<1>6. NoneIsLost'
  <2>1. ASSUME NEW id, id \in Live, ~Referenced(id), ~InHand(id)
        PROVE  YetToCome(id)'
    <3>1. vacuum.min <= id /\ id <= vacuum.max
      BY <1>1, <2>1 DEF Inv, NoneIsLost, YetToCome
    <3>2. id \in Nat /\ id >= 1
      BY <2>1, LiveAreIDs DEF Inv, ID
    <3>3. ~(vacuum.min = None /\ vacuum.max = None)
      BY <3>1, <3>2 DEF None
    <3>4. {vacuum.min, vacuum.max} \subseteq Live
      BY <1>1, <3>3 DEF Inv, VacuumFits
    <3> QED
      BY <1>3, <3>1, <3>4 DEF YetToCome
  <2> QED
    BY <1>2, <2>1, Frame DEF NoneIsLost
<1> QED
  BY <1>2, <1>4, <1>5, <1>6, Frame DEF Inv

LEMMA BulkDeleteCheckKeeps ==
  ASSUME Inv, BulkDeleteCheck
  PROVE  Inv'
<1> DEFINE unused == vacuum.next \in Live /\ ~Referenced(vacuum.next)
<1>1. /\ UNCHANGED <<docs, database, inserter, dead>>
      /\ vacuum.pc = "values" /\ vacuum.next <= vacuum.max
      /\ vacuum' = IF unused THEN [vacuum EXCEPT !.pc = "delete"] ELSE [vacuum EXCEPT !.next = @ + 1]
  BY DEF BulkDeleteCheck
<1>2. UNCHANGED <<docs, values, free, sources, inserter, replica>>
  BY <1>1 DEF database
<1>3. /\ vacuum' \in Vacuum
      /\ vacuum'.max = vacuum.max
      /\ unused => vacuum'.pc = "delete" /\ vacuum'.next = vacuum.next
      /\ ~unused => vacuum'.pc = "values" /\ vacuum'.next = vacuum.next + 1
  <2>1. vacuum \in Vacuum /\ vacuum.next \in Nat
    BY VacuumIs DEF Inv, Types
  <2> HIDE DEF unused
  <2>2. CASE unused
    <3>1. vacuum' = [vacuum EXCEPT !.pc = "delete"]
      BY <1>1, <2>2
    <3> QED
      BY <2>1, <2>2, <3>1 DEF Vacuum
  <2>3. CASE ~unused
    <3>1. vacuum' = [vacuum EXCEPT !.next = @ + 1]
      BY <1>1, <2>3
    <3> QED
      BY <1>1, <2>1, <2>3, <3>1 DEF Vacuum
  <2> QED
    BY <2>2, <2>3
<1>4. Types'
  BY <1>1, <1>3, VacuumTypes DEF Inv
<1>5. VacuumFits'
  BY <1>2, <1>3, Frame DEF VacuumFits
<1>6. NoneIsLost'
  <2>1. ASSUME NEW id, id \in Live, ~Referenced(id), ~InHand(id)
        PROVE  YetToCome(id)'
    <3>1. vacuum.next <= id /\ id <= vacuum.max
      BY <1>1, <2>1 DEF Inv, NoneIsLost, YetToCome
    <3>2. id \in Nat /\ vacuum.next \in Nat
      BY <2>1, LiveAreIDs, VacuumIs DEF Inv, ID
    <3>3. CASE unused
      BY <1>3, <3>1, <3>3 DEF YetToCome
    <3>4. CASE ~unused
      <4>1. id # vacuum.next
        BY <2>1, <3>4
      <4>2. vacuum.next + 1 <= id
        BY <3>1, <3>2, <4>1
      <4> QED
        BY <1>3, <3>1, <3>4, <4>2 DEF YetToCome
    <3> QED
      BY <3>3, <3>4
  <2> QED
    BY <1>2, <2>1, Frame DEF NoneIsLost
<1> QED
  BY <1>2, <1>4, <1>5, <1>6, Frame DEF Inv

LEMMA BulkDeleteFinKeeps ==
  ASSUME Inv, BulkDeleteFin
  PROVE  Inv'
<1>1. /\ UNCHANGED <<docs, database, inserter, dead>>
      /\ vacuum.pc = "values" /\ vacuum.next > vacuum.max
      /\ vacuum' = [vacuum EXCEPT !.pc = "idle"]
  BY DEF BulkDeleteFin
<1>2. UNCHANGED <<docs, values, free, sources, inserter, replica>>
  BY <1>1 DEF database
<1>3. vacuum' \in Vacuum /\ vacuum'.pc = "idle"
  BY <1>1 DEF Inv, Types, Vacuum
<1>4. Types'
  BY <1>1, <1>3, VacuumTypes DEF Inv
<1>5. VacuumFits'
  BY <1>3 DEF VacuumFits
<1>6. NoneIsLost'
  <2>1. ASSUME NEW id, id \in Live
        PROVE  Referenced(id) \/ InHand(id)
    <3>1. id \in Nat /\ vacuum.next \in Nat /\ vacuum.max \in Nat
      BY <2>1, LiveAreIDs, VacuumIs DEF Inv, ID
    <3> QED
      BY <1>1, <2>1, <3>1 DEF Inv, NoneIsLost, YetToCome
  <2> QED
    BY <1>2, <2>1, Frame DEF NoneIsLost
<1> QED
  BY <1>2, <1>4, <1>5, <1>6, Frame DEF Inv

\* The smallest and the biggest ID of what is deleted: they are IDs of it, or
\* those of before, and everything lies between them.
Between(v, id) == v.min <= id /\ id <= v.max
Bounds(v, S) ==
  /\ v \in Vacuum
  /\ v.pc = "rows"
  /\ (v.min = None /\ v.max = None) \/ {v.min, v.max} \subseteq S

LEMMA UpdateDeletedIDFits ==
  ASSUME NEW S \in SUBSET ID, NEW v, Bounds(v, S), NEW id \in S
  PROVE  LET next == UpdateDeletedID(v, id)
         IN /\ Bounds(next, S)
            /\ next.targets = v.targets
            /\ Between(next, id)
            /\ \A other \in ID : Between(v, other) => Between(next, other)
<1> DEFINE next == UpdateDeletedID(v, id)
           min == IF v.min = None \/ v.min > id THEN id ELSE v.min
           max == IF v.max = None \/ v.max < id THEN id ELSE v.max
<1>1. v \in Vacuum /\ v.min \in Nat /\ v.max \in Nat /\ id \in Nat /\ id >= 1
  BY DEF Bounds, Vacuum, ID
<1>2. next = [v EXCEPT !.min = min, !.max = max]
  BY <1>1 DEF UpdateDeletedID, Vacuum
<1>3. min \in Nat /\ max \in Nat
  BY <1>1
<1>4. {min, max} \subseteq S
  BY <1>1 DEF Bounds, None
<1>5. min <= id /\ id <= max
  BY <1>1 DEF None
<1>6. ASSUME NEW other \in ID, Between(v, other)
      PROVE  min <= other /\ other <= max
  <2>1. other \in Nat /\ other >= 1 /\ v.min <= other /\ other <= v.max
    BY <1>6 DEF ID, Between
  <2>2. v.max # None /\ v.min # None
    <3>1. v.max # None
      BY <1>1, <2>1 DEF None
    <3>2. v.min \in ID
      BY <3>1 DEF Bounds
    <3> QED
      BY <3>1, <3>2 DEF ID, None
  <2> QED
    BY <1>1, <2>1, <2>2
<1> HIDE DEF min, max
<1>7. next \in Vacuum /\ next.pc = v.pc /\ next.targets = v.targets /\ next.min = min /\ next.max = max
  BY <1>1, <1>2, <1>3 DEF Vacuum
<1> HIDE DEF next
<1>8. Bounds(next, S)
  BY <1>4, <1>7 DEF Bounds
<1>9. Between(next, id) /\ \A other \in ID : Between(v, other) => Between(next, other)
  BY <1>5, <1>6, <1>7 DEF Between
<1> QED
  BY <1>7, <1>8, <1>9 DEF next

LEMMA UpdateDeletedIDsFit ==
  ASSUME NEW S \in SUBSET ID, NEW v, Bounds(v, S), NEW ids \in Seq(S)
  PROVE  LET next == FoldLeft(UpdateDeletedID, v, ids)
         IN /\ Bounds(next, S)
            /\ next.targets = v.targets
            /\ \A id \in ID : Between(v, id) \/ id \in ToSet(ids) => Between(next, id)
<1> DEFINE n == Len(ids)
<1>1. n \in Nat /\ DOMAIN ids = 1..n /\ \A i \in 1..n : ids[i] \in S
  OBVIOUS
<1> HIDE DEF n
<1>2. PICK run : /\ run[0] = v
                 /\ \A i \in 1..n : run[i] = UpdateDeletedID(run[i - 1], ids[i])
                 /\ run[n] = FoldLeft(UpdateDeletedID, v, ids)
  BY <1>1, UpdateDeletedIDRuns, ZenonT(30)
<1> DEFINE Fit(i) == /\ Bounds(run[i], S)
                     /\ run[i].targets = v.targets
                     /\ \A id \in ID : Between(v, id) => Between(run[i], id)
                     /\ \A k \in 1..i : Between(run[i], ids[k])
           T == {i \in 0..n : Fit(i)}
<1>3. 0 \in T
  <2>1. 0 \in 0..n /\ 1..0 = {}
    BY <1>1
  <2> QED
    BY <1>2, <2>1
<1>4. ASSUME NEW i \in 0..n - 1, i \in T
      PROVE  i + 1 \in T
  <2>1. i + 1 \in 1..n /\ (i + 1) - 1 = i /\ i + 1 \in 0..n /\ i \in Nat
    BY <1>1
  <2> DEFINE now == run[i]
             next == run[i + 1]
             id == ids[i + 1]
  <2>2. next = UpdateDeletedID(now, id) /\ id \in S
    BY <1>1, <1>2, <2>1
  <2>3. /\ Bounds(now, S)
        /\ now.targets = v.targets
        /\ \A other \in ID : Between(v, other) => Between(now, other)
        /\ \A k \in 1..i : Between(now, ids[k])
    BY <1>4
  <2> HIDE DEF now, next, id
  <2>4. /\ Bounds(next, S)
        /\ next.targets = now.targets
        /\ Between(next, id)
        /\ \A other \in ID : Between(now, other) => Between(next, other)
    BY <2>2, <2>3, UpdateDeletedIDFits
  <2>5. ASSUME NEW k \in 1..i + 1
        PROVE  Between(next, ids[k])
    <3>1. k = i + 1 \/ k \in 1..i
      BY <2>1
    <3>2. k \in 1..n /\ ids[k] \in ID
      BY <1>1, <2>1
    <3> QED
      BY <2>3, <2>4, <3>1, <3>2 DEF id
  <2>6. \A other \in ID : Between(v, other) => Between(next, other)
    BY <2>3, <2>4
  <2> QED
    BY <2>1, <2>3, <2>4, <2>5, <2>6 DEF next, id
<1> HIDE DEF T
<1>5. n \in T
  BY <1>1, <1>3, <1>4, Along
<1>6. Fit(n)
  BY <1>5 DEF T
<1>7. \A id \in ToSet(ids) : \E k \in 1..n : id = ids[k]
  BY <1>1 DEF ToSet
<1> QED
  BY <1>2, <1>6, <1>7

LEMMA BulkDeleteRecordKeeps ==
  ASSUME Inv, BulkDeleteRecord
  PROVE  Inv'
<1>1. PICK r \in vacuum.targets \cap DOMAIN sources :
        /\ vacuum' = FoldLeft(UpdateDeletedID, [vacuum EXCEPT !.targets = @ \ {r}], sources[r])
        /\ sources' = Without(sources, r)
        /\ replica' = [replica EXCEPT !.sources = Without(@, r)]
  BY DEF BulkDeleteRecord
<1>2. vacuum.pc = "rows" /\ UNCHANGED <<docs, values, free, inserter, dead>>
  BY DEF BulkDeleteRecord
<1>3. Types /\ RowsFit /\ Live' = Live /\ Rows' = Rows /\ Live \in SUBSET ID
  BY <1>2, LiveAreIDs DEF Inv, Live, Rows
<1>4. /\ DOMAIN sources' = DOMAIN sources \ {r}
      /\ \A s \in DOMAIN sources' : sources'[s] = sources[s]
  BY <1>1 DEF Without
<1>5. /\ DOMAIN replica' = {"values", "sources"}
      /\ replica'.values = replica.values
      /\ replica'.sources = Without(replica.sources, r)
  BY <1>1 DEF Inv, Types
<1> DEFINE start == [vacuum EXCEPT !.targets = @ \ {r}]
<1>6. Bounds(start, Live) /\ start.targets = vacuum.targets \ {r} /\ start.min = vacuum.min /\ start.max = vacuum.max
  <2>1. /\ start \in Vacuum /\ start.pc = "rows" /\ start.targets = vacuum.targets \ {r}
        /\ start.min = vacuum.min /\ start.max = vacuum.max
    BY <1>2, <1>3 DEF Types, Vacuum
  <2> HIDE DEF start
  <2> QED
    BY <1>2, <2>1 DEF Inv, VacuumFits, Bounds
<1>7. sources[r] \in Seq(Live)
  <2> DEFINE ids == sources[r]
  <2>1. ids \in Seq(ID) /\ \A i \in 1..Len(ids) : ids[i] \in Live
    BY <1>1, <1>3 DEF Types, RowsFit, Have
  <2> QED
    BY <2>1
<1> HIDE DEF start
<1>8. /\ Bounds(vacuum', Live)
      /\ \A id \in ID : Between(start, id) \/ id \in ToSet(sources[r]) => Between(vacuum', id)
  BY <1>1, <1>3, <1>6, <1>7, UpdateDeletedIDsFit DEF start
<1>9. Types'
  <2>1. vacuum' \in Vacuum
    BY <1>8 DEF Bounds
  <2> QED
    BY <1>2, <1>3, <1>4, <1>5, <2>1 DEF Types, Rows, Inserter, Vacuum
<1>10. FreeIDs' /\ OneValueOfKey'
  BY <1>2, <1>3 DEF Inv, FreeIDs, OneValueOfKey
<1>11. Insertions'
  BY <1>2, <1>3 DEF Inv, Insertions, Inserting, Have, Calls
<1>12. OneSets'
  BY <1>2, <1>3 DEF Inv, OneSets, Sets
<1>13. ValuesFit'
  BY <1>2, <1>3, <1>5 DEF Inv, ValuesFit, ValueFits, Sets
<1>14. RowsFit'
  BY <1>2, <1>3, <1>4 DEF RowsFit, Have, Calls
<1>15. ReplicaFits'
  <2>1. \A key \in DOMAIN replica'.values : ReplicaHas(key)'
    BY <1>2, <1>3, <1>5 DEF Inv, ReplicaFits, ReplicaHas
  <2>2. DOMAIN replica'.sources = DOMAIN sources'
    BY <1>4, <1>5 DEF Inv, ReplicaFits, Without
  <2>3. ASSUME NEW s \in DOMAIN sources'
        PROVE  replica'.sources[s] = [i \in 1..Len(sources'[s]) |-> ValueKey(Calls(docs, s)'[i])]
    <3>1. s \in DOMAIN sources /\ s # r /\ sources'[s] = sources[s] /\ Calls(docs, s)' = Calls(docs, s)
      BY <1>2, <1>4 DEF Calls
    <3>2. replica'.sources[s] = replica.sources[s]
      BY <1>5, <3>1 DEF Without, Inv, ReplicaFits
    <3>3. replica.sources[s] = [i \in 1..Len(sources[s]) |-> ValueKey(Calls(docs, s)[i])]
      BY <3>1 DEF Inv, ReplicaFits
    <3> QED
      BY <3>1, <3>2, <3>3
  <2> QED
    BY <2>1, <2>2, <2>3 DEF ReplicaFits
<1>16. VacuumFits'
  BY <1>3, <1>8 DEF VacuumFits, Bounds
<1>17. NoneIsLost'
  <2>1. ASSUME NEW id \in Live
        PROVE  Referenced(id)' \/ InHand(id)' \/ YetToCome(id)'
    <3>1. id \in ID
      BY <1>3
    <3>2. CASE Referenced(id)
      <4>1. PICK s \in DOMAIN sources : id \in ToSet(sources[s])
        BY <3>2 DEF Referenced
      <4>2. CASE s = r
        BY <1>8, <3>1, <4>1, <4>2 DEF Between, YetToCome, Bounds
      <4>3. CASE s # r
        BY <1>4, <4>1, <4>3 DEF Referenced
      <4> QED
        BY <4>2, <4>3
    <3>3. CASE InHand(id)
      BY <1>2, <1>3, <3>3 DEF InHand
    <3>4. CASE YetToCome(id)
      <4>1. Between(start, id)
        BY <1>2, <1>6, <3>4 DEF YetToCome, Between
      <4> QED
        BY <1>8, <3>1, <4>1 DEF Between, YetToCome, Bounds
    <3> QED
      BY <3>2, <3>3, <3>4 DEF Inv, NoneIsLost
  <2> QED
    BY <1>3, <2>1 DEF NoneIsLost
<1> QED
  BY <1>9, <1>10, <1>11, <1>12, <1>13, <1>14, <1>15, <1>16, <1>17 DEF Inv

LEMMA BulkDeleteValueKeeps ==
  ASSUME Inv, BulkDeleteValue, spoilt' = {}
  PROVE  Inv'
<1> DEFINE id == vacuum.next
           gone == [live |-> FALSE, key |-> NoKey, row |-> Bare]
           key == values[id].key
<1>1. /\ vacuum.pc = "delete"
      /\ values' = [values EXCEPT ![id] = gone]
      /\ free' = Append(free, id)
      /\ replica' = [replica EXCEPT !.values = Without(@, key)]
      /\ vacuum' = [vacuum EXCEPT !.pc = "values", !.next = @ + 1]
      /\ UNCHANGED <<docs, sources, inserter, dead>>
  BY DEF BulkDeleteValue
<1>2. ~Referenced(id) /\ \A r \in Rows : Busy(r) => id \notin ToSet(inserter[r].ids)
  BY DEF BulkDeleteValue
<1>3. Types /\ id \in Live /\ Rows' = Rows
  BY <1>1 DEF Inv, VacuumFits, Rows
<1>4. id \in ID /\ id \in DOMAIN values /\ DOMAIN values = 1..Len(values) /\ Len(values) \in Nat
  BY <1>3, LiveAreIDs DEF Live
<1> HIDE DEF id
<1>5. gone \in Value(docs) /\ gone.live = FALSE /\ gone.row = Bare
  BY DEF Value, Record
<1> HIDE DEF gone
<1>6. values \in Seq(Value(docs))
  BY <1>3 DEF Types
<1>7. /\ values' \in Seq(Value(docs))
      /\ DOMAIN values' = DOMAIN values
      /\ values'[id] = gone
      /\ \A other \in DOMAIN values : other # id => values'[other] = values[other]
  BY <1>1, <1>4, <1>5, <1>6
<1>8. Live' = Live \ {id}
  BY <1>5, <1>7 DEF Live
<1>9. \A other \in Live' : other \in Live /\ other # id /\ other \in DOMAIN values /\ values'[other] = values[other]
  BY <1>7, <1>8 DEF Live
<1>10. /\ DOMAIN replica' = {"values", "sources"}
       /\ replica'.sources = replica.sources
       /\ replica'.values = Without(replica.values, key)
  BY <1>1, <1>3 DEF Types
<1>11. /\ DOMAIN replica'.values = DOMAIN replica.values \ {key}
       /\ \A k \in DOMAIN replica'.values : replica'.values[k] = replica.values[k]
  BY <1>10 DEF Without
<1>12. \A other \in Live' : values[other].key # key
  BY <1>3, <1>9 DEF Inv, OneValueOfKey
<1>13. ASSUME NEW ids \in Seq(ID), NEW calls, Have(ids, calls), id \notin ToSet(ids)
       PROVE  Have(ids, calls)'
  <2>1. ASSUME NEW i \in 1..Len(ids)
        PROVE  ids[i] \in Live' /\ values'[ids[i]] = values[ids[i]]
    <3>1. ids[i] # id
      BY <1>13 DEF ToSet
    <3>2. ids[i] \in Live
      BY <1>13 DEF Have
    <3> QED
      BY <1>8, <1>9, <3>1, <3>2
  <2> QED
    BY <1>13, <2>1 DEF Have
<1>14. Types'
  <2>1. vacuum' \in Vacuum
    <3>1. vacuum' = [vacuum EXCEPT !.pc = "values", !.next = vacuum.next + 1] /\ vacuum \in Vacuum
      BY <1>1, <1>3 DEF Types
    <3>2. vacuum.next + 1 \in Nat
      BY <1>3, VacuumIs
    <3> QED
      BY <3>1, <3>2 DEF Vacuum
  <2>2. free' \in Seq(ID)
    BY <1>1, <1>3, <1>4 DEF Types
  <2> QED
    BY <1>1, <1>3, <1>7, <1>10, <2>1, <2>2 DEF Types, Rows, Inserter, Vacuum
<1>15. FreeIDs'
  <2>1. free \in Seq(ID)
    BY <1>3 DEF Types
  <2>2. /\ Len(free') = Len(free) + 1 /\ Len(free) \in Nat
        /\ free'[Len(free) + 1] = id
        /\ \A i \in 1..Len(free) : free'[i] = free[i]
    BY <1>1, <1>4, <2>1, AppendIs
  <2>3. \A i \in 1..Len(free') : i \in 1..Len(free) \/ i = Len(free) + 1
    BY <2>2
  <2>4. \A i \in 1..Len(free) : free[i] \in DOMAIN values \ Live
    BY DEF Inv, FreeIDs
  <2>5. \A i \in 1..Len(free') : free'[i] \in DOMAIN values' \ Live'
    BY <1>4, <1>7, <1>8, <2>2, <2>3, <2>4
  <2>6. \A i, j \in 1..Len(free) : free[i] = free[j] => i = j
    BY DEF Inv, FreeIDs
  <2>7. \A i, j \in 1..Len(free') : free'[i] = free'[j] => i = j
    BY <1>3, <2>2, <2>3, <2>4, <2>6
  <2>8. \A other \in DOMAIN values' \ Live' : values'[other].row = Bare
    BY <1>5, <1>7, <1>8 DEF Inv, FreeIDs
  <2> QED
    BY <2>5, <2>7, <2>8 DEF FreeIDs
<1>16. OneValueOfKey'
  BY <1>9 DEF Inv, OneValueOfKey
<1>17. Insertions'
  <2>1. ASSUME NEW r \in Rows
        PROVE  Inserting(r)'
    <3>1. inserter[r].ids \in Seq(ID) /\ Calls(docs, r)' = Calls(docs, r) /\ inserter'[r] = inserter[r]
      BY <1>1, <1>3, InserterIs DEF Calls
    <3>2. Inserting(r)
      BY DEF Inv, Insertions
    <3>3. ASSUME inserter[r].pc \in {"values", "columns"}
          PROVE  Have(inserter[r].ids, Calls(docs, r))'
      <4>1. Have(inserter[r].ids, Calls(docs, r))
        BY <3>2, <3>3 DEF Inserting
      <4>2. id \notin ToSet(inserter[r].ids)
        <5>1. CASE inserter[r].ids = <<>>
          BY <5>1 DEF ToSet
        <5>2. CASE inserter[r].ids # <<>>
          BY <1>2, <3>3, <5>2 DEF Busy
        <5> QED
          BY <5>1, <5>2
      <4>3. Have(inserter[r].ids, Calls(docs, r)) => Have(inserter[r].ids, Calls(docs, r))'
        <5> DEFINE ids == inserter[r].ids
                   calls == Calls(docs, r)
        <5>1. ids' = ids /\ calls' = calls /\ ids \in Seq(ID) /\ id \notin ToSet(ids)
          BY <3>1, <4>2
        <5> HIDE DEF ids, calls
        <5>2. Have(ids, calls) => \A i \in 1..Len(ids) : ids[i] \in Live' /\ values'[ids[i]].key = ValueKey(calls[i])
          BY <1>13, <5>1 DEF Have
        <5>3. Have(ids, calls) => Have(ids, calls)'
          BY <5>1, <5>2 DEF Have
        <5> QED
          BY <5>3 DEF ids, calls
      <4> QED
        BY <4>1, <4>3
    <3> QED
      BY <3>1, <3>2, <3>3 DEF Inserting
  <2> QED
    BY <1>3, <2>1 DEF Insertions
<1>18. OneSets'
  BY <1>1, <1>3 DEF Inv, OneSets, Sets
<1>19. ValuesFit'
  <2>1. ASSUME NEW other \in Live'
        PROVE  ValueFits(other)'
    <3>1. ValueFits(other) /\ values'[other] = values[other] /\ values[other].key # key
      BY <1>9, <1>12 DEF Inv, ValuesFit
    <3>2. (\E r \in Rows : Sets(r, other))' <=> \E r \in Rows : Sets(r, other)
      BY <1>1, <1>3 DEF Sets
    <3> QED
      BY <1>1, <1>11, <3>1, <3>2 DEF ValueFits
  <2> QED
    BY <2>1 DEF ValuesFit
<1>20. RowsFit'
  <2>1. ASSUME NEW r \in DOMAIN sources
        PROVE  Have(sources[r], Calls(docs, r))'
    <3> DEFINE ids == sources[r]
               calls == Calls(docs, r)
    <3>1. ids' = ids /\ calls' = calls /\ ids \in Seq(ID) /\ Have(ids, calls)
      BY <1>1, <1>3 DEF Calls, Types, Inv, RowsFit
    <3>2. id \notin ToSet(ids)
      BY <1>2 DEF Referenced
    <3> HIDE DEF ids, calls
    <3>3. \A i \in 1..Len(ids) : ids[i] \in Live' /\ values'[ids[i]].key = ValueKey(calls[i])
      BY <1>13, <3>1, <3>2 DEF Have
    <3>4. Have(ids, calls)'
      BY <3>1, <3>3 DEF Have
    <3> QED
      BY <3>4 DEF ids, calls
  <2> QED
    BY <1>1, <2>1 DEF Inv, RowsFit, Calls
<1>21. ReplicaFits'
  <2>1. ASSUME NEW k \in DOMAIN replica'.values
        PROVE  ReplicaHas(k)'
    <3>1. k \in DOMAIN replica.values /\ k # key /\ replica'.values[k] = replica.values[k]
      BY <1>11
    <3>2. PICK other \in Live : values[other].key = k /\ values[other].row = replica.values[k]
      BY <3>1 DEF Inv, ReplicaFits, ReplicaHas
    <3>3. other \in Live' /\ values'[other] = values[other]
      BY <1>8, <1>9, <3>1, <3>2
    <3> QED
      BY <3>1, <3>2, <3>3 DEF ReplicaHas
  <2> QED
    BY <1>1, <1>10, <2>1 DEF Inv, ReplicaFits, Calls
<1>22. vacuum'.pc = "values" /\ vacuum'.next = id + 1 /\ vacuum'.max = vacuum.max
  BY <1>1, <1>3, VacuumIs DEF id
<1>23. VacuumFits'
  BY <1>22 DEF VacuumFits
<1>24. NoneIsLost'
  <2>1. ASSUME NEW other \in Live'
        PROVE  Referenced(other)' \/ InHand(other)' \/ YetToCome(other)'
    <3>1. other \in Live /\ other # id /\ other \in ID
      BY <1>3, <1>9, LiveAreIDs
    <3>2. CASE Referenced(other)
      BY <1>1, <3>2 DEF Referenced
    <3>3. CASE InHand(other)
      BY <1>1, <1>3, <3>3 DEF InHand
    <3>4. CASE YetToCome(other)
      <4>1. id <= other /\ other <= vacuum.max
        BY <1>1, <3>4 DEF YetToCome, id
      <4>2. id + 1 <= other
        BY <1>4, <3>1, <4>1 DEF ID
      <4> QED
        BY <1>22, <4>1, <4>2 DEF YetToCome
    <3> QED
      BY <3>1, <3>2, <3>3, <3>4 DEF Inv, NoneIsLost
  <2> QED
    BY <2>1 DEF NoneIsLost
<1> QED
  BY <1>14, <1>15, <1>16, <1>17, <1>18, <1>19, <1>20, <1>21, <1>23, <1>24 DEF Inv

-----------------------------------------------------------------------------
(* Insertions.                                                             *)

\* What the insertion of another document has in hand.
LEMMA OthersKeep ==
  ASSUME Inv, NEW r \in Rows, inserter[r].pc # "done", UNCHANGED docs,
         \A s \in Rows : s # r => inserter'[s] = inserter[s],
         \A id \in Live : id \in Live' /\ values'[id].key = values[id].key
  PROVE  /\ Rows' = Rows
         /\ \A s \in Rows : Calls(docs, s)' = Calls(docs, s)
         /\ \A s \in Rows : s # r => Inserting(s)'
         /\ \A s \in DOMAIN sources : /\ s # r
                                      /\ inserter'[s].pc = "done"
                                      /\ Len(sources[s]) = Len(Calls(docs, s))
                                      /\ \A i \in 1..Len(sources[s]) :
                                           /\ sources[s][i] \in Live'
                                           /\ values'[sources[s][i]].key = ValueKey(Calls(docs, s)[i])
<1>1. Rows' = Rows /\ \A s \in Rows : Calls(docs, s)' = Calls(docs, s)
  BY DEF Rows, Calls
<1>2. ASSUME NEW s \in Rows, s # r
      PROVE  Inserting(s)'
  <2>1. inserter'[s] = inserter[s] /\ Calls(docs, s)' = Calls(docs, s)
    BY <1>1, <1>2
  <2>2. Inserting(s)
    BY DEF Inv, Insertions
  <2>3. inserter[s].pc \in {"values", "columns"} =>
          \A i \in 1..Len(inserter[s].ids) :
            inserter[s].ids[i] \in Live' /\ values'[inserter[s].ids[i]].key = ValueKey(Calls(docs, s)[i])
    BY <2>2 DEF Inserting, Have
  <2> QED
    BY <2>1, <2>2, <2>3 DEF Inserting, Have
<1>3. ASSUME NEW s \in DOMAIN sources
      PROVE  /\ s # r /\ s \in Rows
             /\ inserter'[s].pc = "done"
             /\ Len(sources[s]) = Len(Calls(docs, s))
             /\ \A i \in 1..Len(sources[s]) :
                  sources[s][i] \in Live' /\ values'[sources[s][i]].key = ValueKey(Calls(docs, s)[i])
  BY <1>3 DEF Inv, Types, RowsFit, Have
<1> QED
  BY <1>1, <1>2, <1>3

\* The next call of an insertion, and its key.
LEMMA NextCall ==
  ASSUME Inv, NEW r \in Rows, inserter[r].pc = "values", inserter[r].calls # <<>>
  PROVE  LET n == Len(inserter[r].ids)
             call == Head(inserter[r].calls)
         IN /\ n \in Nat /\ n + 1 \in 1..Len(Calls(docs, r))
            /\ call = Calls(docs, r)[n + 1]
            /\ call \in AllCalls(docs)
            /\ Rest(Calls(docs, r), n + 1, Tail(inserter[r].calls))
            /\ Tail(inserter[r].calls) \in Seq(AllCalls(docs))
            /\ Have(inserter[r].ids, Calls(docs, r))
            /\ Rest(Calls(docs, r), n, inserter[r].calls)
<1> DEFINE calls == Calls(docs, r)
           rest == inserter[r].calls
           n == Len(inserter[r].ids)
<1>1. calls \in Seq(AllCalls(docs)) /\ \A i \in 1..Len(calls) : calls[i] \in AllCalls(docs)
  BY CallsType DEF Inv
<1>2. rest \in Seq(AllCalls(docs)) /\ n \in Nat
  BY InserterIs DEF Inv
<1>3. Rest(calls, n, rest) /\ Have(inserter[r].ids, calls)
  BY DEF Inv, Insertions, Inserting
<1> HIDE DEF calls, rest, n
<1>4. rest # <<>>
  BY DEF rest
<1>5. /\ Rest(calls, n + 1, Tail(rest))
      /\ Tail(rest) \in Seq(AllCalls(docs))
      /\ Head(rest) = calls[n + 1]
      /\ n + 1 \in 1..Len(calls)
  BY <1>1, <1>2, <1>3, <1>4, RestOfTail
<1>6. Head(rest) \in AllCalls(docs)
  BY <1>1, <1>5
<1> QED
  BY <1>2, <1>3, <1>5, <1>6 DEF calls, rest, n

\* A value that is found.
LEMMA FoundKeeps ==
  ASSUME Inv, NEW r \in Rows, inserter[r].pc = "values", inserter[r].calls # <<>>,
         NEW id \in IDsOf(ValueKey(Head(inserter[r].calls))),
         NEW next, inserter' = [inserter EXCEPT ![r] = next],
         next = [pc |-> "values", calls |-> Tail(inserter[r].calls), ids |-> Append(inserter[r].ids, id)],
         UNCHANGED <<docs, database, dead, vacuum>>
  PROVE  Inv'
<1> DEFINE ids == inserter[r].ids
           rest == Tail(inserter[r].calls)
           n == Len(inserter[r].ids)
           call == Head(inserter[r].calls)
           calls == Calls(docs, r)
           more == Append(ids, id)
<1>1. UNCHANGED <<docs, values, free, sources, replica, dead, vacuum>> /\ Live' = Live
  BY DEF database, Live
<1>2. /\ Types
      /\ ids \in Seq(ID) /\ n \in Nat /\ n = Len(ids)
      /\ id \in Live /\ id \in ID /\ values[id].key = ValueKey(call)
  BY InserterIs, LiveAreIDs DEF Inv, IDsOf
<1>3. /\ call = calls[n + 1]
      /\ Rest(calls, n + 1, rest)
      /\ rest \in Seq(AllCalls(docs))
      /\ Have(ids, calls)
  BY NextCall
<1>4. next.pc = "values" /\ next.calls = rest /\ next.ids = more /\ next = [pc |-> next.pc, calls |-> next.calls, ids |-> next.ids]
  OBVIOUS
<1> HIDE DEF ids, rest, n, call, more
<1>5. more \in Seq(ID) /\ Len(more) = n + 1 /\ ToSet(more) = ToSet(ids) \cup {id}
  BY <1>2, AppendIs DEF more
<1>6. /\ inserter' \in [Rows -> Inserter(docs)]
      /\ inserter'[r] = next
      /\ \A s \in Rows : s # r => inserter'[s] = inserter[s]
  BY <1>2, <1>3, <1>4, <1>5, InserterStep
<1>7. /\ Rows' = Rows
      /\ \A s \in Rows : Calls(docs, s)' = Calls(docs, s)
      /\ \A s \in Rows : s # r => Inserting(s)'
  BY <1>1, <1>6, OthersKeep
<1>8. \A i \in 1..Len(more) : more[i] \in Live' /\ values'[more[i]].key = ValueKey(calls[i])
  <2>1. \A i \in 1..Len(ids) : ids[i] \in Live' /\ values'[ids[i]].key = ValueKey(calls[i])
    BY <1>1, <1>3 DEF Have
  <2>2. id \in Live' /\ values'[id].key = ValueKey(calls[Len(ids) + 1])
    BY <1>1, <1>2, <1>3
  <2> HIDE DEF calls
  <2> QED
    BY <1>2, <2>1, <2>2, HaveOneMore DEF more
<1>9. Types'
  BY <1>1, <1>2, <1>6, <1>7 DEF Types, Vacuum
<1>10. FreeIDs' /\ OneValueOfKey'
  BY <1>1 DEF Inv, FreeIDs, OneValueOfKey
<1>11. Insertions'
  <2>1. Inserting(r)'
    BY <1>3, <1>4, <1>5, <1>6, <1>7, <1>8 DEF Inserting, Have
  <2> QED
    BY <1>7, <2>1 DEF Insertions
<1>12. \A s \in Rows : \A other : Sets(s, other)' <=> Sets(s, other)
  BY <1>4, <1>6 DEF Sets
<1>13. OneSets'
  <2>1. \A s \in Rows : inserter'[s].pc = "columns" => inserter[s].pc = "columns" /\ inserter'[s] = inserter[s]
    BY <1>4, <1>6
  <2> QED
    BY <1>7, <1>12, <2>1 DEF Inv, OneSets
<1>14. ValuesFit'
  BY <1>1, <1>7, <1>12 DEF Inv, ValuesFit, ValueFits
<1>15. RowsFit'
  <2>1. \A s \in DOMAIN sources : s \in Rows /\ s # r
    BY <1>2 DEF Types, Inv, RowsFit
  <2> QED
    BY <1>1, <1>6, <1>7, <2>1 DEF Inv, RowsFit, Have
<1>16. ReplicaFits'
  <2>1. \A s \in DOMAIN sources : s \in Rows
    BY <1>2 DEF Types
  <2> QED
    BY <1>1, <1>7, <2>1 DEF Inv, ReplicaFits, ReplicaHas
<1>17. VacuumFits'
  BY <1>1 DEF Inv, VacuumFits
<1>18. NoneIsLost'
  <2>1. ASSUME NEW other, InHand(other)
        PROVE  InHand(other)'
    <3>1. PICK s \in Rows : inserter[s].pc # "done" /\ other \in ToSet(inserter[s].ids)
      BY <2>1 DEF InHand
    <3>2. inserter'[s].pc # "done" /\ other \in ToSet(inserter'[s].ids)
      <4>1. CASE s = r
        BY <1>4, <1>5, <1>6, <3>1, <4>1 DEF ids
      <4>2. CASE s # r
        BY <1>6, <3>1, <4>2
      <4> QED
        BY <4>1, <4>2
    <3> QED
      BY <1>7, <3>2 DEF InHand
  <2> QED
    BY <1>1, <2>1 DEF Inv, NoneIsLost, Referenced, YetToCome
<1> QED
  BY <1>9, <1>10, <1>11, <1>13, <1>14, <1>15, <1>16, <1>17, <1>18 DEF Inv

\* A new value is bare, and no other changes.
LEMMA AddKeyFits ==
  ASSUME Types, FreeIDs, NEW key \in Keys(docs), NEW id, id = NewID, AddKey(id, key)
  PROVE  /\ id \in ID /\ id \notin Live
         /\ Live' = Live \cup {id}
         /\ values' \in Seq(Value(docs))
         /\ values'[id].key = key /\ values'[id].row = Bare
         /\ \A other \in Live : values'[other] = values[other]
         /\ free' \in Seq(ID)
         /\ FreeIDs'
<1> DEFINE n == Len(values)
           new == [live |-> TRUE, key |-> key, row |-> Bare]
<1>1. values \in Seq(Value(docs)) /\ free \in Seq(ID) /\ DOMAIN values = 1..n /\ n \in Nat /\ Live \subseteq ID
  BY LiveAreIDs DEF Types
<1>2. new \in Value(docs) /\ new.live = TRUE /\ new.key = key /\ new.row = Bare
  BY DEF Value, Record
<1>3. /\ \A i \in 1..Len(free) : free[i] \in DOMAIN values \ Live
      /\ \A i, j \in 1..Len(free) : free[i] = free[j] => i = j
      /\ \A other \in DOMAIN values \ Live : values[other].row = Bare
  BY DEF FreeIDs
<1> HIDE DEF new
<1>4. CASE free = <<>>
  <2>1. id = n + 1 /\ id \notin DOMAIN values /\ free' = free
    BY <1>1, <1>4 DEF NewID, AddKey
  <2>2. values' = Append(values, new)
    BY <2>1 DEF AddKey, new
  <2>3. /\ values' \in Seq(Value(docs)) /\ DOMAIN values' = 1..n + 1
        /\ values'[n + 1] = new
        /\ \A other \in 1..n : values'[other] = values[other]
    BY <1>1, <1>2, <2>2
  <2>4. \A other \in 1..n + 1 : other \in 1..n \/ other = n + 1
    BY <1>1
  <2>5. Live' = Live \cup {id}
    BY <1>1, <1>2, <2>1, <2>3, <2>4 DEF Live
  <2>6. id \in ID /\ id \notin Live
    BY <1>1, <2>1 DEF ID, Live
  <2>7. \A other \in Live : values'[other] = values[other]
    BY <1>1, <2>3 DEF Live
  <2>8. \A i \in 1..Len(free') : FALSE
    BY <1>4, <2>1
  <2>9. \A other \in DOMAIN values' \ Live' : other \in DOMAIN values \ Live /\ values'[other] = values[other]
    BY <1>1, <2>1, <2>3, <2>4, <2>5
  <2>10. FreeIDs'
    BY <1>3, <2>8, <2>9 DEF FreeIDs
  <2> QED
    BY <1>1, <1>2, <2>1, <2>3, <2>5, <2>6, <2>7, <2>10
<1>5. CASE free # <<>>
  <2> DEFINE m == Len(free)
  <2>1. m \in 1..m /\ id = free[m] /\ id \in DOMAIN values \ Live /\ m \in Nat
    <3>1. m \in Nat /\ m # 0
      BY <1>1, <1>5
    <3>2. m \in 1..m /\ id = free[m]
      BY <1>5, <3>1 DEF NewID, Last
    <3> QED
      BY <1>3, <3>1, <3>2
  <2>2. values' = [values EXCEPT ![id] = new] /\ free' = Front(free)
    <3>1. values' = [values EXCEPT ![id] = [@ EXCEPT !.live = TRUE, !.key = key]] /\ free' = Front(free)
      BY <1>5, <2>1 DEF AddKey
    <3>2. values[id] \in Value(docs) /\ values[id].row = Bare
      BY <1>1, <1>3, <2>1
    <3>3. [values[id] EXCEPT !.live = TRUE, !.key = key] = new
      <4> DEFINE filled == [values[id] EXCEPT !.live = TRUE, !.key = key]
      <4>1. key \in Keys(docs) \cup {NoKey}
        OBVIOUS
      <4>2. filled \in Value(docs)
        BY <3>2, <4>1 DEF Value
      <4>3. filled.live = TRUE /\ filled.key = key /\ filled.row = Bare
        BY <3>2 DEF Value
      <4> HIDE DEF filled
      <4>4. filled = [live |-> filled.live, key |-> filled.key, row |-> filled.row]
        BY <4>2 DEF Value
      <4>5. filled = new
        BY <4>3, <4>4 DEF new
      <4> QED
        BY <4>5 DEF filled
    <3> QED
      BY <3>1, <3>3
  <2>3. /\ values' \in Seq(Value(docs)) /\ DOMAIN values' = DOMAIN values
        /\ values'[id] = new
        /\ \A other \in DOMAIN values : other # id => values'[other] = values[other]
    BY <1>1, <1>2, <2>1, <2>2
  <2>4. Live' = Live \cup {id}
    BY <1>2, <2>1, <2>3 DEF Live
  <2>5. id \in ID
    BY <1>1, <2>1 DEF ID
  <2>6. \A other \in Live : values'[other] = values[other]
    BY <2>1, <2>3 DEF Live
  <2>7. free' \in Seq(ID) /\ Len(free') = m - 1 /\ \A i \in 1..m - 1 : free'[i] = free[i]
    BY <1>1, <1>5, <2>2, FrontIs
  <2>8. \A i \in 1..m - 1 : i \in 1..m /\ i # m
    BY <2>1
  <2>9. \A i \in 1..m - 1 : free[i] # id /\ free[i] \in DOMAIN values \ Live
    BY <1>3, <2>1, <2>8
  <2> HIDE DEF m
  <2>10. \A i \in 1..Len(free') : free'[i] \in DOMAIN values' \ Live'
    BY <2>3, <2>4, <2>7, <2>9
  <2>11. \A i, j \in 1..Len(free') : free'[i] = free'[j] => i = j
    BY <1>3, <2>7, <2>8 DEF m
  <2>12. \A other \in DOMAIN values' \ Live' : values'[other].row = Bare
    BY <1>3, <2>3, <2>4
  <2>13. FreeIDs'
    BY <2>10, <2>11, <2>12 DEF FreeIDs
  <2> QED
    BY <1>2, <2>1, <2>3, <2>4, <2>5, <2>6, <2>7, <2>13
<1> QED
  BY <1>4, <1>5

\* A value that is added, for the columns to be set.
LEMMA AddedKeeps ==
  ASSUME Inv, NEW r \in Rows, inserter[r].pc = "values", inserter[r].calls # <<>>,
         IDsOf(ValueKey(Head(inserter[r].calls))) = {},
         NEW id, id = NewID, AddKey(id, ValueKey(Head(inserter[r].calls))),
         NEW next, inserter' = [inserter EXCEPT ![r] = next],
         next = [pc |-> "columns", calls |-> inserter[r].calls, ids |-> Append(inserter[r].ids, id)],
         UNCHANGED <<docs, sources, dead, vacuum, replica>>
  PROVE  Inv'
<1> DEFINE ids == inserter[r].ids
           rest == inserter[r].calls
           n == Len(inserter[r].ids)
           call == Head(inserter[r].calls)
           key == ValueKey(call)
           calls == Calls(docs, r)
           more == Append(ids, id)
<1>1. Types /\ FreeIDs /\ ids \in Seq(ID) /\ n \in Nat /\ n = Len(ids) /\ rest \in Seq(AllCalls(docs)) /\ rest # <<>>
  BY InserterIs DEF Inv
<1>2. /\ call = calls[n + 1] /\ call \in AllCalls(docs)
      /\ Rest(calls, n, rest)
      /\ Have(ids, calls)
  BY NextCall
<1>3. key \in Keys(docs)
  BY <1>2 DEF Keys
<1>4. \A other \in Live : values[other].key # key
  BY DEF IDsOf
<1>5. /\ id \in ID /\ id \notin Live
      /\ Live' = Live \cup {id}
      /\ values' \in Seq(Value(docs))
      /\ values'[id].key = key /\ values'[id].row = Bare
      /\ \A other \in Live : values'[other] = values[other]
      /\ free' \in Seq(ID)
      /\ FreeIDs'
  BY <1>1, <1>3, AddKeyFits
<1>6. /\ next.pc = "columns" /\ next.calls = rest /\ next.ids = more
      /\ next = [pc |-> next.pc, calls |-> next.calls, ids |-> next.ids]
  OBVIOUS
<1> HIDE DEF ids, rest, n, call, key, more
<1>7. /\ more \in Seq(ID) /\ more # <<>> /\ Len(more) = n + 1 /\ Last(more) = id
      /\ ToSet(more) = ToSet(ids) \cup {id}
  <2>1. /\ Append(ids, id) \in Seq(ID) /\ Append(ids, id) # <<>> /\ Len(Append(ids, id)) = Len(ids) + 1
        /\ Last(Append(ids, id)) = id /\ ToSet(Append(ids, id)) = ToSet(ids) \cup {id}
    <3>1. ids \in Seq(ID) /\ id \in ID
      BY <1>1, <1>5
    <3> QED
      BY <3>1, AppendIs, SMTT(30)
  <2> QED
    BY <1>1, <2>1 DEF more
<1>8. /\ inserter' \in [Rows -> Inserter(docs)]
      /\ inserter'[r] = next
      /\ \A s \in Rows : s # r => inserter'[s] = inserter[s]
  BY <1>1, <1>6, <1>7, InserterStep
<1>9. /\ Rows' = Rows
      /\ \A s \in Rows : Calls(docs, s)' = Calls(docs, s)
      /\ \A s \in Rows : s # r => Inserting(s)'
      /\ \A s \in DOMAIN sources : /\ s # r
                                   /\ inserter'[s].pc = "done"
                                   /\ Len(sources[s]) = Len(Calls(docs, s))
                                   /\ \A i \in 1..Len(sources[s]) :
                                        /\ sources[s][i] \in Live'
                                        /\ values'[sources[s][i]].key = ValueKey(Calls(docs, s)[i])
  BY <1>5, <1>8, OthersKeep
<1>10. \A i \in 1..Len(more) : more[i] \in Live' /\ values'[more[i]].key = ValueKey(calls[i])
  <2>1. \A i \in 1..Len(ids) : ids[i] \in Live' /\ values'[ids[i]].key = ValueKey(calls[i])
    BY <1>2, <1>5 DEF Have
  <2>2. id \in Live' /\ values'[id].key = ValueKey(calls[Len(ids) + 1])
    BY <1>1, <1>2, <1>5 DEF key
  <2> HIDE DEF calls
  <2>3. ids \in Seq(ID) /\ id \in ID
    BY <1>1, <1>5
  <2>4. \A i \in 1..Len(Append(ids, id)) :
          Append(ids, id)[i] \in Live' /\ values'[Append(ids, id)[i]].key = ValueKey(calls[i])
    BY <2>1, <2>2, <2>3, HaveOneMore, Zenon
  <2> QED
    BY <2>4 DEF more
<1>11. Types'
  BY <1>1, <1>5, <1>8, <1>9 DEF Types, Vacuum
<1>12. OneValueOfKey'
  <2>1. \A other \in Live : values'[other].key = values[other].key /\ values[other].key # key
    BY <1>4, <1>5
  <2>2. Live' = Live \cup {id} /\ values'[id].key = key
    BY <1>5
  <2>3. \A some, other \in Live : values[some].key = values[other].key => some = other
    BY DEF Inv, OneValueOfKey
  <2>4. \A some, other \in Live' : values'[some].key = values'[other].key => some = other
    BY <2>1, <2>2, <2>3
  <2> QED
    BY <2>4 DEF OneValueOfKey
<1>13. Insertions'
  <2>1. (n + 1) - 1 = n
    BY <1>1
  <2>2. Inserting(r)'
    BY <1>1, <1>2, <1>6, <1>7, <1>8, <1>9, <1>10, <2>1 DEF Inserting, Have
  <2> QED
    BY <1>9, <2>2 DEF Insertions
<1>14. \A s \in Rows : \A other : Sets(s, other)' <=> IF s = r THEN other = id ELSE Sets(s, other)
  BY <1>6, <1>7, <1>8 DEF Sets
<1>15. \A s \in Rows : \A other : Sets(s, other) => other \in Live /\ s # r
  BY <1>1, SettingIsLive DEF Sets, Inv
<1>16. OneSets'
  <2>1. ASSUME NEW s \in Rows, NEW t \in Rows, inserter'[s].pc = "columns", inserter'[t].pc = "columns",
               Last(inserter'[s].ids) = Last(inserter'[t].ids)
        PROVE  s = t
    <3>1. ASSUME NEW u \in Rows, u # r, inserter'[u].pc = "columns"
          PROVE  inserter'[u] = inserter[u] /\ Sets(u, Last(inserter[u].ids)) /\ Last(inserter[u].ids) \in Live
      <4>1. inserter'[u] = inserter[u]
        BY <1>8, <3>1
      <4>2. Sets(u, Last(inserter[u].ids))
        BY <3>1, <4>1 DEF Sets
      <4> QED
        BY <1>15, <4>1, <4>2
    <3>2. Last(inserter'[r].ids) = id
      BY <1>6, <1>7, <1>8
    <3>3. CASE s = r
      BY <1>5, <2>1, <3>1, <3>2, <3>3
    <3>4. CASE t = r
      BY <1>5, <2>1, <3>1, <3>2, <3>4
    <3>5. CASE s # r /\ t # r
      <4>1. Last(inserter[s].ids) = Last(inserter[t].ids) /\ inserter[s].pc = "columns" /\ inserter[t].pc = "columns"
        BY <2>1, <3>1, <3>5 DEF Sets
      <4>2. Sets(s, Last(inserter[t].ids))
        BY <4>1 DEF Sets
      <4> QED
        BY <4>1, <4>2 DEF Inv, OneSets
    <3> QED
      BY <3>3, <3>4, <3>5
  <2> QED
    BY <1>9, <2>1 DEF OneSets, Sets
<1>17. ValuesFit'
  <2>1. ASSUME NEW other \in Live'
        PROVE  ValueFits(other)'
    <3>1. CASE other = id
      BY <1>5, <1>9, <1>14, <3>1 DEF ValueFits
    <3>2. CASE other # id
      <4>1. other \in Live /\ values'[other] = values[other] /\ ValueFits(other)
        BY <1>5, <3>2 DEF Inv, ValuesFit
      <4>2. \A s \in Rows : Sets(s, other)' <=> Sets(s, other)
        BY <1>14, <1>15, <3>2
      <4> QED
        BY <1>9, <4>1, <4>2 DEF ValueFits
    <3> QED
      BY <3>1, <3>2
  <2> QED
    BY <2>1 DEF ValuesFit
<1>18. RowsFit'
  BY <1>9, <1>1 DEF RowsFit, Have, Types
<1>19. ReplicaFits'
  <2>1. \A s \in DOMAIN sources : s \in Rows
    BY <1>1 DEF Types
  <2>2. ASSUME NEW k \in DOMAIN replica.values
        PROVE  ReplicaHas(k)'
    <3>1. PICK other \in Live : values[other].key = k /\ values[other].row = replica.values[k]
      BY DEF Inv, ReplicaFits, ReplicaHas
    <3>2. other \in Live' /\ values'[other] = values[other]
      BY <1>5
    <3> QED
      BY <3>1, <3>2 DEF ReplicaHas
  <2> QED
    BY <1>9, <2>1, <2>2 DEF Inv, ReplicaFits
<1>20. VacuumFits'
  BY <1>5 DEF Inv, VacuumFits
<1>21. NoneIsLost'
  <2>1. ASSUME NEW other, InHand(other) \/ other = id
        PROVE  InHand(other)'
    <3>1. CASE other = id
      BY <1>6, <1>7, <1>8, <1>9, <3>1 DEF InHand
    <3>2. CASE InHand(other)
      <4>1. PICK s \in Rows : inserter[s].pc # "done" /\ other \in ToSet(inserter[s].ids)
        BY <3>2 DEF InHand
      <4>2. inserter'[s].pc # "done" /\ other \in ToSet(inserter'[s].ids)
        <5>1. CASE s = r
          BY <1>6, <1>7, <1>8, <4>1, <5>1 DEF ids
        <5>2. CASE s # r
          BY <1>8, <4>1, <5>2
        <5> QED
          BY <5>1, <5>2
      <4> QED
        BY <1>9, <4>2 DEF InHand
    <3> QED
      BY <2>1, <3>1, <3>2
  <2> QED
    BY <1>5, <2>1 DEF Inv, NoneIsLost, Referenced, YetToCome
<1> QED
  BY <1>5, <1>11, <1>12, <1>13, <1>16, <1>17, <1>18, <1>19, <1>20, <1>21 DEF Inv

LEMMA AddValueKeeps ==
  ASSUME Inv, NEW r \in Rows, AddValue(r)
  PROVE  Inv'
<1> DEFINE key == ValueKey(Head(inserter[r].calls))
<1>1. inserter[r].pc = "values" /\ inserter[r].calls # <<>> /\ UNCHANGED <<docs, sources, dead, vacuum, replica>>
  BY DEF AddValue
<1>2. \/ \E id \in IDsOf(key) :
           /\ inserter' = [inserter EXCEPT ![r] = [pc |-> "values", calls |-> Tail(inserter[r].calls), ids |-> Append(inserter[r].ids, id)]]
           /\ UNCHANGED <<values, free>>
      \/ /\ IDsOf(key) = {}
         /\ AddKey(NewID, key)
         /\ inserter' = [inserter EXCEPT ![r] = [pc |-> "columns", calls |-> inserter[r].calls, ids |-> Append(inserter[r].ids, NewID)]]
  BY DEF AddValue
<1>3. CASE \E id \in IDsOf(key) :
             /\ inserter' = [inserter EXCEPT ![r] = [pc |-> "values", calls |-> Tail(inserter[r].calls), ids |-> Append(inserter[r].ids, id)]]
             /\ UNCHANGED <<values, free>>
  <2>1. PICK id \in IDsOf(key) :
           /\ inserter' = [inserter EXCEPT ![r] = [pc |-> "values", calls |-> Tail(inserter[r].calls), ids |-> Append(inserter[r].ids, id)]]
           /\ UNCHANGED <<values, free>>
    BY <1>3
  <2>2. UNCHANGED <<docs, database, dead, vacuum>>
    BY <1>1, <2>1 DEF database
  <2> QED
    BY <1>1, <2>1, <2>2, FoundKeeps
<1>4. CASE /\ IDsOf(key) = {}
           /\ AddKey(NewID, key)
           /\ inserter' = [inserter EXCEPT ![r] = [pc |-> "columns", calls |-> inserter[r].calls, ids |-> Append(inserter[r].ids, NewID)]]
  BY <1>1, <1>4, AddedKeeps
<1> QED
  BY <1>2, <1>3, <1>4

\* The columns of a value are set, on the standby as well.
LEMMA SetColumnsKeeps ==
  ASSUME Inv, NEW r \in Rows, SetColumns(r)
  PROVE  Inv'
<1> DEFINE ids == inserter[r].ids
           rest == inserter[r].calls
           n == Len(inserter[r].ids)
           id == Last(inserter[r].ids)
           call == Head(inserter[r].calls)
           key == ValueKey(call)
           calls == Calls(docs, r)
           next == [pc |-> "values", calls |-> Tail(inserter[r].calls), ids |-> inserter[r].ids]
           old == IF key \in DOMAIN replica.values THEN replica.values[key] ELSE Bare
           set == [live |-> TRUE, key |-> key, row |-> Columns(call)]
<1>1. /\ inserter[r].pc = "columns"
      /\ values' = [values EXCEPT ![id].row = Written(@, call)]
      /\ replica' = [replica EXCEPT !.values = With(@, key, Written(old, call))]
      /\ inserter' = [inserter EXCEPT ![r].pc = "values", ![r].calls = Tail(@)]
      /\ UNCHANGED <<docs, free, sources, dead, vacuum>>
  BY DEF SetColumns
<1>2. /\ Types /\ Insertions
      /\ inserter[r] \in Inserter(docs) /\ rest \in Seq(AllCalls(docs)) /\ ids \in Seq(ID) /\ n \in Nat
  BY InserterIs DEF Inv
<1>3. id \in Live /\ id \in ID /\ n \in 1..n /\ values[id].key = ValueKey(calls[n])
  BY <1>1, <1>2, SettingIsLive
<1>4. /\ call = calls[n] /\ call \in AllCalls(docs)
      /\ Rest(calls, n, Tail(rest)) /\ Tail(rest) \in Seq(AllCalls(docs))
      /\ Have(ids, calls)
  <2>1. rest # <<>> /\ Rest(calls, n - 1, rest) /\ Have(ids, calls)
    BY <1>1, <1>2 DEF Insertions, Inserting
  <2>2. calls \in Seq(AllCalls(docs)) /\ \A i \in 1..Len(calls) : calls[i] \in AllCalls(docs)
    BY <1>2, CallsType
  <2>3. n - 1 \in Nat /\ (n - 1) + 1 = n
    BY <1>3
  <2> HIDE DEF calls, rest, n
  <2>4. /\ Rest(calls, (n - 1) + 1, Tail(rest))
        /\ Tail(rest) \in Seq(AllCalls(docs))
        /\ Head(rest) = calls[(n - 1) + 1]
        /\ (n - 1) + 1 \in 1..Len(calls)
    BY <1>2, <2>1, <2>2, <2>3, RestOfTail
  <2> QED
    BY <2>1, <2>2, <2>3, <2>4 DEF rest
<1>5. inserter' = [inserter EXCEPT ![r] = next]
  <2>1. inserter \in [Rows -> Inserter(docs)]
    BY <1>2 DEF Types
  <2> DEFINE filled == [inserter[r] EXCEPT !.pc = "values", !.calls = Tail(@)]
  <2>2. inserter' = [inserter EXCEPT ![r] = filled]
    BY <1>1, <2>1
  <2>3. filled.pc = "values" /\ filled.calls = Tail(rest) /\ filled.ids = ids
    BY <1>2 DEF Inserter
  <2>4. filled \in Inserter(docs)
    BY <1>2, <1>4 DEF Inserter
  <2> HIDE DEF filled
  <2>5. filled = [pc |-> filled.pc, calls |-> filled.calls, ids |-> filled.ids]
    BY <2>4 DEF Inserter
  <2> QED
    BY <2>2, <2>3, <2>5
<1>6. next.pc = "values" /\ next.calls = Tail(rest) /\ next.ids = ids /\ next = [pc |-> next.pc, calls |-> next.calls, ids |-> next.ids]
  OBVIOUS
<1>7. values[id].row = Bare /\ values[id].key = key /\ values[id] \in Value(docs)
  <2>1. ValueFits(id) /\ Sets(r, id)
    BY <1>1, <1>3 DEF Inv, ValuesFit, Sets
  <2> QED
    BY <1>2, <1>3, <1>4, <2>1, LiveAreIDs DEF ValueFits, Live
<1>8. old = Bare
  <2>1. ASSUME key \in DOMAIN replica.values
        PROVE  replica.values[key] = Bare
    <3>1. PICK other \in Live : values[other].key = key /\ values[other].row = replica.values[key]
      BY <2>1 DEF Inv, ReplicaFits, ReplicaHas
    <3>2. other = id
      BY <1>3, <1>7, <3>1 DEF Inv, OneValueOfKey
    <3> QED
      BY <1>7, <3>1, <3>2
  <2> QED
    BY <2>1
<1>9. /\ DOMAIN replica' = {"values", "sources"}
      /\ replica'.sources = replica.sources
      /\ replica'.values = With(replica.values, key, Columns(call))
  <2>1. Written(old, call) = Columns(call)
    BY <1>8, WrittenIsColumns
  <2> HIDE DEF old, key, call
  <2> QED
    BY <1>1, <1>2, <2>1 DEF Types
<1> HIDE DEF ids, rest, n, id, call, key, next, old, set
<1>10. /\ DOMAIN replica'.values = DOMAIN replica.values \cup {key}
       /\ replica'.values[key] = Columns(call)
       /\ \A k \in DOMAIN replica.values : k # key => replica'.values[k] = replica.values[k]
  BY <1>9 DEF With
<1>11. set \in Value(docs) /\ set.live = TRUE /\ set.key = key /\ set.row = Columns(call)
  BY <1>4 DEF Value, Record, Keys, set, key
<1>12. /\ values' \in Seq(Value(docs)) /\ DOMAIN values' = DOMAIN values
       /\ values'[id] = set
       /\ \A other \in DOMAIN values : other # id => values'[other] = values[other]
  <2>1. Written(values[id].row, call) = Columns(call)
    BY <1>7, WrittenIsColumns
  <2>2. values' = [values EXCEPT ![id] = [@ EXCEPT !.row = Columns(call)]]
    BY <1>1, <2>1 DEF id, call
  <2> DEFINE filled == [values[id] EXCEPT !.row = Columns(call)]
  <2>3. filled \in Value(docs)
    BY <1>4, <1>7 DEF Value, Record
  <2>4. values[id].live = TRUE
    BY <1>3 DEF Live
  <2>5. filled.live = TRUE /\ filled.key = key /\ filled.row = Columns(call)
    BY <1>7, <2>4 DEF Value
  <2>6. values' = [values EXCEPT ![id] = filled]
    BY <2>2
  <2> HIDE DEF filled
  <2>7. filled = [live |-> filled.live, key |-> filled.key, row |-> filled.row]
    BY <2>3 DEF Value
  <2>8. filled = set
    BY <2>5, <2>7 DEF set
  <2>9. values \in Seq(Value(docs)) /\ id \in DOMAIN values
    BY <1>2, <1>3 DEF Types, Live
  <2> QED
    BY <1>11, <2>6, <2>8, <2>9
<1>13. Live' = Live
  BY <1>3, <1>11, <1>12 DEF Live
<1>14. \A other \in Live : values'[other].key = values[other].key
  BY <1>7, <1>11, <1>12 DEF Live
<1>15. /\ inserter' \in [Rows -> Inserter(docs)]
       /\ inserter'[r] = next
       /\ \A s \in Rows : s # r => inserter'[s] = inserter[s]
  BY <1>2, <1>4, <1>5, <1>6, InserterStep
<1>16. /\ Rows' = Rows
       /\ \A s \in Rows : Calls(docs, s)' = Calls(docs, s)
       /\ \A s \in Rows : s # r => Inserting(s)'
       /\ \A s \in DOMAIN sources : /\ s # r
                                    /\ inserter'[s].pc = "done"
                                    /\ Len(sources[s]) = Len(Calls(docs, s))
                                    /\ \A i \in 1..Len(sources[s]) :
                                         /\ sources[s][i] \in Live'
                                         /\ values'[sources[s][i]].key = ValueKey(Calls(docs, s)[i])
  BY <1>1, <1>13, <1>14, <1>15, OthersKeep
<1>17. Types'
  BY <1>1, <1>2, <1>9, <1>12, <1>15, <1>16 DEF Types, Vacuum
<1>18. FreeIDs'
  BY <1>1, <1>3, <1>12, <1>13 DEF Inv, FreeIDs
<1>19. OneValueOfKey'
  BY <1>13, <1>14 DEF Inv, OneValueOfKey
<1>20. Insertions'
  <2>1. \A i \in 1..Len(ids) : ids[i] \in Live' /\ values'[ids[i]].key = ValueKey(calls[i])
    BY <1>4, <1>13, <1>14 DEF Have
  <2>2. Inserting(r)'
    BY <1>4, <1>6, <1>15, <1>16, <2>1 DEF Inserting, Have, n, ids
  <2> QED
    BY <1>16, <2>2 DEF Insertions
<1>21. \A s \in Rows : \A other : Sets(s, other)' <=> s # r /\ Sets(s, other)
  BY <1>6, <1>15 DEF Sets
<1>22. OneSets'
  <2>1. \A s \in Rows : inserter'[s].pc = "columns" => inserter[s].pc = "columns" /\ inserter'[s] = inserter[s]
    BY <1>6, <1>15
  <2> QED
    BY <1>16, <1>21, <2>1 DEF Inv, OneSets
<1>23. ValuesFit'
  <2>1. ASSUME NEW other \in Live
        PROVE  ValueFits(other)'
    <3>1. CASE other = id
      <4>1. ASSUME NEW s \in Rows, s # r
            PROVE  ~Sets(s, other)
        BY <1>1, <3>1, <4>1 DEF Inv, OneSets, id
      <4>2. ~\E s \in Rows : Sets(s, other)'
        BY <1>21, <4>1
      <4>3. values'[other].key \in DOMAIN replica'.values /\ values'[other].key = ValueKey(call) /\ values'[other].row = Columns(call)
        BY <1>10, <1>11, <1>12, <3>1 DEF key
      <4>4. call \in AllCalls(docs')
        BY <1>1, <1>4
      <4> HIDE DEF calls
      <4> QED
        BY <1>16, <4>2, <4>3, <4>4 DEF ValueFits
    <3>2. CASE other # id
      <4>1. values'[other] = values[other] /\ ValueFits(other)
        BY <1>12, <3>2 DEF Inv, ValuesFit, Live
      <4>2. \A s \in Rows : Sets(s, other)' <=> Sets(s, other)
        <5>1. ~Sets(r, other)
          BY <3>2 DEF Sets, id
        <5> QED
          BY <1>21, <5>1
      <4> QED
        BY <1>1, <1>10, <1>16, <4>1, <4>2 DEF ValueFits
    <3> QED
      BY <3>1, <3>2
  <2> QED
    BY <1>13, <2>1 DEF ValuesFit
<1>24. RowsFit'
  <2>1. \A s \in DOMAIN sources : s \in Rows
    BY <1>2 DEF Types
  <2> QED
    <3>1. ASSUME NEW s \in DOMAIN sources
          PROVE  inserter'[s].pc = "done" /\ Len(sources[s]) = Len(Calls(docs, s)') /\ Have(sources[s], Calls(docs, s))'
      <4>1. Calls(docs, s)' = Calls(docs, s) /\ sources' = sources
        BY <1>1, <1>16, <2>1
      <4>2. \A i \in 1..Len(sources[s]) : sources[s][i] \in Live' /\ values'[sources[s][i]].key = ValueKey(Calls(docs, s)[i])
        BY <1>16
      <4> QED
        BY <1>16, <4>1, <4>2 DEF Have
    <3> QED
      BY <1>1, <3>1 DEF RowsFit
<1>25. ReplicaFits'
  <2>1. \A s \in DOMAIN sources : s \in Rows
    BY <1>2 DEF Types
  <2>2. ASSUME NEW k \in DOMAIN replica'.values
        PROVE  ReplicaHas(k)'
    <3>1. CASE k = key
      BY <1>3, <1>10, <1>11, <1>12, <1>13, <3>1 DEF ReplicaHas
    <3>2. CASE k # key
      <4>1. k \in DOMAIN replica.values /\ replica'.values[k] = replica.values[k]
        BY <1>10, <3>2
      <4>2. PICK other \in Live : values[other].key = k /\ values[other].row = replica.values[k]
        BY <4>1 DEF Inv, ReplicaFits, ReplicaHas
      <4>3. values'[other] = values[other]
        BY <1>7, <1>12, <3>2, <4>2 DEF Live
      <4> QED
        BY <1>13, <4>1, <4>2, <4>3 DEF ReplicaHas
    <3> QED
      BY <3>1, <3>2
  <2> QED
    BY <1>1, <1>9, <1>16, <2>1, <2>2 DEF Inv, ReplicaFits
<1>26. VacuumFits'
  BY <1>1, <1>13 DEF Inv, VacuumFits
<1>27. NoneIsLost'
  <2>1. ASSUME NEW other, InHand(other)
        PROVE  InHand(other)'
    <3>1. PICK s \in Rows : inserter[s].pc # "done" /\ other \in ToSet(inserter[s].ids)
      BY <2>1 DEF InHand
    <3>2. inserter'[s].pc # "done" /\ other \in ToSet(inserter'[s].ids)
      <4>1. CASE s = r
        BY <1>6, <1>15, <3>1, <4>1 DEF ids
      <4>2. CASE s # r
        BY <1>15, <3>1, <4>2
      <4> QED
        BY <4>1, <4>2
    <3> QED
      BY <1>16, <3>2 DEF InHand
  <2> QED
    BY <1>1, <1>13, <2>1 DEF Inv, NoneIsLost, Referenced, YetToCome
<1> QED
  BY <1>17, <1>18, <1>19, <1>20, <1>22, <1>23, <1>24, <1>25, <1>26, <1>27 DEF Inv

\* The row of a document is added, with the values it has in hand; the standby
\* learns those that it did not know.
LEMMA InsertRecordKeeps ==
  ASSUME Inv, NEW r \in Rows, InsertRecord(r)
  PROVE  Inv'
<1> DEFINE ids == inserter[r].ids
           n == Len(inserter[r].ids)
           calls == Calls(docs, r)
           next == [pc |-> "done", calls |-> inserter[r].calls, ids |-> inserter[r].ids]
           keys == [i \in 1..n |-> ValueKey(calls[i])]
           known == DOMAIN replica.values
<1>1. /\ inserter[r].pc = "values" /\ inserter[r].calls = <<>>
      /\ sources' = With(sources, r, ids)
      /\ inserter' = [inserter EXCEPT ![r].pc = "done"]
      /\ UNCHANGED <<docs, values, free, dead, vacuum>>
  BY DEF InsertRecord
<1>2. /\ Types
      /\ inserter[r] \in Inserter(docs) /\ inserter[r].calls \in Seq(AllCalls(docs)) /\ ids \in Seq(ID) /\ n \in Nat
      /\ DOMAIN ids = 1..n
  BY InserterIs DEF Inv
<1>3. Have(ids, calls) /\ Len(calls) = n
  <2>1. Rest(calls, n, <<>>) /\ Have(ids, calls)
    BY <1>1 DEF Inv, Insertions, Inserting
  <2> QED
    BY <1>2, <2>1 DEF Rest
<1>4. \A i \in 1..n : ids[i] \in Live /\ values[ids[i]].live = TRUE /\ values[ids[i]].key = ValueKey(calls[i])
  BY <1>3 DEF Have, Live
<1>5. PICK stale :
        replica' = [values |-> [k \in known \cup ToSet([i \in DOMAIN ids |-> IF values[ids[i]].live THEN values[ids[i]].key ELSE stale])
                                  |-> IF k \in known THEN replica.values[k] ELSE Bare],
                    sources |-> With(replica.sources, r, [i \in DOMAIN ids |-> IF values[ids[i]].live THEN values[ids[i]].key ELSE stale])]
  BY DEF InsertRecord
<1>6. [i \in DOMAIN ids |-> IF values[ids[i]].live THEN values[ids[i]].key ELSE stale] = keys
  BY <1>2, <1>4
<1>7. /\ DOMAIN replica' = {"values", "sources"}
      /\ replica'.values = [k \in known \cup ToSet(keys) |-> IF k \in known THEN replica.values[k] ELSE Bare]
      /\ replica'.sources = With(replica.sources, r, keys)
  BY <1>5, <1>6
<1>8. inserter' = [inserter EXCEPT ![r] = next]
  <2>1. inserter \in [Rows -> Inserter(docs)]
    BY <1>2 DEF Types
  <2> DEFINE filled == [inserter[r] EXCEPT !.pc = "done"]
  <2>2. inserter' = [inserter EXCEPT ![r] = filled]
    BY <1>1, <2>1
  <2>3. filled = next
    BY <1>2 DEF Inserter
  <2> QED
    BY <2>2, <2>3
<1>9. next.pc = "done" /\ next.calls = inserter[r].calls /\ next.ids = ids /\ next = [pc |-> next.pc, calls |-> next.calls, ids |-> next.ids]
  OBVIOUS
<1> HIDE DEF ids, n, next, keys, known
<1>10. /\ \A k : k \in DOMAIN replica'.values <=> k \in known \/ \E i \in 1..n : k = ValueKey(calls[i])
       /\ \A k \in DOMAIN replica'.values : replica'.values[k] = IF k \in known THEN replica.values[k] ELSE Bare
  <2>1. \A k : k \in ToSet(keys) <=> \E i \in 1..n : k = ValueKey(calls[i])
    BY DEF ToSet, keys
  <2> QED
    BY <1>7, <2>1
<1>11. /\ inserter' \in [Rows -> Inserter(docs)]
       /\ inserter'[r] = next
       /\ \A s \in Rows : s # r => inserter'[s] = inserter[s]
  BY <1>2, <1>8, <1>9, InserterStep
<1>12. Live' = Live
  BY <1>1 DEF Live
<1>13. /\ Rows' = Rows
       /\ \A s \in Rows : Calls(docs, s)' = Calls(docs, s)
       /\ \A s \in Rows : s # r => Inserting(s)'
       /\ \A s \in DOMAIN sources : /\ s # r
                                    /\ inserter'[s].pc = "done"
                                    /\ Len(sources[s]) = Len(Calls(docs, s))
                                    /\ \A i \in 1..Len(sources[s]) :
                                         /\ sources[s][i] \in Live'
                                         /\ values'[sources[s][i]].key = ValueKey(Calls(docs, s)[i])
  BY <1>1, <1>11, <1>12, OthersKeep
<1>14. /\ DOMAIN sources' = DOMAIN sources \cup {r}
       /\ sources'[r] = ids
       /\ \A s \in DOMAIN sources : sources'[s] = sources[s]
  BY <1>1, <1>13 DEF With, ids
<1>15. /\ DOMAIN replica'.sources = DOMAIN sources \cup {r}
       /\ replica'.sources[r] = keys
       /\ \A s \in DOMAIN sources : replica'.sources[s] = replica.sources[s]
  BY <1>7, <1>13 DEF With, Inv, ReplicaFits
<1>16. Types'
  BY <1>1, <1>2, <1>7, <1>11, <1>13, <1>14 DEF Types, Vacuum
<1>17. FreeIDs' /\ OneValueOfKey'
  BY <1>1, <1>12 DEF Inv, FreeIDs, OneValueOfKey
<1>18. Insertions'
  <2>1. Inserting(r)'
    BY <1>9, <1>11 DEF Inserting
  <2> QED
    BY <1>13, <2>1 DEF Insertions
<1>19. \A s \in Rows : \A other : Sets(s, other)' <=> Sets(s, other)
  BY <1>1, <1>9, <1>11 DEF Sets
<1>20. OneSets'
  <2>1. \A s \in Rows : inserter'[s].pc = "columns" => inserter[s].pc = "columns" /\ inserter'[s] = inserter[s]
    BY <1>9, <1>11
  <2> QED
    BY <1>13, <1>19, <2>1 DEF Inv, OneSets
<1>21. ValuesFit'
  <2>1. known \subseteq DOMAIN replica'.values
    BY <1>10
  <2> QED
    BY <1>1, <1>12, <1>13, <1>19, <2>1 DEF Inv, ValuesFit, ValueFits, known
<1>22. RowsFit'
  <2>1. \A s \in DOMAIN sources : s \in Rows
    BY <1>2 DEF Types
  <2>2. ASSUME NEW s \in DOMAIN sources'
        PROVE  /\ inserter'[s].pc = "done"
               /\ Len(sources'[s]) = Len(Calls(docs, s)')
               /\ \A i \in 1..Len(sources'[s]) : sources'[s][i] \in Live' /\ values'[sources'[s][i]].key = ValueKey(Calls(docs, s)'[i])
    <3>1. CASE s = r
      BY <1>1, <1>3, <1>4, <1>9, <1>11, <1>12, <1>13, <1>14, <3>1 DEF n, ids
    <3>2. CASE s # r
      BY <1>13, <1>14, <2>1, <3>2
    <3> QED
      BY <3>1, <3>2
  <2> QED
    BY <2>2 DEF RowsFit, Have
<1>23. ReplicaFits'
  <2>1. ASSUME NEW k \in DOMAIN replica'.values
        PROVE  ReplicaHas(k)'
    <3>1. CASE k \in known
      BY <1>1, <1>10, <1>12, <3>1 DEF Inv, ReplicaFits, ReplicaHas, known
    <3>2. CASE k \notin known
      <4>1. PICK i \in 1..n : k = ValueKey(calls[i])
        BY <1>10, <3>2
      <4>2. ids[i] \in Live /\ values[ids[i]].key = k
        BY <1>4, <4>1
      <4>3. values[ids[i]].row = Bare
        BY <3>2, <4>2 DEF Inv, ValuesFit, ValueFits, known
      <4>4. replica'.values[k] = Bare
        BY <1>10, <3>2
      <4> DEFINE id == ids[i]
      <4>5. PICK other : other = id
        OBVIOUS
      <4> HIDE DEF id
      <4>6. other \in Live' /\ values'[other].key = k /\ values'[other].row = replica'.values[k]
        BY <1>1, <1>12, <4>2, <4>3, <4>4, <4>5 DEF id
      <4> QED
        BY <4>6 DEF ReplicaHas
    <3> QED
      BY <3>1, <3>2
  <2>2. \A s \in DOMAIN sources : s \in Rows
    BY <1>2 DEF Types
  <2>3. ASSUME NEW s \in DOMAIN sources'
        PROVE  replica'.sources[s] = [i \in 1..Len(sources'[s]) |-> ValueKey(Calls(docs, s)'[i])]
    <3>1. CASE s = r
      BY <1>13, <1>14, <1>15, <3>1 DEF keys, n, ids
    <3>2. CASE s # r
      BY <1>13, <1>14, <1>15, <2>2, <3>2 DEF Inv, ReplicaFits
    <3> QED
      BY <3>1, <3>2
  <2> QED
    BY <1>14, <1>15, <2>1, <2>3 DEF ReplicaFits
<1>24. VacuumFits'
  BY <1>1, <1>12 DEF Inv, VacuumFits
<1>25. NoneIsLost'
  <2>1. ASSUME NEW other \in Live
        PROVE  Referenced(other)' \/ InHand(other)' \/ YetToCome(other)'
    <3>1. CASE Referenced(other)
      BY <1>14, <3>1 DEF Referenced
    <3>2. CASE InHand(other)
      <4>1. PICK s \in Rows : inserter[s].pc # "done" /\ other \in ToSet(inserter[s].ids)
        BY <3>2 DEF InHand
      <4>2. CASE s = r
        BY <1>14, <4>1, <4>2 DEF Referenced, ids
      <4>3. CASE s # r
        BY <1>11, <1>13, <4>1, <4>3 DEF InHand
      <4> QED
        BY <4>2, <4>3
    <3>3. CASE YetToCome(other)
      BY <1>1, <3>3 DEF YetToCome
    <3> QED
      BY <3>1, <3>2, <3>3 DEF Inv, NoneIsLost
  <2> QED
    BY <1>12, <2>1 DEF NoneIsLost
<1> QED
  BY <1>16, <1>17, <1>18, <1>20, <1>21, <1>22, <1>23, <1>24, <1>25 DEF Inv

\* An ERROR, but not between a value and its columns.
LEMMA InsertErrorKeeps ==
  ASSUME Inv, NEW r \in Rows, InsertError(r), spoilt' = {}
  PROVE  Inv'
<1> DEFINE next == [pc |-> "failed", calls |-> inserter[r].calls, ids |-> inserter[r].ids]
<1>1. /\ inserter[r].pc = "values"
      /\ inserter' = [inserter EXCEPT ![r].pc = "failed"]
      /\ UNCHANGED <<docs, values, free, sources, replica, dead, vacuum>>
  BY DEF InsertError, Busy, database
<1>2. /\ Types
      /\ inserter[r] \in Inserter(docs) /\ inserter[r].calls \in Seq(AllCalls(docs)) /\ inserter[r].ids \in Seq(ID)
  BY InserterIs DEF Inv
<1>3. inserter' = [inserter EXCEPT ![r] = next]
  <2>1. inserter \in [Rows -> Inserter(docs)]
    BY <1>2 DEF Types
  <2> DEFINE filled == [inserter[r] EXCEPT !.pc = "failed"]
  <2>2. inserter' = [inserter EXCEPT ![r] = filled]
    BY <1>1, <2>1
  <2>3. filled = next
    BY <1>2 DEF Inserter
  <2> QED
    BY <2>2, <2>3
<1>4. next.pc = "failed" /\ next.calls = inserter[r].calls /\ next.ids = inserter[r].ids /\ next = [pc |-> next.pc, calls |-> next.calls, ids |-> next.ids]
  OBVIOUS
<1> HIDE DEF next
<1>5. /\ inserter' \in [Rows -> Inserter(docs)]
      /\ inserter'[r] = next
      /\ \A s \in Rows : s # r => inserter'[s] = inserter[s]
  BY <1>2, <1>3, <1>4, InserterStep
<1>6. Live' = Live /\ \A s \in DOMAIN sources : s \in Rows
  BY <1>1, <1>2 DEF Live, Types
<1>7. /\ Rows' = Rows
      /\ \A s \in Rows : Calls(docs, s)' = Calls(docs, s)
      /\ \A s \in Rows : s # r => Inserting(s)'
      /\ \A s \in DOMAIN sources : /\ s # r
                                   /\ inserter'[s].pc = "done"
                                   /\ Len(sources[s]) = Len(Calls(docs, s))
                                   /\ \A i \in 1..Len(sources[s]) :
                                        /\ sources[s][i] \in Live'
                                        /\ values'[sources[s][i]].key = ValueKey(Calls(docs, s)[i])
  BY <1>1, <1>5, <1>6, OthersKeep
<1>8. Types'
  BY <1>1, <1>2, <1>5, <1>7 DEF Types, Vacuum
<1>9. FreeIDs' /\ OneValueOfKey'
  BY <1>1, <1>6 DEF Inv, FreeIDs, OneValueOfKey
<1>10. Insertions'
  <2>1. Inserting(r)'
    BY <1>4, <1>5 DEF Inserting
  <2> QED
    BY <1>7, <2>1 DEF Insertions
<1>11. \A s \in Rows : \A other : Sets(s, other)' <=> Sets(s, other)
  BY <1>1, <1>4, <1>5 DEF Sets
<1>12. OneSets'
  <2>1. \A s \in Rows : inserter'[s].pc = "columns" => inserter[s].pc = "columns" /\ inserter'[s] = inserter[s]
    BY <1>4, <1>5
  <2> QED
    BY <1>7, <1>11, <2>1 DEF Inv, OneSets
<1>13. ValuesFit'
  BY <1>1, <1>6, <1>7, <1>11 DEF Inv, ValuesFit, ValueFits
<1>14. RowsFit'
  BY <1>1, <1>6, <1>7 DEF RowsFit, Have
<1>15. ReplicaFits'
  BY <1>1, <1>6, <1>7 DEF Inv, ReplicaFits, ReplicaHas
<1>16. VacuumFits'
  BY <1>1, <1>6 DEF Inv, VacuumFits
<1>17. NoneIsLost'
  <2>1. ASSUME NEW other, InHand(other)
        PROVE  InHand(other)'
    <3>1. PICK s \in Rows : inserter[s].pc # "done" /\ other \in ToSet(inserter[s].ids)
      BY <2>1 DEF InHand
    <3>2. inserter'[s].pc # "done" /\ other \in ToSet(inserter'[s].ids)
      <4>1. CASE s = r
        BY <1>4, <1>5, <3>1, <4>1
      <4>2. CASE s # r
        BY <1>5, <3>1, <4>2
      <4> QED
        BY <4>1, <4>2
    <3> QED
      BY <1>7, <3>2 DEF InHand
  <2> QED
    BY <1>1, <1>6, <2>1 DEF Inv, NoneIsLost, Referenced, YetToCome
<1> QED
  BY <1>8, <1>9, <1>10, <1>12, <1>13, <1>14, <1>15, <1>16, <1>17 DEF Inv

-----------------------------------------------------------------------------
(* The invariant holds.                                                    *)

LEMMA InitInv == Init => Inv
<1> SUFFICES ASSUME Init
             PROVE  Inv
  OBVIOUS
<1>1. /\ docs \in Workloads /\ values = <<>> /\ free = <<>> /\ sources = <<>> /\ dead = {}
      /\ inserter = [r \in Rows |-> [pc |-> "values", calls |-> InsertCalls(docs[r]), ids |-> <<>>]]
      /\ vacuum = [pc |-> "idle", targets |-> {}, min |-> None, max |-> None, next |-> None]
      /\ replica = [values |-> <<>>, sources |-> <<>>]
  BY DEF Init
<1>2. DOMAIN values = {} /\ Live = {} /\ DOMAIN sources = {} /\ replica.values = <<>> /\ replica.sources = <<>>
  BY <1>1 DEF Live
<1>3. \A r \in Rows : Calls(docs, r) \in Seq(AllCalls(docs)) /\ Calls(docs, r) \in Seq(CallType)
  <2>1. ASSUME NEW r \in Rows
        PROVE  Calls(docs, r) \in Seq(CallType)
    <3>1. Tokens(docs[r]) \in Seq(TokenType)
      BY <1>1, JSONBAssumption DEF JSONBAssumption, Rows
    <3> QED
      BY <3>1, DocumentFits DEF Calls
  <2>2. ASSUME NEW r \in Rows
        PROVE  Calls(docs, r) \in Seq(AllCalls(docs))
    <3> DEFINE calls == Calls(docs, r)
    <3>1. calls \in Seq(CallType) /\ \A i \in 1..Len(calls) : calls[i] \in ToSet(calls)
      BY <2>1 DEF ToSet
    <3>2. ToSet(calls) \subseteq AllCalls(docs)
      BY DEF AllCalls, Rows
    <3> HIDE DEF calls
    <3>3. calls \in Seq(AllCalls(docs))
      BY <3>1, <3>2
    <3> QED
      BY <3>3 DEF calls
  <2> QED
    BY <2>1, <2>2
<1>4. \A r \in Rows : inserter[r].pc = "values" /\ inserter[r].calls = Calls(docs, r) /\ inserter[r].ids = <<>>
  BY <1>1 DEF Calls
<1>5. Types
  <2>1. inserter \in [Rows -> Inserter(docs)]
    <3>1. \A r \in Rows : [pc |-> "values", calls |-> Calls(docs, r), ids |-> <<>>] \in Inserter(docs)
      BY <1>3 DEF Inserter
    <3>2. inserter = [r \in Rows |-> [pc |-> "values", calls |-> Calls(docs, r), ids |-> <<>>]]
      BY <1>1 DEF Calls
    <3> QED
      BY <3>1, <3>2
  <2>2. vacuum \in Vacuum
    BY <1>1 DEF Vacuum, None
  <2> QED
    BY <1>1, <1>2, <2>1, <2>2 DEF Types
<1>6. FreeIDs /\ OneValueOfKey /\ ValuesFit /\ NoneIsLost
  BY <1>1, <1>2 DEF FreeIDs, OneValueOfKey, ValuesFit, NoneIsLost
<1>7. Insertions
  <2>1. ASSUME NEW r \in Rows
        PROVE  Inserting(r)
    <3> DEFINE calls == Calls(docs, r)
    <3>1. calls \in Seq(CallType)
      BY <1>3
    <3>2. inserter[r].pc = "values" /\ inserter[r].calls = calls /\ inserter[r].ids = <<>>
      BY <1>4
    <3>3. Rest(calls, 0, calls) /\ Have(<<>>, calls)
      <4> HIDE DEF calls
      <4> QED
        BY <3>1 DEF Rest, Have
    <3> QED
      BY <3>2, <3>3 DEF Inserting
  <2> QED
    BY <2>1 DEF Insertions
<1>8. OneSets
  BY <1>4 DEF OneSets
<1>9. RowsFit /\ ReplicaFits
  BY <1>2 DEF RowsFit, ReplicaFits
<1>10. VacuumFits
  BY <1>1 DEF VacuumFits
<1> QED
  BY <1>5, <1>6, <1>7, <1>8, <1>9, <1>10 DEF Inv

\* What is spoilt stays so.
LEMMA NextInv == ValuesInv /\ [Next]_vars => ValuesInv'
<1> SUFFICES ASSUME ValuesInv, [Next]_vars, spoilt' = {}
             PROVE  Inv'
  BY DEF ValuesInv
<1>1. spoilt = {}
  BY DEF Next, vars, AddValue, SetColumns, InsertRecord, InsertError, Die, BulkDeleteInit, BulkDeleteRecord,
         BulkDeleteRange, BulkDeleteCheck, BulkDeleteValue, BulkDeleteFin
<1>2. Inv
  BY <1>1 DEF ValuesInv
<1>3. ASSUME NEW r \in Rows, AddValue(r)
      PROVE  Inv'
  BY <1>2, <1>3, AddValueKeeps
<1>4. ASSUME NEW r \in Rows, SetColumns(r)
      PROVE  Inv'
  BY <1>2, <1>4, SetColumnsKeeps
<1>5. ASSUME NEW r \in Rows, InsertRecord(r)
      PROVE  Inv'
  BY <1>2, <1>5, InsertRecordKeeps
<1>6. ASSUME NEW r \in Rows, InsertError(r)
      PROVE  Inv'
  BY <1>2, <1>6, InsertErrorKeeps
<1>7. ASSUME NEW r \in Rows, Die(r)
      PROVE  Inv'
  BY <1>2, <1>7, DieKeeps
<1>8. CASE BulkDeleteInit
  BY <1>2, <1>8, BulkDeleteInitKeeps
<1>9. CASE BulkDeleteRecord
  BY <1>2, <1>9, BulkDeleteRecordKeeps
<1>10. CASE BulkDeleteRange
  BY <1>2, <1>10, BulkDeleteRangeKeeps
<1>11. CASE BulkDeleteCheck
  BY <1>2, <1>11, BulkDeleteCheckKeeps
<1>12. CASE BulkDeleteValue
  BY <1>2, <1>12, BulkDeleteValueKeeps
<1>13. CASE BulkDeleteFin
  BY <1>2, <1>13, BulkDeleteFinKeeps
<1>14. CASE UNCHANGED vars
  <2>1. UNCHANGED <<docs, values, free, sources, replica, inserter, dead, vacuum>>
    BY <1>14 DEF vars, database
  <2>2. Types' /\ VacuumFits'
    BY <1>2, <2>1, Frame DEF Inv, Types, Rows, Inserter, Vacuum, VacuumFits
  <2>3. NoneIsLost'
    BY <1>2, <2>1, Frame DEF Inv, NoneIsLost, YetToCome
  <2> QED
    BY <1>2, <2>1, <2>2, <2>3, Frame DEF Inv
<1> QED
  BY <1>3, <1>4, <1>5, <1>6, <1>7, <1>8, <1>9, <1>10, <1>11, <1>12, <1>13, <1>14 DEF Next

\* The values, the rows that refer to them and the documents belong together,
\* whatever turns insertions and VACUUMs take, as long as VACUUM has not
\* removed a value that an insertion had in hand and no insertion has failed
\* between a value and its columns.
THEOREM ValuesBelongTogether == Spec => []ValuesInv
<1>1. Init => ValuesInv
  BY InitInv DEF ValuesInv
<1> QED
  BY <1>1, NextInv, PTL DEF Spec

-----------------------------------------------------------------------------
(* Searches.                                                               *)

\* The row of a value that belongs to a call meets what the call meets.
LEMMA RowMeets ==
  ASSUME Inv, Finished, NEW id \in Live, NEW call, values[id].key = ValueKey(call), NEW condition
  PROVE  /\ Meets(values[id].row, condition) <=> Meets(Columns(call), condition)
         /\ ValueKey(call) \in DOMAIN replica.values
<1>1. ~\E r \in Rows : Sets(r, id)
  BY DEF Finished, Sets
<1>2. /\ values[id].key \in DOMAIN replica.values
      /\ \E other \in AllCalls(docs) : values[id].key = ValueKey(other) /\ values[id].row = Columns(other)
  BY <1>1 DEF Inv, ValuesFit, ValueFits
<1>3. PICK other \in AllCalls(docs) : values[id].key = ValueKey(other) /\ values[id].row = Columns(other)
  BY <1>2
<1>4. Meets(Columns(call), condition) <=> Meets(Columns(other), condition)
  BY <1>3, SameKeyMeets
<1> QED
  BY <1>2, <1>3, <1>4

LEMMA InvAgrees == ValuesInv => SearchesAgree
<1> SUFFICES ASSUME ValuesInv, Finished, spoilt = {}, NEW r \in DOMAIN sources, NEW c \in Conditions
             PROVE  /\ Finds(r, c) <=> MatchExpression(docs[r], c)
                    /\ ReplicaFinds(r, c) <=> MatchExpression(docs[r], c)
                    /\ \A term \in Terms : FindsTerm(docs[r], term) <=> MatchTerm(docs[r], term)
  BY DEF SearchesAgree, Quiet
<1> DEFINE ids == sources[r]
           calls == InsertCalls(docs[r])
           n == Len(sources[r])
<1>1. Inv /\ r \in Rows
  BY DEF ValuesInv, Inv, Types
<1>2. /\ calls \in Seq(CallType)
      /\ \A term : StringIn(calls, term) <=> term \in ToSet(FullTextStrings(docs[r]))
  <2>1. Tokens(docs[r]) \in Seq(TokenType)
    BY <1>1, JSONBAssumption DEF JSONBAssumption, Inv, Types, Rows
  <2> QED
    BY <2>1, DocumentFits
<1>3. /\ ids \in Seq(ID) /\ n \in Nat /\ Len(calls) = n
      /\ Have(ids, calls)
      /\ replica.sources[r] = [i \in 1..n |-> ValueKey(calls[i])]
  BY <1>1 DEF Inv, Types, RowsFit, ReplicaFits, Calls
<1>4. DOMAIN calls = 1..n /\ DOMAIN ids = 1..n
  BY <1>2, <1>3
<1>5. MatchExpression(docs[r], c) <=> \E i \in 1..n : Meets(Columns(calls[i]), c)
  BY <1>4 DEF MatchExpression
<1> HIDE DEF ids, calls, n
<1>6. ASSUME NEW i \in 1..n
      PROVE  /\ ids[i] \in Live /\ ids[i] \in ToSet(ids)
             /\ Meets(values[ids[i]].row, c) <=> Meets(Columns(calls[i]), c)
             /\ ValueKey(calls[i]) \in DOMAIN replica.values
  <2>1. ids[i] \in Live /\ values[ids[i]].key = ValueKey(calls[i])
    BY <1>3 DEF Have, n, ids
  <2>2. ids[i] \in ToSet(ids)
    BY <1>4 DEF ToSet
  <2> QED
    BY <1>1, <2>1, <2>2, RowMeets
<1>7. \A id \in ToSet(ids) : \E i \in 1..n : id = ids[i]
  BY <1>4 DEF ToSet
<1>8. Finds(r, c) <=> \E i \in 1..n : Meets(Columns(calls[i]), c)
  <2>1. Finds(r, c) <=> \E id \in ToSet(ids) \cap Live : Meets(values[id].row, c)
    BY DEF Finds, ids
  <2>2. ASSUME NEW id \in ToSet(ids) \cap Live, Meets(values[id].row, c)
        PROVE  \E i \in 1..n : Meets(Columns(calls[i]), c)
    BY <1>6, <1>7, <2>2
  <2>3. ASSUME NEW i \in 1..n, Meets(Columns(calls[i]), c)
        PROVE  \E id \in ToSet(ids) \cap Live : Meets(values[id].row, c)
    BY <1>6, <2>3
  <2> QED
    BY <2>1, <2>2, <2>3
<1>9. ReplicaFinds(r, c) <=> \E i \in 1..n : Meets(Columns(calls[i]), c)
  <2>1. \A key : key \in ToSet(replica.sources[r]) <=> \E i \in 1..n : key = ValueKey(calls[i])
    BY <1>3 DEF ToSet
  <2>2. ASSUME NEW i \in 1..n
        PROVE  Meets(replica.values[ValueKey(calls[i])], c) <=> Meets(Columns(calls[i]), c)
    <3>1. PICK other \in Live : values[other].key = ValueKey(calls[i]) /\ values[other].row = replica.values[ValueKey(calls[i])]
      BY <1>1, <1>6 DEF Inv, ReplicaFits, ReplicaHas
    <3>2. Meets(values[other].row, c) <=> Meets(Columns(calls[i]), c)
      BY <1>1, <3>1, RowMeets
    <3> QED
      BY <3>1, <3>2
  <2>3. ReplicaFinds(r, c) <=> \E key : key \in ToSet(replica.sources[r]) /\ key \in DOMAIN replica.values /\ Meets(replica.values[key], c)
    BY DEF ReplicaFinds
  <2> QED
    BY <1>6, <2>1, <2>2, <2>3
<1>10. ASSUME NEW term
       PROVE  FindsTerm(docs[r], term) <=> MatchTerm(docs[r], term)
  <2>1. MatchTerm(docs[r], term) <=> term # "" /\ \E i \in 1..n : Columns(calls[i]).string = term
    BY <1>4 DEF MatchTerm, calls
  <2>2. ASSUME NEW i \in 1..n, term # ""
        PROVE  Columns(calls[i]).string = term <=> calls[i].t = "string" /\ calls[i].s = term
    BY <2>2 DEF Columns
  <2>3. StringIn(calls, term) <=> \E i \in 1..n : calls[i].t = "string" /\ calls[i].s = term
    BY <1>3 DEF StringIn
  <2> QED
    BY <1>2, <2>1, <2>2, <2>3 DEF FindsTerm
<1> QED
  BY <1>5, <1>8, <1>9, <1>10

\* The index finds a row exactly if the operator without an index does, on the
\* primary and on a standby: what PGrnJSONBInsertValueSet finds or adds has the
\* columns of its call, whoever added it, and is there as long as a row refers
\* to it.  The strings for full text search are those of the same calls.
THEOREM SearchesAlwaysAgree == Spec => []SearchesAgree
BY ValuesBelongTogether, InvAgrees, PTL

-----------------------------------------------------------------------------
(* VACUUM.                                                                 *)

\* pgroonga_bulkdelete leaves no value without a row but those of an insertion
\* that has failed: the range of IDs from the smallest to the biggest that its
\* rows referred to has them all, and the cursor over it always opens.
THEOREM NoValueIsEverLeft == Spec => []NoValueIsLeft
<1>1. ValuesInv => NoValueIsLeft
  <2> SUFFICES ASSUME ValuesInv, Finished, spoilt = {}, vacuum.pc = "idle", NEW id \in Live, ~Referenced(id)
               PROVE  \E r \in Rows : inserter[r].pc = "failed" /\ id \in ToSet(inserter[r].ids)
    BY DEF NoValueIsLeft, Quiet
  <2>1. NoneIsLost
    BY DEF ValuesInv, Inv
  <2>2. ~YetToCome(id)
    BY DEF YetToCome
  <2>3. PICK r \in Rows : inserter[r].pc # "done" /\ id \in ToSet(inserter[r].ids)
    BY <2>1, <2>2 DEF NoneIsLost, InHand
  <2>4. inserter[r].pc = "failed"
    BY <2>3 DEF Finished
  <2> QED
    BY <2>3, <2>4
<1> QED
  BY <1>1, ValuesBelongTogether, PTL
=============================================================================
