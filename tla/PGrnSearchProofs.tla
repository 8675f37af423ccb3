---------------------------- MODULE PGrnSearchProofs ----------------------------
(***************************************************************************)
(* Theorems about the searches of an index (PGrnScanKeys), for all plans,  *)
(* arguments and rows: an index finds the rows the operators find          *)
(* (IndexFindsAll) and no others (IndexFindsOnly), but where the two       *)
(* formulas say that it does not.  And about searches without an index     *)
(* (PGrnSequentialSearch), at the end: whatever the conditions, the        *)
(* indexes, their options and the frequency of the vacuum, what is         *)
(* executed is what was asked for.                                         *)
(*                                                                         *)
(* Loops of the code are folds.  LeftFolds has one run of a fold exist;    *)
(* what the fold leaves is shown along that run.  The keywords of a LIKE   *)
(* pattern are in every text that matches it (LikeHasKeywords), and its    *)
(* regular expression matches those texts (LikeMatchesRegexp).  So what    *)
(* one key pushes has all rows it holds for, and no other unless rows are  *)
(* checked again (BuildFits).                                              *)
(*                                                                         *)
(* The invariant (SearchInv) says what has become of the keys so far: the  *)
(* stack holds one set, with all rows that all of them hold for (AllFits)  *)
(* and no other (OnlyFits), or the borders let in no more than any of them *)
(* (UpperFits, LowerFits).  The borders of a rescan begin with the values  *)
(* of the scan before, so the invariant speaks of values without operator. *)
(* All this is about the keys as they are read; what the query wants is    *)
(* that, but for arrays that are taken for one value (WantedRead).         *)
(***************************************************************************)
EXTENDS PGrnScanKeys, PGrnSequentialSearch, TLAPS

-----------------------------------------------------------------------------
(* Folds.                                                                  *)

\* The largest number, as FoldLeft chooses it.
LEMMA LargestOf ==
  ASSUME NEW s \in SUBSET Int, NEW x \in s, \A y \in s : x >= y
  PROVE  Max(s) = x
<1>1. \A y \in s : (\A z \in s : y >= z) => y = x
  OBVIOUS
<1> QED
  BY <1>1 DEF Max

\* One instance for each step that is folded, and what its run is.
AfterFold == INSTANCE LeftFolds WITH op <- After, Largest <- Max
LikeElementFold == INSTANCE LeftFolds WITH op <- LikeElement, Largest <- Max
LikeKeywordFold == INSTANCE LeftFolds WITH op <- LikeKeyword, Largest <- Max
MatchKeywordFold == INSTANCE LeftFolds WITH op <- MatchKeyword, Largest <- Max
LikeRegexpElementFold == INSTANCE LeftFolds WITH op <- LikeRegexpElement, Largest <- Max
AddGivenFold == INSTANCE LeftFolds WITH op <- AddGiven, Largest <- Max
AddRegexpFold == INSTANCE LeftFolds WITH op <- AddRegexp, Largest <- Max
AlternativeFold == INSTANCE LeftFolds WITH op <- Alternative, Largest <- Max
NotPrefixFold == INSTANCE LeftFolds WITH op <- NotPrefix, Largest <- Max

LEMMA AfterFolded ==
  ASSUME NEW base, NEW seq
  PROVE  FoldLeft(After, base, seq) = AfterFold!Folded(base, seq)
BY DEF AfterFold!Folded, FoldLeft, MapThenFoldSet
LEMMA AfterRuns ==
  ASSUME NEW base, NEW n \in Nat, NEW seq, DOMAIN seq = 1..n
  PROVE  \E run : /\ run[0] = base
                  /\ \A i \in 1..n : run[i] = After(run[i - 1], seq[i])
                  /\ run[n] = FoldLeft(After, base, seq)
<1>1. AfterFold!LargestIs
  BY LargestOf DEF AfterFold!LargestIs
<1>2. \E run : AfterFold!Runs(run, base, seq, n) /\ run[n] = AfterFold!Folded(base, seq)
  BY <1>1, AfterFold!FoldLeftRuns
<1> QED
  BY <1>2, AfterFolded DEF AfterFold!Runs

LEMMA LikeElementFolded ==
  ASSUME NEW base, NEW seq
  PROVE  FoldLeft(LikeElement, base, seq) = LikeElementFold!Folded(base, seq)
BY DEF LikeElementFold!Folded, FoldLeft, MapThenFoldSet
LEMMA LikeElementRuns ==
  ASSUME NEW base, NEW n \in Nat, NEW seq, DOMAIN seq = 1..n
  PROVE  \E run : /\ run[0] = base
                  /\ \A i \in 1..n : run[i] = LikeElement(run[i - 1], seq[i])
                  /\ run[n] = FoldLeft(LikeElement, base, seq)
<1>1. LikeElementFold!LargestIs
  BY LargestOf DEF LikeElementFold!LargestIs
<1>2. \E run : LikeElementFold!Runs(run, base, seq, n) /\ run[n] = LikeElementFold!Folded(base, seq)
  BY <1>1, LikeElementFold!FoldLeftRuns
<1> QED
  BY <1>2, LikeElementFolded DEF LikeElementFold!Runs

LEMMA LikeKeywordFolded ==
  ASSUME NEW base, NEW seq
  PROVE  FoldLeft(LikeKeyword, base, seq) = LikeKeywordFold!Folded(base, seq)
BY DEF LikeKeywordFold!Folded, FoldLeft, MapThenFoldSet
LEMMA LikeKeywordRuns ==
  ASSUME NEW base, NEW n \in Nat, NEW seq, DOMAIN seq = 1..n
  PROVE  \E run : /\ run[0] = base
                  /\ \A i \in 1..n : run[i] = LikeKeyword(run[i - 1], seq[i])
                  /\ run[n] = FoldLeft(LikeKeyword, base, seq)
<1>1. LikeKeywordFold!LargestIs
  BY LargestOf DEF LikeKeywordFold!LargestIs
<1>2. \E run : LikeKeywordFold!Runs(run, base, seq, n) /\ run[n] = LikeKeywordFold!Folded(base, seq)
  BY <1>1, LikeKeywordFold!FoldLeftRuns
<1> QED
  BY <1>2, LikeKeywordFolded DEF LikeKeywordFold!Runs

LEMMA MatchKeywordFolded ==
  ASSUME NEW base, NEW seq
  PROVE  FoldLeft(MatchKeyword, base, seq) = MatchKeywordFold!Folded(base, seq)
BY DEF MatchKeywordFold!Folded, FoldLeft, MapThenFoldSet
LEMMA MatchKeywordRuns ==
  ASSUME NEW base, NEW n \in Nat, NEW seq, DOMAIN seq = 1..n
  PROVE  \E run : /\ run[0] = base
                  /\ \A i \in 1..n : run[i] = MatchKeyword(run[i - 1], seq[i])
                  /\ run[n] = FoldLeft(MatchKeyword, base, seq)
<1>1. MatchKeywordFold!LargestIs
  BY LargestOf DEF MatchKeywordFold!LargestIs
<1>2. \E run : MatchKeywordFold!Runs(run, base, seq, n) /\ run[n] = MatchKeywordFold!Folded(base, seq)
  BY <1>1, MatchKeywordFold!FoldLeftRuns
<1> QED
  BY <1>2, MatchKeywordFolded DEF MatchKeywordFold!Runs

LEMMA LikeRegexpElementFolded ==
  ASSUME NEW base, NEW seq
  PROVE  FoldLeft(LikeRegexpElement, base, seq) = LikeRegexpElementFold!Folded(base, seq)
BY DEF LikeRegexpElementFold!Folded, FoldLeft, MapThenFoldSet
LEMMA LikeRegexpElementRuns ==
  ASSUME NEW base, NEW n \in Nat, NEW seq, DOMAIN seq = 1..n
  PROVE  \E run : /\ run[0] = base
                  /\ \A i \in 1..n : run[i] = LikeRegexpElement(run[i - 1], seq[i])
                  /\ run[n] = FoldLeft(LikeRegexpElement, base, seq)
<1>1. LikeRegexpElementFold!LargestIs
  BY LargestOf DEF LikeRegexpElementFold!LargestIs
<1>2. \E run : LikeRegexpElementFold!Runs(run, base, seq, n) /\ run[n] = LikeRegexpElementFold!Folded(base, seq)
  BY <1>1, LikeRegexpElementFold!FoldLeftRuns
<1> QED
  BY <1>2, LikeRegexpElementFolded DEF LikeRegexpElementFold!Runs

LEMMA AddGivenFolded ==
  ASSUME NEW base, NEW seq
  PROVE  FoldLeft(AddGiven, base, seq) = AddGivenFold!Folded(base, seq)
BY DEF AddGivenFold!Folded, FoldLeft, MapThenFoldSet
LEMMA AddGivenRuns ==
  ASSUME NEW base, NEW n \in Nat, NEW seq, DOMAIN seq = 1..n
  PROVE  \E run : /\ run[0] = base
                  /\ \A i \in 1..n : run[i] = AddGiven(run[i - 1], seq[i])
                  /\ run[n] = FoldLeft(AddGiven, base, seq)
<1>1. AddGivenFold!LargestIs
  BY LargestOf DEF AddGivenFold!LargestIs
<1>2. \E run : AddGivenFold!Runs(run, base, seq, n) /\ run[n] = AddGivenFold!Folded(base, seq)
  BY <1>1, AddGivenFold!FoldLeftRuns
<1> QED
  BY <1>2, AddGivenFolded DEF AddGivenFold!Runs

LEMMA AddRegexpFolded ==
  ASSUME NEW base, NEW seq
  PROVE  FoldLeft(AddRegexp, base, seq) = AddRegexpFold!Folded(base, seq)
BY DEF AddRegexpFold!Folded, FoldLeft, MapThenFoldSet
LEMMA AddRegexpRuns ==
  ASSUME NEW base, NEW n \in Nat, NEW seq, DOMAIN seq = 1..n
  PROVE  \E run : /\ run[0] = base
                  /\ \A i \in 1..n : run[i] = AddRegexp(run[i - 1], seq[i])
                  /\ run[n] = FoldLeft(AddRegexp, base, seq)
<1>1. AddRegexpFold!LargestIs
  BY LargestOf DEF AddRegexpFold!LargestIs
<1>2. \E run : AddRegexpFold!Runs(run, base, seq, n) /\ run[n] = AddRegexpFold!Folded(base, seq)
  BY <1>1, AddRegexpFold!FoldLeftRuns
<1> QED
  BY <1>2, AddRegexpFolded DEF AddRegexpFold!Runs

LEMMA AlternativeFolded ==
  ASSUME NEW base, NEW seq
  PROVE  FoldLeft(Alternative, base, seq) = AlternativeFold!Folded(base, seq)
BY DEF AlternativeFold!Folded, FoldLeft, MapThenFoldSet
LEMMA AlternativeRuns ==
  ASSUME NEW base, NEW n \in Nat, NEW seq, DOMAIN seq = 1..n
  PROVE  \E run : /\ run[0] = base
                  /\ \A i \in 1..n : run[i] = Alternative(run[i - 1], seq[i])
                  /\ run[n] = FoldLeft(Alternative, base, seq)
<1>1. AlternativeFold!LargestIs
  BY LargestOf DEF AlternativeFold!LargestIs
<1>2. \E run : AlternativeFold!Runs(run, base, seq, n) /\ run[n] = AlternativeFold!Folded(base, seq)
  BY <1>1, AlternativeFold!FoldLeftRuns
<1> QED
  BY <1>2, AlternativeFolded DEF AlternativeFold!Runs

LEMMA NotPrefixFolded ==
  ASSUME NEW base, NEW seq
  PROVE  FoldLeft(NotPrefix, base, seq) = NotPrefixFold!Folded(base, seq)
BY DEF NotPrefixFold!Folded, FoldLeft, MapThenFoldSet
LEMMA NotPrefixRuns ==
  ASSUME NEW base, NEW n \in Nat, NEW seq, DOMAIN seq = 1..n
  PROVE  \E run : /\ run[0] = base
                  /\ \A i \in 1..n : run[i] = NotPrefix(run[i - 1], seq[i])
                  /\ run[n] = FoldLeft(NotPrefix, base, seq)
<1>1. NotPrefixFold!LargestIs
  BY LargestOf DEF NotPrefixFold!LargestIs
<1>2. \E run : NotPrefixFold!Runs(run, base, seq, n) /\ run[n] = NotPrefixFold!Folded(base, seq)
  BY <1>1, NotPrefixFold!FoldLeftRuns
<1> QED
  BY <1>2, NotPrefixFolded DEF NotPrefixFold!Runs

-----------------------------------------------------------------------------
(* The stack of an expression.                                             *)

Data == [stack : Seq(SUBSET Rows), short : BOOLEAN, empty : BOOLEAN, nExpressions : Nat]

LEMMA PushData ==
  ASSUME NEW d \in Data, NEW S \in SUBSET Rows
  PROVE  /\ Push(d, S) \in Data
         /\ Push(d, S).stack = Append(d.stack, S)
         /\ Push(d, S).short = d.short
         /\ Push(d, S).empty = d.empty
         /\ Push(d, S).nExpressions = d.nExpressions
BY DEF Push, Data

\* An operator takes two sets off the stack and leaves one.
LEMMA CombineData ==
  ASSUME NEW d \in Data, NEW S, Len(d.stack) >= 2 => S \in SUBSET Rows
  PROVE  /\ Combine(d, S) \in Data
         /\ Combine(d, S).empty = d.empty
         /\ Combine(d, S).nExpressions = d.nExpressions
         /\ d.short => Combine(d, S).short
         /\ Len(d.stack) < 2 => Combine(d, S).short /\ Combine(d, S).stack = d.stack
<1>1. d.stack \in Seq(SUBSET Rows) /\ Len(d.stack) \in Nat
  BY DEF Data
<1>2. CASE Len(d.stack) < 2
  BY <1>1, <1>2 DEF Combine, Data
<1>3. CASE Len(d.stack) >= 2
  <2>1. SubSeq(d.stack, 1, Len(d.stack) - 2) \in Seq(SUBSET Rows)
    BY <1>1, <1>3
  <2>2. Append(SubSeq(d.stack, 1, Len(d.stack) - 2), S) \in Seq(SUBSET Rows)
    BY <2>1, <1>3
  <2>6. Combine(d, S) = [d EXCEPT !.stack = Append(SubSeq(d.stack, 1, Len(d.stack) - 2), S)]
    BY <1>1, <1>3 DEF Combine
  <2>3. PICK stack \in Seq(SUBSET Rows) : Combine(d, S) = [d EXCEPT !.stack = stack]
    BY <2>2, <2>6
  <2>4. [d EXCEPT !.stack = stack] \in Data /\ [d EXCEPT !.stack = stack].empty = d.empty
    BY DEF Data
  <2>5. [d EXCEPT !.stack = stack].nExpressions = d.nExpressions /\ [d EXCEPT !.stack = stack].short = d.short
    BY DEF Data
  <2> QED
    BY <1>1, <1>3, <2>3, <2>4, <2>5
<1> QED
  BY <1>1, <1>2, <1>3

LEMMA OperandsData ==
  ASSUME NEW d \in Data, Len(d.stack) >= 2
  PROVE  Left(d) \in SUBSET Rows /\ Last(d.stack) \in SUBSET Rows
<1>1. d.stack \in Seq(SUBSET Rows) /\ Len(d.stack) \in Nat
  BY DEF Data
<1>2. Len(d.stack) \in 1..Len(d.stack) /\ Len(d.stack) - 1 \in 1..Len(d.stack)
  BY <1>1
<1> QED
  BY <1>1, <1>2 DEF Left, Last

LEMMA OperatorData ==
  ASSUME NEW d \in Data, NEW r \in {Or(d), And(d), AndNot(d)}
  PROVE  /\ r \in Data
         /\ r.empty = d.empty
         /\ r.nExpressions = d.nExpressions
         /\ d.short => r.short
         /\ Len(d.stack) < 2 => r.short /\ r.stack = d.stack
<1>1. PICK S : r = Combine(d, S) /\ (Len(d.stack) >= 2 => S \in SUBSET Rows)
  <2>1. Len(d.stack) >= 2 => /\ Left(d) \cup Last(d.stack) \in SUBSET Rows
                            /\ Left(d) \cap Last(d.stack) \in SUBSET Rows
                            /\ Left(d) \ Last(d.stack) \in SUBSET Rows
    BY OperandsData
  <2> QED
    BY <2>1 DEF Or, And, AndNot
<1> QED
  BY <1>1, CombineData

LEMMA CombinePushed ==
  ASSUME NEW d \in Data, NEW A \in SUBSET Rows, NEW B \in SUBSET Rows, NEW C \in SUBSET Rows
  PROVE  /\ Left(Push(Push(d, A), B)) = A
         /\ Last(Push(Push(d, A), B).stack) = B
         /\ Combine(Push(Push(d, A), B), C) = Push(d, C)
<1> DEFINE n == Len(d.stack)
           two == Append(Append(d.stack, A), B)
<1>1. d.stack \in Seq(SUBSET Rows) /\ n \in Nat
  BY DEF Data
<1>2. two \in Seq(SUBSET Rows) /\ Len(two) = n + 2 /\ two[n + 1] = A /\ two[n + 2] = B
  BY <1>1
<1>3. Push(Push(d, A), B) \in Data /\ Push(Push(d, A), B).stack = two
  BY PushData
<1>4. SubSeq(two, 1, n) = d.stack
  <2>1. SubSeq(two, 1, n) \in Seq(SUBSET Rows) /\ Len(SubSeq(two, 1, n)) = n
    BY <1>1, <1>2
  <2>2. \A i \in 1..n : SubSeq(two, 1, n)[i] = two[i]
    <3> HIDE DEF two
    <3> QED
      BY <1>1, <1>2
  <2>3. \A i \in 1..n : two[i] = d.stack[i]
    BY <1>1
  <2> QED
    BY <1>1, <2>1, <2>2, <2>3
<1> HIDE DEF two
<1>5. Combine(Push(Push(d, A), B), C) = Push(d, C)
  <2>1. PICK e : e = Push(Push(d, A), B)
    OBVIOUS
  <2>2. e.stack = two /\ ~(Len(e.stack) < 2) /\ Len(e.stack) - 2 = n
    BY <1>1, <1>2, <1>3, <2>1
  <2>3. Combine(e, C) = [e EXCEPT !.stack = Append(SubSeq(e.stack, 1, Len(e.stack) - 2), C)]
    BY <2>2 DEF Combine
  <2>4. Combine(e, C) = [e EXCEPT !.stack = Append(d.stack, C)]
    BY <1>4, <2>2, <2>3
  <2>5. [e EXCEPT !.stack = Append(d.stack, C)] = Push(d, C)
    BY <2>1 DEF Push, Data
  <2> QED
    BY <2>1, <2>4, <2>5
<1> QED
  BY <1>1, <1>2, <1>3, <1>5 DEF Left, Last

LEMMA OperatorPushed ==
  ASSUME NEW d \in Data, NEW A \in SUBSET Rows, NEW B \in SUBSET Rows
  PROVE  /\ Or(Push(Push(d, A), B)) = Push(d, A \cup B)
         /\ And(Push(Push(d, A), B)) = Push(d, A \cap B)
         /\ AndNot(Push(Push(d, A), B)) = Push(d, A \ B)
<1>1. A \cup B \in SUBSET Rows /\ A \cap B \in SUBSET Rows /\ A \ B \in SUBSET Rows
  OBVIOUS
<1>2. PICK e : e = Push(Push(d, A), B)
  OBVIOUS
<1>3. Left(e) = A /\ Last(e.stack) = B /\ \A C \in SUBSET Rows : Combine(e, C) = Push(d, C)
  BY <1>2, CombinePushed
<1>4. Or(e) = Combine(e, A \cup B) /\ And(e) = Combine(e, A \cap B) /\ AndNot(e) = Combine(e, A \ B)
  BY <1>3 DEF Or, And, AndNot
<1>5. Or(e) = Push(d, A \cup B) /\ And(e) = Push(d, A \cap B) /\ AndNot(e) = Push(d, A \ B)
  BY <1>1, <1>3, <1>4
<1> QED
  BY <1>2, <1>5

\* Without an operand to the left the expression is short.
LEMMA OperatorShort ==
  ASSUME NEW d \in Data, d.stack = <<>>, NEW A \in SUBSET Rows
  PROVE  And(Push(d, A)).short /\ And(d).short /\ AndNot(Push(d, A)).short
<1>1. Push(d, A) \in Data /\ Len(Push(d, A).stack) < 2 /\ Len(d.stack) < 2
  BY PushData
<1> QED
  BY <1>1, OperatorData

-----------------------------------------------------------------------------
(* The places a pattern leads to.                                          *)

Elements == Characters \cup {"any", "any number"}

Leads(element, text, p, q) ==
  CASE element = "any number" -> p <= q
    [] element = "any" -> p + 1 = q
    [] OTHER -> p + 1 = q /\ text[q] = element

LEMMA AfterLeads ==
  ASSUME NEW text, NEW places, NEW e
  PROVE  After([text |-> text, places |-> places], e)
           = [text |-> text, places |-> {q \in 0 .. Len(text) : \E p \in places : Leads(e, text, p, q)}]
<1>1. PICK state : state = [text |-> text, places |-> places]
  OBVIOUS
<1>2. state.text = text /\ state.places = places
  BY <1>1
<1>3. After(state, e) = [state EXCEPT !.places = {q \in 0 .. Len(text) : \E p \in places : Leads(e, text, p, q)}]
  BY <1>2 DEF After, Leads
<1> QED
  BY <1>1, <1>3

LEMMA ReachedState ==
  ASSUME NEW from, NEW elements \in Seq(Elements), NEW text
  PROVE  FoldLeft(After, [text |-> text, places |-> from], elements)
           = [text |-> text, places |-> Reached(from, elements, text)]
<1> DEFINE n == Len(elements)
<1>1. n \in Nat /\ DOMAIN elements = 1..n
  OBVIOUS
<1>2. PICK run : /\ run[0] = [text |-> text, places |-> from]
                 /\ \A i \in 1..n : run[i] = After(run[i - 1], elements[i])
                 /\ run[n] = FoldLeft(After, [text |-> text, places |-> from], elements)
  BY <1>1, AfterRuns, ZenonT(30)
<1> DEFINE S == {i \in 0..n : run[i] = [text |-> text, places |-> run[i].places]}
<1>3. 0 \in S
  BY <1>1, <1>2
<1>4. ASSUME NEW i \in 0..n - 1, i \in S
      PROVE  i + 1 \in S
  <2>1. i + 1 \in 1..n /\ i + 1 \in 0..n /\ (i + 1) - 1 = i
    BY <1>1
  <2>2. run[i + 1] = After(run[i], elements[i + 1]) /\ run[i] = [text |-> text, places |-> run[i].places]
    BY <1>2, <1>4, <2>1
  <2>4. PICK places : run[i] = [text |-> text, places |-> places]
    BY <2>2
  <2>5. After([text |-> text, places |-> places], elements[i + 1])
          = [text |-> text, places |-> {q \in 0 .. Len(text) : \E p \in places : Leads(elements[i + 1], text, p, q)}]
    BY AfterLeads
  <2>3. PICK others : run[i + 1] = [text |-> text, places |-> others]
    BY <2>2, <2>4, <2>5
  <2> QED
    BY <2>1, <2>3
<1>5. n \in S
  <2> HIDE DEF S, n
  <2>1. n \in 0..n
    BY <1>1
  <2> QED
    BY <1>1, <1>3, <1>4, <2>1, AfterFold!FromZero
<1> QED
  BY <1>2, <1>5 DEF Reached

LEMMA ReachedNone ==
  ASSUME NEW from, NEW text
  PROVE  Reached(from, <<>>, text) = from
<1>1. PICK n, none : n = 0 /\ none = <<>>
  OBVIOUS
<1>2. n \in Nat /\ DOMAIN none = 1..n
  BY <1>1
<1>3. PICK run : /\ run[0] = [text |-> text, places |-> from]
                 /\ \A i \in 1..n : run[i] = After(run[i - 1], none[i])
                 /\ run[n] = FoldLeft(After, [text |-> text, places |-> from], none)
  BY <1>2, AfterRuns, ZenonT(30)
<1> QED
  BY <1>1, <1>3 DEF Reached

LEMMA ReachedAppended ==
  ASSUME NEW from, NEW elements \in Seq(Elements), NEW e \in Elements, NEW text
  PROVE  \A q : q \in Reached(from, Append(elements, e), text)
                 <=> q \in 0 .. Len(text) /\ \E p \in Reached(from, elements, text) : Leads(e, text, p, q)
<1> DEFINE n == Len(elements)
           more == Append(elements, e)
           base == [text |-> text, places |-> from]
<1>1. /\ n \in Nat /\ DOMAIN elements = 1..n
      /\ more \in Seq(Elements) /\ DOMAIN more = 1..(n + 1) /\ more[n + 1] = e
      /\ \A i \in 1..n : more[i] = elements[i]
  OBVIOUS
<1>2. AfterFold!LargestIs
  BY LargestOf DEF AfterFold!LargestIs
<1>3. AfterFold!Folded(base, more) = After(AfterFold!Folded(base, elements), more[n + 1])
  <2> HIDE DEF more, base, n
  <2> QED
    BY <1>1, <1>2, AfterFold!FoldLeftAppended
<1>4. FoldLeft(After, base, more) = After(FoldLeft(After, base, elements), e)
  <2> HIDE DEF more, base, n
  <2> QED
    BY <1>1, <1>3, AfterFolded
<1>5. FoldLeft(After, base, elements) = [text |-> text, places |-> Reached(from, elements, text)]
  BY ReachedState
<1>6. FoldLeft(After, base, more)
        = [text |-> text,
           places |-> {q \in 0 .. Len(text) : \E p \in Reached(from, elements, text) : Leads(e, text, p, q)}]
  BY <1>4, <1>5, AfterLeads
<1>7. Reached(from, more, text) = FoldLeft(After, base, more).places
  BY DEF Reached
<1> HIDE DEF base
<1>8. Reached(from, more, text)
        = {q \in 0 .. Len(text) : \E p \in Reached(from, elements, text) : Leads(e, text, p, q)}
  BY <1>6, <1>7
<1> QED
  BY <1>8

LEMMA ReachedPlaces ==
  ASSUME NEW text, NEW from \in SUBSET (0 .. Len(text)), NEW elements \in Seq(Elements)
  PROVE  Reached(from, elements, text) \subseteq 0 .. Len(text)
<1> DEFINE n == Len(elements)
<1>1. n \in Nat /\ DOMAIN elements = 1..n
  OBVIOUS
<1>2. PICK run : /\ run[0] = [text |-> text, places |-> from]
                 /\ \A i \in 1..n : run[i] = After(run[i - 1], elements[i])
                 /\ run[n] = FoldLeft(After, [text |-> text, places |-> from], elements)
  BY <1>1, AfterRuns, ZenonT(30)
<1> DEFINE S == {i \in 0..n : \E places \in SUBSET (0 .. Len(text)) : run[i] = [text |-> text, places |-> places]}
<1>3. 0 \in S
  <2>1. 0 \in 0..n /\ run[0] = [text |-> text, places |-> from]
    BY <1>1, <1>2
  <2> QED
    BY <2>1
<1>4. ASSUME NEW i \in 0..n - 1, i \in S
      PROVE  i + 1 \in S
  <2>1. i + 1 \in 1..n /\ i + 1 \in 0..n /\ (i + 1) - 1 = i
    BY <1>1
  <2>2. PICK places \in SUBSET (0 .. Len(text)) : run[i] = [text |-> text, places |-> places]
    BY <1>4
  <2>3. run[i + 1] = After(run[i], elements[i + 1])
    BY <1>2, <2>1
  <2>4. run[i + 1] = [text |-> text, places |-> {q \in 0 .. Len(text) : \E p \in places : Leads(elements[i + 1], text, p, q)}]
    BY <2>2, <2>3, AfterLeads
  <2>5. {q \in 0 .. Len(text) : \E p \in places : Leads(elements[i + 1], text, p, q)} \in SUBSET (0 .. Len(text))
    OBVIOUS
  <2> QED
    BY <2>1, <2>4, <2>5
<1>5. n \in S
  <2> HIDE DEF S, n
  <2>1. n \in 0..n
    BY <1>1
  <2> QED
    BY <1>1, <1>3, <1>4, <2>1, AfterFold!FromZero
<1>6. PICK places \in SUBSET (0 .. Len(text)) : run[n] = [text |-> text, places |-> places]
  BY <1>5
<1>7. Reached(from, elements, text) = run[n].places
  BY <1>2 DEF Reached
<1> QED
  BY <1>6, <1>7

\* From more places a pattern leads to more places.
LEMMA ReachedMore ==
  ASSUME NEW text, NEW elements \in Seq(Elements), NEW others \in Seq(Elements), NEW e \in Elements, NEW from, NEW start,
         Reached(from, elements, text) \subseteq Reached(start, others, text)
  PROVE  Reached(from, Append(elements, e), text) \subseteq Reached(start, Append(others, e), text)
BY ReachedAppended

-----------------------------------------------------------------------------
(* The keywords of a pattern are parts of every text that is like it.      *)

LEMMA Appended ==
  ASSUME NEW U, NEW s \in Seq(U), NEW x \in U
  PROVE  Append(s, x) \in Seq(U)
OBVIOUS

ElementStates == [escaped : BOOLEAN, elements : Seq(Elements)]
KeywordStates == [escaped : BOOLEAN, keyword : Seq(Characters), keywords : Seq(Seq(Characters) \ {<<>>})]

\* A character stands for itself, escapes the next one, or is a wildcard.
IsLiteral(state, c) == state.escaped \/ c \notin {"\\", "%", "_"}

LEMMA LikeElementStep ==
  ASSUME NEW e \in ElementStates, NEW c \in Characters
  PROVE  /\ IsLiteral(e, c) =>
              LikeElement(e, c) = [escaped |-> FALSE, elements |-> Append(e.elements, c)]
         /\ ~IsLiteral(e, c) /\ c = "\\" =>
              LikeElement(e, c) = [escaped |-> TRUE, elements |-> e.elements]
         /\ ~IsLiteral(e, c) /\ c = "%" =>
              LikeElement(e, c) = [escaped |-> FALSE, elements |-> Append(e.elements, "any number")]
         /\ ~IsLiteral(e, c) /\ c = "_" =>
              LikeElement(e, c) = [escaped |-> FALSE, elements |-> Append(e.elements, "any")]
         /\ LikeElement(e, c) \in ElementStates
<1> e.elements \in Seq(Elements) /\ e.escaped \in BOOLEAN
  BY DEF ElementStates
<1> c \in Elements /\ "any" \in Elements /\ "any number" \in Elements
  BY DEF Elements
<1>1. Append(e.elements, c) \in Seq(Elements)
  BY Appended
<1>2. Append(e.elements, "any number") \in Seq(Elements) /\ Append(e.elements, "any") \in Seq(Elements)
  BY Appended
<1>3. CASE e.escaped
  BY <1>1, <1>3 DEF ElementStates, LikeElement, IsLiteral
<1>4. CASE ~e.escaped /\ c = "\\"
  BY <1>4 DEF ElementStates, LikeElement, IsLiteral
<1>5. CASE ~e.escaped /\ c = "%"
  BY <1>2, <1>5 DEF ElementStates, LikeElement, IsLiteral
<1>6. CASE ~e.escaped /\ c = "_"
  BY <1>2, <1>6 DEF ElementStates, LikeElement, IsLiteral
<1>7. CASE ~e.escaped /\ c \notin {"\\", "%", "_"}
  BY <1>1, <1>7 DEF ElementStates, LikeElement, IsLiteral
<1> QED
  BY <1>3, <1>4, <1>5, <1>6, <1>7

LEMMA LikeKeywordStep ==
  ASSUME NEW k \in KeywordStates, NEW c
  PROVE  /\ IsLiteral(k, c) =>
              LikeKeyword(k, c) = [escaped |-> FALSE, keyword |-> Append(k.keyword, c), keywords |-> k.keywords]
         /\ ~IsLiteral(k, c) /\ c = "\\" =>
              LikeKeyword(k, c) = [escaped |-> TRUE, keyword |-> k.keyword, keywords |-> k.keywords]
         /\ ~IsLiteral(k, c) /\ c \in {"%", "_"} =>
              \E keywords \in {k.keywords, Append(k.keywords, k.keyword)} :
                /\ LikeKeyword(k, c) = [escaped |-> FALSE, keyword |-> <<>>, keywords |-> keywords]
                /\ k.keyword = <<>> => keywords = k.keywords
<1>1. k.escaped \in BOOLEAN /\ k = [escaped |-> k.escaped, keyword |-> k.keyword, keywords |-> k.keywords]
  BY DEF KeywordStates
<1>2. CASE k.escaped
  BY <1>1, <1>2 DEF LikeKeyword, IsLiteral
<1>3. CASE ~k.escaped /\ c = "\\"
  BY <1>1, <1>3 DEF LikeKeyword, IsLiteral
<1>4. CASE ~k.escaped /\ c \in {"%", "_"}
  <2>1. CASE k.keyword = <<>>
    BY <1>1, <1>4, <2>1 DEF LikeKeyword, IsLiteral
  <2>2. CASE k.keyword # <<>>
    BY <1>1, <1>4, <2>2 DEF LikeKeyword, IsLiteral
  <2> QED
    BY <2>1, <2>2
<1>5. CASE ~k.escaped /\ c \notin {"\\", "%", "_"}
  BY <1>1, <1>5 DEF LikeKeyword, IsLiteral
<1> QED
  BY <1>2, <1>3, <1>4, <1>5

EndsWith(text, q, keyword) ==
  Len(keyword) <= q /\ \A j \in 1..Len(keyword) : text[q - Len(keyword) + j] = keyword[j]

LEMMA EndsWithHas ==
  ASSUME NEW text \in Seq(Characters), NEW q \in 0..Len(text), NEW keyword \in Seq(Characters),
         EndsWith(text, q, keyword)
  PROVE  HasKeyword(text, keyword)
<1> DEFINE i == q - Len(keyword)
           part == SubSeq(text, i + 1, i + Len(keyword))
<1>1. i \in 0..Len(text) - Len(keyword) /\ i + Len(keyword) = q /\ Len(keyword) \in Nat
  BY DEF EndsWith
<1>2. part \in Seq(Characters) /\ Len(part) = Len(keyword)
  BY <1>1
<1>3. \A j \in 1..Len(keyword) : part[j] = text[i + j]
  BY <1>1, <1>2
<1>4. \A j \in 1..Len(keyword) : part[j] = keyword[j]
  BY <1>3 DEF EndsWith
<1>5. part = keyword
  <2> HIDE DEF part
  <2> QED
    BY <1>2, <1>4
<1> HIDE DEF i
<1> QED
  BY <1>1, <1>5 DEF HasKeyword

\* What has been read of a pattern, as elements and as keywords.
KeywordsFit(text, e, k) ==
  /\ e \in ElementStates /\ k \in KeywordStates
  /\ e.escaped <=> k.escaped
  /\ \A q \in Reached({0}, e.elements, text) : EndsWith(text, q, k.keyword)
  /\ Reached({0}, e.elements, text) # {} => \A l \in DOMAIN k.keywords : HasKeyword(text, k.keywords[l])

LEMMA KeywordsFitStep ==
  ASSUME NEW text \in Seq(Characters), NEW c \in Characters, NEW e, NEW k, KeywordsFit(text, e, k)
  PROVE  KeywordsFit(text, LikeElement(e, c), LikeKeyword(k, c))
<1>a. PICK f, l : f = LikeElement(e, c) /\ l = LikeKeyword(k, c)
  OBVIOUS
<1>b. PICK P, Q : P = Reached({0}, e.elements, text) /\ Q = Reached({0}, f.elements, text)
  OBVIOUS
<1> SUFFICES KeywordsFit(text, f, l)
  BY <1>a
<1>1. e \in ElementStates /\ k \in KeywordStates /\ (e.escaped <=> k.escaped)
  BY DEF KeywordsFit
<1>2. e.elements \in Seq(Elements) /\ k.keyword \in Seq(Characters) /\ k.keywords \in Seq(Seq(Characters) \ {<<>>})
  BY <1>1 DEF ElementStates, KeywordStates
<1>3. P \subseteq 0..Len(text)
  <2>1. {0} \in SUBSET (0..Len(text))
    OBVIOUS
  <2> QED
    BY <1>b, <1>2, <2>1, ReachedPlaces
<1>4. f \in ElementStates
  BY <1>a, <1>1, LikeElementStep
<1>5. c # "any" /\ c # "any number" /\ c \in Elements
  BY ScanKeysAssumption DEF ScanKeysAssumption, Elements
<1>6. IsLiteral(e, c) <=> IsLiteral(k, c)
  BY <1>1 DEF IsLiteral
<1>7. \A q \in P : EndsWith(text, q, k.keyword)
  BY <1>b DEF KeywordsFit
<1>8. P # {} => \A m \in DOMAIN k.keywords : HasKeyword(text, k.keywords[m])
  BY <1>b DEF KeywordsFit
<1>9. CASE IsLiteral(e, c)
  <2>1. f = [escaped |-> FALSE, elements |-> Append(e.elements, c)]
    BY <1>a, <1>1, <1>9, LikeElementStep
  <2>2. l = [escaped |-> FALSE, keyword |-> Append(k.keyword, c), keywords |-> k.keywords]
    BY <1>a, <1>1, <1>6, <1>9, LikeKeywordStep
  <2>3. Append(k.keyword, c) \in Seq(Characters) /\ Len(Append(k.keyword, c)) = Len(k.keyword) + 1
    BY <1>2
  <2>4. l \in KeywordStates
    BY <1>2, <2>2, <2>3 DEF KeywordStates
  <2>5. \A q : q \in Q <=> q \in 0 .. Len(text) /\ \E p \in P : Leads(c, text, p, q)
    <3>1. \A q : q \in Reached({0}, Append(e.elements, c), text)
                 <=> q \in 0 .. Len(text) /\ \E p \in Reached({0}, e.elements, text) : Leads(c, text, p, q)
      BY <1>2, <1>5, ReachedAppended
    <3> QED
      BY <1>b, <2>1, <3>1
  <2>6. \A q \in Q : q \in 0..Len(text) /\ q - 1 \in P /\ text[q] = c
    <3>1. \A p \in P : \A q : Leads(c, text, p, q) => p + 1 = q /\ text[q] = c
      BY <1>5 DEF Leads
    <3> QED
      BY <1>3, <2>5, <3>1
  <2>7. ASSUME NEW q \in Q
        PROVE  EndsWith(text, q, l.keyword)
    <3> DEFINE longer == Append(k.keyword, c)
    <3>0. PICK n : n = Len(k.keyword)
      OBVIOUS
    <3>1. n \in Nat /\ q \in Nat /\ q - 1 \in P /\ text[q] = c
      BY <1>2, <2>6, <3>0
    <3>2. n <= q - 1 /\ \A j \in 1..n : text[q - 1 - n + j] = k.keyword[j]
      BY <1>7, <3>0, <3>1 DEF EndsWith
    <3>3. longer[n + 1] = c /\ \A j \in 1..n : longer[j] = k.keyword[j]
      BY <1>2, <3>0
    <3>4. ASSUME NEW j \in 1..(n + 1)
          PROVE  text[q - (n + 1) + j] = longer[j]
      <4> HIDE DEF longer
      <4>1. q - (n + 1) + j = q - 1 - n + j
        BY <3>1
      <4>2. CASE j = n + 1
        BY <3>1, <3>3, <4>1, <4>2
      <4>3. CASE j \in 1..n
        BY <3>2, <3>3, <4>1, <4>3
      <4>4. j = n + 1 \/ j \in 1..n
        BY <3>1
      <4> QED
        BY <4>2, <4>3, <4>4
    <3>5. l.keyword = longer /\ Len(longer) = n + 1 /\ n + 1 <= q
      BY <2>2, <2>3, <3>0, <3>1, <3>2
    <3> HIDE DEF longer
    <3> QED
      BY <3>4, <3>5 DEF EndsWith
  <2>8. Q # {} => \A m \in DOMAIN l.keywords : HasKeyword(text, l.keywords[m])
    BY <1>8, <2>2, <2>6
  <2>9. f.escaped <=> l.escaped
    BY <2>1, <2>2
  <2> QED
    BY <1>b, <1>4, <2>4, <2>7, <2>8, <2>9 DEF KeywordsFit
<1>10. CASE ~IsLiteral(e, c) /\ c = "\\"
  <2>1. f = [escaped |-> TRUE, elements |-> e.elements]
    BY <1>a, <1>1, <1>10, LikeElementStep
  <2>2. l = [escaped |-> TRUE, keyword |-> k.keyword, keywords |-> k.keywords]
    BY <1>a, <1>1, <1>6, <1>10, LikeKeywordStep
  <2>3. l \in KeywordStates
    BY <1>2, <2>2 DEF KeywordStates
  <2> QED
    BY <1>b, <1>4, <1>7, <1>8, <2>1, <2>2, <2>3 DEF KeywordsFit
<1>11. CASE ~IsLiteral(e, c) /\ c \in {"%", "_"}
  <2>1. PICK w \in Elements : f = [escaped |-> FALSE, elements |-> Append(e.elements, w)]
    BY <1>a, <1>1, <1>11, LikeElementStep, "any" \in Elements, "any number" \in Elements DEF Elements
  <2>2. PICK keywords \in {k.keywords, Append(k.keywords, k.keyword)} :
          /\ l = [escaped |-> FALSE, keyword |-> <<>>, keywords |-> keywords]
          /\ k.keyword = <<>> => keywords = k.keywords
    BY <1>a, <1>1, <1>6, <1>11, LikeKeywordStep
  <2>3. keywords \in Seq(Seq(Characters) \ {<<>>})
    <3>1. k.keyword # <<>> => Append(k.keywords, k.keyword) \in Seq(Seq(Characters) \ {<<>>})
      BY <1>2, Appended
    <3> QED
      BY <1>2, <2>2, <3>1
  <2>4. l \in KeywordStates
    BY <2>2, <2>3 DEF KeywordStates
  <2>5. Q \subseteq 0..Len(text) /\ (Q # {} => P # {})
    <3>1. \A q : q \in Reached({0}, Append(e.elements, w), text)
                 <=> q \in 0 .. Len(text) /\ \E p \in Reached({0}, e.elements, text) : Leads(w, text, p, q)
      BY <1>2, ReachedAppended
    <3> QED
      BY <1>b, <2>1, <3>1
  <2>6. ASSUME NEW q \in Q
        PROVE  EndsWith(text, q, l.keyword)
    BY <2>2, <2>5 DEF EndsWith
  <2>7. P # {} => HasKeyword(text, k.keyword)
    BY <1>2, <1>3, <1>7, EndsWithHas
  <2>8. Q # {} => \A m \in DOMAIN l.keywords : HasKeyword(text, l.keywords[m])
    <3>1. CASE keywords = k.keywords
      BY <1>8, <2>2, <2>5, <3>1
    <3>2. CASE keywords = Append(k.keywords, k.keyword)
      <4>1. \A m \in DOMAIN keywords : keywords[m] = k.keyword \/ (m \in DOMAIN k.keywords /\ keywords[m] = k.keywords[m])
        BY <1>2, <3>2
      <4> QED
        BY <1>8, <2>2, <2>5, <2>7, <4>1
    <3> QED
      BY <2>2, <3>1, <3>2
  <2>9. f.escaped <=> l.escaped
    BY <2>1, <2>2
  <2> QED
    BY <1>b, <1>4, <2>4, <2>6, <2>8, <2>9 DEF KeywordsFit
<1> QED
  BY <1>9, <1>10, <1>11 DEF IsLiteral

LEMMA LastKeyword ==
  ASSUME NEW k \in KeywordStates
  PROVE  \/ LikeKeyword(k, "%").keywords = k.keywords
         \/ LikeKeyword(k, "%").keywords = Append(k.keywords, k.keyword) /\ k.keyword # <<>>
<1>1. CASE k.escaped
  <2>1. LikeKeyword(k, "%") = [k EXCEPT !.escaped = FALSE, !.keyword = Append(@, "%")]
    BY <1>1 DEF LikeKeyword
  <2> QED
    BY <2>1 DEF KeywordStates
<1>2. CASE ~k.escaped
  <2>1. LikeKeyword(k, "%")
          = [k EXCEPT !.keywords = IF k.keyword = <<>> THEN @ ELSE Append(@, k.keyword), !.keyword = <<>>]
    BY <1>2 DEF LikeKeyword
  <2>2. LikeKeyword(k, "%").keywords = IF k.keyword = <<>> THEN k.keywords ELSE Append(k.keywords, k.keyword)
    BY <2>1 DEF KeywordStates
  <2> QED
    BY <2>2
<1> QED
  BY <1>1, <1>2

\* The elements of a pattern, and what LikeKeyword makes of it before the "%"
\* that is appended.
LEMMA KeywordsFitPattern ==
  ASSUME NEW text \in Seq(Characters), NEW pattern \in Seq(Characters)
  PROVE  \E k : /\ KeywordsFit(text, LikeElements(pattern), k)
                /\ LikeKeywords(pattern) = LikeKeyword(k, "%").keywords
<1>1. PICK n, longer : n = Len(pattern) /\ longer = Append(pattern, "%")
  OBVIOUS
<1>2. /\ n \in Nat /\ DOMAIN pattern = 1..n /\ n + 1 \in Nat /\ DOMAIN longer = 1..(n + 1)
      /\ longer[n + 1] = "%" /\ \A i \in 1..n : longer[i] = pattern[i] /\ pattern[i] \in Characters
  BY <1>1
<1>a. PICK first, none : /\ first = [escaped |-> FALSE, elements |-> <<>>]
                         /\ none = [escaped |-> FALSE, keyword |-> <<>>, keywords |-> <<>>]
  OBVIOUS
<1>b. n \in Nat /\ DOMAIN pattern = 1..n
  BY <1>2
<1>c. n + 1 \in Nat /\ DOMAIN longer = 1..(n + 1)
  BY <1>2
<1>3. PICK e : /\ e[0] = first
               /\ \A i \in 1..n : e[i] = LikeElement(e[i - 1], pattern[i])
               /\ e[n] = FoldLeft(LikeElement, first, pattern)
  BY <1>b, LikeElementRuns, ZenonT(30)
<1>4. PICK k : /\ k[0] = none
               /\ \A i \in 1..(n + 1) : k[i] = LikeKeyword(k[i - 1], longer[i])
               /\ k[n + 1] = FoldLeft(LikeKeyword, none, longer)
  BY <1>c, LikeKeywordRuns, ZenonT(30)
<1> DEFINE S == {i \in 0..n : KeywordsFit(text, e[i], k[i])}
<1>5. 0 \in S
  <2>1. e[0] \in ElementStates /\ k[0] \in KeywordStates
    BY <1>a, <1>3, <1>4 DEF ElementStates, KeywordStates
  <2>2. Reached({0}, <<>>, text) = {0}
    BY ReachedNone
  <2>3. EndsWith(text, 0, <<>>)
    BY DEF EndsWith
  <2>4. KeywordsFit(text, e[0], k[0])
    BY <1>a, <1>3, <1>4, <2>1, <2>2, <2>3 DEF KeywordsFit
  <2> QED
    BY <1>2, <2>4
<1>6. ASSUME NEW i \in 0..n - 1, i \in S
      PROVE  i + 1 \in S
  <2>1. i + 1 \in 1..n /\ i + 1 \in 1..(n + 1) /\ (i + 1) - 1 = i /\ i + 1 \in 0..n
    BY <1>2
  <2>2. e[i + 1] = LikeElement(e[i], pattern[i + 1]) /\ k[i + 1] = LikeKeyword(k[i], pattern[i + 1])
    BY <1>2, <1>3, <1>4, <2>1
  <2>3. KeywordsFit(text, e[i + 1], k[i + 1])
    BY <1>2, <1>6, <2>1, <2>2, KeywordsFitStep
  <2> QED
    BY <2>1, <2>3
<1>7. n \in S
  <2> HIDE DEF S
  <2>1. n \in 0..n
    BY <1>2
  <2> QED
    BY <1>2, <1>5, <1>6, <2>1, AfterFold!FromZero
<1>8. KeywordsFit(text, LikeElements(pattern), k[n])
  BY <1>a, <1>3, <1>7 DEF LikeElements
<1>9. n + 1 \in 1..(n + 1) /\ (n + 1) - 1 = n
  BY <1>2
<1>10. LikeKeywords(pattern) = LikeKeyword(k[n], "%").keywords
  BY <1>a, <1>1, <1>2, <1>4, <1>9 DEF LikeKeywords
<1> QED
  BY <1>8, <1>10

LEMMA LikeKeywordsType ==
  ASSUME NEW pattern \in Seq(Characters)
  PROVE  LikeKeywords(pattern) \in Seq(Seq(Characters) \ {<<>>})
<1>1. <<>> \in Seq(Characters)
  OBVIOUS
<1>2. PICK k : KeywordsFit(<<>>, LikeElements(pattern), k) /\ LikeKeywords(pattern) = LikeKeyword(k, "%").keywords
  BY <1>1, KeywordsFitPattern
<1>3. k \in KeywordStates /\ k.keywords \in Seq(Seq(Characters) \ {<<>>}) /\ k.keyword \in Seq(Characters)
  BY <1>2 DEF KeywordsFit, KeywordStates
<1>4. k.keyword # <<>> => Append(k.keywords, k.keyword) \in Seq(Seq(Characters) \ {<<>>})
  BY <1>3, Appended
<1> QED
  BY <1>2, <1>3, <1>4, LastKeyword

\* PGrnSearchBuildConditionLikeMatch: a text that is like a pattern has each of the
\* keywords the pattern is split into, so looking for them misses no row.
THEOREM LikeHasKeywords ==
  ASSUME NEW text \in Seq(Characters), NEW pattern \in Seq(Characters), Like(text, pattern),
         NEW l \in DOMAIN LikeKeywords(pattern)
  PROVE  HasKeyword(text, LikeKeywords(pattern)[l])
<1>1. PICK e : e = LikeElements(pattern)
  OBVIOUS
<1>2. PICK k : KeywordsFit(text, e, k) /\ LikeKeywords(pattern) = LikeKeyword(k, "%").keywords
  BY <1>1, KeywordsFitPattern
<1>3. Len(text) \in Reached({0}, e.elements, text)
  BY <1>1 DEF Like
<1>4. k \in KeywordStates /\ k.keywords \in Seq(Seq(Characters) \ {<<>>}) /\ k.keyword \in Seq(Characters)
  BY <1>2 DEF KeywordsFit, KeywordStates
<1>5. \A m \in DOMAIN k.keywords : HasKeyword(text, k.keywords[m])
  BY <1>2, <1>3 DEF KeywordsFit
<1>6. HasKeyword(text, k.keyword)
  <2>1. EndsWith(text, Len(text), k.keyword) /\ Len(text) \in 0..Len(text)
    BY <1>2, <1>3 DEF KeywordsFit
  <2> QED
    BY <1>4, <2>1, EndsWithHas
<1>7. CASE LikeKeywords(pattern) = k.keywords
  BY <1>5, <1>7
<1>8. CASE LikeKeywords(pattern) = Append(k.keywords, k.keyword)
  BY <1>4, <1>5, <1>6, <1>8
<1> QED
  BY <1>2, <1>4, <1>7, <1>8, LastKeyword

-----------------------------------------------------------------------------
(* A text that is like a pattern matches the regular expression of it.     *)

RegexpStates == [escaped : BOOLEAN, n : Nat, size : Nat, open : BOOLEAN, elements : Seq(Elements)]

LEMMA LikeRegexpStep ==
  ASSUME NEW r \in RegexpStates, NEW c \in Characters
  PROVE  \E s \in RegexpStates :
           /\ LikeRegexpElement(r, c) = s
           /\ s.n = r.n + 1 /\ s.size = r.size
           /\ IsLiteral(r, c) => ~s.escaped /\ (s.open <=> r.open) /\ s.elements = Append(r.elements, c)
           /\ ~IsLiteral(r, c) /\ c = "\\" => s.escaped /\ (s.open <=> r.open) /\ s.elements = r.elements
           /\ ~IsLiteral(r, c) /\ c = "_" => ~s.escaped /\ (s.open <=> r.open) /\ s.elements = Append(r.elements, "any")
           /\ ~IsLiteral(r, c) /\ c = "%" =>
                /\ ~s.escaped
                /\ s.open <=> r.open \/ (r.n > 1 /\ r.n = r.size)
                /\ r.n \in {1, r.size} => s.elements = r.elements
                /\ r.n \notin {1, r.size} => s.elements = Append(r.elements, "any number")
<1>1. /\ r.escaped \in BOOLEAN /\ r.n \in Nat /\ r.size \in Nat /\ r.open \in BOOLEAN /\ r.elements \in Seq(Elements)
      /\ r.n + 1 \in Nat
  BY DEF RegexpStates
<1>2. c \in Elements /\ "any" \in Elements /\ "any number" \in Elements
  BY DEF Elements
<1>3. /\ Append(r.elements, c) \in Seq(Elements)
      /\ Append(r.elements, "any") \in Seq(Elements)
      /\ Append(r.elements, "any number") \in Seq(Elements)
  BY <1>1, <1>2, Appended
<1>4. CASE r.escaped
  <2>1. PICK s : s = [r EXCEPT !.escaped = FALSE, !.n = r.n + 1, !.elements = Append(r.elements, c)]
    OBVIOUS
  <2>2. LikeRegexpElement(r, c) = s
    BY <1>4, <2>1 DEF LikeRegexpElement
  <2>3. s \in RegexpStates /\ s.n = r.n + 1 /\ s.size = r.size /\ ~s.escaped /\ s.open = r.open /\ s.elements = Append(r.elements, c)
    BY <1>1, <1>3, <2>1 DEF RegexpStates
  <2> QED
    BY <1>4, <2>2, <2>3 DEF IsLiteral
<1>5. CASE ~r.escaped /\ c = "\\"
  <2>1. PICK s : s = [r EXCEPT !.escaped = TRUE, !.n = r.n + 1]
    OBVIOUS
  <2>2. LikeRegexpElement(r, c) = s
    BY <1>5, <2>1 DEF LikeRegexpElement
  <2>3. s \in RegexpStates /\ s.n = r.n + 1 /\ s.size = r.size /\ s.escaped /\ s.open = r.open /\ s.elements = r.elements
    BY <1>1, <2>1 DEF RegexpStates
  <2> QED
    BY <1>5, <2>2, <2>3 DEF IsLiteral
<1>6. CASE ~r.escaped /\ c = "_"
  <2>1. PICK s : s = [r EXCEPT !.n = r.n + 1, !.elements = Append(r.elements, "any")]
    OBVIOUS
  <2>2. LikeRegexpElement(r, c) = s
    BY <1>6, <2>1 DEF LikeRegexpElement
  <2>3. s \in RegexpStates /\ s.n = r.n + 1 /\ s.size = r.size /\ s.escaped = r.escaped /\ s.open = r.open /\ s.elements = Append(r.elements, "any")
    BY <1>1, <1>3, <2>1 DEF RegexpStates
  <2> QED
    BY <1>6, <2>2, <2>3 DEF IsLiteral
<1>7. CASE ~r.escaped /\ c = "%"
  <2>1. PICK open \in BOOLEAN, elements \in Seq(Elements) :
          /\ open = (r.open \/ (r.n > 1 /\ r.n = r.size))
          /\ elements = IF r.n \in {1, r.size} THEN r.elements ELSE Append(r.elements, "any number")
    BY <1>1, <1>3
  <2>2. PICK s : s = [r EXCEPT !.n = r.n + 1, !.open = open, !.elements = elements]
    OBVIOUS
  <2>3. LikeRegexpElement(r, c) = s
    BY <1>7, <2>1, <2>2 DEF LikeRegexpElement
  <2>4. s \in RegexpStates /\ s.n = r.n + 1 /\ s.size = r.size /\ s.escaped = r.escaped /\ s.open = open /\ s.elements = elements
    BY <1>1, <2>1, <2>2 DEF RegexpStates
  <2>5. s.open <=> r.open \/ (r.n > 1 /\ r.n = r.size)
    BY <1>1, <2>1, <2>4
  <2> QED
    BY <1>7, <2>1, <2>3, <2>4, <2>5 DEF IsLiteral
<1>8. CASE ~r.escaped /\ c \notin {"\\", "%", "_"}
  <2>1. PICK s : s = [r EXCEPT !.n = r.n + 1, !.elements = Append(r.elements, c)]
    OBVIOUS
  <2>2. LikeRegexpElement(r, c) = s
    BY <1>8, <2>1 DEF LikeRegexpElement
  <2>3. s \in RegexpStates /\ s.n = r.n + 1 /\ s.size = r.size /\ s.escaped = r.escaped /\ s.open = r.open /\ s.elements = Append(r.elements, c)
    BY <1>1, <1>3, <2>1 DEF RegexpStates
  <2> QED
    BY <1>8, <2>2, <2>3 DEF IsLiteral
<1> QED
  BY <1>1, <1>4, <1>5, <1>6, <1>7, <1>8

\* What has been read of a pattern, as elements and as a regular expression.
RegexpFits(text, from, e, r) ==
  /\ e \in ElementStates /\ r \in RegexpStates
  /\ e.escaped <=> r.escaped
  /\ r.n >= 1 /\ (r.n = 1 => ~r.escaped /\ r.elements = <<>>)
  /\ r.open => r.n > r.size
  /\ ~r.open => Reached({0}, e.elements, text) \subseteq Reached(from, r.elements, text)
  /\ r.open /\ Reached({0}, e.elements, text) # {} => Reached(from, r.elements, text) # {}

LEMMA RegexpFitsStep ==
  ASSUME NEW text \in Seq(Characters), NEW from \in SUBSET (0..Len(text)), NEW c \in Characters,
         NEW e, NEW r, RegexpFits(text, from, e, r), r.n <= r.size,
         r.n = 1 /\ c = "%" => from = 0..Len(text)
  PROVE  /\ RegexpFits(text, from, LikeElement(e, c), LikeRegexpElement(r, c))
         /\ LikeRegexpElement(r, c).n = r.n + 1 /\ LikeRegexpElement(r, c).size = r.size
<1>1. /\ e \in ElementStates /\ r \in RegexpStates /\ (e.escaped <=> r.escaped)
      /\ e.elements \in Seq(Elements) /\ r.elements \in Seq(Elements) /\ r.n \in Nat /\ r.size \in Nat
      /\ r.n >= 1 /\ ~r.open
  BY DEF RegexpFits, ElementStates, RegexpStates
<1>2. PICK f : f = LikeElement(e, c)
  OBVIOUS
<1>3. PICK s \in RegexpStates :
           /\ LikeRegexpElement(r, c) = s
           /\ s.n = r.n + 1 /\ s.size = r.size
           /\ IsLiteral(r, c) => ~s.escaped /\ (s.open <=> r.open) /\ s.elements = Append(r.elements, c)
           /\ ~IsLiteral(r, c) /\ c = "\\" => s.escaped /\ (s.open <=> r.open) /\ s.elements = r.elements
           /\ ~IsLiteral(r, c) /\ c = "_" => ~s.escaped /\ (s.open <=> r.open) /\ s.elements = Append(r.elements, "any")
           /\ ~IsLiteral(r, c) /\ c = "%" =>
                /\ ~s.escaped
                /\ s.open <=> r.open \/ (r.n > 1 /\ r.n = r.size)
                /\ r.n \in {1, r.size} => s.elements = r.elements
                /\ r.n \notin {1, r.size} => s.elements = Append(r.elements, "any number")
  BY <1>1, LikeRegexpStep
<1>15. s.n = r.n + 1 /\ s.size = r.size
  BY <1>3
<1>4. f \in ElementStates /\ f.elements \in Seq(Elements)
  BY <1>1, <1>2, LikeElementStep DEF ElementStates
<1>5. c \in Elements /\ "any" \in Elements /\ "any number" \in Elements
  BY DEF Elements
<1>6. PICK P, Q : P = Reached({0}, e.elements, text) /\ Q = Reached(from, r.elements, text)
  OBVIOUS
<1>7. PICK P2, Q2 : P2 = Reached({0}, f.elements, text) /\ Q2 = Reached(from, s.elements, text)
  OBVIOUS
<1>8. P \subseteq Q
  BY <1>1, <1>6 DEF RegexpFits
<1>9. IsLiteral(e, c) <=> IsLiteral(r, c)
  BY <1>1 DEF IsLiteral
<1> SUFFICES /\ f.escaped <=> s.escaped
             /\ s.open => s.n > s.size
             /\ ~s.open => P2 \subseteq Q2
             /\ s.open /\ P2 # {} => Q2 # {}
  <2>1. s.n >= 1 /\ s.n # 1
    BY <1>1, <1>15
  <2> QED
    BY <1>2, <1>3, <1>4, <1>7, <2>1 DEF RegexpFits
<1>10. ASSUME NEW w \in Elements, f.elements = Append(e.elements, w), s.elements = Append(r.elements, w)
       PROVE  P2 \subseteq Q2
  BY <1>1, <1>6, <1>7, <1>8, <1>10, ReachedMore
<1>11. CASE IsLiteral(e, c)
  <2>1. f = [escaped |-> FALSE, elements |-> Append(e.elements, c)]
    BY <1>1, <1>2, <1>11, LikeElementStep
  <2>2. f.elements = Append(e.elements, c) /\ ~f.escaped
    BY <2>1
  <2>3. ~s.escaped /\ ~s.open /\ s.elements = Append(r.elements, c)
    BY <1>1, <1>3, <1>9, <1>11
  <2> QED
    BY <1>5, <1>10, <2>2, <2>3
<1>12. CASE ~IsLiteral(e, c) /\ c = "\\"
  <2>1. f = [escaped |-> TRUE, elements |-> e.elements]
    BY <1>1, <1>2, <1>12, LikeElementStep
  <2>2. f.elements = e.elements /\ f.escaped
    BY <2>1
  <2>3. s.escaped /\ ~s.open /\ s.elements = r.elements
    BY <1>1, <1>3, <1>9, <1>12
  <2> QED
    BY <1>6, <1>7, <1>8, <2>2, <2>3
<1>13. CASE ~IsLiteral(e, c) /\ c = "_"
  <2>1. f = [escaped |-> FALSE, elements |-> Append(e.elements, "any")]
    BY <1>1, <1>2, <1>13, LikeElementStep
  <2>2. f.elements = Append(e.elements, "any") /\ ~f.escaped
    BY <2>1
  <2>3. ~s.escaped /\ ~s.open /\ s.elements = Append(r.elements, "any")
    BY <1>1, <1>3, <1>9, <1>13
  <2> QED
    BY <1>5, <1>10, <2>2, <2>3
<1>14. CASE ~IsLiteral(e, c) /\ c = "%"
  <2>1. f = [escaped |-> FALSE, elements |-> Append(e.elements, "any number")]
    BY <1>1, <1>2, <1>14, LikeElementStep
  <2>2. f.elements = Append(e.elements, "any number") /\ ~f.escaped
    BY <2>1
  <2>3. /\ ~s.escaped
        /\ s.open <=> r.n > 1 /\ r.n = r.size
        /\ r.n \in {1, r.size} => s.elements = r.elements
        /\ r.n \notin {1, r.size} => s.elements = Append(r.elements, "any number")
    BY <1>1, <1>3, <1>9, <1>14
  <2>4. P2 \subseteq 0..Len(text) /\ (P2 # {} => P # {})
    <3>1. \A q : q \in P2 <=> q \in 0 .. Len(text) /\ \E p \in P : Leads("any number", text, p, q)
      BY <1>1, <1>5, <1>6, <1>7, <2>2, ReachedAppended
    <3> QED
      BY <3>1
  <2>5. CASE r.n = 1
    <3>1. s.elements = <<>> /\ ~s.open
      BY <1>1, <2>3, <2>5 DEF RegexpFits
    <3>2. Q2 = 0..Len(text)
      BY <1>7, <1>14, <2>5, <3>1, ReachedNone
    <3> QED
      BY <2>2, <2>3, <2>4, <3>1, <3>2
  <2>6. CASE r.n # 1 /\ r.n = r.size
    <3>1. s.elements = r.elements /\ s.open
      BY <1>1, <2>3, <2>6
    <3>2. s.n > s.size
      BY <1>1, <1>15, <2>6
    <3> QED
      BY <1>6, <1>7, <1>8, <2>2, <2>3, <2>4, <3>1, <3>2
  <2>7. CASE r.n # 1 /\ r.n # r.size
    <3>1. s.elements = Append(r.elements, "any number") /\ ~s.open
      BY <2>3, <2>7
    <3> QED
      BY <1>5, <1>10, <2>2, <2>3, <3>1
  <2> QED
    BY <2>5, <2>6, <2>7
<1> QED
  BY <1>11, <1>12, <1>13, <1>14 DEF IsLiteral

\* PGrnSearchBuildConditionLikeRegexp: a text that is like a pattern matches the
\* regular expression made of it. From where that starts, it ends at the end of the
\* text, or anywhere if it is open.
THEOREM LikeMatchesRegexp ==
  ASSUME NEW text \in Seq(Characters), NEW pattern \in Seq(Characters), NEW from \in SUBSET (0..Len(text)),
         0 \in from, pattern # <<>> /\ pattern[1] = "%" => from = 0..Len(text),
         Like(text, pattern)
  PROVE  LET regexp == LikeRegexp(pattern)
             places == Reached(from, regexp.elements, text)
         IN IF regexp.open THEN places # {} ELSE Len(text) \in places
<1>1. PICK n : n = Len(pattern)
  OBVIOUS
<1>2. n \in Nat /\ DOMAIN pattern = 1..n
  BY <1>1
<1>3. \A i \in 1..n : pattern[i] \in Characters
  BY <1>1
<1>4. PICK first, none : /\ first = [escaped |-> FALSE, elements |-> <<>>]
                         /\ none = [escaped |-> FALSE, n |-> 1, size |-> n, open |-> FALSE, elements |-> <<>>]
  OBVIOUS
<1>5. PICK e : /\ e[0] = first
               /\ \A i \in 1..n : e[i] = LikeElement(e[i - 1], pattern[i])
               /\ e[n] = FoldLeft(LikeElement, first, pattern)
  BY <1>2, LikeElementRuns, ZenonT(30)
<1>6. PICK r : /\ r[0] = none
               /\ \A i \in 1..n : r[i] = LikeRegexpElement(r[i - 1], pattern[i])
               /\ r[n] = FoldLeft(LikeRegexpElement, none, pattern)
  BY <1>2, LikeRegexpElementRuns, ZenonT(30)
<1> DEFINE S == {i \in 0..n : RegexpFits(text, from, e[i], r[i]) /\ r[i].n = i + 1 /\ r[i].size = n}
<1>7. 0 \in S
  <2>1. first \in ElementStates /\ none \in RegexpStates /\ first.elements = <<>> /\ none.elements = <<>>
    BY <1>2, <1>4 DEF ElementStates, RegexpStates
  <2>2. none.n = 1 /\ none.size = n /\ ~none.open /\ ~first.escaped /\ ~none.escaped
    BY <1>4
  <2>3. Reached({0}, <<>>, text) \subseteq Reached(from, <<>>, text)
    BY ReachedNone
  <2>4. RegexpFits(text, from, first, none)
    BY <2>1, <2>2, <2>3 DEF RegexpFits
  <2> QED
    BY <1>2, <1>5, <1>6, <2>2, <2>4
<1>8. ASSUME NEW i \in 0..n - 1, i \in S
      PROVE  i + 1 \in S
  <2>1. i + 1 \in 1..n /\ (i + 1) - 1 = i /\ i + 1 \in 0..n
    BY <1>2
  <2>2. e[i + 1] = LikeElement(e[i], pattern[i + 1]) /\ r[i + 1] = LikeRegexpElement(r[i], pattern[i + 1])
    BY <1>5, <1>6, <2>1
  <2>3. RegexpFits(text, from, e[i], r[i]) /\ r[i].n = i + 1 /\ r[i].size = n /\ r[i].n <= r[i].size
    BY <1>2, <1>8
  <2>4. pattern[i + 1] \in Characters
    BY <1>3, <2>1
  <2>5. r[i].n = 1 /\ pattern[i + 1] = "%" => from = 0..Len(text)
    <3>1. r[i].n = 1 => i + 1 = 1 /\ pattern # <<>>
      BY <1>1, <2>1, <2>3
    <3> QED
      BY <3>1
  <2>6. RegexpFits(text, from, e[i + 1], r[i + 1]) /\ r[i + 1].n = r[i].n + 1 /\ r[i + 1].size = r[i].size
    <3>1. PICK c, f, s : c = pattern[i + 1] /\ f = e[i] /\ s = r[i]
      OBVIOUS
    <3>2. c \in Characters /\ RegexpFits(text, from, f, s) /\ s.n <= s.size /\ (s.n = 1 /\ c = "%" => from = 0..Len(text))
      BY <2>3, <2>4, <2>5, <3>1
    <3>3. /\ RegexpFits(text, from, LikeElement(f, c), LikeRegexpElement(s, c))
          /\ LikeRegexpElement(s, c).n = s.n + 1 /\ LikeRegexpElement(s, c).size = s.size
      BY <3>2, RegexpFitsStep
    <3> QED
      BY <2>2, <3>1, <3>3
  <2> QED
    BY <2>1, <2>3, <2>6
<1>9. n \in S
  <2> HIDE DEF S
  <2>1. n \in 0..n
    BY <1>2
  <2> QED
    BY <1>2, <1>7, <1>8, <2>1, AfterFold!FromZero
<1>10. LikeElements(pattern) = e[n] /\ LikeRegexp(pattern) = r[n]
  BY <1>1, <1>4, <1>5, <1>6 DEF LikeElements, LikeRegexp
<1>11. Len(text) \in Reached({0}, e[n].elements, text)
  BY <1>10 DEF Like
<1>12. RegexpFits(text, from, e[n], r[n])
  BY <1>9
<1>13. IF r[n].open THEN Reached(from, r[n].elements, text) # {} ELSE Len(text) \in Reached(from, r[n].elements, text)
  BY <1>11, <1>12 DEF RegexpFits
<1> QED
  BY <1>10, <1>13

-----------------------------------------------------------------------------
(* The alternatives of a key.                                              *)

LEMMA TheOne ==
  ASSUME NEW option, option # {}
  PROVE  The(option) \in option
BY DEF The

\* A longer list holds the new value and what the list held.
Holding(list, S) == (\A j \in DOMAIN list : list[j] \in S) /\ \A v \in S : \E j \in DOMAIN list : list[j] = v

LEMMA HoldingAppended ==
  ASSUME NEW U, NEW list \in Seq(U), NEW S, Holding(list, S), NEW v
  PROVE  Holding(Append(list, v), S \cup {v})
<1>1. PICK n, more : n = Len(list) /\ more = Append(list, v)
  OBVIOUS
<1>2. n \in Nat /\ DOMAIN list = 1..n /\ DOMAIN more = 1..(n + 1) /\ more[n + 1] = v /\ \A j \in 1..n : more[j] = list[j]
  BY <1>1
<1>3. ASSUME NEW j \in DOMAIN more
      PROVE  more[j] \in S \cup {v}
  <2>1. j = n + 1 \/ j \in 1..n
    BY <1>2
  <2> QED
    BY <1>2, <2>1 DEF Holding
<1>4. ASSUME NEW w \in S \cup {v}
      PROVE  \E j \in DOMAIN more : more[j] = w
  <2>1. CASE w = v
    <3>1. n + 1 \in DOMAIN more
      BY <1>2
    <3> QED
      BY <1>2, <2>1, <3>1
  <2>2. CASE w \in S
    <3>1. PICK j \in DOMAIN list : list[j] = w
      BY <2>2 DEF Holding
    <3>2. j \in DOMAIN more /\ more[j] = w
      BY <1>2, <3>1
    <3> QED
      BY <3>2
  <2> QED
    BY <2>1, <2>2
<1>5. Holding(more, S \cup {v})
  BY <1>3, <1>4 DEF Holding
<1> QED
  BY <1>1, <1>5

LEMMA GivenIs ==
  ASSUME NEW V, NEW args \in Seq(SUBSET V)
  PROVE  /\ Given(args) \in Seq(V)
         /\ Holding(Given(args), {The(args[i]) : i \in {j \in DOMAIN args : args[j] # {}}})
<1>1. PICK n, none : n = Len(args) /\ none = <<>>
  OBVIOUS
<1>2. n \in Nat /\ DOMAIN args = 1..n
  BY <1>1
<1>3. PICK run : /\ run[0] = none
                 /\ \A i \in 1..n : run[i] = AddGiven(run[i - 1], args[i])
                 /\ run[n] = FoldLeft(AddGiven, none, args)
  BY <1>2, AddGivenRuns, ZenonT(30)
<1> DEFINE Had(i) == {The(args[j]) : j \in {k \in 1..i : args[k] # {}}}
           S == {i \in 0..n : run[i] \in Seq(V) /\ Holding(run[i], Had(i))}
<1>4. 0 \in S
  <2>1. none \in Seq(V) /\ DOMAIN none = {} /\ Had(0) = {}
    BY <1>1
  <2>2. Holding(none, Had(0))
    BY <2>1 DEF Holding
  <2>3. none \in Seq(V) /\ 0 \in 0..n /\ run[0] = none
    BY <1>2, <1>3, <2>1
  <2> HIDE DEF Had
  <2> QED
    BY <2>2, <2>3
<1>5. ASSUME NEW i \in 0..n - 1, i \in S
      PROVE  i + 1 \in S
  <2>1. i + 1 \in 1..n /\ (i + 1) - 1 = i /\ i + 1 \in 0..n /\ i \in Nat
    BY <1>2
  <2>2. run[i + 1] = IF args[i + 1] = {} THEN run[i] ELSE Append(run[i], The(args[i + 1]))
    BY <1>3, <2>1 DEF AddGiven
  <2>3. 1..(i + 1) = (1..i) \cup {i + 1}
    BY <2>1
  <2>4. CASE args[i + 1] = {}
    <3>1. Had(i + 1) = Had(i)
      BY <2>3, <2>4
    <3> QED
      BY <1>5, <2>1, <2>2, <2>4, <3>1
  <2>5. CASE args[i + 1] # {}
    <3>1. Had(i + 1) = Had(i) \cup {The(args[i + 1])}
      BY <2>3, <2>5
    <3>2. The(args[i + 1]) \in V
      BY <1>2, <2>1, <2>5, TheOne
    <3>3. PICK list, T : list \in Seq(V) /\ list = run[i] /\ T = Had(i) /\ Holding(list, T)
      <4> HIDE DEF Had
      <4>1. run[i] \in Seq(V) /\ Holding(run[i], Had(i))
        BY <1>5
      <4> QED
        BY <4>1
    <3>4. Append(list, The(args[i + 1])) \in Seq(V)
      BY <3>2, <3>3, Appended
    <3>5. Holding(Append(list, The(args[i + 1])), T \cup {The(args[i + 1])})
      BY <3>3, HoldingAppended
    <3> HIDE DEF Had
    <3> QED
      BY <2>1, <2>2, <2>5, <3>1, <3>3, <3>4, <3>5
  <2> QED
    BY <2>4, <2>5
<1>6. n \in S
  <2> HIDE DEF S
  <2>1. n \in 0..n
    BY <1>2
  <2> QED
    BY <1>2, <1>4, <1>5, <2>1, AfterFold!FromZero
<1>7. run[n] = Given(args) /\ Had(n) = {The(args[i]) : i \in {j \in DOMAIN args : args[j] # {}}}
  BY <1>1, <1>2, <1>3 DEF Given
<1> QED
  BY <1>6, <1>7

LEMMA RegexpsIs ==
  ASSUME NEW V, NEW key, Keywords(key) \in Seq(V)
  PROVE  /\ Regexps(key) \in Seq(V \ {<<>>})
         /\ Holding(Regexps(key), {Keywords(key)[i] : i \in {j \in DOMAIN Keywords(key) : Keywords(key)[j] # <<>>}})
<1>0. PICK words \in Seq(V) : words = Keywords(key)
  OBVIOUS
<1>1. PICK n, none : n = Len(words) /\ none = <<>>
  OBVIOUS
<1>2. n \in Nat /\ DOMAIN words = 1..n
  BY <1>1
<1>3. PICK run : /\ run[0] = none
                 /\ \A i \in 1..n : run[i] = AddRegexp(run[i - 1], words[i])
                 /\ run[n] = FoldLeft(AddRegexp, none, words)
  BY <1>2, AddRegexpRuns, ZenonT(30)
<1> DEFINE Had(i) == {words[j] : j \in {k \in 1..i : words[k] # <<>>}}
           S == {i \in 0..n : run[i] \in Seq(V \ {<<>>}) /\ Holding(run[i], Had(i))}
<1>4. 0 \in S
  <2>1. none \in Seq(V \ {<<>>}) /\ DOMAIN none = {} /\ Had(0) = {}
    BY <1>1
  <2>2. Holding(none, Had(0))
    BY <2>1 DEF Holding
  <2>3. none \in Seq(V \ {<<>>}) /\ 0 \in 0..n /\ run[0] = none
    BY <1>2, <1>3, <2>1
  <2> HIDE DEF Had
  <2> QED
    BY <2>2, <2>3
<1>5. ASSUME NEW i \in 0..n - 1, i \in S
      PROVE  i + 1 \in S
  <2>1. i + 1 \in 1..n /\ (i + 1) - 1 = i /\ i + 1 \in 0..n /\ i \in Nat
    BY <1>2
  <2>2. run[i + 1] = IF words[i + 1] = <<>> THEN run[i] ELSE Append(run[i], words[i + 1])
    BY <1>3, <2>1 DEF AddRegexp
  <2>3. 1..(i + 1) = (1..i) \cup {i + 1}
    BY <2>1
  <2>4. CASE words[i + 1] = <<>>
    <3>1. Had(i + 1) = Had(i)
      BY <2>3, <2>4
    <3> QED
      BY <1>5, <2>1, <2>2, <2>4, <3>1
  <2>5. CASE words[i + 1] # <<>>
    <3>1. Had(i + 1) = Had(i) \cup {words[i + 1]}
      BY <2>3, <2>5
    <3>2. words[i + 1] \in V \ {<<>>}
      BY <1>2, <2>1, <2>5
    <3>3. PICK list, T : list \in Seq(V \ {<<>>}) /\ list = run[i] /\ T = Had(i) /\ Holding(list, T)
      <4> HIDE DEF Had
      <4>1. run[i] \in Seq(V \ {<<>>}) /\ Holding(run[i], Had(i))
        BY <1>5
      <4> QED
        BY <4>1
    <3>4. Append(list, words[i + 1]) \in Seq(V \ {<<>>})
      BY <3>2, <3>3, Appended
    <3>5. Holding(Append(list, words[i + 1]), T \cup {words[i + 1]})
      BY <3>3, HoldingAppended
    <3> HIDE DEF Had
    <3> QED
      BY <2>1, <2>2, <2>5, <3>1, <3>3, <3>4, <3>5
  <2> QED
    BY <2>4, <2>5
<1>6. n \in S
  <2> HIDE DEF S
  <2>1. n \in 0..n
    BY <1>2
  <2> QED
    BY <1>2, <1>4, <1>5, <2>1, AfterFold!FromZero
<1>7. run[n] = Regexps(key) /\ Had(n) = {Keywords(key)[i] : i \in {j \in DOMAIN Keywords(key) : Keywords(key)[j] # <<>>}}
  BY <1>0, <1>1, <1>2, <1>3 DEF Regexps
<1> QED
  BY <1>6, <1>7

Matching(key, op, arg) == {row \in Rows : row[key.column] # {} /\ Operator(op, The(row[key.column]), arg)}

LEMMA BinaryOperationIs ==
  ASSUME NEW d, NEW key, NEW op, NEW arg
  PROVE  BinaryOperation(d, key, op, arg) = Push(d, Matching(key, op, arg)) /\ Matching(key, op, arg) \in SUBSET Rows
BY DEF BinaryOperation, Matching

LEMMA AlternativesAre ==
  ASSUME NEW key, NEW args, NEW n \in Nat, DOMAIN args = 1..n
  PROVE  /\ DOMAIN Alternatives(key, args) = 1..n
         /\ \A i \in 1..n : /\ Alternatives(key, args)[i].key = key
                            /\ Alternatives(key, args)[i].arg = args[i]
                            /\ Alternatives(key, args)[i].first <=> i = 1
BY DEF Alternatives

\* One more alternative is one more set in the union.
LEMMA PushedMore ==
  ASSUME NEW d \in Data, NEW i \in Nat \ {0}, NEW e, NEW R, \A j \in 1..(i + 1) : R[j] \in SUBSET Rows,
         e = Push(d, UNION {R[j] : j \in 1..i})
  PROVE  Or(Push(e, R[i + 1])) = Push(d, UNION {R[j] : j \in 1..(i + 1)})
<1>1. PICK A, B : A = UNION {R[j] : j \in 1..i} /\ B = R[i + 1]
  OBVIOUS
<1>2. 1..(i + 1) = (1..i) \cup {i + 1}
  OBVIOUS
<1>3. A \in SUBSET Rows /\ B \in SUBSET Rows
  BY <1>1, <1>2
<1>4. UNION {R[j] : j \in 1..(i + 1)} = A \cup B
  BY <1>1, <1>2
<1>5. Or(Push(Push(d, A), B)) = Push(d, A \cup B)
  BY <1>3, OperatorPushed
<1> QED
  BY <1>1, <1>4, <1>5

LEMMA PushedFirst ==
  ASSUME NEW R
  PROVE  UNION {R[j] : j \in 1..1} = R[1]
<1>1. 1..1 = {1}
  OBVIOUS
<1> QED
  BY <1>1

\* The keywords of LIKE are alternatives.
LEMMA KeywordsMatched ==
  ASSUME NEW d \in Data, NEW key, NEW keywords, NEW n \in Nat, n # 0, DOMAIN keywords = 1..n
  PROVE  FoldLeft(MatchKeyword, d, Alternatives(key, keywords))
           = Push(d, UNION {Matching(key, "&@", keywords[j]) : j \in 1..n})
<1>1. PICK alts : alts = Alternatives(key, keywords)
  OBVIOUS
<1>2. DOMAIN alts = 1..n /\ \A i \in 1..n : alts[i].key = key /\ alts[i].arg = keywords[i] /\ (alts[i].first <=> i = 1)
  BY <1>1, AlternativesAre
<1>3. PICK R : R = [j \in 1..n |-> Matching(key, "&@", keywords[j])]
  OBVIOUS
<1>4. \A j \in 1..n : R[j] \in SUBSET Rows
  BY <1>3 DEF Matching
<1>a. n \in Nat /\ DOMAIN alts = 1..n
  BY <1>2
<1>5. PICK run : /\ run[0] = d
                 /\ \A i \in 1..n : run[i] = MatchKeyword(run[i - 1], alts[i])
                 /\ run[n] = FoldLeft(MatchKeyword, d, alts)
  BY <1>a, MatchKeywordRuns, ZenonT(30)
<1> DEFINE S == {i \in 0..n : i # 0 => run[i] = Push(d, UNION {R[j] : j \in 1..i})}
<1>6. 0 \in S
  OBVIOUS
<1>7. ASSUME NEW i \in 0..n - 1, i \in S
      PROVE  i + 1 \in S
  <2>1. i + 1 \in 1..n /\ (i + 1) - 1 = i /\ i + 1 \in 0..n /\ i \in Nat
    OBVIOUS
  <2>2. run[i + 1] = MatchKeyword(run[i], alts[i + 1])
    BY <1>5, <2>1
  <2>3. PICK e, a : e = run[i] /\ a = alts[i + 1]
    OBVIOUS
  <2>4. a.key = key /\ a.arg = keywords[i + 1] /\ (a.first <=> i + 1 = 1)
    BY <1>2, <2>1, <2>3
  <2>5. BinaryOperation(e, a.key, "&@", a.arg) = Push(e, R[i + 1])
    BY <1>3, <2>1, <2>4, BinaryOperationIs
  <2>6. CASE i = 0
    <3>1. MatchKeyword(e, a) = Push(e, R[i + 1])
      BY <2>4, <2>5, <2>6 DEF MatchKeyword
    <3>2. e = d
      BY <1>5, <2>3, <2>6
    <3>3. UNION {R[j] : j \in 1..1} = R[1]
      BY PushedFirst
    <3>4. i + 1 = 1
      BY <2>6
    <3>5. run[i + 1] = Push(d, R[1])
      BY <2>2, <2>3, <3>1, <3>2, <3>4
    <3>6. run[i + 1] = Push(d, UNION {R[j] : j \in 1..(i + 1)})
      BY <3>3, <3>4, <3>5
    <3> QED
      BY <2>1, <3>6
  <2>7. CASE i # 0
    <3>1. MatchKeyword(e, a) = Or(Push(e, R[i + 1]))
      BY <2>1, <2>4, <2>5, <2>7 DEF MatchKeyword
    <3>2. e = Push(d, UNION {R[j] : j \in 1..i}) /\ i \in Nat \ {0}
      BY <1>7, <2>1, <2>3, <2>7
    <3>3. \A j \in 1..(i + 1) : R[j] \in SUBSET Rows
      BY <1>4, <2>1
    <3>4. Or(Push(e, R[i + 1])) = Push(d, UNION {R[j] : j \in 1..(i + 1)})
      BY <3>2, <3>3, PushedMore
    <3> QED
      BY <2>1, <2>2, <2>3, <3>1, <3>4
  <2> QED
    BY <2>6, <2>7
<1>8. n \in S
  <2> HIDE DEF S
  <2>1. n \in 0..n
    OBVIOUS
  <2> QED
    BY <1>6, <1>7, <2>1, AfterFold!FromZero
<1>9. UNION {R[j] : j \in 1..n} = UNION {Matching(key, "&@", keywords[j]) : j \in 1..n}
  BY <1>3
<1> QED
  BY <1>1, <1>5, <1>8, <1>9

\* What an alternative makes of the expression: nothing of it if something is
\* empty, else the rows that match.
Empties(key, arg) == key.op \in {"~~", "&@~|"} /\ arg = <<>>

LikeRows(key, pattern) ==
  IF LikeKeywords(pattern) = <<>> THEN Rows
  ELSE UNION {Matching(key, "&@", LikeKeywords(pattern)[j]) : j \in DOMAIN LikeKeywords(pattern)}
ElementOf(op) == IF op \in InOperators THEN ElementOp[op] ELSE op
AlternativeRows(key, arg) == IF key.op = "~~" THEN LikeRows(key, arg) ELSE Matching(key, ElementOf(key.op), arg)

LEMMA LikeMatchIs ==
  ASSUME NEW d \in Data, NEW key, NEW pattern \in Seq(Characters)
  PROVE  /\ LikeRows(key, pattern) \in SUBSET Rows
         /\ pattern = <<>> => BuildConditionLikeMatch(d, key, pattern) = [d EXCEPT !.empty = TRUE]
         /\ pattern # <<>> => BuildConditionLikeMatch(d, key, pattern) = Push(d, LikeRows(key, pattern))
<1>1. PICK keywords : keywords = LikeKeywords(pattern)
  OBVIOUS
<1>2. PICK n : n = Len(keywords)
  OBVIOUS
<1>3. n \in Nat /\ DOMAIN keywords = 1..n /\ (n = 0 <=> keywords = <<>>)
  BY <1>1, <1>2, LikeKeywordsType
<1>4. LikeRows(key, pattern) \in SUBSET Rows
  BY DEF LikeRows, Matching
<1>5. CASE pattern = <<>>
  BY <1>4, <1>5 DEF BuildConditionLikeMatch
<1>6. CASE pattern # <<>> /\ keywords = <<>>
  BY <1>1, <1>4, <1>6 DEF BuildConditionLikeMatch, LikeRows
<1>7. CASE pattern # <<>> /\ keywords # <<>>
  <2>1. BuildConditionLikeMatch(d, key, pattern) = FoldLeft(MatchKeyword, d, Alternatives(key, keywords))
    BY <1>1, <1>7 DEF BuildConditionLikeMatch
  <2>2. FoldLeft(MatchKeyword, d, Alternatives(key, keywords))
           = Push(d, UNION {Matching(key, "&@", keywords[j]) : j \in 1..n})
    BY <1>3, <1>7, KeywordsMatched
  <2>3. LikeRows(key, pattern) = UNION {Matching(key, "&@", keywords[j]) : j \in 1..n}
    BY <1>1, <1>3, <1>7 DEF LikeRows
  <2> QED
    BY <1>4, <1>7, <2>1, <2>2, <2>3
<1> QED
  BY <1>5, <1>6, <1>7

LEMMA AlternativeIs ==
  ASSUME NEW d \in Data, NEW a, a.arg \in Seq(Characters)
  PROVE  /\ Alternative(d, a) \in Data
         /\ d.empty => Alternative(d, a).empty
         /\ Empties(a.key, a.arg) => Alternative(d, a).empty
         /\ AlternativeRows(a.key, a.arg) \in SUBSET Rows
         /\ ~Empties(a.key, a.arg) /\ a.first => Alternative(d, a) = Push(d, AlternativeRows(a.key, a.arg))
         /\ ~Empties(a.key, a.arg) /\ ~a.first => Alternative(d, a) = Or(Push(d, AlternativeRows(a.key, a.arg)))
<1>1. PICK key, arg, op : key = a.key /\ arg = a.arg /\ op = key.op
  OBVIOUS
<1> DEFINE built == CASE op = "~~" -> BuildConditionLikeMatch(d, key, arg)
                      [] op = "&@~|" -> BuildConditionQuery(d, key, arg)
                      [] op \in InOperators \ {"&@~|"} -> BinaryOperation(d, key, ElementOp[op], arg)
                      [] OTHER -> BinaryOperation(d, key, op, arg)
           R == AlternativeRows(key, arg)
           void == [d EXCEPT !.empty = TRUE]
<1>2. Alternative(d, a) = IF a.first THEN built ELSE Or(built)
  BY <1>1 DEF Alternative
<1>3. void \in Data /\ void.empty
  BY DEF Data
<1>4. R \in SUBSET Rows
  BY <1>1, LikeMatchIs DEF AlternativeRows, Matching
<1>5. Push(d, R) \in Data /\ Push(d, R).empty = d.empty
  BY <1>4, PushData
<1>6. (Empties(key, arg) /\ built = void) \/ (~Empties(key, arg) /\ built = Push(d, R))
  <2>1. CASE op = "~~"
    <3>1. built = BuildConditionLikeMatch(d, key, arg)
      BY <2>1 DEF InOperators
    <3>2. R = LikeRows(key, arg)
      BY <1>1, <2>1 DEF AlternativeRows
    <3>3. Empties(key, arg) <=> arg = <<>>
      BY <1>1, <2>1 DEF Empties
    <3>4. arg \in Seq(Characters)
      BY <1>1
    <3> HIDE DEF built, R
    <3>5. arg = <<>> => built = void
      BY <3>1, <3>4, LikeMatchIs
    <3>6. arg # <<>> => built = Push(d, R)
      BY <3>1, <3>2, <3>4, LikeMatchIs
    <3> QED
      BY <3>3, <3>5, <3>6
  <2>2. CASE op = "&@~|"
    <3>1. built = BuildConditionQuery(d, key, arg)
      BY <2>2
    <3>2. ElementOf(op) = "&@~"
      BY <2>2 DEF ElementOf, ElementOp, InOperators
    <3>3. R = Matching(key, "&@~", arg)
      BY <1>1, <2>2, <3>2 DEF AlternativeRows
    <3>4. Empties(key, arg) <=> arg = <<>>
      BY <1>1, <2>2 DEF Empties
    <3> QED
      BY <3>1, <3>3, <3>4, BinaryOperationIs DEF BuildConditionQuery
  <2>3. CASE op \in InOperators \ {"&@~|"}
    <3>1. built = BinaryOperation(d, key, ElementOp[op], arg)
      BY <2>3 DEF InOperators
    <3>2. R = Matching(key, ElementOp[op], arg) /\ ~Empties(key, arg)
      BY <1>1, <2>3 DEF AlternativeRows, ElementOf, Empties, InOperators
    <3> QED
      BY <3>1, <3>2, BinaryOperationIs
  <2>4. CASE op # "~~" /\ op # "&@~|" /\ op \notin InOperators
    <3>1. built = BinaryOperation(d, key, op, arg)
      BY <2>4
    <3>2. R = Matching(key, op, arg) /\ ~Empties(key, arg)
      BY <1>1, <2>4 DEF AlternativeRows, ElementOf, Empties
    <3> QED
      BY <3>1, <3>2, BinaryOperationIs
  <2> QED
    BY <2>1, <2>2, <2>3, <2>4
<1> HIDE DEF built, R, void
<1>7. PICK e : e = built
  OBVIOUS
<1>8. e \in Data /\ (d.empty => e.empty) /\ (Empties(key, arg) => e.empty)
  BY <1>3, <1>5, <1>6, <1>7
<1>9. Or(e) \in Data /\ Or(e).empty = e.empty
  BY <1>8, OperatorData
<1>10. ~Empties(key, arg) => e = Push(d, R)
  BY <1>6, <1>7
<1>11. R = AlternativeRows(key, arg)
  BY DEF R
<1>12. Alternative(d, a) = IF a.first THEN e ELSE Or(e)
  BY <1>2, <1>7
<1> QED
  BY <1>1, <1>4, <1>8, <1>9, <1>10, <1>11, <1>12

\* All of them: the rows of any, unless something is empty.
RowsOfAny(key, args) == UNION {AlternativeRows(key, args[i]) : i \in DOMAIN args}
LEMMA AlternativesPush ==
  ASSUME NEW d \in Data, NEW key, NEW args \in Seq(Seq(Characters)),
         NEW built, built = FoldLeft(Alternative, d, Alternatives(key, args))
  PROVE  /\ built \in Data
         /\ (\E i \in DOMAIN args : Empties(key, args[i])) => built.empty
         /\ (\A i \in DOMAIN args : ~Empties(key, args[i])) /\ args = <<>> => built = d
         /\ (\A i \in DOMAIN args : ~Empties(key, args[i])) /\ args # <<>> => built = Push(d, RowsOfAny(key, args))
<1>1. PICK alts, n : alts = Alternatives(key, args) /\ n = Len(args)
  OBVIOUS
<1>a. n \in Nat /\ DOMAIN args = 1..n /\ (n = 0 <=> args = <<>>) /\ \A i \in 1..n : args[i] \in Seq(Characters)
  BY <1>1
<1>2. DOMAIN alts = 1..n /\ \A i \in 1..n : alts[i].key = key /\ alts[i].arg = args[i] /\ (alts[i].first <=> i = 1)
  BY <1>1, <1>a, AlternativesAre
<1>3. PICK R : R = [j \in 1..n |-> AlternativeRows(key, args[j])]
  OBVIOUS
<1>c. n \in Nat /\ DOMAIN alts = 1..n
  BY <1>a, <1>2
<1>5. PICK run : /\ run[0] = d
                 /\ \A i \in 1..n : run[i] = Alternative(run[i - 1], alts[i])
                 /\ run[n] = FoldLeft(Alternative, d, alts)
  BY <1>c, AlternativeRuns, ZenonT(30)
<1>b. ASSUME NEW i \in 1..n, run[i - 1] \in Data
      PROVE  /\ run[i] \in Data
             /\ run[i - 1].empty => run[i].empty
             /\ Empties(key, args[i]) => run[i].empty
             /\ R[i] \in SUBSET Rows
             /\ ~Empties(key, args[i]) /\ i = 1 => run[i] = Push(run[i - 1], R[i])
             /\ ~Empties(key, args[i]) /\ i # 1 => run[i] = Or(Push(run[i - 1], R[i]))
  <2>1. PICK e, a : e = run[i - 1] /\ a = alts[i]
    OBVIOUS
  <2>2. e \in Data /\ a.key = key /\ a.arg = args[i] /\ a.arg \in Seq(Characters) /\ (a.first <=> i = 1)
    BY <1>a, <1>b, <1>2, <2>1
  <2>3. run[i] = Alternative(e, a) /\ R[i] = AlternativeRows(a.key, a.arg)
    BY <1>3, <1>5, <2>1, <2>2
  <2>4. /\ Alternative(e, a) \in Data
        /\ e.empty => Alternative(e, a).empty
        /\ Empties(a.key, a.arg) => Alternative(e, a).empty
        /\ AlternativeRows(a.key, a.arg) \in SUBSET Rows
        /\ ~Empties(a.key, a.arg) /\ a.first => Alternative(e, a) = Push(e, AlternativeRows(a.key, a.arg))
        /\ ~Empties(a.key, a.arg) /\ ~a.first => Alternative(e, a) = Or(Push(e, AlternativeRows(a.key, a.arg)))
    BY <2>2, AlternativeIs
  <2> QED
    BY <2>1, <2>2, <2>3, <2>4
<1> DEFINE S == {i \in 0..n :
                   /\ run[i] \in Data
                   /\ \A j \in 1..i : R[j] \in SUBSET Rows
                   /\ (\E j \in 1..i : Empties(key, args[j])) => run[i].empty
                   /\ (\A j \in 1..i : ~Empties(key, args[j])) =>
                        IF i = 0 THEN run[i] = d ELSE run[i] = Push(d, UNION {R[j] : j \in 1..i})}
<1>6. 0 \in S
  BY <1>a, <1>5
<1>7. ASSUME NEW i \in 0..n - 1, i \in S
      PROVE  i + 1 \in S
  <2>1. i + 1 \in 1..n /\ (i + 1) - 1 = i /\ i + 1 \in 0..n /\ i \in Nat
    BY <1>a
  <2>2. PICK e, f : e = run[i] /\ f = run[i + 1]
    OBVIOUS
  <2>3. /\ f \in Data
        /\ e.empty => f.empty
        /\ Empties(key, args[i + 1]) => f.empty
        /\ R[i + 1] \in SUBSET Rows
        /\ ~Empties(key, args[i + 1]) /\ i = 0 => f = Push(e, R[i + 1])
        /\ ~Empties(key, args[i + 1]) /\ i # 0 => f = Or(Push(e, R[i + 1]))
    <3>1. i + 1 \in 1..n /\ run[(i + 1) - 1] \in Data /\ (i + 1 = 1 <=> i = 0)
      BY <1>7, <2>1
    <3> QED
      BY <1>b, <2>1, <2>2, <3>1
  <2>4. 1..(i + 1) = (1..i) \cup {i + 1}
    BY <2>1
  <2>5. \A j \in 1..(i + 1) : R[j] \in SUBSET Rows
    BY <1>7, <2>3, <2>4
  <2>6. (\E j \in 1..(i + 1) : Empties(key, args[j])) => f.empty
    BY <1>7, <2>2, <2>3, <2>4
  <2>7. ASSUME \A j \in 1..(i + 1) : ~Empties(key, args[j])
        PROVE  f = Push(d, UNION {R[j] : j \in 1..(i + 1)})
    <3>1. CASE i = 0
      <4>1. f = Push(d, R[1])
        BY <1>5, <2>2, <2>3, <2>4, <2>7, <3>1
      <4>2. UNION {R[j] : j \in 1..1} = R[1] /\ i + 1 = 1
        BY <3>1, PushedFirst
      <4> QED
        BY <4>1, <4>2
    <3>2. CASE i # 0
      <4>1. e = Push(d, UNION {R[j] : j \in 1..i})
        BY <1>7, <2>2, <2>4, <2>7, <3>2
      <4>2. f = Or(Push(e, R[i + 1]))
        BY <2>3, <2>4, <2>7, <3>2
      <4> QED
        BY <2>1, <2>5, <3>2, <4>1, <4>2, PushedMore
    <3> QED
      BY <3>1, <3>2
  <2>8. i + 1 # 0
    BY <2>1
  <2> QED
    BY <2>1, <2>2, <2>3, <2>5, <2>6, <2>7, <2>8
<1>8. n \in S
  <2> HIDE DEF S
  <2>1. n \in 0..n
    BY <1>a
  <2> QED
    BY <1>a, <1>6, <1>7, <2>1, AfterFold!FromZero
<1>9. UNION {R[j] : j \in 1..n} = RowsOfAny(key, args)
  BY <1>a, <1>3 DEF RowsOfAny
<1>11. built = run[n]
  BY <1>1, <1>5
<1>12. built \in Data /\ ((\E i \in DOMAIN args : Empties(key, args[i])) => built.empty)
  BY <1>a, <1>8, <1>11
<1>13. (\A i \in DOMAIN args : ~Empties(key, args[i])) =>
         IF n = 0 THEN built = d ELSE built = Push(d, UNION {R[j] : j \in 1..n})
  BY <1>a, <1>8, <1>11
<1> QED
  BY <1>a, <1>9, <1>12, <1>13

-----------------------------------------------------------------------------
(* What a key makes of the expression.                                     *)

\* A key as it is read.
IsKey(key) ==
  /\ key.column \in {"n", "t"} /\ key.op \in Operators(key.column) /\ key.any \in BOOLEAN
  /\ key.any => key.op \in AnyOperators
  /\ key.args \in Seq(SUBSET Values(key.column))
  /\ \A j \in DOMAIN key.args : AtMostOne(key.args[j])
  /\ ~key.any /\ key.op \notin InOperators => Len(key.args) = 1

HoldRows(key) == {row \in Rows : Holds(key, row)}

LEMMA KeyOfTexts ==
  ASSUME NEW key, IsKey(key), key.op \notin Comparisons \cup {"="}
  PROVE  key.column = "t" /\ key.args \in Seq(SUBSET Seq(Characters))
BY DEF IsKey, Operators, Values

LEMMA HoldsIs ==
  ASSUME NEW key, NEW row
  PROVE  /\ key.op # "!&^|" => (Holds(key, row) <=> /\ row[key.column] # {}
                                                 /\ InOperator(ElementOf(key.op), The(row[key.column]), key.args))
         /\ key.op = "!&^|" => (Holds(key, row) <=> /\ row[key.column] # {}
                                                 /\ ~InOperator("&^", The(row[key.column]), key.args))
<1>1. CASE key.op = "!&^|"
  BY <1>1 DEF Holds, InOperators
<1>2. CASE key.op \in InOperators \ {"!&^|"}
  BY <1>2 DEF Holds, ElementOf, InOperators
<1>3. CASE key.op \notin InOperators
  BY <1>3 DEF Holds, ElementOf, InOperators
<1> QED
  BY <1>1, <1>2, <1>3

LEMMA OneValue ==
  ASSUME NEW option, option # {}, AtMostOne(option)
  PROVE  option = {The(option)}
BY TheOne DEF AtMostOne

LEMMA RowText ==
  ASSUME NEW row \in Rows, row["t"] # {}
  PROVE  The(row["t"]) \in Seq(Characters)
<1>1. row.t \subseteq Seq(Characters)
  BY ScanKeysAssumption DEF ScanKeysAssumption
<1> QED
  BY <1>1, TheOne

LEMMA NothingOfNothing ==
  ASSUME NEW op \in {"&@", "&@~", "&~", "&^"}, NEW value
  PROVE  ~Operator(op, value, <<>>)
BY DEF Operator

LEMMA ElementOps ==
  ASSUME NEW op \in InOperators
  PROVE  ElementOf(op) \in {"&@", "&@~", "&~", "&^"}
BY DEF ElementOf, ElementOp, InOperators

\* In an array of keywords a NULL is an empty text, and finds nothing either.
LEMMA KeywordsAre ==
  ASSUME NEW key, IsKey(key), key.op \in InOperators
  PROVE  /\ Keywords(key) \in Seq(Seq(Characters)) /\ DOMAIN Keywords(key) = DOMAIN key.args
         /\ \A i \in DOMAIN key.args : Keywords(key)[i] = IF key.args[i] = {} THEN <<>> ELSE The(key.args[i])
         /\ \A op \in {"&@", "&@~", "&~", "&^"} : \A value :
              InOperator(op, value, key.args) <=> \E i \in DOMAIN Keywords(key) : Operator(op, value, Keywords(key)[i])
<1>1. key.args \in Seq(SUBSET Seq(Characters))
  BY KeyOfTexts DEF InOperators, Comparisons
<1>2. PICK n, words : n = Len(key.args) /\ words = Keywords(key)
  OBVIOUS
<1>3. n \in Nat /\ DOMAIN key.args = 1..n /\ DOMAIN words = 1..n
  BY <1>1, <1>2 DEF Keywords
<1>4. \A i \in 1..n : words[i] = IF key.args[i] = {} THEN <<>> ELSE The(key.args[i])
  BY <1>2, <1>3 DEF Keywords
<1>5. \A i \in 1..n : words[i] \in Seq(Characters)
  <2>1. ASSUME NEW i \in 1..n, key.args[i] # {}
        PROVE  The(key.args[i]) \in Seq(Characters)
    <3>1. key.args[i] \in SUBSET Seq(Characters) /\ The(key.args[i]) \in key.args[i]
      BY <1>1, <1>3, <2>1, TheOne
    <3> QED
      BY <3>1
  <2>2. <<>> \in Seq(Characters)
    OBVIOUS
  <2> QED
    BY <1>4, <2>1, <2>2
<1>6. words = [i \in 1..n |-> words[i]]
  BY <1>2, <1>3 DEF Keywords
<1>7. words \in Seq(Seq(Characters))
  BY <1>3, <1>5, <1>6
<1>8. ASSUME NEW op \in {"&@", "&@~", "&~", "&^"}, NEW value
      PROVE  InOperator(op, value, key.args) <=> \E i \in DOMAIN words : Operator(op, value, words[i])
  <2>1. ~Operator(op, value, <<>>)
    BY NothingOfNothing
  <2> QED
    BY <1>3, <1>4, <2>1 DEF InOperator
<1> QED
  BY <1>2, <1>3, <1>4, <1>7, <1>8

\* The rows of the alternatives are those that match one of the arguments.
LEMMA AlternativesHold ==
  ASSUME NEW key, key.op \notin {"~~", "!&^|"}, NEW list,
         \A value : InOperator(ElementOf(key.op), value, key.args)
                      <=> \E j \in DOMAIN list : Operator(ElementOf(key.op), value, list[j])
  PROVE  RowsOfAny(key, list) = HoldRows(key)
<1>1. \A j : AlternativeRows(key, list[j]) = Matching(key, ElementOf(key.op), list[j])
  BY DEF AlternativeRows
<1>2. ASSUME NEW row \in Rows
      PROVE  Holds(key, row) <=> \E j \in DOMAIN list : row \in Matching(key, ElementOf(key.op), list[j])
  BY HoldsIs DEF Matching
<1>3. \A j : Matching(key, ElementOf(key.op), list[j]) \subseteq Rows
  BY DEF Matching
<1> QED
  BY <1>1, <1>2, <1>3 DEF HoldRows, RowsOfAny

LEMMA LikeRowsHold ==
  ASSUME NEW key, key.column = "t", NEW row \in Rows, row["t"] # {}, NEW pattern \in Seq(Characters),
         Like(The(row["t"]), pattern)
  PROVE  row \in LikeRows(key, pattern)
<1>1. PICK keywords, text : keywords = LikeKeywords(pattern) /\ text = The(row["t"])
  OBVIOUS
<1>2. keywords \in Seq(Seq(Characters) \ {<<>>}) /\ text \in Seq(Characters)
  BY <1>1, LikeKeywordsType, RowText
<1>3. CASE keywords = <<>>
  BY <1>1, <1>3 DEF LikeRows
<1>4. CASE keywords # <<>>
  <2>1. 1 \in DOMAIN keywords /\ keywords[1] # <<>>
    BY <1>2, <1>4
  <2>2. HasKeyword(text, keywords[1])
    BY <1>1, <1>2, <2>1, LikeHasKeywords
  <2>3. Operator("&@", text, keywords[1])
    BY <2>1, <2>2 DEF Operator
  <2>4. row \in Matching(key, "&@", keywords[1])
    BY <1>1, <2>3 DEF Matching
  <2>5. LikeRows(key, pattern) = UNION {Matching(key, "&@", keywords[j]) : j \in DOMAIN keywords}
    BY <1>1, <1>4 DEF LikeRows
  <2> QED
    BY <2>1, <2>4, <2>5
<1> QED
  BY <1>3, <1>4

\* A key for which something empty empties the search.
EmptyKey(key) ==
  \/ key.op = "&@~|" /\ \E i \in DOMAIN key.args : key.args[i] \in {{}, {<<>>}}
  \/ key.op = "~~" /\ (~plan.regexp \/ key.any) /\ \E i \in DOMAIN key.args : key.args[i] = {<<>>}

\* Nothing is found, nothing is pushed because no row matches, or the rows that
\* match are pushed, for LIKE with others.
BuildFits(d, key, built) ==
  /\ built \in Data
  /\ \/ built.empty /\ (EmptyKey(key) \/ HoldRows(key) = {})
     \/ built = d /\ HoldRows(key) = {}
     \/ \E S \in SUBSET Rows : /\ built = Push(d, S)
                               /\ HoldRows(key) \subseteq S
                               /\ key.op # "~~" => S \subseteq HoldRows(key)

LEMMA PushFits ==
  ASSUME NEW d \in Data, NEW key
  PROVE  BuildFits(d, key, Push(d, HoldRows(key)))
<1>1. HoldRows(key) \in SUBSET Rows
  BY DEF HoldRows
<1>2. Push(d, HoldRows(key)) \in Data
  BY <1>1, PushData
<1> QED
  BY <1>1, <1>2 DEF BuildFits

LEMMA AlternativesFit ==
  ASSUME NEW d \in Data, NEW key, key.op \notin {"~~", "!&^|"}, NEW list \in Seq(Seq(Characters)),
         \A value : InOperator(ElementOf(key.op), value, key.args)
                      <=> \E j \in DOMAIN list : Operator(ElementOf(key.op), value, list[j]),
         \A j \in DOMAIN list : Empties(key, list[j]) => EmptyKey(key)
  PROVE  BuildFits(d, key, FoldLeft(Alternative, d, Alternatives(key, list)))
<1>1. PICK built : built = FoldLeft(Alternative, d, Alternatives(key, list))
  OBVIOUS
<1>2. /\ built \in Data
      /\ (\E i \in DOMAIN list : Empties(key, list[i])) => built.empty
      /\ (\A i \in DOMAIN list : ~Empties(key, list[i])) /\ list = <<>> => built = d
      /\ (\A i \in DOMAIN list : ~Empties(key, list[i])) /\ list # <<>> => built = Push(d, RowsOfAny(key, list))
  BY <1>1, AlternativesPush
<1>4. RowsOfAny(key, list) = HoldRows(key)
  BY AlternativesHold
<1>5. list = <<>> => HoldRows(key) = {}
  <2>1. ASSUME list = <<>>
        PROVE  \A row \in Rows : ~Holds(key, row)
    <3>1. DOMAIN list = {}
      BY <2>1
    <3> QED
      BY <3>1, HoldsIs
  <2> QED
    BY <2>1 DEF HoldRows
<1>6. BuildFits(d, key, built)
  <2>1. CASE \E i \in DOMAIN list : Empties(key, list[i])
    BY <1>2, <2>1 DEF BuildFits
  <2>2. CASE (\A i \in DOMAIN list : ~Empties(key, list[i])) /\ list = <<>>
    BY <1>2, <1>5, <2>2 DEF BuildFits
  <2>3. CASE (\A i \in DOMAIN list : ~Empties(key, list[i])) /\ list # <<>>
    BY <1>2, <1>4, <2>3, PushFits
  <2> QED
    BY <2>1, <2>2, <2>3
<1> QED
  BY <1>1, <1>6

\* LIKE with an array finds more than its rows.
LEMMA LikeAnyFits ==
  ASSUME NEW d \in Data, NEW key, IsKey(key), key.op = "~~", key.any
  PROVE  BuildFits(d, key, FoldLeft(Alternative, d, Alternatives(key, Given(key.args))))
<1>1. PICK built, list : list = Given(key.args) /\ built = FoldLeft(Alternative, d, Alternatives(key, list))
  OBVIOUS
<1>2. key.column = "t" /\ key.args \in Seq(SUBSET Seq(Characters))
  BY KeyOfTexts DEF Comparisons
<1>3. list \in Seq(Seq(Characters)) /\ Holding(list, {The(key.args[i]) : i \in {j \in DOMAIN key.args : key.args[j] # {}}})
  BY <1>1, <1>2, GivenIs
<1>4. /\ built \in Data
      /\ (\E i \in DOMAIN list : Empties(key, list[i])) => built.empty
      /\ (\A i \in DOMAIN list : ~Empties(key, list[i])) /\ list = <<>> => built = d
      /\ (\A i \in DOMAIN list : ~Empties(key, list[i])) /\ list # <<>> => built = Push(d, RowsOfAny(key, list))
  BY <1>1, <1>3, AlternativesPush
<1>5. ASSUME NEW j \in DOMAIN list, Empties(key, list[j])
      PROVE  EmptyKey(key)
  <2>1. PICK i \in DOMAIN key.args : key.args[i] # {} /\ The(key.args[i]) = list[j]
    BY <1>3 DEF Holding
  <2>2. AtMostOne(key.args[i]) /\ list[j] = <<>>
    BY <1>5 DEF IsKey, Empties
  <2>3. key.args[i] = {<<>>}
    BY <2>1, <2>2, OneValue
  <2> QED
    BY <2>3 DEF EmptyKey
<1>6. ASSUME NEW row \in Rows, Holds(key, row)
      PROVE  \E j \in DOMAIN list : row \in LikeRows(key, list[j])
  <2>1. row["t"] # {} /\ InOperator("~~", The(row["t"]), key.args)
    <3>1. ElementOf("~~") = "~~"
      BY DEF ElementOf, InOperators
    <3> QED
      BY <1>2, <1>6, <3>1, HoldsIs
  <2>2. PICK i \in DOMAIN key.args : key.args[i] # {} /\ Operator("~~", The(row["t"]), The(key.args[i]))
    BY <2>1 DEF InOperator
  <2>3. PICK j \in DOMAIN list : list[j] = The(key.args[i])
    BY <1>3, <2>2 DEF Holding
  <2>4. Like(The(row["t"]), list[j])
    BY <2>2, <2>3 DEF Operator
  <2>5. list[j] \in Seq(Characters)
    BY <1>3
  <2> QED
    BY <1>2, <2>1, <2>4, <2>5, LikeRowsHold
<1>7. \A j : AlternativeRows(key, list[j]) = LikeRows(key, list[j])
  BY DEF AlternativeRows
<1>8. HoldRows(key) \subseteq RowsOfAny(key, list)
  BY <1>6, <1>7 DEF HoldRows, RowsOfAny
<1>9. RowsOfAny(key, list) \in SUBSET Rows
  <2>1. \A j \in DOMAIN list : LikeRows(key, list[j]) \in SUBSET Rows
    BY <1>3, LikeMatchIs
  <2> QED
    BY <1>7, <2>1 DEF RowsOfAny
<1>10. list = <<>> => RowsOfAny(key, list) = {}
  BY DEF RowsOfAny
<1>11. BuildFits(d, key, built)
  <2>1. CASE \E i \in DOMAIN list : Empties(key, list[i])
    BY <1>4, <1>5, <2>1 DEF BuildFits
  <2>2. CASE (\A i \in DOMAIN list : ~Empties(key, list[i])) /\ list = <<>>
    BY <1>4, <1>8, <1>10, <2>2 DEF BuildFits
  <2>3. CASE (\A i \in DOMAIN list : ~Empties(key, list[i])) /\ list # <<>>
    BY <1>4, <1>8, <1>9, <2>3 DEF BuildFits
  <2> QED
    BY <2>1, <2>2, <2>3
<1> QED
  BY <1>1, <1>11

\* "&@ ANY" passes the NULLs over.
LEMMA MatchAnyFits ==
  ASSUME NEW d \in Data, NEW key, IsKey(key), key.op = "&@"
  PROVE  BuildFits(d, key, FoldLeft(Alternative, d, Alternatives(key, Given(key.args))))
<1>1. PICK list : list = Given(key.args)
  OBVIOUS
<1>2. key.column = "t" /\ key.args \in Seq(SUBSET Seq(Characters))
  BY KeyOfTexts DEF Comparisons
<1>3. list \in Seq(Seq(Characters)) /\ Holding(list, {The(key.args[i]) : i \in {j \in DOMAIN key.args : key.args[j] # {}}})
  BY <1>1, <1>2, GivenIs
<1>4. ASSUME NEW value
      PROVE  InOperator("&@", value, key.args) <=> \E j \in DOMAIN list : Operator("&@", value, list[j])
  <2>1. ASSUME NEW i \in DOMAIN key.args, key.args[i] # {}
        PROVE  \E j \in DOMAIN list : list[j] = The(key.args[i])
    BY <1>3, <2>1 DEF Holding
  <2>2. ASSUME NEW j \in DOMAIN list
        PROVE  \E i \in DOMAIN key.args : key.args[i] # {} /\ list[j] = The(key.args[i])
    BY <1>3 DEF Holding
  <2> QED
    BY <2>1, <2>2 DEF InOperator
<1>5. ElementOf("&@") = "&@"
  BY DEF ElementOf, InOperators
<1>6. \A j \in DOMAIN list : ~Empties(key, list[j])
  BY DEF Empties
<1> QED
  BY <1>1, <1>3, <1>4, <1>5, <1>6, AlternativesFit

LEMMA EqualAnyFits ==
  ASSUME NEW d \in Data, NEW key, IsKey(key), key.op = "="
  PROVE  BuildFits(d, key, BuildConditionIn(d, key))
<1>1. ElementOf("=") = "="
  BY DEF ElementOf, InOperators
<1>2. \A row : Holds(key, row) <=> row[key.column] # {} /\ InOperator("=", The(row[key.column]), key.args)
  BY <1>1, HoldsIs
<1>3. HoldRows(key) = {row \in Rows : row[key.column] # {} /\ InOperator("=", The(row[key.column]), key.args)}
  BY <1>2 DEF HoldRows
<1>4. key.args = <<>> => HoldRows(key) = {}
  <2>1. ASSUME key.args = <<>>
        PROVE  \A value : ~InOperator("=", value, key.args)
    BY <2>1 DEF InOperator
  <2> QED
    BY <1>3, <2>1
<1>5. BuildConditionIn(d, key) = Push(d, HoldRows(key))
  BY <1>3, <1>4 DEF BuildConditionIn
<1> QED
  BY <1>5, PushFits

LEMMA AnyFits ==
  ASSUME NEW d \in Data, NEW key, IsKey(key), key.any
  PROVE  BuildFits(d, key, BuildConditionIn(d, key))
<1>1. key.op \in {"=", "~~", "&@"}
  BY DEF IsKey, AnyOperators
<1>2. CASE key.op = "="
  BY <1>2, EqualAnyFits
<1>3. CASE key.op # "=" /\ key.args = <<>>
  <2>1. BuildConditionIn(d, key) = Push(d, {})
    BY <1>3 DEF BuildConditionIn
  <2>2. \A op, value : ~InOperator(op, value, key.args)
    BY <1>3 DEF InOperator
  <2>3. HoldRows(key) = {}
    BY <1>1, <2>2, HoldsIs DEF HoldRows
  <2> QED
    BY <2>1, <2>3, PushFits
<1>4. CASE key.op # "=" /\ key.args # <<>>
  <2>1. BuildConditionIn(d, key) = FoldLeft(Alternative, d, Alternatives(key, Given(key.args)))
    BY <1>4 DEF BuildConditionIn
  <2> QED
    BY <1>1, <1>4, <2>1, LikeAnyFits, MatchAnyFits
<1> QED
  BY <1>2, <1>3, <1>4

LEMMA KeywordsFitIn ==
  ASSUME NEW d \in Data, NEW key, IsKey(key), key.op \in InOperators \ {"!&^|"}
  PROVE  BuildFits(d, key, BuildConditionKeywords(d, key))
<1>1. PICK words : words = Keywords(key)
  OBVIOUS
<1>2. /\ words \in Seq(Seq(Characters)) /\ DOMAIN words = DOMAIN key.args
      /\ \A i \in DOMAIN key.args : words[i] = IF key.args[i] = {} THEN <<>> ELSE The(key.args[i])
      /\ \A value : InOperator(ElementOf(key.op), value, key.args)
                      <=> \E i \in DOMAIN words : Operator(ElementOf(key.op), value, words[i])
  BY <1>1, KeywordsAre, ElementOps
<1>3. key.op \notin {"~~", "!&^|"}
  BY DEF InOperators
<1>4. CASE key.op = "&~|"
  <2>1. PICK list : list = Regexps(key)
    OBVIOUS
  <2>2. /\ list \in Seq(Seq(Characters) \ {<<>>})
        /\ Holding(list, {words[i] : i \in {j \in DOMAIN words : words[j] # <<>>}})
    BY <1>1, <1>2, <2>1, RegexpsIs, ZenonT(30)
  <2>3. list \in Seq(Seq(Characters))
    BY <2>2
  <2>4. ASSUME NEW value
        PROVE  InOperator(ElementOf(key.op), value, key.args)
                 <=> \E j \in DOMAIN list : Operator(ElementOf(key.op), value, list[j])
    <3>1. ~Operator(ElementOf(key.op), value, <<>>)
      BY ElementOps, NothingOfNothing
    <3>2. ASSUME NEW i \in DOMAIN words, words[i] # <<>>
          PROVE  \E j \in DOMAIN list : list[j] = words[i]
      BY <2>2, <3>2 DEF Holding
    <3>3. ASSUME NEW j \in DOMAIN list
          PROVE  \E i \in DOMAIN words : list[j] = words[i]
      BY <2>2 DEF Holding
    <3> QED
      BY <1>2, <3>1, <3>2, <3>3
  <2>5. \A j \in DOMAIN list : ~Empties(key, list[j])
    BY <1>4 DEF Empties
  <2>6. BuildConditionKeywords(d, key) = FoldLeft(Alternative, d, Alternatives(key, list))
    BY <1>4, <2>1 DEF BuildConditionKeywords
  <2> QED
    BY <1>3, <2>3, <2>4, <2>5, <2>6, AlternativesFit
<1>5. CASE key.op # "&~|"
  <2>1. ASSUME NEW j \in DOMAIN words, Empties(key, words[j])
        PROVE  EmptyKey(key)
    <3>1. key.op = "&@~|" /\ words[j] = <<>> /\ j \in DOMAIN key.args /\ AtMostOne(key.args[j])
      BY <1>2, <1>3, <2>1 DEF Empties, IsKey
    <3>2. key.args[j] # {} => key.args[j] = {<<>>}
      BY <1>2, <3>1, OneValue
    <3> QED
      BY <3>1, <3>2 DEF EmptyKey
  <2>2. BuildConditionKeywords(d, key) = FoldLeft(Alternative, d, Alternatives(key, words))
    BY <1>1, <1>5 DEF BuildConditionKeywords
  <2> QED
    BY <1>2, <1>3, <2>1, <2>2, AlternativesFit
<1> QED
  BY <1>4, <1>5

IsSingle(key) == ~key.any /\ key.op \notin InOperators

LEMMA SingleHolds ==
  ASSUME NEW key, IsKey(key), IsSingle(key), ~IsNullKey(key), NEW arg, arg = The(key.args[1])
  PROVE  /\ key.args[1] # {} /\ arg \in Values(key.column) /\ DOMAIN key.args = {1} /\ key.args[1] = {arg}
         /\ HoldRows(key) = Matching(key, key.op, arg)
<1>1. key.args \in Seq(SUBSET Values(key.column)) /\ Len(key.args) = 1
  BY DEF IsKey, IsSingle
<1>2. DOMAIN key.args = {1} /\ key.args[1] \in SUBSET Values(key.column)
  BY <1>1
<1>3. key.args[1] # {}
  BY DEF IsNullKey, IsSingle
<1>4. key.args[1] = {arg} /\ arg \in Values(key.column)
  <2>1. AtMostOne(key.args[1])
    BY <1>2 DEF IsKey
  <2> QED
    BY <1>2, <1>3, <2>1, OneValue, TheOne
<1>5. \A value : InOperator(key.op, value, key.args) <=> Operator(key.op, value, arg)
  BY <1>2, <1>3 DEF InOperator
<1>6. ElementOf(key.op) = key.op /\ key.op # "!&^|"
  BY DEF ElementOf, IsSingle, InOperators
<1>7. \A row : Holds(key, row) <=> row[key.column] # {} /\ Operator(key.op, The(row[key.column]), arg)
  BY <1>5, <1>6, HoldsIs
<1>8. HoldRows(key) = Matching(key, key.op, arg)
  BY <1>7 DEF HoldRows, Matching
<1> QED
  BY <1>2, <1>3, <1>4, <1>8

LEMMA RegexpFitsKey ==
  ASSUME NEW d \in Data, NEW key, IsKey(key), IsSingle(key), ~IsNullKey(key), key.op = "~~"
  PROVE  BuildFits(d, key, BuildConditionLikeRegexp(d, key, The(key.args[1])))
<1>1. PICK arg : arg = The(key.args[1])
  OBVIOUS
<1>2. key.column = "t"
  BY KeyOfTexts DEF Comparisons
<1>3. arg \in Seq(Characters) /\ HoldRows(key) = Matching(key, "~~", arg)
  BY <1>1, <1>2, SingleHolds DEF Values
<1> DEFINE From(text) == IF arg # <<>> /\ arg[1] = "%" THEN 0 .. Len(text) ELSE {0}
           Places(text) == Reached(From(text), LikeRegexp(arg).elements, text)
           Matches(text) == IF LikeRegexp(arg).open THEN Places(text) # {} ELSE Len(text) \in Places(text)
           S == {row \in Rows : row[key.column] # {} /\ Matches(The(row[key.column]))}
<1>4. BuildConditionLikeRegexp(d, key, arg) = Push(d, S)
  BY DEF BuildConditionLikeRegexp
<1>5. ASSUME NEW row \in Rows, row \in HoldRows(key)
      PROVE  row \in S
  <2>1. PICK text : text = The(row["t"])
    OBVIOUS
  <2>2. row["t"] # {} /\ Like(text, arg)
    BY <1>2, <1>3, <1>5, <2>1 DEF Matching, Operator
  <2>3. text \in Seq(Characters)
    BY <2>1, <2>2, RowText
  <2>4. PICK from : from = From(text)
    OBVIOUS
  <2>5. from \in SUBSET (0..Len(text)) /\ 0 \in from /\ (arg # <<>> /\ arg[1] = "%" => from = 0..Len(text))
    BY <2>3, <2>4
  <2>6. IF LikeRegexp(arg).open THEN Reached(from, LikeRegexp(arg).elements, text) # {}
        ELSE Len(text) \in Reached(from, LikeRegexp(arg).elements, text)
    BY <1>3, <2>2, <2>3, <2>5, LikeMatchesRegexp
  <2>7. Matches(text)
    BY <2>4, <2>6
  <2> HIDE DEF Matches
  <2> QED
    BY <1>2, <2>1, <2>2, <2>7
<1> HIDE DEF S
<1>6. S \in SUBSET Rows
  BY DEF S
<1>7. HoldRows(key) \subseteq S
  BY <1>5 DEF HoldRows
<1> QED
  BY <1>1, <1>4, <1>6, <1>7, PushData DEF BuildFits

LEMMA LikeFits ==
  ASSUME NEW d \in Data, NEW key, IsKey(key), IsSingle(key), ~IsNullKey(key), key.op = "~~", ~plan.regexp
  PROVE  BuildFits(d, key, BuildConditionLikeMatch(d, key, The(key.args[1])))
<1>1. PICK arg, built : arg = The(key.args[1]) /\ built = BuildConditionLikeMatch(d, key, arg)
  OBVIOUS
<1>2. key.column = "t"
  BY KeyOfTexts DEF Comparisons
<1>3. /\ arg \in Seq(Characters) /\ HoldRows(key) = Matching(key, "~~", arg)
      /\ DOMAIN key.args = {1} /\ key.args[1] = {arg}
  BY <1>1, <1>2, SingleHolds DEF Values
<1>4. /\ LikeRows(key, arg) \in SUBSET Rows
      /\ arg = <<>> => built = [d EXCEPT !.empty = TRUE]
      /\ arg # <<>> => built = Push(d, LikeRows(key, arg))
  BY <1>1, <1>3, LikeMatchIs
<1>5. CASE arg = <<>>
  <2>1. EmptyKey(key)
    BY <1>3, <1>5 DEF EmptyKey
  <2>2. built \in Data /\ built.empty
    BY <1>4, <1>5 DEF Data
  <2> QED
    BY <1>1, <2>1, <2>2 DEF BuildFits
<1>6. CASE arg # <<>>
  <2>1. HoldRows(key) \subseteq LikeRows(key, arg)
    <3>1. ASSUME NEW row \in Rows, row \in HoldRows(key)
          PROVE  row \in LikeRows(key, arg)
      <4>1. row["t"] # {} /\ Like(The(row["t"]), arg)
        BY <1>2, <1>3, <3>1 DEF Matching, Operator
      <4> QED
        BY <1>2, <1>3, <4>1, LikeRowsHold
    <3> QED
      BY <3>1 DEF HoldRows
  <2>2. built = Push(d, LikeRows(key, arg)) /\ built \in Data
    BY <1>4, <1>6, PushData
  <2> QED
    BY <1>1, <1>4, <2>1, <2>2 DEF BuildFits
<1> QED
  BY <1>5, <1>6

LEMMA SingleFits ==
  ASSUME NEW d \in Data, NEW key, IsKey(key), IsSingle(key), ~IsNullKey(key), key.op # "~~"
  PROVE  BuildFits(d, key, BuildCondition(d, key))
<1>1. PICK arg, op, void : arg = The(key.args[1]) /\ op = key.op /\ void = [d EXCEPT !.empty = TRUE]
  OBVIOUS
<1>2. HoldRows(key) = Matching(key, op, arg)
  BY <1>1, SingleHolds
<1>3. void \in Data /\ void.empty
  BY <1>1 DEF Data
<1>4. BinaryOperation(d, key, op, arg) = Push(d, HoldRows(key))
  BY <1>2, BinaryOperationIs
<1>5. ASSUME op \in {"&@~", "&~"}, arg = <<>>
      PROVE  BuildFits(d, key, void)
  <2>1. \A value : ~Operator(op, value, arg)
    BY <1>5, NothingOfNothing
  <2>2. HoldRows(key) = {}
    BY <1>2, <2>1 DEF Matching
  <2> QED
    BY <1>3, <2>2 DEF BuildFits
<1>6. ~key.any /\ op \notin InOperators /\ op # "!&^|" /\ op # "~~"
  BY <1>1 DEF IsSingle, InOperators
<1>7. CASE op = "&@~"
  <2>1. BuildCondition(d, key) = BuildConditionQuery(d, key, arg)
    BY <1>1, <1>6, <1>7 DEF BuildCondition
  <2>2. CASE arg = <<>>
    <3>1. BuildCondition(d, key) = void
      BY <1>1, <2>1, <2>2 DEF BuildConditionQuery
    <3> QED
      BY <1>5, <1>7, <2>2, <3>1
  <2>3. CASE arg # <<>>
    <3>1. BuildCondition(d, key) = Push(d, HoldRows(key))
      BY <1>4, <1>7, <2>1, <2>3 DEF BuildConditionQuery
    <3> QED
      BY <3>1, PushFits
  <2> QED
    BY <2>2, <2>3
<1>8. CASE op = "&~" /\ arg = <<>>
  <2>1. BuildCondition(d, key) = void
    BY <1>1, <1>6, <1>8 DEF BuildCondition
  <2> QED
    BY <1>5, <1>8, <2>1
<1>9. CASE op # "&@~" /\ ~(op = "&~" /\ arg = <<>>)
  <2>1. BuildCondition(d, key) = BinaryOperation(d, key, op, arg)
    BY <1>1, <1>6, <1>9 DEF BuildCondition
  <2> QED
    BY <1>4, <2>1, PushFits
<1> QED
  BY <1>7, <1>8, <1>9

\* Any key but "!&^|".
LEMMA BuildConditionFits ==
  ASSUME NEW d \in Data, NEW key, IsKey(key), ~IsNullKey(key), key.op # "!&^|"
  PROVE  BuildFits(d, key, BuildCondition(d, key))
<1>1. key.any \in BOOLEAN
  BY DEF IsKey
<1>2. CASE key.any
  BY <1>2, AnyFits DEF BuildCondition
<1>3. CASE ~key.any /\ key.op \in InOperators
  <2>1. key.op \in InOperators \ {"!&^|"} /\ key.op # "~~"
    BY <1>3 DEF InOperators
  <2>2. BuildCondition(d, key) = BuildConditionKeywords(d, key)
    BY <1>3, <2>1 DEF BuildCondition, InOperators
  <2> QED
    BY <2>1, <2>2, KeywordsFitIn
<1>4. CASE ~key.any /\ key.op \notin InOperators /\ key.op = "~~" /\ plan.regexp
  <2>1. BuildCondition(d, key) = BuildConditionLikeRegexp(d, key, The(key.args[1]))
    BY <1>4 DEF BuildCondition, InOperators
  <2> QED
    BY <1>4, <2>1, RegexpFitsKey DEF IsSingle
<1>5. CASE ~key.any /\ key.op \notin InOperators /\ key.op = "~~" /\ ~plan.regexp
  <2>1. BuildCondition(d, key) = BuildConditionLikeMatch(d, key, The(key.args[1]))
    BY <1>5 DEF BuildCondition, InOperators
  <2> QED
    BY <1>5, <2>1, LikeFits DEF IsSingle
<1>6. CASE ~key.any /\ key.op \notin InOperators /\ key.op # "~~"
  BY <1>6, SingleFits DEF IsSingle
<1> QED
  BY <1>1, <1>2, <1>3, <1>4, <1>5, <1>6

-----------------------------------------------------------------------------
(* What "!&^|" takes away.                                                 *)

LEMMA NotPrefixData ==
  ASSUME NEW d \in Data, NEW a
  PROVE  /\ NotPrefix(d, a) \in Data
         /\ NotPrefix(d, a).empty = d.empty
         /\ NotPrefix(d, a).nExpressions = d.nExpressions
         /\ d.short \/ d.stack = <<>> => NotPrefix(d, a).short
<1>1. PICK R, e : R = Matching(a.key, "&^", a.arg) /\ e = Push(d, R)
  OBVIOUS
<1>2. NotPrefix(d, a) = AndNot(e) /\ R \in SUBSET Rows
  BY <1>1, BinaryOperationIs DEF NotPrefix
<1>3. e \in Data /\ e.short = d.short /\ e.empty = d.empty /\ e.nExpressions = d.nExpressions
  BY <1>1, <1>2, PushData
<1>4. AndNot(e) \in Data /\ AndNot(e).empty = e.empty /\ AndNot(e).nExpressions = e.nExpressions /\ (e.short => AndNot(e).short)
  BY <1>3, OperatorData
<1>5. d.stack = <<>> => AndNot(e).short
  BY <1>1, <1>2, OperatorShort
<1> QED
  BY <1>2, <1>3, <1>4, <1>5

LEMMA NotPrefixesData ==
  ASSUME NEW d \in Data, NEW key, NEW list, NEW n \in Nat, DOMAIN list = 1..n,
         NEW built, built = FoldLeft(NotPrefix, d, Alternatives(key, list))
  PROVE  /\ built \in Data /\ built.empty = d.empty /\ built.nExpressions = d.nExpressions
         /\ d.short => built.short
         /\ d.stack = <<>> => built = d \/ built.short
<1>1. PICK alts : alts = Alternatives(key, list)
  OBVIOUS
<1>2. n \in Nat /\ DOMAIN alts = 1..n
  BY <1>1, AlternativesAre
<1>3. PICK run : /\ run[0] = d
                 /\ \A i \in 1..n : run[i] = NotPrefix(run[i - 1], alts[i])
                 /\ run[n] = FoldLeft(NotPrefix, d, alts)
  BY <1>2, NotPrefixRuns, ZenonT(30)
<1> DEFINE S == {i \in 0..n :
                   /\ run[i] \in Data /\ run[i].empty = d.empty /\ run[i].nExpressions = d.nExpressions
                   /\ d.short => run[i].short
                   /\ d.stack = <<>> => run[i] = d \/ run[i].short}
<1>4. 0 \in S
  BY <1>2, <1>3
<1>5. ASSUME NEW i \in 0..n - 1, i \in S
      PROVE  i + 1 \in S
  <2>1. i + 1 \in 1..n /\ (i + 1) - 1 = i /\ i + 1 \in 0..n
    BY <1>2
  <2>2. PICK e, a : e = run[i] /\ a = alts[i + 1]
    OBVIOUS
  <2>3. run[i + 1] = NotPrefix(e, a)
    BY <1>3, <2>1, <2>2
  <2>4. /\ e \in Data /\ e.empty = d.empty /\ e.nExpressions = d.nExpressions
        /\ d.short => e.short
        /\ d.stack = <<>> => e = d \/ e.short
    BY <1>5, <2>2
  <2>5. /\ NotPrefix(e, a) \in Data
        /\ NotPrefix(e, a).empty = e.empty
        /\ NotPrefix(e, a).nExpressions = e.nExpressions
        /\ e.short \/ e.stack = <<>> => NotPrefix(e, a).short
    BY <2>4, NotPrefixData
  <2> QED
    BY <2>1, <2>3, <2>4, <2>5
<1>6. n \in S
  <2> HIDE DEF S
  <2>1. n \in 0..n
    BY <1>2
  <2> QED
    BY <1>2, <1>4, <1>5, <2>1, AfterFold!FromZero
<1> QED
  BY <1>1, <1>3, <1>6

Prefixed(key, list) == UNION {Matching(key, "&^", list[j]) : j \in DOMAIN list}

LEMMA NotPrefixesPushed ==
  ASSUME NEW d \in Data, NEW A \in SUBSET Rows, NEW key, NEW list, NEW n \in Nat, DOMAIN list = 1..n
  PROVE  FoldLeft(NotPrefix, Push(d, A), Alternatives(key, list)) = Push(d, A \ Prefixed(key, list))
<1>1. PICK alts, base : alts = Alternatives(key, list) /\ base = Push(d, A)
  OBVIOUS
<1>2. DOMAIN alts = 1..n /\ \A i \in 1..n : alts[i].key = key /\ alts[i].arg = list[i]
  BY <1>1, AlternativesAre
<1>a. n \in Nat /\ DOMAIN alts = 1..n
  BY <1>2
<1>3. PICK run : /\ run[0] = base
                 /\ \A i \in 1..n : run[i] = NotPrefix(run[i - 1], alts[i])
                 /\ run[n] = FoldLeft(NotPrefix, base, alts)
  BY <1>a, NotPrefixRuns, ZenonT(30)
<1>4. PICK R : R = [j \in 1..n |-> Matching(key, "&^", list[j])]
  OBVIOUS
<1> DEFINE T(i) == A \ UNION {R[j] : j \in 1..i}
           S == {i \in 0..n : run[i] = Push(d, T(i))}
<1>5. 0 \in S
  <2>1. T(0) = A
    OBVIOUS
  <2> HIDE DEF T
  <2> QED
    BY <1>1, <1>3, <2>1
<1>6. ASSUME NEW i \in 0..n - 1, i \in S
      PROVE  i + 1 \in S
  <2>1. i + 1 \in 1..n /\ (i + 1) - 1 = i /\ i + 1 \in 0..n /\ i \in Nat
    BY <1>2
  <2>2. PICK e, a, B, C : e = run[i] /\ a = alts[i + 1] /\ B = T(i) /\ C = R[i + 1]
    OBVIOUS
  <2>3. run[i + 1] = NotPrefix(e, a)
    BY <1>3, <2>1, <2>2
  <2>4. e = Push(d, B) /\ B \in SUBSET Rows
    BY <1>6, <2>2
  <2>5. C = Matching(a.key, "&^", a.arg) /\ C \in SUBSET Rows
    BY <1>2, <1>4, <2>1, <2>2 DEF Matching
  <2>6. NotPrefix(e, a) = AndNot(Push(e, C))
    BY <2>5, BinaryOperationIs DEF NotPrefix
  <2>7. AndNot(Push(Push(d, B), C)) = Push(d, B \ C)
    <3>1. d \in Data /\ B \in SUBSET Rows /\ C \in SUBSET Rows
      BY <2>4, <2>5
    <3>2. \A D \in Data, X \in SUBSET Rows, Y \in SUBSET Rows : AndNot(Push(Push(D, X), Y)) = Push(D, X \ Y)
      BY OperatorPushed, ZenonT(60)
    <3> QED
      BY <3>1, <3>2
  <2>8. 1..(i + 1) = (1..i) \cup {i + 1}
    BY <2>1
  <2>9. T(i + 1) = B \ C
    BY <2>2, <2>8
  <2>10. run[i + 1] = Push(d, B \ C)
    BY <2>3, <2>4, <2>6, <2>7
  <2> HIDE DEF T
  <2> QED
    BY <2>1, <2>9, <2>10
<1>7. n \in S
  <2> HIDE DEF S
  <2>1. n \in 0..n
    OBVIOUS
  <2> QED
    BY <1>5, <1>6, <2>1, AfterFold!FromZero
<1>8. T(n) = A \ Prefixed(key, list)
  BY <1>4 DEF Prefixed
<1> HIDE DEF T
<1> QED
  BY <1>1, <1>3, <1>7, <1>8

\* What is left of the rows that have a text is what the operator finds.
LEMMA NotPrefixedHold ==
  ASSUME NEW key, IsKey(key), key.op = "!&^|", NEW row \in Rows
  PROVE  /\ Holds(key, row) => row \notin Prefixed(key, Keywords(key))
         /\ row \notin Prefixed(key, Keywords(key)) => Holds(key, row) \/ row["t"] = {}
<1>1. key.column = "t"
  BY KeyOfTexts DEF Comparisons
<1>2. InOperator("&^", The(row["t"]), key.args) <=> \E i \in DOMAIN Keywords(key) : Operator("&^", The(row["t"]), Keywords(key)[i])
  BY KeywordsAre DEF InOperators
<1>3. Holds(key, row) <=> row["t"] # {} /\ ~InOperator("&^", The(row["t"]), key.args)
  BY <1>1, HoldsIs
<1>4. row \in Prefixed(key, Keywords(key))
        <=> row["t"] # {} /\ \E i \in DOMAIN Keywords(key) : Operator("&^", The(row["t"]), Keywords(key)[i])
  BY <1>1 DEF Prefixed, Matching
<1> QED
  BY <1>2, <1>3, <1>4

\* A stack of one set is that set pushed on an empty one.
LEMMA OnePushed ==
  ASSUME NEW d \in Data, NEW S, d.stack = <<S>>
  PROVE  /\ S \in SUBSET Rows
         /\ \E e \in Data : /\ e.stack = <<>> /\ d = Push(e, S)
                            /\ e.short = d.short /\ e.empty = d.empty /\ e.nExpressions = d.nExpressions
<1>1. <<S>> \in Seq(SUBSET Rows)
  BY DEF Data
<1>2. S \in SUBSET Rows
  <2>1. <<S>>[1] = S /\ 1 \in DOMAIN <<S>>
    OBVIOUS
  <2> QED
    BY <1>1, <2>1
<1>3. PICK e : e = [d EXCEPT !.stack = <<>>]
  OBVIOUS
<1>4. /\ e \in Data /\ e.stack = <<>>
      /\ e.short = d.short /\ e.empty = d.empty /\ e.nExpressions = d.nExpressions
  <2>1. PICK none : none = <<>> /\ none \in Seq(SUBSET Rows)
    <3>1. <<>> \in Seq(SUBSET Rows)
      OBVIOUS
    <3> QED
      BY <3>1
  <2>2. e = [d EXCEPT !.stack = none]
    BY <1>3, <2>1
  <2> QED
    BY <2>1, <2>2 DEF Data
<1>5. Append(<<>>, S) = <<S>>
  OBVIOUS
<1>6. Push(e, S) = [e EXCEPT !.stack = <<S>>]
  BY <1>4, <1>5 DEF Push
<1>7. Push(e, S) = d
  BY <1>3, <1>6 DEF Data
<1> QED
  BY <1>2, <1>4, <1>7

-----------------------------------------------------------------------------
(* What the expression is, key by key.                                     *)

WantedOf(ks) == {row \in Rows : \A i \in DOMAIN ks : Holds(ks[i], row)}
NullRows(ks) == {row \in Rows : row.t = {} /\ \E i \in DOMAIN ks : ks[i].op = "!&^|"}

\* It finds every row: the one set on the stack holds the rows that all keys hold
\* for.
AllFits(d, ks) ==
  \/ WantedOf(ks) = {}
  \/ \E i \in DOMAIN ks : EmptyKey(ks[i])
  \/ /\ ~d.empty
     /\ d.nExpressions = 0 => ks = <<>> /\ d.stack = <<>>
     /\ d.nExpressions # 0 => \E S : d.stack = <<S>> /\ WantedOf(ks) \subseteq S

\* It finds no other: a key for which nothing was pushed leaves the stack empty.
OnlyFits(d, ks) ==
  \/ \E i \in DOMAIN ks : ks[i].op = "~~" \/ IsNullKey(ks[i])
  \/ d.short
  \/ d.empty
  \/ /\ d.nExpressions = 0 => ks = <<>> /\ d.stack = <<>>
     /\ d.nExpressions # 0 => \/ d.stack = <<>>
                              \/ \E S : d.stack = <<S>> /\ S \subseteq WantedOf(ks) \cup NullRows(ks)

OneMore(ks, key, more) ==
  \E n \in Nat : /\ DOMAIN ks = 1..n /\ DOMAIN more = 1..(n + 1)
                 /\ more[n + 1] = key /\ \A j \in 1..n : more[j] = ks[j]

LEMMA OneMoreKey ==
  ASSUME NEW ks, NEW key, NEW more, OneMore(ks, key, more)
  PROVE  /\ WantedOf(more) = WantedOf(ks) \cap HoldRows(key)
         /\ \A i \in DOMAIN ks : i \in DOMAIN more /\ more[i] = ks[i]
         /\ \E i \in DOMAIN more : more[i] = key
         /\ NullRows(ks) \subseteq NullRows(more)
         /\ key.op = "!&^|" => \A row \in Rows : row["t"] = {} => row \in NullRows(more)
<1>2. PICK n \in Nat : /\ DOMAIN ks = 1..n /\ DOMAIN more = 1..(n + 1)
                       /\ more[n + 1] = key /\ \A j \in 1..n : more[j] = ks[j]
  BY DEF OneMore
<1>3. 1..(n + 1) = (1..n) \cup {n + 1}
  BY <1>2
<1>4. \A row : (\A i \in DOMAIN more : Holds(more[i], row)) <=> (\A i \in DOMAIN ks : Holds(ks[i], row)) /\ Holds(key, row)
  BY <1>2, <1>3
<1>5. WantedOf(more) = WantedOf(ks) \cap HoldRows(key)
  BY <1>4 DEF WantedOf, HoldRows
<1>6. \A i \in DOMAIN ks : i \in DOMAIN more /\ more[i] = ks[i]
  BY <1>2, <1>3
<1>7. n + 1 \in DOMAIN more /\ more[n + 1] = key
  BY <1>2, <1>3
<1>8. NullRows(ks) \subseteq NullRows(more)
  BY <1>6 DEF NullRows
<1>9. key.op = "!&^|" => \A row \in Rows : row["t"] = {} => row \in NullRows(more)
  BY <1>7 DEF NullRows
<1> QED
  BY <1>5, <1>6, <1>7, <1>8, <1>9

LEMMA NullKeyHolds ==
  ASSUME NEW key, IsKey(key), IsNullKey(key)
  PROVE  HoldRows(key) = {}
<1>1. key.op # "!&^|" /\ DOMAIN key.args = {1} /\ key.args[1] = {}
  <2>1. key.args \in Seq(SUBSET Values(key.column)) /\ Len(key.args) = 1
    BY DEF IsKey, IsNullKey
  <2> QED
    BY <2>1 DEF IsNullKey, InOperators
<1>2. \A op, value : ~InOperator(op, value, key.args)
  BY <1>1 DEF InOperator
<1> QED
  BY <1>1, <1>2, HoldsIs DEF HoldRows

LEMMA EmptyData ==
  ASSUME NEW d \in Data
  PROVE  d.nExpressions \in Nat /\ d.empty \in BOOLEAN /\ d.short \in BOOLEAN /\ d.stack \in Seq(SUBSET Rows)
BY DEF Data

\* What BuildConditions leaves, for a key that is no NULL.
LEMMA Counted ==
  ASSUME NEW d \in Data, NEW r, r = [d EXCEPT !.nExpressions = @ + 1]
  PROVE  /\ r \in Data /\ r.stack = d.stack /\ r.short = d.short /\ r.empty = d.empty
         /\ r.nExpressions # 0
BY DEF Data

\* "!&^|": what is on the stack, or all rows, without those of the keywords.
LEMMA NotPrefixBuilt ==
  ASSUME data \in Data, NEW key, IsKey(key), key.op = "!&^|", NEW built, built = BuildCondition(data, key),
         NEW U, U = Prefixed(key, Keywords(key))
  PROVE  /\ built \in Data /\ built.empty = data.empty /\ built.nExpressions = data.nExpressions
         /\ data.short => built.short
         /\ data.nExpressions = 0 /\ data.stack = <<>> => built.stack = <<Rows \ U>>
         /\ data.nExpressions # 0 /\ data.stack = <<>> => built = data \/ built.short
         /\ \A S : data.nExpressions # 0 /\ data.stack = <<S>> => built.stack = <<S \ U>>
<1>1. PICK list, n : list = Keywords(key) /\ n = Len(list)
  OBVIOUS
<1>2. list \in Seq(Seq(Characters)) /\ n \in Nat /\ DOMAIN list = 1..n
  BY <1>1, KeywordsAre DEF InOperators
<1>3. ~key.any
  BY DEF IsKey, AnyOperators
<1>4. PICK base : base = IF data.nExpressions = 0 THEN Push(data, Rows) ELSE data
  OBVIOUS
<1>5. built = FoldLeft(NotPrefix, base, Alternatives(key, list))
  BY <1>1, <1>3, <1>4 DEF BuildCondition, BuildConditionNotPrefixIn, InOperators
<1>6. /\ base \in Data /\ base.empty = data.empty /\ base.nExpressions = data.nExpressions
      /\ base.short = data.short
  BY <1>4, PushData
<1>7. /\ built \in Data /\ built.empty = base.empty /\ built.nExpressions = base.nExpressions
      /\ base.short => built.short
      /\ base.stack = <<>> => built = base \/ built.short
  BY <1>2, <1>5, <1>6, NotPrefixesData
<1>8. \A e \in Data, A \in SUBSET Rows : e.stack = <<>> /\ base = Push(e, A) => built.stack = <<A \ U>>
  <2>1. SUFFICES ASSUME NEW e \in Data, NEW A \in SUBSET Rows, e.stack = <<>>, base = Push(e, A)
                 PROVE  built.stack = <<A \ U>>
    OBVIOUS
  <2>2. built = Push(e, A \ U)
    BY <1>1, <1>2, <1>5, <2>1, NotPrefixesPushed
  <2>3. Push(e, A \ U).stack = Append(e.stack, A \ U)
    BY PushData
  <2>4. \A x : Append(<<>>, x) = <<x>>
    OBVIOUS
  <2>5. built.stack = Append(<<>>, A \ U)
    BY <2>1, <2>2, <2>3
  <2> QED
    BY <2>4, <2>5
<1>9. data.nExpressions = 0 /\ data.stack = <<>> => built.stack = <<Rows \ U>>
  BY <1>4, <1>8
<1>10. \A S : data.nExpressions # 0 /\ data.stack = <<S>> => built.stack = <<S \ U>>
  BY <1>4, <1>8, OnePushed
<1> QED
  BY <1>4, <1>6, <1>7, <1>9, <1>10

LEMMA BuildConditionsIs ==
  ASSUME NEW key, ~IsNullKey(key), NEW built, built = BuildCondition(data, key)
  PROVE  /\ built.empty => BuildConditions(key) = built
         /\ ~built.empty /\ data.nExpressions > 0 /\ key.op # "!&^|" =>
              BuildConditions(key) = [And(built) EXCEPT !.nExpressions = @ + 1]
         /\ ~built.empty /\ ~(data.nExpressions > 0 /\ key.op # "!&^|") =>
              BuildConditions(key) = [built EXCEPT !.nExpressions = @ + 1]
BY DEF BuildConditions

LEMMA BuildConditionsData ==
  ASSUME data \in Data, NEW key, IsKey(key)
  PROVE  BuildConditions(key) \in Data
<1>1. CASE IsNullKey(key)
  BY <1>1 DEF BuildConditions
<1>2. CASE ~IsNullKey(key)
  <2>1. PICK built, u : built = BuildCondition(data, key) /\ u = Prefixed(key, Keywords(key))
    OBVIOUS
  <2>2. built \in Data
    <3>1. CASE key.op = "!&^|"
      BY <2>1, <3>1, NotPrefixBuilt
    <3>2. CASE key.op # "!&^|"
      BY <1>2, <2>1, <3>2, BuildConditionFits DEF BuildFits
    <3> QED
      BY <3>1, <3>2
  <2>3. And(built) \in Data
    BY <2>2, OperatorData
  <2>4. [built EXCEPT !.nExpressions = @ + 1] \in Data /\ [And(built) EXCEPT !.nExpressions = @ + 1] \in Data
    BY <2>2, <2>3, Counted
  <2> QED
    BY <1>2, <2>1, <2>2, <2>4, BuildConditionsIs
<1> QED
  BY <1>1, <1>2

LEMMA OneOnStack ==
  ASSUME NEW x
  PROVE  Append(<<>>, x) = <<x>>
OBVIOUS

LEMMA OneLong ==
  ASSUME NEW x, NEW s, s = <<x>>
  PROVE  Len(s) < 2 /\ s # <<>> /\ Last(s) = x
BY DEF Last

\* Two sets on the stack become one.
LEMMA AndPushed ==
  ASSUME data \in Data, NEW T, data.stack = <<T>>, NEW S \in SUBSET Rows, NEW built, built = Push(data, S)
  PROVE  And(built) \in Data /\ And(built).stack = <<T \cap S>> /\ And(built).empty = data.empty
<1>1. T \in SUBSET Rows
  BY OnePushed
<1>2. PICK e \in Data : e.stack = <<>> /\ data = Push(e, T) /\ e.empty = data.empty
  BY OnePushed
<1>3. And(built) = Push(e, T \cap S)
  <2>1. built = Push(Push(e, T), S) /\ e \in Data /\ T \in SUBSET Rows /\ S \in SUBSET Rows
    BY <1>1, <1>2
  <2>2. \A D \in Data, X \in SUBSET Rows, Y \in SUBSET Rows : And(Push(Push(D, X), Y)) = Push(D, X \cap Y)
    BY OperatorPushed, ZenonT(60)
  <2> QED
    BY <2>1, <2>2
<1>4. T \cap S \in SUBSET Rows
  BY <1>1
<1>5. And(built) \in Data /\ And(built).stack = Append(e.stack, T \cap S) /\ And(built).empty = e.empty
  BY <1>3, <1>4, PushData
<1> QED
  BY <1>2, <1>5, OneOnStack

LEMMA AllFitsStep ==
  ASSUME data \in Data, ~data.empty, NEW ks, NEW key, IsKey(key), AllFits(data, ks),
         NEW more, OneMore(ks, key, more)
  PROVE  AllFits(BuildConditions(key), more)
<1>1. /\ WantedOf(more) = WantedOf(ks) \cap HoldRows(key)
      /\ \A i \in DOMAIN ks : i \in DOMAIN more /\ more[i] = ks[i]
      /\ \E i \in DOMAIN more : more[i] = key
  BY OneMoreKey
<1>2. CASE WantedOf(ks) = {} \/ HoldRows(key) = {}
  BY <1>1, <1>2 DEF AllFits
<1>3. CASE (\E i \in DOMAIN ks : EmptyKey(ks[i])) \/ EmptyKey(key)
  <2>1. \E i \in DOMAIN more : EmptyKey(more[i])
    BY <1>1, <1>3
  <2> QED
    BY <2>1 DEF AllFits
<1>4. CASE ~(WantedOf(ks) = {} \/ HoldRows(key) = {}) /\ ~((\E i \in DOMAIN ks : EmptyKey(ks[i])) \/ EmptyKey(key))
  <2>1. /\ data.nExpressions = 0 => ks = <<>> /\ data.stack = <<>>
        /\ data.nExpressions # 0 => \E S : data.stack = <<S>> /\ WantedOf(ks) \subseteq S
    BY <1>4 DEF AllFits
  <2>2. ~IsNullKey(key)
    BY <1>4, NullKeyHolds
  <2>3. PICK built, r : built = BuildCondition(data, key) /\ r = BuildConditions(key)
    OBVIOUS
  <2>4. data.nExpressions \in Nat
    BY EmptyData
  <2>5. ASSUME NEW d \in Data, ~d.empty, r = [d EXCEPT !.nExpressions = @ + 1],
               NEW S, d.stack = <<S>>, WantedOf(ks) \cap HoldRows(key) \subseteq S
        PROVE  AllFits(r, more)
    <3>1. r.stack = <<S>> /\ ~r.empty /\ r.nExpressions # 0
      BY <2>5, Counted
    <3> QED
      BY <1>1, <2>5, <3>1 DEF AllFits
  <2>6. CASE key.op = "!&^|"
    <3>1. PICK u : u = Prefixed(key, Keywords(key))
      OBVIOUS
    <3>2. /\ built \in Data /\ built.empty = data.empty
          /\ data.nExpressions = 0 /\ data.stack = <<>> => built.stack = <<Rows \ u>>
          /\ \A S : data.nExpressions # 0 /\ data.stack = <<S>> => built.stack = <<S \ u>>
      BY <2>3, <2>6, <3>1, NotPrefixBuilt
    <3>3. r = [built EXCEPT !.nExpressions = @ + 1]
      BY <2>2, <2>3, <2>6, <3>2, BuildConditionsIs
    <3>4. \A row \in HoldRows(key) : row \in Rows /\ row \notin u
      BY <2>6, <3>1, NotPrefixedHold DEF HoldRows
    <3>5. CASE data.nExpressions = 0
      <4>1. built.stack = <<Rows \ u>> /\ WantedOf(ks) \cap HoldRows(key) \subseteq Rows \ u
        BY <2>1, <3>2, <3>4, <3>5
      <4> QED
        BY <2>3, <2>5, <3>2, <3>3, <4>1
    <3>6. CASE data.nExpressions # 0
      <4>1. PICK T : data.stack = <<T>> /\ WantedOf(ks) \subseteq T
        BY <2>1, <3>6
      <4>2. built.stack = <<T \ u>> /\ WantedOf(ks) \cap HoldRows(key) \subseteq T \ u
        BY <3>2, <3>4, <3>6, <4>1
      <4> QED
        BY <2>3, <2>5, <3>2, <3>3, <4>2
    <3> QED
      BY <3>5, <3>6
  <2>7. CASE key.op # "!&^|"
    <3>1. BuildFits(data, key, built)
      BY <2>2, <2>3, <2>7, BuildConditionFits
    <3>2. PICK S \in SUBSET Rows : built = Push(data, S) /\ HoldRows(key) \subseteq S
      BY <1>4, <3>1 DEF BuildFits
    <3>3. built \in Data /\ ~built.empty /\ built.stack = Append(data.stack, S)
      BY <3>2, PushData
    <3>4. CASE data.nExpressions = 0
      <4>1. r = [built EXCEPT !.nExpressions = @ + 1]
        BY <2>2, <2>3, <3>3, <3>4, BuildConditionsIs
      <4>2. built.stack = <<S>>
        BY <2>1, <3>3, <3>4, OneOnStack
      <4> QED
        BY <2>3, <2>5, <3>2, <3>3, <4>1, <4>2
    <3>5. CASE data.nExpressions # 0
      <4>1. PICK T : data.stack = <<T>> /\ WantedOf(ks) \subseteq T
        BY <2>1, <3>5
      <4>2. And(built) \in Data /\ And(built).stack = <<T \cap S>> /\ ~And(built).empty
        BY <3>2, <4>1, AndPushed
      <4>3. r = [And(built) EXCEPT !.nExpressions = @ + 1]
        BY <2>2, <2>3, <2>4, <2>7, <3>3, <3>5, BuildConditionsIs
      <4>4. WantedOf(ks) \cap HoldRows(key) \subseteq T \cap S
        BY <3>2, <4>1
      <4> QED
        BY <2>3, <2>5, <4>2, <4>3, <4>4
    <3> QED
      BY <3>4, <3>5
  <2> QED
    BY <2>6, <2>7
<1> QED
  BY <1>2, <1>3, <1>4

LEMMA OnlyFitsStep ==
  ASSUME data \in Data, ~data.empty, NEW ks, NEW key, IsKey(key), OnlyFits(data, ks),
         NEW more, OneMore(ks, key, more)
  PROVE  OnlyFits(BuildConditions(key), more)
<1>1. /\ WantedOf(more) = WantedOf(ks) \cap HoldRows(key)
      /\ \A i \in DOMAIN ks : i \in DOMAIN more /\ more[i] = ks[i]
      /\ \E i \in DOMAIN more : more[i] = key
      /\ NullRows(ks) \subseteq NullRows(more)
      /\ key.op = "!&^|" => \A row \in Rows : row["t"] = {} => row \in NullRows(more)
  BY OneMoreKey
<1>2. CASE (\E i \in DOMAIN ks : ks[i].op = "~~" \/ IsNullKey(ks[i])) \/ key.op = "~~" \/ IsNullKey(key)
  <2>1. \E i \in DOMAIN more : more[i].op = "~~" \/ IsNullKey(more[i])
    BY <1>1, <1>2
  <2> QED
    BY <2>1 DEF OnlyFits
<1>3. CASE ~((\E i \in DOMAIN ks : ks[i].op = "~~" \/ IsNullKey(ks[i])) \/ key.op = "~~" \/ IsNullKey(key))
  <2>1. PICK built, r : built = BuildCondition(data, key) /\ r = BuildConditions(key)
    OBVIOUS
  <2>2. data.nExpressions \in Nat
    BY EmptyData
  <2>3. ASSUME NEW d \in Data, r = [d EXCEPT !.nExpressions = @ + 1],
               d.short \/ d.stack = <<>>
                 \/ \E S : d.stack = <<S>> /\ S \subseteq WantedOf(more) \cup NullRows(more)
        PROVE  OnlyFits(r, more)
    <3>1. r.stack = d.stack /\ r.short = d.short /\ r.nExpressions # 0
      BY <2>3, Counted
    <3> QED
      BY <2>3, <3>1 DEF OnlyFits
  <2>4. \/ data.short
        \/ data.nExpressions = 0 /\ ks = <<>> /\ data.stack = <<>>
        \/ data.nExpressions # 0 /\ data.stack = <<>>
        \/ data.nExpressions # 0 /\ \E S : data.stack = <<S>> /\ S \subseteq WantedOf(ks) \cup NullRows(ks)
    BY <1>3 DEF OnlyFits
  <2>5. ks = <<>> => WantedOf(ks) = Rows
    BY DEF WantedOf
  <2>6. CASE key.op = "!&^|"
    <3>1. PICK u : u = Prefixed(key, Keywords(key))
      OBVIOUS
    <3>2. /\ built \in Data /\ built.empty = data.empty
          /\ data.short => built.short
          /\ data.nExpressions = 0 /\ data.stack = <<>> => built.stack = <<Rows \ u>>
          /\ data.nExpressions # 0 /\ data.stack = <<>> => built = data \/ built.short
          /\ \A S : data.nExpressions # 0 /\ data.stack = <<S>> => built.stack = <<S \ u>>
      BY <2>1, <2>6, <3>1, NotPrefixBuilt
    <3>3. r = [built EXCEPT !.nExpressions = @ + 1]
      BY <1>3, <2>1, <2>6, <3>2, BuildConditionsIs
    <3>4. \A row \in Rows : row \notin u => row \in HoldRows(key) \/ row \in NullRows(more)
      BY <1>1, <2>6, <3>1, NotPrefixedHold DEF HoldRows
    <3>5. \/ built.short
          \/ built.stack = <<>>
          \/ \E S : built.stack = <<S>> /\ S \subseteq WantedOf(more) \cup NullRows(more)
      <4>1. CASE data.short
        BY <3>2, <4>1
      <4>2. CASE data.nExpressions = 0 /\ ks = <<>> /\ data.stack = <<>>
        <5>1. Rows \ u \subseteq WantedOf(more) \cup NullRows(more)
          BY <1>1, <2>5, <3>4, <4>2
        <5> QED
          BY <3>2, <4>2, <5>1
      <4>3. CASE data.nExpressions # 0 /\ data.stack = <<>>
        BY <3>2, <4>3
      <4>4. CASE data.nExpressions # 0 /\ \E S : data.stack = <<S>> /\ S \subseteq WantedOf(ks) \cup NullRows(ks)
        <5>1. PICK T : data.stack = <<T>> /\ T \subseteq WantedOf(ks) \cup NullRows(ks)
          BY <4>4
        <5>2. T \in SUBSET Rows
          BY <5>1, OnePushed
        <5>3. T \ u \subseteq WantedOf(more) \cup NullRows(more)
          BY <1>1, <3>4, <5>1, <5>2
        <5> QED
          BY <3>2, <4>4, <5>1, <5>3
      <4> QED
        BY <2>4, <4>1, <4>2, <4>3, <4>4
    <3> QED
      BY <2>1, <2>3, <3>2, <3>3, <3>5
  <2>7. CASE key.op # "!&^|"
    <3>1. BuildFits(data, key, built)
      BY <1>3, <2>1, <2>7, BuildConditionFits
    <3>2. CASE built.empty
      <4>1. r = built
        BY <1>3, <2>1, <3>2, BuildConditionsIs
      <4> QED
        BY <2>1, <3>2, <4>1 DEF OnlyFits
    <3>3. CASE ~built.empty
      <4>1. PICK S \in SUBSET Rows : \/ built = data
                                     \/ built = Push(data, S) /\ S \subseteq HoldRows(key)
        BY <1>3, <3>1, <3>3 DEF BuildFits
      <4>2. built \in Data /\ built.short = data.short
        BY <3>1, <4>1, PushData DEF BuildFits
      <4>3. CASE data.nExpressions = 0
        <5>1. r = [built EXCEPT !.nExpressions = @ + 1]
          BY <1>3, <2>1, <3>3, <4>3, BuildConditionsIs
        <5>2. \/ built.short \/ built.stack = <<>>
              \/ \E T : built.stack = <<T>> /\ T \subseteq WantedOf(more) \cup NullRows(more)
          <6>1. CASE data.short
            BY <4>2, <6>1
          <6>2. CASE ks = <<>> /\ data.stack = <<>>
            <7>1. CASE built = data
              BY <6>2, <7>1
            <7>2. CASE built = Push(data, S) /\ S \subseteq HoldRows(key)
              <8>1. built.stack = <<S>>
                BY <6>2, <7>2, PushData, OneOnStack
              <8>2. S \subseteq WantedOf(more)
                BY <1>1, <2>5, <6>2, <7>2
              <8> QED
                BY <8>1, <8>2
            <7> QED
              BY <4>1, <7>1, <7>2
          <6> QED
            BY <2>4, <4>3, <6>1, <6>2
        <5> QED
          BY <2>1, <2>3, <4>2, <5>1, <5>2
      <4>4. CASE data.nExpressions # 0
        <5>1. r = [And(built) EXCEPT !.nExpressions = @ + 1]
          BY <1>3, <2>1, <2>2, <2>7, <3>3, <4>4, BuildConditionsIs
        <5>2. And(built) \in Data /\ (built.short => And(built).short) /\ (Len(built.stack) < 2 => And(built).short)
          BY <4>2, OperatorData
        <5>3. \/ And(built).short
              \/ \E T : And(built).stack = <<T>> /\ T \subseteq WantedOf(more) \cup NullRows(more)
          <6>1. CASE data.short
            BY <4>2, <5>2, <6>1
          <6>2. CASE data.stack = <<>>
            BY <4>1, <6>2, OperatorShort
          <6>3. CASE \E T : data.stack = <<T>> /\ T \subseteq WantedOf(ks) \cup NullRows(ks)
            <7>1. PICK T : data.stack = <<T>> /\ T \subseteq WantedOf(ks) \cup NullRows(ks)
              BY <6>3
            <7>2. CASE built = data
              <8>1. Len(built.stack) < 2
                BY <7>1, <7>2, OneLong
              <8> QED
                BY <5>2, <8>1
            <7>3. CASE built = Push(data, S) /\ S \subseteq HoldRows(key)
              <8>1. And(built).stack = <<T \cap S>>
                BY <7>1, <7>3, AndPushed
              <8>2. T \cap S \subseteq WantedOf(more) \cup NullRows(more)
                BY <1>1, <7>1, <7>3
              <8> QED
                BY <8>1, <8>2
            <7> QED
              BY <4>1, <7>2, <7>3
          <6> QED
            BY <2>4, <4>4, <6>1, <6>2, <6>3
        <5> QED
          BY <2>1, <2>3, <5>1, <5>2, <5>3
      <4> QED
        BY <4>3, <4>4
    <3> QED
      BY <3>2, <3>3
  <2> QED
    BY <2>6, <2>7
<1> QED
  BY <1>2, <1>3

-----------------------------------------------------------------------------
(* What the borders are, key by key.                                       *)

TheBorders ==
  [min : SUBSET Int, max : SUBSET Int, minOp : {"", ">", ">="}, maxOp : {"", "<", "<="}]

IsUpper(key) == key.op \in {"<", "<="}
IsLower(key) == key.op \in {">", ">="}
Border(key) == The(key.args[1])

\* A border with an operator is that of a key, or of a NULL that is taken for 0; it
\* lets in no more than any of the keys.  A border without one may be that of an
\* earlier scan, which let in no more either.
UpperFits(b, ks) ==
  /\ AtMostOne(b.max)
  /\ b.maxOp # "" => /\ b.max # {}
                     /\ \E i \in DOMAIN ks : ks[i].op = b.maxOp /\ (ks[i].args[1] = b.max \/ IsNullKey(ks[i]))
  /\ \A i \in DOMAIN ks : IsUpper(ks[i]) /\ ~IsNullKey(ks[i]) => b.max # {} /\ The(b.max) <= Border(ks[i])
LowerFits(b, ks) ==
  /\ AtMostOne(b.min)
  /\ b.minOp # "" => /\ b.min # {}
                     /\ \E i \in DOMAIN ks : ks[i].op = b.minOp /\ (ks[i].args[1] = b.min \/ IsNullKey(ks[i]))
  /\ \A i \in DOMAIN ks : IsLower(ks[i]) /\ ~IsNullKey(ks[i]) => b.min # {} /\ The(b.min) >= Border(ks[i])

IsNumberKey(key) == key.column = "n" /\ key.op \in Comparisons /\ ~key.any

LEMMA NumberKey ==
  ASSUME NEW key, IsKey(key), IsNumberKey(key)
  PROVE  /\ IsSingle(key)
         /\ DOMAIN key.args = {1} /\ key.args[1] \in SUBSET Int
         /\ IsNullKey(key) <=> key.args[1] = {}
         /\ key.args[1] # {} => Border(key) \in Int /\ key.args[1] = {Border(key)}
         /\ \A row \in Rows : Holds(key, row)
                <=> row["n"] # {} /\ key.args[1] # {} /\ Operator(key.op, The(row["n"]), Border(key))
<1>1. IsSingle(key) /\ key.op # "!&^|"
  BY DEF IsSingle, IsNumberKey, Comparisons, InOperators
<1>2. key.args \in Seq(SUBSET Int) /\ Len(key.args) = 1
  BY <1>1 DEF IsKey, IsNumberKey, Values, IsSingle
<1>3. DOMAIN key.args = {1} /\ key.args[1] \in SUBSET Int
  BY <1>2
<1>4. IsNullKey(key) <=> key.args[1] = {}
  BY <1>1 DEF IsNullKey, IsSingle
<1>5. key.args[1] # {} => Border(key) \in Int /\ key.args[1] = {Border(key)}
  BY <1>3, TheOne, OneValue DEF IsKey, Border
<1>6. ElementOf(key.op) = key.op
  BY <1>1 DEF ElementOf, IsSingle
<1>7. \A value : InOperator(key.op, value, key.args) <=> key.args[1] # {} /\ Operator(key.op, value, Border(key))
  BY <1>3 DEF InOperator, Border
<1>8. \A row \in Rows : Holds(key, row)
                <=> row["n"] # {} /\ key.args[1] # {} /\ Operator(key.op, The(row["n"]), Border(key))
  BY <1>1, <1>6, <1>7, HoldsIs DEF IsNumberKey
<1> QED
  BY <1>1, <1>3, <1>4, <1>5, <1>8

LEMMA TheOf ==
  ASSUME NEW v
  PROVE  The({v}) = v /\ AtMostOne({v})
BY DEF The, AtMostOne

\* What FillBorder does of a key.
Filled(key, b) ==
  LET value == IF key.args[1] = {} THEN 0 ELSE Border(key)
  IN \/ /\ IsUpper(key)
        /\ \/ borders.max = {}
           \/ The(borders.max) >= value
        /\ b = [borders EXCEPT !.max = {value}, !.maxOp = key.op]
     \/ /\ IsUpper(key) /\ borders.max # {} /\ ~(The(borders.max) > value)
        /\ b = borders
     \/ /\ IsLower(key)
        /\ \/ borders.min = {}
           \/ The(borders.min) <= value
        /\ b = [borders EXCEPT !.min = {value}, !.minOp = key.op]
     \/ /\ IsLower(key) /\ borders.min # {} /\ ~(The(borders.min) < value)
        /\ b = borders

LEMMA FillBorderIs ==
  ASSUME borders \in TheBorders, AtMostOne(borders.max), AtMostOne(borders.min),
         NEW key, IsKey(key), IsNumberKey(key), FillBorder(key)
  PROVE  Filled(key, borders')
<1>1. PICK value : value = IF key.args[1] = {} THEN 0 ELSE Border(key)
  OBVIOUS
<1>2. value \in Int
  BY <1>1, NumberKey
<1>3. borders.max # {} => The(borders.max) \in Int
  BY TheOne DEF TheBorders
<1>4. borders.min # {} => The(borders.min) \in Int
  BY TheOne DEF TheBorders
<1>5. borders' = CASE key.op \in {"<", "<="} /\ IsMeaningfullMaxBorderValue(value, key.op) ->
                       [borders EXCEPT !.max = {value}, !.maxOp = key.op]
                  [] key.op \in {">", ">="} /\ IsMeaningfullMinBorderValue(value, key.op) ->
                       [borders EXCEPT !.min = {value}, !.minOp = key.op]
                  [] OTHER -> borders
  BY <1>1 DEF FillBorder, Border
<1>6. key.op \in {"<", "<=", ">", ">="}
  BY DEF IsNumberKey, Comparisons
<1>7. CASE key.op \in {"<", "<="} /\ IsMeaningfullMaxBorderValue(value, key.op)
  <2>1. borders' = [borders EXCEPT !.max = {value}, !.maxOp = key.op]
    BY <1>5, <1>7
  <2>2. borders.max = {} \/ The(borders.max) >= value
    BY <1>2, <1>3, <1>7 DEF IsMeaningfullMaxBorderValue
  <2> QED
    BY <1>1, <1>7, <2>1, <2>2 DEF Filled, IsUpper
<1>8. CASE key.op \in {"<", "<="} /\ ~IsMeaningfullMaxBorderValue(value, key.op)
  <2>1. borders' = borders
    BY <1>5, <1>8
  <2>2. borders.max # {} /\ ~(The(borders.max) > value)
    BY <1>8 DEF IsMeaningfullMaxBorderValue
  <2> QED
    BY <1>1, <1>8, <2>1, <2>2 DEF Filled, IsUpper
<1>9. CASE key.op \in {">", ">="} /\ IsMeaningfullMinBorderValue(value, key.op)
  <2>1. borders' = [borders EXCEPT !.min = {value}, !.minOp = key.op]
    BY <1>5, <1>9
  <2>2. borders.min = {} \/ The(borders.min) <= value
    BY <1>2, <1>4, <1>9 DEF IsMeaningfullMinBorderValue
  <2> QED
    BY <1>1, <1>9, <2>1, <2>2 DEF Filled, IsLower
<1>10. CASE key.op \in {">", ">="} /\ ~IsMeaningfullMinBorderValue(value, key.op)
  <2>1. borders' = borders
    BY <1>5, <1>10
  <2>2. borders.min # {} /\ ~(The(borders.min) < value)
    BY <1>10 DEF IsMeaningfullMinBorderValue
  <2> QED
    BY <1>1, <1>10, <2>1, <2>2 DEF Filled, IsLower
<1> QED
  BY <1>6, <1>7, <1>8, <1>9, <1>10

LEMMA FilledType ==
  ASSUME borders \in TheBorders, NEW key, IsKey(key), IsNumberKey(key), NEW b, Filled(key, b)
  PROVE  b \in TheBorders
<1>1. PICK value : value = IF key.args[1] = {} THEN 0 ELSE Border(key)
  OBVIOUS
<1>2. {value} \in SUBSET Int
  BY <1>1, NumberKey
<1>3. \/ IsUpper(key) /\ b = [borders EXCEPT !.max = {value}, !.maxOp = key.op]
      \/ IsLower(key) /\ b = [borders EXCEPT !.min = {value}, !.minOp = key.op]
      \/ b = borders
  BY <1>1 DEF Filled
<1> QED
  BY <1>2, <1>3 DEF TheBorders, IsUpper, IsLower

LEMMA OneMoreOf ==
  ASSUME NEW ks, NEW key, NEW more, OneMore(ks, key, more)
  PROVE  /\ \A i \in DOMAIN ks : i \in DOMAIN more /\ more[i] = ks[i]
         /\ \E i \in DOMAIN more : more[i] = key
         /\ \A i \in DOMAIN more : more[i] = key \/ \E j \in DOMAIN ks : more[i] = ks[j]
<1>1. PICK n \in Nat : /\ DOMAIN ks = 1..n /\ DOMAIN more = 1..(n + 1)
                       /\ more[n + 1] = key /\ \A j \in 1..n : more[j] = ks[j]
  BY DEF OneMore
<1>2. 1..(n + 1) = (1..n) \cup {n + 1}
  BY <1>1
<1> QED
  BY <1>1, <1>2

LEMMA UpperFitsStep ==
  ASSUME borders \in TheBorders, NEW ks, UpperFits(borders, ks), NEW key, IsKey(key), IsNumberKey(key),
         NEW more, OneMore(ks, key, more), NEW b, Filled(key, b),
         \A i \in DOMAIN ks : IsKey(ks[i]) /\ IsNumberKey(ks[i])
  PROVE  UpperFits(b, more)
<1>1. PICK value : value = IF key.args[1] = {} THEN 0 ELSE Border(key)
  OBVIOUS
<1>2. value \in Int
  BY <1>1, NumberKey
<1>3. borders.max # {} => The(borders.max) \in Int
  BY TheOne DEF TheBorders
<1>4. /\ \A i \in DOMAIN ks : i \in DOMAIN more /\ more[i] = ks[i]
      /\ \E i \in DOMAIN more : more[i] = key
      /\ \A i \in DOMAIN more : more[i] = key \/ \E j \in DOMAIN ks : more[i] = ks[j]
  BY OneMoreOf
<1>5. \A i \in DOMAIN ks : ~IsNullKey(ks[i]) => Border(ks[i]) \in Int
  BY NumberKey
<1>6. ~IsNullKey(key) => Border(key) = value /\ key.args[1] = {value}
  BY <1>1, NumberKey
<1>7. \A i \in DOMAIN ks : IsUpper(ks[i]) /\ ~IsNullKey(ks[i]) => borders.max # {} /\ The(borders.max) <= Border(ks[i])
  BY DEF UpperFits
<1>8. CASE IsUpper(key) /\ (borders.max = {} \/ The(borders.max) >= value) /\ b = [borders EXCEPT !.max = {value}, !.maxOp = key.op]
  <2>1. b.max = {value} /\ b.maxOp = key.op
    BY <1>8 DEF TheBorders
  <2>2. The(b.max) = value /\ AtMostOne(b.max)
    BY <2>1, TheOf
  <2>3. \E i \in DOMAIN more : more[i].op = b.maxOp /\ (more[i].args[1] = b.max \/ IsNullKey(more[i]))
    BY <1>4, <1>6, <2>1
  <2>4. ASSUME NEW i \in DOMAIN more, IsUpper(more[i]), ~IsNullKey(more[i])
        PROVE  value <= Border(more[i])
    <3>1. CASE more[i] = key
      BY <1>2, <1>6, <2>4, <3>1
    <3>2. CASE \E j \in DOMAIN ks : more[i] = ks[j]
      BY <1>2, <1>3, <1>5, <1>7, <1>8, <2>4, <3>2
    <3> QED
      BY <1>4, <3>1, <3>2
  <2> QED
    BY <2>1, <2>2, <2>3, <2>4 DEF UpperFits
<1>9. CASE IsUpper(key) /\ borders.max # {} /\ ~(The(borders.max) > value) /\ b = borders
  <2>1. AtMostOne(b.max)
    BY <1>9 DEF UpperFits
  <2>2. b.maxOp # "" => /\ b.max # {}
                        /\ \E i \in DOMAIN more : more[i].op = b.maxOp /\ (more[i].args[1] = b.max \/ IsNullKey(more[i]))
    BY <1>4, <1>9 DEF UpperFits
  <2>3. ASSUME NEW i \in DOMAIN more, IsUpper(more[i]), ~IsNullKey(more[i])
        PROVE  The(b.max) <= Border(more[i])
    <3>1. CASE more[i] = key
      BY <1>2, <1>3, <1>6, <1>9, <2>3, <3>1
    <3>2. CASE \E j \in DOMAIN ks : more[i] = ks[j]
      BY <1>7, <1>9, <2>3, <3>2
    <3> QED
      BY <1>4, <3>1, <3>2
  <2> QED
    BY <1>9, <2>1, <2>2, <2>3 DEF UpperFits
<1>10. CASE IsLower(key) /\ b.max = borders.max /\ b.maxOp = borders.maxOp
  <2>1. ~IsUpper(key)
    BY <1>10 DEF IsLower, IsUpper
  <2> QED
    BY <1>4, <1>10, <2>1 DEF UpperFits
<1>11. IsLower(key) /\ ~IsUpper(key) => b.max = borders.max /\ b.maxOp = borders.maxOp
  BY DEF Filled, TheBorders
<1>12. IsLower(key) => ~IsUpper(key)
  BY DEF IsLower, IsUpper
<1> QED
  BY <1>1, <1>8, <1>9, <1>10, <1>11, <1>12 DEF Filled

LEMMA LowerFitsStep ==
  ASSUME borders \in TheBorders, NEW ks, LowerFits(borders, ks), NEW key, IsKey(key), IsNumberKey(key),
         NEW more, OneMore(ks, key, more), NEW b, Filled(key, b),
         \A i \in DOMAIN ks : IsKey(ks[i]) /\ IsNumberKey(ks[i])
  PROVE  LowerFits(b, more)
<1>1. PICK value : value = IF key.args[1] = {} THEN 0 ELSE Border(key)
  OBVIOUS
<1>2. value \in Int
  BY <1>1, NumberKey
<1>3. borders.min # {} => The(borders.min) \in Int
  BY TheOne DEF TheBorders
<1>4. /\ \A i \in DOMAIN ks : i \in DOMAIN more /\ more[i] = ks[i]
      /\ \E i \in DOMAIN more : more[i] = key
      /\ \A i \in DOMAIN more : more[i] = key \/ \E j \in DOMAIN ks : more[i] = ks[j]
  BY OneMoreOf
<1>5. \A i \in DOMAIN ks : ~IsNullKey(ks[i]) => Border(ks[i]) \in Int
  BY NumberKey
<1>6. ~IsNullKey(key) => Border(key) = value /\ key.args[1] = {value}
  BY <1>1, NumberKey
<1>7. \A i \in DOMAIN ks : IsLower(ks[i]) /\ ~IsNullKey(ks[i]) => borders.min # {} /\ The(borders.min) >= Border(ks[i])
  BY DEF LowerFits
<1>8. CASE IsLower(key) /\ (borders.min = {} \/ The(borders.min) <= value) /\ b = [borders EXCEPT !.min = {value}, !.minOp = key.op]
  <2>1. b.min = {value} /\ b.minOp = key.op
    BY <1>8 DEF TheBorders
  <2>2. The(b.min) = value /\ AtMostOne(b.min)
    BY <2>1, TheOf
  <2>3. \E i \in DOMAIN more : more[i].op = b.minOp /\ (more[i].args[1] = b.min \/ IsNullKey(more[i]))
    BY <1>4, <1>6, <2>1
  <2>4. ASSUME NEW i \in DOMAIN more, IsLower(more[i]), ~IsNullKey(more[i])
        PROVE  value >= Border(more[i])
    <3>1. CASE more[i] = key
      BY <1>2, <1>6, <2>4, <3>1
    <3>2. CASE \E j \in DOMAIN ks : more[i] = ks[j]
      BY <1>2, <1>3, <1>5, <1>7, <1>8, <2>4, <3>2
    <3> QED
      BY <1>4, <3>1, <3>2
  <2> QED
    BY <2>1, <2>2, <2>3, <2>4 DEF LowerFits
<1>9. CASE IsLower(key) /\ borders.min # {} /\ ~(The(borders.min) < value) /\ b = borders
  <2>1. AtMostOne(b.min)
    BY <1>9 DEF LowerFits
  <2>2. b.minOp # "" => /\ b.min # {}
                        /\ \E i \in DOMAIN more : more[i].op = b.minOp /\ (more[i].args[1] = b.min \/ IsNullKey(more[i]))
    BY <1>4, <1>9 DEF LowerFits
  <2>3. ASSUME NEW i \in DOMAIN more, IsLower(more[i]), ~IsNullKey(more[i])
        PROVE  The(b.min) >= Border(more[i])
    <3>1. CASE more[i] = key
      BY <1>2, <1>3, <1>6, <1>9, <2>3, <3>1
    <3>2. CASE \E j \in DOMAIN ks : more[i] = ks[j]
      BY <1>7, <1>9, <2>3, <3>2
    <3> QED
      BY <1>4, <3>1, <3>2
  <2> QED
    BY <1>9, <2>1, <2>2, <2>3 DEF LowerFits
<1>10. CASE IsUpper(key) /\ b.min = borders.min /\ b.minOp = borders.minOp
  <2>1. ~IsLower(key)
    BY <1>10 DEF IsUpper, IsLower
  <2> QED
    BY <1>4, <1>10, <2>1 DEF LowerFits
<1>11. IsUpper(key) /\ ~IsLower(key) => b.min = borders.min /\ b.minOp = borders.minOp
  BY DEF Filled, TheBorders
<1>12. IsUpper(key) => ~IsLower(key)
  BY DEF IsUpper, IsLower
<1> QED
  BY <1>1, <1>8, <1>9, <1>10, <1>11, <1>12 DEF Filled

\* Inside the borders every key holds, but where the index and the operators
\* disagree.
LEMMA RangeFindsAll ==
  ASSUME NEW row \in Rows, NEW i \in DOMAIN read, Holds(read[i], row),
         \A k \in DOMAIN read : IsKey(read[k]) /\ IsNumberKey(read[k]) /\ Holds(read[k], row),
         UpperFits(borders, read), LowerFits(borders, read)
  PROVE  row \in RangeSearch
<1>1. row.n # {}
  BY NumberKey
<1>2. ASSUME borders.maxOp # ""
      PROVE  Operator(borders.maxOp, The(row.n), The(borders.max))
  <2>1. PICK k \in DOMAIN read : read[k].op = borders.maxOp /\ (read[k].args[1] = borders.max \/ IsNullKey(read[k]))
    BY <1>2 DEF UpperFits
  <2>2. read[k].args[1] # {} /\ ~IsNullKey(read[k]) /\ Operator(read[k].op, The(row.n), Border(read[k]))
    BY NumberKey
  <2> QED
    BY <2>1, <2>2 DEF Border
<1>3. ASSUME borders.minOp # ""
      PROVE  Operator(borders.minOp, The(row.n), The(borders.min))
  <2>1. PICK k \in DOMAIN read : read[k].op = borders.minOp /\ (read[k].args[1] = borders.min \/ IsNullKey(read[k]))
    BY <1>3 DEF LowerFits
  <2>2. read[k].args[1] # {} /\ ~IsNullKey(read[k]) /\ Operator(read[k].op, The(row.n), Border(read[k]))
    BY NumberKey
  <2> QED
    BY <2>1, <2>2 DEF Border
<1> QED
  BY <1>1, <1>2, <1>3 DEF RangeSearch

LEMMA KeyIn ==
  ASSUME NEW i \in DOMAIN keys
  PROVE  keys[i] \in Keys
BY DEF Keys, ToSet

\* A key and the one the border is of, with one value: the arguments are the same.
LEMMA SameArgs ==
  ASSUME NEW k, IsKey(k), IsNumberKey(k), NEW l, IsKey(l), IsNumberKey(l), k.args[1] = l.args[1]
  PROVE  k.args = l.args
<1>1. /\ k.args \in Seq(SUBSET Int) /\ DOMAIN k.args = {1}
      /\ l.args \in Seq(SUBSET Int) /\ DOMAIN l.args = {1}
  BY NumberKey DEF IsKey, IsNumberKey, Values
<1> QED
  BY <1>1

\* No key is NULL, and none has lost its border.
BordersKept ==
  \A k \in DOMAIN read : /\ ~IsNullKey(read[k])
                         /\ IsUpper(read[k]) => borders.maxOp # ""
                         /\ IsLower(read[k]) => borders.minOp # ""

LEMMA RangeFindsOnly ==
  ASSUME borders \in TheBorders,
         NEW row \in RangeSearch, NEW i \in DOMAIN read,
         \A k \in DOMAIN read : IsKey(read[k]) /\ IsNumberKey(read[k]),
         UpperFits(borders, read), LowerFits(borders, read),
         BordersKept,
         ~SameBorder
  PROVE  Holds(read[i], row)
<1>1. row \in Rows /\ row.n # {}
  BY DEF RangeSearch
<1>2. The(row.n) \in Int
  <2>1. row.n \subseteq Int
    BY <1>1, ScanKeysAssumption DEF ScanKeysAssumption
  <2> QED
    BY <1>1, <2>1, TheOne
<1>3. \A k \in DOMAIN read : ~IsNullKey(read[k])
  BY DEF BordersKept
<1>4. read[i].args[1] # {} /\ Border(read[i]) \in Int /\ read[i].args[1] = {Border(read[i])}
  BY <1>3, NumberKey
<1>5. SUFFICES Operator(read[i].op, The(row.n), Border(read[i]))
  BY <1>1, <1>4, NumberKey
<1>6. PICK v, w : v = The(row.n) /\ w = Border(read[i])
  OBVIOUS
<1>7. v \in Int /\ w \in Int
  BY <1>2, <1>4, <1>6
<1>8. CASE IsUpper(read[i])
  <2>1. borders.maxOp # ""
    BY <1>8 DEF BordersKept
  <2>2. PICK k \in DOMAIN read : read[k].op = borders.maxOp /\ read[k].args[1] = borders.max
    BY <1>3, <2>1 DEF UpperFits
  <2>3. PICK m : m = The(borders.max)
    OBVIOUS
  <2>4. borders.max # {} /\ m <= w
    BY <1>3, <1>6, <1>8, <2>3 DEF UpperFits
  <2>5. m \in Int /\ borders.max = {m}
    BY <2>3, <2>4, TheOne, OneValue DEF TheBorders, UpperFits
  <2>6. Operator(borders.maxOp, v, m)
    BY <1>6, <2>1, <2>3 DEF RangeSearch
  <2>7. borders.maxOp \in {"<", "<="} /\ read[i].op \in {"<", "<="}
    BY <1>8, <2>1 DEF TheBorders, IsUpper
  <2>8. borders.maxOp = "<" => v < m
    BY <2>6 DEF Operator
  <2>9. borders.maxOp = "<=" => v <= m
    BY <2>6 DEF Operator
  <2>10. read[i].op = "<" /\ borders.maxOp = "<=" => m # w
    <3>1. SUFFICES ASSUME read[i].op = "<", borders.maxOp = "<=", m = w
                   PROVE  FALSE
      OBVIOUS
    <3>2. read[i].args[1] = read[k].args[1]
      BY <1>4, <1>6, <2>2, <2>5, <3>1
    <3>3. read[i].args = read[k].args
      BY <3>2, SameArgs
    <3>4. read[i] \in ToSet(read) /\ read[k] \in ToSet(read) /\ <<read[i].op, read[k].op>> = <<"<", "<=">>
      BY <2>2, <3>1 DEF ToSet
    <3> QED
      BY <3>3, <3>4 DEF SameBorder
  <2>11. CASE read[i].op = "<"
    <3>1. v < m \/ (v <= m /\ m # w)
      BY <2>7, <2>8, <2>9, <2>10, <2>11
    <3>2. v < w
      BY <1>7, <2>4, <2>5, <3>1
    <3> QED
      BY <1>6, <2>11, <3>2 DEF Operator
  <2>12. CASE read[i].op = "<="
    <3>1. v < m \/ v <= m
      BY <2>7, <2>8, <2>9
    <3>2. v <= w
      BY <1>7, <2>4, <2>5, <3>1
    <3> QED
      BY <1>6, <2>12, <3>2 DEF Operator
  <2> QED
    BY <2>7, <2>11, <2>12
<1>9. CASE IsLower(read[i])
  <2>1. borders.minOp # ""
    BY <1>9 DEF BordersKept
  <2>2. PICK k \in DOMAIN read : read[k].op = borders.minOp /\ read[k].args[1] = borders.min
    BY <1>3, <2>1 DEF LowerFits
  <2>3. PICK m : m = The(borders.min)
    OBVIOUS
  <2>4. borders.min # {} /\ m >= w
    BY <1>3, <1>6, <1>9, <2>3 DEF LowerFits
  <2>5. m \in Int /\ borders.min = {m}
    BY <2>3, <2>4, TheOne, OneValue DEF TheBorders, LowerFits
  <2>6. Operator(borders.minOp, v, m)
    BY <1>6, <2>1, <2>3 DEF RangeSearch
  <2>7. borders.minOp \in {">", ">="} /\ read[i].op \in {">", ">="}
    BY <1>9, <2>1 DEF TheBorders, IsLower
  <2>8. borders.minOp = ">" => v > m
    BY <2>6 DEF Operator
  <2>9. borders.minOp = ">=" => v >= m
    BY <2>6 DEF Operator
  <2>10. read[i].op = ">" /\ borders.minOp = ">=" => m # w
    <3>1. SUFFICES ASSUME read[i].op = ">", borders.minOp = ">=", m = w
                   PROVE  FALSE
      OBVIOUS
    <3>2. read[i].args[1] = read[k].args[1]
      BY <1>4, <1>6, <2>2, <2>5, <3>1
    <3>3. read[i].args = read[k].args
      BY <3>2, SameArgs
    <3>4. read[i] \in ToSet(read) /\ read[k] \in ToSet(read) /\ <<read[i].op, read[k].op>> = <<">", ">=">>
      BY <2>2, <3>1 DEF ToSet
    <3> QED
      BY <3>3, <3>4 DEF SameBorder
  <2>11. CASE read[i].op = ">"
    <3>1. v > m \/ (v >= m /\ m # w)
      BY <2>7, <2>8, <2>9, <2>10, <2>11
    <3>2. v > w
      BY <1>7, <2>4, <2>5, <3>1
    <3> QED
      BY <1>6, <2>11, <3>2 DEF Operator
  <2>12. CASE read[i].op = ">="
    <3>1. v > m \/ v >= m
      BY <2>7, <2>8, <2>9
    <3>2. v >= w
      BY <1>7, <2>4, <2>5, <3>1
    <3> QED
      BY <1>6, <2>12, <3>2 DEF Operator
  <2> QED
    BY <2>7, <2>11, <2>12
<1> QED
  BY <1>8, <1>9 DEF IsNumberKey, Comparisons, IsUpper, IsLower

-----------------------------------------------------------------------------
(* The invariant of a search.                                              *)

KeySet == [column : {"n", "t"}, op : Operators("n") \cup Operators("t"), any : BOOLEAN,
           args : Seq(SUBSET Int) \cup Seq(SUBSET Seq(Characters))]

\* A key of a plan, with arguments.
IsAsked(key) ==
  /\ key.column \in {"n", "t"} /\ key.op \in Operators(key.column) /\ key.any \in BOOLEAN
  /\ key.any => key.op \notin InOperators
  /\ key.args \in Seq(SUBSET Values(key.column))
  /\ \A j \in DOMAIN key.args : AtMostOne(key.args[j])
  /\ ~key.any /\ key.op \notin InOperators => Len(key.args) = 1

\* The keys are those of the plan, with arguments, and each is read in a way its
\* operator allows.
KeysType ==
  /\ keys \in Seq(KeySet) /\ read \in Seq(KeySet)
  /\ Len(read) = Len(keys) /\ Len(keys) <= Len(plan.keys)
  /\ \A i \in DOMAIN keys : IsAsked(keys[i]) /\ read[i] \in ConvertedFrom(keys[i])
  /\ \A i \in DOMAIN read : /\ IsKey(read[i])
                            /\ IsRangeSearchable => IsNumberKey(read[i])

SearchType ==
  /\ plan \in Plans
  /\ KeysType
  /\ data \in Data
  /\ borders \in TheBorders

SearchInv ==
  /\ SearchType
  /\ IsRangeSearchable => UpperFits(borders, read) /\ LowerFits(borders, read)
  /\ ~IsRangeSearchable => AllFits(data, read) /\ OnlyFits(data, read)
  /\ IndexFindsAll
  /\ IndexFindsOnly

LEMMA PlanIs ==
  ASSUME plan \in Plans
  PROVE  /\ plan.regexp \in BOOLEAN /\ plan.keys \in Seq(ToSet(plan.keys)) /\ Len(plan.keys) \in Nat
         /\ \A i \in DOMAIN plan.keys :
              /\ plan.keys[i] = [column |-> plan.keys[i].column, op |-> plan.keys[i].op,
                                 any |-> plan.keys[i].any, args |-> plan.keys[i].args]
              /\ plan.keys[i].column \in {"n", "t"} /\ plan.keys[i].op \in Operators(plan.keys[i].column)
              /\ plan.keys[i].any \in BOOLEAN /\ (plan.keys[i].any => plan.keys[i].op \notin InOperators)
              /\ \A args \in plan.keys[i].args :
                   /\ args \in Seq(SUBSET Values(plan.keys[i].column))
                   /\ \A j \in DOMAIN args : AtMostOne(args[j])
                   /\ ~plan.keys[i].any /\ plan.keys[i].op \notin InOperators => Len(args) = 1
<1>1. plan.regexp \in BOOLEAN /\ plan.keys \in Seq(ToSet(plan.keys))
  BY ScanKeysAssumption DEF ScanKeysAssumption
<1>2. Len(plan.keys) \in Nat
  BY <1>1
<1>3. ASSUME NEW i \in DOMAIN plan.keys
      PROVE  /\ plan.keys[i] = [column |-> plan.keys[i].column, op |-> plan.keys[i].op,
                                any |-> plan.keys[i].any, args |-> plan.keys[i].args]
             /\ plan.keys[i].column \in {"n", "t"} /\ plan.keys[i].op \in Operators(plan.keys[i].column)
             /\ plan.keys[i].any \in BOOLEAN /\ (plan.keys[i].any => plan.keys[i].op \notin InOperators)
             /\ \A args \in plan.keys[i].args :
                  /\ args \in Seq(SUBSET Values(plan.keys[i].column))
                  /\ \A j \in DOMAIN args : AtMostOne(args[j])
                  /\ ~plan.keys[i].any /\ plan.keys[i].op \notin InOperators => Len(args) = 1
  BY ScanKeysAssumption DEF ScanKeysAssumption
<1> QED
  BY <1>1, <1>2, <1>3

\* What an array is taken for is a value of its column.
LEMMA DatumsFitColumns ==
  ASSUME NEW column \in {"n", "t"}
  PROVE  Datums[column] \subseteq Values(column)
<1>1. Datums.n \subseteq Int /\ Datums.t \subseteq Seq(Characters)
  BY ScanKeysAssumption DEF ScanKeysAssumption
<1> QED
  BY <1>1 DEF Values

LEMMA NextKeyIs ==
  ASSUME plan \in Plans, NEW n \in DOMAIN plan.keys, NEW args \in plan.keys[n].args,
         NEW key, key = [plan.keys[n] EXCEPT !.args = args]
  PROVE  key \in KeySet /\ IsAsked(key) /\ (IsRangeSearchable => key.op \in Comparisons)
<1>1. PICK p : p = plan.keys[n]
  OBVIOUS
<1>2. /\ p = [column |-> p.column, op |-> p.op, any |-> p.any, args |-> p.args]
      /\ p.column \in {"n", "t"} /\ p.op \in Operators(p.column)
      /\ p.any \in BOOLEAN /\ (p.any => p.op \notin InOperators)
      /\ args \in Seq(SUBSET Values(p.column))
      /\ \A j \in DOMAIN args : AtMostOne(args[j])
      /\ ~p.any /\ p.op \notin InOperators => Len(args) = 1
  BY <1>1, PlanIs
<1>3. key = [column |-> p.column, op |-> p.op, any |-> p.any, args |-> args]
  BY <1>1, <1>2
<1>4. IsAsked(key)
  BY <1>2, <1>3 DEF IsAsked
<1>5. args \in Seq(SUBSET Int) \cup Seq(SUBSET Seq(Characters))
  BY <1>2 DEF Values
<1>6. p.op \in Operators("n") \cup Operators("t")
  BY <1>2
<1>7. key \in KeySet
  BY <1>2, <1>3, <1>5, <1>6 DEF KeySet
<1>8. IsRangeSearchable => key.op \in Comparisons
  BY <1>1, <1>3 DEF IsRangeSearchable
<1> QED
  BY <1>4, <1>7, <1>8

\* What the key is read as: an array that is none of the three operators' is one value.
LEMMA ReadAs ==
  ASSUME NEW key \in KeySet, IsAsked(key), NEW one \in ConvertedFrom(key)
  PROVE  /\ one \in KeySet /\ IsKey(one) /\ (key.op \in Comparisons => IsNumberKey(one))
         /\ one.op = key.op
         /\ \/ one = key
            \/ key.any /\ ~one.any /\ key.op \notin AnyOperators /\ one.args[1] # {}
<1>1. key.op \in Comparisons => key.column = "n" /\ key.op \notin AnyOperators
  BY DEF IsAsked, Operators, Comparisons, InOperators, AnyOperators
<1>2. CASE key.any /\ key.op \notin AnyOperators
  <2>1. PICK value \in Datums[key.column] : one = [key EXCEPT !.any = FALSE, !.args = <<{value}>>]
    BY <1>2 DEF ConvertedFrom
  <2>2. value \in Values(key.column)
    BY <2>1, DatumsFitColumns DEF IsAsked
  <2>3. PICK given : given = <<{value}>>
    OBVIOUS
  <2>4. given \in Seq(SUBSET Values(key.column)) /\ Len(given) = 1 /\ DOMAIN given = {1} /\ given[1] = {value}
    BY <2>2, <2>3
  <2>5. one.column = key.column /\ one.op = key.op /\ one.any = FALSE /\ one.args = given
    BY <2>1, <2>3 DEF KeySet
  <2>6. given \in Seq(SUBSET Int) \cup Seq(SUBSET Seq(Characters))
    BY <2>4 DEF Values, IsAsked
  <2>7. one \in KeySet
    BY <2>1, <2>3, <2>6 DEF KeySet
  <2>8. \A j \in DOMAIN given : AtMostOne(given[j])
    BY <2>4, TheOf
  <2>9. IsKey(one)
    BY <2>4, <2>5, <2>8 DEF IsKey, IsAsked
  <2> QED
    BY <1>1, <1>2, <2>4, <2>5, <2>7, <2>9 DEF IsNumberKey
<1>3. CASE ~(key.any /\ key.op \notin AnyOperators)
  <2>1. one = key
    BY <1>3 DEF ConvertedFrom
  <2>2. IsKey(key)
    BY <1>3 DEF IsKey, IsAsked
  <2> QED
    BY <1>1, <1>3, <2>1, <2>2 DEF IsNumberKey, IsAsked
<1> QED
  BY <1>2, <1>3

-----------------------------------------------------------------------------
(* What a search finds.                                                    *)

TheRowsFound ==
  CASE IsRangeSearchable -> RangeSearch
    [] ~IsRangeSearchable /\ keys = <<>> -> Rows
    [] OTHER -> Selected

\* A key that is read as it is, or an array that is taken for one value.
LEMMA ReadOf ==
  ASSUME KeysType, NEW i \in DOMAIN read
  PROVE  /\ DOMAIN keys = DOMAIN read
         /\ read[i].op = keys[i].op
         /\ IsNullKey(read[i]) => IsNullKey(keys[i])
         /\ EmptyKey(read[i]) => EmptyKey(keys[i])
<1>1. DOMAIN keys = DOMAIN read
  BY DEF KeysType
<1>2. PICK k, one : k = keys[i] /\ one = read[i] /\ k \in KeySet /\ one \in ConvertedFrom(k) /\ IsAsked(k)
  BY <1>1 DEF KeysType
<1>3. one.op = k.op /\ (one = k \/ (k.any /\ ~one.any /\ k.op \notin AnyOperators /\ one.args[1] # {}))
  BY <1>2, ReadAs
<1>4. CASE one = k
  BY <1>1, <1>2, <1>4
<1>5. CASE k.any /\ ~one.any /\ k.op \notin AnyOperators /\ one.args[1] # {}
  <2>1. k.op # "~~" /\ k.op # "&@~|"
    BY <1>2, <1>5 DEF IsAsked, AnyOperators, InOperators
  <2>2. ~IsNullKey(one) /\ ~EmptyKey(one)
    BY <1>3, <1>5, <2>1 DEF IsNullKey, EmptyKey
  <2> QED
    BY <1>1, <1>2, <1>3, <2>2
<1> QED
  BY <1>3, <1>4, <1>5

LEMMA WantedRead ==
  ASSUME KeysType
  PROVE  Wanted \subseteq WantedOf(read) \cup LostToArrays /\ WantedOf(read) \subseteq Wanted \cup FoundByArrays
<1>1. DOMAIN keys = DOMAIN read
  BY DEF KeysType
<1> QED
  BY <1>1 DEF Wanted, WantedOf, LostToArrays, FoundByArrays

LEMMA EmptyKeyIn ==
  ASSUME KeysType, NEW i \in DOMAIN read, EmptyKey(read[i])
  PROVE  EmptyAlternative
<1>1. PICK k : k = keys[i] /\ k \in Keys
  BY ReadOf, KeyIn
<1>2. EmptyKey(k)
  BY <1>1, ReadOf
<1>3. CASE k.op = "&@~|" /\ \E j \in DOMAIN k.args : k.args[j] \in {{}, {<<>>}}
  BY <1>1, <1>3 DEF EmptyAlternative
<1>4. CASE k.op = "~~" /\ (~plan.regexp \/ k.any) /\ \E j \in DOMAIN k.args : k.args[j] = {<<>>}
  <2>1. {<<>>} \in ToSet(k.args)
    BY <1>4 DEF ToSet
  <2> QED
    BY <1>1, <1>4, <2>1 DEF EmptyAlternative
<1> QED
  BY <1>2, <1>3, <1>4 DEF EmptyKey

LEMMA SearchFindsAll ==
  ASSUME SearchInv, ~EmptyAlternative, ~WithoutKey
  PROVE  Wanted \subseteq TheRowsFound \cup LostToArrays
<1>1. KeysType /\ keys # <<>> /\ read # <<>> /\ read \in Seq(KeySet)
  BY DEF WithoutKey, SearchInv, SearchType, KeysType
<1>2. 1 \in DOMAIN read
  BY <1>1
<1>3. SUFFICES WantedOf(read) \subseteq TheRowsFound
  BY <1>1, WantedRead
<1>4. CASE IsRangeSearchable
  <2>1. SUFFICES ASSUME NEW row \in WantedOf(read)
                 PROVE  row \in RangeSearch
    BY <1>4 DEF TheRowsFound
  <2>2. row \in Rows /\ \A k \in DOMAIN read : Holds(read[k], row)
    BY DEF WantedOf
  <2>3. \A k \in DOMAIN read : IsKey(read[k]) /\ IsNumberKey(read[k])
    BY <1>1, <1>4 DEF KeysType
  <2>4. UpperFits(borders, read) /\ LowerFits(borders, read)
    BY <1>4 DEF SearchInv
  <2> QED
    BY <1>2, <2>2, <2>3, <2>4, RangeFindsAll
<1>5. CASE ~IsRangeSearchable
  <2>1. TheRowsFound = Selected
    BY <1>1, <1>5 DEF TheRowsFound
  <2>2. AllFits(data, read)
    BY <1>5 DEF SearchInv
  <2>3. \A i \in DOMAIN read : ~EmptyKey(read[i])
    BY <1>1, EmptyKeyIn
  <2>4. CASE WantedOf(read) = {}
    BY <2>4
  <2>5. CASE ~data.empty /\ \E S : data.stack = <<S>> /\ WantedOf(read) \subseteq S
    <3>1. PICK S : data.stack = <<S>> /\ WantedOf(read) \subseteq S
      BY <2>5
    <3>2. Selected = S
      BY <2>5, <3>1, OneLong DEF Selected
    <3> QED
      BY <2>1, <3>1, <3>2
  <2> QED
    BY <1>1, <2>2, <2>3, <2>4, <2>5 DEF AllFits
<1> QED
  BY <1>4, <1>5

LEMMA SearchFindsOnly ==
  ASSUME SearchInv, ~data.short, ~NullKey, ~LostBorder, ~SameBorder, ~Recheck,
         NEW row \in TheRowsFound
  PROVE  row \in Wanted \cup NotPrefixOfNull \cup FoundByArrays
<1>1. KeysType /\ borders \in TheBorders
  BY DEF SearchInv, SearchType
<1>2. \A i \in DOMAIN read : ~IsNullKey(read[i]) /\ i \in DOMAIN keys /\ read[i].op = keys[i].op /\ keys[i] \in Keys
  BY <1>1, ReadOf, KeyIn DEF NullKey
<1>3. CASE IsRangeSearchable
  <2>1. row \in RangeSearch /\ row \in Rows
    BY <1>3 DEF TheRowsFound, RangeSearch
  <2>2. \A k \in DOMAIN read : IsKey(read[k]) /\ IsNumberKey(read[k])
    BY <1>1, <1>3 DEF KeysType
  <2>3. UpperFits(borders, read) /\ LowerFits(borders, read)
    BY <1>3 DEF SearchInv
  <2>4. BordersKept
    BY <1>2, <1>3 DEF BordersKept, LostBorder, IsUpper, IsLower
  <2>5. \A i \in DOMAIN read : Holds(read[i], row)
    BY <1>1, <1>2, <2>1, <2>2, <2>3, <2>4, RangeFindsOnly
  <2> QED
    BY <1>1, <2>1, <2>5, WantedRead DEF WantedOf
<1>4. CASE ~IsRangeSearchable /\ keys = <<>>
  <2>1. row \in Rows
    BY <1>4 DEF TheRowsFound
  <2> QED
    BY <1>4, <2>1 DEF Wanted
<1>5. CASE ~IsRangeSearchable /\ keys # <<>>
  <2>1. row \in Selected
    BY <1>5 DEF TheRowsFound
  <2>2. ~data.empty /\ data.stack # <<>> /\ row \in Last(data.stack)
    BY <2>1 DEF Selected
  <2>3. \A i \in DOMAIN read : read[i].op # "~~" /\ ~IsNullKey(read[i])
    BY <1>2 DEF Recheck
  <2>4. OnlyFits(data, read)
    BY <1>5 DEF SearchInv
  <2>5. PICK S : data.stack = <<S>> /\ S \subseteq WantedOf(read) \cup NullRows(read)
    BY <2>2, <2>3, <2>4 DEF OnlyFits
  <2>6. row \in S
    BY <2>2, <2>5, OneLong
  <2>7. NullRows(read) \subseteq NotPrefixOfNull
    BY <1>2 DEF NullRows, NotPrefixOfNull
  <2> QED
    BY <1>1, <2>5, <2>6, <2>7, WantedRead
<1> QED
  BY <1>3, <1>4, <1>5

LEMMA NoKeys ==
  /\ DOMAIN <<>> = {} /\ <<>> \in Seq(KeySet) /\ Len(<<>>) = 0
  /\ SearchDataInit \in Data /\ AllFits(SearchDataInit, <<>>) /\ OnlyFits(SearchDataInit, <<>>)
<1>1. DOMAIN <<>> = {} /\ <<>> \in Seq(KeySet) /\ Len(<<>>) = 0
  OBVIOUS
<1>2. SearchDataInit \in Data
  BY DEF SearchDataInit, Data
<1> QED
  BY <1>1, <1>2 DEF SearchDataInit, AllFits, OnlyFits

LEMMA InitSearchInv == Init => SearchInv
<1>1. SUFFICES ASSUME Init
               PROVE  SearchInv
  OBVIOUS
<1>2. plan \in Plans /\ keys = <<>> /\ read = <<>> /\ borders = NoBorders /\ data = SearchDataInit /\ found = {}
  BY <1>1 DEF Init
<1>3. KeysType
  BY <1>2, NoKeys, PlanIs DEF KeysType
<1>4. borders \in TheBorders /\ UpperFits(borders, read) /\ LowerFits(borders, read)
  <2>1. borders = [min |-> {}, max |-> {}, minOp |-> "", maxOp |-> ""]
    BY <1>2 DEF NoBorders
  <2>2. borders.min = {} /\ borders.max = {} /\ borders.minOp = "" /\ borders.maxOp = ""
    BY <2>1
  <2>3. borders \in TheBorders
    BY <2>1 DEF TheBorders
  <2>4. AtMostOne({}) /\ DOMAIN read = {}
    BY <1>2, NoKeys DEF AtMostOne
  <2>5. UpperFits(borders, read)
    BY <2>2, <2>4 DEF UpperFits
  <2>6. LowerFits(borders, read)
    BY <2>2, <2>4 DEF LowerFits
  <2> QED
    BY <2>3, <2>5, <2>6
<1>5. IndexFindsAll /\ IndexFindsOnly
  BY <1>2 DEF IndexFindsAll, IndexFindsOnly
<1> QED
  BY <1>2, <1>3, <1>4, <1>5, NoKeys DEF SearchInv, SearchType

\* The key that comes next, with its arguments, and what it is read as.
LEMMA NextKeyMore ==
  ASSUME SearchType, NEW args, NEW key, Len(keys) < Len(plan.keys),
         args \in plan.keys[Len(keys) + 1].args, key = [plan.keys[Len(keys) + 1] EXCEPT !.args = args],
         NEW one \in ConvertedFrom(key),
         keys' = Append(keys, key), read' = Append(read, one), plan' = plan
  PROVE  /\ IsKey(one) /\ (IsRangeSearchable => IsNumberKey(one))
         /\ OneMore(read, one, read')
         /\ KeysType'
<1>1. plan \in Plans /\ keys \in Seq(KeySet) /\ read \in Seq(KeySet) /\ Len(read) = Len(keys)
  BY DEF SearchType, KeysType
<1>2. Len(plan.keys) \in Nat /\ plan.keys \in Seq(ToSet(plan.keys))
  BY <1>1, PlanIs
<1>3. PICK n : n = Len(keys) /\ n \in Nat /\ n + 1 \in DOMAIN plan.keys
  BY <1>1, <1>2
<1>4. /\ key \in KeySet /\ IsAsked(key)
      /\ one \in KeySet /\ IsKey(one) /\ (IsRangeSearchable => IsNumberKey(one))
  <2>1. key \in KeySet /\ IsAsked(key) /\ (IsRangeSearchable => key.op \in Comparisons)
    BY <1>1, <1>3, NextKeyIs
  <2> QED
    BY <2>1, ReadAs
<1>5. /\ keys' \in Seq(KeySet) /\ Len(keys') = n + 1
      /\ DOMAIN keys = 1..n /\ DOMAIN keys' = 1..(n + 1)
      /\ keys'[n + 1] = key /\ \A j \in 1..n : keys'[j] = keys[j]
  BY <1>1, <1>3, <1>4
<1>6. /\ read' \in Seq(KeySet) /\ Len(read') = n + 1
      /\ DOMAIN read = 1..n /\ DOMAIN read' = 1..(n + 1)
      /\ read'[n + 1] = one /\ \A j \in 1..n : read'[j] = read[j]
  BY <1>1, <1>3, <1>4
<1>7. OneMore(read, one, read')
  BY <1>3, <1>6 DEF OneMore
<1>8. 1..(n + 1) = (1..n) \cup {n + 1}
  BY <1>3
<1>9. \A i \in DOMAIN keys' : IsAsked(keys'[i]) /\ read'[i] \in ConvertedFrom(keys'[i])
  <2>1. \A i \in 1..n : IsAsked(keys[i]) /\ read[i] \in ConvertedFrom(keys[i])
    BY <1>5 DEF SearchType, KeysType
  <2> QED
    BY <1>4, <1>5, <1>6, <1>8, <2>1
<1>10. \A i \in DOMAIN read' : /\ IsKey(read'[i])
                               /\ IsRangeSearchable => IsNumberKey(read'[i])
  <2>1. \A i \in 1..n : /\ IsKey(read[i])
                        /\ IsRangeSearchable => IsNumberKey(read[i])
    BY <1>6 DEF SearchType, KeysType
  <2> QED
    BY <1>4, <1>6, <1>8, <2>1
<1>11. IsRangeSearchable' <=> IsRangeSearchable
  BY DEF IsRangeSearchable
<1>12. KeysType'
  BY <1>2, <1>3, <1>5, <1>6, <1>9, <1>10, <1>11 DEF KeysType
<1> QED
  BY <1>4, <1>7, <1>12

\* What does not look at the plan otherwise than through these is of the plan.
LEMMA SamePlan ==
  ASSUME plan' = plan
  PROVE  /\ IsRangeSearchable' <=> IsRangeSearchable
         /\ AllFits(data', read') => AllFits(data, read)'
         /\ OnlyFits(data', read') => OnlyFits(data, read)'
BY DEF IsRangeSearchable, AllFits, OnlyFits, EmptyKey

LEMMA NextKeySearchInv ==
  ASSUME SearchInv, NextKey
  PROVE  SearchInv'
<1>1. /\ plan' = plan /\ found = {} /\ found' = {}
      /\ SearchType /\ KeysType /\ plan \in Plans /\ data \in Data /\ borders \in TheBorders
  BY DEF NextKey, SearchInv, SearchType
<1>2. PICK args, key, one :
        /\ args \in plan.keys[Len(keys) + 1].args /\ key = [plan.keys[Len(keys) + 1] EXCEPT !.args = args]
        /\ keys' = Append(keys, key)
        /\ one \in ConvertedFrom(key) /\ read' = Append(read, one)
        /\ IF IsRangeSearchable
           THEN FillBorder(one) /\ UNCHANGED data
           ELSE data' = (IF data.empty THEN data ELSE BuildConditions(one)) /\ UNCHANGED borders
  BY DEF NextKey
<1>3. IsKey(one) /\ (IsRangeSearchable => IsNumberKey(one)) /\ OneMore(read, one, read') /\ KeysType'
  BY <1>1, <1>2, NextKeyMore DEF NextKey
<1>4. /\ \A i \in DOMAIN read : i \in DOMAIN read' /\ read'[i] = read[i]
      /\ \A i \in DOMAIN read' : read'[i] = one \/ \E j \in DOMAIN read : read'[i] = read[j]
  BY <1>3, OneMoreOf
<1>5. \A i \in DOMAIN read : IsKey(read[i]) /\ (IsRangeSearchable => IsNumberKey(read[i]))
  BY <1>1 DEF KeysType
<1>7. IndexFindsAll' /\ IndexFindsOnly'
  BY <1>1 DEF IndexFindsAll, IndexFindsOnly
<1>8. CASE IsRangeSearchable
  <2>1. UpperFits(borders, read) /\ LowerFits(borders, read)
    BY <1>8 DEF SearchInv
  <2>2. Filled(one, borders')
    <3>1. AtMostOne(borders.max) /\ AtMostOne(borders.min)
      BY <2>1 DEF UpperFits, LowerFits
    <3> QED
      BY <1>1, <1>2, <1>3, <1>8, <3>1, FillBorderIs
  <2>3. borders' \in TheBorders
    BY <1>1, <1>3, <1>8, <2>2, FilledType
  <2>4. UpperFits(borders', read') /\ LowerFits(borders', read')
    BY <1>1, <1>3, <1>5, <1>8, <2>1, <2>2, UpperFitsStep, LowerFitsStep
  <2>5. data' = data
    BY <1>2, <1>8
  <2> QED
    BY <1>1, <1>3, <1>7, <1>8, <2>3, <2>4, <2>5, SamePlan DEF SearchInv, SearchType
<1>9. CASE ~IsRangeSearchable
  <2>1. AllFits(data, read) /\ OnlyFits(data, read)
    BY <1>9 DEF SearchInv
  <2>2. data' \in Data /\ AllFits(data', read') /\ OnlyFits(data', read')
    <3>1. CASE data.empty
      <4>1. data' = data
        BY <1>2, <1>9, <3>1
      <4>2. WantedOf(read') \subseteq WantedOf(read)
        BY <1>4 DEF WantedOf
      <4>3. (\E i \in DOMAIN read : EmptyKey(read[i])) => \E i \in DOMAIN read' : EmptyKey(read'[i])
        BY <1>4
      <4>4. WantedOf(read) = {} \/ \E i \in DOMAIN read : EmptyKey(read[i])
        BY <2>1, <3>1 DEF AllFits
      <4>5. AllFits(data', read')
        BY <4>2, <4>3, <4>4 DEF AllFits
      <4>6. OnlyFits(data', read')
        BY <3>1, <4>1 DEF OnlyFits
      <4> QED
        BY <1>1, <4>1, <4>5, <4>6
    <3>2. CASE ~data.empty
      <4>1. data' = BuildConditions(one)
        BY <1>2, <1>9, <3>2
      <4> QED
        BY <1>1, <1>3, <2>1, <3>2, <4>1, BuildConditionsData, AllFitsStep, OnlyFitsStep
    <3> QED
      BY <3>1, <3>2
  <2>3. borders' = borders
    BY <1>2, <1>9
  <2> QED
    BY <1>1, <1>3, <1>7, <1>9, <2>2, <2>3, SamePlan DEF SearchInv, SearchType
<1> QED
  BY <1>8, <1>9

LEMMA SearchSearchInv ==
  ASSUME SearchInv, Search
  PROVE  SearchInv'
<1>1. UNCHANGED <<plan, keys, read, borders, data>> /\ found' = {IF Recheck THEN TheRowsFound \cap Wanted ELSE TheRowsFound}
  BY DEF Search, TheRowsFound
<1>2. PICK X : X = (IF Recheck THEN TheRowsFound \cap Wanted ELSE TheRowsFound) /\ found' = {X}
  BY <1>1
<1>3. The(found') = X
  BY <1>2, TheOf
<1>4. Wanted \subseteq X \cup LostToArrays \/ EmptyAlternative \/ WithoutKey
  BY <1>2, SearchFindsAll
<1>5. X \subseteq Wanted \cup NotPrefixOfNull \cup FoundByArrays \/ SameBorder \/ LostBorder \/ NullKey \/ data.short
  BY <1>2, SearchFindsOnly
<1>6. IndexFindsAll'
  <2>1. Wanted' = Wanted /\ LostToArrays' = LostToArrays
    BY <1>1 DEF Wanted, LostToArrays
  <2>2. (EmptyAlternative' <=> EmptyAlternative) /\ (WithoutKey' <=> WithoutKey)
    BY <1>1 DEF EmptyAlternative, WithoutKey, Keys
  <2> QED
    BY <1>3, <1>4, <2>1, <2>2 DEF IndexFindsAll
<1>7. IndexFindsOnly'
  <2>1. /\ Wanted' = Wanted /\ NotPrefixOfNull' = NotPrefixOfNull /\ FoundByArrays' = FoundByArrays
        /\ (data.short)' = data.short
    BY <1>1 DEF Wanted, NotPrefixOfNull, FoundByArrays, Keys
  <2>2. (SameBorder' <=> SameBorder) /\ (LostBorder' <=> LostBorder) /\ (NullKey' <=> NullKey)
    BY <1>1 DEF SameBorder, LostBorder, NullKey, Keys, IsRangeSearchable
  <2> QED
    BY <1>3, <1>5, <2>1, <2>2 DEF IndexFindsOnly
<1>8. SearchType'
  BY <1>1, SamePlan DEF SearchInv, SearchType, KeysType
<1> QED
  BY <1>1, <1>6, <1>7, <1>8, SamePlan DEF SearchInv

LEMMA RescanSearchInv ==
  ASSUME SearchInv, Rescan
  PROVE  SearchInv'
<1>1. /\ plan' = plan /\ keys' = <<>> /\ read' = <<>> /\ data' = SearchDataInit /\ found' = {}
      /\ borders' = [borders EXCEPT !.minOp = "", !.maxOp = ""]
      /\ plan \in Plans /\ borders \in TheBorders
  BY DEF Rescan, SearchInv, SearchType
<1>2. KeysType'
  BY <1>1, NoKeys, PlanIs DEF KeysType
<1>3. borders' \in TheBorders
  BY <1>1 DEF TheBorders
<1>4. SearchType'
  BY <1>1, <1>2, <1>3, NoKeys DEF SearchType
<1>5. IndexFindsAll' /\ IndexFindsOnly'
  BY <1>1 DEF IndexFindsAll, IndexFindsOnly
<1>6. ~IsRangeSearchable => AllFits(data, read)' /\ OnlyFits(data, read)'
  BY <1>1, NoKeys, SamePlan
<1>7. ASSUME IsRangeSearchable
      PROVE  UpperFits(borders', read') /\ LowerFits(borders', read')
  <2>1. AtMostOne(borders.max) /\ AtMostOne(borders.min)
    BY <1>7 DEF SearchInv, UpperFits, LowerFits
  <2>2. borders'.max = borders.max /\ borders'.min = borders.min /\ borders'.maxOp = "" /\ borders'.minOp = ""
    BY <1>1 DEF TheBorders
  <2> QED
    BY <1>1, <2>1, <2>2, NoKeys DEF UpperFits, LowerFits
<1> QED
  BY <1>1, <1>4, <1>5, <1>6, <1>7, SamePlan DEF SearchInv

LEMMA StutterSearchInv ==
  ASSUME SearchInv, UNCHANGED vars
  PROVE  SearchInv'
<1>1. UNCHANGED <<plan, keys, read, borders, data, found>>
  BY DEF vars
<1>2. IndexFindsAll' <=> IndexFindsAll
  BY <1>1 DEF IndexFindsAll, Wanted, LostToArrays, EmptyAlternative, WithoutKey, Keys
<1>3. IndexFindsOnly' <=> IndexFindsOnly
  <2>1. Wanted' = Wanted /\ NotPrefixOfNull' = NotPrefixOfNull /\ FoundByArrays' = FoundByArrays
    BY <1>1 DEF Wanted, NotPrefixOfNull, FoundByArrays, Keys
  <2>2. (SameBorder' <=> SameBorder) /\ (LostBorder' <=> LostBorder) /\ (NullKey' <=> NullKey)
    BY <1>1 DEF SameBorder, LostBorder, NullKey, Keys, IsRangeSearchable
  <2> QED
    BY <1>1, <2>1, <2>2 DEF IndexFindsOnly
<1>4. SearchType'
  BY <1>1, SamePlan DEF SearchInv, SearchType, KeysType
<1> QED
  BY <1>1, <1>2, <1>3, <1>4, SamePlan DEF SearchInv

\* The invariant: what has been pushed, or what the borders are, fits the keys as they
\* have been read, through every order of keys, searches and rescans.
THEOREM SearchInvariant == Spec => []SearchInv
<1>1. SearchInv /\ [Next]_vars => SearchInv'
  BY NextKeySearchInv, SearchSearchInv, RescanSearchInv, StutterSearchInv DEF Next
<1> QED
  BY <1>1, InitSearchInv, PTL DEF Spec

\* For all plans, arguments and rows an index finds the rows the operators find,
\* but for something empty among alternatives, a scan without keys, and the rows lost
\* because an array is taken for one value: PGrnSearchBuildCondition key by key,
\* pgroonga_fill_border, and the rescan that keeps the borders' values.
THEOREM SearchFindsEveryRow == Spec => []IndexFindsAll
<1>1. SearchInv => IndexFindsAll
  BY DEF SearchInv
<1> QED
  BY <1>1, SearchInvariant, PTL

\* For all of them it finds no other rows, but where a border is NULL, lost in a
\* rescan or less strict than another at its value, where a NULL does not begin with
\* anything, where an operator of the expression is short of an operand, and but for
\* the rows of the value an array is taken for.
THEOREM SearchFindsNoOtherRow == Spec => []IndexFindsOnly
<1>1. SearchInv => IndexFindsOnly
  BY DEF SearchInv
<1> QED
  BY <1>1, SearchInvariant, PTL

-----------------------------------------------------------------------------
(* Sequential searches: the cache of data.                                 *)


Index == Indexes \cup OtherIndexes \cup {NoIndex}
Datum ==
  [index : Index, target : {c.target : c \in Conditions}, type : {c.type : c \in Conditions}, useIndex : BOOLEAN,
   ratio : {c.ratio : c \in Conditions}, options : SUBSET Options,
   expression : Query \cup {NoQuery, Broken}, hash : Query \cup {NoQuery}, used : BOOLEAN]

\* A datum is stored under its own fields, and its hash is that of its expression.
DatumsFit ==
  \A k \in DOMAIN datums : /\ datums[k] \in Datum
                           /\ k # NoDatum
                           /\ IsFor(datums[k], k)
                           /\ datums[k].hash # NoQuery => datums[k].expression = datums[k].hash
CurrentAlive == current # NoDatum => current \in DOMAIN datums
ExecutedFits ==
  \A e \in executed :
    /\ e.datum.expression = e.asked.query
    /\ IsFor(e.datum, Key(e.asked))
    /\ ~e.reused => e.datum.ratio = e.asked.ratio /\ e.datum.options = OptionsOf(Key(e.asked))
CacheInv == options \in [Indexes -> Options] /\ DatumsFit /\ CurrentAlive /\ ExecutedFits

\* The key of a condition has the fields the condition asks for.
LEMMA KeyFields ==
  ASSUME NEW c \in Conditions
  PROVE  /\ Key(c).index = IndexOf(c) /\ Key(c).target = c.target /\ Key(c).type = c.type
         /\ Key(c).index \in Index /\ Key(c).useIndex \in BOOLEAN
BY IndexAssumption, AvailableAssumption, Zenon DEF Key, IndexOf, Index

\* The place of a condition holds a datum for its key, if any.
LEMMA PlaceFits ==
  ASSUME CacheInv, NEW c \in Conditions
  PROVE  /\ Place(Key(c)) # NoDatum
         /\ Known(c) => IsFor(datums[Place(Key(c))], Key(c))
         /\ ~Known(c) => Place(Key(c)) = Key(c)
<1>1. CASE current # NoDatum /\ IsFor(datums[current], Key(c))
  BY <1>1 DEF Place, Known, CacheInv, CurrentAlive
<1>2. CASE ~(current # NoDatum /\ IsFor(datums[current], Key(c)))
  BY <1>2, DatumAssumption DEF Place, Known, CacheInv, DatumsFit
<1> QED BY <1>1, <1>2

\* The options of a key are some of the relation options.
LEMMA OptionsFit ==
  ASSUME CacheInv, NEW c \in Conditions, ~Refused(c), ~Known(c)
  PROVE  OptionsOf(Key(c)) \in SUBSET Options
<1>1. CASE Key(c).useIndex /\ Key(c).index # NoIndex
  <2>1. Key(c).index \in Indexes
    BY <1>1, KeyFields DEF Refused, Index
  <2> QED BY <1>1, <2>1 DEF OptionsOf, CacheInv
<1>2. CASE ~(Key(c).useIndex /\ Key(c).index # NoIndex)
  BY <1>2 DEF OptionsOf
<1> QED BY <1>1, <1>2

\* What an execution finds or makes, before the expression.
LEMMA PreparedFits ==
  ASSUME CacheInv, NEW c \in Conditions, ~Refused(c)
  PROVE  /\ Prepared(c) \in Datum
         /\ IsFor(Prepared(c), Key(c))
         /\ Prepared(c).hash # NoQuery => Prepared(c).expression = Prepared(c).hash
         /\ ~Known(c) => Prepared(c).ratio = c.ratio /\ Prepared(c).options = OptionsOf(Key(c))
<1>1. CASE Known(c)
  <2> DEFINE d == datums[Place(Key(c))]
  <2>1. d \in Datum /\ IsFor(d, Key(c)) /\ (d.hash # NoQuery => d.expression = d.hash)
    BY <1>1, PlaceFits DEF CacheInv, DatumsFit, Known
  <2>2. Prepared(c) = [d EXCEPT !.used = TRUE]
    BY <1>1 DEF Prepared
  <2> HIDE DEF d
  <2> QED BY <1>1, <2>1, <2>2 DEF Datum, IsFor
<1>2. CASE ~Known(c)
  <2>1. Prepared(c) = DatumInitialize(Key(c), c)
    BY <1>2 DEF Prepared
  <2>2. OptionsOf(Key(c)) \in SUBSET Options
    BY <1>2, OptionsFit
  <2>3. DatumInitialize(Key(c), c) \in Datum
    BY <2>2, KeyFields DEF DatumInitialize, Datum
  <2> QED BY <2>1, <2>3, QueryAssumption DEF DatumInitialize, IsFor
<1> QED BY <1>1, <1>2

\* What it is with the expression.
LEMMA ExpressionFits ==
  ASSUME CacheInv, NEW c \in Conditions, ~Refused(c)
  PROVE  /\ PrepareExpression(c) \in Datum
         /\ IsFor(PrepareExpression(c), Key(c))
         /\ PrepareExpression(c).hash # NoQuery => PrepareExpression(c).expression = PrepareExpression(c).hash
         /\ ~Known(c) => /\ PrepareExpression(c).ratio = c.ratio
                         /\ PrepareExpression(c).options = OptionsOf(Key(c))
         /\ (~Fails(c) \/ (Known(c) /\ Prepared(c).hash = c.query)) => PrepareExpression(c).expression = c.query
<1> DEFINE d == Prepared(c)
<1>1. /\ d \in Datum /\ IsFor(d, Key(c)) /\ (d.hash # NoQuery => d.expression = d.hash)
      /\ ~Known(c) => d.ratio = c.ratio /\ d.options = OptionsOf(Key(c))
  BY PreparedFits
<1>2. c.query \in Query /\ c.query # NoQuery
  BY QueryAssumption DEF Query
<1>3. CASE Known(c) /\ d.hash = c.query
  <2>1. PrepareExpression(c) = d
    BY <1>3 DEF PrepareExpression
  <2> HIDE DEF d
  <2> QED BY <1>1, <1>2, <1>3, <2>1
<1>4. CASE ~(Known(c) /\ d.hash = c.query)
  <2> DEFINE x == IF Fails(c) THEN Broken ELSE c.query
             h == IF Fails(c) THEN NoQuery ELSE c.query
  <2>1. PrepareExpression(c) = [d EXCEPT !.expression = x, !.hash = h]
    BY <1>4 DEF PrepareExpression
  <2>2. x \in Query \cup {NoQuery, Broken} /\ h \in Query \cup {NoQuery} /\ (h # NoQuery => x = h)
    BY <1>2
  <2>3. ~Fails(c) => x = c.query
    OBVIOUS
  <2>4. ~(Known(c) /\ Prepared(c).hash = c.query)
    BY <1>4
  <2> HIDE DEF d, x, h
  <2> DEFINE e == PrepareExpression(c)
  <2>5. e \in Datum
    BY <1>1, <2>1, <2>2 DEF Datum
  <2>6. /\ e.index = d.index /\ e.target = d.target /\ e.type = d.type
        /\ e.useIndex = d.useIndex /\ e.ratio = d.ratio /\ e.options = d.options
        /\ e.expression = x /\ e.hash = h
    BY <1>1, <2>1 DEF Datum
  <2> HIDE DEF e
  <2>7. IsFor(e, Key(c))
    BY <1>1, <2>6 DEF IsFor
  <2>8. /\ e.hash # NoQuery => e.expression = e.hash
        /\ ~Known(c) => e.ratio = c.ratio /\ e.options = OptionsOf(Key(c))
        /\ (~Fails(c) \/ (Known(c) /\ Prepared(c).hash = c.query)) => e.expression = c.query
    BY <1>1, <2>2, <2>3, <2>4, <2>6
  <2> QED BY <2>5, <2>7, <2>8 DEF e
<1> QED BY <1>3, <1>4

LEMMA InitCacheInv == CacheInit => CacheInv
BY DEF CacheInit, CacheInv, DatumsFit, CurrentAlive, ExecutedFits

LEMMA ExecuteInv ==
  ASSUME CacheInv, NEW c \in Conditions, Execute(c)
  PROVE  CacheInv'
<1> DEFINE place == Place(Key(c))
           datum == PrepareExpression(c)
           failed == Fails(c) /\ ~(Known(c) /\ Prepared(c).hash = c.query)
<1>1. /\ ~Refused(c)
      /\ datums' = [k \in DOMAIN datums \cup {place} |-> IF k = place THEN datum ELSE datums[k]]
      /\ current' = place
      /\ executed' = IF failed THEN {} ELSE {[asked |-> c, datum |-> datum, reused |-> Known(c)]}
      /\ options' = options
  BY DEF Execute
<1>2. /\ datum \in Datum /\ IsFor(datum, Key(c))
      /\ datum.hash # NoQuery => datum.expression = datum.hash
      /\ ~Known(c) => datum.ratio = c.ratio /\ datum.options = OptionsOf(Key(c))
      /\ ~failed => datum.expression = c.query
  BY <1>1, ExpressionFits
<1>3. place # NoDatum /\ IsFor(datum, place)
  <2>1. CASE Known(c)
    <3>1. IsFor(datums[place], Key(c)) /\ IsFor(datums[place], place)
      BY <2>1, PlaceFits DEF Known, CacheInv, DatumsFit
    <3> HIDE DEF datum, place
    <3> QED BY <1>2, <3>1, PlaceFits DEF IsFor, place
  <2>2. CASE ~Known(c)
    BY <2>2, <1>2, PlaceFits
  <2> QED BY <2>1, <2>2
<1> HIDE DEF place, datum, failed
<1>4. DatumsFit'
  <2> SUFFICES ASSUME NEW k \in DOMAIN datums'
               PROVE  /\ datums'[k] \in Datum /\ k # NoDatum /\ IsFor(datums'[k], k)
                      /\ datums'[k].hash # NoQuery => datums'[k].expression = datums'[k].hash
    BY DEF DatumsFit, IsFor
  <2>1. CASE k = place
    BY <1>1, <1>2, <1>3, <2>1
  <2>2. CASE k # place
    <3>1. k \in DOMAIN datums /\ datums'[k] = datums[k]
      BY <1>1, <2>2
    <3> QED BY <3>1 DEF CacheInv, DatumsFit
  <2> QED BY <2>1, <2>2
<1>5. CurrentAlive'
  BY <1>1 DEF CurrentAlive
<1>6. ExecutedFits'
  <2> SUFFICES ASSUME NEW e \in executed'
               PROVE  /\ e.datum.expression = e.asked.query
                      /\ IsFor(e.datum, Key(e.asked))
                      /\ ~e.reused => e.datum.ratio = e.asked.ratio /\ e.datum.options = OptionsOf(Key(e.asked))'
    BY DEF ExecutedFits, IsFor, Key, IndexOf
  <2>1. ~failed /\ e = [asked |-> c, datum |-> datum, reused |-> Known(c)]
    BY <1>1
  <2>2. e.asked = c /\ e.datum = datum /\ e.reused = Known(c)
    BY <2>1
  <2>3. OptionsOf(Key(c))' = OptionsOf(Key(c))
    BY <1>1 DEF OptionsOf, Key, IndexOf
  <2> QED BY <1>2, <2>1, <2>2, <2>3
<1> QED BY <1>1, <1>4, <1>5, <1>6 DEF CacheInv

LEMMA RefuseInv ==
  ASSUME CacheInv, NEW c \in Conditions, Refuse(c)
  PROVE  CacheInv'
BY DEF Refuse, CacheInv, DatumsFit, CurrentAlive, ExecutedFits, IsFor

LEMMA ReleaseInv ==
  ASSUME CacheInv, Release
  PROVE  CacheInv'
<1> DEFINE used == {k \in DOMAIN datums : datums[k].used}
           vacuum == nExecutions + 1 = VacuumFrequency
<1>1. /\ datums' = IF vacuum THEN [k \in used |-> [datums[k] EXCEPT !.used = FALSE]] ELSE datums
      /\ current' = IF vacuum /\ current \notin used THEN NoDatum ELSE current
      /\ executed' = {} /\ options' = options
  BY DEF Release
<1>2. CASE vacuum
  <2>1. DatumsFit'
    <3> SUFFICES ASSUME NEW k \in DOMAIN datums'
                 PROVE  /\ datums'[k] \in Datum /\ k # NoDatum /\ IsFor(datums'[k], k)
                        /\ datums'[k].hash # NoQuery => datums'[k].expression = datums'[k].hash
      BY DEF DatumsFit, IsFor
    <3>1. k \in DOMAIN datums /\ datums'[k] = [datums[k] EXCEPT !.used = FALSE]
      BY <1>1, <1>2
    <3> QED BY <3>1 DEF CacheInv, DatumsFit, Datum, IsFor
  <2>2. CurrentAlive'
    BY <1>1, <1>2 DEF CurrentAlive
  <2> QED BY <1>1, <2>1, <2>2 DEF CacheInv, ExecutedFits
<1>3. CASE ~vacuum
  BY <1>1, <1>3 DEF CacheInv, DatumsFit, CurrentAlive, ExecutedFits, IsFor
<1> QED BY <1>2, <1>3

LEMMA UnmapInv ==
  ASSUME CacheInv, Unmap
  PROVE  CacheInv'
BY DEF Unmap, CacheInv, DatumsFit, CurrentAlive, ExecutedFits

LEMMA AlterIndexInv ==
  ASSUME CacheInv, NEW i \in Indexes, AlterIndex(i)
  PROVE  CacheInv'
<1>1. options' \in [Indexes -> Options] /\ executed' = {} /\ datums' = datums /\ current' = current
  BY DEF AlterIndex, CacheInv
<1> QED BY <1>1 DEF CacheInv, DatumsFit, CurrentAlive, ExecutedFits, IsFor

\* Every step keeps the invariant.
LEMMA StepInv == CacheInv /\ [CacheNext]_cacheVars => CacheInv'
<1> SUFFICES ASSUME CacheInv, [CacheNext]_cacheVars PROVE CacheInv'
  OBVIOUS
<1>1. ASSUME NEW c \in Conditions, Refuse(c) \/ Execute(c) PROVE CacheInv'
  BY <1>1, RefuseInv, ExecuteInv
<1>2. CASE Release
  BY <1>2, ReleaseInv
<1>3. CASE Unmap
  BY <1>3, UnmapInv
<1>4. ASSUME NEW i \in Indexes, AlterIndex(i) PROVE CacheInv'
  BY <1>4, AlterIndexInv
<1>5. CASE UNCHANGED cacheVars
  BY <1>5 DEF cacheVars, CacheInv, DatumsFit, CurrentAlive, ExecutedFits, IsFor, OptionsOf, Key, IndexOf
<1> QED BY <1>1, <1>2, <1>3, <1>4, <1>5 DEF CacheNext

\* The datum that is current is there, and what was executed last was the query,
\* the index, the kind of target and the type of operator that were asked for, with
\* the ratio and the options of the condition if the datum was made for it.
THEOREM AlwaysWhatIsAsked == CacheSpec => []ExecutesWhatIsAsked
<1>1. CacheInv => ExecutesWhatIsAsked
  BY DEF CacheInv, CurrentAlive, ExecutedFits, ExecutesWhatIsAsked
<1> QED BY <1>1, InitCacheInv, StepInv, PTL DEF CacheSpec
=============================================================================
