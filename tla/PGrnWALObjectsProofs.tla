------------------------ MODULE PGrnWALObjectsProofs ------------------------
(***************************************************************************)
(* What the writers of WAL and its two readers agree on (PGrnWALRecords,   *)
(* PGrnWALRedo), and that every record a primary writes in its life        *)
(* (PGrnWALObjects) is one they agree on, for any databases, indexes,      *)
(* attributes, tablespaces, rows and buffers of bulk insertions.           *)
(*                                                                         *)
(* From the bottom up: folds and flattened sequences; what each read takes *)
(* from the cells that each write gives (TupleIsRead, ValueIsRead,         *)
(* SetSourcesIsRead), whatever comes after them; that redoing a custom     *)
(* record (RecordIsRedone) or applying an object (ObjectIsApplied) does    *)
(* what the operation did, if what it refers to is there; that all         *)
(* operations the scripts of a primary are made of can be read back        *)
(* (FormedOp); and that this is so in every buffer and every stream, for   *)
(* ever (RecordsInv).  Redo changes only rows, columns and tables, and     *)
(* keeps what a database is made of (FormedDB); the objects in pages need  *)
(* that no attribute is called "_key", "_table" or "_action".              *)
(***************************************************************************)
EXTENDS PGrnWALObjects, SequenceTheorems, TLAPS

-----------------------------------------------------------------------------
(* Sequences of anything.                                                  *)

Sequence(x) == \E R : x \in Seq(R)

LEMMA SeqIn ==
  ASSUME NEW R, NEW S, R \subseteq S, NEW x \in Seq(R)
  PROVE  x \in Seq(S)
<1>1. x \in [1..Len(x) -> R] /\ Len(x) \in Nat
  OBVIOUS
<1>2. x \in [1..Len(x) -> S]
  BY <1>1
<1> QED
  BY <1>1, <1>2, SeqDef

LEMMA EmptySequence == Sequence(<<>>)
<1>1. <<>> \in Seq({})
  OBVIOUS
<1> QED
  BY <1>1 DEF Sequence

LEMMA OneSequence == ASSUME NEW c PROVE Sequence(<<c>>)
<1>1. <<c>> \in Seq({c})
  OBVIOUS
<1> QED
  BY <1>1 DEF Sequence

\* Two sequences are sequences over one set.
LEMMA Common2 ==
  ASSUME NEW a, NEW b, Sequence(a), Sequence(b)
  PROVE  \E R : a \in Seq(R) /\ b \in Seq(R)
<1>1. PICK R : a \in Seq(R)
  BY DEF Sequence
<1>2. PICK S : b \in Seq(S)
  BY DEF Sequence
<1>3. a \in Seq(R \cup S)
  <2>1. R \subseteq R \cup S
    OBVIOUS
  <2> QED
    BY <1>1, <2>1, SeqIn
<1>4. b \in Seq(R \cup S)
  <2>1. S \subseteq R \cup S
    OBVIOUS
  <2> QED
    BY <1>2, <2>1, SeqIn
<1> QED
  BY <1>3, <1>4

LEMMA ConcatSequence ==
  ASSUME NEW a, NEW b, Sequence(a), Sequence(b)
  PROVE  Sequence(a \o b)
<1>1. PICK R : a \in Seq(R) /\ b \in Seq(R)
  BY Common2
<1>2. a \o b \in Seq(R)
  BY <1>1
<1> QED
  BY <1>2 DEF Sequence

LEMMA AppendSequence ==
  ASSUME NEW a, NEW c, Sequence(a)
  PROVE  /\ Sequence(Append(a, c))
         /\ Len(Append(a, c)) = Len(a) + 1
         /\ Len(a) \in Nat
         /\ Append(a, c)[Len(a) + 1] = c
         /\ \A i \in 1..Len(a) : Append(a, c)[i] = a[i]
         /\ Append(a, c) # <<>>
         /\ Front(Append(a, c)) = a
<1>1. PICK R : a \in Seq(R) /\ <<c>> \in Seq(R)
  BY Common2, OneSequence
<1>2. c \in R
  <2>1. <<c>>[1] = c /\ Len(<<c>>) = 1
    OBVIOUS
  <2> QED
    BY <1>1, <2>1, ElementOfSeq
<1>3. /\ Append(a, c) \in Seq(R)
      /\ Len(Append(a, c)) = Len(a) + 1
      /\ Len(a) \in Nat
      /\ Append(a, c)[Len(a) + 1] = c
      /\ \A i \in 1..Len(a) : Append(a, c)[i] = a[i]
  BY <1>1, <1>2
<1>4. Append(a, c) # <<>>
  BY <1>3
<1>5. Front(Append(a, c)) = a
  <2>1. Front(Append(a, c)) = SubSeq(Append(a, c), 1, Len(a))
    BY <1>3 DEF Front
  <2>2. /\ Len(SubSeq(Append(a, c), 1, Len(a))) = Len(a)
        /\ SubSeq(Append(a, c), 1, Len(a)) \in Seq(R)
        /\ \A i \in 1..Len(a) : SubSeq(Append(a, c), 1, Len(a))[i] = Append(a, c)[i]
    BY <1>3
  <2> QED
    BY <1>1, <1>3, <2>1, <2>2, SeqEqual
<1> QED
  BY <1>3, <1>4, <1>5 DEF Sequence

LEMMA ConsSequence ==
  ASSUME NEW c, NEW t, Sequence(t)
  PROVE  /\ Sequence(<<c>> \o t)
         /\ <<c>> \o t # <<>>
         /\ Head(<<c>> \o t) = c
         /\ Tail(<<c>> \o t) = t
         /\ Len(<<c>> \o t) = Len(t) + 1
         /\ Len(t) \in Nat
<1>1. PICK R : <<c>> \in Seq(R) /\ t \in Seq(R)
  BY Common2, OneSequence
<1>2. Len(<<c>>) = 1 /\ <<c>>[1] = c
  OBVIOUS
<1>3. /\ <<c>> \o t \in Seq(R)
      /\ Len(<<c>> \o t) = 1 + Len(t)
      /\ Len(t) \in Nat
      /\ (<<c>> \o t)[1] = c
      /\ \A i \in 1..Len(t) : (<<c>> \o t)[i + 1] = t[i]
  BY <1>1, <1>2
<1>4. <<c>> \o t # <<>>
  BY <1>3
<1>5. Head(<<c>> \o t) = c
  BY <1>3, <1>4
<1>6. Tail(<<c>> \o t) = t
  <2>1. /\ Tail(<<c>> \o t) \in Seq(R)
        /\ Len(Tail(<<c>> \o t)) = Len(t)
        /\ \A i \in 1..Len(t) : Tail(<<c>> \o t)[i] = (<<c>> \o t)[i + 1]
    BY <1>3, <1>4
  <2> QED
    BY <1>1, <1>3, <2>1, SeqEqual
<1> QED
  BY <1>3, <1>4, <1>5, <1>6 DEF Sequence

LEMMA Associative ==
  ASSUME NEW a, NEW b, NEW c, Sequence(a), Sequence(b), Sequence(c)
  PROVE  (a \o b) \o c = a \o (b \o c)
<1>1. PICK R : a \in Seq(R) /\ b \in Seq(R)
  BY Common2
<1>2. PICK S : c \in Seq(S)
  BY DEF Sequence
<1>3. R \subseteq R \cup S /\ S \subseteq R \cup S
  OBVIOUS
<1>4. a \in Seq(R \cup S) /\ b \in Seq(R \cup S) /\ c \in Seq(R \cup S)
  BY <1>1, <1>2, <1>3, SeqIn
<1> QED
  BY <1>4, ConcatAssociative

\* Of four, of which the last two are taken together.
LEMMA Associative4 ==
  ASSUME NEW a, NEW b, NEW c, NEW d, Sequence(a), Sequence(b), Sequence(c), Sequence(d)
  PROVE  ((a \o b) \o c) \o d = a \o (b \o (c \o d))
<1> DEFINE x == a \o b
           y == c \o d
<1>1. Sequence(x) /\ Sequence(y)
  BY ConcatSequence
<1> HIDE DEF x, y
<1>2. (x \o c) \o d = x \o (c \o d)
  BY <1>1, Associative
<1>3. (a \o b) \o y = a \o (b \o y)
  BY <1>1, Associative
<1> QED
  BY <1>2, <1>3 DEF x, y

LEMMA EmptyConcat ==
  ASSUME NEW a, Sequence(a)
  PROVE  a \o <<>> = a /\ <<>> \o a = a
<1>1. PICK R : a \in Seq(R)
  BY DEF Sequence
<1> QED
  BY <1>1, ConcatEmptySeq

\* The elements of one sequence after another.
LEMMA ConcatElements ==
  ASSUME NEW a, NEW b, Sequence(a), Sequence(b)
  PROVE  /\ Len(a) \in Nat /\ Len(b) \in Nat
         /\ Len(a \o b) = Len(a) + Len(b)
         /\ \A i \in 1..Len(a) : (a \o b)[i] = a[i]
         /\ \A i \in 1..Len(b) : (a \o b)[Len(a) + i] = b[i]
<1>1. PICK R : a \in Seq(R) /\ b \in Seq(R)
  BY Common2
<1> QED
  BY <1>1, ConcatProperties

LEMMA HeadTail ==
  ASSUME NEW s, Sequence(s), s # <<>>
  PROVE  /\ Sequence(Tail(s))
         /\ Len(s) \in Nat /\ Len(s) >= 1
         /\ Len(Tail(s)) = Len(s) - 1
         /\ Head(s) = s[1]
         /\ \A i \in 1..Len(s) - 1 : Tail(s)[i] = s[i + 1]
         /\ s = <<Head(s)>> \o Tail(s)
<1>1. PICK R : s \in Seq(R)
  BY DEF Sequence
<1>2. /\ Tail(s) \in Seq(R)
      /\ Len(s) \in Nat /\ Len(s) >= 1
      /\ Len(Tail(s)) = Len(s) - 1
      /\ Head(s) = s[1] /\ Head(s) \in R
      /\ \A i \in 1..Len(s) - 1 : Tail(s)[i] = s[i + 1]
  BY <1>1
<1>3. s = <<Head(s)>> \o Tail(s)
  <2>1. <<Head(s)>> \in Seq(R) /\ Len(<<Head(s)>>) = 1 /\ <<Head(s)>>[1] = Head(s)
    BY <1>2
  <2>2. /\ <<Head(s)>> \o Tail(s) \in Seq(R)
        /\ Len(<<Head(s)>> \o Tail(s)) = Len(s)
    BY <1>2, <2>1, ConcatProperties
  <2>3. \A i \in 1..Len(s) : (<<Head(s)>> \o Tail(s))[i] = s[i]
    BY <1>2, <2>1, ConcatProperties
  <2> QED
    BY <1>1, <2>2, <2>3, SeqEqual
<1> QED
  BY <1>2, <1>3 DEF Sequence

-----------------------------------------------------------------------------
(* Folds, and sequences of sequences.                                      *)

\* The largest number, as FoldLeft chooses it.
LEMMA LargestOf ==
  ASSUME NEW s \in SUBSET Int, NEW x \in s, \A y \in s : x >= y
  PROVE  Max(s) = x
<1>1. \A y \in s : (\A z \in s : y >= z) => y = x
  OBVIOUS
<1> QED
  BY <1>1 DEF Max

TakeFieldFold == INSTANCE LeftFolds WITH op <- TakeField, Largest <- Max
TakeSourceFold == INSTANCE LeftFolds WITH op <- TakeSource, Largest <- Max
TakeElementFold == INSTANCE LeftFolds WITH op <- TakeElement, Largest <- Max
TakeColumnFold == INSTANCE LeftFolds WITH op <- TakeColumn, Largest <- Max
RedoTupleFold == INSTANCE LeftFolds WITH op <- RedoTuple, Largest <- Max
PerformFold == INSTANCE LeftFolds WITH op <- PerformStep, Largest <- Max
RemoveFold == INSTANCE LeftFolds WITH op <- RemoveTableIfCan, Largest <- Max

LEMMA TakeFieldRuns ==
  ASSUME NEW base, NEW n \in Nat, NEW seq, DOMAIN seq = 1..n
  PROVE  \E run : /\ run[0] = base
                  /\ \A i \in 1..n : run[i] = TakeField(run[i - 1], seq[i])
                  /\ run[n] = FoldLeft(TakeField, base, seq)
<1>1. TakeFieldFold!LargestIs
  BY LargestOf DEF TakeFieldFold!LargestIs
<1>2. FoldLeft(TakeField, base, seq) = TakeFieldFold!Folded(base, seq)
  BY DEF TakeFieldFold!Folded, FoldLeft, MapThenFoldSet
<1>3. \E run : TakeFieldFold!Runs(run, base, seq, n) /\ run[n] = TakeFieldFold!Folded(base, seq)
  BY <1>1, TakeFieldFold!FoldLeftRuns
<1> QED
  BY <1>2, <1>3 DEF TakeFieldFold!Runs

LEMMA TakeSourceRuns ==
  ASSUME NEW base, NEW n \in Nat, NEW seq, DOMAIN seq = 1..n
  PROVE  \E run : /\ run[0] = base
                  /\ \A i \in 1..n : run[i] = TakeSource(run[i - 1], seq[i])
                  /\ run[n] = FoldLeft(TakeSource, base, seq)
<1>1. TakeSourceFold!LargestIs
  BY LargestOf DEF TakeSourceFold!LargestIs
<1>2. FoldLeft(TakeSource, base, seq) = TakeSourceFold!Folded(base, seq)
  BY DEF TakeSourceFold!Folded, FoldLeft, MapThenFoldSet
<1>3. \E run : TakeSourceFold!Runs(run, base, seq, n) /\ run[n] = TakeSourceFold!Folded(base, seq)
  BY <1>1, TakeSourceFold!FoldLeftRuns
<1> QED
  BY <1>2, <1>3 DEF TakeSourceFold!Runs

LEMMA TakeElementRuns ==
  ASSUME NEW base, NEW n \in Nat, NEW seq, DOMAIN seq = 1..n
  PROVE  \E run : /\ run[0] = base
                  /\ \A i \in 1..n : run[i] = TakeElement(run[i - 1], seq[i])
                  /\ run[n] = FoldLeft(TakeElement, base, seq)
<1>1. TakeElementFold!LargestIs
  BY LargestOf DEF TakeElementFold!LargestIs
<1>2. FoldLeft(TakeElement, base, seq) = TakeElementFold!Folded(base, seq)
  BY DEF TakeElementFold!Folded, FoldLeft, MapThenFoldSet
<1>3. \E run : TakeElementFold!Runs(run, base, seq, n) /\ run[n] = TakeElementFold!Folded(base, seq)
  BY <1>1, TakeElementFold!FoldLeftRuns
<1> QED
  BY <1>2, <1>3 DEF TakeElementFold!Runs

LEMMA TakeColumnRuns ==
  ASSUME NEW base, NEW n \in Nat, NEW seq, DOMAIN seq = 1..n
  PROVE  \E run : /\ run[0] = base
                  /\ \A i \in 1..n : run[i] = TakeColumn(run[i - 1], seq[i])
                  /\ run[n] = FoldLeft(TakeColumn, base, seq)
<1>1. TakeColumnFold!LargestIs
  BY LargestOf DEF TakeColumnFold!LargestIs
<1>2. FoldLeft(TakeColumn, base, seq) = TakeColumnFold!Folded(base, seq)
  BY DEF TakeColumnFold!Folded, FoldLeft, MapThenFoldSet
<1>3. \E run : TakeColumnFold!Runs(run, base, seq, n) /\ run[n] = TakeColumnFold!Folded(base, seq)
  BY <1>1, TakeColumnFold!FoldLeftRuns
<1> QED
  BY <1>2, <1>3 DEF TakeColumnFold!Runs

LEMMA RedoTupleRuns ==
  ASSUME NEW base, NEW n \in Nat, NEW seq, DOMAIN seq = 1..n
  PROVE  \E run : /\ run[0] = base
                  /\ \A i \in 1..n : run[i] = RedoTuple(run[i - 1], seq[i])
                  /\ run[n] = FoldLeft(RedoTuple, base, seq)
<1>1. RedoTupleFold!LargestIs
  BY LargestOf DEF RedoTupleFold!LargestIs
<1>2. FoldLeft(RedoTuple, base, seq) = RedoTupleFold!Folded(base, seq)
  BY DEF RedoTupleFold!Folded, FoldLeft, MapThenFoldSet
<1>3. \E run : RedoTupleFold!Runs(run, base, seq, n) /\ run[n] = RedoTupleFold!Folded(base, seq)
  BY <1>1, RedoTupleFold!FoldLeftRuns
<1> QED
  BY <1>2, <1>3 DEF RedoTupleFold!Runs

LEMMA PerformStepRuns ==
  ASSUME NEW base, NEW n \in Nat, NEW seq, DOMAIN seq = 1..n
  PROVE  \E run : /\ run[0] = base
                  /\ \A i \in 1..n : run[i] = PerformStep(run[i - 1], seq[i])
                  /\ run[n] = FoldLeft(PerformStep, base, seq)
<1>1. PerformFold!LargestIs
  BY LargestOf DEF PerformFold!LargestIs
<1>2. FoldLeft(PerformStep, base, seq) = PerformFold!Folded(base, seq)
  BY DEF PerformFold!Folded, FoldLeft, MapThenFoldSet
<1>3. \E run : PerformFold!Runs(run, base, seq, n) /\ run[n] = PerformFold!Folded(base, seq)
  BY <1>1, PerformFold!FoldLeftRuns
<1> QED
  BY <1>2, <1>3 DEF PerformFold!Runs

LEMMA RemoveTableIfCanRuns ==
  ASSUME NEW base, NEW n \in Nat, NEW seq, DOMAIN seq = 1..n
  PROVE  \E run : /\ run[0] = base
                  /\ \A i \in 1..n : run[i] = RemoveTableIfCan(run[i - 1], seq[i])
                  /\ run[n] = FoldLeft(RemoveTableIfCan, base, seq)
<1>1. RemoveFold!LargestIs
  BY LargestOf DEF RemoveFold!LargestIs
<1>2. FoldLeft(RemoveTableIfCan, base, seq) = RemoveFold!Folded(base, seq)
  BY DEF RemoveFold!Folded, FoldLeft, MapThenFoldSet
<1>3. \E run : RemoveFold!Runs(run, base, seq, n) /\ run[n] = RemoveFold!Folded(base, seq)
  BY <1>1, RemoveFold!FoldLeftRuns
<1> QED
  BY <1>2, <1>3 DEF RemoveFold!Runs

\* Induction from 0, and from n.
LEMMA Upwards ==
  ASSUME NEW n \in Nat, NEW S, 0 \in S, \A i \in 0..n - 1 : i \in S => i + 1 \in S
  PROVE  \A i \in 0..n : i \in S
BY TakeFieldFold!FromZero

\* Functions on 1..n are sequences.
LEMMA FunctionSequence ==
  ASSUME NEW n \in Nat, NEW ss, ss = [i \in 1..n |-> ss[i]]
  PROVE  Sequence(ss) /\ Len(ss) = n /\ DOMAIN ss = 1..n
<1> DEFINE S == {ss[i] : i \in 1..n}
<1>1. ss \in [1..n -> S]
  OBVIOUS
<1>2. ss \in Seq(S)
  BY <1>1, SeqDef
<1>3. DOMAIN ss = 1..n
  BY <1>1
<1>4. DOMAIN ss = 1..Len(ss) /\ Len(ss) \in Nat
  BY <1>2, LenProperties
<1>5. Len(ss) = n
  BY <1>3, <1>4
<1> QED
  BY <1>2, <1>3, <1>5 DEF Sequence

\* The recursive function of FlattenSeq.
IsFlat(f, ss, n) ==
  f = [i \in 1..n |-> IF i = 1 THEN ss[i] ELSE f[i - 1] \o ss[i]]

LEMMA FlatExists ==
  ASSUME NEW n \in Nat, NEW ss
  PROVE  \E f : IsFlat(f, ss, n)
<1> DEFINE S == {m \in 0..n : \E f : IsFlat(f, ss, m)}
<1>1. 0 \in S
  <2>1. IsFlat([i \in 1..0 |-> 0], ss, 0)
    BY DEF IsFlat
  <2> QED
    BY <2>1
<1>2. ASSUME NEW m \in 0..n - 1, m \in S
      PROVE  m + 1 \in S
  <2>1. PICK f : IsFlat(f, ss, m)
    BY <1>2
  <2> DEFINE g == [i \in 1..m + 1 |-> IF i = m + 1
                                       THEN IF m = 0 THEN ss[1] ELSE f[m] \o ss[m + 1]
                                       ELSE f[i]]
  <2>2. ASSUME NEW i \in 1..m + 1
        PROVE  g[i] = IF i = 1 THEN ss[i] ELSE g[i - 1] \o ss[i]
    <3>1. CASE i = m + 1
      <4>1. CASE m = 0
        BY <3>1, <4>1
      <4>2. CASE m # 0
        <5>1. i - 1 = m /\ m \in 1..m + 1 /\ m # m + 1 /\ i # 1
          BY <3>1, <4>2
        <5> QED
          BY <3>1, <4>2, <5>1
      <4> QED
        BY <4>1, <4>2
    <3>2. CASE i # m + 1
      <4>1. i \in 1..m
        BY <3>2
      <4>2. f[i] = IF i = 1 THEN ss[i] ELSE f[i - 1] \o ss[i]
        BY <2>1, <4>1 DEF IsFlat
      <4>3. CASE i = 1
        BY <3>2, <4>2, <4>3
      <4>4. CASE i # 1
        <5>1. i - 1 \in 1..m + 1 /\ i - 1 # m + 1
          BY <4>1, <4>4
        <5> QED
          BY <3>2, <4>2, <4>4, <5>1
      <4> QED
        BY <4>3, <4>4
    <3> QED
      BY <3>1, <3>2
  <2>3. IsFlat(g, ss, m + 1)
    <3>1. g = [i \in 1..m + 1 |-> IF i = 1 THEN ss[i] ELSE g[i - 1] \o ss[i]]
      BY <2>2
    <3> QED
      BY <3>1 DEF IsFlat
  <2> QED
    BY <2>3
<1>3. \A m \in 0..n : m \in S
  <2> HIDE DEF S
  <2> QED
    BY <1>1, <1>2, Upwards
<1> QED
  BY <1>3

\* A flat sequence begins with the first part and goes on with the others:
\* rest[i] is what follows the first i of them.
Parts(ss, n) == ss = [i \in 1..n |-> ss[i]] /\ \A i \in 1..n : Sequence(ss[i])
Rests(rest, ss, n) ==
  /\ rest[0] = FlattenSeq(ss)
  /\ rest[n] = <<>>
  /\ \A i \in 0..n : Sequence(rest[i])
  /\ \A i \in 1..n : rest[i - 1] = ss[i] \o rest[i]
LEMMA FlatRests ==
  ASSUME NEW n \in Nat, NEW ss, Parts(ss, n)
  PROVE  \E rest : Rests(rest, ss, n)
<1>1. Sequence(ss) /\ Len(ss) = n /\ DOMAIN ss = 1..n
  BY FunctionSequence DEF Parts
<1>0. \A i \in 1..n : Sequence(ss[i])
  BY DEF Parts
<1>2. CASE n = 0
  <2>1. ss = <<>>
    <3>1. PICK R : ss \in Seq(R)
      BY <1>1 DEF Sequence
    <3> QED
      BY <1>1, <1>2, <3>1
  <2>2. FlattenSeq(ss) = <<>>
    BY <1>1, <1>2, <2>1 DEF FlattenSeq
  <2> DEFINE rest == [i \in 0..0 |-> <<>>]
  <2>3. rest[0] = FlattenSeq(ss) /\ rest[n] = <<>> /\ \A i \in 0..n : Sequence(rest[i])
    BY <1>2, <2>2, EmptySequence
  <2>4. \A i \in 1..n : rest[i - 1] = ss[i] \o rest[i]
    BY <1>2
  <2> QED
    BY <2>3, <2>4 DEF Rests
<1>3. CASE n # 0
  <2> DEFINE f == CHOOSE g : g = [i \in 1..n |-> IF i = 1 THEN ss[i] ELSE g[i - 1] \o ss[i]]
  <2>1. FlattenSeq(ss) = f[n]
    BY <1>1, <1>3 DEF FlattenSeq
  <2>2. f = [i \in 1..n |-> IF i = 1 THEN ss[i] ELSE f[i - 1] \o ss[i]]
    BY FlatExists DEF IsFlat
  <2> HIDE DEF f
  <2>3. f[1] = ss[1] /\ \A i \in 1..n - 1 : f[i + 1] = f[i] \o ss[i + 1]
    <3>1. 1 \in 1..n
      BY <1>3
    <3>2. ASSUME NEW i \in 1..n - 1 PROVE f[i + 1] = f[i] \o ss[i + 1]
      <4>1. i + 1 \in 1..n /\ i + 1 # 1 /\ (i + 1) - 1 = i
        OBVIOUS
      <4> QED
        BY <2>2, <4>1
    <3> QED
      BY <2>2, <3>1, <3>2
  <2> DEFINE Fits(rest, m) ==
               /\ rest[n] = <<>>
               /\ \A i \in n - m..n : Sequence(rest[i])
               /\ \A i \in (n - m) + 1..n : rest[i - 1] = ss[i] \o rest[i]
             S == {m \in 0..n : \E rest : Fits(rest, m)}
  <2>4. 0 \in S
    <3> DEFINE rest == [i \in {n} |-> <<>>]
    <3>2. \A i \in n - 0..n : i = n
      OBVIOUS
    <3>3. \A i \in (n - 0) + 1..n : FALSE
      OBVIOUS
    <3>4. rest[n] = <<>> /\ Sequence(rest[n])
      BY EmptySequence
    <3>1. Fits(rest, 0)
      BY <3>2, <3>3, <3>4
    <3> HIDE DEF rest, Fits
    <3> QED
      BY <3>1
  <2>5. ASSUME NEW m \in 0..n - 1, m \in S
        PROVE  m + 1 \in S
    <3>1. PICK rest : Fits(rest, m)
      BY <2>5
    <3> DEFINE k == n - m
               more == [i \in (n - (m + 1))..n |-> IF i = k - 1 THEN ss[k] \o rest[k] ELSE rest[i]]
    <3>2. k \in 1..n /\ k - 1 = n - (m + 1) /\ k \in k..n
      OBVIOUS
    <3> HIDE DEF k
    <3>3. more[n] = <<>>
      BY <3>1, <3>2
    <3>4. ASSUME NEW i \in (k - 1)..n PROVE Sequence(more[i])
      <4>1. CASE i = k - 1
        <5>1. k \in n - m..n /\ i \in (n - (m + 1))..n
          BY <3>2, <4>1 DEF k
        <5>2. Sequence(rest[k]) /\ Sequence(ss[k])
          BY <1>0, <3>1, <3>2, <5>1
        <5>3. more[i] = ss[k] \o rest[k]
          BY <4>1, <5>1
        <5> QED
          BY <5>2, <5>3, ConcatSequence
      <4>2. CASE i # k - 1
        <5>1. i \in n - m..n /\ i \in (n - (m + 1))..n
          BY <3>2, <4>2 DEF k
        <5>2. Sequence(rest[i])
          BY <3>1, <5>1
        <5> QED
          BY <4>2, <5>1, <5>2
      <4> QED
        BY <4>1, <4>2
    <3>5. ASSUME NEW i \in k..n PROVE more[i - 1] = ss[i] \o more[i]
      <4>1. CASE i = k
        <5>1. k - 1 \in (n - (m + 1))..n /\ k \in (n - (m + 1))..n /\ k # k - 1
          BY <3>2
        <5>2. more[k - 1] = ss[k] \o rest[k] /\ more[k] = rest[k]
          BY <5>1
        <5> HIDE DEF more
        <5> QED
          BY <4>1, <5>2
      <4>2. CASE i # k
        <5>1. i \in (k + 1)..n /\ i - 1 # k - 1 /\ i # k - 1 /\ i - 1 \in (k - 1)..n /\ i \in (k - 1)..n
          BY <3>2, <4>2
        <5>2. rest[i - 1] = ss[i] \o rest[i]
          BY <3>1, <5>1 DEF k
        <5> QED
          BY <3>2, <5>1, <5>2
      <4> QED
        BY <4>1, <4>2
    <3>6. Fits(more, m + 1)
      <4>1. (n - (m + 1)) + 1 = k
        BY <3>2
      <4> HIDE DEF more
      <4> QED
        BY <3>2, <3>3, <3>4, <3>5, <4>1
    <3> HIDE DEF Fits
    <3> QED
      BY <3>6
  <2>6. n \in S
    <3> HIDE DEF S
    <3> QED
      BY <2>4, <2>5, Upwards
  <2>7. PICK rest : Fits(rest, n)
    BY <2>6
  <2>8. /\ rest[n] = <<>>
        /\ \A i \in 0..n : Sequence(rest[i])
        /\ \A i \in 1..n : rest[i - 1] = ss[i] \o rest[i]
    <3>1. n - n = 0 /\ (n - n) + 1 = 1
      OBVIOUS
    <3>2. /\ rest[n] = <<>>
          /\ \A i \in n - n..n : Sequence(rest[i])
          /\ \A i \in (n - n) + 1..n : rest[i - 1] = ss[i] \o rest[i]
      BY <2>7
    <3> QED
      BY <3>1, <3>2
  <2> HIDE DEF Fits, S
  <2> DEFINE T == {i \in 0..n - 1 : Sequence(f[i + 1]) /\ rest[0] = f[i + 1] \o rest[i + 1]}
  <2>9. 0 \in T
    <3>1. 1 \in 1..n /\ 1 - 1 = 0 /\ 0 + 1 = 1 /\ 0 \in 0..n - 1
      BY <1>3
    <3>2. rest[0] = ss[1] \o rest[1] /\ Sequence(ss[1])
      BY <1>0, <2>8, <3>1
    <3>3. Sequence(f[1]) /\ rest[0] = f[1] \o rest[1]
      BY <2>3, <3>2
    <3> QED
      BY <3>1, <3>3
  <2>10. ASSUME NEW i \in 0..(n - 1) - 1, i \in T
         PROVE  i + 1 \in T
    <3>1. i + 1 \in 1..n - 1 /\ (i + 1) + 1 \in 1..n /\ ((i + 1) + 1) - 1 = i + 1 /\ (i + 1) + 1 \in 0..n
      OBVIOUS
    <3>2. Sequence(f[i + 1]) /\ rest[0] = f[i + 1] \o rest[i + 1]
      BY <2>10
    <3> HIDE DEF T
    <3>3. rest[i + 1] = ss[(i + 1) + 1] \o rest[(i + 1) + 1]
      BY <2>8, <3>1
    <3>4. f[(i + 1) + 1] = f[i + 1] \o ss[(i + 1) + 1]
      BY <2>3, <3>1
    <3>5. Sequence(ss[(i + 1) + 1]) /\ Sequence(rest[(i + 1) + 1])
      BY <1>0, <2>8, <3>1
    <3>6. (f[i + 1] \o ss[(i + 1) + 1]) \o rest[(i + 1) + 1] = f[i + 1] \o (ss[(i + 1) + 1] \o rest[(i + 1) + 1])
      <4> DEFINE a == f[i + 1]
                 b == ss[(i + 1) + 1]
                 c == rest[(i + 1) + 1]
      <4>1. Sequence(a) /\ Sequence(b) /\ Sequence(c)
        BY <3>2, <3>5
      <4> HIDE DEF a, b, c
      <4>2. (a \o b) \o c = a \o (b \o c)
        BY <4>1, Associative
      <4> QED
        BY <4>2 DEF a, b, c
    <3>7. Sequence(f[i + 1] \o ss[(i + 1) + 1])
      BY <3>2, <3>5, ConcatSequence
    <3>8. i + 1 \in 0..n - 1
      OBVIOUS
    <3> QED
      BY <3>2, <3>3, <3>4, <3>6, <3>7, <3>8 DEF T
  <2>11. n - 1 \in T
    <3>1. n - 1 \in Nat
      BY <1>3
    <3> HIDE DEF T
    <3> QED
      BY <2>9, <2>10, <3>1, Upwards
  <2>12. rest[0] = f[n]
    <3>1. (n - 1) + 1 = n
      OBVIOUS
    <3> QED
      BY <2>8, <2>11, <3>1, EmptyConcat
  <2> QED
    BY <2>1, <2>8, <2>12 DEF Rests
<1> QED
  BY <1>2, <1>3

LEMMA Downwards ==
  ASSUME NEW n \in Nat, NEW S, n \in S, \A i \in 1..n : i \in S => i - 1 \in S
  PROVE  \A i \in 0..n : i \in S
<1> DEFINE T == {m \in 0..n : n - m \in S}
<1>1. 0 \in T
  BY n - 0 = n
<1>2. ASSUME NEW m \in 0..n - 1, m \in T
      PROVE  m + 1 \in T
  <2>1. n - m \in 1..n /\ (n - m) - 1 = n - (m + 1) /\ m + 1 \in 0..n
    OBVIOUS
  <2> QED
    BY <1>2, <2>1
<1>3. \A m \in 0..n : m \in T
  <2> HIDE DEF T
  <2> QED
    BY <1>1, <1>2, Upwards
<1>4. ASSUME NEW i \in 0..n PROVE i \in S
  <2>1. n - i \in 0..n /\ n - (n - i) = i
    OBVIOUS
  <2> QED
    BY <1>3, <2>1
<1> QED
  BY <1>4

\* What is in a flat sequence is in a part of it.
LEMMA FlatElements ==
  ASSUME NEW n \in Nat, NEW ss, Parts(ss, n),
         NEW S, \A i \in 1..n : \A k \in 1..Len(ss[i]) : ss[i][k] \in S
  PROVE  /\ Sequence(FlattenSeq(ss))
         /\ \A k \in 1..Len(FlattenSeq(ss)) : FlattenSeq(ss)[k] \in S
<1>1. PICK rest : Rests(rest, ss, n)
  BY FlatRests
<1> DEFINE T == {i \in 0..n : \A k \in 1..Len(rest[i]) : rest[i][k] \in S}
<1>2. n \in T
  <2>1. Len(rest[n]) = 0
    BY <1>1 DEF Rests
  <2> QED
    BY <2>1
<1>3. ASSUME NEW i \in 1..n, i \in T
      PROVE  i - 1 \in T
  <2>1. /\ Len(ss[i]) \in Nat /\ Len(rest[i]) \in Nat
        /\ Len(ss[i] \o rest[i]) = Len(ss[i]) + Len(rest[i])
        /\ \A k \in 1..Len(ss[i]) : (ss[i] \o rest[i])[k] = ss[i][k]
        /\ \A k \in 1..Len(rest[i]) : (ss[i] \o rest[i])[Len(ss[i]) + k] = rest[i][k]
    BY <1>1, ConcatElements DEF Parts, Rests
  <2>2. rest[i - 1] = ss[i] \o rest[i]
    BY <1>1 DEF Rests
  <2>3. ASSUME NEW k \in 1..Len(rest[i - 1]) PROVE rest[i - 1][k] \in S
    <3>1. CASE k \in 1..Len(ss[i])
      BY <2>1, <2>2, <3>1
    <3>2. CASE k \notin 1..Len(ss[i])
      <4>1. k - Len(ss[i]) \in 1..Len(rest[i]) /\ k = Len(ss[i]) + (k - Len(ss[i]))
        <5> DEFINE x == Len(ss[i]) y == Len(rest[i])
        <5>1. x \in Nat /\ y \in Nat /\ k \in 1..x + y /\ k \notin 1..x
          BY <2>1, <2>2, <3>2
        <5> HIDE DEF x, y
        <5>2. k - x \in 1..y /\ k = x + (k - x)
          BY <5>1
        <5> QED
          BY <5>2 DEF x, y
      <4> QED
        BY <1>3, <2>1, <2>2, <4>1
    <3> QED
      BY <3>1, <3>2
  <2> QED
    BY <2>3
<1>4. 0 \in T
  <2> HIDE DEF T
  <2> QED
    BY <1>2, <1>3, Downwards
<1>5. Sequence(rest[0])
  BY <1>1 DEF Rests
<1> QED
  BY <1>1, <1>4, <1>5 DEF Rests

LEMMA FlatLonger ==
  ASSUME NEW n \in Nat,
         NEW ss, Parts(ss, n),
         NEW tt, Parts(tt, n),
         \A i \in 1..n : Len(ss[i]) <= Len(tt[i])
  PROVE  Len(FlattenSeq(ss)) <= Len(FlattenSeq(tt))
<1>1. PICK r : Rests(r, ss, n)
  BY FlatRests
<1>2. PICK q : Rests(q, tt, n)
  BY FlatRests
<1> DEFINE T == {i \in 0..n : Len(r[i]) <= Len(q[i])}
<1>3. n \in T
  <2>1. Len(r[n]) = 0 /\ Len(q[n]) = 0
    BY <1>1, <1>2 DEF Rests
  <2> QED
    BY <2>1
<1>4. ASSUME NEW i \in 1..n, i \in T
      PROVE  i - 1 \in T
  <2>1. /\ Len(ss[i]) \in Nat /\ Len(r[i]) \in Nat
        /\ Len(ss[i] \o r[i]) = Len(ss[i]) + Len(r[i])
    BY <1>1, ConcatElements DEF Parts, Rests
  <2>2. /\ Len(tt[i]) \in Nat /\ Len(q[i]) \in Nat
        /\ Len(tt[i] \o q[i]) = Len(tt[i]) + Len(q[i])
    BY <1>2, ConcatElements DEF Parts, Rests
  <2>3. r[i - 1] = ss[i] \o r[i] /\ q[i - 1] = tt[i] \o q[i] /\ Len(ss[i]) <= Len(tt[i])
    BY <1>1, <1>2 DEF Rests
  <2> QED
    <3> DEFINE a == Len(ss[i]) b == Len(r[i]) c == Len(tt[i]) d == Len(q[i])
    <3>1. a \in Nat /\ b \in Nat /\ c \in Nat /\ d \in Nat /\ a <= c /\ b <= d
      BY <1>4, <2>1, <2>2, <2>3
    <3>2. Len(r[i - 1]) = a + b /\ Len(q[i - 1]) = c + d
      BY <2>1, <2>2, <2>3
    <3> HIDE DEF a, b, c, d
    <3>3. Len(r[i - 1]) <= Len(q[i - 1]) /\ i - 1 \in 0..n
      BY <3>1, <3>2
    <3> QED
      BY <3>3
<1>5. 0 \in T
  <2> HIDE DEF T
  <2> QED
    BY <1>3, <1>4, Downwards
<1> QED
  BY <1>1, <1>2, <1>5 DEF Rests

-----------------------------------------------------------------------------
(* A record is read as it was written.                                     *)

\* What is read so far, and what is left.
Reading(rest, out) == [rest |-> rest, out |-> out, ok |-> TRUE]

LEMMA OtherOut ==
  ASSUME NEW rest, NEW out, NEW other
  PROVE  [Reading(rest, out) EXCEPT !.out = other] = Reading(rest, other)
<1> DEFINE ok == TRUE
<1> HIDE DEF ok
<1>1. [[rest |-> rest, out |-> out, ok |-> ok] EXCEPT !.out = other] = [rest |-> rest, out |-> other, ok |-> ok]
  OBVIOUS
<1> QED
  BY <1>1, Zenon DEF ok, Reading

LEMMA TakeCell ==
  ASSUME NEW kind, NEW value, NEW t, NEW o, Sequence(t), Sequence(o)
  PROVE  /\ Take(Reading(<<Cell(kind, value)>> \o t, o), kind) = Reading(t, Append(o, value))
         /\ Last1(Reading(t, Append(o, value))) = value
         /\ Skip(Reading(t, Append(o, value))) = Reading(t, o)
<1>1. /\ <<Cell(kind, value)>> \o t # <<>>
      /\ Head(<<Cell(kind, value)>> \o t) = Cell(kind, value)
      /\ Tail(<<Cell(kind, value)>> \o t) = t
  BY ConsSequence
<1>2. Cell(kind, value).kind = kind /\ Cell(kind, value).value = value
  BY DEF Cell
<1>3. Take(Reading(<<Cell(kind, value)>> \o t, o), kind) = Reading(t, Append(o, value))
  BY <1>1, <1>2 DEF Take, Reading
<1>4. /\ Len(Append(o, value)) = Len(o) + 1
      /\ Append(o, value)[Len(o) + 1] = value
      /\ Front(Append(o, value)) = o
  BY AppendSequence
<1>5. Last1(Reading(t, Append(o, value))) = value
  BY <1>4 DEF Last1, Reading
<1>6. Skip(Reading(t, Append(o, value))) = Reading(t, o)
  BY <1>4 DEF Skip, Reading
<1> QED
  BY <1>3, <1>5, <1>6

\* Another kind, or the end.
LEMMA TakeFails ==
  ASSUME NEW kind, NEW t, NEW o, Sequence(t), t = <<>> \/ Head(t).kind # kind
  PROVE  Take(Reading(t, o), kind).ok = FALSE
BY DEF Take, Reading

LEMMA TextCells ==
  ASSUME NEW s, NEW t, Sequence(t)
  PROVE  /\ Text(s) \o t = <<Cell("size", 1)>> \o (<<Cell("bytes", s)>> \o t)
         /\ Sequence(Text(s)) /\ Sequence(Text(s) \o t)
         /\ Sequence(<<Cell("bytes", s)>> \o t)
<1>1. Text(s) = <<Cell("size", 1)>> \o <<Cell("bytes", s)>>
  BY DEF Text
<1>2. Sequence(<<Cell("size", 1)>>) /\ Sequence(<<Cell("bytes", s)>>)
  BY OneSequence
<1>3. Text(s) \o t = <<Cell("size", 1)>> \o (<<Cell("bytes", s)>> \o t)
  BY <1>1, <1>2, Associative
<1>4. Sequence(Text(s))
  BY <1>1, <1>2, ConcatSequence
<1> QED
  BY <1>2, <1>3, <1>4, ConcatSequence

LEMMA TakeTextIs ==
  ASSUME NEW s, NEW t, NEW o, Sequence(t), Sequence(o)
  PROVE  TakeText(Reading(Text(s) \o t, o)) = Reading(t, Append(o, s))
<1>1. /\ Text(s) \o t = <<Cell("size", 1)>> \o (<<Cell("bytes", s)>> \o t)
      /\ Sequence(<<Cell("bytes", s)>> \o t)
  BY TextCells
<1>2. Skip(Take(Reading(Text(s) \o t, o), "size")) = Reading(<<Cell("bytes", s)>> \o t, o)
  BY <1>1, TakeCell
<1>3. Take(Reading(<<Cell("bytes", s)>> \o t, o), "bytes") = Reading(t, Append(o, s))
  BY TakeCell
<1> QED
  BY <1>2, <1>3 DEF TakeText

LEMMA GrnObjSequence == ASSUME NEW s PROVE Sequence(GrnObj(s))
<1>1. Sequence(<<Cell("size", -1)>>) /\ Sequence(Text(s))
  BY OneSequence, TextCells, EmptySequence
<1> QED
  BY <1>1 DEF GrnObj

LEMMA TakeGrnObjIs ==
  ASSUME NEW s, NEW t, NEW o, Sequence(t), Sequence(o)
  PROVE  TakeGrnObj(Reading(GrnObj(s) \o t, o)) = Reading(t, Append(o, s))
<1>1. CASE s = None
  <2> DEFINE size == Take(Reading(GrnObj(s) \o t, o), "size")
  <2>1. size = Reading(t, Append(o, -1)) /\ Last1(size) = -1
    BY <1>1, TakeCell DEF GrnObj
  <2> HIDE DEF size
  <2>2. Front(Append(o, -1)) = o
    BY AppendSequence
  <2>3. size.ok /\ Front(size.out) = o /\ size = Reading(t, size.out)
    BY <2>1, <2>2 DEF Reading
  <2>4. [size EXCEPT !.out = Append(Front(size.out), None)] = Reading(t, Append(o, None))
    <3> DEFINE x == size.out
    <3>1. size = Reading(t, x) /\ Front(size.out) = o
      BY <2>3
    <3> HIDE DEF x
    <3>2. [Reading(t, x) EXCEPT !.out = Append(o, None)] = Reading(t, Append(o, None))
      BY OtherOut
    <3> QED
      BY <3>1, <3>2, Zenon
  <2>5. TakeGrnObj(Reading(GrnObj(s) \o t, o)) = [size EXCEPT !.out = Append(Front(size.out), None)]
    BY <2>1, <2>3 DEF TakeGrnObj, size
  <2> QED
    BY <1>1, <2>4, <2>5
<1>2. CASE s # None
  <2> DEFINE u == <<Cell("bytes", s)>> \o t
             size == Take(Reading(GrnObj(s) \o t, o), "size")
  <2>1. GrnObj(s) \o t = <<Cell("size", 1)>> \o u /\ Sequence(u)
    BY <1>2, TextCells DEF GrnObj
  <2> HIDE DEF u
  <2>2. size = Reading(u, Append(o, 1)) /\ Last1(size) = 1 /\ Skip(size) = Reading(u, o)
    BY <2>1, TakeCell
  <2>3. Take(Skip(size), "bytes") = Reading(t, Append(o, s))
    BY <2>2, TakeCell DEF u
  <2> HIDE DEF size
  <2> QED
    BY <2>2, <2>3 DEF TakeGrnObj, size
<1> QED
  BY <1>1, <1>2

\* The cells of a field, and reading one.
Field(field, value) ==
  CASE field = "text" -> Text(value)
    [] field = "object" -> GrnObj(value)
    [] OTHER -> <<Cell(field, value)>>

LEMMA FieldSequence == ASSUME NEW field, NEW value PROVE Sequence(Field(field, value))
<1>1. Sequence(Text(value)) /\ Sequence(GrnObj(value)) /\ Sequence(<<Cell(field, value)>>)
  BY TextCells, EmptySequence, GrnObjSequence, OneSequence
<1> QED
  BY <1>1 DEF Field

LEMMA TakeFieldIs ==
  ASSUME NEW field, NEW value, NEW t, NEW o, Sequence(t), Sequence(o)
  PROVE  TakeField(Reading(Field(field, value) \o t, o), field) = Reading(t, Append(o, value))
BY TakeTextIs, TakeGrnObjIs, TakeCell DEF TakeField, Field

\* Fields are read one after the other.
LEMMA TwoFields ==
  ASSUME NEW raw, NEW f1, NEW f2
  PROVE  TakeAll(raw, <<f1, f2>>)
           = TakeField(TakeField(raw, f1), f2)
<1> DEFINE fields == <<f1, f2>>
<1>1. DOMAIN fields = 1..2 /\ 2 \in Nat /\ fields[1] = f1 /\ fields[2] = f2
  OBVIOUS
<1> HIDE DEF fields
<1>2. PICK run : /\ run[0] = raw
                 /\ \A i \in 1..2 : run[i] = TakeField(run[i - 1], fields[i])
                 /\ run[2] = FoldLeft(TakeField, raw, fields)
  BY <1>1, TakeFieldRuns
<1>3. run[1] = TakeField(run[0], f1)
  <2>1. 1 \in 1..2 /\ 1 - 1 = 0
    OBVIOUS
  <2>2. run[1] = TakeField(run[1 - 1], fields[1])
    BY <1>2, <2>1
  <2> QED
    BY <1>1, <2>1, <2>2
<1>4. run[2] = TakeField(run[1], f2)
  <2>1. 2 \in 1..2 /\ 2 - 1 = 1
    OBVIOUS
  <2>2. run[2] = TakeField(run[2 - 1], fields[2])
    BY <1>2, <2>1
  <2> QED
    BY <1>1, <2>1, <2>2
<1> QED
  BY <1>2, <1>3, <1>4 DEF TakeAll, fields

LEMMA ThreeFields ==
  ASSUME NEW raw, NEW f1, NEW f2, NEW f3
  PROVE  TakeAll(raw, <<f1, f2, f3>>)
           = TakeField(TakeField(TakeField(raw, f1), f2), f3)
<1> DEFINE fields == <<f1, f2, f3>>
<1>1. DOMAIN fields = 1..3 /\ 3 \in Nat /\ fields[1] = f1 /\ fields[2] = f2 /\ fields[3] = f3
  OBVIOUS
<1> HIDE DEF fields
<1>2. PICK run : /\ run[0] = raw
                 /\ \A i \in 1..3 : run[i] = TakeField(run[i - 1], fields[i])
                 /\ run[3] = FoldLeft(TakeField, raw, fields)
  BY <1>1, TakeFieldRuns
<1>3. run[1] = TakeField(run[0], f1)
  <2>1. 1 \in 1..3 /\ 1 - 1 = 0
    OBVIOUS
  <2>2. run[1] = TakeField(run[1 - 1], fields[1])
    BY <1>2, <2>1
  <2> QED
    BY <1>1, <2>1, <2>2
<1>4. run[2] = TakeField(run[1], f2)
  <2>1. 2 \in 1..3 /\ 2 - 1 = 1
    OBVIOUS
  <2>2. run[2] = TakeField(run[2 - 1], fields[2])
    BY <1>2, <2>1
  <2> QED
    BY <1>1, <2>1, <2>2
<1>5. run[3] = TakeField(run[2], f3)
  <2>1. 3 \in 1..3 /\ 3 - 1 = 2
    OBVIOUS
  <2>2. run[3] = TakeField(run[3 - 1], fields[3])
    BY <1>2, <2>1
  <2> QED
    BY <1>1, <2>1, <2>2
<1> QED
  BY <1>2, <1>3, <1>4, <1>5 DEF TakeAll, fields

LEMMA SixFields ==
  ASSUME NEW raw, NEW f1, NEW f2, NEW f3, NEW f4, NEW f5, NEW f6
  PROVE  TakeAll(raw, <<f1, f2, f3, f4, f5, f6>>)
           = TakeField(TakeField(TakeField(TakeField(TakeField(TakeField(raw, f1), f2), f3), f4), f5), f6)
<1> DEFINE fields == <<f1, f2, f3, f4, f5, f6>>
<1>1. DOMAIN fields = 1..6 /\ 6 \in Nat /\ fields[1] = f1 /\ fields[2] = f2 /\ fields[3] = f3 /\ fields[4] = f4 /\ fields[5] = f5 /\ fields[6] = f6
  OBVIOUS
<1> HIDE DEF fields
<1>2. PICK run : /\ run[0] = raw
                 /\ \A i \in 1..6 : run[i] = TakeField(run[i - 1], fields[i])
                 /\ run[6] = FoldLeft(TakeField, raw, fields)
  BY <1>1, TakeFieldRuns
<1>3. run[1] = TakeField(run[0], f1)
  <2>1. 1 \in 1..6 /\ 1 - 1 = 0
    OBVIOUS
  <2>2. run[1] = TakeField(run[1 - 1], fields[1])
    BY <1>2, <2>1
  <2> QED
    BY <1>1, <2>1, <2>2
<1>4. run[2] = TakeField(run[1], f2)
  <2>1. 2 \in 1..6 /\ 2 - 1 = 1
    OBVIOUS
  <2>2. run[2] = TakeField(run[2 - 1], fields[2])
    BY <1>2, <2>1
  <2> QED
    BY <1>1, <2>1, <2>2
<1>5. run[3] = TakeField(run[2], f3)
  <2>1. 3 \in 1..6 /\ 3 - 1 = 2
    OBVIOUS
  <2>2. run[3] = TakeField(run[3 - 1], fields[3])
    BY <1>2, <2>1
  <2> QED
    BY <1>1, <2>1, <2>2
<1>6. run[4] = TakeField(run[3], f4)
  <2>1. 4 \in 1..6 /\ 4 - 1 = 3
    OBVIOUS
  <2>2. run[4] = TakeField(run[4 - 1], fields[4])
    BY <1>2, <2>1
  <2> QED
    BY <1>1, <2>1, <2>2
<1>7. run[5] = TakeField(run[4], f5)
  <2>1. 5 \in 1..6 /\ 5 - 1 = 4
    OBVIOUS
  <2>2. run[5] = TakeField(run[5 - 1], fields[5])
    BY <1>2, <2>1
  <2> QED
    BY <1>1, <2>1, <2>2
<1>8. run[6] = TakeField(run[5], f6)
  <2>1. 6 \in 1..6 /\ 6 - 1 = 5
    OBVIOUS
  <2>2. run[6] = TakeField(run[6 - 1], fields[6])
    BY <1>2, <2>1
  <2> QED
    BY <1>1, <2>1, <2>2
<1> QED
  BY <1>2, <1>3, <1>4, <1>5, <1>6, <1>7, <1>8 DEF TakeAll, fields


\* What is put to the end of what has been read.
LEMMA Out2 ==
  ASSUME NEW a, NEW b
  PROVE  Append(<<a>>, b) = <<a, b>> /\ Sequence(<<a, b>>)
<1> DEFINE S == {a, b}
<1>1. <<a>> \in Seq(S) /\ <<a, b>> \in Seq(S) /\ Len(<<a>>) = 1 /\ Len(<<a, b>>) = 2
  OBVIOUS
<1>2. Append(<<a>>, b) \in Seq(S) /\ Len(Append(<<a>>, b)) = 2
  BY <1>1, AppendProperties
<1>3. ASSUME NEW i \in 1..2 PROVE Append(<<a>>, b)[i] = <<a, b>>[i]
  <2>1. Append(<<a>>, b)[2] = b
    BY <1>1, AppendProperties
  <2>2. \A k \in 1..1 : Append(<<a>>, b)[k] = <<a>>[k]
    BY <1>1, AppendProperties
  <2>3. i = 2 \/ i \in 1..1
    OBVIOUS
  <2> QED
    BY <2>1, <2>2, <2>3
<1> QED
  BY <1>1, <1>2, <1>3, SeqEqual DEF Sequence

LEMMA Out3 ==
  ASSUME NEW a, NEW b, NEW c
  PROVE  Append(<<a, b>>, c) = <<a, b, c>> /\ Sequence(<<a, b, c>>)
<1> DEFINE S == {a, b, c}
<1>1. <<a, b>> \in Seq(S) /\ <<a, b, c>> \in Seq(S) /\ Len(<<a, b>>) = 2 /\ Len(<<a, b, c>>) = 3
  OBVIOUS
<1>2. Append(<<a, b>>, c) \in Seq(S) /\ Len(Append(<<a, b>>, c)) = 3
  BY <1>1, AppendProperties
<1>3. ASSUME NEW i \in 1..3 PROVE Append(<<a, b>>, c)[i] = <<a, b, c>>[i]
  <2>1. Append(<<a, b>>, c)[3] = c
    BY <1>1, AppendProperties
  <2>2. \A k \in 1..2 : Append(<<a, b>>, c)[k] = <<a, b>>[k]
    BY <1>1, AppendProperties
  <2>3. i = 3 \/ i \in 1..2
    OBVIOUS
  <2> QED
    BY <2>1, <2>2, <2>3
<1> QED
  BY <1>1, <1>2, <1>3, SeqEqual DEF Sequence

LEMMA Out4 ==
  ASSUME NEW a, NEW b, NEW c, NEW d
  PROVE  Append(<<a, b, c>>, d) = <<a, b, c, d>> /\ Sequence(<<a, b, c, d>>)
<1> DEFINE S == {a, b, c, d}
<1>1. <<a, b, c>> \in Seq(S) /\ <<a, b, c, d>> \in Seq(S) /\ Len(<<a, b, c>>) = 3 /\ Len(<<a, b, c, d>>) = 4
  OBVIOUS
<1>2. Append(<<a, b, c>>, d) \in Seq(S) /\ Len(Append(<<a, b, c>>, d)) = 4
  BY <1>1, AppendProperties
<1>3. ASSUME NEW i \in 1..4 PROVE Append(<<a, b, c>>, d)[i] = <<a, b, c, d>>[i]
  <2>1. Append(<<a, b, c>>, d)[4] = d
    BY <1>1, AppendProperties
  <2>2. \A k \in 1..3 : Append(<<a, b, c>>, d)[k] = <<a, b, c>>[k]
    BY <1>1, AppendProperties
  <2>3. i = 4 \/ i \in 1..3
    OBVIOUS
  <2> QED
    BY <2>1, <2>2, <2>3
<1> QED
  BY <1>1, <1>2, <1>3, SeqEqual DEF Sequence

LEMMA Out5 ==
  ASSUME NEW a, NEW b, NEW c, NEW d, NEW e
  PROVE  Append(<<a, b, c, d>>, e) = <<a, b, c, d, e>> /\ Sequence(<<a, b, c, d, e>>)
<1> DEFINE S == {a, b, c, d, e}
<1>1. <<a, b, c, d>> \in Seq(S) /\ <<a, b, c, d, e>> \in Seq(S) /\ Len(<<a, b, c, d>>) = 4 /\ Len(<<a, b, c, d, e>>) = 5
  OBVIOUS
<1>2. Append(<<a, b, c, d>>, e) \in Seq(S) /\ Len(Append(<<a, b, c, d>>, e)) = 5
  BY <1>1, AppendProperties
<1>3. ASSUME NEW i \in 1..5 PROVE Append(<<a, b, c, d>>, e)[i] = <<a, b, c, d, e>>[i]
  <2>1. Append(<<a, b, c, d>>, e)[5] = e
    BY <1>1, AppendProperties
  <2>2. \A k \in 1..4 : Append(<<a, b, c, d>>, e)[k] = <<a, b, c, d>>[k]
    BY <1>1, AppendProperties
  <2>3. i = 5 \/ i \in 1..4
    OBVIOUS
  <2> QED
    BY <2>1, <2>2, <2>3
<1> QED
  BY <1>1, <1>2, <1>3, SeqEqual DEF Sequence

LEMMA Out6 ==
  ASSUME NEW a, NEW b, NEW c, NEW d, NEW e, NEW f
  PROVE  Append(<<a, b, c, d, e>>, f) = <<a, b, c, d, e, f>> /\ Sequence(<<a, b, c, d, e, f>>)
<1> DEFINE S == {a, b, c, d, e, f}
<1>1. <<a, b, c, d, e>> \in Seq(S) /\ <<a, b, c, d, e, f>> \in Seq(S) /\ Len(<<a, b, c, d, e>>) = 5 /\ Len(<<a, b, c, d, e, f>>) = 6
  OBVIOUS
<1>2. Append(<<a, b, c, d, e>>, f) \in Seq(S) /\ Len(Append(<<a, b, c, d, e>>, f)) = 6
  BY <1>1, AppendProperties
<1>3. ASSUME NEW i \in 1..6 PROVE Append(<<a, b, c, d, e>>, f)[i] = <<a, b, c, d, e, f>>[i]
  <2>1. Append(<<a, b, c, d, e>>, f)[6] = f
    BY <1>1, AppendProperties
  <2>2. \A k \in 1..5 : Append(<<a, b, c, d, e>>, f)[k] = <<a, b, c, d, e>>[k]
    BY <1>1, AppendProperties
  <2>3. i = 6 \/ i \in 1..5
    OBVIOUS
  <2> QED
    BY <2>1, <2>2, <2>3
<1> QED
  BY <1>1, <1>2, <1>3, SeqEqual DEF Sequence

LEMMA ReadTwo ==
  ASSUME NEW f1, NEW f2, NEW v1, NEW v2, NEW t, Sequence(t)
  PROVE  TakeAll(Raw((Field(f1, v1) \o Field(f2, v2)) \o t), <<f1, f2>>) = Reading(t, <<v1, v2>>)
<1>1. PICK a, b : a = Field(f1, v1) /\ b = Field(f2, v2)
  OBVIOUS
<1>2. PICK o, o1, o2 : o = <<>> /\ o1 = <<v1>> /\ o2 = <<v1, v2>>
  BY Zenon
<1>3. Sequence(a) /\ Sequence(b)
  BY <1>1, FieldSequence
<1>4. o1 = Append(o, v1) /\ o2 = Append(o1, v2) /\ Sequence(o) /\ Sequence(o1)
  <2>1. Append(<<>>, v1) = <<v1>> /\ Sequence(<<>>) /\ Sequence(<<v1>>)
    BY EmptySequence, OneSequence
  <2>2. Append(<<v1>>, v2) = <<v1, v2>>
    BY Out2, Zenon
  <2> QED
    BY <1>2, <2>1, <2>2, Zenon
<1>5. PICK s : s = b \o t
  OBVIOUS
<1>6. (a \o b) \o t = a \o s /\ Sequence(s)
  BY <1>3, <1>5, Associative, ConcatSequence
<1>7. TakeField(Reading(a \o s, o), f1) = Reading(s, o1)
  BY <1>1, <1>4, <1>6, TakeFieldIs
<1>8. TakeField(Reading(s, o1), f2) = Reading(t, o2)
  BY <1>1, <1>4, <1>5, TakeFieldIs
<1>9. Raw((a \o b) \o t) = Reading((a \o b) \o t, o)
  BY <1>2 DEF Raw, Reading
<1>10. TakeAll(Reading((a \o b) \o t, o), <<f1, f2>>) = Reading(t, o2)
  BY <1>6, <1>7, <1>8, TwoFields
<1> QED
  BY <1>1, <1>2, <1>9, <1>10

LEMMA ReadThree ==
  ASSUME NEW f1, NEW f2, NEW f3, NEW v1, NEW v2, NEW v3, NEW t, Sequence(t)
  PROVE  TakeAll(Raw(((Field(f1, v1) \o Field(f2, v2)) \o Field(f3, v3)) \o t), <<f1, f2, f3>>)
           = Reading(t, <<v1, v2, v3>>)
<1>1. PICK a, b, c : a = Field(f1, v1) /\ b = Field(f2, v2) /\ c = Field(f3, v3)
  OBVIOUS
<1>2. PICK o2, o3 : o2 = <<v1, v2>> /\ o3 = <<v1, v2, v3>>
  OBVIOUS
<1>3. Sequence(a) /\ Sequence(b) /\ Sequence(c)
  BY <1>1, FieldSequence
<1>4. o3 = Append(o2, v3) /\ Sequence(o2)
  BY <1>2, Out2, Out3, Zenon
<1>5. PICK s, p : s = c \o t /\ p = a \o b
  OBVIOUS
<1>6. Sequence(s) /\ Sequence(p)
  BY <1>3, <1>5, ConcatSequence
<1>7. (p \o c) \o t = p \o s
  <2>1. (p \o c) \o t = p \o (c \o t)
    BY <1>3, <1>6, Associative
  <2> QED
    BY <1>5, <2>1
<1>8. TakeAll(Raw(p \o s), <<f1, f2>>) = Reading(s, o2)
  BY <1>1, <1>2, <1>5, <1>6, ReadTwo
<1>9. TakeField(Reading(s, o2), f3) = Reading(t, o3)
  BY <1>1, <1>4, <1>5, TakeFieldIs
<1>10. TakeAll(Raw(p \o s), <<f1, f2, f3>>) = Reading(t, o3)
  BY <1>8, <1>9, TwoFields, ThreeFields
<1> QED
  BY <1>1, <1>2, <1>5, <1>7, <1>10

LEMMA ReadSix ==
  ASSUME NEW f1, NEW f2, NEW f3, NEW f4, NEW f5, NEW f6,
         NEW v1, NEW v2, NEW v3, NEW v4, NEW v5, NEW v6
  PROVE  TakeAll(Raw(((((Field(f1, v1) \o Field(f2, v2)) \o Field(f3, v3)) \o Field(f4, v4))
                        \o Field(f5, v5)) \o Field(f6, v6)), <<f1, f2, f3, f4, f5, f6>>)
           = Reading(<<>>, <<v1, v2, v3, v4, v5, v6>>)
<1>1. PICK a, b, c, d, e, f :
        /\ a = Field(f1, v1) /\ b = Field(f2, v2) /\ c = Field(f3, v3)
        /\ d = Field(f4, v4) /\ e = Field(f5, v5) /\ f = Field(f6, v6)
  OBVIOUS
<1>2. PICK o3, o4, o5, o6 :
        /\ o3 = <<v1, v2, v3>> /\ o4 = <<v1, v2, v3, v4>> /\ o5 = <<v1, v2, v3, v4, v5>>
        /\ o6 = <<v1, v2, v3, v4, v5, v6>>
  OBVIOUS
<1>3. Sequence(a) /\ Sequence(b) /\ Sequence(c) /\ Sequence(d) /\ Sequence(e) /\ Sequence(f)
  BY <1>1, FieldSequence
<1>4. /\ o4 = Append(o3, v4) /\ o5 = Append(o4, v5) /\ o6 = Append(o5, v6)
      /\ Sequence(o3) /\ Sequence(o4) /\ Sequence(o5)
  <2>1. Sequence(<<v1, v2, v3>>)
    BY Out3, Zenon
  <2>2. Append(<<v1, v2, v3>>, v4) = <<v1, v2, v3, v4>> /\ Sequence(<<v1, v2, v3, v4>>)
    BY Out4, Zenon
  <2>3. Append(<<v1, v2, v3, v4>>, v5) = <<v1, v2, v3, v4, v5>> /\ Sequence(<<v1, v2, v3, v4, v5>>)
    BY Out5, Zenon
  <2>4. Append(<<v1, v2, v3, v4, v5>>, v6) = <<v1, v2, v3, v4, v5, v6>>
    BY Out6, Zenon
  <2> QED
    BY <1>2, <2>1, <2>2, <2>3, <2>4, Zenon
<1>5. PICK g, p, q, z : p = a \o b /\ g = p \o c /\ q = e \o f /\ z = <<>>
  OBVIOUS
<1>6. PICK s : s = d \o q
  OBVIOUS
<1>7. Sequence(z) /\ Sequence(p) /\ Sequence(q)
  BY <1>3, <1>5, ConcatSequence, EmptySequence
<1>8. Sequence(g) /\ Sequence(s) /\ f \o z = f
  BY <1>3, <1>5, <1>6, <1>7, ConcatSequence, EmptyConcat
<1>9. ((g \o d) \o e) \o f = g \o s
  <2>1. PICK h : h = g \o d
    OBVIOUS
  <2>2. Sequence(h)
    BY <1>3, <1>8, <2>1, ConcatSequence
  <2>3. (h \o e) \o f = h \o (e \o f)
    BY <1>3, <2>2, Associative
  <2>4. Sequence(g) /\ Sequence(d) /\ Sequence(q)
    BY <1>3, <1>7, <1>8
  <2>5. (g \o d) \o q = g \o (d \o q)
    BY <2>4, Associative
  <2> QED
    BY <1>5, <1>6, <2>1, <2>3, <2>5
<1>10. TakeAll(Raw(g \o s), <<f1, f2, f3>>) = Reading(s, o3)
  BY <1>1, <1>2, <1>5, <1>8, ReadThree
<1>11. TakeField(Reading(s, o3), f4) = Reading(q, o4)
  BY <1>1, <1>4, <1>6, <1>7, TakeFieldIs
<1>12. TakeField(Reading(q, o4), f5) = Reading(f, o5)
  BY <1>1, <1>3, <1>4, <1>5, TakeFieldIs
<1>13. TakeField(Reading(f, o5), f6) = Reading(z, o6)
  <2>1. TakeField(Reading(f \o z, o5), f6) = Reading(z, o6)
    BY <1>1, <1>4, <1>7, TakeFieldIs
  <2> QED
    BY <1>8, <2>1
<1>14. TakeAll(Raw(g \o s), <<f1, f2, f3, f4, f5, f6>>) = Reading(z, o6)
  BY <1>10, <1>11, <1>12, <1>13, ThreeFields, SixFields
<1> QED
  BY <1>1, <1>2, <1>5, <1>9, <1>14

\* A record whose fields all have been read.
LEMMA AtEndIs ==
  ASSUME NEW out
  PROVE  AtEnd(Reading(<<>>, out)) = Reading(<<>>, out)
<1> DEFINE ok == TRUE
<1>1. (ok /\ <<>> = <<>>) = ok
  BY DEF ok
<1> HIDE DEF ok
<1>2. [[rest |-> <<>>, out |-> out, ok |-> ok] EXCEPT !.ok = ok] = [rest |-> <<>>, out |-> out, ok |-> ok]
  OBVIOUS
<1>3. AtEnd([rest |-> <<>>, out |-> out, ok |-> ok])
        = [[rest |-> <<>>, out |-> out, ok |-> ok] EXCEPT !.ok = ok]
  BY <1>1, Zenon DEF AtEnd
<1> QED
  BY <1>2, <1>3, Zenon DEF ok, Reading

LEMMA CommonIsField == ASSUME NEW d PROVE Common(d) = Field("common", d)
BY DEF Common, Field

LEMMA FieldIs ==
  ASSUME NEW v
  PROVE  /\ Field("text", v) = Text(v)
         /\ Field("object", v) = GrnObj(v)
         /\ Field("space", v) = <<Cell("space", v)>>
         /\ Field("flags", v) = <<Cell("flags", v)>>
         /\ Field("count", v) = <<Cell("count", v)>>
BY DEF Field

LEMMA CreateTableIsRead ==
  ASSUME NEW d, NEW op
  PROVE  CreateTableRead(CreateTableWrite(d, op))
           = Reading(<<>>, <<d, op.space, op.name, 0, op.type, op.modules>>)
<1>1. CreateTableWrite(d, op)
        = (((((Field("common", d) \o Field("space", op.space)) \o Field("text", op.name))
             \o Field("flags", 0)) \o Field("object", op.type)) \o Field("object", op.modules))
  BY CommonIsField, FieldIs DEF CreateTableWrite
<1>2. TakeAll(Raw(CreateTableWrite(d, op)), <<"common", "space", "text", "flags", "object", "object">>)
        = Reading(<<>>, <<d, op.space, op.name, 0, op.type, op.modules>>)
  BY <1>1, ReadSix
<1> QED
  BY <1>2, AtEndIs DEF CreateTableRead, Read

LEMMA CreateColumnIsRead ==
  ASSUME NEW d, NEW op
  PROVE  CreateColumnRead(CreateColumnWrite(d, op))
           = Reading(<<>>, <<d, op.space, op.table, op.name, 0, op.type>>)
<1>1. CreateColumnWrite(d, op)
        = (((((Field("common", d) \o Field("space", op.space)) \o Field("object", op.table))
             \o Field("text", op.name)) \o Field("flags", 0)) \o Field("object", op.type))
  BY CommonIsField, FieldIs DEF CreateColumnWrite
<1>2. TakeAll(Raw(CreateColumnWrite(d, op)), <<"common", "space", "object", "text", "flags", "object">>)
        = Reading(<<>>, <<d, op.space, op.table, op.name, 0, op.type>>)
  BY <1>1, ReadSix
<1> QED
  BY <1>2, AtEndIs DEF CreateColumnRead, Read

\* The records of two texts, and those of one.
LEMMA TextsAreRead ==
  ASSUME NEW d, NEW s1, NEW s2
  PROVE  /\ Read((Common(d) \o Text(s1)) \o Text(s2), <<"common", "text", "text">>) = Reading(<<>>, <<d, s1, s2>>)
         /\ Read(Common(d) \o Text(s1), <<"common", "text">>) = Reading(<<>>, <<d, s1>>)
<1>1. PICK z : z = <<>>
  OBVIOUS
<1>2. Sequence(z)
  BY <1>1, EmptySequence
<1>3. PICK a, b, c : a = Field("common", d) /\ b = Field("text", s1) /\ c = Field("text", s2)
  OBVIOUS
<1>4. Sequence(a) /\ Sequence(b) /\ Sequence(c)
  BY <1>3, FieldSequence
<1>5. PICK p, q : p = a \o b /\ q = p \o c
  OBVIOUS
<1>6. Sequence(p)
  BY <1>4, <1>5, ConcatSequence
<1>7. Sequence(q)
  BY <1>4, <1>5, <1>6, ConcatSequence
<1>8. p \o z = p /\ q \o z = q
  BY <1>1, <1>6, <1>7, EmptyConcat
<1>9. TakeAll(Raw(q), <<"common", "text", "text">>) = Reading(z, <<d, s1, s2>>)
  <2>1. TakeAll(Raw(((Field("common", d) \o Field("text", s1)) \o Field("text", s2)) \o z), <<"common", "text", "text">>)
          = Reading(z, <<d, s1, s2>>)
    BY <1>2, ReadThree
  <2> QED
    BY <1>3, <1>5, <1>8, <2>1
<1>10. TakeAll(Raw(p), <<"common", "text">>) = Reading(z, <<d, s1>>)
  <2>1. TakeAll(Raw((Field("common", d) \o Field("text", s1)) \o z), <<"common", "text">>) = Reading(z, <<d, s1>>)
    BY <1>2, ReadTwo
  <2> QED
    BY <1>3, <1>5, <1>8, <2>1
<1>11. /\ (Common(d) \o Text(s1)) \o Text(s2) = q
       /\ Common(d) \o Text(s1) = p
  BY <1>3, <1>5, CommonIsField, FieldIs
<1> QED
  BY <1>1, <1>9, <1>10, <1>11, AtEndIs DEF Read

\* Reading part after part, each of which gives one value, gives the values.
Grown(out, o, vs, i) ==
  /\ Sequence(out)
  /\ Len(out) = Len(o) + i
  /\ \A k \in 1..Len(o) : out[k] = o[k]
  /\ \A k \in 1..i : out[Len(o) + k] = vs[k]

LEMMA GrownBegins ==
  ASSUME NEW o, NEW vs, Sequence(o)
  PROVE  Grown(o, o, vs, 0)
<1>1. Len(o) \in Nat
  BY AppendSequence
<1> QED
  BY <1>1 DEF Grown

LEMMA GrownGrows ==
  ASSUME NEW o, NEW vs, NEW out, NEW i \in Nat, Sequence(o), Grown(out, o, vs, i)
  PROVE  Grown(Append(out, vs[i + 1]), o, vs, i + 1)
<1> DEFINE w == Append(out, vs[i + 1])
           m == Len(o)
<1>1. m \in Nat /\ Sequence(out) /\ Len(out) = m + i
  BY AppendSequence DEF Grown
<1>2. /\ Sequence(w) /\ Len(w) = (m + i) + 1
      /\ w[(m + i) + 1] = vs[i + 1]
      /\ \A k \in 1..m + i : w[k] = out[k]
  BY <1>1, AppendSequence
<1> HIDE DEF w
<1>3. ASSUME NEW k \in 1..m PROVE w[k] = o[k]
  <2>1. k \in 1..m + i /\ out[k] = o[k]
    BY <1>1 DEF Grown
  <2> QED
    BY <1>2, <2>1
<1>4. ASSUME NEW k \in 1..i + 1 PROVE w[m + k] = vs[k]
  <2>1. CASE k = i + 1
    <3>1. m + k = (m + i) + 1
      BY <1>1, <2>1
    <3> QED
      BY <1>2, <2>1, <3>1
  <2>2. CASE k # i + 1
    <3>1. k \in 1..i
      BY <2>2
    <3>2. out[m + k] = vs[k] /\ m + k \in 1..m + i
      BY <1>1, <3>1 DEF Grown
    <3> QED
      BY <1>2, <3>2
  <2> QED
    BY <2>1, <2>2
<1>5. m + (i + 1) = (m + i) + 1
  BY <1>1
<1> QED
  BY <1>2, <1>3, <1>4, <1>5 DEF Grown, w

LEMMA GrownIs ==
  ASSUME NEW o, NEW vs, NEW out, NEW n \in Nat, Sequence(o), Grown(out, o, vs, n),
         Sequence(vs), Len(vs) = n
  PROVE  out = o \o vs
<1>1. /\ Sequence(o \o vs)
      /\ Len(o) \in Nat
      /\ Len(o \o vs) = Len(o) + n
      /\ \A k \in 1..Len(o) : (o \o vs)[k] = o[k]
      /\ \A k \in 1..n : (o \o vs)[Len(o) + k] = vs[k]
  <2>1. Sequence(o \o vs)
    BY ConcatSequence
  <2>2. /\ Len(o) \in Nat /\ Len(o \o vs) = Len(o) + Len(vs)
        /\ \A k \in 1..Len(o) : (o \o vs)[k] = o[k]
        /\ \A k \in 1..Len(vs) : (o \o vs)[Len(o) + k] = vs[k]
    BY ConcatElements
  <2> QED
    BY <2>1, <2>2
<1>2. PICK w : w = o \o vs
  OBVIOUS
<1>3. PICK m : m = Len(o)
  OBVIOUS
<1>4. /\ m \in Nat /\ Len(w) = m + n /\ Len(out) = m + n
      /\ \A k \in 1..m : w[k] = o[k] /\ out[k] = o[k]
      /\ \A k \in 1..n : w[m + k] = vs[k] /\ out[m + k] = vs[k]
  BY <1>1, <1>2, <1>3 DEF Grown
<1>5. ASSUME NEW k \in 1..m + n PROVE w[k] = out[k]
  <2>1. CASE k \in 1..m
    BY <1>4, <2>1
  <2>2. CASE k \notin 1..m
    <3>1. k - m \in 1..n /\ m + (k - m) = k
      BY <1>4, <2>2
    <3> QED
      BY <1>4, <3>1
  <2> QED
    BY <2>1, <2>2
<1>6. PICK R : w \in Seq(R) /\ out \in Seq(R)
  <2>1. Sequence(w) /\ Sequence(out)
    BY <1>1, <1>2 DEF Grown
  <2> QED
    BY <2>1, Common2
<1>7. w = out
  BY <1>4, <1>5, <1>6, SeqEqual
<1> QED
  BY <1>2, <1>7

LEMMA ReadingRuns ==
  ASSUME NEW n \in Nat, NEW ss, Parts(ss, n),
         NEW vs, Sequence(vs), Len(vs) = n,
         NEW t, NEW o, Sequence(t), Sequence(o),
         NEW run, run[0] = Reading(FlattenSeq(ss) \o t, o),
         \A i \in 1..n : \A tt, oo :
           Sequence(tt) /\ Sequence(oo) /\ run[i - 1] = Reading(ss[i] \o tt, oo)
             => run[i] = Reading(tt, Append(oo, vs[i]))
  PROVE  run[n] = Reading(t, o \o vs)
<1>1. PICK rest : Rests(rest, ss, n)
  BY FlatRests
<1> DEFINE At(i, out) == Grown(out, o, vs, i) /\ run[i] = Reading(rest[i] \o t, out)
           T == {i \in 0..n : \E out : At(i, out)}
<1>2. 0 \in T
  <2>1. At(0, o)
    BY <1>1, GrownBegins DEF Rests
  <2> QED
    BY <2>1
<1>3. ASSUME NEW i \in 0..n - 1, i \in T
      PROVE  i + 1 \in T
  <2>1. PICK out : At(i, out)
    BY <1>3
  <2>2. i + 1 \in 1..n /\ (i + 1) - 1 = i /\ i \in 0..n /\ i + 1 \in 0..n
    OBVIOUS
  <2>3. PICK a, b : a = ss[i + 1] /\ b = rest[i + 1]
    OBVIOUS
  <2>4. Sequence(a) /\ Sequence(b) /\ rest[i] = a \o b
    BY <1>1, <2>2, <2>3 DEF Rests, Parts
  <2>5. PICK tt : tt = b \o t
    OBVIOUS
  <2>6. (a \o b) \o t = a \o tt /\ Sequence(tt)
    <3>1. (a \o b) \o t = a \o (b \o t)
      BY <2>4, Associative
    <3>2. Sequence(b \o t)
      BY <2>4, ConcatSequence
    <3> QED
      BY <2>5, <3>1, <3>2
  <2>7. run[(i + 1) - 1] = Reading(ss[i + 1] \o tt, out) /\ Sequence(out)
    BY <2>1, <2>2, <2>3, <2>4, <2>6 DEF Grown
  <2>8. run[i + 1] = Reading(tt, Append(out, vs[i + 1]))
    BY <2>2, <2>6, <2>7
  <2>9. Grown(Append(out, vs[i + 1]), o, vs, i + 1)
    BY <2>1, GrownGrows
  <2>10. At(i + 1, Append(out, vs[i + 1]))
    BY <2>3, <2>5, <2>8, <2>9
  <2> QED
    BY <2>2, <2>10
<1>4. n \in T
  <2>1. n \in 0..n
    OBVIOUS
  <2> HIDE DEF T
  <2> QED
    BY <1>2, <1>3, <2>1, Upwards
<1>5. PICK out : At(n, out)
  BY <1>4
<1>6. out = o \o vs
  BY <1>5, GrownIs
<1>7. rest[n] \o t = t
  BY <1>1, EmptyConcat DEF Rests
<1> QED
  BY <1>5, <1>6, <1>7

-----------------------------------------------------------------------------
(* What a record has several of.                                           *)

Numbers(n) == [i \in 1..n |-> i]

\* The number has been read; take for each.
LEMMA ReadingOk == ASSUME NEW t, NEW o PROVE Reading(t, o).ok
BY DEF Reading

LEMMA NumberIs ==
  ASSUME NEW t, NEW o, NEW n, Sequence(o)
  PROVE  /\ Last1(Reading(t, Append(o, n))) = n
         /\ Skip(Reading(t, Append(o, n))) = Reading(t, o)
<1>1. /\ Len(Append(o, n)) = Len(o) + 1
      /\ Append(o, n)[Len(o) + 1] = n
      /\ Front(Append(o, n)) = o
  BY AppendSequence
<1> QED
  BY <1>1 DEF Reading, Last1, Skip

LEMMA NumbersAre ==
  ASSUME NEW n \in Nat
  PROVE  DOMAIN Numbers(n) = 1..n
BY DEF Numbers

LEMMA FlatSequence ==
  ASSUME NEW n \in Nat, NEW ss, Parts(ss, n)
  PROVE  Sequence(FlattenSeq(ss))
<1>1. PICK rest : Rests(rest, ss, n)
  BY FlatRests
<1>2. 0 \in 0..n
  OBVIOUS
<1> QED
  BY <1>1, <1>2 DEF Rests

LEMMA TakeSourceIs ==
  ASSUME NEW s, s # None, NEW i, NEW t, NEW o, Sequence(t), Sequence(o)
  PROVE  TakeSource(Reading(GrnObj(s) \o t, o), i) = Reading(t, Append(o, s))
<1>1. TakeGrnObj(Reading(GrnObj(s) \o t, o)) = Reading(t, Append(o, s))
  BY TakeGrnObjIs
<1>2. Last1(Reading(t, Append(o, s))) = s
  BY NumberIs
<1> QED
  BY <1>1, <1>2 DEF TakeSource

LEMMA SourcesAreRead ==
  ASSUME NEW sources, Sequence(sources), \A i \in 1..Len(sources) : sources[i] # None,
         NEW t, NEW o, Sequence(t), Sequence(o)
  PROVE  /\ Sequence(Many(GrnObj, sources))
         /\ TakeCounted(TakeSource, Reading(Many(GrnObj, sources) \o t, Append(o, Len(sources))))
              = Reading(t, o \o sources)
<1>1. PICK n : n = Len(sources)
  OBVIOUS
<1>2. n \in Nat /\ DOMAIN sources = 1..n
  <2>1. PICK R : sources \in Seq(R)
    BY DEF Sequence
  <2> QED
    BY <1>1, <2>1, LenProperties
<1> DEFINE ss == [i \in 1..n |-> GrnObj(sources[i])]
<1>3. Parts(ss, n)
  <2>1. ss = [i \in 1..n |-> ss[i]]
    OBVIOUS
  <2>2. \A i \in 1..n : Sequence(ss[i])
    BY GrnObjSequence
  <2> HIDE DEF ss
  <2> QED
    BY <2>1, <2>2 DEF Parts
<1>4. Many(GrnObj, sources) = FlattenSeq(ss)
  BY <1>2 DEF Many
<1>5. \A i \in 1..n : ss[i] = GrnObj(sources[i])
  OBVIOUS
<1> HIDE DEF ss
<1>6. Sequence(Many(GrnObj, sources))
  BY <1>2, <1>3, <1>4, FlatSequence
<1>7. PICK cells : cells = FlattenSeq(ss) \o t
  OBVIOUS
<1>8. PICK run : /\ run[0] = Reading(cells, o)
                 /\ \A i \in 1..n : run[i] = TakeSource(run[i - 1], Numbers(n)[i])
                 /\ run[n] = FoldLeft(TakeSource, Reading(cells, o), Numbers(n))
  BY <1>2, NumbersAre, TakeSourceRuns
<1>9. ASSUME NEW i \in 1..n, NEW tt, NEW oo, Sequence(tt), Sequence(oo), run[i - 1] = Reading(ss[i] \o tt, oo)
      PROVE  run[i] = Reading(tt, Append(oo, sources[i]))
  <2>1. run[i] = TakeSource(Reading(GrnObj(sources[i]) \o tt, oo), Numbers(n)[i])
    BY <1>5, <1>8, <1>9
  <2>2. sources[i] # None
    BY <1>1
  <2> QED
    BY <1>9, <2>1, <2>2, TakeSourceIs
<1>10. run[n] = Reading(t, o \o sources)
  <2>1. run[0] = Reading(FlattenSeq(ss) \o t, o)
    BY <1>7, <1>8
  <2> QED
    BY <1>1, <1>2, <1>3, <1>9, <2>1, ReadingRuns
<1>11. TakeCounted(TakeSource, Reading(cells, Append(o, n))) = FoldLeft(TakeSource, Reading(cells, o), Numbers(n))
  <2>1. PICK raw : raw = Reading(cells, Append(o, n))
    OBVIOUS
  <2>2. raw.ok /\ Last1(raw) = n /\ Skip(raw) = Reading(cells, o)
    BY <2>1, ReadingOk, NumberIs
  <2> QED
    BY <2>1, <2>2 DEF TakeCounted, Numbers
<1> QED
  BY <1>1, <1>4, <1>6, <1>7, <1>8, <1>10, <1>11

LEMMA SetSourcesIsRead ==
  ASSUME NEW d, NEW op, Sequence(op.sources), \A i \in 1..Len(op.sources) : op.sources[i] # None
  PROVE  SetSourcesRead(SetSourcesWrite(d, op)) = Reading(<<>>, <<d, op.column>> \o op.sources)
<1>1. PICK z, m, n, o : z = <<>> /\ m = Many(GrnObj, op.sources) /\ n = Len(op.sources) /\ o = <<d, op.column>>
  OBVIOUS
<1>2. Sequence(z) /\ Sequence(o)
  BY <1>1, EmptySequence, Out2
<1>3. /\ Sequence(m)
      /\ TakeCounted(TakeSource, Reading(m \o z, Append(o, n))) = Reading(z, o \o op.sources)
  BY <1>1, <1>2, SourcesAreRead
<1>4. m \o z = m
  BY <1>1, <1>3, EmptyConcat
<1>5. Append(o, n) = <<d, op.column, n>>
  BY <1>1, Out3
<1>6. SetSourcesWrite(d, op) = ((Field("common", d) \o Field("object", op.column)) \o Field("count", n)) \o m
  BY <1>1, CommonIsField, FieldIs DEF SetSourcesWrite
<1>7. TakeAll(Raw(SetSourcesWrite(d, op)), <<"common", "object", "count">>) = Reading(m, Append(o, n))
  <2>1. TakeAll(Raw(((Field("common", d) \o Field("object", op.column)) \o Field("count", n)) \o m),
                <<"common", "object", "count">>) = Reading(m, <<d, op.column, n>>)
    BY <1>3, ReadThree
  <2> QED
    BY <1>5, <1>6, <2>1
<1> QED
  BY <1>1, <1>3, <1>4, <1>7, AtEndIs DEF SetSourcesRead

-----------------------------------------------------------------------------
(* Tuples.                                                                 *)

\* Several texts.
LEMMA TextsOfVectorAreRead ==
  ASSUME NEW vs, Sequence(vs), NEW cells, NEW t, NEW o, Sequence(t), Sequence(o),
         cells = FlattenSeq([i \in 1..Len(vs) |-> Text(vs[i])])
  PROVE  /\ Sequence(cells)
         /\ TakeCounted(TakeElement, Reading(cells \o t, Append(o, Len(vs)))) = Reading(t, o \o vs)
<1>1. PICK n : n = Len(vs)
  OBVIOUS
<1>2. n \in Nat
  BY <1>1, AppendSequence
<1> DEFINE ss == [i \in 1..n |-> Text(vs[i])]
<1>3. Parts(ss, n)
  <2>1. ss = [i \in 1..n |-> ss[i]]
    OBVIOUS
  <2>2. \A i \in 1..n : Sequence(ss[i])
    BY TextCells, EmptySequence
  <2> HIDE DEF ss
  <2> QED
    BY <2>1, <2>2 DEF Parts
<1>4. cells = FlattenSeq(ss)
  BY <1>1
<1>5. \A i \in 1..n : ss[i] = Text(vs[i])
  OBVIOUS
<1> HIDE DEF ss
<1>6. Sequence(cells)
  BY <1>2, <1>3, <1>4, FlatSequence
<1>7. PICK all : all = cells \o t
  OBVIOUS
<1>8. PICK run : /\ run[0] = Reading(all, o)
                 /\ \A i \in 1..n : run[i] = TakeElement(run[i - 1], Numbers(n)[i])
                 /\ run[n] = FoldLeft(TakeElement, Reading(all, o), Numbers(n))
  BY <1>2, NumbersAre, TakeElementRuns
<1>9. ASSUME NEW i \in 1..n, NEW tt, NEW oo, Sequence(tt), Sequence(oo), run[i - 1] = Reading(ss[i] \o tt, oo)
      PROVE  run[i] = Reading(tt, Append(oo, vs[i]))
  <2>1. run[i] = TakeText(Reading(Text(vs[i]) \o tt, oo))
    BY <1>5, <1>8, <1>9 DEF TakeElement
  <2> QED
    BY <1>9, <2>1, TakeTextIs
<1>10. run[n] = Reading(t, o \o vs)
  <2>1. run[0] = Reading(FlattenSeq(ss) \o t, o)
    BY <1>4, <1>7, <1>8
  <2> QED
    BY <1>1, <1>2, <1>3, <1>9, <2>1, ReadingRuns
<1>11. TakeCounted(TakeElement, Reading(all, Append(o, n))) = FoldLeft(TakeElement, Reading(all, o), Numbers(n))
  <2>1. PICK raw : raw = Reading(all, Append(o, n))
    OBVIOUS
  <2>2. raw.ok /\ Last1(raw) = n /\ Skip(raw) = Reading(all, o)
    BY <2>1, ReadingOk, NumberIs
  <2> QED
    BY <2>1, <2>2 DEF TakeCounted, Numbers
<1> QED
  BY <1>1, <1>6, <1>7, <1>8, <1>10, <1>11

\* The values PGrnInsertColumn packs: a vector is one of texts, a uvector is not.
FormedValue(value) ==
  \/ \E domain, v : value = Bulk(domain, v)
  \/ \E domain, vs : IsText(domain) /\ Sequence(vs) /\ value = Vector(domain, vs)
  \/ \E domain, vs : ~IsText(domain) /\ value = UVector(domain, vs)

DomainCell(domain, vector) == Cell("domain", [domain |-> domain, vector |-> vector])
ValueCells(value) ==
  LET domain(vector) == <<DomainCell(value.domain, vector)>>
      element(v) == ColumnValueRaw(value.domain, v)
  IN CASE value.shape = "bulk" -> domain(FALSE) \o ColumnValueRaw(value.domain, value.v[1])
       [] value.shape = "vector" -> domain(TRUE) \o <<Cell("count", Len(value.v))>> \o Many(element, value.v)
       [] value.shape = "uvector" -> domain(TRUE) \o Text(value.v[1])

LEMMA ColumnCells ==
  ASSUME NEW col
  PROVE  ColumnWrite(col) = Text(col.name) \o ValueCells(col.value)
BY DEF ColumnWrite, ValueCells, DomainCell

\* The domain comes first, and tells how to go on.
LEMMA DomainIsRead ==
  ASSUME NEW domain, NEW vector, NEW t, Sequence(t)
  PROVE  TakeColumnValue(Reading(<<DomainCell(domain, vector)>> \o t, <<>>))
           = IF vector /\ IsText(domain)
             THEN TakeCounted(TakeElement, Take(Reading(t, <<>>), "count"))
             ELSE IF vector \/ IsText(domain)
             THEN TakeText(Reading(t, <<>>))
             ELSE Take(Reading(t, <<>>), "value")
<1>1. PICK type, z : type = [domain |-> domain, vector |-> vector] /\ z = <<>>
  OBVIOUS
<1>2. type.vector = vector /\ type.domain = domain
  BY <1>1
<1>3. PICK head : head = Take(Reading(<<Cell("domain", type)>> \o t, z), "domain")
  OBVIOUS
<1>4. Sequence(z)
  BY <1>1, EmptySequence
<1>5. /\ head = Reading(t, Append(z, type))
      /\ Last1(Reading(t, Append(z, type))) = type
      /\ Skip(Reading(t, Append(z, type))) = Reading(t, z)
  BY <1>3, <1>4, TakeCell
<1>6. head.ok
  BY <1>5, ReadingOk
<1>7. TakeColumnValue(Reading(<<Cell("domain", type)>> \o t, z))
        = IF type.vector /\ IsText(type.domain)
          THEN TakeCounted(TakeElement, Take(Skip(head), "count"))
          ELSE IF type.vector \/ IsText(type.domain)
          THEN TakeText(Skip(head))
          ELSE Take(Skip(head), "value")
  BY <1>3, <1>5, <1>6 DEF TakeColumnValue
<1> QED
  BY <1>1, <1>2, <1>5, <1>7 DEF DomainCell

LEMMA BulkIsRead ==
  ASSUME NEW domain, NEW v, NEW t, Sequence(t)
  PROVE  /\ Sequence(ValueCells(Bulk(domain, v)))
         /\ TakeColumnValue(Reading(ValueCells(Bulk(domain, v)) \o t, <<>>)) = Reading(t, <<v>>)
<1>1. PICK x, c : x = Bulk(domain, v) /\ c = ColumnValueRaw(domain, v)
  OBVIOUS
<1>2. x.shape = "bulk" /\ x.domain = domain /\ x.v[1] = v
  BY <1>1 DEF Bulk
<1>3. ValueCells(x) = <<DomainCell(domain, FALSE)>> \o c
  BY <1>1, <1>2 DEF ValueCells
<1>4. Sequence(c) /\ Sequence(<<DomainCell(domain, FALSE)>>)
  BY <1>1, TextCells, EmptySequence, OneSequence DEF ColumnValueRaw
<1>5. Sequence(ValueCells(x))
  BY <1>3, <1>4, ConcatSequence
<1>6. PICK ct : ct = c \o t
  OBVIOUS
<1>7. Sequence(ct)
  BY <1>4, <1>6, ConcatSequence
<1>8. ValueCells(x) \o t = <<DomainCell(domain, FALSE)>> \o ct
  <2>1. PICK dc : dc = <<DomainCell(domain, FALSE)>>
    OBVIOUS
  <2>2. (dc \o c) \o t = dc \o (c \o t)
    BY <1>4, <2>1, Associative
  <2> QED
    BY <1>3, <1>6, <2>1, <2>2
<1>9. TakeColumnValue(Reading(ValueCells(x) \o t, <<>>))
        = IF IsText(domain) THEN TakeText(Reading(ct, <<>>)) ELSE Take(Reading(ct, <<>>), "value")
  BY <1>7, <1>8, DomainIsRead
<1>10. Append(<<>>, v) = <<v>> /\ Sequence(<<>>)
  BY EmptySequence
<1>11. CASE IsText(domain)
  <2>1. TakeText(Reading(Text(v) \o t, <<>>)) = Reading(t, Append(<<>>, v))
    BY <1>10, TakeTextIs
  <2> QED
    BY <1>1, <1>5, <1>6, <1>9, <1>10, <1>11, <2>1 DEF ColumnValueRaw
<1>12. CASE ~IsText(domain)
  <2>1. Take(Reading(<<Cell("value", v)>> \o t, <<>>), "value") = Reading(t, Append(<<>>, v))
    <3>1. PICK z : z = <<>>
      OBVIOUS
    <3>2. Sequence(z)
      BY <3>1, EmptySequence
    <3>3. Take(Reading(<<Cell("value", v)>> \o t, z), "value") = Reading(t, Append(z, v))
      BY <3>2, TakeCell
    <3> QED
      BY <3>1, <3>3
  <2> QED
    BY <1>1, <1>5, <1>6, <1>9, <1>10, <1>12, <2>1 DEF ColumnValueRaw
<1> QED
  BY <1>11, <1>12

LEMMA VectorIsRead ==
  ASSUME NEW domain, IsText(domain), NEW vs, Sequence(vs), NEW t, Sequence(t)
  PROVE  /\ Sequence(ValueCells(Vector(domain, vs)))
         /\ TakeColumnValue(Reading(ValueCells(Vector(domain, vs)) \o t, <<>>)) = Reading(t, vs)
<1>1. PICK x, z, n, dc, cc : /\ x = Vector(domain, vs) /\ z = <<>> /\ n = Len(vs)
                             /\ dc = <<DomainCell(domain, TRUE)>> /\ cc = <<Cell("count", n)>>
  OBVIOUS
<1>2. x.shape = "vector" /\ x.domain = domain /\ x.v = vs
  BY <1>1 DEF Vector
<1>3. DOMAIN vs = 1..n /\ n \in Nat
  <2>1. PICK R : vs \in Seq(R)
    BY DEF Sequence
  <2> QED
    BY <1>1, <2>1, LenProperties
<1>4. PICK cells : cells = FlattenSeq([i \in 1..Len(vs) |-> Text(vs[i])])
  OBVIOUS
<1>5. ValueCells(x) = (dc \o cc) \o cells
  <2>1. ValueCells(x) = (dc \o cc) \o FlattenSeq([i \in DOMAIN vs |-> ColumnValueRaw(domain, vs[i])])
    BY <1>1, <1>2 DEF ValueCells, Many
  <2>2. \A v : ColumnValueRaw(domain, v) = Text(v)
    BY DEF ColumnValueRaw
  <2>3. [i \in DOMAIN vs |-> ColumnValueRaw(domain, vs[i])] = [i \in 1..Len(vs) |-> Text(vs[i])]
    BY <1>1, <1>3, <2>2
  <2> QED
    BY <1>4, <2>1, <2>3
<1>6. Sequence(z) /\ Sequence(dc) /\ Sequence(cc)
  BY <1>1, EmptySequence, OneSequence
<1>7. /\ Sequence(cells)
      /\ TakeCounted(TakeElement, Reading(cells \o t, Append(z, n))) = Reading(t, z \o vs)
  BY <1>1, <1>4, <1>6, TextsOfVectorAreRead
<1>8. PICK ct, p : ct = cells \o t /\ p = dc \o cc
  OBVIOUS
<1>9. Sequence(ct) /\ Sequence(p)
  BY <1>6, <1>7, <1>8, ConcatSequence
<1>10. PICK q : q = cc \o ct
  OBVIOUS
<1>11. Sequence(q)
  BY <1>6, <1>9, <1>10, ConcatSequence
<1>12. Sequence(ValueCells(x))
  <2>1. Sequence(p \o cells)
    BY <1>7, <1>9, ConcatSequence
  <2> QED
    BY <1>5, <1>8, <2>1
<1>13. ValueCells(x) \o t = dc \o q
  <2>1. (p \o cells) \o t = p \o (cells \o t)
    BY <1>7, <1>9, Associative
  <2>2. Sequence(dc) /\ Sequence(cc) /\ Sequence(ct)
    BY <1>6, <1>9
  <2>3. (dc \o cc) \o ct = dc \o (cc \o ct)
    BY <2>2, Associative
  <2> QED
    BY <1>5, <1>8, <1>10, <2>1, <2>3
<1>14. TakeColumnValue(Reading(dc \o q, z)) = TakeCounted(TakeElement, Take(Reading(q, z), "count"))
  <2>1. TakeColumnValue(Reading(<<DomainCell(domain, TRUE)>> \o q, <<>>))
          = TakeCounted(TakeElement, Take(Reading(q, <<>>), "count"))
    BY <1>11, DomainIsRead
  <2> QED
    BY <1>1, <2>1
<1>15. Take(Reading(q, z), "count") = Reading(ct, Append(z, n))
  <2>1. Take(Reading(<<Cell("count", n)>> \o ct, z), "count") = Reading(ct, Append(z, n))
    BY <1>6, <1>9, TakeCell
  <2> QED
    BY <1>1, <1>10, <2>1
<1>16. z \o vs = vs
  BY <1>1, EmptyConcat
<1> QED
  BY <1>1, <1>7, <1>8, <1>12, <1>13, <1>14, <1>15, <1>16

LEMMA UVectorIsRead ==
  ASSUME NEW domain, ~IsText(domain), NEW v, NEW t, Sequence(t)
  PROVE  /\ Sequence(ValueCells(UVector(domain, v)))
         /\ TakeColumnValue(Reading(ValueCells(UVector(domain, v)) \o t, <<>>)) = Reading(t, <<v>>)
<1>1. PICK x, z, dc, c : x = UVector(domain, v) /\ z = <<>> /\ dc = <<DomainCell(domain, TRUE)>> /\ c = Text(v)
  OBVIOUS
<1>2. x.shape = "uvector" /\ x.domain = domain /\ x.v[1] = v
  BY <1>1 DEF UVector
<1>3. ValueCells(x) = dc \o c
  BY <1>1, <1>2 DEF ValueCells
<1>4. Sequence(c) /\ Sequence(dc) /\ Sequence(z)
  BY <1>1, TextCells, EmptySequence, OneSequence
<1>5. Sequence(ValueCells(x))
  BY <1>3, <1>4, ConcatSequence
<1>6. PICK ct : ct = c \o t
  OBVIOUS
<1>7. Sequence(ct)
  BY <1>4, <1>6, ConcatSequence
<1>8. ValueCells(x) \o t = dc \o ct
  <2>1. (dc \o c) \o t = dc \o (c \o t)
    BY <1>4, Associative
  <2> QED
    BY <1>3, <1>6, <2>1
<1>9. TakeColumnValue(Reading(dc \o ct, z)) = TakeText(Reading(ct, z))
  <2>1. TakeColumnValue(Reading(<<DomainCell(domain, TRUE)>> \o ct, <<>>)) = TakeText(Reading(ct, <<>>))
    BY <1>7, DomainIsRead
  <2> QED
    BY <1>1, <2>1
<1>10. TakeText(Reading(Text(v) \o t, z)) = Reading(t, Append(z, v))
  BY <1>4, TakeTextIs
<1>11. Append(z, v) = <<v>>
  BY <1>1
<1> QED
  BY <1>1, <1>5, <1>6, <1>8, <1>9, <1>10, <1>11

LEMMA ValueIsRead ==
  ASSUME NEW value, FormedValue(value), NEW t, Sequence(t)
  PROVE  /\ Sequence(ValueCells(value))
         /\ TakeColumnValue(Reading(ValueCells(value) \o t, <<>>)) = Reading(t, value.v)
<1>1. ASSUME NEW domain, NEW v, value = Bulk(domain, v)
      PROVE  /\ Sequence(ValueCells(value))
             /\ TakeColumnValue(Reading(ValueCells(value) \o t, <<>>)) = Reading(t, value.v)
  <2>1. value.v = <<v>>
    BY <1>1 DEF Bulk
  <2> QED
    BY <1>1, <2>1, BulkIsRead
<1>2. ASSUME NEW domain, NEW vs, IsText(domain), Sequence(vs), value = Vector(domain, vs)
      PROVE  /\ Sequence(ValueCells(value))
             /\ TakeColumnValue(Reading(ValueCells(value) \o t, <<>>)) = Reading(t, value.v)
  <2>1. value.v = vs
    BY <1>2 DEF Vector
  <2> QED
    BY <1>2, <2>1, VectorIsRead
<1>3. ASSUME NEW domain, NEW v, ~IsText(domain), value = UVector(domain, v)
      PROVE  /\ Sequence(ValueCells(value))
             /\ TakeColumnValue(Reading(ValueCells(value) \o t, <<>>)) = Reading(t, value.v)
  <2>1. value.v = <<v>>
    BY <1>3 DEF UVector
  <2> QED
    BY <1>3, <2>1, UVectorIsRead
<1> QED
  BY <1>1, <1>2, <1>3 DEF FormedValue

\* A name, and what follows it.
LEMMA NameIsRead ==
  ASSUME NEW name, NEW value, NEW x, NEW i, NEW t, NEW o,
         Sequence(value), Sequence(t), Sequence(o),
         IF name = "_key"
         THEN TakeText(Reading(value \o t, <<>>)) = Reading(t, x)
         ELSE TakeColumnValue(Reading(value \o t, <<>>)) = Reading(t, x)
  PROVE  TakeColumn(Reading((Text(name) \o value) \o t, o), i) = Reading(t, Append(o, [name |-> name, v |-> x]))
<1>1. PICK z, a, vt : z = <<>> /\ a = Text(name) /\ vt = value \o t
  OBVIOUS
<1>2. Sequence(z) /\ Sequence(a) /\ Sequence(vt)
  <2>1. Sequence(z) /\ Sequence(a)
    BY <1>1, EmptySequence, TextCells
  <2>2. Sequence(vt)
    BY <1>1, ConcatSequence
  <2> QED
    BY <2>1, <2>2
<1>3. (a \o value) \o t = a \o vt
  <2>1. (a \o value) \o t = a \o (value \o t)
    BY <1>2, Associative
  <2> QED
    BY <1>1, <2>1
<1>4. PICK raw : raw = Reading(a \o vt, o)
  OBVIOUS
<1>5. [raw EXCEPT !.out = z] = Reading(a \o vt, z)
  BY <1>4, OtherOut
<1>6. TakeText(Reading(Text(name) \o vt, z)) = Reading(vt, Append(z, name))
  BY <1>2, TakeTextIs
<1>7. /\ Last1(Reading(vt, Append(z, name))) = name
      /\ Skip(Reading(vt, Append(z, name))) = Reading(vt, z)
      /\ Reading(vt, Append(z, name)).ok
  BY <1>2, NumberIs, ReadingOk
<1>8. PICK read : read = TakeText([raw EXCEPT !.out = z])
  OBVIOUS
<1>9. Last1(read) = name /\ Skip(read) = Reading(vt, z) /\ read.ok
  BY <1>1, <1>5, <1>6, <1>7, <1>8
<1>10. (IF name = "_key" THEN TakeText(Skip(read)) ELSE TakeColumnValue(Skip(read))) = Reading(t, x)
  BY <1>1, <1>9
<1>11. raw.out = o
  BY <1>4 DEF Reading
<1>12. Reading(t, x).out = x
  BY DEF Reading
<1>13. TakeColumn(raw, i) = [Reading(t, x) EXCEPT !.out = Append(o, [name |-> name, v |-> x])]
  BY <1>1, <1>8, <1>9, <1>10, <1>11, <1>12 DEF TakeColumn
<1> QED
  BY <1>1, <1>3, <1>4, <1>13, OtherOut

KeyCol(key) == [name |-> "_key", v |-> <<key>>]
ColOf(col) == [name |-> col.name, v |-> col.value.v]
FormedColumn(col) == col.name \notin {"_table", "_key", "_action"} /\ FormedValue(col.value)
FormedTuple(tuple) ==
  /\ Sequence(tuple.cols)
  /\ \A i \in 1..Len(tuple.cols) : FormedColumn(tuple.cols[i])
  /\ tuple.announced \in Nat /\ tuple.announced >= Len(tuple.cols) + 1

LEMMA KeyIsRead ==
  ASSUME NEW key, NEW i, NEW t, NEW o, Sequence(t), Sequence(o)
  PROVE  TakeColumn(Reading((Text("_key") \o Text(key)) \o t, o), i) = Reading(t, Append(o, KeyCol(key)))
<1>1. PICK z : z = <<>>
  OBVIOUS
<1>2. Sequence(z)
  BY <1>1, EmptySequence
<1>3. TakeText(Reading(Text(key) \o t, z)) = Reading(t, Append(z, key))
  BY <1>2, TakeTextIs
<1>4. Append(z, key) = <<key>>
  BY <1>1
<1>5. PICK value : value = Text(key)
  OBVIOUS
<1>6. Sequence(value)
  BY <1>5, TextCells, EmptySequence
<1>7. TakeText(Reading(value \o t, <<>>)) = Reading(t, <<key>>)
  BY <1>1, <1>3, <1>4, <1>5
<1>8. TakeColumn(Reading((Text("_key") \o value) \o t, o), i)
        = Reading(t, Append(o, [name |-> "_key", v |-> <<key>>]))
  BY <1>6, <1>7, NameIsRead
<1> QED
  BY <1>5, <1>8 DEF KeyCol

LEMMA ColumnIsRead ==
  ASSUME NEW col, FormedColumn(col), NEW i, NEW t, NEW o, Sequence(t), Sequence(o)
  PROVE  /\ Sequence(ColumnWrite(col))
         /\ TakeColumn(Reading(ColumnWrite(col) \o t, o), i) = Reading(t, Append(o, ColOf(col)))
<1>1. PICK value, name : value = ValueCells(col.value) /\ name = col.name
  OBVIOUS
<1>2. /\ Sequence(value)
      /\ TakeColumnValue(Reading(value \o t, <<>>)) = Reading(t, col.value.v)
  BY <1>1, ValueIsRead DEF FormedColumn
<1>3. name # "_key"
  BY <1>1 DEF FormedColumn
<1>4. TakeColumn(Reading((Text(name) \o value) \o t, o), i)
        = Reading(t, Append(o, [name |-> name, v |-> col.value.v]))
  BY <1>2, <1>3, NameIsRead
<1>5. Sequence(Text(name) \o value)
  BY <1>2, TextCells
<1> QED
  BY <1>1, <1>4, <1>5, ColumnCells DEF ColOf

LEMMA ValuesAre ==
  ASSUME NEW cols, Sequence(cols)
  PROVE  /\ Len(cols) \in Nat /\ DOMAIN cols = 1..Len(cols)
         /\ Sequence(Values(cols)) /\ Len(Values(cols)) = Len(cols)
         /\ \A i \in 1..Len(cols) : Values(cols)[i] = ColOf(cols[i])
<1>1. PICK n : n = Len(cols)
  OBVIOUS
<1>2. DOMAIN cols = 1..n /\ n \in Nat
  <2>1. PICK R : cols \in Seq(R)
    BY DEF Sequence
  <2> QED
    BY <1>1, <2>1, LenProperties
<1>3. Values(cols) = [i \in 1..n |-> ColOf(cols[i])]
  BY <1>2 DEF Values, ColOf
<1>4. Values(cols) = [i \in 1..n |-> Values(cols)[i]]
  BY <1>3
<1>5. Sequence(Values(cols)) /\ Len(Values(cols)) = n
  BY <1>2, <1>4, FunctionSequence
<1> QED
  BY <1>1, <1>2, <1>3, <1>5

LEMMA TupleIsRead ==
  ASSUME NEW tuple, FormedTuple(tuple), tuple.announced = Len(tuple.cols) + 1,
         NEW t, NEW o, Sequence(t)
  PROVE  /\ Sequence(TupleWrite(tuple))
         /\ TakeTuple(Reading(TupleWrite(tuple) \o t, o))
              = Reading(t, <<KeyCol(tuple.key)>> \o Values(tuple.cols))
<1>1. PICK n, cols, vs : n = Len(tuple.cols) /\ cols = tuple.cols /\ vs = Values(cols)
  OBVIOUS
<1>2. /\ Sequence(cols) /\ n \in Nat /\ DOMAIN cols = 1..n
      /\ Sequence(vs) /\ Len(vs) = n /\ \A i \in 1..n : vs[i] = ColOf(cols[i])
  BY <1>1, ValuesAre DEF FormedTuple
<1> DEFINE ss == [i \in 1..n |-> ColumnWrite(cols[i])]
<1>3. Parts(ss, n)
  <2>1. ss = [i \in 1..n |-> ss[i]]
    OBVIOUS
  <2>2. ASSUME NEW i \in 1..n PROVE Sequence(ss[i])
    <3>1. FormedColumn(cols[i])
      BY <1>1 DEF FormedTuple
    <3> QED
      BY <3>1, ColumnIsRead, EmptySequence
  <2> HIDE DEF ss
  <2> QED
    BY <2>1, <2>2 DEF Parts
<1>4. PICK m : m = Many(ColumnWrite, cols)
  OBVIOUS
<1>5. m = FlattenSeq(ss)
  BY <1>2, <1>4 DEF Many
<1>6. \A i \in 1..n : ss[i] = ColumnWrite(cols[i])
  OBVIOUS
<1> HIDE DEF ss
<1>7. Sequence(m)
  BY <1>2, <1>3, <1>5, FlatSequence
<1>8. PICK z, c, k : /\ z = <<>> /\ c = <<Cell("count", n + 1)>>
                     /\ k = Text("_key") \o Text(tuple.key)
  OBVIOUS
<1>9. Sequence(z) /\ Sequence(c) /\ Sequence(k)
  <2>1. Sequence(z) /\ Sequence(c)
    BY <1>8, EmptySequence, OneSequence
  <2>2. Sequence(k)
    <3>1. Sequence(Text("_key")) /\ Sequence(Text(tuple.key))
      BY TextCells, EmptySequence
    <3> QED
      BY <1>8, <3>1, ConcatSequence
  <2> QED
    BY <2>1, <2>2
<1>10. TupleWrite(tuple) = (c \o k) \o m
  <2>1. PICK a, b : a = Text("_key") /\ b = Text(tuple.key)
    OBVIOUS
  <2>2. Sequence(a) /\ Sequence(b)
    BY <2>1, TextCells, EmptySequence
  <2>3. TupleWrite(tuple) = ((c \o a) \o b) \o m
    BY <1>1, <1>4, <1>8, <2>1 DEF TupleWrite
  <2>4. Sequence(c)
    BY <1>9
  <2>5. (c \o a) \o b = c \o (a \o b)
    BY <2>2, <2>4, Associative
  <2> QED
    BY <1>8, <2>1, <2>3, <2>5
<1>11. PICK ck, mt : ck = c \o k /\ mt = m \o t
  OBVIOUS
<1>12. Sequence(ck)
  BY <1>9, <1>11, ConcatSequence
<1>13. Sequence(mt)
  BY <1>7, <1>11, ConcatSequence
<1>14. Sequence(TupleWrite(tuple))
  BY <1>7, <1>10, <1>11, <1>12, ConcatSequence
<1>15. PICK kmt : kmt = k \o mt
  OBVIOUS
<1>16. Sequence(kmt)
  BY <1>9, <1>13, <1>15, ConcatSequence
<1>17. TupleWrite(tuple) \o t = c \o kmt
  <2>1. (ck \o m) \o t = ck \o (m \o t)
    BY <1>7, <1>12, Associative
  <2>2. Sequence(c) /\ Sequence(k) /\ Sequence(mt)
    BY <1>9, <1>13
  <2>3. (c \o k) \o mt = c \o (k \o mt)
    BY <2>2, Associative
  <2> QED
    BY <1>10, <1>11, <1>15, <2>1, <2>3
<1>18. Take(Reading(c \o kmt, z), "count") = Reading(kmt, Append(z, n + 1))
  <2>1. Take(Reading(<<Cell("count", n + 1)>> \o kmt, z), "count") = Reading(kmt, Append(z, n + 1))
    BY <1>9, <1>16, TakeCell
  <2> QED
    BY <1>8, <2>1
<1>19. PICK run : /\ run[0] = Reading(kmt, z)
                  /\ \A i \in 1..n + 1 : run[i] = TakeColumn(run[i - 1], Numbers(n + 1)[i])
                  /\ run[n + 1] = FoldLeft(TakeColumn, Reading(kmt, z), Numbers(n + 1))
  <2>1. n + 1 \in Nat
    BY <1>2
  <2> QED
    BY <2>1, NumbersAre, TakeColumnRuns
<1>20. PICK o1 : o1 = <<KeyCol(tuple.key)>>
  OBVIOUS
<1>21. Sequence(o1) /\ Append(z, KeyCol(tuple.key)) = o1
  BY <1>8, <1>20, OneSequence
<1>22. run[1] = Reading(m \o t, o1)
  <2>1. 1 \in 1..n + 1 /\ 1 - 1 = 0
    BY <1>2
  <2>2. run[1] = TakeColumn(Reading(kmt, z), Numbers(n + 1)[1])
    BY <1>19, <2>1
  <2>3. TakeColumn(Reading((Text("_key") \o Text(tuple.key)) \o mt, z), Numbers(n + 1)[1])
          = Reading(mt, Append(z, KeyCol(tuple.key)))
    BY <1>9, <1>13, KeyIsRead
  <2> QED
    BY <1>8, <1>11, <1>15, <1>21, <2>2, <2>3
<1> DEFINE later == [i \in 0..n |-> run[i + 1]]
<1>23. later[0] = Reading(FlattenSeq(ss) \o t, o1)
  <2>1. later[0] = run[1]
    BY <1>2
  <2> QED
    BY <1>5, <1>22, <2>1
<1>24. later[n] = run[n + 1]
  BY <1>2
<1>25. ASSUME NEW i \in 1..n, NEW tt, NEW oo, Sequence(tt), Sequence(oo), later[i - 1] = Reading(ss[i] \o tt, oo)
       PROVE  later[i] = Reading(tt, Append(oo, vs[i]))
  <2>1. /\ i + 1 \in 1..n + 1 /\ (i + 1) - 1 = i /\ i - 1 \in 0..n /\ i \in 0..n /\ (i - 1) + 1 = i
    BY <1>2
  <2>2. later[i] = TakeColumn(run[i], Numbers(n + 1)[i + 1])
    BY <1>19, <2>1
  <2>3. run[i] = Reading(ColumnWrite(cols[i]) \o tt, oo)
    BY <1>6, <1>25, <2>1
  <2>4. FormedColumn(cols[i])
    BY <1>1 DEF FormedTuple
  <2>5. TakeColumn(Reading(ColumnWrite(cols[i]) \o tt, oo), Numbers(n + 1)[i + 1])
          = Reading(tt, Append(oo, ColOf(cols[i])))
    BY <1>25, <2>4, ColumnIsRead
  <2>6. vs[i] = ColOf(cols[i])
    BY <1>2
  <2> HIDE DEF later
  <2> QED
    BY <2>2, <2>3, <2>5, <2>6
<1>26. run[n + 1] = Reading(t, o1 \o vs)
  <2> HIDE DEF later
  <2>1. later[n] = Reading(t, o1 \o vs)
    BY <1>2, <1>3, <1>21, <1>23, <1>25, ReadingRuns
  <2> QED
    BY <1>24, <2>1
<1>27. TakeCounted(TakeColumn, Reading(kmt, Append(z, n + 1))) = FoldLeft(TakeColumn, Reading(kmt, z), Numbers(n + 1))
  <2>1. PICK raw : raw = Reading(kmt, Append(z, n + 1))
    OBVIOUS
  <2>2. raw.ok /\ Last1(raw) = n + 1 /\ Skip(raw) = Reading(kmt, z)
    BY <1>9, <2>1, ReadingOk, NumberIs
  <2> QED
    BY <2>1, <2>2 DEF TakeCounted, Numbers
<1>28. TakeTuple(Reading(c \o kmt, o)) = Reading(t, o1 \o vs)
  <2>1. [Reading(c \o kmt, o) EXCEPT !.out = z] = Reading(c \o kmt, z)
    BY OtherOut
  <2> QED
    BY <1>8, <1>18, <1>19, <1>26, <1>27, <2>1 DEF TakeTuple
<1> QED
  BY <1>1, <1>14, <1>17, <1>20, <1>28

-----------------------------------------------------------------------------
(* Redoing a record of the resource manager.                               *)

LEMMA OutIs ==
  ASSUME NEW t, NEW o
  PROVE  Reading(t, o).out = o /\ Reading(t, o).rest = t
BY DEF Reading

LEMMA DoneDB == ASSUME NEW x PROVE Done(x).db = x
BY DEF Done

LEMMA RedoCreateTableIs ==
  ASSUME NEW d, d # NoDatabase, NEW db, NEW op, op.action = "create_table", Placed(db, op), op.space = DefaultSpace
  PROVE  Redo(db, op.action, CustomWrite(d, op)) = Done(Perform(d, db, op))
<1>1. PICK out : out = <<d, op.space, op.name, 0, op.type, op.modules>>
  OBVIOUS
<1>2. out[2] = op.space /\ out[3] = op.name /\ out[5] = op.type /\ out[6] = op.modules
  BY <1>1
<1>3. CustomWrite(d, op) = CreateTableWrite(d, op)
  BY DEF CustomWrite
<1>4. Redo(db, op.action, CustomWrite(d, op)) = RedoRead(db, CreateTableRead(CreateTableWrite(d, op)), RedoCreateTable)
  BY <1>3 DEF Redo
<1>5. RedoRead(db, Reading(<<>>, out), RedoCreateTable) = RedoCreateTable(db, out)
  BY ReadingOk, OutIs DEF RedoRead
<1>6. /\ Known(db, op.type) /\ ~HasTable(db, op.name) /\ Modules(op.modules) \subseteq db.plugins
  BY DEF Placed
<1>7. RedoCreateTable(db, out) = CreateTable(db, op.name, op.type, Modules(op.modules))
  BY <1>2, <1>6 DEF RedoCreateTable, RemoveTableDependent, CreateTableRaw, HasDirectory
<1>8. Perform(d, db, op) = CreateTable(db, op.name, op.type, Modules(op.modules)).db
  BY DEF Perform, CreateTableRaw, HasDirectory
<1>9. PICK more : CreateTable(db, op.name, op.type, Modules(op.modules)) = Done(more)
  BY <1>6 DEF CreateTable
<1>10. Perform(d, db, op) = more
  BY <1>8, <1>9, DoneDB
<1>11. CreateTableRead(CreateTableWrite(d, op)) = Reading(<<>>, out)
  BY <1>1, CreateTableIsRead
<1> QED
  BY <1>4, <1>5, <1>7, <1>9, <1>10, <1>11

LEMMA RedoCreateColumnIs ==
  ASSUME NEW d, d # NoDatabase, NEW db, NEW op, op.action = "create_column", Placed(db, op), op.space = DefaultSpace
  PROVE  Redo(db, op.action, CustomWrite(d, op)) = Done(Perform(d, db, op))
<1>1. PICK out : out = <<d, op.space, op.table, op.name, 0, op.type>>
  OBVIOUS
<1>2. out[2] = op.space /\ out[3] = op.table /\ out[4] = op.name /\ out[6] = op.type
  BY <1>1
<1>3. CustomWrite(d, op) = CreateColumnWrite(d, op)
  BY DEF CustomWrite
<1>4. Redo(db, op.action, CustomWrite(d, op)) = RedoRead(db, CreateColumnRead(CreateColumnWrite(d, op)), RedoCreateColumn)
  BY <1>3 DEF Redo
<1>5. RedoRead(db, Reading(<<>>, out), RedoCreateColumn) = RedoCreateColumn(db, out)
  BY ReadingOk, OutIs DEF RedoRead
<1>6. HasTable(db, op.table) /\ Known(db, op.type) /\ ~HasColumn(db, op.table, op.name)
  BY DEF Placed
<1>7. RedoCreateColumn(db, out) = CreateColumn(db, op.table, op.name, op.type)
  BY <1>2, <1>6 DEF RedoCreateColumn, CreateColumnRaw, HasDirectory
<1>8. Perform(d, db, op) = CreateColumn(db, op.table, op.name, op.type).db
  BY DEF Perform, CreateColumnRaw, HasDirectory
<1>9. PICK more : CreateColumn(db, op.table, op.name, op.type) = Done(more)
  BY <1>6 DEF CreateColumn
<1>10. Perform(d, db, op) = more
  BY <1>8, <1>9, DoneDB
<1>11. CreateColumnRead(CreateColumnWrite(d, op)) = Reading(<<>>, out)
  BY <1>1, CreateColumnIsRead
<1> QED
  BY <1>4, <1>5, <1>7, <1>9, <1>10, <1>11

LEMMA ToSetIs ==
  ASSUME NEW s, Sequence(s)
  PROVE  ToSet(s) = {s[i] : i \in 1..Len(s)}
<1>1. PICK R : s \in Seq(R)
  BY DEF Sequence
<1> QED
  BY <1>1 DEF ToSet

LEMMA RedoSetSourcesIs ==
  ASSUME NEW d, NEW db, NEW op, op.action = "set_sources", Placed(db, op),
         Sequence(op.sources), \A i \in 1..Len(op.sources) : op.sources[i] # None
  PROVE  Redo(db, op.action, CustomWrite(d, op)) = Done(Perform(d, db, op))
<1>1. PICK out : out = <<d, op.column>> \o op.sources
  OBVIOUS
<1>2. out[2] = op.column /\ {out[i] : i \in 3..Len(out)} = ToSet(op.sources)
  <2>1. PICK h, n : h = <<d, op.column>> /\ n = Len(op.sources)
    OBVIOUS
  <2>2. Len(h) = 2 /\ h[2] = op.column /\ Sequence(h)
    BY <2>1, Out2
  <2>3. /\ n \in Nat
        /\ Len(out) = 2 + n
        /\ out[2] = op.column
        /\ \A i \in 1..n : out[2 + i] = op.sources[i]
    <3>1. /\ Len(op.sources) \in Nat
          /\ Len(h \o op.sources) = Len(h) + Len(op.sources)
          /\ \A i \in 1..Len(h) : (h \o op.sources)[i] = h[i]
          /\ \A i \in 1..Len(op.sources) : (h \o op.sources)[Len(h) + i] = op.sources[i]
      <4>1. PICK s : s = op.sources
        OBVIOUS
      <4>2. Sequence(s) /\ Sequence(h)
        BY <2>2, <4>1
      <4> QED
        BY <4>1, <4>2, ConcatElements
    <3> QED
      BY <1>1, <2>1, <2>2, <3>1
  <2>4. {out[i] : i \in 3..Len(out)} = {op.sources[i] : i \in 1..n}
    <3>1. ASSUME NEW i \in 3..Len(out) PROVE out[i] \in {op.sources[k] : k \in 1..n}
      <4>1. i - 2 \in 1..n /\ 2 + (i - 2) = i
        BY <2>3
      <4> QED
        BY <2>3, <4>1
    <3>2. ASSUME NEW k \in 1..n PROVE op.sources[k] \in {out[i] : i \in 3..Len(out)}
      <4>1. 2 + k \in 3..Len(out)
        BY <2>3
      <4> QED
        BY <2>3, <4>1
    <3> QED
      BY <3>1, <3>2
  <2> QED
    BY <2>1, <2>3, <2>4, ToSetIs
<1>3. CustomWrite(d, op) = SetSourcesWrite(d, op)
  BY DEF CustomWrite
<1>4. Redo(db, op.action, CustomWrite(d, op)) = RedoRead(db, SetSourcesRead(SetSourcesWrite(d, op)), RedoSetSources)
  BY <1>3 DEF Redo
<1>5. RedoRead(db, Reading(<<>>, out), RedoSetSources) = RedoSetSources(db, out)
  BY ReadingOk, OutIs DEF RedoRead
<1>6. \A tc \in {op.column} \cup ToSet(op.sources) : HasColumn(db, tc[1], tc[2])
  BY DEF Placed
<1>7. RedoSetSources(db, out) = SetSources(db, op.column, ToSet(op.sources))
  BY <1>2, <1>6 DEF RedoSetSources
<1>8. Perform(d, db, op) = SetSources(db, op.column, ToSet(op.sources)).db
  BY DEF Perform
<1>9. PICK more : SetSources(db, op.column, ToSet(op.sources)) = Done(more)
  BY DEF SetSources
<1>10. Perform(d, db, op) = more
  BY <1>8, <1>9, DoneDB
<1>11. SetSourcesRead(SetSourcesWrite(d, op)) = Reading(<<>>, out)
  BY <1>1, SetSourcesIsRead
<1> QED
  BY <1>4, <1>5, <1>7, <1>9, <1>10, <1>11

LEMMA RedoRenameTableIs ==
  ASSUME NEW d, NEW db, NEW op, op.action = "rename_table", Placed(db, op)
  PROVE  Redo(db, op.action, CustomWrite(d, op)) = Done(Perform(d, db, op))
<1>1. PICK out : out = <<d, op.name, op.new>>
  OBVIOUS
<1>2. out[2] = op.name /\ out[3] = op.new
  BY <1>1
<1>3. CustomWrite(d, op) = (Common(d) \o Text(op.name)) \o Text(op.new)
  BY DEF CustomWrite, RenameTableWrite
<1>4. Redo(db, op.action, CustomWrite(d, op)) = RedoRead(db, Reading(<<>>, out), RedoRenameTable)
  BY <1>1, <1>3, TextsAreRead DEF Redo, RenameTableRead
<1>5. RedoRead(db, Reading(<<>>, out), RedoRenameTable) = RedoRenameTable(db, out)
  BY ReadingOk, OutIs DEF RedoRead
<1>6. HasTable(db, op.name) /\ ~HasTable(db, op.new)
  BY DEF Placed
<1>7. RedoRenameTable(db, out) = RenameTable(db, op.name, op.new)
  BY <1>2, <1>6 DEF RedoRenameTable, RemoveTableDependent
<1>8. Perform(d, db, op) = RenameTable(db, op.name, op.new).db
  BY DEF Perform
<1>9. PICK more : RenameTable(db, op.name, op.new) = Done(more)
  BY <1>6 DEF RenameTable
<1>10. Perform(d, db, op) = more
  BY <1>8, <1>9, DoneDB
<1> QED
  BY <1>4, <1>5, <1>7, <1>9, <1>10

LEMMA RedoDeleteIs ==
  ASSUME NEW d, NEW db, NEW op, op.action = "delete", Placed(db, op)
  PROVE  Redo(db, op.action, CustomWrite(d, op)) = Done(Perform(d, db, op))
<1>1. PICK out : out = <<d, op.table, op.key>>
  OBVIOUS
<1>2. out[2] = op.table /\ out[3] = op.key
  BY <1>1
<1>3. CustomWrite(d, op) = (Common(d) \o Text(op.table)) \o Text(op.key)
  BY DEF CustomWrite, DeleteWrite
<1>4. Redo(db, op.action, CustomWrite(d, op)) = RedoRead(db, Reading(<<>>, out), RedoDelete)
  BY <1>1, <1>3, TextsAreRead DEF Redo, DeleteRead
<1>5. RedoRead(db, Reading(<<>>, out), RedoDelete) = RedoDelete(db, out)
  BY ReadingOk, OutIs DEF RedoRead
<1>6. HasTable(db, op.table)
  BY DEF Placed
<1>7. RedoDelete(db, out) = DeleteRow(db, op.table, op.key)
  BY <1>2, <1>6 DEF RedoDelete
<1>8. Perform(d, db, op) = DeleteRow(db, op.table, op.key).db
  BY DEF Perform
<1>9. PICK more : DeleteRow(db, op.table, op.key) = Done(more)
  BY DEF DeleteRow
<1>10. Perform(d, db, op) = more
  BY <1>8, <1>9, DoneDB
<1> QED
  BY <1>4, <1>5, <1>7, <1>9, <1>10

LEMMA RemoveObjectEnds ==
  ASSUME NEW db, NEW name, RemoveObject(db, name).ok
  PROVE  RemoveObject(db, name) = Done(RemoveObject(db, name).db)
BY DEF RemoveObject, RemoveColumn, RemoveTable, Done, Fail

LEMMA RedoRemoveObjectIs ==
  ASSUME NEW d, NEW db, NEW op, op.action = "remove_object", Placed(db, op)
  PROVE  Redo(db, op.action, CustomWrite(d, op)) = Done(Perform(d, db, op))
<1>1. PICK out : out = <<d, op.name>>
  OBVIOUS
<1>2. out[2] = op.name
  BY <1>1
<1>3. CustomWrite(d, op) = Common(d) \o Text(op.name)
  BY DEF CustomWrite, RemoveObjectWrite
<1>4. Redo(db, op.action, CustomWrite(d, op)) = RedoRead(db, Reading(<<>>, out), RedoRemoveObject)
  BY <1>1, <1>3, TextsAreRead DEF Redo, RemoveObjectRead
<1>5. RedoRead(db, Reading(<<>>, out), RedoRemoveObject) = RemoveObject(db, op.name)
  BY <1>2, ReadingOk, OutIs DEF RedoRead, RedoRemoveObject
<1>6. RemoveObject(db, op.name).ok
  BY DEF Placed
<1>7. Perform(d, db, op) = RemoveObject(db, op.name).db
  BY DEF Perform
<1> QED
  BY <1>4, <1>5, <1>6, <1>7, RemoveObjectEnds

LEMMA RedoRegisterPluginIs ==
  ASSUME NEW d, NEW db, NEW op, op.action = "register_plugin"
  PROVE  Redo(db, op.action, CustomWrite(d, op)) = Done(Perform(d, db, op))
<1>1. PICK out : out = <<d, op.name>>
  OBVIOUS
<1>2. out[2] = op.name
  BY <1>1
<1>3. CustomWrite(d, op) = Common(d) \o Text(op.name)
  BY DEF CustomWrite, RegisterPluginWrite
<1>4. Redo(db, op.action, CustomWrite(d, op)) = RedoRead(db, Reading(<<>>, out), RedoRegisterPlugin)
  BY <1>1, <1>3, TextsAreRead DEF Redo, RegisterPluginRead
<1>5. RedoRead(db, Reading(<<>>, out), RedoRegisterPlugin) = RegisterPlugin(db, op.name)
  BY <1>2, ReadingOk, OutIs DEF RedoRead, RedoRegisterPlugin
<1>7. Perform(d, db, op) = RegisterPlugin(db, op.name).db
  BY DEF Perform
<1>8. PICK more : RegisterPlugin(db, op.name) = Done(more)
  BY DEF RegisterPlugin
<1> QED
  BY <1>4, <1>5, <1>7, <1>8 DEF Done

\* The row of a tuple whose columns are there.
LEMMA TupleIsInserted ==
  ASSUME NEW db, NEW table, NEW tuple, FormedTuple(tuple), PlacedTuple(db, table, tuple)
  PROVE  RedoInsertTuple(db, table, <<KeyCol(tuple.key)>> \o Values(tuple.cols))
           = Done(AddRow(db, table, tuple.key, Values(tuple.cols)))
<1>1. PICK cols, vs, n : cols = tuple.cols /\ vs = Values(cols) /\ n = Len(cols)
  OBVIOUS
<1>2. /\ Sequence(cols) /\ n \in Nat /\ DOMAIN cols = 1..n /\ Sequence(vs) /\ Len(vs) = n
      /\ \A i \in 1..n : vs[i] = ColOf(cols[i])
  BY <1>1, ValuesAre DEF FormedTuple
<1>3. DOMAIN vs = 1..n
  BY <1>1, <1>2 DEF Values
<1>4. \A i \in 1..n : HasColumn(db, table, vs[i].name)
  <2>1. ASSUME NEW i \in 1..n PROVE HasColumn(db, table, vs[i].name)
    <3>1. vs[i].name = cols[i].name
      BY <1>2 DEF ColOf
    <3>2. HasColumn(db, table, cols[i].name)
      BY <1>1, <1>2 DEF PlacedTuple
    <3> QED
      BY <3>1, <3>2
  <2> QED
    BY <2>1
<1>5. InsertRowInto(db, table, tuple.key, vs) = Done(AddRow(db, table, tuple.key, vs))
  BY <1>3, <1>4 DEF InsertRowInto
<1>6. PICK kc : kc = KeyCol(tuple.key)
  OBVIOUS
<1>7. kc.v[1] = tuple.key
  BY <1>6 DEF KeyCol
<1>8. PICK all : all = <<kc>> \o vs
  OBVIOUS
<1>9. Tail(all) = vs /\ all[1] = kc
  <2>1. all # <<>> /\ Head(all) = kc /\ Tail(all) = vs /\ Sequence(all)
    BY <1>2, <1>8, ConsSequence
  <2>2. Head(all) = all[1]
    BY <2>1, HeadTail
  <2> QED
    BY <2>1, <2>2
<1> QED
  BY <1>1, <1>5, <1>6, <1>7, <1>8, <1>9 DEF RedoInsertTuple

LEMMA HeadIsRead ==
  ASSUME NEW d, NEW table, NEW t, Sequence(t)
  PROVE  InsertHead((Common(d) \o Text(table)) \o t) = Reading(t, <<d, table>>)
<1>1. (Common(d) \o Text(table)) \o t = (Field("common", d) \o Field("text", table)) \o t
  BY CommonIsField, FieldIs
<1> QED
  BY <1>1, ReadTwo DEF InsertHead

LEMMA RedoInsertIs ==
  ASSUME NEW d, NEW db, NEW op, op.action = "insert", Placed(db, op),
         FormedTuple(op.tuple), op.tuple.announced = Len(op.tuple.cols) + 1
  PROVE  Redo(db, op.action, CustomWrite(d, op)) = Done(Perform(d, db, op))
<1>1. PICK tw, z, cells, o, out : /\ tw = TupleWrite(op.tuple) /\ z = <<>> /\ o = <<d, op.table>>
                                  /\ cells = (Common(d) \o Text(op.table)) \o tw
                                  /\ out = <<KeyCol(op.tuple.key)>> \o Values(op.tuple.cols)
  OBVIOUS
<1>2. Sequence(z)
  BY <1>1, EmptySequence
<1>3. Sequence(tw) /\ TakeTuple(Reading(tw \o z, o)) = Reading(z, out)
  BY <1>1, <1>2, TupleIsRead
<1>4. tw \o z = tw
  BY <1>1, <1>3, EmptyConcat
<1>5. InsertHead(cells) = Reading(tw, o)
  BY <1>1, <1>3, HeadIsRead
<1>6. o[2] = op.table
  BY <1>1
<1>7. AtEnd(TakeTuple(InsertHead(cells))) = Reading(<<>>, out)
  BY <1>1, <1>3, <1>4, <1>5, AtEndIs
<1>8. CustomWrite(d, op) = cells
  BY <1>1 DEF CustomWrite, InsertWrite
<1>9. PlacedTuple(db, op.table, op.tuple) /\ HasTable(db, op.table)
  BY DEF Placed, PlacedTuple
<1>10. RedoInsert(db, cells) = RedoInsertTuple(db, op.table, out)
  BY <1>5, <1>6, <1>7, <1>9, ReadingOk, OutIs DEF RedoInsert
<1>11. RedoInsert(db, cells) = Done(AddRow(db, op.table, op.tuple.key, Values(op.tuple.cols)))
  BY <1>1, <1>9, <1>10, TupleIsInserted
<1>12. Redo(db, op.action, CustomWrite(d, op)) = RedoInsert(db, cells)
  BY <1>8 DEF Redo
<1>13. Perform(d, db, op) = AddRow(db, op.table, op.tuple.key, Values(op.tuple.cols))
  BY DEF Perform
<1> QED
  BY <1>11, <1>12, <1>13

-----------------------------------------------------------------------------
(* The form of a database, which every operation keeps.                    *)

FormedDB(db) ==
  /\ {"plugins", "tables"} \subseteq DOMAIN db
  /\ \A t \in DOMAIN db.tables : {"cols", "rows"} \subseteq DOMAIN db.tables[t]

LEMMA OtherTables ==
  ASSUME NEW db, FormedDB(db), NEW tables,
         \A t \in DOMAIN tables : {"cols", "rows"} \subseteq DOMAIN tables[t]
  PROVE  FormedDB([db EXCEPT !.tables = tables]) /\ [db EXCEPT !.tables = tables].tables = tables
BY DEF FormedDB

\* A table of a database, and the columns of the tables, after a row was added.
LEMMA AddRowKeeps ==
  ASSUME NEW db, FormedDB(db), NEW t, NEW key, NEW cols
  PROVE  /\ FormedDB(AddRow(db, t, key, cols))
         /\ \A u : HasTable(AddRow(db, t, key, cols), u) <=> HasTable(db, u)
         /\ \A u, c : HasColumn(AddRow(db, t, key, cols), u, c) <=> HasColumn(db, u, c)
<1>1. PICK rows : rows = With(db.tables[t].rows, key, RowOf(db.tables[t].rows, key, cols))
  OBVIOUS
<1>2. PICK tables : tables = [db.tables EXCEPT ![t] = [@ EXCEPT !.rows = rows]]
  OBVIOUS
<1>3. AddRow(db, t, key, cols) = [db EXCEPT !.tables = tables]
  BY <1>1, <1>2 DEF AddRow
<1>4. DOMAIN tables = DOMAIN db.tables
  BY <1>2
<1>5. ASSUME NEW u \in DOMAIN tables
      PROVE  {"cols", "rows"} \subseteq DOMAIN tables[u] /\ tables[u].cols = db.tables[u].cols
  <2>1. {"cols", "rows"} \subseteq DOMAIN db.tables[u]
    BY <1>4 DEF FormedDB
  <2>2. CASE u = t
    <3>1. tables[u] = [db.tables[u] EXCEPT !.rows = rows]
      BY <1>2, <1>4, <2>2
    <3> QED
      BY <2>1, <3>1
  <2>3. CASE u # t
    BY <1>2, <1>4, <2>1, <2>3
  <2> QED
    BY <2>2, <2>3
<1>6. FormedDB(AddRow(db, t, key, cols)) /\ AddRow(db, t, key, cols).tables = tables
  BY <1>3, <1>5, OtherTables
<1> QED
  BY <1>4, <1>5, <1>6 DEF HasTable, HasColumn

-----------------------------------------------------------------------------
(* Several tuples in one record.                                           *)

LEMMA TupleHasCells ==
  ASSUME NEW tuple, FormedTuple(tuple), tuple.announced = Len(tuple.cols) + 1
  PROVE  TupleWrite(tuple) # <<>>
<1>1. PICK z, tw : z = <<>> /\ tw = TupleWrite(tuple)
  OBVIOUS
<1>2. Sequence(z)
  BY <1>1, EmptySequence
<1>3. PICK x : Sequence(tw) /\ TakeTuple(Reading(tw \o z, z)) = Reading(z, x)
  BY <1>1, <1>2, TupleIsRead
<1>4. tw \o z = tw
  BY <1>1, <1>3, EmptyConcat
<1>5. TakeTuple(Reading(<<>>, z)).ok = FALSE
  <2>1. [Reading(<<>>, z) EXCEPT !.out = <<>>] = Reading(<<>>, <<>>)
    BY OtherOut
  <2>2. Take(Reading(<<>>, <<>>), "count").ok = FALSE
    BY EmptySequence, TakeFails
  <2> QED
    BY <2>1, <2>2 DEF TakeTuple, TakeCounted
<1> QED
  BY <1>1, <1>3, <1>4, <1>5, ReadingOk

TupleOut(tuple) == <<KeyCol(tuple.key)>> \o Values(tuple.cols)
Inserting(table, raw, db) == [raw |-> raw, table |-> table, result |-> Done(db)]

LEMMA RedoTupleIs ==
  ASSUME NEW table, NEW db, NEW tuple, FormedTuple(tuple), tuple.announced = Len(tuple.cols) + 1,
         PlacedTuple(db, table, tuple), NEW t, NEW o, Sequence(t), NEW cell
  PROVE  RedoTuple(Inserting(table, Reading(TupleWrite(tuple) \o t, o), db), cell)
           = Inserting(table, Reading(t, TupleOut(tuple)), AddRow(db, table, tuple.key, Values(tuple.cols)))
<1>1. PICK tw, cells, p, row :
        /\ tw = TupleWrite(tuple) /\ cells = tw \o t
        /\ p = <<KeyCol(tuple.key)>> \o Values(tuple.cols)
        /\ row = AddRow(db, table, tuple.key, Values(tuple.cols))
  OBVIOUS
<1>2. Sequence(tw) /\ TakeTuple(Reading(cells, o)) = Reading(t, p)
  BY <1>1, TupleIsRead
<1>3. cells # <<>>
  <2>1. tw # <<>>
    BY <1>1, TupleHasCells
  <2>2. Len(tw) \in Nat /\ Len(t) \in Nat /\ Len(tw \o t) = Len(tw) + Len(t)
    BY <1>2, ConcatElements
  <2>3. Len(tw) >= 1
    BY <1>2, <2>1, HeadTail
  <2>4. Len(cells) # 0
    BY <1>1, <2>2, <2>3
  <2>5. Len(<<>>) = 0
    OBVIOUS
  <2> QED
    BY <2>4, <2>5
<1>4. PICK state : state = Inserting(table, Reading(cells, o), db)
  OBVIOUS
<1>5. /\ state.raw = Reading(cells, o) /\ state.table = table
      /\ state.result = Done(db) /\ state.result.db = db /\ state.result.ok
      /\ state.raw.rest = cells
  <2>1. state.raw = Reading(cells, o) /\ state.table = table /\ state.result = Done(db)
    BY <1>4 DEF Inserting
  <2>2. Done(db).ok /\ Done(db).db = db
    BY DEF Done
  <2> QED
    BY <2>1, <2>2, OutIs
<1>6. Reading(t, p).ok /\ Reading(t, p).out = p
  BY ReadingOk, OutIs
<1>7. RedoInsertTuple(db, table, p) = Done(row)
  BY <1>1, TupleIsInserted
<1>8. RedoTuple(state, cell) = [state EXCEPT !.raw = Reading(t, p), !.result = Done(row)]
  BY <1>2, <1>3, <1>5, <1>6, <1>7 DEF RedoTuple
<1>9. PICK a, b, c, e : a = Reading(cells, o) /\ b = Done(db) /\ c = Reading(t, p) /\ e = Done(row)
  OBVIOUS
<1>10. state = [raw |-> a, table |-> table, result |-> b]
  BY <1>4, <1>9 DEF Inserting
<1>11. [state EXCEPT !.raw = c, !.result = e] = [raw |-> c, table |-> table, result |-> e]
  <2>1. [[raw |-> a, table |-> table, result |-> b] EXCEPT !.raw = c] = [raw |-> c, table |-> table, result |-> b]
    OBVIOUS
  <2>2. [[raw |-> c, table |-> table, result |-> b] EXCEPT !.result = e] = [raw |-> c, table |-> table, result |-> e]
    OBVIOUS
  <2> QED
    BY <1>10, <2>1, <2>2, Zenon
<1>12. RedoTuple(state, cell) = Inserting(table, Reading(t, p), row)
  BY <1>8, <1>9, <1>11 DEF Inserting
<1> QED
  BY <1>1, <1>4, <1>12 DEF TupleOut

InsertTupleFold == INSTANCE LeftFolds WITH op <- InsertTuple, Largest <- Max

LEMMA InsertTupleRuns ==
  ASSUME NEW base, NEW n \in Nat, NEW seq, DOMAIN seq = 1..n
  PROVE  \E run : /\ run[0] = base
                  /\ \A i \in 1..n : run[i] = InsertTuple(run[i - 1], seq[i])
                  /\ run[n] = FoldLeft(InsertTuple, base, seq)
<1>1. InsertTupleFold!LargestIs
  BY LargestOf DEF InsertTupleFold!LargestIs
<1>2. FoldLeft(InsertTuple, base, seq) = InsertTupleFold!Folded(base, seq)
  BY DEF InsertTupleFold!Folded, FoldLeft, MapThenFoldSet
<1>3. \E run : InsertTupleFold!Runs(run, base, seq, n) /\ run[n] = InsertTupleFold!Folded(base, seq)
  BY <1>1, InsertTupleFold!FoldLeftRuns
<1> QED
  BY <1>2, <1>3 DEF InsertTupleFold!Runs

LEMMA InsertTupleIs ==
  ASSUME NEW table, NEW db, NEW tuple
  PROVE  InsertTuple([table |-> table, db |-> db], tuple)
           = [table |-> table, db |-> AddRow(db, table, tuple.key, Values(tuple.cols))]
BY DEF InsertTuple

\* What follows the first i of n parts that have a cell each has n - i cells.
LEMMA RestsAreLong ==
  ASSUME NEW n \in Nat, NEW ss, Parts(ss, n), \A i \in 1..n : ss[i] # <<>>,
         NEW rest, Rests(rest, ss, n)
  PROVE  \A i \in 0..n : Len(rest[i]) \in Nat /\ Len(rest[i]) >= n - i
<1> DEFINE S == {i \in 0..n : Len(rest[i]) \in Nat /\ Len(rest[i]) >= n - i}
<1>1. n \in S
  BY DEF Rests
<1>2. ASSUME NEW i \in 1..n, i \in S PROVE i - 1 \in S
  <2>1. PICK a, b : a = ss[i] /\ b = rest[i]
    OBVIOUS
  <2>2. Sequence(a) /\ Sequence(b) /\ rest[i - 1] = a \o b /\ a # <<>>
    <3>1. i \in 0..n
      OBVIOUS
    <3> QED
      BY <2>1, <3>1 DEF Rests, Parts
  <2>3. Len(a) \in Nat /\ Len(b) \in Nat /\ Len(a \o b) = Len(a) + Len(b)
    BY <2>2, ConcatElements
  <2>4. Len(a) >= 1
    BY <2>2, HeadTail
  <2>5. Len(b) >= n - i
    BY <1>2, <2>1
  <2>6. PICK x, y : x = Len(a) /\ y = Len(b)
    OBVIOUS
  <2>7. x + y \in Nat /\ x + y >= n - (i - 1) /\ i - 1 \in 0..n
    BY <2>3, <2>4, <2>5, <2>6
  <2> QED
    BY <2>2, <2>3, <2>6, <2>7
<1> HIDE DEF S
<1>3. \A i \in 0..n : i \in S
  BY <1>1, <1>2, Downwards
<1> QED
  BY <1>3 DEF S

LEMMA RedoTupleStays ==
  ASSUME NEW table, NEW o, NEW db, NEW cell
  PROVE  RedoTuple(Inserting(table, Reading(<<>>, o), db), cell) = Inserting(table, Reading(<<>>, o), db)
<1>1. PICK state : state = Inserting(table, Reading(<<>>, o), db)
  OBVIOUS
<1>2. state.raw.rest = <<>>
  BY <1>1 DEF Inserting, Reading
<1> QED
  BY <1>1, <1>2 DEF RedoTuple

FormedTuples(tuples) == Sequence(tuples) /\ \A i \in 1..Len(tuples) : FormedTuple(tuples[i])
Full(tuple) == tuple.announced = Len(tuple.cols) + 1

\* The two folds go together: as long as there are tuples, they insert the
\* same one into the same database; then nothing happens any more.
LEMMA TuplesAreInserted ==
  ASSUME NEW table, NEW db, FormedDB(db), NEW tuples, FormedTuples(tuples),
         \A i \in 1..Len(tuples) : Full(tuples[i]) /\ PlacedTuple(db, table, tuples[i]),
         NEW o
  PROVE  /\ Sequence(Many(TupleWrite, tuples))
         /\ FoldLeft(RedoTuple, Inserting(table, Reading(Many(TupleWrite, tuples), o), db), Many(TupleWrite, tuples)).result
              = Done(FoldLeft(InsertTuple, [table |-> table, db |-> db], tuples).db)
         /\ FormedDB(FoldLeft(InsertTuple, [table |-> table, db |-> db], tuples).db)
<1>1. PICK n, m : n = Len(tuples) /\ m = Many(TupleWrite, tuples)
  OBVIOUS
<1>2. n \in Nat /\ DOMAIN tuples = 1..n
  <2>1. PICK R : tuples \in Seq(R)
    BY DEF FormedTuples, Sequence
  <2> QED
    BY <1>1, <2>1, LenProperties
<1>3. \A i \in 1..n : FormedTuple(tuples[i]) /\ Full(tuples[i]) /\ PlacedTuple(db, table, tuples[i])
  BY <1>1 DEF FormedTuples
<1> DEFINE ss == [i \in 1..n |-> TupleWrite(tuples[i])]
<1>4. \A i \in 1..n : ss[i] = TupleWrite(tuples[i]) /\ Sequence(ss[i]) /\ ss[i] # <<>>
  <2>1. ASSUME NEW i \in 1..n PROVE Sequence(TupleWrite(tuples[i])) /\ TupleWrite(tuples[i]) # <<>>
    <3>1. PICK tuple : tuple = tuples[i]
      OBVIOUS
    <3>2. FormedTuple(tuple) /\ tuple.announced = Len(tuple.cols) + 1
      BY <1>3, <3>1 DEF Full
    <3> QED
      BY <3>1, <3>2, TupleIsRead, TupleHasCells, EmptySequence
  <2> QED
    BY <2>1
<1>5. Parts(ss, n)
  <2>1. ss = [i \in 1..n |-> ss[i]]
    OBVIOUS
  <2> HIDE DEF ss
  <2> QED
    BY <1>4, <2>1 DEF Parts
<1>6. m = FlattenSeq(ss)
  BY <1>1, <1>2 DEF Many
<1> HIDE DEF ss
<1>7. PICK rest : Rests(rest, ss, n)
  BY <1>2, <1>5, FlatRests
<1>8. Sequence(m) /\ rest[0] = m /\ rest[n] = <<>>
  BY <1>2, <1>6, <1>7 DEF Rests
<1>9. PICK l : l = Len(m)
  OBVIOUS
<1>10. l \in Nat /\ DOMAIN m = 1..l /\ n <= l
  <2>1. PICK R : m \in Seq(R)
    BY <1>8 DEF Sequence
  <2>2. Len(rest[0]) >= n - 0
    BY <1>2, <1>4, <1>5, <1>7, RestsAreLong
  <2> QED
    BY <1>2, <1>8, <1>9, <2>1, <2>2, LenProperties
<1>11. PICK start : start = Inserting(table, Reading(m, o), db)
  OBVIOUS
<1>12. PICK run : /\ run[0] = start
                  /\ \A i \in 1..l : run[i] = RedoTuple(run[i - 1], m[i])
                  /\ run[l] = FoldLeft(RedoTuple, start, m)
  BY <1>10, RedoTupleRuns
<1>13. PICK begin : begin = [table |-> table, db |-> db]
  OBVIOUS
<1>14. PICK ins : /\ ins[0] = begin
                  /\ \A i \in 1..n : ins[i] = InsertTuple(ins[i - 1], tuples[i])
                  /\ ins[n] = FoldLeft(InsertTuple, begin, tuples)
  BY <1>2, InsertTupleRuns
<1> DEFINE Same(x) == /\ FormedDB(x)
                      /\ \A u : HasTable(x, u) <=> HasTable(db, u)
                      /\ \A u, c : HasColumn(x, u, c) <=> HasColumn(db, u, c)
           At(i, x, p) == /\ Same(x)
                          /\ run[i] = Inserting(table, Reading(rest[i], p), x)
                          /\ ins[i] = [table |-> table, db |-> x]
           S == {i \in 0..n : \E x, p : At(i, x, p)}
<1>15. 0 \in S
  <2>1. Same(db)
    OBVIOUS
  <2>2. At(0, db, o)
    BY <1>8, <1>11, <1>12, <1>13, <1>14, <2>1
  <2> QED
    BY <1>2, <2>2
<1>16. ASSUME NEW i \in 0..n - 1, i \in S
       PROVE  i + 1 \in S
  <2>1. PICK x, p : At(i, x, p)
    BY <1>16
  <2>2. i + 1 \in 1..n /\ (i + 1) - 1 = i /\ i + 1 \in 1..l /\ i + 1 \in 0..n
    BY <1>2, <1>10
  <2>3. PICK tuple, t : tuple = tuples[i + 1] /\ t = rest[i + 1]
    OBVIOUS
  <2>4. FormedTuple(tuple) /\ tuple.announced = Len(tuple.cols) + 1 /\ PlacedTuple(db, table, tuple)
    BY <1>3, <2>2, <2>3 DEF Full
  <2>5. PlacedTuple(x, table, tuple)
    BY <2>1, <2>4 DEF PlacedTuple
  <2>6. Sequence(t) /\ rest[i] = TupleWrite(tuple) \o t
    BY <1>4, <1>7, <2>2, <2>3 DEF Rests
  <2>7. PICK y : y = AddRow(x, table, tuple.key, Values(tuple.cols))
    OBVIOUS
  <2>8. RedoTuple(Inserting(table, Reading(TupleWrite(tuple) \o t, p), x), m[i + 1])
          = Inserting(table, Reading(t, TupleOut(tuple)), AddRow(x, table, tuple.key, Values(tuple.cols)))
    <3>1. Sequence(t)
      BY <2>6
    <3> QED
      BY <2>4, <2>5, <3>1, RedoTupleIs
  <2>9. PICK q : run[i + 1] = Inserting(table, Reading(rest[i + 1], q), y)
    BY <1>12, <2>1, <2>2, <2>3, <2>6, <2>7, <2>8
  <2>10. ins[i + 1] = [table |-> table, db |-> y]
    BY <1>14, <2>1, <2>2, <2>3, <2>7, InsertTupleIs
  <2>11. Same(y)
    BY <2>1, <2>7, AddRowKeeps
  <2>12. At(i + 1, y, q)
    BY <2>9, <2>10, <2>11
  <2> HIDE DEF At
  <2> QED
    BY <2>2, <2>12
<1>17. n \in S
  <2>1. n \in 0..n
    BY <1>2
  <2> HIDE DEF S
  <2> QED
    BY <1>2, <1>15, <1>16, <2>1, Upwards
<1>18. PICK x, p : At(n, x, p)
  BY <1>17
<1> DEFINE T == {k \in 0..l - n : run[n + k] = Inserting(table, Reading(<<>>, p), x)}
<1>19. 0 \in T
  BY <1>2, <1>8, <1>10, <1>18
<1>20. ASSUME NEW k \in 0..(l - n) - 1, k \in T
       PROVE  k + 1 \in T
  <2>1. n + (k + 1) \in 1..l /\ (n + (k + 1)) - 1 = n + k /\ k + 1 \in 0..l - n
    BY <1>2, <1>10
  <2>2. run[n + (k + 1)] = RedoTuple(run[n + k], m[n + (k + 1)])
    BY <1>12, <2>1
  <2>3. run[n + k] = Inserting(table, Reading(<<>>, p), x)
    BY <1>20
  <2>4. RedoTuple(run[n + k], m[n + (k + 1)]) = Inserting(table, Reading(<<>>, p), x)
    BY <2>3, RedoTupleStays
  <2> QED
    BY <2>1, <2>2, <2>4
<1>21. run[l] = Inserting(table, Reading(<<>>, p), x)
  <2>1. l - n \in Nat /\ l - n \in 0..l - n /\ n + (l - n) = l
    BY <1>2, <1>10
  <2> HIDE DEF T
  <2>2. l - n \in T
    BY <1>19, <1>20, <2>1, Upwards
  <2> QED
    BY <2>1, <2>2 DEF T
<1>22. FoldLeft(RedoTuple, start, m).result = Done(x)
  BY <1>12, <1>21 DEF Inserting
<1>23. FoldLeft(InsertTuple, begin, tuples).db = x /\ FormedDB(x)
  BY <1>14, <1>18
<1> QED
  BY <1>1, <1>8, <1>11, <1>13, <1>22, <1>23

LEMMA RedoBulkInsertIs ==
  ASSUME NEW d, NEW db, FormedDB(db), NEW op, op.action = "bulk_insert", Placed(db, op),
         FormedTuples(op.tuples), \A i \in 1..Len(op.tuples) : Full(op.tuples[i])
  PROVE  Redo(db, op.action, CustomWrite(d, op)) = Done(Performed(d, db, op))
<1>1. PICK m, o, table, tuples, cells :
        /\ table = op.table /\ tuples = op.tuples /\ m = Many(TupleWrite, tuples) /\ o = <<d, table>>
        /\ cells = (Common(d) \o Text(table)) \o m
  OBVIOUS
<1>2. HasTable(db, table) /\ \A i \in 1..Len(tuples) : Full(tuples[i]) /\ PlacedTuple(db, table, tuples[i])
  <2>1. DOMAIN tuples = 1..Len(tuples)
    <3>1. PICK R : tuples \in Seq(R)
      BY <1>1 DEF FormedTuples, Sequence
    <3> QED
      BY <3>1, LenProperties
  <2> QED
    BY <1>1, <2>1 DEF Placed
<1>3. /\ Sequence(m)
      /\ FoldLeft(RedoTuple, Inserting(table, Reading(m, o), db), m).result
           = Done(FoldLeft(InsertTuple, [table |-> table, db |-> db], tuples).db)
  <2>1. FormedTuples(tuples)
    BY <1>1
  <2> QED
    BY <1>1, <1>2, <2>1, TuplesAreInserted
<1>4. InsertHead(cells) = Reading(m, o)
  BY <1>1, <1>3, HeadIsRead
<1>5. o[2] = table
  BY <1>1
<1>6. RedoBulkInsert(db, cells) = FoldLeft(RedoTuple, Inserting(table, Reading(m, o), db), m).result
  BY <1>2, <1>4, <1>5, OutIs, ReadingOk DEF RedoBulkInsert, Inserting
<1>7. CustomWrite(d, op) = cells
  BY <1>1 DEF CustomWrite, BulkInsertWrite
<1>8. Redo(db, op.action, CustomWrite(d, op)) = RedoBulkInsert(db, cells)
  BY <1>7 DEF Redo
<1>9. Performed(d, db, op) = FoldLeft(InsertTuple, [table |-> table, db |-> db], tuples).db
  BY <1>1 DEF Performed
<1> QED
  BY <1>3, <1>6, <1>8, <1>9

-----------------------------------------------------------------------------
(* Applying an object of the generic WAL.                                  *)

LEMMA EntryIs ==
  ASSUME NEW key, NEW value
  PROVE  Entry(key, value).key = key /\ Entry(key, value).value = value
BY DEF Entry

LEMMA ObjectIs ==
  ASSUME NEW size, NEW kvs
  PROVE  Object(size, kvs).count = size /\ Object(size, kvs).kvs = kvs
BY DEF Object

LEMMA ValueOfIs ==
  ASSUME NEW object, NEW i \in DOMAIN object.kvs, NEW key, NEW value,
         object.kvs[i] = Entry(key, value),
         \A j \in DOMAIN object.kvs : object.kvs[j].key = key => j = i
  PROVE  ValueOf(object, key) = value /\ HasEntry(object, key)
<1>1. object.kvs[i].key = key /\ object.kvs[i].value = value
  BY EntryIs
<1>2. (CHOOSE j \in DOMAIN object.kvs : object.kvs[j].key = key) = i
  BY <1>1
<1> QED
  BY <1>1, <1>2 DEF ValueOf, HasEntry

LEMMA TwoEntries ==
  ASSUME NEW size, NEW k1, NEW v1, NEW k2, NEW v2, k1 # k2,
         NEW object, object = Object(size, <<Entry(k1, v1), Entry(k2, v2)>>)
  PROVE  /\ HasEntry(object, k1) /\ ValueOf(object, k1) = v1 /\ ValueOf(object, k2) = v2
<1>1. PICK kvs : kvs = <<Entry(k1, v1), Entry(k2, v2)>>
  OBVIOUS
<1>2. /\ DOMAIN kvs = {1, 2}
      /\ kvs[1] = Entry(k1, v1) /\ kvs[2] = Entry(k2, v2)
      /\ kvs[1].key = k1 /\ kvs[2].key = k2
      /\ object.kvs = kvs
  BY <1>1, EntryIs, ObjectIs
<1>3. ValueOf(object, k1) = v1 /\ HasEntry(object, k1)
  BY <1>2, ValueOfIs
<1>4. ValueOf(object, k2) = v2
  BY <1>2, ValueOfIs
<1> QED
  BY <1>3, <1>4

LEMMA ThreeEntries ==
  ASSUME NEW size, NEW k1, NEW v1, NEW k2, NEW v2, NEW k3, NEW v3, k1 # k2, k1 # k3, k2 # k3,
         NEW object, object = Object(size, <<Entry(k1, v1), Entry(k2, v2), Entry(k3, v3)>>)
  PROVE  /\ HasEntry(object, k1) /\ ValueOf(object, k1) = v1
         /\ ValueOf(object, k2) = v2 /\ ValueOf(object, k3) = v3
<1>1. PICK kvs : kvs = <<Entry(k1, v1), Entry(k2, v2), Entry(k3, v3)>>
  OBVIOUS
<1>2. /\ DOMAIN kvs = {1, 2, 3}
      /\ kvs[1] = Entry(k1, v1) /\ kvs[2] = Entry(k2, v2) /\ kvs[3] = Entry(k3, v3)
      /\ kvs[1].key = k1 /\ kvs[2].key = k2 /\ kvs[3].key = k3
      /\ object.kvs = kvs
  BY <1>1, EntryIs, ObjectIs
<1>3. ValueOf(object, k1) = v1 /\ HasEntry(object, k1)
  BY <1>2, ValueOfIs
<1>4. ValueOf(object, k2) = v2
  BY <1>2, ValueOfIs
<1>5. ValueOf(object, k3) = v3
  BY <1>2, ValueOfIs
<1> QED
  BY <1>3, <1>4, <1>5

LEMMA CreateTableEntries ==
  ASSUME NEW op, op.action = "create_table", NEW object, object = GenericWrite(op)
  PROVE  /\ ValueOf(object, "_action") = "create_table" /\ HasEntry(object, "_action")
         /\ ValueOf(object, "name") = op.name /\ ValueOf(object, "type") = op.type
         /\ ValueOf(object, "token_filters") = op.modules
<1>1. PICK kvs :
        /\ kvs = <<Action(op), Entry("name", op.name), Entry("flags", 0), Entry("type", op.type),
                   Entry("tokenizer", None), Entry("normalizers", None), Entry("token_filters", op.modules)>>
  OBVIOUS
<1>2. object.kvs = kvs
  BY <1>1, ObjectIs DEF GenericWrite
<1>3. /\ DOMAIN kvs = 1..7
      /\ kvs[1] = Entry("_action", "create_table") /\ kvs[2] = Entry("name", op.name)
      /\ kvs[3] = Entry("flags", 0) /\ kvs[4] = Entry("type", op.type)
      /\ kvs[5] = Entry("tokenizer", None) /\ kvs[6] = Entry("normalizers", None)
      /\ kvs[7] = Entry("token_filters", op.modules)
  BY <1>1 DEF Action
<1>4. /\ kvs[1].key = "_action" /\ kvs[2].key = "name" /\ kvs[3].key = "flags" /\ kvs[4].key = "type"
      /\ kvs[5].key = "tokenizer" /\ kvs[6].key = "normalizers" /\ kvs[7].key = "token_filters"
  BY <1>3, EntryIs
<1>5. ASSUME NEW i \in 1..7, NEW value, kvs[i] = Entry(kvs[i].key, value)
      PROVE  ValueOf(object, kvs[i].key) = value /\ HasEntry(object, kvs[i].key)
  <2>1. \A j \in 1..7 : kvs[j].key = kvs[i].key => j = i
    <3>1. \A j \in 1..7 : j = 1 \/ j = 2 \/ j = 3 \/ j = 4 \/ j = 5 \/ j = 6 \/ j = 7
      OBVIOUS
    <3>2. "_action" # "name" /\ "_action" # "flags" /\ "_action" # "type" /\ "_action" # "tokenizer"
            /\ "_action" # "normalizers" /\ "_action" # "token_filters"
      OBVIOUS
    <3> QED
      BY <1>4, <3>1, <3>2
  <2>2. PICK key : key = kvs[i].key
    OBVIOUS
  <2> QED
    BY <1>2, <1>3, <1>5, <2>1, <2>2, ValueOfIs
<1> QED
  BY <1>3, <1>4, <1>5

LEMMA ApplyCreateTableIs ==
  ASSUME NEW d, d # NoDatabase, NEW db, NEW op, op.action = "create_table", Placed(db, op)
  PROVE  ApplyObject(d, db, GenericWrite(op)) = Done(Perform(d, db, op))
<1>1. PICK object : object = GenericWrite(op)
  OBVIOUS
<1>6. /\ ValueOf(object, "_action") = "create_table" /\ HasEntry(object, "_action")
      /\ ValueOf(object, "name") = op.name /\ ValueOf(object, "type") = op.type
      /\ ValueOf(object, "token_filters") = op.modules
  BY <1>1, CreateTableEntries
<1>7. /\ Known(db, op.type) /\ ~HasTable(db, op.name) /\ Modules(op.modules) \subseteq db.plugins
  BY DEF Placed
<1>8. ApplyObject(d, db, object) = ApplyCreateTable(d, db, object)
  BY <1>6 DEF ApplyObject
<1>9. ApplyCreateTable(d, db, object) = CreateTable(db, op.name, op.type, Modules(op.modules))
  BY <1>6, <1>7 DEF ApplyCreateTable, CreateTableRaw, HasDirectory
<1>10. Perform(d, db, op) = CreateTable(db, op.name, op.type, Modules(op.modules)).db
  BY DEF Perform, CreateTableRaw, HasDirectory
<1>11. PICK more : CreateTable(db, op.name, op.type, Modules(op.modules)) = Done(more)
  BY <1>7 DEF CreateTable
<1> QED
  BY <1>1, <1>8, <1>9, <1>10, <1>11, DoneDB

LEMMA CreateColumnEntries ==
  ASSUME NEW op, op.action = "create_column", NEW object, object = GenericWrite(op)
  PROVE  /\ ValueOf(object, "_action") = "create_column" /\ HasEntry(object, "_action")
         /\ ValueOf(object, "table") = op.table /\ ValueOf(object, "name") = op.name
         /\ ValueOf(object, "type") = op.type
<1>1. PICK kvs :
        /\ kvs = <<Action(op), Entry("table", op.table), Entry("name", op.name), Entry("flags", 0),
                   Entry("type", op.type)>>
  OBVIOUS
<1>2. object.kvs = kvs
  BY <1>1, ObjectIs DEF GenericWrite
<1>3. /\ DOMAIN kvs = 1..5
      /\ kvs[1] = Entry("_action", "create_column") /\ kvs[2] = Entry("table", op.table)
      /\ kvs[3] = Entry("name", op.name) /\ kvs[4] = Entry("flags", 0) /\ kvs[5] = Entry("type", op.type)
  BY <1>1 DEF Action
<1>4. /\ kvs[1].key = "_action" /\ kvs[2].key = "table" /\ kvs[3].key = "name" /\ kvs[4].key = "flags"
      /\ kvs[5].key = "type"
  BY <1>3, EntryIs
<1>5. ASSUME NEW i \in 1..5, NEW value, kvs[i] = Entry(kvs[i].key, value)
      PROVE  ValueOf(object, kvs[i].key) = value /\ HasEntry(object, kvs[i].key)
  <2>1. \A j \in 1..5 : kvs[j].key = kvs[i].key => j = i
    <3>1. \A j \in 1..5 : j = 1 \/ j = 2 \/ j = 3 \/ j = 4 \/ j = 5
      OBVIOUS
    <3> QED
      BY <1>4, <3>1
  <2>2. PICK key : key = kvs[i].key
    OBVIOUS
  <2> QED
    BY <1>2, <1>3, <1>5, <2>1, <2>2, ValueOfIs
<1> QED
  BY <1>3, <1>4, <1>5

LEMMA ApplyCreateColumnIs ==
  ASSUME NEW d, d # NoDatabase, NEW db, NEW op, op.action = "create_column", Placed(db, op)
  PROVE  ApplyObject(d, db, GenericWrite(op)) = Done(Perform(d, db, op))
<1>1. PICK object : object = GenericWrite(op)
  OBVIOUS
<1>6. /\ ValueOf(object, "_action") = "create_column" /\ HasEntry(object, "_action")
      /\ ValueOf(object, "table") = op.table /\ ValueOf(object, "name") = op.name
      /\ ValueOf(object, "type") = op.type
  BY <1>1, CreateColumnEntries
<1>7. HasTable(db, op.table) /\ Known(db, op.type) /\ ~HasColumn(db, op.table, op.name)
  BY DEF Placed
<1>8. ApplyObject(d, db, object) = ApplyCreateColumn(d, db, object)
  BY <1>6 DEF ApplyObject
<1>9. ApplyCreateColumn(d, db, object) = CreateColumn(db, op.table, op.name, op.type)
  BY <1>6, <1>7 DEF ApplyCreateColumn, CreateColumnRaw, HasDirectory
<1>10. Perform(d, db, op) = CreateColumn(db, op.table, op.name, op.type).db
  BY DEF Perform, CreateColumnRaw, HasDirectory
<1>11. PICK more : CreateColumn(db, op.table, op.name, op.type) = Done(more)
  BY <1>7 DEF CreateColumn
<1> QED
  BY <1>1, <1>8, <1>9, <1>10, <1>11, DoneDB

LEMMA ApplySetSourcesIs ==
  ASSUME NEW d, NEW db, NEW op, op.action = "set_sources", Placed(db, op),
         op.column # None, Sequence(op.sources), \A i \in 1..Len(op.sources) : op.sources[i] # None
  PROVE  ApplyObject(d, db, GenericWrite(op)) = Done(Perform(d, db, op))
<1>1. PICK object : object = GenericWrite(op)
  OBVIOUS
<1>2. object = Object(3, <<Entry("_action", "set_sources"), Entry("column", op.column), Entry("sources", op.sources)>>)
  BY <1>1 DEF GenericWrite, Action
<1>3. /\ HasEntry(object, "_action") /\ ValueOf(object, "_action") = "set_sources"
      /\ ValueOf(object, "column") = op.column /\ ValueOf(object, "sources") = op.sources
  BY <1>2, ThreeEntries
<1>4. \A tc \in {op.column} \cup ToSet(op.sources) : tc # None /\ HasColumn(db, tc[1], tc[2])
  <2>1. \A tc \in ToSet(op.sources) : tc # None
    BY ToSetIs
  <2> QED
    BY <2>1 DEF Placed
<1>5. ApplyObject(d, db, object) = ApplySetSources(db, object)
  BY <1>3 DEF ApplyObject
<1>6. ApplySetSources(db, object) = SetSources(db, op.column, ToSet(op.sources))
  BY <1>3, <1>4 DEF ApplySetSources
<1>7. Perform(d, db, op) = SetSources(db, op.column, ToSet(op.sources)).db
  BY DEF Perform
<1>8. PICK more : SetSources(db, op.column, ToSet(op.sources)) = Done(more)
  BY DEF SetSources
<1> QED
  BY <1>1, <1>5, <1>6, <1>7, <1>8, DoneDB

LEMMA ApplyRenameTableIs ==
  ASSUME NEW d, NEW db, NEW op, op.action = "rename_table", Placed(db, op)
  PROVE  ApplyObject(d, db, GenericWrite(op)) = Done(Perform(d, db, op))
<1>1. PICK object : object = GenericWrite(op)
  OBVIOUS
<1>2. object = Object(3, <<Entry("_action", "rename_table"), Entry("name", op.name), Entry("new_name", op.new)>>)
  BY <1>1 DEF GenericWrite, Action
<1>3. /\ HasEntry(object, "_action") /\ ValueOf(object, "_action") = "rename_table"
      /\ ValueOf(object, "name") = op.name /\ ValueOf(object, "new_name") = op.new
  BY <1>2, ThreeEntries
<1>4. ApplyObject(d, db, object) = ApplyRenameTable(db, object)
  BY <1>3 DEF ApplyObject
<1>5. ApplyRenameTable(db, object) = Done(RenameTable(db, op.name, op.new).db)
  BY <1>3 DEF ApplyRenameTable, Placed
<1> QED
  BY <1>1, <1>4, <1>5 DEF Perform

LEMMA ApplyDeleteIs ==
  ASSUME NEW d, NEW db, NEW op, op.action = "delete", Placed(db, op)
  PROVE  ApplyObject(d, db, GenericWrite(op)) = Done(Perform(d, db, op))
<1>1. PICK object : object = GenericWrite(op)
  OBVIOUS
<1>2. object = Object(3, <<Entry("_action", "delete"), Entry("table", op.table), Entry("key", op.key)>>)
  BY <1>1 DEF GenericWrite, Action
<1>3. /\ HasEntry(object, "_action") /\ ValueOf(object, "_action") = "delete"
      /\ ValueOf(object, "table") = op.table /\ ValueOf(object, "key") = op.key
  BY <1>2, ThreeEntries
<1>4. ApplyObject(d, db, object) = ApplyDelete(db, object)
  BY <1>3 DEF ApplyObject
<1>5. ApplyDelete(db, object) = DeleteRow(db, op.table, op.key)
  BY <1>3 DEF ApplyDelete, Placed
<1>6. Perform(d, db, op) = DeleteRow(db, op.table, op.key).db
  BY DEF Perform
<1>7. PICK more : DeleteRow(db, op.table, op.key) = Done(more)
  BY DEF DeleteRow
<1> QED
  BY <1>1, <1>4, <1>5, <1>6, <1>7, DoneDB

LEMMA ApplyRemoveObjectIs ==
  ASSUME NEW d, NEW db, NEW op, op.action = "remove_object", Placed(db, op)
  PROVE  ApplyObject(d, db, GenericWrite(op)) = Done(Perform(d, db, op))
<1>1. PICK object : object = GenericWrite(op)
  OBVIOUS
<1>2. object = Object(2, <<Entry("_action", "remove_object"), Entry("name", op.name)>>)
  BY <1>1 DEF GenericWrite, Action
<1>3. /\ HasEntry(object, "_action") /\ ValueOf(object, "_action") = "remove_object"
      /\ ValueOf(object, "name") = op.name
  BY <1>2, TwoEntries
<1>4. ApplyObject(d, db, object) = RemoveObject(db, op.name)
  BY <1>3 DEF ApplyObject
<1>5. RemoveObject(db, op.name).ok
  BY DEF Placed
<1> QED
  BY <1>1, <1>4, <1>5, RemoveObjectEnds DEF Perform

LEMMA ApplyRegisterPluginIs ==
  ASSUME NEW d, NEW db, NEW op, op.action = "register_plugin"
  PROVE  ApplyObject(d, db, GenericWrite(op)) = Done(Perform(d, db, op))
<1>1. PICK object : object = GenericWrite(op)
  OBVIOUS
<1>2. object = Object(2, <<Entry("_action", "register_plugin"), Entry("name", op.name)>>)
  BY <1>1 DEF GenericWrite, Action
<1>3. /\ HasEntry(object, "_action") /\ ValueOf(object, "_action") = "register_plugin"
      /\ ValueOf(object, "name") = op.name
  BY <1>2, TwoEntries
<1>4. ApplyObject(d, db, object) = RegisterPlugin(db, op.name)
  BY <1>3 DEF ApplyObject
<1>5. PICK more : RegisterPlugin(db, op.name) = Done(more)
  BY DEF RegisterPlugin
<1> QED
  BY <1>1, <1>4, <1>5 DEF Perform, Done

\* The table and the key come first, the columns after them.
LEMMA InsertEntries ==
  ASSUME NEW op, op.action = "insert", FormedTuple(op.tuple), NEW object, object = GenericWrite(op)
  PROVE  /\ ~HasEntry(object, "_action")
         /\ ValueOf(object, "_table") = op.table /\ ValueOf(object, "_key") = op.tuple.key
         /\ [i \in 1 .. Len(object.kvs) - 2 |-> [name |-> object.kvs[i + 2].key, v |-> object.kvs[i + 2].value]]
              = Values(op.tuple.cols)
         /\ Full(op.tuple) => Missing(object) = 0
<1>1. PICK cols, vs, n, key, table :
        /\ cols = op.tuple.cols /\ vs = Values(cols) /\ n = Len(cols)
        /\ key = op.tuple.key /\ table = op.table
  OBVIOUS
<1>2. /\ Sequence(cols) /\ n \in Nat /\ DOMAIN cols = 1..n /\ Sequence(vs) /\ Len(vs) = n
      /\ \A i \in 1..n : vs[i] = ColOf(cols[i])
  BY <1>1, ValuesAre DEF FormedTuple
<1>3. PICK h, t, kvs : /\ h = <<Entry("_table", table), Entry("_key", key)>>
                       /\ t = [i \in 1..n |-> Entry(cols[i].name, cols[i].value.v)]
                       /\ kvs = h \o t
  OBVIOUS
<1>4. object.kvs = kvs /\ object.count = op.tuple.announced + 1
  <2>1. object = Object(op.tuple.announced + 1, kvs)
    BY <1>1, <1>2, <1>3 DEF GenericWrite, InsertObject
  <2> QED
    BY <2>1, ObjectIs
<1>5. /\ Len(kvs) = n + 2 /\ DOMAIN kvs = 1..n + 2
      /\ kvs[1] = Entry("_table", table) /\ kvs[2] = Entry("_key", key)
      /\ \A i \in 1..n : kvs[i + 2] = Entry(cols[i].name, cols[i].value.v)
  <2>1. Sequence(h) /\ Len(h) = 2 /\ h[1] = Entry("_table", table) /\ h[2] = Entry("_key", key)
    BY <1>3, Out2
  <2>2. Sequence(t) /\ Len(t) = n
    <3>1. t = [i \in 1..n |-> t[i]]
      BY <1>3
    <3> QED
      BY <1>2, <3>1, FunctionSequence
  <2>3. /\ Len(kvs) = 2 + n
        /\ \A i \in 1..2 : kvs[i] = h[i]
        /\ \A i \in 1..n : kvs[2 + i] = t[i]
    <3>1. Sequence(h) /\ Sequence(t)
      BY <2>1, <2>2
    <3>2. /\ Len(h \o t) = Len(h) + Len(t)
          /\ \A i \in 1..Len(h) : (h \o t)[i] = h[i]
          /\ \A i \in 1..Len(t) : (h \o t)[Len(h) + i] = t[i]
      BY <3>1, ConcatElements
    <3> QED
      BY <1>3, <2>1, <2>2, <3>2
  <2>4. Sequence(kvs)
    BY <1>3, <2>1, <2>2, ConcatSequence
  <2>5. DOMAIN kvs = 1..Len(kvs)
    <3>1. PICK R : kvs \in Seq(R)
      BY <2>4 DEF Sequence
    <3> QED
      BY <3>1, LenProperties
  <2> QED
    BY <1>2, <1>3, <2>1, <2>3, <2>5
<1>6. /\ kvs[1].key = "_table" /\ kvs[2].key = "_key"
      /\ \A i \in 1..n : kvs[i + 2].key = cols[i].name /\ kvs[i + 2].value = cols[i].value.v
      /\ \A i \in 3..n + 2 : kvs[i].key \notin {"_table", "_key", "_action"}
  <2>1. \A i \in 1..n : kvs[i + 2].key = cols[i].name /\ kvs[i + 2].value = cols[i].value.v
    BY <1>5, EntryIs
  <2>2. ASSUME NEW i \in 3..n + 2 PROVE kvs[i].key \notin {"_table", "_key", "_action"}
    <3>1. i - 2 \in 1..n /\ (i - 2) + 2 = i
      BY <1>2
    <3>2. FormedColumn(cols[i - 2])
      BY <1>1, <3>1 DEF FormedTuple
    <3> QED
      BY <2>1, <3>1, <3>2 DEF FormedColumn
  <2> QED
    BY <1>5, <2>1, <2>2, EntryIs
<1>7. /\ ~HasEntry(object, "_action")
      /\ ValueOf(object, "_table") = table /\ ValueOf(object, "_key") = key
  <2>1. \A i \in 1..n + 2 : i = 1 \/ i = 2 \/ i \in 3..n + 2
    BY <1>2
  <2>2. ~HasEntry(object, "_action")
    BY <1>4, <1>5, <1>6, <2>1 DEF HasEntry
  <2>3. 1 \in DOMAIN object.kvs /\ 2 \in DOMAIN object.kvs
    BY <1>2, <1>4, <1>5
  <2>4. ValueOf(object, "_table") = table
    BY <1>4, <1>5, <1>6, <2>1, <2>3, ValueOfIs
  <2>5. ValueOf(object, "_key") = key
    BY <1>4, <1>5, <1>6, <2>1, <2>3, ValueOfIs
  <2> QED
    BY <2>2, <2>4, <2>5
<1>8. [i \in 1 .. Len(object.kvs) - 2 |-> [name |-> object.kvs[i + 2].key, v |-> object.kvs[i + 2].value]] = vs
  <2>1. Len(object.kvs) - 2 = n
    BY <1>2, <1>4, <1>5
  <2>2. \A i \in 1..n : [name |-> kvs[i + 2].key, v |-> kvs[i + 2].value] = ColOf(cols[i])
    BY <1>6 DEF ColOf
  <2>3. vs = [i \in 1..n |-> ColOf(cols[i])]
    BY <1>1, <1>2 DEF Values, ColOf
  <2> QED
    BY <1>4, <2>1, <2>2, <2>3
<1>9. Full(op.tuple) => Missing(object) = 0
  BY <1>1, <1>2, <1>4, <1>5 DEF Missing, Full
<1> QED
  BY <1>1, <1>7, <1>8, <1>9

LEMMA ApplyInsertIs ==
  ASSUME NEW d, NEW db, NEW op, op.action = "insert", Placed(db, op),
         FormedTuple(op.tuple), Full(op.tuple)
  PROVE  ApplyObject(d, db, GenericWrite(op)) = Done(Perform(d, db, op))
<1>1. PICK cols, vs, n, key, table, object :
        /\ cols = op.tuple.cols /\ vs = Values(cols) /\ n = Len(cols)
        /\ key = op.tuple.key /\ table = op.table /\ object = GenericWrite(op)
  OBVIOUS
<1>2. /\ Sequence(cols) /\ n \in Nat /\ DOMAIN cols = 1..n /\ Sequence(vs) /\ Len(vs) = n
      /\ \A i \in 1..n : vs[i] = ColOf(cols[i])
  BY <1>1, ValuesAre DEF FormedTuple
<1>7. /\ ~HasEntry(object, "_action")
      /\ ValueOf(object, "_table") = table /\ ValueOf(object, "_key") = key
      /\ [i \in 1 .. Len(object.kvs) - 2 |-> [name |-> object.kvs[i + 2].key, v |-> object.kvs[i + 2].value]] = vs
      /\ Missing(object) = 0
  BY <1>1, InsertEntries
<1>10. HasTable(db, table) /\ PlacedTuple(db, table, op.tuple)
  BY <1>1 DEF Placed, PlacedTuple
<1>11. ApplyObject(d, db, object) = InsertRowInto(db, table, key, vs)
  BY <1>7, <1>10 DEF ApplyObject, ApplyInsert
<1>12. InsertRowInto(db, table, key, vs) = Done(AddRow(db, table, key, vs))
  <2>1. ASSUME NEW i \in DOMAIN vs PROVE HasColumn(db, table, vs[i].name)
    <3>1. i \in 1..n
      BY <1>1, <1>2 DEF Values
    <3>2. vs[i].name = cols[i].name
      BY <1>2, <3>1 DEF ColOf
    <3> QED
      BY <1>1, <1>2, <1>10, <3>1, <3>2 DEF PlacedTuple
  <2> QED
    BY <2>1 DEF InsertRowInto
<1> QED
  BY <1>1, <1>11, <1>12 DEF Perform

-----------------------------------------------------------------------------
(* Every operation, every record and every object, whatever it says, keeps *)
(* the form of a database.                                                 *)

LEMMA TableOther ==
  ASSUME NEW table, {"cols", "rows"} \subseteq DOMAIN table, NEW field, NEW value
  PROVE  {"cols", "rows"} \subseteq DOMAIN [table EXCEPT ![field] = value]
OBVIOUS

\* One table changed.
LEMMA OneTable ==
  ASSUME NEW db, FormedDB(db), NEW t, NEW table, {"cols", "rows"} \subseteq DOMAIN table
  PROVE  FormedDB([db EXCEPT !.tables = [db.tables EXCEPT ![t] = table]])
<1>1. PICK tables : tables = [db.tables EXCEPT ![t] = table]
  OBVIOUS
<1>2. ASSUME NEW u \in DOMAIN tables PROVE {"cols", "rows"} \subseteq DOMAIN tables[u]
  <2>1. u \in DOMAIN db.tables
    BY <1>1
  <2>2. {"cols", "rows"} \subseteq DOMAIN db.tables[u]
    BY <2>1 DEF FormedDB
  <2> QED
    BY <1>1, <2>1, <2>2
<1> QED
  BY <1>1, <1>2, OtherTables

LEMMA PluginKeeps ==
  ASSUME NEW db, FormedDB(db), NEW name
  PROVE  FormedDB(RegisterPlugin(db, name).db)
<1>1. PICK plugins : plugins = db.plugins \cup {name}
  OBVIOUS
<1>2. RegisterPlugin(db, name).db = [db EXCEPT !.plugins = plugins]
  BY <1>1, DoneDB DEF RegisterPlugin
<1>3. FormedDB([db EXCEPT !.plugins = plugins])
  BY DEF FormedDB
<1> QED
  BY <1>2, <1>3

LEMMA FailDB == ASSUME NEW x PROVE Fail(x).db = x
BY DEF Fail

LEMMA CreateTableKeeps ==
  ASSUME NEW db, FormedDB(db), NEW t, NEW type, NEW modules
  PROVE  FormedDB(CreateTable(db, t, type, modules).db)
<1>1. PICK tables : tables = With(db.tables, t, NewTable(type, modules))
  OBVIOUS
<1>2. ASSUME NEW u \in DOMAIN tables PROVE {"cols", "rows"} \subseteq DOMAIN tables[u]
  <2>1. tables[u] = IF u = t THEN NewTable(type, modules) ELSE db.tables[u]
    BY <1>1 DEF With
  <2>2. u = t \/ u \in DOMAIN db.tables
    BY <1>1 DEF With
  <2>3. {"cols", "rows"} \subseteq DOMAIN NewTable(type, modules)
    BY DEF NewTable
  <2> QED
    BY <2>1, <2>2, <2>3 DEF FormedDB
<1>3. CreateTable(db, t, type, modules).db \in {db, [db EXCEPT !.tables = tables]}
  BY <1>1, DoneDB, FailDB DEF CreateTable
<1> QED
  BY <1>2, <1>3, OtherTables

LEMMA CreateColumnKeeps ==
  ASSUME NEW db, FormedDB(db), NEW t, NEW c, NEW range
  PROVE  FormedDB(CreateColumn(db, t, c, range).db)
<1>1. PICK cols, table : /\ cols = With(db.tables[t].cols, c, NewColumn(range))
                         /\ table = [db.tables[t] EXCEPT !.cols = cols]
  OBVIOUS
<1>2. CreateColumn(db, t, c, range).db \in {db, [db EXCEPT !.tables = [db.tables EXCEPT ![t] = table]]}
  BY <1>1, DoneDB, FailDB DEF CreateColumn
<1>3. CASE t \in DOMAIN db.tables
  <2>1. {"cols", "rows"} \subseteq DOMAIN table
    BY <1>1, <1>3 DEF FormedDB
  <2> QED
    BY <1>2, <2>1, OneTable
<1>4. CASE t \notin DOMAIN db.tables
  <2>1. PICK tables : tables = [db.tables EXCEPT ![t] = table]
    OBVIOUS
  <2>2. DOMAIN tables = DOMAIN db.tables /\ \A u \in DOMAIN tables : tables[u] = db.tables[u]
    BY <1>4, <2>1
  <2>3. FormedDB([db EXCEPT !.tables = tables])
    <3>1. \A u \in DOMAIN tables : {"cols", "rows"} \subseteq DOMAIN tables[u]
      BY <2>2 DEF FormedDB
    <3> QED
      BY <3>1, OtherTables
  <2> QED
    BY <1>2, <2>1, <2>3
<1> QED
  BY <1>3, <1>4

LEMMA SetSourcesKeeps ==
  ASSUME NEW db, FormedDB(db), NEW tc, NEW S
  PROVE  FormedDB(SetSources(db, tc, S).db)
<1>1. PICK t, col, cols, table, tables :
        /\ t = tc[1]
        /\ col = [db.tables[t].cols[tc[2]] EXCEPT !.sources = S]
        /\ cols = [db.tables[t].cols EXCEPT ![tc[2]] = col]
        /\ table = [db.tables[t] EXCEPT !.cols = cols]
        /\ tables = [db.tables EXCEPT ![t] = table]
  OBVIOUS
<1>2. SetSources(db, tc, S).db = [db EXCEPT !.tables = tables]
  BY <1>1, DoneDB DEF SetSources
<1>3. ASSUME NEW u \in DOMAIN tables PROVE {"cols", "rows"} \subseteq DOMAIN tables[u]
  <2>1. u \in DOMAIN db.tables /\ tables[u] = IF u = t THEN table ELSE db.tables[u]
    BY <1>1
  <2>2. {"cols", "rows"} \subseteq DOMAIN db.tables[u]
    BY <2>1 DEF FormedDB
  <2>3. u = t => DOMAIN table = DOMAIN db.tables[u]
    BY <1>1
  <2> QED
    BY <2>1, <2>2, <2>3
<1> QED
  BY <1>2, <1>3, OtherTables

LEMMA RenameTableKeeps ==
  ASSUME NEW db, FormedDB(db), NEW old, NEW new
  PROVE  FormedDB(RenameTable(db, old, new).db)
<1> DEFINE name(ref) == IF ref = old THEN new ELSE ref
           renamed(col) == [range |-> name(col.range), sources |-> {<<name(s[1]), s[2]>> : s \in col.sources}]
           moved(t) == db.tables[IF t = new THEN old ELSE t]
           cols(t) == [c \in DOMAIN moved(t).cols |-> renamed(moved(t).cols[c])]
           tables == [t \in {name(u) : u \in DOMAIN db.tables} |-> [moved(t) EXCEPT !.cols = cols(t)]]
<1>1. CASE HasTable(db, new)
  BY <1>1, FailDB DEF RenameTable
<1>2. CASE ~HasTable(db, new)
  <2>1. RenameTable(db, old, new).db = [db EXCEPT !.tables = tables]
    <3>1. RenameTable(db, old, new) = Done([db EXCEPT !.tables = tables])
      BY <1>2 DEF RenameTable
    <3> HIDE DEF tables
    <3> QED
      BY <3>1, DoneDB
  <2>2. ASSUME NEW t \in DOMAIN tables PROVE {"cols", "rows"} \subseteq DOMAIN tables[t]
    <3>1. PICK u \in DOMAIN db.tables : t = name(u)
      OBVIOUS
    <3>2. moved(t) = db.tables[u]
      BY <1>2, <3>1 DEF HasTable
    <3>3. {"cols", "rows"} \subseteq DOMAIN db.tables[u]
      BY <3>1 DEF FormedDB
    <3>4. PICK x : x = cols(t)
      OBVIOUS
    <3>5. tables[t] = [db.tables[u] EXCEPT !.cols = x]
      BY <3>2, <3>4
    <3> HIDE DEF tables
    <3> QED
      BY <3>3, <3>5
  <2> HIDE DEF tables
  <2> QED
    BY <2>1, <2>2, OtherTables
<1> QED
  BY <1>1, <1>2

LEMMA DeleteRowKeeps ==
  ASSUME NEW db, FormedDB(db), NEW t, NEW key
  PROVE  FormedDB(DeleteRow(db, t, key).db)
<1>1. PICK rows, table, tables :
        /\ rows = KeepOnly(db.tables[t].rows, DOMAIN db.tables[t].rows \ {key})
        /\ table = [db.tables[t] EXCEPT !.rows = rows]
        /\ tables = [db.tables EXCEPT ![t] = table]
  OBVIOUS
<1>2. DeleteRow(db, t, key).db = [db EXCEPT !.tables = tables]
  BY <1>1, DoneDB DEF DeleteRow
<1>3. ASSUME NEW u \in DOMAIN tables PROVE {"cols", "rows"} \subseteq DOMAIN tables[u]
  <2>1. u \in DOMAIN db.tables /\ tables[u] = IF u = t THEN table ELSE db.tables[u]
    BY <1>1
  <2>2. {"cols", "rows"} \subseteq DOMAIN db.tables[u]
    BY <2>1 DEF FormedDB
  <2>3. u = t => DOMAIN table = DOMAIN db.tables[u]
    BY <1>1
  <2> QED
    BY <2>1, <2>2, <2>3
<1> QED
  BY <1>2, <1>3, OtherTables

LEMMA WithoutColumnsKeeps ==
  ASSUME NEW db, FormedDB(db), NEW S
  PROVE  FormedDB(WithoutColumns(db, S))
<1> DEFINE gone == S \cup IndexColumnsOf(db, S)
           kept(t) == {c \in DOMAIN db.tables[t].cols : <<t, c>> \notin gone}
           rows(t) == [k \in DOMAIN db.tables[t].rows |-> KeepOnly(db.tables[t].rows[k], kept(t))]
           cols(t) == KeepOnly(db.tables[t].cols, kept(t))
           tables == [t \in DOMAIN db.tables |-> [db.tables[t] EXCEPT !.cols = cols(t), !.rows = rows(t)]]
<1>1. WithoutColumns(db, S) = [db EXCEPT !.tables = tables]
  BY DEF WithoutColumns
<1>2. ASSUME NEW t \in DOMAIN tables PROVE {"cols", "rows"} \subseteq DOMAIN tables[t]
  <2>1. PICK x, y : x = cols(t) /\ y = rows(t)
    OBVIOUS
  <2>2. tables[t] = [db.tables[t] EXCEPT !.cols = x, !.rows = y]
    BY <2>1
  <2>3. {"cols", "rows"} \subseteq DOMAIN db.tables[t]
    BY DEF FormedDB
  <2> HIDE DEF tables
  <2> QED
    BY <2>2, <2>3
<1> HIDE DEF tables
<1> QED
  BY <1>1, <1>2, OtherTables

LEMMA WithoutTableKeeps ==
  ASSUME NEW db, FormedDB(db), NEW t
  PROVE  FormedDB(WithoutTable(db, t))
<1>1. PICK d : d = WithoutColumns(db, {tc \in Columns(db) : tc[1] = t})
  OBVIOUS
<1>2. FormedDB(d)
  BY <1>1, WithoutColumnsKeeps
<1>3. PICK tables : tables = KeepOnly(d.tables, DOMAIN d.tables \ {t})
  OBVIOUS
<1>4. \A u \in DOMAIN tables : {"cols", "rows"} \subseteq DOMAIN tables[u]
  BY <1>2, <1>3 DEF KeepOnly, FormedDB
<1>5. WithoutTable(db, t) = [d EXCEPT !.tables = tables]
  BY <1>1, <1>3 DEF WithoutTable
<1> QED
  BY <1>2, <1>4, <1>5, OtherTables

LEMMA RemoveObjectKeeps ==
  ASSUME NEW db, FormedDB(db), NEW name
  PROVE  FormedDB(RemoveObject(db, name).db)
<1>1. PICK t, c : t = name[1] /\ c = name[2]
  OBVIOUS
<1>2. RemoveObject(db, name).db \in {db, WithoutTable(db, t), WithoutColumns(db, {<<t, c>>})}
  BY <1>1, DoneDB, FailDB DEF RemoveObject, RemoveColumn, RemoveTable
<1> QED
  BY <1>2, WithoutTableKeeps, WithoutColumnsKeeps

LEMMA RemoveDependentKeeps ==
  ASSUME NEW db, FormedDB(db), NEW t
  PROVE  FormedDB(RemoveTableDependent(db, t))
<1>1. PICK S : S = {tc \in Columns(db) : RangeOf(db, tc) = t}
  OBVIOUS
<1>2. PICK d : d = WithoutColumns(db, S)
  OBVIOUS
<1>3. FormedDB(d)
  BY <1>2, WithoutColumnsKeeps
<1>4. FormedDB(WithoutTable(d, t))
  BY <1>3, WithoutTableKeeps
<1> QED
  BY <1>1, <1>2, <1>4 DEF RemoveTableDependent

LEMMA CreateRawKeeps ==
  ASSUME NEW d, NEW db, FormedDB(db), NEW t, NEW name, NEW type, NEW module, NEW space_
  PROVE  /\ FormedDB(CreateTableRaw(d, db, t, type, module, space_).db)
         /\ FormedDB(CreateColumnRaw(d, db, t, name, type, space_).db)
<1>1. PICK modules : modules = Modules(module)
  OBVIOUS
<1>2. FormedDB(CreateTable(db, t, type, modules).db) /\ FormedDB(CreateColumn(db, t, name, type).db)
  BY CreateTableKeeps, CreateColumnKeeps
<1> QED
  BY <1>1, <1>2, FailDB DEF CreateTableRaw, CreateColumnRaw

LEMMA InsertRowKeeps ==
  ASSUME NEW db, FormedDB(db), NEW table, NEW key, NEW cols
  PROVE  FormedDB(InsertRowInto(db, table, key, cols).db)
<1>1. PICK unknown : unknown = {i \in DOMAIN cols : ~HasColumn(db, table, cols[i].name)}
  OBVIOUS
<1>2. PICK less : less = SubSeq(cols, 1, Min(unknown) - 1)
  OBVIOUS
<1>3. InsertRowInto(db, table, key, cols).db \in {AddRow(db, table, key, cols), AddRow(db, table, key, less)}
  BY <1>1, <1>2, DoneDB, FailDB DEF InsertRowInto
<1> QED
  BY <1>3, AddRowKeeps

Operations ==
  {"create_table", "create_column", "set_sources", "rename_table", "insert", "bulk_insert",
   "delete", "remove_object", "register_plugin"}

LEMMA PerformKeeps ==
  ASSUME NEW d, NEW db, FormedDB(db), NEW op, op.action \in Operations
  PROVE  FormedDB(Perform(d, db, op))
<1>1. CASE op.action = "create_table"
  BY <1>1, CreateRawKeeps DEF Perform
<1>2. CASE op.action = "create_column"
  BY <1>2, CreateRawKeeps DEF Perform
<1>3. CASE op.action = "set_sources"
  BY <1>3, SetSourcesKeeps DEF Perform
<1>4. CASE op.action = "rename_table"
  BY <1>4, RenameTableKeeps DEF Perform
<1>5. CASE op.action = "insert"
  <2>1. PICK cols : cols = Values(op.tuple.cols)
    OBVIOUS
  <2>2. Perform(d, db, op) = AddRow(db, op.table, op.tuple.key, cols)
    BY <1>5, <2>1 DEF Perform
  <2> QED
    BY <2>2, AddRowKeeps
<1>6. CASE op.action = "bulk_insert"
  BY <1>6 DEF Perform
<1>7. CASE op.action = "delete"
  BY <1>7, DeleteRowKeeps DEF Perform
<1>8. CASE op.action = "remove_object"
  BY <1>8, RemoveObjectKeeps DEF Perform
<1>9. CASE op.action = "register_plugin"
  BY <1>9, PluginKeeps DEF Perform
<1> QED
  BY <1>1, <1>2, <1>3, <1>4, <1>5, <1>6, <1>7, <1>8, <1>9 DEF Operations

LEMMA RedoInsertTupleKeeps ==
  ASSUME NEW db, FormedDB(db), NEW table, NEW cols
  PROVE  FormedDB(RedoInsertTuple(db, table, cols).db)
BY InsertRowKeeps DEF RedoInsertTuple

LEMMA RedoCreateTableKeeps ==
  ASSUME NEW db, FormedDB(db), NEW out
  PROVE  FormedDB(RedoCreateTable(db, out).db)
<1>1. PICK cleared : cleared = RemoveTableDependent(db, out[3])
  OBVIOUS
<1>2. FormedDB(cleared)
  BY <1>1, RemoveDependentKeeps
<1>3. FormedDB(CreateTableRaw(NoDatabase, cleared, out[3], out[5], out[6], out[2]).db)
  BY <1>2, CreateRawKeeps
<1> QED
  BY <1>1, <1>3, FailDB DEF RedoCreateTable

LEMMA RedoCreateColumnKeeps ==
  ASSUME NEW db, FormedDB(db), NEW out
  PROVE  FormedDB(RedoCreateColumn(db, out).db)
<1>1. PICK cleared : cleared = IF HasColumn(db, out[3], out[4]) THEN WithoutColumns(db, {<<out[3], out[4]>>}) ELSE db
  OBVIOUS
<1>2. FormedDB(cleared)
  BY <1>1, WithoutColumnsKeeps
<1>3. FormedDB(CreateColumnRaw(NoDatabase, cleared, out[3], out[4], out[6], out[2]).db)
  BY <1>2, CreateRawKeeps
<1> QED
  BY <1>1, <1>3, FailDB DEF RedoCreateColumn

LEMMA RedoSetSourcesKeeps ==
  ASSUME NEW db, FormedDB(db), NEW out
  PROVE  FormedDB(RedoSetSources(db, out).db)
BY SetSourcesKeeps, FailDB DEF RedoSetSources

LEMMA RedoRenameTableKeeps ==
  ASSUME NEW db, FormedDB(db), NEW out
  PROVE  FormedDB(RedoRenameTable(db, out).db)
<1>1. PICK cleared : cleared = RemoveTableDependent(db, out[3])
  OBVIOUS
<1>2. FormedDB(cleared)
  BY <1>1, RemoveDependentKeeps
<1>3. FormedDB(RenameTable(cleared, out[2], out[3]).db)
  BY <1>2, RenameTableKeeps
<1> QED
  BY <1>1, <1>2, <1>3, FailDB DEF RedoRenameTable

LEMMA RedoInsertKeeps ==
  ASSUME NEW db, FormedDB(db), NEW cells
  PROVE  FormedDB(RedoInsert(db, cells).db)
<1>1. PICK table, cols : table = InsertHead(cells).out[2] /\ cols = AtEnd(TakeTuple(InsertHead(cells))).out
  OBVIOUS
<1>2. RedoInsert(db, cells) \in {Fail(db), RedoInsertTuple(db, table, cols)}
  BY <1>1 DEF RedoInsert
<1> QED
  BY <1>2, RedoInsertTupleKeeps, FailDB

\* A record with several tuples: whatever its cells are, every step of the
\* fold keeps the form.
LEMMA RedoBulkInsertKeeps ==
  ASSUME NEW db, FormedDB(db), NEW cells, Sequence(InsertHead(cells).rest)
  PROVE  FormedDB(RedoBulkInsert(db, cells).db)
<1>1. PICK head, m, start :
        /\ head = InsertHead(cells) /\ m = head.rest
        /\ start = [raw |-> head, table |-> head.out[2], result |-> Done(db)]
  OBVIOUS
<1>2. PICK l : l = Len(m)
  OBVIOUS
<1>3. l \in Nat /\ DOMAIN m = 1..l
  <2>1. PICK R : m \in Seq(R)
    BY <1>1 DEF Sequence
  <2> QED
    BY <1>2, <2>1, LenProperties
<1>4. PICK run : /\ run[0] = start
                 /\ \A i \in 1..l : run[i] = RedoTuple(run[i - 1], m[i])
                 /\ run[l] = FoldLeft(RedoTuple, start, m)
  BY <1>3, RedoTupleRuns
<1> DEFINE State(s) == {"raw", "result"} \subseteq DOMAIN s /\ FormedDB(s.result.db)
           S == {i \in 0..l : State(run[i])}
<1>5. 0 \in S
  <2>1. start.result = Done(db) /\ {"raw", "result"} \subseteq DOMAIN start
    BY <1>1
  <2> QED
    BY <1>3, <1>4, <2>1, DoneDB
<1>6. ASSUME NEW i \in 0..l - 1, i \in S
      PROVE  i + 1 \in S
  <2>1. i + 1 \in 1..l /\ (i + 1) - 1 = i /\ i + 1 \in 0..l
    BY <1>3
  <2>2. PICK s, cell : s = run[i] /\ cell = m[i + 1]
    OBVIOUS
  <2>3. State(s)
    BY <1>6, <2>2
  <2>4. run[i + 1] = RedoTuple(s, cell)
    BY <1>4, <2>1, <2>2
  <2>5. PICK tuple, result :
          /\ tuple = TakeTuple(s.raw)
          /\ result = IF tuple.ok THEN RedoInsertTuple(s.result.db, s.table, tuple.out) ELSE Fail(s.result.db)
    OBVIOUS
  <2>6. FormedDB(result.db)
    BY <2>3, <2>5, RedoInsertTupleKeeps, FailDB
  <2>7. RedoTuple(s, cell) \in {s, [s EXCEPT !.raw = tuple, !.result = result]}
    BY <2>5 DEF RedoTuple
  <2>8. State([s EXCEPT !.raw = tuple, !.result = result])
    BY <2>3, <2>6
  <2>9. State(run[i + 1])
    BY <2>3, <2>4, <2>7, <2>8
  <2> QED
    BY <2>1, <2>9
<1>7. l \in S
  <2>1. l \in 0..l
    BY <1>3
  <2> HIDE DEF S
  <2> QED
    BY <1>3, <1>5, <1>6, <2>1, Upwards
<1>8. FormedDB(FoldLeft(RedoTuple, start, m).result.db)
  BY <1>4, <1>7
<1> QED
  BY <1>1, <1>8, FailDB DEF RedoBulkInsert

LEMMA RedoKeeps ==
  ASSUME NEW db, FormedDB(db), NEW action \in Operations, NEW cells,
         action = "bulk_insert" => Sequence(InsertHead(cells).rest)
  PROVE  FormedDB(Redo(db, action, cells).db)
<1>1. CASE action = "create_table"
  BY <1>1, RedoCreateTableKeeps, FailDB DEF Redo, RedoRead
<1>2. CASE action = "create_column"
  BY <1>2, RedoCreateColumnKeeps, FailDB DEF Redo, RedoRead
<1>3. CASE action = "set_sources"
  BY <1>3, RedoSetSourcesKeeps, FailDB DEF Redo, RedoRead
<1>4. CASE action = "rename_table"
  BY <1>4, RedoRenameTableKeeps, FailDB DEF Redo, RedoRead
<1>5. CASE action = "insert"
  BY <1>5, RedoInsertKeeps DEF Redo
<1>6. CASE action = "bulk_insert"
  BY <1>6, RedoBulkInsertKeeps DEF Redo
<1>7. CASE action = "delete"
  BY <1>7, DeleteRowKeeps, FailDB DEF Redo, RedoRead, RedoDelete
<1>8. CASE action = "remove_object"
  BY <1>8, RemoveObjectKeeps, FailDB DEF Redo, RedoRead, RedoRemoveObject
<1>9. CASE action = "register_plugin"
  BY <1>9, PluginKeeps, FailDB DEF Redo, RedoRead, RedoRegisterPlugin
<1> QED
  BY <1>1, <1>2, <1>3, <1>4, <1>5, <1>6, <1>7, <1>8, <1>9 DEF Operations

\* The action of an object, "insert" without one.
ActionOf(object) == IF HasEntry(object, "_action") THEN ValueOf(object, "_action") ELSE "insert"

LEMMA ApplyKeeps ==
  ASSUME NEW d, NEW db, FormedDB(db), NEW object, ActionOf(object) \in Operations \ {"bulk_insert"}
  PROVE  FormedDB(ApplyObject(d, db, object).db)
<1>0. PICK action : action = ActionOf(object)
  OBVIOUS
<1>1. CASE action = "create_table"
  <2>1. ApplyObject(d, db, object) = ApplyCreateTable(d, db, object)
    BY <1>0, <1>1 DEF ApplyObject, ActionOf
  <2> QED
    BY <2>1, CreateRawKeeps, FailDB DEF ApplyCreateTable
<1>2. CASE action = "create_column"
  <2>1. ApplyObject(d, db, object) = ApplyCreateColumn(d, db, object)
    BY <1>0, <1>2 DEF ApplyObject, ActionOf
  <2> QED
    BY <2>1, CreateRawKeeps, FailDB DEF ApplyCreateColumn
<1>3. CASE action = "set_sources"
  <2>1. ApplyObject(d, db, object) = ApplySetSources(db, object)
    BY <1>0, <1>3 DEF ApplyObject, ActionOf
  <2> QED
    BY <2>1, SetSourcesKeeps, FailDB DEF ApplySetSources
<1>4. CASE action = "rename_table"
  <2>1. ApplyObject(d, db, object) = ApplyRenameTable(db, object)
    BY <1>0, <1>4 DEF ApplyObject, ActionOf
  <2> QED
    BY <2>1, RenameTableKeeps, FailDB, DoneDB DEF ApplyRenameTable
<1>5. CASE action = "insert"
  <2>1. ApplyObject(d, db, object) = ApplyInsert(db, object)
    BY <1>0, <1>5 DEF ApplyObject, ActionOf
  <2>2. PICK all, cols :
          /\ cols = [i \in 1 .. Len(object.kvs) - 2 |->
                       [name |-> object.kvs[i + 2].key, v |-> object.kvs[i + 2].value]]
          /\ all = InsertRowInto(db, ValueOf(object, "_table"), ValueOf(object, "_key"), cols)
    OBVIOUS
  <2>3. FormedDB(all.db)
    BY <2>2, InsertRowKeeps
  <2>4. ApplyInsert(db, object) \in {Fail(db), Fail(all.db), all}
    BY <2>2 DEF ApplyInsert
  <2> QED
    BY <2>1, <2>3, <2>4, FailDB
<1>6. CASE action = "delete"
  <2>1. ApplyObject(d, db, object) = ApplyDelete(db, object)
    BY <1>0, <1>6 DEF ApplyObject, ActionOf
  <2> QED
    BY <2>1, DeleteRowKeeps, FailDB DEF ApplyDelete
<1>7. CASE action = "remove_object"
  <2>1. ApplyObject(d, db, object) = RemoveObject(db, ValueOf(object, "name"))
    BY <1>0, <1>7 DEF ApplyObject, ActionOf
  <2> QED
    BY <2>1, RemoveObjectKeeps
<1>8. CASE action = "register_plugin"
  <2>1. ApplyObject(d, db, object) = RegisterPlugin(db, ValueOf(object, "name"))
    BY <1>0, <1>8 DEF ApplyObject, ActionOf
  <2> QED
    BY <2>1, PluginKeeps
<1> QED
  BY <1>0, <1>1, <1>2, <1>3, <1>4, <1>5, <1>6, <1>7, <1>8 DEF Operations

LEMMA TupleSequence ==
  ASSUME NEW tuple, FormedTuple(tuple)
  PROVE  Sequence(TupleWrite(tuple))
<1>1. PICK n, cols, m : n = Len(tuple.cols) /\ cols = tuple.cols /\ m = Many(ColumnWrite, cols)
  OBVIOUS
<1>2. n \in Nat /\ DOMAIN cols = 1..n
  BY <1>1, ValuesAre DEF FormedTuple
<1> DEFINE ss == [i \in 1..n |-> ColumnWrite(cols[i])]
<1>3. Parts(ss, n)
  <2>1. ss = [i \in 1..n |-> ss[i]]
    OBVIOUS
  <2>2. ASSUME NEW i \in 1..n PROVE Sequence(ss[i])
    <3>1. FormedColumn(cols[i])
      BY <1>1 DEF FormedTuple
    <3> QED
      BY <3>1, ColumnIsRead, EmptySequence
  <2> HIDE DEF ss
  <2> QED
    BY <2>1, <2>2 DEF Parts
<1>4. m = FlattenSeq(ss)
  BY <1>1, <1>2 DEF Many
<1> HIDE DEF ss
<1>5. Sequence(m)
  BY <1>2, <1>3, <1>4, FlatSequence
<1>6. PICK c, a, b, ca, cab :
        /\ c = <<Cell("count", tuple.announced)>> /\ a = Text("_key") /\ b = Text(tuple.key)
        /\ ca = c \o a /\ cab = ca \o b
  OBVIOUS
<1>7. Sequence(c) /\ Sequence(a) /\ Sequence(b)
  BY <1>6, OneSequence, TextCells, EmptySequence
<1>8. Sequence(ca)
  BY <1>6, <1>7, ConcatSequence
<1>9. Sequence(cab)
  BY <1>6, <1>7, <1>8, ConcatSequence
<1> QED
  BY <1>1, <1>5, <1>6, <1>9, ConcatSequence DEF TupleWrite

LEMMA TuplesSequence ==
  ASSUME NEW tuples, FormedTuples(tuples)
  PROVE  Sequence(Many(TupleWrite, tuples))
<1>1. PICK n : n = Len(tuples)
  OBVIOUS
<1>2. n \in Nat /\ DOMAIN tuples = 1..n
  <2>1. PICK R : tuples \in Seq(R)
    BY DEF FormedTuples, Sequence
  <2> QED
    BY <1>1, <2>1, LenProperties
<1> DEFINE ss == [i \in 1..n |-> TupleWrite(tuples[i])]
<1>3. Parts(ss, n)
  <2>1. ss = [i \in 1..n |-> ss[i]]
    OBVIOUS
  <2>2. \A i \in 1..n : Sequence(ss[i])
    BY <1>1, TupleSequence DEF FormedTuples
  <2> HIDE DEF ss
  <2> QED
    BY <2>1, <2>2 DEF Parts
<1>4. Many(TupleWrite, tuples) = FlattenSeq(ss)
  BY <1>2 DEF Many
<1> HIDE DEF ss
<1> QED
  BY <1>2, <1>3, <1>4, FlatSequence

-----------------------------------------------------------------------------
(* What is in the WAL: records and objects of formed operations.           *)

FormedSources(op) ==
  op.column # None /\ Sequence(op.sources) /\ \A i \in 1..Len(op.sources) : op.sources[i] # None
FormedOp(op) ==
  /\ op.action \in Operations
  /\ op.action = "set_sources" => FormedSources(op)
  /\ op.action = "insert" => FormedTuple(op.tuple)
  /\ op.action = "bulk_insert" => FormedTuples(op.tuples)

CustomRecord(record) ==
  /\ record.db # NoDatabase
  /\ record.action = record.op.action
  /\ record.cells = CustomWrite(record.db, record.op)
  /\ FormedOp(record.op)
GenericRecord(record) ==
  /\ record.db # NoDatabase
  /\ record.object = GenericWrite(record.op)
  /\ FormedOp(record.op) /\ record.op.action # "bulk_insert"

LEMMA NotShort ==
  ASSUME NEW tuple, FormedTuple(tuple), ~Short(tuple)
  PROVE  Full(tuple)
<1>1. Len(tuple.cols) \in Nat /\ tuple.announced \in Nat /\ tuple.announced >= Len(tuple.cols) + 1
  BY ValuesAre DEF FormedTuple
<1>2. ~(Len(tuple.cols) + 1 < tuple.announced)
  BY DEF Short
<1> QED
  BY <1>1, <1>2 DEF Full

\* A record of the resource manager is redone as it was done.
LEMMA RecordIsRedone ==
  ASSUME NEW record, CustomRecord(record), NEW db, FormedDB(db),
         Placed(db, record.op), ~ShortTuple(record.op),
         record.op.action \in {"create_table", "create_column"} => record.op.space = DefaultSpace
  PROVE  Redo(db, record.action, record.cells) = Done(Performed(record.db, db, record.op))
<1>1. PICK op, d : op = record.op /\ d = record.db
  OBVIOUS
<1>2. /\ FormedOp(op) /\ Placed(db, op) /\ ~ShortTuple(op) /\ d # NoDatabase
      /\ op.action \in {"create_table", "create_column"} => op.space = DefaultSpace
      /\ record.action = op.action /\ record.cells = CustomWrite(d, op)
  BY <1>1 DEF CustomRecord
<1>3. SUFFICES Redo(db, op.action, CustomWrite(d, op)) = Done(Performed(d, db, op))
  BY <1>1, <1>2
<1>4. op.action # "bulk_insert" => Performed(d, db, op) = Perform(d, db, op)
  BY DEF Performed
<1>5. CASE op.action = "create_table"
  BY <1>2, <1>4, <1>5, RedoCreateTableIs
<1>6. CASE op.action = "create_column"
  BY <1>2, <1>4, <1>6, RedoCreateColumnIs
<1>7. CASE op.action = "set_sources"
  BY <1>2, <1>4, <1>7, RedoSetSourcesIs DEF FormedOp, FormedSources
<1>8. CASE op.action = "rename_table"
  BY <1>2, <1>4, <1>8, RedoRenameTableIs
<1>9. CASE op.action = "insert"
  <2>1. FormedTuple(op.tuple) /\ Full(op.tuple)
    BY <1>2, <1>9, NotShort DEF FormedOp, ShortTuple
  <2> QED
    BY <1>2, <1>4, <1>9, <2>1, RedoInsertIs DEF Full
<1>10. CASE op.action = "bulk_insert"
  <2>1. FormedTuples(op.tuples)
    BY <1>2, <1>10 DEF FormedOp
  <2>2. DOMAIN op.tuples = 1..Len(op.tuples)
    <3>1. PICK R : op.tuples \in Seq(R)
      BY <2>1 DEF FormedTuples, Sequence
    <3> QED
      BY <3>1, LenProperties
  <2>3. \A i \in 1..Len(op.tuples) : Full(op.tuples[i])
    BY <1>2, <1>10, <2>1, <2>2, NotShort DEF FormedTuples, ShortTuple
  <2> QED
    BY <1>2, <1>10, <2>1, <2>3, RedoBulkInsertIs
<1>11. CASE op.action = "delete"
  BY <1>2, <1>4, <1>11, RedoDeleteIs
<1>12. CASE op.action = "remove_object"
  BY <1>2, <1>4, <1>12, RedoRemoveObjectIs
<1>13. CASE op.action = "register_plugin"
  BY <1>2, <1>4, <1>13, RedoRegisterPluginIs
<1> QED
  BY <1>2, <1>5, <1>6, <1>7, <1>8, <1>9, <1>10, <1>11, <1>12, <1>13 DEF FormedOp, Operations

\* And an object of the generic WAL is applied as it was done.
LEMMA ObjectIsApplied ==
  ASSUME NEW record, GenericRecord(record), NEW db, Placed(db, record.op), ~ShortTuple(record.op)
  PROVE  ApplyObject(record.db, db, record.object) = Done(Performed(record.db, db, record.op))
<1>1. PICK op, d : op = record.op /\ d = record.db
  OBVIOUS
<1>2. /\ FormedOp(op) /\ Placed(db, op) /\ ~ShortTuple(op) /\ d # NoDatabase
      /\ op.action # "bulk_insert" /\ record.object = GenericWrite(op)
  BY <1>1 DEF GenericRecord
<1>3. SUFFICES ApplyObject(d, db, GenericWrite(op)) = Done(Perform(d, db, op))
  BY <1>1, <1>2 DEF Performed
<1>5. CASE op.action = "create_table"
  BY <1>2, <1>5, ApplyCreateTableIs
<1>6. CASE op.action = "create_column"
  BY <1>2, <1>6, ApplyCreateColumnIs
<1>7. CASE op.action = "set_sources"
  BY <1>2, <1>7, ApplySetSourcesIs DEF FormedOp, FormedSources
<1>8. CASE op.action = "rename_table"
  BY <1>2, <1>8, ApplyRenameTableIs
<1>9. CASE op.action = "insert"
  <2>1. FormedTuple(op.tuple) /\ Full(op.tuple)
    BY <1>2, <1>9, NotShort DEF FormedOp, ShortTuple
  <2> QED
    BY <1>2, <1>9, <2>1, ApplyInsertIs
<1>11. CASE op.action = "delete"
  BY <1>2, <1>11, ApplyDeleteIs
<1>12. CASE op.action = "remove_object"
  BY <1>2, <1>12, ApplyRemoveObjectIs
<1>13. CASE op.action = "register_plugin"
  BY <1>2, <1>13, ApplyRegisterPluginIs
<1> QED
  BY <1>2, <1>5, <1>6, <1>7, <1>8, <1>9, <1>11, <1>12, <1>13 DEF FormedOp, Operations

LEMMA RecordKeeps ==
  ASSUME NEW record, CustomRecord(record), NEW db, FormedDB(db)
  PROVE  FormedDB(Redo(db, record.action, record.cells).db)
<1>1. PICK op, d, action, cells : op = record.op /\ d = record.db /\ action = record.action /\ cells = record.cells
  OBVIOUS
<1>2. action \in Operations /\ action = op.action /\ cells = CustomWrite(d, op) /\ FormedOp(op)
  BY <1>1 DEF CustomRecord, FormedOp
<1>3. ASSUME action = "bulk_insert" PROVE Sequence(InsertHead(cells).rest)
  <2>1. PICK m, table : m = Many(TupleWrite, op.tuples) /\ table = op.table
    OBVIOUS
  <2>2. Sequence(m)
    BY <1>2, <1>3, <2>1, TuplesSequence DEF FormedOp
  <2>3. cells = (Common(d) \o Text(table)) \o m
    BY <1>2, <1>3, <2>1 DEF CustomWrite, BulkInsertWrite
  <2>4. InsertHead((Common(d) \o Text(table)) \o m) = Reading(m, <<d, table>>)
    BY <2>2, HeadIsRead
  <2>5. Reading(m, <<d, table>>).rest = m
    BY OutIs
  <2> QED
    BY <2>2, <2>3, <2>4, <2>5
<1> QED
  BY <1>1, <1>2, <1>3, RedoKeeps

LEMMA ObjectAction ==
  ASSUME NEW op, FormedOp(op), op.action # "bulk_insert"
  PROVE  ActionOf(GenericWrite(op)) = op.action
<1>1. CASE op.action = "create_table"
  BY <1>1, CreateTableEntries DEF ActionOf
<1>2. CASE op.action = "create_column"
  BY <1>2, CreateColumnEntries DEF ActionOf
<1>3. CASE op.action = "insert"
  BY <1>3, InsertEntries DEF ActionOf, FormedOp
<1>4. CASE op.action = "set_sources"
  <2>1. GenericWrite(op) = Object(3, <<Entry("_action", "set_sources"), Entry("column", op.column), Entry("sources", op.sources)>>)
    BY <1>4 DEF GenericWrite, Action
  <2> QED
    BY <1>4, <2>1, ThreeEntries DEF ActionOf
<1>5. CASE op.action = "rename_table"
  <2>1. GenericWrite(op) = Object(3, <<Entry("_action", "rename_table"), Entry("name", op.name), Entry("new_name", op.new)>>)
    BY <1>5 DEF GenericWrite, Action
  <2> QED
    BY <1>5, <2>1, ThreeEntries DEF ActionOf
<1>6. CASE op.action = "delete"
  <2>1. GenericWrite(op) = Object(3, <<Entry("_action", "delete"), Entry("table", op.table), Entry("key", op.key)>>)
    BY <1>6 DEF GenericWrite, Action
  <2> QED
    BY <1>6, <2>1, ThreeEntries DEF ActionOf
<1>7. CASE op.action = "remove_object"
  <2>1. GenericWrite(op) = Object(2, <<Entry("_action", "remove_object"), Entry("name", op.name)>>)
    BY <1>7 DEF GenericWrite, Action
  <2> QED
    BY <1>7, <2>1, TwoEntries DEF ActionOf
<1>8. CASE op.action = "register_plugin"
  <2>1. GenericWrite(op) = Object(2, <<Entry("_action", "register_plugin"), Entry("name", op.name)>>)
    BY <1>8 DEF GenericWrite, Action
  <2> QED
    BY <1>8, <2>1, TwoEntries DEF ActionOf
<1> QED
  BY <1>1, <1>2, <1>3, <1>4, <1>5, <1>6, <1>7, <1>8 DEF FormedOp, Operations

LEMMA ObjectKeeps ==
  ASSUME NEW record, GenericRecord(record), NEW db, FormedDB(db)
  PROVE  FormedDB(ApplyObject(record.db, db, record.object).db)
<1>1. PICK op, d, object : op = record.op /\ d = record.db /\ object = record.object
  OBVIOUS
<1>2. FormedOp(op) /\ op.action # "bulk_insert" /\ object = GenericWrite(op)
  BY <1>1 DEF GenericRecord
<1>3. ActionOf(object) \in Operations \ {"bulk_insert"}
  BY <1>2, ObjectAction DEF FormedOp
<1> QED
  BY <1>1, <1>3, ApplyKeeps

-----------------------------------------------------------------------------
(* What a script does.                                                     *)

FormedStep(step) ==
  FormedOp(step.op) /\ (step.op.action = "bulk_insert" => "generic" \notin step.wals)
FormedSteps(steps) == Sequence(steps) /\ \A k \in 1..Len(steps) : FormedStep(steps[k])

LEMMA NoSteps == FormedSteps(<<>>)
BY EmptySequence DEF FormedSteps

LEMMA OneStep ==
  ASSUME NEW step, FormedStep(step)
  PROVE  FormedSteps(<<step>>)
<1>1. PICK s : s = <<step>>
  OBVIOUS
<1>2. Sequence(s) /\ Len(s) = 1 /\ s[1] = step
  BY <1>1, OneSequence
<1> QED
  BY <1>1, <1>2 DEF FormedSteps

LEMMA MoreSteps ==
  ASSUME NEW a, NEW b, FormedSteps(a), FormedSteps(b)
  PROVE  FormedSteps(a \o b)
<1>1. PICK s, m, n : s = a \o b /\ m = Len(a) /\ n = Len(b)
  OBVIOUS
<1>2. Sequence(a) /\ Sequence(b)
  BY DEF FormedSteps
<1>3. /\ m \in Nat /\ n \in Nat /\ Len(s) = m + n
      /\ \A i \in 1..m : s[i] = a[i]
      /\ \A i \in 1..n : s[m + i] = b[i]
  BY <1>1, <1>2, ConcatElements
<1>4. ASSUME NEW k \in 1..m + n PROVE FormedStep(s[k])
  <2>1. CASE k \in 1..m
    BY <1>1, <1>3, <2>1 DEF FormedSteps
  <2>2. CASE k \notin 1..m
    <3>1. k - m \in 1..n /\ m + (k - m) = k
      BY <1>3, <2>2
    <3>2. s[k] = b[k - m]
      BY <1>3, <3>1
    <3> QED
      BY <1>1, <3>1, <3>2 DEF FormedSteps
  <2> QED
    BY <2>1, <2>2
<1>5. Sequence(s)
  BY <1>1, <1>2, ConcatSequence
<1> QED
  BY <1>1, <1>3, <1>4, <1>5 DEF FormedSteps

\* Steps for each element of a sequence.
LEMMA FlatSteps ==
  ASSUME NEW seq, Sequence(seq), NEW ss, ss = [i \in DOMAIN seq |-> ss[i]],
         \A i \in DOMAIN seq : FormedSteps(ss[i])
  PROVE  FormedSteps(FlattenSeq(ss))
<1>1. PICK n : n = Len(seq)
  OBVIOUS
<1>2. n \in Nat /\ DOMAIN seq = 1..n
  <2>1. PICK R : seq \in Seq(R)
    BY DEF Sequence
  <2> QED
    BY <1>1, <2>1, LenProperties
<1>3. Parts(ss, n)
  BY <1>2 DEF Parts, FormedSteps
<1> DEFINE S == {x \in UNION {{ss[i][k] : k \in 1..Len(ss[i])} : i \in 1..n} : FormedStep(x)}
<1>4. ASSUME NEW i \in 1..n, NEW k \in 1..Len(ss[i]) PROVE ss[i][k] \in S
  <2>1. FormedStep(ss[i][k])
    BY <1>2 DEF FormedSteps
  <2> QED
    BY <2>1
<1>5. /\ Sequence(FlattenSeq(ss))
      /\ \A k \in 1..Len(FlattenSeq(ss)) : FlattenSeq(ss)[k] \in S
  <2> HIDE DEF S
  <2> QED
    BY <1>2, <1>3, <1>4, FlatElements
<1> QED
  BY <1>5 DEF FormedSteps

LEMMA UnlessSteps ==
  ASSUME NEW excluded, NEW steps, FormedSteps(steps)
  PROVE  FormedSteps(Unless(excluded, steps))
BY NoSteps DEF Unless

\* The operations that have only names.
LEMMA NameSteps ==
  ASSUME NEW wals, NEW x, NEW y, NEW z, NEW w
  PROVE  /\ FormedStep(Step(RegisterPluginOp(x), wals))
         /\ FormedStep(Step(RemoveObjectOp(x), wals))
         /\ FormedStep(Step(DeleteOp(x, y), wals))
         /\ FormedStep(Step(RenameTableOp(x, y), wals))
         /\ FormedStep(Step(CreateTableOp(x, y, z, w), wals))
         /\ FormedStep(Step(CreateColumnOp(x, y, z, w), wals))
<1>1. ASSUME NEW op, op.action \in Operations \ {"set_sources", "insert", "bulk_insert"}
      PROVE  FormedStep(Step(op, wals))
  <2>1. FormedOp(op)
    BY <1>1 DEF FormedOp
  <2>2. Step(op, wals).op = op
    BY DEF Step
  <2> QED
    BY <1>1, <2>1, <2>2 DEF FormedStep
<1>2. /\ RegisterPluginOp(x).action = "register_plugin"
      /\ RemoveObjectOp(x).action = "remove_object"
      /\ DeleteOp(x, y).action = "delete"
      /\ RenameTableOp(x, y).action = "rename_table"
      /\ CreateTableOp(x, y, z, w).action = "create_table"
      /\ CreateColumnOp(x, y, z, w).action = "create_column"
  BY DEF RegisterPluginOp, RemoveObjectOp, DeleteOp, RenameTableOp, CreateTableOp, CreateColumnOp
<1>3. {"register_plugin", "remove_object", "delete", "rename_table", "create_table", "create_column"}
        \subseteq Operations \ {"set_sources", "insert", "bulk_insert"}
  BY DEF Operations
<1> QED
  BY <1>1, <1>2, <1>3

LEMMA AttributesAre ==
  /\ Sequence(Attributes) /\ DOMAIN Attributes = 1..Len(Attributes) /\ Len(Attributes) \in Nat
  /\ \A i \in DOMAIN Attributes : Attributes[i] \notin {"_table", "_key", "_action"}
<1>1. Attributes \in Seq(ToSet(Attributes))
  BY ObjectsAssumption
<1>2. DOMAIN Attributes = 1..Len(Attributes) /\ Len(Attributes) \in Nat
  BY <1>1, LenProperties
<1>3. \A i \in DOMAIN Attributes : Attributes[i] \in ToSet(Attributes)
  BY DEF ToSet
<1> QED
  BY <1>1, <1>2, <1>3, ObjectsAssumption DEF Sequence

LEMMA CreateLexiconSteps ==
  ASSUME NEW n, NEW a
  PROVE  FormedSteps(CreateLexicon(n, a))
<1>1. PICK p, q : /\ p = IF Plugin = None THEN <<>> ELSE <<Logged(RegisterPluginOp(Plugin))>>
                  /\ q = <<Logged(CreateTableOp(LexiconFor(n, a), Type("ShortText"), Plugin, space[n]))>>
  OBVIOUS
<1>2. FormedSteps(p)
  BY <1>1, NoSteps, NameSteps, OneStep DEF Logged
<1>3. FormedSteps(q)
  BY <1>1, NameSteps, OneStep DEF Logged
<1> QED
  BY <1>1, <1>2, <1>3, MoreSteps DEF CreateLexicon

LEMMA CreateAttributeSteps ==
  ASSUME NEW n, NEW a
  PROVE  FormedSteps(CreateAttribute(n, a))
<1>1. PICK l, d, i, o : /\ l = CreateLexicon(n, a) /\ d = CreateDataColumn(n, a) /\ i = CreateIndexColumn(n, a)
                        /\ o = IF a \in Prefix THEN CreateLexicon(n, a) ELSE <<>>
  OBVIOUS
<1>2. FormedSteps(l) /\ FormedSteps(o)
  BY <1>1, CreateLexiconSteps, NoSteps
<1>3. FormedSteps(d) /\ FormedSteps(i)
  BY <1>1, NameSteps, OneStep DEF CreateDataColumn, CreateIndexColumn, Logged
<1>4. PICK ld : ld = l \o d
  OBVIOUS
<1>5. FormedSteps(ld)
  BY <1>2, <1>3, <1>4, MoreSteps
<1>6. FormedSteps(o \o d) /\ FormedSteps(ld \o i)
  BY <1>2, <1>3, <1>5, MoreSteps
<1> QED
  BY <1>1, <1>4, <1>6 DEF CreateAttribute

LEMMA RemoveSteps ==
  ASSUME NEW n, NEW wals
  PROVE  FormedSteps(RemoveUnusedTable(n, wals))
<1> DEFINE removed(name) == Step(RemoveObjectOp(name), wals)
           columns(a) == Unless(a \in Included, <<removed(<<LexiconFor(n, a), IndexColumn>>)>>)
           lexicon(a) == Unless(a \in Included, <<removed(<<LexiconFor(n, a), "">>)>>)
           tables == <<removed(<<Sources(n), "">>), Step(DeleteOp(Aliases, n), {}), Step(DeleteOp(IndexStatuses, n), {})>>
           cs == [i \in DOMAIN Attributes |-> columns(Attributes[i])]
           ls == [i \in DOMAIN Attributes |-> lexicon(Attributes[i])]
<1>1. \A name : FormedStep(removed(name))
  BY NameSteps
<1>2. \A a : FormedSteps(columns(a)) /\ FormedSteps(lexicon(a))
  <2> HIDE DEF removed
  <2> QED
    BY <1>1, OneStep, UnlessSteps
<1>3. FormedSteps(tables)
  <2>1. PICK x, y, z : x = removed(<<Sources(n), "">>) /\ y = Step(DeleteOp(Aliases, n), {}) /\ z = Step(DeleteOp(IndexStatuses, n), {})
    OBVIOUS
  <2>2. FormedStep(x) /\ FormedStep(y) /\ FormedStep(z)
    BY <1>1, <2>1, NameSteps
  <2>3. Sequence(<<x, y, z>>) /\ Len(<<x, y, z>>) = 3
    BY Out3
  <2>4. \A k \in 1..3 : FormedStep(<<x, y, z>>[k])
    <3>1. \A k \in 1..3 : k = 1 \/ k = 2 \/ k = 3
      OBVIOUS
    <3>2. <<x, y, z>>[1] = x /\ <<x, y, z>>[2] = y /\ <<x, y, z>>[3] = z
      OBVIOUS
    <3> QED
      BY <2>2, <3>1, <3>2
  <2>5. FormedSteps(<<x, y, z>>)
    BY <2>3, <2>4 DEF FormedSteps
  <2> QED
    BY <2>1, <2>5
<1>4. FormedSteps(FlattenSeq(cs)) /\ FormedSteps(FlattenSeq(ls))
  <2>1. /\ cs = [i \in DOMAIN Attributes |-> cs[i]] /\ \A i \in DOMAIN Attributes : FormedSteps(cs[i])
        /\ ls = [i \in DOMAIN Attributes |-> ls[i]] /\ \A i \in DOMAIN Attributes : FormedSteps(ls[i])
    <3> HIDE DEF columns, lexicon
    <3> QED
      BY <1>2
  <2> HIDE DEF cs, ls
  <2> QED
    BY <2>1, AttributesAre, FlatSteps
<1>5. RemoveUnusedTable(n, wals) = (FlattenSeq(cs) \o tables) \o FlattenSeq(ls)
  BY DEF RemoveUnusedTable, Steps
<1> HIDE DEF cs, ls, tables
<1>6. PICK x, y, z, xy : x = FlattenSeq(cs) /\ y = tables /\ z = FlattenSeq(ls) /\ xy = x \o y
  OBVIOUS
<1>7. FormedSteps(x) /\ FormedSteps(y) /\ FormedSteps(z)
  BY <1>3, <1>4, <1>6
<1>8. FormedSteps(xy)
  BY <1>6, <1>7, MoreSteps
<1> QED
  BY <1>5, <1>6, <1>7, <1>8, MoreSteps

\* The tuple of a row: what is packed was announced.
LEMMA ValueFormed ==
  ASSUME NEW a, NEW key
  PROVE  FormedValue(Value(a, key))
<1>1. CASE Domain[a] \in {"Text", "LongText"}
  <2>1. Value(a, key) = Bulk(Domain[a], <<a, key>>)
    BY <1>1 DEF Value
  <2> QED
    BY <2>1 DEF FormedValue
<1>2. CASE Domain[a] = "ShortText"
  <2>1. PICK vs : vs = <<<<a, key>>, <<a, "x">>>>
    OBVIOUS
  <2>2. Value(a, key) = Vector("ShortText", vs)
    BY <1>2, <2>1 DEF Value
  <2>3. Sequence(vs) /\ IsText("ShortText")
    BY <2>1, Out2 DEF IsText
  <2> QED
    BY <2>2, <2>3 DEF FormedValue
<1>3. CASE Domain[a] \notin {"Text", "LongText", "ShortText"}
  <2>1. Value(a, key) = UVector(Domain[a], <<key, key>>)
    BY <1>3 DEF Value
  <2>2. ~IsText(Domain[a])
    BY <1>3 DEF IsText
  <2> QED
    BY <2>1, <2>2 DEF FormedValue
<1> QED
  BY <1>1, <1>2, <1>3

LEMMA RowFormed ==
  ASSUME NEW row
  PROVE  FormedTuple(RowTuple(row))
<1> DEFINE col(a) == <<[name |-> a, value |-> Value(a, row.key)]>>
           valid(a) == Unless(a \in row.nulls, col(a))
           packed(a) == Unless(a \in row.nulls \/ (row.tooLong /\ a \in Prefix), col(a))
           vs == [i \in DOMAIN Attributes |-> valid(Attributes[i])]
           ps == [i \in DOMAIN Attributes |-> packed(Attributes[i])]
<1>1. PICK n : n = Len(Attributes)
  OBVIOUS
<1>2. n \in Nat /\ DOMAIN Attributes = 1..n
  BY <1>1, AttributesAre
<1>3. ASSUME NEW i \in 1..n
      PROVE  /\ Sequence(vs[i]) /\ Sequence(ps[i]) /\ Len(ps[i]) <= Len(vs[i])
             /\ \A k \in 1..Len(ps[i]) : FormedColumn(ps[i][k])
  <2>1. PICK a, c, one : a = Attributes[i] /\ c = [name |-> a, value |-> Value(a, row.key)] /\ one = <<c>>
    OBVIOUS
  <2>2. FormedColumn(c)
    <3>1. a \notin {"_table", "_key", "_action"}
      BY <1>2, <2>1, AttributesAre
    <3>2. c.name = a /\ c.value = Value(a, row.key)
      BY <2>1
    <3> QED
      BY <3>1, <3>2, ValueFormed DEF FormedColumn
  <2>3. Sequence(one) /\ Len(one) = 1 /\ one[1] = c /\ Sequence(<<>>) /\ Len(<<>>) = 0
    BY <2>1, OneSequence, EmptySequence
  <2>4. /\ vs[i] = IF a \in row.nulls THEN <<>> ELSE one
        /\ ps[i] = IF a \in row.nulls \/ (row.tooLong /\ a \in Prefix) THEN <<>> ELSE one
    BY <1>2, <2>1 DEF Unless
  <2> HIDE DEF vs, ps
  <2>5. CASE a \in row.nulls
    BY <2>3, <2>4, <2>5
  <2>6. CASE a \notin row.nulls /\ row.tooLong /\ a \in Prefix
    BY <2>3, <2>4, <2>6
  <2>7. CASE a \notin row.nulls /\ ~(row.tooLong /\ a \in Prefix)
    <3>1. vs[i] = one /\ ps[i] = one
      BY <2>4, <2>7
    <3>2. Len(ps[i]) = 1 /\ Len(vs[i]) = 1
      BY <2>3, <3>1
    <3>3. ASSUME NEW k \in 1..Len(ps[i]) PROVE FormedColumn(ps[i][k])
      <4>1. k = 1
        BY <3>2
      <4>2. ps[i][k] = c
        BY <2>3, <3>1, <4>1
      <4> QED
        BY <2>2, <4>2
    <3> QED
      BY <2>3, <3>1, <3>2, <3>3
  <2> QED
    BY <2>5, <2>6, <2>7
<1>4. Parts(vs, n) /\ Parts(ps, n)
  <2>1. vs = [i \in 1..n |-> vs[i]] /\ ps = [i \in 1..n |-> ps[i]]
    BY <1>2
  <2> HIDE DEF vs, ps
  <2> QED
    BY <1>3, <2>1 DEF Parts
<1>5. RowTuple(row) = Tuple(1 + Len(FlattenSeq(vs)), row.key, FlattenSeq(ps))
  BY DEF RowTuple, Steps
<1> HIDE DEF vs, ps
<1> DEFINE S == {x \in UNION {{ps[i][k] : k \in 1..Len(ps[i])} : i \in 1..n} : FormedColumn(x)}
<1>6. Sequence(FlattenSeq(ps)) /\ \A k \in 1..Len(FlattenSeq(ps)) : FormedColumn(FlattenSeq(ps)[k])
  <2>1. ASSUME NEW i \in 1..n, NEW k \in 1..Len(ps[i]) PROVE ps[i][k] \in S
    BY <1>3
  <2>2. Sequence(FlattenSeq(ps)) /\ \A k \in 1..Len(FlattenSeq(ps)) : FlattenSeq(ps)[k] \in S
    <3> HIDE DEF S
    <3> QED
      BY <1>2, <1>4, <2>1, FlatElements
  <2> QED
    BY <2>2
<1>7. PICK p, v : p = FlattenSeq(ps) /\ v = FlattenSeq(vs)
  OBVIOUS
<1>8. Sequence(p) /\ Sequence(v)
  BY <1>2, <1>4, <1>6, <1>7, FlatSequence
<1>9. Len(p) <= Len(v)
  BY <1>2, <1>3, <1>4, <1>7, FlatLonger
<1>10. Len(p) \in Nat /\ Len(v) \in Nat
  BY <1>8, ConcatElements
<1>11. RowTuple(row).announced = 1 + Len(v) /\ RowTuple(row).cols = p
  BY <1>5, <1>7 DEF Tuple
<1> QED
  BY <1>6, <1>7, <1>9, <1>10, <1>11 DEF FormedTuple

LEMMA InsertStep ==
  ASSUME NEW table, NEW tuple, FormedTuple(tuple), NEW wals
  PROVE  FormedStep(Step(InsertOp(table, tuple), wals))
<1>1. PICK op : op = InsertOp(table, tuple)
  OBVIOUS
<1>2. op.action = "insert" /\ op.tuple = tuple
  BY <1>1 DEF InsertOp
<1>3. FormedOp(op)
  BY <1>2 DEF FormedOp, Operations
<1>4. Step(op, wals).op = op
  BY DEF Step
<1> QED
  BY <1>1, <1>2, <1>3, <1>4 DEF FormedStep

LEMMA LocalRowStep ==
  ASSUME NEW table, NEW n
  PROVE  FormedStep(LocalRow(table, n))
<1>1. PICK c, cols, tuple :
        /\ c = [name |-> "value", value |-> Bulk("Text", n)] /\ cols = <<c>>
        /\ tuple = Tuple(2, n, cols)
  OBVIOUS
<1>2. Sequence(cols) /\ Len(cols) = 1 /\ cols[1] = c
  BY <1>1, OneSequence
<1>3. FormedColumn(c)
  <2>1. c.name = "value" /\ c.value = Bulk("Text", n)
    BY <1>1
  <2>2. FormedValue(Bulk("Text", n))
    BY DEF FormedValue
  <2> QED
    BY <2>1, <2>2 DEF FormedColumn
<1>4. tuple.announced = 2 /\ tuple.cols = cols
  BY <1>1 DEF Tuple
<1>5. FormedTuple(tuple)
  <2>1. ASSUME NEW i \in 1..Len(cols) PROVE FormedColumn(cols[i])
    <3>1. cols[i] = c
      BY <1>2
    <3> QED
      BY <1>3, <3>1
  <2>2. \A i \in 1..Len(tuple.cols) : FormedColumn(tuple.cols[i])
    BY <1>4, <2>1
  <2>3. tuple.announced \in Nat /\ tuple.announced >= Len(tuple.cols) + 1
    <3>1. PICK x, l : x = tuple.announced /\ l = Len(tuple.cols)
      OBVIOUS
    <3>2. x = 2
      BY <1>4, <3>1
    <3>3. l = 1
      BY <1>2, <1>4, <3>1
    <3> QED
      BY <3>1, <3>2, <3>3
  <2> QED
    BY <1>2, <1>4, <2>2, <2>3 DEF FormedTuple
<1> QED
  BY <1>1, <1>5, InsertStep DEF LocalRow

LEMMA SetSourceStepsFormed ==
  ASSUME NEW n
  PROVE  FormedSteps(SetSourceSteps(n))
<1> DEFINE set(a) == Unless(a \in Included,
             <<Logged(SetSourcesOp(<<LexiconFor(n, a), IndexColumn>>, <<<<Building(n), a>>>>))>>)
           ss == [i \in DOMAIN Attributes |-> set(Attributes[i])]
<1>1. ASSUME NEW a PROVE FormedSteps(set(a))
  <2>1. PICK column, source, sources, op :
          /\ column = <<LexiconFor(n, a), IndexColumn>> /\ source = <<Building(n), a>> /\ sources = <<source>>
          /\ op = SetSourcesOp(column, sources)
    OBVIOUS
  <2>2. column # None /\ source # None
    <3>1. Len(column) = 2 /\ Len(source) = 2 /\ Len(None) = 1
      BY <2>1 DEF None
    <3> QED
      BY <3>1
  <2>3. Sequence(sources) /\ Len(sources) = 1 /\ sources[1] = source
    BY <2>1, OneSequence
  <2>4. op.action = "set_sources" /\ op.column = column /\ op.sources = sources
    BY <2>1 DEF SetSourcesOp
  <2>5. FormedSources(op)
    <3>1. \A i \in 1..1 : i = 1
      OBVIOUS
    <3> QED
      BY <2>2, <2>3, <2>4, <3>1 DEF FormedSources
  <2>6. FormedOp(op)
    BY <2>4, <2>5 DEF FormedOp, Operations
  <2>7. FormedStep(Logged(op))
    <3>1. Logged(op).op = op
      BY DEF Logged, Step
    <3> QED
      BY <2>4, <2>6, <3>1 DEF FormedStep
  <2>8. FormedSteps(<<Logged(op)>>)
    BY <2>7, OneStep
  <2> QED
    BY <2>1, <2>8, UnlessSteps
<1>2. ss = [i \in DOMAIN Attributes |-> ss[i]] /\ \A i \in DOMAIN Attributes : FormedSteps(ss[i])
  <2> HIDE DEF set
  <2> QED
    BY <1>1
<1>3. SetSourceSteps(n) = FlattenSeq(ss)
  BY DEF SetSourceSteps, Steps
<1> HIDE DEF ss
<1> QED
  BY <1>2, <1>3, AttributesAre, FlatSteps

LEMMA CopySourceSteps ==
  ASSUME NEW n, NEW rows, Sequence(rows)
  PROVE  FormedSteps(CopySource(n, rows))
<1> DEFINE row(r) == <<InsertRow(Building(n), r)>>
           ss == [i \in DOMAIN rows |-> row(rows[i])]
<1>1. ASSUME NEW r PROVE FormedSteps(row(r))
  <2>1. FormedTuple(RowTuple(r))
    BY RowFormed
  <2>2. FormedStep(InsertRow(Building(n), r))
    BY <2>1, InsertStep DEF InsertRow, Logged
  <2> QED
    BY <2>2, OneStep
<1>2. ss = [i \in DOMAIN rows |-> ss[i]] /\ \A i \in DOMAIN rows : FormedSteps(ss[i])
  <2> HIDE DEF row
  <2> QED
    BY <1>1
<1>3. PICK e : e = IF mode = "custom" THEN <<Step(BulkInsertOp(Building(n), <<>>), {"custom"})>> ELSE <<>>
  OBVIOUS
<1>4. FormedSteps(e)
  <2>1. PICK op, step : op = BulkInsertOp(Building(n), <<>>) /\ step = Step(op, {"custom"})
    OBVIOUS
  <2>2. op.action = "bulk_insert" /\ op.tuples = <<>> /\ step.op = op /\ step.wals = {"custom"}
    BY <2>1 DEF BulkInsertOp, Step
  <2>3. FormedTuples(<<>>)
    BY EmptySequence DEF FormedTuples
  <2>4. FormedOp(op)
    BY <2>2, <2>3 DEF FormedOp, Operations
  <2>5. FormedStep(step)
    BY <2>2, <2>4 DEF FormedStep
  <2> QED
    BY <1>3, <2>1, <2>5, NoSteps, OneStep
<1>5. CopySource(n, rows) = FlattenSeq(ss) \o e
  BY <1>3 DEF CopySource, Steps
<1>6. FormedSteps(FlattenSeq(ss))
  <2> HIDE DEF ss
  <2> QED
    BY <1>2, FlatSteps
<1> HIDE DEF ss
<1>7. PICK f : f = FlattenSeq(ss)
  OBVIOUS
<1>8. FormedSteps(f \o e)
  BY <1>4, <1>6, <1>7, MoreSteps
<1> QED
  BY <1>5, <1>7, <1>8

LEMMA BuildStepsFormed ==
  ASSUME NEW n, NEW rows, Sequence(rows), NEW exists
  PROVE  FormedSteps(BuildSteps(n, rows, exists))
<1> DEFINE attribute(a) == CreateAttribute(n, a)
           ss == [i \in DOMAIN Attributes |-> attribute(Attributes[i])]
<1>1. PICK a, b, c, d, e, f :
        /\ a = (IF exists THEN RemoveUnusedTable(n, Both) ELSE <<>>)
        /\ b = <<Logged(CreateTableOp(Building(n), Type("UInt64"), None, space[n]))>>
        /\ c = FlattenSeq(ss)
        /\ d = CopySource(n, rows)
        /\ e = SetSourceSteps(n)
        /\ f = <<Logged(RenameTableOp(Building(n), Sources(n))), AliasAdd(n), UpdateMaxRecordSize(n)>>
  OBVIOUS
<1>2. BuildSteps(n, rows, exists) = ((((a \o b) \o c) \o d) \o e) \o f
  BY <1>1 DEF BuildSteps, Steps
<1>3. FormedSteps(a)
  BY <1>1, RemoveSteps, NoSteps
<1>4. FormedSteps(b)
  BY <1>1, NameSteps, OneStep DEF Logged
<1>5. FormedSteps(c)
  <2>1. ss = [i \in DOMAIN Attributes |-> ss[i]] /\ \A i \in DOMAIN Attributes : FormedSteps(ss[i])
    BY CreateAttributeSteps
  <2> HIDE DEF ss
  <2> QED
    BY <1>1, <2>1, AttributesAre, FlatSteps
<1> HIDE DEF ss
<1>6. FormedSteps(d) /\ FormedSteps(e)
  BY <1>1, CopySourceSteps, SetSourceStepsFormed
<1>7. FormedSteps(f)
  <2>1. PICK x, y, z : x = Logged(RenameTableOp(Building(n), Sources(n))) /\ y = AliasAdd(n) /\ z = UpdateMaxRecordSize(n)
    OBVIOUS
  <2>2. FormedStep(x) /\ FormedStep(y) /\ FormedStep(z)
    BY <2>1, NameSteps, LocalRowStep DEF Logged, AliasAdd, UpdateMaxRecordSize
  <2>3. Sequence(<<x, y, z>>) /\ Len(<<x, y, z>>) = 3
    BY Out3
  <2>4. \A k \in 1..3 : FormedStep(<<x, y, z>>[k])
    <3>1. \A k \in 1..3 : k = 1 \/ k = 2 \/ k = 3
      OBVIOUS
    <3>2. <<x, y, z>>[1] = x /\ <<x, y, z>>[2] = y /\ <<x, y, z>>[3] = z
      OBVIOUS
    <3> QED
      BY <2>2, <3>1, <3>2
  <2>5. FormedSteps(<<x, y, z>>)
    BY <2>3, <2>4 DEF FormedSteps
  <2> QED
    BY <1>1, <2>1, <2>5
<1>8. PICK s2, s3, s4, s5 : s2 = a \o b /\ s3 = s2 \o c /\ s4 = s3 \o d /\ s5 = s4 \o e
  OBVIOUS
<1>9. FormedSteps(s2)
  BY <1>3, <1>4, <1>8, MoreSteps
<1>10. FormedSteps(s3)
  BY <1>5, <1>8, <1>9, MoreSteps
<1>11. FormedSteps(s4)
  BY <1>6, <1>8, <1>10, MoreSteps
<1>12. FormedSteps(s5)
  BY <1>6, <1>8, <1>11, MoreSteps
<1>13. FormedSteps(s5 \o f)
  BY <1>7, <1>12, MoreSteps
<1> QED
  BY <1>2, <1>8, <1>13

-----------------------------------------------------------------------------
(* The invariant: what the scripts, the buffers and the streams hold is    *)
(* formed, and the databases of the standby are.                           *)

LEMMA InitialFormed ==
  ASSUME NEW d
  PROVE  FormedDB(InitialDB(d))
<1> DEFINE local == [t \in {Aliases, IndexStatuses} |->
                       [NewTable(Type("ShortText"), {}) EXCEPT
                          !.cols = With(NoFunction, "value", NewColumn(Type("ShortText")))]]
           build(n) == Unless(Home[n] # d, BuildSteps(n, <<>>, FALSE))
           ss == [i \in DOMAIN Built |-> build(Built[i])]
<1>1. FormedDB([EmptyDB EXCEPT !.tables = local])
  <2>1. FormedDB(EmptyDB)
    BY DEF FormedDB, EmptyDB, NoFunction
  <2>2. ASSUME NEW t \in DOMAIN local PROVE {"cols", "rows"} \subseteq DOMAIN local[t]
    <3>1. PICK cols : cols = With(NoFunction, "value", NewColumn(Type("ShortText")))
      OBVIOUS
    <3>2. local[t] = [NewTable(Type("ShortText"), {}) EXCEPT !.cols = cols]
      BY <3>1
    <3>3. {"cols", "rows"} \subseteq DOMAIN NewTable(Type("ShortText"), {})
      BY DEF NewTable
    <3> QED
      BY <3>2, <3>3
  <2> HIDE DEF local
  <2> QED
    BY <2>1, <2>2, OtherTables
<1>2. PICK base : base = [db |-> [EmptyDB EXCEPT !.tables = local], by |-> d]
  OBVIOUS
<1>3. base.db = [EmptyDB EXCEPT !.tables = local] /\ "db" \in DOMAIN base
  BY <1>2
<1>4. InitialDB(d) = FoldLeft(PerformStep, base, FlattenSeq(ss)).db
  BY <1>2 DEF InitialDB, Steps
<1> HIDE DEF local
<1>5. FormedSteps(FlattenSeq(ss))
  <2>1. \A n : FormedSteps(build(n))
    BY BuildStepsFormed, EmptySequence, UnlessSteps
  <2>2. ss = [i \in DOMAIN Built |-> ss[i]] /\ \A i \in DOMAIN Built : FormedSteps(ss[i])
    <3> HIDE DEF build
    <3> QED
      BY <2>1
  <2>3. Sequence(Built)
    BY ObjectsAssumption DEF Sequence
  <2> HIDE DEF ss
  <2> QED
    BY <2>2, <2>3, FlatSteps
<1> HIDE DEF ss
<1>6. PICK steps, l : steps = FlattenSeq(ss) /\ l = Len(steps)
  OBVIOUS
<1>7. /\ l \in Nat /\ DOMAIN steps = 1..l
      /\ \A k \in 1..l : FormedOp(steps[k].op)
  <2>1. PICK R : steps \in Seq(R)
    BY <1>5, <1>6 DEF FormedSteps, Sequence
  <2> QED
    BY <1>5, <1>6, <2>1, LenProperties DEF FormedSteps, FormedStep
<1>8. PICK run : /\ run[0] = base
                 /\ \A i \in 1..l : run[i] = PerformStep(run[i - 1], steps[i])
                 /\ run[l] = FoldLeft(PerformStep, base, steps)
  BY <1>7, PerformStepRuns
<1> DEFINE S == {i \in 0..l : "db" \in DOMAIN run[i] /\ FormedDB(run[i].db)}
<1>9. 0 \in S
  BY <1>1, <1>3, <1>7, <1>8
<1>10. ASSUME NEW i \in 0..l - 1, i \in S
       PROVE  i + 1 \in S
  <2>1. i + 1 \in 1..l /\ (i + 1) - 1 = i /\ i + 1 \in 0..l
    BY <1>7
  <2>2. PICK s, op, x : s = run[i] /\ op = steps[i + 1].op /\ x = Perform(s.by, s.db, op)
    OBVIOUS
  <2>3. "db" \in DOMAIN s /\ FormedDB(s.db) /\ op.action \in Operations
    BY <1>7, <1>10, <2>1, <2>2 DEF FormedOp
  <2>4. FormedDB(x)
    BY <2>2, <2>3, PerformKeeps
  <2>5. run[i + 1] = [s EXCEPT !.db = x]
    BY <1>8, <2>1, <2>2 DEF PerformStep
  <2> QED
    BY <2>1, <2>3, <2>4, <2>5
<1>11. l \in S
  <2>1. l \in 0..l
    BY <1>7
  <2> HIDE DEF S
  <2> QED
    BY <1>7, <1>9, <1>10, <2>1, Upwards
<1> QED
  BY <1>4, <1>6, <1>8, <1>11

FormedRecord(record) ==
  /\ record.db \in Databases
  /\ mode = "custom" => CustomRecord(record)
  /\ mode = "generic" => GenericRecord(record)
FormedStream(s) == Sequence(s) /\ \A i \in 1..Len(s) : FormedRecord(s[i])

RecordsInv ==
  /\ mode \in {"custom", "generic"}
  /\ DOMAIN script = Databases /\ \A d \in Databases : FormedSteps(script[d])
  /\ DOMAIN bulk = Databases /\ \A d \in Databases : FormedTuples(bulk[d])
  /\ DOMAIN stream = Channels /\ \A c \in Channels : FormedStream(stream[c])
  /\ DOMAIN standby = Databases /\ \A d \in Databases : FormedDB(standby[d])
  /\ DOMAIN applied = Channels /\ \A c \in Channels : applied[c] \in Nat

LEMMA RecordsInit ==
  Init => RecordsInv
<1> SUFFICES ASSUME Init PROVE RecordsInv
  OBVIOUS
<1>1. mode \in {"custom", "generic"}
  BY ObjectsAssumption DEF Init
<1>2. DOMAIN script = Databases /\ \A d \in Databases : FormedSteps(script[d])
  BY NoSteps DEF Init
<1>3. DOMAIN bulk = Databases /\ \A d \in Databases : FormedTuples(bulk[d])
  <2>1. FormedTuples(<<>>)
    BY EmptySequence DEF FormedTuples
  <2> QED
    BY <2>1 DEF Init
<1>4. DOMAIN stream = Channels /\ \A c \in Channels : FormedStream(stream[c])
  <2>1. FormedStream(<<>>)
    BY EmptySequence DEF FormedStream
  <2> QED
    BY <2>1 DEF Init
<1>5. DOMAIN standby = Databases /\ \A d \in Databases : FormedDB(standby[d])
  BY InitialFormed DEF Init
<1>6. DOMAIN applied = Channels /\ \A c \in Channels : applied[c] \in Nat
  BY DEF Init
<1> QED
  BY <1>1, <1>2, <1>3, <1>4, <1>5, <1>6 DEF RecordsInv

\* A record of a formed operation.
LEMMA NewRecord ==
  ASSUME RecordsInv, NEW d \in Databases, NEW op, FormedOp(op),
         mode = "generic" => op.action # "bulk_insert"
  PROVE  FormedRecord(IF mode = "custom" THEN Record(d, op) ELSE ObjectRecord(d, op))
<1>1. d # NoDatabase
  BY ObjectsAssumption
<1>2. CASE mode = "custom"
  <2>1. PICK r : r = Record(d, op)
    OBVIOUS
  <2>2. r.db = d /\ r.action = op.action /\ r.cells = CustomWrite(d, op) /\ r.op = op
    BY <2>1 DEF Record
  <2>3. CustomRecord(r)
    BY <1>1, <2>2 DEF CustomRecord
  <2> QED
    BY <1>2, <2>1, <2>2, <2>3 DEF FormedRecord
<1>3. CASE mode = "generic"
  <2>1. PICK r : r = ObjectRecord(d, op)
    OBVIOUS
  <2>2. r.db = d /\ r.object = GenericWrite(op) /\ r.op = op
    BY <2>1 DEF ObjectRecord
  <2>3. GenericRecord(r)
    BY <1>1, <1>3, <2>2 DEF GenericRecord
  <2> QED
    BY <1>3, <2>1, <2>2, <2>3 DEF FormedRecord
<1> QED
  BY <1>2, <1>3 DEF RecordsInv

LEMMA EmitKeeps ==
  ASSUME RecordsInv, NEW d \in Databases, NEW n, NEW op, FormedOp(op),
         mode = "generic" => op.action # "bulk_insert", Emit(d, n, op)
  PROVE  DOMAIN stream' = Channels /\ \A c \in Channels : FormedStream(stream'[c])
<1>1. PICK r, k : /\ r = (IF mode = "custom" THEN Record(d, op) ELSE ObjectRecord(d, op))
                  /\ k = Channel(n)
  OBVIOUS
<1>2. stream' = [stream EXCEPT ![k] = Append(@, r)]
  BY <1>1 DEF Emit
<1>3. FormedRecord(r)
  BY <1>1, NewRecord
<1>4. ASSUME NEW c \in Channels PROVE FormedStream(stream'[c])
  <2>1. PICK s : s = stream[c]
    OBVIOUS
  <2>2. FormedStream(s)
    BY <2>1 DEF RecordsInv
  <2>3. CASE c = k
    <3>1. stream'[c] = Append(s, r)
      BY <1>2, <2>1, <2>3 DEF RecordsInv
    <3>2. PICK more : more = Append(s, r)
      OBVIOUS
    <3>3. /\ Sequence(more) /\ Len(more) = Len(s) + 1 /\ Len(s) \in Nat
          /\ more[Len(s) + 1] = r
          /\ \A i \in 1..Len(s) : more[i] = s[i]
      BY <2>2, <3>2, AppendSequence DEF FormedStream
    <3>4. ASSUME NEW i \in 1..Len(s) + 1 PROVE FormedRecord(more[i])
      <4>1. CASE i = Len(s) + 1
        BY <1>3, <3>3, <4>1
      <4>2. CASE i # Len(s) + 1
        <5>1. i \in 1..Len(s)
          BY <3>3, <4>2
        <5>2. FormedRecord(s[i])
          BY <2>2, <5>1 DEF FormedStream
        <5> QED
          BY <3>3, <5>1, <5>2
      <4> QED
        BY <4>1, <4>2
    <3> QED
      BY <3>1, <3>2, <3>3, <3>4 DEF FormedStream
  <2>4. CASE c # k
    BY <1>2, <2>1, <2>2, <2>4 DEF RecordsInv
  <2> QED
    BY <2>3, <2>4
<1> QED
  BY <1>2, <1>4 DEF RecordsInv

\* The operation of a step, the tuples of a buffer.
LEMMA WriteKeeps ==
  ASSUME RecordsInv, NEW d \in Databases, NEW step, FormedStep(step), Write(d, step)
  PROVE  /\ DOMAIN stream' = Channels /\ \A c \in Channels : FormedStream(stream'[c])
         /\ DOMAIN bulk' = Databases /\ \A e \in Databases : FormedTuples(bulk'[e])
<1>1. PICK op, table : op = step.op /\ table = op.table
  OBVIOUS
<1>2. FormedOp(op) /\ (op.action = "bulk_insert" => "generic" \notin step.wals)
  BY <1>1 DEF FormedStep
<1>3. /\ DOMAIN stream = Channels /\ \A c \in Channels : FormedStream(stream[c])
      /\ DOMAIN bulk = Databases /\ \A e \in Databases : FormedTuples(bulk[e])
  BY DEF RecordsInv
<1>4. FormedOp(BulkInsertOp(table, bulk[d])) /\ BulkInsertOp(table, bulk[d]).action = "bulk_insert"
  <2>1. PICK b : b = BulkInsertOp(table, bulk[d])
    OBVIOUS
  <2>2. b.action = "bulk_insert" /\ b.tuples = bulk[d]
    BY <2>1 DEF BulkInsertOp
  <2> QED
    BY <1>3, <2>1, <2>2 DEF FormedOp, Operations
<1>5. FormedTuples(<<>>)
  BY EmptySequence DEF FormedTuples
<1>6. CASE mode \notin step.wals
  BY <1>3, <1>6 DEF Write
<1>7. CASE mode \in step.wals /\ op.action = "insert" /\ mode = "custom" /\ Bulking(d)
  <2>1. BulkInsert(d, op)
    BY <1>1, <1>7 DEF Write
  <2>2. FormedTuple(op.tuple)
    BY <1>2, <1>7 DEF FormedOp
  <2>3. PICK t, one : t = op.tuple /\ one = <<t>>
    OBVIOUS
  <2>4. CASE Len(bulk[d]) > MaxBulkTuples
    <3>1. Emit(d, owner[d], BulkInsertOp(table, bulk[d])) /\ bulk' = [bulk EXCEPT ![d] = one]
      BY <1>1, <2>1, <2>3, <2>4 DEF BulkInsert
    <3>2. FormedTuples(one)
      <4>1. Sequence(one) /\ Len(one) = 1 /\ one[1] = t
        BY <2>3, OneSequence
      <4>2. ASSUME NEW i \in 1..Len(one) PROVE FormedTuple(one[i])
        <5>1. one[i] = t
          BY <4>1
        <5> QED
          BY <2>2, <2>3, <5>1
      <4> QED
        BY <4>1, <4>2 DEF FormedTuples
    <3>3. DOMAIN stream' = Channels /\ \A c \in Channels : FormedStream(stream'[c])
      BY <1>4, <1>7, <3>1, EmitKeeps
    <3>4. DOMAIN bulk' = Databases /\ \A e \in Databases : FormedTuples(bulk'[e])
      BY <1>3, <3>1, <3>2
    <3> QED
      BY <3>3, <3>4
  <2>5. CASE ~(Len(bulk[d]) > MaxBulkTuples)
    <3>1. UNCHANGED stream /\ bulk' = [bulk EXCEPT ![d] = Append(@, t)]
      BY <2>1, <2>3, <2>5 DEF BulkInsert
    <3>2. PICK b, more : b = bulk[d] /\ more = Append(b, t)
      OBVIOUS
    <3>3. FormedTuples(b)
      BY <1>3, <3>2
    <3>4. /\ Sequence(more) /\ Len(more) = Len(b) + 1 /\ Len(b) \in Nat
          /\ more[Len(b) + 1] = t
          /\ \A i \in 1..Len(b) : more[i] = b[i]
      BY <3>2, <3>3, AppendSequence DEF FormedTuples
    <3>5. ASSUME NEW i \in 1..Len(b) + 1 PROVE FormedTuple(more[i])
      <4>1. CASE i = Len(b) + 1
        BY <2>2, <2>3, <3>4, <4>1
      <4>2. CASE i # Len(b) + 1
        <5>1. i \in 1..Len(b)
          BY <3>4, <4>2
        <5>2. FormedTuple(b[i])
          BY <3>3, <5>1 DEF FormedTuples
        <5> QED
          BY <3>4, <5>1, <5>2
      <4> QED
        BY <4>1, <4>2
    <3>6. FormedTuples(more)
      BY <3>4, <3>5 DEF FormedTuples
    <3>7. DOMAIN bulk' = Databases /\ \A e \in Databases : FormedTuples(bulk'[e])
      BY <1>3, <3>1, <3>2, <3>6
    <3> QED
      BY <1>3, <3>1, <3>7
  <2> QED
    BY <2>4, <2>5
<1>8. CASE mode \in step.wals /\ ~(op.action = "insert" /\ mode = "custom" /\ Bulking(d)) /\ op.action = "bulk_insert"
  <2>1. Emit(d, owner[d], BulkInsertOp(table, bulk[d])) /\ bulk' = [bulk EXCEPT ![d] = <<>>]
    BY <1>1, <1>8 DEF Write
  <2>2. mode # "generic"
    BY <1>2, <1>8
  <2>3. DOMAIN stream' = Channels /\ \A c \in Channels : FormedStream(stream'[c])
    BY <1>4, <2>1, <2>2, EmitKeeps
  <2>4. DOMAIN bulk' = Databases /\ \A e \in Databases : FormedTuples(bulk'[e])
    BY <1>3, <1>5, <2>1
  <2> QED
    BY <2>3, <2>4
<1>9. CASE mode \in step.wals /\ ~(op.action = "insert" /\ mode = "custom" /\ Bulking(d)) /\ op.action # "bulk_insert"
  <2>1. Emit(d, owner[d], op) /\ UNCHANGED bulk
    BY <1>1, <1>9 DEF Write
  <2>2. DOMAIN stream' = Channels /\ \A c \in Channels : FormedStream(stream'[c])
    BY <1>2, <1>9, <2>1, EmitKeeps
  <2> QED
    BY <1>3, <2>1, <2>2
<1> QED
  BY <1>6, <1>7, <1>8, <1>9

\* A new script begins with an empty buffer.
LEMMA BeginKeeps ==
  ASSUME RecordsInv, NEW n, NEW steps, FormedSteps(steps), Begin(n, steps),
         UNCHANGED <<mode, stream, standby, applied>>
  PROVE  RecordsInv'
<1>1. FormedTuples(<<>>)
  BY EmptySequence DEF FormedTuples
<1>2. DOMAIN script' = Databases /\ \A d \in Databases : FormedSteps(script'[d])
  BY DEF Begin, RecordsInv
<1>3. DOMAIN bulk' = Databases /\ \A d \in Databases : FormedTuples(bulk'[d])
  BY <1>1 DEF Begin, RecordsInv
<1>4. DOMAIN stream' = Channels /\ \A c \in Channels : FormedStream(stream[c])'
  BY DEF RecordsInv, FormedStream, FormedRecord
<1> QED
  BY <1>2, <1>3, <1>4 DEF RecordsInv

LEMMA ProceedKeeps ==
  ASSUME RecordsInv, NEW d \in Databases, Proceed(d)
  PROVE  RecordsInv'
<1>1. PICK s, step : s = script[d] /\ step = Head(s)
  OBVIOUS
<1>2. /\ s # <<>> /\ Write(d, step) /\ script' = [script EXCEPT ![d] = Tail(s)]
      /\ UNCHANGED <<mode, standby, applied>>
  BY <1>1 DEF Proceed, Idle, config, standbyVars
<1>3. FormedSteps(s)
  BY <1>1 DEF RecordsInv
<1>4. /\ Sequence(Tail(s)) /\ Len(s) \in Nat /\ Len(s) >= 1 /\ Len(Tail(s)) = Len(s) - 1
      /\ Head(s) = s[1] /\ \A i \in 1..Len(s) - 1 : Tail(s)[i] = s[i + 1]
  BY <1>2, <1>3, HeadTail DEF FormedSteps
<1>5. FormedStep(step)
  BY <1>1, <1>3, <1>4 DEF FormedSteps
<1>6. FormedSteps(Tail(s))
  <2>1. ASSUME NEW i \in 1..Len(s) - 1 PROVE FormedStep(Tail(s)[i])
    <3>1. i + 1 \in 1..Len(s)
      BY <1>4
    <3>2. FormedStep(s[i + 1])
      BY <1>3, <3>1 DEF FormedSteps
    <3> QED
      BY <1>4, <3>2
  <2> QED
    BY <1>4, <2>1 DEF FormedSteps
<1>7. DOMAIN script' = Databases /\ \A e \in Databases : FormedSteps(script'[e])
  <2>1. PICK t : t = Tail(s)
    OBVIOUS
  <2> QED
    BY <1>2, <1>6, <2>1 DEF RecordsInv
<1>8. /\ DOMAIN stream' = Channels /\ \A c \in Channels : FormedStream(stream'[c])
      /\ DOMAIN bulk' = Databases /\ \A e \in Databases : FormedTuples(bulk'[e])
  BY <1>2, <1>5, WriteKeeps
<1>9. \A c \in Channels : FormedStream(stream[c])'
  BY <1>2, <1>8 DEF FormedStream, FormedRecord
<1> QED
  BY <1>2, <1>7, <1>8, <1>9 DEF RecordsInv

LEMMA ApplyKeepsForm ==
  ASSUME RecordsInv, NEW c \in Channels, Apply(c)
  PROVE  RecordsInv'
<1>1. PICK record, d, result :
        record = NextRecord(c) /\ d = DatabaseOf(record) /\ result = Outcome(d, record)
  OBVIOUS
<1>2. /\ applied[c] < Len(stream[c])
      /\ standby' = [standby EXCEPT ![d] = result.db]
      /\ applied' = [applied EXCEPT ![c] = IF result.ok THEN @ + 1 ELSE @]
      /\ UNCHANGED <<mode, script, bulk, stream>>
  BY <1>1 DEF Apply, config, primaryVars, wal
<1>3. FormedRecord(record)
  <2>1. FormedStream(stream[c]) /\ applied[c] \in Nat
    BY DEF RecordsInv
  <2>2. Len(stream[c]) \in Nat
    BY <2>1, ConcatElements DEF FormedStream
  <2>3. applied[c] + 1 \in 1..Len(stream[c])
    BY <1>2, <2>1, <2>2
  <2> QED
    BY <1>1, <2>1, <2>3 DEF FormedStream, NextRecord
<1>4. d = record.db
  BY <1>1 DEF DatabaseOf, RedoSetup
<1>5. d \in Databases /\ FormedDB(standby[d])
  BY <1>3, <1>4 DEF FormedRecord, RecordsInv
<1>6. FormedDB(result.db)
  <2>1. CASE mode = "custom"
    <3>1. result = Redo(standby[d], record.action, record.cells)
      BY <1>1, <2>1 DEF Outcome
    <3> QED
      BY <1>3, <1>5, <2>1, <3>1, RecordKeeps DEF FormedRecord
  <2>2. CASE mode = "generic"
    <3>1. result = ApplyObject(record.db, standby[d], record.object)
      BY <1>1, <1>4, <2>2 DEF Outcome
    <3> QED
      BY <1>3, <1>5, <2>2, <3>1, ObjectKeeps DEF FormedRecord
  <2> QED
    BY <2>1, <2>2 DEF RecordsInv
<1>7. DOMAIN standby' = Databases /\ \A e \in Databases : FormedDB(standby'[e])
  BY <1>2, <1>6 DEF RecordsInv
<1>8. DOMAIN applied' = Channels /\ \A e \in Channels : applied'[e] \in Nat
  BY <1>2 DEF RecordsInv
<1>9. DOMAIN stream' = Channels /\ \A e \in Channels : FormedStream(stream[e])'
  BY <1>2 DEF RecordsInv, FormedStream, FormedRecord
<1> QED
  BY <1>2, <1>7, <1>8, <1>9 DEF RecordsInv

\* Nothing that the invariant is about but the script.
LEMMA OthersKeep ==
  ASSUME RecordsInv, UNCHANGED <<mode, bulk, stream, standby>>,
         DOMAIN script' = Databases /\ \A d \in Databases : FormedSteps(script'[d]),
         DOMAIN applied' = Channels /\ \A c \in Channels : applied'[c] \in Nat
  PROVE  RecordsInv'
<1>1. DOMAIN stream' = Channels /\ \A c \in Channels : FormedStream(stream[c])'
  BY DEF RecordsInv, FormedStream, FormedRecord
<1> QED
  BY <1>1 DEF RecordsInv

LEMMA RecordsNext ==
  RecordsInv /\ [Next]_vars => RecordsInv'
<1> SUFFICES ASSUME RecordsInv, [Next]_vars PROVE RecordsInv'
  OBVIOUS
<1>0. /\ DOMAIN script = Databases /\ \A d \in Databases : FormedSteps(script[d])
      /\ DOMAIN applied = Channels /\ \A c \in Channels : applied[c] \in Nat
  BY DEF RecordsInv
<1>1. ASSUME NEW n, NEW rows \in Contents, CreateIndex(n, rows) PROVE RecordsInv'
  <2>1. Sequence(rows)
    BY ObjectsAssumption DEF Sequence
  <2>2. FormedSteps(BuildScript(n, rows))
    BY <2>1, BuildStepsFormed DEF BuildScript
  <2>3. Begin(n, BuildScript(n, rows)) /\ UNCHANGED <<mode, stream, standby, applied>>
    BY <1>1 DEF CreateIndex, config, standbyVars
  <2> QED
    BY <2>2, <2>3, BeginKeeps
<1>2. ASSUME NEW n, NEW row, Insert(n, row) PROVE RecordsInv'
  <2>1. FormedStep(InsertRow(Sources(n), row))
    BY RowFormed, InsertStep DEF InsertRow, Logged
  <2>2. Begin(n, <<InsertRow(Sources(n), row)>>) /\ UNCHANGED <<mode, stream, standby, applied>>
    BY <1>2 DEF Insert, config, standbyVars
  <2> QED
    BY <2>1, <2>2, OneStep, BeginKeeps
<1>3. ASSUME NEW n, NEW key, Delete(n, key) PROVE RecordsInv'
  <2>1. FormedStep(Logged(DeleteOp(Sources(n), key)))
    BY NameSteps DEF Logged
  <2>2. Begin(n, <<Logged(DeleteOp(Sources(n), key))>>) /\ UNCHANGED <<mode, stream, standby, applied>>
    BY <1>3 DEF Delete, config, standbyVars
  <2> QED
    BY <2>1, <2>2, OneStep, BeginKeeps
<1>4. ASSUME NEW n, Truncate(n) PROVE RecordsInv'
  <2>1. FormedSteps(BuildScript(n, <<>>))
    BY EmptySequence, BuildStepsFormed DEF BuildScript
  <2>2. Begin(n, BuildScript(n, <<>>)) /\ UNCHANGED <<mode, stream, standby, applied>>
    BY <1>4 DEF Truncate, config, standbyVars
  <2> QED
    BY <2>1, <2>2, BeginKeeps
<1>5. ASSUME NEW n, DropIndex(n) PROVE RecordsInv'
  BY <1>0, <1>5, OthersKeep DEF DropIndex, config, wal, standbyVars
<1>6. ASSUME NEW n, Vacuum(n) PROVE RecordsInv'
  <2>1. FormedSteps(RemoveUnusedTable(n, {"custom"}))
    BY RemoveSteps
  <2>2. Begin(n, RemoveUnusedTable(n, {"custom"})) /\ UNCHANGED <<mode, stream, standby, applied>>
    BY <1>6 DEF Vacuum, config, standbyVars
  <2> QED
    BY <2>1, <2>2, BeginKeeps
<1>7. ASSUME NEW d \in Databases, Proceed(d) PROVE RecordsInv'
  BY <1>7, ProceedKeeps
<1>8. ASSUME NEW d \in Databases, BuildError(d) PROVE RecordsInv'
  <2>1. script' = [script EXCEPT ![d] = <<>>] /\ UNCHANGED <<mode, bulk, stream, standby, applied>>
    BY <1>8 DEF BuildError, config, standbyVars
  <2>2. DOMAIN script' = Databases /\ \A e \in Databases : FormedSteps(script'[e])
    BY <1>0, <2>1, NoSteps
  <2> QED
    BY <1>0, <2>1, <2>2, OthersKeep
<1>9. ASSUME NEW c \in Channels, Apply(c) PROVE RecordsInv'
  BY <1>9, ApplyKeepsForm
<1>10. ASSUME NEW c \in Channels, NEW point \in RestartPoints(c), Restart(c, point) PROVE RecordsInv'
  <2>1. applied' = [applied EXCEPT ![c] = point] /\ UNCHANGED <<mode, script, bulk, stream, standby>>
    BY <1>10 DEF Restart, config, primaryVars
  <2>2. point \in Nat
    BY <1>0 DEF RestartPoints
  <2>3. DOMAIN applied' = Channels /\ \A e \in Channels : applied'[e] \in Nat
    BY <1>0, <2>1, <2>2
  <2> QED
    BY <1>0, <2>1, <2>3, OthersKeep
<1>11. CASE UNCHANGED vars
  BY <1>0, <1>11, OthersKeep DEF vars, config, primaryVars, wal, standbyVars
<1> QED
  BY <1>1, <1>2, <1>3, <1>4, <1>5, <1>6, <1>7, <1>8, <1>9, <1>10, <1>11 DEF Next

LEMMA RecordsInvTells ==
  RecordsInv => RecordsTellOperations
<1> SUFFICES ASSUME RecordsInv, NEW c \in Channels, applied[c] < Len(stream[c]),
                    NEW record, record = NextRecord(c),
                    Placed(standby[record.db], record.op), ~ShortTuple(record.op), ~OwnSpace(record.op)
             PROVE  Outcome(DatabaseOf(record), record)
                      = Done(Performed(record.db, standby[record.db], record.op))
  BY DEF RecordsTellOperations
<1>1. FormedRecord(record)
  <2>1. FormedStream(stream[c]) /\ applied[c] \in Nat
    BY DEF RecordsInv
  <2>2. Len(stream[c]) \in Nat
    BY <2>1, ConcatElements DEF FormedStream
  <2>3. applied[c] + 1 \in 1..Len(stream[c])
    BY <2>1, <2>2
  <2> QED
    BY <2>1, <2>3 DEF FormedStream, NextRecord
<1>2. DatabaseOf(record) = record.db
  BY DEF DatabaseOf, RedoSetup
<1>3. PICK db : db = standby[record.db]
  OBVIOUS
<1>4. FormedDB(db) /\ Placed(db, record.op)
  BY <1>1, <1>3 DEF FormedRecord, RecordsInv
<1>5. CASE mode = "custom"
  <2>1. record.op.action \in {"create_table", "create_column"} => record.op.space = DefaultSpace
    BY <1>5 DEF OwnSpace
  <2>2. Redo(db, record.action, record.cells) = Done(Performed(record.db, db, record.op))
    BY <1>1, <1>4, <1>5, <2>1, RecordIsRedone DEF FormedRecord
  <2> QED
    BY <1>2, <1>3, <1>5, <2>2 DEF Outcome
<1>6. CASE mode = "generic"
  <2>1. ApplyObject(record.db, db, record.object) = Done(Performed(record.db, db, record.op))
    BY <1>1, <1>4, <1>6, ObjectIsApplied DEF FormedRecord
  <2> QED
    BY <1>2, <1>3, <1>6, <2>1 DEF Outcome
<1> QED
  BY <1>5, <1>6 DEF RecordsInv

\* What PGrnWAL*, pgrnwrm_redo_* and PGrnWALApply* agree on: whatever the
\* indexes, their attributes and rows and however many databases write, the
\* next record of a stream, of any operation and of either WAL, does to the
\* database of the standby what the operation did on the primary.
THEOREM RecordsAreTold ==
  Spec => []RecordsTellOperations
<1>1. Init => RecordsInv
  BY RecordsInit
<1>2. RecordsInv /\ [Next]_vars => RecordsInv'
  BY RecordsNext
<1>3. RecordsInv => RecordsTellOperations
  BY RecordsInvTells
<1> QED
  BY <1>1, <1>2, <1>3, PTL DEF Spec
=============================================================================
