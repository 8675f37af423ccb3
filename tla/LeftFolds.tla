------------------------------ MODULE LeftFolds ------------------------------
(***************************************************************************)
(* What FoldLeft of SequencesExt computes, for a step op: it runs through  *)
(* the sequence.  FoldLeft is defined with a recursive function on the     *)
(* subsets of the domain; that there is such a function is what takes      *)
(* proof.  An instance is made for each step that is folded.               *)
(***************************************************************************)
EXTENDS Integers, NaturalsInduction, WellFoundedInduction, TLAPS

CONSTANTS
  op(_, _),    \* the step
  Largest(_)   \* the largest number of a set

LargestIs ==
  \A s \in SUBSET Int : \A x \in s : (\A y \in s : x >= y) => Largest(s) = x

\* The recursive function of FoldLeft on the subsets of 1..n.
IsFold(it, base, seq, n) ==
  it = [s \in SUBSET (1..n) |->
          IF s = {} THEN base ELSE op(it[s \ {Largest(s)}], seq[Largest(s)])]

\* FoldLeft(op, base, seq)
Folded(base, seq) ==
  (CHOOSE it :
     it = [s \in SUBSET DOMAIN seq |->
             IF s = {} THEN base ELSE op(it[s \ {Largest(s)}], seq[Largest(s)])])[DOMAIN seq]

Runs(run, base, seq, n) ==
  /\ DOMAIN run = 0..n
  /\ run[0] = base
  /\ \A i \in 1..n : run[i] = op(run[i - 1], seq[i])

\* Induction on a set of numbers.
LEMMA FromZero ==
  ASSUME NEW n \in Nat, NEW S, 0 \in S,
         \A i \in 0..n - 1 : i \in S => i + 1 \in S
  PROVE  \A i \in 0..n : i \in S
<1> DEFINE T == {i \in 0..n : i \notin S}
           R == OpToRel(<, Nat)
<1> SUFFICES ASSUME T # {} PROVE FALSE
  OBVIOUS
<1>1. IsWellFoundedOn(R, Nat)
  BY NatLessThanWellFounded
<1>2. T \subseteq Nat
  OBVIOUS
<1> HIDE DEF R, T
<1>3. PICK i \in T : \A j \in T : <<j, i>> \notin R
  BY <1>1, <1>2, WFMin
<1>4. i \in 0..n /\ i \notin S
  BY <1>3 DEF T
<1>5. i # 0
  BY <1>4
<1>6. i - 1 \in 0..n - 1 /\ i - 1 \in 0..n /\ i = (i - 1) + 1
  BY <1>4, <1>5
<1>7. i - 1 \notin S
  BY <1>4, <1>6
<1>8. i - 1 \in T
  BY <1>6, <1>7 DEF T
<1>9. <<i - 1, i>> \in R
  BY <1>4, <1>6 DEF R, OpToRel
<1> QED
  BY <1>3, <1>8, <1>9

LEMMA FoldExists ==
  ASSUME LargestIs, NEW n \in Nat, NEW base, NEW seq
  PROVE  \E it : IsFold(it, base, seq, n)
<1> DEFINE S == {m \in 0..n : \E it : IsFold(it, base, seq, m)}
<1>1. 0 \in S
  <2> DEFINE it == [s \in SUBSET (1..0) |-> base]
  <2>1. \A s \in SUBSET (1..0) : s = {}
    OBVIOUS
  <2>2. IsFold(it, base, seq, 0)
    BY <2>1 DEF IsFold
  <2> QED
    BY <2>2
<1>2. ASSUME NEW m \in 0..n - 1, m \in S
      PROVE  m + 1 \in S
  <2>1. PICK it : IsFold(it, base, seq, m)
    BY <1>2
  <2> DEFINE next == [s \in SUBSET (1..m + 1) |->
                        IF m + 1 \in s THEN op(it[s \ {m + 1}], seq[m + 1]) ELSE it[s]]
  <2>2. ASSUME NEW s \in SUBSET (1..m + 1)
        PROVE  next[s] = IF s = {} THEN base
                         ELSE op(next[s \ {Largest(s)}], seq[Largest(s)])
    <3>1. CASE m + 1 \in s
      <4>1. Largest(s) = m + 1
        <5>1. s \in SUBSET Int /\ \A y \in s : m + 1 >= y
          OBVIOUS
        <5> QED
          BY <3>1, <5>1 DEF LargestIs
      <4>2. s \ {m + 1} \in SUBSET (1..m + 1) /\ m + 1 \notin s \ {m + 1}
        OBVIOUS
      <4>3. next[s \ {m + 1}] = it[s \ {m + 1}]
        BY <4>2
      <4> QED
        BY <3>1, <4>1, <4>3
    <3>2. CASE m + 1 \notin s
      <4>1. s \in SUBSET (1..m)
        BY <3>2
      <4>2. next[s] = it[s]
        BY <3>2
      <4>3. it[s] = IF s = {} THEN base ELSE op(it[s \ {Largest(s)}], seq[Largest(s)])
        BY <2>1, <4>1 DEF IsFold
      <4>4. s \ {Largest(s)} \in SUBSET (1..m + 1) /\ m + 1 \notin s \ {Largest(s)}
        BY <3>2
      <4>5. next[s \ {Largest(s)}] = it[s \ {Largest(s)}]
        BY <4>4
      <4> QED
        BY <4>2, <4>3, <4>5
    <3> QED
      BY <3>1, <3>2
  <2>3. next = [s \in SUBSET (1..m + 1) |->
                  IF s = {} THEN base ELSE op(next[s \ {Largest(s)}], seq[Largest(s)])]
    BY <2>2
  <2>4. IsFold(next, base, seq, m + 1)
    BY <2>3 DEF IsFold
  <2> QED
    BY <2>4
<1> HIDE DEF S
<1>3. \A m \in 0..n : m \in S
  BY <1>1, <1>2, FromZero
<1> QED
  BY <1>3 DEF S

\* A fold runs through the sequence: run[i] is what the first i elements give.
THEOREM FoldLeftRuns ==
  ASSUME LargestIs, NEW n \in Nat, NEW base, NEW seq, DOMAIN seq = 1..n
  PROVE  \E run : Runs(run, base, seq, n) /\ run[n] = Folded(base, seq)
<1> DEFINE it == CHOOSE it : IsFold(it, base, seq, n)
           run == [i \in 0..n |-> it[1..i]]
<1>1. IsFold(it, base, seq, n)
  BY FoldExists
<1>2. run[0] = base
  <2>1. 1..0 = {} /\ {} \in SUBSET (1..n) /\ 0 \in 0..n
    OBVIOUS
  <2>2. it[{}] = base
    BY <1>1, <2>1 DEF IsFold
  <2> QED
    BY <2>1, <2>2
<1>3. ASSUME NEW i \in 1..n
      PROVE  run[i] = op(run[i - 1], seq[i])
  <2>1. 1..i \in SUBSET (1..n) /\ i \in 1..i
    OBVIOUS
  <2>5. (1..i) \ {i} = 1..(i - 1)
    OBVIOUS
  <2>2. Largest(1..i) = i
    <3>1. 1..i \in SUBSET Int /\ \A y \in 1..i : i >= y
      OBVIOUS
    <3> QED
      BY <2>1, <3>1 DEF LargestIs
  <2>3. it[1..i] = op(it[(1..i) \ {Largest(1..i)}], seq[Largest(1..i)])
    BY <1>1, <2>1 DEF IsFold
  <2>4. run[i] = it[1..i] /\ run[i - 1] = it[1..(i - 1)]
    OBVIOUS
  <2> QED
    BY <2>2, <2>3, <2>4, <2>5
<1>4. run[n] = it[DOMAIN seq]
  OBVIOUS
<1>5. DOMAIN run = 0..n
  OBVIOUS
<1>6. it = CHOOSE jt : jt = [s \in SUBSET DOMAIN seq |->
             IF s = {} THEN base ELSE op(jt[s \ {Largest(s)}], seq[Largest(s)])]
  BY DEF IsFold
<1> HIDE DEF it
<1>7. run[n] = Folded(base, seq)
  BY <1>4, <1>6 DEF Folded
<1> HIDE DEF run
<1>8. Runs(run, base, seq, n)
  BY <1>2, <1>3, <1>5 DEF Runs
<1> QED
  BY <1>7, <1>8

\* One element more is one step more.
THEOREM FoldLeftAppended ==
  ASSUME LargestIs, NEW n \in Nat, NEW base, NEW seq, DOMAIN seq = 1..n,
         NEW more, DOMAIN more = 1..(n + 1), \A i \in 1..n : more[i] = seq[i]
  PROVE  Folded(base, more) = op(Folded(base, seq), more[n + 1])
<1>1. PICK run : Runs(run, base, seq, n) /\ run[n] = Folded(base, seq)
  BY FoldLeftRuns
<1>2. PICK longer : Runs(longer, base, more, n + 1) /\ longer[n + 1] = Folded(base, more)
  BY FoldLeftRuns, n + 1 \in Nat
<1> DEFINE S == {i \in 0..n : run[i] = longer[i]}
<1>3. 0 \in S
  BY <1>1, <1>2 DEF Runs
<1>4. ASSUME NEW i \in 0..n - 1, i \in S
      PROVE  i + 1 \in S
  <2>1. i + 1 \in 1..n /\ i + 1 \in 1..(n + 1) /\ (i + 1) - 1 = i
    OBVIOUS
  <2>2. run[i + 1] = op(run[i], seq[i + 1]) /\ longer[i + 1] = op(longer[i], more[i + 1])
    BY <1>1, <1>2, <2>1 DEF Runs
  <2> QED
    BY <1>4, <2>1, <2>2
<1>5. n \in S
  <2> HIDE DEF S
  <2> QED
    BY <1>3, <1>4, FromZero
<1>6. longer[n + 1] = op(longer[n], more[n + 1])
  <2>1. n + 1 \in 1..(n + 1) /\ (n + 1) - 1 = n
    OBVIOUS
  <2> QED
    BY <1>2, <2>1 DEF Runs
<1> QED
  BY <1>1, <1>2, <1>5, <1>6
=============================================================================
