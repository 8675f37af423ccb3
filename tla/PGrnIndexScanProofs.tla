-------------------------- MODULE PGrnIndexScanProofs --------------------------
(***************************************************************************)
(* Whatever the participants, the places and the bounds: a scan returns    *)
(* what its snapshot sees, each tuple once; no tuple that somebody may see *)
(* loses its row, but for the kill that comes too late; and no insertion   *)
(* closes what a scan uses.                                                *)
(*                                                                         *)
(* Inv, for the rows: a scan has nothing in hand but rows it has read,     *)
(* what it may kill is dead or has left the heap, and an ID that is free   *)
(* is free once.                                                           *)
(*                                                                         *)
(* SeesInv, for what is returned: whatever the snapshot sees was returned, *)
(* is in a hand, or is ahead of the one cursor there is, and nothing is in *)
(* two of these; what is at the place of a tuple in a hand is that tuple,  *)
(* nothing, or what came after the snapshot.                               *)
(***************************************************************************)
EXTENDS PGrnIndexScan, SequenceTheorems, FiniteSetTheorems, TLAPS

Tuple == [tid : Nat, matches : BOOLEAN, born : Int, died : Nat, by : {"leader", "other"}]
Tuples == 1 .. Len(tuples)
IsStatement(s) ==
  /\ DOMAIN s = {"pc", "kind", "snapshot", "returned", "nested", "broken"}
  /\ s.snapshot \in Nat
  /\ s.nested \in BOOLEAN /\ s.broken \in BOOLEAN
IsScan(s) ==
  /\ DOMAIN s = {"open", "cursor", "ids", "current", "prior", "hand", "kill", "done"}
  /\ s.kill \in BOOLEAN

Types ==
  /\ tuples \in Seq(Tuple)
  /\ heap \in [Tids -> Nat]
  /\ rows \in Seq(Nat)
  /\ free \in Seq(Nat)
  /\ now \in Nat
  /\ IsStatement(statement) /\ statement.snapshot <= now
  /\ scan = [p \in Participants |-> scan[p]]
  /\ \A p \in Participants : IsScan(scan[p])
  /\ DOMAIN vacuum = {"pc", "targets"}

HeapFits == \A tid \in Tids : heap[tid] # None => heap[tid] \in Tuples /\ tuples[heap[tid]].tid = tid
RowsFit == \A id \in 1 .. Len(rows) : rows[id] # None => rows[id] \in Tuples
FreeFits ==
  \A i \in 1 .. Len(free) :
    /\ free[i] \in 1 .. Len(rows)
    /\ rows[free[i]] = None
    /\ \A j \in 1 .. Len(free) : free[i] = free[j] => i = j
TargetsDead == \A n \in vacuum.targets : n \in Tuples /\ DeadToAll(n)

InHeap(n) == \E tid \in Tids : heap[tid] = n
Gone(n) == DeadToAll(n) \/ ~InHeap(n)
HandFits(h) == h.tuple \in Tuples /\ h.tid = tuples[h.tuple].tid
ScanFits(s) ==
  /\ \A h \in s.hand \cup s.prior : HandFits(h)
  /\ statement.kind # "bitmap" => /\ \A h \in s.hand : s.prior = {h}
                                  /\ s.kill => s.prior # {} /\ \A h \in s.prior : Gone(h.tuple)
ScansFit == \A p \in Participants : ScanFits(scan[p])

HaveRows ==
  \A tid \in Tids :
    heap[tid] # None => \/ heap[tid] \in Lost
                        \/ DeadToAll(heap[tid])
                        \/ \E id \in 1 .. Len(rows) : rows[id] = heap[tid]

Inv == Types /\ HeapFits /\ RowsFit /\ FreeFits /\ TargetsDead /\ ScansFit /\ HaveRows

-----------------------------------------------------------------------------
LEMMA InitInv == Init => Inv
<1> SUFFICES ASSUME Init PROVE Inv
  OBVIOUS
<1>1. PICK matches \in [1 .. 2 -> BOOLEAN] :
        tuples = [n \in 1 .. 2 |-> [tid |-> n, matches |-> matches[n], born |-> 1, died |-> Alive, by |-> "other"]]
  BY DEF Init
<1>2. tuples \in Seq(Tuple) /\ Len(tuples) = 2 /\ \A n \in 1 .. 2 : tuples[n].tid = n
  BY <1>1 DEF Tuple, Alive
<1>3. /\ heap = [tid \in Tids |-> IF tid <= 2 THEN tid ELSE None]
      /\ rows = <<1, 2>> /\ free = <<>> /\ now = 1 /\ statement = NoStatement
      /\ scan = [p \in Participants |-> NoScan]
      /\ vacuum = [pc |-> "idle", targets |-> {}]
  BY DEF Init
<1>4. Types
  <2>1. heap \in [Tids -> Nat] /\ rows \in Seq(Nat) /\ free \in Seq(Nat) /\ now \in Nat
    BY <1>3, ScanAssumption DEF None
  <2>2. IsStatement(statement) /\ statement.snapshot <= now
    <3>1. IsStatement(NoStatement) /\ NoStatement.snapshot = 0
      BY DEF IsStatement, NoStatement, None
    <3> QED BY <1>3, <3>1
  <2>3. IsScan(NoScan)
    BY DEF IsScan, NoScan
  <2>4. scan = [p \in Participants |-> scan[p]] /\ \A p \in Participants : IsScan(scan[p])
    BY <1>3, <2>3
  <2>5. DOMAIN vacuum = {"pc", "targets"}
    BY <1>3
  <2> QED BY <1>2, <2>1, <2>2, <2>4, <2>5 DEF Types
<1>5. HeapFits /\ RowsFit /\ FreeFits
  BY <1>2, <1>3, ScanAssumption DEF HeapFits, RowsFit, FreeFits, Tuples, None
<1>6. TargetsDead /\ ScansFit
  BY <1>3 DEF TargetsDead, ScansFit, ScanFits, NoScan
<1>7. HaveRows
  <2> SUFFICES ASSUME NEW tid \in Tids, heap[tid] # None
               PROVE  \E id \in 1 .. Len(rows) : rows[id] = heap[tid]
    BY DEF HaveRows
  <2>1. tid \in 1 .. 2 /\ heap[tid] = tid
    BY <1>3, ScanAssumption DEF None
  <2> QED BY <1>3, <2>1
<1> QED BY <1>4, <1>5, <1>6, <1>7 DEF Inv

-----------------------------------------------------------------------------
(* Types.                                                                  *)

\* A tuple, or a row, that changes leaves the others.
LEMMA Changed ==
  ASSUME NEW S, NEW s \in Seq(S), NEW i \in DOMAIN s, NEW e \in S
  PROVE  /\ [s EXCEPT ![i] = e] \in Seq(S)
         /\ Len([s EXCEPT ![i] = e]) = Len(s)
         /\ \A j \in 1 .. Len(s) : [s EXCEPT ![i] = e][j] = IF j = i THEN e ELSE s[j]
BY ExceptSeq, LenProperties

LEMMA Longer ==
  ASSUME NEW S, NEW s \in Seq(S), NEW e \in S
  PROVE  /\ Append(s, e) \in Seq(S)
         /\ Len(Append(s, e)) = Len(s) + 1
         /\ \A j \in 1 .. Len(s) + 1 : Append(s, e)[j] = IF j = Len(s) + 1 THEN e ELSE s[j]
OBVIOUS

\* Without its last element.
LEMMA Shorter ==
  ASSUME NEW S, NEW s \in Seq(S), s # <<>>
  PROVE  /\ Front(s) \in Seq(S)
         /\ Len(Front(s)) = Len(s) - 1
         /\ \A j \in 1 .. Len(s) - 1 : Front(s)[j] = s[j]
         /\ Len(s) \in 1 .. Len(s) /\ Last(s) = s[Len(s)]
<1>1. Len(s) \in Nat \ {0}
  BY EmptySeq
<1>2. \A i \in 1 .. Len(s) - 1 : s[i] \in S
  BY <1>1, ElementOfSeq
<1>3. /\ SubSeq(s, 1, Len(s) - 1) \in Seq(S)
      /\ Len(SubSeq(s, 1, Len(s) - 1)) = IF 1 <= Len(s) - 1 THEN Len(s) - 1 - 1 + 1 ELSE 0
      /\ \A i \in 1 .. Len(s) - 1 - 1 + 1 : SubSeq(s, 1, Len(s) - 1)[i] = s[1 + i - 1]
  BY <1>1, <1>2, SubSeqProperties
<1>4. /\ SubSeq(s, 1, Len(s) - 1) \in Seq(S)
      /\ Len(SubSeq(s, 1, Len(s) - 1)) = Len(s) - 1
      /\ \A i \in 1 .. Len(s) - 1 : SubSeq(s, 1, Len(s) - 1)[i] = s[i]
  <2> HIDE DEF Front
  <2>1. Len(s) - 1 - 1 + 1 = Len(s) - 1 /\ \A i \in 1 .. Len(s) - 1 : 1 + i - 1 = i
    BY <1>1
  <2> QED BY <1>1, <1>3, <2>1
<1>5. Len(s) \in 1 .. Len(s)
  BY <1>1
<1> QED BY <1>4, <1>5 DEF Front, Last

\* How the transactions change the tuples.
LEMMA DeleteTuples ==
  ASSUME Types, NEW n \in DOMAIN tuples, Delete(n)
  PROVE  /\ tuples' \in Seq(Tuple) /\ Len(tuples') = Len(tuples)
         /\ \A k \in Tuples : /\ tuples'[k].tid = tuples[k].tid /\ tuples'[k].born = tuples[k].born
                              /\ tuples'[k].matches = tuples[k].matches
                              /\ k # n => tuples'[k] = tuples[k]
         /\ tuples[n].died = Alive /\ tuples[n].born > InProgress
         /\ now' = now + 1 /\ tuples'[n].died = now'
<1> DEFINE t == [tuples[n] EXCEPT !.died = now + 1]
<1>1. tuples[n] \in Tuple /\ n \in Tuples
  BY ElementOfSeq, LenProperties DEF Types, Tuples
<1>2. /\ t \in Tuple /\ t.tid = tuples[n].tid /\ t.born = tuples[n].born /\ t.matches = tuples[n].matches
      /\ t.died = now + 1
  <2>1. now + 1 \in Nat
    BY DEF Types
  <2> QED BY <1>1, <2>1 DEF Tuple
<1>3. tuples' = [tuples EXCEPT ![n] = t] /\ now' = now + 1 /\ tuples[n].died = Alive /\ tuples[n].born > InProgress
  BY DEF Delete
<1> HIDE DEF t
<1> QED BY <1>1, <1>2, <1>3, Changed DEF Types, Tuples

LEMMA EndTuples ==
  ASSUME Types, NEW n \in DOMAIN tuples, Commit(n) \/ Abort(n)
  PROVE  /\ tuples' \in Seq(Tuple) /\ Len(tuples') = Len(tuples)
         /\ \A k \in Tuples : /\ tuples'[k].tid = tuples[k].tid /\ tuples'[k].died = tuples[k].died
                              /\ tuples'[k].matches = tuples[k].matches
                              /\ k # n => tuples'[k] = tuples[k]
         /\ tuples[n].born = InProgress /\ tuples'[n].born \in {now + 1, Aborted}
         /\ now' \in {now, now + 1}
<1> DEFINE t(b) == [tuples[n] EXCEPT !.born = b]
<1>1. tuples[n] \in Tuple /\ n \in Tuples
  BY ElementOfSeq, LenProperties DEF Types, Tuples
<1>2. \A b \in Int : t(b) \in Tuple /\ t(b).tid = tuples[n].tid /\ t(b).died = tuples[n].died
                       /\ t(b).matches = tuples[n].matches /\ t(b).born = b
  BY <1>1 DEF Tuple
<1>3. PICK b \in {now + 1, Aborted} : b \in Int /\ tuples' = [tuples EXCEPT ![n] = t(b)]
  <2>1. CASE Commit(n)
    <3>1. now + 1 \in Int /\ tuples' = [tuples EXCEPT ![n] = t(now + 1)]
      BY <2>1 DEF Commit, Types
    <3> QED BY <3>1
  <2>2. CASE Abort(n)
    <3>1. Aborted \in Int /\ tuples' = [tuples EXCEPT ![n] = t(Aborted)]
      BY <2>2 DEF Abort, Aborted
    <3> QED BY <3>1
  <2> QED BY <2>1, <2>2
<1>4. tuples[n].born = InProgress /\ now' \in {now, now + 1}
  BY DEF Commit, Abort
<1> HIDE DEF t
<1> QED BY <1>1, <1>2, <1>3, <1>4, Changed DEF Types, Tuples

LEMMA InsertTuples ==
  ASSUME Types, NEW by \in {"leader", "other"}, NEW tid \in Tids, NEW matches \in BOOLEAN, Insert(by, tid, matches)
  PROVE  /\ tuples' \in Seq(Tuple) /\ Len(tuples') = Len(tuples) + 1
         /\ \A k \in Tuples : tuples'[k] = tuples[k]
         /\ tuples'[Len(tuples')].tid = tid /\ tuples'[Len(tuples')].born = InProgress
         /\ heap[tid] = None /\ heap' = [heap EXCEPT ![tid] = Len(tuples')]
<1> DEFINE t == [tid |-> tid, matches |-> matches, born |-> InProgress, died |-> Alive, by |-> by]
<1>1. t \in Tuple /\ t.tid = tid /\ t.born = InProgress
  BY ScanAssumption DEF Tuple, InProgress, Alive
<1>2. tuples' = Append(tuples, t) /\ heap[tid] = None /\ heap' = [heap EXCEPT ![tid] = Len(tuples) + 1]
  BY DEF Insert
<1> HIDE DEF t
<1>3. Len(tuples) \in Nat
  BY LenProperties DEF Types
<1> QED BY <1>1, <1>2, <1>3, Longer DEF Types, Tuples

-----------------------------------------------------------------------------
(* Rows and their IDs.                                                     *)

IndexFits == rows \in Seq(Nat) /\ free \in Seq(Nat) /\ RowsFit /\ FreeFits

\* The ID of a row that is removed is free, and was not before.
LEMMA RowGoes ==
  ASSUME IndexFits, NEW id, HasRow(id), UNCHANGED tuples,
         rows' = [rows EXCEPT ![id] = None], free' = Append(free, id)
  PROVE  /\ IndexFits'
         /\ id \in 1 .. Len(rows) /\ Len(rows') = Len(rows)
         /\ \A j \in 1 .. Len(rows) : rows'[j] = IF j = id THEN None ELSE rows[j]
<1>1. id \in DOMAIN rows /\ id \in 1 .. Len(rows) /\ rows[id] # None
  BY LenProperties DEF HasRow, IndexFits
<1>2. /\ rows' \in Seq(Nat) /\ Len(rows') = Len(rows)
      /\ \A j \in 1 .. Len(rows) : rows'[j] = IF j = id THEN None ELSE rows[j]
  BY <1>1, Changed DEF IndexFits, None
<1>3. /\ free' \in Seq(Nat) /\ Len(free') = Len(free) + 1
      /\ \A j \in 1 .. Len(free) + 1 : free'[j] = IF j = Len(free) + 1 THEN id ELSE free[j]
  <2>1. id \in Nat
    BY <1>1
  <2> QED BY <2>1, Longer DEF IndexFits
<1>4. RowsFit'
  BY <1>2 DEF RowsFit, IndexFits, Tuples
<1>5. Len(free) \in Nat
  BY LenProperties DEF IndexFits
<1>6. FreeFits'
  <2> SUFFICES ASSUME NEW i \in 1 .. Len(free')
               PROVE  /\ free'[i] \in 1 .. Len(rows')
                      /\ rows'[free'[i]] = None
                      /\ \A j \in 1 .. Len(free') : free'[i] = free'[j] => i = j
    BY DEF FreeFits
  <2>1. \A j \in 1 .. Len(free) : free[j] # id
    BY <1>1 DEF IndexFits, FreeFits
  <2>2. CASE i = Len(free) + 1
    BY <1>1, <1>2, <1>3, <1>5, <2>1, <2>2
  <2>3. CASE i # Len(free) + 1
    <3>1. i \in 1 .. Len(free) /\ free'[i] = free[i]
      BY <1>3, <1>5, <2>3
    <3>2. free[i] \in 1 .. Len(rows) /\ rows[free[i]] = None
      BY <3>1 DEF IndexFits, FreeFits
    <3>3. \A j \in 1 .. Len(free') : free'[i] = free'[j] => i = j
      <4>1. \A j \in 1 .. Len(free) : free[i] = free[j] => i = j
        BY <3>1 DEF IndexFits, FreeFits
      <4>2. free[i] # id
        BY <2>1, <3>1
      <4> QED BY <1>3, <1>5, <3>1, <4>1, <4>2
    <3> QED BY <1>2, <3>1, <3>2, <3>3
  <2> QED BY <2>2, <2>3
<1> QED BY <1>1, <1>2, <1>3, <1>4, <1>6 DEF IndexFits

\* A new row takes an ID that has none; nothing else happens to the rows.
LEMMA InsertRows ==
  ASSUME Types, RowsFit, FreeFits,
         NEW by \in {"leader", "other"}, NEW tid \in Tids, NEW matches \in BOOLEAN, Insert(by, tid, matches)
  PROVE  /\ IndexFits'
         /\ Len(rows) <= Len(rows')
         /\ \A j \in 1 .. Len(rows) : rows[j] # None => rows'[j] = rows[j]
         /\ \E j \in 1 .. Len(rows') : /\ rows'[j] = Len(tuples')
                                      /\ \A i \in 1 .. Len(rows') \ {j} : i \in 1 .. Len(rows) /\ rows'[i] = rows[i]
<1> DEFINE n == Len(tuples) + 1
<1>1. Len(tuples) \in Nat /\ Len(rows) \in Nat /\ Len(tuples') = n /\ n \in Nat
  BY InsertTuples, LenProperties DEF Types
<1>2. CASE free = <<>>
  <2>1. free' = <<>> /\ ~(Len(rows) + 1 \in DOMAIN rows)
    BY <1>1, <1>2, LenProperties DEF Insert, Types
  <2>2. rows' = Append(rows, n)
    BY <1>2, <2>1 DEF Insert
  <2>3. /\ rows' \in Seq(Nat) /\ Len(rows') = Len(rows) + 1
        /\ \A j \in 1 .. Len(rows) + 1 : rows'[j] = IF j = Len(rows) + 1 THEN n ELSE rows[j]
    BY <1>1, <2>2, Longer DEF Types
  <2>4. RowsFit'
    <3> SUFFICES ASSUME NEW j \in 1 .. Len(rows'), rows'[j] # None PROVE rows'[j] \in 1 .. Len(tuples')
      BY DEF RowsFit, Tuples
    <3>1. CASE j = Len(rows) + 1
      BY <1>1, <2>3, <3>1
    <3>2. CASE j # Len(rows) + 1
      <4>1. j \in 1 .. Len(rows) /\ rows'[j] = rows[j]
        BY <1>1, <2>3, <3>2
      <4>2. rows[j] \in 1 .. Len(tuples)
        BY <4>1 DEF RowsFit, Tuples
      <4> QED BY <1>1, <4>1, <4>2
    <3> QED BY <3>1, <3>2
  <2>5. FreeFits' /\ free' \in Seq(Nat)
    BY <2>1 DEF FreeFits
  <2>6. IndexFits'
    BY <2>3, <2>4, <2>5 DEF IndexFits
  <2>7. /\ Len(rows) + 1 \in 1 .. Len(rows') /\ rows'[Len(rows) + 1] = Len(tuples')
        /\ \A i \in 1 .. Len(rows') \ {Len(rows) + 1} : i \in 1 .. Len(rows) /\ rows'[i] = rows[i]
    BY <1>1, <2>3
  <2>8. Len(rows) <= Len(rows') /\ \A j \in 1 .. Len(rows) : rows'[j] = rows[j]
    BY <1>1, <2>3
  <2> QED BY <2>6, <2>7, <2>8
<1>3. CASE free # <<>>
  <2> DEFINE id == Last(free)
  <2>1. /\ Front(free) \in Seq(Nat) /\ Len(Front(free)) = Len(free) - 1
        /\ \A j \in 1 .. Len(free) - 1 : Front(free)[j] = free[j]
        /\ Len(free) \in 1 .. Len(free) /\ id = free[Len(free)]
    BY <1>3, Shorter DEF Types
  <2>2. id \in 1 .. Len(rows) /\ id \in DOMAIN rows /\ rows[id] = None
    BY <2>1, LenProperties DEF FreeFits, Types
  <2>3. free' = Front(free) /\ rows' = [rows EXCEPT ![id] = n]
    BY <1>3, <2>2 DEF Insert
  <2> HIDE DEF id
  <2>4. /\ rows' \in Seq(Nat) /\ Len(rows') = Len(rows)
        /\ \A j \in 1 .. Len(rows) : rows'[j] = IF j = id THEN n ELSE rows[j]
    BY <1>1, <2>2, <2>3, Changed DEF Types
  <2>5. RowsFit'
    BY <1>1, <2>4 DEF RowsFit, Tuples
  <2>6. Len(free) \in Nat
    BY LenProperties DEF Types
  <2>7. FreeFits'
    <3> SUFFICES ASSUME NEW i \in 1 .. Len(free')
                 PROVE  /\ free'[i] \in 1 .. Len(rows')
                        /\ rows'[free'[i]] = None
                        /\ \A j \in 1 .. Len(free') : free'[i] = free'[j] => i = j
      BY DEF FreeFits
    <3>1. i \in 1 .. Len(free) - 1 /\ free'[i] = free[i] /\ Len(free') = Len(free) - 1 /\ i # Len(free)
      BY <2>1, <2>3, <2>6
    <3>2. free[i] \in 1 .. Len(rows) /\ rows[free[i]] = None /\ free[i] # id
      BY <2>1, <2>6, <3>1 DEF FreeFits
    <3>3. \A j \in 1 .. Len(free') : free'[i] = free'[j] => i = j
      <4> SUFFICES ASSUME NEW j \in 1 .. Len(free'), free'[i] = free'[j] PROVE i = j
        OBVIOUS
      <4>1. j \in 1 .. Len(free) - 1 /\ j \in 1 .. Len(free)
        BY <2>6, <3>1
      <4>2. free'[j] = free[j]
        BY <2>1, <2>3, <4>1
      <4>3. free[i] = free[j]
        BY <3>1, <4>2
      <4> QED BY <3>1, <4>1, <4>3 DEF FreeFits
    <3> QED BY <2>4, <3>1, <3>2, <3>3
  <2>8. free' \in Seq(Nat)
    BY <2>1, <2>3
  <2>9. /\ id \in 1 .. Len(rows') /\ rows'[id] = Len(tuples')
        /\ \A i \in 1 .. Len(rows') \ {id} : i \in 1 .. Len(rows) /\ rows'[i] = rows[i]
    BY <1>1, <2>2, <2>4
  <2> QED BY <1>1, <2>2, <2>4, <2>5, <2>7, <2>8, <2>9 DEF IndexFits
<1> QED BY <1>2, <1>3

-----------------------------------------------------------------------------
(* The statement, and what its snapshot keeps alive.                       *)

LEMMA OldestIsNow == Types => OldestSnapshot \in Nat /\ OldestSnapshot <= now
BY DEF Types, IsStatement, OldestSnapshot

\* Only the beginning of a statement, when there is none, and its end change what
\* the oldest snapshot is.
SameStatement ==
  /\ IsStatement(statement)'
  /\ statement'.pc = statement.pc /\ statement'.snapshot = statement.snapshot /\ statement'.kind = statement.kind
NewStatement == \A p \in Participants : scan'[p].hand = {} /\ scan'[p].prior = {} /\ ~scan'[p].kill
StatementStep ==
  /\ IsStatement(statement)' /\ now' \in Nat /\ statement'.snapshot <= now'
  /\ OldestSnapshot <= OldestSnapshot'
  /\ statement'.kind = statement.kind \/ NewStatement
  /\ (statement.broken => statement.nested) => (statement'.broken => statement'.nested)

LEMMA StatementStays ==
  ASSUME Types, SameStatement, now' \in {now, now + 1},
         (statement.broken => statement.nested) => (statement'.broken => statement'.nested)
  PROVE  StatementStep
BY DEF Types, SameStatement, StatementStep, OldestSnapshot, Running, IsStatement

LEMMA UnmapStatement ==
  ASSUME Types, UnmapDB
  PROVE  SameStatement /\ (NScanOpaques(Leader) = 0 => statement'.broken = statement.broken)
                       /\ statement'.nested = statement.nested
<1> DEFINE b == statement.broken \/ NScanOpaques(Leader) > 0
<1>1. statement' = [statement EXCEPT !.broken = b] /\ b \in BOOLEAN
  BY DEF UnmapDB
<1>2. NScanOpaques(Leader) = 0 => b = statement.broken
  BY DEF Types, IsStatement
<1> HIDE DEF b
<1> QED BY <1>1, <1>2 DEF Types, SameStatement, IsStatement

LEMMA InsertStatement ==
  ASSUME Types, NEW by \in {"leader", "other"}, NEW tid \in Tids, NEW matches \in BOOLEAN, Insert(by, tid, matches)
  PROVE  StatementStep
<1>1. now' = now /\ InsertEnsures(by)
  BY DEF Insert
<1>2. CASE by = "leader" /\ NScanOpaques(Leader) = 0 /\ UnmapDB
  BY <1>1, <1>2, UnmapStatement, StatementStays
<1>3. CASE UNCHANGED statement
  BY <1>1, <1>3, StatementStays DEF Types, SameStatement
<1> QED BY <1>1, <1>2, <1>3 DEF InsertEnsures, EnsureLatestDB

LEMMA NestedStatement ==
  ASSUME Types, PlanNested \/ AnalyzeNested
  PROVE  StatementStep
<1>1. now' = now /\ statement' = [statement EXCEPT !.nested = TRUE, !.broken = TRUE]
  BY DEF PlanNested, AnalyzeNested, heapVars
<1>2. SameStatement /\ statement'.nested
  BY <1>1 DEF Types, SameStatement, IsStatement
<1> QED BY <1>1, <1>2, StatementStays

LEMMA ReturnStatement ==
  ASSUME Types, NEW r, statement' = [statement EXCEPT !.returned = r], now' = now
  PROVE  StatementStep
<1>1. SameStatement /\ statement'.nested = statement.nested /\ statement'.broken = statement.broken
  BY DEF Types, SameStatement, IsStatement
<1> QED BY <1>1, StatementStays

LEMMA FreshScans ==
  ASSUME NEW kind
  PROVE  /\ NoScan.hand = {} /\ NoScan.prior = {} /\ ~NoScan.kill /\ IsScan(NoScan)
         /\ Opaque.hand = {} /\ Opaque.prior = {} /\ ~Opaque.kill /\ IsScan(Opaque)
         /\ \A p \in Participants : Opaques(kind)[p] \in {NoScan, Opaque}
         /\ Opaques(kind) = [p \in Participants |-> Opaques(kind)[p]]
BY DEF NoScan, Opaque, Opaques, IsScan

LEMMA BeginStatement ==
  ASSUME Types, NEW kind \in ScanKinds, BeginScan(kind)
  PROVE  StatementStep
<1>1. /\ statement.pc = "idle" /\ now' = now
      /\ statement' = [pc |-> "running", kind |-> kind, snapshot |-> now, returned |-> <<>>,
                       nested |-> FALSE, broken |-> FALSE]
      /\ scan' = Opaques(kind)
  BY DEF BeginScan, heapVars
<1>2. IsStatement(statement)' /\ statement'.snapshot = now /\ statement'.pc = "running" /\ ~statement'.broken
  BY <1>1 DEF IsStatement, Types
<1>3. NewStatement
  BY <1>1, FreshScans DEF NewStatement
<1>4. OldestSnapshot = now /\ OldestSnapshot' = now
  BY <1>1, <1>2 DEF OldestSnapshot, Running
<1> QED BY <1>1, <1>2, <1>3, <1>4 DEF StatementStep, Types

LEMMA EndStatement ==
  ASSUME Types, EndScan \/ Error \/ ReleaseScanOpaques
  PROVE  StatementStep
<1>0. now' = now /\ now \in Nat /\ OldestSnapshot <= now
  BY OldestIsNow DEF Types, EndScan, Error, ReleaseScanOpaques, heapVars
<1>1. CASE EndScan \/ ReleaseScanOpaques
  <2>1. statement' = NoStatement /\ scan' = [p \in Participants |-> NoScan]
    BY <1>1 DEF EndScan, ReleaseScanOpaques
  <2>2. IsStatement(NoStatement) /\ NoStatement.snapshot = 0 /\ NoStatement.pc = "idle" /\ ~NoStatement.broken
    BY DEF IsStatement, NoStatement, None
  <2>3. NewStatement
    BY <2>1, FreshScans DEF NewStatement
  <2>4. OldestSnapshot' = now
    BY <1>0, <2>1, <2>2 DEF OldestSnapshot, Running
  <2> QED BY <1>0, <2>1, <2>2, <2>3, <2>4 DEF StatementStep
<1>2. CASE Error
  <2>1. statement' = [statement EXCEPT !.pc = "failed"]
    BY <1>2 DEF Error
  <2>2. /\ IsStatement(statement)' /\ statement'.snapshot = statement.snapshot /\ statement'.pc = "failed"
        /\ statement'.kind = statement.kind
        /\ statement'.nested = statement.nested /\ statement'.broken = statement.broken
    BY <2>1 DEF Types, IsStatement
  <2>3. OldestSnapshot' = now
    BY <1>0, <2>2 DEF OldestSnapshot, Running
  <2> QED BY <1>0, <2>2, <2>3 DEF StatementStep, Types
<1> QED BY <1>1, <1>2

LEMMA EveryStatementStep == Types /\ [Next]_vars => StatementStep
<1> SUFFICES ASSUME Types, [Next]_vars PROVE StatementStep
  OBVIOUS
<1>0. ASSUME UNCHANGED statement, now' \in {now, now + 1} PROVE StatementStep
  BY <1>0, StatementStays DEF Types, SameStatement
<1>1. ASSUME NEW kind \in ScanKinds, BeginScan(kind) PROVE StatementStep
  BY <1>1, BeginStatement
<1>2. ASSUME NEW p \in Participants, GetTuple(p) \/ GetBitmap(p) PROVE StatementStep
  BY <1>0, <1>2 DEF GetTuple, GetBitmap, heapVars
<1>3. ASSUME NEW p \in Participants, Fetch(p) PROVE StatementStep
  <2>1. PICK r : statement' = [statement EXCEPT !.returned = r]
    BY <1>3 DEF Fetch
  <2>2. now' = now
    BY <1>3 DEF Fetch, heapVars
  <2> QED BY <2>1, <2>2, ReturnStatement
<1>4. CASE Rescan
  BY <1>4, ReturnStatement DEF Rescan, heapVars
<1>5. CASE EndScan \/ Error \/ ReleaseScanOpaques
  BY <1>5, EndStatement
<1>6. CASE PlanNested \/ AnalyzeNested
  BY <1>6, NestedStatement
<1>7. ASSUME NEW by \in {"leader", "other"}, NEW tid \in Tids, NEW matches \in BOOLEAN, Insert(by, tid, matches)
      PROVE  StatementStep
  BY <1>7, InsertStatement
<1>8. ASSUME NEW n \in DOMAIN tuples, Delete(n) \/ Commit(n) \/ Abort(n) PROVE StatementStep
  BY <1>0, <1>8 DEF Delete, Commit, Abort
<1>9. CASE VacuumStart \/ BulkDelete \/ VacuumHeap \/ VacuumCleanup
  BY <1>0, <1>9 DEF VacuumStart, BulkDelete, VacuumHeap, VacuumCleanup, heapVars
<1>10. CASE UNCHANGED vars
  BY <1>0, <1>10 DEF vars, heapVars
<1> QED BY <1>1, <1>2, <1>3, <1>4, <1>5, <1>6, <1>7, <1>8, <1>9, <1>10 DEF Next

\* No insertion closes what a scan uses.
LEMMA BrokenStep == Types /\ ScanKeepsObjects /\ [Next]_vars => ScanKeepsObjects'
BY EveryStatementStep DEF StatementStep, ScanKeepsObjects
-----------------------------------------------------------------------------
(* Tuples age: who is dead to all remains so, who has left does not return. *)

TuplesStep ==
  /\ tuples' \in Seq(Tuple) /\ Len(tuples) <= Len(tuples')
  /\ \A n \in Tuples : /\ tuples'[n].tid = tuples[n].tid
                       /\ DeadToAll(n) => DeadToAll(n)'
                       /\ Gone(n) => Gone(n)'

LEMMA Ageing ==
  ASSUME Types, StatementStep,
         tuples' \in Seq(Tuple), Len(tuples) <= Len(tuples'),
         \A n \in Tuples : /\ tuples'[n].tid = tuples[n].tid
                           /\ tuples[n].born = Aborted => tuples'[n].born = Aborted
                           /\ tuples[n].died # Alive => tuples'[n].died = tuples[n].died
                           /\ InHeap(n)' => InHeap(n)
  PROVE  TuplesStep
<1>1. OldestSnapshot \in Nat /\ OldestSnapshot' \in Nat /\ OldestSnapshot <= OldestSnapshot'
  BY OldestIsNow DEF StatementStep, OldestSnapshot, IsStatement
<1>2. ASSUME NEW n \in Tuples, DeadToAll(n) PROVE DeadToAll(n)'
  <2>1. tuples[n].died \in Nat
    <3>1. tuples[n] \in Tuple
      BY ElementOfSeq DEF Types, Tuples
    <3> QED BY <3>1 DEF Tuple
  <2> QED BY <1>1, <1>2, <2>1 DEF DeadToAll
<1>3. ASSUME NEW n \in Tuples, Gone(n) PROVE Gone(n)'
  BY <1>2, <1>3 DEF Gone
<1> QED BY <1>2, <1>3 DEF TuplesStep

\* Nothing but an insertion and VACUUM changes the heap.
LEMMA HeapStays ==
  ASSUME Types, StatementStep, UNCHANGED <<tuples, heap>>
  PROVE  TuplesStep
<1>1. \A n \in Tuples : InHeap(n)' => InHeap(n)
  BY DEF InHeap
<1> QED BY <1>1, Ageing, LenProperties DEF Types

LEMMA InsertAges ==
  ASSUME Types, StatementStep,
         NEW by \in {"leader", "other"}, NEW tid \in Tids, NEW matches \in BOOLEAN, Insert(by, tid, matches)
  PROVE  TuplesStep
<1>1. Len(tuples) \in Nat
  BY LenProperties DEF Types
<1>2. ASSUME NEW n \in Tuples, InHeap(n)' PROVE InHeap(n)
  <2>1. PICK t \in Tids : heap'[t] = n
    BY <1>2 DEF InHeap
  <2>2. n # Len(tuples')
    BY <1>1, InsertTuples DEF Tuples
  <2>3. heap[t] = n
    BY <2>1, <2>2, InsertTuples DEF Types
  <2> QED BY <2>3 DEF InHeap
<1>3. Len(tuples) <= Len(tuples')
  BY <1>1, InsertTuples
<1> QED BY <1>2, <1>3, InsertTuples, Ageing

LEMMA DeleteAges ==
  ASSUME Types, StatementStep, NEW n \in DOMAIN tuples, Delete(n)
  PROVE  TuplesStep
<1>1. \A k \in Tuples : InHeap(k)' => InHeap(k)
  BY DEF InHeap, Delete
<1>2. \A k \in Tuples : tuples[k].died # Alive => tuples'[k].died = tuples[k].died
  BY DeleteTuples
<1> QED BY <1>1, <1>2, DeleteTuples, Ageing, LenProperties DEF Types

LEMMA EndAges ==
  ASSUME Types, StatementStep, NEW n \in DOMAIN tuples, Commit(n) \/ Abort(n)
  PROVE  TuplesStep
<1>1. \A k \in Tuples : InHeap(k)' => InHeap(k)
  BY DEF InHeap, Commit, Abort
<1>2. \A k \in Tuples : tuples[k].born = Aborted => tuples'[k].born = Aborted
  BY EndTuples DEF Aborted, InProgress
<1> QED BY <1>1, <1>2, EndTuples, Ageing, LenProperties DEF Types

LEMMA VacuumAges ==
  ASSUME Types, StatementStep, VacuumHeap
  PROVE  TuplesStep /\ \A tid \in Tids : heap'[tid] = IF heap[tid] \in vacuum.targets THEN None ELSE heap[tid]
<1>1. heap' = [tid \in Tids |-> IF heap[tid] \in vacuum.targets THEN None ELSE heap[tid]] /\ tuples' = tuples
  BY DEF VacuumHeap
<1>2. \A tid \in Tids : heap'[tid] = IF heap[tid] \in vacuum.targets THEN None ELSE heap[tid]
  BY <1>1
<1>3. ASSUME NEW n \in Tuples, InHeap(n)' PROVE InHeap(n)
  <2>1. PICK t \in Tids : heap'[t] = n
    BY <1>3 DEF InHeap
  <2>2. n # None
    BY DEF Tuples, None
  <2> QED BY <1>2, <2>1, <2>2 DEF InHeap
<1> QED BY <1>1, <1>2, <1>3, Ageing, LenProperties DEF Types
LEMMA EveryTuplesStep == Types /\ [Next]_vars => TuplesStep
<1> SUFFICES ASSUME Types, [Next]_vars, StatementStep PROVE TuplesStep
  BY EveryStatementStep
<1>1. ASSUME UNCHANGED <<tuples, heap>> PROVE TuplesStep
  BY <1>1, HeapStays
<1>2. ASSUME NEW kind \in ScanKinds, BeginScan(kind) PROVE TuplesStep
  BY <1>1, <1>2 DEF BeginScan, heapVars
<1>3. ASSUME NEW p \in Participants, GetTuple(p) \/ GetBitmap(p) \/ Fetch(p) PROVE TuplesStep
  BY <1>1, <1>3 DEF GetTuple, GetBitmap, Fetch, heapVars
<1>4. CASE Rescan \/ EndScan \/ Error \/ ReleaseScanOpaques \/ PlanNested \/ AnalyzeNested
  BY <1>1, <1>4 DEF Rescan, EndScan, Error, ReleaseScanOpaques, PlanNested, AnalyzeNested, heapVars
<1>5. ASSUME NEW by \in {"leader", "other"}, NEW tid \in Tids, NEW matches \in BOOLEAN, Insert(by, tid, matches)
      PROVE  TuplesStep
  BY <1>5, InsertAges
<1>6. ASSUME NEW n \in DOMAIN tuples, Delete(n) \/ Commit(n) \/ Abort(n) PROVE TuplesStep
  BY <1>6, DeleteAges, EndAges
<1>7. CASE VacuumStart \/ BulkDelete \/ VacuumCleanup
  BY <1>1, <1>7 DEF VacuumStart, BulkDelete, VacuumCleanup, heapVars
<1>8. CASE VacuumHeap
  BY <1>8, VacuumAges
<1>9. CASE UNCHANGED vars
  BY <1>1, <1>9 DEF vars, heapVars
<1> QED BY <1>2, <1>3, <1>4, <1>5, <1>6, <1>7, <1>8, <1>9 DEF Next

-----------------------------------------------------------------------------
(* The scans.                                                              *)

AreScans == scan = [p \in Participants |-> scan[p]] /\ \A p \in Participants : IsScan(scan[p])
ScansStep == AreScans' /\ ScansFit'

LEMMA FitsStay ==
  ASSUME TuplesStep, statement'.kind = statement.kind, NEW s, ScanFits(s)
  PROVE  ScanFits(s)'
<1>1. Tuples \subseteq Tuples'
  BY LenProperties DEF Tuples, TuplesStep
<1>2. ASSUME NEW h, HandFits(h) PROVE HandFits(h)' /\ (Gone(h.tuple) => Gone(h.tuple)')
  BY <1>1, <1>2 DEF HandFits, TuplesStep
<1> QED BY <1>2 DEF ScanFits

\* A scan with nothing in hand that has read nothing.
LEMMA EmptyFits ==
  ASSUME NEW s, s.hand = {}, s.prior = {}, ~s.kill
  PROVE  ScanFits(s)'
BY DEF ScanFits

LEMMA NewScans ==
  ASSUME NewStatement, AreScans'
  PROVE  ScansStep
BY EmptyFits DEF NewStatement, ScansStep, ScansFit, ScanFits

LEMMA ScansStay ==
  ASSUME Types, ScansFit, StatementStep, TuplesStep, UNCHANGED scan
  PROVE  ScansStep
<1>1. AreScans'
  BY DEF Types, AreScans
<1>2. CASE NewStatement
  BY <1>1, <1>2, NewScans
<1>3. CASE statement'.kind = statement.kind
  BY <1>1, <1>3, FitsStay DEF ScansFit, ScansStep
<1> QED BY <1>2, <1>3 DEF StatementStep

LEMMA OneScan ==
  ASSUME Types, ScansFit, TuplesStep, statement'.kind = statement.kind,
         NEW p \in Participants, NEW s, IsScan(s), ScanFits(s)', scan' = [scan EXCEPT ![p] = s]
  PROVE  ScansStep
<1>1. \A q \in Participants : scan'[q] = IF q = p THEN s ELSE scan[q]
  BY DEF Types
<1>2. AreScans'
  BY <1>1 DEF Types, AreScans
<1>3. \A q \in Participants : ScanFits(scan[q])
  BY DEF ScansFit
<1>4. \A q \in Participants : q # p => scan'[q] = scan[q]
  BY <1>1
<1> QED BY <1>1, <1>2, <1>3, <1>4, FitsStay DEF ScansFit, ScansStep

\* Opening a cursor changes neither what was read nor whether it is to be killed.
LEMMA OpenedFits ==
  ASSUME Types, ScansFit, NEW p \in Participants, MayGet(p), NEW so \in Opened(p)
  PROVE  IsScan(so) /\ so.hand = {} /\ so.prior = scan[p].prior /\ so.kill = scan[p].kill /\ ScanFits(so)
<1>1. IsScan(scan[p]) /\ scan[p].hand = {} /\ ScanFits(scan[p])
  BY DEF Types, MayGet, ScansFit
<1>2. \/ so = scan[p]
      \/ \E ids : so = [scan[p] EXCEPT !.cursor = "found", !.ids = ids]
      \/ so = [scan[p] EXCEPT !.cursor = "rows"]
  BY DEF Opened
<1>3. IsScan(so) /\ so.hand = {} /\ so.prior = scan[p].prior /\ so.kill = scan[p].kill
  BY <1>1, <1>2 DEF IsScan
<1> QED BY <1>1, <1>3 DEF ScanFits

\* What is ahead has a row, and what a row has is a tuple.
LEMMA AheadHasRow ==
  ASSUME NEW so, IsScan(so), NEW i \in Ahead(so)
  PROVE  HasRow(ResolveID([so EXCEPT !.current = i]))
<1>1. [so EXCEPT !.current = i].current = i /\ [so EXCEPT !.current = i].cursor = so.cursor
      /\ [so EXCEPT !.current = i].ids = so.ids
  BY DEF IsScan
<1> QED BY <1>1 DEF Ahead, ResolveID, Matching

LEMMA InHandFits ==
  ASSUME Types, RowsFit, NEW id, HasRow(id)
  PROVE  HandFits(InHand(id)) /\ InHand(id).tuple = rows[id]
BY LenProperties DEF Types, RowsFit, HasRow, HandFits, InHand

LEMMA NextTupleFits ==
  ASSUME Types, RowsFit, NEW so, IsScan(so), so.hand = {}, ScanFits(so), NEW next \in NextTuple(so)
  PROVE  IsScan(next) /\ ScanFits(next)
<1>1. CASE next = AllRead(so)
  <2>1. IsScan(next) /\ next.hand = {} /\ next.prior = {} /\ ~next.kill
    BY <1>1 DEF AllRead, IsScan
  <2> QED BY <2>1 DEF ScanFits
<1>2. ASSUME NEW i \in Ahead(so), next = ReadAt(so, i) PROVE IsScan(next) /\ ScanFits(next)
  <2> DEFINE id == ResolveID([so EXCEPT !.current = i])
  <2>1. HandFits(InHand(id))
    BY <1>2, AheadHasRow, InHandFits
  <2>2. next = [so EXCEPT !.current = i, !.hand = {InHand(id)}, !.prior = {InHand(id)}, !.kill = FALSE]
    BY <1>2 DEF ReadAt
  <2> HIDE DEF id
  <2>3. IsScan(next) /\ next.hand = {InHand(id)} /\ next.prior = {InHand(id)} /\ ~next.kill
    BY <2>2 DEF IsScan
  <2> QED BY <2>1, <2>3 DEF ScanFits
<1> QED BY <1>1, <1>2 DEF NextTuple, Least

LEMMA GetTupleScans ==
  ASSUME Types, RowsFit, ScansFit, TuplesStep, NEW p \in Participants, GetTuple(p)
  PROVE  ScansStep
<1>1. statement'.kind = statement.kind /\ MayGet(p)
  BY DEF GetTuple
<1>2. ASSUME NEW so \in Opened(p), NEW next \in NextTuple(so), scan' = [scan EXCEPT ![p] = next]
      PROVE  ScansStep
  <2>1. IsScan(next) /\ ScanFits(next)
    BY <1>1, OpenedFits, NextTupleFits
  <2> QED BY <1>1, <1>2, <2>1, FitsStay, OneScan
<1>3. CASE scan' = [scan EXCEPT ![p] = AllRead(@)]
  <2>1. IsScan(AllRead(scan[p])) /\ AllRead(scan[p]).hand = {} /\ AllRead(scan[p]).prior = {} /\ ~AllRead(scan[p]).kill
    BY <1>1 DEF AllRead, IsScan, Types, MayGet
  <2>2. ScanFits(AllRead(scan[p]))
    BY <2>1 DEF ScanFits
  <2>3. scan' = [scan EXCEPT ![p] = AllRead(scan[p])]
    BY <1>3
  <2> QED BY <1>1, <2>1, <2>2, <2>3, FitsStay, OneScan
<1> QED BY <1>2, <1>3 DEF GetTuple

LEMMA GetBitmapScans ==
  ASSUME Types, RowsFit, ScansFit, TuplesStep, NEW p \in Participants, GetBitmap(p)
  PROVE  ScansStep
<1> DEFINE hand == {InHand(id) : id \in Matching}
           s == [scan[p] EXCEPT !.hand = hand, !.done = TRUE]
<1>1. statement'.kind = statement.kind /\ statement.kind = "bitmap" /\ scan' = [scan EXCEPT ![p] = s]
  BY DEF GetBitmap
<1>2. \A h \in hand : HandFits(h)
  BY InHandFits DEF Matching
<1> HIDE DEF hand
<1>3. IsScan(s) /\ s.hand = hand /\ s.prior = scan[p].prior
  BY DEF IsScan, Types
<1>4. ScanFits(s)
  BY <1>1, <1>2, <1>3 DEF ScanFits, ScansFit
<1> QED BY <1>1, <1>3, <1>4, FitsStay, OneScan

\* The place of a tuple that is still there holds that tuple: when there is none,
\* or one that is dead to all, the tuple that was read is gone.
LEMMA FetchScans ==
  ASSUME Types, HeapFits, ScansFit, TuplesStep, NEW p \in Participants, Fetch(p)
  PROVE  ScansStep
<1>1. PICK h \in scan[p].hand, kill \in BOOLEAN :
        /\ kill => heap[h.tid] = None \/ DeadToAll(heap[h.tid])
        /\ scan' = [scan EXCEPT ![p].hand = @ \ {h}, ![p].kill = kill]
  BY DEF Fetch
<1> DEFINE s == [scan[p] EXCEPT !.hand = @ \ {h}, !.kill = kill]
<1>2. scan' = [scan EXCEPT ![p] = s]
  BY <1>1
<1>3. IsScan(scan[p]) /\ ScanFits(scan[p]) /\ HandFits(h)
  BY <1>1 DEF Types, ScansFit, ScanFits
<1>4. IsScan(s) /\ s.hand = scan[p].hand \ {h} /\ s.prior = scan[p].prior /\ s.kill = kill
  BY <1>3 DEF IsScan
<1>5. kill => Gone(h.tuple)
  <2> SUFFICES ASSUME kill, NEW tid \in Tids, heap[tid] = h.tuple PROVE DeadToAll(h.tuple)
    BY DEF Gone, InHeap
  <2>1. h.tuple # None
    BY <1>3 DEF HandFits, Tuples, None
  <2>2. tid = h.tid
    BY <1>3, <2>1 DEF HeapFits, HandFits
  <2> QED BY <1>1, <2>1, <2>2
<1> HIDE DEF s
<1>6. ScanFits(s)
  BY <1>1, <1>3, <1>4, <1>5 DEF ScanFits
<1>7. statement'.kind = statement.kind
  <2>1. PICK r : statement' = [statement EXCEPT !.returned = r]
    BY DEF Fetch
  <2> QED BY <2>1 DEF Types, IsStatement
<1> QED BY <1>2, <1>4, <1>6, <1>7, FitsStay, OneScan

LEMMA EveryScansStep == Inv /\ [Next]_vars => ScansStep
<1> SUFFICES ASSUME Inv, [Next]_vars, StatementStep, TuplesStep PROVE ScansStep
  BY EveryStatementStep, EveryTuplesStep DEF Inv
<1>0. Types /\ HeapFits /\ RowsFit /\ ScansFit
  BY DEF Inv
<1>1. ASSUME UNCHANGED scan PROVE ScansStep
  BY <1>0, <1>1, ScansStay
<1>2. ASSUME NEW kind, scan' = Opaques(kind) PROVE ScansStep
  <2>1. AreScans' /\ NewStatement
    BY <1>2, FreshScans DEF AreScans, NewStatement
  <2> QED BY <2>1, NewScans
<1>3. CASE scan' = [p \in Participants |-> NoScan]
  <2>1. AreScans' /\ NewStatement
    BY <1>3, FreshScans DEF AreScans, NewStatement
  <2> QED BY <2>1, NewScans
<1>4. ASSUME NEW kind \in ScanKinds, BeginScan(kind) PROVE ScansStep
  BY <1>2, <1>4 DEF BeginScan
<1>5. ASSUME NEW p \in Participants, GetTuple(p) \/ GetBitmap(p) \/ Fetch(p) PROVE ScansStep
  BY <1>0, <1>5, GetTupleScans, GetBitmapScans, FetchScans
<1>6. CASE Rescan
  BY <1>2, <1>6 DEF Rescan
<1>7. CASE EndScan \/ ReleaseScanOpaques
  BY <1>3, <1>7 DEF EndScan, ReleaseScanOpaques
<1>8. CASE Error
  <2>1. scan' = [p \in Participants |-> IF p = Leader THEN scan[p] ELSE NoScan]
    BY <1>8 DEF Error
  <2>2. AreScans'
    BY <1>0, <2>1, FreshScans DEF AreScans, Types
  <2>3. statement'.kind = statement.kind
    BY <1>0, <1>8 DEF Error, Types, IsStatement
  <2>4. \A p \in Participants : ScanFits(scan'[p])
    BY <1>0, <2>1, FreshScans DEF ScansFit, ScanFits
  <2> QED BY <2>2, <2>3, <2>4, FitsStay DEF ScansStep, ScansFit
<1>9. CASE PlanNested \/ AnalyzeNested
  BY <1>1, <1>9 DEF PlanNested, AnalyzeNested
<1>10. ASSUME NEW by \in {"leader", "other"}, NEW tid \in Tids, NEW matches \in BOOLEAN, Insert(by, tid, matches)
       PROVE  ScansStep
  BY <1>1, <1>10 DEF Insert
<1>11. ASSUME NEW n \in DOMAIN tuples, Delete(n) \/ Commit(n) \/ Abort(n) PROVE ScansStep
  BY <1>1, <1>11 DEF Delete, Commit, Abort
<1>12. CASE VacuumStart \/ BulkDelete \/ VacuumHeap \/ VacuumCleanup
  BY <1>1, <1>12 DEF VacuumStart, BulkDelete, VacuumHeap, VacuumCleanup
<1>13. CASE UNCHANGED vars
  BY <1>1, <1>13 DEF vars
<1> QED BY <1>4, <1>5, <1>6, <1>7, <1>8, <1>9, <1>10, <1>11, <1>12, <1>13 DEF Next

-----------------------------------------------------------------------------
(* The index.                                                              *)

\* What a step leaves of the index: the rows of IDs that remain, and those that
\* it removes are of tuples that are gone or come too late.
IndexStep ==
  /\ IndexFits'
  /\ Lost \subseteq Lost'
  /\ \A n \in Tuples : (\E id \in 1 .. Len(rows) : rows[id] = n)
                         => \/ \E id \in 1 .. Len(rows') : rows'[id] = n
                            \/ n \in Lost' \/ Gone(n)'

LEMMA IndexStays ==
  ASSUME Inv, TuplesStep, UNCHANGED <<index, killed>>
  PROVE  IndexStep
<1>1. Tuples \subseteq Tuples'
  BY LenProperties DEF Tuples, TuplesStep
<1> QED BY <1>1 DEF Inv, Types, IndexStep, IndexFits, RowsFit, FreeFits, index, Lost

\* A row is removed.
LEMMA RowGoesStep ==
  ASSUME Inv, TuplesStep, UNCHANGED tuples, NEW id, HasRow(id), NEW n, n = rows[id],
         rows' = [rows EXCEPT ![id] = None], free' = Append(free, id),
         killed \subseteq killed',
         n \in Lost' \/ Gone(n)'
  PROVE  IndexStep
<1>1. IndexFits
  BY DEF Inv, Types, IndexFits
<1>2. /\ IndexFits' /\ Len(rows') = Len(rows)
      /\ \A j \in 1 .. Len(rows) : j # id => rows'[j] = rows[j]
  BY <1>1, RowGoes
<1>3. Lost \subseteq Lost'
  BY DEF Lost
<1> QED BY <1>2, <1>3 DEF IndexStep

LEMMA InsertIndex ==
  ASSUME Inv, TuplesStep,
         NEW by \in {"leader", "other"}, NEW tid \in Tids, NEW matches \in BOOLEAN, Insert(by, tid, matches)
  PROVE  IndexStep
<1>1. IndexFits' /\ Len(rows) <= Len(rows') /\ \A j \in 1 .. Len(rows) : rows[j] # None => rows'[j] = rows[j]
  BY InsertRows DEF Inv
<1>2. Len(rows) \in Nat /\ Len(rows') \in Nat
  BY <1>1, LenProperties DEF Inv, Types, IndexFits
<1>3. UNCHANGED killed
  BY DEF Insert
<1> QED BY <1>1, <1>2, <1>3 DEF IndexStep, Lost, Tuples, None

\* BulkDelete removes rows of targets, which are dead to all.
LEMMA BulkDeleteIndex ==
  ASSUME Inv, TuplesStep, BulkDelete
  PROVE  IndexStep
<1>1. PICK id \in Removable : rows' = [rows EXCEPT ![id] = None] /\ free' = Append(free, id)
  BY DEF BulkDelete, Least
<1>2. HasRow(id) /\ rows[id] \in vacuum.targets /\ UNCHANGED <<tuples, killed>>
  BY <1>1 DEF Removable, BulkDelete, heapVars
<1>3. PICK n \in Tuples : n = rows[id] /\ Gone(n)
  BY <1>2 DEF Inv, TargetsDead, Gone
<1>4. Gone(n)'
  BY <1>3 DEF TuplesStep
<1> QED BY <1>1, <1>2, <1>3, <1>4, RowGoesStep

\* kill_prior_tuple removes the row of the tuple that was read and is gone, unless
\* its ID has gone to another tuple.
LEMMA KillIndex ==
  ASSUME Inv, TuplesStep, UNCHANGED tuples,
         NEW so, IsScan(so), ScanFits(so), statement.kind # "bitmap", KillPrior(so)
  PROVE  IndexStep
<1> DEFINE id == ResolveID(so)
<1>1. CASE ~(so.kill /\ HasRow(id))
  BY <1>1, IndexStays DEF KillPrior, DeleteByID
<1>2. CASE so.kill /\ HasRow(id)
  <2> DEFINE n == rows[id]
             reused == \E h \in so.prior : n # h.tuple
  <2>1. /\ rows' = [rows EXCEPT ![id] = None] /\ free' = Append(free, id)
        /\ killed' = killed \cup {[tuple |-> n, reused |-> reused]}
    BY <1>2 DEF KillPrior, DeleteByID
  <2>2. CASE reused
    <3>1. n \in Lost'
      <4> HIDE DEF n, reused, id
      <4>1. [tuple |-> n, reused |-> TRUE] \in killed'
        BY <2>1, <2>2, Zenon
      <4> QED BY <4>1 DEF Lost
    <3>2. PICK m : m = n /\ m \in Lost'
      BY <3>1
    <3> QED BY <1>2, <2>1, <3>2, RowGoesStep
  <2>3. CASE ~reused
    <3>1. PICK h \in so.prior : h.tuple = n /\ Gone(h.tuple) /\ HandFits(h)
      BY <1>2, <2>3 DEF ScanFits
    <3>2. PICK m \in Tuples : m = n /\ Gone(m)
      BY <3>1 DEF HandFits
    <3>3. Gone(m)'
      BY <3>2 DEF TuplesStep
    <3> QED BY <1>2, <2>1, <3>2, <3>3, RowGoesStep
  <2> QED BY <2>2, <2>3
<1> QED BY <1>1, <1>2

LEMMA EveryIndexStep == Inv /\ [Next]_vars => IndexStep
<1> SUFFICES ASSUME Inv, [Next]_vars, TuplesStep PROVE IndexStep
  BY EveryTuplesStep DEF Inv
<1>1. ASSUME UNCHANGED <<index, killed>> PROVE IndexStep
  BY <1>1, IndexStays
<1>2. ASSUME NEW kind \in ScanKinds, BeginScan(kind) PROVE IndexStep
  BY <1>1, <1>2 DEF BeginScan
<1>3. ASSUME NEW p \in Participants, GetTuple(p) PROVE IndexStep
  <2>1. CASE UNCHANGED <<index, killed>>
    BY <1>1, <2>1
  <2>2. ASSUME NEW so \in Opened(p), KillPrior(so) PROVE IndexStep
    <3>1. MayGet(p) /\ statement.kind # "bitmap" /\ UNCHANGED tuples
      BY <1>3 DEF GetTuple, heapVars
    <3>2. IsScan(so) /\ ScanFits(so)
      BY <3>1, OpenedFits DEF Inv
    <3> QED BY <2>2, <3>1, <3>2, KillIndex
  <2> QED BY <1>3, <2>1, <2>2 DEF GetTuple
<1>4. ASSUME NEW p \in Participants, GetBitmap(p) \/ Fetch(p) PROVE IndexStep
  BY <1>1, <1>4 DEF GetBitmap, Fetch
<1>5. CASE Rescan \/ EndScan \/ Error \/ ReleaseScanOpaques \/ PlanNested \/ AnalyzeNested
  BY <1>1, <1>5 DEF Rescan, EndScan, Error, ReleaseScanOpaques, PlanNested, AnalyzeNested
<1>6. ASSUME NEW by \in {"leader", "other"}, NEW tid \in Tids, NEW matches \in BOOLEAN, Insert(by, tid, matches)
      PROVE  IndexStep
  BY <1>6, InsertIndex
<1>7. ASSUME NEW n \in DOMAIN tuples, Delete(n) \/ Commit(n) \/ Abort(n) PROVE IndexStep
  BY <1>1, <1>7 DEF Delete, Commit, Abort
<1>8. CASE BulkDelete
  BY <1>8, BulkDeleteIndex
<1>9. CASE VacuumStart \/ VacuumHeap \/ VacuumCleanup
  BY <1>1, <1>9 DEF VacuumStart, VacuumHeap, VacuumCleanup
<1>10. CASE UNCHANGED vars
  BY <1>1, <1>10 DEF vars
<1> QED BY <1>2, <1>3, <1>4, <1>5, <1>6, <1>7, <1>8, <1>9, <1>10 DEF Next

-----------------------------------------------------------------------------
(* The heap and VACUUM.                                                    *)

\* What a step leaves of the heap: what is new there has a row, and nothing else
\* comes in.
HeapStep ==
  /\ heap' \in [Tids -> Nat] /\ HeapFits'
  /\ DOMAIN vacuum' = {"pc", "targets"} /\ TargetsDead'
  /\ \A tid \in Tids : heap'[tid] \in {None, heap[tid]} \/ \E id \in 1 .. Len(rows') : rows'[id] = heap'[tid]

LEMMA FewerTargets ==
  ASSUME Inv, TuplesStep, vacuum'.targets \subseteq vacuum.targets
  PROVE  TargetsDead'
<1>1. Tuples \subseteq Tuples'
  BY LenProperties DEF Tuples, TuplesStep
<1> QED BY <1>1 DEF Inv, TargetsDead, TuplesStep

LEMMA LessHeap ==
  ASSUME Inv, TuplesStep, heap' \in [Tids -> Nat],
         \A tid \in Tids : heap'[tid] \in {None, heap[tid]}
  PROVE  HeapFits'
<1>1. Tuples \subseteq Tuples'
  BY LenProperties DEF Tuples, TuplesStep
<1> QED BY <1>1 DEF Inv, HeapFits, TuplesStep

LEMMA VacuumStartHeap ==
  ASSUME Inv, TuplesStep, VacuumStart
  PROVE  HeapStep
<1>1. /\ vacuum' = [pc |-> "index", targets |-> {n \in Range(heap) \ {None} : DeadToAll(n)}]
      /\ UNCHANGED <<tuples, heap>>
  BY DEF VacuumStart, heapVars
<1>2. HeapFits' /\ heap' \in [Tids -> Nat]
  BY <1>1, LessHeap DEF Inv, Types
<1>3. \A n \in vacuum'.targets : n \in Tuples' /\ DeadToAll(n)'
  <2> SUFFICES ASSUME NEW n \in vacuum'.targets PROVE n \in Tuples' /\ DeadToAll(n)'
    OBVIOUS
  <2>1. n \in Range(heap) /\ n # None /\ DeadToAll(n)
    BY <1>1
  <2>2. n \in Tuples
    BY <2>1 DEF Range, Inv, Types, HeapFits
  <2> QED BY <1>1, <2>1, <2>2 DEF TuplesStep, Tuples
<1>4. DOMAIN vacuum' = {"pc", "targets"} /\ TargetsDead'
  BY <1>1, <1>3 DEF TargetsDead
<1> QED BY <1>1, <1>2, <1>4 DEF HeapStep

LEMMA VacuumHeapHeap ==
  ASSUME Inv, TuplesStep, StatementStep, VacuumHeap
  PROVE  HeapStep
<1>1. /\ heap' = [tid \in Tids |-> IF heap[tid] \in vacuum.targets THEN None ELSE heap[tid]]
      /\ vacuum' = [pc |-> "cleanup", targets |-> {}]
  BY DEF VacuumHeap
<1>2. heap' \in [Tids -> Nat] /\ \A tid \in Tids : heap'[tid] \in {None, heap[tid]}
  BY <1>1 DEF Inv, Types, None
<1>3. DOMAIN vacuum' = {"pc", "targets"} /\ TargetsDead'
  BY <1>1 DEF TargetsDead
<1> QED BY <1>2, <1>3, LessHeap DEF HeapStep

LEMMA InsertHeap ==
  ASSUME Inv, TuplesStep,
         NEW by \in {"leader", "other"}, NEW tid \in Tids, NEW matches \in BOOLEAN, Insert(by, tid, matches)
  PROVE  HeapStep
<1>1. /\ Len(tuples') = Len(tuples) + 1 /\ tuples'[Len(tuples')].tid = tid
      /\ heap' = [heap EXCEPT ![tid] = Len(tuples')]
      /\ UNCHANGED vacuum
  BY InsertTuples DEF Inv, Insert
<1>2. Len(tuples) \in Nat
  BY LenProperties DEF Inv, Types
<1>3. \E id \in 1 .. Len(rows') : rows'[id] = Len(tuples')
  BY InsertRows DEF Inv
<1>4. heap' \in [Tids -> Nat] /\ \A t \in Tids : heap'[t] = IF t = tid THEN Len(tuples') ELSE heap[t]
  BY <1>1, <1>2 DEF Inv, Types
<1>5. HeapFits'
  BY <1>1, <1>2, <1>4 DEF Inv, HeapFits, TuplesStep, Tuples
<1>6. DOMAIN vacuum' = {"pc", "targets"} /\ TargetsDead'
  BY <1>1, FewerTargets DEF Inv, Types
<1> QED BY <1>3, <1>4, <1>5, <1>6 DEF HeapStep

LEMMA EveryHeapStep == Inv /\ [Next]_vars => HeapStep
<1> SUFFICES ASSUME Inv, [Next]_vars, TuplesStep, StatementStep PROVE HeapStep
  BY EveryTuplesStep, EveryStatementStep DEF Inv
<1>1. ASSUME UNCHANGED heap, DOMAIN vacuum' = {"pc", "targets"}, vacuum'.targets = vacuum.targets PROVE HeapStep
  BY <1>1, LessHeap, FewerTargets DEF Inv, Types, HeapStep
<1>2. ASSUME UNCHANGED <<heap, vacuum>> PROVE HeapStep
  BY <1>1, <1>2 DEF Inv, Types
<1>3. ASSUME NEW kind \in ScanKinds, BeginScan(kind) PROVE HeapStep
  BY <1>2, <1>3 DEF BeginScan, heapVars
<1>4. ASSUME NEW p \in Participants, GetTuple(p) \/ GetBitmap(p) \/ Fetch(p) PROVE HeapStep
  BY <1>2, <1>4 DEF GetTuple, GetBitmap, Fetch, heapVars
<1>5. CASE Rescan \/ EndScan \/ Error \/ ReleaseScanOpaques \/ PlanNested \/ AnalyzeNested
  BY <1>2, <1>5 DEF Rescan, EndScan, Error, ReleaseScanOpaques, PlanNested, AnalyzeNested, heapVars
<1>6. ASSUME NEW by \in {"leader", "other"}, NEW tid \in Tids, NEW matches \in BOOLEAN, Insert(by, tid, matches)
      PROVE  HeapStep
  BY <1>6, InsertHeap
<1>7. ASSUME NEW n \in DOMAIN tuples, Delete(n) \/ Commit(n) \/ Abort(n) PROVE HeapStep
  BY <1>2, <1>7 DEF Delete, Commit, Abort
<1>8. CASE VacuumStart
  BY <1>8, VacuumStartHeap
<1>9. CASE BulkDelete
  BY <1>2, <1>9 DEF BulkDelete, heapVars
<1>10. CASE VacuumHeap
  BY <1>10, VacuumHeapHeap
<1>11. CASE VacuumCleanup
  <2>1. vacuum' = [vacuum EXCEPT !.pc = "idle"] /\ UNCHANGED heap
    BY <1>11 DEF VacuumCleanup, heapVars
  <2> QED BY <1>1, <2>1 DEF Inv, Types
<1>12. CASE UNCHANGED vars
  BY <1>2, <1>12 DEF vars, heapVars
<1> QED BY <1>3, <1>4, <1>5, <1>6, <1>7, <1>8, <1>9, <1>10, <1>11, <1>12 DEF Next

-----------------------------------------------------------------------------
(* The invariant, and what it is for.                                      *)

\* A tuple that was in the heap has its row, is dead, or was lost; one that comes
\* in has a row.
LEMMA HaveRowsStep ==
  ASSUME Inv, TuplesStep, IndexStep, HeapStep
  PROVE  HaveRows'
<1> SUFFICES ASSUME NEW tid \in Tids, heap'[tid] # None
             PROVE  \/ heap'[tid] \in Lost' \/ DeadToAll(heap[tid])'
                    \/ \E id \in 1 .. Len(rows') : rows'[id] = heap'[tid]
  BY DEF HaveRows
<1>1. CASE \E id \in 1 .. Len(rows') : rows'[id] = heap'[tid]
  BY <1>1
<1>2. CASE ~\E id \in 1 .. Len(rows') : rows'[id] = heap'[tid]
  <2>1. PICK n \in Tuples : n = heap[tid] /\ n = heap'[tid]
    BY <1>2 DEF HeapStep, Inv, HeapFits
  <2>2. CASE n \in Lost
    BY <2>1, <2>2 DEF IndexStep
  <2>3. CASE DeadToAll(n)
    <3>1. DeadToAll(n)'
      BY <2>3 DEF TuplesStep
    <3> QED BY <2>1, <3>1 DEF DeadToAll
  <2>4. CASE \E id \in 1 .. Len(rows) : rows[id] = n
    <3>1. n \in Lost' \/ Gone(n)'
      BY <1>2, <2>1, <2>4 DEF IndexStep
    <3>2. Gone(n)' => DeadToAll(n)'
      BY <2>1 DEF Gone, InHeap
    <3> QED BY <2>1, <3>1, <3>2 DEF DeadToAll
  <2> QED BY <2>1, <2>2, <2>3, <2>4 DEF Inv, HaveRows
<1> QED BY <1>1, <1>2

LEMMA InvStep == Inv /\ [Next]_vars => Inv'
<1> SUFFICES ASSUME Inv, [Next]_vars PROVE Inv'
  OBVIOUS
<1>1. StatementStep /\ TuplesStep /\ ScansStep /\ IndexStep /\ HeapStep
  BY EveryStatementStep, EveryTuplesStep, EveryScansStep, EveryIndexStep, EveryHeapStep DEF Inv
<1>2. Types'
  BY <1>1 DEF Types, StatementStep, TuplesStep, ScansStep, AreScans, IndexStep, IndexFits, HeapStep
<1>3. HeapFits' /\ RowsFit' /\ FreeFits' /\ TargetsDead' /\ ScansFit'
  BY <1>1 DEF HeapStep, IndexStep, IndexFits, ScansStep
<1>4. HaveRows'
  BY <1>1, HaveRowsStep
<1> QED BY <1>2, <1>3, <1>4 DEF Inv

LEMMA RowsOfLiving == Inv => LiveTuplesHaveRows
<1> SUFFICES ASSUME Inv, NEW n \in Range(heap) \ ({None} \cup Lost), ~DeadToAll(n) PROVE n \in Range(rows)
  BY DEF LiveTuplesHaveRows
<1>1. PICK tid \in Tids : heap[tid] = n
  BY DEF Range, Inv, Types
<1>2. PICK id \in 1 .. Len(rows) : rows[id] = n
  BY <1>1 DEF Inv, HaveRows
<1> QED BY <1>2, LenProperties DEF Range, Inv, Types

\* Whatever insertions, scans that kill rows, VACUUM and the reuse of IDs do in
\* between, a tuple in the heap that somebody may see has a row in the index, but
\* for one whose row was removed by a kill_prior_tuple that came after the ID had
\* gone to it.
THEOREM LiveTuples == Spec => []LiveTuplesHaveRows
<1>1. Init => Inv
  BY InitInv
<1>2. Inv /\ [Next]_vars => Inv'
  BY InvStep
<1>3. Inv => LiveTuplesHaveRows
  BY RowsOfLiving
<1> QED BY <1>1, <1>2, <1>3, PTL DEF Spec

\* pgroonga_insert never closes what a scan of its own process has open
\* (PGrnNScanOpaques), and neither does anything else but another command of the
\* same transaction.
THEOREM ScansKeepObjects == Spec => []ScanKeepsObjects
<1>1. Init => Inv /\ ScanKeepsObjects
  <2>1. ~NoStatement.broken
    BY DEF NoStatement
  <2>2. Init => statement = NoStatement
    BY DEF Init
  <2> QED BY InitInv, <2>1, <2>2 DEF ScanKeepsObjects
<1>2. (Inv /\ ScanKeepsObjects) /\ [Next]_vars => (Inv /\ ScanKeepsObjects)'
  BY InvStep, BrokenStep DEF Inv
<1> QED BY <1>1, <1>2, PTL DEF Spec

-----------------------------------------------------------------------------
(* What a statement has returned, has in hand and has ahead of it.         *)

\* The ID a cursor comes to at place i, and the tuple there.
IdAt(so, i) == IF so.cursor = "found" THEN so.ids[i] ELSE i
TupleAt(so, i) == rows[IdAt(so, i)]
Upcoming(so) == {TupleAt(so, i) : i \in Ahead(so)}
Held(so) == {h.tuple : h \in so.hand}
Returned == ToSet(statement.returned)

\* A row may be taken for a match that is none only if its tuple came later than
\* the snapshot.
Answers(n) == tuples[n].matches \/ ~Visible(n, statement.snapshot)

\* A tuple in hand was in the heap when it was read; if something else is at its
\* place it came later than the snapshot.
HandKnown(h) ==
  /\ h.tuple \in Tuples /\ h.tid \in Tids /\ h = [tid |-> tuples[h.tuple].tid, tuple |-> h.tuple]
  /\ h.tuple \notin Returned /\ Answers(h.tuple)
  /\ heap[h.tid] \in {None, h.tuple} \/ tuples[heap[h.tid]].born \notin 1 .. statement.snapshot

\* Where a participant is with its cursor.
CursorFits(p) ==
  LET so == scan[p]
  IN /\ so.open \in BOOLEAN /\ so.done \in BOOLEAN /\ so.current \in Nat
     /\ so.cursor \in {"closed", "found", "rows"}
     /\ so.cursor = "found" => so.ids \in Seq(Nat) /\ IsInjective(so.ids) /\ so.current <= Len(so.ids)
     /\ so.cursor = "closed" => so.current = 0
     /\ so.cursor # "closed" => so.open /\ statement.kind # "bitmap"
     /\ so.open /\ statement.kind = "bitmap" => p = Leader
     /\ ~so.open => so.hand = {}
     /\ statement.kind # "bitmap" /\ so.current = 0 => so.hand = {} /\ ~so.kill

\* Nothing that is ahead was returned, and nothing that is to be returned is missing.
ReaderFits(so) ==
  /\ ~so.done => \A n \in Upcoming(so) : Answers(n) /\ n \notin Returned \cup Held(so)
  /\ \A n \in Reads \ Lost : \/ n \in Returned \cup Held(so)
                             \/ ~so.done /\ n \in Upcoming(so)

ReturnedFits ==
  /\ statement.returned \in Seq(Nat) /\ Returned \subseteq Tuples
  /\ IsInjective(statement.returned)
  /\ \A n \in Returned \ Reads : statement.kind = "index only" /\ n \in vacuumed

CursorsFit ==
  /\ scan[Leader].open
  /\ \A p \in Participants : CursorFits(p)
  /\ scanning \in BOOLEAN
  /\ scanning <=> \E p \in Participants : HasCursor(p)
  /\ \A p, q \in Participants : HasCursor(p) /\ HasCursor(q) => p = q
HandsFit == \A p \in Participants : \A h \in scan[p].hand : HandKnown(h)
ReadersFit == \A p \in Participants : scan[p].open /\ MayScan(p) => ReaderFits(scan[p])

Reading == Running /\ ~statement.broken
StatementSees == Reading => CursorsFit /\ ReturnedFits /\ HandsFit /\ ReadersFit

\* A row has a tuple of its own, and it is in the heap.
RowsDistinct == \A i, j \in 1 .. Len(rows) : rows[i] # None /\ rows[i] = rows[j] => i = j
RowsInHeap == \A id \in 1 .. Len(rows) : rows[id] # None => InHeap(rows[id])
\* A tuple that has left the heap was dead to all.
LeftDead == \A n \in Tuples : InHeap(n) \/ (n \in vacuumed /\ DeadToAll(n))
\* What the visibility map says is true.
MapFits == allVisible => \A tid \in Tids : heap[tid] # None =>
                           /\ tuples[heap[tid]].born \in 1 .. OldestSnapshot
                           /\ tuples[heap[tid]].died = Alive

HeapSees == RowsDistinct /\ RowsInHeap /\ LeftDead /\ MapFits

SeesInv == Inv /\ HeapSees /\ StatementSees

-----------------------------------------------------------------------------
(* Rows and the heap.                                                      *)

LEMMA TupleTypes ==
  ASSUME Types, NEW n \in Tuples
  PROVE  n # None /\ n \in Nat /\ tuples[n].born \in Int /\ tuples[n].died \in Nat /\ tuples[n].tid \in Nat
<1>1. tuples[n] \in Tuple /\ n \in 1 .. Len(tuples) /\ Len(tuples) \in Nat
  BY ElementOfSeq, LenProperties DEF Types, Tuples
<1> QED BY <1>1 DEF Tuple, None

LEMMA OldestTypes ==
  ASSUME Types, StatementStep
  PROVE  OldestSnapshot \in Nat /\ OldestSnapshot' \in Nat /\ OldestSnapshot <= OldestSnapshot'
BY OldestIsNow DEF StatementStep, OldestSnapshot, IsStatement

\* What the visibility map says stays true while the heap is as it is.
LEMMA MapStays ==
  ASSUME Inv, StatementStep, MapFits, UNCHANGED heap, allVisible' => allVisible,
         \A n \in Tuples : tuples[n].born # InProgress =>
            tuples'[n].born = tuples[n].born /\ tuples'[n].died = tuples[n].died
  PROVE  MapFits'
<1> SUFFICES ASSUME allVisible', NEW tid \in Tids, heap[tid] # None
             PROVE  /\ tuples'[heap[tid]].born \in 1 .. OldestSnapshot'
                    /\ tuples'[heap[tid]].died = Alive
  BY DEF MapFits
<1>1. /\ heap[tid] \in Tuples
      /\ tuples[heap[tid]].born \in 1 .. OldestSnapshot /\ tuples[heap[tid]].died = Alive
  BY DEF MapFits, Inv, HeapFits
<1>2. tuples[heap[tid]].born # InProgress
  BY <1>1 DEF InProgress
<1>3. OldestSnapshot \in Nat /\ OldestSnapshot' \in Nat /\ OldestSnapshot <= OldestSnapshot'
  BY OldestTypes DEF Inv
<1> QED BY <1>1, <1>2, <1>3

\* Steps that do nothing to the heap, and nothing to the rows but remove them.
LEMMA FewerRows ==
  ASSUME Inv, TuplesStep, StatementStep, HeapSees,
         UNCHANGED <<tuples, heap, allVisible>>, vacuumed \subseteq vacuumed', Len(rows') = Len(rows),
         \A id \in 1 .. Len(rows) : rows'[id] \in {None, rows[id]}
  PROVE  HeapSees'
<1>1. RowsDistinct' /\ RowsInHeap'
  BY DEF HeapSees, RowsDistinct, RowsInHeap, InHeap
<1>2. LeftDead'
  <2>1. \A n \in Tuples : (InHeap(n)' <=> InHeap(n)) /\ (DeadToAll(n) => DeadToAll(n)')
    BY DEF TuplesStep, InHeap
  <2>2. Tuples' = Tuples
    BY DEF Tuples
  <2> QED BY <2>1, <2>2 DEF HeapSees, LeftDead
<1>3. MapFits'
  BY MapStays DEF HeapSees
<1> QED BY <1>1, <1>2, <1>3 DEF HeapSees

LEMMA SameRows ==
  ASSUME Inv, TuplesStep, StatementStep, HeapSees,
         UNCHANGED <<heapVars, rows, vacuumed>>
  PROVE  HeapSees'
<1>1. UNCHANGED <<tuples, heap, allVisible>> /\ \A id \in 1 .. Len(rows) : rows'[id] \in {None, rows[id]}
  BY DEF heapVars
<1> QED BY <1>1, FewerRows

LEMMA RowGoesSees ==
  ASSUME Inv, TuplesStep, StatementStep, HeapSees, UNCHANGED <<heapVars, vacuumed>>, NEW id, HasRow(id),
         rows' = [rows EXCEPT ![id] = None], free' = Append(free, id)
  PROVE  HeapSees'
<1>1. IndexFits /\ UNCHANGED <<tuples, heap, allVisible>>
  BY DEF Inv, Types, IndexFits, heapVars
<1>2. Len(rows') = Len(rows) /\ \A j \in 1 .. Len(rows) : rows'[j] \in {None, rows[j]}
  BY <1>1, RowGoes
<1> QED BY <1>1, <1>2, FewerRows

\* The transactions change no tuple that a page all of whose tuples are visible has.
LEMMA TransactionSees ==
  ASSUME Inv, TuplesStep, StatementStep, HeapSees, NEW n \in DOMAIN tuples, Delete(n) \/ Commit(n) \/ Abort(n)
  PROVE  HeapSees'
<1>1. UNCHANGED <<rows, heap, vacuumed>>
  BY DEF Delete, Commit, Abort, index
<1>2. Len(tuples') = Len(tuples)
  BY DeleteTuples, EndTuples DEF Inv
<1>3. RowsDistinct' /\ RowsInHeap'
  BY <1>1 DEF HeapSees, RowsDistinct, RowsInHeap, InHeap
<1>4. LeftDead'
  <2>1. \A k \in Tuples : (InHeap(k)' <=> InHeap(k)) /\ (DeadToAll(k) => DeadToAll(k)')
    BY <1>1 DEF TuplesStep, InHeap
  <2>2. Tuples' = Tuples
    BY <1>2 DEF Tuples
  <2> QED BY <1>1, <2>1, <2>2 DEF HeapSees, LeftDead
<1>5. MapFits'
  <2>1. CASE Delete(n)
    BY <2>1 DEF Delete, MapFits
  <2>2. CASE Commit(n) \/ Abort(n)
    <3>1. \A k \in Tuples : tuples[k].born # InProgress => tuples'[k] = tuples[k]
      BY <2>2, EndTuples DEF Inv
    <3>2. allVisible' = allVisible
      BY <2>2 DEF Commit, Abort
    <3> QED BY <1>1, <3>1, <3>2, MapStays DEF HeapSees
  <2> QED BY <2>1, <2>2
<1> QED BY <1>3, <1>4, <1>5 DEF HeapSees

LEMMA InsertSees ==
  ASSUME Inv, TuplesStep, HeapSees,
         NEW by \in {"leader", "other"}, NEW tid \in Tids, NEW matches \in BOOLEAN, Insert(by, tid, matches)
  PROVE  HeapSees'
<1>0. Len(tuples) \in Nat /\ Len(tuples') = Len(tuples) + 1 /\ Len(tuples') \notin Tuples
  BY InsertTuples, LenProperties DEF Inv, Types, Tuples
<1>1. /\ heap[tid] = None /\ heap' \in [Tids -> Nat]
      /\ \A t \in Tids : heap'[t] = IF t = tid THEN Len(tuples') ELSE heap[t]
  <2>1. heap[tid] = None /\ heap' = [heap EXCEPT ![tid] = Len(tuples')]
    BY InsertTuples DEF Inv
  <2> QED BY <1>0, <2>1 DEF Inv, Types
<1>2. PICK j \in 1 .. Len(rows') : /\ rows'[j] = Len(tuples')
                                   /\ \A i \in 1 .. Len(rows') \ {j} : i \in 1 .. Len(rows) /\ rows'[i] = rows[i]
  BY InsertRows DEF Inv
<1>3. ASSUME NEW n, n # None, InHeap(n) PROVE InHeap(n)'
  BY <1>1, <1>3 DEF InHeap
<1>4. RowsDistinct'
  <2> SUFFICES ASSUME NEW i \in 1 .. Len(rows'), NEW k \in 1 .. Len(rows'), rows'[i] # None, rows'[i] = rows'[k]
               PROVE  i = k
    BY DEF RowsDistinct
  <2>1. \A m \in 1 .. Len(rows') \ {j} : rows'[m] # None => rows'[m] # Len(tuples')
    BY <1>0, <1>2 DEF Inv, RowsFit
  <2>2. CASE i = j \/ k = j
    BY <1>2, <2>1, <2>2
  <2>3. CASE i # j /\ k # j
    BY <1>2, <2>3 DEF HeapSees, RowsDistinct
  <2> QED BY <2>2, <2>3
<1>5. RowsInHeap'
  <2> SUFFICES ASSUME NEW i \in 1 .. Len(rows'), rows'[i] # None PROVE InHeap(rows[i])'
    BY DEF RowsInHeap, InHeap
  <2>1. CASE i = j
    BY <1>1, <1>2, <2>1 DEF InHeap
  <2>2. CASE i # j
    <3>1. InHeap(rows[i]) /\ rows'[i] = rows[i]
      BY <1>2, <2>2 DEF HeapSees, RowsInHeap
    <3>2. PICK n : n = rows[i]
      OBVIOUS
    <3>3. InHeap(n)'
      BY <1>3, <3>1, <3>2
    <3> QED BY <3>1, <3>2, <3>3 DEF InHeap
  <2> QED BY <2>1, <2>2
<1>6. LeftDead'
  <2> SUFFICES ASSUME NEW n \in Tuples' PROVE InHeap(n)' \/ (n \in vacuumed' /\ DeadToAll(n)')
    BY DEF LeftDead
  <2>1. CASE n = Len(tuples')
    BY <1>1, <2>1 DEF InHeap
  <2>2. CASE n # Len(tuples')
    <3>1. n \in Tuples /\ n # None /\ vacuumed' = vacuumed
      BY <1>0, <2>2 DEF Tuples, None, Insert
    <3> QED BY <1>3, <3>1 DEF HeapSees, LeftDead, TuplesStep
  <2> QED BY <2>1, <2>2
<1>7. MapFits'
  BY DEF Insert, MapFits
<1> QED BY <1>4, <1>5, <1>6, <1>7 DEF HeapSees

\* VACUUM takes from the heap what has no row any more.
LEMMA VacuumHeapSees ==
  ASSUME Inv, TuplesStep, StatementStep, HeapSees, VacuumHeap
  PROVE  HeapSees'
<1>1. /\ Removable = {} /\ UNCHANGED <<tuples, now, index, statement>>
      /\ vacuumed' = vacuumed \cup vacuum.targets
      /\ allVisible' = \A n \in Range(heap) \ (vacuum.targets \cup {None}) :
                          tuples[n].born \in 1 .. OldestSnapshot /\ tuples[n].died = Alive
  BY DEF VacuumHeap
<1>2. \A tid \in Tids : heap'[tid] = IF heap[tid] \in vacuum.targets THEN None ELSE heap[tid]
  BY VacuumAges DEF Inv
<1>3. Tuples' = Tuples /\ rows' = rows
  BY <1>1 DEF Tuples, index
<1>4. RowsDistinct'
  BY <1>3 DEF HeapSees, RowsDistinct
<1>5. ASSUME NEW n, InHeap(n), n \notin vacuum.targets PROVE InHeap(n)'
  BY <1>2, <1>5 DEF InHeap
<1>6. RowsInHeap'
  <2> SUFFICES ASSUME NEW i \in 1 .. Len(rows), rows[i] # None PROVE InHeap(rows[i])'
    BY <1>3 DEF RowsInHeap
  <2>1. PICK n : n = rows[i]
    OBVIOUS
  <2>2. i \in DOMAIN rows
    BY LenProperties DEF Inv, Types
  <2>3. n \notin vacuum.targets
    BY <1>1, <2>1, <2>2 DEF Removable, HasRow
  <2>4. InHeap(n)
    BY <2>1 DEF HeapSees, RowsInHeap
  <2>5. InHeap(n)'
    BY <1>5, <2>3, <2>4
  <2> QED BY <1>3, <2>1, <2>5 DEF InHeap
<1>7. LeftDead'
  <2> SUFFICES ASSUME NEW n \in Tuples PROVE InHeap(n)' \/ (n \in vacuumed' /\ DeadToAll(n)')
    BY <1>3 DEF LeftDead
  <2>1. CASE n \in vacuum.targets
    BY <1>1, <2>1 DEF Inv, TargetsDead, TuplesStep
  <2>2. CASE n \notin vacuum.targets
    BY <1>1, <1>5, <2>2 DEF HeapSees, LeftDead, TuplesStep
  <2> QED BY <2>1, <2>2
<1>8. MapFits'
  <2> SUFFICES ASSUME allVisible', NEW tid \in Tids, heap'[tid] # None
               PROVE  /\ tuples'[heap'[tid]].born \in 1 .. OldestSnapshot'
                      /\ tuples'[heap'[tid]].died = Alive
    BY DEF MapFits
  <2>1. OldestSnapshot' = OldestSnapshot
    BY <1>1 DEF OldestSnapshot, Running
  <2>2. heap'[tid] = heap[tid] /\ heap[tid] \in Range(heap) \ (vacuum.targets \cup {None})
    BY <1>2 DEF Range, Inv, Types
  <2> QED BY <1>1, <2>1, <2>2
<1> QED BY <1>4, <1>6, <1>7, <1>8 DEF HeapSees

LEMMA EveryHeapSees == Inv /\ HeapSees /\ [Next]_vars => HeapSees'
<1> SUFFICES ASSUME Inv, HeapSees, [Next]_vars, StatementStep, TuplesStep PROVE HeapSees'
  BY EveryStatementStep, EveryTuplesStep DEF Inv
<1>1. ASSUME UNCHANGED <<heapVars, rows, vacuumed>> PROVE HeapSees'
  BY <1>1, SameRows
<1>2. ASSUME NEW kind \in ScanKinds, BeginScan(kind) PROVE HeapSees'
  BY <1>1, <1>2 DEF BeginScan, index
<1>3. ASSUME NEW p \in Participants, GetTuple(p) PROVE HeapSees'
  <2>1. UNCHANGED <<heapVars, vacuumed>>
    BY <1>3 DEF GetTuple
  <2>2. CASE UNCHANGED rows
    BY <1>1, <2>1, <2>2
  <2>3. ASSUME NEW so, KillPrior(so), ~UNCHANGED rows PROVE HeapSees'
    <3>1. /\ HasRow(ResolveID(so)) /\ rows' = [rows EXCEPT ![ResolveID(so)] = None]
          /\ free' = Append(free, ResolveID(so))
      BY <2>3 DEF KillPrior, DeleteByID, index
    <3> QED BY <2>1, <3>1, RowGoesSees
  <2> QED BY <1>3, <2>2, <2>3 DEF GetTuple, index
<1>4. ASSUME NEW p \in Participants, GetBitmap(p) \/ Fetch(p) PROVE HeapSees'
  BY <1>1, <1>4 DEF GetBitmap, Fetch, index
<1>5. CASE Rescan \/ EndScan \/ Error \/ ReleaseScanOpaques \/ PlanNested \/ AnalyzeNested
  BY <1>1, <1>5 DEF Rescan, EndScan, Error, ReleaseScanOpaques, PlanNested, AnalyzeNested, index
<1>6. ASSUME NEW by \in {"leader", "other"}, NEW tid \in Tids, NEW matches \in BOOLEAN, Insert(by, tid, matches)
      PROVE  HeapSees'
  BY <1>6, InsertSees
<1>7. ASSUME NEW n \in DOMAIN tuples, Delete(n) \/ Commit(n) \/ Abort(n) PROVE HeapSees'
  BY <1>7, TransactionSees
<1>8. CASE VacuumStart \/ VacuumCleanup
  BY <1>1, <1>8 DEF VacuumStart, VacuumCleanup, index
<1>9. CASE BulkDelete
  <2>1. PICK id \in Removable : rows' = [rows EXCEPT ![id] = None] /\ free' = Append(free, id)
    BY <1>9 DEF BulkDelete, Least
  <2>2. HasRow(id) /\ UNCHANGED <<heapVars, vacuumed>>
    BY <1>9, <2>1 DEF Removable, BulkDelete
  <2> QED BY <2>1, <2>2, RowGoesSees
<1>10. CASE VacuumHeap
  BY <1>10, VacuumHeapSees
<1>11. CASE UNCHANGED vars
  BY <1>1, <1>11 DEF vars, index
<1> QED BY <1>2, <1>3, <1>4, <1>5, <1>6, <1>7, <1>8, <1>9, <1>10, <1>11 DEF Next

-----------------------------------------------------------------------------
(* What others do while a statement reads.                                 *)

\* What they change about tuples its snapshot does not tell apart.
SnapshotStep ==
  /\ statement'.snapshot = statement.snapshot
  /\ \A n \in Tuples : /\ tuples'[n].matches = tuples[n].matches
                       /\ tuples'[n].born \in 1 .. statement.snapshot <=> tuples[n].born \in 1 .. statement.snapshot
                       /\ Visible(n, statement.snapshot)' <=> Visible(n, statement.snapshot)
  /\ \A n \in Tuples' \ Tuples : tuples'[n].born \notin 1 .. statement.snapshot
PlacesStep == \A tid \in Tids : heap'[tid] \in {None, heap[tid]} \/ heap'[tid] \in Tuples' \ Tuples
RowsStep ==
  /\ Len(rows) <= Len(rows')
  /\ \A id \in 1 .. Len(rows') : \/ rows'[id] = None
                                 \/ id \in 1 .. Len(rows) /\ rows'[id] = rows[id]
                                 \/ rows'[id] \in Tuples' \ Tuples
  /\ \A id \in 1 .. Len(rows) : \A n \in Tuples : rows[id] = n => rows'[id] = n \/ DeadToAll(n)'

\* Who is visible to the statement is not dead.
LEMMA SeenAlive ==
  ASSUME Types, Running, NEW n \in Tuples, Visible(n, statement.snapshot)
  PROVE  ~DeadToAll(n)
<1>1. statement.snapshot \in Nat /\ OldestSnapshot = statement.snapshot
  BY DEF Types, IsStatement, OldestSnapshot
<1> QED BY <1>1, TupleTypes DEF Visible, DeadToAll, Aborted

LEMMA SeenAliveNext ==
  ASSUME Types', Running', NEW n \in Tuples', Visible(n, statement.snapshot)'
  PROVE  ~DeadToAll(n)'
<1>1. statement'.snapshot \in Nat /\ OldestSnapshot' = statement'.snapshot
  BY DEF Types, IsStatement, OldestSnapshot
<1>2. tuples'[n] \in Tuple
  BY ElementOfSeq, LenProperties DEF Types, Tuples
<1>3. tuples'[n].born \in Int /\ tuples'[n].died \in Nat
  BY <1>2 DEF Tuple
<1> QED BY <1>1, <1>3 DEF Visible, DeadToAll, Aborted

LEMMA SameReads ==
  ASSUME Types, TuplesStep, SnapshotStep
  PROVE  /\ Reads' = Reads
         /\ \A n \in Tuples : Answers(n) <=> Answers(n)'
         /\ \A n \in Tuples' \ Tuples : Answers(n)'
<1>1. DOMAIN tuples = Tuples /\ DOMAIN tuples' = Tuples' /\ Tuples \subseteq Tuples'
  BY LenProperties DEF Types, TuplesStep, Tuples
<1>2. \A n \in Tuples' \ Tuples : ~Visible(n, statement.snapshot)'
  BY DEF SnapshotStep, Visible
<1> QED BY <1>1, <1>2 DEF SnapshotStep, Reads, Answers

LEMMA ReaderIs ==
  ASSUME NEW p, NEW so, so = scan'[p], ReaderFits(so)'
  PROVE  ReaderFits(scan[p])'
BY DEF ReaderFits, Held, Upcoming, TupleAt, IdAt, Ahead

\* What comes to be ahead of a cursor is new, and what the statement is to return
\* stays ahead of it.
LEMMA UpcomingStep ==
  ASSUME Inv, Inv', TuplesStep, SnapshotStep, RowsStep, Running', NEW so, so.current \in Nat
  PROVE  /\ \A n \in Upcoming(so)' : n \in Upcoming(so) \/ n \in Tuples' \ Tuples
         /\ \A n \in Upcoming(so) : n \in Reads => n \in Upcoming(so)'
<1>0. /\ DOMAIN rows = 1 .. Len(rows) /\ Len(rows) \in Nat
      /\ DOMAIN rows' = 1 .. Len(rows') /\ Len(rows') \in Nat
  BY LenProperties DEF Inv, Types
<1>1. ASSUME NEW id, HasRow(id)', rows'[id] \notin Tuples' \ Tuples
      PROVE  /\ HasRow(id) /\ rows'[id] = rows[id] /\ id \in 1 .. Len(rows)
             /\ rows[id] \in Tuples /\ tuples'[rows[id]].matches = tuples[rows[id]].matches
  <2>1. HasRow(id) /\ rows'[id] = rows[id] /\ id \in 1 .. Len(rows)
    BY <1>0, <1>1 DEF HasRow, RowsStep
  <2> QED BY <2>1 DEF HasRow, Inv, RowsFit, SnapshotStep
<1>2. ASSUME NEW id, HasRow(id), rows[id] \in Reads
      PROVE  HasRow(id)' /\ rows'[id] = rows[id] /\ id \in 1 .. Len(rows')
             /\ tuples'[rows[id]].matches = tuples[rows[id]].matches
  <2>1. PICK n \in Tuples : n = rows[id]
    BY <1>0, <1>2 DEF HasRow, Inv, RowsFit
  <2>2. n \in Reads' /\ n \in Tuples' /\ Visible(n, statement.snapshot)'
    BY <1>2, <2>1, SameReads, LenProperties DEF Inv, Reads, Tuples, Types
  <2>3. ~DeadToAll(n)'
    <3>1. Running' /\ Types'
      BY DEF Inv
    <3> QED BY <2>2, <3>1, SeenAliveNext
  <2>4. rows'[id] = n /\ id \in 1 .. Len(rows')
    BY <1>0, <1>2, <2>1, <2>3 DEF RowsStep, HasRow
  <2> QED BY <1>0, <1>2, <2>1, <2>4 DEF HasRow, SnapshotStep
<1>3. ASSUME NEW n \in Upcoming(so)', n \notin Tuples' \ Tuples PROVE n \in Upcoming(so)
  <2>1. PICK i \in Ahead(so)' : n = rows'[IdAt(so, i)]
    BY <1>3 DEF Upcoming, TupleAt, IdAt
  <2>2. HasRow(IdAt(so, i))'
    BY <2>1 DEF Ahead, IdAt, Matching
  <2>3. /\ HasRow(IdAt(so, i)) /\ n = rows[IdAt(so, i)] /\ IdAt(so, i) \in 1 .. Len(rows)
        /\ tuples'[n].matches = tuples[n].matches
    BY <1>1, <1>3, <2>1, <2>2
  <2>4. i \in Ahead(so)
    <3>1. CASE so.cursor = "found"
      BY <2>1, <2>3, <3>1 DEF Ahead, IdAt
    <3>2. CASE so.cursor # "found"
      <4>1. i \in Matching' /\ i \in so.current + 1 .. Len(rows') /\ IdAt(so, i) = i
        BY <2>1, <3>2 DEF Ahead, IdAt
      <4>2. i \in Matching
        BY <1>0, <2>1, <2>3, <4>1 DEF Matching
      <4> QED BY <1>0, <2>3, <3>2, <4>1, <4>2 DEF Ahead
    <3> QED BY <3>1, <3>2
  <2> QED BY <2>3, <2>4 DEF Upcoming, TupleAt
<1>4. ASSUME NEW n \in Upcoming(so), n \in Reads PROVE n \in Upcoming(so)'
  <2>1. PICK i \in Ahead(so) : n = rows[IdAt(so, i)]
    BY <1>4 DEF Upcoming, TupleAt
  <2>2. HasRow(IdAt(so, i))
    BY <2>1 DEF Ahead, IdAt, Matching
  <2>3. /\ HasRow(IdAt(so, i))' /\ n = rows'[IdAt(so, i)] /\ IdAt(so, i) \in 1 .. Len(rows')
        /\ tuples'[n].matches = tuples[n].matches
    BY <1>2, <1>4, <2>1, <2>2 DEF IdAt
  <2>4. i \in Ahead(so)'
    <3>1. CASE so.cursor = "found"
      BY <2>1, <2>3, <3>1 DEF Ahead, IdAt
    <3>2. CASE so.cursor # "found"
      <4>1. i \in Matching /\ i \in so.current + 1 .. Len(rows) /\ IdAt(so, i) = i
        BY <2>1, <3>2 DEF Ahead, IdAt
      <4>2. i \in Matching'
        BY <1>0, <2>1, <2>3, <4>1 DEF Matching
      <4> QED BY <1>0, <2>3, <3>2, <4>1, <4>2 DEF Ahead
    <3> QED BY <3>1, <3>2
  <2> QED BY <2>3, <2>4 DEF Upcoming, TupleAt, IdAt
<1> QED BY <1>3, <1>4

\* Steps that take no part in the statement.
Elsewhere ==
  /\ UNCHANGED <<scan, scanning>>
  /\ statement'.pc = statement.pc /\ statement'.kind = statement.kind
  /\ statement'.returned = statement.returned /\ (statement.broken => statement'.broken)
  /\ SnapshotStep /\ PlacesStep /\ RowsStep
  /\ vacuumed \subseteq vacuumed'

LEMMA HandStays ==
  ASSUME Inv, TuplesStep, Elsewhere, NEW h, HandKnown(h)
  PROVE  HandKnown(h)'
<1>1. /\ h.tuple \in Tuples' /\ tuples'[h.tuple].tid = tuples[h.tuple].tid
      /\ Answers(h.tuple)'
  BY SameReads, LenProperties DEF Inv, Types, HandKnown, TuplesStep, Tuples, Elsewhere
<1>2. Returned' = Returned /\ statement'.snapshot = statement.snapshot
  BY DEF Elsewhere, SnapshotStep, Returned
<1>3. h.tid \in Tids /\ h = [tid |-> tuples'[h.tuple].tid, tuple |-> h.tuple]
  BY <1>1 DEF HandKnown
<1>4. heap'[h.tid] \in {None, h.tuple} \/ tuples'[heap'[h.tid]].born \notin 1 .. statement.snapshot
  <2>1. CASE heap'[h.tid] \in Tuples' \ Tuples
    BY <2>1 DEF Elsewhere, SnapshotStep
  <2>2. CASE heap'[h.tid] = heap[h.tid] /\ heap[h.tid] # None
    <3>1. heap[h.tid] \in Tuples
      BY <1>3, <2>2 DEF Inv, HeapFits
    <3> QED BY <2>2, <3>1 DEF HandKnown, Elsewhere, SnapshotStep
  <2> QED BY <1>3, <2>1, <2>2 DEF Elsewhere, PlacesStep
<1>5. h.tuple \notin Returned'
  BY <1>2 DEF HandKnown
<1> QED BY <1>1, <1>2, <1>3, <1>4, <1>5 DEF HandKnown

LEMMA ElsewhereSees ==
  ASSUME Inv, Inv', TuplesStep, IndexStep, Elsewhere, Running, StatementSees
  PROVE  StatementSees'
<1> SUFFICES ASSUME Reading' PROVE CursorsFit' /\ ReturnedFits' /\ HandsFit' /\ ReadersFit'
  BY DEF StatementSees
<1>1. CursorsFit /\ ReturnedFits /\ HandsFit /\ ReadersFit
  BY DEF StatementSees, Reading, Elsewhere
<1>2. /\ UNCHANGED <<scan, scanning>> /\ statement'.kind = statement.kind
      /\ Returned' = Returned /\ statement'.returned = statement.returned
      /\ Lost \subseteq Lost' /\ vacuumed \subseteq vacuumed'
  BY DEF Elsewhere, IndexStep, Returned
<1>3. CursorsFit'
  BY <1>1, <1>2 DEF CursorsFit, CursorFits, HasCursor
<1>4. Reads' = Reads /\ Tuples \subseteq Tuples' /\ Tuples = 1 .. Len(tuples)
  BY SameReads, LenProperties DEF Inv, Types, TuplesStep, Tuples, Elsewhere
<1>5. ReturnedFits'
  BY <1>1, <1>2, <1>4 DEF ReturnedFits
<1>6. HandsFit'
  BY <1>1, <1>2, HandStays DEF HandsFit
<1>7. ReadersFit'
  <2> SUFFICES ASSUME NEW p \in Participants, scan[p].open, MayScan(p) PROVE ReaderFits(scan[p])'
    BY <1>2 DEF ReadersFit, MayScan, HasCursor
  <2>1. PICK so : so = scan[p]
    OBVIOUS
  <2>2. ReaderFits(so) /\ so.current \in Nat /\ \A h \in so.hand : h.tuple \in Tuples
    BY <1>1, <2>1 DEF ReadersFit, CursorsFit, CursorFits, HandsFit, HandKnown
  <2>3. /\ \A n \in Upcoming(so)' : n \in Upcoming(so) \/ n \in Tuples' \ Tuples
        /\ \A n \in Upcoming(so) : n \in Reads => n \in Upcoming(so)'
    BY <2>2, UpcomingStep DEF Elsewhere, Reading
  <2>4. Held(so) \subseteq Tuples /\ Returned \subseteq Tuples
    BY <1>1, <2>2 DEF Held, ReturnedFits
  <2>5. \A n \in Reads' \ Lost' : \/ n \in Returned' \cup Held(so)
                                  \/ ~so.done /\ n \in Upcoming(so)'
    BY <1>2, <1>4, <2>2, <2>3 DEF ReaderFits
  <2>6. ASSUME ~so.done, NEW n \in Upcoming(so)' PROVE Answers(n)' /\ n \notin Returned' \cup Held(so)
    <3>1. CASE n \in Tuples' \ Tuples
      BY <1>2, <2>4, <3>1, SameReads DEF Inv, Elsewhere
    <3>2. CASE n \in Upcoming(so) /\ n \in Tuples
      BY <1>2, <2>2, <2>6, <3>2, SameReads DEF Inv, Elsewhere, ReaderFits
    <3>3. Upcoming(so) \subseteq Tuples
      <4>1. \A i \in Ahead(so) : HasRow(IdAt(so, i))
        BY DEF Ahead, IdAt, Matching
      <4> QED BY <4>1, LenProperties DEF Upcoming, TupleAt, HasRow, Inv, Types, RowsFit
    <3> QED BY <2>3, <3>1, <3>2, <3>3
  <2>7. ReaderFits(so)'
    BY <2>5, <2>6 DEF ReaderFits, Held
  <2> QED BY <1>2, <2>1, <2>7, ReaderIs
<1> QED BY <1>3, <1>5, <1>6, <1>7

LEMMA SnapshotStays ==
  ASSUME UNCHANGED tuples, statement'.snapshot = statement.snapshot
  PROVE  SnapshotStep
<1>1. Tuples' = Tuples /\ \A n \in Tuples : Visible(n, statement.snapshot)' <=> Visible(n, statement.snapshot)
  BY DEF Tuples, Visible
<1> QED BY <1>1 DEF SnapshotStep

LEMMA RowsStay ==
  ASSUME Types, UNCHANGED rows
  PROVE  RowsStep
BY LenProperties DEF RowsStep, Types

LEMMA PlacesStay ==
  ASSUME UNCHANGED heap
  PROVE  PlacesStep
BY DEF PlacesStep

LEMMA RowGoesElsewhere ==
  ASSUME Inv, UNCHANGED <<heapVars, statement, scan, scanning, vacuumed>>, NEW id, HasRow(id),
         rows' = [rows EXCEPT ![id] = None], free' = Append(free, id), DeadToAll(rows[id])
  PROVE  Elsewhere
<1>0. UNCHANGED <<tuples, heap, now>>
  BY DEF heapVars
<1>1. IndexFits
  BY DEF Inv, Types, IndexFits
<1>2. /\ id \in 1 .. Len(rows) /\ Len(rows') = Len(rows) /\ Len(rows) \in Nat
      /\ \A j \in 1 .. Len(rows) : rows'[j] = IF j = id THEN None ELSE rows[j]
  BY <1>0, <1>1, RowGoes, LenProperties DEF IndexFits
<1>3. ASSUME NEW n, n = rows[id] PROVE DeadToAll(n)'
  <2>1. OldestSnapshot' = OldestSnapshot
    BY <1>0 DEF OldestSnapshot, Running
  <2> QED BY <1>0, <1>3, <2>1 DEF DeadToAll
<1>4. RowsStep
  BY <1>2, <1>3 DEF RowsStep
<1> QED BY <1>0, <1>4, SnapshotStays, PlacesStay DEF Elsewhere

LEMMA VacuumHeapElsewhere ==
  ASSUME Inv, StatementStep, VacuumHeap
  PROVE  Elsewhere
<1>1. UNCHANGED <<tuples, rows, statement, scan, scanning>> /\ vacuumed \subseteq vacuumed'
  BY DEF VacuumHeap, index
<1>2. PlacesStep
  BY VacuumAges DEF Inv, PlacesStep
<1> QED BY <1>1, <1>2, SnapshotStays, RowsStay DEF Inv, Elsewhere

\* What ends after a snapshot was taken is not in it.
LEMMA DeleteElsewhere ==
  ASSUME Inv, NEW n \in DOMAIN tuples, Delete(n)
  PROVE  Elsewhere
<1>1. /\ UNCHANGED <<heap, rows, statement, scan, scanning, vacuumed>>
      /\ Tuples' = Tuples
  BY DeleteTuples DEF Inv, Delete, index, Tuples
<1>2. statement.snapshot \in Nat /\ statement.snapshot <= now /\ now \in Nat
  BY DEF Inv, Types, IsStatement
<1>3. tuples'[n].died = now + 1 /\ tuples[n].died = Alive /\ tuples'[n].born = tuples[n].born
  BY DeleteTuples, LenProperties DEF Inv, Types, Tuples
<1>4. \A k \in Tuples : Visible(k, statement.snapshot)' <=> Visible(k, statement.snapshot)
  BY <1>1, <1>2, <1>3, DeleteTuples DEF Inv, Visible, Alive
<1>5. SnapshotStep
  BY <1>1, <1>4, DeleteTuples DEF Inv, SnapshotStep
<1> QED BY <1>1, <1>5, RowsStay, PlacesStay DEF Inv, Elsewhere

LEMMA EndElsewhere ==
  ASSUME Inv, NEW n \in DOMAIN tuples, Commit(n) \/ Abort(n)
  PROVE  Elsewhere
<1>1. /\ UNCHANGED <<heap, rows, statement, scan, scanning, vacuumed>>
      /\ Tuples' = Tuples
  BY EndTuples DEF Inv, Commit, Abort, index, Tuples
<1>2. statement.snapshot \in Nat /\ statement.snapshot <= now /\ now \in Nat
  BY DEF Inv, Types, IsStatement
<1>3. tuples'[n].born \notin 1 .. statement.snapshot /\ tuples[n].born \notin 1 .. statement.snapshot
  BY <1>2, EndTuples DEF Inv, InProgress, Aborted
<1>4. \A k \in Tuples : Visible(k, statement.snapshot)' <=> Visible(k, statement.snapshot)
  BY <1>1, <1>3, EndTuples DEF Inv, Visible
<1>5. SnapshotStep
  BY <1>1, <1>3, <1>4, EndTuples DEF Inv, SnapshotStep
<1> QED BY <1>1, <1>5, RowsStay, PlacesStay DEF Inv, Elsewhere

LEMMA InsertElsewhere ==
  ASSUME Inv, NEW by \in {"leader", "other"}, NEW tid \in Tids, NEW matches \in BOOLEAN, Insert(by, tid, matches)
  PROVE  Elsewhere
<1>1. UNCHANGED <<scan, scanning, vacuumed>>
  BY DEF Insert
<1>2. /\ statement'.pc = statement.pc /\ statement'.kind = statement.kind /\ statement'.snapshot = statement.snapshot
      /\ statement'.returned = statement.returned /\ (statement.broken => statement'.broken)
  <2>1. CASE UNCHANGED statement
    BY <2>1
  <2>2. CASE UnmapDB
    <3>1. PICK b : statement' = [statement EXCEPT !.broken = b] /\ (statement.broken => b)
      BY <2>2 DEF UnmapDB
    <3> QED BY <3>1 DEF Inv, Types, IsStatement
  <2> QED BY <2>1, <2>2 DEF Insert, InsertEnsures, EnsureLatestDB
<1>3. Len(tuples) \in Nat /\ Len(tuples') = Len(tuples) + 1 /\ Tuples' \ Tuples = {Len(tuples')}
  BY InsertTuples, LenProperties DEF Inv, Types, Tuples
<1>4. SnapshotStep
  <2>1. \A n \in Tuples : Visible(n, statement.snapshot)' <=> Visible(n, statement.snapshot)
    BY <1>2, InsertTuples DEF Inv, Visible
  <2> QED BY <1>2, <1>3, <2>1, InsertTuples DEF Inv, SnapshotStep, InProgress
<1>5. PlacesStep
  BY <1>3, InsertTuples DEF Inv, Types, PlacesStep
<1>6. RowsStep
  <2>1. Len(rows) <= Len(rows') /\ \A j \in 1 .. Len(rows) : rows[j] # None => rows'[j] = rows[j]
    BY InsertRows DEF Inv
  <2>2. \A i \in 1 .. Len(rows') : rows'[i] = Len(tuples') \/ (i \in 1 .. Len(rows) /\ rows'[i] = rows[i])
    BY InsertRows DEF Inv
  <2> QED BY <1>3, <2>1, <2>2, TupleTypes DEF Inv, RowsStep
<1> QED BY <1>1, <1>2, <1>4, <1>5, <1>6 DEF Elsewhere

-----------------------------------------------------------------------------
(* What the statement itself does: it begins.                              *)

LEMMA NothingReturned == ToSet(<<>>) = {} /\ IsInjective(<<>>) /\ <<>> \in Seq(Nat)
<1>1. DOMAIN <<>> = {}
  OBVIOUS
<1> QED BY <1>1 DEF ToSet, IsInjective

LEMMA FreshFields ==
  ASSUME NEW kind, NEW p \in Participants
  PROVE  LET so == Opaques(kind)[p]
         IN /\ so.open \in BOOLEAN /\ (so.open <=> ~(kind = "bitmap" /\ p # Leader))
            /\ so.cursor = "closed" /\ so.current = 0 /\ so.hand = {} /\ ~so.kill
            /\ so.done \in BOOLEAN /\ ~so.done
BY DEF Opaques, Opaque, NoScan, None

\* Who is in the snapshot has a row that a cursor opened now finds.
LEMMA MatchingReads ==
  ASSUME Inv', HeapSees', Running', NEW n \in Reads' \ Lost'
  PROVE  \E id \in Matching' : rows'[id] = n
<1>1. n \in Tuples' /\ tuples'[n].matches /\ Visible(n, statement.snapshot)'
  BY LenProperties DEF Reads, Inv, Types, Tuples
<1>2. ~DeadToAll(n)'
  BY <1>1, SeenAliveNext DEF Inv
<1>3. PICK tid \in Tids : heap'[tid] = n
  BY <1>1, <1>2 DEF HeapSees, LeftDead, InHeap
<1>4. n # None
  BY <1>1 DEF Tuples, None
<1>5. PICK id \in 1 .. Len(rows') : rows'[id] = n
  BY <1>2, <1>3, <1>4 DEF Inv, HaveRows, DeadToAll
<1>6. id \in Matching'
  BY <1>1, <1>4, <1>5, LenProperties DEF Matching, HasRow, Inv, Types
<1> QED BY <1>5, <1>6

LEMMA FreshSees ==
  ASSUME Inv', HeapSees', Running', scan' = Opaques(statement'.kind), scanning' = FALSE, statement'.returned = <<>>
  PROVE  StatementSees'
<1>0. PICK kind : kind = statement'.kind
  OBVIOUS
<1>1. ASSUME NEW p \in Participants
      PROVE  /\ scan'[p].open \in BOOLEAN /\ (scan'[p].open <=> ~(kind = "bitmap" /\ p # Leader))
             /\ scan'[p].cursor = "closed" /\ scan'[p].current = 0
             /\ scan'[p].hand = {} /\ ~scan'[p].kill
             /\ scan'[p].done \in BOOLEAN /\ ~scan'[p].done
  BY <1>0, FreshFields
<1>2. CursorsFit'
  <2>1. \A p \in Participants : CursorFits(p)'
    <3> SUFFICES ASSUME NEW p \in Participants PROVE CursorFits(p)'
      OBVIOUS
    <3> QED BY <1>0, <1>1 DEF CursorFits
  <2>2. \A p \in Participants : ~HasCursor(p)'
    BY <1>1 DEF HasCursor
  <2> QED BY <1>0, <1>1, <2>1, <2>2, ScanAssumption DEF CursorsFit
<1>3. Returned' = {} /\ ReturnedFits'
  BY NothingReturned DEF ReturnedFits, Returned
<1>4. HandsFit'
  BY <1>1 DEF HandsFit
<1>5. ReadersFit'
  <2> SUFFICES ASSUME NEW p \in Participants, scan'[p].open PROVE ReaderFits(scan[p])'
    BY DEF ReadersFit
  <2>1. PICK so : so = scan'[p]
    OBVIOUS
  <2>2. so.cursor = "closed" /\ so.current = 0 /\ so.hand = {} /\ ~so.done
    BY <1>1, <2>1
  <2>3. Upcoming(so)' = {rows'[id] : id \in Matching'}
    <3>1. Ahead(so)' = Matching'
      <4>1. Ahead(so)' = {i \in 0 + 1 .. Len(rows') : i \in Matching'}
        BY <2>2 DEF Ahead
      <4> QED BY <4>1, LenProperties DEF Matching, Inv, Types
    <3>2. \A id : TupleAt(so, id)' = rows'[id]
      BY <2>2 DEF TupleAt, IdAt
    <3> QED BY <3>1, <3>2 DEF Upcoming
  <2>4. \A n \in Upcoming(so)' : Answers(n)'
    BY <2>3 DEF Matching, Answers
  <2>5. \A n \in Reads' \ Lost' : n \in Upcoming(so)'
    BY <2>3, MatchingReads
  <2>6. ReaderFits(so)'
    BY <1>3, <2>2, <2>4, <2>5 DEF ReaderFits, Held
  <2> QED BY <2>1, <2>6, ReaderIs
<1> QED BY <1>2, <1>3, <1>4, <1>5 DEF StatementSees

-----------------------------------------------------------------------------
(* A cursor is opened and goes on.                                         *)

\* Whatever order PGrnSort puts them in, they are all there once.
LEMMA SortedOnce ==
  ASSUME NEW S, IsFiniteSet(S), NEW f \in SetToSeqs(S)
  PROVE  f \in Seq(S) /\ IsInjective(f) /\ \A e \in S : \E i \in 1 .. Len(f) : f[i] = e
<1> DEFINE n == Cardinality(S)
<1>1. n \in Nat
  BY FS_CardinalityType
<1>2. f \in [1 .. n -> S] /\ IsInjective(f)
  BY DEF SetToSeqs, IsInjective
<1>3. IsFiniteSet(1 .. n) /\ Cardinality(1 .. n) = n
  BY <1>1, FS_Interval
<1> HIDE DEF n
<1>4. f \in Injection(1 .. n, S)
  BY <1>2 DEF Injection
<1>5. f \in Surjection(1 .. n, S)
  BY <1>3, <1>4, FS_Injection DEF n
<1>6. f \in Seq(S) /\ Len(f) = n
  BY <1>1, <1>2
<1> QED BY <1>2, <1>5, <1>6 DEF Surjection

LEMMA MatchingIDs ==
  ASSUME Types
  PROVE  Matching \subseteq 1 .. Len(rows) /\ Matching \subseteq Nat /\ IsFiniteSet(Matching)
<1>1. Matching \subseteq 1 .. Len(rows) /\ Len(rows) \in Nat
  BY LenProperties DEF Matching, Types
<1>2. IsFiniteSet(1 .. Len(rows))
  BY <1>1, FS_Interval
<1>3. IsFiniteSet(Matching)
  BY <1>1, <1>2, FS_Subset
<1> QED BY <1>1, <1>3

\* A cursor that is open, of a scan that goes on.
CursorOpen(so) ==
  /\ so.open /\ so.open \in BOOLEAN /\ ~so.done /\ so.done \in BOOLEAN /\ so.hand = {}
  /\ so.cursor \in {"found", "rows"} /\ so.current \in Nat
  /\ so.cursor = "found" => so.ids \in Seq(Nat) /\ IsInjective(so.ids) /\ so.current <= Len(so.ids)
  /\ so.current = 0 => ~so.kill

LEMMA FirstAhead ==
  ASSUME Types, NEW so, so.cursor # "found", so.current = 0
  PROVE  Upcoming(so) = {rows[id] : id \in Matching}
<1>1. Ahead(so) = Matching
  <2>1. Ahead(so) = {i \in 0 + 1 .. Len(rows) : i \in Matching}
    BY DEF Ahead
  <2> QED BY <2>1, MatchingIDs
<1>2. \A i : TupleAt(so, i) = rows[i]
  BY DEF TupleAt, IdAt
<1> QED BY <1>1, <1>2 DEF Upcoming

LEMMA FoundAhead ==
  ASSUME Types, NEW so, so.cursor = "found", so.current = 0, so.ids \in SetToSeqs(Matching)
  PROVE  /\ so.ids \in Seq(Nat) /\ IsInjective(so.ids)
         /\ Upcoming(so) = {rows[id] : id \in Matching}
<1>1. /\ so.ids \in Seq(Matching) /\ IsInjective(so.ids)
      /\ \A id \in Matching : \E i \in 1 .. Len(so.ids) : so.ids[i] = id
  BY MatchingIDs, SortedOnce
<1>2. Len(so.ids) \in Nat /\ \A i \in 1 .. Len(so.ids) : so.ids[i] \in Matching
  BY <1>1, ElementOfSeq, LenProperties
<1>3. so.ids \in Seq(Nat)
  BY <1>1, MatchingIDs
<1>4. Ahead(so) = 1 .. Len(so.ids)
  <2>1. Ahead(so) = {i \in 0 + 1 .. Len(so.ids) : HasRow(so.ids[i])}
    BY DEF Ahead
  <2>2. \A id \in Matching : HasRow(id)
    BY DEF Matching
  <2> QED BY <1>2, <2>1, <2>2
<1>5. \A i : TupleAt(so, i) = rows[so.ids[i]]
  BY DEF TupleAt, IdAt
<1>6. Upcoming(so) = {rows[so.ids[i]] : i \in 1 .. Len(so.ids)}
  BY <1>4, <1>5 DEF Upcoming
<1>7. {rows[so.ids[i]] : i \in 1 .. Len(so.ids)} = {rows[id] : id \in Matching}
  BY <1>1, <1>2
<1> QED BY <1>1, <1>3, <1>6, <1>7

LEMMA OpenedSees ==
  ASSUME Inv, NEW p \in Participants, CursorFits(p), MayGet(p), statement.kind # "bitmap", NEW so \in Opened(p)
  PROVE  CursorOpen(so) /\ Upcoming(so) = Upcoming(scan[p])
<1>1. IsScan(scan[p]) /\ scan[p].open /\ ~scan[p].done /\ scan[p].hand = {}
  BY DEF Inv, Types, MayGet
<1>2. CASE HasCursor(p)
  <2>1. so = scan[p]
    BY <1>2 DEF Opened
  <2> QED BY <1>1, <1>2, <2>1 DEF HasCursor, CursorFits, CursorOpen
<1>3. CASE ~HasCursor(p)
  <2>1. /\ scan[p].cursor = "closed" /\ scan[p].current = 0 /\ ~scan[p].kill
        /\ scan[p].open \in BOOLEAN /\ scan[p].done \in BOOLEAN
    BY <1>3 DEF HasCursor, CursorFits
  <2>2. Upcoming(scan[p]) = {rows[id] : id \in Matching}
    BY <2>1, FirstAhead DEF Inv
  <2>3. CASE so = [scan[p] EXCEPT !.cursor = "rows"]
    <3>1. /\ so.cursor = "rows" /\ so.open = scan[p].open /\ so.done = scan[p].done /\ so.hand = {}
          /\ so.current = 0 /\ ~so.kill
      BY <1>1, <2>1, <2>3 DEF IsScan
    <3> QED BY <1>1, <2>1, <2>2, <3>1, FirstAhead DEF CursorOpen, Inv
  <2>4. ASSUME NEW ids \in SetToSeqs(Matching), so = [scan[p] EXCEPT !.cursor = "found", !.ids = ids]
        PROVE  CursorOpen(so) /\ Upcoming(so) = Upcoming(scan[p])
    <3>1. /\ so.cursor = "found" /\ so.ids = ids /\ so.open = scan[p].open /\ so.done = scan[p].done /\ so.hand = {}
          /\ so.current = 0 /\ ~so.kill
      BY <1>1, <2>1, <2>4 DEF IsScan
    <3>2. so.ids \in Seq(Nat) /\ IsInjective(so.ids) /\ Upcoming(so) = {rows[id] : id \in Matching}
      BY <3>1, FoundAhead DEF Inv
    <3> QED BY <1>1, <2>1, <2>2, <3>1, <3>2, LenProperties DEF CursorOpen
  <2> QED BY <1>3, <2>3, <2>4 DEF Opened
<1> QED BY <1>2, <1>3

\* kill_prior_tuple removes nothing that is ahead.
LEMMA KillKeepsUpcoming ==
  ASSUME Inv, NEW so, CursorOpen(so), UNCHANGED tuples, KillPrior(so),
         NEW next, next.cursor = so.cursor, next.ids = so.ids, next.current \in Nat, so.current <= next.current
  PROVE  Upcoming(next)' = Upcoming(next)
<1> DEFINE id == ResolveID(so)
<1>1. CASE ~(so.kill /\ HasRow(id))
  <2>1. UNCHANGED rows
    BY <1>1 DEF KillPrior, DeleteByID, index
  <2> QED BY <2>1 DEF Upcoming, TupleAt, IdAt, Ahead, Matching, HasRow
<1>2. CASE so.kill /\ HasRow(id)
  <2>0. /\ rows' = [rows EXCEPT ![id] = None] /\ free' = Append(free, id)
        /\ IndexFits
    BY <1>2 DEF KillPrior, DeleteByID, Inv, Types, IndexFits
  <2>1. /\ id \in 1 .. Len(rows) /\ Len(rows') = Len(rows) /\ Len(rows) \in Nat
        /\ \A j \in 1 .. Len(rows) : rows'[j] = IF j = id THEN None ELSE rows[j]
    BY <1>2, <2>0, RowGoes, LenProperties DEF IndexFits
  <2>2. so.current \in Nat /\ so.current # 0 /\ id = IdAt(so, so.current)
    BY <1>2 DEF CursorOpen, ResolveID, IdAt
  <2>3. DOMAIN rows = 1 .. Len(rows) /\ DOMAIN rows' = 1 .. Len(rows)
    BY <2>0, <2>1, LenProperties DEF Inv, Types
  <2> HIDE DEF id
  <2>4. \A j : j # id => /\ HasRow(j)' <=> HasRow(j)
                         /\ HasRow(j) => rows'[j] = rows[j]
                         /\ j \in Matching' <=> j \in Matching
    BY <2>1, <2>3 DEF HasRow, Matching
  <2>5. CASE so.cursor = "found"
    <3>1. /\ so.ids \in Seq(Nat) /\ so.current <= Len(so.ids) /\ Len(so.ids) \in Nat
          /\ \A i, j \in 1 .. Len(so.ids) : so.ids[i] = so.ids[j] => i = j
      BY <2>5, LenProperties DEF CursorOpen, IsInjective
    <3>2. \A i \in next.current + 1 .. Len(so.ids) : so.ids[i] # id
      BY <2>2, <2>5, <3>1 DEF IdAt
    <3>3. Ahead(next)' = Ahead(next) /\ \A i \in Ahead(next) : TupleAt(next, i)' = TupleAt(next, i)
      BY <2>4, <2>5, <3>2 DEF Ahead, TupleAt, IdAt
    <3> QED BY <3>3 DEF Upcoming
  <2>6. CASE so.cursor # "found"
    <3>1. \A i \in next.current + 1 .. Len(rows) : i # id
      BY <2>1, <2>2, <2>6 DEF IdAt
    <3>2. \A i \in Matching : HasRow(i)
      BY DEF Matching
    <3>3. Ahead(next)' = Ahead(next) /\ \A i \in Ahead(next) : TupleAt(next, i)' = TupleAt(next, i)
      BY <2>1, <2>4, <2>6, <3>1, <3>2 DEF Ahead, TupleAt, IdAt
    <3> QED BY <3>3 DEF Upcoming
  <2> QED BY <2>5, <2>6
<1> QED BY <1>1, <1>2

\* What is read is no longer ahead.
LEMMA ReadSees ==
  ASSUME Inv, HeapSees, NEW so, IsScan(so), CursorOpen(so), NEW i \in Least(Ahead(so)), NEW next, next = ReadAt(so, i)
  PROVE  /\ HasRow(IdAt(so, i)) /\ TupleAt(so, i) \in Upcoming(so)
         /\ next.hand = {InHand(IdAt(so, i))} /\ Held(next) = {TupleAt(so, i)}
         /\ next.open /\ next.open \in BOOLEAN /\ ~next.done /\ next.done \in BOOLEAN
         /\ next.cursor = so.cursor /\ next.ids = so.ids /\ next.current = i
         /\ i \in Nat /\ so.current < i /\ (so.cursor = "found" => i <= Len(so.ids))
         /\ Upcoming(next) = Upcoming(so) \ {TupleAt(so, i)}
<1> DEFINE id == ResolveID([so EXCEPT !.current = i])
<1>0. i \in Ahead(so) /\ \A j \in Ahead(so) : i <= j
  BY DEF Least
<1>1. id = IdAt(so, i)
  <2>1. /\ [so EXCEPT !.current = i].current = i /\ [so EXCEPT !.current = i].cursor = so.cursor
        /\ [so EXCEPT !.current = i].ids = so.ids
    BY DEF IsScan
  <2> QED BY <2>1 DEF ResolveID, IdAt
<1>2. next = [so EXCEPT !.current = i, !.hand = {InHand(id)}, !.prior = {InHand(id)}, !.kill = FALSE]
  BY DEF ReadAt
<1> HIDE DEF id
<1>3. /\ next.hand = {InHand(id)} /\ next.open = so.open /\ next.done = so.done
      /\ next.cursor = so.cursor /\ next.ids = so.ids /\ next.current = i
  BY <1>2 DEF IsScan
<1>4. HasRow(IdAt(so, i)) /\ TupleAt(so, i) \in Upcoming(so)
  BY <1>0 DEF Ahead, IdAt, Matching, Upcoming
<1>5. Held(next) = {TupleAt(so, i)}
  BY <1>1, <1>3 DEF Held, InHand, TupleAt
<1>6. so.current \in Nat /\ Len(rows) \in Nat /\ (so.cursor = "found" => Len(so.ids) \in Nat)
  BY LenProperties DEF CursorOpen, Inv, Types
<1>7. i \in Nat /\ so.current < i /\ (so.cursor = "found" => i <= Len(so.ids))
  BY <1>0, <1>6 DEF Ahead
<1>8. Ahead(next) = Ahead(so) \ {i}
  <2>1. Ahead(next) = {j \in i + 1 .. (IF so.cursor = "found" THEN Len(so.ids) ELSE Len(rows)) :
                         IF so.cursor = "found" THEN HasRow(so.ids[j]) ELSE j \in Matching}
    BY <1>3 DEF Ahead
  <2>2. \A j : j \in Ahead(next) <=> j \in Ahead(so) /\ j # i
    <3>1. CASE so.cursor = "found"
      BY <1>0, <1>6, <1>7, <2>1, <3>1 DEF Ahead
    <3>2. CASE so.cursor # "found"
      BY <1>0, <1>6, <1>7, <2>1, <3>2 DEF Ahead
    <3> QED BY <3>1, <3>2
  <2> QED BY <2>2
<1>9. ASSUME NEW j \in Ahead(so), TupleAt(so, j) = TupleAt(so, i) PROVE j = i
  <2>1. HasRow(IdAt(so, j))
    BY DEF Ahead, IdAt, Matching
  <2>2. IdAt(so, j) = IdAt(so, i)
    BY <1>4, <1>9, <2>1, LenProperties DEF HasRow, TupleAt, HeapSees, RowsDistinct, Inv, Types
  <2>3. CASE so.cursor = "found"
    <3>1. i \in 1 .. Len(so.ids) /\ j \in 1 .. Len(so.ids) /\ DOMAIN so.ids = 1 .. Len(so.ids)
      BY <1>0, <1>6, <2>3, LenProperties DEF Ahead, CursorOpen
    <3> QED BY <2>2, <2>3, <3>1 DEF IdAt, CursorOpen, IsInjective
  <2> QED BY <2>2, <2>3 DEF IdAt
<1>10. \A j : TupleAt(next, j) = TupleAt(so, j)
  BY <1>3 DEF TupleAt, IdAt
<1>11. Upcoming(next) = Upcoming(so) \ {TupleAt(so, i)}
  BY <1>0, <1>8, <1>9, <1>10 DEF Upcoming
<1> QED BY <1>1, <1>3, <1>4, <1>5, <1>7, <1>11 DEF CursorOpen

\* What is taken from the index into the hand.
LEMMA InHandKnown ==
  ASSUME Inv, HeapSees, NEW id, HasRow(id), rows[id] \notin Returned, Answers(rows[id])
  PROVE  HandKnown(InHand(id))
<1>1. id \in 1 .. Len(rows) /\ rows[id] # None
  BY LenProperties DEF HasRow, Inv, Types
<1>2. rows[id] \in Tuples /\ InHeap(rows[id])
  BY <1>1 DEF Inv, RowsFit, HeapSees, RowsInHeap
<1>3. PICK tid \in Tids : heap[tid] = rows[id]
  BY <1>2 DEF InHeap
<1>4. tuples[rows[id]].tid = tid
  BY <1>1, <1>3 DEF Inv, HeapFits
<1> QED BY <1>2, <1>3, <1>4 DEF HandKnown, InHand

\* A step that changes nothing of the heap and returns nothing.
LEMMA SameFacts ==
  ASSUME UNCHANGED <<heapVars, statement, vacuumed>>
  PROVE  /\ Reads' = Reads /\ Returned' = Returned /\ Tuples' = Tuples
         /\ \A n : Answers(n)' <=> Answers(n)
         /\ \A h : HandKnown(h) => HandKnown(h)'
         /\ ReturnedFits => ReturnedFits'
<1>1. UNCHANGED <<tuples, heap, statement, vacuumed>>
  BY DEF heapVars
<1>2. \A n : Visible(n, statement.snapshot)' <=> Visible(n, statement.snapshot)
  BY <1>1 DEF Visible
<1>3. Reads' = Reads /\ Returned' = Returned /\ Tuples' = Tuples /\ \A n : Answers(n)' <=> Answers(n)
  BY <1>1, <1>2 DEF Reads, Returned, Tuples, Answers
<1>4. \A h : HandKnown(h) => HandKnown(h)'
  BY <1>1, <1>3 DEF HandKnown
<1> QED BY <1>1, <1>3, <1>4 DEF ReturnedFits

\* The one that scans, when it reads on or has come to the end.
LEMMA ScannerSees ==
  ASSUME Inv, Inv', IndexStep, UNCHANGED <<heapVars, statement, vacuumed>>,
         CursorsFit, ReturnedFits, HandsFit, statement.kind # "bitmap",
         NEW p \in Participants, MayScan(p), scanning' = TRUE,
         NEW next, scan' = [scan EXCEPT ![p] = next],
         next.open, next.open \in BOOLEAN, next.done \in BOOLEAN, next.cursor \in {"found", "rows"}, next.current \in Nat,
         next.cursor = "found" => next.ids \in Seq(Nat) /\ IsInjective(next.ids) /\ next.current <= Len(next.ids),
         next.current = 0 => next.hand = {} /\ ~next.kill,
         \A h \in next.hand : HandKnown(h),
         ReaderFits(next)'
  PROVE  StatementSees'
<1>1. \A q \in Participants : scan'[q] = IF q = p THEN next ELSE scan[q]
  BY DEF Inv, Types
<1>2. \A q \in Participants : HasCursor(q) => q = p
  BY DEF CursorsFit, MayScan
<1>3. \A q \in Participants : HasCursor(q)' <=> q = p
  BY <1>1, <1>2 DEF HasCursor
<1>4. CursorsFit'
  <2>1. ASSUME NEW q \in Participants PROVE CursorFits(q)'
    <3>1. CASE q = p
      BY <1>1, <3>1 DEF CursorFits
    <3>2. CASE q # p
      BY <1>1, <3>2 DEF CursorFits, CursorsFit
    <3> QED BY <3>1, <3>2
  <2>2. scan'[Leader].open
    BY <1>1, ScanAssumption DEF CursorsFit
  <2> QED BY <1>3, <2>1, <2>2 DEF CursorsFit
<1>5. HandsFit'
  <2>1. ASSUME NEW q \in Participants, NEW h \in scan'[q].hand PROVE HandKnown(h)
    BY <1>1, <2>1 DEF HandsFit
  <2> QED BY <2>1, SameFacts DEF HandsFit
<1>6. ReadersFit'
  <2> SUFFICES ASSUME NEW q \in Participants, MayScan(q)' PROVE ReaderFits(scan[q])'
    BY DEF ReadersFit
  <2>1. q = p /\ scan'[q] = next
    BY <1>1, <1>3 DEF MayScan
  <2> QED BY <2>1, ReaderIs
<1> QED BY <1>4, <1>5, <1>6, SameFacts DEF StatementSees

LEMMA GetTupleSees ==
  ASSUME Inv, Inv', HeapSees, IndexStep, StatementSees, NEW p \in Participants, GetTuple(p)
  PROVE  StatementSees'
<1>1. /\ MayGet(p) /\ statement.kind # "bitmap" /\ UNCHANGED <<heapVars, statement, vacuumed>>
      /\ Reading
  BY DEF GetTuple, MayGet, Reading
<1>2. CursorsFit /\ ReturnedFits /\ HandsFit /\ ReadersFit /\ CursorFits(p) /\ Lost \subseteq Lost'
  BY <1>1 DEF StatementSees, CursorsFit, IndexStep
<1>3. ASSUME Acquire(p), NEW so \in Opened(p), KillPrior(so), NEW next \in NextTuple(so), scan' = [scan EXCEPT ![p] = next]
      PROVE  StatementSees'
  <2>1. MayScan(p) /\ scanning' = TRUE /\ scan[p].open /\ ~scan[p].done /\ scan[p].hand = {} /\ UNCHANGED tuples
    BY <1>1, <1>3 DEF Acquire, MayGet, heapVars
  <2>2. CursorOpen(so) /\ IsScan(so) /\ Upcoming(so) = Upcoming(scan[p])
    BY <1>1, <1>2, <1>3, OpenedSees, OpenedFits DEF Inv
  <2>3. ReaderFits(scan[p])
    BY <1>2, <2>1 DEF ReadersFit
  <2>4. /\ \A n \in Upcoming(so) : Answers(n) /\ n \notin Returned
        /\ \A n \in Reads \ Lost : n \in Returned \/ n \in Upcoming(so)
    BY <2>1, <2>2, <2>3 DEF ReaderFits, Held
  <2>5. CASE Ahead(so) = {}
    <3>1. next = AllRead(so)
      BY <1>3, <2>5 DEF NextTuple
    <3>2. /\ next.open = so.open /\ next.done = TRUE /\ next.cursor = so.cursor /\ next.ids = so.ids
          /\ next.current = so.current /\ next.hand = so.hand /\ ~next.kill
      BY <2>2, <3>1 DEF AllRead, IsScan
    <3>3. \A n \in Reads \ Lost : n \in Returned
      BY <2>4, <2>5 DEF Upcoming
    <3>4. ReaderFits(next)'
      BY <1>1, <1>2, <3>2, <3>3, SameFacts DEF ReaderFits
    <3> QED BY <1>1, <1>2, <1>3, <2>1, <2>2, <3>2, <3>4, ScannerSees DEF CursorOpen
  <2>6. ASSUME NEW i \in Least(Ahead(so)), next = ReadAt(so, i) PROVE StatementSees'
    <3>1. /\ HasRow(IdAt(so, i)) /\ TupleAt(so, i) \in Upcoming(so)
          /\ next.hand = {InHand(IdAt(so, i))} /\ Held(next) = {TupleAt(so, i)}
          /\ next.open /\ next.open \in BOOLEAN /\ ~next.done /\ next.done \in BOOLEAN
          /\ next.cursor = so.cursor /\ next.ids = so.ids /\ next.current = i
          /\ i \in Nat /\ so.current < i /\ (so.cursor = "found" => i <= Len(so.ids))
          /\ Upcoming(next) = Upcoming(so) \ {TupleAt(so, i)}
      BY <2>2, <2>6, ReadSees
    <3>2. so.current \in Nat /\ so.current <= i /\ i # 0
      BY <2>2, <3>1 DEF CursorOpen
    <3>3. Upcoming(next)' = Upcoming(next)
      BY <1>3, <2>1, <2>2, <3>1, <3>2, KillKeepsUpcoming
    <3>4. \A h \in next.hand : HandKnown(h)
      BY <2>4, <3>1, InHandKnown DEF TupleAt
    <3>5. Held(next)' = Held(next)
      BY DEF Held
    <3>6. ReaderFits(next)'
      BY <1>1, <1>2, <2>4, <3>1, <3>3, <3>5, SameFacts DEF ReaderFits
    <3> QED BY <1>1, <1>2, <1>3, <2>1, <2>2, <3>1, <3>2, <3>4, <3>6, ScannerSees DEF CursorOpen
  <2> QED BY <1>3, <2>5, <2>6 DEF NextTuple
<1>4. CASE ~MayScan(p) /\ scan' = [scan EXCEPT ![p] = AllRead(@)] /\ UNCHANGED <<index, killed, scanning>>
  <2>1. PICK next : next = AllRead(scan[p])
    OBVIOUS
  <2>2. /\ next.open = scan[p].open /\ next.done = TRUE /\ next.cursor = scan[p].cursor /\ next.ids = scan[p].ids
        /\ next.current = scan[p].current /\ next.hand = scan[p].hand /\ ~next.kill
    BY <2>1 DEF AllRead, Inv, Types, IsScan
  <2>3. \A q \in Participants : scan'[q] = IF q = p THEN next ELSE scan[q]
    BY <1>4, <2>1 DEF Inv, Types
  <2>4. \A q \in Participants : HasCursor(q)' <=> HasCursor(q)
    BY <2>2, <2>3 DEF HasCursor
  <2>5. scanning' = scanning
    BY <1>4
  <2>6. CursorsFit'
    <3>1. ASSUME NEW q \in Participants PROVE CursorFits(q)'
      <4>1. CASE q = p
        BY <1>1, <1>2, <2>2, <2>3, <4>1 DEF CursorFits
      <4>2. CASE q # p
        BY <1>1, <1>2, <2>3, <4>2 DEF CursorFits, CursorsFit
      <4> QED BY <4>1, <4>2
    <3>2. scan'[Leader].open
      BY <1>2, <2>2, <2>3, ScanAssumption DEF CursorsFit
    <3> QED BY <1>2, <2>4, <2>5, <3>1, <3>2 DEF CursorsFit
  <2>7. HandsFit'
    BY <1>1, <1>2, <2>2, <2>3, SameFacts DEF HandsFit
  <2>8. ReadersFit'
    <3> SUFFICES ASSUME NEW q \in Participants, scan'[q].open, MayScan(q)' PROVE ReaderFits(scan[q])'
      BY DEF ReadersFit
    <3>1. MayScan(q) /\ q # p /\ scan'[q] = scan[q] /\ scan[q].open
      BY <1>4, <2>3, <2>4, <2>5 DEF MayScan
    <3>2. PICK so : so = scan[q]
      OBVIOUS
    <3>3. ReaderFits(so)
      BY <1>2, <3>1, <3>2 DEF ReadersFit
    <3>4. Upcoming(so)' = Upcoming(so) /\ Held(so)' = Held(so)
      BY <1>1, <1>4 DEF Upcoming, TupleAt, IdAt, Ahead, HasRow, Matching, Held, index, heapVars
    <3>5. ReaderFits(so)'
      BY <1>1, <1>2, <3>3, <3>4, SameFacts DEF ReaderFits
    <3> QED BY <3>1, <3>2, <3>5, ReaderIs
  <2> QED BY <1>1, <1>2, <2>6, <2>7, <2>8, SameFacts DEF StatementSees
<1> QED BY <1>3, <1>4 DEF GetTuple

-----------------------------------------------------------------------------
(* A bitmap is made, and tuples are fetched.                               *)

\* The one that has something in its hand is the one that scans.
LEMMA OneHand ==
  ASSUME CursorsFit, NEW p \in Participants, scan[p].hand # {}
  PROVE  /\ \A q \in Participants : scan[q].hand # {} => q = p
         /\ \A q \in Participants : scan[q].open /\ MayScan(q) => q = p
         /\ scan[p].open /\ MayScan(p)
<1>1. \A q \in Participants : CursorFits(q)
  BY DEF CursorsFit
<1>2. CASE statement.kind = "bitmap"
  <2>1. \A q \in Participants : ~HasCursor(q) /\ (scan[q].open => q = Leader) /\ (scan[q].hand # {} => q = Leader)
    BY <1>1, <1>2 DEF CursorFits, HasCursor
  <2>2. p = Leader /\ ~scanning
    BY <2>1 DEF CursorsFit
  <2> QED BY <2>1, <2>2 DEF CursorsFit, MayScan
<1>3. CASE statement.kind # "bitmap"
  <2>1. \A q \in Participants : scan[q].hand # {} => HasCursor(q)
    BY <1>1, <1>3 DEF CursorFits, HasCursor
  <2>2. HasCursor(p) /\ scanning /\ \A q \in Participants : HasCursor(q) => q = p
    BY <2>1 DEF CursorsFit
  <2> QED BY <1>1, <2>1, <2>2 DEF MayScan, CursorFits, HasCursor
<1> QED BY <1>2, <1>3

LEMMA GetBitmapSees ==
  ASSUME Inv, HeapSees, IndexStep, StatementSees, NEW p \in Participants, GetBitmap(p)
  PROVE  StatementSees'
<1>1. /\ MayGet(p) /\ statement.kind = "bitmap" /\ UNCHANGED <<heapVars, statement, vacuumed, index, scanning>>
      /\ Reading
  BY DEF GetBitmap, MayGet, Reading
<1>2. CursorsFit /\ ReturnedFits /\ HandsFit /\ ReadersFit /\ CursorFits(p) /\ Lost \subseteq Lost'
  BY <1>1 DEF StatementSees, CursorsFit, IndexStep
<1>3. \A q \in Participants : ~HasCursor(q) /\ (scan[q].open => q = Leader)
  BY <1>1, <1>2 DEF CursorsFit, CursorFits, HasCursor
<1>4. /\ p = Leader /\ ~scanning /\ scan[p].open /\ ~scan[p].done /\ scan[p].hand = {}
      /\ scan[p].cursor = "closed" /\ scan[p].current = 0
  BY <1>1, <1>2, <1>3 DEF MayGet, CursorsFit, CursorFits, HasCursor
<1>5. Upcoming(scan[p]) = {rows[id] : id \in Matching}
  BY <1>4, FirstAhead DEF Inv
<1>6. ReaderFits(scan[p])
  BY <1>2, <1>4 DEF ReadersFit, MayScan
<1>7. /\ \A id \in Matching : rows[id] \notin Returned /\ Answers(rows[id])
      /\ \A n \in Reads \ Lost : n \in Returned \/ \E id \in Matching : n = rows[id]
  BY <1>4, <1>5, <1>6 DEF ReaderFits, Held
<1>8. PICK hand : hand = {InHand(id) : id \in Matching}
  OBVIOUS
<1>9. PICK next : next = [scan[p] EXCEPT !.hand = hand, !.done = TRUE]
  OBVIOUS
<1>10. \A q \in Participants : scan'[q] = IF q = p THEN next ELSE scan[q]
  BY <1>8, <1>9 DEF GetBitmap, Inv, Types
<1>11. /\ next.open = scan[p].open /\ next.done = TRUE /\ next.cursor = scan[p].cursor /\ next.current = scan[p].current
       /\ next.hand = hand /\ next.ids = scan[p].ids /\ next.kill = scan[p].kill
  BY <1>9 DEF Inv, Types, IsScan
<1>12. \A h \in hand : HandKnown(h)
  BY <1>7, <1>8, InHandKnown DEF Matching
<1>13. Held(next)' = {rows[id] : id \in Matching}
  <2>1. \A id : InHand(id).tuple = rows[id]
    BY DEF InHand
  <2>2. {h.tuple : h \in hand} = {rows[id] : id \in Matching}
    BY <1>8, <2>1
  <2> QED BY <1>11, <2>2 DEF Held
<1>14. CursorsFit'
  <2>1. ASSUME NEW q \in Participants PROVE CursorFits(q)'
    <3>1. CASE q = p
      BY <1>1, <1>2, <1>4, <1>10, <1>11, <3>1 DEF CursorFits
    <3>2. CASE q # p
      BY <1>1, <1>2, <1>10, <3>2 DEF CursorFits, CursorsFit
    <3> QED BY <3>1, <3>2
  <2>2. scan'[Leader].open
    BY <1>4, <1>10, <1>11, ScanAssumption
  <2>3. \A q \in Participants : ~HasCursor(q)'
    BY <1>3, <1>10, <1>11 DEF HasCursor
  <2> QED BY <1>1, <1>2, <1>4, <2>1, <2>2, <2>3 DEF CursorsFit
<1>15. HandsFit'
  BY <1>1, <1>2, <1>10, <1>11, <1>12, SameFacts DEF HandsFit
<1>16. ReadersFit'
  <2> SUFFICES ASSUME NEW q \in Participants, scan'[q].open PROVE ReaderFits(scan[q])'
    BY DEF ReadersFit
  <2>1. q = p /\ scan'[q] = next
    BY <1>3, <1>4, <1>10
  <2>2. ReaderFits(next)'
    BY <1>1, <1>2, <1>7, <1>11, <1>13, SameFacts DEF ReaderFits
  <2> QED BY <2>1, <2>2, ReaderIs
<1> QED BY <1>1, <1>2, <1>14, <1>15, <1>16, SameFacts DEF StatementSees

LEMMA AppendReturned ==
  ASSUME NEW s \in Seq(Nat), NEW e \in Nat, e \notin ToSet(s), IsInjective(s)
  PROVE  Append(s, e) \in Seq(Nat) /\ ToSet(Append(s, e)) = ToSet(s) \cup {e} /\ IsInjective(Append(s, e))
<1>1. /\ Append(s, e) \in Seq(Nat) /\ Len(Append(s, e)) = Len(s) + 1 /\ Len(s) \in Nat
      /\ \A j \in 1 .. Len(s) + 1 : Append(s, e)[j] = IF j = Len(s) + 1 THEN e ELSE s[j]
  BY Longer, LenProperties
<1>2. DOMAIN s = 1 .. Len(s) /\ DOMAIN Append(s, e) = 1 .. Len(s) + 1
  BY <1>1, LenProperties
<1>3. ToSet(Append(s, e)) = ToSet(s) \cup {e}
  <2> DEFINE t == Append(s, e)
  <2> HIDE DEF t
  <2>1. \A j \in 1 .. Len(s) : j \in 1 .. Len(s) + 1 /\ t[j] = s[j]
    BY <1>1 DEF t
  <2>2. Len(s) + 1 \in 1 .. Len(s) + 1 /\ t[Len(s) + 1] = e
    BY <1>1 DEF t
  <2>3. \A j \in 1 .. Len(s) + 1 : j \in 1 .. Len(s) \/ j = Len(s) + 1
    BY <1>1
  <2>4. DOMAIN t = 1 .. Len(s) + 1
    BY <1>2 DEF t
  <2>5. ToSet(t) = ToSet(s) \cup {e}
    BY <1>2, <2>1, <2>2, <2>3, <2>4 DEF ToSet
  <2> QED BY <2>5 DEF t
<1>4. \A j \in 1 .. Len(s) : s[j] # e
  BY <1>2 DEF ToSet
<1>5. IsInjective(Append(s, e))
  <2> SUFFICES ASSUME NEW i \in 1 .. Len(s) + 1, NEW j \in 1 .. Len(s) + 1, Append(s, e)[i] = Append(s, e)[j]
               PROVE  i = j
    BY <1>2 DEF IsInjective
  <2>1. CASE i = Len(s) + 1 \/ j = Len(s) + 1
    BY <1>1, <1>4, <2>1
  <2>2. CASE i # Len(s) + 1 /\ j # Len(s) + 1
    <3>1. i \in DOMAIN s /\ j \in DOMAIN s /\ s[i] = s[j]
      BY <1>1, <1>2, <2>2
    <3> QED BY <3>1 DEF IsInjective
  <2> QED BY <2>1, <2>2
<1> QED BY <1>1, <1>3, <1>5

\* What is in a hand is seen at its place in the heap if and only if the snapshot
\* has it; the visibility map answers for what was there when it was read.
LEMMA FetchReads ==
  ASSUME Inv, HeapSees, Running, NEW h, HandKnown(h), NEW n, n = heap[h.tid]
  PROVE  /\ n # None /\ Visible(n, statement.snapshot) => n = h.tuple /\ h.tuple \in Reads
         /\ h.tuple \in Reads => n = h.tuple /\ n # None /\ Visible(n, statement.snapshot)
         /\ allVisible => h.tuple \in Reads \cup vacuumed
<1>1. /\ h.tuple \in Tuples /\ h.tid \in Tids /\ h.tid = tuples[h.tuple].tid
      /\ h.tuple # None /\ h.tuple \in DOMAIN tuples
  BY TupleTypes, LenProperties DEF HandKnown, Inv, Types, Tuples
<1>2. Visible(h.tuple, statement.snapshot) => h.tuple \in Reads
  BY <1>1 DEF HandKnown, Answers, Reads
<1>3. InHeap(h.tuple) => n = h.tuple
  BY <1>1 DEF InHeap, Inv, HeapFits
<1>4. n # None /\ Visible(n, statement.snapshot) => n = h.tuple
  BY DEF HandKnown, Visible
<1>5. h.tuple \in Reads => InHeap(h.tuple) /\ Visible(h.tuple, statement.snapshot)
  BY <1>1, SeenAlive DEF Reads, HeapSees, LeftDead, Inv
<1>6. allVisible => h.tuple \in Reads \cup vacuumed
  <2> SUFFICES ASSUME allVisible, InHeap(h.tuple) PROVE Visible(h.tuple, statement.snapshot)
    BY <1>1, <1>2 DEF HeapSees, LeftDead
  <2>1. tuples[n].born \in 1 .. OldestSnapshot /\ tuples[n].died = Alive
    BY <1>1, <1>3 DEF HeapSees, MapFits
  <2> QED BY <1>3, <2>1 DEF OldestSnapshot, Visible
<1> QED BY <1>1, <1>2, <1>3, <1>4, <1>5, <1>6

LEMMA FetchReturns ==
  ASSUME Inv, HeapSees, Reading, HandsFit, NEW p \in Participants, Fetch(p)
  PROVE  \E h \in scan[p].hand, kill \in BOOLEAN :
           /\ scan' = [scan EXCEPT ![p].hand = @ \ {h}, ![p].kill = kill]
           /\ \E r : /\ statement' = [statement EXCEPT !.returned = r]
                     /\ \/ r = statement.returned /\ h.tuple \notin Reads
                        \/ /\ r = Append(statement.returned, h.tuple)
                           /\ h.tuple \in Reads \/ (statement.kind = "index only" /\ h.tuple \in vacuumed)
<1> DEFINE sees(h) == heap[h.tid] # None /\ Visible(heap[h.tid], statement.snapshot)
           skips == statement.kind = "index only" /\ allVisible
<1>1. PICK h \in scan[p].hand :
         /\ scan' = [scan EXCEPT ![p].hand = @ \ {h},
                                 ![p].kill = ~skips /\ ~sees(h) /\ (heap[h.tid] = None \/ DeadToAll(heap[h.tid]))]
         /\ statement' = [statement EXCEPT !.returned = CASE skips -> Append(@, h.tuple)
                                                          [] ~skips /\ sees(h) -> Append(@, heap[h.tid])
                                                          [] OTHER -> @]
  BY DEF Fetch
<1>2. PICK kill \in BOOLEAN : scan' = [scan EXCEPT ![p].hand = @ \ {h}, ![p].kill = kill]
  BY <1>1
<1>3. HandKnown(h) /\ Running
  BY DEF HandsFit, Reading
<1>4. /\ sees(h) => heap[h.tid] = h.tuple /\ h.tuple \in Reads
      /\ h.tuple \in Reads => sees(h)
      /\ allVisible => h.tuple \in Reads \cup vacuumed
  BY <1>3, FetchReads
<1>5. CASE skips
  <2>1. statement' = [statement EXCEPT !.returned = Append(statement.returned, h.tuple)]
    BY <1>1, <1>5
  <2> QED BY <1>2, <1>4, <1>5, <2>1
<1>6. CASE ~skips /\ sees(h)
  <2>1. statement' = [statement EXCEPT !.returned = Append(statement.returned, h.tuple)]
    BY <1>1, <1>4, <1>6
  <2> QED BY <1>2, <1>4, <1>6, <2>1
<1>7. CASE ~skips /\ ~sees(h)
  <2>1. statement' = [statement EXCEPT !.returned = statement.returned]
    BY <1>1, <1>7
  <2> QED BY <1>2, <1>4, <1>7, <2>1
<1> QED BY <1>5, <1>6, <1>7

LEMMA FetchSees ==
  ASSUME Inv, TuplesStep, HeapSees, IndexStep, StatementSees, NEW p \in Participants, Fetch(p)
  PROVE  StatementSees'
<1>1. Reading /\ UNCHANGED <<heapVars, vacuumed, index, scanning>>
  BY DEF Fetch, Reading
<1>2. CursorsFit /\ ReturnedFits /\ HandsFit /\ ReadersFit /\ CursorFits(p) /\ Lost \subseteq Lost'
  BY <1>1 DEF StatementSees, CursorsFit, IndexStep
<1>0. PICK h \in scan[p].hand, kill \in BOOLEAN :
        /\ scan' = [scan EXCEPT ![p].hand = @ \ {h}, ![p].kill = kill]
        /\ \E r : /\ statement' = [statement EXCEPT !.returned = r]
                  /\ \/ r = statement.returned /\ h.tuple \notin Reads
                     \/ /\ r = Append(statement.returned, h.tuple)
                        /\ h.tuple \in Reads \/ (statement.kind = "index only" /\ h.tuple \in vacuumed)
  BY <1>1, <1>2, FetchReturns
<1>3. PICK r : /\ scan' = [scan EXCEPT ![p].hand = @ \ {h}, ![p].kill = kill]
               /\ statement' = [statement EXCEPT !.returned = r]
               /\ \/ r = statement.returned /\ h.tuple \notin Reads
                  \/ /\ r = Append(statement.returned, h.tuple)
                     /\ h.tuple \in Reads \/ (statement.kind = "index only" /\ h.tuple \in vacuumed)
  BY <1>0
<1>4. /\ statement'.returned = r /\ statement'.kind = statement.kind /\ statement'.snapshot = statement.snapshot
      /\ UNCHANGED <<tuples, heap>>
  BY <1>1, <1>3 DEF Inv, Types, IsStatement, heapVars
<1>5. PICK next : next = [scan[p] EXCEPT !.hand = @ \ {h}, !.kill = kill]
  OBVIOUS
<1>6. \A q \in Participants : scan'[q] = IF q = p THEN next ELSE scan[q]
  BY <1>3, <1>5 DEF Inv, Types
<1>7. /\ next.open = scan[p].open /\ next.done = scan[p].done /\ next.cursor = scan[p].cursor
      /\ next.current = scan[p].current /\ next.ids = scan[p].ids
      /\ next.hand = scan[p].hand \ {h} /\ next.kill = kill
  BY <1>5 DEF Inv, Types, IsScan
<1>8. /\ \A q \in Participants : scan[q].hand # {} => q = p
      /\ \A q \in Participants : scan[q].open /\ MayScan(q) => q = p
      /\ scan[p].open /\ MayScan(p)
  BY <1>2, <1>3, OneHand
<1>9. /\ Reads' = Reads /\ Tuples' = Tuples
      /\ \A n \in Tuples : Answers(n) <=> Answers(n)'
  BY <1>4, SnapshotStays, SameReads DEF Inv, Tuples
<1>10. h.tuple \in Tuples /\ h.tuple \notin Returned /\ h.tuple \in Nat /\ \A k \in scan[p].hand : HandKnown(k)
  BY <1>2, <1>3, TupleTypes DEF HandsFit, HandKnown, Inv
<1>11. \A k \in scan[p].hand : k.tuple = h.tuple => k = h
  BY <1>3, <1>10 DEF HandKnown
<1>12. /\ r \in Seq(Nat) /\ IsInjective(r)
       /\ Returned \subseteq Returned' /\ Returned' \subseteq Returned \cup {h.tuple}
       /\ h.tuple \in Reads => h.tuple \in Returned'
       /\ h.tuple \in Returned' => h.tuple \in Reads \/ (statement.kind = "index only" /\ h.tuple \in vacuumed)
  <2>1. statement.returned \in Seq(Nat) /\ IsInjective(statement.returned)
    BY <1>2 DEF ReturnedFits
  <2>2. Returned' = ToSet(r) /\ Returned = ToSet(statement.returned)
    BY <1>4 DEF Returned
  <2>3. CASE r = statement.returned /\ h.tuple \notin Reads
    BY <1>10, <2>1, <2>2, <2>3
  <2>4. CASE /\ r = Append(statement.returned, h.tuple)
             /\ h.tuple \in Reads \/ (statement.kind = "index only" /\ h.tuple \in vacuumed)
    <3>1. r \in Seq(Nat) /\ ToSet(r) = ToSet(statement.returned) \cup {h.tuple} /\ IsInjective(r)
      BY <1>10, <2>1, <2>2, <2>4, AppendReturned
    <3> QED BY <2>2, <2>4, <3>1
  <2> QED BY <1>3, <2>3, <2>4
<1>13. ReturnedFits'
  BY <1>1, <1>2, <1>4, <1>9, <1>10, <1>12 DEF ReturnedFits
<1>14. CursorsFit'
  <2>1. ASSUME NEW q \in Participants PROVE CursorFits(q)'
    <3>1. CASE q = p
      BY <1>1, <1>2, <1>3, <1>4, <1>6, <1>7, <1>8, <3>1 DEF CursorFits
    <3>2. CASE q # p
      BY <1>1, <1>2, <1>4, <1>6, <3>2 DEF CursorFits, CursorsFit
    <3> QED BY <3>1, <3>2
  <2>2. scan'[Leader].open
    BY <1>2, <1>6, <1>7, ScanAssumption DEF CursorsFit
  <2>3. \A q \in Participants : HasCursor(q)' <=> HasCursor(q)
    BY <1>6, <1>7 DEF HasCursor
  <2> QED BY <1>1, <1>2, <2>1, <2>2, <2>3 DEF CursorsFit
<1>15. HandsFit'
  <2> SUFFICES ASSUME NEW q \in Participants, NEW k \in scan'[q].hand PROVE HandKnown(k)'
    BY DEF HandsFit
  <2>1. q = p /\ k \in scan[p].hand /\ k # h
    BY <1>6, <1>7, <1>8
  <2>2. k.tuple \notin Returned' /\ k.tuple \in Tuples /\ HandKnown(k)
    BY <1>10, <1>11, <1>12, <2>1 DEF HandKnown
  <2> QED BY <1>4, <1>9, <2>2 DEF HandKnown
<1>16. ReadersFit'
  <2> SUFFICES ASSUME NEW q \in Participants, scan'[q].open, MayScan(q)' PROVE ReaderFits(scan[q])'
    BY DEF ReadersFit
  <2>1. scan[q].open /\ MayScan(q)
    BY <1>1, <1>6, <1>7 DEF MayScan, HasCursor
  <2>2. q = p /\ scan'[q] = next
    BY <1>6, <1>8, <2>1
  <2>3. ReaderFits(scan[p])
    BY <1>2, <1>8 DEF ReadersFit
  <2>4. Upcoming(next)' = Upcoming(scan[p])
    BY <1>1, <1>4, <1>7 DEF Upcoming, TupleAt, IdAt, Ahead, HasRow, Matching, index
  <2>5. Held(next)' \subseteq Held(scan[p]) /\ Held(scan[p]) \subseteq Held(next)' \cup {h.tuple} /\ h.tuple \in Held(scan[p])
    BY <1>3, <1>7 DEF Held
  <2>6. Upcoming(scan[p]) \subseteq Tuples
    <3>1. \A i \in Ahead(scan[p]) : HasRow(IdAt(scan[p], i))
      BY DEF Ahead, IdAt, Matching
    <3> QED BY <3>1, LenProperties DEF Upcoming, TupleAt, HasRow, Inv, Types, RowsFit
  <2>7. ReaderFits(next)'
    <3>1. ASSUME ~next.done, NEW n \in Upcoming(next)' PROVE Answers(n)' /\ n \notin Returned' \cup Held(next)'
      BY <1>7, <1>9, <1>12, <2>3, <2>4, <2>5, <2>6, <3>1 DEF ReaderFits
    <3>2. ASSUME NEW n \in Reads' \ Lost'
          PROVE  n \in Returned' \cup Held(next)' \/ (~next.done /\ n \in Upcoming(next)')
      <4>1. n \in Reads \ Lost
        BY <1>2, <1>9
      <4>2. n \in Returned \/ n \in Held(scan[p]) \/ (~scan[p].done /\ n \in Upcoming(scan[p]))
        BY <2>3, <4>1 DEF ReaderFits
      <4>3. n \in Returned \cup {h.tuple} => n \in Returned'
        BY <1>12, <4>1
      <4>4. n \in Held(scan[p]) => n \in Held(next)' \/ n = h.tuple
        BY <2>5
      <4>5. ~scan[p].done => ~next.done
        BY <1>7
      <4> QED BY <2>4, <4>2, <4>3, <4>4, <4>5
    <3> QED BY <3>1, <3>2 DEF ReaderFits
  <2> QED BY <2>2, <2>7, ReaderIs
<1> QED BY <1>13, <1>14, <1>15, <1>16 DEF StatementSees

-----------------------------------------------------------------------------
(* Every step, and what a statement has returned in the end.               *)

LEMMA InitSees == Init => SeesInv
<1> SUFFICES ASSUME Init PROVE HeapSees /\ StatementSees
  BY InitInv DEF SeesInv
<1>1. /\ heap = [tid \in Tids |-> IF tid <= 2 THEN tid ELSE None]
      /\ rows = <<1, 2>> /\ allVisible = FALSE /\ statement = NoStatement /\ Len(tuples) = 2
  BY DEF Init
<1>2. ~Running
  BY <1>1 DEF Running, NoStatement
<1>3. InHeap(1) /\ InHeap(2)
  BY <1>1, ScanAssumption DEF InHeap
<1>4. RowsDistinct /\ MapFits
  BY <1>1 DEF RowsDistinct, MapFits
<1>5. RowsInHeap
  BY <1>1, <1>3 DEF RowsInHeap
<1>6. LeftDead
  BY <1>1, <1>3 DEF LeftDead, Tuples
<1> QED BY <1>2, <1>4, <1>5, <1>6 DEF HeapSees, StatementSees, Reading

LEMMA BeginSees ==
  ASSUME Inv', HeapSees', NEW kind \in ScanKinds, BeginScan(kind)
  PROVE  StatementSees'
<1>1. /\ statement' = [pc |-> "running", kind |-> kind, snapshot |-> now, returned |-> <<>>,
                       nested |-> FALSE, broken |-> FALSE]
      /\ scan' = Opaques(kind) /\ scanning' = FALSE
  BY DEF BeginScan
<1>2. Running' /\ statement'.kind = kind /\ statement'.returned = <<>>
  BY <1>1 DEF Running
<1> QED BY <1>1, <1>2, FreshSees

LEMMA RescanSees ==
  ASSUME Inv, Inv', HeapSees', Rescan
  PROVE  StatementSees'
<1>1. /\ Running /\ statement' = [statement EXCEPT !.returned = <<>>]
      /\ scan' = Opaques(statement.kind) /\ scanning' = FALSE
  BY DEF Rescan
<1>2. Running' /\ statement'.kind = statement.kind /\ statement'.returned = <<>>
  BY <1>1 DEF Running, Inv, Types, IsStatement
<1> QED BY <1>1, <1>2, FreshSees

LEMMA EveryStatementSees == SeesInv /\ Inv' /\ HeapSees' /\ [Next]_vars => StatementSees'
<1> SUFFICES ASSUME SeesInv, Inv', HeapSees', [Next]_vars PROVE StatementSees'
  OBVIOUS
<1>0. Inv /\ HeapSees /\ StatementSees /\ StatementStep /\ TuplesStep /\ IndexStep
  BY EveryStatementStep, EveryTuplesStep, EveryIndexStep DEF SeesInv, Inv
<1>1. ASSUME ~Running' \/ statement'.broken PROVE StatementSees'
  BY <1>1 DEF StatementSees, Reading
<1>2. ASSUME Elsewhere PROVE StatementSees'
  <2>1. CASE Running
    BY <1>0, <1>2, <2>1, ElsewhereSees
  <2>2. CASE ~Running
    BY <1>1, <1>2, <2>2 DEF Elsewhere, Running
  <2> QED BY <2>1, <2>2
<1>3. ASSUME UNCHANGED <<tuples, heap, rows, statement, scan, scanning, vacuumed>> PROVE StatementSees'
  BY <1>0, <1>2, <1>3, SnapshotStays, RowsStay, PlacesStay DEF Elsewhere, Inv
<1>4. ASSUME NEW kind \in ScanKinds, BeginScan(kind) PROVE StatementSees'
  BY <1>4, BeginSees
<1>5. ASSUME NEW p \in Participants, GetTuple(p) \/ GetBitmap(p) \/ Fetch(p) PROVE StatementSees'
  BY <1>0, <1>5, GetTupleSees, GetBitmapSees, FetchSees
<1>6. CASE Rescan
  BY <1>0, <1>6, RescanSees
<1>7. CASE EndScan \/ ReleaseScanOpaques
  <2>1. statement' = NoStatement
    BY <1>7 DEF EndScan, ReleaseScanOpaques
  <2>2. ~Running'
    BY <2>1 DEF Running, NoStatement
  <2> QED BY <1>1, <2>2
<1>8. CASE Error
  BY <1>0, <1>1, <1>8 DEF Error, Running, Inv, Types, IsStatement
<1>9. CASE PlanNested \/ AnalyzeNested
  BY <1>0, <1>1, <1>9 DEF PlanNested, AnalyzeNested, Inv, Types, IsStatement
<1>10. ASSUME NEW by \in {"leader", "other"}, NEW tid \in Tids, NEW matches \in BOOLEAN, Insert(by, tid, matches)
       PROVE  StatementSees'
  BY <1>0, <1>2, <1>10, InsertElsewhere
<1>11. ASSUME NEW n \in DOMAIN tuples, Delete(n) \/ Commit(n) \/ Abort(n) PROVE StatementSees'
  BY <1>0, <1>2, <1>11, DeleteElsewhere, EndElsewhere
<1>12. CASE VacuumStart \/ VacuumCleanup
  BY <1>3, <1>12 DEF VacuumStart, VacuumCleanup, heapVars, index
<1>13. CASE BulkDelete
  <2>1. PICK id \in Removable : rows' = [rows EXCEPT ![id] = None] /\ free' = Append(free, id)
    BY <1>13 DEF BulkDelete, Least
  <2>2. HasRow(id) /\ DeadToAll(rows[id]) /\ UNCHANGED <<heapVars, statement, scan, scanning, vacuumed>>
    BY <1>0, <1>13, <2>1 DEF Removable, BulkDelete, Inv, TargetsDead
  <2>3. Elsewhere
    BY <1>0, <2>1, <2>2, RowGoesElsewhere
  <2> QED BY <1>2, <2>3
<1>14. CASE VacuumHeap
  BY <1>0, <1>2, <1>14, VacuumHeapElsewhere
<1>15. CASE UNCHANGED vars
  BY <1>3, <1>15 DEF vars, heapVars, index
<1> QED BY <1>4, <1>5, <1>6, <1>7, <1>8, <1>9, <1>10, <1>11, <1>12, <1>13, <1>14, <1>15 DEF Next

LEMMA SeesInvStep == SeesInv /\ [Next]_vars => SeesInv'
<1> SUFFICES ASSUME SeesInv, [Next]_vars PROVE SeesInv'
  OBVIOUS
<1>1. Inv' /\ HeapSees'
  BY InvStep, EveryHeapSees DEF SeesInv
<1> QED BY <1>1, EveryStatementSees DEF SeesInv

\* When all has been read and nothing is in a hand, nothing is ahead.
LEMMA AllSeen == SeesInv => ScansSeeSnapshot
<1> SUFFICES ASSUME SeesInv, AllReturned
             PROVE  /\ IsInjective(statement.returned)
                    /\ Reads \ Lost \subseteq ToSet(statement.returned)
                    /\ ToSet(statement.returned) \ Reads
                         \subseteq (IF statement.kind = "index only" THEN vacuumed ELSE {})
  BY DEF ScansSeeSnapshot
<1>1. CursorsFit /\ ReturnedFits /\ ReadersFit
  BY DEF SeesInv, StatementSees, Reading, AllReturned
<1>2. PICK p \in Participants : scan[p].open /\ MayScan(p)
  <2>1. CASE scanning
    BY <1>1, <2>1 DEF CursorsFit, CursorFits, HasCursor, MayScan
  <2>2. CASE ~scanning
    BY <1>1, <2>2, ScanAssumption DEF CursorsFit, MayScan
  <2> QED BY <2>1, <2>2
<1>3. ReaderFits(scan[p]) /\ scan[p].done /\ Held(scan[p]) = {}
  BY <1>1, <1>2 DEF ReadersFit, AllReturned, Held
<1>4. Reads \ Lost \subseteq Returned
  BY <1>3 DEF ReaderFits
<1>5. IsInjective(statement.returned) /\ \A n \in Returned \ Reads : statement.kind = "index only" /\ n \in vacuumed
  BY <1>1 DEF ReturnedFits
<1>6. Returned \ Reads \subseteq (IF statement.kind = "index only" THEN vacuumed ELSE {})
  BY <1>5
<1> QED BY <1>4, <1>5, <1>6 DEF Returned

\* What a scan returns, whoever of a parallel statement makes it, whatever is
\* inserted, deleted, removed from the index and put into the same places
\* meanwhile, and in whatever order PGrnSort hands it out, is what matches in its
\* snapshot, each tuple once; but for rows that were lost to a late
\* kill_prior_tuple, and for what VACUUM removed under an index only scan.
THEOREM ScansReturnSnapshot == Spec => []ScansSeeSnapshot
<1>1. Init => SeesInv
  BY InitSees
<1>2. SeesInv /\ [Next]_vars => SeesInv'
  BY SeesInvStep
<1>3. SeesInv => ScansSeeSnapshot
  BY AllSeen
<1> QED BY <1>1, <1>2, <1>3, PTL DEF Spec
=============================================================================
