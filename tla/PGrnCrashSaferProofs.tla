------------------------- MODULE PGrnCrashSaferProofs -------------------------
(***************************************************************************)
(* What the crash safer promises, for any databases, backends, failures,   *)
(* crashes and shutdowns, as long as no file is removed and no flusher is  *)
(* signalled but by the postmaster.                                        *)
(*                                                                         *)
(* What is inductive: an entry belongs to a flusher, or to one that will   *)
(* be started; it counts whoever uses the database while the server is up  *)
(* or the flusher there; and nothing is written without a flusher.         *)
(***************************************************************************)
EXTENDS PGrnCrashSafer, FiniteSetTheorems, TLAPS

Somewhere == Databases \cup {NoBackend.db}
Numbers == 0 .. CounterSize - 1
Entry == [pid : BOOLEAN, preparing : BOOLEAN, flushing : BOOLEAN, nUsing : Numbers]
Rest == [flushing : BOOLEAN, nUsing : Numbers]
MainState == [pc : {"boot", "all", "scan", "started", "idle", "exited"},
              back : {"all", "scan", "idle"}, todo : SUBSET Databases,
              usr1 : BOOLEAN, at : Somewhere, unreaped : SUBSET Databases]
FlusherState == {"none", "start", "prepare", "ready", "flush", "drain", "told", "final"}
PreparerPlace == {"none", "registered", "preparing", "using", "released"}
PreparerState == [pc : PreparerPlace, reindex : BOOLEAN]
BackendState == [pc : Counted \cup {"none", "use"}, db : Somewhere]

ServerTypes ==
  /\ phase \in {"up", "stopping"}
  /\ spent \in [connects : Nat, removals : Nat, failures : Nat, crashes : Nat, stops : Nat, signals : Nat]
ShmemTypes ==
  /\ entries = [d \in DOMAIN entries |-> entries[d]]
  /\ DOMAIN entries \subseteq Databases
  /\ \A d \in DOMAIN entries : entries[d] \in Entry
  /\ free \in Seq(Rest)
DiskTypes ==
  /\ file \in [Databases -> {"none", "ok", "broken"}]
  /\ dirty \in [Databases -> BOOLEAN]
  /\ own \in [Databases -> BOOLEAN]
ProcessTypes ==
  /\ main \in MainState
  /\ flusher \in [Databases -> FlusherState]
  /\ preparer \in [Databases -> PreparerState]
  /\ backend \in [Backends -> BackendState]
Types == ServerTypes /\ ShmemTypes /\ DiskTypes /\ ProcessTypes

\* The main worker never starts a second flusher of a database.
MainFits ==
  /\ main.pc = "boot" => \A d \in Databases : flusher[d] = "none"
  /\ main.pc = "all" \/ (main.pc = "started" /\ main.back = "all") =>
       \A d \in main.todo : flusher[d] = "none"
  /\ main.pc = "started" => main.at \in Databases /\ main.at \notin main.todo /\ main.back # "idle"
FlusherFits(d) ==
  /\ flusher[d] # "none" => Has(d) /\ (entries[d].pid \/ (main.pc = "started" /\ main.at = d))
  /\ flusher[d] \notin {"none", "start"} => own[d] /\ file[d] = "ok"
  /\ phase = "up" => flusher[d] \notin {"drain", "final"}
  /\ flusher[d] # "told"
  /\ preparer[d].pc # "none" => flusher[d] = "prepare"
  /\ IsFlushing(d) => \/ flusher[d] \in {"flush", "drain", "final"}
                      \/ phase = "stopping" /\ flusher[d] = "none"
FlushersFit == \A d \in Databases : FlusherFits(d)
\* What a removed entry leaves behind is not met while the server is up.
NothingFreed == phase = "up" => free = <<>>

Users(d) == {b \in Backends : backend[b].db = d /\ backend[b].pc \in Counted}
\* The number an entry that is not there would have.
Number(d) == IF Has(d) THEN entries[d].nUsing ELSE 0
Preparing(d) == IF preparer[d].pc = "using" THEN 1 ELSE 0
CountFits ==
  \A d \in Databases :
    phase = "up" \/ flusher[d] # "none" =>
      Number(d) = Cardinality(Users(d)) + Preparing(d)
BackendFits(b) ==
  LET d == backend[b].db
  IN  /\ backend[b].pc # "none" => d \in Databases
      /\ backend[b].pc # "orphan"
      /\ backend[b].pc = "open" =>
           \/ flusher[d] \in {"flush", "drain", "final"}
           \/ phase = "stopping" /\ flusher[d] = "none"
      /\ backend[b].pc = "running" => flusher[d] \in {"flush", "drain"}
BackendsFit == \A b \in Backends : BackendFits(b)
DirtyFits == \A d \in Databases : dirty[d] => flusher[d] \in {"prepare", "ready", "flush", "drain"}

Inv ==
  /\ Types /\ MainFits /\ FlushersFit /\ NothingFreed /\ CountFits /\ BackendsFit /\ DirtyFits

-----------------------------------------------------------------------------
(* The statuses.                                                           *)

\* The counter holds all backends, a worker that prepares, and one more.
LEMMA CounterFits == 0 \in Numbers /\ Cardinality(Backends) + 2 < CounterSize /\ CounterSize \in Nat
<1>1. Cardinality(Backends) \in Nat
  BY CrashSaferAssumption, FS_CardinalityType
<1> QED BY <1>1, CrashSaferAssumption DEF Numbers

\* What is found, or made of what an element was left with.
LEMMA EnteredFits ==
  ASSUME ShmemTypes, NEW d \in Databases
  PROVE  /\ Entered(d) \in Entry
         /\ Has(d) => Entered(d) = entries[d]
         /\ ~Has(d) /\ free = <<>> => ~Entered(d).flushing /\ Entered(d).nUsing = 0
<1>1. CASE Has(d)
  BY <1>1 DEF ShmemTypes, Entered, Has
<1>2. CASE ~Has(d) /\ free = <<>>
  BY <1>2, CounterFits DEF Entered, Entry
<1>3. CASE ~Has(d) /\ free # <<>>
  <2>1. Head(free) \in Rest
    BY <1>3 DEF ShmemTypes
  <2> QED BY <1>3, <2>1 DEF Entered, Entry, Rest
<1> QED BY <1>1, <1>2, <1>3

\* An entry is entered: the others stay, and nothing is left behind.
LEMMA EnterEffect ==
  ASSUME ShmemTypes, NEW d \in Databases, NEW e \in Entry, Enter(d, e)
  PROVE  /\ ShmemTypes'
         /\ DOMAIN entries' = DOMAIN entries \cup {d}
         /\ \A c \in DOMAIN entries' : entries'[c] = IF c = d THEN e ELSE entries[c]
         /\ free = <<>> => free' = <<>>
<1>1. entries' = [c \in DOMAIN entries \cup {d} |-> IF c = d THEN e ELSE entries[c]]
  BY DEF Enter
<1>2. free' = free \/ (free # <<>> /\ free' = Tail(free))
  BY DEF Enter
<1>3. free' \in Seq(Rest) /\ (free = <<>> => free' = <<>>)
  BY <1>2 DEF ShmemTypes
<1> QED BY <1>1, <1>3 DEF ShmemTypes

\* An entry that is there is changed.
LEMMA ChangeEffect ==
  ASSUME ShmemTypes, NEW d \in Databases, NEW e \in Entry, Change(d, e)
  PROVE  /\ ShmemTypes'
         /\ DOMAIN entries' = DOMAIN entries
         /\ \A c \in DOMAIN entries : entries'[c] = IF c = d THEN e ELSE entries[c]
         /\ free' = free
<1>1. DOMAIN entries' = DOMAIN entries /\ entries' = [c \in DOMAIN entries |-> IF c = d THEN e ELSE entries[c]]
  BY DEF Change, Has, ShmemTypes
<1> QED BY <1>1 DEF ShmemTypes, Change

\* An entry is removed.
LEMMA StopEffect ==
  ASSUME ShmemTypes, NEW d \in Databases, Stop(d)
  PROVE  /\ ShmemTypes'
         /\ DOMAIN entries' = DOMAIN entries \ {d}
         /\ \A c \in DOMAIN entries' : entries'[c] = entries[c]
<1>1. entries' = [c \in DOMAIN entries \ {d} |-> entries[c]]
  BY DEF Stop
<1>2. free' \in Seq(Rest)
  <2>1. CASE Has(d)
    <3>1. <<[flushing |-> entries[d].flushing, nUsing |-> entries[d].nUsing]>> \in Seq(Rest)
      BY <2>1 DEF ShmemTypes, Has, Entry, Rest
    <3> QED BY <2>1, <3>1 DEF Stop, ShmemTypes
  <2> QED BY <2>1 DEF Stop, ShmemTypes
<1> QED BY <1>1, <1>2 DEF ShmemTypes

\* Users are counted one by one.
LEMMA UsersFinite ==
  ASSUME NEW d \in Databases
  PROVE  /\ IsFiniteSet(Users(d)) /\ Cardinality(Users(d)) \in Nat
         /\ Cardinality(Users(d)) <= Cardinality(Backends)
         /\ Cardinality(Users(d)) = 0 <=> Users(d) = {}
         /\ \A b \in Users(d) : Cardinality(Users(d) \ {b}) = Cardinality(Users(d)) - 1
         /\ \A b \in Backends \ Users(d) : Cardinality(Users(d) \cup {b}) = Cardinality(Users(d)) + 1
<1>1. Users(d) \subseteq Backends /\ IsFiniteSet(Backends)
  BY CrashSaferAssumption DEF Users
<1>2. IsFiniteSet(Users(d)) /\ Cardinality(Users(d)) <= Cardinality(Backends)
  BY <1>1, FS_Subset
<1>3. Cardinality(Users(d)) \in Nat
  BY <1>2, FS_CardinalityType
<1>4. Cardinality(Users(d)) = 0 <=> Users(d) = {}
  BY <1>2, FS_EmptySet
<1>5. \A b \in Users(d) : Cardinality(Users(d) \ {b}) = Cardinality(Users(d)) - 1
  BY <1>2, FS_RemoveElement
<1>6. \A b \in Backends \ Users(d) : Cardinality(Users(d) \cup {b}) = Cardinality(Users(d)) + 1
  BY <1>2, FS_AddElement
<1> QED BY <1>2, <1>3, <1>4, <1>5, <1>6

\* The counter does not run over.
LEMMA CountUp ==
  ASSUME NEW n \in Nat, n + 1 < CounterSize
  PROVE  (n + 1) % CounterSize = n + 1
BY CounterFits
LEMMA CountDown ==
  ASSUME NEW n \in Nat, 0 < n, n < CounterSize
  PROVE  (n + CounterSize - 1) % CounterSize = n - 1
BY CounterFits

-----------------------------------------------------------------------------
(* What is the same where a step does not come near.                       *)

LEMMA SameCount ==
  ASSUME CountFits,
         \A d \in Databases : /\ Number(d)' = Number(d) /\ Preparing(d)' = Preparing(d)
                              /\ Users(d)' = Users(d)
                              /\ flusher'[d] # "none" => flusher[d] # "none" \/ phase = "up",
         phase' = "up" => phase = "up"
  PROVE  CountFits'
BY DEF CountFits

LEMMA SameUsers ==
  ASSUME UNCHANGED backend
  PROVE  \A d : Users(d)' = Users(d)
BY DEF Users

-----------------------------------------------------------------------------
(* The main worker.                                                        *)

LEMMA MainLooks ==
  ASSUME Inv, MainBoot \/ MainVisited \/ MainScan \/ MainExit \/ \E d \in Databases : MainSkip(d)
  PROVE  Inv'
<1> USE DEF Inv, Types, ProcessTypes
<1>1. /\ UNCHANGED <<server, shmem, disk, flusher, preparer, backend>>
      /\ UNCHANGED <<phase, spent, entries, free, file, dirty, own>>
  BY DEF MainBoot, MainVisited, MainScan, MainExit, MainSkip, server, shmem, disk
<1>2. /\ main' \in MainState
      /\ main.pc # "started" /\ main'.pc \notin {"boot", "started"}
      /\ main'.pc = "all" => main.pc = "boot" \/ (main.pc = "all" /\ main'.todo \subseteq main.todo)
  <2>1. CASE MainBoot
    BY <2>1 DEF MainBoot, MainState
  <2>2. CASE MainVisited
    BY <2>2 DEF MainVisited, MainState
  <2>3. CASE MainScan
    BY <2>3 DEF MainScan, MainState, ShmemTypes
  <2>4. CASE MainExit
    BY <2>4 DEF MainExit, MainState
  <2>5. CASE \E d \in Databases : MainSkip(d)
    BY <2>5 DEF MainSkip, MainState, Visiting
  <2> QED BY <2>1, <2>2, <2>3, <2>4, <2>5
<1>3. Types'
  BY <1>1, <1>2 DEF ServerTypes, ShmemTypes, DiskTypes
<1>4. MainFits'
  BY <1>1, <1>2 DEF MainFits, MainState
<1>5. FlushersFit'
  BY <1>1, <1>2 DEF FlushersFit, FlusherFits, Has, IsFlushing
<1>6. CountFits'
  BY <1>1 DEF CountFits, Number, Has, Preparing, Users
<1>7. NothingFreed' /\ BackendsFit' /\ DirtyFits'
  BY <1>1 DEF NothingFreed, BackendsFit, BackendFits, DirtyFits
<1> QED BY <1>3, <1>4, <1>5, <1>6, <1>7

\* A new entry is like what an element was left with, which is nothing while
\* the server is up.
LEMMA EnteredOnly ==
  ASSUME Inv, NEW d \in Databases, Enter(d, Entered(d))
  PROVE  /\ ShmemTypes' /\ (NothingFreed /\ phase' = phase => NothingFreed')
         /\ Has(d)' /\ \A c \in Databases : Has(c) => Has(c)' /\ entries'[c] = entries[c]
         /\ \A c \in Databases : ~Has(c) /\ Has(c)' /\ phase = "up" =>
              ~entries'[c].flushing /\ entries'[c].nUsing = 0
<1>1. ShmemTypes /\ (phase = "up" => free = <<>>)
  BY DEF Inv, NothingFreed, Types
<1>2. /\ ShmemTypes'
      /\ DOMAIN entries' = DOMAIN entries \cup {d}
      /\ \A c \in DOMAIN entries' : entries'[c] = IF c = d THEN Entered(d) ELSE entries[c]
      /\ free = <<>> => free' = <<>>
  BY <1>1, EnteredFits, EnterEffect
<1>3. /\ Has(d) => Entered(d) = entries[d]
      /\ ~Has(d) /\ phase = "up" => ~Entered(d).flushing /\ Entered(d).nUsing = 0
  BY <1>1, EnteredFits
<1> QED BY <1>1, <1>2, <1>3 DEF Has, NothingFreed

\* Entries that are new count nobody, and nobody uses their databases.
LEMMA CountEntered ==
  ASSUME Inv, UNCHANGED <<phase, preparer, backend>>, ShmemTypes',
         \A c \in Databases : Has(c) => Has(c)' /\ entries'[c].nUsing = entries[c].nUsing,
         \A c \in Databases : ~Has(c) /\ Has(c)' /\ phase = "up" => entries'[c].nUsing = 0,
         \A c \in Databases : flusher'[c] # "none" => flusher[c] # "none" \/ phase = "up"
  PROVE  CountFits'
<1> SUFFICES ASSUME NEW c \in Databases, phase' = "up" \/ flusher'[c] # "none"
             PROVE  Number(c)' = Cardinality(Users(c)') + Preparing(c)'
  BY DEF CountFits
<1>1. phase = "up" \/ flusher[c] # "none"
  OBVIOUS
<1>2. Number(c) = Cardinality(Users(c)) + Preparing(c)
  BY <1>1 DEF Inv, CountFits
<1>3. Users(c)' = Users(c) /\ Preparing(c)' = Preparing(c)
  BY DEF Users, Preparing
<1>4. phase # "up" => Has(c)
  BY <1>1 DEF Inv, FlushersFit, FlusherFits
<1>5. Number(c)' = Number(c)
  BY <1>4 DEF Number
<1> QED BY <1>2, <1>3, <1>5

LEMMA MainCannotRegisterKeeps ==
  ASSUME Inv, NEW d \in Databases, MainCannotRegister(d)
  PROVE  Inv'
<1> USE DEF Inv, Types, ProcessTypes
<1>1. /\ UNCHANGED <<phase, file, dirty, own, flusher, preparer, backend>>
      /\ main.pc \in {"all", "scan"} /\ main' = [main EXCEPT !.todo = @ \ {d}]
      /\ spent' = [spent EXCEPT !.failures = @ + 1]
  BY DEF MainCannotRegister, disk, Visiting
<1>2. /\ main' \in MainState /\ main'.pc = main.pc /\ main'.todo \subseteq main.todo
  BY <1>1 DEF MainState
<1>3. /\ ShmemTypes' /\ NothingFreed'
      /\ \A c \in Databases : Has(c) => Has(c)' /\ entries'[c] = entries[c]
      /\ \A c \in Databases : ~Has(c) /\ Has(c)' /\ phase = "up" =>
           ~entries'[c].flushing /\ entries'[c].nUsing = 0
  <2>1. CASE Enter(d, Entered(d))
    BY <1>1, <2>1, EnteredOnly
  <2>2. CASE UNCHANGED shmem
    BY <1>1, <2>2 DEF shmem, ShmemTypes, Has, NothingFreed
  <2> QED BY <2>1, <2>2 DEF MainCannotRegister
<1>4. Types'
  BY <1>1, <1>2, <1>3 DEF ServerTypes, DiskTypes
<1>5. MainFits'
  BY <1>1, <1>2 DEF MainFits
<1>6. FlushersFit'
  <2> SUFFICES ASSUME NEW c \in Databases PROVE FlusherFits(c)'
    BY DEF FlushersFit
  <2>1. FlusherFits(c)
    BY DEF FlushersFit
  <2> QED BY <1>1, <1>2, <1>3, <2>1 DEF FlusherFits, IsFlushing, ServerTypes
<1>7. CountFits'
  BY <1>1, <1>3, CountEntered
<1>8. BackendsFit' /\ DirtyFits'
  BY <1>1 DEF BackendsFit, BackendFits, DirtyFits
<1> QED BY <1>3, <1>4, <1>5, <1>6, <1>7, <1>8

LEMMA MainLaunchKeeps ==
  ASSUME Inv, NEW d \in Databases, MainLaunch(d)
  PROVE  Inv'
<1> USE DEF Inv, Types, ProcessTypes
<1>1. /\ UNCHANGED <<phase, spent, file, dirty, own, preparer, backend>>
      /\ phase = "up" /\ main.pc \in {"all", "scan"} /\ d \in main.todo
      /\ flusher' = [flusher EXCEPT ![d] = "start"]
      /\ main' = [main EXCEPT !.pc = "started", !.back = main.pc, !.at = d, !.todo = @ \ {d}, !.usr1 = TRUE]
  BY DEF MainLaunch, server, disk, Visiting
<1>2. main' \in MainState
  BY <1>1 DEF MainState, Somewhere
<1>3. /\ ShmemTypes' /\ NothingFreed' /\ Has(d)'
      /\ \A c \in Databases : Has(c) => Has(c)' /\ entries'[c] = entries[c]
      /\ \A c \in Databases : ~Has(c) /\ Has(c)' /\ phase = "up" =>
           ~entries'[c].flushing /\ entries'[c].nUsing = 0
  <2>1. CASE main.pc = "all"
    BY <1>1, <2>1, EnteredOnly DEF MainLaunch
  <2>2. CASE main.pc = "scan"
    BY <1>1, <2>2 DEF MainLaunch, Wanted, shmem, ShmemTypes, Has, NothingFreed
  <2> QED BY <1>1, <2>1, <2>2
<1>4. flusher[d] = "none"
  <2>1. CASE main.pc = "all"
    BY <1>1, <2>1 DEF MainFits
  <2>2. CASE main.pc = "scan"
    BY <1>1, <2>2 DEF FlushersFit, FlusherFits, MainLaunch, Wanted
  <2> QED BY <1>1, <2>1, <2>2
<1>5. Types'
  BY <1>1, <1>2, <1>3 DEF ServerTypes, DiskTypes, FlusherState
<1>6. MainFits'
  BY <1>1, <1>2 DEF MainFits, MainState
<1>7. FlushersFit'
  <2> SUFFICES ASSUME NEW c \in Databases PROVE FlusherFits(c)'
    BY DEF FlushersFit
  <2>1. CASE c = d
    BY <1>1, <1>3, <1>4, <2>1 DEF FlushersFit, FlusherFits, IsFlushing
  <2>2. CASE c # d
    BY <1>1, <1>3, <2>2 DEF FlushersFit, FlusherFits, IsFlushing
  <2> QED BY <2>1, <2>2
<1>8. CountFits'
  BY <1>1, <1>3, CountEntered
<1>9. BackendsFit'
  BY <1>1, <1>4 DEF BackendsFit, BackendFits, BackendState, Somewhere
<1>10. DirtyFits'
  BY <1>1, <1>4 DEF DirtyFits
<1> QED BY <1>3, <1>5, <1>6, <1>7, <1>8, <1>9, <1>10

\* An entry that is there is changed, but not its count.
LEMMA ChangedOnly ==
  ASSUME Inv, UNCHANGED <<phase, backend>>, NEW d \in Databases, NEW e \in Entry,
         Has(d), e.nUsing = entries[d].nUsing, Change(d, e) \/ Enter(d, e),
         \A c \in Databases : Preparing(c)' = Preparing(c),
         \A c \in Databases : flusher'[c] # "none" => flusher[c] # "none" \/ phase = "up"
  PROVE  /\ ShmemTypes' /\ NothingFreed' /\ CountFits'
         /\ \A c \in Databases : Has(c)' = Has(c)
         /\ \A c \in Databases : Has(c) => entries'[c] = IF c = d THEN e ELSE entries[c]
<1>1. /\ ShmemTypes' /\ DOMAIN entries' = DOMAIN entries
      /\ \A c \in DOMAIN entries : entries'[c] = IF c = d THEN e ELSE entries[c]
      /\ free = <<>> => free' = <<>>
  <2>1. ShmemTypes
    BY DEF Inv, Types
  <2>2. CASE Change(d, e)
    BY <2>1, <2>2, ChangeEffect
  <2>3. CASE Enter(d, e)
    BY <2>1, <2>3, EnterEffect DEF Has
  <2> QED BY <2>2, <2>3
<1>2. NothingFreed'
  BY <1>1 DEF Inv, NothingFreed
<1>3. \A c \in Databases : Has(c)' = Has(c) /\ Number(c)' = Number(c) /\ Users(c)' = Users(c)
  BY <1>1 DEF Has, Number, Users
<1>4. CountFits'
  BY <1>3, SameCount DEF Inv
<1> QED BY <1>1, <1>2, <1>3, <1>4 DEF Has

LEMMA MainStartedKeeps ==
  ASSUME Inv, MainStarted
  PROVE  Inv'
<1> USE DEF Inv, Types, ProcessTypes
<1> DEFINE d == main.at
           e == [Entered(d) EXCEPT !.pid = TRUE]
<1>1. /\ UNCHANGED <<phase, spent, file, dirty, own, flusher, preparer, backend>>
      /\ main.pc = "started" /\ main' = [main EXCEPT !.pc = main.back] /\ d \in Databases
  BY DEF MainStarted, server, disk, MainFits
<1>2. main' \in MainState /\ main'.pc = main.back /\ main'.todo = main.todo /\ main'.pc \in {"all", "scan"}
  BY <1>1 DEF MainState, MainFits
<1>3. CASE Has(d) /\ Change(d, e)
  <2>1. Has(d) /\ Change(d, e)
    BY <1>3
  <2>2. Entered(d) = entries[d] /\ entries[d] \in Entry
    BY <1>1, <2>1, EnteredFits DEF ShmemTypes, Has
  <2>3. e \in Entry /\ e.nUsing = entries[d].nUsing /\ e.pid /\ e.flushing = entries[d].flushing
    BY <2>2 DEF Entry
  <2> HIDE DEF e, d
  <2>4. /\ ShmemTypes' /\ NothingFreed' /\ CountFits'
        /\ \A c \in Databases : Has(c)' = Has(c)
        /\ \A c \in Databases : Has(c) => entries'[c] = IF c = d THEN e ELSE entries[c]
    BY <1>1, <2>1, <2>3, ChangedOnly DEF Preparing
  <2>5. Types'
    BY <1>1, <1>2, <2>4 DEF ServerTypes, DiskTypes
  <2>6. MainFits'
    BY <1>1, <1>2 DEF MainFits
  <2>7. FlushersFit'
    <3> SUFFICES ASSUME NEW c \in Databases PROVE FlusherFits(c)'
      BY DEF FlushersFit
    <3>1. FlusherFits(c)
      BY DEF FlushersFit
    <3> QED BY <1>1, <1>2, <2>3, <2>4, <3>1 DEF FlusherFits, IsFlushing, d
  <2>8. BackendsFit' /\ DirtyFits'
    BY <1>1 DEF BackendsFit, BackendFits, DirtyFits
  <2> QED BY <2>4, <2>5, <2>6, <2>7, <2>8
<1>4. CASE ~(Has(d) /\ Change(d, e))
  <2>1. UNCHANGED <<entries, free>>
    BY <1>4 DEF MainStarted, Change, shmem
  <2>2. Types'
    BY <1>1, <1>2, <2>1 DEF ServerTypes, DiskTypes, ShmemTypes
  <2>3. MainFits'
    BY <1>1, <1>2 DEF MainFits
  <2>4. FlushersFit'
    <3>1. flusher[d] = "none"
      BY <1>1, <1>4 DEF MainStarted, FlushersFit, FlusherFits
    <3> QED BY <1>1, <1>2, <2>1, <3>1 DEF FlushersFit, FlusherFits, Has, IsFlushing
  <2>5. CountFits'
    BY <1>1, <2>1 DEF CountFits, Number, Has, Preparing, Users
  <2>6. NothingFreed' /\ BackendsFit' /\ DirtyFits'
    BY <1>1, <2>1 DEF NothingFreed, BackendsFit, BackendFits, DirtyFits
  <2> QED BY <2>2, <2>3, <2>4, <2>5, <2>6
<1> QED BY <1>3, <1>4

-----------------------------------------------------------------------------
(* The flushers.                                                           *)

\* A flusher takes a step that leaves the statuses alone.
LEMMA FlusherMoves ==
  ASSUME Inv, NEW d \in Databases, MaxRemovals = 0,
         FlusherOpen(d) \/ FlusherPrepared(d) \/ FlusherFlush(d) \/ FlusherLeaves(d) \/ FlusherDrained(d)
  PROVE  Inv'
<1> USE DEF Inv, Types, ProcessTypes
<1>1. UNCHANGED <<phase, spent, entries, free, main, backend>>
  BY DEF FlusherOpen, FlusherPrepared, FlusherFlush, FlusherLeaves, FlusherDrained, server, shmem
<1>2. FlusherFits(d)
  BY DEF FlushersFit
<1>3. /\ flusher' = [flusher EXCEPT ![d] = flusher'[d]]
      /\ \/ flusher[d] = "start" /\ flusher'[d] \in {"prepare", "ready"}
         \/ flusher[d] = "prepare" /\ flusher'[d] = "ready"
         \/ flusher[d] = "flush" /\ flusher'[d] \in {"flush", "drain"}
         \/ flusher[d] = "drain" /\ flusher'[d] = "final"
      /\ flusher' \in [Databases -> FlusherState]
  BY <1>2 DEF FlusherOpen, FlusherPrepared, FlusherFlush, FlusherLeaves, FlusherDrained, FlusherFits, FlusherState
<1>4. /\ preparer' \in [Databases -> PreparerState]
      /\ \A c \in Databases : preparer'[c] = preparer[c] \/ (c = d /\ preparer'[d].pc = "registered")
      /\ preparer'[d].pc # "none" => flusher'[d] = "prepare"
      /\ Preparing(d)' = Preparing(d)
  <2>1. CASE FlusherOpen(d)
    <3>1. flusher[d] = "start" /\ preparer[d].pc = "none"
      BY <1>2, <2>1 DEF FlusherOpen, FlusherFits, PreparerState
    <3>2. CASE flusher'[d] = "prepare"
      <4>1. preparer' = [preparer EXCEPT ![d] = [pc |-> "registered", reindex |-> file[d] = "broken"]]
        BY <2>1, <3>2 DEF FlusherOpen
      <4>2. [pc |-> "registered", reindex |-> file[d] = "broken"] \in PreparerState
        BY DEF PreparerState, PreparerPlace
      <4> QED BY <3>1, <3>2, <4>1, <4>2 DEF Preparing
    <3>3. CASE flusher'[d] # "prepare"
      <4>1. UNCHANGED preparer
        BY <2>1, <3>3 DEF FlusherOpen
      <4> QED BY <3>1, <4>1 DEF Preparing
    <3> QED BY <3>2, <3>3
  <2>2. CASE FlusherPrepared(d)
    BY <2>2 DEF FlusherPrepared, Preparing
  <2>3. CASE FlusherFlush(d) \/ FlusherLeaves(d) \/ FlusherDrained(d)
    BY <1>2, <2>3 DEF FlusherFlush, FlusherLeaves, FlusherDrained, FlusherFits, Preparing
  <2> QED BY <2>1, <2>2, <2>3
<1>5. /\ file' \in [Databases -> {"none", "ok", "broken"}] /\ own' \in [Databases -> BOOLEAN]
      /\ \A c \in Databases : c # d => file'[c] = file[c] /\ own'[c] = own[c]
      /\ file'[d] = "ok" /\ own'[d]
  <2>1. CASE FlusherOpen(d)
    BY <2>1 DEF FlusherOpen, DiskTypes
  <2>2. CASE ~FlusherOpen(d)
    BY <1>2, <2>2 DEF FlusherPrepared, FlusherFlush, FlusherLeaves, FlusherDrained, FlusherFits, DiskTypes, disk
  <2> QED BY <2>1, <2>2
<1>6. /\ dirty' \in [Databases -> BOOLEAN]
      /\ \A c \in Databases : dirty'[c] => dirty[c]
      /\ flusher[d] = "drain" => ~dirty'[d]
  BY <1>2 DEF FlusherOpen, FlusherPrepared, FlusherFlush, FlusherLeaves, FlusherDrained, FlusherFits, DiskTypes, disk, Flushed
<1>7. flusher'[d] = "drain" => phase = "stopping"
  BY <1>2, <1>3 DEF FlusherLeaves, FlusherOpen, FlusherPrepared, FlusherFlush, FlusherDrained, FlusherFits
<1>8. flusher[d] = "drain" => Users(d) = {}
  <2> SUFFICES ASSUME flusher[d] = "drain" PROVE Users(d) = {}
    OBVIOUS
  <2>1. FlusherDrained(d)
    BY <1>2, <1>3 DEF FlusherOpen, FlusherPrepared, FlusherFlush, FlusherLeaves
  <2>2. Number(d) = 0
    BY <1>2, <2>1 DEF FlusherDrained, FlusherFits, Number
  <2>3. Number(d) = Cardinality(Users(d)) + Preparing(d)
    BY DEF CountFits
  <2> QED BY <2>2, <2>3, UsersFinite DEF Preparing
<1>9. Types'
  <2>1. ProcessTypes'
    BY <1>1, <1>3, <1>4
  <2> QED BY <1>1, <1>5, <1>6, <2>1 DEF ServerTypes, ShmemTypes, DiskTypes
<1>10. MainFits'
  <2>1. \A c \in Databases : flusher[c] = "none" => flusher'[c] = "none"
    BY <1>3
  <2> QED BY <1>1, <2>1 DEF MainFits, MainState
<1>11. FlushersFit'
  <2> SUFFICES ASSUME NEW c \in Databases PROVE FlusherFits(c)'
    BY DEF FlushersFit
  <2>1. CASE c = d
    BY <1>1, <1>2, <1>3, <1>4, <1>5, <1>7, <2>1 DEF FlusherFits, Has, IsFlushing, ServerTypes
  <2>2. CASE c # d
    BY <1>1, <1>3, <1>4, <1>5, <2>2 DEF FlushersFit, FlusherFits, Has, IsFlushing
  <2> QED BY <2>1, <2>2
<1>12. NothingFreed' /\ CountFits'
  <2>1. \A c \in Databases : /\ Number(c)' = Number(c) /\ Users(c)' = Users(c) /\ Preparing(c)' = Preparing(c)
                             /\ flusher'[c] # "none" => flusher[c] # "none"
    BY <1>1, <1>3, <1>4 DEF Number, Has, Users, Preparing
  <2> QED BY <1>1, <2>1, SameCount DEF NothingFreed
<1>13. BackendsFit'
  <2> SUFFICES ASSUME NEW b \in Backends PROVE BackendFits(b)'
    BY DEF BackendsFit
  <2>1. BackendFits(b)
    BY DEF BackendsFit
  <2>2. CASE backend[b].db = d
    <3>1. flusher[d] = "drain" => backend[b].pc # "running"
      BY <1>8, <2>2 DEF Users, Counted
    <3> QED BY <1>1, <1>3, <2>1, <2>2, <3>1 DEF BackendFits
  <2>3. CASE backend[b].db # d
    BY <1>1, <1>3, <2>1, <2>3 DEF BackendFits
  <2> QED BY <2>2, <2>3
<1>14. DirtyFits'
  BY <1>3, <1>6 DEF DirtyFits
<1> QED BY <1>9, <1>10, <1>11, <1>12, <1>13, <1>14

\* SIGUSR1 only sets a flag, and the end of a flusher only waits to be told.
LEMMA MainSignalled ==
  ASSUME Inv, SignalMain \/ \E d \in Databases : Ended(d) \/ Reap(d)
  PROVE  main' \in MainState /\ main'.pc = main.pc /\ main'.back = main.back /\ main'.todo = main.todo /\ main'.at = main.at
<1> USE DEF Inv, Types, ProcessTypes, MainState
<1>1. CASE SignalMain
  BY <1>1 DEF SignalMain
<1>2. ASSUME NEW d \in Databases, Ended(d)
      PROVE  main' \in MainState /\ main'.pc = main.pc /\ main'.back = main.back /\ main'.todo = main.todo /\ main'.at = main.at
  BY <1>2 DEF Ended
<1>3. ASSUME NEW d \in Databases, Reap(d)
      PROVE  main' \in MainState /\ main'.pc = main.pc /\ main'.back = main.back /\ main'.todo = main.todo /\ main'.at = main.at
  BY <1>3 DEF Reap
<1> QED BY <1>1, <1>2, <1>3

LEMMA FlusherFailKeeps ==
  ASSUME Inv, NEW d \in Databases, FlusherFail(d)
  PROVE  Inv'
<1> USE DEF Inv, Types, ProcessTypes
<1> DEFINE e == [Entered(d) EXCEPT !.pid = FALSE]
<1>1. /\ UNCHANGED <<phase, file, dirty, own, preparer, backend>>
      /\ flusher[d] = "start" /\ flusher' = [flusher EXCEPT ![d] = "none"]
      /\ spent' = [spent EXCEPT !.failures = @ + 1] /\ Change(d, e)
  BY DEF FlusherFail, Ended, disk
<1>2. main' \in MainState /\ main'.pc = main.pc /\ main'.back = main.back /\ main'.todo = main.todo /\ main'.at = main.at
  BY MainSignalled DEF FlusherFail
<1>3. FlusherFits(d) /\ Has(d)
  BY <1>1 DEF FlushersFit, FlusherFits
<1>4. Entered(d) = entries[d] /\ entries[d] \in Entry
  BY <1>3, EnteredFits DEF ShmemTypes, Has
<1>5. e \in Entry /\ e.nUsing = entries[d].nUsing /\ e.flushing = entries[d].flushing
  BY <1>4 DEF Entry
<1> HIDE DEF e
<1>6. /\ ShmemTypes' /\ NothingFreed' /\ CountFits'
      /\ \A c \in Databases : Has(c)' = Has(c)
      /\ \A c \in Databases : Has(c) => entries'[c] = IF c = d THEN e ELSE entries[c]
  <2>1. \A c \in Databases : flusher'[c] # "none" => flusher[c] # "none"
    BY <1>1
  <2> QED BY <1>1, <1>3, <1>5, <2>1, ChangedOnly DEF Preparing
<1>7. Types'
  BY <1>1, <1>2, <1>6 DEF ServerTypes, DiskTypes, FlusherState
<1>8. MainFits'
  BY <1>1, <1>2 DEF MainFits, MainState
<1>9. FlushersFit'
  <2> SUFFICES ASSUME NEW c \in Databases PROVE FlusherFits(c)'
    BY DEF FlushersFit
  <2>1. FlusherFits(c)
    BY DEF FlushersFit
  <2> QED BY <1>1, <1>2, <1>5, <1>6, <2>1 DEF FlusherFits, IsFlushing
<1>10. BackendsFit'
  BY <1>1 DEF BackendsFit, BackendFits, BackendState, Somewhere
<1>11. DirtyFits'
  BY <1>1 DEF DirtyFits
<1> QED BY <1>6, <1>7, <1>8, <1>9, <1>10, <1>11

LEMMA FlusherReadyKeeps ==
  ASSUME Inv, NEW d \in Databases, FlusherReady(d)
  PROVE  Inv'
<1> USE DEF Inv, Types, ProcessTypes
<1> DEFINE e == [Entered(d) EXCEPT !.flushing = TRUE]
<1>1. /\ UNCHANGED <<phase, spent, file, dirty, own, main, preparer, backend>>
      /\ flusher[d] = "ready" /\ flusher' = [flusher EXCEPT ![d] = "flush"]
      /\ Enter(d, e)
  BY DEF FlusherReady, server, disk
<1>2. FlusherFits(d) /\ Has(d)
  BY <1>1 DEF FlushersFit, FlusherFits
<1>3. Entered(d) = entries[d] /\ entries[d] \in Entry
  BY <1>2, EnteredFits DEF ShmemTypes, Has
<1>4. e \in Entry /\ e.nUsing = entries[d].nUsing /\ e.pid = entries[d].pid
  BY <1>3 DEF Entry
<1> HIDE DEF e
<1>5. /\ ShmemTypes' /\ NothingFreed' /\ CountFits'
      /\ \A c \in Databases : Has(c)' = Has(c)
      /\ \A c \in Databases : Has(c) => entries'[c] = IF c = d THEN e ELSE entries[c]
  <2>1. \A c \in Databases : flusher'[c] # "none" => flusher[c] # "none"
    BY <1>1
  <2> QED BY <1>1, <1>2, <1>4, <2>1, ChangedOnly DEF Preparing
<1>6. Types'
  BY <1>1, <1>5 DEF ServerTypes, DiskTypes, FlusherState
<1>7. MainFits'
  BY <1>1 DEF MainFits, MainState
<1>8. FlushersFit'
  <2> SUFFICES ASSUME NEW c \in Databases PROVE FlusherFits(c)'
    BY DEF FlushersFit
  <2>1. FlusherFits(c)
    BY DEF FlushersFit
  <2> QED BY <1>1, <1>4, <1>5, <2>1 DEF FlusherFits, IsFlushing
<1>9. BackendsFit'
  BY <1>1 DEF BackendsFit, BackendFits, BackendState, Somewhere
<1>10. DirtyFits'
  BY <1>1 DEF DirtyFits
<1> QED BY <1>5, <1>6, <1>7, <1>8, <1>9, <1>10

LEMMA FlusherExitKeeps ==
  ASSUME Inv, NEW d \in Databases, FlusherExit(d)
  PROVE  Inv'
<1> USE DEF Inv, Types, ProcessTypes
<1>1. /\ UNCHANGED <<phase, spent, file, dirty, own, preparer, backend>>
      /\ flusher[d] = "final" /\ flusher' = [flusher EXCEPT ![d] = "none"]
      /\ Stop(d)
  BY DEF FlusherExit, Ended, server, disk
<1>2. main' \in MainState /\ main'.pc = main.pc /\ main'.back = main.back /\ main'.todo = main.todo /\ main'.at = main.at
  BY MainSignalled DEF FlusherExit
<1>3. phase = "stopping" /\ preparer[d].pc = "none"
  BY <1>1 DEF FlushersFit, FlusherFits, ServerTypes
<1>4. /\ ShmemTypes'
      /\ \A c \in Databases : Has(c)' <=> Has(c) /\ c # d
      /\ \A c \in Databases : Has(c) /\ c # d => entries'[c] = entries[c]
  BY <1>1, StopEffect DEF Has
<1>5. Types'
  BY <1>1, <1>2, <1>4 DEF ServerTypes, DiskTypes, FlusherState
<1>6. MainFits'
  BY <1>1, <1>2 DEF MainFits, MainState
<1>7. FlushersFit'
  <2> SUFFICES ASSUME NEW c \in Databases PROVE FlusherFits(c)'
    BY DEF FlushersFit
  <2>1. FlusherFits(c)
    BY DEF FlushersFit
  <2> QED BY <1>1, <1>2, <1>3, <1>4, <2>1 DEF FlusherFits, IsFlushing
<1>8. NothingFreed'
  BY <1>1, <1>3 DEF NothingFreed
<1>9. CountFits'
  <2> SUFFICES ASSUME NEW c \in Databases, flusher'[c] # "none"
               PROVE  Number(c)' = Cardinality(Users(c)') + Preparing(c)'
    BY <1>1, <1>3 DEF CountFits
  <2>1. c # d /\ flusher[c] # "none"
    BY <1>1
  <2>2. Number(c)' = Number(c) /\ Users(c)' = Users(c) /\ Preparing(c)' = Preparing(c)
    BY <1>1, <1>4, <2>1 DEF Number, Users, Preparing
  <2> QED BY <2>1, <2>2 DEF CountFits
<1>10. BackendsFit'
  <2> SUFFICES ASSUME NEW b \in Backends PROVE BackendFits(b)'
    BY DEF BackendsFit
  <2>1. BackendFits(b)
    BY DEF BackendsFit
  <2> QED BY <1>1, <1>3, <2>1 DEF BackendFits, BackendState, Somewhere
<1>11. DirtyFits'
  BY <1>1 DEF DirtyFits
<1> QED BY <1>5, <1>6, <1>7, <1>8, <1>9, <1>10, <1>11

-----------------------------------------------------------------------------
(* The workers that prepare.                                               *)

LEMMA PreparerHasFlusher ==
  ASSUME Inv, NEW d \in Databases, preparer[d].pc # "none"
  PROVE  /\ flusher[d] = "prepare" /\ Has(d) /\ own[d] /\ file[d] = "ok"
         /\ Entered(d) = entries[d] /\ entries[d] \in Entry
         /\ entries[d].nUsing = Cardinality(Users(d)) + Preparing(d)
<1>1. FlusherFits(d) /\ ShmemTypes
  BY DEF Inv, Types, FlushersFit
<1>2. flusher[d] = "prepare" /\ Has(d) /\ own[d] /\ file[d] = "ok"
  BY <1>1 DEF FlusherFits
<1>3. Entered(d) = entries[d] /\ entries[d] \in Entry
  BY <1>1, <1>2, EnteredFits DEF ShmemTypes, Has
<1>4. Number(d) = Cardinality(Users(d)) + Preparing(d)
  BY <1>2 DEF Inv, CountFits
<1> QED BY <1>2, <1>3, <1>4 DEF Number

\* A worker goes on, and changes its entry at most.
LEMMA PreparerMoves ==
  ASSUME Inv, NEW d \in Databases, NEW pc \in PreparerPlace, NEW e \in Entry,
         preparer[d].pc # "none", Prepares(d, pc), Change(d, e) \/ Enter(d, e),
         e.pid = entries[d].pid, e.flushing = entries[d].flushing,
         e.nUsing = entries[d].nUsing - Preparing(d) + (IF pc = "using" THEN 1 ELSE 0),
         UNCHANGED <<phase, file, own, main, flusher, backend>>, ServerTypes',
         dirty' \in [Databases -> BOOLEAN], \A c \in Databases : c # d => dirty'[c] = dirty[c]
  PROVE  Inv'
<1> USE DEF Inv, Types, ProcessTypes
<1>1. /\ flusher[d] = "prepare" /\ Has(d) /\ own[d] /\ file[d] = "ok"
      /\ entries[d].nUsing = Cardinality(Users(d)) + Preparing(d)
  BY PreparerHasFlusher
<1>2. /\ preparer' \in [Databases -> PreparerState] /\ preparer'[d].pc = pc
      /\ \A c \in Databases : c # d => preparer'[c] = preparer[c]
  BY DEF Prepares, PreparerState
<1>3. /\ ShmemTypes' /\ DOMAIN entries' = DOMAIN entries
      /\ \A c \in DOMAIN entries : entries'[c] = IF c = d THEN e ELSE entries[c]
      /\ free = <<>> => free' = <<>>
  <2>1. CASE Change(d, e)
    BY <2>1, ChangeEffect
  <2>2. CASE Enter(d, e)
    BY <1>1, <2>2, EnterEffect DEF Has
  <2> QED BY <2>1, <2>2
<1>4. Types'
  BY <1>2, <1>3 DEF DiskTypes
<1>5. MainFits'
  BY DEF MainFits
<1>6. FlushersFit'
  <2> SUFFICES ASSUME NEW c \in Databases PROVE FlusherFits(c)'
    BY DEF FlushersFit
  <2>1. FlusherFits(c)
    BY DEF FlushersFit
  <2> QED BY <1>1, <1>2, <1>3, <2>1 DEF FlusherFits, IsFlushing, Has
<1>7. NothingFreed'
  BY <1>3 DEF NothingFreed
<1>8. CountFits'
  <2> SUFFICES ASSUME NEW c \in Databases, phase = "up" \/ flusher[c] # "none"
               PROVE  Number(c)' = Cardinality(Users(c)) + Preparing(c)'
    BY SameUsers DEF CountFits
  <2>1. CASE c = d
    <3>1. Number(c)' = e.nUsing /\ Preparing(c)' = IF pc = "using" THEN 1 ELSE 0
      BY <1>1, <1>2, <1>3, <2>1 DEF Number, Has, Preparing
    <3>2. Cardinality(Users(c)) \in Nat /\ Preparing(c) \in Nat
      BY UsersFinite DEF Preparing
    <3> QED BY <1>1, <2>1, <3>1, <3>2
  <2>2. CASE c # d
    BY <1>2, <1>3, <2>2 DEF CountFits, Number, Has, Preparing
  <2> QED BY <2>1, <2>2
<1>9. BackendsFit' /\ DirtyFits'
  BY <1>1 DEF BackendsFit, BackendFits, DirtyFits
<1> QED BY <1>4, <1>5, <1>6, <1>7, <1>8, <1>9

\* Nothing changes the entry: the same as a change to what it is.
LEMMA PreparerStays ==
  ASSUME Inv, NEW d \in Databases, Has(d), UNCHANGED shmem
  PROVE  Change(d, entries[d])
BY DEF Inv, Types, ShmemTypes, Change, Has, shmem

LEMMA PreparerUses ==
  ASSUME Inv, NEW d \in Databases, preparer[d].pc # "none"
  PROVE  /\ preparer[d].pc # "using" =>
              /\ [Entered(d) EXCEPT !.nUsing = (@ + 1) % CounterSize] \in Entry
              /\ [Entered(d) EXCEPT !.nUsing = (@ + 1) % CounterSize] =
                   [entries[d] EXCEPT !.nUsing = entries[d].nUsing + 1]
         /\ preparer[d].pc = "using" =>
              /\ [Entered(d) EXCEPT !.nUsing = (@ + CounterSize - 1) % CounterSize] \in Entry
              /\ [Entered(d) EXCEPT !.nUsing = (@ + CounterSize - 1) % CounterSize] =
                   [entries[d] EXCEPT !.nUsing = entries[d].nUsing - 1]
<1>1. /\ Entered(d) = entries[d] /\ entries[d] \in Entry
      /\ entries[d].nUsing = Cardinality(Users(d)) + Preparing(d)
  BY PreparerHasFlusher
<1>2. /\ Cardinality(Users(d)) \in Nat /\ Cardinality(Users(d)) <= Cardinality(Backends)
      /\ Cardinality(Backends) \in Nat
  BY UsersFinite, CrashSaferAssumption, FS_CardinalityType
<1>3. CASE preparer[d].pc # "using"
  <2>1. entries[d].nUsing + 1 < CounterSize /\ entries[d].nUsing \in Nat
    BY <1>1, <1>2, <1>3, CounterFits DEF Preparing
  <2>2. (entries[d].nUsing + 1) % CounterSize = entries[d].nUsing + 1
    BY <2>1, CountUp
  <2>3. entries[d].nUsing + 1 \in Numbers
    BY <2>1, CounterFits DEF Numbers
  <2> QED BY <1>1, <1>3, <2>2, <2>3 DEF Entry
<1>4. CASE preparer[d].pc = "using"
  <2>1. entries[d].nUsing \in Nat /\ 0 < entries[d].nUsing /\ entries[d].nUsing < CounterSize
    BY <1>1, <1>2, <1>4, CounterFits DEF Preparing
  <2>2. (entries[d].nUsing + CounterSize - 1) % CounterSize = entries[d].nUsing - 1
    BY <2>1, CountDown
  <2>3. entries[d].nUsing - 1 \in Numbers
    BY <2>1, CounterFits DEF Numbers
  <2> QED BY <1>1, <1>4, <2>2, <2>3 DEF Entry
<1> QED BY <1>3, <1>4

LEMMA PreparerKeeps ==
  ASSUME Inv, NEW d \in Databases, PreparerStep(d) \/ PreparerFail(d)
  PROVE  Inv'
<1> USE DEF Inv, Types, ProcessTypes
<1>1. preparer[d].pc # "none"
  BY DEF PreparerStep, PreparerStart, PreparerUse, PreparerFinish, PreparerReindexFails, PreparerExit,
         PreparerForgotten, PreparerFail
<1>2. /\ file[d] = "ok" /\ Has(d)
      /\ Entered(d) = entries[d] /\ entries[d] \in Entry
      /\ entries[d].nUsing \in Nat /\ Preparing(d) = IF preparer[d].pc = "using" THEN 1 ELSE 0
  BY <1>1, PreparerHasFlusher DEF Preparing, Entry, Numbers
<1>3. /\ UNCHANGED <<phase, own, main, flusher, backend>> /\ ServerTypes'
      /\ dirty' \in [Databases -> BOOLEAN] /\ \A c \in Databases : c # d => dirty'[c] = dirty[c]
      /\ file' = file
  <2>1. CASE PreparerStart(d) \/ PreparerReindexFails(d) \/ PreparerExit(d) \/ PreparerForgotten(d)
    BY <2>1 DEF PreparerStart, PreparerReindexFails, PreparerExit, PreparerForgotten, server, disk, ServerTypes, DiskTypes
  <2>2. CASE PreparerUse(d)
    BY <1>2, <2>2 DEF PreparerUse, server, ServerTypes, DiskTypes, Opened
  <2>3. CASE PreparerFinish(d)
    BY <2>3 DEF PreparerFinish, server, ServerTypes, DiskTypes
  <2>4. CASE PreparerFail(d)
    BY <2>4 DEF PreparerFail, disk, ServerTypes, DiskTypes
  <2> QED BY <2>1, <2>2, <2>3, <2>4 DEF PreparerStep
<1>4. ASSUME preparer[d].pc # "using", NEW pc \in PreparerPlace \ {"using"}, NEW e \in Entry,
             Prepares(d, pc), Change(d, e) \/ Enter(d, e), e.pid = entries[d].pid,
             e.flushing = entries[d].flushing, e.nUsing = entries[d].nUsing
      PROVE  Inv'
  BY <1>1, <1>2, <1>3, <1>4, PreparerMoves
<1>5. ASSUME Release(d), preparer[d].pc = "using", Prepares(d, "released")
      PROVE  Inv'
  <2> DEFINE e == [Entered(d) EXCEPT !.nUsing = (@ + CounterSize - 1) % CounterSize]
  <2>1. e \in Entry /\ e = [entries[d] EXCEPT !.nUsing = entries[d].nUsing - 1] /\ Change(d, e)
    BY <1>1, <1>5, PreparerUses DEF Release
  <2>2. e.pid = entries[d].pid /\ e.flushing = entries[d].flushing /\ e.nUsing = entries[d].nUsing - 1
    BY <1>2, <2>1 DEF Entry
  <2> HIDE DEF e
  <2>3. "released" \in PreparerPlace
    BY DEF PreparerPlace
  <2>4. e.nUsing = entries[d].nUsing - Preparing(d) + (IF "released" = "using" THEN 1 ELSE 0)
    BY <1>2, <1>5, <2>2
  <2> QED BY <1>1, <1>3, <1>5, <2>1, <2>2, <2>3, <2>4, PreparerMoves
<1>6. CASE PreparerStart(d) \/ PreparerExit(d)
  <2>1. PICK on \in BOOLEAN, pc \in {"preparing", "none"} :
          /\ Enter(d, [Entered(d) EXCEPT !.preparing = on]) /\ Prepares(d, pc)
          /\ preparer[d].pc # "using"
    BY <1>6 DEF PreparerStart, PreparerExit
  <2> DEFINE e == [Entered(d) EXCEPT !.preparing = on]
  <2>2. e \in Entry /\ e.pid = entries[d].pid /\ e.flushing = entries[d].flushing /\ e.nUsing = entries[d].nUsing
    BY <1>2 DEF Entry
  <2>3. Enter(d, e) /\ pc \in PreparerPlace \ {"using"}
    BY <2>1 DEF PreparerPlace
  <2> HIDE DEF e
  <2> QED BY <1>4, <2>1, <2>2, <2>3
<1>7. CASE PreparerUse(d)
  <2> DEFINE e == [Entered(d) EXCEPT !.nUsing = (@ + 1) % CounterSize]
  <2>1. preparer[d].pc # "using" /\ Prepares(d, "using") /\ Enter(d, e)
    BY <1>7 DEF PreparerUse, Use
  <2>2. e \in Entry /\ e = [entries[d] EXCEPT !.nUsing = entries[d].nUsing + 1]
    BY <1>1, <2>1, PreparerUses
  <2>3. e.pid = entries[d].pid /\ e.flushing = entries[d].flushing /\ e.nUsing = entries[d].nUsing + 1
    BY <1>2, <2>2 DEF Entry
  <2> HIDE DEF e
  <2>4. "using" \in PreparerPlace
    BY DEF PreparerPlace
  <2>5. e.nUsing = entries[d].nUsing - Preparing(d) + (IF "using" = "using" THEN 1 ELSE 0)
    BY <1>2, <2>1, <2>3
  <2> QED BY <1>1, <1>3, <2>1, <2>2, <2>3, <2>4, <2>5, PreparerMoves
<1>8. CASE PreparerFinish(d) \/ PreparerReindexFails(d)
  BY <1>5, <1>8 DEF PreparerFinish, PreparerReindexFails
<1>9. CASE PreparerForgotten(d) \/ PreparerFail(d)
  <2>1. CASE preparer[d].pc = "using"
    BY <1>5, <1>9, <2>1 DEF PreparerForgotten, PreparerFail
  <2>2. CASE preparer[d].pc # "using"
    <3>1. UNCHANGED shmem /\ Prepares(d, "none")
      BY <1>9, <2>2 DEF PreparerForgotten, PreparerFail
    <3>2. Change(d, entries[d]) /\ "none" \in PreparerPlace \ {"using"}
      BY <1>2, <3>1, PreparerStays DEF PreparerPlace
    <3> QED BY <1>2, <1>4, <2>2, <3>1, <3>2
  <2> QED BY <2>1, <2>2
<1> QED BY <1>6, <1>7, <1>8, <1>9 DEF PreparerStep

-----------------------------------------------------------------------------
(* The backends.                                                           *)

\* A backend becomes r: it is counted as it was.
LEMMA BackendMoves ==
  ASSUME Inv, NEW b \in Backends, NEW r \in BackendState,
         backend' = [backend EXCEPT ![b] = r],
         r.pc \in Counted <=> backend[b].pc \in Counted,
         r.pc \in Counted => r.db = backend[b].db,
         r.pc # "none" => r.db \in Databases,
         r.pc # "orphan",
         r.pc = "open" => \/ flusher[r.db] \in {"flush", "drain", "final"}
                          \/ phase = "stopping" /\ flusher[r.db] = "none",
         r.pc = "running" => flusher[r.db] \in {"flush", "drain"},
         UNCHANGED <<phase, entries, free, dirty, own, main, flusher, preparer>>, ServerTypes',
         file' \in [Databases -> {"none", "ok", "broken"}],
         \A c \in Databases : file[c] = "ok" => file'[c] = "ok"
  PROVE  Inv'
<1> USE DEF Inv, Types, ProcessTypes
<1>1. backend' \in [Backends -> BackendState] /\ backend'[b] = r
      /\ \A a \in Backends : a # b => backend'[a] = backend[a]
  OBVIOUS
<1>2. Types'
  BY <1>1 DEF ShmemTypes, DiskTypes
<1>3. MainFits' /\ NothingFreed' /\ DirtyFits'
  BY DEF MainFits, NothingFreed, DirtyFits
<1>4. FlushersFit'
  BY DEF FlushersFit, FlusherFits, Has, IsFlushing
<1>5. \A c : Users(c)' = Users(c)
  BY <1>1 DEF Users
<1>6. CountFits'
  BY <1>5, SameCount DEF Number, Has, Preparing
<1>7. BackendsFit'
  <2> SUFFICES ASSUME NEW a \in Backends PROVE BackendFits(a)'
    BY DEF BackendsFit
  <2>1. CASE a = b
    BY <1>1, <2>1 DEF BackendFits
  <2>2. CASE a # b
    BY <1>1, <2>2 DEF BackendFits, BackendsFit
  <2> QED BY <2>1, <2>2
<1> QED BY <1>2, <1>3, <1>4, <1>6, <1>7

LEMMA BackendGoesOn ==
  ASSUME Inv, NEW b \in Backends, NEW d \in Databases,
         Connect(b, d) \/ Reject(b) \/ Pass(b) \/ Cancel(b) \/ OpenDatabase(b)
  PROVE  Inv'
<1> USE DEF Inv, Types, ProcessTypes
<1> DEFINE r == backend'[b]
           db == backend[b].db
<1>1. BackendFits(b) /\ backend[b] \in BackendState
  BY DEF BackendsFit
<1>2. /\ UNCHANGED <<phase, entries, free, dirty, own, main, flusher, preparer>> /\ ServerTypes'
      /\ file' \in [Databases -> {"none", "ok", "broken"}]
      /\ \A c \in Databases : file[c] = "ok" => file'[c] = "ok"
  BY DEF Connect, Reject, Pass, Cancel, OpenDatabase, Opened, server, shmem, disk, ServerTypes, DiskTypes
<1>3. CASE Connect(b, d)
  <2>1. backend' = [backend EXCEPT ![b] = [pc |-> "use", db |-> d]] /\ backend[b].pc = "none"
    BY <1>3 DEF Connect
  <2>2. [pc |-> "use", db |-> d] \in BackendState
    BY DEF BackendState, Somewhere
  <2> QED BY <1>2, <2>1, <2>2, BackendMoves DEF Counted
<1>4. ASSUME NEW pc \in Counted, Becomes(b, pc), backend[b].pc \in Counted,
             pc # "orphan", pc = "open" => IsFlushing(db),
             pc = "running" => backend[b].pc = "open" /\ phase # "stopping"
      PROVE  Inv'
  <2> DEFINE q == [pc |-> pc, db |-> db]
  <2>1. backend' = [backend EXCEPT ![b] = q] /\ q \in BackendState
    <3>1. backend' = [backend EXCEPT ![b] = [backend[b] EXCEPT !.pc = pc]]
      BY <1>4 DEF Becomes
    <3>2. [backend[b] EXCEPT !.pc = pc] = q
      BY <1>1 DEF BackendState
    <3>3. q \in BackendState
      BY <1>1 DEF BackendState
    <3> QED BY <3>1, <3>2, <3>3
  <2>2. db \in Databases
    BY <1>1, <1>4 DEF BackendFits, Counted
  <2>3. FlusherFits(db)
    BY <2>2 DEF FlushersFit
  <2>4. pc = "open" => \/ flusher[db] \in {"flush", "drain", "final"}
                       \/ phase = "stopping" /\ flusher[db] = "none"
    BY <1>4, <2>3 DEF FlusherFits
  <2>5. pc = "running" => flusher[db] \in {"flush", "drain"}
    BY <1>1, <1>4, <2>3 DEF FlusherFits, BackendFits, ServerTypes
  <2>6. q.pc = pc /\ q.db = db
    OBVIOUS
  <2> HIDE DEF q
  <2> QED BY <1>2, <1>4, <2>1, <2>2, <2>4, <2>5, <2>6, BackendMoves DEF Counted
<1>5. CASE Reject(b) \/ Cancel(b)
  <2>1. Becomes(b, "failed") /\ backend[b].pc = "waiting"
    BY <1>5 DEF Reject, Cancel
  <2> QED BY <1>4, <2>1 DEF Counted
<1>6. CASE Pass(b)
  <2>1. Becomes(b, "open") /\ backend[b].pc = "waiting" /\ IsFlushing(db)
    BY <1>6 DEF Pass
  <2> QED BY <1>4, <2>1 DEF Counted
<1>7. CASE OpenDatabase(b)
  <2>1. /\ backend[b].pc = "open"
        /\ Becomes(b, "failed") \/ (Becomes(b, "running") /\ phase # "stopping")
    BY <1>7 DEF OpenDatabase
  <2> QED BY <1>4, <2>1 DEF Counted
<1> QED BY <1>3, <1>5, <1>6, <1>7

\* The main worker is told something by a backend or the postmaster.
LEMMA MainTold ==
  ASSUME Inv, (\E b \in Backends : Nudge(b)) \/ \E d \in Databases : Reap(d)
  PROVE  Inv'
<1> USE DEF Inv, Types, ProcessTypes
<1>1. UNCHANGED <<phase, spent, entries, free, file, dirty, own, flusher, preparer, backend>>
  BY DEF Nudge, Reap, server, shmem, disk
<1>2. main' \in MainState /\ main'.pc = main.pc /\ main'.back = main.back /\ main'.todo = main.todo /\ main'.at = main.at
  BY MainSignalled DEF Nudge
<1>3. Types'
  BY <1>1, <1>2 DEF ServerTypes, ShmemTypes, DiskTypes
<1>4. MainFits' /\ NothingFreed' /\ DirtyFits'
  BY <1>1, <1>2 DEF MainFits, NothingFreed, DirtyFits
<1>5. FlushersFit'
  BY <1>1, <1>2 DEF FlushersFit, FlusherFits, Has, IsFlushing
<1>6. CountFits'
  BY <1>1 DEF CountFits, Number, Has, Users, Preparing
<1>7. BackendsFit'
  BY <1>1 DEF BackendsFit, BackendFits
<1> QED BY <1>3, <1>4, <1>5, <1>6, <1>7

LEMMA BackendWrites ==
  ASSUME Inv, NEW b \in Backends, Write(b)
  PROVE  Inv'
<1> USE DEF Inv, Types, ProcessTypes
<1>1. /\ UNCHANGED <<phase, spent, entries, free, file, own, main, flusher, preparer, backend>>
      /\ backend[b].pc = "running" /\ dirty' = [dirty EXCEPT ![backend[b].db] = TRUE]
  BY DEF Write, server, shmem
<1>2. Types'
  BY <1>1 DEF ServerTypes, ShmemTypes, DiskTypes
<1>3. MainFits' /\ NothingFreed'
  BY <1>1 DEF MainFits, NothingFreed
<1>4. FlushersFit'
  BY <1>1 DEF FlushersFit, FlusherFits, Has, IsFlushing
<1>5. CountFits'
  BY <1>1 DEF CountFits, Number, Has, Users, Preparing
<1>6. BackendsFit'
  BY <1>1 DEF BackendsFit, BackendFits
<1>7. DirtyFits'
  BY <1>1 DEF DirtyFits, DiskTypes, BackendsFit, BackendFits
<1> QED BY <1>2, <1>3, <1>4, <1>5, <1>6, <1>7

\* A backend that is counted, or counted no more, changes one entry.  The
\* count is right where it has to be.
LEMMA BackendCounts ==
  ASSUME Inv, NEW b \in Backends, NEW r \in BackendState, backend' = [backend EXCEPT ![b] = r],
         r.pc \in {"waiting", "none"}, r.pc = "waiting" => r.db = backend[b].db,
         NEW d \in Databases, d = backend[b].db,
         UNCHANGED <<phase, spent, file, dirty, own, main, flusher, preparer>>, ShmemTypes', NothingFreed',
         \A c \in Databases : Has(c) => Has(c)' /\ entries'[c].pid = entries[c].pid
                                                /\ entries'[c].flushing = entries[c].flushing,
         \A c \in Databases : ~Has(c) /\ Has(c)' /\ phase = "up" => ~entries'[c].flushing,
         \A c \in Databases : c # d => Number(c)' = Number(c),
         phase = "up" \/ flusher[d] # "none" => Number(d)' = Cardinality(Users(d)') + Preparing(d)
  PROVE  Inv'
<1> USE DEF Inv, Types, ProcessTypes
<1>1. backend' \in [Backends -> BackendState] /\ backend'[b] = r
      /\ \A a \in Backends : a # b => backend'[a] = backend[a]
  OBVIOUS
<1>2. Types'
  BY <1>1 DEF ServerTypes, DiskTypes
<1>3. MainFits' /\ DirtyFits'
  BY DEF MainFits, DirtyFits
<1>4. FlushersFit'
  <2> SUFFICES ASSUME NEW c \in Databases PROVE FlusherFits(c)'
    BY DEF FlushersFit
  <2>1. FlusherFits(c)
    BY DEF FlushersFit
  <2> QED BY <2>1 DEF FlusherFits, IsFlushing, ServerTypes
<1>5. CountFits'
  <2> SUFFICES ASSUME NEW c \in Databases, phase = "up" \/ flusher[c] # "none"
               PROVE  Number(c)' = Cardinality(Users(c)') + Preparing(c)
    BY DEF CountFits, Preparing
  <2>1. CASE c = d
    BY <2>1
  <2>2. CASE c # d
    <3>1. Users(c)' = Users(c)
      BY <1>1, <2>2 DEF Users, Counted
    <3> QED BY <2>2, <3>1 DEF CountFits
  <2> QED BY <2>1, <2>2
<1>6. BackendsFit'
  <2> SUFFICES ASSUME NEW a \in Backends PROVE BackendFits(a)'
    BY DEF BackendsFit
  <2>1. CASE a = b
    BY <1>1, <2>1 DEF BackendFits
  <2>2. CASE a # b
    BY <1>1, <2>2 DEF BackendFits, BackendsFit
  <2> QED BY <2>1, <2>2
<1> QED BY <1>2, <1>3, <1>4, <1>5, <1>6

LEMMA BackendUseKeeps ==
  ASSUME Inv, NEW b \in Backends, BackendUse(b), NEW d, d = backend[b].db
  PROVE  Inv'
<1> USE DEF Inv, Types, ProcessTypes
<1> DEFINE r == [pc |-> "waiting", db |-> d]
           e == [Entered(d) EXCEPT !.nUsing = (@ + 1) % CounterSize]
<1>1. /\ UNCHANGED <<phase, spent, file, dirty, own, main, flusher, preparer>>
      /\ backend[b].pc = "use" /\ Becomes(b, "waiting") /\ Enter(d, e)
  BY DEF BackendUse, server, disk, Use
<1>2. d \in Databases /\ backend[b] \in BackendState
  BY <1>1 DEF BackendsFit, BackendFits
<1>3. backend' = [backend EXCEPT ![b] = r] /\ r \in BackendState
  <2>1. backend' = [backend EXCEPT ![b] = [backend[b] EXCEPT !.pc = "waiting"]]
    BY <1>1 DEF Becomes
  <2>2. [backend[b] EXCEPT !.pc = "waiting"] = r
    BY <1>2 DEF BackendState
  <2>3. r \in BackendState
    BY <1>2 DEF BackendState, Counted
  <2> QED BY <2>1, <2>2, <2>3
<1>4. /\ Entered(d) \in Entry
      /\ Has(d) => Entered(d) = entries[d]
      /\ ~Has(d) /\ phase = "up" => ~Entered(d).flushing /\ Entered(d).nUsing = 0
  BY <1>2, EnteredFits DEF NothingFreed
<1>5. phase = "up" \/ flusher[d] # "none" =>
        Entered(d).nUsing = Cardinality(Users(d)) + Preparing(d)
  <2> SUFFICES ASSUME phase = "up" \/ flusher[d] # "none"
               PROVE  Entered(d).nUsing = Cardinality(Users(d)) + Preparing(d)
    OBVIOUS
  <2>1. Number(d) = Cardinality(Users(d)) + Preparing(d)
    BY <1>2 DEF CountFits
  <2>2. Has(d) \/ phase = "up"
    BY <1>2 DEF FlushersFit, FlusherFits
  <2> QED BY <1>4, <2>1, <2>2 DEF Number
<1>6. /\ Cardinality(Users(d)) \in Nat /\ Cardinality(Users(d)) <= Cardinality(Backends)
      /\ Cardinality(Backends) \in Nat /\ Preparing(d) \in {0, 1}
      /\ CounterSize \in Nat /\ Cardinality(Backends) + 2 < CounterSize
  BY <1>2, UsersFinite, CounterFits, CrashSaferAssumption, FS_CardinalityType DEF Preparing
<1>7. /\ e \in Entry /\ e.pid = Entered(d).pid /\ e.flushing = Entered(d).flushing
      /\ e.nUsing = (Entered(d).nUsing + 1) % CounterSize
  <2>1. Entered(d).nUsing \in Nat
    BY <1>4 DEF Entry, Numbers
  <2>2. (Entered(d).nUsing + 1) % CounterSize \in Numbers
    BY <1>6, <2>1 DEF Numbers
  <2> QED BY <1>4, <2>2 DEF Entry
<1>8. Users(d)' = Users(d) \cup {b} /\ b \notin Users(d)
  BY <1>1, <1>3 DEF Users, Counted
<1>9. phase = "up" \/ flusher[d] # "none" => e.nUsing = Cardinality(Users(d)') + Preparing(d)
  <2> SUFFICES ASSUME phase = "up" \/ flusher[d] # "none"
               PROVE  e.nUsing = Cardinality(Users(d)') + Preparing(d)
    OBVIOUS
  <2>1. Cardinality(Users(d)') = Cardinality(Users(d)) + 1
    BY <1>2, <1>8, UsersFinite
  <2>2. Entered(d).nUsing \in Nat /\ Entered(d).nUsing + 1 < CounterSize
    BY <1>5, <1>6
  <2>3. e.nUsing = Entered(d).nUsing + 1
    BY <1>7, <2>2, CountUp
  <2> QED BY <1>5, <1>6, <2>1, <2>3
<1> HIDE DEF e, r
<1>10. /\ ShmemTypes'
       /\ DOMAIN entries' = DOMAIN entries \cup {d}
       /\ \A c \in DOMAIN entries' : entries'[c] = IF c = d THEN e ELSE entries[c]
       /\ free = <<>> => free' = <<>>
  BY <1>1, <1>2, <1>7, EnterEffect
<1>11. NothingFreed'
  BY <1>1, <1>10 DEF NothingFreed
<1>12. /\ \A c \in Databases : Has(c) => Has(c)' /\ entries'[c].pid = entries[c].pid
                                                /\ entries'[c].flushing = entries[c].flushing
       /\ \A c \in Databases : ~Has(c) /\ Has(c)' /\ phase = "up" => ~entries'[c].flushing
       /\ \A c \in Databases : c # d => Number(c)' = Number(c)
       /\ Number(d)' = e.nUsing
  BY <1>2, <1>4, <1>7, <1>10 DEF Has, Number
<1>13. r.pc = "waiting" /\ r.db = d
  BY DEF r
<1> QED BY <1>1, <1>2, <1>3, <1>9, <1>10, <1>11, <1>12, <1>13, BackendCounts

LEMMA ExitKeeps ==
  ASSUME Inv, NEW b \in Backends, Exit(b), NEW d, d = backend[b].db
  PROVE  Inv'
<1> USE DEF Inv, Types, ProcessTypes
<1> DEFINE e == [Entered(d) EXCEPT !.nUsing = (@ + CounterSize - 1) % CounterSize]
<1>1. /\ UNCHANGED <<phase, spent, file, dirty, own, main, flusher, preparer>>
      /\ backend[b].pc \notin {"none", "open"} /\ backend' = [backend EXCEPT ![b] = NoBackend]
  BY DEF Exit, server, disk
<1>2. d \in Databases /\ backend[b].pc # "orphan"
  BY <1>1 DEF BackendsFit, BackendFits
<1>3. NoBackend \in BackendState /\ NoBackend.pc = "none"
  BY DEF NoBackend, BackendState, Somewhere
<1>4. CASE backend[b].pc = "use"
  <2>1. UNCHANGED <<entries, free>>
    BY <1>4 DEF Exit, shmem
  <2>2. NoBackend.pc \notin Counted /\ backend[b].pc \notin Counted
    BY <1>3, <1>4 DEF Counted
  <2> QED BY <1>1, <1>3, <2>1, <2>2, BackendMoves DEF ServerTypes, DiskTypes
<1>5. CASE backend[b].pc # "use"
  <2>1. Change(d, e)
    BY <1>5 DEF Exit, Release
  <2>2. b \in Users(d) /\ Users(d)' = Users(d) \ {b}
    BY <1>1, <1>2, <1>3, <1>5 DEF Users, Counted, BackendState
  <2>3. /\ Cardinality(Users(d)) \in Nat /\ Cardinality(Users(d)) <= Cardinality(Backends)
        /\ Cardinality(Backends) \in Nat /\ Preparing(d) \in {0, 1}
        /\ CounterSize \in Nat /\ Cardinality(Backends) + 2 < CounterSize
        /\ Cardinality(Users(d)) # 0 /\ Cardinality(Users(d)') = Cardinality(Users(d)) - 1
    BY <1>2, <2>2, UsersFinite, CounterFits, CrashSaferAssumption, FS_CardinalityType DEF Preparing
  <2>4. Entered(d) \in Entry /\ (Has(d) => Entered(d) = entries[d])
    BY <1>2, EnteredFits
  <2>5. /\ e \in Entry /\ e.pid = Entered(d).pid /\ e.flushing = Entered(d).flushing
        /\ e.nUsing = (Entered(d).nUsing + CounterSize - 1) % CounterSize
    <3>1. Entered(d).nUsing \in Nat
      BY <2>4 DEF Entry, Numbers
    <3>2. (Entered(d).nUsing + CounterSize - 1) % CounterSize \in Numbers
      BY <2>3, <3>1 DEF Numbers
    <3> QED BY <2>4, <3>2 DEF Entry
  <2>6. phase = "up" \/ flusher[d] # "none" =>
          Has(d) /\ e.nUsing = Cardinality(Users(d)') + Preparing(d)
    <3> SUFFICES ASSUME phase = "up" \/ flusher[d] # "none"
                 PROVE  Has(d) /\ e.nUsing = Cardinality(Users(d)') + Preparing(d)
      OBVIOUS
    <3>1. Number(d) = Cardinality(Users(d)) + Preparing(d)
      BY <1>2 DEF CountFits
    <3>2. Has(d)
      BY <2>3, <3>1 DEF Number
    <3>3. /\ Entered(d).nUsing \in Nat /\ 0 < Entered(d).nUsing /\ Entered(d).nUsing < CounterSize
          /\ Entered(d).nUsing = Cardinality(Users(d)) + Preparing(d)
      BY <2>3, <2>4, <3>1, <3>2 DEF Number
    <3>4. e.nUsing = Entered(d).nUsing - 1
      BY <2>5, <3>3, CountDown
    <3> QED BY <2>3, <3>2, <3>3, <3>4
  <2> HIDE DEF e
  <2>7. /\ ShmemTypes' /\ DOMAIN entries' = DOMAIN entries
        /\ \A c \in DOMAIN entries : entries'[c] = IF c = d THEN e ELSE entries[c]
        /\ free' = free
    BY <1>2, <2>1, <2>5, ChangeEffect
  <2>8. /\ \A c \in Databases : Has(c) => Has(c)' /\ entries'[c].pid = entries[c].pid
                                                 /\ entries'[c].flushing = entries[c].flushing
        /\ \A c \in Databases : Has(c)' => Has(c)
        /\ \A c \in Databases : c # d => Number(c)' = Number(c)
        /\ Has(d) => Number(d)' = e.nUsing
    BY <1>2, <2>4, <2>5, <2>7 DEF Has, Number
  <2>9. NothingFreed'
    BY <1>1, <2>7 DEF NothingFreed
  <2> QED BY <1>1, <1>2, <1>3, <2>6, <2>7, <2>8, <2>9, BackendCounts
<1> QED BY <1>4, <1>5

-----------------------------------------------------------------------------
(* The server.                                                             *)

\* A new server: nobody is there, and nothing is in memory.
Fresh ==
  /\ phase = "up" /\ entries = [d \in {} |-> {}] /\ free = <<>>
  /\ main = [pc |-> "boot", back |-> "idle", todo |-> {}, usr1 |-> FALSE, at |-> NoBackend.db,
            unreaped |-> {}]
  /\ flusher = [d \in Databases |-> "none"]
  /\ preparer = [d \in Databases |-> [pc |-> "none", reindex |-> FALSE]]
  /\ backend = [b \in Backends |-> NoBackend]
  /\ \A d \in Databases : ~dirty[d]

LEMMA FreshFits == Fresh /\ ServerTypes /\ DiskTypes => Inv
<1> SUFFICES ASSUME Fresh, ServerTypes, DiskTypes PROVE Inv
  OBVIOUS
<1> USE DEF Fresh
<1>1. DOMAIN entries = {} /\ entries = [d \in DOMAIN entries |-> entries[d]]
  OBVIOUS
<1>2. NoBackend \in BackendState /\ NoBackend.pc = "none" /\ NoBackend.db \in Somewhere
  BY DEF NoBackend, BackendState, Somewhere
<1>3. Types
  <2>1. ShmemTypes
    BY <1>1 DEF ShmemTypes
  <2>2. main \in MainState
    BY <1>2 DEF MainState
  <2>3. [pc |-> "none", reindex |-> FALSE] \in PreparerState /\ "none" \in FlusherState
    BY DEF PreparerState, PreparerPlace, FlusherState
  <2> QED BY <1>2, <2>1, <2>2, <2>3 DEF Types, ProcessTypes
<1>4. MainFits /\ NothingFreed /\ DirtyFits
  BY DEF MainFits, NothingFreed, DirtyFits
<1>5. FlushersFit
  BY <1>1 DEF FlushersFit, FlusherFits, Has, IsFlushing
<1>6. CountFits
  <2> SUFFICES ASSUME NEW d \in Databases
               PROVE  Number(d) = Cardinality(Users(d)) + Preparing(d)
    BY DEF CountFits
  <2>1. Users(d) = {}
    BY <1>2 DEF Users, Counted
  <2>2. Cardinality(Users(d)) = 0
    BY <2>1, UsersFinite
  <2> QED BY <1>1, <2>2 DEF Number, Has, Preparing
<1>7. BackendsFit
  BY <1>2 DEF BackendsFit, BackendFits
<1> QED BY <1>3, <1>4, <1>5, <1>6, <1>7 DEF Inv

LEMMA InitFits == Init => Inv
<1> SUFFICES ASSUME Init PROVE Inv
  OBVIOUS
<1>1. Fresh /\ ServerTypes /\ DiskTypes
  BY DEF Init, Fresh, ServerTypes, DiskTypes
<1> QED BY <1>1, FreshFits

LEMMA NewServerKeeps ==
  ASSUME Inv, Restart \/ Crash
  PROVE  Inv'
<1>1. ServerTypes' /\ DiskTypes'
  <2>1. CASE Restart
    BY <2>1 DEF Restart, NewServer, disk, Inv, Types, ServerTypes, DiskTypes
  <2>2. CASE Crash
    BY <2>2 DEF Crash, NewServer, Inv, Types, ServerTypes, DiskTypes
  <2> QED BY <2>1, <2>2
<1>2. Fresh'
  <2>1. NewServer
    BY DEF Restart, Crash
  <2>2. entries' = [d \in {} |-> {}]
    BY <2>1 DEF NewServer
  <2>3. \A d \in Databases : ~dirty'[d]
    <3>1. CASE Restart
      BY <3>1 DEF Restart, Stopped, disk, Inv, DirtyFits
    <3>2. CASE Crash
      BY <3>2 DEF Crash
    <3> QED BY <3>1, <3>2
  <2> QED BY <2>1, <2>2, <2>3 DEF NewServer, Fresh
<1>3. Fresh' /\ ServerTypes' /\ DiskTypes' => Inv'
  BY FreshFits, PTL
<1> QED BY <1>1, <1>2, <1>3

LEMMA ShutdownKeeps ==
  ASSUME Inv, Shutdown
  PROVE  Inv'
<1> USE DEF Inv, Types, ProcessTypes
<1>1. /\ UNCHANGED <<entries, free, file, dirty, own, main, preparer, backend>>
      /\ phase = "up" /\ phase' = "stopping" /\ spent' = [spent EXCEPT !.stops = @ + 1]
  BY DEF Shutdown, shmem, disk
<1>2. flusher' = flusher
  BY <1>1 DEF Shutdown, FlushersFit, FlusherFits
<1>3. Types'
  BY <1>1, <1>2 DEF ServerTypes, ShmemTypes, DiskTypes
<1>4. MainFits' /\ NothingFreed' /\ DirtyFits'
  BY <1>1, <1>2 DEF MainFits, NothingFreed, DirtyFits
<1>5. FlushersFit'
  BY <1>1, <1>2 DEF FlushersFit, FlusherFits, Has, IsFlushing
<1>6. CountFits'
  BY <1>1, <1>2 DEF CountFits, Number, Has, Users, Preparing
<1>7. BackendsFit'
  BY <1>1, <1>2 DEF BackendsFit, BackendFits
<1> QED BY <1>3, <1>4, <1>5, <1>6, <1>7

-----------------------------------------------------------------------------
(* The theorems.                                                           *)

LEMMA NextKeeps ==
  ASSUME Inv, Next, MaxRemovals = 0, MaxSignals = 0
  PROVE  Inv'
<1>1. spent.removals \in Nat /\ spent.signals \in Nat
  BY DEF Inv, Types, ServerTypes
<1>2. \A d \in Databases : ~Remove(d) /\ ~Terminate(d)
  BY <1>1 DEF Remove, Terminate
<1>3. CASE MainStep
  <2>1. CASE MainStarted
    BY <2>1, MainStartedKeeps
  <2>2. CASE \E d \in Databases : MainSkip(d)
    BY <2>2, MainLooks
  <2>3. CASE \E d \in Databases : MainLaunch(d)
    BY <2>3, MainLaunchKeeps
  <2>4. CASE MainBoot \/ MainVisited \/ MainScan \/ MainExit
    BY <2>4, MainLooks
  <2> QED BY <1>3, <2>1, <2>2, <2>3, <2>4 DEF MainStep
<1>4. CASE \E d \in Databases :
             MainCannotRegister(d) \/ FlusherStep(d) \/ FlusherFail(d) \/ Reap(d) \/ PreparerStep(d) \/ PreparerFail(d)
  <2> PICK d \in Databases :
             MainCannotRegister(d) \/ FlusherStep(d) \/ FlusherFail(d) \/ Reap(d) \/ PreparerStep(d) \/ PreparerFail(d)
    BY <1>4
  <2>1. CASE MainCannotRegister(d)
    BY <2>1, MainCannotRegisterKeeps
  <2>2. CASE FlusherStep(d)
    BY <2>2, FlusherMoves, FlusherReadyKeeps, FlusherExitKeeps DEF FlusherStep
  <2>3. CASE FlusherFail(d)
    BY <2>3, FlusherFailKeeps
  <2>4. CASE PreparerStep(d) \/ PreparerFail(d)
    BY <2>4, PreparerKeeps
  <2>5. CASE Reap(d)
    BY <2>5, MainTold
  <2> QED BY <2>1, <2>2, <2>3, <2>4, <2>5
<1>5. CASE \E b \in Backends : (\E d \in Databases : Connect(b, d)) \/ BackendStep(b) \/ Cancel(b) \/ Write(b) \/ Exit(b)
  <2> PICK b \in Backends : (\E d \in Databases : Connect(b, d)) \/ BackendStep(b) \/ Cancel(b) \/ Write(b) \/ Exit(b)
    BY <1>5
  <2>1. CASE \E d \in Databases : Connect(b, d)
    BY <2>1, BackendGoesOn
  <2>2. CASE Reject(b) \/ Pass(b) \/ Cancel(b) \/ OpenDatabase(b)
    <3>1. backend[b].db \in Databases
      BY <2>2 DEF Reject, Pass, Cancel, OpenDatabase, Inv, BackendsFit, BackendFits
    <3> QED BY <2>2, <3>1, BackendGoesOn
  <2>3. CASE BackendUse(b)
    BY <2>3, BackendUseKeeps
  <2>4. CASE Nudge(b)
    BY <2>4, MainTold
  <2>5. CASE Write(b)
    BY <2>5, BackendWrites
  <2>6. CASE Exit(b)
    BY <2>6, ExitKeeps
  <2> QED BY <2>1, <2>2, <2>3, <2>4, <2>5, <2>6 DEF BackendStep
<1>6. CASE Shutdown \/ Restart \/ Crash
  BY <1>6, ShutdownKeeps, NewServerKeeps
<1> QED BY <1>2, <1>3, <1>4, <1>5, <1>6 DEF Next

LEMMA StutterKeeps ==
  ASSUME Inv, UNCHANGED vars
  PROVE  Inv'
BY DEF vars, Inv, Types, ServerTypes, ShmemTypes, DiskTypes, ProcessTypes, MainFits, FlushersFit, FlusherFits,
       NothingFreed, CountFits, Number, Users, Preparing, Has, IsFlushing, BackendsFit, BackendFits, DirtyFits

\* The invariant: with no file removed and no flusher signalled.
THEOREM Invariant ==
  ASSUME MaxRemovals = 0, MaxSignals = 0
  PROVE  Spec => []Inv
<1>1. Init => Inv
  BY InitFits
<1>2. Inv /\ [Next]_vars => Inv'
  BY NextKeeps, StutterKeeps
<1> QED BY <1>1, <1>2, PTL DEF Spec

\* PGrnEnsureDatabase lets no backend run on a database without its flusher, not
\* even while the server stops, whatever fails or crashes.
THEOREM RunningAreFlushed ==
  ASSUME MaxRemovals = 0, MaxSignals = 0
  PROVE  Spec => []RunningIsFlushed
<1>1. Inv => RunningIsFlushed
  <2> SUFFICES ASSUME Inv, NEW b \in Backends, backend[b].pc = "running"
               PROVE  flusher[backend[b].db] \in {"flush", "drain"} /\ own[backend[b].db]
    BY DEF RunningIsFlushed
  <2>1. backend[b].db \in Databases /\ flusher[backend[b].db] \in {"flush", "drain"}
    BY DEF Inv, BackendsFit, BackendFits
  <2> QED BY <2>1 DEF Inv, FlushersFit, FlusherFits
<1> QED BY <1>1, Invariant, PTL

\* The last flush of a flusher leaves nothing behind when the server stops.
THEOREM AllFlushedInTheEnd ==
  ASSUME MaxRemovals = 0, MaxSignals = 0
  PROVE  Spec => []NothingLeftUnflushed
<1>1. Inv => NothingLeftUnflushed
  BY DEF Inv, DirtyFits, NothingLeftUnflushed, Stopped
<1> QED BY <1>1, Invariant, PTL

\* No backend has a database open while its indexes are prepared.
THEOREM NobodyWhilePreparing ==
  ASSUME MaxRemovals = 0, MaxSignals = 0
  PROVE  Spec => []NoneWhilePreparing
<1>1. Inv => NoneWhilePreparing
  <2> SUFFICES ASSUME Inv, NEW b \in Backends, backend[b].pc \in {"open", "running"}
               PROVE  preparer[backend[b].db].pc \notin {"preparing", "using"}
    BY DEF NoneWhilePreparing
  <2>1. backend[b].db \in Databases /\ flusher[backend[b].db] # "prepare"
    BY DEF Inv, BackendsFit, BackendFits
  <2> QED BY <2>1 DEF Inv, FlushersFit, FlusherFits
<1> QED BY <1>1, Invariant, PTL

\* nUsingProcesses is the number of processes that use the database, although
\* the counter is kept by hand, without a lock, and survives who it counts.
THEOREM UsersAreCounted ==
  ASSUME MaxRemovals = 0, MaxSignals = 0
  PROVE  Spec => []CountsUsers
<1>1. Inv => CountsUsers
  <2> SUFFICES ASSUME Inv, NEW d \in DOMAIN entries, phase = "up"
               PROVE  entries[d].nUsing = Cardinality(Users(d)) + Preparing(d)
    BY DEF CountsUsers, Users, Preparing
  <2>1. d \in Databases
    BY DEF Inv, Types, ShmemTypes
  <2> QED BY <2>1 DEF Inv, CountFits, Number, Has
<1> QED BY <1>1, Invariant, PTL

-----------------------------------------------------------------------------
(* The indexes of a database that was made anew.                           *)

\* Nothing else goes wrong before the REINDEX has committed: the flusher knows of
\* it only in its own memory, and does not look at how the REINDEX ended.
OneCrash ==
  /\ MaxRemovals = 0 /\ MaxSignals = 0 /\ MaxStops = 0 /\ MaxFailures = 0 /\ MaxCrashes <= 1
  /\ ~ParallelReindex

\* A database that has lost its indexes is in the hands of the flusher, which
\* waits for the REINDEX.
LostFits(d) ==
  /\ spent.crashes = 0 => ~lost[d] /\ file[d] # "broken"
  /\ lost[d] /\ ~recovery => /\ flusher[d] = "prepare"
                             /\ preparer[d].pc \in {"registered", "preparing", "using"} /\ preparer[d].reindex
LostInv ==
  /\ lost \in [Databases -> BOOLEAN]
  /\ phase = "up"
  /\ \A d \in Databases : LostFits(d)

LEMMA LostKept ==
  ASSUME Inv, LostInv, Next, OneCrash
  PROVE  LostInv'
<1> USE DEF Inv, Types, ServerTypes, DiskTypes, ProcessTypes
<1>1. /\ \A d \in Databases : ~MainCannotRegister(d) /\ ~FlusherFail(d) /\ ~PreparerFail(d) /\ ~Remove(d) /\ ~Terminate(d)
      /\ \A b \in Backends : ~Cancel(b)
      /\ ~Shutdown /\ ~Restart
  BY DEF OneCrash, LostInv, MainCannotRegister, FlusherFail, PreparerFail, Remove, Terminate, Cancel, Shutdown, Restart, Stopped
<1>2. CASE Crash
  <2>1. spent.crashes = 0 /\ spent'.crashes = 1 /\ phase' = "up" /\ lost' = lost
    BY <1>2, CrashSaferAssumption DEF Crash, NewServer, OneCrash
  <2> QED BY <2>1 DEF LostInv, LostFits
<1>3. ASSUME UNCHANGED <<phase, recovery, spent, lost>>,
             \A d \in Databases : /\ file'[d] = "broken" => file[d] = "broken"
                                  /\ flusher[d] = "prepare" /\ preparer[d].pc \in {"registered", "preparing", "using"} =>
                                       /\ flusher'[d] = "prepare" /\ preparer'[d].reindex = preparer[d].reindex
                                       /\ preparer'[d].pc \in {"registered", "preparing", "using"}
      PROVE  LostInv'
  BY <1>3 DEF LostInv, LostFits
<1>4. CASE MainStep
  <2>1. UNCHANGED <<phase, recovery, spent, lost, file, preparer>>
    BY <1>4 DEF MainStep, MainBoot, MainStarted, MainVisited, MainScan, MainExit, MainSkip, MainLaunch, server, disk
  <2>2. \A d \in Databases : flusher[d] = "prepare" => flusher'[d] = "prepare"
    <3>1. CASE \E d \in Databases : MainLaunch(d)
      BY <3>1 DEF MainLaunch, Visiting, Wanted, MainFits, FlushersFit, FlusherFits
    <3>2. CASE ~\E d \in Databases : MainLaunch(d)
      BY <1>4, <3>2 DEF MainStep, MainBoot, MainStarted, MainVisited, MainScan, MainExit, MainSkip
    <3> QED BY <3>1, <3>2
  <2> QED BY <1>3, <2>1, <2>2
<1>5. CASE \E d \in Databases : FlusherStep(d)
  <2> PICK d \in Databases : FlusherStep(d)
    BY <1>5
  <2>1. CASE FlusherOpen(d)
    <3>1. /\ UNCHANGED <<phase, recovery, spent>> /\ flusher[d] = "start"
          /\ lost' = [lost EXCEPT ![d] = @ \/ file[d] = "broken"] /\ file' = [file EXCEPT ![d] = "ok"]
          /\ \A c \in Databases : c # d => flusher'[c] = flusher[c] /\ preparer'[c] = preparer[c]
      BY <2>1 DEF FlusherOpen, server
    <3>2. ASSUME file[d] = "broken"
          PROVE  flusher'[d] = "prepare" /\ preparer'[d].pc = "registered" /\ preparer'[d].reindex
      <4>1. (file[d] = "broken") = TRUE
        BY <3>2
      <4>2. flusher'[d] = "prepare" /\ preparer'[d] = [pc |-> "registered", reindex |-> file[d] = "broken"]
        BY <2>1, <3>2 DEF FlusherOpen
      <4>3. preparer'[d] = [pc |-> "registered", reindex |-> TRUE]
        BY <4>1, <4>2
      <4> QED BY <4>2, <4>3
    <3>3. lost[d] => recovery
      BY <3>1 DEF LostInv, LostFits
    <3> QED BY <3>1, <3>2, <3>3 DEF LostInv, LostFits
  <2>2. CASE ~FlusherOpen(d)
    <3>1. UNCHANGED <<phase, recovery, spent, lost, file, preparer>>
      BY <2>2 DEF FlusherStep, FlusherPrepared, FlusherReady, FlusherFlush, FlusherLeaves, FlusherDrained, FlusherExit,
                  Ended, server, disk
    <3>2. \A c \in Databases : flusher[c] = "prepare" /\ preparer[c].pc \in {"registered", "preparing", "using"} =>
                                 flusher'[c] = "prepare"
      BY <2>2 DEF FlusherStep, FlusherPrepared, FlusherReady, FlusherFlush, FlusherLeaves, FlusherDrained, FlusherExit, Ended
    <3> QED BY <1>3, <3>1, <3>2
  <2> QED BY <2>1, <2>2
<1>6. CASE \E d \in Databases : PreparerStep(d)
  <2> PICK d \in Databases : PreparerStep(d)
    BY <1>6
  <2>1. CASE PreparerStart(d) \/ PreparerUse(d)
    <3>1. /\ UNCHANGED <<phase, recovery, spent, lost, flusher>>
          /\ \A c \in Databases : file'[c] = "broken" => file[c] = "broken"
      BY <2>1 DEF PreparerStart, PreparerUse, server, disk, Opened
    <3>2. PICK pc \in {"preparing", "using"} : preparer' = [preparer EXCEPT ![d].pc = pc]
      BY <2>1 DEF PreparerStart, PreparerUse, Prepares
    <3>3. \A c \in Databases : preparer'[c].reindex = preparer[c].reindex /\ (preparer'[c].pc = preparer[c].pc \/ preparer'[c].pc = pc)
      BY <3>2 DEF PreparerState
    <3> QED BY <1>3, <3>1, <3>3
  <2>2. CASE PreparerFinish(d)
    <3>1. /\ UNCHANGED <<phase, recovery, spent, file, flusher>>
          /\ lost' = [lost EXCEPT ![d] = @ /\ ~preparer[d].reindex]
          /\ \A c \in Databases : c # d => preparer'[c] = preparer[c]
      BY <2>2 DEF PreparerFinish, server, Prepares
    <3>2. lost'[d] => recovery
      BY <3>1 DEF LostInv, LostFits
    <3> QED BY <3>1, <3>2 DEF LostInv, LostFits
  <2>3. CASE PreparerReindexFails(d) \/ PreparerExit(d) \/ PreparerForgotten(d)
    <3>1. /\ UNCHANGED <<phase, recovery, spent, lost, file, flusher>>
          /\ \A c \in Databases : c # d => preparer'[c] = preparer[c]
      BY <2>3 DEF PreparerReindexFails, PreparerExit, PreparerForgotten, server, disk, Prepares
    <3>2. lost[d] => recovery
      BY <2>3 DEF PreparerReindexFails, PreparerExit, PreparerForgotten, OneCrash, LostInv, LostFits
    <3> QED BY <3>1, <3>2 DEF LostInv, LostFits
  <2> QED BY <2>1, <2>2, <2>3 DEF PreparerStep
<1>7. CASE \E b \in Backends : (\E d \in Databases : Connect(b, d)) \/ BackendStep(b) \/ Write(b) \/ Exit(b)
  <2>1. /\ UNCHANGED <<phase, recovery, lost, flusher, preparer>> /\ spent'.crashes = spent.crashes
        /\ \A d \in Databases : file'[d] = "broken" => file[d] = "broken"
    BY <1>7 DEF Connect, BackendStep, BackendUse, Reject, Pass, Nudge, OpenDatabase, Opened, Write, Exit, server, disk
  <2> QED BY <2>1 DEF LostInv, LostFits
<1>8. CASE \E d \in Databases : Reap(d)
  <2>1. UNCHANGED <<phase, recovery, spent, lost, file, flusher, preparer>>
    BY <1>8 DEF Reap, server, disk
  <2> QED BY <1>3, <2>1
<1> QED BY <1>1, <1>2, <1>4, <1>5, <1>6, <1>7, <1>8 DEF Next

\* After a crash that has broken the database, nobody works with its indexes
\* before the REINDEX has filled them.
THEOREM FilledBeforeUse ==
  ASSUME OneCrash
  PROVE  Spec => []IndexesFilled
<1>1. MaxRemovals = 0 /\ MaxSignals = 0
  BY DEF OneCrash
<1>2. Spec => []Inv
  BY <1>1, Invariant
<1>3. Init => LostInv
  BY DEF Init, LostInv, LostFits
<1>4. Inv /\ LostInv /\ [Next]_vars => LostInv'
  <2>1. ASSUME LostInv, UNCHANGED vars PROVE LostInv'
    BY <2>1 DEF vars, LostInv, LostFits
  <2> QED BY <2>1, LostKept
<1>5. Inv /\ LostInv => IndexesFilled
  BY DEF Inv, BackendsFit, BackendFits, LostInv, LostFits, IndexesFilled
<1> QED BY <1>2, <1>3, <1>4, <1>5, PTL DEF Spec
===============================================================================
