--------------------- MODULE PGrnStandbyMaintainerProofs ---------------------
(***************************************************************************)
(* Theorems about PGrnStandbyMaintainer, for every set of databases and    *)
(* indexes, every limit and any number of refusals and deaths.             *)
(*                                                                         *)
(* nRunningWorkers is counted by hand.  The invariant (Counted) relates it *)
(* to the handles, and the handles to the appliers that are alive.         *)
(***************************************************************************)
EXTENDS PGrnStandbyMaintainer, FiniteSetTheorems, TLAPS

\* There is a process only while the main worker waits for it.  An applier that
\* is alive has a handle, an index the loop has not come to has none, and
\* nRunningWorkers is the number of handles, but for the one whose start is
\* waited for.
Counted ==
  /\ main.pc # "wait" => maint.pc = "none"
  /\ Live \subseteq maint.held
  /\ maint.todo \cap maint.held = {}
  /\ maint.pc \in {"none", "start", "inline", "vacuum"} => maint.held = {}
  /\ maint.pc = "starting" =>
       /\ maint.at \in maint.held
       /\ maint.running + 1 = Cardinality(maint.held)
       /\ maint.running < maint.max
  /\ maint.pc # "starting" =>
       /\ maint.running = Cardinality(maint.held)
       /\ maint.running <= maint.max

IInv == TypeOK /\ Counted

-----------------------------------------------------------------------------
\* The process that does not exist is a process without handles.
LEMMA NoProcessFacts ==
  /\ NoProcess \in Process
  /\ NoProcess.pc = "none" /\ NoProcess.held = {} /\ NoProcess.todo = {}
  /\ NoProcess.running = 0 /\ NoProcess.max = 0
BY MaintainerAssumption DEF NoProcess, Process, AnyIndex

\* Sets of indexes are finite, and what is taken from them is counted.
LEMMA Handles ==
  ASSUME NEW S \in SUBSET Indexes
  PROVE  /\ IsFiniteSet(S)
         /\ Cardinality(S) \in Nat
         /\ Cardinality(S) = 0 <=> S = {}
         /\ \A x \in S : Cardinality(S \ {x}) = Cardinality(S) - 1
         /\ \A x \in Indexes \ S : Cardinality(S \cup {x}) = Cardinality(S) + 1
         /\ \A T \in SUBSET S : /\ Cardinality(T) \in Nat
                                /\ Cardinality(T) <= Cardinality(S)
                                /\ Cardinality(S \ T)
                                     = Cardinality(S) - Cardinality(T)
<1>1. IsFiniteSet(S)
  BY FS_Subset, MaintainerAssumption
<1>2. Cardinality(S) \in Nat
  BY <1>1, FS_CardinalityType
<1>3. Cardinality(S) = 0 <=> S = {}
  BY <1>1, FS_EmptySet
<1>4. \A x \in S : Cardinality(S \ {x}) = Cardinality(S) - 1
  BY <1>1, FS_RemoveElement
<1>5. \A x \in Indexes \ S : Cardinality(S \cup {x}) = Cardinality(S) + 1
  BY <1>1, FS_AddElement
<1>6. ASSUME NEW T \in SUBSET S
      PROVE  /\ Cardinality(T) \in Nat
             /\ Cardinality(T) <= Cardinality(S)
             /\ Cardinality(S \ T) = Cardinality(S) - Cardinality(T)
  <2>1. IsFiniteSet(T) /\ Cardinality(T) <= Cardinality(S)
    BY <1>1, FS_Subset
  <2>2. S \cap T = T
    OBVIOUS
  <2> QED
    BY <1>1, <2>1, <2>2, FS_CardinalityType, FS_Difference
<1> QED
  BY <1>1, <1>2, <1>3, <1>4, <1>5, <1>6

\* When the process is gone nothing is counted and nobody is alive.
LEMMA GoneFacts ==
  ASSUME TypeOK, Gone,
         UNCHANGED <<main, sigterm>>, spent' \in [refusals : Nat, deaths : Nat]
  PROVE  IInv'
<1>1. maint' = NoProcess /\ applier' = [x \in Indexes |-> "none"]
  BY DEF Gone
<1>2. Live' = {}
  BY <1>1 DEF Live
<1>3. orphans' \in [Indexes -> Nat]
  BY DEF Gone, TypeOK
<1>4. TypeOK'
  BY <1>1, <1>3, NoProcessFacts DEF TypeOK
<1>5. Counted'
  BY <1>1, <1>2, NoProcessFacts, FS_EmptySet DEF Counted
<1> QED
  BY <1>4, <1>5 DEF IInv

-----------------------------------------------------------------------------
\* In the initial state there is no process.
LEMMA InitCounted == Init => IInv
<1> SUFFICES ASSUME Init PROVE IInv
  OBVIOUS
<1>1. TypeOK
  BY NoProcessFacts DEF Init, TypeOK
<1>2. Live = {}
  BY DEF Init, Live
<1>3. Counted
  BY <1>2, NoProcessFacts, FS_EmptySet DEF Init, Counted
<1> QED
  BY <1>1, <1>3 DEF IInv

\* The steps of the main worker, and those of nobody.
LEMMA MainKeeps ==
  ASSUME IInv,
         \/ MainStep \/ Sigterm \/ UNCHANGED vars
         \/ \E d \in Databases : MainCannotRegister(d)
  PROVE  IInv'
<1> USE DEF IInv
<1>1. CASE MainWake \/ MainWaited \/ MainVisited \/ Sigterm \/ UNCHANGED vars
           \/ \E d \in Databases : MainCannotRegister(d)
  <2>1. UNCHANGED <<maint, applier, orphans>>
    BY <1>1 DEF MainWake, MainWaited, MainVisited, Sigterm, vars,
                MainCannotRegister
  <2>2. main' \in [pc : {"sleep", "scan", "wait", "exited"},
                   todo : SUBSET Databases]
        /\ sigterm' \in BOOLEAN
    <3> DEFINE Places == [pc : {"sleep", "scan", "wait", "exited"},
                          todo : SUBSET Databases]
    <3>1. main \in Places /\ sigterm \in BOOLEAN
      BY DEF TypeOK
    <3>2. CASE MainWake
      BY <3>1, <3>2 DEF MainWake
    <3>3. CASE MainWaited
      BY <3>1, <3>3 DEF MainWaited
    <3>4. CASE MainVisited
      BY <3>1, <3>4 DEF MainVisited
    <3>5. CASE Sigterm \/ UNCHANGED vars
      BY <3>1, <3>5 DEF Sigterm, vars
    <3>6. CASE \E d \in Databases : MainCannotRegister(d)
      BY <3>1, <3>6 DEF MainCannotRegister
    <3> QED
      BY <1>1, <3>2, <3>3, <3>4, <3>5, <3>6
  <2>3. spent' \in [refusals : Nat, deaths : Nat]
    BY <1>1 DEF TypeOK, MainWake, MainWaited, MainVisited, Sigterm, vars,
                MainCannotRegister, Refused
  <2>4. main'.pc # "wait" => maint.pc = "none"
    BY <1>1 DEF TypeOK, Counted, MainWake, MainWaited, MainVisited, Sigterm,
                vars, MainCannotRegister
  <2> QED
    BY <2>1, <2>2, <2>3, <2>4 DEF TypeOK, Counted, Live
<1>2. ASSUME NEW d \in Databases, MainLaunch(d)
      PROVE  IInv'
  <2>1. maint' = [NoProcess EXCEPT !.pc = "start", !.db = d]
    BY <1>2 DEF MainLaunch
  <2>2. /\ maint' \in Process /\ maint'.pc = "start" /\ maint'.held = {}
        /\ maint'.todo = {} /\ maint'.running = 0 /\ maint'.max = 0
    BY <2>1, NoProcessFacts DEF Process
  <2>3. TypeOK'
    BY <1>2, <2>2 DEF MainLaunch, TypeOK
  <2>4. main'.pc = "wait"
    BY <1>2 DEF MainLaunch
  <2>5. Live' = Live /\ Live = {}
    BY <1>2 DEF MainLaunch, Counted, Live
  <2>6. Counted'
    BY <2>2, <2>4, <2>5, FS_EmptySet DEF Counted
  <2> QED
    BY <2>3, <2>6
<1> QED
  BY <1>1, <1>2 DEF MainStep

-----------------------------------------------------------------------------
\* The steps of the process that maintains a database.  What each leaves of
\* the handles and of the appliers decides whether Counted survives.

LEMMA ListKeeps ==
  ASSUME IInv, NEW l \in Limits, List(l)
  PROVE  IInv'
<1> USE DEF IInv
<1>0. main' = main /\ main.pc = "wait"
  BY DEF List, Counted
<1>1. maint \in Process /\ l \in Nat
  BY MaintainerAssumption DEF TypeOK
<1>2. IndexesOf(maint.db) \in SUBSET Indexes
  BY DEF IndexesOf
<1>3. /\ maint' \in Process /\ maint'.pc = "next" /\ maint'.held = maint.held
      /\ maint'.running = maint.running /\ maint'.max = l
  BY <1>1, <1>2 DEF List, Process
<1>4. maint.held = {} /\ maint.running = 0
  BY FS_EmptySet DEF List, Counted
<1>5. TypeOK'
  BY <1>3 DEF List, TypeOK
<1>6. Live' = Live
  BY DEF List, Live
<1>7. Counted'
  BY <1>0, <1>1, <1>3, <1>4, <1>6, FS_EmptySet DEF Counted
<1> QED
  BY <1>5, <1>7

LEMMA InlineKeeps ==
  ASSUME IInv, InlineApplied \/ \E x \in Indexes : ApplyInline(x)
  PROVE  IInv'
<1> USE DEF IInv
<1>0. main' = main /\ main.pc = "wait"
  BY DEF InlineApplied, ApplyInline, Counted
<1>1. maint \in Process
  BY DEF TypeOK
<1>2. ASSUME NEW x \in Indexes, ApplyInline(x)
      PROVE  IInv'
  <2>1. /\ maint' \in Process /\ maint'.pc = "inline"
        /\ maint'.held = maint.held /\ maint'.running = maint.running
        /\ maint'.max = 0 /\ maint.max = 0 /\ maint.pc = "next"
    BY <1>1, <1>2 DEF ApplyInline, Process
  <2>2. maint.running = Cardinality(maint.held) /\ maint.running <= 0
    BY <2>1 DEF Counted
  <2>3. maint.held \in SUBSET Indexes
    BY <1>1 DEF Process
  <2>4. Cardinality(maint.held) = 0
    BY <2>2, <2>3, Handles
  <2>5. maint.held = {}
    BY <2>3, <2>4, Handles
  <2>6. TypeOK'
    BY <1>2, <2>1 DEF ApplyInline, TypeOK
  <2>7. Live' = Live
    BY <1>2 DEF ApplyInline, Live
  <2> QED
    BY <1>0, <2>1, <2>2, <2>4, <2>5, <2>6, <2>7 DEF Counted
<1>3. ASSUME InlineApplied, maint.at \in Broken
      PROVE  IInv'
  <2>1. /\ Gone /\ UNCHANGED <<main, sigterm>>
        /\ spent' \in [refusals : Nat, deaths : Nat]
    BY <1>3 DEF InlineApplied, TypeOK
  <2> QED
    BY <2>1, GoneFacts
<1>4. ASSUME InlineApplied, maint.at \notin Broken
      PROVE  IInv'
  <2>1. /\ maint' \in Process /\ maint'.pc = "next"
        /\ maint'.held = maint.held /\ maint'.running = maint.running
        /\ maint'.max = maint.max /\ maint.pc = "inline"
    BY <1>1, <1>4 DEF InlineApplied, Process
  <2>2. TypeOK'
    BY <1>4, <2>1 DEF InlineApplied, TypeOK
  <2>3. Live' = Live
    BY <1>4 DEF InlineApplied, Live
  <2> QED
    BY <1>0, <2>1, <2>2, <2>3 DEF Counted
<1> QED
  BY <1>2, <1>3, <1>4

LEMMA SweepKeeps ==
  ASSUME IInv, Sweep
  PROVE  IInv'
<1> USE DEF IInv
<1>0. main' = main /\ main.pc = "wait"
  BY DEF Sweep, Counted
<1> DEFINE T == StoppedOf(maint.held)
<1>1. /\ maint \in Process /\ maint.held \in SUBSET Indexes
      /\ maint.running \in Nat /\ maint.max \in Nat
  BY DEF TypeOK, Process
<1>2. T \in SUBSET maint.held
  BY DEF StoppedOf
<1>3. maint.pc = "next" /\ maint.running = Cardinality(maint.held)
  BY DEF Sweep, Counted
<1>4. /\ Cardinality(T) \in Nat
      /\ Cardinality(T) <= Cardinality(maint.held)
      /\ Cardinality(maint.held \ T) = Cardinality(maint.held) - Cardinality(T)
  BY <1>1, <1>2, Handles
<1>5. maint.running - Cardinality(T) \in Nat
  BY <1>1, <1>3, <1>4
<1>6. maint' = [maint EXCEPT !.held = @ \ T,
                             !.running = @ - Cardinality(T)]
  BY DEF Sweep
<1>7. /\ maint' \in Process /\ maint'.pc = "next"
      /\ maint'.held = maint.held \ T /\ maint'.todo = maint.todo
      /\ maint'.running = maint.running - Cardinality(T)
      /\ maint'.max = maint.max
  <2> HIDE DEF T
  <2> QED
    BY <1>1, <1>3, <1>5, <1>6 DEF Process
<1>8. Live' = Live /\ Live \cap T = {}
  BY DEF Sweep, Live, StoppedOf
<1>9. TypeOK'
  BY <1>7 DEF Sweep, TypeOK
<1>10. Counted'
  <2>1. Live \subseteq maint.held \ T /\ maint.todo \cap maint.held = {}
    BY <1>8 DEF Counted
  <2>2. maint.running <= maint.max
    BY <1>3 DEF Counted
  <2> HIDE DEF T
  <2> QED
    BY <1>0, <1>1, <1>3, <1>4, <1>7, <1>8, <2>1, <2>2 DEF Counted
<1> QED
  BY <1>9, <1>10

LEMMA RegisterKeeps ==
  ASSUME IInv, NEW x \in Indexes, RegisterApplier(x)
  PROVE  IInv'
<1> USE DEF IInv
<1>0. main' = main /\ main.pc = "wait"
  BY DEF RegisterApplier, Counted
<1>1. /\ maint \in Process /\ maint.held \in SUBSET Indexes
      /\ maint.running \in Nat /\ maint.max \in Nat
  BY DEF TypeOK, Process
<1>2. /\ maint' \in Process /\ maint'.pc = "starting" /\ maint'.at = x
      /\ maint'.held = maint.held \cup {x} /\ maint'.todo = maint.todo \ {x}
      /\ maint'.running = maint.running /\ maint'.max = maint.max
  BY <1>1 DEF RegisterApplier, Process
<1>3. x \in Indexes \ maint.held
  BY DEF RegisterApplier, Counted
<1>4. Cardinality(maint.held \cup {x}) = maint.running + 1
  BY <1>1, <1>3, Handles DEF RegisterApplier, Counted
<1>5. TypeOK'
  BY <1>2 DEF RegisterApplier, TypeOK
<1>6. Live' \subseteq Live \cup {x}
  BY DEF RegisterApplier, Live, TypeOK
<1>7. maint.running < maint.max
  BY DEF RegisterApplier, HasRoom
<1> QED
  BY <1>0, <1>2, <1>4, <1>5, <1>6, <1>7 DEF Counted

LEMMA CannotRegisterKeeps ==
  ASSUME IInv, NEW x \in Indexes, CannotRegister(x)
  PROVE  IInv'
<1> USE DEF IInv
<1>0. main' = main /\ main.pc = "wait"
  BY DEF CannotRegister, Counted
<1>1. maint \in Process /\ spent \in [refusals : Nat, deaths : Nat]
  BY DEF TypeOK
<1>2. /\ maint' \in Process /\ maint'.pc = maint.pc
      /\ maint'.held = maint.held /\ maint'.todo \subseteq maint.todo
      /\ maint'.running = maint.running /\ maint'.max = maint.max
      /\ maint.pc = "next"
  BY <1>1 DEF CannotRegister, Process
<1>3. spent' \in [refusals : Nat, deaths : Nat]
  BY <1>1 DEF CannotRegister, Refused
<1>4. TypeOK'
  BY <1>2, <1>3 DEF CannotRegister, TypeOK
<1>5. Live' = Live
  BY DEF CannotRegister, Live
<1> QED
  BY <1>0, <1>2, <1>4, <1>5 DEF Counted

LEMMA StartedKeeps ==
  ASSUME IInv, Started
  PROVE  IInv'
<1> USE DEF IInv
<1>0. main' = main /\ main.pc = "wait"
  BY DEF Started, Counted
<1>1. /\ maint \in Process /\ maint.held \in SUBSET Indexes
      /\ maint.running \in Nat /\ maint.max \in Nat
  BY DEF TypeOK, Process
<1>2. /\ maint.at \in maint.held /\ maint.running < maint.max
      /\ maint.running + 1 = Cardinality(maint.held)
  BY DEF Started, Counted
<1>3. Live' = Live
  BY DEF Started, Live
<1>4. CASE applier[maint.at] = "running"
  <2> maint' = [maint EXCEPT !.pc = "next", !.running = @ + 1]
    BY <1>4 DEF Started
  <2>1. /\ maint'.pc = "next"
        /\ maint'.held = maint.held /\ maint'.todo = maint.todo
        /\ maint'.running = maint.running + 1 /\ maint'.max = maint.max
    BY <1>1 DEF Process
  <2>2. maint' \in Process
    <3> DEFINE r == maint.running + 1
    <3>1. r \in Nat
      BY <1>1
    <3>2. maint' = [maint EXCEPT !.pc = "next", !.running = r]
      BY <1>4 DEF Started
    <3> HIDE DEF r
    <3> QED
      BY <1>1, <3>1, <3>2 DEF Process
  <2>3. TypeOK'
    BY <2>2 DEF Started, TypeOK
  <2> QED
    BY <1>0, <1>1, <1>2, <1>3, <2>1, <2>3 DEF Counted
<1>5. CASE applier[maint.at] # "running"
  <2>1. /\ maint' \in Process /\ maint'.pc = "next"
        /\ maint'.held = maint.held \ {maint.at} /\ maint'.todo = maint.todo
        /\ maint'.running = maint.running /\ maint'.max = maint.max
    BY <1>1, <1>5 DEF Started, Process
  <2>2. Cardinality(maint.held \ {maint.at}) = maint.running
    BY <1>1, <1>2, Handles
  <2>3. maint.at \notin Live
    BY <1>5 DEF Started, Live
  <2>4. TypeOK'
    BY <2>1 DEF Started, TypeOK
  <2> QED
    BY <1>0, <1>1, <1>2, <1>3, <2>1, <2>2, <2>3, <2>4 DEF Counted
<1> QED
  BY <1>4, <1>5

LEMMA JoinKeeps ==
  ASSUME IInv, NEW x \in Indexes, Join(x)
  PROVE  IInv'
<1> USE DEF IInv
<1>0. main' = main /\ main.pc = "wait"
  BY DEF Join, Counted
<1>1. /\ maint \in Process /\ maint.held \in SUBSET Indexes
      /\ maint.running \in Nat /\ maint.max \in Nat
  BY DEF TypeOK, Process
<1>2. /\ x \in maint.held /\ maint.pc = "next"
      /\ maint.running = Cardinality(maint.held)
      /\ maint.running <= maint.max
  BY DEF Join, Counted
<1>3. /\ Cardinality(maint.held \ {x}) = maint.running - 1
      /\ Cardinality(maint.held \ {x}) \in Nat
  BY <1>1, <1>2, Handles
<1>4. /\ maint' \in Process /\ maint'.pc = "next"
      /\ maint'.held = maint.held \ {x} /\ maint'.todo = maint.todo
      /\ maint'.running = maint.running - 1 /\ maint'.max = maint.max
  BY <1>1, <1>3 DEF Join, Process
<1>5. Live' = Live /\ x \notin Live
  BY DEF Join, Live
<1>6. TypeOK'
  BY <1>4 DEF Join, TypeOK
<1> QED
  BY <1>0, <1>1, <1>2, <1>3, <1>4, <1>5, <1>6 DEF Counted

LEMMA VacuumKeeps ==
  ASSUME IInv, Vacuum
  PROVE  IInv'
<1> USE DEF IInv
<1>0. main' = main /\ main.pc = "wait"
  BY DEF Vacuum, Counted
<1>1. maint \in Process
  BY DEF TypeOK
<1>2. maint' \in Process
  BY <1>1 DEF Vacuum, Process
<1>3. TypeOK'
  BY <1>2 DEF Vacuum, TypeOK
<1>4. /\ maint'.pc = "vacuum" /\ maint'.held = maint.held
      /\ maint'.todo = maint.todo /\ maint.pc = "next" /\ maint.held = {}
      /\ maint'.running = maint.running /\ maint'.max = maint.max
  BY <1>1 DEF Vacuum, Process
<1>5. Live' = Live
  BY DEF Vacuum, Live
<1> QED
  BY <1>0, <1>3, <1>4, <1>5 DEF Counted

LEMMA GoneKeeps ==
  ASSUME IInv, Exit \/ Terminated
  PROVE  IInv'
<1>1. Gone /\ UNCHANGED <<main, sigterm>>
  BY DEF Exit, Terminated
<1>2. spent' \in [refusals : Nat, deaths : Nat]
  BY DEF Exit, Terminated, IInv, TypeOK
<1> QED
  BY <1>1, <1>2, GoneFacts DEF IInv

\* An applier is alive from its registration on: its start adds nobody.
LEMMA ApplierKeeps ==
  ASSUME IInv, NEW x \in Indexes, ApplierStep(x)
  PROVE  IInv'
<1> USE DEF IInv
<1>1. UNCHANGED <<main, sigterm, maint, spent>>
  BY DEF ApplierStep, ApplierStart, ApplierStop, OrphanStop
<1>2. applier' \in [Indexes -> {"none", "registered", "running", "stopped"}]
  BY DEF ApplierStep, ApplierStart, ApplierStop, OrphanStop, TypeOK
<1>3. orphans' \in [Indexes -> Nat]
  BY DEF ApplierStep, ApplierStart, ApplierStop, OrphanStop, TypeOK
<1>4. Live' \subseteq Live
  BY DEF ApplierStep, ApplierStart, ApplierStop, OrphanStop, TypeOK, Live
<1> QED
  BY <1>1, <1>2, <1>3, <1>4 DEF TypeOK, Counted

LEMMA StepCounted == IInv /\ [Next]_vars => IInv'
<1> SUFFICES ASSUME IInv, Next \/ UNCHANGED vars PROVE IInv'
  OBVIOUS
<1>1. CASE MaintainStep
  BY <1>1, ListKeeps, InlineKeeps, SweepKeeps, RegisterKeeps, StartedKeeps,
     JoinKeeps, VacuumKeeps, GoneKeeps DEF MaintainStep
<1>2. CASE \E x \in Indexes : CannotRegister(x) \/ ApplierStep(x)
  BY <1>2, CannotRegisterKeeps, ApplierKeeps
<1>3. CASE Terminated
  BY <1>3, GoneKeeps
<1> QED
  BY <1>1, <1>2, <1>3, MainKeeps DEF Next

\* The invariant of the theorems.
THEOREM CountedInvariant == Spec => []IInv
BY InitCounted, StepCounted, PTL DEF Spec

-----------------------------------------------------------------------------
\* Whatever the databases, the indexes, the limits, refusals and deaths: the
\* variables keep their types, nRunningWorkers (299-343) never is negative.
THEOREM MaintainerTypes == Spec => []TypeOK
<1>1. IInv => TypeOK
  BY DEF IInv
<1> QED
  BY <1>1, CountedInvariant, PTL

\* A process that maintains a database never has more WAL appliers than the
\* limit it has read (287-343), those included that have yet to be started.
THEOREM AppliersBounded == Spec => []NeverTooMany
<1>1. IInv => NeverTooMany
  <2> SUFFICES ASSUME IInv PROVE NeverTooMany
    OBVIOUS
  <2>1. /\ maint.held \in SUBSET Indexes /\ maint.max \in Nat
        /\ maint.running \in Nat
    BY DEF IInv, TypeOK, Process
  <2>2. Live \in SUBSET maint.held
    BY DEF IInv, Counted
  <2>3. Cardinality(Live) \in Nat /\ Cardinality(Live) <= Cardinality(maint.held)
    BY <2>1, <2>2, Handles
  <2>4. Cardinality(maint.held) \in Nat /\ Cardinality(maint.held) <= maint.max
    BY <2>1, Handles DEF IInv, Counted
  <2> QED
    BY <2>1, <2>3, <2>4 DEF NeverTooMany
<1> QED
  BY <1>1, CountedInvariant, PTL

\* None of the appliers a process has started is at work, or about to start,
\* while it vacuums (341-375).
THEOREM VacuumIsLast == Spec => []VacuumAfterAppliers
<1>1. IInv => VacuumAfterAppliers
  BY DEF IInv, Counted, VacuumAfterAppliers
<1> QED
  BY <1>1, CountedInvariant, PTL
=============================================================================
