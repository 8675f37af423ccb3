------------------------ MODULE PGrnStandbyMaintainer ------------------------
(***************************************************************************)
(* pgroonga_standby_maintainer: a main worker that starts, database after  *)
(* database, a process that maintains it.  That process has the pending    *)
(* WAL of every PGroonga index of its database applied, by itself or by    *)
(* several appliers at a time, and vacuums when they are done.             *)
(*                                                                         *)
(* An applier is a background worker: the postmaster starts it some time   *)
(* after it was registered, and it goes on when the process that           *)
(* registered it dies.  What it does to its index is PGrnWALApply's.       *)
(***************************************************************************)
EXTENDS Integers, FiniteSets

CONSTANTS
  Databases,   \* the databases of the cluster, the templates left out
  Indexes,     \* their PGroonga indexes
  DatabaseOf,  \* DatabaseOf[x]: the database of index x
  Broken,      \* indexes whose WAL cannot be applied: an error every time
  Limits,      \* values max_parallel_wal_appliers_per_db takes
  MaxRefusals, \* bound: workers that cannot be registered
  MaxDeaths    \* bound: maintaining processes that are terminated

ASSUME MaintainerAssumption ==
  /\ IsFiniteSet(Indexes)
  /\ Indexes # {}
  /\ DatabaseOf \in [Indexes -> Databases]
  /\ Broken \subseteq Indexes
  /\ Limits \subseteq Nat
  /\ MaxRefusals \in Nat
  /\ MaxDeaths \in Nat

VARIABLES
  main,     \* the main worker: where it is, and the databases left to visit
  sigterm,  \* PGroongaStandbyMaintainerGotSIGTERM of the main worker
  maint,    \* the process that maintains a database: see Process
  applier,  \* applier[x]: the worker this process has registered for index x
  orphans,  \* orphans[x]: appliers of x whose registering process has died
  spent     \* how much of each bound is used up

vars == <<main, sigterm, maint, applier, orphans, spent>>

\* max: nMaxWorkers.  todo: indexes the loop has not come to.  at: the index it
\* is at.  held: indexes whose entry in workerHandles is not NULL.  running:
\* nRunningWorkers.
Process == [pc : {"none", "start", "next", "inline", "starting", "vacuum"},
            db : Databases, max : Nat, todo : SUBSET Indexes,
            at : Indexes, held : SUBSET Indexes, running : Nat]

AnyIndex == CHOOSE x \in Indexes : TRUE
NoProcess == [pc |-> "none", db |-> DatabaseOf[AnyIndex], max |-> 0,
              todo |-> {}, at |-> AnyIndex, held |-> {}, running |-> 0]

IndexesOf(d) == {x \in Indexes : DatabaseOf[x] = d}

\* The appliers of the process that runs now, started or about to be.
Live == {x \in Indexes : applier[x] \in {"registered", "running"}}
StoppedOf(handles) == {x \in handles : applier[x] = "stopped"}

-----------------------------------------------------------------------------
(* The main worker.                                                        *)

MainWake ==
  /\ main.pc = "sleep"
  /\ main' = IF sigterm THEN [main EXCEPT !.pc = "exited"]
             ELSE [pc |-> "scan", todo |-> Databases]
  /\ UNCHANGED <<sigterm, maint, applier, orphans, spent>>

MainLaunch(d) ==
  /\ main.pc = "scan"
  /\ ~sigterm
  /\ d \in main.todo
  /\ main' = [pc |-> "wait", todo |-> main.todo \ {d}]
  /\ maint' = [NoProcess EXCEPT !.pc = "start", !.db = d]
  /\ UNCHANGED <<sigterm, applier, orphans, spent>>

Refused == /\ spent.refusals < MaxRefusals
           /\ spent' = [spent EXCEPT !.refusals = @ + 1]

MainCannotRegister(d) ==
  /\ main.pc = "scan"
  /\ ~sigterm
  /\ d \in main.todo
  /\ Refused
  /\ main' = [main EXCEPT !.todo = @ \ {d}]
  /\ UNCHANGED <<sigterm, maint, applier, orphans>>

\* WaitForBackgroundWorkerShutdown, SIGTERM or not.
MainWaited ==
  /\ main.pc = "wait"
  /\ maint.pc = "none"
  /\ main' = [main EXCEPT !.pc = "scan"]
  /\ UNCHANGED <<sigterm, maint, applier, orphans, spent>>

MainVisited ==
  /\ main.pc = "scan"
  /\ main.todo = {} \/ sigterm
  /\ main' = [main EXCEPT !.pc = "sleep"]
  /\ UNCHANGED <<sigterm, maint, applier, orphans, spent>>

Sigterm ==
  /\ ~sigterm
  /\ sigterm' = TRUE
  /\ UNCHANGED <<main, maint, applier, orphans, spent>>

MainStep ==
  \/ MainWake \/ MainWaited \/ MainVisited
  \/ \E d \in Databases : MainLaunch(d)

-----------------------------------------------------------------------------
(* pgroonga_standby_maintainer_maintain.                                   *)

\* The list of the indexes, and the limit that holds for this process.
List(l) ==
  /\ maint.pc = "start"
  /\ maint' = [maint EXCEPT !.pc = "next", !.max = l,
                            !.todo = IndexesOf(maint.db)]
  /\ UNCHANGED <<main, sigterm, applier, orphans, spent>>

\* The process is gone; its appliers go on.
Gone ==
  /\ maint' = NoProcess
  /\ orphans' = [x \in Indexes |->
                   orphans[x] + (IF x \in Live THEN 1 ELSE 0)]
  /\ applier' = [x \in Indexes |-> "none"]

\* Without appliers the process calls pgroonga_wal_apply index after index.
ApplyInline(x) ==
  /\ maint.pc = "next"
  /\ x \in maint.todo
  /\ maint.max = 0
  /\ maint' = [maint EXCEPT !.pc = "inline", !.at = x, !.todo = @ \ {x}]
  /\ UNCHANGED <<main, sigterm, applier, orphans, spent>>

\* An error ends the process: the indexes after this one wait, and nothing is
\* vacuumed.
InlineApplied ==
  /\ maint.pc = "inline"
  /\ IF maint.at \in Broken
     THEN Gone
     ELSE /\ maint' = [maint EXCEPT !.pc = "next"]
          /\ UNCHANGED <<applier, orphans>>
  /\ UNCHANGED <<main, sigterm, spent>>

\* The mutant: the handles are dropped and the count is kept.
SweepKeepsCount ==
  /\ maint.pc = "next"
  /\ maint.todo # {}
  /\ maint.max > 0
  /\ maint.running >= maint.max
  /\ StoppedOf(maint.held) # {}
  /\ maint' = [maint EXCEPT !.held = @ \ StoppedOf(maint.held)]
  /\ UNCHANGED <<main, sigterm, applier, orphans, spent>>

\* The loop that waits for room: every handle is looked at, and the appliers
\* that have stopped are taken off the count.
Sweep ==
  /\ maint.pc = "next"
  /\ maint.todo # {}
  /\ maint.max > 0
  /\ maint.running >= maint.max
  /\ StoppedOf(maint.held) # {}
  /\ maint' = [maint EXCEPT
       !.held = @ \ StoppedOf(maint.held),
       !.running = @ - Cardinality(StoppedOf(maint.held))]
  /\ UNCHANGED <<main, sigterm, applier, orphans, spent>>

\* The mutant: room for one more.
HasRoomOffByOne == maint.running <= maint.max

HasRoom == maint.running < maint.max

RegisterApplier(x) ==
  /\ maint.pc = "next"
  /\ x \in maint.todo
  /\ maint.max > 0
  /\ HasRoom
  /\ maint' = [maint EXCEPT !.pc = "starting", !.at = x, !.todo = @ \ {x},
                            !.held = @ \cup {x}]
  /\ applier' = [applier EXCEPT ![x] = "registered"]
  /\ UNCHANGED <<main, sigterm, orphans, spent>>

CannotRegister(x) ==
  /\ maint.pc = "next"
  /\ x \in maint.todo
  /\ maint.max > 0
  /\ HasRoom
  /\ Refused
  /\ maint' = [maint EXCEPT !.todo = @ \ {x}]
  /\ UNCHANGED <<main, sigterm, applier, orphans>>

\* The mutant: an applier that has ended at once is counted, too.
StartedCountsAll ==
  /\ maint.pc = "starting"
  /\ applier[maint.at] # "registered"
  /\ maint' = IF applier[maint.at] = "running"
              THEN [maint EXCEPT !.pc = "next", !.running = @ + 1]
              ELSE [maint EXCEPT !.pc = "next", !.running = @ + 1,
                                 !.held = @ \ {maint.at}]
  /\ UNCHANGED <<main, sigterm, applier, orphans, spent>>

\* WaitForBackgroundWorkerStartup: an applier that has ended already is
\* neither counted nor kept.
Started ==
  /\ maint.pc = "starting"
  /\ applier[maint.at] # "registered"
  /\ maint' = IF applier[maint.at] = "running"
              THEN [maint EXCEPT !.pc = "next", !.running = @ + 1]
              ELSE [maint EXCEPT !.pc = "next", !.held = @ \ {maint.at}]
  /\ UNCHANGED <<main, sigterm, applier, orphans, spent>>

\* WaitForBackgroundWorkerShutdown of the appliers that are left.
Join(x) ==
  /\ maint.pc = "next"
  /\ maint.todo = {}
  /\ x \in maint.held
  /\ applier[x] = "stopped"
  /\ maint' = [maint EXCEPT !.held = @ \ {x}, !.running = @ - 1]
  /\ UNCHANGED <<main, sigterm, applier, orphans, spent>>

\* The mutant: the vacuum does not wait for the appliers.
VacuumAtOnce ==
  /\ maint.pc = "next"
  /\ maint.todo = {}
  /\ maint' = [maint EXCEPT !.pc = "vacuum"]
  /\ UNCHANGED <<main, sigterm, applier, orphans, spent>>

Vacuum ==
  /\ maint.pc = "next"
  /\ maint.todo = {}
  /\ maint.held = {}
  /\ IndexesOf(maint.db) # {}
  /\ maint' = [maint EXCEPT !.pc = "vacuum"]
  /\ UNCHANGED <<main, sigterm, applier, orphans, spent>>

\* A database without an index of PGroonga is not vacuumed.
Exit ==
  /\ \/ maint.pc = "vacuum"
     \/ /\ maint.pc = "next"
        /\ IndexesOf(maint.db) = {}
  /\ Gone
  /\ UNCHANGED <<main, sigterm, spent>>

Terminated ==
  /\ maint.pc # "none"
  /\ spent.deaths < MaxDeaths
  /\ spent' = [spent EXCEPT !.deaths = @ + 1]
  /\ Gone
  /\ UNCHANGED <<main, sigterm>>

MaintainStep ==
  \/ \E l \in Limits : List(l)
  \/ \E x \in Indexes : ApplyInline(x) \/ RegisterApplier(x) \/ Join(x)
  \/ InlineApplied \/ Sweep \/ Started \/ Vacuum \/ Exit

-----------------------------------------------------------------------------
(* pgroonga_standby_maintainer_apply_wal, with or without an error.        *)

ApplierStart(x) ==
  /\ applier[x] = "registered"
  /\ applier' = [applier EXCEPT ![x] = "running"]
  /\ UNCHANGED <<main, sigterm, maint, orphans, spent>>

ApplierStop(x) ==
  /\ applier[x] = "running"
  /\ applier' = [applier EXCEPT ![x] = "stopped"]
  /\ UNCHANGED <<main, sigterm, maint, orphans, spent>>

OrphanStop(x) ==
  /\ orphans[x] > 0
  /\ orphans' = [orphans EXCEPT ![x] = @ - 1]
  /\ UNCHANGED <<main, sigterm, maint, applier, spent>>

ApplierStep(x) == ApplierStart(x) \/ ApplierStop(x) \/ OrphanStop(x)

-----------------------------------------------------------------------------
Init ==
  /\ main = [pc |-> "sleep", todo |-> {}]
  /\ sigterm = FALSE
  /\ maint = NoProcess
  /\ applier = [x \in Indexes |-> "none"]
  /\ orphans = [x \in Indexes |-> 0]
  /\ spent = [refusals |-> 0, deaths |-> 0]

Next ==
  \/ MainStep
  \/ \E d \in Databases : MainCannotRegister(d)
  \/ Sigterm
  \/ MaintainStep
  \/ \E x \in Indexes : CannotRegister(x) \/ ApplierStep(x)
  \/ Terminated

Spec == Init /\ [][Next]_vars

\* The main worker wakes every naptime seconds, the process that maintains a
\* database looks again every minute, the postmaster starts what is registered,
\* and what is pending gets applied.
Fairness ==
  /\ WF_vars(MainStep)
  /\ WF_vars(MaintainStep)
  /\ \A x \in Indexes : WF_vars(ApplierStep(x))

FairSpec == Spec /\ Fairness

-----------------------------------------------------------------------------
(* What must hold.                                                         *)

TypeOK ==
  /\ main \in [pc : {"sleep", "scan", "wait", "exited"},
               todo : SUBSET Databases]
  /\ sigterm \in BOOLEAN
  /\ maint \in Process
  /\ applier \in [Indexes -> {"none", "registered", "running", "stopped"}]
  /\ orphans \in [Indexes -> Nat]
  /\ spent \in [refusals : Nat, deaths : Nat]

\* "The max number of parallel WAL applier processes per DB": a process never
\* has more appliers than the limit it has read, those included that the
\* postmaster has yet to start.
NeverTooMany == Cardinality(Live) <= maint.max

\* The vacuum removes tables and columns that are not used any more: none of
\* the appliers the process has started is at work then.
VacuumAfterAppliers == maint.pc = "vacuum" => Live = {}

\* A process that maintains a database comes to its end, whatever its appliers
\* do and whether they can be registered: nRunningWorkers never counts one that
\* has gone, for which the loop would wait for ever.
RoundEnds == maint.pc # "none" ~> maint.pc = "none"

\* When the main worker is told to stop it does.
StopsWhenTold == sigterm ~> main.pc = "exited"

Applying(x) ==
  \/ applier[x] = "running" \/ orphans[x] > 0
  \/ maint.pc = "inline" /\ maint.at = x

\* "tries to apply all pending PGroonga WAL": the main worker comes by at every
\* index again and again, be others broken or not.
EveryIndexTried == \A x \in Indexes : []<>(sigterm \/ Applying(x))

\* The same, from some time on at which the limit is not 0.
TriedByAppliers ==
  <>[](maint.pc \in {"none", "start"} \/ maint.max > 0) => EveryIndexTried
=============================================================================
