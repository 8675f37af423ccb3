---------------------------- MODULE PGrnCrashSafer ----------------------------
(***************************************************************************)
(* pgroonga_crash_safer: one main worker, one flusher per database that    *)
(* opens the Groonga database first (repairing it when it must), flushes   *)
(* it from time to time and closes it last, the worker a flusher starts to *)
(* prepare the indexes, and the backends, which wait in PGrnEnsureDatabase *)
(* until the flusher of their database is ready.  They meet in a shared    *)
(* hash table of statuses, which no lock protects.                         *)
(*                                                                         *)
(* A pid in an entry is a Boolean: valid or InvalidPid.  A restart stands  *)
(* for a new postmaster: shared memory is new, the files stay.             *)
(***************************************************************************)
EXTENDS Integers, Sequences, FiniteSets

CONSTANTS
  Databases,       \* the databases of the cluster
  Backends,        \* slots for backends
  Roles,           \* what RecoveryInProgress may say: a subset of BOOLEAN
  ParallelReindex, \* whether a REINDEX copies the sources in parallel
                   \* (pgroonga.enable_parallel_build_copy)
  CounterSize,     \* numbers a nUsingProcesses can hold (2^32)
  MaxConnects,     \* bound: backends that load PGroonga
  MaxRemovals,     \* bound: pgroonga_database_remove, DROP DATABASE
  MaxFailures,     \* bound: workers that cannot start or end in an error,
                   \* and statements cancelled
  MaxCrashes,      \* bound: crashes of the whole server
  MaxStops,        \* bound: shutdowns
  MaxSignals       \* bound: SIGTERMs to a flusher that the postmaster did not send

ASSUME CrashSaferAssumption ==
  /\ Roles \subseteq BOOLEAN
  /\ ParallelReindex \in BOOLEAN
  /\ IsFiniteSet(Backends)
  /\ CounterSize \in Nat /\ CounterSize > Cardinality(Backends) + 2
  /\ {MaxConnects, MaxRemovals, MaxFailures, MaxCrashes, MaxStops, MaxSignals} \subseteq Nat

VARIABLES
  phase,     \* "up", or "stopping" since the postmaster told everyone to stop
  recovery,  \* whether this server is a standby
  entries,   \* the statuses: a function from the databases that have one
  free,      \* what is left in the elements HASH_REMOVE has freed, last first
  file,      \* the Groonga database on disk: "none", "ok" or "broken"
  lost,      \* the indexes were in a database that was thrown away, and no
             \* REINDEX has filled the new one
  dirty,     \* something is in memory, or in a .wal file, and not flushed
  main,      \* the main worker: where it is, the databases left to visit, the
             \* flag SIGUSR1 sets, the databases of flushers that have run
             \* their exit callbacks and that the postmaster has not reaped
  flusher,   \* flusher[d]: where the flusher of d is
  own,       \* whether what the flusher has opened is the file there is now
  preparer,  \* preparer[d]: where the worker the flusher waits for is
  backend,   \* backend[b]: where backend b is, and its database
  spent      \* how much of each bound is used up

vars == <<phase, recovery, entries, free, file, lost, dirty, main, flusher,
          own, preparer, backend, spent>>
shmem == <<entries, free>>
disk == <<file, lost, dirty, own>>
server == <<phase, recovery, spent>>

\* An entry is [pid, preparing, flushing, nUsing].
\* main: boot, all, scan, started, idle, exited.
\* flusher: none, start, prepare, ready, flush, drain, told (SIGTERM while it
\* drains), final.
\* preparer: none, registered, preparing, using, released.
\* backend: none, use (in PGrnEnsureDatabase, not counted yet), waiting, open
\* (about to open the file), running, orphan (running on files that
\* pgroonga_database_remove has unlinked), failed.
NoBackend == [pc |-> "none", db |-> CHOOSE d \in Databases : TRUE]
Counted == {"waiting", "open", "running", "orphan", "failed"}

-----------------------------------------------------------------------------
(* The statuses (pgrn-crash-safer-statuses.h).                             *)

Has(d) == d \in DOMAIN entries

\* What HASH_ENTER finds or makes: it sets the pids of a new element, and the
\* rest is what the memory holds.
Entered(d) ==
  IF Has(d) THEN entries[d]
  ELSE [pid |-> FALSE, preparing |-> FALSE,
        flushing |-> IF free = <<>> THEN FALSE ELSE Head(free).flushing,
        nUsing   |-> IF free = <<>> THEN 0 ELSE Head(free).nUsing]

\* hash_search(HASH_ENTER), and a change of the entry.
Enter(d, entry) ==
  /\ entries' = [e \in DOMAIN entries \cup {d} |->
                   IF e = d THEN entry ELSE entries[e]]
  /\ free' = IF Has(d) \/ free = <<>> THEN free ELSE Tail(free)

\* hash_search(HASH_FIND), and a change of the entry if there is one.
Change(d, entry) ==
  /\ entries' = IF Has(d) THEN [entries EXCEPT ![d] = entry] ELSE entries
  /\ UNCHANGED free

Use(d) ==
  Enter(d, [Entered(d) EXCEPT !.nUsing = (@ + 1) % CounterSize])

\* Mutant: the process that exits stays counted.
ReleaseForgotten(d) == Change(d, Entered(d))

Release(d) ==
  Change(d, [Entered(d) EXCEPT !.nUsing = (@ + CounterSize - 1) % CounterSize])

\* pgrn_crash_safer_statuses_stop.
Stop(d) ==
  /\ entries' = [e \in DOMAIN entries \ {d} |-> entries[e]]
  /\ free' = IF Has(d)
             THEN <<[flushing |-> entries[d].flushing,
                     nUsing |-> entries[d].nUsing]>> \o free
             ELSE free

IsFlushing(d) == Has(d) /\ entries[d].flushing
IsPreparing(d) == Has(d) /\ entries[d].preparing

\* grn_db_open, or grn_db_create when there is no file.
Opened(d) == file' = [file EXCEPT ![d] = IF @ = "none" THEN "ok" ELSE @]

MainPID == main.pc \notin {"boot", "exited"}
SignalMain == main' = [main EXCEPT !.usr1 = TRUE]

-----------------------------------------------------------------------------
(* The main worker.                                                        *)

\* Its pid, and pgroonga_crash_safer_main_flush_all.
MainBoot ==
  /\ phase = "up"
  /\ main.pc = "boot"
  /\ main' = [main EXCEPT !.pc = "all", !.todo = Databases]
  /\ UNCHANGED <<server, shmem, disk, flusher, preparer, backend>>

\* A database that has a flusher, or that not exactly one process uses, is left
\* alone.  A worker that cannot be registered, or that the postmaster forgets
\* because it stops, is left alone, too.
Wanted(d) ==
  IF main.pc = "all" THEN file[d] # "none"
  ELSE Has(d) /\ ~entries[d].pid /\ entries[d].nUsing = 1

Visiting(d) == main.pc \in {"all", "scan"} /\ d \in main.todo

MainSkip(d) ==
  /\ Visiting(d)
  /\ ~Wanted(d) \/ phase = "stopping"
  /\ main' = [main EXCEPT !.todo = @ \ {d}]
  /\ UNCHANGED <<server, shmem, disk, flusher, preparer, backend>>

MainCannotRegister(d) ==
  /\ Visiting(d)
  /\ Wanted(d)
  /\ spent.failures < MaxFailures
  /\ spent' = [spent EXCEPT !.failures = @ + 1]
  /\ IF main.pc = "all" THEN Enter(d, Entered(d)) ELSE UNCHANGED shmem
  /\ main' = [main EXCEPT !.todo = @ \ {d}]
  /\ UNCHANGED <<phase, recovery, disk, flusher, preparer, backend>>

\* pgroonga_crash_safer_main_flush_one: the worker is registered and started.
MainLaunch(d) ==
  /\ Visiting(d)
  /\ Wanted(d)
  /\ phase = "up"
  /\ IF main.pc = "all" THEN Enter(d, Entered(d)) ELSE UNCHANGED shmem
  /\ flusher' = [flusher EXCEPT ![d] = "start"]
  /\ main' = [main EXCEPT !.pc = "started", !.back = main.pc, !.at = d,
                          !.todo = @ \ {d}, !.usr1 = TRUE]
  /\ UNCHANGED <<server, disk, preparer, backend>>

\* WaitForBackgroundWorkerStartup stores the pid of a worker it has seen started,
\* though its exit callback may have cleared the pid since: the worker counts as
\* started until it is reaped.  It stores none only if it first looks after that.
MainStarted ==
  /\ main.pc = "started"
  /\ \/ Change(main.at, [Entered(main.at) EXCEPT !.pid = TRUE])
     \/ /\ flusher[main.at] = "none" /\ main.at \notin main.unreaped
        /\ UNCHANGED shmem
  /\ main' = [main EXCEPT !.pc = main.back]
  /\ UNCHANGED <<server, disk, flusher, preparer, backend>>

MainVisited ==
  /\ main.pc \in {"all", "scan"}
  /\ main.todo = {}
  /\ main' = [main EXCEPT !.pc = "idle"]
  /\ UNCHANGED <<server, shmem, disk, flusher, preparer, backend>>

MainScan ==
  /\ main.pc = "idle"
  /\ phase = "up"
  /\ main.usr1
  /\ main' = [main EXCEPT !.pc = "scan", !.todo = DOMAIN entries,
                          !.usr1 = FALSE]
  /\ UNCHANGED <<server, shmem, disk, flusher, preparer, backend>>

MainExit ==
  /\ main.pc \in {"boot", "idle"}
  /\ phase = "stopping"
  /\ main' = [main EXCEPT !.pc = "exited"]
  /\ UNCHANGED <<server, shmem, disk, flusher, preparer, backend>>

MainStep ==
  \/ MainBoot \/ MainStarted \/ MainVisited \/ MainScan \/ MainExit
  \/ \E d \in Databases : MainSkip(d) \/ MainLaunch(d)

-----------------------------------------------------------------------------
(* The flusher of a database.                                              *)

\* The database is opened or created; one that does not open is thrown away
\* and made anew.  Only the indexes' contents are missing then.
FlusherOpen(d) ==
  /\ flusher[d] = "start"
  /\ file' = [file EXCEPT ![d] = "ok"]
  /\ lost' = [lost EXCEPT ![d] = @ \/ file[d] = "broken"]
  /\ IF file[d] = "broken" \/ ~recovery
     THEN /\ flusher' = [flusher EXCEPT ![d] = "prepare"]
          /\ preparer' = [preparer EXCEPT
               ![d] = [pc |-> "registered", reindex |-> file[d] = "broken"]]
     ELSE /\ flusher' = [flusher EXCEPT ![d] = "ready"]
          /\ UNCHANGED preparer
  /\ own' = [own EXCEPT ![d] = TRUE]
  /\ UNCHANGED <<server, shmem, dirty, main, backend>>

\* The flusher is gone for everyone but the postmaster, and the main worker that
\* asks it.
Ended(d) ==
  /\ flusher' = [flusher EXCEPT ![d] = "none"]
  /\ main' = [main EXCEPT !.unreaped = @ \cup {d}]

\* The flusher ends in an error before it is ready: its exit callback clears the
\* pid, if the main worker has stored it.
FlusherFail(d) ==
  /\ flusher[d] = "start"
  /\ spent.failures < MaxFailures
  /\ spent' = [spent EXCEPT !.failures = @ + 1]
  /\ Ended(d)
  /\ Change(d, [Entered(d) EXCEPT !.pid = FALSE])
  /\ UNCHANGED <<phase, recovery, disk, preparer, backend>>

\* The mutant: the flusher does not wait for the worker.
FlusherDoesNotWait(d) ==
  /\ flusher[d] = "prepare"
  /\ flusher' = [flusher EXCEPT ![d] = "ready"]
  /\ UNCHANGED <<server, shmem, disk, main, preparer, backend>>

\* WaitForBackgroundWorkerShutdown: however the worker has ended.
FlusherPrepared(d) ==
  /\ flusher[d] = "prepare"
  /\ preparer[d].pc = "none"
  /\ flusher' = [flusher EXCEPT ![d] = "ready"]
  /\ UNCHANGED <<server, shmem, disk, main, preparer, backend>>

\* pgrn_crash_safer_statuses_start.
FlusherReady(d) ==
  /\ flusher[d] = "ready"
  /\ Enter(d, [Entered(d) EXCEPT !.flushing = TRUE])
  /\ flusher' = [flusher EXCEPT ![d] = "flush"]
  /\ UNCHANGED <<server, disk, main, preparer, backend>>

\* The files it has open, which need not be the ones there are now.
Flushed(d) == dirty' = [dirty EXCEPT ![d] = IF own[d] THEN FALSE ELSE @]

FlusherFlush(d) ==
  /\ flusher[d] = "flush"
  /\ phase = "up"
  /\ file[d] # "none"
  /\ Flushed(d)
  /\ UNCHANGED <<server, shmem, file, lost, own, main, flusher, preparer,
                 backend>>

\* SIGTERM, or the files are gone.
FlusherLeaves(d) ==
  /\ flusher[d] = "flush"
  /\ phase = "stopping" \/ file[d] = "none"
  /\ flusher' = [flusher EXCEPT ![d] = "drain"]
  /\ UNCHANGED <<server, shmem, disk, main, preparer, backend>>

\* The mutant: the last flush does not wait.
FlusherDrainsAtOnce(d) ==
  /\ flusher[d] = "drain"
  /\ Flushed(d)
  /\ flusher' = [flusher EXCEPT ![d] = "final"]
  /\ UNCHANGED <<server, shmem, file, lost, own, main, preparer, backend>>

\* SIGTERM.  One that comes while the flusher waits for the last user ends the
\* wait.
Told(d) == CASE flusher[d] = "flush" -> "drain"
             [] flusher[d] = "drain" -> "told"
             [] OTHER -> flusher[d]
Terminate(d) ==
  /\ spent.signals < MaxSignals
  /\ Told(d) # flusher[d]
  /\ spent' = [spent EXCEPT !.signals = @ + 1]
  /\ flusher' = [flusher EXCEPT ![d] = Told(d)]
  /\ UNCHANGED <<phase, recovery, shmem, disk, main, preparer, backend>>

\* The last flush waits until no process uses the database.
FlusherDrained(d) ==
  /\ \/ flusher[d] = "told"
     \/ flusher[d] = "drain" /\ (file[d] # "none" => ~Has(d) \/ entries[d].nUsing = 0)
  /\ Flushed(d)
  /\ flusher' = [flusher EXCEPT ![d] = "final"]
  /\ UNCHANGED <<server, shmem, file, lost, own, main, preparer, backend>>

\* The exit callbacks: the entry is removed, and with it the pid.
FlusherExit(d) ==
  /\ flusher[d] = "final"
  /\ Stop(d)
  /\ Ended(d)
  /\ UNCHANGED <<server, disk, preparer, backend>>

\* The postmaster reaps the process and tells bgw_notify_pid.
Reap(d) ==
  /\ d \in main.unreaped
  /\ main' = [main EXCEPT !.unreaped = @ \ {d}, !.usr1 = TRUE]
  /\ UNCHANGED <<server, shmem, disk, flusher, preparer, backend>>

FlusherStep(d) ==
  \/ FlusherOpen(d) \/ FlusherPrepared(d) \/ FlusherReady(d)
  \/ FlusherFlush(d) \/ FlusherLeaves(d) \/ FlusherDrained(d)
  \/ FlusherExit(d)

-----------------------------------------------------------------------------
(* The worker that resets the positions or reindexes.                      *)

Prepares(d, pc) == preparer' = [preparer EXCEPT ![d].pc = pc]

PreparerStart(d) ==
  /\ preparer[d].pc = "registered"
  /\ phase = "up"
  /\ Enter(d, [Entered(d) EXCEPT !.preparing = TRUE])
  /\ Prepares(d, "preparing")
  /\ UNCHANGED <<server, disk, main, flusher, backend>>

\* PGroonga is loaded.  It is the preparer's pid: no waiting.
PreparerUse(d) ==
  /\ preparer[d].pc = "preparing"
  /\ Use(d)
  /\ Opened(d)
  /\ Prepares(d, "using")
  /\ UNCHANGED <<server, lost, dirty, own, main, flusher, backend>>

\* The statement commits, and the exit callback of PGroonga runs.  REINDEX is
\* refused in recovery, and a parallel worker it starts is not this pid: it
\* meets "pgroonga_crash_safer is preparing".
PreparerFinish(d) ==
  /\ preparer[d].pc = "using"
  /\ preparer[d].reindex => ~recovery /\ ~ParallelReindex
  /\ lost' = [lost EXCEPT ![d] = @ /\ ~preparer[d].reindex]
  /\ dirty' = [dirty EXCEPT ![d] = file[d] # "none"]
  /\ Release(d)
  /\ Prepares(d, "released")
  /\ UNCHANGED <<server, file, own, main, flusher, backend>>

PreparerReindexFails(d) ==
  /\ preparer[d].pc = "using"
  /\ preparer[d].reindex /\ (recovery \/ ParallelReindex)
  /\ Release(d)
  /\ Prepares(d, "released")
  /\ UNCHANGED <<server, disk, main, flusher, backend>>

\* pgroonga_crash_safer_prepare_one_on_exit.
PreparerExit(d) ==
  /\ preparer[d].pc = "released"
  /\ Enter(d, [Entered(d) EXCEPT !.preparing = FALSE])
  /\ Prepares(d, "none")
  /\ UNCHANGED <<server, disk, main, flusher, backend>>

\* A postmaster that stops forgets a worker it has not started.
PreparerForgotten(d) ==
  /\ preparer[d].pc = "registered"
  /\ phase = "stopping"
  /\ Prepares(d, "none")
  /\ UNCHANGED <<server, shmem, disk, main, flusher, backend>>

\* The worker cannot be registered, or its statement fails.
PreparerFail(d) ==
  /\ preparer[d].pc \in {"registered", "using"}
  /\ spent.failures < MaxFailures
  /\ spent' = [spent EXCEPT !.failures = @ + 1]
  /\ IF preparer[d].pc = "using"
     THEN Release(d) /\ Prepares(d, "released")
     ELSE UNCHANGED shmem /\ Prepares(d, "none")
  /\ UNCHANGED <<phase, recovery, disk, main, flusher, backend>>

PreparerStep(d) ==
  \/ PreparerStart(d) \/ PreparerUse(d) \/ PreparerFinish(d)
  \/ PreparerReindexFails(d) \/ PreparerExit(d) \/ PreparerForgotten(d)

-----------------------------------------------------------------------------
(* A backend: PGrnEnsureDatabase, and PGrnBeforeShmemExit.                 *)

Becomes(b, pc) == backend' = [backend EXCEPT ![b].pc = pc]

\* The backend's first statement that needs PGroonga.  Without a main worker it
\* gets an error and is not counted.
Connect(b, d) ==
  /\ phase = "up"
  /\ backend[b].pc = "none"
  /\ MainPID
  /\ spent.connects < MaxConnects
  /\ spent' = [spent EXCEPT !.connects = @ + 1]
  /\ backend' = [backend EXCEPT ![b] = [pc |-> "use", db |-> d]]
  /\ UNCHANGED <<phase, recovery, shmem, disk, main, flusher, preparer>>

BackendUse(b) ==
  /\ backend[b].pc = "use"
  /\ Use(backend[b].db)
  /\ Becomes(b, "waiting")
  /\ UNCHANGED <<server, disk, main, flusher, preparer>>

\* "pgroonga_crash_safer is preparing".  Every later statement of the backend
\* fails, too, and the backend stays counted until it exits.
Reject(b) ==
  /\ backend[b].pc = "waiting"
  /\ IsPreparing(backend[b].db)
  /\ Becomes(b, "failed")
  /\ UNCHANGED <<server, shmem, disk, main, flusher, preparer>>

Pass(b) ==
  /\ backend[b].pc = "waiting"
  /\ ~IsPreparing(backend[b].db)
  /\ IsFlushing(backend[b].db)
  /\ Becomes(b, "open")
  /\ UNCHANGED <<server, shmem, disk, main, flusher, preparer>>

\* kill(crashSaferPID, SIGUSR1), and another second of waiting.
Nudge(b) ==
  /\ backend[b].pc = "waiting"
  /\ ~IsPreparing(backend[b].db)
  /\ ~IsFlushing(backend[b].db)
  /\ SignalMain
  /\ UNCHANGED <<server, shmem, disk, flusher, preparer, backend>>

\* The statement is cancelled while it waits.
Cancel(b) ==
  /\ backend[b].pc = "waiting"
  /\ spent.failures < MaxFailures
  /\ spent' = [spent EXCEPT !.failures = @ + 1]
  /\ Becomes(b, "failed")
  /\ UNCHANGED <<phase, recovery, shmem, disk, main, flusher, preparer>>

\* A backend that was told to stop meanwhile ends at its next
\* CHECK_FOR_INTERRUPTS, before its statement changes anything.
OpenDatabase(b) ==
  /\ backend[b].pc = "open"
  /\ LET d == backend[b].db
     IN  /\ Becomes(b, IF file[d] = "broken" \/ phase = "stopping"
                        THEN "failed" ELSE "running")
         /\ Opened(d)
  /\ UNCHANGED <<server, shmem, lost, dirty, own, main, flusher, preparer>>

\* An insert changes Groonga's memory and its .wal files.
Write(b) ==
  /\ backend[b].pc = "running"
  /\ dirty' = [dirty EXCEPT ![backend[b].db] = TRUE]
  /\ UNCHANGED <<server, shmem, file, lost, own, main, flusher, preparer,
                 backend>>

Exit(b) ==
  /\ backend[b].pc \notin {"none", "open"}
  /\ IF backend[b].pc = "use" THEN UNCHANGED shmem ELSE Release(backend[b].db)
  /\ backend' = [backend EXCEPT ![b] = NoBackend]
  /\ UNCHANGED <<server, disk, main, flusher, preparer>>

BackendStep(b) ==
  BackendUse(b) \/ Reject(b) \/ Pass(b) \/ Nudge(b) \/ OpenDatabase(b)

-----------------------------------------------------------------------------
(* The server.                                                             *)

\* pgroonga_database_remove unlinks the files; who has them open keeps them.
Remove(d) ==
  /\ phase = "up"
  /\ file[d] # "none"
  /\ spent.removals < MaxRemovals
  /\ spent' = [spent EXCEPT !.removals = @ + 1]
  /\ file' = [file EXCEPT ![d] = "none"]
  /\ lost' = [lost EXCEPT ![d] = FALSE]
  /\ dirty' = [dirty EXCEPT ![d] = FALSE]
  /\ own' = [own EXCEPT ![d] = FALSE]
  /\ backend' = [b \in Backends |->
       IF backend[b].db = d /\ backend[b].pc = "running"
       THEN [backend[b] EXCEPT !.pc = "orphan"] ELSE backend[b]]
  /\ UNCHANGED <<phase, recovery, shmem, main, flusher, preparer>>

\* A fast shutdown: SIGTERM to everyone.
Shutdown ==
  /\ phase = "up"
  /\ spent.stops < MaxStops
  /\ spent' = [spent EXCEPT !.stops = @ + 1]
  /\ phase' = "stopping"
  /\ flusher' = [d \in Databases |-> IF flusher[d] = "drain" THEN Told(d) ELSE flusher[d]]
  /\ UNCHANGED <<recovery, shmem, disk, main, preparer, backend>>

Stopped ==
  /\ phase = "stopping"
  /\ main.pc = "exited"
  /\ \A d \in Databases : flusher[d] = "none"
  /\ \A b \in Backends : backend[b].pc = "none"

NewServer ==
  /\ phase' = "up"
  /\ entries' = [d \in {} |-> Entered(d)]
  /\ free' = <<>>
  /\ main' = [pc |-> "boot", back |-> "idle", todo |-> {}, usr1 |-> FALSE,
              at |-> NoBackend.db, unreaped |-> {}]
  /\ flusher' = [d \in Databases |-> "none"]
  /\ preparer' = [d \in Databases |-> [pc |-> "none", reindex |-> FALSE]]
  /\ backend' = [b \in Backends |-> NoBackend]

Restart ==
  /\ Stopped
  /\ NewServer
  /\ UNCHANGED <<recovery, disk, spent>>

\* What was not flushed is recovered from Groonga's own WAL when the database
\* is opened, or the database does not open any more.
Crash ==
  /\ spent.crashes < MaxCrashes
  /\ spent' = [spent EXCEPT !.crashes = @ + 1]
  /\ file' \in {f \in [Databases -> {"none", "ok", "broken"}] :
                  \A d \in Databases :
                    f[d] # file[d] => dirty[d] /\ f[d] = "broken"}
  /\ dirty' = [d \in Databases |-> FALSE]
  /\ NewServer
  /\ UNCHANGED <<recovery, lost, own>>

Init ==
  /\ phase = "up"
  /\ recovery \in Roles
  /\ entries = [d \in {} |-> {}]
  /\ free = <<>>
  /\ file \in [Databases -> {"none", "ok"}]
  /\ lost = [d \in Databases |-> FALSE]
  /\ dirty = [d \in Databases |-> FALSE]
  /\ own = [d \in Databases |-> FALSE]
  /\ main = [pc |-> "boot", back |-> "idle", todo |-> {}, usr1 |-> FALSE,
             at |-> NoBackend.db, unreaped |-> {}]
  /\ flusher = [d \in Databases |-> "none"]
  /\ preparer = [d \in Databases |-> [pc |-> "none", reindex |-> FALSE]]
  /\ backend = [b \in Backends |-> NoBackend]
  /\ spent = [connects |-> 0, removals |-> 0, failures |-> 0, crashes |-> 0,
              stops |-> 0, signals |-> 0]

Next ==
  \/ MainStep
  \/ \E d \in Databases :
       \/ MainCannotRegister(d)
       \/ FlusherStep(d) \/ FlusherFail(d) \/ Reap(d)
       \/ PreparerStep(d) \/ PreparerFail(d)
       \/ Remove(d) \/ Terminate(d)
  \/ \E b \in Backends :
       \/ \E d \in Databases : Connect(b, d)
       \/ BackendStep(b) \/ Cancel(b) \/ Write(b) \/ Exit(b)
  \/ Shutdown \/ Restart \/ Crash

Spec == Init /\ [][Next]_vars

\* The workers, the postmaster and a waiting backend, which looks again every
\* second, go on;
\* a backend ends when the server stops, and need not end before.
Fairness ==
  /\ WF_vars(MainStep)
  /\ \A d \in Databases :
       WF_vars(FlusherStep(d)) /\ WF_vars(Reap(d)) /\ WF_vars(PreparerStep(d))
  /\ \A b \in Backends :
       WF_vars(BackendStep(b)) /\ WF_vars(phase = "stopping" /\ Exit(b))

FairSpec == Spec /\ Fairness

-----------------------------------------------------------------------------
(* What must hold.                                                         *)

\* Nobody uses a Groonga database that no flusher takes care of, not even while
\* the server stops: "PGroonga crash safer tries to flush all PGroonga enabled
\* databases" (pgroonga-crash-safer.c:816).
RunningIsFlushed ==
  \A b \in Backends :
    backend[b].pc = "running" =>
      /\ flusher[backend[b].db] \in {"flush", "drain"}
      /\ own[backend[b].db]

\* "We need to reject any connections while preparing" (pgroonga.c:649), lest
\* they block the REINDEX: no backend has the database open then.
NoneWhilePreparing ==
  \A b \in Backends :
    backend[b].pc \in {"open", "running"} =>
      preparer[backend[b].db].pc \notin {"preparing", "using"}

\* Whoever uses a database that was thrown away and made anew finds the indexes
\* filled again ("recover by REINDEX", test-pgroonga-crash-safer.rb:117).  A
\* standby, which cannot reindex, has to apply the WAL of its indexes instead.
IndexesFilled ==
  \A b \in Backends :
    backend[b].pc = "running" /\ ~recovery => ~lost[backend[b].db]

\* "ensure no .wal after normal shutdown" (test-pgroonga-crash-safer.rb:142):
\* what the last backend has written before it was stopped is flushed.
NothingLeftUnflushed ==
  Stopped => \A d \in Databases : file[d] = "ok" => ~dirty[d]

\* The counter that starts a flusher and lets it finish counts the processes
\* that use the database.  (A server that stops starts nothing any more: there a
\* new entry may hold the leftovers of one that was removed.)
CountsUsers ==
  \A d \in DOMAIN entries :
    phase = "up" => entries[d].nUsing =
      Cardinality({b \in Backends :
                     backend[b].db = d /\ backend[b].pc \in Counted})
      + (IF preparer[d].pc = "using" THEN 1 ELSE 0)

\* Where the main worker starts no flusher for a backend that waits: the entry has
\* the pid of a process that has ended, or another backend is counted as well.
DeadPID(d) == Has(d) /\ entries[d].pid /\ flusher[d] = "none"
Crowded(b) ==
  /\ flusher[backend[b].db] = "none"
  /\ \E c \in Backends \ {b} : backend[c].db = backend[b].db /\ backend[c].pc \in Counted

\* A backend that waits in PGrnEnsureDatabase does not wait for ever: its flusher
\* is started, or started again after an error, and lets it in or turns it away.
\* One that does wait for ever has met one of these from some time on.
WaitingIsServed ==
  \A b \in Backends :
    <>[](backend[b].pc = "waiting") => <>[](DeadPID(backend[b].db) \/ Crowded(b))
=============================================================================
