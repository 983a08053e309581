----------------------------- MODULE WebDatabase -----------------------------
(***************************************************************************)
(* Script, the database thread of its context, and the main thread, which  *)
(* deletes databases and stops workers.                                    *)
(***************************************************************************)
EXTENDS SQLTransaction

CONSTANT Deletable      \* the databases that the user may delete

ASSUME DeletableAssumption == Deletable \subseteq Db

VARIABLES
    worker,     \* whether script runs in a worker or on the main thread
    unissued,   \* the transactions that script has not started
    deleting,   \* the database that the main thread is deleting
    deleteStep  \* where markAsDeletedAndClose is

contextVars == <<worker, unissued, deleting, deleteStep>>
vars == <<threadVars, coordinatorVars, databaseVars, backendVars, callbackVars, scriptVars,
          contextVars>>

Init ==
    /\ DatabaseThreadInit
    /\ CoordinatorInit
    /\ BackendInit
    /\ SQLTransactionInit
    /\ worker \in BOOLEAN
    /\ unissued = Txn
    /\ deleting = NoDb
    /\ deleteStep = "idle"

(* A worker stops running callbacks when its databases are stopped; the    *)
(* main thread does not while it waits for a database to close.            *)
ScriptRuns == QueueFree /\ IF worker THEN ~killed ELSE deleteStep = "idle"

-----------------------------------------------------------------------------
(* Database::runTransaction.  On a closed database it ends in the error    *)
(* callback (posted as a task of its own, which nothing else waits for).   *)
RunTransaction(t) ==
    /\ ScriptRuns /\ t \in unissued
    /\ unissued' = unissued \ {t}
    /\ IF queueEnabled[DbOf[t]]
       THEN /\ AddTransaction(t)
            /\ frontend' = [frontend EXCEPT ![t] = TRUE]
            /\ wrappers' = wrappers \cup {t}
            /\ UNCHANGED told
       ELSE /\ told' = IF t \in HasErrorCallback THEN [told EXCEPT ![t] = "error"] ELSE told
            /\ UNCHANGED <<queue, transactionQueue, inProgress, frontend, wrappers>>
    /\ UNCHANGED <<killed, thread, running, closing, coordinatorVars, opened, interrupted, deleted,
                   queueEnabled, machineVars, lockAcquired, originLock, sqlite, statementVars,
                   callbackVars, allowance, worker, deleting, deleteStep>>

Callback(t) == ScriptRuns /\ PerformPendingCallback(t) /\ UNCHANGED contextVars

MarkAsDeletedFaulty(d) ==
    /\ QueueFree /\ d \in Deletable /\ deleteStep = "idle" /\ ~deleted[d] /\ opened[d]
    /\ deleted' = [deleted EXCEPT ![d] = TRUE]
    /\ deleting' = d /\ deleteStep' = "checked"
    /\ UNCHANGED <<threadVars, coordinatorVars, opened, interrupted, transactionQueue, queueEnabled,
                   inProgress, backendVars, callbackVars, scriptVars, worker, unissued>>
(* markAsDeletedAndClose: if the thread has not been told to terminate, a  *)
(* close task goes to the front of its queue, and the main thread waits.   *)
MarkAsDeleted(d) ==
    /\ QueueFree /\ d \in Deletable /\ deleteStep = "idle" /\ ~deleted[d] /\ opened[d]
    /\ deleted' = [deleted EXCEPT ![d] = TRUE]
    /\ IF killed THEN UNCHANGED <<deleting, deleteStep>>
       ELSE deleting' = d /\ deleteStep' = "checked"
    /\ UNCHANGED <<threadVars, coordinatorVars, opened, interrupted, transactionQueue, queueEnabled,
                   inProgress, backendVars, callbackVars, scriptVars, worker, unissued>>

ScheduleClose ==
    /\ QueueFree /\ deleteStep = "checked"
    /\ queue' = ScheduledImmediately(deleting)
    /\ deleteStep' = "waiting"
    /\ UNCHANGED <<killed, thread, running, closing, coordinatorVars, databaseVars, backendVars,
                   callbackVars, scriptVars, worker, unissued, deleting>>

(* WorkerThread::stop interrupts the databases one after the other; then,  *)
(* as when a document stops loading, the database thread is told to        *)
(* terminate.                                                              *)
InterruptDatabase(d) ==
    /\ worker /\ ~interrupted[d]
    /\ interrupted' = [interrupted EXCEPT ![d] = TRUE]
    /\ UNCHANGED <<threadVars, coordinatorVars, opened, deleted, transactionQueue, queueEnabled,
                   inProgress, backendVars, callbackVars, scriptVars, contextVars>>

StopDatabases ==
    /\ QueueFree /\ ~killed
    /\ IF worker THEN \A d \in Db : interrupted[d] ELSE deleteStep = "idle"
    /\ killed' = TRUE
    /\ UNCHANGED <<queue, thread, running, closing, coordinatorVars, databaseVars, backendVars,
                   callbackVars, scriptVars, contextVars>>

-----------------------------------------------------------------------------
(* The task that the main thread waits for is done when close() returns.   *)
FinishClose(d) ==
    /\ UnscheduleDatabaseTasks(d)
    /\ deleteStep' = IF thread = "loop" /\ ~SelfLocked(d) THEN "idle" ELSE deleteStep
    /\ deleting' = IF thread = "loop" /\ ~SelfLocked(d) THEN NoDb ELSE deleting
    /\ UNCHANGED <<scriptVars, worker, unissued>>

ThreadStep ==
    \/ /\ \/ \E t \in Txn : \/ StartStep(t)
                            \/ AbandonStep(t)
                            \/ AcquireLock(t)
                            \/ OpenTransactionAndPreflight(t)
                            \/ RunStatements(t)
                            \/ PostflightAndCommit(t)
                            \/ CleanupAfterTransactionErrorCallback(t)
                            \/ CleanupAndTerminate(t)
          \/ \E d \in Db : PerformCloseTask(d) \/ CloseDatabase(d) \/ CloseOpenDatabase(d)
          \/ Shutdown
          \/ EndThread
       /\ UNCHANGED <<scriptVars, contextVars>>
    \/ \E d \in Db : FinishClose(d)

ScriptStep == \E t \in Txn : RunTransaction(t) \/ Callback(t)
MainStep == StopDatabases \/ \E d \in Db : InterruptDatabase(d) \/ MarkAsDeleted(d)

Next == ThreadStep \/ ScriptStep \/ MainStep \/ ScheduleClose

Spec == Init /\ [][Next]_vars

(* The database thread runs, and the event loop of a document, and of a    *)
(* worker that is not stopped, performs what was posted to it.  A worker   *)
(* that was stopped goes on to interrupt and to stop its databases.        *)
Interrupted == \E d \in Db : interrupted[d]
FairSpec ==
    /\ Spec
    /\ WF_vars(ThreadStep)
    /\ WF_vars(~Interrupted /\ \E t \in Txn : Callback(t))
    /\ WF_vars(ScheduleClose)
    /\ WF_vars(Interrupted /\ (StopDatabases \/ \E d \in Db : InterruptDatabase(d)))
=============================================================================
