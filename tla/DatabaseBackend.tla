--------------------------- MODULE DatabaseBackend ---------------------------
(***************************************************************************)
(* A database handle (DatabaseBackend.cpp): the transactions of a handle   *)
(* run one after the other, and close() ends the ones that wait.           *)
(***************************************************************************)
EXTENDS SQLTransactionBackend

(* scheduleTransaction with the transactions q waiting: the first of them  *)
(* becomes a task.                                                         *)
ScheduledTransaction(d, q) == IF queueEnabled[d] /\ q # <<>> THEN <<Head(q)>> ELSE <<>>
ScheduleTransaction(d, q) ==
    LET s == ScheduledTransaction(d, q) IN
    /\ transactionQueue' = [transactionQueue EXCEPT ![d] = SubSeq(q, Len(s) + 1, Len(q))]
    /\ inProgress' = [inProgress EXCEPT ![d] = s # <<>>]

(* runTransaction, when the queue is enabled.                              *)
AddTransaction(t) ==
    LET d == DbOf[t] q == Append(transactionQueue[d], t) IN
    IF inProgress[d]
    THEN /\ transactionQueue' = [transactionQueue EXCEPT ![d] = q]
         /\ UNCHANGED <<inProgress, queue>>
    ELSE /\ ScheduleTransaction(d, q)
         /\ queue' = Scheduled(ScheduledTransaction(d, q))

CleanupAndTerminateFaulty(t) ==
    LET d == DbOf[t] IN
    /\ Runs(t, "CleanupAndTerminate")
    /\ DoCleanup({t})
    /\ inProgress' = [inProgress EXCEPT ![d] = FALSE]
    /\ queue' = Scheduled(GrantedByCleanup({t}))
    /\ Stop(t, "End")
    /\ UNCHANGED <<killed, thread, closing, opened, interrupted, deleted, queueEnabled,
                   transactionQueue, current, retry, callbackVars>>
(* cleanupAndTerminate, with inProgressTransactionCompleted.               *)
CleanupAndTerminate(t) ==
    LET d == DbOf[t] IN
    /\ Runs(t, "CleanupAndTerminate")
    /\ DoCleanup({t})
    /\ ScheduleTransaction(d, transactionQueue[d])
    /\ queue' = Scheduled(GrantedByCleanup({t}) \o ScheduledTransaction(d, transactionQueue[d]))
    /\ Stop(t, "End")
    /\ UNCHANGED <<killed, thread, closing, opened, interrupted, deleted, queueEnabled,
                   current, retry, callbackVars>>

-----------------------------------------------------------------------------
CloseTransactionQueueFaulty(d) ==
    /\ transactionQueue' = [transactionQueue EXCEPT ![d] = <<>>]
    /\ queueEnabled' = [queueEnabled EXCEPT ![d] = FALSE]
    /\ inProgress' = [inProgress EXCEPT ![d] = FALSE]
    /\ closing' = d
    /\ UNCHANGED <<killed, thread, running, opened, interrupted, deleted, coordinatorVars,
                   backendVars, callbackVars>>
(* close(), first part: under its mutex the queue of the handle is emptied *)
(* for good.  These transactions have no lock yet.                         *)
CloseTransactionQueue(d) ==
    /\ DoCleanup(ToSet(transactionQueue[d]))
    /\ transactionQueue' = [transactionQueue EXCEPT ![d] = <<>>]
    /\ queueEnabled' = [queueEnabled EXCEPT ![d] = FALSE]
    /\ inProgress' = [inProgress EXCEPT ![d] = FALSE]
    /\ closing' = d
    /\ UNCHANGED <<killed, thread, running, opened, interrupted, deleted, next,
                   current, retry, callbackVars>>

PerformCloseTask(d) ==
    /\ Performs(d)
    /\ queue' = Tail(queue)
    /\ CloseTransactionQueue(d)

CloseDatabase(d) ==
    /\ closing = d /\ opened[d]
    /\ opened' = [opened EXCEPT ![d] = FALSE]
    /\ UNCHANGED <<threadVars, coordinatorVars, backendVars, callbackVars, interrupted, deleted,
                   transactionQueue, queueEnabled, inProgress>>

UnscheduleDatabaseTasksFaulty(d) ==
    /\ QueueFree /\ closing = d /\ ~opened[d]
    /\ queue' = UnscheduleTasks(d)
    /\ closing' = NoDb
    /\ UNCHANGED <<killed, thread, running, coordinatorVars, databaseVars, backendVars,
                   callbackVars>>
(* Last part: the tasks of the handle are removed, and the destructor of a *)
(* DatabaseTransactionTask that was not performed cleans up.  A lock that  *)
(* passes to another transaction would append a task to the queue, whose   *)
(* mutex this thread has: it waits for itself.                             *)
SelfLocked(d) == GrantedByCleanup(TasksOf(d) \cap Txn) # <<>>
UnscheduleDatabaseTasks(d) ==
    /\ QueueFree /\ closing = d /\ ~opened[d]
    /\ DoCleanup(TasksOf(d) \cap Txn)
    /\ queue' = UnscheduleTasks(d)
    /\ IF SelfLocked(d) THEN thread' = "selfLocked" /\ UNCHANGED closing
       ELSE closing' = NoDb /\ UNCHANGED thread
    /\ UNCHANGED <<killed, running, databaseVars, next, current, retry, callbackVars>>

-----------------------------------------------------------------------------
(* The end of the thread: the coordinator shuts down, ...                  *)
Shutdown ==
    /\ Exits
    /\ CoordinatorShutdown
    /\ Forget(Active \cup (IF ShutdownReturns THEN {} ELSE {Head(pending)}))
    /\ thread' = IF ShutdownReturns THEN "shutdown" ELSE "spinning"
    /\ UNCHANGED <<queue, killed, running, closing, databaseVars, machineVars, lockAcquired,
                   current, retry, callbackVars>>

(* ... and the databases that are still open are closed.                   *)
CloseOpenDatabase(d) ==
    /\ thread = "shutdown" /\ closing = NoDb /\ opened[d]
    /\ CloseTransactionQueue(d)
    /\ UNCHANGED queue

EndThread ==
    /\ thread = "shutdown" /\ closing = NoDb
    /\ \A d \in Db : ~opened[d]
    /\ thread' = "ended"
    /\ UNCHANGED <<queue, killed, running, closing, coordinatorVars, databaseVars, backendVars,
                   callbackVars>>
=============================================================================
