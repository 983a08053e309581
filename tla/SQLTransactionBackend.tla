------------------------ MODULE SQLTransactionBackend ------------------------
(***************************************************************************)
(* The half of a transaction that works on the database thread             *)
(* (SQLTransactionBackend.cpp): a state machine whose steps are tasks of   *)
(* that thread.  It waits in "Idle" while the lock or the half on the      *)
(* script thread is to answer, and every state function is an action.      *)
(***************************************************************************)
EXTENDS SQLTransactionCoordinator

CONSTANTS
    HasCallback,        \* the transactions that were given a callback
    HasErrorCallback    \* ... and an error callback

ASSUME CallbackAssumption == HasCallback \subseteq Txn /\ HasErrorCallback \subseteq Txn

VARIABLES
    opened,             \* DatabaseBackendBase::m_opened
    interrupted,        \* SQLiteDatabase::m_interrupted
    deleted,            \* Database::m_deleted
    transactionQueue,   \* DatabaseBackend::m_transactionQueue
    queueEnabled,       \* m_isTransactionQueueEnabled
    inProgress,         \* m_transactionInProgress
    requested,          \* SQLTransactionBackend::m_requestedState
    next,               \* m_nextState
    frontend,           \* whether m_frontend is still set
    lockAcquired,       \* m_lockAcquired
    originLock,         \* the transaction that has m_originLock
    sqlite,             \* the state of m_sqliteTransaction, the object only (see Forget)
    statements,         \* how many statements are in m_statementQueue
    current,            \* how m_currentStatementBackend ended
    retry,              \* m_shouldRetryCurrentStatement
    posted,             \* tasks of the script thread: callbacks to perform
    scriptRequested     \* SQLTransaction::m_requestedState

databaseVars == <<opened, interrupted, deleted, transactionQueue, queueEnabled, inProgress>>
machineVars == <<requested, next>>
statementVars == <<statements, current, retry>>
backendVars == <<machineVars, frontend, lockAcquired, originLock, sqlite, statementVars>>
callbackVars == <<posted, scriptRequested>>

BackendState ==
    {"AcquireLock", "OpenTransactionAndPreflight", "RunStatements", "PostflightAndCommit",
     "CleanupAndTerminate", "CleanupAfterTransactionErrorCallback"}
FrontendState ==
    {"DeliverTransactionCallback", "DeliverTransactionErrorCallback",
     "DeliverStatementCallback", "DeliverQuotaIncreaseCallback", "DeliverSuccessCallback"}

BackendInit ==
    /\ opened = [d \in Db |-> TRUE]
    /\ interrupted = [d \in Db |-> FALSE]
    /\ deleted = [d \in Db |-> FALSE]
    /\ transactionQueue = [d \in Db |-> <<>>]
    /\ queueEnabled = [d \in Db |-> TRUE]
    /\ inProgress = [d \in Db |-> FALSE]
    /\ requested = [t \in Txn |-> "AcquireLock"]
    /\ next = [t \in Txn |-> "Idle"]
    /\ frontend = [t \in Txn |-> FALSE]
    /\ lockAcquired = [t \in Txn |-> FALSE]
    /\ originLock = NoTxn
    /\ sqlite = [t \in Txn |-> "none"]
    /\ statements = [t \in Txn |-> 0]
    /\ current = [t \in Txn |-> "none"]
    /\ retry = [t \in Txn |-> FALSE]
    /\ posted = <<>>
    /\ scriptRequested = [t \in Txn |-> "Idle"]

Runs(t, s) == running = t /\ next[t] = s
Usable(d) == opened[d] /\ ~interrupted[d]

(* The machine goes on with s, or stops.                                   *)
GoOn(t, s) == next' = [next EXCEPT ![t] = s] /\ UNCHANGED <<running, callbackVars>>
Stop(t, s) == next' = [next EXCEPT ![t] = s] /\ running' = NoTxn
RequestFrontend(t, s) ==
    /\ scriptRequested' = [scriptRequested EXCEPT ![t] = s]
    /\ posted' = Append(posted, t)
SendToFrontend(t, s) == Stop(t, "Idle") /\ RequestFrontend(t, s)

NextStateForTransactionError(t) ==
    IF t \in HasErrorCallback THEN SendToFrontend(t, "DeliverTransactionErrorCallback")
    ELSE GoOn(t, "CleanupAfterTransactionErrorCallback")

(* lockAcquired of the transactions g, which the coordinator lets in.      *)
LockAcquired(g) ==
    /\ lockAcquired' = [t \in Txn |-> lockAcquired[t] \/ t \in ToSet(g)]
    /\ requested' = [t \in Txn |-> IF t \in ToSet(g) THEN "OpenTransactionAndPreflight"
                                   ELSE requested[t]]

OriginLockWithout(T) == IF originLock \in T THEN NoTxn ELSE originLock

ForgetFaulty(T) ==
    /\ frontend' = [t \in Txn |-> frontend[t] /\ t \notin T]
    /\ statements' = [t \in Txn |-> IF t \in T THEN 0 ELSE statements[t]]
    /\ sqlite' = [t \in Txn |-> IF t \in T /\ sqlite[t] = "open" THEN "none" ELSE sqlite[t]]
    /\ UNCHANGED originLock
(* What doCleanup forgets about the transactions T.  `sqlite` is what the  *)
(* object m_sqliteTransaction says: its destructor rolls SQLite back while *)
(* the transaction is in progress, but not after stop(), which precedes    *)
(* the cleanup on an interrupted or closed handle (AbandonStep).  There    *)
(* `sqlite` does not speak of SQLite's own transaction.                    *)
Forget(T) ==
    /\ frontend' = [t \in Txn |-> frontend[t] /\ t \notin T]
    /\ originLock' = OriginLockWithout(T)
    /\ statements' = [t \in Txn |-> IF t \in T THEN 0 ELSE statements[t]]
    /\ sqlite' = [t \in Txn |-> IF t \in T /\ sqlite[t] = "open" THEN "none" ELSE sqlite[t]]

(* doCleanup of the transactions T.  Those already cleaned up stay as they *)
(* are; the locks of the others pass to GrantedByCleanup(T).               *)
LocksOf(T) == {t \in T : frontend[t] /\ lockAcquired[t]}
GrantedByCleanup(T) == GrantedByRelease(LocksOf(T))
DoCleanup(T) ==
    /\ Forget({t \in T : frontend[t]})
    /\ CoordinatorReleaseLock(LocksOf(T))
    /\ LockAcquired(GrantedByCleanup(T))

-----------------------------------------------------------------------------
(* computeNextStateAndCleanupIfNeeded, when the database is in use.        *)
StartStep(t) ==
    /\ Performs(t) /\ Usable(DbOf[t])
    /\ queue' = Tail(queue)
    /\ running' = t
    /\ next' = [next EXCEPT ![t] = requested[t]]
    /\ requested' = [requested EXCEPT ![t] = "Idle"]
    /\ UNCHANGED <<killed, thread, closing, coordinatorVars, databaseVars, frontend, lockAcquired,
                   originLock, sqlite, statementVars, callbackVars>>

(* ... and when it was closed or interrupted: the first time, the frontend *)
(* is told to end, m_sqliteTransaction is stopped and destroyed without a  *)
(* ROLLBACK, and the transaction is cleaned up.                            *)
AbandonStep(t) ==
    /\ Performs(t) /\ ~Usable(DbOf[t])
    /\ IF next[t] = "End"
       THEN /\ queue' = Tail(queue)
            /\ UNCHANGED <<running, coordinatorVars, backendVars, callbackVars>>
       ELSE /\ Stop(t, "End")
            /\ RequestFrontend(t, "End")
            /\ DoCleanup({t})
            /\ queue' = Tail(queue) \o GrantedByCleanup({t})
            /\ UNCHANGED <<current, retry>>
    /\ UNCHANGED <<killed, thread, closing, databaseVars>>

AcquireLock(t) ==
    /\ Runs(t, "AcquireLock")
    /\ CoordinatorAcquireLock(t)
    /\ LockAcquired(GrantedByAcquire(t))
    /\ queue' = Scheduled(GrantedByAcquire(t))
    /\ Stop(t, "Idle")
    /\ UNCHANGED <<killed, thread, closing, databaseVars, frontend, originLock, sqlite,
                   statementVars, callbackVars>>

(* A deleted database is refused before the origin lock is taken; when     *)
(* BEGIN, the version or the preflight fails, the lock is kept.            *)
OpenTransactionAndPreflight(t) ==
    /\ Runs(t, "OpenTransactionAndPreflight")
    /\ \/ /\ deleted[DbOf[t]]
          /\ NextStateForTransactionError(t)
          /\ UNCHANGED <<originLock, sqlite>>
       \/ /\ ~deleted[DbOf[t]]
          /\ t \in ReadOnly \/ originLock = NoTxn
          /\ originLock' = IF t \in ReadOnly THEN originLock ELSE t
          /\ \/ NextStateForTransactionError(t) /\ UNCHANGED sqlite
             \/ /\ sqlite' = [sqlite EXCEPT ![t] = "open"]
                /\ IF t \in HasCallback THEN SendToFrontend(t, "DeliverTransactionCallback")
                   ELSE GoOn(t, "RunStatements")
    /\ UNCHANGED <<queue, killed, thread, closing, coordinatorVars, databaseVars, requested,
                   frontend, lockAcquired, statementVars>>
-----------------------------------------------------------------------------
(* A statement failed: its error callback is called unless SQLite rolled   *)
(* the transaction back or there is none.                                  *)
NextStateForCurrentStatementError(t) ==
    \/ SendToFrontend(t, "DeliverStatementCallback")
    \/ NextStateForTransactionError(t)

(* The statement in hand is executed.  Only a statement that writes can    *)
(* exceed the quota; one that is retried may do so again.                  *)
RunCurrentStatement(t) ==
    \/ current' = [current EXCEPT ![t] = "ran"] /\ GoOn(t, "RunStatements")
    \/ current' = [current EXCEPT ![t] = "ran"] /\ SendToFrontend(t, "DeliverStatementCallback")
    \/ /\ t \notin ReadOnly
       /\ current' = [current EXCEPT ![t] = "quota"]
       /\ SendToFrontend(t, "DeliverQuotaIncreaseCallback")
    \/ current' = [current EXCEPT ![t] = "ran"] /\ NextStateForCurrentStatementError(t)

(* One round of the loop in runStatements.  The client may have let the    *)
(* quota grow: unless SQLite has rolled back, the statement is retried.    *)
RetryStatement(t) ==
    /\ retry[t]
    /\ retry' = [retry EXCEPT ![t] = FALSE]
    /\ RunCurrentStatement(t)
    /\ UNCHANGED statements
FailStatement(t) ==
    /\ current[t] = "quota"
    /\ IF retry[t] THEN NextStateForTransactionError(t)
       ELSE NextStateForCurrentStatementError(t)
    /\ UNCHANGED statementVars
NextStatementFaulty(t) ==
    /\ ~retry[t] /\ current[t] # "quota"
    /\ statements' = [statements EXCEPT ![t] = @ - 1]
    /\ RunCurrentStatement(t)
    /\ UNCHANGED retry
NextStatement(t) ==
    /\ ~retry[t] /\ current[t] # "quota" /\ statements[t] > 0
    /\ statements' = [statements EXCEPT ![t] = @ - 1]
    /\ RunCurrentStatement(t)
    /\ UNCHANGED retry
LastStatement(t) ==
    /\ ~retry[t] /\ current[t] # "quota" /\ statements[t] = 0
    /\ current' = [current EXCEPT ![t] = "none"]
    /\ GoOn(t, "PostflightAndCommit")
    /\ UNCHANGED <<statements, retry>>

RunStatements(t) ==
    /\ Runs(t, "RunStatements")
    /\ RetryStatement(t) \/ FailStatement(t) \/ NextStatement(t) \/ LastStatement(t)
    /\ UNCHANGED <<queue, killed, thread, closing, coordinatorVars, databaseVars, requested,
                   frontend, lockAcquired, originLock, sqlite>>

PostflightAndCommitFaulty(t) ==
    /\ Runs(t, "PostflightAndCommit")
    /\ \/ NextStateForTransactionError(t) /\ UNCHANGED <<originLock, sqlite>>
       \/ /\ originLock' = OriginLockWithout({t})
          /\ UNCHANGED sqlite
          /\ SendToFrontend(t, "DeliverSuccessCallback")
       \/ /\ originLock' = OriginLockWithout({t})
          /\ sqlite' = [sqlite EXCEPT ![t] = "committed"]
          /\ SendToFrontend(t, "DeliverSuccessCallback")
    /\ UNCHANGED <<queue, killed, thread, closing, coordinatorVars, databaseVars, requested,
                   frontend, lockAcquired, statementVars>>
(* The postflight fails, COMMIT fails (the transaction stays open, without *)
(* the origin lock), or it succeeds.                                       *)
PostflightAndCommit(t) ==
    /\ Runs(t, "PostflightAndCommit")
    /\ \/ NextStateForTransactionError(t) /\ UNCHANGED <<originLock, sqlite>>
       \/ /\ originLock' = OriginLockWithout({t})
          /\ UNCHANGED sqlite
          /\ NextStateForTransactionError(t)
       \/ /\ originLock' = OriginLockWithout({t})
          /\ sqlite' = [sqlite EXCEPT ![t] = "committed"]
          /\ SendToFrontend(t, "DeliverSuccessCallback")
    /\ UNCHANGED <<queue, killed, thread, closing, coordinatorVars, databaseVars, requested,
                   frontend, lockAcquired, statementVars>>

CleanupAfterTransactionErrorCallback(t) ==
    /\ Runs(t, "CleanupAfterTransactionErrorCallback")
    /\ sqlite' = [sqlite EXCEPT ![t] = IF @ = "open" THEN "none" ELSE @]
    /\ originLock' = OriginLockWithout({t})
    /\ GoOn(t, "CleanupAndTerminate")
    /\ UNCHANGED <<queue, killed, thread, closing, coordinatorVars, databaseVars, requested,
                   frontend, lockAcquired, statementVars>>
=============================================================================
