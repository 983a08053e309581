--------------------------- MODULE SQLTransaction ---------------------------
(***************************************************************************)
(* The half of a transaction on the script thread (SQLTransaction.cpp):    *)
(* it calls script back and tells the backend which state comes next.      *)
(* Every action performs one DeliverPendingCallbackTask.                   *)
(***************************************************************************)
EXTENDS DatabaseBackend

CONSTANTS
    QuotaAnswers,   \* what didExceedQuota may return
    MaxStatements   \* bound: statements of a transaction

ASSUME StatementAssumption == QuotaAnswers \subseteq BOOLEAN /\ MaxStatements \in Nat

VARIABLES
    wrappers,       \* the transactions whose callback wrappers are set
    told,           \* which of its last callbacks a transaction has called
    allowance       \* how many statements script may still add

scriptVars == <<wrappers, told, allowance>>

SQLTransactionInit ==
    /\ wrappers = {}
    /\ told = [t \in Txn |-> "nothing"]
    /\ allowance = [t \in Txn |-> MaxStatements]

(* requestTransitToState of the backend, through sendToBackendState.       *)
SendToBackend(t, s) ==
    /\ requested' = [requested EXCEPT ![t] = s]
    /\ queue' = Scheduled(<<t>>)

TakeCallback(t) ==
    /\ posted # <<>> /\ Head(posted) = t
    /\ posted' = Tail(posted)
    /\ UNCHANGED <<killed, thread, running, closing, coordinatorVars, databaseVars, next,
                   frontend, lockAcquired, originLock, sqlite, current>>

Delivers(t, s) ==
    /\ TakeCallback(t) /\ Usable(DbOf[t]) /\ scriptRequested[t] = s
    /\ scriptRequested' = [scriptRequested EXCEPT ![t] = "Idle"]

(* executeSQL, as often as script likes during a callback.                 *)
ExecuteSQL(t) ==
    \E n \in 0 .. allowance[t] :
        /\ statements' = [statements EXCEPT ![t] = @ + n]
        /\ allowance' = [allowance EXCEPT ![t] = @ - n]

CallErrorCallback(t) ==
    /\ told' = IF t \in wrappers \cap HasErrorCallback THEN [told EXCEPT ![t] = "error"] ELSE told
    /\ wrappers' = wrappers \ {t}
    /\ SendToBackend(t, "CleanupAfterTransactionErrorCallback")

(* The callback returns, or throws: then the error callback follows.       *)
DeliverTransactionCallback(t) ==
    /\ Delivers(t, "DeliverTransactionCallback")
    /\ ExecuteSQL(t)
    /\ \/ SendToBackend(t, "RunStatements") /\ UNCHANGED <<told, wrappers>>
       \/ CallErrorCallback(t)
    /\ UNCHANGED retry

DeliverTransactionErrorCallback(t) ==
    /\ Delivers(t, "DeliverTransactionErrorCallback")
    /\ CallErrorCallback(t)
    /\ UNCHANGED <<statements, retry, allowance>>

DeliverStatementCallback(t) ==
    /\ Delivers(t, "DeliverStatementCallback")
    /\ ExecuteSQL(t)
    /\ \/ SendToBackend(t, "RunStatements") /\ UNCHANGED <<told, wrappers>>
       \/ t \in HasErrorCallback /\ CallErrorCallback(t)
       \/ /\ t \notin HasErrorCallback
          /\ SendToBackend(t, "CleanupAfterTransactionErrorCallback")
          /\ UNCHANGED <<told, wrappers>>
    /\ UNCHANGED retry

DeliverQuotaIncreaseCallback(t) ==
    /\ Delivers(t, "DeliverQuotaIncreaseCallback")
    /\ \E b \in QuotaAnswers : retry' = [retry EXCEPT ![t] = b]
    /\ SendToBackend(t, "RunStatements")
    /\ UNCHANGED <<statements, scriptVars>>

DeliverSuccessCallback(t) ==
    /\ Delivers(t, "DeliverSuccessCallback")
    /\ told' = IF t \in wrappers THEN [told EXCEPT ![t] = "success"] ELSE told
    /\ wrappers' = wrappers \ {t}
    /\ SendToBackend(t, "CleanupAndTerminate")
    /\ UNCHANGED <<statements, retry, allowance>>

(* computeNextStateAndCleanupIfNeeded, when the database was closed or     *)
(* interrupted: whatever was requested, the backend is to clean up.        *)
AbandonCallback(t) ==
    /\ TakeCallback(t) /\ ~Usable(DbOf[t])
    /\ wrappers' = wrappers \ {t}
    /\ SendToBackend(t, "CleanupAndTerminate")
    /\ UNCHANGED <<scriptRequested, statements, retry, told, allowance>>

PerformPendingCallback(t) ==
    \/ DeliverTransactionCallback(t)
    \/ DeliverTransactionErrorCallback(t)
    \/ DeliverStatementCallback(t)
    \/ DeliverQuotaIncreaseCallback(t)
    \/ DeliverSuccessCallback(t)
    \/ AbandonCallback(t)
=============================================================================
