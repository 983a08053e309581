------------------------ MODULE WebDatabaseProperties ------------------------
(***************************************************************************)
(* What the parts of the Web SQL implementation promise together.          *)
(***************************************************************************)
EXTENDS WebDatabase

Hangs == thread \in {"spinning", "selfLocked"}

(* Every variable stays in its type.                                       *)
TypeOK ==
    /\ queue \in Seq(Task) /\ killed \in BOOLEAN
    /\ thread \in {"loop", "shutdown", "spinning", "selfLocked", "ended"}
    /\ running \in Txn \cup {NoTxn} /\ closing \in Db \cup {NoDb}
    /\ pending \in Seq(Txn) /\ activeReads \subseteq ReadOnly
    /\ activeWrite \in (Txn \ ReadOnly) \cup {NoTxn} /\ shuttingDown \in BOOLEAN
    /\ opened \in [Db -> BOOLEAN] /\ interrupted \in [Db -> BOOLEAN] /\ deleted \in [Db -> BOOLEAN]
    /\ transactionQueue \in [Db -> Seq(Txn)]
    /\ queueEnabled \in [Db -> BOOLEAN] /\ inProgress \in [Db -> BOOLEAN]
    /\ requested \in [Txn -> BackendState \cup {"Idle"}]
    /\ next \in [Txn -> BackendState \cup {"Idle", "End"}]
    /\ frontend \in [Txn -> BOOLEAN] /\ lockAcquired \in [Txn -> BOOLEAN]
    /\ originLock \in (Txn \ ReadOnly) \cup {NoTxn}
    /\ sqlite \in [Txn -> {"none", "open", "committed"}]
    /\ statements \in [Txn -> 0 .. MaxStatements]
    /\ current \in [Txn -> {"none", "ran", "quota"}] /\ retry \in [Txn -> BOOLEAN]
    /\ posted \in Seq(Txn)
    /\ scriptRequested \in [Txn -> FrontendState \cup {"Idle", "End"}]
    /\ wrappers \subseteq Txn /\ told \in [Txn -> {"nothing", "success", "error"}]
    /\ allowance \in [Txn -> 0 .. MaxStatements]
    /\ worker \in BOOLEAN /\ unissued \subseteq Txn
    /\ deleting \in Db \cup {NoDb} /\ deleteStep \in {"idle", "checked", "waiting"}

(* While SQLite works for a writer it works for nobody else of the origin, *)
(* and never for two transactions of one handle (the assertions on         *)
(* transactionInProgress).                                                 *)
WritersAlone ==
    \A s, t \in Txn : s # t /\ sqlite[s] = "open" /\ sqlite[t] = "open" =>
        s \in ReadOnly /\ t \in ReadOnly /\ DbOf[s] # DbOf[t]

(* How many steps of t are under way.                                      *)
Count(q, t) == Cardinality({i \in DOMAIN q : q[i] = t})
Steps(t) ==
      Count(queue, t) + Count(posted, t) + Count(pending, t) + Count(transactionQueue[DbOf[t]], t)
    + (IF running = t THEN 1 ELSE 0)

(* The halves of a transaction have one field each for the state that is   *)
(* requested, without a lock: a transaction that has not ended is in one   *)
(* place at most, so no request is ever overwritten, and until the thread  *)
(* ends one of its steps is always under way.                              *)
OneStepPerTransaction ==
    \A t \in Txn : frontend[t] /\ thread = "loop" => Steps(t) = 1

(* A task of a transaction that was cleaned up does nothing: either the    *)
(* backend reached its end or it is never performed again (m_frontend is   *)
(* used without a test).                                                   *)
NoStepAfterCleanup ==
    \A t \in Txn : ~frontend[t] /\ t \notin unissued /\ Performs(t) => next[t] = "End"

(* Whoever was cleaned up has no lock and no open SQLite transaction, and  *)
(* the origin lock belongs to the writer that the coordinator let in.      *)
LocksReturned ==
    /\ \A t \in Txn : ~frontend[t] =>
         /\ sqlite[t] # "open" /\ originLock # t
         /\ ~shuttingDown => t \notin Active \cup ToSet(pending)
    /\ originLock # NoTxn => originLock = activeWrite

(* Script is told that a transaction succeeded only after the commit, and  *)
(* that it failed only if there was none.                                  *)
ReportsAreTrue ==
    \A t \in Txn : /\ told[t] = "success" => sqlite[t] = "committed"
                   /\ told[t] = "error" => sqlite[t] # "committed"

(* When the thread has ended every transaction was cleaned up on it: the   *)
(* tasks that stay in its queue are destroyed on other threads.            *)
NothingLeftAtEnd == thread = "ended" => \A t \in Txn : ~frontend[t]

(* The main thread waits for a close task that will be performed.  (A      *)
(* worker can kill the queue at any time.)                                 *)
CloseIsPerformed ==
    deleteStep = "waiting" /\ ~worker => deleting \in ToSet(queue) \/ closing = deleting

(* The termination request leads to an orderly shutdown of the thread.     *)
ShutdownIsOrderly == thread # "spinning"

(* A statement of t waits for an answer about the quota, or exceeded it    *)
(* and may not be retried.  If the answer is always yes and never enough,  *)
(* or if it is no and the statement's error callback accepts that,         *)
(* runStatements comes back to the same statement for ever.                *)
QuotaTrouble(t) ==
    /\ frontend[t]
    /\ \/ current[t] = "quota" /\ ~retry[t]
       \/ scriptRequested[t] = "DeliverQuotaIncreaseCallback"

(* The transactions that were started end, all of them, whatever fails:    *)
(* the lock goes round, the transactions of a handle follow each other,    *)
(* and closing, interrupting or stopping ends those that wait (unless the  *)
(* thread hangs or a transaction does not get over its quota).             *)
TransactionsEnd ==
    <>[](\A t \in Txn : ~QuotaTrouble(t)) =>
        []<>(Hangs \/ \A t \in Txn : ~frontend[t])
=============================================================================
