--------------------------- MODULE DatabaseThread ---------------------------
(***************************************************************************)
(* The thread that runs the asynchronous databases of one script context   *)
(* (DatabaseThread.cpp), with the queue of tasks that other threads fill   *)
(* (MessageQueue.h).  A transaction in the queue stands for a              *)
(* DatabaseTransactionTask, a database for its DatabaseCloseTask.          *)
(***************************************************************************)
EXTENDS Integers, Sequences, FiniteSets

CONSTANTS
    Db,         \* handles of databases of one origin, opened in one context
    Txn,        \* the transactions that script may start
    DbOf,       \* the handle a transaction is started on
    NoDb,
    NoTxn

ASSUME DatabaseAssumption ==
    /\ IsFiniteSet(Db) /\ IsFiniteSet(Txn)
    /\ Db \cap Txn = {} /\ NoDb \notin Db /\ NoTxn \notin Txn
    /\ DbOf \in [Txn -> Db]

VARIABLES
    queue,      \* m_queue
    killed,     \* MessageQueue::m_killed
    thread,     \* where databaseThread() is
    running,    \* the transaction whose task is being performed
    closing     \* the database that is in the middle of close()

threadVars == <<queue, killed, thread, running, closing>>

Task == Txn \cup Db
TaskDatabase(k) == IF k \in Txn THEN DbOf[k] ELSE k

DatabaseThreadInit ==
    /\ queue = <<>>
    /\ killed = FALSE
    /\ thread = "loop"
    /\ running = NoTxn
    /\ closing = NoDb

(* The mutex of the queue is to be had.                                    *)
QueueFree == thread # "selfLocked"
Scheduled(ks) == queue \o ks
ScheduledImmediately(k) == <<k>> \o queue

(* waitForMessage: a killed queue hands out nothing, even when it is full. *)
Performs(k) ==
    /\ thread = "loop" /\ ~killed /\ running = NoTxn /\ closing = NoDb
    /\ queue # <<>> /\ Head(queue) = k

Exits == thread = "loop" /\ killed /\ running = NoTxn /\ closing = NoDb

UnscheduleTasksFaulty(d) == queue
(* removeIf: the tasks that stay, in their order.  Those that go are       *)
(* destroyed under the queue's own mutex.                                  *)
UnscheduleTasks(d) ==
    LET stay == {i \in DOMAIN queue : TaskDatabase(queue[i]) # d}
        nth(n) == CHOOSE i \in stay : Cardinality({j \in stay : j <= i}) = n IN
    [n \in 1 .. Cardinality(stay) |-> queue[nth(n)]]

TasksOf(d) == {k \in Task : TaskDatabase(k) = d /\ \E i \in DOMAIN queue : queue[i] = k}
=============================================================================
