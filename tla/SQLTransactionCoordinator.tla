---------------------- MODULE SQLTransactionCoordinator ----------------------
(***************************************************************************)
(* The lock of an origin (SQLTransactionCoordinator.cpp): transactions     *)
(* queue for it; readers at the front of the queue share it, a writer has  *)
(* it alone.  The code keeps one record of this kind per origin.           *)
(***************************************************************************)
EXTENDS DatabaseThread, SequencesExt

CONSTANT ReadOnly       \* the transactions made by readTransaction

ASSUME ReadOnlyAssumption == ReadOnly \subseteq Txn

VARIABLES
    pending,            \* pendingTransactions
    activeReads,        \* activeReadTransactions
    activeWrite,        \* activeWriteTransaction
    shuttingDown        \* m_isShuttingDown

coordinatorVars == <<pending, activeReads, activeWrite, shuttingDown>>

CoordinatorInit ==
    /\ pending = <<>>
    /\ activeReads = {}
    /\ activeWrite = NoTxn
    /\ shuttingDown = FALSE

Active == activeReads \cup ({activeWrite} \ {NoTxn})

LeadingReads(p) ==
    LET writers == {i \in DOMAIN p : p[i] \notin ReadOnly}
    IN  IF writers = {} THEN p ELSE SubSeq(p, 1, Min(writers) - 1)

GrantedFaulty(p, R, w) ==
    CASE p = <<>> -> <<>>
      [] Head(p) \in ReadOnly -> LeadingReads(p)
      [] R = {} -> <<Head(p)>>
      [] OTHER -> <<>>
(* The transactions at the front of p that get the lock when the readers R *)
(* and the writer w have it.                                               *)
Granted(p, R, w) ==
    CASE w # NoTxn \/ p = <<>> -> <<>>
      [] w = NoTxn /\ p # <<>> /\ Head(p) \in ReadOnly -> LeadingReads(p)
      [] w = NoTxn /\ p # <<>> /\ Head(p) \notin ReadOnly /\ R = {} -> <<Head(p)>>
      [] OTHER -> <<>>

ProcessPendingTransactions(p, R, w) ==
    LET g == Granted(p, R, w) IN
    /\ pending' = SubSeq(p, Len(g) + 1, Len(p))
    /\ activeReads' = R \cup (ToSet(g) \cap ReadOnly)
    /\ activeWrite' = IF ToSet(g) \subseteq ReadOnly THEN w ELSE Head(g)
    /\ UNCHANGED shuttingDown

(* acquireLock, and the transactions it lets in.                           *)
GrantedByAcquire(t) == Granted(Append(pending, t), activeReads, activeWrite)
CoordinatorAcquireLock(t) ==
    ProcessPendingTransactions(Append(pending, t), activeReads, activeWrite)

(* releaseLock for the transactions T, and the transactions it lets in.    *)
Without(T) == IF activeWrite \in T THEN NoTxn ELSE activeWrite
GrantedByRelease(T) ==
    IF T = {} \/ shuttingDown THEN <<>> ELSE Granted(pending, activeReads \ T, Without(T))
CoordinatorReleaseLock(T) ==
    IF T = {} \/ shuttingDown THEN UNCHANGED coordinatorVars
    ELSE ProcessPendingTransactions(pending, activeReads \ T, Without(T))

(* shutdown returns only when nothing is pending: the loop over the        *)
(* pending transactions takes none of them out.                            *)
ShutdownReturns == pending = <<>>
CoordinatorShutdown ==
    /\ shuttingDown' = TRUE
    /\ IF ShutdownReturns THEN activeReads' = {} /\ activeWrite' = NoTxn
       ELSE UNCHANGED <<activeReads, activeWrite>>
    /\ UNCHANGED pending
=============================================================================
